---------------------------- MODULE MCCardDialog ----------------------------
(* A card that Me is to do, with one subtask, on a board of two columns. *)
EXTENDS CardDialog

MCFields == {"title", "acceptance_criteria", "assignee_id", "tags"}
MCEntries ==
  [title |-> {"", "a", "b"}, acceptance_criteria |-> {"", "x"},
   assignee_id |-> {"", "me"},
   tags |-> {T \in SUBSET Tags : Cardinality(T) <= MAX_TAGS}]
MCStart == [title |-> "a", acceptance_criteria |-> "x", assignee_id |-> "me", tags |-> {}]
=============================================================================
