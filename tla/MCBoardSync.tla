---------------------------- MODULE MCBoardSync ----------------------------
(***************************************************************************)
(* Instances of BoardSync for TLC: pages and request slots are              *)
(* interchangeable.                                                         *)
(***************************************************************************)
EXTENDS BoardSync, TLC

PagesAndSlots == Permutations(Tabs) \cup Permutations(Reqs)

=============================================================================
