----------------------------- MODULE MCBoardRoom -----------------------------
(* Small instances of a board with its room. *)
EXTENDS BoardRoom, TLC

(* Requests are interchangeable; users are ordered, so they are not. *)
Slots == Permutations(Reqs)
=============================================================================
