------------------------- MODULE MCBoardMembership -------------------------
(***************************************************************************)
(* Instances of BoardMembership for TLC.  Request slots are interchangeable *)
(* (symmetry); user ids are not, because row locks are taken in their       *)
(* order.                                                                   *)
(***************************************************************************)
EXTENDS BoardMembership, TLC

Slots == Permutations(Reqs)

=============================================================================
