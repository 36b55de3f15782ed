----------------------------- MODULE MCInvites -----------------------------
(***************************************************************************)
(* Instances of Invites for TLC.  Managers and accepts are interchangeable. *)
(***************************************************************************)
EXTENDS Invites, TLC

Interchangeable == Permutations(Managers) \cup Permutations(Accepts)

=============================================================================
