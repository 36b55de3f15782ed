----------------------------- MODULE MCPlanning -----------------------------
(* A small instance of Planning: two items to begin with, one of them        *)
(* selected, dropped or promoted, and room for a third.                     *)
EXTENDS Planning

SomeStarts ==
  {<<Row("Q", "a", "live"), Row("REQ", "a", s), NoRow>> :
     s \in {"selected", "dropped", "promoted"}}
=============================================================================
