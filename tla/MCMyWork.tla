------------------------------ MODULE MCMyWork ------------------------------
(* Two cards on two boards, around the user's tenth day. *)
EXTENDS MyWork

MCBoardOf == <<"b1", "b2">>

(* One overdue and one due today; one due today and one without a date. *)
MCStarts == {<<9, 10>>, <<10, 0>>}

(* Both due today. *)
BothToday == {<<10, 10>>}
=============================================================================
