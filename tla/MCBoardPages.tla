---------------------------- MODULE MCBoardPages ----------------------------
(* A May of six weeks that begins on a Friday; the page is loaded on the 30th. *)
EXTENDS BoardPages

Places(c, p, d) ==
  [col |-> c, pos |-> p, turn |-> 0, due |-> d, who |-> None, prio |-> None, tags |-> {},
   done |-> FALSE, doneAt |-> NoDay, made |-> 20, begun |-> FALSE]

MCBoards ==
  {1 :> [Places(13, 16, 30) EXCEPT !.who = "bo", !.prio = "high", !.tags = {"t"},
                                   !.done = TRUE, !.doneAt = 28]
     @@ 2 :> [Places(11, 16, 36) EXCEPT !.who = "bo"]
     @@ 3 :> [Places(11, 32, 28) EXCEPT !.who = "me", !.begun = TRUE]}
MCMonths == <<0, 31, 61>>
=============================================================================
