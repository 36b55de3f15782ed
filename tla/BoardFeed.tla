------------------------------ MODULE BoardFeed ------------------------------
(***************************************************************************)
(* What the WebSocket layer promises to a connection, without goroutines,  *)
(* channels or buffers: every board has a stream of events, a connection   *)
(* subscribes to one board at some point of the stream, and what reaches   *)
(* the browser is the stream from that point on, in order and without a    *)
(* gap, until the connection is dropped.  What was published before the    *)
(* drop may still arrive, nothing that was published later does.           *)
(***************************************************************************)
EXTENDS Naturals, Sequences

CONSTANTS Conns, Boards, BoardOf

VARIABLES
  log,    \* the events of all boards, in the order they were published
  phase,  \* phase[c]: "new", "live" or "gone"
  from,   \* from[c]: the length of the log when c subscribed
  to,     \* to[c]: the length of the log when c was dropped
  got     \* got[c]: the events that reached the browser, as places in log

vars == <<log, phase, from, to, got>>

(* The events of c's board between two places of the log. *)
Events(c, i, j) == {k \in i + 1 .. j : log[k] = BoardOf[c]}

First(S) == CHOOSE i \in S : \A j \in S : i <= j

Limit(c) == IF phase[c] = "gone" THEN to[c] ELSE Len(log)

Last(c) == IF got[c] = <<>> THEN from[c] ELSE got[c][Len(got[c])]

Init ==
  /\ log = <<>>
  /\ phase = [c \in Conns |-> "new"]
  /\ from = [c \in Conns |-> 0]
  /\ to = [c \in Conns |-> 0]
  /\ got = [c \in Conns |-> <<>>]

Publish(b) ==
  /\ log' = Append(log, b)
  /\ UNCHANGED <<phase, from, to, got>>

Subscribe(c) ==
  /\ phase[c] = "new"
  /\ phase' = [phase EXCEPT ![c] = "live"]
  /\ from' = [from EXCEPT ![c] = Len(log)]
  /\ UNCHANGED <<log, to, got>>

(* A connection leaves, is too slow, or its user lost access. *)
Drop(D) ==
  /\ \A c \in D : phase[c] = "live"
  /\ phase' = [c \in Conns |-> IF c \in D THEN "gone" ELSE phase[c]]
  /\ to' = [c \in Conns |-> IF c \in D THEN Len(log) ELSE to[c]]
  /\ UNCHANGED <<log, from, got>>

Deliver(c) ==
  LET next == Events(c, Last(c), Limit(c)) IN
  /\ phase[c] # "new"
  /\ next # {}
  /\ got' = [got EXCEPT ![c] = Append(@, First(next))]
  /\ UNCHANGED <<log, phase, from, to>>

Next ==
  \/ \E b \in Boards : Publish(b)
  \/ \E D \in SUBSET Conns : Drop(D)
  \/ \E c \in Conns : Subscribe(c) \/ Deliver(c)

Spec == Init /\ [][Next]_vars
=============================================================================
