--------------------------------- MODULE Hub ---------------------------------
(***************************************************************************)
(* The WebSocket hub (websocket/hub.go, websocket/client.go).              *)
(*                                                                         *)
(* One goroutine, Run, owns the rooms and closes the send channels.  Each  *)
(* connection has a ReadPump, which only notices that the peer is gone,    *)
(* and a WritePump, which moves queued messages to the socket.  Request    *)
(* handlers call Broadcast and EvictUser.  All of them meet Run on         *)
(* unbuffered channels, so a call blocks until Run takes it; only the send *)
(* channels have a buffer.                                                 *)
(*                                                                         *)
(* A message is its place in log, the order in which Run took broadcasts.  *)
(***************************************************************************)
EXTENDS Naturals, Sequences, FiniteSets

CONSTANTS
  Conns,    \* connections, each used once
  Boards,
  Users,
  BoardOf,  \* BoardOf[c]: the board in c's URL
  UserOf,   \* UserOf[c]: the user in c's ticket
  Callers,  \* handler goroutines that call Broadcast or EvictUser
  Cap,      \* capacity of a send channel (256 in the code)
  MaxMsgs   \* bound: broadcasts in one behaviour

ASSUME HubAssumption ==
  /\ BoardOf \in [Conns -> Boards]
  /\ UserOf \in [Conns -> Users]
  /\ Cap \in Nat \ {0}
  /\ MaxMsgs \in Nat

VARIABLES
  joined,  \* the clients in rooms
  send,    \* send[c]: the messages in c's send channel
  closed,  \* the clients whose send channel is closed
  panic,   \* a closed channel was closed again or sent to
  todo,    \* the clients that the current broadcast has still to visit
  log,     \* log[i]: the board of the i-th broadcast that Run took
  stop,    \* the stop channel: "open", "closed", or "seen" by Run
  call,    \* call[h]: what handler h waits for, or NoCall
  reader,  \* reader[c]: ServeWs and then ReadPump of c
  writer,  \* writer[c]: WritePump of c
  hand,    \* hand[c]: the message WritePump is writing, or none
  sock,    \* sock[c]: "open", "lost" (peer gone) or "closed" (by this side)
  got,     \* got[c]: the messages that reached c's browser
  since,   \* since[c]: the length of log when c joined
  until    \* until[c]: the length of log when c left its room

rooms == <<joined, closed, panic, until>>
pumps == <<reader, writer, hand, sock, got>>
vars == <<joined, send, closed, panic, todo, log, stop, call,
          reader, writer, hand, sock, got, since, until>>

Calls == [op : {"broadcast"}, board : Boards]
         \cup [op : {"evict"}, board : Boards, user : Users]

NoCall == [op |-> "none"]

(* Fault: a broadcast goes to the clients of all rooms.                     *)
AllRooms(b) == joined

Room(b) == {c \in joined : BoardOf[c] = b}

(* Run is in its select. *)
Ready == todo = {} /\ stop # "seen"

(* Fault: the client stays in its room after its channel was closed.        *)
CloseOnly(D) ==
  /\ closed' = closed \cup D
  /\ panic' = (panic \/ D \cap closed # {})
  /\ until' = [c \in Conns |-> IF c \in D THEN Len(log) ELSE until[c]]
  /\ UNCHANGED joined

(* delete(clients, client); close(client.send) *)
Remove(D) ==
  /\ joined' = joined \ D
  /\ closed' = closed \cup D
  /\ panic' = (panic \/ D \cap closed # {})
  /\ until' = [c \in Conns |-> IF c \in D THEN Len(log) ELSE until[c]]

-----------------------------------------------------------------------------
(* Connections *)

(* ServeWs upgrades the connection and waits to register. *)
Upgrade(c) ==
  /\ reader[c] = "new"
  /\ reader' = [reader EXCEPT ![c] = "register"]
  /\ UNCHANGED <<rooms, send, todo, log, stop, call, writer, hand, sock, got,
                 since>>

StartPumps(c) ==
  /\ reader[c] = "start"
  /\ reader' = [reader EXCEPT ![c] = "read"]
  /\ writer' = [writer EXCEPT ![c] = "wait"]
  /\ UNCHANGED <<rooms, send, todo, log, stop, call, hand, sock, got, since>>

(* The peer closes, the network fails, or no pong arrives in time. *)
LosePeer(c) ==
  /\ reader[c] # "new"
  /\ sock[c] = "open"
  /\ sock' = [sock EXCEPT ![c] = "lost"]
  /\ UNCHANGED <<rooms, send, todo, log, stop, call, reader, writer, hand, got,
                 since>>

(* Fault: ReadPump closes the connection and does not unregister.           *)
ReadFailsQuietly(c) ==
  /\ reader[c] = "read"
  /\ sock[c] # "open"
  /\ reader' = [reader EXCEPT ![c] = "close"]
  /\ UNCHANGED <<rooms, send, todo, log, stop, call, writer, hand, sock, got,
                 since>>

ReadFails(c) ==
  /\ reader[c] = "read"
  /\ sock[c] # "open"
  /\ reader' = [reader EXCEPT ![c] = "leave"]
  /\ UNCHANGED <<rooms, send, todo, log, stop, call, writer, hand, sock, got,
                 since>>

(* The end of ReadPump's deferred function, once Run took the unregister. *)
CloseConn(c) ==
  /\ reader[c] = "close"
  /\ reader' = [reader EXCEPT ![c] = "done"]
  /\ sock' = [sock EXCEPT ![c] = "closed"]
  /\ UNCHANGED <<rooms, send, todo, log, stop, call, writer, hand, got, since>>

(* Fault: WritePump receives only while the channel is open.                *)
TakeWhileOpen(c) ==
  /\ writer[c] = "wait"
  /\ send[c] # <<>>
  /\ c \notin closed
  /\ hand' = [hand EXCEPT ![c] = <<Head(send[c])>>]
  /\ send' = [send EXCEPT ![c] = Tail(@)]
  /\ writer' = [writer EXCEPT ![c] = "write"]
  /\ UNCHANGED <<rooms, todo, log, stop, call, reader, sock, got, since>>

TakeMessage(c) ==
  /\ writer[c] = "wait"
  /\ send[c] # <<>>
  /\ hand' = [hand EXCEPT ![c] = <<Head(send[c])>>]
  /\ send' = [send EXCEPT ![c] = Tail(@)]
  /\ writer' = [writer EXCEPT ![c] = "write"]
  /\ UNCHANGED <<rooms, todo, log, stop, call, reader, sock, got, since>>

(* The write succeeds.  A write to a peer that is gone may succeed as well,  *)
(* and then nobody receives the message.                                    *)
WriteMessage(c) ==
  /\ writer[c] = "write"
  /\ sock[c] # "closed"
  /\ got' = IF sock[c] = "open" THEN [got EXCEPT ![c] = @ \o hand[c]] ELSE got
  /\ hand' = [hand EXCEPT ![c] = <<>>]
  /\ writer' = [writer EXCEPT ![c] = "wait"]
  /\ UNCHANGED <<rooms, send, todo, log, stop, call, reader, sock, since>>

(* WritePump returns and closes the connection. *)
StopWriting(c) ==
  /\ writer' = [writer EXCEPT ![c] = "done"]
  /\ hand' = [hand EXCEPT ![c] = <<>>]
  /\ sock' = [sock EXCEPT ![c] = "closed"]
  /\ UNCHANGED <<rooms, send, todo, log, stop, call, reader, got, since>>

(* An error, or the write deadline: the peer may just be slow. *)
WriteFails(c) ==
  /\ writer[c] = "write"
  /\ StopWriting(c)

PingFails(c) ==
  /\ writer[c] = "wait"
  /\ sock[c] # "open"
  /\ StopWriting(c)

(* A receive on a closed channel yields what is buffered first. *)
SeeClose(c) ==
  /\ writer[c] = "wait"
  /\ c \in closed
  /\ send[c] = <<>>
  /\ StopWriting(c)

-----------------------------------------------------------------------------
(* Run *)

Register(c) ==
  /\ Ready
  /\ reader[c] = "register"
  /\ joined' = joined \cup {c}
  /\ since' = [since EXCEPT ![c] = Len(log)]
  /\ reader' = [reader EXCEPT ![c] = "start"]
  /\ UNCHANGED <<send, closed, panic, todo, log, stop, call, writer, hand, sock,
                 got, until>>

(* Fault: unregister closes the channel of a client that is already out.    *)
UnregisterAlways(c) ==
  /\ Ready
  /\ reader[c] = "leave"
  /\ Remove({c})
  /\ reader' = [reader EXCEPT ![c] = "close"]
  /\ UNCHANGED <<send, todo, log, stop, call, writer, hand, sock, got, since>>

(* A client that was evicted or dropped before is not in its room any more. *)
Unregister(c) ==
  /\ Ready
  /\ reader[c] = "leave"
  /\ Remove({c} \cap joined)
  /\ reader' = [reader EXCEPT ![c] = "close"]
  /\ UNCHANGED <<send, todo, log, stop, call, writer, hand, sock, got, since>>

Return(h) == call' = [call EXCEPT ![h] = NoCall]

TakeEvict(h) ==
  /\ Ready
  /\ call[h].op = "evict"
  /\ Remove({c \in Room(call[h].board) : UserOf[c] = call[h].user})
  /\ Return(h)
  /\ UNCHANGED <<send, todo, log, stop, pumps, since>>

TakeBroadcast(h) ==
  /\ Ready
  /\ call[h].op = "broadcast"
  /\ log' = Append(log, call[h].board)
  /\ todo' = Room(call[h].board)
  /\ Return(h)
  /\ UNCHANGED <<rooms, send, stop, pumps, since>>

(* Fault: the send to a client is not in a select, it waits for room.       *)
SendAndWait(c) ==
  /\ Len(send[c]) < Cap
  /\ send' = [send EXCEPT ![c] = Append(@, Len(log))]
  /\ panic' = (panic \/ c \in closed)
  /\ UNCHANGED <<joined, closed, until>>

(* A send that does not block; a client whose buffer is full is dropped.    *)
SendOrDrop(c) ==
  \/ /\ Len(send[c]) < Cap
     /\ send' = [send EXCEPT ![c] = Append(@, Len(log))]
     /\ panic' = (panic \/ c \in closed)
     /\ UNCHANGED <<joined, closed, until>>
  \/ /\ Len(send[c]) = Cap
     /\ Remove({c})
     /\ UNCHANGED send

FanOut(c) ==
  /\ c \in todo
  /\ todo' = todo \ {c}
  /\ SendOrDrop(c)
  /\ UNCHANGED <<log, stop, call, pumps, since>>

SeeStop ==
  /\ Ready
  /\ stop = "closed"
  /\ stop' = "seen"
  /\ UNCHANGED <<rooms, send, todo, log, call, pumps, since>>

StopClient(c) ==
  /\ stop = "seen"
  /\ c \in joined
  /\ Remove({c})
  /\ sock' = [sock EXCEPT ![c] = "closed"]
  /\ UNCHANGED <<send, todo, log, stop, call, reader, writer, hand, got, since>>

-----------------------------------------------------------------------------
(* Callers *)

(* Bound: no more broadcasts are asked for than MaxMsgs. *)
MayCall(q) ==
  q.op = "broadcast" =>
    Len(log) + Cardinality({h \in Callers : call[h].op = "broadcast"}) < MaxMsgs

Call(h) ==
  /\ call[h] = NoCall
  /\ \E q \in Calls : MayCall(q) /\ call' = [call EXCEPT ![h] = q]
  /\ UNCHANGED <<rooms, send, todo, log, stop, pumps, since>>

(* Fault: the call has no case for the stop channel.                        *)
NeverGiveUp(h) == FALSE /\ UNCHANGED vars

(* The call's own select sees the stop channel. *)
GiveUp(h) ==
  /\ call[h] # NoCall
  /\ stop # "open"
  /\ Return(h)
  /\ UNCHANGED <<rooms, send, todo, log, stop, pumps, since>>

Shutdown ==
  /\ stop = "open"
  /\ stop' = "closed"
  /\ UNCHANGED <<rooms, send, todo, log, call, pumps, since>>

-----------------------------------------------------------------------------

Init ==
  /\ joined = {} /\ closed = {} /\ panic = FALSE /\ todo = {}
  /\ send = [c \in Conns |-> <<>>]
  /\ log = <<>>
  /\ stop = "open"
  /\ call = [h \in Callers |-> NoCall]
  /\ reader = [c \in Conns |-> "new"]
  /\ writer = [c \in Conns |-> "none"]
  /\ hand = [c \in Conns |-> <<>>]
  /\ sock = [c \in Conns |-> "open"]
  /\ got = [c \in Conns |-> <<>>]
  /\ since = [c \in Conns |-> 0]
  /\ until = [c \in Conns |-> 0]

Run ==
  \/ SeeStop
  \/ \E c \in Conns : Register(c) \/ Unregister(c) \/ FanOut(c) \/ StopClient(c)
  \/ \E h \in Callers : TakeEvict(h) \/ TakeBroadcast(h)

ReadPump(c) == StartPumps(c) \/ ReadFails(c) \/ CloseConn(c)

WritePump(c) == TakeMessage(c) \/ WriteMessage(c) \/ SeeClose(c)

Next ==
  \/ Run
  \/ \E c \in Conns :
       \/ Upgrade(c) \/ LosePeer(c) \/ ReadPump(c)
       \/ WritePump(c) \/ WriteFails(c) \/ PingFails(c)
  \/ \E h \in Callers : Call(h) \/ GiveUp(h)
  \/ Shutdown

Spec == Init /\ [][Next]_vars

(* Run goes on, and its select, which picks at random among what is ready,  *)
(* passes nobody over forever.  Nothing is assumed of clients.              *)
HubFairness ==
  /\ \A h \in Callers : /\ SF_vars(TakeEvict(h)) /\ SF_vars(TakeBroadcast(h))
                        /\ WF_vars(GiveUp(h))
  /\ \A c \in Conns : /\ SF_vars(Register(c)) /\ SF_vars(Unregister(c))
                      /\ WF_vars(FanOut(c)) /\ WF_vars(StopClient(c))
  /\ SF_vars(SeeStop)

HubSpec == Spec /\ HubFairness

(* The pumps of a connection are scheduled, too. *)
PumpFairness ==
  \A c \in Conns : WF_vars(ReadPump(c)) /\ WF_vars(WritePump(c))

-----------------------------------------------------------------------------
(* Properties *)

(* The shape of the state: no buffer exceeds its capacity, and the broadcast *)
(* that Run is working on has only clients in rooms still to visit.         *)
TypeOK ==
  /\ joined \subseteq Conns /\ closed \subseteq Conns /\ todo \subseteq joined
  /\ panic \in BOOLEAN
  /\ send \in [Conns -> Seq(Nat)]
  /\ \A c \in Conns : Len(send[c]) <= Cap
  /\ log \in Seq(Boards)
  /\ stop \in {"open", "closed", "seen"}
  /\ call \in [Callers -> Calls \cup {NoCall}]
  /\ reader \in [Conns -> {"new", "register", "start", "read", "leave",
                           "close", "done"}]
  /\ writer \in [Conns -> {"none", "wait", "write", "done"}]
  /\ hand \in [Conns -> Seq(Nat)]
  /\ sock \in [Conns -> {"open", "lost", "closed"}]
  /\ got \in [Conns -> Seq(Nat)]
  /\ since \in [Conns -> Nat] /\ until \in [Conns -> Nat]

(* No send channel is closed twice or sent to after its close, whatever     *)
(* unregisters, evictions, slow-client drops and the shutdown race: a panic *)
(* in Run would take the server down (Run, EvictUser, ReadPump).            *)
NoPanic == ~panic

(* The places after s of the broadcasts to board b in a log, in order: a    *)
(* recursive function, since one can prove about it, and not about SelectSeq. *)
FeedOf(l, s, b) ==
  LET feed[i \in 0 .. Len(l)] ==
        IF i = 0 THEN <<>>
        ELSE IF i > s /\ l[i] = b THEN Append(feed[i - 1], i)
        ELSE feed[i - 1]
  IN  feed[Len(l)]

(* The broadcasts to c's board since it joined. *)
Feed(c) == FeedOf(log, since[c], BoardOf[c])

(* A client's buffer and socket together hold exactly what was broadcast to *)
(* its board since it joined, in order: nothing of another board, no gap,   *)
(* no repetition, and no gap before a drop either (Run's fan-out, WritePump). *)
NothingMissed ==
  \A c \in Conns : sock[c] = "open" /\ reader[c] \notin {"new", "register"} =>
    LET seen == got[c] \o hand[c] \o send[c] IN
    /\ Len(seen) <= Len(Feed(c))
    /\ seen = SubSeq(Feed(c), 1, Len(seen))
    /\ c \in joined \ todo => seen = Feed(c)

(* A handler that broadcasts or evicts gets on with its request even if no  *)
(* client ever reads, and after the shutdown ("No-op after shutdown, so     *)
(* late handlers never block", hub.go:38; the drop of slow clients).        *)
CallsReturn == \A h \in Callers : call[h] # NoCall ~> call[h] = NoCall

(* A connection whose peer is gone does not stay in its room. *)
LostPeersLeave ==
  PumpFairness =>
    \A c \in Conns : sock[c] = "lost" /\ c \in joined ~> c \notin joined

(* "Already-queued messages are still delivered" (hub.go:46): whatever was  *)
(* in the buffer when the channel was closed reaches an open socket.        *)
QueuedIsDelivered ==
  PumpFairness =>
    \A c \in Conns :
      c \in closed ~> \/ sock[c] # "open"
                      \/ send[c] = <<>> /\ hand[c] = <<>>

(* To a browser the hub is a feed: a contiguous part of its board's events. *)
Promised == INSTANCE BoardFeed WITH
  phase <- [c \in Conns |-> IF c \in closed THEN "gone"
                            ELSE IF reader[c] \in {"new", "register"} THEN "new"
                            ELSE "live"],
  from <- since,
  to <- until

(* The hub implements the feed: browsers see what BoardFeed promises.       *)
ImplementsFeed == Promised!Spec
=============================================================================
