----------------------------- MODULE Hub_proofs -----------------------------
(***************************************************************************)
(* Theorems about Hub, for every set of connections, boards, users and     *)
(* callers, every buffer size and any number of broadcasts.                *)
(*                                                                         *)
(* NoPanic alone is not inductive.  Run never closes a channel twice, nor  *)
(* sends to a closed one, because a channel is closed exactly when its     *)
(* client leaves the room (OpenInRoom), a client registers once, before    *)
(* anything closed it (FreshIsOpen), and nothing else happens in Run while *)
(* a broadcast is under way (TypeOK's todo, FanOutBeforeStop).             *)
(***************************************************************************)
EXTENDS Hub, WellFoundedInduction, TLAPS

(* The clients in rooms are exactly those with an open, registered channel. *)
OpenInRoom == joined \cap closed = {}

(* A client that has not registered yet is in no room, and still open. *)
FreshIsOpen ==
  \A c \in Conns : reader[c] \in {"new", "register"} => c \notin joined \cup closed

(* Run has left its loop only between broadcasts. *)
FanOutBeforeStop == todo # {} => stop # "seen"

IInv == TypeOK /\ NoPanic /\ OpenInRoom /\ FreshIsOpen /\ FanOutBeforeStop

LEMMA InitInv == Init => IInv
<1> SUFFICES ASSUME Init PROVE IInv
  OBVIOUS
<1>1. /\ \A c \in Conns : send[c] = <<>>
      /\ send \in [Conns -> Seq(Nat)] /\ log \in Seq(Boards)
      /\ hand \in [Conns -> Seq(Nat)] /\ got \in [Conns -> Seq(Nat)]
  BY DEF Init
<1>2. Len(<<>>) <= Cap
  BY HubAssumption
<1>3. TypeOK
  BY <1>1, <1>2 DEF Init, TypeOK
<1>4. NoPanic /\ OpenInRoom /\ FreshIsOpen /\ FanOutBeforeStop
  BY DEF Init, NoPanic, OpenInRoom, FreshIsOpen, FanOutBeforeStop
<1> QED
  BY <1>3, <1>4 DEF IInv

(* Taking clients out of their rooms closes open channels only. *)
LEMMA RemoveKeeps ==
  ASSUME IInv, NEW D \in SUBSET joined, Remove(D)
  PROVE  /\ joined' = joined \ D /\ closed' = closed \cup D
         /\ joined' \subseteq Conns /\ closed' \subseteq Conns
         /\ until' \in [Conns -> Nat]
         /\ panic' \in BOOLEAN /\ NoPanic' /\ OpenInRoom'
         /\ \A c \in Conns : c \notin joined \cup closed
                             => c \notin joined' \cup closed'
BY DEF IInv, TypeOK, NoPanic, OpenInRoom, Remove

(* A step of the pumps, which touches neither rooms nor channels' ends.     *)
LEMMA PumpStep ==
  ASSUME IInv, UNCHANGED <<rooms, todo, log, stop, call, since>>,
         send' \in [Conns -> Seq(Nat)],
         \A c \in Conns : Len(send'[c]) <= Cap,
         reader' \in [Conns -> {"new", "register", "start", "read", "leave",
                                "close", "done"}],
         writer' \in [Conns -> {"none", "wait", "write", "done"}],
         hand' \in [Conns -> Seq(Nat)],
         sock' \in [Conns -> {"open", "lost", "closed"}],
         got' \in [Conns -> Seq(Nat)],
         \A c \in Conns : reader'[c] \in {"new", "register"}
                          => reader[c] \in {"new", "register"}
  PROVE  IInv'
BY DEF IInv, TypeOK, NoPanic, OpenInRoom, FreshIsOpen, FanOutBeforeStop, rooms

(* A step of Run or of a caller outside the rooms. *)
LEMMA CallStep ==
  ASSUME IInv, UNCHANGED <<rooms, send, todo, log, pumps, since>>,
         stop' \in {"open", "closed", "seen"},
         todo # {} => stop' # "seen",
         call' \in [Callers -> Calls \cup {NoCall}]
  PROVE  IInv'
BY DEF IInv, TypeOK, NoPanic, OpenInRoom, FreshIsOpen, FanOutBeforeStop,
       rooms, pumps

LEMMA ReturnType ==
  ASSUME TypeOK, NEW h \in Callers, Return(h)
  PROVE  call' \in [Callers -> Calls \cup {NoCall}]
BY DEF TypeOK, Return

LEMMA NextKeepsInv == IInv /\ [Next]_vars => IInv'
<1> SUFFICES ASSUME IInv, [Next]_vars PROVE IInv'
  OBVIOUS
<1>1. ASSUME NEW c \in Conns,
             Upgrade(c) \/ StartPumps(c) \/ ReadFails(c) \/ LosePeer(c)
             \/ CloseConn(c)
      PROVE  IInv'
  <2>1. UNCHANGED <<rooms, send, todo, log, stop, call, hand, got, since>>
    BY <1>1 DEF Upgrade, StartPumps, ReadFails, LosePeer, CloseConn, rooms
  <2>2. /\ reader' \in [Conns -> {"new", "register", "start", "read", "leave",
                                  "close", "done"}]
        /\ writer' \in [Conns -> {"none", "wait", "write", "done"}]
        /\ sock' \in [Conns -> {"open", "lost", "closed"}]
        /\ \A d \in Conns : reader'[d] \in {"new", "register"}
                            => reader[d] \in {"new", "register"}
    BY <1>1 DEF IInv, TypeOK, Upgrade, StartPumps, ReadFails, LosePeer, CloseConn
  <2> QED
    BY <2>1, <2>2, PumpStep DEF IInv, TypeOK
<1>2. ASSUME NEW c \in Conns, TakeMessage(c) PROVE IInv'
  <2>1. send[c] \in Seq(Nat) /\ send[c] # <<>> /\ Len(send[c]) <= Cap
    BY <1>2 DEF IInv, TypeOK, TakeMessage
  <2>2. /\ Head(send[c]) \in Nat /\ Tail(send[c]) \in Seq(Nat)
        /\ Len(Tail(send[c])) <= Cap
    BY <2>1, HubAssumption
  <2>3. send' \in [Conns -> Seq(Nat)] /\ \A d \in Conns : Len(send'[d]) <= Cap
    BY <1>2, <2>2 DEF IInv, TypeOK, TakeMessage
  <2>4. hand' \in [Conns -> Seq(Nat)]
    BY <1>2, <2>2 DEF IInv, TypeOK, TakeMessage
  <2>5. /\ UNCHANGED <<rooms, todo, log, stop, call, since, reader, sock, got>>
        /\ writer' \in [Conns -> {"none", "wait", "write", "done"}]
    BY <1>2 DEF IInv, TypeOK, TakeMessage, rooms
  <2> QED
    BY <2>3, <2>4, <2>5, PumpStep DEF IInv, TypeOK
<1>3. ASSUME NEW c \in Conns, WriteMessage(c) PROVE IInv'
  <2>1. got[c] \o hand[c] \in Seq(Nat)
    BY DEF IInv, TypeOK
  <2>2. got' \in [Conns -> Seq(Nat)]
    BY <1>3, <2>1 DEF IInv, TypeOK, WriteMessage
  <2>3. /\ UNCHANGED <<rooms, send, todo, log, stop, call, reader, sock, since>>
        /\ hand' \in [Conns -> Seq(Nat)]
        /\ writer' \in [Conns -> {"none", "wait", "write", "done"}]
    BY <1>3 DEF IInv, TypeOK, WriteMessage, rooms
  <2> QED
    BY <2>2, <2>3, PumpStep DEF IInv, TypeOK
<1>4. ASSUME NEW c \in Conns, WriteFails(c) \/ PingFails(c) \/ SeeClose(c)
      PROVE  IInv'
  <2>1. StopWriting(c)
    BY <1>4 DEF WriteFails, PingFails, SeeClose
  <2>2. /\ UNCHANGED <<rooms, send, todo, log, stop, call, reader, got, since>>
        /\ hand' \in [Conns -> Seq(Nat)]
        /\ writer' \in [Conns -> {"none", "wait", "write", "done"}]
        /\ sock' \in [Conns -> {"open", "lost", "closed"}]
    BY <2>1 DEF IInv, TypeOK, StopWriting, rooms
  <2> QED
    BY <2>2, PumpStep DEF IInv, TypeOK
<1>5. ASSUME NEW c \in Conns, Register(c) PROVE IInv'
  <2>1. Len(log) \in Nat /\ c \notin closed
    BY <1>5 DEF IInv, TypeOK, FreshIsOpen, Register
  <2>2. TypeOK'
    BY <1>5, <2>1 DEF IInv, TypeOK, Register
  <2>3. NoPanic' /\ OpenInRoom' /\ FreshIsOpen' /\ FanOutBeforeStop'
    BY <1>5, <2>1
    DEF IInv, TypeOK, NoPanic, OpenInRoom, FreshIsOpen, FanOutBeforeStop, Register
  <2> QED
    BY <2>2, <2>3 DEF IInv
<1>6. ASSUME NEW c \in Conns, Unregister(c) PROVE IInv'
  <2>1. Remove({c} \cap joined)
    BY <1>6 DEF Unregister
  <2>2. /\ joined' \subseteq Conns /\ closed' \subseteq Conns
        /\ until' \in [Conns -> Nat] /\ panic' \in BOOLEAN
        /\ NoPanic' /\ OpenInRoom'
        /\ \A d \in Conns : d \notin joined \cup closed
                            => d \notin joined' \cup closed'
    BY <2>1, RemoveKeeps
  <2>3. TypeOK'
    BY <1>6, <2>2 DEF IInv, TypeOK, Unregister, Ready
  <2>4. FreshIsOpen' /\ FanOutBeforeStop'
    BY <1>6, <2>2 DEF IInv, TypeOK, FreshIsOpen, FanOutBeforeStop, Unregister
  <2> QED
    BY <2>2, <2>3, <2>4 DEF IInv
<1>7. ASSUME NEW h \in Callers, TakeEvict(h) PROVE IInv'
  <2> DEFINE D == {c \in Room(call[h].board) : UserOf[c] = call[h].user}
  <2>1. Remove(D) /\ D \subseteq joined
    BY <1>7 DEF TakeEvict, Room
  <2> HIDE DEF D
  <2>2. /\ joined' \subseteq Conns /\ closed' \subseteq Conns
        /\ until' \in [Conns -> Nat] /\ panic' \in BOOLEAN
        /\ NoPanic' /\ OpenInRoom'
        /\ \A d \in Conns : d \notin joined \cup closed
                            => d \notin joined' \cup closed'
    BY <2>1, RemoveKeeps
  <2>3. call' \in [Callers -> Calls \cup {NoCall}]
    BY <1>7, ReturnType DEF IInv, TakeEvict
  <2>4. todo = {} /\ UNCHANGED <<send, todo, log, stop, pumps, since>>
    BY <1>7 DEF TakeEvict, Ready
  <2>5. TypeOK'
    BY <2>2, <2>3, <2>4 DEF IInv, TypeOK, pumps
  <2>6. FreshIsOpen' /\ FanOutBeforeStop'
    BY <2>2, <2>4 DEF IInv, FreshIsOpen, FanOutBeforeStop, pumps
  <2> QED
    BY <2>2, <2>5, <2>6 DEF IInv
<1>8. ASSUME NEW h \in Callers, TakeBroadcast(h) PROVE IInv'
  <2>1. call[h] \in Calls /\ call[h].board \in Boards
    BY <1>8 DEF IInv, TypeOK, TakeBroadcast, Calls, NoCall
  <2>2. log' \in Seq(Boards) /\ todo' \subseteq joined
    BY <1>8, <2>1 DEF IInv, TypeOK, TakeBroadcast, Room
  <2>3. call' \in [Callers -> Calls \cup {NoCall}]
    BY <1>8, ReturnType DEF IInv, TakeBroadcast
  <2>4. stop # "seen" /\ UNCHANGED <<rooms, send, stop, pumps, since>>
    BY <1>8 DEF TakeBroadcast, Ready
  <2>5. TypeOK'
    BY <2>2, <2>3, <2>4 DEF IInv, TypeOK, pumps, rooms
  <2>6. NoPanic' /\ OpenInRoom' /\ FreshIsOpen' /\ FanOutBeforeStop'
    BY <2>4 DEF IInv, NoPanic, OpenInRoom, FreshIsOpen, FanOutBeforeStop, pumps, rooms
  <2> QED
    BY <2>5, <2>6 DEF IInv
<1>9. ASSUME NEW c \in Conns, FanOut(c) PROVE IInv'
  <2>1. /\ c \in todo /\ c \in joined /\ c \notin closed
        /\ todo' = todo \ {c} /\ stop # "seen"
        /\ UNCHANGED <<log, stop, call, pumps, since>>
    BY <1>9 DEF FanOut, IInv, TypeOK, OpenInRoom, FanOutBeforeStop
  <2>2. CASE /\ Len(send[c]) < Cap
             /\ send' = [send EXCEPT ![c] = Append(@, Len(log))]
             /\ panic' = (panic \/ c \in closed)
             /\ UNCHANGED <<joined, closed, until>>
    <3>1. send[c] \in Seq(Nat) /\ Len(log) \in Nat
      BY DEF IInv, TypeOK
    <3>2. /\ Append(send[c], Len(log)) \in Seq(Nat)
          /\ Len(Append(send[c], Len(log))) = Len(send[c]) + 1
      BY <3>1
    <3>3. Len(Append(send[c], Len(log))) <= Cap
      BY <2>2, <3>1, <3>2, HubAssumption
    <3>4. send' \in [Conns -> Seq(Nat)] /\ \A d \in Conns : Len(send'[d]) <= Cap
      BY <2>2, <3>2, <3>3 DEF IInv, TypeOK
    <3>5. ~panic /\ ~panic'
      BY <2>1, <2>2 DEF IInv, NoPanic
    <3>6. TypeOK'
      BY <2>1, <2>2, <3>4, <3>5 DEF IInv, TypeOK, pumps
    <3>7. NoPanic' /\ OpenInRoom' /\ FreshIsOpen' /\ FanOutBeforeStop'
      BY <2>1, <2>2, <3>5
      DEF IInv, NoPanic, OpenInRoom, FreshIsOpen, FanOutBeforeStop, pumps
    <3> QED
      BY <3>6, <3>7 DEF IInv
  <2>3. CASE Remove({c}) /\ UNCHANGED send
    <3>1. /\ joined' = joined \ {c}
          /\ joined' \subseteq Conns /\ closed' \subseteq Conns
          /\ until' \in [Conns -> Nat] /\ panic' \in BOOLEAN
          /\ NoPanic' /\ OpenInRoom'
          /\ \A d \in Conns : d \notin joined \cup closed
                              => d \notin joined' \cup closed'
      BY <2>1, <2>3, RemoveKeeps
    <3>2. TypeOK'
      BY <2>1, <2>3, <3>1 DEF IInv, TypeOK, pumps
    <3>3. FreshIsOpen' /\ FanOutBeforeStop'
      BY <2>1, <3>1 DEF IInv, FreshIsOpen, FanOutBeforeStop, pumps
    <3> QED
      BY <3>1, <3>2, <3>3 DEF IInv
  <2> QED
    BY <1>9, <2>2, <2>3 DEF FanOut, SendOrDrop
<1>10. ASSUME NEW c \in Conns, StopClient(c) PROVE IInv'
  <2>1. todo = {} /\ stop = "seen"
    BY <1>10 DEF StopClient, IInv, FanOutBeforeStop
  <2>2. /\ joined' \subseteq Conns /\ closed' \subseteq Conns
        /\ until' \in [Conns -> Nat] /\ panic' \in BOOLEAN
        /\ NoPanic' /\ OpenInRoom'
        /\ \A d \in Conns : d \notin joined \cup closed
                            => d \notin joined' \cup closed'
    BY <1>10, RemoveKeeps DEF StopClient
  <2>3. TypeOK'
    BY <1>10, <2>1, <2>2 DEF IInv, TypeOK, StopClient
  <2>4. FreshIsOpen' /\ FanOutBeforeStop'
    BY <1>10, <2>1, <2>2 DEF IInv, FreshIsOpen, FanOutBeforeStop, StopClient
  <2> QED
    BY <2>2, <2>3, <2>4 DEF IInv
<1>11. ASSUME NEW h \in Callers, Call(h) PROVE IInv'
  <2>1. call' \in [Callers -> Calls \cup {NoCall}]
    BY <1>11 DEF IInv, TypeOK, Call
  <2> QED
    BY <1>11, <2>1, CallStep DEF Call, IInv, TypeOK, FanOutBeforeStop
<1>12. ASSUME NEW h \in Callers, GiveUp(h) PROVE IInv'
  BY <1>12, ReturnType, CallStep DEF GiveUp, IInv, TypeOK, FanOutBeforeStop
<1>13. CASE Shutdown
  BY <1>13, CallStep DEF Shutdown, IInv, TypeOK
<1>14. CASE SeeStop
  BY <1>14, CallStep DEF SeeStop, Ready, IInv, TypeOK
<1>15. CASE UNCHANGED vars
  BY <1>15 DEF vars, IInv, TypeOK, NoPanic, OpenInRoom, FreshIsOpen, FanOutBeforeStop
<1> QED
  BY <1>1, <1>2, <1>3, <1>4, <1>5, <1>6, <1>7, <1>8, <1>9, <1>10, <1>11, <1>12,
     <1>13, <1>14, <1>15 DEF Next, Run, ReadPump, WritePump

THEOREM Invariance == Spec => []IInv
<1> QED
  BY InitInv, NextKeepsInv, PTL DEF Spec

(* The hub's state keeps its shape: no buffer outgrows its capacity, and a  *)
(* broadcast visits only clients that are still in their room (Hub.Run).    *)
THEOREM TypeCorrect == Spec => []TypeOK
<1>1. IInv => TypeOK
  BY DEF IInv
<1> QED
  BY <1>1, Invariance, PTL

(* No interleaving of connections, evictions, slow clients and the shutdown *)
(* makes Run close a channel twice or send to a closed one (Hub.Run).       *)
THEOREM PanicFree == Spec => []NoPanic
<1>1. IInv => NoPanic
  BY DEF IInv
<1> QED
  BY <1>1, Invariance, PTL

-----------------------------------------------------------------------------
(***************************************************************************)
(* The hub implements the feed (Hub's refinement mapping to BoardFeed), for *)
(* every set of connections and boards, every buffer size and any number of *)
(* broadcasts.                                                             *)
(*                                                                         *)
(* A write to the browser is a Deliver of BoardFeed if the message is the   *)
(* next event of the connection's board.  So what is on the way to an open  *)
(* socket, in WritePump's hand and in the send channel, has to be the       *)
(* board's events from the last one delivered up to some place of the log   *)
(* (Chain), the end of it for a client in a room that the current broadcast *)
(* has visited, and one before for a client that it has still to visit.     *)
(***************************************************************************)

Registered(c) == reader[c] \notin {"new", "register"}

PhaseOf(c) == IF c \in closed THEN "gone" ELSE IF Registered(c) THEN "live" ELSE "new"
LimitOf(c) == IF c \in closed THEN until[c] ELSE Len(log)
LastOf(c) == IF got[c] = <<>> THEN since[c] ELSE got[c][Len(got[c])]
EventsOf(c, i, j) == {k \in i + 1 .. j : log[k] = BoardOf[c]}

(* The messages on their way to c's browser, in which order.                 *)
Pending(c) == {hand[c][i] : i \in 1 .. Len(hand[c])}
              \cup {send[c][i] : i \in 1 .. Len(send[c])}
Sorted(c) ==
  /\ \A i, j \in 1 .. Len(send[c]) : i < j => send[c][i] < send[c][j]
  /\ \A i \in 1 .. Len(hand[c]), j \in 1 .. Len(send[c]) : hand[c][i] < send[c][j]

Chain(c, m) ==
  /\ m \in Nat /\ LastOf(c) \in Nat /\ LastOf(c) <= m /\ m <= LimitOf(c)
  /\ Pending(c) = EventsOf(c, LastOf(c), m)
  /\ Sorted(c)
  /\ c \in joined \ todo => m = Len(log)
  /\ c \in todo => m = Len(log) - 1 /\ log[Len(log)] = BoardOf[c]

Gapless ==
  \A c \in Conns : Registered(c) /\ sock[c] = "open" => \E m \in 0 .. Len(log) : Chain(c, m)

(* Nothing is on the way before a client registers, nor in WritePump's hand   *)
(* but while it writes.                                                     *)
NothingBefore == \A c \in Conns : ~Registered(c) => send[c] = <<>> /\ got[c] = <<>>
OneInHand ==
  \A c \in Conns :
    /\ reader[c] \in {"new", "register", "start"} => writer[c] = "none"
    /\ IF writer[c] = "write" THEN Len(hand[c]) = 1 ELSE hand[c] = <<>>

InOrOut == \A c \in Conns : Registered(c) => c \in joined \cup closed

LeftBefore == \A c \in Conns : until[c] <= Len(log)

FeedInv == IInv /\ Gapless /\ NothingBefore /\ OneInHand /\ InOrOut /\ LeftBefore

-----------------------------------------------------------------------------

LEMMA InitFeed == Init => FeedInv
<1> SUFFICES ASSUME Init PROVE FeedInv
  OBVIOUS
<1>1. IInv BY InitInv
<1>2. Gapless BY DEF Init, Gapless, Registered
<1>3. NothingBefore /\ OneInHand /\ InOrOut
  BY DEF Init, NothingBefore, OneInHand, InOrOut, Registered
<1>4. LeftBefore BY DEF Init, LeftBefore
<1> QED BY <1>1, <1>2, <1>3, <1>4 DEF FeedInv

(* A chain depends on nothing but this. *)
LEMMA FrameChain ==
  ASSUME NEW c \in Conns, NEW m, Chain(c, m), log' = log,
         hand'[c] = hand[c], send'[c] = send[c], got'[c] = got[c],
         since'[c] = since[c], until'[c] = until[c],
         c \in closed' <=> c \in closed, c \in joined' <=> c \in joined,
         c \in todo' <=> c \in todo
  PROVE  Chain(c, m)'
<1>1. LastOf(c)' = LastOf(c) BY DEF LastOf
<1>2. LimitOf(c)' = LimitOf(c) BY DEF LimitOf
<1>3. Pending(c)' = Pending(c) BY DEF Pending
<1>4. Sorted(c)' BY DEF Sorted, Chain
<1>5. EventsOf(c, LastOf(c), m)' = EventsOf(c, LastOf(c), m) BY <1>1 DEF EventsOf
<1> QED BY <1>1, <1>2, <1>3, <1>4, <1>5 DEF Chain

(* Steps outside the rooms and the channels; a pump that stops has closed the *)
(* socket.                                                                  *)
LEMMA QuietStep ==
  ASSUME Gapless, UNCHANGED <<log, joined, closed, until, todo, since, send, got>>,
         \A c \in Conns : Registered(c)' /\ sock'[c] = "open" =>
            Registered(c) /\ sock[c] = "open" /\ hand'[c] = hand[c]
  PROVE  Gapless'
<1> SUFFICES ASSUME NEW c \in Conns, Registered(c)', sock'[c] = "open"
             PROVE  \E m \in 0 .. Len(log)' : Chain(c, m)'
  BY DEF Gapless
<1>1. PICK m \in 0 .. Len(log) : Chain(c, m) BY DEF Gapless
<1>2. Chain(c, m)' BY <1>1, FrameChain
<1> QED BY <1>2

(* A message goes from the channel to the hand. *)
LEMMA TakeStep ==
  ASSUME FeedInv, NEW c \in Conns, TakeMessage(c)
  PROVE  Gapless'
<1> SUFFICES ASSUME NEW d \in Conns, Registered(d)', sock'[d] = "open"
             PROVE  \E m \in 0 .. Len(log)' : Chain(d, m)'
  BY DEF Gapless
<1>1. Registered(d) /\ sock[d] = "open" BY DEF TakeMessage, Registered
<1>2. PICK m \in 0 .. Len(log) : Chain(d, m) BY <1>1 DEF FeedInv, Gapless
<1>3. CASE d # c
  <2>1. Chain(d, m)' BY <1>2, <1>3, FrameChain DEF TakeMessage, rooms, FeedInv, IInv, TypeOK
  <2> QED BY <2>1 DEF TakeMessage
<1>4. CASE d = c
  <2>1. send[c] \in Seq(Nat) /\ send[c] # <<>> /\ hand[c] = <<>>
    BY DEF TakeMessage, FeedInv, IInv, TypeOK, OneInHand
  <2> DEFINE n == Len(send[c])
  <2>2. hand'[c] = <<send[c][1]>> /\ send'[c] = Tail(send[c])
    BY <2>1 DEF TakeMessage, FeedInv, IInv, TypeOK
  <2>3. n \in Nat /\ n >= 1 /\ Len(send'[c]) = n - 1
        /\ \A i \in 1 .. n - 1 : send'[c][i] = send[c][i + 1]
    BY <2>1, <2>2
  <2>4. Len(hand'[c]) = 1 /\ hand'[c][1] = send[c][1] /\ Len(hand[c]) = 0
    BY <2>1, <2>2
  <2> HIDE DEF n
  <2>5. Sorted(c)'
    <3>1. \A i, j \in 1 .. n : i < j => send[c][i] < send[c][j]
      BY <1>2, <1>4 DEF Chain, Sorted, n
    <3>2. \A i, j \in 1 .. n - 1 : i < j => send'[c][i] < send'[c][j]
      BY <2>3, <3>1
    <3>3. \A i \in 1 .. 1, j \in 1 .. n - 1 : hand'[c][i] < send'[c][j]
      BY <2>3, <2>4, <3>1
    <3> QED BY <2>3, <2>4, <3>2, <3>3 DEF Sorted
  <2>6. Pending(c)' = Pending(c)
    <3>1. Pending(c) = {send[c][i] : i \in 1 .. n} BY <2>4 DEF Pending, n
    <3>2. Pending(c)' = {send[c][1]} \cup {send[c][i + 1] : i \in 1 .. n - 1}
      <4>1. Pending(c)' = {hand'[c][i] : i \in 1 .. 1} \cup {send'[c][i] : i \in 1 .. n - 1}
        BY <2>3, <2>4 DEF Pending
      <4>2. {hand'[c][i] : i \in 1 .. 1} = {send[c][1]} BY <2>4
      <4>3. {send'[c][i] : i \in 1 .. n - 1} = {send[c][i + 1] : i \in 1 .. n - 1}
        BY <2>3
      <4> QED BY <4>1, <4>2, <4>3
    <3>3. ASSUME NEW y \in Pending(c) PROVE y \in Pending(c)'
      <4>1. PICK i \in 1 .. n : y = send[c][i] BY <3>1
      <4>2. i = 1 \/ (i - 1 \in 1 .. n - 1 /\ (i - 1) + 1 = i) BY <2>3
      <4>3. CASE i = 1 BY <3>2, <4>1, <4>3
      <4>4. CASE i # 1
        <5>1. PICK k \in 1 .. n - 1 : k + 1 = i BY <4>2, <4>4
        <5> QED BY <3>2, <4>1, <5>1
      <4> QED BY <4>3, <4>4
    <3>4. ASSUME NEW y \in Pending(c)' PROVE y \in Pending(c)
      <4>1. CASE y = send[c][1]
        <5>1. 1 \in 1 .. n BY <2>3
        <5> QED BY <3>1, <4>1, <5>1
      <4>2. CASE \E i \in 1 .. n - 1 : y = send[c][i + 1]
        <5>1. PICK i \in 1 .. n - 1 : y = send[c][i + 1] BY <4>2
        <5>2. i + 1 \in 1 .. n BY <2>3
        <5> QED BY <3>1, <5>1, <5>2
      <4> QED BY <3>2, <4>1, <4>2
    <3> QED BY <3>3, <3>4
  <2>7. /\ LastOf(c)' = LastOf(c) /\ LimitOf(c)' = LimitOf(c)
        /\ \A i, j : EventsOf(c, i, j)' = EventsOf(c, i, j)
        /\ UNCHANGED <<log, joined, todo>>
    BY DEF TakeMessage, rooms, LastOf, LimitOf, EventsOf
  <2>8. Chain(c, m)' BY <1>2, <1>4, <2>5, <2>6, <2>7 DEF Chain
  <2> QED BY <1>4, <2>7, <2>8
<1> QED BY <1>3, <1>4

(* What WritePump writes is the next event of the board. *)
LEMMA NextEvent ==
  ASSUME FeedInv, NEW c \in Conns, writer[c] = "write", NEW m \in Nat, Chain(c, m)
  PROVE  /\ hand[c] = <<hand[c][1]>> /\ hand[c][1] \in Nat
         /\ hand[c][1] \in EventsOf(c, LastOf(c), m)
         /\ \A k \in EventsOf(c, LastOf(c), m) : hand[c][1] <= k
         /\ \A k \in EventsOf(c, LastOf(c), m) :
               k # hand[c][1] => \E j \in 1 .. Len(send[c]) : k = send[c][j]
<1>1. hand[c] \in Seq(Nat) /\ Len(hand[c]) = 1 /\ send[c] \in Seq(Nat)
  BY DEF FeedInv, IInv, TypeOK, OneInHand
<1>2. hand[c] = <<hand[c][1]>> /\ hand[c][1] \in Nat BY <1>1
<1>3. Pending(c) = {hand[c][1]} \cup {send[c][i] : i \in 1 .. Len(send[c])}
  BY <1>1 DEF Pending
<1>4. \A j \in 1 .. Len(send[c]) : hand[c][1] < send[c][j] /\ send[c][j] \in Nat
  BY <1>1 DEF Chain, Sorted
<1>5. Pending(c) = EventsOf(c, LastOf(c), m) BY DEF Chain
<1>6. \A k \in Pending(c) : hand[c][1] <= k BY <1>2, <1>3, <1>4
<1> QED BY <1>2, <1>3, <1>5, <1>6

LEMMA WriteStep ==
  ASSUME FeedInv, NEW c \in Conns, WriteMessage(c)
  PROVE  Gapless'
<1> SUFFICES ASSUME NEW d \in Conns, Registered(d)', sock'[d] = "open"
             PROVE  \E m \in 0 .. Len(log)' : Chain(d, m)'
  BY DEF Gapless
<1>1. Registered(d) /\ sock[d] = "open" BY DEF WriteMessage, Registered
<1>2. PICK m \in 0 .. Len(log) : Chain(d, m) BY <1>1 DEF FeedInv, Gapless
<1>3. CASE d # c
  <2>1. Chain(d, m)' BY <1>2, <1>3, FrameChain DEF WriteMessage, rooms, FeedInv, IInv, TypeOK
  <2> QED BY <2>1 DEF WriteMessage
<1>4. CASE d = c
  <2>0. PICK x \in Nat : x = hand[c][1]
    BY <1>2, <1>4, NextEvent DEF WriteMessage
  <2>1. /\ hand[c] = <<x>> /\ x \in EventsOf(c, LastOf(c), m)
        /\ \A k \in EventsOf(c, LastOf(c), m) : x <= k
    BY <1>2, <1>4, <2>0, NextEvent DEF WriteMessage
  <2>2. got[c] \in Seq(Nat) /\ got'[c] = got[c] \o <<x>> /\ hand'[c] = <<>>
        /\ send'[c] = send[c] /\ UNCHANGED <<log, joined, closed, todo, until, since>>
    BY <1>1, <1>4, <2>1 DEF WriteMessage, rooms, FeedInv, IInv, TypeOK
  <2>3. LastOf(c)' = x
    <3>1. Len(got[c] \o <<x>>) = Len(got[c]) + 1
          /\ (got[c] \o <<x>>)[Len(got[c]) + 1] = x
      BY <2>1, <2>2
    <3>2. got'[c] # <<>> BY <2>2, <3>1
    <3> QED BY <2>2, <3>1, <3>2 DEF LastOf
  <2>4. Sorted(c)' BY <1>2, <1>4, <2>2 DEF Chain, Sorted
  <2>5. Pending(c)' = Pending(c) \ {x}
    <3>1. Pending(c)' = {send[c][i] : i \in 1 .. Len(send[c])} BY <2>2 DEF Pending
    <3>2. Pending(c) = {x} \cup {send[c][i] : i \in 1 .. Len(send[c])}
      BY <2>1 DEF Pending
    <3>3. hand[c][1] = x /\ 1 \in 1 .. Len(hand[c]) BY <2>1
    <3>4. \A j \in 1 .. Len(send[c]) : x < send[c][j] /\ send[c][j] \in Nat
      <4>1. Sorted(c) /\ send[c] \in Seq(Nat)
        BY <1>2, <1>4 DEF Chain, FeedInv, IInv, TypeOK
      <4>2. \A j \in 1 .. Len(send[c]) : hand[c][1] < send[c][j]
        BY <3>3, <4>1 DEF Sorted
      <4>3. \A j \in 1 .. Len(send[c]) : send[c][j] \in Nat BY <4>1
      <4> QED BY <3>3, <4>2, <4>3
    <3> QED BY <2>1, <3>1, <3>2, <3>4
  <2>6. EventsOf(c, x, m)' = EventsOf(c, LastOf(c), m) \ {x}
    <3>1. PICK l \in Nat : l = LastOf(c) BY <1>2, <1>4 DEF Chain
    <3>2. /\ x \in l + 1 .. m /\ log[x] = BoardOf[c]
          /\ \A k \in l + 1 .. m : log[k] = BoardOf[c] => x <= k
      BY <2>1, <3>1 DEF EventsOf
    <3>3. m \in Nat BY <1>2, <1>4 DEF Chain
    <3>4. \A k : k \in x + 1 .. m /\ log[k] = BoardOf[c]
                 <=> k \in l + 1 .. m /\ log[k] = BoardOf[c] /\ k # x
      BY <3>2, <3>3
    <3> QED BY <2>2, <3>1, <3>4 DEF EventsOf
  <2>7. x <= m /\ LimitOf(c)' = LimitOf(c)
    BY <2>1, <2>2 DEF EventsOf, LimitOf
  <2>8. Chain(c, m)' BY <1>2, <1>4, <2>1, <2>2, <2>3, <2>4, <2>5, <2>6, <2>7 DEF Chain
  <2> QED BY <1>4, <2>2, <2>8
<1> QED BY <1>3, <1>4

(* A client that registers starts at the end of the log. *)
LEMMA RegisterStep ==
  ASSUME FeedInv, NEW c \in Conns, Register(c)
  PROVE  Gapless'
<1> SUFFICES ASSUME NEW d \in Conns, Registered(d)', sock'[d] = "open"
             PROVE  \E m \in 0 .. Len(log)' : Chain(d, m)'
  BY DEF Gapless
<1>0. log \in Seq(Boards) /\ Len(log) \in Nat BY DEF FeedInv, IInv, TypeOK
<1>1. CASE d # c
  <2>1. Registered(d) /\ sock[d] = "open"
    BY <1>1 DEF Register, Registered, FeedInv, IInv, TypeOK
  <2>2. PICK m \in 0 .. Len(log) : Chain(d, m) BY <2>1 DEF FeedInv, Gapless
  <2>3. Chain(d, m)' BY <1>1, <2>2, FrameChain DEF Register, FeedInv, IInv, TypeOK
  <2> QED BY <2>3 DEF Register
<1>2. CASE d = c
  <2>1. send[c] = <<>> /\ got[c] = <<>> /\ hand[c] = <<>>
    BY DEF Register, Registered, FeedInv, NothingBefore, OneInHand
  <2>2. /\ since'[c] = Len(log) /\ todo' = {}
        /\ UNCHANGED <<log, send, got, hand, closed>> /\ c \notin closed
    BY DEF Register, Ready, FeedInv, IInv, TypeOK, FreshIsOpen
  <2>3. LastOf(c)' = Len(log) /\ LimitOf(c)' = Len(log) BY <2>1, <2>2 DEF LastOf, LimitOf
  <2>4. Pending(c)' = {} /\ Sorted(c)' BY <2>1, <2>2 DEF Pending, Sorted
  <2>5. EventsOf(c, Len(log), Len(log))' = {} BY <1>0, <2>2 DEF EventsOf
  <2>6. Chain(c, Len(log))' BY <1>0, <2>2, <2>3, <2>4, <2>5 DEF Chain
  <2> QED BY <1>0, <1>2, <2>2, <2>6
<1> QED BY <1>1, <1>2

(* Clients that leave keep what is on the way to them. *)
LEMMA RemoveStep ==
  ASSUME FeedInv, NEW D \in SUBSET joined, Remove(D), todo' = todo \ D,
         UNCHANGED <<log, send, since, hand, got>>,
         \A c \in Conns : Registered(c)' /\ sock'[c] = "open" =>
            Registered(c) /\ sock[c] = "open"
  PROVE  Gapless'
<1> SUFFICES ASSUME NEW c \in Conns, Registered(c)', sock'[c] = "open"
             PROVE  \E m \in 0 .. Len(log)' : Chain(c, m)'
  BY DEF Gapless
<1>1. PICK m \in 0 .. Len(log) : Chain(c, m) BY DEF FeedInv, Gapless
<1>2. CASE c \notin D
  BY <1>1, <1>2, FrameChain DEF Remove
<1>3. CASE c \in D
  <2>1. c \in closed' /\ c \notin joined' /\ c \notin todo' /\ until'[c] = Len(log)
    BY <1>3 DEF Remove
  <2>2. LastOf(c)' = LastOf(c) /\ LimitOf(c)' = Len(log)
    BY <2>1 DEF LastOf, LimitOf
  <2>3. Pending(c)' = Pending(c) /\ Sorted(c)' BY <1>1 DEF Pending, Sorted, Chain
  <2>4. EventsOf(c, LastOf(c), m)' = EventsOf(c, LastOf(c), m) BY <2>2 DEF EventsOf
  <2>5. m \in Nat /\ m <= Len(log) BY <1>1 DEF FeedInv, IInv, TypeOK
  <2>6. Chain(c, m)' BY <1>1, <2>1, <2>2, <2>3, <2>4, <2>5 DEF Chain
  <2> QED BY <2>6
<1> QED BY <1>2, <1>3

(* A broadcast makes the log longer: its board's clients have it to come, for *)
(* the others it is no event.                                               *)
LEMMA BroadcastStep ==
  ASSUME FeedInv, NEW h \in Callers, TakeBroadcast(h)
  PROVE  Gapless'
<1> SUFFICES ASSUME NEW c \in Conns, Registered(c)', sock'[c] = "open"
             PROVE  \E m \in 0 .. Len(log)' : Chain(c, m)'
  BY DEF Gapless
<1>0. PICK n \in Nat : n = Len(log) BY DEF FeedInv, IInv, TypeOK
<1>1. Registered(c) /\ sock[c] = "open" BY DEF TakeBroadcast, pumps, Registered
<1>2. PICK m \in 0 .. n : Chain(c, m) BY <1>0, <1>1 DEF FeedInv, Gapless
<1>2a. call[h] \in Calls /\ call[h].board \in Boards
  BY DEF FeedInv, IInv, TypeOK, TakeBroadcast, Calls, NoCall
<1>3. PICK b \in Boards : b = call[h].board BY <1>2a
<1>4. log \in Seq(Boards) /\ log' = Append(log, b) BY <1>3 DEF FeedInv, IInv, TypeOK, TakeBroadcast
<1>5. Len(log') = n + 1 /\ log'[n + 1] = b
      /\ \A k \in 1 .. n : log'[k] = log[k]
  BY <1>0, <1>4
<1>6. /\ todo = {} /\ todo' = {d \in joined : BoardOf[d] = b}
      /\ UNCHANGED <<joined, closed, until, send, hand, got, since>>
  BY <1>3 DEF TakeBroadcast, Ready, Room, rooms, pumps
<1>7. LastOf(c)' = LastOf(c) BY <1>6 DEF LastOf
<1>8. Pending(c)' = Pending(c) /\ Sorted(c)' BY <1>2, <1>6 DEF Pending, Sorted, Chain
<1>9. EventsOf(c, LastOf(c), m)' = EventsOf(c, LastOf(c), m)
  BY <1>2, <1>5, <1>7 DEF EventsOf, Chain
<1>10. CASE c \in closed
  <2>1. LimitOf(c)' = LimitOf(c) /\ c \notin joined BY <1>6, <1>10
    DEF LimitOf, FeedInv, IInv, OpenInRoom
  <2>2. c \notin todo' /\ c \notin joined' BY <1>6, <2>1
  <2>3. Chain(c, m)' BY <1>2, <1>7, <1>8, <1>9, <2>1, <2>2 DEF Chain
  <2> QED BY <1>2, <1>5, <2>3
<1>11. CASE c \notin closed
  <2>1. c \in joined /\ m = n BY <1>0, <1>1, <1>2, <1>6, <1>11 DEF FeedInv, InOrOut, Chain
  <2>2. LimitOf(c)' = n + 1 BY <1>5, <1>6, <1>11 DEF LimitOf
  <2>3. CASE BoardOf[c] = b
    <3>1. c \in todo' BY <1>6, <2>1, <2>3
    <3>2. Chain(c, n)' BY <1>2, <1>5, <1>7, <1>8, <1>9, <2>1, <2>2, <2>3, <3>1 DEF Chain
    <3> QED BY <1>5, <3>2
  <2>4. CASE BoardOf[c] # b
    <3>1. c \notin todo' BY <1>6, <2>4
    <3>2. EventsOf(c, LastOf(c), n + 1)' = EventsOf(c, LastOf(c), n)
      BY <1>2, <1>5, <1>7, <2>1, <2>4 DEF EventsOf, Chain
    <3>3. Chain(c, n + 1)'
      BY <1>2, <1>5, <1>6, <1>7, <1>8, <2>1, <2>2, <3>1, <3>2 DEF Chain
    <3> QED BY <1>5, <3>3
  <2> QED BY <2>3, <2>4
<1> QED BY <1>10, <1>11

(* The fan-out completes the chain of the client it visits. *)
LEMMA SendStep ==
  ASSUME FeedInv, NEW c \in todo, todo' = todo \ {c},
         send' = [send EXCEPT ![c] = Append(@, Len(log))],
         UNCHANGED <<joined, closed, until, log, pumps, since>>
  PROVE  Gapless'
<1> SUFFICES ASSUME NEW d \in Conns, Registered(d)', sock'[d] = "open"
             PROVE  \E m \in 0 .. Len(log)' : Chain(d, m)'
  BY DEF Gapless
<1>1. Registered(d) /\ sock[d] = "open" BY DEF pumps, Registered
<1>2. PICK m \in 0 .. Len(log) : Chain(d, m) BY <1>1 DEF FeedInv, Gapless
<1>3. CASE d # c
  <2>1. Chain(d, m)' BY <1>2, <1>3, FrameChain DEF pumps, FeedInv, IInv, TypeOK
  <2> QED BY <2>1
<1>4. CASE d = c
  <2>0. PICK n \in Nat : n = Len(log) BY DEF FeedInv, IInv, TypeOK
  <2> DEFINE s == send[c]
  <2>1. s \in Seq(Nat) /\ hand[c] \in Seq(Nat) /\ c \in joined /\ c \notin closed
    BY <1>4 DEF FeedInv, IInv, TypeOK, OpenInRoom
  <2>2. send'[c] = Append(s, n) BY <1>4, <2>0 DEF FeedInv, IInv, TypeOK
  <2>3. Len(send'[c]) = Len(s) + 1 /\ send'[c][Len(s) + 1] = n
        /\ \A i \in 1 .. Len(s) : send'[c][i] = s[i]
    BY <2>1, <2>2
  <2>4. m = n - 1 /\ m \in Nat /\ log[n] = BoardOf[c] /\ n >= 1 BY <1>2, <1>4, <2>0, <2>1 DEF Chain
  <2>5. Pending(c) = EventsOf(c, LastOf(c), m) /\ LastOf(c) \in Nat /\ LastOf(c) <= m
        /\ Sorted(c)
    BY <1>2, <1>4 DEF Chain
  <2>6. \A k \in Pending(c) : k < n BY <2>1, <2>4, <2>5 DEF EventsOf
  <2>7. LastOf(c)' = LastOf(c) /\ LimitOf(c)' = n BY <2>0, <2>1 DEF LastOf, LimitOf, pumps
  <2>8. hand'[c] = hand[c] BY DEF pumps
  <2> HIDE DEF s
  <2>9. Pending(c)' = Pending(c) \cup {n}
    <3>1. Pending(c) = {hand[c][i] : i \in 1 .. Len(hand[c])} \cup {s[i] : i \in 1 .. Len(s)}
      BY DEF Pending, s
    <3>2. Pending(c)' = {hand[c][i] : i \in 1 .. Len(hand[c])}
                        \cup {send'[c][i] : i \in 1 .. Len(s) + 1}
      BY <2>3, <2>8 DEF Pending
    <3>3. Len(s) \in Nat BY <2>1
    <3>4. \A i \in 1 .. Len(s) + 1 : i = Len(s) + 1 \/ i \in 1 .. Len(s) BY <3>3
    <3>5. \A i \in 1 .. Len(s) : i \in 1 .. Len(s) + 1 BY <3>3
    <3>6. Len(s) + 1 \in 1 .. Len(s) + 1 BY <3>3
    <3>7. {send'[c][i] : i \in 1 .. Len(s) + 1} = {s[i] : i \in 1 .. Len(s)} \cup {n}
      BY <2>3, <3>4, <3>5, <3>6
    <3> QED BY <3>1, <3>2, <3>7
  <2>10. EventsOf(c, LastOf(c), n)' = EventsOf(c, LastOf(c), m) \cup {n}
    BY <2>1, <2>4, <2>5, <2>7 DEF EventsOf
  <2>11. Sorted(c)'
    <3>1. /\ \A i, j \in 1 .. Len(s) : i < j => s[i] < s[j]
          /\ \A i \in 1 .. Len(hand[c]), j \in 1 .. Len(s) : hand[c][i] < s[j]
      BY <2>5 DEF Sorted, s
    <3>2. /\ \A i \in 1 .. Len(s) : s[i] < n
          /\ \A i \in 1 .. Len(hand[c]) : hand[c][i] < n
      BY <2>6 DEF Pending, s
    <3>3. Len(s) \in Nat BY <2>1
    <3>4. \A i, j \in 1 .. Len(s) + 1 : i < j => send'[c][i] < send'[c][j]
      BY <2>3, <3>1, <3>2, <3>3
    <3>5. \A i \in 1 .. Len(hand[c]), j \in 1 .. Len(s) + 1 : hand[c][i] < send'[c][j]
      BY <2>3, <3>1, <3>2, <3>3
    <3> QED BY <2>3, <2>8, <3>4, <3>5 DEF Sorted
  <2>12. Chain(c, n)'
    BY <2>0, <2>1, <2>4, <2>5, <2>7, <2>9, <2>10, <2>11 DEF Chain
  <2> QED BY <1>4, <2>0, <2>12
<1> QED BY <1>3, <1>4

-----------------------------------------------------------------------------

(* The steps that are none of the above. *)
Aside(c) ==
  \/ Upgrade(c) \/ StartPumps(c) \/ ReadFails(c) \/ LosePeer(c) \/ CloseConn(c)
  \/ WriteFails(c) \/ PingFails(c) \/ SeeClose(c)

AsideCall == SeeStop \/ Shutdown \/ \E h \in Callers : Call(h) \/ GiveUp(h)

LEMMA StopsWriting ==
  ASSUME NEW c, WriteFails(c) \/ PingFails(c) \/ SeeClose(c)
  PROVE  StopWriting(c) /\ writer[c] # "none"
BY DEF WriteFails, PingFails, SeeClose

LEMMA AsideStep == ASSUME FeedInv, NEW c \in Conns, Aside(c) PROVE FeedInv'
<1> USE DEF FeedInv
<1>1. IInv'
  BY NextKeepsInv DEF Next, Aside, ReadPump, WritePump
<1>2. CASE WriteFails(c) \/ PingFails(c) \/ SeeClose(c)
  <2>1. /\ StopWriting(c) /\ writer[c] # "none"
        /\ UNCHANGED <<rooms, send, todo, log, stop, call, reader, got, since>>
    BY <1>2, StopsWriting DEF StopWriting
  <2>2. \A d \in Conns : sock'[d] = "open" => sock[d] = "open" /\ hand'[d] = hand[d]
    BY <2>1 DEF StopWriting, IInv, TypeOK
  <2>3. Gapless' BY <2>1, <2>2, QuietStep DEF rooms, Registered
  <2>4. (NothingBefore /\ InOrOut /\ LeftBefore)'
    BY <2>1 DEF NothingBefore, InOrOut, LeftBefore, rooms, Registered
  <2>5. OneInHand' BY <2>1 DEF StopWriting, OneInHand, IInv, TypeOK
  <2> QED BY <1>1, <2>3, <2>4, <2>5
<1>3. CASE Upgrade(c) \/ StartPumps(c) \/ ReadFails(c) \/ LosePeer(c) \/ CloseConn(c)
  <2>1. UNCHANGED <<rooms, send, todo, log, stop, call, hand, got, since>>
    BY <1>3 DEF Upgrade, StartPumps, ReadFails, LosePeer, CloseConn
  <2>2. \A d \in Conns : /\ Registered(d)' <=> Registered(d)
                         /\ sock'[d] = "open" => sock[d] = "open"
    BY <1>3 DEF Upgrade, StartPumps, ReadFails, LosePeer, CloseConn, Registered, IInv, TypeOK
  <2>3. Gapless' BY <2>1, <2>2, QuietStep DEF rooms
  <2>4. (NothingBefore /\ InOrOut /\ LeftBefore)'
    BY <2>1, <2>2 DEF NothingBefore, InOrOut, LeftBefore, rooms
  <2>5. OneInHand'
    BY <1>3, <2>1 DEF OneInHand, Upgrade, StartPumps, ReadFails, LosePeer, CloseConn, IInv, TypeOK
  <2> QED BY <1>1, <2>3, <2>4, <2>5
<1> QED BY <1>2, <1>3 DEF Aside

LEMMA AsideCallStep == ASSUME FeedInv, AsideCall \/ UNCHANGED vars PROVE FeedInv'
<1> USE DEF FeedInv
<1>1. IInv' BY NextKeepsInv DEF Next, AsideCall, Run
<1>2. UNCHANGED <<rooms, send, todo, log, pumps, since>>
  BY DEF AsideCall, SeeStop, Shutdown, Call, GiveUp, vars, rooms, pumps
<1>3. Gapless' BY <1>2, QuietStep DEF rooms, pumps, Registered
<1>4. (NothingBefore /\ OneInHand /\ InOrOut /\ LeftBefore)'
  BY <1>2 DEF NothingBefore, OneInHand, InOrOut, LeftBefore, rooms, pumps, Registered
<1> QED BY <1>1, <1>3, <1>4

(* The steps in which clients leave their rooms. *)
Leave(D) ==
  /\ Remove(D)
  /\ todo' = todo \ D
  /\ UNCHANGED <<log, send, since, hand, got, writer>>
  /\ \A c \in Conns : /\ Registered(c)' <=> Registered(c)
                      /\ sock'[c] = "open" => sock[c] = "open"
                      /\ reader'[c] = "start" => reader[c] = "start"
                      /\ reader'[c] = "register" => reader[c] = "register"
                      /\ reader'[c] = "new" => reader[c] = "new"

LEMMA LeaveStep ==
  ASSUME FeedInv, IInv', NEW D \in SUBSET joined, Leave(D)
  PROVE  FeedInv'
<1> USE DEF FeedInv, Leave
<1>1. Gapless' BY RemoveStep
<1>2. NothingBefore' BY DEF NothingBefore
<1>3. OneInHand' BY DEF OneInHand
<1>4. InOrOut' BY DEF InOrOut, Remove
<1>5. LeftBefore' BY DEF LeftBefore, Remove, IInv, TypeOK
<1> QED BY <1>1, <1>2, <1>3, <1>4, <1>5

Leaves == \E D \in SUBSET joined : Leave(D)

LEMMA UnregisterLeaves == ASSUME FeedInv, NEW c \in Conns, Unregister(c) PROVE Leaves
<1> DEFINE D == {c} \cap joined
<1>1. D \in SUBSET joined OBVIOUS
<1>2. Remove(D) /\ todo = {} /\ todo' = {} BY DEF Unregister, Ready
<1>3. /\ UNCHANGED <<log, send, since, hand, got, writer, sock>>
      /\ reader' = [reader EXCEPT ![c] = "close"] /\ reader[c] = "leave"
  BY DEF Unregister
<1>4. \A d \in Conns : reader'[d] = reader[d] \/ (reader[d] = "leave" /\ reader'[d] = "close")
  BY <1>3 DEF FeedInv, IInv, TypeOK
<1> HIDE DEF D
<1>5. Leave(D) BY <1>2, <1>3, <1>4 DEF Leave, Registered
<1> QED BY <1>1, <1>5 DEF Leaves

LEMMA EvictLeaves == ASSUME FeedInv, NEW h \in Callers, TakeEvict(h) PROVE Leaves
<1> DEFINE D == {c \in Room(call[h].board) : UserOf[c] = call[h].user}
<1>1. D \in SUBSET joined BY DEF Room
<1>2. Remove(D) /\ todo = {} /\ todo' = {} /\ UNCHANGED <<log, send, since, pumps>>
  BY DEF TakeEvict, Ready
<1> HIDE DEF D
<1>3. Leave(D) BY <1>2 DEF Leave, Registered, pumps
<1> QED BY <1>1, <1>3 DEF Leaves

LEMMA StopLeaves == ASSUME FeedInv, NEW c \in Conns, StopClient(c) PROVE Leaves
<1>1. {c} \in SUBSET joined BY DEF StopClient
<1>2. todo = {} /\ todo' = {} BY DEF StopClient, FeedInv, IInv, FanOutBeforeStop
<1>3. /\ Remove({c}) /\ UNCHANGED <<log, send, since, hand, got, writer, reader>>
      /\ sock' = [sock EXCEPT ![c] = "closed"]
  BY DEF StopClient
<1>4. \A d \in Conns : sock'[d] = "open" => sock[d] = "open"
  BY <1>3 DEF FeedInv, IInv, TypeOK
<1>5. Leave({c}) BY <1>2, <1>3, <1>4 DEF Leave, Registered
<1> QED BY <1>1, <1>5 DEF Leaves

(* A client whose buffer is full leaves, the others get the message. *)
Sends(c) ==
  /\ send' = [send EXCEPT ![c] = Append(@, Len(log))]
  /\ todo' = todo \ {c}
  /\ UNCHANGED <<joined, closed, until, log, stop, call, pumps, since>>

LEMMA FanOutSendsOrLeaves ==
  ASSUME FeedInv, NEW c \in Conns, FanOut(c)
  PROVE  Leaves \/ Sends(c)
<1>1. CASE Remove({c}) /\ UNCHANGED send
  <2>1. {c} \in SUBSET joined BY DEF FanOut, FeedInv, IInv, TypeOK
  <2>2. todo' = todo \ {c} /\ UNCHANGED <<log, pumps, since>> BY DEF FanOut
  <2>3. Leave({c}) BY <1>1, <2>2 DEF Leave, Registered, pumps
  <2> QED BY <2>1, <2>3 DEF Leaves
<1>2. CASE /\ send' = [send EXCEPT ![c] = Append(@, Len(log))]
           /\ UNCHANGED <<joined, closed, until>>
  BY <1>2 DEF FanOut, Sends
<1> QED BY <1>1, <1>2 DEF FanOut, SendOrDrop

LEMMA SendKeeps ==
  ASSUME FeedInv, IInv', NEW c \in todo, Sends(c)
  PROVE  FeedInv'
<1> USE DEF FeedInv, Sends
<1>1. Gapless' BY SendStep
<1>2. c \in Conns /\ Registered(c)
  BY DEF IInv, TypeOK, FreshIsOpen, Registered
<1>3. NothingBefore' BY <1>2 DEF NothingBefore, pumps, Registered, IInv, TypeOK
<1>4. (OneInHand /\ InOrOut /\ LeftBefore)'
  BY DEF OneInHand, InOrOut, LeftBefore, pumps, Registered
<1> QED BY <1>1, <1>3, <1>4

LEMMA NextKeepsFeed == FeedInv /\ [Next]_vars => FeedInv'
<1> SUFFICES ASSUME FeedInv, [Next]_vars PROVE FeedInv'
  OBVIOUS
<1>1. IInv' BY NextKeepsInv DEF FeedInv
<1>2. ASSUME NEW c \in Conns, Aside(c) PROVE FeedInv' BY <1>2, AsideStep
<1>3. CASE AsideCall \/ UNCHANGED vars BY <1>3, AsideCallStep
<1>4. CASE Leaves BY <1>1, <1>4, LeaveStep DEF Leaves
<1>5. ASSUME NEW c \in Conns, TakeMessage(c) PROVE FeedInv'
  <2>1. Gapless' BY <1>5, TakeStep
  <2>2. reader[c] \notin {"new", "register", "start"} /\ send[c] # <<>>
    BY <1>5 DEF TakeMessage, FeedInv, OneInHand
  <2>3. NothingBefore'
    BY <1>5, <2>2 DEF TakeMessage, FeedInv, NothingBefore, Registered, IInv, TypeOK
  <2>4. OneInHand' BY <1>5, <2>2 DEF TakeMessage, FeedInv, OneInHand, IInv, TypeOK
  <2>5. (InOrOut /\ LeftBefore)'
    BY <1>5 DEF TakeMessage, rooms, FeedInv, InOrOut, LeftBefore, Registered
  <2> QED BY <1>1, <2>1, <2>3, <2>4, <2>5 DEF FeedInv
<1>6. ASSUME NEW c \in Conns, WriteMessage(c) PROVE FeedInv'
  <2>1. Gapless' BY <1>6, WriteStep
  <2>2. reader[c] \notin {"new", "register", "start"}
    BY <1>6 DEF WriteMessage, FeedInv, OneInHand
  <2>3. NothingBefore'
    BY <1>6, <2>2 DEF WriteMessage, FeedInv, NothingBefore, Registered, IInv, TypeOK
  <2>4. OneInHand' BY <1>6, <2>2 DEF WriteMessage, FeedInv, OneInHand, IInv, TypeOK
  <2>5. (InOrOut /\ LeftBefore)'
    BY <1>6 DEF WriteMessage, rooms, FeedInv, InOrOut, LeftBefore, Registered
  <2> QED BY <1>1, <2>1, <2>3, <2>4, <2>5 DEF FeedInv
<1>7. ASSUME NEW c \in Conns, Register(c) PROVE FeedInv'
  <2>1. Gapless' BY <1>7, RegisterStep
  <2>2. (NothingBefore /\ OneInHand /\ InOrOut /\ LeftBefore)'
    BY <1>7 DEF Register, FeedInv, NothingBefore, OneInHand, InOrOut, LeftBefore, Registered,
       IInv, TypeOK
  <2> QED BY <1>1, <2>1, <2>2 DEF FeedInv
<1>8. ASSUME NEW h \in Callers, TakeBroadcast(h) PROVE FeedInv'
  <2>1. Gapless' BY <1>8, BroadcastStep
  <2>2. (NothingBefore /\ OneInHand /\ InOrOut)'
    BY <1>8 DEF TakeBroadcast, rooms, pumps, FeedInv, NothingBefore, OneInHand, InOrOut, Registered
  <2>3. Len(log') = Len(log) + 1
    <3>1. call[h] \in Calls /\ call[h].board \in Boards
      BY <1>8 DEF FeedInv, IInv, TypeOK, TakeBroadcast, Calls, NoCall
    <3> QED BY <1>8, <3>1 DEF TakeBroadcast, FeedInv, IInv, TypeOK
  <2>4. LeftBefore'
    BY <1>8, <2>3 DEF TakeBroadcast, rooms, FeedInv, LeftBefore, IInv, TypeOK
  <2> QED BY <1>1, <2>1, <2>2, <2>4 DEF FeedInv
<1>9. ASSUME NEW c \in Conns, FanOut(c) PROVE FeedInv'
  BY <1>1, <1>4, <1>9, FanOutSendsOrLeaves, SendKeeps DEF FanOut
<1>10. ASSUME NEW c \in Conns, Unregister(c) \/ StopClient(c) PROVE FeedInv'
  BY <1>4, <1>10, UnregisterLeaves, StopLeaves
<1>11. ASSUME NEW h \in Callers, TakeEvict(h) PROVE FeedInv'
  BY <1>4, <1>11, EvictLeaves
<1> QED
  BY <1>2, <1>3, <1>5, <1>6, <1>7, <1>8, <1>9, <1>10, <1>11
  DEF Next, Run, ReadPump, WritePump, Aside, AsideCall

LEMMA FeedHolds == Spec => []FeedInv
BY InitFeed, NextKeepsFeed, PTL DEF Spec

-----------------------------------------------------------------------------

Phase == [c \in Conns |-> PhaseOf(c)]

(* BoardFeed's steps, with the mapping's terms in place. *)
LEMMA FeedStutters ==
  ASSUME UNCHANGED <<log, Phase, since, until, got>>
  PROVE  UNCHANGED Promised!vars
BY DEF Promised!vars, Phase, PhaseOf, Registered

LEMMA FeedPublishes ==
  ASSUME NEW b \in Boards, log' = Append(log, b), UNCHANGED <<Phase, since, until, got>>
  PROVE  Promised!Next
<1>1. Promised!Publish(b) BY DEF Promised!Publish, Phase, PhaseOf, Registered
<1> QED BY <1>1 DEF Promised!Next

LEMMA FeedSubscribes ==
  ASSUME NEW c \in Conns, PhaseOf(c) = "new", Phase' = [Phase EXCEPT ![c] = "live"],
         since' = [since EXCEPT ![c] = Len(log)], UNCHANGED <<log, until, got>>
  PROVE  Promised!Next
<1>1. Promised!Subscribe(c) BY DEF Promised!Subscribe, Phase, PhaseOf, Registered
<1> QED BY <1>1 DEF Promised!Next

LEMMA FeedDrops ==
  ASSUME NEW D \in SUBSET Conns, \A c \in D : PhaseOf(c) = "live",
         Phase' = [c \in Conns |-> IF c \in D THEN "gone" ELSE PhaseOf(c)],
         until' = [c \in Conns |-> IF c \in D THEN Len(log) ELSE until[c]],
         UNCHANGED <<log, since, got>>
  PROVE  Promised!Next
<1>1. Promised!Drop(D) BY DEF Promised!Drop, Phase, PhaseOf, Registered
<1> QED BY <1>1 DEF Promised!Next

LEMMA FeedDelivers ==
  ASSUME NEW c \in Conns, PhaseOf(c) # "new", NEW x \in EventsOf(c, LastOf(c), LimitOf(c)),
         x = Promised!First(EventsOf(c, LastOf(c), LimitOf(c))),
         got' = [got EXCEPT ![c] = Append(@, x)], UNCHANGED <<log, Phase, since, until>>
  PROVE  Promised!Next
<1>1. Promised!Last(c) = LastOf(c) BY DEF Promised!Last, LastOf
<1>2. Promised!Limit(c) = LimitOf(c)
  BY DEF Promised!Limit, LimitOf, PhaseOf, Registered
<1>3. Promised!Events(c, LastOf(c), LimitOf(c)) = EventsOf(c, LastOf(c), LimitOf(c))
  BY DEF Promised!Events, EventsOf
<1>4. Promised!Deliver(c)
  BY <1>1, <1>2, <1>3 DEF Promised!Deliver, Phase, PhaseOf, Registered
<1> QED BY <1>4 DEF Promised!Next

(* The least number of a set is the one CHOOSE takes. *)
LEMMA LeastIsFirst ==
  ASSUME NEW S \in SUBSET Nat, NEW x \in S, \A k \in S : x <= k
  PROVE  x = Promised!First(S)
<1>1. \A y \in S : (\A k \in S : y <= k) => y = x OBVIOUS
<1> QED BY <1>1 DEF Promised!First

-----------------------------------------------------------------------------

(* A write to an open socket delivers the board's next event; another write   *)
(* reaches nobody.                                                          *)
LEMMA WriteMaps ==
  ASSUME FeedInv, NEW c \in Conns, WriteMessage(c)
  PROVE  Promised!Next \/ UNCHANGED Promised!vars
<1>1. UNCHANGED <<log, Phase, since, until>>
  BY DEF WriteMessage, rooms, Phase, PhaseOf, Registered
<1>2. CASE sock[c] # "open"
  BY <1>1, <1>2, FeedStutters DEF WriteMessage
<1>3. CASE sock[c] = "open"
  <2>1. writer[c] = "write" /\ Registered(c)
    BY DEF WriteMessage, FeedInv, OneInHand, Registered
  <2>2. PICK m \in Nat : Chain(c, m) BY <1>3, <2>1 DEF FeedInv, Gapless, Chain
  <2>3. PICK x \in Nat : x = hand[c][1] BY <2>1, <2>2, NextEvent
  <2>4. /\ hand[c] = <<x>> /\ x \in EventsOf(c, LastOf(c), m)
        /\ \A k \in EventsOf(c, LastOf(c), m) : x <= k
    BY <2>1, <2>2, <2>3, NextEvent
  <2>5. PICK l \in Nat : l = LastOf(c) BY <2>2 DEF Chain
  <2>6. PICK n \in Nat : n = LimitOf(c)
    BY DEF LimitOf, FeedInv, IInv, TypeOK
  <2>7. m <= n BY <2>2, <2>6 DEF Chain
  <2>8. /\ EventsOf(c, l, n) \in SUBSET Nat
        /\ x \in EventsOf(c, l, n)
        /\ \A k \in EventsOf(c, l, n) : x <= k
    BY <2>4, <2>5, <2>7 DEF EventsOf
  <2>9. x = Promised!First(EventsOf(c, l, n)) BY <2>8, LeastIsFirst
  <2>10. got' = [got EXCEPT ![c] = Append(@, x)]
    <3>1. got[c] \in Seq(Nat) BY DEF FeedInv, IInv, TypeOK
    <3>2. got[c] \o <<x>> = Append(got[c], x) BY <3>1
    <3>3. got' = [got EXCEPT ![c] = @ \o hand[c]] BY <1>3 DEF WriteMessage
    <3> QED BY <2>4, <3>2, <3>3
  <2>11. PhaseOf(c) # "new" BY <2>1 DEF PhaseOf
  <2> QED BY <1>1, <2>5, <2>6, <2>8, <2>9, <2>10, <2>11, FeedDelivers
<1> QED BY <1>2, <1>3

LEMMA RegisterMaps ==
  ASSUME FeedInv, NEW c \in Conns, Register(c)
  PROVE  Promised!Next
<1>1. c \notin closed /\ PhaseOf(c) = "new"
  BY DEF Register, FeedInv, IInv, TypeOK, FreshIsOpen, PhaseOf, Registered
<1>2. Phase' = [Phase EXCEPT ![c] = "live"]
  BY <1>1 DEF Register, Phase, PhaseOf, Registered, FeedInv, IInv, TypeOK
<1> QED BY <1>1, <1>2, FeedSubscribes DEF Register

LEMMA LeaveMaps ==
  ASSUME FeedInv, Leaves
  PROVE  Promised!Next
<1>1. PICK D \in SUBSET joined : Leave(D) BY DEF Leaves
<1>2. D \in SUBSET Conns /\ \A c \in D : PhaseOf(c) = "live"
  BY DEF FeedInv, IInv, TypeOK, OpenInRoom, FreshIsOpen, PhaseOf, Registered
<1>3. Phase' = [c \in Conns |-> IF c \in D THEN "gone" ELSE PhaseOf(c)]
  BY <1>1 DEF Leave, Remove, Phase, PhaseOf
<1> QED BY <1>1, <1>2, <1>3, FeedDrops DEF Leave, Remove

LEMMA BroadcastMaps ==
  ASSUME FeedInv, NEW h \in Callers, TakeBroadcast(h)
  PROVE  Promised!Next
<1>1. call[h] \in Calls /\ call[h].board \in Boards
  BY DEF FeedInv, IInv, TypeOK, TakeBroadcast, Calls, NoCall
<1>2. UNCHANGED <<Phase, since, until, got>>
  BY DEF TakeBroadcast, rooms, pumps, Phase, PhaseOf, Registered
<1> QED BY <1>1, <1>2, FeedPublishes DEF TakeBroadcast

(* Everything else is invisible to a browser. *)
LEMMA AsideMaps ==
  ASSUME FeedInv, NEW c \in Conns, Aside(c) \/ TakeMessage(c)
  PROVE  UNCHANGED Promised!vars
<1>1. UNCHANGED <<log, closed, since, until, got>>
  BY DEF Aside, TakeMessage, Upgrade, StartPumps, ReadFails, LosePeer, CloseConn,
     WriteFails, PingFails, SeeClose, StopWriting, rooms
<1>2. \A d \in Conns : Registered(d)' <=> Registered(d)
  BY DEF Aside, TakeMessage, Upgrade, StartPumps, ReadFails, LosePeer, CloseConn,
     WriteFails, PingFails, SeeClose, StopWriting, Registered, FeedInv, IInv, TypeOK
<1>3. UNCHANGED Phase BY <1>1, <1>2 DEF Phase, PhaseOf
<1> QED BY <1>1, <1>3, FeedStutters

LEMMA CallMaps ==
  ASSUME AsideCall \/ UNCHANGED vars \/ \E c \in Conns : Sends(c)
  PROVE  UNCHANGED Promised!vars
<1>1. UNCHANGED <<log, closed, reader, since, until, got>>
  BY DEF AsideCall, Sends, SeeStop, Shutdown, Call, GiveUp, vars, rooms, pumps
<1>2. UNCHANGED Phase BY <1>1 DEF Phase, PhaseOf, Registered
<1> QED BY <1>1, <1>2, FeedStutters

-----------------------------------------------------------------------------

(* The hub implements the feed: what a browser receives is a contiguous part  *)
(* of its board's broadcasts from the moment it registered, in order, and    *)
(* nothing broadcast after it left, in every interleaving of Run, the pumps  *)
(* and the handlers, however many connections there are.                    *)
THEOREM HubImplementsFeed == Spec => ImplementsFeed
<1>1. Init => Promised!Init
  BY DEF Init, Promised!Init
<1>2. FeedInv /\ [Next]_vars => [Promised!Next]_(Promised!vars)
  <2> SUFFICES ASSUME FeedInv, [Next]_vars
               PROVE  Promised!Next \/ UNCHANGED Promised!vars
    OBVIOUS
  <2>1. ASSUME NEW c \in Conns, Aside(c) \/ TakeMessage(c)
        PROVE  UNCHANGED Promised!vars
    BY <2>1, AsideMaps
  <2>2. CASE AsideCall \/ UNCHANGED vars BY <2>2, CallMaps
  <2>3. ASSUME NEW c \in Conns, WriteMessage(c)
        PROVE  Promised!Next \/ UNCHANGED Promised!vars
    BY <2>3, WriteMaps
  <2>4. ASSUME NEW c \in Conns, Register(c) PROVE Promised!Next
    BY <2>4, RegisterMaps
  <2>5. ASSUME NEW c \in Conns, FanOut(c)
        PROVE  Promised!Next \/ UNCHANGED Promised!vars
    BY <2>5, FanOutSendsOrLeaves, LeaveMaps, CallMaps
  <2>6. ASSUME NEW c \in Conns, Unregister(c) \/ StopClient(c) PROVE Promised!Next
    BY <2>6, UnregisterLeaves, StopLeaves, LeaveMaps
  <2>7. ASSUME NEW h \in Callers, TakeEvict(h) PROVE Promised!Next
    BY <2>7, EvictLeaves, LeaveMaps
  <2>8. ASSUME NEW h \in Callers, TakeBroadcast(h) PROVE Promised!Next
    BY <2>8, BroadcastMaps
  <2> QED
    BY <2>1, <2>2, <2>3, <2>4, <2>5, <2>6, <2>7, <2>8
    DEF Next, Run, ReadPump, WritePump, Aside, AsideCall
<1> QED BY <1>1, <1>2, FeedHolds, PTL DEF Spec, ImplementsFeed, Promised!Spec
-----------------------------------------------------------------------------
(***************************************************************************)
(* Nothing is missed.  The sequence that Feed computes has the board's       *)
(* broadcasts one by one (FeedNext), so the property says itself what each  *)
(* step has to keep, but for a client that the current broadcast has still  *)
(* to visit: it has all of its feed but the last message (InStep).          *)
(***************************************************************************)

\* The order that the library's well-founded minimum is about.
LEMMA LessThan == OpToRel(<, Nat) = {ss \in Nat \X Nat : ss[1] < ss[2]}
BY DEF OpToRel

\* A set of numbers that is not empty has a smallest one.
LEMMA HasLeast ==
  ASSUME NEW S \in SUBSET Nat, S # {} PROVE \E x \in S : \A y \in S : x <= y
<1> DEFINE R == OpToRel(<, Nat)
<1>1. IsWellFoundedOn(R, Nat) BY NatLessThanWellFounded
<1>2. R = {ss \in Nat \X Nat : ss[1] < ss[2]} BY LessThan
<1> HIDE DEF R
<1>3. PICK x \in S : \A y \in S : ~(<<y, x>> \in R) BY <1>1, WFMin
<1>4. ASSUME NEW y \in S PROVE x <= y
  <2>1. <<y, x>> \in Nat \X Nat /\ <<y, x>>[1] = y /\ <<y, x>>[2] = x OBVIOUS
  <2>2. ~(y < x) BY <1>2, <1>3, <2>1
  <2> QED BY <2>2
<1> QED BY <1>4

\* Induction up to a bound, about a set.
LEMMA UpTo ==
  ASSUME NEW N \in Nat, NEW G, 0 \in G, \A n \in 0 .. N : n \in G /\ n < N => n + 1 \in G
  PROVE  \A n \in 0 .. N : n \in G
<1> DEFINE bad == {n \in 0 .. N : n \notin G}
<1>1. SUFFICES ASSUME bad # {} PROVE FALSE OBVIOUS
<1>2. bad \in SUBSET Nat OBVIOUS
<1>3. PICK n \in bad : \A y \in bad : n <= y BY <1>1, <1>2, HasLeast
<1>4. n \in 1 .. N OBVIOUS
<1>5. n - 1 \in 0 .. N /\ n - 1 < N /\ (n - 1) + 1 = n BY <1>4
<1>6. n - 1 \notin bad BY <1>3, <1>5
<1> QED BY <1>5, <1>6

\* One step of the recursion.
FeedStep(q, l, s, b, i) == IF i > s /\ l[i] = b THEN Append(q, i) ELSE q
FeedSteps(f, l, s, b, n) ==
  f[0] = <<>> /\ \A i \in 1 .. n : f[i] = FeedStep(f[i - 1], l, s, b, i)

\* The recursion defines a function, which makes one step at each place.
LEMMA FeedIs ==
  ASSUME NEW T, NEW l \in Seq(T), NEW s, NEW b
  PROVE  \E f \in [0 .. Len(l) -> Seq(Nat)] :
           FeedSteps(f, l, s, b, Len(l)) /\ FeedOf(l, s, b) = f[Len(l)]
<1> DEFINE N == Len(l)
           Body(f) == [i \in 0 .. N |-> IF i = 0 THEN <<>>
                                        ELSE IF i > s /\ l[i] = b THEN Append(f[i - 1], i)
                                        ELSE f[i - 1]]
           feed == CHOOSE f : f = Body(f)
           Steps(f, n) == f[0] = <<>> /\ \A i \in 1 .. n : f[i] = FeedStep(f[i - 1], l, s, b, i)
           G == {n \in 0 .. N : \E f \in [0 .. n -> Seq(Nat)] : Steps(f, n)}
<1>1. N \in Nat OBVIOUS
<1>2. \A q \in Seq(Nat), i \in 1 .. N : FeedStep(q, l, s, b, i) \in Seq(Nat)
  BY <1>1 DEF FeedStep
<1> HIDE DEF N
<1>3. 0 \in G
  <2> DEFINE e == [i \in 0 .. 0 |-> <<>>]
  <2>1. e \in [0 .. 0 -> Seq(Nat)] /\ e[0] = <<>> /\ 1 .. 0 = {} /\ 0 \in 0 .. N BY <1>1
  <2> HIDE DEF e
  <2>2. Steps(e, 0) BY <2>1
  <2> QED BY <2>1, <2>2
<1>4. ASSUME NEW n \in 0 .. N, n \in G, n < N PROVE n + 1 \in G
  <2>1. PICK f \in [0 .. n -> Seq(Nat)] : Steps(f, n) BY <1>4
  <2> DEFINE x == FeedStep(f[n], l, s, b, n + 1)
             g == [i \in 0 .. n + 1 |-> IF i = n + 1 THEN x ELSE f[i]]
  <2>2. n + 1 \in 0 .. N /\ n + 1 \in 1 .. N /\ n \in 0 .. n /\ n \in Nat BY <1>1, <1>4
  <2>3. x \in Seq(Nat) BY <1>2, <2>2
  <2>4. ASSUME NEW i \in 1 .. n + 1 PROVE g[i] = FeedStep(g[i - 1], l, s, b, i)
    <3>1. CASE i = n + 1
      <4>1. g[i] = x /\ g[i - 1] = f[n] BY <2>2, <3>1
      <4> QED BY <3>1, <4>1
    <3>2. CASE i # n + 1
      <4>1. i \in 1 .. n /\ i - 1 \in 0 .. n /\ i - 1 # n + 1 /\ i - 1 \in 0 .. n + 1
        BY <2>2, <3>2
      <4>2. g[i] = f[i] /\ g[i - 1] = f[i - 1] BY <2>2, <3>2, <4>1
      <4> QED BY <2>1, <4>1, <4>2
    <3> QED BY <3>1, <3>2
  <2> HIDE DEF x
  <2>5. g \in [0 .. n + 1 -> Seq(Nat)] BY <2>2, <2>3
  <2>6. g[0] = <<>> BY <2>1, <2>2
  <2> HIDE DEF g
  <2>7. Steps(g, n + 1) BY <2>4, <2>6
  <2> QED BY <2>2, <2>5, <2>7
<1>5. N \in G
  <2>1. \A n \in 0 .. N : n \in G /\ n < N => n + 1 \in G BY <1>4
  <2> HIDE DEF G
  <2>2. \A n \in 0 .. N : n \in G BY <1>1, <1>3, <2>1, UpTo
  <2> QED BY <1>1, <2>2
<1>6. PICK f \in [0 .. N -> Seq(Nat)] : Steps(f, N) BY <1>5
<1>7. f = Body(f)
  <2>1. f = [i \in 0 .. N |-> f[i]] OBVIOUS
  <2>2. \A i \in 0 .. N : i # 0 => i \in 1 .. N BY <1>1
  <2>3. \A i \in 0 .. N : f[i] = IF i = 0 THEN <<>>
                                 ELSE IF i > s /\ l[i] = b THEN Append(f[i - 1], i)
                                 ELSE f[i - 1]
    BY <1>6, <2>2 DEF FeedStep
  <2> QED BY <2>1, <2>3
<1>8. feed = Body(feed) BY <1>7
<1>9. FeedOf(l, s, b) = feed[N] BY DEF FeedOf, N
<1> HIDE DEF feed
<1>10. Steps(feed, N)
  <2>1. 0 \in 0 .. N /\ \A i \in 1 .. N : i \in 0 .. N /\ i # 0 BY <1>1
  <2>2. feed[0] = <<>> BY <1>8, <2>1
  <2>3. \A i \in 1 .. N : feed[i] = FeedStep(feed[i - 1], l, s, b, i)
    BY <1>8, <2>1 DEF FeedStep
  <2> QED BY <2>2, <2>3
<1> DEFINE H == {n \in 0 .. N : feed[n] \in Seq(Nat)}
<1>11. \A n \in 0 .. N : n \in H
  <2>1. 0 \in H
    <3>1. feed[0] = <<>> /\ 0 \in 0 .. N BY <1>1, <1>10
    <3>2. <<>> \in Seq(Nat) OBVIOUS
    <3> QED BY <3>1, <3>2
  <2>2. ASSUME NEW n \in 0 .. N, n \in H, n < N PROVE n + 1 \in H
    <3>1. n + 1 \in 0 .. N /\ n + 1 \in 1 .. N /\ (n + 1) - 1 = n BY <1>1, <2>2
    <3>2. feed[n + 1] = FeedStep(feed[n], l, s, b, n + 1) BY <1>10, <3>1
    <3> QED BY <1>2, <2>2, <3>1, <3>2
  <2>3. \A n \in 0 .. N : n \in H /\ n < N => n + 1 \in H BY <2>2
  <2> HIDE DEF H
  <2> QED BY <1>1, <2>1, <2>3, UpTo
<1>12. feed \in [0 .. N -> Seq(Nat)]
  <2>1. feed = [i \in 0 .. N |-> feed[i]] BY <1>8
  <2>2. \A i \in 0 .. N : feed[i] \in Seq(Nat) BY <1>11
  <2> QED BY <2>1, <2>2
<1>13. FeedSteps(feed, l, s, b, N) BY <1>10 DEF FeedSteps
<1> QED BY <1>9, <1>12, <1>13 DEF N

\* A broadcast to the board is one message more, another one none.
LEMMA FeedNext ==
  ASSUME NEW T, NEW l \in Seq(T), NEW x \in T, NEW s, NEW b
  PROVE  /\ FeedOf(l, s, b) \in Seq(Nat)
         /\ FeedOf(Append(l, x), s, b) =
              IF Len(l) + 1 > s /\ x = b THEN Append(FeedOf(l, s, b), Len(l) + 1)
              ELSE FeedOf(l, s, b)
<1> DEFINE N == Len(l)
           m == Append(l, x)
<1>1. N \in Nat /\ m \in Seq(T) /\ Len(m) = N + 1 /\ m[N + 1] = x
      /\ \A i \in 1 .. N : m[i] = l[i]
  OBVIOUS
<1>2. PICK f \in [0 .. N -> Seq(Nat)] :
        FeedSteps(f, l, s, b, N) /\ FeedOf(l, s, b) = f[N]
  BY FeedIs
<1> HIDE DEF m
<1>3. PICK g \in [0 .. N + 1 -> Seq(Nat)] :
        FeedSteps(g, m, s, b, N + 1) /\ FeedOf(m, s, b) = g[N + 1]
  BY <1>1, FeedIs
<1> HIDE DEF N
<1> DEFINE G == {n \in 0 .. N : g[n] = f[n]}
<1>4. 0 \in G BY <1>1, <1>2, <1>3 DEF FeedSteps
<1>5. ASSUME NEW n \in 0 .. N, n \in G, n < N PROVE n + 1 \in G
  <2>1. n + 1 \in 0 .. N /\ n + 1 \in 1 .. N /\ n + 1 \in 1 .. N + 1 /\ (n + 1) - 1 = n
    BY <1>1, <1>5
  <2>2. /\ f[n + 1] = FeedStep(f[n], l, s, b, n + 1)
        /\ g[n + 1] = FeedStep(g[n], m, s, b, n + 1)
    BY <1>2, <1>3, <2>1 DEF FeedSteps
  <2>3. m[n + 1] = l[n + 1] BY <1>1, <2>1
  <2>4. g[n + 1] = f[n + 1] BY <1>5, <2>2, <2>3 DEF FeedStep
  <2> QED BY <2>1, <2>4
<1>6. N \in G
  <2>1. \A n \in 0 .. N : n \in G /\ n < N => n + 1 \in G BY <1>5
  <2> HIDE DEF G
  <2>2. \A n \in 0 .. N : n \in G BY <1>1, <1>4, <2>1, UpTo
  <2> QED BY <1>1, <2>2
<1>7. N + 1 \in 1 .. N + 1 /\ (N + 1) - 1 = N /\ N \in 0 .. N BY <1>1
<1>8. g[N + 1] = FeedStep(g[N], m, s, b, N + 1) BY <1>3, <1>7 DEF FeedSteps
<1>9. FeedOf(m, s, b) = FeedStep(FeedOf(l, s, b), m, s, b, N + 1) BY <1>2, <1>3, <1>6, <1>8
<1>10. f[N] \in Seq(Nat) BY <1>2, <1>7
<1>11. FeedOf(l, s, b) \in Seq(Nat) BY <1>2, <1>10
<1> QED BY <1>1, <1>9, <1>11 DEF FeedStep, N, m

\* At first the feed is empty.
LEMMA FeedStarts ==
  ASSUME NEW T, NEW l \in Seq(T), NEW b
  PROVE  FeedOf(l, Len(l), b) = <<>>
<1> DEFINE N == Len(l)
<1>1. N \in Nat OBVIOUS
<1>2. PICK f \in [0 .. N -> Seq(Nat)] :
        FeedSteps(f, l, N, b, N) /\ FeedOf(l, N, b) = f[N]
  BY FeedIs
<1> HIDE DEF N
<1> DEFINE G == {n \in 0 .. N : f[n] = <<>>}
<1>3. 0 \in G BY <1>1, <1>2 DEF FeedSteps
<1>4. ASSUME NEW n \in 0 .. N, n \in G, n < N PROVE n + 1 \in G
  <2>1. n + 1 \in 0 .. N /\ n + 1 \in 1 .. N /\ (n + 1) - 1 = n /\ ~(n + 1 > N)
    BY <1>1, <1>4
  <2>2. f[n + 1] = FeedStep(f[n], l, N, b, n + 1) BY <1>2, <2>1 DEF FeedSteps
  <2> QED BY <1>4, <2>1, <2>2 DEF FeedStep
<1>5. N \in G
  <2>1. \A n \in 0 .. N : n \in G /\ n < N => n + 1 \in G BY <1>4
  <2> HIDE DEF G
  <2>2. \A n \in 0 .. N : n \in G BY <1>1, <1>3, <2>1, UpTo
  <2> QED BY <1>1, <2>2
<1> QED BY <1>2, <1>5 DEF N

\* What c has seen or will see of what is on its way.
Seen(c) == got[c] \o hand[c] \o send[c]
Begins(s, t) == Len(s) <= Len(t) /\ s = SubSeq(t, 1, Len(s))
InStep(c) ==
  /\ Begins(Seen(c), Feed(c))
  /\ c \in joined \ todo => Seen(c) = Feed(c)
  /\ c \in todo => Feed(c) = Append(Seen(c), Len(log))
AllInStep ==
  \A c \in Conns : since[c] <= Len(log) /\ (Registered(c) /\ sock[c] = "open" => InStep(c))
SeenInv == FeedInv /\ AllInStep

\* A sequence begins itself and what is made longer.
LEMMA BeginsLasts ==
  ASSUME NEW T, NEW t \in Seq(T), NEW x \in T
  PROVE  Begins(t, t) /\ \A s \in Seq(T) : Begins(s, t) => Begins(s, Append(t, x))
<1>1. Begins(t, t) BY DEF Begins
<1>2. ASSUME NEW s \in Seq(T), Begins(s, t) PROVE Begins(s, Append(t, x))
  <2> DEFINE u == Append(t, x)
  <2>1. u \in Seq(T) /\ Len(u) = Len(t) + 1 /\ \A i \in 1 .. Len(t) : u[i] = t[i] OBVIOUS
  <2>2. Len(s) \in Nat /\ Len(t) \in Nat /\ Len(s) <= Len(t) /\ s = SubSeq(t, 1, Len(s))
    BY <1>2 DEF Begins
  <2> HIDE DEF u
  <2>3. \A i \in 1 .. Len(s) : s[i] = t[i] /\ i \in 1 .. Len(t) BY <2>2
  <2>4. Len(s) <= Len(u) BY <2>1, <2>2
  <2>5. SubSeq(u, 1, Len(s)) = s
    <3>1. SubSeq(u, 1, Len(s)) = [i \in 1 .. Len(s) |-> u[i]] BY <2>1, <2>2, <2>4
    <3>2. s = [i \in 1 .. Len(s) |-> s[i]] OBVIOUS
    <3>3. \A i \in 1 .. Len(s) : u[i] = s[i] BY <2>1, <2>3
    <3> QED BY <3>1, <3>2, <3>3
  <2> QED BY <2>4, <2>5 DEF Begins, u
<1> QED BY <1>1, <1>2

\* The types of what is seen and of the feed.
LEMMA SeenTypes ==
  ASSUME TypeOK, NEW c \in Conns
  PROVE  /\ Seen(c) \in Seq(Nat) /\ Feed(c) \in Seq(Nat) /\ log \in Seq(Boards)
         /\ since[c] \in Nat /\ Len(log) \in Nat
<1>1. got[c] \in Seq(Nat) /\ hand[c] \in Seq(Nat) /\ send[c] \in Seq(Nat) BY DEF TypeOK
<1>2. log \in Seq(Boards) /\ since[c] \in Nat BY DEF TypeOK
<1>3. PICK f \in [0 .. Len(log) -> Seq(Nat)] :
        FeedOf(log, since[c], BoardOf[c]) = f[Len(log)]
  BY <1>2, FeedIs
<1>4. Len(log) \in Nat /\ f[Len(log)] \in Seq(Nat) BY <1>2
<1>5. Feed(c) \in Seq(Nat) BY <1>3, <1>4 DEF Feed
<1>6. Seen(c) \in Seq(Nat)
  <2>1. got[c] \o hand[c] \in Seq(Nat) BY <1>1
  <2>2. (got[c] \o hand[c]) \o send[c] \in Seq(Nat) BY <1>1, <2>1
  <2> QED BY <2>2 DEF Seen
<1> QED BY <1>2, <1>4, <1>5, <1>6

\* Steps after which an open connection has seen, or will see, what it had.
Kept ==
  /\ UNCHANGED <<log, since>>
  /\ \A c \in Conns : Registered(c)' /\ sock'[c] = "open" =>
       /\ Registered(c) /\ sock[c] = "open" /\ Seen(c)' = Seen(c)
       /\ c \in joined' \ todo' => c \in joined \ todo
       /\ c \in todo' => c \in todo

\* Such a step keeps every open connection in step with its feed.
LEMMA KeptInStep == ASSUME AllInStep, Kept PROVE AllInStep'
<1> SUFFICES ASSUME NEW c \in Conns
             PROVE  since'[c] <= Len(log')
                    /\ (Registered(c)' /\ sock'[c] = "open" => InStep(c)')
  BY DEF AllInStep
<1>1. since'[c] <= Len(log') BY DEF AllInStep, Kept
<1>2. ASSUME Registered(c)', sock'[c] = "open" PROVE InStep(c)'
  <2>1. InStep(c) BY <1>2 DEF AllInStep, Kept
  <2>2. Feed(c)' = Feed(c) /\ Seen(c)' = Seen(c) /\ log' = log BY <1>2 DEF Kept, Feed
  <2>3. (c \in joined' \ todo' => c \in joined \ todo) /\ (c \in todo' => c \in todo)
    BY <1>2 DEF Kept
  <2> QED BY <2>1, <2>2, <2>3 DEF InStep
<1> QED BY <1>1, <1>2

\* A message goes from the channel to the hand, and from there to the browser.
LEMMA TakeIsKept ==
  ASSUME FeedInv, NEW c \in Conns, TakeMessage(c) PROVE Kept
<1>1. /\ UNCHANGED <<log, since, joined, todo, reader, sock, got>>
      /\ hand' = [hand EXCEPT ![c] = <<Head(send[c])>>]
      /\ send' = [send EXCEPT ![c] = Tail(@)] /\ send[c] # <<>> /\ writer[c] = "wait"
  BY DEF TakeMessage, rooms
<1>2. \A d \in Conns : d # c => Seen(d)' = Seen(d)
  BY <1>1 DEF Seen, FeedInv, IInv, TypeOK
<1>3. Seen(c)' = Seen(c)
  <2>1. got[c] \in Seq(Nat) /\ send[c] \in Seq(Nat) /\ hand[c] = <<>>
    BY <1>1 DEF FeedInv, IInv, TypeOK, OneInHand
  <2>2. hand'[c] = <<Head(send[c])>> /\ send'[c] = Tail(send[c]) /\ got'[c] = got[c]
    BY <1>1 DEF FeedInv, IInv, TypeOK
  <2>3. <<Head(send[c])>> \o Tail(send[c]) = send[c] BY <1>1, <2>1
  <2>4. got[c] \o <<>> = got[c] BY <2>1
  <2>5. (got[c] \o <<Head(send[c])>>) \o Tail(send[c])
          = got[c] \o (<<Head(send[c])>> \o Tail(send[c]))
    <3>1. Head(send[c]) \in Nat /\ Tail(send[c]) \in Seq(Nat) BY <1>1, <2>1
    <3>2. \A x \in Nat, s \in Seq(Nat), t \in Seq(Nat) :
            (s \o <<x>>) \o t = s \o (<<x>> \o t)
      OBVIOUS
    <3> QED BY <2>1, <3>1, <3>2
  <2> QED BY <2>1, <2>2, <2>3, <2>4, <2>5 DEF Seen
<1> QED BY <1>1, <1>2, <1>3 DEF Kept, Registered

\* A message in the hand reaches an open socket, or a socket that is not open.
LEMMA WriteIsKept ==
  ASSUME FeedInv, NEW c \in Conns, WriteMessage(c) PROVE Kept
<1>1. /\ UNCHANGED <<log, since, joined, todo, reader, sock, send>>
      /\ got' = IF sock[c] = "open" THEN [got EXCEPT ![c] = @ \o hand[c]] ELSE got
      /\ hand' = [hand EXCEPT ![c] = <<>>]
  BY DEF WriteMessage, rooms
<1>2. \A d \in Conns : d # c => Seen(d)' = Seen(d)
  BY <1>1 DEF Seen, FeedInv, IInv, TypeOK
<1>3. sock[c] = "open" => Seen(c)' = Seen(c)
  <2> HAVE sock[c] = "open"
  <2>1. got[c] \in Seq(Nat) /\ hand[c] \in Seq(Nat) /\ send[c] \in Seq(Nat)
    BY DEF FeedInv, IInv, TypeOK
  <2>2. got'[c] = got[c] \o hand[c] /\ hand'[c] = <<>> /\ send'[c] = send[c]
    BY <1>1 DEF FeedInv, IInv, TypeOK
  <2>3. (got[c] \o hand[c]) \o <<>> = got[c] \o hand[c] BY <2>1
  <2> QED BY <2>2, <2>3 DEF Seen
<1> QED BY <1>1, <1>2, <1>3 DEF Kept, Registered

\* The pumps' other steps open no socket and lose nothing of an open one's.
LEMMA AsideIsKept ==
  ASSUME FeedInv, NEW c \in Conns, Aside(c) PROVE Kept
<1>1. CASE WriteFails(c) \/ PingFails(c) \/ SeeClose(c)
  <2>1. StopWriting(c) BY <1>1, StopsWriting
  <2>2. \A d \in Conns : sock'[d] = "open" => sock[d] = "open" /\ hand'[d] = hand[d]
    BY <2>1 DEF StopWriting, FeedInv, IInv, TypeOK
  <2>3. UNCHANGED <<log, since, joined, todo, reader, send, got>>
    BY <2>1 DEF StopWriting, rooms
  <2> QED BY <2>2, <2>3 DEF Kept, Registered, Seen
<1>2. CASE Upgrade(c) \/ StartPumps(c) \/ ReadFails(c) \/ LosePeer(c) \/ CloseConn(c)
  <2>1. UNCHANGED <<log, since, joined, todo, send, hand, got>>
    BY <1>2 DEF Upgrade, StartPumps, ReadFails, LosePeer, CloseConn, rooms
  <2>2. \A d \in Conns : /\ Registered(d)' <=> Registered(d)
                         /\ sock'[d] = "open" => sock[d] = "open"
    BY <1>2 DEF Upgrade, StartPumps, ReadFails, LosePeer, CloseConn, Registered,
       FeedInv, IInv, TypeOK
  <2> QED BY <2>1, <2>2 DEF Kept, Seen
<1> QED BY <1>1, <1>2 DEF Aside

\* Calls and the shutdown leave what is on its way alone.
LEMMA CallIsKept == ASSUME AsideCall \/ UNCHANGED vars PROVE Kept
<1>1. UNCHANGED <<log, since, joined, todo, send, pumps>>
  BY DEF AsideCall, SeeStop, Shutdown, Call, GiveUp, vars, rooms, pumps
<1> QED BY <1>1 DEF Kept, Seen, Registered, pumps

\* Nor does a drop take back what was sent.
LEMMA LeaveIsKept == ASSUME Leaves PROVE Kept
<1>1. PICK D \in SUBSET joined : Leave(D) BY DEF Leaves
<1>2. joined' = joined \ D /\ todo' = todo \ D BY <1>1 DEF Leave, Remove
<1> QED BY <1>1, <1>2 DEF Leave, Kept, Seen

\* Who registers has an empty feed, and nothing on its way.
LEMMA RegisterInStep ==
  ASSUME SeenInv, NEW c \in Conns, Register(c) PROVE AllInStep'
<1>1. /\ log' = log /\ todo = {} /\ todo' = {} /\ joined' = joined \cup {c}
      /\ since' = [since EXCEPT ![c] = Len(log)] /\ reader[c] = "register"
      /\ UNCHANGED <<send, sock, hand, got>>
      /\ reader' = [reader EXCEPT ![c] = "start"]
  BY DEF Register, Ready
<1>2. ASSUME NEW d \in Conns, d # c
      PROVE  since'[d] <= Len(log') /\ (Registered(d)' /\ sock'[d] = "open" => InStep(d)')
  <2>1. since'[d] = since[d] /\ (Registered(d)' <=> Registered(d))
    BY <1>1, <1>2 DEF SeenInv, FeedInv, IInv, TypeOK, Registered
  <2>2. Feed(d)' = Feed(d) /\ Seen(d)' = Seen(d) BY <1>1, <2>1 DEF Feed, Seen
  <2> QED BY <1>1, <1>2, <2>1, <2>2 DEF SeenInv, AllInStep, InStep
<1>3. since'[c] = Len(log) /\ Len(log) \in Nat /\ log \in Seq(Boards)
  BY <1>1 DEF SeenInv, FeedInv, IInv, TypeOK
<1>4. Feed(c)' = <<>> BY <1>1, <1>3, FeedStarts DEF Feed
<1>5. Seen(c)' = <<>>
  <2>1. send[c] = <<>> /\ got[c] = <<>> /\ hand[c] = <<>>
    BY <1>1 DEF SeenInv, FeedInv, NothingBefore, OneInHand, Registered
  <2> QED BY <1>1, <2>1 DEF Seen
<1>6. Begins(<<>>, <<>>) BY DEF Begins
<1>7. InStep(c)' BY <1>1, <1>4, <1>5, <1>6 DEF InStep
<1> QED BY <1>1, <1>2, <1>3, <1>7 DEF AllInStep

\* A broadcast is one message more for who is to be visited, for others none.
LEMMA BroadcastInStep ==
  ASSUME SeenInv, NEW h \in Callers, TakeBroadcast(h) PROVE AllInStep'
<1> DEFINE b == call[h].board
           n == Len(log)
<1>1. b \in Boards
  BY DEF TakeBroadcast, SeenInv, FeedInv, IInv, TypeOK, Calls, NoCall
<1>2. /\ log' = Append(log, b) /\ todo = {} /\ todo' = Room(b)
      /\ UNCHANGED <<joined, send, since, reader, sock, hand, got>>
  BY DEF TakeBroadcast, Ready, rooms, pumps
<1>3. log \in Seq(Boards) /\ n \in Nat /\ Len(log') = n + 1
  BY <1>1, <1>2 DEF SeenInv, FeedInv, IInv, TypeOK
<1> HIDE DEF b
<1> SUFFICES ASSUME NEW c \in Conns
             PROVE  since'[c] <= Len(log')
                    /\ (Registered(c)' /\ sock'[c] = "open" => InStep(c)')
  BY DEF AllInStep
<1>4. since[c] \in Nat /\ since[c] <= n /\ since' = since
  BY <1>2 DEF SeenInv, AllInStep, FeedInv, IInv, TypeOK
<1>5. since'[c] <= Len(log') BY <1>3, <1>4
<1>6. ASSUME Registered(c)', sock'[c] = "open" PROVE InStep(c)'
  <2>1. InStep(c) BY <1>2, <1>6 DEF SeenInv, AllInStep, Registered
  <2>2. Seen(c)' = Seen(c) /\ Seen(c) \in Seq(Nat) /\ Feed(c) \in Seq(Nat)
    BY <1>2, SeenTypes DEF Seen, SeenInv, FeedInv, IInv
  <2>3. Feed(c)' = IF b = BoardOf[c] THEN Append(Feed(c), n + 1) ELSE Feed(c)
    <3>1. n + 1 > since[c] BY <1>3, <1>4
    <3>2. FeedOf(Append(log, b), since[c], BoardOf[c]) =
            IF n + 1 > since[c] /\ b = BoardOf[c]
            THEN Append(FeedOf(log, since[c], BoardOf[c]), n + 1)
            ELSE FeedOf(log, since[c], BoardOf[c])
      <4>1. PICK l \in Seq(Boards) : l = log BY <1>3
      <4>2. PICK s \in Nat : s = since[c] BY <1>4
      <4>3. PICK a : a = BoardOf[c] OBVIOUS
      <4>4. PICK x \in Boards : x = b BY <1>1
      <4>5. FeedOf(Append(l, x), s, a) =
              IF Len(l) + 1 > s /\ x = a THEN Append(FeedOf(l, s, a), Len(l) + 1)
              ELSE FeedOf(l, s, a)
        BY FeedNext
      <4> QED BY <4>1, <4>2, <4>3, <4>4, <4>5
    <3> QED BY <1>2, <1>4, <3>1, <3>2 DEF Feed
  <2>4. c \in todo' <=> c \in joined /\ b = BoardOf[c] BY <1>2 DEF Room
  <2>5. Begins(Seen(c), Feed(c)) /\ (c \in joined => Seen(c) = Feed(c)) BY <1>2, <2>1 DEF InStep
  <2>6. Begins(Seen(c), Feed(c)')
    <3>1. n + 1 \in Nat BY <1>3
    <3>2. Begins(Seen(c), Append(Feed(c), n + 1)) BY <2>2, <2>5, <3>1, BeginsLasts
    <3> QED BY <2>3, <2>5, <3>2
  <2>7. c \in joined' \ todo' => Seen(c)' = Feed(c)' BY <1>2, <2>2, <2>3, <2>4, <2>5
  <2>8. c \in todo' => Feed(c)' = Append(Seen(c)', Len(log'))
    BY <1>2, <1>3, <2>2, <2>3, <2>4, <2>5
  <2> QED BY <2>2, <2>6, <2>7, <2>8 DEF InStep
<1> QED BY <1>5, <1>6

\* Who is visited and has room in its buffer has all of its feed.
LEMMA SendInStep ==
  ASSUME SeenInv, NEW c \in todo, Sends(c) PROVE AllInStep'
<1>1. /\ send' = [send EXCEPT ![c] = Append(@, Len(log))] /\ todo' = todo \ {c}
      /\ UNCHANGED <<joined, log, since, reader, sock, hand, got>>
  BY DEF Sends, pumps
<1>2. c \in Conns BY DEF SeenInv, FeedInv, IInv, TypeOK
<1> SUFFICES ASSUME NEW d \in Conns
             PROVE  since'[d] <= Len(log')
                    /\ (Registered(d)' /\ sock'[d] = "open" => InStep(d)')
  BY DEF AllInStep
<1>3. since'[d] <= Len(log') BY <1>1 DEF SeenInv, AllInStep
<1>4. ASSUME Registered(d)', sock'[d] = "open" PROVE InStep(d)'
  <2>1. InStep(d) BY <1>1, <1>4 DEF SeenInv, AllInStep, Registered
  <2>2. Feed(d)' = Feed(d) BY <1>1 DEF Feed
  <2>3. CASE d # c
    <3>1. Seen(d)' = Seen(d) BY <1>1, <2>3 DEF Seen, SeenInv, FeedInv, IInv, TypeOK
    <3> QED BY <1>1, <2>1, <2>2, <2>3, <3>1 DEF InStep
  <2>4. CASE d = c
    <3>1. /\ got[d] \in Seq(Nat) /\ hand[d] \in Seq(Nat) /\ send[d] \in Seq(Nat)
          /\ Len(log) \in Nat /\ Feed(d) \in Seq(Nat)
      BY SeenTypes DEF SeenInv, FeedInv, IInv, TypeOK
    <3>2. send'[d] = Append(send[d], Len(log)) BY <1>1, <1>2, <2>4 DEF SeenInv, FeedInv, IInv, TypeOK
    <3>3. (got[d] \o hand[d]) \o Append(send[d], Len(log))
            = Append((got[d] \o hand[d]) \o send[d], Len(log))
      <4>1. got[d] \o hand[d] \in Seq(Nat) BY <3>1
      <4>2. \A s, t \in Seq(Nat), x \in Nat : s \o Append(t, x) = Append(s \o t, x) OBVIOUS
      <4> QED BY <3>1, <4>1, <4>2
    <3>4. Seen(d)' = Append(Seen(d), Len(log)) BY <1>1, <3>2, <3>3 DEF Seen
    <3>5. Seen(d)' = Feed(d)' BY <1>1, <2>1, <2>2, <2>4, <3>4 DEF InStep
    <3>6. Begins(Feed(d), Feed(d)) BY <3>1, BeginsLasts
    <3> QED BY <1>1, <2>2, <2>4, <3>5, <3>6 DEF InStep
  <2> QED BY <2>3, <2>4
<1> QED BY <1>3, <1>4

\* SeenInv is inductive: Register, TakeBroadcast and Sends move the feed, others keep.
LEMMA NextKeepsInStep == SeenInv /\ [Next]_vars => SeenInv'
<1> SUFFICES ASSUME SeenInv, [Next]_vars PROVE AllInStep'
  BY NextKeepsFeed DEF SeenInv
<1> USE DEF SeenInv
<1>1. ASSUME Kept PROVE AllInStep' BY <1>1, KeptInStep
<1>2. ASSUME NEW c \in Conns, Aside(c) \/ TakeMessage(c) \/ WriteMessage(c)
      PROVE  AllInStep'
  BY <1>1, <1>2, AsideIsKept, TakeIsKept, WriteIsKept
<1>3. CASE AsideCall \/ UNCHANGED vars BY <1>1, <1>3, CallIsKept
<1>4. ASSUME NEW c \in Conns, Register(c) PROVE AllInStep' BY <1>4, RegisterInStep
<1>5. ASSUME NEW c \in Conns, FanOut(c) PROVE AllInStep'
  <2>1. c \in todo /\ (Leaves \/ Sends(c)) BY <1>5, FanOutSendsOrLeaves DEF FanOut
  <2> QED BY <1>1, <2>1, LeaveIsKept, SendInStep
<1>6. ASSUME NEW c \in Conns, Unregister(c) \/ StopClient(c) PROVE AllInStep'
  BY <1>1, <1>6, UnregisterLeaves, StopLeaves, LeaveIsKept
<1>7. ASSUME NEW h \in Callers, TakeEvict(h) PROVE AllInStep'
  BY <1>1, <1>7, EvictLeaves, LeaveIsKept
<1>8. ASSUME NEW h \in Callers, TakeBroadcast(h) PROVE AllInStep'
  BY <1>8, BroadcastInStep
<1> QED
  BY <1>2, <1>3, <1>4, <1>5, <1>6, <1>7, <1>8
  DEF Next, Run, ReadPump, WritePump, Aside, AsideCall

(* A client's buffer and socket hold what was broadcast to its board since it *)
(* joined, all of it and in order, in every interleaving of Run, the pumps   *)
(* and the handlers, for buffers of any size (Run's fan-out, WritePump).     *)
THEOREM NothingIsMissed == Spec => []NothingMissed
<1>1. Init => SeenInv
  <2> SUFFICES ASSUME Init PROVE AllInStep BY InitFeed DEF SeenInv
  <2>1. \A c \in Conns : since[c] = 0 /\ ~Registered(c) BY DEF Init, Registered
  <2>2. Len(log) = 0 BY DEF Init
  <2> QED BY <2>1, <2>2 DEF AllInStep
<1>2. SeenInv /\ [Next]_vars => SeenInv' BY NextKeepsInStep
<1>3. SeenInv => NothingMissed
  BY DEF SeenInv, AllInStep, InStep, Begins, NothingMissed, Seen, Registered
<1> QED BY <1>1, <1>2, <1>3, PTL DEF Spec
=============================================================================
