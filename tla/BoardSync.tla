------------------------------ MODULE BoardSync ------------------------------
(***************************************************************************)
(* How a card move reaches everyone: the optimistic board store of every    *)
(* page (useBoardStore, useDragActions, useCardActions, wsDispatch), the    *)
(* card handlers that write the row and then broadcast it                   *)
(* (card_command_handler, board_command_service), and the two ways a page   *)
(* learns of the others: one GET when it loads, broadcasts afterwards.      *)
(*                                                                         *)
(* Hub shows that a live socket receives the board's broadcasts in one      *)
(* order and without gaps until it is dropped; here that is an inbox per    *)
(* page.  Columns and their categories are fixed, a card is its placement   *)
(* (its column, position and done flag), and positions are a small set: a   *)
(* drop may compute any of them.                                            *)
(***************************************************************************)
EXTENDS Naturals, Sequences, FiniteSets, FiniteSetsExt

CONSTANTS
  Cards,      \* the ids cards can have
  Fresh,      \* those not in the table yet
  Columns,    \* the board's columns: 1, 2, ... from left to right
  DoneCols,   \* those of category DONE
  Positions,  \* positions a page can ask for, all above 0
  Tabs,       \* pages that show the board
  Nobody,     \* no board store: the caller is another client, or a page that has gone
  Reqs,       \* requests that can be open at once
  Ops,        \* what pages and users do
  Faults,     \* what can go wrong
  MaxCalls    \* bound: requests in a behaviour

Nowhere == 0
Gone == [col |-> Nowhere, pos |-> 0, done |-> FALSE]

ASSUME SyncAssumption ==
  /\ Fresh \subseteq Cards
  /\ Columns \subseteq Nat \ {Nowhere} /\ DoneCols \subseteq Columns
  /\ DoneCols # {} /\ DoneCols # Columns
  /\ Positions \subseteq Nat \ {0} /\ Positions # {}
  /\ Nobody \notin Tabs
  /\ Ops \subseteq {"move", "add", "delete", "toggle", "complete", "reload"}
  /\ Faults \subseteq {"refuse", "cut", "drop", "restart"}
  /\ MaxCalls \in Nat

VARIABLES
  rows,    \* the cards table: a placement per id, Gone without a row
  used,    \* ids that were ever inserted
  reqs,    \* open requests
  calls,   \* requests made so far
  live,    \* pages whose socket is in the board's room
  inbox,   \* broadcasts on their way to a page
  lists,   \* the column that lists a card in the store of a page
  card,    \* the card object in that store, shared with its snapshots
  raced,   \* history: cards written while another write was unannounced
  stale    \* history: cards a page may show wrongly, and why is in README

server == <<rows, used, raced>>
store == <<lists, card>>
vars == <<rows, used, reqs, calls, live, inbox, lists, card, raced, stale>>

Places == [col : Columns \cup {Nowhere}, pos : Positions \cup {0}, done : BOOLEAN]
Idle == [pc |-> "idle"]
Open(r) == reqs[r] # Idle
Busy(t, c) == \E r \in Reqs : Open(r) /\ reqs[r].tab = t /\ reqs[r].card = c
\* Position 1 of the first column: where the cards of the instance start.
Start == [col |-> Min(Columns \ DoneCols), pos |-> Min(Positions), done |-> FALSE]

\* What the page shows of a card.
Shown(t, c) ==
  IF lists[t][c] = Nowhere THEN Gone ELSE [card[t][c] EXCEPT !.col = lists[t][c]]

Init ==
  /\ rows = [c \in Cards |-> IF c \in Fresh THEN Gone ELSE Start]
  /\ used = Cards \ Fresh
  /\ reqs = [r \in Reqs |-> Idle] /\ calls = 0
  /\ live = Tabs /\ inbox = [t \in Tabs |-> <<>>]
  /\ lists = [t \in Tabs |-> [c \in Cards |-> rows[c].col]]
  /\ card = [t \in Tabs |-> rows]
  /\ raced = {} /\ stale = [t \in Tabs |-> {}]

-----------------------------------------------------------------------------
(* The store: its setters run for the page's own actions and for broadcasts *)

\* The card object moves between the lists and is changed in place, so every
\* snapshot that holds it sees the change.
moveCard(t, c, to) ==
  IF lists[t][c] = Nowhere THEN UNCHANGED store
  ELSE /\ lists' = [lists EXCEPT ![t][c] = to.col]
       /\ card' = [card EXCEPT ![t][c] = to]

\* A card that some list already holds stays as it is.
addCardToStore(t, c, to) ==
  IF lists[t][c] # Nowhere THEN UNCHANGED store
  ELSE /\ lists' = [lists EXCEPT ![t][c] = to.col]
       /\ card' = [card EXCEPT ![t][c] = to]

removeCardFromStore(t, c) ==
  /\ lists' = [lists EXCEPT ![t][c] = Nowhere]
  /\ UNCHANGED card

\* Putting a snapshot back restores the lists; the objects are the same ones.
setColumns(t, snapshot) ==
  /\ lists' = [lists EXCEPT ![t] = snapshot]
  /\ UNCHANGED card

-----------------------------------------------------------------------------
(* Pages: the store changes first, then the request is sent *)

\* "before" and "touched" are history: the card as the page had it, and the
\* cards it heard of since.
Send(r, op, t, c, to) ==
  /\ ~Open(r) /\ calls < MaxCalls
  /\ calls' = calls + 1
  /\ reqs' = [reqs EXCEPT ![r] =
       [pc |-> "sent", op |-> op, tab |-> t, card |-> c, to |-> to,
        snapshot |-> IF t = Nobody THEN <<>> ELSE lists[t],
        before |-> IF t = Nobody \/ op = "add" THEN Gone ELSE card[t][c],
        touched |-> {}]]

\* A drop, or a column picked in the card's dialog.  The done flag is left to
\* the server.
handleDragEnd(t, r) ==
  /\ "move" \in Ops
  /\ \E c \in Cards, k \in Columns, p \in Positions :
       LET to == [col |-> k, pos |-> p, done |-> card[t][c].done] IN
         /\ lists[t][c] # Nowhere
         /\ Send(r, "move", t, c, to)
         /\ moveCard(t, c, to)
  /\ UNCHANGED <<server, live, inbox, stale>>

handleDeleteCard(t, r) ==
  /\ "delete" \in Ops
  /\ \E c \in Cards :
       /\ lists[t][c] # Nowhere
       /\ Send(r, "delete", t, c, Gone)
       /\ removeCardFromStore(t, c)
  /\ UNCHANGED <<server, live, inbox, stale>>

\* Not optimistic: the id, here the one the insert is going to generate, comes
\* with the answer.
handleAddCard(t, r) ==
  /\ "add" \in Ops
  /\ \E c \in Cards \ used, k \in Columns, p \in Positions :
       /\ \A s \in Reqs : Open(s) => reqs[s].card # c
       /\ Send(r, "add", t, c, [col |-> k, pos |-> p, done |-> FALSE])
  /\ UNCHANGED <<server, live, inbox, store, stale>>

\* PATCH /cards/{id}/done, for a client without a board store: to the first
\* column of the other category, at position 0.
toggleDone(r) ==
  /\ "toggle" \in Ops
  /\ \E c \in Cards, d \in BOOLEAN :
       /\ rows[c] # Gone
       /\ Send(r, "toggle", Nobody, c,
               [col |-> Min(IF d THEN DoneCols ELSE Columns \ DoneCols),
                pos |-> 0, done |-> d])
  /\ UNCHANGED <<server, live, inbox, store, stale>>

\* A task completed in My Work: to the DONE column, at the position it has.
completeMyTask(r) ==
  /\ "complete" \in Ops
  /\ \E c \in Cards :
       /\ rows[c] # Gone
       /\ Send(r, "complete", Nobody, c,
               [col |-> Min(DoneCols), pos |-> 0, done |-> TRUE])
  /\ UNCHANGED <<server, live, inbox, store, stale>>

-----------------------------------------------------------------------------
(* Handlers: look the card up, write the row, broadcast, answer *)

To(r, pc) == reqs' = [reqs EXCEPT ![r].pc = pc]

cardContext(r) ==
  /\ Open(r) /\ reqs[r].pc = "sent"
  /\ reqs[r].op # "add" => rows[reqs[r].card] # Gone
  /\ To(r, "found")
  /\ UNCHANGED <<server, calls, live, inbox, store, stale>>

\* The row an update leaves: UpdateCardColumn changes the row if there is one.
UpdateCardColumn(c, to) == IF rows[c] = Gone THEN Gone ELSE to
CompleteCardAsAssignee(c, to) == UpdateCardColumn(c, [to EXCEPT !.pos = rows[c].pos])

\* A move is done exactly in a DONE column; a card created there is not.
Written(q) ==
  CASE q.op = "move" ->
         UpdateCardColumn(q.card, [q.to EXCEPT !.done = q.to.col \in DoneCols])
    [] q.op = "toggle" -> UpdateCardColumn(q.card, q.to)
    [] q.op = "complete" -> CompleteCardAsAssignee(q.card, q.to)
    [] q.op = "delete" -> Gone
    [] q.op = "add"    -> q.to

Unannounced(c) ==
  \E r \in Reqs : Open(r) /\ reqs[r].pc \in {"written", "reread"} /\ reqs[r].card = c

\* A write that leaves a row, and a deletion, bring every page that hears of it
\* back in step; one that finds no row does not (history).
Settles(q) == q.op = "delete" \/ Written(q) # Gone

Write(r) ==
  LET q == reqs[r] IN
  /\ Open(r) /\ q.pc = "found"
  /\ q.op = "complete" => rows[q.card] # Gone
  /\ rows' = [rows EXCEPT ![q.card] = Written(q)]
  /\ used' = used \cup {q.card}
  /\ raced' = IF Unannounced(q.card) THEN raced \cup {q.card}
              ELSE IF Settles(q) THEN raced \ {q.card} ELSE raced
  /\ To(r, "written")
  /\ UNCHANGED <<calls, live, inbox, store, stale>>

\* CompleteMyTask reads the row again, which may hold a later write by now,
\* but announces the card as done.
GetCard(r) ==
  LET q == reqs[r] IN
  /\ Open(r) /\ q.op = "complete" /\ q.pc = "written" /\ rows[q.card] # Gone
  /\ reqs' = [reqs EXCEPT ![r].pc = "reread",
                          ![r].to = [rows[q.card] EXCEPT !.done = TRUE]]
  /\ UNCHANGED <<server, calls, live, inbox, store, stale>>

Kind(q) == IF q.op \in {"toggle", "complete"} THEN "move" ELSE q.op

\* Fault: the payload repeats the done flag the page sent.
EventFromRequest(q) == [kind |-> Kind(q), card |-> q.card, to |-> q.to]

\* The payload is built from the request and the result of the write.
Event(q) ==
  [kind |-> Kind(q),
   card |-> q.card,
   to   |-> IF q.op = "move" THEN [q.to EXCEPT !.done = q.to.col \in DoneCols] ELSE q.to]

emit(r) ==
  LET q == reqs[r] IN
  /\ Open(r) /\ q.pc = IF q.op = "complete" THEN "reread" ELSE "written"
  /\ inbox' = [t \in Tabs |-> IF t \in live THEN Append(inbox[t], Event(q)) ELSE inbox[t]]
  /\ stale' = [t \in Tabs |-> IF t \in live THEN stale[t] ELSE stale[t] \cup {q.card}]
  /\ To(r, "told")
  /\ UNCHANGED <<server, calls, live, store>>

\* An error answer: the row was gone, or anything else before the write.  Of
\* the writes only CompleteCardAsAssignee tells that it found no row.
Refuse(r) ==
  /\ Open(r)
  /\ \/ rows[reqs[r].card] = Gone
        /\ \/ reqs[r].pc = "sent" /\ reqs[r].op # "add"
           \/ reqs[r].pc \in {"found", "written"} /\ reqs[r].op = "complete"
     \/ reqs[r].pc \in {"sent", "found"} /\ "refuse" \in Faults
  /\ To(r, "refused")
  /\ UNCHANGED <<server, calls, live, inbox, store, stale>>

-----------------------------------------------------------------------------
(* Answers *)

\* The cards that broadcasts on their way to a page are about.
Underway(t) == {inbox[t][i].card : i \in DOMAIN inbox[t]}

\* The page has still to hear that a card was added.
Awaited(t, c) == \E i \in DOMAIN inbox[t] : inbox[t][i].card = c /\ inbox[t][i].kind = "add"

\* The answer to a created card may come after the card was deleted again.
Succeed(r) ==
  LET q == reqs[r] IN
  /\ Open(r) /\ q.pc = "told"
  /\ reqs' = [reqs EXCEPT ![r] = Idle]
  /\ IF q.tab # Nobody /\ q.op = "add"
     THEN /\ addCardToStore(q.tab, q.card, q.to)
          /\ stale' = IF lists[q.tab][q.card] = Nowhere /\ ~Awaited(q.tab, q.card)
                      THEN [stale EXCEPT ![q.tab] = @ \cup {q.card}] ELSE stale
     ELSE UNCHANGED <<store, stale>>
  /\ UNCHANGED <<server, calls, live, inbox>>

\* The page puts back the snapshot it took before its own change.
Revert(q) ==
  IF q.tab # Nobody /\ q.op # "add"
  THEN /\ setColumns(q.tab, q.snapshot)
       /\ stale' = [stale EXCEPT ![q.tab] = @ \cup {q.card} \cup q.touched]
  ELSE UNCHANGED <<store, stale>>

Fail(r) ==
  /\ Open(r) /\ reqs[r].pc = "refused"
  /\ Revert(reqs[r])
  /\ reqs' = [reqs EXCEPT ![r] = Idle]
  /\ UNCHANGED <<server, calls, live, inbox>>

\* The connection breaks: the page sees an error, the handler may go on.
Cut(r) ==
  /\ "cut" \in Faults
  /\ Open(r) /\ reqs[r].pc # "refused" /\ reqs[r].tab # Nobody
  /\ Revert(reqs[r])
  /\ reqs' = [reqs EXCEPT ![r].tab = Nobody, ![r].snapshot = <<>>, ![r].touched = {}]
  /\ UNCHANGED <<server, calls, live, inbox>>

-----------------------------------------------------------------------------
(* Sockets and loads *)

\* Fault: broadcasts about a card with a request under way are skipped.
ApplyUnlessBusy(t, e) ==
  CASE Busy(t, e.card)   -> UNCHANGED store
    [] e.kind = "move"   -> moveCard(t, e.card, e.to)
    [] e.kind = "add"    -> addCardToStore(t, e.card, e.to)
    [] e.kind = "delete" -> removeCardFromStore(t, e.card)

\* applyWsMessage's switch.
Apply(t, e) ==
  CASE e.kind = "move"   -> moveCard(t, e.card, e.to)
    [] e.kind = "add"    -> addCardToStore(t, e.card, e.to)
    [] e.kind = "delete" -> removeCardFromStore(t, e.card)

\* What makes up for an earlier miss: a deletion, an addition that adds the
\* card, and a move of a card that the page has and the table too.
MakesUpFor(t, e) ==
  CASE e.kind = "move"   -> lists[t][e.card] # Nowhere /\ rows[e.card] # Gone
    [] e.kind = "add"    -> lists[t][e.card] = Nowhere
    [] e.kind = "delete" -> TRUE

applyWsMessage(t) ==
  /\ inbox[t] # <<>>
  /\ LET e == Head(inbox[t]) IN
       /\ Apply(t, e)
       /\ stale' = IF MakesUpFor(t, e) THEN [stale EXCEPT ![t] = @ \ {e.card}] ELSE stale
       /\ reqs' = [r \in Reqs |->
            IF Open(r) /\ reqs[r].tab = t
            THEN [reqs[r] EXCEPT !.touched = @ \cup {e.card}] ELSE reqs[r]]
  /\ inbox' = [inbox EXCEPT ![t] = Tail(@)]
  /\ UNCHANGED <<server, calls, live>>

\* A reconnected socket continues with what is broadcast from then on.
Drop(t) ==
  /\ "drop" \in Faults
  /\ t \in live
  /\ live' = live \ {t}
  /\ inbox' = [inbox EXCEPT ![t] = <<>>]
  /\ stale' = [stale EXCEPT ![t] = @ \cup Underway(t)]
  /\ UNCHANGED <<server, reqs, calls, store>>

Connect(t) ==
  /\ t \notin live
  /\ live' = live \cup {t}
  /\ UNCHANGED <<server, reqs, calls, inbox, store, stale>>

\* The page reads the board once and mounts the socket when it has it.
fetchAll(t) ==
  /\ "reload" \in Ops
  /\ live' = live \ {t}
  /\ inbox' = [inbox EXCEPT ![t] = <<>>]
  /\ lists' = [lists EXCEPT ![t] = [c \in Cards |-> rows[c].col]]
  /\ card' = [card EXCEPT ![t] = rows]
  /\ stale' = [stale EXCEPT ![t] = raced]
  /\ reqs' = [r \in Reqs |->
       IF Open(r) /\ reqs[r].tab = t
       THEN [reqs[r] EXCEPT !.tab = Nobody, !.snapshot = <<>>, !.touched = {}]
       ELSE reqs[r]]
  /\ UNCHANGED <<server, calls>>

\* The process stops and starts: sockets close, handlers end where they are.
Restart ==
  /\ "restart" \in Faults
  /\ live' = {}
  /\ inbox' = [t \in Tabs |-> <<>>]
  /\ stale' = [t \in Tabs |-> stale[t] \cup Underway(t) \cup {c \in Cards : Unannounced(c)}]
  /\ reqs' = [r \in Reqs |-> IF Open(r) THEN [reqs[r] EXCEPT !.pc = "refused"] ELSE Idle]
  /\ UNCHANGED <<server, calls, store>>

Next ==
  \/ \E t \in Tabs, r \in Reqs :
       handleDragEnd(t, r) \/ handleDeleteCard(t, r) \/ handleAddCard(t, r)
  \/ \E r \in Reqs :
       \/ toggleDone(r) \/ completeMyTask(r) \/ cardContext(r) \/ Write(r)
       \/ GetCard(r) \/ emit(r) \/ Refuse(r) \/ Succeed(r) \/ Fail(r) \/ Cut(r)
  \/ \E t \in Tabs : applyWsMessage(t) \/ Drop(t) \/ Connect(t) \/ fetchAll(t)
  \/ Restart

Spec == Init /\ [][Next]_vars

-----------------------------------------------------------------------------
(* Properties *)

\* The page has heard all there is about the card and asks for nothing.
Quiet(t, c) ==
  t \in live /\ inbox[t] = <<>> /\ ~Busy(t, c) /\ ~Unannounced(c)

\* A connected page with nothing pending shows a card where the table has it.
\* The exceptions are accounted for one by one: a broadcast that the page
\* missed, a revert of the card or over a broadcast, an answer that adds the
\* card after the broadcasts about it (stale), and two writes of which one was
\* not announced when the other was made (raced).
QuietTabsShowTheBoard ==
  \A t \in Tabs, c \in Cards :
    Quiet(t, c) /\ c \notin stale[t] \cup raced => Shown(t, c) = rows[c]

\* Also when handlers overtake each other between write and broadcast, two
\* pages that have heard everything show a card in the same place: the last
\* broadcast decides on both, the page that caused it included.
TabsAgree ==
  \A t, u \in Tabs, c \in Cards \ Fresh :
    Quiet(t, c) /\ Quiet(u, c) /\ c \notin stale[t] \cup stale[u]
      => Shown(t, c) = Shown(u, c)

\* A refused move puts the card back as it was, if nothing was heard of it and
\* nothing else asked for meanwhile (the snapshot that handleDragEnd and
\* handleChangeColumn restore).
RefusedMoveSnapsBack ==
  [][\A r \in Reqs, t \in Tabs, c \in Cards :
       Fail(r) /\ reqs[r].op = "move" /\ reqs[r].tab = t /\ reqs[r].card = c
       /\ c \notin reqs[r].touched
       /\ (\A s \in Reqs \ {r} : Open(s) => reqs[s].tab # t)
         => card[t][c]' = reqs[r].before]_vars

=============================================================================
