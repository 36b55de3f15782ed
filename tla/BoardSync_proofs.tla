-------------------------- MODULE BoardSync_proofs --------------------------
(***************************************************************************)
(* Proofs about BoardSync: for any number of pages, cards, requests and     *)
(* calls, pages that have heard everything show the board                   *)
(* (QuietTabsAreRight) and show it alike (QuietTabsAgree).                  *)
(*                                                                         *)
(* The inductive invariant Inv adds up, per card, what the table holds, what *)
(* requests wrote and have still to announce, what is on its way to a page, *)
(* what the page shows and what its snapshots may put back.  Lemmas say     *)
(* first what each action does, then what that changes of the requests and  *)
(* inboxes, and then that each part of Inv survives it.                     *)
(***************************************************************************)
EXTENDS BoardSync, WellFoundedInduction, SequenceTheorems, TLAPS

\* The types.
ColumnOrNone == Columns \cup {Nowhere}
PCs == {"sent", "found", "written", "reread", "told", "refused"}
Requests ==
  [pc : PCs, op : {"move", "add", "delete", "toggle", "complete"},
   tab : Tabs \cup {Nobody}, card : Cards, to : Places,
   snapshot : [Cards -> ColumnOrNone] \cup {<<>>}, before : Places,
   touched : SUBSET Cards]
Events == [kind : {"move", "add", "delete"}, card : Cards, to : Places]

TypeOK ==
  /\ rows \in [Cards -> Places] /\ used \in SUBSET Cards
  /\ reqs \in [Reqs -> {Idle} \cup Requests] /\ calls \in Nat
  /\ live \in SUBSET Tabs /\ inbox \in [Tabs -> Seq(Events)]
  /\ lists \in [Tabs -> [Cards -> ColumnOrNone]]
  /\ card \in [Tabs -> [Cards -> Places]]
  /\ raced \in SUBSET Cards /\ stale \in [Tabs -> SUBSET Cards]

\* A row without a column is no row.
WholeRows == \A c \in Cards : rows[c].col = Nowhere => rows[c] = Gone
\* A request keeps what its operation needs: a deletion leads to no row, anything
\* else to a column; only My Work's completion is read again, and announced as done.
WholeReqs ==
  \A r \in Reqs : Open(r) =>
    /\ reqs[r].op = "delete" => reqs[r].to = Gone
    /\ reqs[r].op # "delete" => reqs[r].to.col \in Columns
    /\ reqs[r].pc = "reread" => reqs[r].op = "complete"
    /\ reqs[r].op = "complete" => reqs[r].to.done = TRUE
    /\ reqs[r].tab # Nobody =>
         /\ reqs[r].op \in {"move", "add", "delete"}
         /\ reqs[r].snapshot \in [Cards -> ColumnOrNone]
\* A deletion carries no placement, every other broadcast one; a page without a
\* socket has nothing on its way.
WholeInbox ==
  /\ \A t \in Tabs : \A i \in DOMAIN inbox[t] :
       IF inbox[t][i].kind = "delete" THEN inbox[t][i].to = Gone
       ELSE inbox[t][i].to.col \in Columns
  /\ \A t \in Tabs : t \notin live => inbox[t] = <<>>
Whole == WholeRows /\ WholeReqs /\ WholeInbox

\* A broadcast of kind k about the card is on its way to the page.
Told(t, c, k) == \E i \in DOMAIN inbox[t] : inbox[t][i].card = c /\ inbox[t][i].kind = k
\* Any broadcast about the card is.
About(t, c) == \E i \in DOMAIN inbox[t] : inbox[t][i].card = c
\* The last one about the card is e.
Last(t, c, e) ==
  \E i \in DOMAIN inbox[t] :
    /\ inbox[t][i] = e /\ e.card = c
    /\ \A j \in DOMAIN inbox[t] : j > i => inbox[t][j].card # c
\* At most one broadcast about the card is on its way.
Single(t, c) ==
  \A i, j \in DOMAIN inbox[t] : inbox[t][i].card = c /\ inbox[t][j].card = c => i = j
\* Every addition of the card on its way is followed by its deletion.
Buried(t, c) ==
  \A i \in DOMAIN inbox[t] : inbox[t][i].card = c /\ inbox[t][i].kind = "add"
    => \E j \in DOMAIN inbox[t] :
         j > i /\ inbox[t][j].card = c /\ inbox[t][j].kind = "delete"
\* Every addition of the card on its way puts it at p.
AddedAt(t, c, p) ==
  \A i \in DOMAIN inbox[t] :
    inbox[t][i].card = c /\ inbox[t][i].kind = "add" => inbox[t][i].to = p
\* Request r wrote the card's row and has still to announce it.
Unsaid(r, c) == Open(r) /\ reqs[r].pc \in {"written", "reread"} /\ reqs[r].card = c
UnsaidOp(c, op) == \E r \in Reqs : Unsaid(r, c) /\ reqs[r].op = op
\* The page waits for the answer to a change of its own.
Pending(t, c) ==
  \E r \in Reqs : /\ Open(r) /\ reqs[r].tab = t /\ reqs[r].card = c
                  /\ reqs[r].op # "add" /\ reqs[r].pc # "told"
\* The change is a deletion.
Deleting(t, c) ==
  \E r \in Reqs : /\ Open(r) /\ reqs[r].tab = t /\ reqs[r].card = c
                  /\ reqs[r].op = "delete" /\ reqs[r].pc # "told"
\* Putting the snapshot of request r back would show the card as it was then, and
\* nothing was heard of the card since.
Restores(r, t, c) ==
  /\ Open(r) /\ reqs[r].tab = t /\ reqs[r].op # "add"
  /\ c # reqs[r].card /\ c \notin reqs[r].touched

\* An id that was never inserted is nowhere: no row, no list, no broadcast, and at
\* most the requests that are about to insert it.
UnusedCards ==
  \A c \in Cards \ used :
    /\ c \in Fresh /\ rows[c] = Gone
    /\ \A t \in Tabs : lists[t][c] = Nowhere /\ ~About(t, c)
    /\ \A r \in Reqs : Open(r) =>
         /\ reqs[r].card = c => reqs[r].op = "add" /\ reqs[r].pc \in {"sent", "found", "refused"}
         /\ reqs[r].tab # Nobody => reqs[r].snapshot[c] = Nowhere

Adding(r, c) == Open(r) /\ reqs[r].op = "add" /\ reqs[r].card = c
\* A new id belongs to one request, nobody else asks anything of it before the
\* insert, and the answer carries the placement that was broadcast.
AddRequests ==
  \A r \in Reqs, c \in Cards : Adding(r, c) =>
    /\ c \in Fresh
    /\ \A s \in Reqs : Adding(s, c) => s = r
    /\ reqs[r].pc \in {"sent", "found"} =>
         c \notin used /\ \A s \in Reqs : Open(s) /\ reqs[s].card = c => s = r
    /\ reqs[r].pc = "written" => \A t \in Tabs : ~Told(t, c, "add")
    /\ reqs[r].pc = "told" =>
         \A t \in Tabs, p \in Places : p = reqs[r].to => AddedAt(t, c, p)

\* An addition is only broadcast of a card that is not in the table from the start.
AddEvents == \A t \in Tabs, c \in Cards : Told(t, c, "add") => c \in Fresh

Births == UnusedCards /\ AddRequests /\ AddEvents

\* Request r has deleted the row.
Deletes(r, c) ==
  Open(r) /\ reqs[r].op = "delete" /\ reqs[r].pc \in {"written", "told"} /\ reqs[r].card = c
\* A deletion that happened is final: ids are not used again.
Deaths ==
  \A c \in Cards :
    /\ \A r \in Reqs : Deletes(r, c) => rows[c] = Gone
    /\ \A t \in Tabs : Told(t, c, "delete") => rows[c] = Gone

\* What request r is going to announce is placement p; of My Work's completion,
\* which still reads the row again, only the flag is known.
Announces(r, p) ==
  IF reqs[r].op = "complete" /\ reqs[r].pc = "written" THEN p.done = TRUE
  ELSE Event(reqs[r]).to = p

\* Of a card without racing writes at most one write is unannounced, and it
\* announces the row.
Words ==
  \A c \in Cards \ raced, r \in Reqs : Unsaid(r, c) =>
    /\ \A s \in Reqs : Unsaid(s, c) => s = r
    /\ reqs[r].op = "add" => rows[c] # Gone /\ \A t \in Tabs : ~About(t, c)
    /\ rows[c] # Gone => \A p \in Places : p = rows[c] => Announces(r, p)

\* A page that missed nothing has a card that is in the table, or is told of its
\* addition, and so have the snapshots it may put back.
Listed(t, c) ==
  rows[c] # Gone /\ ~UnsaidOp(c, "add") /\ c \notin stale[t] /\ ~Deleting(t, c)
    => \/ Told(t, c, "add")
       \/ /\ lists[t][c] # Nowhere
          /\ \A r \in Reqs : Restores(r, t, c) => reqs[r].snapshot[c] # Nowhere

\* A card whose deletion was announced leaves every page that missed nothing: it is
\* not listed, nor in a snapshot that may be put back, or the deletion is still on
\* its way, behind every addition.
Ended(t, c) ==
  /\ c \in used /\ rows[c] = Gone /\ (c \notin raced \/ c \notin Fresh)
  /\ ~UnsaidOp(c, "delete")
  => /\ ~UnsaidOp(c, "add")
     /\ Buried(t, c)
     /\ c \notin stale[t] =>
          \/ Told(t, c, "delete")
          \/ /\ lists[t][c] = Nowhere
             /\ \A r \in Reqs : Restores(r, t, c) => reqs[r].snapshot[c] = Nowhere

\* When nothing is pending or on its way, snapshots agree with the page about the
\* cards they may put back.
Kept(t, c) ==
  c \notin stale[t] /\ ~Pending(t, c) /\ ~About(t, c)
    => \A r \in Reqs : Restores(r, t, c) => reqs[r].snapshot[c] = lists[t][c]

\* The addition of the card is all there is to say of it.
FirstWord(t, c) ==
  \/ UnsaidOp(c, "add")
  \/ ~Unannounced(c) /\ \E e \in Events : Last(t, c, e) /\ e.kind = "add"

\* Until then a page shows the card, if at all, where it was added: it learned of it
\* from the answer to its own request.
Added(t, c) ==
  c \notin raced /\ rows[c] # Gone /\ FirstWord(t, c) =>
    /\ Single(t, c)
    /\ c \notin stale[t] /\ ~Pending(t, c) =>
         /\ lists[t][c] # Nowhere => lists[t][c] = rows[c].col /\ card[t][c] = rows[c]
         /\ \A r \in Reqs : Restores(r, t, c) /\ reqs[r].snapshot[c] # Nowhere =>
              reqs[r].snapshot[c] = rows[c].col /\ card[t][c] = rows[c]

Viewed(t, c) == Listed(t, c) /\ Ended(t, c) /\ Kept(t, c) /\ Added(t, c)
Views == \A t \in Tabs, c \in Cards : Viewed(t, c)

\* What the page is going to show of the card when it has heard everything: the last
\* broadcast decides, or what it shows already.
Says(t, c, p) ==
  \/ \E e \in Events : Last(t, c, e) /\ e.to = p
  \/ ~About(t, c) /\ c \notin stale[t] /\ ~Pending(t, c) /\ p = Shown(t, c)

\* Once every write is announced, all pages are going to show the row, if no writes
\* raced, and the same in any case.
Agreed(c) ==
  rows[c] # Gone /\ ~Unannounced(c) =>
    /\ c \notin raced => \A t \in Tabs, p \in Places : Says(t, c, p) => p = rows[c]
    /\ c \notin Fresh => \A t, u \in Tabs, p, q \in Places :
                           Says(t, c, p) /\ Says(u, c, q) => p = q

\* The inductive invariant.
Inv ==
  /\ TypeOK /\ Whole /\ Births /\ Deaths /\ Words /\ Views
  /\ \A c \in Cards : Agreed(c)
-----------------------------------------------------------------------------
\* The order that the library's well-founded minimum is about.
LEMMA LessThan == OpToRel(<, Nat) = {ss \in Nat \X Nat : ss[1] < ss[2]}
BY DEF OpToRel

\* The smallest of a set of numbers is one of them (FiniteSetsExt's Min).
LEMMA LeastIsIn == ASSUME NEW S \in SUBSET Nat, S # {} PROVE Min(S) \in S
<1> DEFINE R == OpToRel(<, Nat)
<1>1. IsWellFoundedOn(R, Nat)
  BY NatLessThanWellFounded
<1>2. R = {ss \in Nat \X Nat : ss[1] < ss[2]}
  BY LessThan
<1> HIDE DEF R
<1>3. PICK x \in S : \A y \in S : ~(<<y, x>> \in R)
  BY <1>1, WFMin
<1>4. \A y \in S : x <= y
  <2>1. TAKE y \in S
  <2>2. <<y, x>> \in Nat \X Nat /\ <<y, x>>[1] = y /\ <<y, x>>[2] = x
    OBVIOUS
  <2>3. ~(y < x)
    BY <1>2, <1>3, <2>2
  <2>4. QED
    BY <2>3
<1>5. QED
  BY <1>4 DEF Min

\* The columns and positions that the handlers pick exist.
LEMMA ColumnsExist ==
  /\ Min(Columns \ DoneCols) \in Columns \ DoneCols
  /\ Min(DoneCols) \in DoneCols
  /\ Min(Positions) \in Positions
<1>1. /\ Columns \ DoneCols \in SUBSET Nat /\ Columns \ DoneCols # {}
      /\ DoneCols \in SUBSET Nat /\ DoneCols # {}
      /\ Positions \in SUBSET Nat /\ Positions # {}
  BY SyncAssumption
<1>2. QED
  BY <1>1, LeastIsIn

\* What the constants amount to.
LEMMA Plain ==
  /\ Gone \in Places /\ Start \in Places /\ Start.col \in Columns
  /\ Nowhere \notin Columns /\ Idle \notin Requests /\ Nobody \notin Tabs
  /\ Gone.col = Nowhere /\ Columns \subseteq Nat /\ DoneCols \subseteq Columns
BY ColumnsExist, SyncAssumption DEF Gone, Places, Start, Nowhere, Idle, Requests, PCs

\* An open request has the fields of one.
LEMMA OpenIsRequest ==
  ASSUME TypeOK, NEW r \in Reqs
  PROVE /\ Open(r) => reqs[r] \in Requests
        /\ ~Open(r) => reqs[r] = Idle /\ reqs[r].pc = "idle"
BY DEF TypeOK, Open, Idle

\* The empty inbox.
LEMMA NoEvents == <<>> \in Seq(Events) /\ DOMAIN <<>> = {}
BY EmptySeq

\* The initial state is well typed.
LEMMA InitTypes == Init => TypeOK /\ Whole
<1> SUFFICES ASSUME Init PROVE TypeOK /\ Whole
  OBVIOUS
<1>1. rows \in [Cards -> Places] /\ \A c \in Cards : rows[c].col \in ColumnOrNone
  BY Plain, SyncAssumption DEF Init, Places, ColumnOrNone, Gone
<1>2. TypeOK
  BY <1>1, NoEvents, SyncAssumption DEF Init, TypeOK
<1>3. Whole
  BY <1>1, NoEvents, Plain, SyncAssumption DEF Init, Whole, WholeRows, WholeReqs, WholeInbox, Open
<1>4. QED
  BY <1>2, <1>3

\* Request r begins: page t asks for op on card c.
Requesting(r, op, t, c) ==
  /\ ~Open(r) /\ Open(r)'
  /\ reqs'[r].pc = "sent" /\ reqs'[r].op = op /\ reqs'[r].tab = t /\ reqs'[r].card = c
  /\ reqs'[r].touched = {}
  /\ t # Nobody => reqs'[r].snapshot = lists[t]
  /\ \A s \in Reqs \ {r} : reqs'[s] = reqs[s] /\ (Open(s)' <=> Open(s))

\* What Send does.
LEMMA SendTypes ==
  ASSUME TypeOK, NEW r \in Reqs, NEW op \in {"move", "add", "delete", "toggle", "complete"},
         NEW t \in Tabs \cup {Nobody}, NEW c \in Cards, NEW to \in Places,
         Send(r, op, t, c, to)
  PROVE /\ reqs' \in [Reqs -> {Idle} \cup Requests] /\ calls' \in Nat
        /\ Requesting(r, op, t, c) /\ reqs'[r].to = to
<1> DEFINE q == [pc |-> "sent", op |-> op, tab |-> t, card |-> c, to |-> to,
        snapshot |-> IF t = Nobody THEN <<>> ELSE lists[t],
        before |-> IF t = Nobody \/ op = "add" THEN Gone ELSE card[t][c],
        touched |-> {}]
<1>1. q \in Requests
  BY Plain DEF TypeOK, Requests, PCs
<1>2. reqs' = [reqs EXCEPT ![r] = q] /\ calls' = calls + 1 /\ ~Open(r)
  BY DEF Send
<1>3. reqs'[r] = q /\ \A s \in Reqs \ {r} : reqs'[s] = reqs[s]
  BY <1>2 DEF TypeOK
<1>4. Open(r)' /\ \A s \in Reqs \ {r} : Open(s)' <=> Open(s)
  BY <1>1, <1>3, Plain DEF Open
<1> HIDE DEF q
<1>5. reqs' \in [Reqs -> {Idle} \cup Requests] /\ calls' \in Nat
  BY <1>1, <1>2 DEF TypeOK
<1>6. QED
  BY <1>1, <1>2, <1>3, <1>4, <1>5 DEF q, Requesting

\* Request s is the same but for the place where it is.
SameButPc(s) ==
  /\ Open(s)' <=> Open(s)
  /\ Open(s) => /\ reqs'[s].op = reqs[s].op /\ reqs'[s].tab = reqs[s].tab
                /\ reqs'[s].card = reqs[s].card /\ reqs'[s].snapshot = reqs[s].snapshot
                /\ reqs'[s].touched = reqs[s].touched

\* Only request r goes on, to pc.
Advances(r, pc) ==
  /\ Open(r) /\ reqs'[r].pc = pc
  /\ \A s \in Reqs : SameButPc(s) /\ (s # r => reqs'[s] = reqs[s])

\* What To does.
LEMMA Advancing ==
  ASSUME TypeOK, NEW r \in Reqs, NEW x \in PCs, Open(r), To(r, x)
  PROVE /\ reqs' \in [Reqs -> {Idle} \cup Requests]
        /\ Advances(r, x) /\ reqs'[r].to = reqs[r].to
<1>1. reqs[r] \in Requests
  BY OpenIsRequest
<1>2. reqs' = [reqs EXCEPT ![r] = [reqs[r] EXCEPT !.pc = x]]
  BY DEF To, TypeOK
<1>3. [reqs[r] EXCEPT !.pc = x] \in Requests
  BY <1>1 DEF Requests
<1>4. reqs' \in [Reqs -> {Idle} \cup Requests]
  BY <1>2, <1>3 DEF TypeOK
<1>5. reqs'[r] = [reqs[r] EXCEPT !.pc = x] /\ \A s \in Reqs \ {r} : reqs'[s] = reqs[s]
  BY <1>2 DEF TypeOK
<1>6. Open(r)'
  BY <1>3, <1>5, Plain DEF Open
<1>7. /\ reqs'[r].op = reqs[r].op /\ reqs'[r].tab = reqs[r].tab
      /\ reqs'[r].card = reqs[r].card /\ reqs'[r].snapshot = reqs[r].snapshot
      /\ reqs'[r].touched = reqs[r].touched /\ reqs'[r].pc = x /\ reqs'[r].to = reqs[r].to
  BY <1>1, <1>5 DEF Requests
<1>8. QED
  BY <1>4, <1>5, <1>6, <1>7 DEF Advances, SameButPc, Open

\* An inbox with one more event.
LEMMA AppendEvent ==
  ASSUME NEW s \in Seq(Events), NEW e \in Events
  PROVE /\ Append(s, e) \in Seq(Events)
        /\ Len(s) \in Nat /\ DOMAIN s = 1..Len(s) /\ DOMAIN Append(s, e) = 1..(Len(s) + 1)
        /\ \A i \in DOMAIN s : Append(s, e)[i] = s[i]
        /\ Append(s, e)[Len(s) + 1] = e
OBVIOUS

\* An inbox with one event less.
LEMMA TailEvent ==
  ASSUME NEW s \in Seq(Events), s # <<>>
  PROVE /\ Tail(s) \in Seq(Events) /\ Head(s) = s[1] /\ Head(s) \in Events
        /\ Len(s) \in Nat \ {0} /\ DOMAIN s = 1..Len(s) /\ DOMAIN Tail(s) = 1..(Len(s) - 1)
        /\ \A i \in 1..(Len(s) - 1) : Tail(s)[i] = s[i + 1]
OBVIOUS

\* The row that a request writes and the event that announces it are well formed.
LEMMA WrittenTypes ==
  ASSUME TypeOK, Whole, NEW r \in Reqs, Open(r)
  PROVE /\ Written(reqs[r]) \in Places /\ Event(reqs[r]) \in Events
        /\ Written(reqs[r]).col = Nowhere => Written(reqs[r]) = Gone
        /\ Event(reqs[r]).card = reqs[r].card
        /\ IF Event(reqs[r]).kind = "delete" THEN Event(reqs[r]).to = Gone
           ELSE Event(reqs[r]).to.col \in Columns
<1> DEFINE q == reqs[r]
<1>1. q \in Requests /\ q.to \in Places /\ q.card \in Cards
  BY OpenIsRequest DEF Requests
<1>2. rows[q.card] \in Places /\ (q.op = "delete" => q.to = Gone)
      /\ (q.op # "delete" => q.to.col \in Columns)
  BY <1>1 DEF TypeOK, Whole, WholeReqs
<1>3. /\ [q.to EXCEPT !.done = q.to.col \in DoneCols] \in Places
      /\ [q.to EXCEPT !.done = q.to.col \in DoneCols].col = q.to.col
      /\ [q.to EXCEPT !.pos = rows[q.card].pos] \in Places
      /\ [q.to EXCEPT !.pos = rows[q.card].pos].col = q.to.col
  <2>1. PICK d \in BOOLEAN : d = (q.to.col \in DoneCols)
    <3>1. CASE q.to.col \in DoneCols
      <4>1. TRUE = (q.to.col \in DoneCols)
        BY <3>1
      <4>2. QED
        BY <4>1
    <3>2. CASE q.to.col \notin DoneCols
      <4>1. FALSE = (q.to.col \in DoneCols)
        BY <3>2
      <4>2. QED
        BY <4>1
    <3>3. QED
      BY <3>1, <3>2
  <2>2. [q.to EXCEPT !.done = d] \in Places /\ [q.to EXCEPT !.done = d].col = q.to.col
    BY <1>1 DEF Places
  <2>3. /\ [q.to EXCEPT !.pos = rows[q.card].pos] \in Places
        /\ [q.to EXCEPT !.pos = rows[q.card].pos].col = q.to.col
    BY <1>1, <1>2 DEF Places
  <2>4. QED
    BY <2>1, <2>2, <2>3
<1>4. q.op \in {"move", "add", "delete", "toggle", "complete"}
  BY <1>1 DEF Requests
<1> HIDE DEF q
<1>5. Written(q) \in Places /\ (Written(q).col = Nowhere => Written(q) = Gone)
  BY <1>1, <1>2, <1>3, <1>4, Plain DEF Written, UpdateCardColumn, CompleteCardAsAssignee
<1>6. /\ Event(q) \in Events /\ Event(q).card = q.card
      /\ IF Event(q).kind = "delete" THEN Event(q).to = Gone ELSE Event(q).to.col \in Columns
  BY <1>1, <1>2, <1>3, <1>4 DEF Event, Events, Kind
<1>7. QED
  BY <1>5, <1>6 DEF q

\* The other requests stay as they are.
Others(r) == \A s \in Reqs \ {r} : reqs'[s] = reqs[s] /\ (Open(s)' <=> Open(s))

\* Request r is answered.
Ends(r) == Open(r) /\ ~Open(r)' /\ Others(r)

\* Request r goes on without its page.
Leaves(r) ==
  /\ Open(r) /\ Open(r)' /\ Others(r)
  /\ reqs'[r].pc = reqs[r].pc /\ reqs'[r].op = reqs[r].op /\ reqs'[r].card = reqs[r].card
  /\ reqs'[r].to = reqs[r].to /\ reqs'[r].tab = Nobody

\* What an answer does to the requests.
LEMMA Ending ==
  ASSUME TypeOK, NEW r \in Reqs, Open(r), reqs' = [reqs EXCEPT ![r] = Idle]
  PROVE reqs' \in [Reqs -> {Idle} \cup Requests] /\ Ends(r)
<1>1. reqs' \in [Reqs -> {Idle} \cup Requests] /\ reqs'[r] = Idle
      /\ \A s \in Reqs \ {r} : reqs'[s] = reqs[s]
  BY DEF TypeOK
<1>2. QED
  BY <1>1 DEF Ends, Others, Open

\* A request is replaced by another.
LEMMA Replaced ==
  ASSUME TypeOK, NEW r \in Reqs, NEW q \in Requests, reqs' = [reqs EXCEPT ![r] = q]
  PROVE /\ reqs' \in [Reqs -> {Idle} \cup Requests] /\ reqs'[r] = q
        /\ \A s \in Reqs \ {r} : reqs'[s] = reqs[s]
<1>1. reqs \in [Reqs -> {Idle} \cup Requests]
  BY DEF TypeOK
<1>2. QED
  BY <1>1

\* What a broken connection does to them.
LEMMA Leaving ==
  ASSUME TypeOK, NEW r \in Reqs, Open(r),
         reqs' = [reqs EXCEPT ![r].tab = Nobody, ![r].snapshot = <<>>, ![r].touched = {}]
  PROVE reqs' \in [Reqs -> {Idle} \cup Requests] /\ Leaves(r)
<1>1. reqs[r] \in Requests
  BY OpenIsRequest
<1> DEFINE q == [reqs[r] EXCEPT !.tab = Nobody, !.snapshot = <<>>, !.touched = {}]
<1>2. reqs' = [reqs EXCEPT ![r] = q]
  BY DEF TypeOK
<1>3. /\ q \in Requests
      /\ q.pc = reqs[r].pc /\ q.op = reqs[r].op /\ q.card = reqs[r].card
      /\ q.to = reqs[r].to /\ q.tab = Nobody
  BY <1>1 DEF Requests
<1> HIDE DEF q
<1>4. reqs' \in [Reqs -> {Idle} \cup Requests] /\ reqs'[r] = q
      /\ \A s \in Reqs \ {r} : reqs'[s] = reqs[s]
  BY <1>2, <1>3, Replaced
<1>5. QED
  BY <1>3, <1>4, Plain DEF Leaves, Others, Open

\* Every request of page t takes note that c was heard of.
Hears(t, c) ==
  \A s \in Reqs :
    /\ Open(s)' <=> Open(s)
    /\ Open(s) => /\ reqs'[s].op = reqs[s].op /\ reqs'[s].tab = reqs[s].tab
                  /\ reqs'[s].card = reqs[s].card /\ reqs'[s].snapshot = reqs[s].snapshot
                  /\ reqs'[s].pc = reqs[s].pc /\ reqs'[s].to = reqs[s].to
                  /\ reqs'[s].touched =
                       IF reqs[s].tab = t THEN reqs[s].touched \cup {c} ELSE reqs[s].touched

\* The requests of page t go on without it.
Forsakes(t) ==
  \A s \in Reqs :
    /\ Open(s)' <=> Open(s)
    /\ Open(s) => /\ reqs'[s].op = reqs[s].op /\ reqs'[s].card = reqs[s].card
                  /\ reqs'[s].pc = reqs[s].pc /\ reqs'[s].to = reqs[s].to
                  /\ IF reqs[s].tab = t THEN reqs'[s].tab = Nobody
                     ELSE /\ reqs'[s].tab = reqs[s].tab /\ reqs'[s].touched = reqs[s].touched
                          /\ reqs'[s].snapshot = reqs[s].snapshot

\* What hearing of a card does to the requests.
LEMMA Hearing ==
  ASSUME TypeOK, NEW t \in Tabs, NEW c \in Cards,
         reqs' = [r \in Reqs |->
            IF Open(r) /\ reqs[r].tab = t
            THEN [reqs[r] EXCEPT !.touched = @ \cup {c}] ELSE reqs[r]]
  PROVE reqs' \in [Reqs -> {Idle} \cup Requests] /\ Hears(t, c)
<1>1. ASSUME NEW s \in Reqs
      PROVE /\ reqs'[s] \in {Idle} \cup Requests /\ (Open(s)' <=> Open(s))
            /\ Open(s) => /\ reqs'[s].op = reqs[s].op /\ reqs'[s].tab = reqs[s].tab
                  /\ reqs'[s].card = reqs[s].card /\ reqs'[s].snapshot = reqs[s].snapshot
                  /\ reqs'[s].pc = reqs[s].pc /\ reqs'[s].to = reqs[s].to
                  /\ reqs'[s].touched =
                       IF reqs[s].tab = t THEN reqs[s].touched \cup {c} ELSE reqs[s].touched
  <2>1. CASE Open(s) /\ reqs[s].tab = t
    <3>1. reqs[s] \in Requests /\ reqs'[s] = [reqs[s] EXCEPT !.touched = @ \cup {c}]
      BY <2>1, OpenIsRequest
    <3>2. reqs'[s] \in Requests
      BY <3>1 DEF Requests
    <3>3. QED
      BY <2>1, <3>1, <3>2, Plain DEF Requests, Open
  <2>2. CASE ~(Open(s) /\ reqs[s].tab = t)
    <3>1. reqs'[s] = reqs[s]
      BY <2>2
    <3>2. QED
      BY <2>2, <3>1 DEF TypeOK, Open
  <2>3. QED
    BY <2>1, <2>2
<1>2. reqs' = [r \in Reqs |-> reqs'[r]]
  OBVIOUS
<1>3. QED
  BY <1>1, <1>2 DEF Hears

\* What loading the page does to them.
LEMMA Forsaking ==
  ASSUME TypeOK, NEW t \in Tabs,
         reqs' = [r \in Reqs |->
           IF Open(r) /\ reqs[r].tab = t
           THEN [reqs[r] EXCEPT !.tab = Nobody, !.snapshot = <<>>, !.touched = {}]
           ELSE reqs[r]]
  PROVE reqs' \in [Reqs -> {Idle} \cup Requests] /\ Forsakes(t)
<1>1. ASSUME NEW s \in Reqs
      PROVE /\ reqs'[s] \in {Idle} \cup Requests /\ (Open(s)' <=> Open(s))
            /\ Open(s) => /\ reqs'[s].op = reqs[s].op /\ reqs'[s].card = reqs[s].card
                  /\ reqs'[s].pc = reqs[s].pc /\ reqs'[s].to = reqs[s].to
                  /\ IF reqs[s].tab = t THEN reqs'[s].tab = Nobody
                     ELSE /\ reqs'[s].tab = reqs[s].tab /\ reqs'[s].touched = reqs[s].touched
                          /\ reqs'[s].snapshot = reqs[s].snapshot
  <2>1. CASE Open(s) /\ reqs[s].tab = t
    <3>1. reqs[s] \in Requests
          /\ reqs'[s] = [reqs[s] EXCEPT !.tab = Nobody, !.snapshot = <<>>, !.touched = {}]
      BY <2>1, OpenIsRequest
    <3>2. reqs'[s] \in Requests
      BY <3>1 DEF Requests
    <3>3. QED
      BY <2>1, <3>1, <3>2, Plain DEF Requests, Open
  <2>2. CASE ~(Open(s) /\ reqs[s].tab = t)
    <3>1. reqs'[s] = reqs[s]
      BY <2>2
    <3>2. QED
      BY <2>2, <3>1 DEF TypeOK, Open
  <2>3. QED
    BY <2>1, <2>2
<1>2. reqs' = [r \in Reqs |-> reqs'[r]]
  OBVIOUS
<1>3. QED
  BY <1>1, <1>2 DEF Forsakes

\* Every open request is refused.
Dies == \A s \in Reqs : SameButPc(s) /\ (Open(s) => reqs'[s].pc = "refused")

\* What a restart does to the requests.
LEMMA Dying ==
  ASSUME TypeOK,
         reqs' = [r \in Reqs |-> IF Open(r) THEN [reqs[r] EXCEPT !.pc = "refused"] ELSE Idle]
  PROVE reqs' \in [Reqs -> {Idle} \cup Requests] /\ Dies
        /\ \A s \in Reqs : Open(s) => reqs'[s].to = reqs[s].to
<1>1. ASSUME NEW s \in Reqs
      PROVE /\ reqs'[s] \in {Idle} \cup Requests /\ SameButPc(s)
            /\ Open(s) => reqs'[s].pc = "refused" /\ reqs'[s].to = reqs[s].to
  <2>1. CASE Open(s)
    <3>1. reqs[s] \in Requests /\ reqs'[s] = [reqs[s] EXCEPT !.pc = "refused"]
      BY <2>1, OpenIsRequest
    <3>2. reqs'[s] \in Requests
      BY <3>1 DEF Requests, PCs
    <3>3. QED
      BY <2>1, <3>1, <3>2, Plain DEF Requests, Open, SameButPc
  <2>2. CASE ~Open(s)
    BY <2>2 DEF Open, SameButPc
  <2>3. QED
    BY <2>1, <2>2
<1>2. reqs' = [r \in Reqs |-> reqs'[r]]
  OBVIOUS
<1>3. QED
  BY <1>1, <1>2 DEF Dies

\* A store changes at one card of one page.
StoreAt(t, c) ==
  /\ lists' \in [Tabs -> [Cards -> ColumnOrNone]] /\ card' \in [Tabs -> [Cards -> Places]]
  /\ \A u \in Tabs, d \in Cards : u # t \/ d # c =>
       lists'[u][d] = lists[u][d] /\ card'[u][d] = card[u][d]

\* The store setters, one by one.
LEMMA Placing ==
  ASSUME TypeOK, NEW t \in Tabs, NEW c \in Cards, NEW to \in Places,
         lists' = [lists EXCEPT ![t][c] = to.col], card' = [card EXCEPT ![t][c] = to]
  PROVE StoreAt(t, c) /\ lists'[t][c] = to.col /\ card'[t][c] = to
<1>1. to.col \in ColumnOrNone
  BY DEF Places, ColumnOrNone
<1>2. QED
  BY <1>1 DEF StoreAt, TypeOK

\* The card leaves the lists.
LEMMA Removing ==
  ASSUME TypeOK, NEW t \in Tabs, NEW c \in Cards,
         lists' = [lists EXCEPT ![t][c] = Nowhere], card' = card
  PROVE StoreAt(t, c) /\ lists'[t][c] = Nowhere
<1>1. Nowhere \in ColumnOrNone
  BY DEF ColumnOrNone
<1>2. QED
  BY <1>1 DEF StoreAt, TypeOK

\* The store stays as it is.
LEMMA Keeping ==
  ASSUME TypeOK, NEW t \in Tabs, NEW c \in Cards, UNCHANGED store
  PROVE StoreAt(t, c) /\ lists'[t][c] = lists[t][c] /\ card'[t][c] = card[t][c]
BY DEF StoreAt, TypeOK, store

\* moveCard changes a card that some list holds.
LEMMA MoveCardEffect ==
  ASSUME TypeOK, NEW t \in Tabs, NEW c \in Cards, NEW to \in Places, moveCard(t, c, to)
  PROVE /\ StoreAt(t, c)
        /\ IF lists[t][c] = Nowhere
           THEN lists'[t][c] = lists[t][c] /\ card'[t][c] = card[t][c]
           ELSE lists'[t][c] = to.col /\ card'[t][c] = to
<1>1. CASE lists[t][c] = Nowhere
  BY <1>1, Keeping DEF moveCard
<1>2. CASE lists[t][c] # Nowhere
  BY <1>2, Placing DEF moveCard
<1>3. QED
  BY <1>1, <1>2

\* addCardToStore adds a card that no list holds.
LEMMA AddCardEffect ==
  ASSUME TypeOK, NEW t \in Tabs, NEW c \in Cards, NEW to \in Places, addCardToStore(t, c, to)
  PROVE /\ StoreAt(t, c)
        /\ IF lists[t][c] # Nowhere
           THEN lists'[t][c] = lists[t][c] /\ card'[t][c] = card[t][c]
           ELSE lists'[t][c] = to.col /\ card'[t][c] = to
<1>1. CASE lists[t][c] = Nowhere
  BY <1>1, Placing DEF addCardToStore
<1>2. CASE lists[t][c] # Nowhere
  BY <1>2, Keeping DEF addCardToStore
<1>3. QED
  BY <1>1, <1>2

\* removeCardFromStore.
LEMMA RemoveCardEffect ==
  ASSUME TypeOK, NEW t \in Tabs, NEW c \in Cards, removeCardFromStore(t, c)
  PROVE StoreAt(t, c) /\ lists'[t][c] = Nowhere
BY Removing DEF removeCardFromStore

\* The store stays well typed.
LEMMA StoreTypes ==
  ASSUME NEW t \in Tabs, NEW c \in Cards, StoreAt(t, c)
  PROVE /\ lists' \in [Tabs -> [Cards -> ColumnOrNone]] /\ card' \in [Tabs -> [Cards -> Places]]
BY DEF StoreAt

-----------------------------------------------------------------------------
(* What each action does *)

\* handleDragEnd moves a listed card and asks for it.
LEMMA DragEffect ==
  ASSUME TypeOK, Whole, NEW t \in Tabs, NEW r \in Reqs, handleDragEnd(t, r)
  PROVE /\ TypeOK' /\ Whole' /\ UNCHANGED <<server, live, inbox, stale>>
        /\ \E c \in Cards : /\ lists[t][c] # Nowhere /\ lists'[t][c] # Nowhere
                            /\ StoreAt(t, c) /\ Requesting(r, "move", t, c)
<1>1. PICK c \in Cards, k \in Columns, p \in Positions :
        LET to == [col |-> k, pos |-> p, done |-> card[t][c].done] IN
         /\ lists[t][c] # Nowhere
         /\ Send(r, "move", t, c, to)
         /\ moveCard(t, c, to)
  BY DEF handleDragEnd
<1> DEFINE to == [col |-> k, pos |-> p, done |-> card[t][c].done]
<1>2. to \in Places /\ to.col \in Columns /\ to.col # Nowhere
  BY Plain DEF TypeOK, Places
<1>3. UNCHANGED <<server, live, inbox, stale>>
  BY DEF handleDragEnd
<1> HIDE DEF to
<1>4. lists[t][c] # Nowhere /\ Send(r, "move", t, c, to) /\ moveCard(t, c, to)
  BY <1>1 DEF to
<1>5. StoreAt(t, c) /\ lists'[t][c] = to.col
  BY <1>2, <1>4, MoveCardEffect
<1>6. /\ reqs' \in [Reqs -> {Idle} \cup Requests] /\ calls' \in Nat
      /\ Requesting(r, "move", t, c) /\ reqs'[r].to = to
  BY <1>2, <1>4, SendTypes, Plain
<1>7. TypeOK'
  BY <1>3, <1>5, <1>6 DEF TypeOK, StoreAt, server
<1>8. WholeReqs'
  BY <1>2, <1>6 DEF Whole, WholeReqs, Requesting, TypeOK
<1>9. Whole'
  BY <1>3, <1>8 DEF Whole, WholeRows, WholeInbox, server
<1>10. QED
  BY <1>2, <1>3, <1>4, <1>5, <1>6, <1>7, <1>9

\* handleDeleteCard takes a listed card away and asks for it.
LEMMA DeleteEffect ==
  ASSUME TypeOK, Whole, NEW t \in Tabs, NEW r \in Reqs, handleDeleteCard(t, r)
  PROVE /\ TypeOK' /\ Whole' /\ UNCHANGED <<server, live, inbox, stale>>
        /\ \E c \in Cards : /\ lists[t][c] # Nowhere /\ lists'[t][c] = Nowhere
                            /\ StoreAt(t, c) /\ Requesting(r, "delete", t, c)
<1>1. PICK c \in Cards : /\ lists[t][c] # Nowhere
                         /\ Send(r, "delete", t, c, Gone)
                         /\ removeCardFromStore(t, c)
  BY DEF handleDeleteCard
<1>3. UNCHANGED <<server, live, inbox, stale>>
  BY DEF handleDeleteCard
<1>5. StoreAt(t, c) /\ lists'[t][c] = Nowhere
  BY <1>1, RemoveCardEffect
<1>6. /\ reqs' \in [Reqs -> {Idle} \cup Requests] /\ calls' \in Nat
      /\ Requesting(r, "delete", t, c) /\ reqs'[r].to = Gone
  BY <1>1, SendTypes, Plain
<1>7. TypeOK'
  BY <1>3, <1>5, <1>6 DEF TypeOK, StoreAt, server
<1>8. WholeReqs'
  BY <1>6 DEF Whole, WholeReqs, Requesting, TypeOK
<1>9. Whole'
  BY <1>3, <1>8 DEF Whole, WholeRows, WholeInbox, server
<1>10. QED
  BY <1>1, <1>3, <1>5, <1>6, <1>7, <1>9

\* handleAddCard asks for a card with a new id.
LEMMA AddEffect ==
  ASSUME TypeOK, Whole, NEW t \in Tabs, NEW r \in Reqs, handleAddCard(t, r)
  PROVE /\ TypeOK' /\ Whole' /\ UNCHANGED <<server, live, inbox, store, stale>>
        /\ \E c \in Cards \ used : /\ Requesting(r, "add", t, c)
                                   /\ \A s \in Reqs : Open(s) => reqs[s].card # c
<1>1. PICK c \in Cards \ used, k \in Columns, p \in Positions :
        /\ \A s \in Reqs : Open(s) => reqs[s].card # c
        /\ Send(r, "add", t, c, [col |-> k, pos |-> p, done |-> FALSE])
  BY DEF handleAddCard
<1> DEFINE to == [col |-> k, pos |-> p, done |-> FALSE]
<1>2. to \in Places /\ to.col \in Columns
  BY DEF Places
<1> HIDE DEF to
<1>3. UNCHANGED <<server, live, inbox, store, stale>>
  BY DEF handleAddCard
<1>6. /\ reqs' \in [Reqs -> {Idle} \cup Requests] /\ calls' \in Nat
      /\ Requesting(r, "add", t, c) /\ reqs'[r].to = to
  BY <1>1, <1>2, SendTypes, Plain DEF to
<1>7. TypeOK'
  BY <1>3, <1>6 DEF TypeOK, server, store
<1>8. WholeReqs'
  BY <1>2, <1>6 DEF Whole, WholeReqs, Requesting, TypeOK
<1>9. Whole'
  BY <1>3, <1>8 DEF Whole, WholeRows, WholeInbox, server, store
<1>10. QED
  BY <1>1, <1>3, <1>6, <1>7, <1>9

\* The two requests of clients without a board store.
LEMMA OutsideEffect ==
  ASSUME TypeOK, Whole, NEW r \in Reqs, toggleDone(r) \/ completeMyTask(r)
  PROVE /\ TypeOK' /\ Whole' /\ UNCHANGED <<server, live, inbox, store, stale>>
        /\ \E c \in Cards, op \in {"toggle", "complete"} :
             rows[c] # Gone /\ Requesting(r, op, Nobody, c)
<1>1. \E c \in Cards, op \in {"toggle", "complete"}, to \in Places :
        /\ rows[c] # Gone /\ to.col \in Columns /\ (op = "complete" => to.done = TRUE)
        /\ Send(r, op, Nobody, c, to)
  <2>1. CASE toggleDone(r)
    <3>1. PICK c \in Cards, d \in BOOLEAN :
            rows[c] # Gone
            /\ Send(r, "toggle", Nobody, c,
                    [col |-> Min(IF d THEN DoneCols ELSE Columns \ DoneCols),
                     pos |-> 0, done |-> d])
      BY <2>1 DEF toggleDone
    <3>2. Min(IF d THEN DoneCols ELSE Columns \ DoneCols) \in Columns
      BY ColumnsExist, Plain
    <3>3. [col |-> Min(IF d THEN DoneCols ELSE Columns \ DoneCols),
                     pos |-> 0, done |-> d] \in Places
      BY <3>2 DEF Places
    <3>4. QED
      BY <3>1, <3>2, <3>3
  <2>2. CASE completeMyTask(r)
    <3>1. PICK c \in Cards :
            rows[c] # Gone
            /\ Send(r, "complete", Nobody, c, [col |-> Min(DoneCols), pos |-> 0, done |-> TRUE])
      BY <2>2 DEF completeMyTask
    <3>2. Min(DoneCols) \in Columns
      BY ColumnsExist, Plain
    <3>3. [col |-> Min(DoneCols), pos |-> 0, done |-> TRUE] \in Places
      BY <3>2 DEF Places
    <3>4. QED
      BY <3>1, <3>2, <3>3
  <2>3. QED
    BY <2>1, <2>2
<1>2. PICK c \in Cards, op \in {"toggle", "complete"}, to \in Places :
        /\ rows[c] # Gone /\ to.col \in Columns /\ (op = "complete" => to.done = TRUE)
        /\ Send(r, op, Nobody, c, to)
  BY <1>1
<1>3. UNCHANGED <<server, live, inbox, store, stale>>
  BY DEF toggleDone, completeMyTask
<1>6. /\ reqs' \in [Reqs -> {Idle} \cup Requests] /\ calls' \in Nat
      /\ Requesting(r, op, Nobody, c) /\ reqs'[r].to = to
  BY <1>2, SendTypes, Plain
<1>7. TypeOK'
  BY <1>3, <1>6 DEF TypeOK, server, store
<1>8. WholeReqs'
  BY <1>2, <1>6 DEF Whole, WholeReqs, Requesting, TypeOK
<1>9. Whole'
  BY <1>3, <1>8 DEF Whole, WholeRows, WholeInbox, server, store
<1>10. QED
  BY <1>2, <1>3, <1>6, <1>7, <1>9

\* cardContext.
LEMMA LookupEffect ==
  ASSUME TypeOK, Whole, NEW r \in Reqs, cardContext(r)
  PROVE /\ TypeOK' /\ Whole' /\ UNCHANGED <<server, live, inbox, store, stale>>
        /\ reqs[r].pc = "sent" /\ Advances(r, "found") /\ reqs'[r].to = reqs[r].to
<1>1. /\ UNCHANGED <<server, calls, live, inbox, store, stale>>
      /\ Open(r) /\ reqs[r].pc = "sent" /\ To(r, "found")
  BY DEF cardContext
<1>2. /\ reqs' \in [Reqs -> {Idle} \cup Requests]
      /\ Advances(r, "found") /\ reqs'[r].to = reqs[r].to
  BY <1>1, Advancing DEF PCs
<1>3. TypeOK'
  BY <1>1, <1>2 DEF TypeOK, server, store
<1>4. WholeReqs'
  BY <1>2 DEF Whole, WholeReqs, Advances, SameButPc
<1>5. Whole'
  BY <1>1, <1>4 DEF Whole, WholeRows, WholeInbox, server, store
<1>6. QED
  BY <1>1, <1>2, <1>3, <1>5

\* Refuse, before the write or of a completion that found no row.
LEMMA RefuseEffect ==
  ASSUME TypeOK, Whole, NEW r \in Reqs, Refuse(r)
  PROVE /\ TypeOK' /\ Whole' /\ UNCHANGED <<server, live, inbox, store, stale>>
        /\ Advances(r, "refused") /\ reqs'[r].to = reqs[r].to
        /\ \/ reqs[r].pc \in {"sent", "found"}
           \/ reqs[r].pc = "written" /\ reqs[r].op = "complete" /\ rows[reqs[r].card] = Gone
<1>1. /\ UNCHANGED <<server, calls, live, inbox, store, stale>>
      /\ Open(r) /\ To(r, "refused")
      /\ \/ reqs[r].pc \in {"sent", "found"}
         \/ reqs[r].pc = "written" /\ reqs[r].op = "complete" /\ rows[reqs[r].card] = Gone
  BY DEF Refuse
<1>2. /\ reqs' \in [Reqs -> {Idle} \cup Requests]
      /\ Advances(r, "refused") /\ reqs'[r].to = reqs[r].to
  BY <1>1, Advancing DEF PCs
<1>3. TypeOK'
  BY <1>1, <1>2 DEF TypeOK, server, store
<1>4. WholeReqs'
  BY <1>2 DEF Whole, WholeReqs, Advances, SameButPc
<1>5. Whole'
  BY <1>1, <1>4 DEF Whole, WholeRows, WholeInbox, server, store
<1>6. QED
  BY <1>1, <1>2, <1>3, <1>5

\* Write changes the row of the request's card.
LEMMA WriteEffect ==
  ASSUME TypeOK, Whole, NEW r \in Reqs, Write(r)
  PROVE /\ TypeOK' /\ Whole' /\ UNCHANGED <<live, inbox, store, stale>>
        /\ reqs[r].pc = "found" /\ Advances(r, "written") /\ reqs'[r].to = reqs[r].to
        /\ reqs[r].card \in Cards
        /\ rows'[reqs[r].card] = Written(reqs[r])
        /\ \A d \in Cards : d # reqs[r].card => rows'[d] = rows[d]
        /\ used' = used \cup {reqs[r].card}
        /\ raced' = IF Unannounced(reqs[r].card) THEN raced \cup {reqs[r].card}
                    ELSE IF Settles(reqs[r]) THEN raced \ {reqs[r].card} ELSE raced
<1>1. /\ UNCHANGED <<calls, live, inbox, store, stale>>
      /\ Open(r) /\ reqs[r].pc = "found" /\ To(r, "written")
      /\ rows' = [rows EXCEPT ![reqs[r].card] = Written(reqs[r])]
      /\ used' = used \cup {reqs[r].card}
      /\ raced' = IF Unannounced(reqs[r].card) THEN raced \cup {reqs[r].card}
                    ELSE IF Settles(reqs[r]) THEN raced \ {reqs[r].card} ELSE raced
  BY DEF Write
<1>2. /\ reqs' \in [Reqs -> {Idle} \cup Requests]
      /\ Advances(r, "written") /\ reqs'[r].to = reqs[r].to
  BY <1>1, Advancing DEF PCs
<1>3. reqs[r].card \in Cards
  BY <1>1, OpenIsRequest DEF Requests
<1>4. /\ Written(reqs[r]) \in Places
      /\ Written(reqs[r]).col = Nowhere => Written(reqs[r]) = Gone
  BY <1>1, WrittenTypes
<1>5. /\ rows' \in [Cards -> Places] /\ rows'[reqs[r].card] = Written(reqs[r])
      /\ \A d \in Cards : d # reqs[r].card => rows'[d] = rows[d]
  BY <1>1, <1>3, <1>4 DEF TypeOK
<1>6. raced' \in SUBSET Cards /\ used' \in SUBSET Cards
  BY <1>1, <1>3 DEF TypeOK
<1>7. TypeOK'
  BY <1>1, <1>2, <1>5, <1>6 DEF TypeOK, store
<1>8. WholeReqs'
  BY <1>2 DEF Whole, WholeReqs, Advances, SameButPc
<1>9. WholeRows'
  BY <1>4, <1>5 DEF Whole, WholeRows
<1>10. Whole'
  BY <1>1, <1>8, <1>9 DEF Whole, WholeInbox, store
<1>11. QED
  BY <1>1, <1>2, <1>3, <1>5, <1>7, <1>10

\* GetCard takes the row over into the request, as done.
LEMMA RereadEffect ==
  ASSUME TypeOK, Whole, NEW r \in Reqs, GetCard(r)
  PROVE /\ TypeOK' /\ Whole' /\ UNCHANGED <<server, live, inbox, store, stale>>
        /\ reqs[r].pc = "written" /\ reqs[r].op = "complete" /\ reqs[r].card \in Cards
        /\ rows[reqs[r].card] # Gone
        /\ Advances(r, "reread")
        /\ reqs'[r].to = [rows[reqs[r].card] EXCEPT !.done = TRUE]
<1> DEFINE to == [rows[reqs[r].card] EXCEPT !.done = TRUE]
           q == [reqs[r] EXCEPT !.pc = "reread", !.to = to]
<1>1. /\ UNCHANGED <<server, calls, live, inbox, store, stale>>
      /\ Open(r) /\ reqs[r].pc = "written" /\ reqs[r].op = "complete"
      /\ rows[reqs[r].card] # Gone
      /\ reqs' = [reqs EXCEPT ![r] = q]
  BY DEF GetCard, TypeOK
<1>2. reqs[r] \in Requests /\ reqs[r].card \in Cards
  BY <1>1, OpenIsRequest DEF Requests
<1>3. rows[reqs[r].card] \in Places /\ rows[reqs[r].card].col # Nowhere
  BY <1>1, <1>2 DEF TypeOK, Whole, WholeRows
<1>4. to \in Places /\ to.col \in Columns /\ to.done = TRUE
  BY <1>3 DEF Places
<1> HIDE DEF to
<1>5. /\ q \in Requests /\ q.pc = "reread" /\ q.to = to
      /\ q.op = reqs[r].op /\ q.tab = reqs[r].tab /\ q.card = reqs[r].card
      /\ q.snapshot = reqs[r].snapshot /\ q.touched = reqs[r].touched
  BY <1>2, <1>4 DEF Requests, PCs
<1> HIDE DEF q
<1>6. /\ reqs' \in [Reqs -> {Idle} \cup Requests] /\ reqs'[r] = q
      /\ \A s \in Reqs \ {r} : reqs'[s] = reqs[s]
  BY <1>1, <1>5 DEF TypeOK
<1>7. Advances(r, "reread") /\ reqs'[r].to = to
  BY <1>1, <1>5, <1>6, Plain DEF Advances, SameButPc, Open
<1>8. TypeOK'
  BY <1>1, <1>6 DEF TypeOK, server, store
<1>9. WholeReqs'
  BY <1>1, <1>4, <1>7 DEF Whole, WholeReqs, Advances, SameButPc
<1>10. Whole'
  BY <1>1, <1>9 DEF Whole, WholeRows, WholeInbox, server, store
<1>11. QED
  BY <1>1, <1>2, <1>7, <1>8, <1>10 DEF to

\* A page hears the event of request r behind all it had to hear, or misses it.
Sends(r) ==
  \A t \in Tabs :
    IF t \in live THEN inbox'[t] = Append(inbox[t], Event(reqs[r])) /\ stale'[t] = stale[t]
    ELSE inbox'[t] = inbox[t] /\ stale'[t] = stale[t] \cup {reqs[r].card}

\* emit.
LEMMA EmitEffect ==
  ASSUME TypeOK, Whole, NEW r \in Reqs, emit(r)
  PROVE /\ TypeOK' /\ Whole' /\ UNCHANGED <<server, live, store>>
        /\ reqs[r].pc = IF reqs[r].op = "complete" THEN "reread" ELSE "written"
        /\ reqs[r].card \in Cards
        /\ Advances(r, "told") /\ reqs'[r].to = reqs[r].to
        /\ Event(reqs[r]) \in Events /\ Event(reqs[r]).card = reqs[r].card
        /\ Sends(r)
<1>1. /\ UNCHANGED <<server, calls, live, store>>
      /\ Open(r) /\ reqs[r].pc = (IF reqs[r].op = "complete" THEN "reread" ELSE "written")
      /\ To(r, "told")
      /\ inbox' = [t \in Tabs |->
           IF t \in live THEN Append(inbox[t], Event(reqs[r])) ELSE inbox[t]]
      /\ stale' = [t \in Tabs |->
           IF t \in live THEN stale[t] ELSE stale[t] \cup {reqs[r].card}]
  BY DEF emit
<1>2. /\ reqs' \in [Reqs -> {Idle} \cup Requests]
      /\ Advances(r, "told") /\ reqs'[r].to = reqs[r].to
  BY <1>1, Advancing DEF PCs
<1>3. reqs[r].card \in Cards
  BY <1>1, OpenIsRequest DEF Requests
<1> DEFINE e == Event(reqs[r])
<1>4. /\ e \in Events /\ e.card = reqs[r].card
      /\ IF e.kind = "delete" THEN e.to = Gone ELSE e.to.col \in Columns
  BY <1>1, WrittenTypes
<1>5. Sends(r)
  BY <1>1 DEF Sends
<1> HIDE DEF e
<1>6. ASSUME NEW t \in Tabs PROVE Append(inbox[t], e) \in Seq(Events) /\ inbox[t] \in Seq(Events)
  BY <1>4, AppendEvent DEF TypeOK
<1>7. inbox' \in [Tabs -> Seq(Events)] /\ stale' \in [Tabs -> SUBSET Cards]
  BY <1>1, <1>3, <1>6 DEF TypeOK, e
<1>8. TypeOK'
  BY <1>1, <1>2, <1>7 DEF TypeOK, server, store
<1>9. WholeReqs'
  BY <1>2 DEF Whole, WholeReqs, Advances, SameButPc
<1>10. WholeInbox'
  <2>1. ASSUME NEW t \in Tabs, NEW i \in DOMAIN inbox'[t]
        PROVE IF inbox'[t][i].kind = "delete" THEN inbox'[t][i].to = Gone
              ELSE inbox'[t][i].to.col \in Columns
    <3>1. CASE t \in live
      <4>1. inbox'[t] = Append(inbox[t], e)
        BY <1>5, <3>1 DEF Sends, e
      <4>2. (i \in DOMAIN inbox[t] /\ inbox'[t][i] = inbox[t][i]) \/ inbox'[t][i] = e
        BY <1>4, <4>1, AppendEvent DEF TypeOK
      <4>3. QED
        BY <1>4, <4>2 DEF Whole, WholeInbox
    <3>2. CASE t \notin live
      BY <1>5, <3>2 DEF Sends, Whole, WholeInbox
    <3>3. QED
      BY <3>1, <3>2
  <2>2. \A t \in Tabs : t \notin live' => inbox'[t] = <<>>
    BY <1>1, <1>5 DEF Sends, Whole, WholeInbox
  <2>3. QED
    BY <2>1, <2>2 DEF WholeInbox
<1>11. Whole'
  BY <1>1, <1>9, <1>10 DEF Whole, WholeRows, server
<1>12. QED
  BY <1>1, <1>2, <1>3, <1>4, <1>5, <1>8, <1>11 DEF e

\* The page of request r puts its snapshot back.
Reverts(r) ==
  /\ reqs[r].tab \in Tabs /\ reqs[r].op # "add" /\ reqs[r].card \in Cards
  /\ lists'[reqs[r].tab] = reqs[r].snapshot
  /\ stale'[reqs[r].tab] = stale[reqs[r].tab] \cup {reqs[r].card} \cup reqs[r].touched
  /\ \A u \in Tabs \ {reqs[r].tab} : lists'[u] = lists[u] /\ stale'[u] = stale[u]
  /\ card' = card

\* Revert.
LEMMA RevertEffect ==
  ASSUME TypeOK, Whole, NEW r \in Reqs, Open(r), Revert(reqs[r])
  PROVE /\ lists' \in [Tabs -> [Cards -> ColumnOrNone]] /\ card' = card
        /\ stale' \in [Tabs -> SUBSET Cards]
        /\ \/ Reverts(r)
           \/ UNCHANGED <<store, stale>> /\ (reqs[r].tab = Nobody \/ reqs[r].op = "add")
<1>1. /\ reqs[r].tab \in Tabs \cup {Nobody} /\ reqs[r].card \in Cards
      /\ reqs[r].touched \in SUBSET Cards
  BY OpenIsRequest DEF Requests
<1>2. CASE reqs[r].tab # Nobody /\ reqs[r].op # "add"
  <2>1. /\ lists' = [lists EXCEPT ![reqs[r].tab] = reqs[r].snapshot] /\ card' = card
        /\ stale' = [stale EXCEPT ![reqs[r].tab] = @ \cup {reqs[r].card} \cup reqs[r].touched]
    BY <1>2 DEF Revert, setColumns
  <2>2. reqs[r].snapshot \in [Cards -> ColumnOrNone]
    BY <1>2 DEF Whole, WholeReqs
  <2>3. lists' \in [Tabs -> [Cards -> ColumnOrNone]] /\ stale' \in [Tabs -> SUBSET Cards]
    BY <1>1, <1>2, <2>1, <2>2 DEF TypeOK
  <2>4. Reverts(r)
    BY <1>1, <1>2, <2>1 DEF Reverts, TypeOK
  <2>5. QED
    BY <2>1, <2>3, <2>4
<1>3. CASE ~(reqs[r].tab # Nobody /\ reqs[r].op # "add")
  BY <1>3 DEF Revert, TypeOK, store
<1>4. QED
  BY <1>2, <1>3

\* Succeed ends a request, and adds the card that the page asked for if it does not
\* have it yet.
LEMMA SucceedEffect ==
  ASSUME TypeOK, Whole, NEW r \in Reqs, Succeed(r)
  PROVE /\ TypeOK' /\ Whole' /\ UNCHANGED <<server, live, inbox>>
        /\ reqs[r].pc = "told" /\ Ends(r)
        /\ \/ UNCHANGED <<store, stale>>
           \/ \E t \in Tabs, c \in Cards :
                /\ reqs[r].op = "add" /\ reqs[r].tab = t /\ reqs[r].card = c
                /\ lists[t][c] = Nowhere /\ StoreAt(t, c)
                /\ lists'[t][c] = reqs[r].to.col /\ card'[t][c] = reqs[r].to
                /\ lists'[t][c] # Nowhere
                /\ \A u \in Tabs \ {t} : stale'[u] = stale[u]
                /\ stale'[t] = IF Awaited(t, c) THEN stale[t] ELSE stale[t] \cup {c}
<1> DEFINE q == reqs[r]
<1>1. /\ UNCHANGED <<server, calls, live, inbox>>
      /\ Open(r) /\ q.pc = "told" /\ reqs' = [reqs EXCEPT ![r] = Idle]
  BY DEF Succeed
<1>2. reqs' \in [Reqs -> {Idle} \cup Requests] /\ Ends(r)
  BY <1>1, Ending
<1>3. q.tab \in Tabs \cup {Nobody} /\ q.card \in Cards /\ q.to \in Places
      /\ (q.op = "add" => q.to.col \in Columns)
  BY <1>1, OpenIsRequest DEF Requests, Whole, WholeReqs
<1>4. /\ lists' \in [Tabs -> [Cards -> ColumnOrNone]] /\ card' \in [Tabs -> [Cards -> Places]]
      /\ stale' \in [Tabs -> SUBSET Cards]
      /\ \/ UNCHANGED <<store, stale>>
         \/ \E t \in Tabs, c \in Cards :
                /\ reqs[r].op = "add" /\ reqs[r].tab = t /\ reqs[r].card = c
                /\ lists[t][c] = Nowhere /\ StoreAt(t, c)
                /\ lists'[t][c] = reqs[r].to.col /\ card'[t][c] = reqs[r].to
                /\ lists'[t][c] # Nowhere
                /\ \A u \in Tabs \ {t} : stale'[u] = stale[u]
                /\ stale'[t] = IF Awaited(t, c) THEN stale[t] ELSE stale[t] \cup {c}
  <2>1. CASE q.tab # Nobody /\ q.op = "add" /\ lists[q.tab][q.card] = Nowhere
    <3>1. /\ addCardToStore(q.tab, q.card, q.to)
          /\ stale' = IF ~Awaited(q.tab, q.card)
                      THEN [stale EXCEPT ![q.tab] = @ \cup {q.card}] ELSE stale
      BY <2>1 DEF Succeed
    <3>2. q.tab \in Tabs
      BY <1>3, <2>1
    <3>3. /\ StoreAt(q.tab, q.card) /\ lists'[q.tab][q.card] = q.to.col
          /\ card'[q.tab][q.card] = q.to
      BY <1>3, <2>1, <3>1, <3>2, AddCardEffect
    <3>4. lists'[q.tab][q.card] # Nowhere
      BY <1>3, <2>1, <3>3, Plain
    <3>5. /\ stale' \in [Tabs -> SUBSET Cards]
          /\ \A u \in Tabs \ {q.tab} : stale'[u] = stale[u]
          /\ stale'[q.tab] = IF Awaited(q.tab, q.card) THEN stale[q.tab]
                             ELSE stale[q.tab] \cup {q.card}
      BY <1>3, <3>1, <3>2 DEF TypeOK
    <3>6. QED
      BY <1>3, <2>1, <3>2, <3>3, <3>4, <3>5, StoreTypes
  <2>2. CASE ~(q.tab # Nobody /\ q.op = "add" /\ lists[q.tab][q.card] = Nowhere)
    <3>1. UNCHANGED <<store, stale>>
      BY <2>2 DEF Succeed, addCardToStore
    <3>2. QED
      BY <3>1 DEF TypeOK, store
  <2>3. QED
    BY <2>1, <2>2
<1>5. TypeOK'
  BY <1>1, <1>2, <1>4 DEF TypeOK, server
<1>6. WholeReqs'
  BY <1>2 DEF Whole, WholeReqs, Ends, Others
<1>7. Whole'
  BY <1>1, <1>6 DEF Whole, WholeRows, WholeInbox, server
<1>8. QED
  BY <1>1, <1>2, <1>4, <1>5, <1>7

\* Fail ends a refused request, and its page puts the snapshot back.
LEMMA FailEffect ==
  ASSUME TypeOK, Whole, NEW r \in Reqs, Fail(r)
  PROVE /\ TypeOK' /\ Whole' /\ UNCHANGED <<server, live, inbox>>
        /\ reqs[r].pc = "refused" /\ Ends(r)
        /\ \/ Reverts(r)
           \/ UNCHANGED <<store, stale>> /\ (reqs[r].tab = Nobody \/ reqs[r].op = "add")
<1>1. /\ UNCHANGED <<server, calls, live, inbox>>
      /\ Open(r) /\ reqs[r].pc = "refused" /\ reqs' = [reqs EXCEPT ![r] = Idle]
      /\ Revert(reqs[r])
  BY DEF Fail
<1>2. reqs' \in [Reqs -> {Idle} \cup Requests] /\ Ends(r)
  BY <1>1, Ending
<1>3. /\ lists' \in [Tabs -> [Cards -> ColumnOrNone]] /\ card' = card
      /\ stale' \in [Tabs -> SUBSET Cards]
      /\ \/ Reverts(r)
         \/ UNCHANGED <<store, stale>> /\ (reqs[r].tab = Nobody \/ reqs[r].op = "add")
  BY <1>1, RevertEffect
<1>4. TypeOK'
  BY <1>1, <1>2, <1>3 DEF TypeOK, server
<1>5. WholeReqs'
  BY <1>2 DEF Whole, WholeReqs, Ends, Others
<1>6. Whole'
  BY <1>1, <1>5 DEF Whole, WholeRows, WholeInbox, server
<1>7. QED
  BY <1>1, <1>2, <1>3, <1>4, <1>6

\* Cut takes the request from its page, which puts the snapshot back.
LEMMA CutEffect ==
  ASSUME TypeOK, Whole, NEW r \in Reqs, Cut(r)
  PROVE /\ TypeOK' /\ Whole' /\ UNCHANGED <<server, live, inbox>>
        /\ Leaves(r)
        /\ \/ Reverts(r)
           \/ UNCHANGED <<store, stale>> /\ (reqs[r].tab = Nobody \/ reqs[r].op = "add")
<1>1. /\ UNCHANGED <<server, calls, live, inbox>>
      /\ Open(r)
      /\ reqs' = [reqs EXCEPT ![r].tab = Nobody, ![r].snapshot = <<>>, ![r].touched = {}]
      /\ Revert(reqs[r])
  BY DEF Cut
<1>2. reqs' \in [Reqs -> {Idle} \cup Requests] /\ Leaves(r)
  BY <1>1, Leaving
<1>3. /\ lists' \in [Tabs -> [Cards -> ColumnOrNone]] /\ card' = card
      /\ stale' \in [Tabs -> SUBSET Cards]
      /\ \/ Reverts(r)
         \/ UNCHANGED <<store, stale>> /\ (reqs[r].tab = Nobody \/ reqs[r].op = "add")
  BY <1>1, RevertEffect
<1>4. TypeOK'
  BY <1>1, <1>2, <1>3 DEF TypeOK, server
<1>5. WholeReqs'
  BY <1>2 DEF Whole, WholeReqs, Leaves, Others
<1>6. Whole'
  BY <1>1, <1>5 DEF Whole, WholeRows, WholeInbox, server
<1>7. QED
  BY <1>1, <1>2, <1>3, <1>4, <1>6

\* Page t takes the first broadcast e from its inbox.
Takes(t, e) ==
  /\ inbox[t] # <<>> /\ e = inbox[t][1] /\ inbox'[t] = Tail(inbox[t])
  /\ \A u \in Tabs \ {t} : inbox'[u] = inbox[u] /\ stale'[u] = stale[u]
  /\ stale'[t] = IF MakesUpFor(t, e) THEN stale[t] \ {e.card} ELSE stale[t]
  /\ StoreAt(t, e.card)
  /\ CASE e.kind = "move" /\ lists[t][e.card] # Nowhere ->
            lists'[t][e.card] = e.to.col /\ card'[t][e.card] = e.to
       [] e.kind = "add" /\ lists[t][e.card] = Nowhere ->
            lists'[t][e.card] = e.to.col /\ card'[t][e.card] = e.to
       [] e.kind = "delete" -> lists'[t][e.card] = Nowhere
       [] OTHER -> lists'[t][e.card] = lists[t][e.card] /\ card'[t][e.card] = card[t][e.card]

\* applyWsMessage.
LEMMA HearEffect ==
  ASSUME TypeOK, Whole, NEW t \in Tabs, applyWsMessage(t)
  PROVE /\ TypeOK' /\ Whole' /\ UNCHANGED <<server, live>>
        /\ \E e \in Events : /\ Takes(t, e) /\ Hears(t, e.card)
                             /\ IF e.kind = "delete" THEN e.to = Gone ELSE e.to.col \in Columns
<1> DEFINE e == Head(inbox[t])
<1>1. /\ UNCHANGED <<server, calls, live>> /\ inbox[t] # <<>>
      /\ Apply(t, e)
      /\ stale' = IF MakesUpFor(t, e) THEN [stale EXCEPT ![t] = @ \ {e.card}] ELSE stale
      /\ reqs' = [r \in Reqs |->
            IF Open(r) /\ reqs[r].tab = t
            THEN [reqs[r] EXCEPT !.touched = @ \cup {e.card}] ELSE reqs[r]]
      /\ inbox' = [inbox EXCEPT ![t] = Tail(@)]
  BY DEF applyWsMessage
<1>2. /\ e \in Events /\ e = inbox[t][1] /\ Tail(inbox[t]) \in Seq(Events)
      /\ 1 \in DOMAIN inbox[t]
  BY <1>1, TailEvent DEF TypeOK
<1>3. IF e.kind = "delete" THEN e.to = Gone ELSE e.to.col \in Columns
  BY <1>2 DEF Whole, WholeInbox
<1> HIDE DEF e
<1>4. e.kind \in {"move", "add", "delete"} /\ e.card \in Cards /\ e.to \in Places
  BY <1>2 DEF Events
<1>5. reqs' \in [Reqs -> {Idle} \cup Requests] /\ Hears(t, e.card)
  BY <1>1, <1>4, Hearing
<1>6. /\ inbox' \in [Tabs -> Seq(Events)] /\ inbox'[t] = Tail(inbox[t])
      /\ \A u \in Tabs \ {t} : inbox'[u] = inbox[u]
      /\ stale' \in [Tabs -> SUBSET Cards]
      /\ \A u \in Tabs \ {t} : stale'[u] = stale[u]
      /\ stale'[t] = IF MakesUpFor(t, e) THEN stale[t] \ {e.card} ELSE stale[t]
  BY <1>1, <1>2 DEF TypeOK
<1>7. /\ StoreAt(t, e.card)
      /\ CASE e.kind = "move" /\ lists[t][e.card] # Nowhere ->
                lists'[t][e.card] = e.to.col /\ card'[t][e.card] = e.to
           [] e.kind = "add" /\ lists[t][e.card] = Nowhere ->
                lists'[t][e.card] = e.to.col /\ card'[t][e.card] = e.to
           [] e.kind = "delete" -> lists'[t][e.card] = Nowhere
           [] OTHER -> lists'[t][e.card] = lists[t][e.card] /\ card'[t][e.card] = card[t][e.card]
  <2>1. CASE e.kind = "move"
    BY <1>1, <1>4, <2>1, MoveCardEffect DEF Apply
  <2>2. CASE e.kind = "add"
    BY <1>1, <1>4, <2>2, AddCardEffect DEF Apply
  <2>3. CASE e.kind = "delete"
    BY <1>1, <1>4, <2>3, RemoveCardEffect DEF Apply
  <2>4. QED
    BY <1>4, <2>1, <2>2, <2>3
<1>8. Takes(t, e)
  BY <1>1, <1>2, <1>6, <1>7 DEF Takes
<1>9. TypeOK'
  BY <1>1, <1>5, <1>6, <1>7 DEF TypeOK, server, StoreAt
<1>10. WholeReqs'
  <2>1. \A s \in Reqs : Open(s)' =>
          /\ Open(s) /\ reqs'[s].op = reqs[s].op /\ reqs'[s].tab = reqs[s].tab
          /\ reqs'[s].to = reqs[s].to /\ reqs'[s].pc = reqs[s].pc
          /\ reqs'[s].snapshot = reqs[s].snapshot
    BY <1>5 DEF Hears
  <2>2. QED
    BY <2>1 DEF Whole, WholeReqs
<1>11. WholeInbox'
  <2>1. ASSUME NEW u \in Tabs, NEW i \in DOMAIN inbox'[u]
        PROVE IF inbox'[u][i].kind = "delete" THEN inbox'[u][i].to = Gone
              ELSE inbox'[u][i].to.col \in Columns
    <3>1. CASE u = t
      <4>1. i + 1 \in DOMAIN inbox[t] /\ inbox'[t][i] = inbox[t][i + 1]
        BY <1>1, <1>6, <3>1, TailEvent DEF TypeOK
      <4>2. QED
        BY <3>1, <4>1 DEF Whole, WholeInbox
    <3>2. CASE u # t
      BY <1>6, <3>2 DEF Whole, WholeInbox
    <3>3. QED
      BY <3>1, <3>2
  <2>2. \A u \in Tabs : u \notin live' => inbox'[u] = <<>>
    BY <1>1, <1>6 DEF Whole, WholeInbox
  <2>3. QED
    BY <2>1, <2>2 DEF WholeInbox
<1>12. Whole'
  BY <1>1, <1>10, <1>11 DEF Whole, WholeRows, server
<1>13. QED
  BY <1>1, <1>2, <1>3, <1>5, <1>8, <1>9, <1>12

\* Underway is the set of cards with a broadcast on its way.
LEMMA UnderwayIs ==
  ASSUME TypeOK, NEW t \in Tabs
  PROVE Underway(t) \in SUBSET Cards /\ \A c \in Cards : c \in Underway(t) <=> About(t, c)
<1>1. \A i \in DOMAIN inbox[t] : inbox[t][i] \in Events
  BY ElementOfSeq DEF TypeOK
<1>2. QED
  BY <1>1 DEF Underway, About, Events

\* Drop.
LEMMA DropEffect ==
  ASSUME TypeOK, Whole, NEW t \in Tabs, Drop(t)
  PROVE /\ TypeOK' /\ Whole' /\ UNCHANGED <<server, reqs, store>>
        /\ inbox'[t] = <<>> /\ stale'[t] = stale[t] \cup Underway(t)
        /\ \A u \in Tabs \ {t} : inbox'[u] = inbox[u] /\ stale'[u] = stale[u]
<1>1. /\ UNCHANGED <<server, reqs, calls, store>> /\ live' = live \ {t}
      /\ inbox' = [inbox EXCEPT ![t] = <<>>]
      /\ stale' = [stale EXCEPT ![t] = @ \cup Underway(t)]
  BY DEF Drop
<1>2. Underway(t) \in SUBSET Cards
  BY UnderwayIs
<1>3. /\ inbox' \in [Tabs -> Seq(Events)] /\ stale' \in [Tabs -> SUBSET Cards]
      /\ inbox'[t] = <<>> /\ stale'[t] = stale[t] \cup Underway(t)
      /\ \A u \in Tabs \ {t} : inbox'[u] = inbox[u] /\ stale'[u] = stale[u]
  BY <1>1, <1>2, NoEvents DEF TypeOK
<1>4. TypeOK'
  BY <1>1, <1>3 DEF TypeOK, server, store
<1>5. WholeReqs'
  BY <1>1 DEF Whole, WholeReqs, Open
<1>6. WholeInbox'
  BY <1>1, <1>3, NoEvents DEF Whole, WholeInbox
<1>7. Whole'
  BY <1>1, <1>5, <1>6 DEF Whole, WholeRows, server
<1>8. QED
  BY <1>1, <1>3, <1>4, <1>7

\* Connect.
LEMMA ConnectEffect ==
  ASSUME TypeOK, Whole, NEW t \in Tabs, Connect(t)
  PROVE /\ TypeOK' /\ Whole' /\ UNCHANGED <<server, reqs, inbox, store, stale>>
<1>1. UNCHANGED <<server, reqs, calls, inbox, store, stale>> /\ live' = live \cup {t}
  BY DEF Connect
<1>2. TypeOK'
  BY <1>1 DEF TypeOK, server, store
<1>3. WholeReqs'
  BY <1>1 DEF Whole, WholeReqs, Open
<1>4. Whole'
  BY <1>1, <1>3 DEF Whole, WholeRows, WholeInbox, server
<1>5. QED
  BY <1>1, <1>2, <1>4

\* fetchAll.
LEMMA LoadEffect ==
  ASSUME TypeOK, Whole, NEW t \in Tabs, fetchAll(t)
  PROVE /\ TypeOK' /\ Whole' /\ UNCHANGED server
        /\ inbox'[t] = <<>> /\ stale'[t] = raced /\ Forsakes(t)
        /\ card'[t] = rows /\ \A c \in Cards : lists'[t][c] = rows[c].col
        /\ \A u \in Tabs \ {t} : /\ inbox'[u] = inbox[u] /\ stale'[u] = stale[u]
                                 /\ lists'[u] = lists[u] /\ card'[u] = card[u]
<1>1. /\ UNCHANGED <<server, calls>> /\ live' = live \ {t}
      /\ inbox' = [inbox EXCEPT ![t] = <<>>]
      /\ lists' = [lists EXCEPT ![t] = [c \in Cards |-> rows[c].col]]
      /\ card' = [card EXCEPT ![t] = rows]
      /\ stale' = [stale EXCEPT ![t] = raced]
      /\ reqs' = [r \in Reqs |->
           IF Open(r) /\ reqs[r].tab = t
           THEN [reqs[r] EXCEPT !.tab = Nobody, !.snapshot = <<>>, !.touched = {}]
           ELSE reqs[r]]
  BY DEF fetchAll
<1>2. reqs' \in [Reqs -> {Idle} \cup Requests] /\ Forsakes(t)
  BY <1>1, Forsaking
<1>3. [c \in Cards |-> rows[c].col] \in [Cards -> ColumnOrNone]
  BY DEF TypeOK, Places, ColumnOrNone
<1>4. /\ inbox' \in [Tabs -> Seq(Events)] /\ stale' \in [Tabs -> SUBSET Cards]
      /\ lists' \in [Tabs -> [Cards -> ColumnOrNone]] /\ card' \in [Tabs -> [Cards -> Places]]
      /\ inbox'[t] = <<>> /\ stale'[t] = raced
      /\ card'[t] = rows /\ \A c \in Cards : lists'[t][c] = rows[c].col
      /\ \A u \in Tabs \ {t} : /\ inbox'[u] = inbox[u] /\ stale'[u] = stale[u]
                                 /\ lists'[u] = lists[u] /\ card'[u] = card[u]
  BY <1>1, <1>3, NoEvents DEF TypeOK
<1>5. TypeOK'
  BY <1>1, <1>2, <1>4 DEF TypeOK, server
<1>6. WholeReqs'
  BY <1>2 DEF Whole, WholeReqs, Forsakes
<1>7. WholeInbox'
  <2>1. ASSUME NEW u \in Tabs
        PROVE /\ \A i \in DOMAIN inbox'[u] :
                   IF inbox'[u][i].kind = "delete" THEN inbox'[u][i].to = Gone
                   ELSE inbox'[u][i].to.col \in Columns
              /\ u \notin live' => inbox'[u] = <<>>
    <3>1. CASE u = t
      BY <1>4, <3>1, NoEvents
    <3>2. CASE u # t
      <4>1. inbox'[u] = inbox[u]
        BY <1>4, <3>2
      <4>2. u \notin live' => u \notin live
        BY <1>1, <3>2
      <4>3. QED
        BY <4>1, <4>2 DEF Whole, WholeInbox
    <3>3. QED
      BY <3>1, <3>2
  <2>2. QED
    BY <2>1 DEF WholeInbox
<1>8. Whole'
  BY <1>1, <1>6, <1>7 DEF Whole, WholeRows, server
<1>9. QED
  BY <1>1, <1>2, <1>4, <1>5, <1>8

\* Restart.
LEMMA RestartEffect ==
  ASSUME TypeOK, Whole, Restart
  PROVE /\ TypeOK' /\ Whole' /\ UNCHANGED <<server, store>>
        /\ Dies
        /\ \A t \in Tabs :
             inbox'[t] = <<>>
             /\ stale'[t] = stale[t] \cup Underway(t) \cup {c \in Cards : Unannounced(c)}
<1>1. /\ UNCHANGED <<server, calls, store>> /\ live' = {}
      /\ inbox' = [t \in Tabs |-> <<>>]
      /\ stale' = [t \in Tabs |-> stale[t] \cup Underway(t) \cup {c \in Cards : Unannounced(c)}]
      /\ reqs' = [r \in Reqs |-> IF Open(r) THEN [reqs[r] EXCEPT !.pc = "refused"] ELSE Idle]
  BY DEF Restart
<1>2. reqs' \in [Reqs -> {Idle} \cup Requests] /\ Dies
      /\ \A s \in Reqs : Open(s) => reqs'[s].to = reqs[s].to
  BY <1>1, Dying
<1>3. \A t \in Tabs : Underway(t) \in SUBSET Cards
  BY UnderwayIs
<1>4. inbox' \in [Tabs -> Seq(Events)] /\ stale' \in [Tabs -> SUBSET Cards]
  BY <1>1, <1>3, NoEvents DEF TypeOK
<1>5. TypeOK'
  BY <1>1, <1>2, <1>4 DEF TypeOK, server, store
<1>6. WholeReqs'
  BY <1>2 DEF Whole, WholeReqs, Dies, SameButPc
<1>7. WholeInbox'
  BY <1>1, NoEvents DEF WholeInbox
<1>8. Whole'
  BY <1>1, <1>6, <1>7 DEF Whole, WholeRows, server
<1>9. QED
  BY <1>1, <1>2, <1>5, <1>8

-----------------------------------------------------------------------------
(* What the requests say, before and after *)

\* No write became unannounced, none was announced.
Settled ==
  \A c \in Cards : /\ UnsaidOp(c, "add")' <=> UnsaidOp(c, "add")
                   /\ UnsaidOp(c, "delete")' <=> UnsaidOp(c, "delete")
                   /\ rows[c] # Gone => (Unannounced(c)' <=> Unannounced(c))

\* A card is unannounced when some request has still to announce it.
LEMMA UnannouncedIs ==
  ASSUME NEW c \in Cards
  PROVE /\ Unannounced(c) <=> \E r \in Reqs : Unsaid(r, c)
        /\ Unannounced(c)' <=> \E r \in Reqs : Unsaid(r, c)'
BY DEF Unannounced, Unsaid

\* Requests that neither write nor announce leave it settled.
LEMMA AsSaid ==
  ASSUME \A s \in Reqs, c \in Cards : Unsaid(s, c)' <=> Unsaid(s, c),
         \A s \in Reqs : Open(s) => reqs'[s].op = reqs[s].op
  PROVE Settled
<1>1. \A c \in Cards, s \in Reqs : Unsaid(s, c) => Open(s)
  BY DEF Unsaid
<1>2. \A c \in Cards, op \in {"add", "delete"} : UnsaidOp(c, op)' <=> UnsaidOp(c, op)
  BY <1>1 DEF UnsaidOp
<1>3. QED
  BY <1>2, UnannouncedIs DEF Settled

\* A new request.
LEMMA RequestSays ==
  ASSUME NEW r \in Reqs, NEW op \in {"move", "add", "delete", "toggle", "complete"},
         NEW t \in Tabs \cup {Nobody}, NEW c \in Cards, Requesting(r, op, t, c)
  PROVE /\ Settled
        /\ \A s \in Reqs, d \in Cards : Unsaid(s, d)' <=> Unsaid(s, d)
        /\ \A u \in Tabs, d \in Cards :
             /\ Pending(u, d)' <=> Pending(u, d) \/ (u = t /\ d = c /\ op # "add")
             /\ Deleting(u, d)' <=> Deleting(u, d) \/ (u = t /\ d = c /\ op = "delete")
             /\ Restores(r, u, d)' <=> u = t /\ d # c /\ op # "add"
             /\ \A s \in Reqs \ {r} : /\ Restores(s, u, d)' <=> Restores(s, u, d)
                                      /\ reqs'[s].snapshot = reqs[s].snapshot
<1>1. \A s \in Reqs, d \in Cards : Unsaid(s, d)' <=> Unsaid(s, d)
  BY DEF Unsaid, Requesting
<1>2. \A s \in Reqs : Open(s) => reqs'[s].op = reqs[s].op
  BY DEF Requesting
<1>3. \A u \in Tabs, d \in Cards :
             /\ Pending(u, d)' <=> Pending(u, d) \/ (u = t /\ d = c /\ op # "add")
             /\ Deleting(u, d)' <=> Deleting(u, d) \/ (u = t /\ d = c /\ op = "delete")
  BY DEF Pending, Deleting, Requesting
<1>4. \A u \in Tabs, d \in Cards :
             /\ Restores(r, u, d)' <=> u = t /\ d # c /\ op # "add"
             /\ \A s \in Reqs \ {r} : /\ Restores(s, u, d)' <=> Restores(s, u, d)
                                      /\ reqs'[s].snapshot = reqs[s].snapshot
  BY DEF Restores, Requesting
<1>5. QED
  BY <1>1, <1>2, <1>3, <1>4, AsSaid

\* A handler's step.
LEMMA AdvanceSays ==
  ASSUME NEW r \in Reqs, NEW x, Advances(r, x)
  PROVE /\ \A s \in Reqs \ {r}, d \in Cards : Unsaid(s, d)' <=> Unsaid(s, d)
        /\ \A d \in Cards : Unsaid(r, d)' <=> x \in {"written", "reread"} /\ d = reqs[r].card
        /\ \A s \in Reqs, u \in Tabs, d \in Cards :
             (Restores(s, u, d)' <=> Restores(s, u, d))
             /\ (Open(s) => reqs'[s].snapshot = reqs[s].snapshot /\ reqs'[s].op = reqs[s].op)
        /\ x # "told" /\ reqs[r].pc # "told" =>
             \A u \in Tabs, d \in Cards : /\ Pending(u, d)' <=> Pending(u, d)
                                          /\ Deleting(u, d)' <=> Deleting(u, d)
        /\ \A u \in Tabs, d \in Cards : d # reqs[r].card =>
             (Pending(u, d)' <=> Pending(u, d)) /\ (Deleting(u, d)' <=> Deleting(u, d))
<1>1. /\ \A s \in Reqs \ {r}, d \in Cards : Unsaid(s, d)' <=> Unsaid(s, d)
      /\ \A d \in Cards : Unsaid(r, d)' <=> x \in {"written", "reread"} /\ d = reqs[r].card
  BY DEF Unsaid, Advances, SameButPc
<1>2. \A s \in Reqs, u \in Tabs, d \in Cards :
             (Restores(s, u, d)' <=> Restores(s, u, d))
             /\ (Open(s) => reqs'[s].snapshot = reqs[s].snapshot /\ reqs'[s].op = reqs[s].op)
  BY DEF Restores, Advances, SameButPc
<1>3. ASSUME x # "told", reqs[r].pc # "told"
      PROVE \A u \in Tabs, d \in Cards : /\ Pending(u, d)' <=> Pending(u, d)
                                         /\ Deleting(u, d)' <=> Deleting(u, d)
  BY <1>3 DEF Pending, Deleting, Advances, SameButPc
<1>4. \A u \in Tabs, d \in Cards : d # reqs[r].card =>
             (Pending(u, d)' <=> Pending(u, d)) /\ (Deleting(u, d)' <=> Deleting(u, d))
  BY DEF Pending, Deleting, Advances, SameButPc
<1>5. QED
  BY <1>1, <1>2, <1>3, <1>4

\* An answer or a broken connection.
LEMMA EndSays ==
  ASSUME NEW r \in Reqs, Ends(r) \/ Leaves(r),
         Ends(r) => reqs[r].pc \in {"told", "refused"}
  PROVE /\ Settled
        /\ \A s \in Reqs, d \in Cards : Unsaid(s, d)' <=> Unsaid(s, d)
        /\ \A u \in Tabs, d \in Cards : u # reqs[r].tab \/ d # reqs[r].card =>
             (Pending(u, d)' <=> Pending(u, d)) /\ (Deleting(u, d)' <=> Deleting(u, d))
        /\ reqs[r].tab = Nobody \/ reqs[r].op = "add" \/ (Ends(r) /\ reqs[r].pc = "told")=>
             \A u \in Tabs, d \in Cards : /\ Pending(u, d)' <=> Pending(u, d)
                                          /\ Deleting(u, d)' <=> Deleting(u, d)
        /\ \A u \in Tabs, d \in Cards :
             /\ ~Restores(r, u, d)'
             /\ \A s \in Reqs \ {r} : /\ Restores(s, u, d)' <=> Restores(s, u, d)
                                      /\ reqs'[s].snapshot = reqs[s].snapshot
<1>1. \A s \in Reqs, d \in Cards : Unsaid(s, d)' <=> Unsaid(s, d)
  BY DEF Unsaid, Ends, Leaves, Others
<1>2. \A s \in Reqs, d \in Cards : Unsaid(s, d) => Open(s) /\ reqs'[s].op = reqs[s].op
  BY DEF Unsaid, Ends, Leaves, Others
<1>3. Settled
  <2>1. \A c \in Cards, op \in {"add", "delete"} : UnsaidOp(c, op)' <=> UnsaidOp(c, op)
    BY <1>1, <1>2 DEF UnsaidOp
  <2>2. QED
    BY <1>1, <2>1, UnannouncedIs DEF Settled
<1>4. \A u \in Tabs, d \in Cards : u # reqs[r].tab \/ d # reqs[r].card =>
             (Pending(u, d)' <=> Pending(u, d)) /\ (Deleting(u, d)' <=> Deleting(u, d))
  BY Plain DEF Pending, Deleting, Ends, Leaves, Others
<1>5. ASSUME reqs[r].tab = Nobody \/ reqs[r].op = "add" \/ (Ends(r) /\ reqs[r].pc = "told")
      PROVE \A u \in Tabs, d \in Cards : /\ Pending(u, d)' <=> Pending(u, d)
                                         /\ Deleting(u, d)' <=> Deleting(u, d)
  BY <1>5, Plain DEF Pending, Deleting, Ends, Leaves, Others
<1>6. \A u \in Tabs, d \in Cards :
             /\ ~Restores(r, u, d)'
             /\ \A s \in Reqs \ {r} : /\ Restores(s, u, d)' <=> Restores(s, u, d)
                                      /\ reqs'[s].snapshot = reqs[s].snapshot
  BY Plain DEF Restores, Ends, Leaves, Others
<1>7. QED
  BY <1>1, <1>3, <1>4, <1>5, <1>6

\* A page hears of a card: no snapshot restores that card any more.
LEMMA HearSays ==
  ASSUME NEW t \in Tabs, NEW c \in Cards, Hears(t, c)
  PROVE /\ Settled
        /\ \A s \in Reqs, d \in Cards : Unsaid(s, d)' <=> Unsaid(s, d)
        /\ \A u \in Tabs, d \in Cards : /\ Pending(u, d)' <=> Pending(u, d)
                                        /\ Deleting(u, d)' <=> Deleting(u, d)
        /\ \A s \in Reqs, u \in Tabs, d \in Cards :
             /\ Restores(s, u, d)' <=> Restores(s, u, d) /\ (u # t \/ d # c)
             /\ Open(s) => reqs'[s].snapshot = reqs[s].snapshot
<1>1. \A s \in Reqs, d \in Cards : Unsaid(s, d)' <=> Unsaid(s, d)
  BY DEF Unsaid, Hears
<1>2. \A s \in Reqs : Open(s) => reqs'[s].op = reqs[s].op
  BY DEF Hears
<1>3. \A u \in Tabs, d \in Cards : /\ Pending(u, d)' <=> Pending(u, d)
                                   /\ Deleting(u, d)' <=> Deleting(u, d)
  <2>1. ASSUME NEW u \in Tabs, NEW d \in Cards PROVE Pending(u, d)' <=> Pending(u, d)
    BY DEF Pending, Hears
  <2>2. ASSUME NEW u \in Tabs, NEW d \in Cards PROVE Deleting(u, d)' <=> Deleting(u, d)
    BY DEF Deleting, Hears
  <2>3. QED
    BY <2>1, <2>2
<1>4. \A s \in Reqs, u \in Tabs, d \in Cards :
             /\ Restores(s, u, d)' <=> Restores(s, u, d) /\ (u # t \/ d # c)
             /\ Open(s) => reqs'[s].snapshot = reqs[s].snapshot
  <2>1. ASSUME NEW s \in Reqs, NEW u \in Tabs, NEW d \in Cards, Open(s)
        PROVE /\ reqs'[s].snapshot = reqs[s].snapshot
              /\ Restores(s, u, d)' <=> Restores(s, u, d) /\ (u # t \/ d # c)
    <3>1. /\ Open(s)' /\ reqs'[s].op = reqs[s].op /\ reqs'[s].tab = reqs[s].tab
          /\ reqs'[s].card = reqs[s].card /\ reqs'[s].snapshot = reqs[s].snapshot
      BY <2>1 DEF Hears
    <3>2. CASE reqs[s].tab = t
      <4>1. reqs'[s].touched = reqs[s].touched \cup {c}
        BY <2>1, <3>2 DEF Hears
      <4>2. d \in reqs'[s].touched <=> d \in reqs[s].touched \/ d = c
        BY <4>1
      <4>3. QED
        BY <2>1, <3>1, <3>2, <4>2 DEF Restores
    <3>3. CASE reqs[s].tab # t
      <4>1. reqs'[s].touched = reqs[s].touched
        BY <2>1, <3>3 DEF Hears
      <4>2. QED
        BY <2>1, <3>1, <3>3, <4>1 DEF Restores
    <3>4. QED
      BY <3>2, <3>3
  <2>2. \A s \in Reqs, u \in Tabs, d \in Cards :
          ~Open(s) => ~Restores(s, u, d) /\ ~Restores(s, u, d)'
    BY DEF Restores, Hears
  <2>3. QED
    BY <2>1, <2>2
<1>5. QED
  BY <1>1, <1>2, <1>3, <1>4, AsSaid

\* A page loads: it waits for nothing.
LEMMA ForsakeSays ==
  ASSUME NEW t \in Tabs, Forsakes(t)
  PROVE /\ Settled
        /\ \A s \in Reqs, d \in Cards : Unsaid(s, d)' <=> Unsaid(s, d)
        /\ \A d \in Cards : ~Pending(t, d)' /\ ~Deleting(t, d)'
                            /\ \A s \in Reqs : ~Restores(s, t, d)'
        /\ \A u \in Tabs \ {t}, d \in Cards :
             /\ Pending(u, d)' <=> Pending(u, d)
             /\ Deleting(u, d)' <=> Deleting(u, d)
             /\ \A s \in Reqs : Restores(s, u, d)' =>
                  Restores(s, u, d) /\ reqs'[s].snapshot = reqs[s].snapshot
<1>1. \A s \in Reqs, d \in Cards : Unsaid(s, d)' <=> Unsaid(s, d)
  BY DEF Unsaid, Forsakes
<1>2. \A s \in Reqs : Open(s) => reqs'[s].op = reqs[s].op
  BY DEF Forsakes
<1>3. \A d \in Cards : ~Pending(t, d)' /\ ~Deleting(t, d)'
                            /\ \A s \in Reqs : ~Restores(s, t, d)'
  BY Plain DEF Pending, Deleting, Restores, Forsakes
<1>4. \A u \in Tabs \ {t}, d \in Cards :
             /\ Pending(u, d)' <=> Pending(u, d)
             /\ Deleting(u, d)' <=> Deleting(u, d)
             /\ \A s \in Reqs : Restores(s, u, d)' =>
                  Restores(s, u, d) /\ reqs'[s].snapshot = reqs[s].snapshot
  BY Plain DEF Pending, Deleting, Restores, Forsakes
<1>5. QED
  BY <1>1, <1>2, <1>3, <1>4, AsSaid

\* A restart: nothing is left to be announced.
LEMMA DieSays ==
  ASSUME Dies
  PROVE /\ \A s \in Reqs, d \in Cards : ~Unsaid(s, d)'
        /\ \A u \in Tabs, d \in Cards : /\ Pending(u, d) => Pending(u, d)'
                                        /\ Deleting(u, d) => Deleting(u, d)'
        /\ \A s \in Reqs, u \in Tabs, d \in Cards :
             Restores(s, u, d)' => Restores(s, u, d) /\ reqs'[s].snapshot = reqs[s].snapshot
<1>1. \A s \in Reqs, d \in Cards : ~Unsaid(s, d)'
  BY DEF Unsaid, Dies, SameButPc
<1>2. \A u \in Tabs, d \in Cards : /\ Pending(u, d) => Pending(u, d)'
                                   /\ Deleting(u, d) => Deleting(u, d)'
  BY DEF Pending, Deleting, Dies, SameButPc
<1>3. \A s \in Reqs, u \in Tabs, d \in Cards :
             Restores(s, u, d)' => Restores(s, u, d) /\ reqs'[s].snapshot = reqs[s].snapshot
  BY DEF Restores, Dies, SameButPc
<1>4. QED
  BY <1>1, <1>2, <1>3

-----------------------------------------------------------------------------
(* What the inboxes say, before and after *)

\* There is one last broadcast about a card at most.
LEMMA LastIsAbout ==
  ASSUME TypeOK, NEW t \in Tabs, NEW c \in Cards, NEW e, Last(t, c, e)
  PROVE About(t, c) /\ e \in Events /\ e.card = c /\ Told(t, c, e.kind)
        /\ \A f : Last(t, c, f) => f = e
<1>1. inbox[t] \in Seq(Events) /\ DOMAIN inbox[t] \subseteq Nat
  BY DEF TypeOK
<1>2. PICK i \in DOMAIN inbox[t] : /\ inbox[t][i] = e /\ e.card = c
                                   /\ \A j \in DOMAIN inbox[t] : j > i => inbox[t][j].card # c
  BY DEF Last
<1>3. e \in Events
  BY <1>1, <1>2, ElementOfSeq
<1>4. ASSUME NEW f, Last(t, c, f) PROVE f = e
  <2>1. PICK k \in DOMAIN inbox[t] : /\ inbox[t][k] = f /\ f.card = c
                                   /\ \A j \in DOMAIN inbox[t] : j > k => inbox[t][j].card # c
    BY <1>4 DEF Last
  <2>2. i = k
    BY <1>1, <1>2, <2>1
  <2>3. QED
    BY <1>2, <2>1, <2>2
<1>5. QED
  BY <1>2, <1>3, <1>4 DEF About, Told

\* A broadcast of a kind is a broadcast.
LEMMA ToldIsAbout ==
  ASSUME NEW t \in Tabs, NEW c \in Cards, NEW k, Told(t, c, k) PROVE About(t, c)
BY DEF Told, About

\* An inbox that did not change.
LEMMA SameWords ==
  ASSUME NEW t \in Tabs, inbox'[t] = inbox[t], NEW c \in Cards
  PROVE /\ About(t, c)' <=> About(t, c)
        /\ \A k : Told(t, c, k)' <=> Told(t, c, k)
        /\ \A e : Last(t, c, e)' <=> Last(t, c, e)
        /\ Single(t, c)' <=> Single(t, c)
        /\ Buried(t, c)' <=> Buried(t, c)
        /\ \A p : AddedAt(t, c, p)' <=> AddedAt(t, c, p)
<1>1. About(t, c)' <=> About(t, c)
  BY DEF About
<1>2. \A k : Told(t, c, k)' <=> Told(t, c, k)
  BY DEF Told
<1>3. \A e : Last(t, c, e)' <=> Last(t, c, e)
  BY DEF Last
<1>4. Single(t, c)' <=> Single(t, c)
  BY DEF Single
<1>5. Buried(t, c)' <=> Buried(t, c)
  BY DEF Buried
<1>6. \A p : AddedAt(t, c, p)' <=> AddedAt(t, c, p)
  BY DEF AddedAt
<1>7. QED
  BY <1>1, <1>2, <1>3, <1>4, <1>5, <1>6

\* An inbox that is empty afterwards.
LEMMA NoWords ==
  ASSUME NEW t \in Tabs, inbox'[t] = <<>>, NEW c \in Cards
  PROVE /\ ~About(t, c)' /\ (\A k : ~Told(t, c, k)') /\ (\A e : ~Last(t, c, e)')
        /\ Single(t, c)' /\ Buried(t, c)' /\ \A p : AddedAt(t, c, p)'
<1>1. DOMAIN inbox'[t] = {}
  BY NoEvents
<1>2. QED
  BY <1>1 DEF About, Told, Last, Single, Buried, AddedAt

\* An inbox with a new event e at the end.
LEMMA NewWord ==
  ASSUME TypeOK, NEW t \in Tabs, NEW e \in Events, inbox'[t] = Append(inbox[t], e),
         NEW c \in Cards
  PROVE /\ About(t, c)' <=> About(t, c) \/ c = e.card
        /\ \A k : Told(t, c, k)' <=> Told(t, c, k) \/ (c = e.card /\ k = e.kind)
        /\ c # e.card => /\ \A f : Last(t, c, f)' <=> Last(t, c, f)
                         /\ Single(t, c)' <=> Single(t, c)
                         /\ Buried(t, c)' <=> Buried(t, c)
        /\ c = e.card => /\ \A f : Last(t, c, f)' => f = e
                         /\ ~About(t, c) => Single(t, c)'
        /\ c # e.card \/ e.kind # "add" =>
             /\ Buried(t, c) => Buried(t, c)'
             /\ \A p : AddedAt(t, c, p) => AddedAt(t, c, p)'
        /\ c = e.card /\ e.kind = "delete" => Buried(t, c)'
        /\ c = e.card /\ ~Told(t, c, "add") => AddedAt(t, c, e.to)'
<1> DEFINE n == Len(inbox[t])
<1>1. /\ n \in Nat /\ DOMAIN inbox[t] = 1..n /\ DOMAIN inbox'[t] = 1..(n + 1)
      /\ \A i \in 1..n : inbox'[t][i] = inbox[t][i]
      /\ inbox'[t][n + 1] = e
  BY AppendEvent DEF TypeOK
<1> HIDE DEF n
<1>2. \A i \in 1..(n + 1) : i \in 1..n \/ i = n + 1
  BY <1>1
<1>3. n + 1 \in 1..(n + 1) /\ 1..n \subseteq 1..(n + 1)
      /\ \A i \in 1..n : n + 1 > i /\ ~(i > n + 1) /\ i # n + 1
  BY <1>1
<1>4. About(t, c)' <=> About(t, c) \/ c = e.card
  BY <1>1, <1>2, <1>3 DEF About
<1>5. \A k : Told(t, c, k)' <=> Told(t, c, k) \/ (c = e.card /\ k = e.kind)
  BY <1>1, <1>2, <1>3 DEF Told
<1>6. ASSUME c # e.card
      PROVE /\ \A f : Last(t, c, f)' <=> Last(t, c, f)
            /\ Single(t, c)' <=> Single(t, c)
            /\ Buried(t, c)' <=> Buried(t, c)
  <2>1. \A f : Last(t, c, f)' => Last(t, c, f)
    BY <1>1, <1>2, <1>3, <1>6 DEF Last
  <2>2. \A f : Last(t, c, f) => Last(t, c, f)'
    BY <1>1, <1>2, <1>3, <1>6 DEF Last
  <2>3. Single(t, c)' <=> Single(t, c)
    BY <1>1, <1>2, <1>3, <1>6 DEF Single
  <2>4. Buried(t, c)' <=> Buried(t, c)
    BY <1>1, <1>2, <1>3, <1>6 DEF Buried
  <2>5. QED
    BY <2>1, <2>2, <2>3, <2>4
<1>7. ASSUME c = e.card
      PROVE /\ \A f : Last(t, c, f)' => f = e
            /\ ~About(t, c) => Single(t, c)'
  <2>1. \A f : Last(t, c, f)' => f = e
    BY <1>1, <1>2, <1>3, <1>7 DEF Last
  <2>2. ~About(t, c) => Single(t, c)'
    BY <1>1, <1>2, <1>3, <1>7 DEF Single, About
  <2>3. QED
    BY <2>1, <2>2
<1>8. ASSUME c # e.card \/ e.kind # "add"
      PROVE /\ Buried(t, c) => Buried(t, c)'
            /\ \A p : AddedAt(t, c, p) => AddedAt(t, c, p)'
  <2>1. Buried(t, c) => Buried(t, c)'
    BY <1>1, <1>2, <1>3, <1>8 DEF Buried
  <2>2. \A p : AddedAt(t, c, p) => AddedAt(t, c, p)'
    BY <1>1, <1>2, <1>3, <1>8 DEF AddedAt
  <2>3. QED
    BY <2>1, <2>2
<1>9. c = e.card /\ e.kind = "delete" => Buried(t, c)'
  BY <1>1, <1>2, <1>3 DEF Buried
<1>10. c = e.card /\ ~Told(t, c, "add") => AddedAt(t, c, e.to)'
  BY <1>1, <1>2, <1>3 DEF AddedAt, Told
<1>11. QED
  BY <1>4, <1>5, <1>6, <1>7, <1>8, <1>9, <1>10

\* An inbox whose first event e was taken.
LEMMA WordTaken ==
  ASSUME TypeOK, NEW t \in Tabs, inbox[t] # <<>>, NEW e \in Events, e = inbox[t][1],
         inbox'[t] = Tail(inbox[t]), NEW c \in Cards
  PROVE /\ Told(t, e.card, e.kind)
        /\ About(t, c)' => About(t, c)
        /\ \A k : Told(t, c, k)' => Told(t, c, k)
        /\ \A f : Last(t, c, f)' => Last(t, c, f)
        /\ Single(t, c) => Single(t, c)'
        /\ Buried(t, c) => Buried(t, c)'
        /\ \A p : AddedAt(t, c, p) => AddedAt(t, c, p)'
        /\ About(t, c) /\ c # e.card => About(t, c)'
        /\ c # e.card => /\ \A f : Last(t, c, f) => Last(t, c, f)'
                         /\ Single(t, c)' => Single(t, c)
                         /\ Buried(t, c)' => Buried(t, c)
        /\ \A k : Told(t, c, k) /\ (c # e.card \/ k # e.kind) => Told(t, c, k)'
        /\ c = e.card /\ ~About(t, c)' => Last(t, c, e)
        /\ c = e.card /\ About(t, c)' => ~Single(t, c)
        /\ c = e.card /\ e.kind = "add" /\ Buried(t, c) => Told(t, c, "delete")'
<1> DEFINE n == Len(inbox[t])
<1>1. /\ n \in Nat \ {0} /\ DOMAIN inbox[t] = 1..n /\ DOMAIN inbox'[t] = 1..(n - 1)
      /\ \A i \in 1..(n - 1) : inbox'[t][i] = inbox[t][i + 1]
  BY TailEvent DEF TypeOK
<1> HIDE DEF n
<1>2. \A i \in 1..n : i = 1 \/ (i - 1 \in 1..(n - 1) /\ inbox'[t][i - 1] = inbox[t][i])
  <2>1. TAKE i \in 1..n
  <2>2. CASE i # 1
    <3>1. i - 1 \in 1..(n - 1) /\ (i - 1) + 1 = i
      BY <1>1, <2>2
    <3>2. QED
      BY <1>1, <3>1
  <2>3. QED
    BY <2>2
<1>3. \A i \in 1..(n - 1) : i + 1 \in 1..n /\ i + 1 # 1 /\ (i + 1) - 1 = i
  BY <1>1
<1>4. 1 \in 1..n /\ \A i \in 1..n : i # 1 => i > 1
  BY <1>1
<1>5. \A i, j \in 1..(n - 1) : i < j <=> i + 1 < j + 1
  BY <1>1
<1>6. \A i, j \in 1..n : i # 1 /\ j # 1 => (i - 1 < j - 1 <=> i < j)
  BY <1>1
<1>7. Told(t, e.card, e.kind)
  BY <1>1, <1>4 DEF Told
<1>8. About(t, c)' => About(t, c)
  BY <1>1, <1>3 DEF About
<1>9. \A k : Told(t, c, k)' => Told(t, c, k)
  BY <1>1, <1>3 DEF Told
<1>10. \A f : Last(t, c, f)' => Last(t, c, f)
  <2>1. SUFFICES ASSUME NEW f, Last(t, c, f)' PROVE Last(t, c, f)
    OBVIOUS
  <2>2. PICK i \in 1..(n - 1) : /\ inbox'[t][i] = f /\ f.card = c
                 /\ \A j \in 1..(n - 1) : j > i => inbox'[t][j].card # c
    BY <1>1, <2>1 DEF Last
  <2>3. i + 1 \in 1..n /\ inbox[t][i + 1] = f
    BY <1>1, <1>3, <2>2
  <2>4. ASSUME NEW j \in 1..n, j > i + 1 PROVE inbox[t][j].card # c
    <3>1. j # 1 /\ j - 1 > i
      BY <2>2, <2>4, <1>1
    <3>2. QED
      BY <1>2, <2>2, <3>1
  <2>5. QED
    BY <1>1, <2>2, <2>3, <2>4 DEF Last
<1>11. Single(t, c) => Single(t, c)'
  <2>1. SUFFICES ASSUME Single(t, c), NEW i \in 1..(n - 1), NEW j \in 1..(n - 1),
                        inbox'[t][i].card = c, inbox'[t][j].card = c
                 PROVE i = j
    BY <1>1 DEF Single
  <2>2. i + 1 = j + 1
    BY <1>1, <1>3, <2>1 DEF Single
  <2>3. QED
    BY <2>2
<1>12. Buried(t, c) => Buried(t, c)'
  <2>1. SUFFICES ASSUME Buried(t, c), NEW i \in 1..(n - 1),
                        inbox'[t][i].card = c, inbox'[t][i].kind = "add"
                 PROVE \E j \in 1..(n - 1) :
                         j > i /\ inbox'[t][j].card = c /\ inbox'[t][j].kind = "delete"
    BY <1>1 DEF Buried
  <2>2. PICK j \in 1..n : j > i + 1 /\ inbox[t][j].card = c /\ inbox[t][j].kind = "delete"
    BY <1>1, <1>3, <2>1 DEF Buried
  <2>3. j # 1 /\ j - 1 > i
    BY <2>2, <1>1
  <2>4. QED
    BY <1>2, <2>2, <2>3
<1>13. \A p : AddedAt(t, c, p) => AddedAt(t, c, p)'
  BY <1>1, <1>3 DEF AddedAt
<1>14. About(t, c) /\ c # e.card => About(t, c)'
  <2>1. SUFFICES ASSUME c # e.card, NEW i \in 1..n, inbox[t][i].card = c
                 PROVE About(t, c)'
    BY <1>1 DEF About
  <2>2. i - 1 \in 1..(n - 1) /\ inbox'[t][i - 1] = inbox[t][i]
    BY <1>1, <1>2, <2>1
  <2>3. QED
    BY <1>1, <2>1, <2>2 DEF About
<1>15. \A k : Told(t, c, k) /\ (c # e.card \/ k # e.kind) => Told(t, c, k)'
  <2>1. SUFFICES ASSUME NEW k, c # e.card \/ k # e.kind,
                        NEW i \in 1..n, inbox[t][i].card = c, inbox[t][i].kind = k
                 PROVE Told(t, c, k)'
    BY <1>1 DEF Told
  <2>2. i - 1 \in 1..(n - 1) /\ inbox'[t][i - 1] = inbox[t][i]
    BY <1>1, <1>2, <2>1
  <2>3. QED
    BY <1>1, <2>1, <2>2 DEF Told
<1>16. c = e.card /\ ~About(t, c)' => Last(t, c, e)
  <2>1. SUFFICES ASSUME c = e.card, ~About(t, c)' PROVE Last(t, c, e)
    OBVIOUS
  <2>2. ASSUME NEW j \in 1..n, j > 1 PROVE inbox[t][j].card # c
    <3>1. j - 1 \in 1..(n - 1) /\ inbox'[t][j - 1] = inbox[t][j]
      BY <1>1, <1>2, <2>2
    <3>2. QED
      BY <1>1, <2>1, <3>1 DEF About
  <2>3. QED
    BY <1>1, <1>4, <2>1, <2>2 DEF Last
<1>17. c = e.card /\ About(t, c)' => ~Single(t, c)
  BY <1>1, <1>3, <1>4 DEF About, Single
<1>18. c = e.card /\ e.kind = "add" /\ Buried(t, c) => Told(t, c, "delete")'
  <2>1. SUFFICES ASSUME c = e.card, e.kind = "add", Buried(t, c) PROVE Told(t, c, "delete")'
    OBVIOUS
  <2>2. 1 \in DOMAIN inbox[t] /\ inbox[t][1].card = c /\ inbox[t][1].kind = "add"
    BY <1>1, <1>4, <2>1
  <2>3. PICK j \in 1..n : j > 1 /\ inbox[t][j].card = c /\ inbox[t][j].kind = "delete"
    BY <1>1, <2>1, <2>2 DEF Buried
  <2>4. j - 1 \in 1..(n - 1) /\ inbox'[t][j - 1] = inbox[t][j]
    BY <1>1, <1>2, <2>3
  <2>5. QED
    BY <1>1, <2>3, <2>4 DEF Told
<1>19. ASSUME c # e.card
       PROVE /\ \A f : Last(t, c, f) => Last(t, c, f)'
             /\ Single(t, c)' => Single(t, c)
             /\ Buried(t, c)' => Buried(t, c)
  <2>1. \A i \in 1..n : inbox[t][i].card = c => i # 1
    BY <1>19
  <2>2. ASSUME NEW f, Last(t, c, f) PROVE Last(t, c, f)'
    <3>1. PICK i \in 1..n : /\ inbox[t][i] = f /\ f.card = c
                            /\ \A j \in 1..n : j > i => inbox[t][j].card # c
      BY <1>1, <2>2 DEF Last
    <3>2. i - 1 \in 1..(n - 1) /\ inbox'[t][i - 1] = f
      BY <1>2, <2>1, <3>1
    <3>3. ASSUME NEW j \in 1..(n - 1), j > i - 1 PROVE inbox'[t][j].card # c
      <4>1. j + 1 \in 1..n /\ j + 1 > i
        BY <1>1, <3>1, <3>3
      <4>2. QED
        BY <1>1, <3>1, <4>1
    <3>4. QED
      BY <1>1, <3>1, <3>2, <3>3 DEF Last
  <2>3. ASSUME Single(t, c)', NEW i \in 1..n, NEW j \in 1..n,
               inbox[t][i].card = c, inbox[t][j].card = c
        PROVE i = j
    <3>1. /\ i - 1 \in 1..(n - 1) /\ inbox'[t][i - 1] = inbox[t][i]
          /\ j - 1 \in 1..(n - 1) /\ inbox'[t][j - 1] = inbox[t][j]
      BY <1>2, <2>1, <2>3
    <3>2. i - 1 = j - 1
      BY <1>1, <2>3, <3>1 DEF Single
    <3>3. QED
      BY <1>1, <3>2
  <2>4. ASSUME Buried(t, c)', NEW i \in 1..n, inbox[t][i].card = c, inbox[t][i].kind = "add"
        PROVE \E j \in 1..n : j > i /\ inbox[t][j].card = c /\ inbox[t][j].kind = "delete"
    <3>1. i - 1 \in 1..(n - 1) /\ inbox'[t][i - 1] = inbox[t][i]
      BY <1>2, <2>1, <2>4
    <3>2. PICK j \in 1..(n - 1) : /\ j > i - 1 /\ inbox'[t][j].card = c
                                  /\ inbox'[t][j].kind = "delete"
      BY <1>1, <2>4, <3>1 DEF Buried
    <3>3. j + 1 \in 1..n /\ j + 1 > i /\ inbox'[t][j] = inbox[t][j + 1]
      BY <1>1, <3>2
    <3>4. QED
      BY <3>2, <3>3
  <2>5. QED
    BY <1>1, <2>2, <2>3, <2>4 DEF Single, Buried
<1>20. QED
  BY <1>19, <1>7, <1>8, <1>9, <1>10, <1>11, <1>12, <1>13, <1>14, <1>15, <1>16, <1>17, <1>18

-----------------------------------------------------------------------------
(* Births *)

\* The fields of an open request.
LEMMA RequestCards ==
  ASSUME TypeOK, NEW r \in Reqs, Open(r)
  PROVE /\ reqs[r].card \in Cards /\ reqs[r].tab \in Tabs \cup {Nobody} /\ reqs[r].to \in Places
        /\ reqs[r].pc \in PCs /\ reqs[r].touched \in SUBSET Cards
        /\ reqs[r].op \in {"move", "add", "delete", "toggle", "complete"}
BY OpenIsRequest DEF Requests

\* A request of anything but an addition names a card that was inserted.
LEMMA PageBirths ==
  ASSUME TypeOK, Whole, Births, NEW t \in Tabs, NEW r \in Reqs,
         handleDragEnd(t, r) \/ handleDeleteCard(t, r)
  PROVE Births'
<1>1. /\ UNCHANGED <<server, live, inbox, stale>>
      /\ \E c \in Cards, op \in {"move", "delete"} :
           /\ lists[t][c] # Nowhere /\ StoreAt(t, c) /\ Requesting(r, op, t, c)
  BY DragEffect, DeleteEffect
<1>2. PICK c \in Cards, op \in {"move", "delete"} :
           lists[t][c] # Nowhere /\ StoreAt(t, c) /\ Requesting(r, op, t, c)
  BY <1>1
<1>3. c \in used
  BY <1>2 DEF Births, UnusedCards
<1>4. \A u \in Tabs, d \in Cards : /\ About(u, d)' <=> About(u, d)
                                   /\ \A k : Told(u, d, k)' <=> Told(u, d, k)
                                   /\ \A p : AddedAt(u, d, p)' <=> AddedAt(u, d, p)
  BY <1>1, SameWords
<1>5. UnusedCards'
  <2>1. SUFFICES ASSUME NEW d \in Cards \ used
                 PROVE /\ d \in Fresh /\ rows'[d] = Gone
                       /\ \A u \in Tabs : lists'[u][d] = Nowhere /\ ~About(u, d)'
                       /\ \A s \in Reqs : Open(s)' =>
                            /\ reqs'[s].card = d => /\ reqs'[s].op = "add"
                                                   /\ reqs'[s].pc \in {"sent", "found", "refused"}
                            /\ reqs'[s].tab # Nobody => reqs'[s].snapshot[d] = Nowhere
    BY <1>1 DEF UnusedCards, server
  <2>2. /\ d \in Fresh /\ rows'[d] = Gone /\ d # c
        /\ \A u \in Tabs : lists[u][d] = Nowhere /\ ~About(u, d)
    BY <1>1, <1>3 DEF Births, UnusedCards, server
  <2>3. \A u \in Tabs : lists'[u][d] = Nowhere /\ ~About(u, d)'
    BY <1>2, <1>4, <2>2 DEF StoreAt
  <2>4. ASSUME NEW s \in Reqs, Open(s)'
        PROVE /\ reqs'[s].card = d => /\ reqs'[s].op = "add"
                                      /\ reqs'[s].pc \in {"sent", "found", "refused"}
              /\ reqs'[s].tab # Nobody => reqs'[s].snapshot[d] = Nowhere
    <3>1. CASE s = r
      BY <1>2, <2>2, <3>1, Plain DEF Requesting
    <3>2. CASE s # r
      BY <1>2, <2>4, <3>2 DEF Births, UnusedCards, Requesting
    <3>3. QED
      BY <3>1, <3>2
  <2>5. QED
    BY <2>2, <2>3, <2>4
<1>6. AddRequests'
  BY <1>1, <1>2, <1>3, <1>4 DEF Births, AddRequests, Adding, Requesting, server
<1>7. QED
  BY <1>4, <1>5, <1>6 DEF Births, AddEvents

\* A new addition takes an id that no other request names.
LEMMA AddBirths ==
  ASSUME TypeOK, Whole, Births, NEW t \in Tabs, NEW r \in Reqs, handleAddCard(t, r)
  PROVE Births'
<1>1. UNCHANGED <<server, live, inbox, store, stale>>
  BY AddEffect
<1>2. PICK c \in Cards \ used : /\ Requesting(r, "add", t, c)
                                /\ \A s \in Reqs : Open(s) => reqs[s].card # c
  BY AddEffect
<1>4. \A u \in Tabs, d \in Cards : /\ About(u, d)' <=> About(u, d)
                                   /\ \A k : Told(u, d, k)' <=> Told(u, d, k)
                                   /\ \A p : AddedAt(u, d, p)' <=> AddedAt(u, d, p)
  BY <1>1, SameWords
<1>5. UnusedCards'
  BY <1>1, <1>2, <1>4, Plain DEF Births, UnusedCards, Requesting, server, store
<1>6. AddRequests'
  BY <1>1, <1>2, <1>4 DEF Births, UnusedCards, AddRequests, Adding, Requesting, server
<1>7. QED
  BY <1>4, <1>5, <1>6 DEF Births, AddEvents

\* So do requests from outside the board pages: they name cards with a row.
LEMMA OutsideBirths ==
  ASSUME TypeOK, Whole, Births, NEW r \in Reqs, toggleDone(r) \/ completeMyTask(r)
  PROVE Births'
<1>1. UNCHANGED <<server, live, inbox, store, stale>>
  BY OutsideEffect
<1>2. PICK c \in Cards, op \in {"toggle", "complete"} :
             rows[c] # Gone /\ Requesting(r, op, Nobody, c)
  BY OutsideEffect
<1>3. c \in used
  BY <1>2 DEF Births, UnusedCards
<1>4. \A u \in Tabs, d \in Cards : /\ About(u, d)' <=> About(u, d)
                                   /\ \A k : Told(u, d, k)' <=> Told(u, d, k)
                                   /\ \A p : AddedAt(u, d, p)' <=> AddedAt(u, d, p)
  BY <1>1, SameWords
<1>5. UnusedCards'
  BY <1>1, <1>2, <1>3, <1>4, Plain DEF Births, UnusedCards, Requesting, server, store
<1>6. AddRequests'
  BY <1>1, <1>2, <1>3, <1>4 DEF Births, AddRequests, Adding, Requesting, server
<1>7. QED
  BY <1>4, <1>5, <1>6 DEF Births, AddEvents

\* Handlers before and after the write.
LEMMA HandlerBirths ==
  ASSUME TypeOK, Whole, Births, NEW r \in Reqs, cardContext(r) \/ Refuse(r) \/ GetCard(r)
  PROVE Births'
<1>1. /\ UNCHANGED <<server, live, inbox, store, stale>>
      /\ \E x \in {"found", "refused", "reread"} :
           /\ Advances(r, x)
           /\ x = "found" => reqs[r].pc = "sent"
           /\ x = "reread" => reqs[r].op = "complete"
  BY LookupEffect, RefuseEffect, RereadEffect
<1>2. PICK x \in {"found", "refused", "reread"} :
           /\ Advances(r, x)
           /\ x = "found" => reqs[r].pc = "sent"
           /\ x = "reread" => reqs[r].op = "complete"
  BY <1>1
<1>3. reqs'[r].pc = x /\ Open(r) /\ reqs[r].card \in Cards
  BY <1>2, RequestCards DEF Advances
<1>4. \A u \in Tabs, d \in Cards : /\ About(u, d)' <=> About(u, d)
                                   /\ \A k : Told(u, d, k)' <=> Told(u, d, k)
                                   /\ \A p : AddedAt(u, d, p)' <=> AddedAt(u, d, p)
  BY <1>1, SameWords
<1>5. UnusedCards'
  BY <1>1, <1>2, <1>3, <1>4 DEF Births, UnusedCards, Advances, SameButPc, server, store
<1>6. AddRequests'
  <2>1. \A s \in Reqs : /\ Open(s)' <=> Open(s)
                        /\ Open(s) => reqs'[s].op = reqs[s].op /\ reqs'[s].card = reqs[s].card
                        /\ s # r => reqs'[s] = reqs[s]
    BY <1>2 DEF Advances, SameButPc
  <2>2. \A s \in Reqs, c \in Cards : Adding(s, c)' <=> Adding(s, c)
    BY <2>1 DEF Adding
  <2>3. ASSUME NEW s \in Reqs, NEW c \in Cards, Adding(s, c)
        PROVE /\ c \in Fresh
              /\ \A p \in Reqs : Adding(p, c) => p = s
              /\ reqs'[s].pc \in {"sent", "found"} =>
                   c \notin used /\ \A p \in Reqs : Open(p) /\ reqs[p].card = c => p = s
              /\ reqs'[s].pc = "written" => \A t \in Tabs : ~Told(t, c, "add")
              /\ reqs'[s].pc = "told" => reqs'[s] = reqs[s]
    <3>1. CASE s = r
      <4>1. x \in {"found", "refused"} /\ (x = "found" => reqs[r].pc = "sent")
        BY <1>2, <2>3, <3>1 DEF Adding
      <4>2. QED
        BY <1>3, <2>3, <3>1, <4>1 DEF Births, AddRequests
    <3>2. CASE s # r
      BY <2>1, <2>3, <3>2 DEF Births, AddRequests
    <3>3. QED
      BY <3>1, <3>2
  <2>4. QED
    BY <1>1, <1>4, <2>1, <2>2, <2>3 DEF Births, AddRequests, server
<1>7. QED
  BY <1>4, <1>5, <1>6 DEF Births, AddEvents

\* The insert uses its id up; every other write finds an id used.
LEMMA WriteBirths ==
  ASSUME TypeOK, Whole, Births, NEW r \in Reqs, Write(r)
  PROVE Births'
<1> DEFINE c == reqs[r].card
<1>1. /\ UNCHANGED <<live, inbox, store, stale>>
      /\ reqs[r].pc = "found" /\ Advances(r, "written")
      /\ c \in Cards /\ used' = used \cup {c}
      /\ \A d \in Cards : d # c => rows'[d] = rows[d]
  BY WriteEffect
<1> HIDE DEF c
<1>2. /\ reqs'[r].pc = "written" /\ Open(r) /\ reqs[r].card = c
      /\ \A s \in Reqs : /\ Open(s)' <=> Open(s)
                         /\ Open(s) => /\ reqs'[s].op = reqs[s].op /\ reqs'[s].card = reqs[s].card
                                       /\ reqs'[s].tab = reqs[s].tab
                                       /\ reqs'[s].snapshot = reqs[s].snapshot
                         /\ s # r => reqs'[s] = reqs[s]
  BY <1>1 DEF Advances, SameButPc, c
<1>3. \A u \in Tabs, d \in Cards : /\ About(u, d)' <=> About(u, d)
                                   /\ \A k : Told(u, d, k)' <=> Told(u, d, k)
                                   /\ \A p : AddedAt(u, d, p)' <=> AddedAt(u, d, p)
  BY <1>1, SameWords
<1>4. \A s \in Reqs, d \in Cards : Adding(s, d)' <=> Adding(s, d)
  BY <1>2 DEF Adding
<1>5. UnusedCards'
  BY <1>1, <1>2, <1>3 DEF Births, UnusedCards, store
<1>6. AddRequests'
  <2>1. ASSUME NEW s \in Reqs, NEW d \in Cards, Adding(s, d)
        PROVE /\ d \in Fresh
              /\ \A p \in Reqs : Adding(p, d) => p = s
              /\ reqs'[s].pc \in {"sent", "found"} =>
                   d \notin used' /\ \A p \in Reqs : Open(p) /\ reqs[p].card = d => p = s
              /\ reqs'[s].pc = "written" => \A t \in Tabs : ~Told(t, d, "add")
              /\ reqs'[s].pc = "told" => reqs'[s] = reqs[s]
    <3>1. CASE s = r
      <4>1. d = c /\ d \notin used
        BY <1>1, <1>2, <2>1, <3>1 DEF Births, AddRequests, Adding
      <4>2. \A t \in Tabs : ~About(t, d)
        BY <4>1 DEF Births, UnusedCards
      <4>3. QED
        BY <1>1, <1>2, <2>1, <3>1, <4>2, ToldIsAbout DEF Births, AddRequests
    <3>2. CASE s # r
      <4>1. reqs'[s].pc \in {"sent", "found"} => d # c
        BY <1>2, <2>1, <3>2 DEF Births, AddRequests
      <4>2. QED
        BY <1>1, <1>2, <2>1, <3>2, <4>1 DEF Births, AddRequests
    <3>3. QED
      BY <3>1, <3>2
  <2>2. QED
    BY <1>2, <1>3, <1>4, <2>1 DEF Births, AddRequests
<1>7. QED
  BY <1>3, <1>5, <1>6 DEF Births, AddEvents

\* The addition is broadcast once, with the placement of the request.
LEMMA EmitBirths ==
  ASSUME TypeOK, Whole, Births, NEW r \in Reqs, emit(r)
  PROVE Births'
<1>1. PICK c \in Cards, e \in Events :
        /\ UNCHANGED <<server, live, store>>
        /\ reqs[r].pc = (IF reqs[r].op = "complete" THEN "reread" ELSE "written")
        /\ reqs[r].card = c /\ Advances(r, "told") /\ reqs'[r].to = reqs[r].to
        /\ e = Event(reqs[r]) /\ e.card = c
        /\ Sends(r)
  BY EmitEffect
<1>2. /\ reqs[r].op = "add" => e.to = reqs[r].to
      /\ e.kind = "add" => reqs[r].op = "add"
  BY <1>1 DEF Event, Kind
<1>3. \A t \in Tabs : inbox'[t] = inbox[t] \/ inbox'[t] = Append(inbox[t], e)
  BY <1>1 DEF Sends
<1>4. /\ reqs'[r].pc = "told" /\ Open(r) /\ reqs[r].card = c
      /\ \A s \in Reqs : /\ Open(s)' <=> Open(s)
                         /\ Open(s) => /\ reqs'[s].op = reqs[s].op /\ reqs'[s].card = reqs[s].card
                                       /\ reqs'[s].tab = reqs[s].tab
                                       /\ reqs'[s].snapshot = reqs[s].snapshot
                         /\ s # r => reqs'[s] = reqs[s]
  BY <1>1 DEF Advances, SameButPc
<1>5. c \in used
  BY <1>1, <1>4 DEF Births, UnusedCards
<1>6. \A t \in Tabs, d \in Cards :
        /\ About(t, d)' => About(t, d) \/ d = c
        /\ Told(t, d, "add")' => Told(t, d, "add") \/ Adding(r, d)
        /\ ~Adding(r, d) => \A p : AddedAt(t, d, p) => AddedAt(t, d, p)'
        /\ Adding(r, d) /\ ~Told(t, d, "add") => AddedAt(t, d, e.to)'
  <2>1. TAKE t \in Tabs, d \in Cards
  <2>2. CASE inbox'[t] = inbox[t]
    <3>1. ~Told(t, d, "add") => AddedAt(t, d, e.to)
      BY DEF Told, AddedAt
    <3>2. QED
      BY <2>2, <3>1, SameWords
  <2>3. CASE inbox'[t] = Append(inbox[t], e)
    <3>1. /\ About(t, d)' => About(t, d) \/ d = c
          /\ Told(t, d, "add")' => Told(t, d, "add") \/ (d = c /\ e.kind = "add")
          /\ d # c \/ e.kind # "add" => \A p : AddedAt(t, d, p) => AddedAt(t, d, p)'
          /\ d = c /\ ~Told(t, d, "add") => AddedAt(t, d, e.to)'
      BY <1>1, <2>3, NewWord
    <3>2. Adding(r, d) <=> d = c /\ reqs[r].op = "add"
      BY <1>4 DEF Adding
    <3>3. QED
      BY <1>2, <3>1, <3>2
  <2>4. QED
    BY <1>3, <2>2, <2>3
<1>7. \A s \in Reqs, d \in Cards : Adding(s, d)' <=> Adding(s, d)
  BY <1>4 DEF Adding
<1>8. UnusedCards'
  BY <1>1, <1>4, <1>5, <1>6 DEF Births, UnusedCards, store, server
<1>9. AddRequests'
  <2>1. ASSUME NEW s \in Reqs, NEW d \in Cards, Adding(s, d)
        PROVE /\ d \in Fresh
              /\ \A p \in Reqs : Adding(p, d) => p = s
              /\ reqs'[s].pc \in {"sent", "found"} =>
                   d \notin used /\ \A p \in Reqs : Open(p) /\ reqs[p].card = d => p = s
              /\ reqs'[s].pc = "written" => \A t \in Tabs : ~Told(t, d, "add")'
              /\ reqs'[s].pc = "told" =>
                   \A t \in Tabs, p \in Places : p = reqs'[s].to => AddedAt(t, d, p)'
    <3>1. CASE s = r
      <4>1. reqs[r].pc = "written" /\ reqs[r].op = "add"
        BY <1>1, <2>1, <3>1 DEF Adding
      <4>2. \A t \in Tabs : ~Told(t, d, "add")
        BY <2>1, <3>1, <4>1 DEF Births, AddRequests
      <4>3. \A t \in Tabs : AddedAt(t, d, e.to)'
        BY <1>6, <2>1, <3>1, <4>2
      <4>4. QED
        BY <1>1, <1>2, <1>4, <2>1, <3>1, <4>1, <4>3 DEF Births, AddRequests
    <3>2. CASE s # r
      <4>1. ~Adding(r, d)
        BY <2>1, <3>2 DEF Births, AddRequests
      <4>2. QED
        BY <1>4, <1>6, <2>1, <3>2, <4>1 DEF Births, AddRequests
    <3>3. QED
      BY <3>1, <3>2
  <2>2. QED
    BY <1>1, <1>4, <1>7, <2>1 DEF Births, AddRequests, server
<1>10. AddEvents'
  BY <1>6 DEF Births, AddEvents, AddRequests
<1>11. QED
  BY <1>8, <1>9, <1>10 DEF Births

\* Requests that end or lose their page, and pages that put a snapshot back.
LEMMA AnswerBirths ==
  ASSUME TypeOK, Whole, Births, NEW r \in Reqs, Succeed(r) \/ Fail(r) \/ Cut(r)
  PROVE Births'
<1>1. /\ UNCHANGED <<server, live, inbox>> /\ (Ends(r) \/ Leaves(r))
      /\ \/ UNCHANGED <<store, stale>>
         \/ Reverts(r)
         \/ \E t \in Tabs, c \in Cards : /\ reqs[r].pc = "told" /\ reqs[r].card = c
                                         /\ StoreAt(t, c)
  BY SucceedEffect, FailEffect, CutEffect
<1>2. Open(r) /\ reqs[r].card \in Cards
  BY <1>1, RequestCards DEF Ends, Leaves
<1>3. \A u \in Tabs, d \in Cards : /\ About(u, d)' <=> About(u, d)
                                   /\ \A k : Told(u, d, k)' <=> Told(u, d, k)
                                   /\ \A p : AddedAt(u, d, p)' <=> AddedAt(u, d, p)
  BY <1>1, SameWords
<1>4. \A s \in Reqs, d \in Cards :
        /\ Open(s)' => Open(s) /\ reqs'[s].card = reqs[s].card /\ reqs'[s].op = reqs[s].op
                       /\ reqs'[s].pc = reqs[s].pc /\ reqs'[s].to = reqs[s].to
                       /\ (reqs'[s].tab # Nobody => reqs'[s] = reqs[s])
        /\ Adding(s, d)' => Adding(s, d) /\ reqs'[s].pc = reqs[s].pc /\ reqs'[s].to = reqs[s].to
  BY <1>1 DEF Ends, Leaves, Others, Adding
<1>5. \A u \in Tabs, d \in Cards \ used : lists'[u][d] = Nowhere
  <2>1. \A u \in Tabs, d \in Cards \ used : lists[u][d] = Nowhere
    BY DEF Births, UnusedCards
  <2>2. CASE UNCHANGED <<store, stale>>
    BY <2>1, <2>2 DEF store
  <2>3. CASE Reverts(r)
    <3>1. \A d \in Cards \ used : reqs[r].snapshot[d] = Nowhere
      BY <1>2, <2>3, Plain DEF Births, UnusedCards, Reverts
    <3>2. QED
      BY <2>1, <2>3, <3>1 DEF Reverts
  <2>4. CASE \E t \in Tabs, c \in Cards : /\ reqs[r].pc = "told" /\ reqs[r].card = c
                                         /\ StoreAt(t, c)
    BY <1>2, <2>1, <2>4 DEF Births, UnusedCards, StoreAt
  <2>5. QED
    BY <1>1, <2>2, <2>3, <2>4
<1>6. UnusedCards'
  BY <1>1, <1>3, <1>4, <1>5 DEF Births, UnusedCards, server
<1>7. AddRequests'
  <2>1. ASSUME NEW s \in Reqs, NEW d \in Cards, Adding(s, d)'
        PROVE /\ d \in Fresh
              /\ \A p \in Reqs : Adding(p, d)' => p = s
              /\ reqs'[s].pc \in {"sent", "found"} =>
                   d \notin used' /\ \A p \in Reqs : Open(p)' /\ reqs'[p].card = d => p = s
              /\ reqs'[s].pc = "written" => \A t \in Tabs : ~Told(t, d, "add")'
              /\ reqs'[s].pc = "told" =>
                   \A t \in Tabs, p \in Places : p = reqs'[s].to => AddedAt(t, d, p)'
    BY <1>1, <1>3, <1>4, <2>1 DEF Births, AddRequests, server
  <2>2. QED
    BY <2>1 DEF AddRequests
<1>8. QED
  BY <1>3, <1>6, <1>7 DEF Births, AddEvents

\* Inboxes only lose broadcasts, requests keep what they are about.
LEMMA LesserBirths ==
  ASSUME Births, UNCHANGED server,
         \A t \in Tabs, d \in Cards : /\ About(t, d)' => About(t, d)
                                      /\ Told(t, d, "add")' => Told(t, d, "add")
                                      /\ \A p : AddedAt(t, d, p) => AddedAt(t, d, p)',
         \A t \in Tabs, d \in Cards : lists[t][d] = Nowhere /\ ~About(t, d) /\ rows[d] = Gone
           => lists'[t][d] = Nowhere,
         \A s \in Reqs : /\ Open(s)' <=> Open(s)
                         /\ Open(s) => /\ reqs'[s].op = reqs[s].op /\ reqs'[s].card = reqs[s].card
                                       /\ reqs'[s].pc \in {reqs[s].pc, "refused"}
                                       /\ reqs'[s].pc # "refused" => reqs'[s].to = reqs[s].to
                                       /\ reqs'[s].tab # Nobody =>
                                            /\ reqs'[s].tab = reqs[s].tab
                                            /\ reqs'[s].snapshot = reqs[s].snapshot
  PROVE Births'
<1>1. \A s \in Reqs, d \in Cards : Adding(s, d)' <=> Adding(s, d)
  BY DEF Adding
<1>2. UnusedCards'
  BY DEF Births, UnusedCards, server
<1>3. AddRequests'
  <2>1. ASSUME NEW s \in Reqs, NEW d \in Cards, Adding(s, d)
        PROVE /\ d \in Fresh
              /\ \A p \in Reqs : Adding(p, d)' => p = s
              /\ reqs'[s].pc \in {"sent", "found"} =>
                   d \notin used' /\ \A p \in Reqs : Open(p)' /\ reqs'[p].card = d => p = s
              /\ reqs'[s].pc = "written" => \A t \in Tabs : ~Told(t, d, "add")'
              /\ reqs'[s].pc = "told" =>
                   \A t \in Tabs, p \in Places : p = reqs'[s].to => AddedAt(t, d, p)'
    <3>1. Open(s)
      BY <2>1 DEF Adding
    <3>2. QED
      BY <1>1, <2>1, <3>1 DEF Births, AddRequests, server
  <2>2. QED
    BY <1>1, <2>1 DEF AddRequests
<1>4. QED
  BY <1>2, <1>3 DEF Births, AddEvents

\* A page that hears of a card hears of a used one.
LEMMA HearBirths ==
  ASSUME TypeOK, Whole, Births, NEW t \in Tabs, applyWsMessage(t)
  PROVE Births'
<1>1. PICK e \in Events : UNCHANGED server /\ Takes(t, e) /\ Hears(t, e.card)
  BY HearEffect
<1>2. ASSUME NEW u \in Tabs, NEW d \in Cards
      PROVE /\ About(u, d)' => About(u, d)
            /\ Told(u, d, "add")' => Told(u, d, "add")
            /\ \A p : AddedAt(u, d, p) => AddedAt(u, d, p)'
  <2>1. CASE u = t
    BY <1>1, <2>1, WordTaken DEF Takes
  <2>2. CASE u # t
    BY <1>1, <2>2, SameWords DEF Takes
  <2>3. QED
    BY <2>1, <2>2
<1>3. e.card \in Cards /\ About(t, e.card)
  BY <1>1, WordTaken, ToldIsAbout DEF Takes, Events
<1>4. \A u \in Tabs, d \in Cards : lists[u][d] = Nowhere /\ ~About(u, d) => lists'[u][d] = Nowhere
  BY <1>1, <1>3 DEF Takes, StoreAt
<1>5. QED
  BY <1>1, <1>2, <1>4, LesserBirths DEF Hears

\* Sockets come and go.
LEMMA SocketBirths ==
  ASSUME TypeOK, Whole, Births, NEW t \in Tabs, Drop(t) \/ Connect(t)
  PROVE Births'
<1>1. /\ UNCHANGED <<server, reqs, store>>
      /\ \A u \in Tabs : inbox'[u] = inbox[u] \/ inbox'[u] = <<>>
  BY DropEffect, ConnectEffect
<1>2. ASSUME NEW u \in Tabs, NEW d \in Cards
      PROVE /\ About(u, d)' => About(u, d)
            /\ Told(u, d, "add")' => Told(u, d, "add")
            /\ \A p : AddedAt(u, d, p) => AddedAt(u, d, p)'
  BY <1>1, SameWords, NoWords
<1>3. \A s \in Reqs : Open(s)' <=> Open(s)
  BY <1>1 DEF Open
<1>4. UNCHANGED <<lists, reqs>> /\ UNCHANGED server
  BY <1>1 DEF store
<1>5. QED
  BY <1>2, <1>3, <1>4, LesserBirths

\* A page loads what the table has.
LEMMA LoadBirths ==
  ASSUME TypeOK, Whole, Births, NEW t \in Tabs, fetchAll(t)
  PROVE Births'
<1>1. /\ UNCHANGED server /\ Forsakes(t) /\ inbox'[t] = <<>>
      /\ \A c \in Cards : lists'[t][c] = rows[c].col
      /\ \A u \in Tabs \ {t} : inbox'[u] = inbox[u] /\ lists'[u] = lists[u]
  BY LoadEffect
<1>2. ASSUME NEW u \in Tabs, NEW d \in Cards
      PROVE /\ About(u, d)' => About(u, d)
            /\ Told(u, d, "add")' => Told(u, d, "add")
            /\ \A p : AddedAt(u, d, p) => AddedAt(u, d, p)'
  <2>1. CASE u = t
    BY <1>1, <2>1, NoWords
  <2>2. CASE u # t
    BY <1>1, <2>2, SameWords
  <2>3. QED
    BY <2>1, <2>2
<1>3. \A u \in Tabs, d \in Cards : lists[u][d] = Nowhere /\ rows[d] = Gone => lists'[u][d] = Nowhere
  BY <1>1, Plain
<1>4. \A s \in Reqs : /\ Open(s)' <=> Open(s)
                      /\ Open(s) => /\ reqs'[s].op = reqs[s].op /\ reqs'[s].card = reqs[s].card
                                    /\ reqs'[s].pc = reqs[s].pc /\ reqs'[s].to = reqs[s].to
                                    /\ reqs'[s].tab # Nobody =>
                                            /\ reqs'[s].tab = reqs[s].tab
                                            /\ reqs'[s].snapshot = reqs[s].snapshot
  BY <1>1 DEF Forsakes
<1>5. QED
  BY <1>1, <1>2, <1>3, <1>4, LesserBirths

\* The process stops and starts.
LEMMA RestartBirths ==
  ASSUME TypeOK, Whole, Births, Restart
  PROVE Births'
<1>1. UNCHANGED <<server, store>> /\ Dies /\ \A t \in Tabs : inbox'[t] = <<>>
  BY RestartEffect
<1>2. ASSUME NEW u \in Tabs, NEW d \in Cards
      PROVE /\ About(u, d)' => About(u, d)
            /\ Told(u, d, "add")' => Told(u, d, "add")
            /\ \A p : AddedAt(u, d, p) => AddedAt(u, d, p)'
  BY <1>1, NoWords
<1>3. \A s \in Reqs : /\ Open(s)' <=> Open(s)
                      /\ Open(s) => /\ reqs'[s].op = reqs[s].op /\ reqs'[s].card = reqs[s].card
                                    /\ reqs'[s].pc = "refused"
                                    /\ reqs'[s].tab = reqs[s].tab
                                    /\ reqs'[s].snapshot = reqs[s].snapshot
  BY <1>1 DEF Dies, SameButPc
<1>4. lists' = lists /\ UNCHANGED server
  BY <1>1 DEF store
<1>5. QED
  BY <1>2, <1>3, <1>4, LesserBirths

-----------------------------------------------------------------------------
(* Deaths and words *)

\* Steps that neither write nor announce.
Ordinary ==
  /\ UNCHANGED server
  /\ \A t \in Tabs, d \in Cards : /\ About(t, d)' => About(t, d)
                                  /\ \A k : Told(t, d, k)' => Told(t, d, k)
  /\ \A s \in Reqs : Open(s)' /\ reqs'[s].pc \in {"written", "reread", "told"} =>
       /\ Open(s) /\ reqs'[s].pc = reqs[s].pc /\ reqs'[s].op = reqs[s].op
       /\ reqs'[s].card = reqs[s].card /\ reqs'[s].to = reqs[s].to

\* The pages' requests are ordinary steps,
LEMMA PageOrdinary ==
  ASSUME TypeOK, Whole, NEW t \in Tabs, NEW r \in Reqs,
         handleDragEnd(t, r) \/ handleDeleteCard(t, r) \/ handleAddCard(t, r)
  PROVE Ordinary
<1>1. /\ UNCHANGED <<server, inbox>>
      /\ \E c \in Cards : \E op : Requesting(r, op, t, c)
  BY DragEffect, DeleteEffect, AddEffect
<1>2. QED
  BY <1>1, SameWords DEF Ordinary, Requesting

\* so are those from outside,
LEMMA OutsideOrdinary ==
  ASSUME TypeOK, Whole, NEW r \in Reqs, toggleDone(r) \/ completeMyTask(r)
  PROVE Ordinary
<1>1. /\ UNCHANGED <<server, inbox>>
      /\ \E c \in Cards : \E op : Requesting(r, op, Nobody, c)
  BY OutsideEffect
<1>2. QED
  BY <1>1, SameWords DEF Ordinary, Requesting

\* the lookups and refusals,
LEMMA HandlerOrdinary ==
  ASSUME TypeOK, Whole, NEW r \in Reqs, cardContext(r) \/ Refuse(r)
  PROVE Ordinary
<1>1. UNCHANGED <<server, inbox>> /\ \E x \in {"found", "refused"} : Advances(r, x)
  BY LookupEffect, RefuseEffect
<1>2. \A s \in Reqs : s # r => reqs'[s] = reqs[s]
  BY <1>1 DEF Advances
<1>3. reqs'[r].pc \in {"found", "refused"}
  BY <1>1 DEF Advances
<1>4. \A s \in Reqs : Open(s)' <=> Open(s)
  BY <1>1 DEF Advances, SameButPc
<1>5. QED
  BY <1>1, <1>2, <1>3, <1>4, SameWords DEF Ordinary

\* the answers,
LEMMA AnswerOrdinary ==
  ASSUME TypeOK, Whole, NEW r \in Reqs, Succeed(r) \/ Fail(r) \/ Cut(r)
  PROVE Ordinary
<1>1. UNCHANGED <<server, inbox>> /\ (Ends(r) \/ Leaves(r))
  BY SucceedEffect, FailEffect, CutEffect
<1>2. QED
  BY <1>1, SameWords DEF Ordinary, Ends, Leaves, Others

\* what a page hears,
LEMMA HearOrdinary ==
  ASSUME TypeOK, Whole, NEW t \in Tabs, applyWsMessage(t)
  PROVE Ordinary
<1>1. PICK e \in Events : UNCHANGED server /\ Takes(t, e) /\ Hears(t, e.card)
  BY HearEffect
<1>2. ASSUME NEW u \in Tabs, NEW d \in Cards
      PROVE About(u, d)' => About(u, d)
  <2>1. CASE u = t
    BY <1>1, <2>1, WordTaken DEF Takes
  <2>2. CASE u # t
    BY <1>1, <2>2, SameWords DEF Takes
  <2>3. QED
    BY <2>1, <2>2
<1>3. ASSUME NEW u \in Tabs, NEW d \in Cards, NEW k
      PROVE Told(u, d, k)' => Told(u, d, k)
  <2>1. CASE u = t
    BY <1>1, <2>1, WordTaken DEF Takes
  <2>2. CASE u # t
    BY <1>1, <2>2, SameWords DEF Takes
  <2>3. QED
    BY <2>1, <2>2
<1>4. QED
  BY <1>1, <1>2, <1>3 DEF Ordinary, Hears

\* what happens to its socket,
LEMMA SocketOrdinary ==
  ASSUME TypeOK, Whole, NEW t \in Tabs, Drop(t) \/ Connect(t)
  PROVE Ordinary
<1>1. UNCHANGED <<server, reqs>> /\ \A u \in Tabs : inbox'[u] = inbox[u] \/ inbox'[u] = <<>>
  BY DropEffect, ConnectEffect
<1>2. ASSUME NEW u \in Tabs, NEW d \in Cards
      PROVE (About(u, d)' => About(u, d)) /\ \A k : Told(u, d, k)' => Told(u, d, k)
  BY <1>1, SameWords, NoWords
<1>3. QED
  BY <1>1, <1>2 DEF Ordinary, Open

\* its loading
LEMMA LoadOrdinary ==
  ASSUME TypeOK, Whole, NEW t \in Tabs, fetchAll(t)
  PROVE Ordinary
<1>1. UNCHANGED server /\ Forsakes(t)
      /\ \A u \in Tabs : inbox'[u] = inbox[u] \/ inbox'[u] = <<>>
  BY LoadEffect
<1>2. ASSUME NEW u \in Tabs, NEW d \in Cards
      PROVE (About(u, d)' => About(u, d)) /\ \A k : Told(u, d, k)' => Told(u, d, k)
  BY <1>1, SameWords, NoWords
<1>3. QED
  BY <1>1, <1>2 DEF Ordinary, Forsakes

\* and the restart.
LEMMA RestartOrdinary ==
  ASSUME TypeOK, Whole, Restart
  PROVE Ordinary
<1>1. UNCHANGED server /\ Dies /\ \A u \in Tabs : inbox'[u] = <<>>
  BY RestartEffect
<1>2. ASSUME NEW u \in Tabs, NEW d \in Cards
      PROVE (About(u, d)' => About(u, d)) /\ \A k : Told(u, d, k)' => Told(u, d, k)
  BY <1>1, NoWords
<1>3. QED
  BY <1>1, <1>2 DEF Ordinary, Dies, SameButPc

\* Ordinary steps bring no row back.
LEMMA OrdinaryDeaths == Deaths /\ Ordinary => Deaths'
<1> SUFFICES ASSUME Deaths, Ordinary PROVE Deaths'
  OBVIOUS
<1>1. \A r \in Reqs, c \in Cards : Deletes(r, c)' => Deletes(r, c)
  BY DEF Deletes, Ordinary
<1>2. QED
  BY <1>1 DEF Deaths, Ordinary, server

\* Ordinary steps leave the unannounced writes as they are.
LEMMA OrdinaryWords == Words /\ Ordinary => Words'
<1> SUFFICES ASSUME Words, Ordinary PROVE Words'
  OBVIOUS
<1>1. \A r \in Reqs, c \in Cards : Unsaid(r, c)' => Unsaid(r, c) /\ reqs'[r].op = reqs[r].op
        /\ reqs'[r].to = reqs[r].to /\ reqs'[r].card = reqs[r].card /\ reqs'[r].pc = reqs[r].pc
  BY DEF Unsaid, Ordinary
<1>2. \A r \in Reqs, c \in Cards : Unsaid(r, c)' => \A p : Announces(r, p) => Announces(r, p)'
  BY <1>1 DEF Announces, Event
<1>3. QED
  BY <1>1, <1>2 DEF Words, Ordinary, server

\* Only an addition gives a card a row it did not have.
LEMMA WriteRows ==
  ASSUME TypeOK, Whole, Births, NEW r \in Reqs, Write(r), NEW c \in Cards, c = reqs[r].card
  PROVE /\ reqs[r].op = "add" => c \notin used /\ rows'[c] = reqs[r].to /\ rows'[c] # Gone
        /\ reqs[r].op # "add" => c \in used /\ (rows[c] = Gone => rows'[c] = Gone)
        /\ reqs[r].op = "delete" => rows'[c] = Gone
        /\ reqs[r].op # "delete" /\ rows'[c] = Gone => ~Settles(reqs[r])
        /\ reqs[r].op # "delete" /\ rows'[c] = Gone => rows[c] = Gone
<1>1. Open(r) /\ reqs[r].pc = "found" /\ rows'[c] = Written(reqs[r])
  BY WriteEffect DEF Advances
<1>2. reqs[r].op \in {"move", "add", "delete", "toggle", "complete"}
  BY <1>1, RequestCards
<1>3. reqs[r].op = "add" => c \notin used /\ rows'[c] = reqs[r].to /\ rows'[c] # Gone
  <2>1. reqs[r].op = "add" => reqs[r].to.col \in Columns /\ Adding(r, c)
    BY <1>1 DEF Whole, WholeReqs, Adding
  <2>2. QED
    BY <1>1, <2>1, Plain DEF Births, AddRequests, Written
<1>4. reqs[r].op # "add" => c \in used /\ (rows[c] = Gone => rows'[c] = Gone)
  <2>1. reqs[r].op # "add" => c \in used
    BY <1>1 DEF Births, UnusedCards
  <2>2. reqs[r].op # "add" /\ rows[c] = Gone => Written(reqs[r]) = Gone
    BY <1>2 DEF Written, UpdateCardColumn, CompleteCardAsAssignee
  <2>3. QED
    BY <1>1, <2>1, <2>2
<1>5. reqs[r].op = "delete" => rows'[c] = Gone
  BY <1>1 DEF Written
<1>6. reqs[r].op # "delete" /\ rows[c] # Gone => rows'[c] # Gone
  <2>1. SUFFICES ASSUME reqs[r].op # "delete", rows[c] # Gone PROVE Written(reqs[r]).col # Nowhere
    BY <1>1, Plain
  <2>2. reqs[r].to.col \in Columns /\ reqs[r].to \in Places
    BY <1>1, <2>1, RequestCards DEF Whole, WholeReqs
  <2>3. /\ [reqs[r].to EXCEPT !.done = reqs[r].to.col \in DoneCols].col = reqs[r].to.col
        /\ [reqs[r].to EXCEPT !.pos = rows[c].pos].col = reqs[r].to.col
    BY <2>2 DEF Places
  <2>4. Written(reqs[r]).col = reqs[r].to.col
    BY <1>2, <2>1, <2>3 DEF Written, UpdateCardColumn, CompleteCardAsAssignee
  <2>5. QED
    BY <2>2, <2>4, Plain
<1>7. QED
  BY <1>1, <1>3, <1>4, <1>5, <1>6 DEF Settles

\* A write after a deletion finds no row.
LEMMA WriteDeaths ==
  ASSUME TypeOK, Whole, Births, Deaths, NEW r \in Reqs, Write(r)
  PROVE Deaths'
<1>1. PICK c \in Cards : c = reqs[r].card
  BY WriteEffect
<1>2. /\ UNCHANGED inbox /\ Advances(r, "written")
      /\ \A d \in Cards : d # c => rows'[d] = rows[d]
  BY <1>1, WriteEffect
<1>3. /\ reqs[r].op # "add" => c \in used /\ (rows[c] = Gone => rows'[c] = Gone)
      /\ reqs[r].op = "delete" => rows'[c] = Gone
      /\ reqs[r].op = "add" => c \notin used
  BY <1>1, WriteRows
<1>4. \A d \in Cards : d \in used /\ rows[d] = Gone => rows'[d] = Gone
  BY <1>2, <1>3
<1>5. ASSUME NEW d \in Cards, NEW s \in Reqs, Deletes(s, d)' PROVE rows'[d] = Gone
  <2>1. CASE s = r
    BY <1>1, <1>2, <1>3, <1>5, <2>1 DEF Deletes, Advances, SameButPc
  <2>2. CASE s # r
    <3>1. Deletes(s, d)
      BY <1>2, <1>5, <2>2 DEF Deletes, Advances, SameButPc
    <3>2. d \in used
      BY <3>1 DEF Births, UnusedCards, Deletes
    <3>3. QED
      BY <1>4, <3>1, <3>2 DEF Deaths
  <2>3. QED
    BY <2>1, <2>2
<1>6. ASSUME NEW d \in Cards, NEW t \in Tabs, Told(t, d, "delete")' PROVE rows'[d] = Gone
  <2>1. Told(t, d, "delete")
    BY <1>2, <1>6, SameWords
  <2>2. d \in used
    BY <2>1, ToldIsAbout DEF Births, UnusedCards
  <2>3. QED
    BY <1>4, <2>1, <2>2 DEF Deaths
<1>7. QED
  BY <1>5, <1>6 DEF Deaths

\* Reading the row again brings none back.
LEMMA RereadDeaths ==
  ASSUME TypeOK, Whole, Deaths, NEW r \in Reqs, GetCard(r)
  PROVE Deaths'
<1>1. UNCHANGED <<server, inbox>> /\ reqs[r].op = "complete" /\ Advances(r, "reread")
  BY RereadEffect
<1>2. \A s \in Reqs, c \in Cards : Deletes(s, c)' => Deletes(s, c)
  BY <1>1 DEF Deletes, Advances, SameButPc
<1>3. QED
  BY <1>1, <1>2, SameWords DEF Deaths, server

\* The events of a step that announces: e, the event of request r, on live pages.
LEMMA Announcing ==
  ASSUME TypeOK, Whole, NEW r \in Reqs, emit(r)
  PROVE \E c \in Cards, e \in Events :
          /\ UNCHANGED <<server, live, store>>
          /\ Open(r) /\ reqs[r].pc = IF reqs[r].op = "complete" THEN "reread" ELSE "written"
          /\ reqs[r].card = c /\ Unsaid(r, c) /\ Advances(r, "told")
          /\ e = Event(reqs[r]) /\ e.card = c
          /\ e.kind = "add" <=> reqs[r].op = "add"
          /\ e.kind = "delete" <=> reqs[r].op = "delete"
          /\ \A t \in Tabs :
               \/ t \in live /\ inbox'[t] = Append(inbox[t], e) /\ stale'[t] = stale[t]
               \/ /\ t \notin live /\ inbox'[t] = inbox[t] /\ inbox[t] = <<>>
                  /\ stale'[t] = stale[t] \cup {c}
<1>1. PICK c \in Cards, e \in Events :
        /\ UNCHANGED <<server, live, store>>
        /\ reqs[r].pc = IF reqs[r].op = "complete" THEN "reread" ELSE "written"
        /\ reqs[r].card = c /\ Advances(r, "told")
        /\ e = Event(reqs[r]) /\ e.card = c
        /\ Sends(r)
  BY EmitEffect
<1>2. Open(r) /\ Unsaid(r, c)
  BY <1>1 DEF Advances, Unsaid
<1>3. reqs[r].op \in {"move", "add", "delete", "toggle", "complete"}
  BY <1>2, RequestCards
<1>4. (e.kind = "add" <=> reqs[r].op = "add") /\ (e.kind = "delete" <=> reqs[r].op = "delete")
  BY <1>1, <1>3 DEF Event, Kind
<1>5. \A t \in Tabs :
               \/ t \in live /\ inbox'[t] = Append(inbox[t], e) /\ stale'[t] = stale[t]
               \/ /\ t \notin live /\ inbox'[t] = inbox[t] /\ inbox[t] = <<>>
                  /\ stale'[t] = stale[t] \cup {c}
  BY <1>1 DEF Sends, Whole, WholeInbox
<1>6. QED
  BY <1>1, <1>2, <1>4, <1>5

\* The deletion is announced when the row is gone.
LEMMA EmitDeaths ==
  ASSUME TypeOK, Whole, Deaths, NEW r \in Reqs, emit(r)
  PROVE Deaths'
<1>1. PICK c \in Cards, e \in Events :
          /\ UNCHANGED <<server, live, store>>
          /\ Open(r) /\ reqs[r].pc = IF reqs[r].op = "complete" THEN "reread" ELSE "written"
          /\ reqs[r].card = c /\ Unsaid(r, c) /\ Advances(r, "told")
          /\ e.card = c
          /\ e.kind = "delete" <=> reqs[r].op = "delete"
          /\ \A t \in Tabs : inbox'[t] = Append(inbox[t], e) \/ inbox'[t] = inbox[t]
  BY Announcing
<1>2. \A s \in Reqs, d \in Cards : Deletes(s, d)' => Deletes(s, d)
  BY <1>1 DEF Deletes, Advances, SameButPc
<1>3. e.kind = "delete" => Deletes(r, c)
  BY <1>1 DEF Deletes
<1>4. ASSUME NEW t \in Tabs, NEW d \in Cards, Told(t, d, "delete")'
      PROVE Told(t, d, "delete") \/ (d = c /\ e.kind = "delete")
  BY <1>1, <1>4, NewWord, SameWords
<1>5. QED
  BY <1>1, <1>2, <1>3, <1>4 DEF Deaths, server

\* A write that races with none is the only one to announce, and announces the row.
LEMMA WriteWords ==
  ASSUME TypeOK, Whole, Births, Words, NEW r \in Reqs, Write(r)
  PROVE Words'
<1>1. PICK c \in Cards : c = reqs[r].card
  BY WriteEffect
<1>2. /\ UNCHANGED inbox /\ Advances(r, "written") /\ Open(r)
      /\ reqs'[r].to = reqs[r].to /\ reqs'[r].op = reqs[r].op /\ reqs'[r].pc = "written"
      /\ rows'[c] = Written(reqs[r]) /\ rows'[c] \in Places
      /\ \A d \in Cards : d # c => rows'[d] = rows[d] /\ (d \in raced' <=> d \in raced)
      /\ c \notin raced' => ~Unannounced(c)
  <2>1. /\ UNCHANGED inbox /\ Advances(r, "written") /\ reqs'[r].to = reqs[r].to
        /\ rows'[c] = Written(reqs[r]) /\ TypeOK'
        /\ \A d \in Cards : d # c => rows'[d] = rows[d]
        /\ raced' = IF Unannounced(c) THEN raced \cup {c}
                    ELSE IF Settles(reqs[r]) THEN raced \ {c} ELSE raced
    BY <1>1, WriteEffect
  <2>2. Open(r) /\ reqs'[r].op = reqs[r].op /\ reqs'[r].pc = "written"
    BY <2>1 DEF Advances, SameButPc
  <2>3. rows'[c] \in Places
    BY <2>1 DEF TypeOK
  <2>4. (\A d \in Cards : d # c => (d \in raced' <=> d \in raced))
        /\ (c \notin raced' => ~Unannounced(c))
    BY <2>1
  <2>5. QED
    BY <2>1, <2>2, <2>3, <2>4
<1>3. \A s \in Reqs \ {r} : reqs'[s] = reqs[s]
  BY <1>2 DEF Advances
<1>4. \A s \in Reqs \ {r}, d \in Cards : Unsaid(s, d)' <=> Unsaid(s, d)
  BY <1>2, AdvanceSays
<1>5. \A d \in Cards : Unsaid(r, d)' <=> d = c
  BY <1>1, <1>2, AdvanceSays
<1>6. \A t \in Tabs, d \in Cards : About(t, d)' <=> About(t, d)
  BY <1>2, SameWords
<1>7. ASSUME NEW d \in Cards, d # c, d \notin raced, NEW s \in Reqs, Unsaid(s, d)'
      PROVE /\ \A p \in Reqs : Unsaid(p, d)' => p = s
            /\ reqs'[s].op = "add" => rows'[d] # Gone /\ \A t \in Tabs : ~About(t, d)'
            /\ rows'[d] # Gone => \A p \in Places : p = rows'[d] => Announces(s, p)'
  <2>1. s # r /\ Unsaid(s, d) /\ reqs'[s] = reqs[s] /\ rows'[d] = rows[d]
    BY <1>2, <1>3, <1>4, <1>5, <1>7
  <2>2. \A p : Announces(s, p)' <=> Announces(s, p)
    BY <2>1 DEF Announces
  <2>3. QED
    BY <1>4, <1>5, <1>6, <1>7, <2>1, <2>2 DEF Words
<1>8. ASSUME c \notin raced', NEW s \in Reqs, Unsaid(s, c)'
      PROVE /\ \A p \in Reqs : Unsaid(p, c)' => p = s
            /\ reqs'[s].op = "add" => rows'[c] # Gone /\ \A t \in Tabs : ~About(t, c)'
            /\ rows'[c] # Gone => \A p \in Places : p = rows'[c] => Announces(s, p)'
  <2>1. \A p \in Reqs : Unsaid(p, c)' => p = r
    BY <1>2, <1>4, <1>8, UnannouncedIs
  <2>2. s = r
    BY <1>8, <2>1
  <2>3. reqs[r].op = "add" => rows'[c] # Gone /\ \A t \in Tabs : ~About(t, c)'
    <3>1. reqs[r].op = "add" => rows'[c] # Gone /\ c \notin used
      BY <1>1, WriteRows
    <3>2. QED
      BY <1>6, <3>1 DEF Births, UnusedCards
  <2>4. rows'[c] # Gone => \A p \in Places : p = rows'[c] => Announces(r, p)'
    <3>1. SUFFICES ASSUME rows'[c] # Gone, NEW p \in Places, p = rows'[c]
                   PROVE Announces(r, p)'
      OBVIOUS
    <3>2. reqs[r].op \in {"move", "add", "delete", "toggle", "complete"} /\ reqs[r].to \in Places
      BY <1>2, RequestCards
    <3>3. CASE reqs[r].op = "complete"
      <4>1. p = [reqs[r].to EXCEPT !.pos = rows[reqs[r].card].pos]
        BY <1>2, <3>1, <3>3 DEF Written, UpdateCardColumn, CompleteCardAsAssignee
      <4>2. reqs[r].to.done = TRUE
        BY <1>2, <3>3 DEF Whole, WholeReqs
      <4>3. p.done = TRUE
        BY <3>2, <4>1, <4>2 DEF Places
      <4>4. QED
        BY <1>2, <3>3, <4>3 DEF Announces
    <3>4. CASE reqs[r].op # "complete"
      <4>1. p = Event(reqs[r]).to
        BY <1>2, <3>1, <3>2, <3>4 DEF Written, UpdateCardColumn, Event
      <4>2. Event(reqs[r])'.to = Event(reqs[r]).to
        BY <1>2 DEF Event
      <4>3. QED
        BY <1>2, <3>4, <4>1, <4>2 DEF Announces
    <3>5. QED
      BY <3>3, <3>4
  <2>5. QED
    BY <1>2, <2>1, <2>2, <2>3, <2>4
<1>9. QED
  BY <1>2, <1>7, <1>8 DEF Words

\* What is read again is what was written, unless writes raced.
LEMMA RereadWords ==
  ASSUME TypeOK, Whole, Words, NEW r \in Reqs, GetCard(r)
  PROVE Words'
<1>1. PICK c \in Cards :
        /\ UNCHANGED <<server, inbox>> /\ Advances(r, "reread") /\ reqs[r].pc = "written"
        /\ reqs[r].op = "complete" /\ reqs[r].card = c
        /\ reqs'[r].to = [rows[c] EXCEPT !.done = TRUE]
  BY RereadEffect
<1>2. /\ \A s \in Reqs \ {r} : reqs'[s] = reqs[s]
      /\ reqs'[r].op = "complete" /\ reqs'[r].pc = "reread" /\ Open(r)
  BY <1>1 DEF Advances, SameButPc
<1>3. \A s \in Reqs, d \in Cards : Unsaid(s, d)' <=> Unsaid(s, d)
  <2>1. \A d \in Cards : Unsaid(r, d) <=> d = c
    BY <1>1, <1>2 DEF Unsaid
  <2>2. QED
    BY <1>1, <2>1, AdvanceSays
<1>4. \A t \in Tabs, d \in Cards : About(t, d)' <=> About(t, d)
  BY <1>1, SameWords
<1>5. ASSUME NEW d \in Cards, d \notin raced, NEW s \in Reqs, Unsaid(s, d), rows[d] # Gone,
             NEW p \in Places, p = rows[d]
      PROVE Announces(s, p)'
  <2>1. Announces(s, p)
    BY <1>5 DEF Words
  <2>2. CASE s = r
    <3>1. d = c
      BY <1>1, <1>5, <2>2 DEF Unsaid
    <3>2. p.done = TRUE
      BY <1>1, <2>1, <2>2 DEF Announces
    <3>3. [p EXCEPT !.done = TRUE] = p
      BY <3>2 DEF Places
    <3>4. reqs'[r].to = p
      BY <1>1, <1>5, <3>1, <3>3
    <3>5. QED
      BY <1>2, <2>2, <3>4 DEF Announces, Event
  <2>3. CASE s # r
    BY <1>2, <2>1, <2>3 DEF Announces
  <2>4. QED
    BY <2>2, <2>3
<1>6. \A s \in Reqs : reqs'[s].op = reqs[s].op
  BY <1>1, <1>2
<1>7. QED
  BY <1>1, <1>3, <1>4, <1>5, <1>6 DEF Words, server

\* An announcement leaves one write less to announce.
LEMMA EmitWords ==
  ASSUME TypeOK, Whole, Words, NEW r \in Reqs, emit(r)
  PROVE Words'
<1>1. PICK c \in Cards, e \in Events :
          /\ UNCHANGED <<server, live, store>>
          /\ reqs[r].card = c /\ Unsaid(r, c) /\ Advances(r, "told")
          /\ e.card = c
          /\ \A t \in Tabs : inbox'[t] = Append(inbox[t], e) \/ inbox'[t] = inbox[t]
  BY Announcing
<1>2. /\ \A s \in Reqs \ {r}, d \in Cards : Unsaid(s, d)' <=> Unsaid(s, d)
      /\ \A d \in Cards : ~Unsaid(r, d)'
  BY <1>1, AdvanceSays
<1>3. \A s \in Reqs \ {r} : reqs'[s] = reqs[s]
  BY <1>1 DEF Advances
<1>4. \A t \in Tabs, d \in Cards : d # c => (About(t, d)' => About(t, d))
  BY <1>1, NewWord, SameWords
<1>5. \A s \in Reqs, d \in Cards : d \notin raced /\ Unsaid(s, d)' =>
        s # r /\ d # c /\ Unsaid(s, d) /\ reqs'[s] = reqs[s]
  BY <1>1, <1>2, <1>3 DEF Words
<1>6. \A s \in Reqs : \A p : reqs'[s] = reqs[s] /\ Announces(s, p) => Announces(s, p)'
  BY DEF Announces
<1>7. QED
  BY <1>1, <1>2, <1>4, <1>5, <1>6 DEF Words, server

-----------------------------------------------------------------------------
(* Views: where nothing changed *)

\* Nothing changed of card c at page t, except for snapshots that came, which hold
\* what the page showed.
SameAt(t, c) ==
  /\ rows'[c] = rows[c] /\ (c \in used' <=> c \in used) /\ (c \in raced' <=> c \in raced)
  /\ c \in stale'[t] <=> c \in stale[t]
  /\ lists'[t][c] = lists[t][c] /\ card'[t][c] = card[t][c]
  /\ UnsaidOp(c, "add")' <=> UnsaidOp(c, "add")
  /\ UnsaidOp(c, "delete")' <=> UnsaidOp(c, "delete")
  /\ rows[c] # Gone => (Unannounced(c)' <=> Unannounced(c))
  /\ Pending(t, c)' <=> Pending(t, c)
  /\ Deleting(t, c)' <=> Deleting(t, c)
  /\ About(t, c)' <=> About(t, c)
  /\ \A k : Told(t, c, k)' <=> Told(t, c, k)
  /\ \A e : Last(t, c, e)' <=> Last(t, c, e)
  /\ Single(t, c)' <=> Single(t, c)
  /\ Buried(t, c)' <=> Buried(t, c)
  /\ \A r \in Reqs : Restores(r, t, c)' =>
       \/ Restores(r, t, c) /\ reqs'[r].snapshot = reqs[r].snapshot
       \/ reqs'[r].snapshot[c] = lists[t][c]

\* Each part of the view stays then.
LEMMA SameListed ==
  ASSUME NEW t \in Tabs, NEW c \in Cards, SameAt(t, c), Listed(t, c)
  PROVE Listed(t, c)'
BY DEF SameAt, Listed

\* Likewise.
LEMMA SameEnded ==
  ASSUME NEW t \in Tabs, NEW c \in Cards, SameAt(t, c), Ended(t, c)
  PROVE Ended(t, c)'
BY DEF SameAt, Ended

\* Likewise.
LEMMA SameKept ==
  ASSUME NEW t \in Tabs, NEW c \in Cards, SameAt(t, c), Kept(t, c)
  PROVE Kept(t, c)'
BY DEF SameAt, Kept

\* Likewise.
LEMMA SameFirstWord ==
  ASSUME NEW t \in Tabs, NEW c \in Cards, SameAt(t, c), rows[c] # Gone
  PROVE FirstWord(t, c)' <=> FirstWord(t, c)
BY DEF SameAt, FirstWord

\* Likewise.
LEMMA SameAdded ==
  ASSUME NEW t \in Tabs, NEW c \in Cards, SameAt(t, c), Added(t, c)
  PROVE Added(t, c)'
<1>1. SUFFICES ASSUME c \notin raced', rows'[c] # Gone, FirstWord(t, c)'
               PROVE  /\ Single(t, c)'
                      /\ c \notin stale'[t] /\ ~Pending(t, c)' =>
                           /\ lists'[t][c] # Nowhere => lists'[t][c] = rows'[c].col /\ card'[t][c] = rows'[c]
                           /\ \A r \in Reqs : Restores(r, t, c)' /\ reqs'[r].snapshot[c] # Nowhere =>
                                reqs'[r].snapshot[c] = rows'[c].col /\ card'[t][c] = rows'[c]
  BY DEF Added
<1>2. c \notin raced /\ rows[c] # Gone /\ FirstWord(t, c)
  BY <1>1, SameFirstWord DEF SameAt
<1>3. QED
  BY <1>2 DEF SameAt, Added

\* So the view stays,
LEMMA SameView ==
  ASSUME NEW t \in Tabs, NEW c \in Cards, SameAt(t, c)
  PROVE Viewed(t, c) => Viewed(t, c)'
BY SameListed, SameEnded, SameKept, SameAdded DEF Viewed

\* and the page says nothing new of the card.
LEMMA SameSaid ==
  ASSUME NEW t \in Tabs, NEW c \in Cards, SameAt(t, c), NEW p, Says(t, c, p)'
  PROVE Says(t, c, p)
BY DEF SameAt, Says, Shown

\* What the pages say of a card decides whether they agree.
LEMMA StillAgreed ==
  ASSUME NEW c \in Cards, Agreed(c), rows'[c] = rows[c], c \in raced' <=> c \in raced,
         rows[c] # Gone => (Unannounced(c)' <=> Unannounced(c)),
         \A t \in Tabs, p \in Places : rows[c] # Gone /\ Says(t, c, p)' => Says(t, c, p)
  PROVE Agreed(c)'
BY DEF Agreed

\* Enough for nothing to change at a page and card.
LEMMA SettledAt ==
  ASSUME Settled, UNCHANGED <<rows, used, raced>>,
         NEW t \in Tabs, NEW c \in Cards, inbox'[t] = inbox[t], stale'[t] = stale[t],
         lists'[t][c] = lists[t][c], card'[t][c] = card[t][c],
         Pending(t, c)' <=> Pending(t, c), Deleting(t, c)' <=> Deleting(t, c),
         \A r \in Reqs : Restores(r, t, c)' =>
           \/ Restores(r, t, c) /\ reqs'[r].snapshot = reqs[r].snapshot
           \/ reqs'[r].snapshot[c] = lists[t][c]
  PROVE SameAt(t, c)
BY SameWords DEF SameAt, Settled

\* Steps that neither page nor row nor inbox shows.
LEMMA QuietView ==
  ASSUME TypeOK, Whole, Views, \A c \in Cards : Agreed(c),
         Settled, UNCHANGED <<server, inbox, store, stale>>,
         \A t \in Tabs, c \in Cards :
           /\ Pending(t, c)' <=> Pending(t, c)
           /\ Deleting(t, c)' <=> Deleting(t, c)
           /\ \A r \in Reqs : Restores(r, t, c)' =>
                Restores(r, t, c) /\ reqs'[r].snapshot = reqs[r].snapshot
  PROVE Views' /\ \A c \in Cards : Agreed(c)'
<1>1. \A t \in Tabs, c \in Cards : SameAt(t, c)
  BY SettledAt DEF server, store
<1>2. Views'
  BY <1>1, SameView DEF Views
<1>3. ASSUME NEW c \in Cards PROVE Agreed(c)'
  BY <1>1, SameSaid, StillAgreed DEF server, Settled
<1>4. QED
  BY <1>2, <1>3

\* Asking for a new card changes no view.
LEMMA AddViews ==
  ASSUME TypeOK, Whole, Views, \A c \in Cards : Agreed(c),
         NEW t \in Tabs, NEW r \in Reqs, handleAddCard(t, r)
  PROVE Views' /\ \A c \in Cards : Agreed(c)'
<1>1. PICK c \in Cards :
        UNCHANGED <<server, inbox, store, stale>> /\ Requesting(r, "add", t, c)
  BY AddEffect
<1>2. Settled /\ \A u \in Tabs, d \in Cards :
           /\ Pending(u, d)' <=> Pending(u, d)
           /\ Deleting(u, d)' <=> Deleting(u, d)
           /\ \A s \in Reqs : Restores(s, u, d)' =>
                Restores(s, u, d) /\ reqs'[s].snapshot = reqs[s].snapshot
  <2>1. Settled
    BY <1>1, RequestSays
  <2>2. ASSUME NEW u \in Tabs, NEW d \in Cards
        PROVE /\ Pending(u, d)' <=> Pending(u, d)
              /\ Deleting(u, d)' <=> Deleting(u, d)
              /\ ~Restores(r, u, d)'
              /\ \A s \in Reqs \ {r} : /\ Restores(s, u, d)' <=> Restores(s, u, d)
                                       /\ reqs'[s].snapshot = reqs[s].snapshot
    BY <1>1, RequestSays
  <2>3. QED
    BY <2>1, <2>2
<1>3. QED
  BY <1>1, <1>2, QuietView

\* Neither do requests from outside,
LEMMA OutsideViews ==
  ASSUME TypeOK, Whole, Views, \A c \in Cards : Agreed(c),
         NEW r \in Reqs, toggleDone(r) \/ completeMyTask(r)
  PROVE Views' /\ \A c \in Cards : Agreed(c)'
<1>1. PICK c \in Cards, op \in {"toggle", "complete"} :
        UNCHANGED <<server, inbox, store, stale>> /\ Requesting(r, op, Nobody, c)
  BY OutsideEffect
<1>2. \A u \in Tabs : u # Nobody
  BY Plain
<1>3. Settled /\ \A u \in Tabs, d \in Cards :
           /\ Pending(u, d)' <=> Pending(u, d)
           /\ Deleting(u, d)' <=> Deleting(u, d)
           /\ \A s \in Reqs : Restores(s, u, d)' =>
                Restores(s, u, d) /\ reqs'[s].snapshot = reqs[s].snapshot
  <2>1. Settled
    BY <1>1, <1>2, RequestSays
  <2>2. ASSUME NEW u \in Tabs, NEW d \in Cards
        PROVE /\ Pending(u, d)' <=> Pending(u, d)
              /\ Deleting(u, d)' <=> Deleting(u, d)
              /\ ~Restores(r, u, d)'
              /\ \A s \in Reqs \ {r} : /\ Restores(s, u, d)' <=> Restores(s, u, d)
                                       /\ reqs'[s].snapshot = reqs[s].snapshot
    <3>1. /\ Pending(u, d)' <=> Pending(u, d) \/ (u = Nobody /\ d = c /\ op # "add")
          /\ Deleting(u, d)' <=> Deleting(u, d) \/ (u = Nobody /\ d = c /\ op = "delete")
          /\ Restores(r, u, d)' <=> u = Nobody /\ d # c /\ op # "add"
          /\ \A s \in Reqs \ {r} : /\ Restores(s, u, d)' <=> Restores(s, u, d)
                                   /\ reqs'[s].snapshot = reqs[s].snapshot
      <4>1. op \in {"move", "add", "delete", "toggle", "complete"}
            /\ Nobody \in Tabs \cup {Nobody}
        OBVIOUS
      <4>2. Requesting(r, op, Nobody, c)
        BY <1>1
      <4>3. QED
        BY <4>1, <4>2, RequestSays
    <3>2. QED
      BY <1>2, <3>1
  <2>3. QED
    BY <2>1, <2>2
<1>4. QED
  BY <1>1, <1>3, QuietView

\* handlers before and after the write,
LEMMA HandlerViews ==
  ASSUME TypeOK, Whole, Views, \A c \in Cards : Agreed(c),
         NEW r \in Reqs, cardContext(r) \/ Refuse(r) \/ GetCard(r)
  PROVE Views' /\ \A c \in Cards : Agreed(c)'
<1>1. UNCHANGED <<server, inbox, store, stale>>
      /\ \E x \in {"found", "refused", "reread"} :
           /\ Advances(r, x) /\ reqs[r].pc # "told"
           /\ x = "reread" => reqs[r].pc = "written"
           /\ x # "reread" => \/ reqs[r].pc \in {"sent", "found"}
                              \/ reqs[r].op = "complete" /\ rows[reqs[r].card] = Gone
  BY LookupEffect, RefuseEffect, RereadEffect
<1>2. PICK x \in {"found", "refused", "reread"} :
           /\ Advances(r, x) /\ reqs[r].pc # "told"
           /\ x = "reread" => reqs[r].pc = "written"
           /\ x # "reread" => \/ reqs[r].pc \in {"sent", "found"}
                              \/ reqs[r].op = "complete" /\ rows[reqs[r].card] = Gone
  BY <1>1
<1>3. PICK c \in Cards : c = reqs[r].card /\ Open(r)
  BY <1>2, RequestCards DEF Advances
<1>4. Settled
  <2>1. CASE x = "reread" \/ reqs[r].pc \in {"sent", "found"}
    <3>1. \A d \in Cards : Unsaid(r, d)' <=> Unsaid(r, d)
      BY <1>2, <1>3, <2>1, AdvanceSays DEF Unsaid
    <3>2. \A s \in Reqs, d \in Cards : Unsaid(s, d)' <=> Unsaid(s, d)
      BY <1>2, <3>1, AdvanceSays
    <3>3. \A s \in Reqs : Open(s) => reqs'[s].op = reqs[s].op
      BY <1>2 DEF Advances, SameButPc
    <3>4. QED
      BY <3>2, <3>3, AsSaid
  <2>2. CASE x # "reread" /\ reqs[r].op = "complete" /\ rows[c] = Gone
    <3>1. /\ \A d \in Cards : Unsaid(r, d) => d = c
          /\ \A d \in Cards : ~Unsaid(r, d)'
          /\ \A s \in Reqs \ {r}, d \in Cards : Unsaid(s, d)' <=> Unsaid(s, d)
      BY <1>2, <1>3, <2>2, AdvanceSays DEF Unsaid
    <3>2. \A s \in Reqs : Open(s) => reqs'[s].op = reqs[s].op
      BY <1>2 DEF Advances, SameButPc
    <3>3. \A d \in Cards, op \in {"add", "delete"} : UnsaidOp(d, op)' <=> UnsaidOp(d, op)
      BY <1>3, <2>2, <3>1, <3>2 DEF UnsaidOp, Unsaid
    <3>4. \A d \in Cards : rows[d] # Gone => (Unannounced(d)' <=> Unannounced(d))
      BY <2>2, <3>1, UnannouncedIs
    <3>5. QED
      BY <3>3, <3>4 DEF Settled
  <2>3. QED
    BY <1>2, <1>3, <2>1, <2>2
<1>5. \A t \in Tabs, d \in Cards :
           /\ Pending(t, d)' <=> Pending(t, d)
           /\ Deleting(t, d)' <=> Deleting(t, d)
           /\ \A s \in Reqs : Restores(s, t, d)' =>
                Restores(s, t, d) /\ reqs'[s].snapshot = reqs[s].snapshot
  <2>1. \A s \in Reqs, t \in Tabs, d \in Cards : Restores(s, t, d) => Open(s)
    BY DEF Restores
  <2>2. x # "told"
    BY <1>2
  <2>3. QED
    BY <1>2, <2>1, <2>2, AdvanceSays
<1>6. QED
  BY <1>1, <1>4, <1>5, QuietView

\* a socket that connects,
LEMMA ConnectViews ==
  ASSUME TypeOK, Whole, Views, \A c \in Cards : Agreed(c), NEW t \in Tabs, Connect(t)
  PROVE Views' /\ \A c \in Cards : Agreed(c)'
<1>1. UNCHANGED <<server, reqs, inbox, store, stale>>
  BY ConnectEffect
<1>2. \A s \in Reqs, c \in Cards : Unsaid(s, c)' <=> Unsaid(s, c)
  BY <1>1 DEF Unsaid, Open
<1>3. Settled
  BY <1>1, <1>2, AsSaid
<1>4. \A u \in Tabs, c \in Cards :
           /\ Pending(u, c)' <=> Pending(u, c)
           /\ Deleting(u, c)' <=> Deleting(u, c)
           /\ \A r \in Reqs : Restores(r, u, c)' =>
                Restores(r, u, c) /\ reqs'[r].snapshot = reqs[r].snapshot
  BY <1>1 DEF Pending, Deleting, Restores, Open
<1>5. QED
  BY <1>1, <1>3, <1>4, QuietView

\* or an answer that changes no store.
LEMMA QuietAnswerViews ==
  ASSUME TypeOK, Whole, Views, \A c \in Cards : Agreed(c),
         NEW r \in Reqs, Succeed(r) \/ Fail(r) \/ Cut(r), UNCHANGED <<store, stale>>, ~Reverts(r)
  PROVE Views' /\ \A c \in Cards : Agreed(c)'
<1>1. /\ UNCHANGED <<server, inbox>> /\ (Ends(r) \/ Leaves(r))
      /\ Ends(r) => reqs[r].pc \in {"told", "refused"}
      /\ reqs[r].tab = Nobody \/ reqs[r].op = "add" \/ (Ends(r) /\ reqs[r].pc = "told")
  BY SucceedEffect, FailEffect, CutEffect DEF Ends, Leaves
<1>2. QED
  BY <1>1, EndSays, QuietView

-----------------------------------------------------------------------------
(* Views: a page's own changes *)

\* A page that changes a card waits for the answer; its snapshot holds the others as
\* they were.
LEMMA PageViews ==
  ASSUME TypeOK, Whole, Views, \A c \in Cards : Agreed(c),
         NEW t \in Tabs, NEW r \in Reqs, handleDragEnd(t, r) \/ handleDeleteCard(t, r)
  PROVE Views' /\ \A c \in Cards : Agreed(c)'
<1>1. /\ UNCHANGED <<server, inbox, stale>>
      /\ \E c \in Cards, op \in {"move", "delete"} :
           /\ lists[t][c] # Nowhere /\ StoreAt(t, c) /\ Requesting(r, op, t, c)
           /\ op = "move" => lists'[t][c] # Nowhere
  BY DragEffect, DeleteEffect
<1>2. PICK c \in Cards, op \in {"move", "delete"} :
           /\ lists[t][c] # Nowhere /\ StoreAt(t, c) /\ Requesting(r, op, t, c)
           /\ op = "move" => lists'[t][c] # Nowhere
  BY <1>1
<1>3. /\ Settled
      /\ \A u \in Tabs, d \in Cards :
             /\ Pending(u, d)' <=> Pending(u, d) \/ (u = t /\ d = c)
             /\ Deleting(u, d)' <=> Deleting(u, d) \/ (u = t /\ d = c /\ op = "delete")
             /\ Restores(r, u, d)' <=> u = t /\ d # c
             /\ \A s \in Reqs \ {r} : /\ Restores(s, u, d)' <=> Restores(s, u, d)
                                      /\ reqs'[s].snapshot = reqs[s].snapshot
  <2>1. Settled
    BY <1>2, RequestSays
  <2>2. ASSUME NEW u \in Tabs, NEW d \in Cards
        PROVE /\ Pending(u, d)' <=> Pending(u, d) \/ (u = t /\ d = c)
              /\ Deleting(u, d)' <=> Deleting(u, d) \/ (u = t /\ d = c /\ op = "delete")
              /\ Restores(r, u, d)' <=> u = t /\ d # c
              /\ \A s \in Reqs \ {r} : /\ Restores(s, u, d)' <=> Restores(s, u, d)
                                      /\ reqs'[s].snapshot = reqs[s].snapshot
    <3>1. op \in {"move", "add", "delete", "toggle", "complete"} /\ op # "add"
          /\ t \in Tabs \cup {Nobody}
      OBVIOUS
    <3>2. Requesting(r, op, t, c)
      BY <1>2
    <3>3. QED
      BY <3>1, <3>2, RequestSays
  <2>3. QED
    BY <2>1, <2>2
<1>4. reqs'[r].snapshot = lists[t]
  BY <1>2, Plain DEF Requesting
<1>5. ASSUME NEW u \in Tabs, NEW d \in Cards, u # t \/ d # c PROVE SameAt(u, d)
  <2>1. lists'[u][d] = lists[u][d] /\ card'[u][d] = card[u][d]
    BY <1>2, <1>5 DEF StoreAt
  <2>2. /\ Pending(u, d)' <=> Pending(u, d)
        /\ Deleting(u, d)' <=> Deleting(u, d)
        /\ \A s \in Reqs : Restores(s, u, d)' =>
             \/ Restores(s, u, d) /\ reqs'[s].snapshot = reqs[s].snapshot
             \/ reqs'[s].snapshot[d] = lists[u][d]
    BY <1>3, <1>4, <1>5
  <2>3. QED
    BY <1>1, <1>3, <2>1, <2>2, SettledAt DEF server
<1>6. /\ Pending(t, c)' /\ ~Restores(r, t, c)'
      /\ About(t, c)' <=> About(t, c)
      /\ \A k : Told(t, c, k)' <=> Told(t, c, k)
      /\ \A e : Last(t, c, e)' <=> Last(t, c, e)
      /\ Single(t, c)' <=> Single(t, c)
      /\ Buried(t, c)' <=> Buried(t, c)
  BY <1>1, <1>3, SameWords
<1>7. Viewed(t, c)'
  <2>1. Listed(t, c)'
    BY <1>1, <1>2, <1>3, <1>6 DEF Views, Viewed, Listed, Settled, server
  <2>2. Ended(t, c)'
    BY <1>1, <1>2, <1>3, <1>6 DEF Views, Viewed, Ended, Settled, server
  <2>3. Kept(t, c)'
    BY <1>6 DEF Kept
  <2>4. Added(t, c)'
    <3>1. rows[c] # Gone /\ FirstWord(t, c)' => FirstWord(t, c)
      BY <1>3, <1>6 DEF FirstWord, Settled
    <3>2. QED
      BY <1>1, <1>6, <3>1 DEF Views, Viewed, Added, server
  <2>5. QED
    BY <2>1, <2>2, <2>3, <2>4 DEF Viewed
<1>8. Views'
  <2>1. ASSUME NEW u \in Tabs, NEW d \in Cards PROVE Viewed(u, d)'
    BY <1>5, <1>7, SameView DEF Views
  <2>2. QED
    BY <2>1 DEF Views
<1>9. ASSUME NEW d \in Cards PROVE Agreed(d)'
  <2>1. ASSUME NEW u \in Tabs, NEW p \in Places, Says(u, d, p)' PROVE Says(u, d, p)
    <3>1. CASE u = t /\ d = c
      BY <1>6, <2>1, <3>1 DEF Says
    <3>2. CASE u # t \/ d # c
      BY <1>5, <2>1, <3>2, SameSaid
    <3>3. QED
      BY <3>1, <3>2
  <2>2. QED
    BY <1>1, <1>3, <2>1, StillAgreed DEF server, Settled
<1>10. QED
  BY <1>8, <1>9

-----------------------------------------------------------------------------
(* Views: a write and its announcement *)

\* A write changes the row: its card is unannounced then, and nothing is agreed of it.
LEMMA WriteViews ==
  ASSUME TypeOK, Whole, Births, Views, \A c \in Cards : Agreed(c), NEW r \in Reqs, Write(r)
  PROVE Views' /\ \A c \in Cards : Agreed(c)'
<1>1. PICK c \in Cards :
        /\ c = reqs[r].card /\ UNCHANGED <<inbox, lists, card, stale>>
        /\ Advances(r, "written") /\ reqs[r].pc = "found"
        /\ \A d \in Cards : d # c => rows'[d] = rows[d]
        /\ used' = used \cup {c}
        /\ raced' = IF Unannounced(c) THEN raced \cup {c}
                    ELSE IF Settles(reqs[r]) THEN raced \ {c} ELSE raced
  BY WriteEffect DEF store
<1>2. /\ reqs[r].op = "add" => c \notin used /\ rows'[c] # Gone
      /\ reqs[r].op # "add" => c \in used /\ (rows[c] = Gone => rows'[c] = Gone)
      /\ reqs[r].op # "delete" /\ rows'[c] = Gone => ~Settles(reqs[r]) /\ rows[c] = Gone
  BY <1>1, WriteRows
<1>3. \A s \in Reqs : Open(s) => reqs'[s].op = reqs[s].op
  BY <1>1 DEF Advances, SameButPc
<1>4. Open(r)
  BY <1>1 DEF Advances
<1>5. /\ \A s \in Reqs \ {r}, d \in Cards : Unsaid(s, d)' <=> Unsaid(s, d)
      /\ \A d \in Cards : ~Unsaid(r, d)
      /\ \A d \in Cards : Unsaid(r, d)' <=> d = c
  BY <1>1, AdvanceSays DEF Unsaid
<1>6. \A d \in Cards : \A op : UnsaidOp(d, op)' <=> UnsaidOp(d, op) \/ (d = c /\ reqs[r].op = op)
  <2>1. \A s \in Reqs, d \in Cards : Unsaid(s, d) => Open(s)
    BY DEF Unsaid
  <2>2. QED
    BY <1>3, <1>4, <1>5, <2>1 DEF UnsaidOp
<1>7. \A d \in Cards : Unannounced(d)' <=> Unannounced(d) \/ d = c
  BY <1>5, UnannouncedIs
<1>8. ASSUME NEW u \in Tabs, NEW d \in Cards
      PROVE /\ Pending(u, d)' <=> Pending(u, d)
            /\ Deleting(u, d)' <=> Deleting(u, d)
            /\ \A s \in Reqs : Restores(s, u, d)' =>
                  Restores(s, u, d) /\ reqs'[s].snapshot = reqs[s].snapshot
            /\ About(u, d)' <=> About(u, d)
            /\ \A k : Told(u, d, k)' <=> Told(u, d, k)
            /\ \A e : Last(u, d, e)' <=> Last(u, d, e)
            /\ Single(u, d)' <=> Single(u, d)
            /\ Buried(u, d)' <=> Buried(u, d)
  <2>1. \A s \in Reqs : Restores(s, u, d) => Open(s)
    BY DEF Restores
  <2>2. /\ Pending(u, d)' <=> Pending(u, d)
        /\ Deleting(u, d)' <=> Deleting(u, d)
        /\ \A s \in Reqs : Restores(s, u, d)' =>
                  Restores(s, u, d) /\ reqs'[s].snapshot = reqs[s].snapshot
    BY <1>1, <2>1, AdvanceSays
  <2>3. QED
    BY <1>1, <2>2, SameWords
<1>9. ASSUME NEW u \in Tabs, NEW d \in Cards, d # c PROVE SameAt(u, d)
  <2>1. (d \in raced' <=> d \in raced) /\ (d \in used' <=> d \in used)
    BY <1>1, <1>9
  <2>2. QED
    BY <1>1, <1>6, <1>7, <1>8, <1>9, <2>1 DEF SameAt
<1>10. ASSUME NEW u \in Tabs PROVE Viewed(u, c)'
  <2>1. Listed(u, c)'
    BY <1>1, <1>2, <1>6, <1>8, <1>10 DEF Views, Viewed, Listed
  <2>2. Ended(u, c)'
    <3>1. SUFFICES ASSUME rows'[c] = Gone, c \notin raced' \/ c \notin Fresh,
                          ~UnsaidOp(c, "delete")'
                   PROVE /\ ~UnsaidOp(c, "add")'
                         /\ Buried(u, c)'
                         /\ c \notin stale'[u] =>
                              \/ Told(u, c, "delete")'
                              \/ /\ lists'[u][c] = Nowhere
                                 /\ \A s \in Reqs : Restores(s, u, c)' => reqs'[s].snapshot[c] = Nowhere
      BY DEF Ended
    <3>2. reqs[r].op # "delete" /\ reqs[r].op # "add" /\ ~Settles(reqs[r]) /\ c \in used
      BY <1>2, <1>6, <3>1
    <3>3. c \notin raced \/ c \notin Fresh
      BY <1>1, <3>1, <3>2
    <3>4. ~UnsaidOp(c, "delete") /\ rows[c] = Gone
      BY <1>2, <1>6, <3>1, <3>2
    <3>5. /\ ~UnsaidOp(c, "add") /\ Buried(u, c)
          /\ c \notin stale[u] =>
                \/ Told(u, c, "delete")
                \/ /\ lists[u][c] = Nowhere
                   /\ \A s \in Reqs : Restores(s, u, c) => reqs[s].snapshot[c] = Nowhere
      BY <3>2, <3>3, <3>4 DEF Views, Viewed, Ended
    <3>6. QED
      BY <1>1, <1>6, <1>8, <3>2, <3>5
  <2>3. Kept(u, c)'
    BY <1>1, <1>8 DEF Views, Viewed, Kept
  <2>4. Added(u, c)'
    <3>1. SUFFICES ASSUME c \notin raced', FirstWord(u, c)'
                   PROVE /\ Single(u, c)' /\ lists'[u][c] = Nowhere
                         /\ \A s \in Reqs : Restores(s, u, c)' => reqs'[s].snapshot[c] = Nowhere
      BY DEF Added
    <3>2. ~Unannounced(c) /\ ~UnsaidOp(c, "add")
      BY <1>1, <3>1, UnannouncedIs DEF UnsaidOp
    <3>3. c \notin used
      BY <1>2, <1>6, <1>7, <3>1, <3>2 DEF FirstWord
    <3>4. lists[u][c] = Nowhere /\ ~About(u, c)
      BY <3>3 DEF Births, UnusedCards
    <3>5. \A s \in Reqs : Restores(s, u, c) => reqs[s].snapshot[c] = Nowhere
      BY <3>3, Plain DEF Births, UnusedCards, Restores
    <3>6. Single(u, c)
      BY <3>4 DEF Single, About
    <3>7. QED
      BY <1>1, <1>8, <3>4, <3>5, <3>6
  <2>5. QED
    BY <2>1, <2>2, <2>3, <2>4 DEF Viewed
<1>11. Views'
  <2>1. ASSUME NEW u \in Tabs, NEW d \in Cards PROVE Viewed(u, d)'
    BY <1>9, <1>10, SameView DEF Views
  <2>2. QED
    BY <2>1 DEF Views
<1>12. ASSUME NEW d \in Cards PROVE Agreed(d)'
  <2>1. CASE d = c
    BY <1>7, <2>1 DEF Agreed
  <2>2. CASE d # c
    <3>1. \A u \in Tabs, p \in Places : Says(u, d, p)' => Says(u, d, p)
      BY <1>9, <2>2, SameSaid
    <3>2. d \in raced' <=> d \in raced
      BY <1>1, <2>2
    <3>3. QED
      BY <1>1, <1>7, <2>2, <3>1, <3>2, StillAgreed
  <2>3. QED
    BY <2>1, <2>2
<1>13. QED
  BY <1>11, <1>12

\* An announcement brings every live page in step, and is missed by the others.
LEMMA EmitViews ==
  ASSUME TypeOK, Whole, Births, Deaths, Words, Views, \A c \in Cards : Agreed(c),
         NEW r \in Reqs, emit(r)
  PROVE Views' /\ \A c \in Cards : Agreed(c)'
<1>1. PICK c \in Cards, e \in Events :
          /\ UNCHANGED <<server, live, store>>
          /\ Open(r) /\ reqs[r].pc = IF reqs[r].op = "complete" THEN "reread" ELSE "written"
          /\ reqs[r].card = c /\ Unsaid(r, c) /\ Advances(r, "told")
          /\ e = Event(reqs[r]) /\ e.card = c
          /\ e.kind = "add" <=> reqs[r].op = "add"
          /\ e.kind = "delete" <=> reqs[r].op = "delete"
          /\ \A t \in Tabs :
               \/ t \in live /\ inbox'[t] = Append(inbox[t], e) /\ stale'[t] = stale[t]
               \/ /\ t \notin live /\ inbox'[t] = inbox[t] /\ inbox[t] = <<>>
                  /\ stale'[t] = stale[t] \cup {c}
  BY Announcing
<1>2. UNCHANGED <<rows, used, raced, lists, card>>
  BY <1>1 DEF server, store
<1>3. /\ \A s \in Reqs \ {r}, d \in Cards : Unsaid(s, d)' <=> Unsaid(s, d)
      /\ \A d \in Cards : ~Unsaid(r, d)' /\ (Unsaid(r, d) => d = c)
      /\ \A s \in Reqs \ {r} : reqs'[s] = reqs[s]
  BY <1>1, AdvanceSays DEF Advances, Unsaid
<1>4. /\ \A d \in Cards : \A op : UnsaidOp(d, op)' => UnsaidOp(d, op)
      /\ \A d \in Cards : \A op : UnsaidOp(d, op) /\ (d # c \/ reqs[r].op # op) => UnsaidOp(d, op)'
  BY <1>3 DEF UnsaidOp
<1>5. \A d \in Cards : d # c => (Unannounced(d)' <=> Unannounced(d))
  BY <1>3, UnannouncedIs
<1>6. c \notin raced => ~Unannounced(c)' /\ (\A op : ~UnsaidOp(c, op)')
        /\ \A op : UnsaidOp(c, op) => op = reqs[r].op
  <2>1. c \notin raced => \A s \in Reqs : Unsaid(s, c) => s = r
    BY <1>1 DEF Words
  <2>2. QED
    BY <1>3, <2>1, UnannouncedIs DEF UnsaidOp
<1>7. ASSUME NEW u \in Tabs, NEW d \in Cards
      PROVE /\ d # c => /\ Pending(u, d)' <=> Pending(u, d)
                        /\ Deleting(u, d)' <=> Deleting(u, d)
            /\ reqs[r].op = "add" => (Pending(u, d)' <=> Pending(u, d))
            /\ reqs[r].op # "delete" => (Deleting(u, d)' <=> Deleting(u, d))
            /\ \A s \in Reqs : Restores(s, u, d)' =>
                  Restores(s, u, d) /\ reqs'[s].snapshot = reqs[s].snapshot
  <2>1. /\ d # c => /\ Pending(u, d)' <=> Pending(u, d)
                    /\ Deleting(u, d)' <=> Deleting(u, d)
        /\ \A s \in Reqs : Restores(s, u, d) => Open(s)
    BY <1>1, AdvanceSays DEF Restores
  <2>2. \A s \in Reqs : Restores(s, u, d)' =>
                  Restores(s, u, d) /\ reqs'[s].snapshot = reqs[s].snapshot
    BY <1>1, <2>1, AdvanceSays
  <2>3. reqs[r].op = "add" => (Pending(u, d)' <=> Pending(u, d))
    BY <1>1, <1>3 DEF Pending, Advances, SameButPc
  <2>4. reqs[r].op # "delete" => (Deleting(u, d)' <=> Deleting(u, d))
    BY <1>1, <1>3 DEF Deleting, Advances, SameButPc
  <2>5. QED
    BY <2>1, <2>2, <2>3, <2>4
<1>8. ASSUME NEW u \in Tabs, NEW d \in Cards, d # c PROVE SameAt(u, d)
  <2>1. /\ About(u, d)' <=> About(u, d)
        /\ \A k : Told(u, d, k)' <=> Told(u, d, k)
        /\ \A f : Last(u, d, f)' <=> Last(u, d, f)
        /\ Single(u, d)' <=> Single(u, d)
        /\ Buried(u, d)' <=> Buried(u, d)
    <3>1. CASE inbox'[u] = inbox[u]
      BY <3>1, SameWords
    <3>2. CASE inbox'[u] = Append(inbox[u], e)
      BY <1>1, <1>8, <3>2, NewWord
    <3>3. QED
      BY <1>1, <3>1, <3>2
  <2>2. d \in stale'[u] <=> d \in stale[u]
    BY <1>1, <1>8
  <2>3. QED
    BY <1>2, <1>4, <1>5, <1>7, <1>8, <2>1, <2>2 DEF SameAt
<1>9. reqs[r].op = "delete" => rows[c] = Gone
  <2>1. reqs[r].op = "delete" => Deletes(r, c)
    BY <1>1 DEF Deletes
  <2>2. QED
    BY <2>1 DEF Deaths
<1>10. ASSUME NEW u \in Tabs PROVE Viewed(u, c)'
  <2>1. ASSUME c \in used, rows[c] = Gone, c \notin raced \/ c \notin Fresh,
               ~UnsaidOp(c, "delete")'
        PROVE /\ ~UnsaidOp(c, "add")'
              /\ reqs[r].op # "delete" => ~UnsaidOp(c, "delete") /\ reqs[r].op # "add"
    <3>1. CASE reqs[r].op = "delete"
      <4>1. c \notin Fresh => ~UnsaidOp(c, "add")
        BY DEF Births, AddRequests, Adding, UnsaidOp, Unsaid
      <4>2. QED
        BY <1>4, <1>6, <2>1, <3>1, <4>1
    <3>2. CASE reqs[r].op # "delete"
      <4>1. ~UnsaidOp(c, "delete")
        BY <1>4, <2>1, <3>2
      <4>2. ~UnsaidOp(c, "add")
        BY <1>10, <2>1, <4>1 DEF Views, Viewed, Ended
      <4>3. reqs[r].op # "add"
        BY <1>1, <4>2 DEF UnsaidOp
      <4>4. QED
        BY <1>4, <4>1, <4>2, <4>3
    <3>3. QED
      BY <3>1, <3>2
  <2>2. CASE u \notin live
    <3>1. /\ inbox'[u] = <<>> /\ c \in stale'[u]
      BY <1>1, <2>2
    <3>2. /\ ~About(u, c)' /\ (\A f : ~Last(u, c, f)') /\ Buried(u, c)' /\ Single(u, c)'
      BY <3>1, NoWords
    <3>3. Listed(u, c)' /\ Kept(u, c)' /\ Added(u, c)'
      BY <3>1, <3>2 DEF Listed, Kept, Added
    <3>4. Ended(u, c)'
      BY <1>2, <2>1, <3>1, <3>2 DEF Ended
    <3>5. QED
      BY <3>3, <3>4 DEF Viewed
  <2>3. CASE u \in live
    <3>1. inbox'[u] = Append(inbox[u], e) /\ stale'[u] = stale[u]
      BY <1>1, <2>3
    <3>2. /\ About(u, c)'
          /\ \A k : Told(u, c, k)' <=> Told(u, c, k) \/ k = e.kind
          /\ \A f : Last(u, c, f)' => f = e
          /\ ~About(u, c) => Single(u, c)'
          /\ e.kind # "add" => (Buried(u, c) => Buried(u, c)')
          /\ e.kind = "delete" => Buried(u, c)'
      BY <1>1, <3>1, NewWord
    <3>3. Listed(u, c)'
      <4>1. SUFFICES ASSUME rows[c] # Gone, ~UnsaidOp(c, "add")', c \notin stale[u],
                            ~Deleting(u, c)'
                     PROVE \/ Told(u, c, "add")'
                           \/ /\ lists[u][c] # Nowhere
                              /\ \A s \in Reqs : Restores(s, u, c)' => reqs'[s].snapshot[c] # Nowhere
        BY <1>2, <3>1 DEF Listed
      <4>2. CASE reqs[r].op = "add"
        BY <1>1, <3>2, <4>2
      <4>3. CASE reqs[r].op # "add"
        <5>1. ~UnsaidOp(c, "add") /\ ~Deleting(u, c)
          BY <1>4, <1>7, <1>9, <4>1, <4>3
        <5>2. \/ Told(u, c, "add")
              \/ /\ lists[u][c] # Nowhere
                 /\ \A s \in Reqs : Restores(s, u, c) => reqs[s].snapshot[c] # Nowhere
          BY <1>10, <4>1, <5>1 DEF Views, Viewed, Listed
        <5>3. \A s \in Reqs : Restores(s, u, c)' => Restores(s, u, c) /\ reqs'[s].snapshot = reqs[s].snapshot
          BY <1>7
        <5>4. QED
          BY <3>2, <5>2, <5>3
      <4>4. QED
        BY <4>2, <4>3
    <3>4. Ended(u, c)'
      <4>1. SUFFICES ASSUME c \in used, rows[c] = Gone, c \notin raced \/ c \notin Fresh,
                            ~UnsaidOp(c, "delete")'
                     PROVE /\ Buried(u, c)'
                           /\ c \notin stale[u] =>
                                \/ Told(u, c, "delete")'
                                \/ /\ lists[u][c] = Nowhere
                                   /\ \A s \in Reqs : Restores(s, u, c)' => reqs'[s].snapshot[c] = Nowhere
        BY <1>2, <2>1, <3>1 DEF Ended
      <4>2. CASE reqs[r].op = "delete"
        BY <1>1, <3>2, <4>2
      <4>3. CASE reqs[r].op # "delete"
        <5>1. ~UnsaidOp(c, "delete") /\ e.kind # "add"
          BY <1>1, <2>1, <4>1, <4>3
        <5>2. /\ Buried(u, c)
              /\ c \notin stale[u] =>
                   \/ Told(u, c, "delete")
                   \/ /\ lists[u][c] = Nowhere
                      /\ \A s \in Reqs : Restores(s, u, c) => reqs[s].snapshot[c] = Nowhere
          BY <1>10, <4>1, <5>1 DEF Views, Viewed, Ended
        <5>3. \A s \in Reqs : Restores(s, u, c)' => Restores(s, u, c) /\ reqs'[s].snapshot = reqs[s].snapshot
          BY <1>7
        <5>4. QED
          BY <3>2, <5>1, <5>2, <5>3
      <4>4. QED
        BY <4>2, <4>3
    <3>5. Kept(u, c)'
      BY <3>2 DEF Kept
    <3>6. Added(u, c)'
      <4>1. SUFFICES ASSUME c \notin raced, rows[c] # Gone, FirstWord(u, c)'
                     PROVE /\ Single(u, c)'
                           /\ c \notin stale[u] /\ ~Pending(u, c)' =>
                                /\ lists[u][c] # Nowhere => lists[u][c] = rows[c].col /\ card[u][c] = rows[c]
                                /\ \A s \in Reqs : Restores(s, u, c)' /\ reqs'[s].snapshot[c] # Nowhere =>
                                     reqs'[s].snapshot[c] = rows[c].col /\ card[u][c] = rows[c]
        BY <1>2, <3>1 DEF Added
      <4>2. reqs[r].op = "add"
        <5>1. ~UnsaidOp(c, "add")'
          BY <1>6, <4>1
        <5>2. QED
          BY <1>1, <3>2, <4>1, <5>1 DEF FirstWord
      <4>3. FirstWord(u, c) /\ ~About(u, c)
        BY <1>1, <1>10, <4>1, <4>2 DEF FirstWord, UnsaidOp, Words
      <4>4. c \notin stale[u] /\ ~Pending(u, c) =>
              /\ lists[u][c] # Nowhere => lists[u][c] = rows[c].col /\ card[u][c] = rows[c]
              /\ \A s \in Reqs : Restores(s, u, c) /\ reqs[s].snapshot[c] # Nowhere =>
                   reqs[s].snapshot[c] = rows[c].col /\ card[u][c] = rows[c]
        BY <1>10, <4>1, <4>3 DEF Views, Viewed, Added
      <4>5. /\ Pending(u, c)' <=> Pending(u, c)
            /\ \A s \in Reqs : Restores(s, u, c)' => Restores(s, u, c) /\ reqs'[s].snapshot = reqs[s].snapshot
        BY <1>7, <4>2
      <4>6. QED
        BY <3>2, <4>3, <4>4, <4>5
    <3>7. QED
      BY <3>3, <3>4, <3>5, <3>6 DEF Viewed
  <2>4. QED
    BY <2>2, <2>3
<1>11. Views'
  <2>1. ASSUME NEW u \in Tabs, NEW d \in Cards PROVE Viewed(u, d)'
    BY <1>8, <1>10, SameView DEF Views
  <2>2. QED
    BY <2>1 DEF Views
<1>12. ASSUME NEW d \in Cards, d # c PROVE Agreed(d)'
  BY <1>2, <1>5, <1>8, <1>12, SameSaid, StillAgreed
<1>13. Agreed(c)'
  <2>1. ASSUME NEW u \in Tabs, NEW p, Says(u, c, p)' PROVE p = e.to
    <3>1. CASE u \notin live
      <4>1. c \in stale'[u] /\ \A f : ~Last(u, c, f)'
        BY <1>1, <3>1, NoWords
      <4>2. QED
        BY <2>1, <4>1 DEF Says
    <3>2. CASE u \in live
      <4>1. About(u, c)' /\ \A f : Last(u, c, f)' => f = e
        BY <1>1, <3>2, NewWord
      <4>2. QED
        BY <2>1, <4>1 DEF Says
    <3>3. QED
      BY <3>1, <3>2
  <2>2. c \notin raced /\ rows[c] # Gone => e.to = rows[c]
    <3>1. rows[c] \in Places
      BY DEF TypeOK
    <3>2. c \notin raced /\ rows[c] # Gone => Announces(r, rows[c])
      BY <1>1, <3>1 DEF Words
    <3>3. QED
      BY <1>1, <3>2 DEF Announces
  <2>3. QED
    BY <1>2, <2>1, <2>2 DEF Agreed
<1>14. QED
  BY <1>11, <1>12, <1>13

-----------------------------------------------------------------------------
(* Views: answers *)

\* An answer adds the card where its broadcast is going to add it, or too late.
LEMMA AddedViews ==
  ASSUME TypeOK, Whole, Births, Views, \A c \in Cards : Agreed(c), NEW r \in Reqs, Succeed(r)
  PROVE Views' /\ \A c \in Cards : Agreed(c)'
<1>1. /\ UNCHANGED <<server, live, inbox>> /\ reqs[r].pc = "told" /\ Ends(r)
      /\ \/ UNCHANGED <<store, stale>>
         \/ \E t \in Tabs, c \in Cards :
                /\ reqs[r].op = "add" /\ reqs[r].tab = t /\ reqs[r].card = c
                /\ lists[t][c] = Nowhere /\ StoreAt(t, c)
                /\ lists'[t][c] = reqs[r].to.col /\ card'[t][c] = reqs[r].to
                /\ lists'[t][c] # Nowhere
                /\ \A u \in Tabs \ {t} : stale'[u] = stale[u]
                /\ stale'[t] = IF Awaited(t, c) THEN stale[t] ELSE stale[t] \cup {c}
  BY SucceedEffect
<1>2. CASE UNCHANGED <<store, stale>>
  <2>1. Settled
    BY <1>1, EndSays
  <2>2. ASSUME NEW u \in Tabs, NEW d \in Cards
        PROVE /\ Pending(u, d)' <=> Pending(u, d)
              /\ Deleting(u, d)' <=> Deleting(u, d)
              /\ \A s \in Reqs : Restores(s, u, d)' =>
                   Restores(s, u, d) /\ reqs'[s].snapshot = reqs[s].snapshot
    <3>1. /\ Pending(u, d)' <=> Pending(u, d)
          /\ Deleting(u, d)' <=> Deleting(u, d)
          /\ ~Restores(r, u, d)'
          /\ \A s \in Reqs \ {r} : /\ Restores(s, u, d)' <=> Restores(s, u, d)
                                   /\ reqs'[s].snapshot = reqs[s].snapshot
      BY <1>1, EndSays
    <3>2. QED
      BY <3>1
  <2>3. QED
    BY <1>1, <1>2, <2>1, <2>2, QuietView
<1>3. ASSUME NEW t \in Tabs, NEW c \in Cards,
             reqs[r].op = "add", reqs[r].tab = t, reqs[r].card = c,
             lists[t][c] = Nowhere, StoreAt(t, c),
             lists'[t][c] = reqs[r].to.col, card'[t][c] = reqs[r].to,
             lists'[t][c] # Nowhere,
             \A u \in Tabs \ {t} : stale'[u] = stale[u],
             stale'[t] = IF Awaited(t, c) THEN stale[t] ELSE stale[t] \cup {c}
      PROVE Views' /\ \A d \in Cards : Agreed(d)'
  <2>1. Settled /\ \A s \in Reqs, d \in Cards : Unsaid(s, d)' <=> Unsaid(s, d)
    BY <1>1, EndSays
  <2>2. ASSUME NEW u \in Tabs, NEW d \in Cards
        PROVE /\ Pending(u, d)' <=> Pending(u, d)
              /\ Deleting(u, d)' <=> Deleting(u, d)
              /\ \A s \in Reqs : Restores(s, u, d)' =>
                   Restores(s, u, d) /\ reqs'[s].snapshot = reqs[s].snapshot
    <3>1. /\ Pending(u, d)' <=> Pending(u, d)
          /\ Deleting(u, d)' <=> Deleting(u, d)
          /\ ~Restores(r, u, d)'
          /\ \A s \in Reqs \ {r} : /\ Restores(s, u, d)' <=> Restores(s, u, d)
                                   /\ reqs'[s].snapshot = reqs[s].snapshot
      BY <1>1, EndSays
    <3>2. QED
      BY <3>1
  <2>3. /\ rows' = rows /\ used' = used /\ raced' = raced /\ inbox' = inbox
    BY <1>1 DEF server
  <2>4. ASSUME NEW u \in Tabs, NEW d \in Cards, u # t \/ d # c PROVE SameAt(u, d)
    <3>1. lists'[u][d] = lists[u][d] /\ card'[u][d] = card[u][d]
      BY <1>3, <2>4 DEF StoreAt
    <3>2. d \in stale'[u] <=> d \in stale[u]
      BY <1>3, <2>4
    <3>3. inbox'[u] = inbox[u]
      BY <2>3
    <3>4. QED
      BY <2>1, <2>2, <2>3, <3>1, <3>2, <3>3, SameWords DEF SameAt, Settled
  <2>5. /\ About(t, c)' <=> About(t, c)
        /\ \A k : Told(t, c, k)' <=> Told(t, c, k)
        /\ \A e : Last(t, c, e)' <=> Last(t, c, e)
        /\ Single(t, c)' <=> Single(t, c)
        /\ Buried(t, c)' <=> Buried(t, c)
    <3>1. inbox'[t] = inbox[t]
      BY <2>3
    <3>2. QED
      BY <3>1, SameWords
  <2>6. c \notin stale'[t] => c \notin stale[t] /\ Told(t, c, "add") /\ About(t, c)
    BY <1>3, ToldIsAbout DEF Awaited, Told
  <2>7. Listed(t, c)'
    BY <2>5, <2>6 DEF Listed
  <2>8. Ended(t, c)'
    <3>1. Ended(t, c)
      BY <1>3 DEF Views, Viewed
    <3>2. Buried(t, c) /\ Told(t, c, "add") => Told(t, c, "delete")
      BY DEF Buried, Told
    <3>3. QED
      BY <2>1, <2>3, <2>5, <2>6, <3>1, <3>2 DEF Ended, Settled
  <2>9. Kept(t, c)'
    BY <2>5, <2>6 DEF Kept
  <2>10. Added(t, c)'
    <3>1. SUFFICES ASSUME c \notin raced, rows[c] # Gone, FirstWord(t, c)'
                   PROVE /\ Single(t, c)'
                         /\ c \notin stale'[t] /\ ~Pending(t, c)' =>
                              /\ lists'[t][c] = rows[c].col /\ card'[t][c] = rows[c]
                              /\ \A s \in Reqs : Restores(s, t, c)' /\ reqs'[s].snapshot[c] # Nowhere =>
                                   reqs'[s].snapshot[c] = rows[c].col
      BY <2>3 DEF Added
    <3>2. Adding(r, c)
      BY <1>1, <1>3 DEF Adding, Ends
    <3>3. ~UnsaidOp(c, "add")
      <4>1. \A s \in Reqs : Adding(s, c) => s = r
        BY <3>2 DEF Births, AddRequests
      <4>2. QED
        BY <1>1, <4>1 DEF UnsaidOp, Unsaid, Adding
    <3>4. ~Unannounced(c) /\ \E e \in Events : Last(t, c, e) /\ e.kind = "add"
      BY <2>1, <2>5, <3>1, <3>3, UnannouncedIs DEF FirstWord, Settled
    <3>5. FirstWord(t, c)
      BY <3>4 DEF FirstWord
    <3>6. PICK e \in Events : Last(t, c, e) /\ e.kind = "add"
      BY <3>4
    <3>7. e.to \in Places /\ reqs[r].to \in Places
      BY <1>1, <3>6, RequestCards DEF Events, Ends
    <3>8. e.to = reqs[r].to
      <4>1. AddedAt(t, c, reqs[r].to)
        BY <1>1, <3>2, <3>7 DEF Births, AddRequests
      <4>2. QED
        BY <3>6, <4>1 DEF AddedAt, Last
    <3>9. e.to = rows[c]
      <4>1. Says(t, c, e.to)
        BY <3>6 DEF Says
      <4>2. Agreed(c)
        OBVIOUS
      <4>3. QED
        BY <3>1, <3>4, <3>7, <4>1, <4>2 DEF Agreed
    <3>10. Added(t, c)
      BY <1>3 DEF Views, Viewed
    <3>11. /\ Single(t, c)
           /\ c \notin stale[t] /\ ~Pending(t, c) =>
                \A s \in Reqs : Restores(s, t, c) /\ reqs[s].snapshot[c] # Nowhere =>
                     reqs[s].snapshot[c] = rows[c].col
      BY <3>1, <3>5, <3>10 DEF Added
    <3>12. /\ Pending(t, c)' <=> Pending(t, c)
           /\ \A s \in Reqs : Restores(s, t, c)' =>
                   Restores(s, t, c) /\ reqs'[s].snapshot = reqs[s].snapshot
      BY <1>3, <2>2
    <3>13. QED
      BY <1>3, <2>5, <2>6, <3>8, <3>9, <3>11, <3>12
  <2>11. Viewed(t, c)'
    BY <2>7, <2>8, <2>9, <2>10 DEF Viewed
  <2>12. ASSUME NEW u \in Tabs, NEW d \in Cards PROVE Viewed(u, d)'
    BY <2>4, <2>11, SameView DEF Views
  <2>13. ASSUME NEW d \in Cards PROVE Agreed(d)'
    <3>1. ASSUME NEW u \in Tabs, NEW p, Says(u, d, p)' PROVE Says(u, d, p)
      <4>1. CASE u # t \/ d # c
        BY <2>4, <3>1, <4>1, SameSaid
      <4>2. CASE u = t /\ d = c
        BY <2>5, <2>6, <3>1, <4>2 DEF Says
      <4>3. QED
        BY <4>1, <4>2
    <3>2. (Unannounced(d)' <=> Unannounced(d)) /\ rows'[d] = rows[d] /\ (d \in raced' <=> d \in raced)
      BY <2>1, <2>3, UnannouncedIs DEF Settled
    <3>3. QED
      BY <3>1, <3>2, StillAgreed
  <2>14. QED
    BY <2>12, <2>13 DEF Views
<1>4. QED
  BY <1>1, <1>2, <1>3

\* A snapshot put back is right for the cards it may restore, and marks the others.
LEMMA RevertViews ==
  ASSUME TypeOK, Whole, Views, \A c \in Cards : Agreed(c), NEW r \in Reqs, Fail(r) \/ Cut(r)
  PROVE Views' /\ \A c \in Cards : Agreed(c)'
<1>1. /\ UNCHANGED <<server, live, inbox>>
      /\ Ends(r) \/ Leaves(r)
      /\ Ends(r) => reqs[r].pc = "refused"
      /\ Reverts(r) \/ UNCHANGED <<store, stale>>
  <2>1. CASE Fail(r)
    BY <2>1, FailEffect
  <2>2. CASE Cut(r)
    <3>1. Leaves(r) => ~Ends(r)
      BY DEF Leaves, Ends
    <3>2. QED
      BY <2>2, <3>1, CutEffect
  <2>3. QED
    BY <2>1, <2>2
<1>2. CASE ~Reverts(r)
  BY <1>1, <1>2, QuietAnswerViews
<1>3. CASE Reverts(r)
  <2>1. PICK t \in Tabs, c \in Cards :
          /\ t = reqs[r].tab /\ c = reqs[r].card /\ reqs[r].op # "add"
          /\ lists'[t] = reqs[r].snapshot
          /\ stale'[t] = stale[t] \cup {c} \cup reqs[r].touched
          /\ \A u \in Tabs \ {t} : lists'[u] = lists[u] /\ stale'[u] = stale[u]
          /\ card' = card
    BY <1>3 DEF Reverts
  <2>2. /\ Settled /\ (\A s \in Reqs, d \in Cards : Unsaid(s, d)' <=> Unsaid(s, d))
        /\ Open(r)
    BY <1>1, EndSays DEF Ends, Leaves
  <2>3. /\ rows' = rows /\ used' = used /\ raced' = raced /\ inbox' = inbox
    BY <1>1 DEF server
  <2>4. ASSUME NEW u \in Tabs, NEW d \in Cards
        PROVE \A s \in Reqs : Restores(s, u, d)' =>
                   Restores(s, u, d) /\ reqs'[s].snapshot = reqs[s].snapshot
    <3>1. /\ ~Restores(r, u, d)'
          /\ \A s \in Reqs \ {r} : /\ Restores(s, u, d)' <=> Restores(s, u, d)
                                   /\ reqs'[s].snapshot = reqs[s].snapshot
      BY <1>1, EndSays
    <3>2. QED
      BY <3>1
  <2>5. ASSUME NEW u \in Tabs, NEW d \in Cards, u # t \/ d # c
        PROVE /\ Pending(u, d)' <=> Pending(u, d)
              /\ Deleting(u, d)' <=> Deleting(u, d)
    BY <1>1, <2>1, <2>5, EndSays
  <2>6. ASSUME NEW u \in Tabs, NEW d \in Cards, u # t PROVE SameAt(u, d)
    <3>1. inbox'[u] = inbox[u] /\ stale'[u] = stale[u] /\ lists'[u][d] = lists[u][d]
          /\ card'[u][d] = card[u][d]
      BY <2>1, <2>3, <2>6
    <3>2. QED
      BY <2>2, <2>3, <2>4, <2>5, <2>6, <3>1, SettledAt
  <2>7. ASSUME NEW d \in Cards
        PROVE /\ About(t, d)' <=> About(t, d)
              /\ \A k : Told(t, d, k)' <=> Told(t, d, k)
              /\ \A e : Last(t, d, e)' <=> Last(t, d, e)
              /\ Single(t, d)' <=> Single(t, d)
              /\ Buried(t, d)' <=> Buried(t, d)
    <3>1. inbox'[t] = inbox[t]
      BY <2>3
    <3>2. QED
      BY <3>1, SameWords
  <2>8. ASSUME NEW d \in Cards, d \in stale'[t] PROVE Viewed(t, d)'
    <3>1. Ended(t, d) /\ Added(t, d)
      BY DEF Views, Viewed
    <3>2. Listed(t, d)' /\ Kept(t, d)'
      BY <2>8 DEF Listed, Kept
    <3>3. Ended(t, d)'
      BY <2>2, <2>3, <2>7, <2>8, <3>1 DEF Ended, Settled
    <3>4. Added(t, d)'
      <4>1. rows[d] # Gone => (FirstWord(t, d)' <=> FirstWord(t, d))
        BY <2>2, <2>7 DEF FirstWord, Settled
      <4>2. rows'[d] = rows[d] /\ (d \in raced' <=> d \in raced)
        BY <2>3
      <4>3. d \notin raced /\ rows[d] # Gone /\ FirstWord(t, d) => Single(t, d)
        BY <3>1 DEF Added
      <4>4. QED
        BY <2>7, <2>8, <4>1, <4>2, <4>3 DEF Added
    <3>5. QED
      BY <3>2, <3>3, <3>4 DEF Viewed
  <2>9. ASSUME NEW d \in Cards, d \notin stale'[t]
        PROVE /\ d # c /\ d \notin stale[t] /\ Restores(r, t, d)
              /\ lists'[t][d] = reqs[r].snapshot[d] /\ card'[t][d] = card[t][d]
              /\ Pending(t, d)' <=> Pending(t, d)
              /\ Deleting(t, d)' <=> Deleting(t, d)
    <3>1. d # c /\ d \notin stale[t] /\ d \notin reqs[r].touched
      BY <2>1, <2>9
    <3>2. Restores(r, t, d)
      BY <2>1, <2>2, <3>1 DEF Restores
    <3>3. QED
      BY <2>1, <2>5, <3>1, <3>2
  <2>10. ASSUME NEW d \in Cards, d \notin stale'[t] PROVE Viewed(t, d)'
    <3>1. Listed(t, d) /\ Ended(t, d) /\ Kept(t, d) /\ Added(t, d)
      BY DEF Views, Viewed
    <3>2. \A s \in Reqs : Restores(s, t, d)' =>
                   Restores(s, t, d) /\ reqs'[s].snapshot = reqs[s].snapshot
      BY <2>4
    <3>3. Listed(t, d)'
      BY <2>2, <2>3, <2>7, <2>9, <2>10, <3>1, <3>2 DEF Listed, Settled
    <3>4. Ended(t, d)'
      BY <2>2, <2>3, <2>7, <2>9, <2>10, <3>1, <3>2 DEF Ended, Settled
    <3>5. Kept(t, d)'
      BY <2>7, <2>9, <2>10, <3>1, <3>2 DEF Kept
    <3>6. Added(t, d)'
      <4>1. rows[d] # Gone => (FirstWord(t, d)' <=> FirstWord(t, d))
        BY <2>2, <2>7 DEF FirstWord, Settled
      <4>2. rows'[d] = rows[d] /\ (d \in raced' <=> d \in raced)
        BY <2>3
      <4>3. d \notin raced /\ rows[d] # Gone /\ FirstWord(t, d) =>
              /\ Single(t, d)
              /\ d \notin stale[t] /\ ~Pending(t, d) =>
                   /\ \A s \in Reqs : Restores(s, t, d) /\ reqs[s].snapshot[d] # Nowhere =>
                        reqs[s].snapshot[d] = rows[d].col /\ card[t][d] = rows[d]
        BY <3>1 DEF Added
      <4>4. QED
        BY <2>7, <2>9, <2>10, <3>2, <4>1, <4>2, <4>3 DEF Added
    <3>7. QED
      BY <3>3, <3>4, <3>5, <3>6 DEF Viewed
  <2>11. ASSUME NEW u \in Tabs, NEW d \in Cards PROVE Viewed(u, d)'
    BY <2>6, <2>8, <2>10, SameView DEF Views
  <2>12. ASSUME NEW d \in Cards PROVE Agreed(d)'
    <3>1. ASSUME NEW u \in Tabs, NEW p, Says(u, d, p)' PROVE Says(u, d, p)
      <4>1. CASE u # t
        BY <2>6, <3>1, <4>1, SameSaid
      <4>2. CASE u = t /\ d \in stale'[t]
        BY <2>7, <3>1, <4>2 DEF Says
      <4>3. CASE u = t /\ d \notin stale'[t]
        <5>1. Kept(t, d)
          BY DEF Views, Viewed
        <5>2. ~About(t, d) /\ ~Pending(t, d) => lists'[t][d] = lists[t][d]
          BY <2>9, <4>3, <5>1 DEF Kept
        <5>3. ~About(t, d) /\ ~Pending(t, d) => Shown(t, d)' = Shown(t, d)
          BY <2>9, <4>3, <5>2 DEF Shown
        <5>4. QED
          BY <2>7, <2>9, <3>1, <4>3, <5>3 DEF Says
      <4>4. QED
        BY <4>1, <4>2, <4>3
    <3>2. (Unannounced(d)' <=> Unannounced(d)) /\ rows'[d] = rows[d] /\ (d \in raced' <=> d \in raced)
      BY <2>2, <2>3, UnannouncedIs
    <3>3. QED
      BY <3>1, <3>2, StillAgreed
  <2>13. QED
    BY <2>11, <2>12 DEF Views
<1>4. QED
  BY <1>2, <1>3

-----------------------------------------------------------------------------
(* Views: what a page hears *)

\* A page takes the next broadcast: the last one about a card leaves it as announced.
LEMMA HearViews ==
  ASSUME TypeOK, Whole, Births, Deaths, Words, Views, \A c \in Cards : Agreed(c),
         NEW t \in Tabs, applyWsMessage(t)
  PROVE Views' /\ \A c \in Cards : Agreed(c)'
<1>1. PICK e \in Events :
          /\ TypeOK' /\ UNCHANGED server /\ Takes(t, e) /\ Hears(t, e.card)
          /\ e.kind # "delete" => e.to.col \in Columns
  BY HearEffect
<1>2. PICK c \in Cards : c = e.card
  BY <1>1 DEF Events
<1>3. /\ rows' = rows /\ used' = used /\ raced' = raced
      /\ inbox[t] # <<>> /\ e = inbox[t][1] /\ inbox'[t] = Tail(inbox[t])
      /\ \A u \in Tabs \ {t} : inbox'[u] = inbox[u] /\ stale'[u] = stale[u]
      /\ StoreAt(t, c) /\ Hears(t, c)
  BY <1>1, <1>2 DEF Takes, server
<1>4. /\ Settled
      /\ \A s \in Reqs, d \in Cards : Unsaid(s, d)' <=> Unsaid(s, d)
  BY <1>3, HearSays
<1>5. ASSUME NEW u \in Tabs, NEW d \in Cards
      PROVE /\ Pending(u, d)' <=> Pending(u, d)
            /\ Deleting(u, d)' <=> Deleting(u, d)
            /\ \A s \in Reqs : Restores(s, u, d)' =>
                 Restores(s, u, d) /\ reqs'[s].snapshot = reqs[s].snapshot
  <2>1. \A s \in Reqs : Restores(s, u, d) => Open(s)
    BY DEF Restores
  <2>2. QED
    BY <1>3, <2>1, HearSays
<1>6. \A s \in Reqs : ~Restores(s, t, c)'
  BY <1>3, HearSays
<1>7. ASSUME NEW u \in Tabs, NEW d \in Cards, u # t \/ d # c PROVE SameAt(u, d)
  <2>1. lists'[u][d] = lists[u][d] /\ card'[u][d] = card[u][d]
    BY <1>3, <1>7 DEF StoreAt
  <2>2. d \in stale'[u] <=> d \in stale[u]
    <3>1. CASE u # t
      BY <1>3, <3>1
    <3>2. CASE u = t /\ d # c
      <4>1. stale'[t] = stale[t] \/ stale'[t] = stale[t] \ {c}
        BY <1>1, <1>2 DEF Takes
      <4>2. QED
        BY <3>2, <4>1
    <3>3. QED
      BY <1>7, <3>1, <3>2
  <2>3. /\ About(u, d)' <=> About(u, d)
        /\ \A k : Told(u, d, k)' <=> Told(u, d, k)
        /\ \A f : Last(u, d, f)' <=> Last(u, d, f)
        /\ Single(u, d)' <=> Single(u, d)
        /\ Buried(u, d)' <=> Buried(u, d)
    <3>1. CASE u # t
      <4>1. inbox'[u] = inbox[u]
        BY <1>3, <3>1
      <4>2. QED
        BY <4>1, SameWords
    <3>2. CASE u = t /\ d # c
      BY <1>2, <1>3, <3>2, WordTaken
    <3>3. QED
      BY <1>7, <3>1, <3>2
  <2>4. QED
    BY <1>3, <1>4, <1>5, <2>1, <2>2, <2>3 DEF SameAt, Settled
<1>8. /\ Told(t, c, e.kind) /\ About(t, c) /\ e.card = c
      /\ \A k : Told(t, c, k) /\ k # e.kind => Told(t, c, k)'
      /\ \A f : Last(t, c, f)' => Last(t, c, f)
      /\ Buried(t, c) => Buried(t, c)'
      /\ ~About(t, c)' => Last(t, c, e)
      /\ About(t, c)' => ~Single(t, c)
      /\ e.kind = "add" /\ Buried(t, c) => Told(t, c, "delete")'
  <2>1. Told(t, c, e.kind)
    BY <1>2, <1>3, WordTaken
  <2>2. QED
    BY <1>2, <1>3, <2>1, WordTaken, ToldIsAbout
<1>9. e.kind \in {"move", "add", "delete"}
  BY <1>1 DEF Events
<1>10. Listed(t, c) /\ Ended(t, c) /\ Kept(t, c) /\ Added(t, c)
  BY DEF Views, Viewed
<1>12. ~(c \notin raced /\ rows[c] # Gone /\ FirstWord(t, c)')
  <2>1. SUFFICES ASSUME c \notin raced, rows[c] # Gone, FirstWord(t, c)' PROVE FALSE
    OBVIOUS
  <2>2. ~UnsaidOp(c, "add")
    BY <1>8, <2>1 DEF Words, UnsaidOp
  <2>3. ~UnsaidOp(c, "add")'
    BY <1>4, <2>2 DEF Settled
  <2>4. PICK f \in Events : Last(t, c, f)' /\ f.kind = "add" /\ ~Unannounced(c)'
    BY <2>1, <2>3 DEF FirstWord
  <2>5. About(t, c)'
    BY <2>4 DEF Last, About
  <2>6. FirstWord(t, c)
    BY <1>4, <1>8, <2>4, UnannouncedIs DEF FirstWord
  <2>7. QED
    BY <1>8, <1>10, <2>1, <2>5, <2>6 DEF Added
<1>13. Kept(t, c)' /\ Added(t, c)'
  BY <1>3, <1>6, <1>12 DEF Kept, Added
<1>14. e.kind = "delete" => rows[c] = Gone /\ lists'[t][c] = Nowhere
  BY <1>1, <1>2, <1>8 DEF Deaths, Takes
<1>15. e.kind = "add" =>
         /\ lists'[t][c] # Nowhere
         /\ IF lists[t][c] = Nowhere
            THEN lists'[t][c] = e.to.col /\ card'[t][c] = e.to
            ELSE /\ lists'[t][c] = lists[t][c] /\ card'[t][c] = card[t][c]
                 /\ stale'[t] = stale[t]
  <2>1. SUFFICES ASSUME e.kind = "add"
                 PROVE /\ lists'[t][c] # Nowhere
                       /\ IF lists[t][c] = Nowhere
                          THEN lists'[t][c] = e.to.col /\ card'[t][c] = e.to
                          ELSE /\ lists'[t][c] = lists[t][c] /\ card'[t][c] = card[t][c]
                               /\ stale'[t] = stale[t]
    OBVIOUS
  <2>2. CASE lists[t][c] = Nowhere
    BY <1>1, <1>2, <2>1, <2>2, Plain DEF Takes
  <2>3. CASE lists[t][c] # Nowhere
    BY <1>1, <1>2, <2>1, <2>3 DEF Takes, MakesUpFor
  <2>4. QED
    BY <2>2, <2>3
<1>16. e.kind = "move" =>
         IF lists[t][c] = Nowhere
         THEN /\ lists'[t][c] = lists[t][c] /\ card'[t][c] = card[t][c]
              /\ stale'[t] = stale[t]
         ELSE /\ lists'[t][c] = e.to.col /\ card'[t][c] = e.to /\ lists'[t][c] # Nowhere
              /\ rows[c] = Gone => stale'[t] = stale[t]
  <2>1. SUFFICES ASSUME e.kind = "move"
                 PROVE IF lists[t][c] = Nowhere
                       THEN /\ lists'[t][c] = lists[t][c] /\ card'[t][c] = card[t][c]
                            /\ stale'[t] = stale[t]
                       ELSE /\ lists'[t][c] = e.to.col /\ card'[t][c] = e.to
                            /\ lists'[t][c] # Nowhere
                            /\ rows[c] = Gone => stale'[t] = stale[t]
    OBVIOUS
  <2>2. CASE lists[t][c] = Nowhere
    BY <1>1, <1>2, <2>1, <2>2 DEF Takes, MakesUpFor
  <2>3. CASE lists[t][c] # Nowhere
    <3>1. lists'[t][c] = e.to.col /\ card'[t][c] = e.to /\ lists'[t][c] # Nowhere
      BY <1>1, <1>2, <2>1, <2>3, Plain DEF Takes
    <3>2. rows[c] = Gone => stale'[t] = stale[t]
      BY <1>1, <1>2, <2>1 DEF Takes, MakesUpFor
    <3>3. QED
      BY <2>3, <3>1, <3>2
  <2>4. QED
    BY <2>2, <2>3
<1>17. Listed(t, c)'
  <2>1. CASE e.kind = "delete"
    BY <1>3, <1>14, <2>1 DEF Listed
  <2>2. CASE e.kind = "add"
    BY <1>6, <1>15, <2>2 DEF Listed
  <2>3. CASE e.kind = "move" /\ lists[t][c] # Nowhere
    BY <1>6, <1>16, <2>3 DEF Listed
  <2>4. CASE e.kind = "move" /\ lists[t][c] = Nowhere
    <3>1. stale'[t] = stale[t]
      BY <1>16, <2>4
    <3>2. Deleting(t, c)' <=> Deleting(t, c)
      BY <1>5
    <3>3. rows[c] # Gone /\ ~UnsaidOp(c, "add") /\ c \notin stale[t] /\ ~Deleting(t, c)
            => Told(t, c, "add")
      BY <1>10, <2>4 DEF Listed
    <3>4. Told(t, c, "add") => Told(t, c, "add")'
      BY <1>8, <2>4
    <3>5. QED
      BY <1>3, <1>4, <3>1, <3>2, <3>3, <3>4 DEF Listed, Settled
  <2>5. QED
    BY <1>9, <2>1, <2>2, <2>3, <2>4
<1>18. Ended(t, c)'
  <2>1. SUFFICES ASSUME c \in used, rows[c] = Gone, c \notin raced \/ c \notin Fresh,
                        ~UnsaidOp(c, "delete")
                 PROVE /\ ~UnsaidOp(c, "add") /\ Buried(t, c)'
                       /\ c \notin stale'[t] => Told(t, c, "delete")' \/ lists'[t][c] = Nowhere
    BY <1>3, <1>4, <1>6 DEF Ended, Settled
  <2>2. /\ ~UnsaidOp(c, "add") /\ Buried(t, c)
        /\ c \notin stale[t] => Told(t, c, "delete") \/ lists[t][c] = Nowhere
    BY <1>10, <2>1 DEF Ended
  <2>3. CASE e.kind = "delete"
    BY <1>8, <1>14, <2>2, <2>3
  <2>4. CASE e.kind = "add"
    BY <1>8, <2>2, <2>4
  <2>5. CASE e.kind = "move"
    <3>1. stale'[t] = stale[t] /\ (lists[t][c] = Nowhere => lists'[t][c] = Nowhere)
      BY <1>16, <2>1, <2>5
    <3>2. Told(t, c, "delete") => Told(t, c, "delete")'
      BY <1>8, <2>5
    <3>3. QED
      BY <1>8, <2>2, <3>1, <3>2
  <2>6. QED
    BY <1>9, <2>3, <2>4, <2>5
<1>19. ASSUME NEW p \in Places, rows[c] # Gone, ~Unannounced(c), Says(t, c, p)'
       PROVE /\ c \notin Fresh => Says(t, c, p)
             /\ c \notin raced => Says(t, c, p) \/ p = rows[c]
  <2>1. CASE \E f \in Events : Last(t, c, f)' /\ f.to = p
    BY <1>8, <2>1 DEF Says
  <2>2. CASE ~(\E f \in Events : Last(t, c, f)' /\ f.to = p)
    <3>1. /\ ~About(t, c)' /\ c \notin stale'[t] /\ ~Pending(t, c)'
          /\ p = Shown(t, c)'
      BY <1>19, <2>2 DEF Says
    <3>2. Says(t, c, e.to) /\ Last(t, c, e)
      BY <1>8, <3>1 DEF Says
    <3>3. /\ e.to \in Places
          /\ lists'[t][c] = e.to.col /\ card'[t][c] = e.to /\ e.to.col # Nowhere => Shown(t, c)' = e.to
      <4>1. e.to \in Places /\ [e.to EXCEPT !.col = e.to.col] = e.to
        BY <1>1 DEF Events, Places
      <4>2. QED
        BY <4>1 DEF Shown
    <3>4. CASE e.kind = "move"
      <4>1. ASSUME lists[t][c] = Nowhere PROVE FALSE
        <5>1. ~Pending(t, c) /\ c \notin stale[t]
          BY <1>5, <1>16, <3>1, <3>4, <4>1
        <5>2. ~Deleting(t, c)
          BY <5>1 DEF Pending, Deleting
        <5>3. ~UnsaidOp(c, "add")
          BY <1>19, UnannouncedIs DEF UnsaidOp
        <5>4. Told(t, c, "add")
          BY <1>10, <1>19, <4>1, <5>1, <5>2, <5>3 DEF Listed
        <5>5. Told(t, c, "add")'
          BY <1>8, <3>4, <5>4
        <5>6. QED
          BY <3>1, <5>5 DEF Told, About
      <4>2. p = e.to
        BY <1>16, <3>1, <3>3, <3>4, <4>1
      <4>3. QED
        BY <3>2, <4>2
    <3>5. CASE e.kind = "add"
      <4>1. CASE lists[t][c] = Nowhere
        <5>1. p = e.to
          BY <1>15, <3>1, <3>3, <3>5, <4>1
        <5>2. QED
          BY <3>2, <5>1
      <4>2. CASE lists[t][c] # Nowhere
        <5>1. c \in Fresh
          BY <1>8, <3>5 DEF Births, AddEvents
        <5>2. ASSUME c \notin raced PROVE p = rows[c]
          <6>1. FirstWord(t, c)
            BY <1>19, <3>2, <3>5 DEF FirstWord
          <6>2. c \notin stale[t] /\ ~Pending(t, c)
            BY <1>5, <1>15, <3>1, <3>5, <4>2
          <6>3. lists[t][c] = rows[c].col /\ card[t][c] = rows[c]
            BY <1>10, <1>19, <4>2, <5>2, <6>1, <6>2 DEF Added
          <6>4. lists'[t][c] = rows[c].col /\ card'[t][c] = rows[c] /\ rows[c].col # Nowhere
            BY <1>15, <3>5, <4>2, <6>3
          <6>5. rows[c] \in Places /\ [rows[c] EXCEPT !.col = rows[c].col] = rows[c]
            BY DEF TypeOK, Places
          <6>6. QED
            BY <3>1, <6>4, <6>5 DEF Shown
        <5>3. QED
          BY <5>1, <5>2
      <4>3. QED
        BY <4>1, <4>2
    <3>6. QED
      BY <1>9, <1>14, <1>19, <3>4, <3>5
  <2>3. QED
    BY <2>1, <2>2
<1>20. Viewed(t, c)'
  BY <1>13, <1>17, <1>18 DEF Viewed
<1>21. ASSUME NEW u \in Tabs, NEW d \in Cards PROVE Viewed(u, d)'
  BY <1>7, <1>20, SameView DEF Views
<1>22. ASSUME NEW d \in Cards, d # c PROVE Agreed(d)'
  <2>1. ASSUME NEW u \in Tabs, NEW p \in Places, Says(u, d, p)' PROVE Says(u, d, p)
    BY <1>7, <1>22, <2>1, SameSaid
  <2>2. (Unannounced(d)' <=> Unannounced(d)) /\ rows'[d] = rows[d] /\ (d \in raced' <=> d \in raced)
    BY <1>3, <1>4, UnannouncedIs
  <2>3. QED
    BY <2>1, <2>2, StillAgreed
<1>23. Agreed(c)'
  <2>1. Unannounced(c)' <=> Unannounced(c)
    BY <1>4, UnannouncedIs
  <2>2. ASSUME NEW u \in Tabs, NEW p \in Places, rows[c] # Gone, ~Unannounced(c), Says(u, c, p)'
        PROVE /\ c \notin Fresh => Says(u, c, p)
              /\ c \notin raced => Says(u, c, p) \/ p = rows[c]
    <3>1. CASE u = t
      BY <1>19, <2>2, <3>1
    <3>2. CASE u # t
      BY <1>7, <2>2, <3>2, SameSaid
    <3>3. QED
      BY <3>1, <3>2
  <2>3. Agreed(c)
    OBVIOUS
  <2>4. ASSUME rows[c] # Gone, ~Unannounced(c), c \notin raced
        PROVE \A u \in Tabs, p \in Places : Says(u, c, p)' => p = rows[c]
    BY <2>2, <2>3, <2>4 DEF Agreed
  <2>5. ASSUME rows[c] # Gone, ~Unannounced(c), c \notin Fresh
        PROVE \A u, v \in Tabs, p, q \in Places : Says(u, c, p)' /\ Says(v, c, q)' => p = q
    BY <2>2, <2>3, <2>5 DEF Agreed
  <2>6. QED
    BY <1>3, <2>1, <2>4, <2>5 DEF Agreed
<1>24. QED
  BY <1>21, <1>22, <1>23 DEF Views

-----------------------------------------------------------------------------
(* Views: sockets, loads and the process *)

\* A page that loses its socket misses what was on its way.
LEMMA DropViews ==
  ASSUME TypeOK, Whole, Views, \A c \in Cards : Agreed(c), NEW t \in Tabs, Drop(t)
  PROVE Views' /\ \A c \in Cards : Agreed(c)'
<1>1. /\ UNCHANGED <<server, reqs, store>>
      /\ inbox'[t] = <<>> /\ stale'[t] = stale[t] \cup Underway(t)
      /\ \A u \in Tabs \ {t} : inbox'[u] = inbox[u] /\ stale'[u] = stale[u]
  BY DropEffect
<1>2. /\ \A s \in Reqs, d \in Cards : Unsaid(s, d)' <=> Unsaid(s, d)
      /\ \A u \in Tabs, d \in Cards :
           /\ Pending(u, d)' <=> Pending(u, d)
           /\ Deleting(u, d)' <=> Deleting(u, d)
           /\ \A s \in Reqs : Restores(s, u, d)' =>
                Restores(s, u, d) /\ reqs'[s].snapshot = reqs[s].snapshot
  BY <1>1 DEF Unsaid, Pending, Deleting, Restores, Open
<1>3. Settled
  BY <1>1, <1>2, AsSaid
<1>4. rows' = rows /\ used' = used /\ raced' = raced /\ lists' = lists /\ card' = card
  BY <1>1 DEF server, store
<1>5. ASSUME NEW u \in Tabs \ {t}, NEW d \in Cards PROVE SameAt(u, d)
  BY <1>1, <1>2, <1>3, <1>4, SettledAt
<1>6. ASSUME NEW c \in Cards
      PROVE /\ ~About(t, c)' /\ (\A k : ~Told(t, c, k)') /\ (\A e : ~Last(t, c, e)')
            /\ Single(t, c)' /\ Buried(t, c)'
            /\ c \notin stale'[t] => c \notin stale[t] /\ ~About(t, c) /\ \A k : ~Told(t, c, k)
  BY <1>1, NoWords, UnderwayIs, ToldIsAbout
<1>7. ASSUME NEW c \in Cards PROVE Viewed(t, c)'
  <2>1. Listed(t, c) /\ Ended(t, c) /\ Kept(t, c) /\ Added(t, c)
    BY DEF Views, Viewed
  <2>2. Listed(t, c)'
    BY <1>2, <1>3, <1>4, <1>6, <2>1 DEF Listed, Settled
  <2>3. Ended(t, c)'
    BY <1>2, <1>3, <1>4, <1>6, <2>1 DEF Ended, Settled
  <2>4. Kept(t, c)'
    BY <1>2, <1>4, <1>6, <2>1 DEF Kept
  <2>5. Added(t, c)'
    <3>1. FirstWord(t, c)' => FirstWord(t, c)
      BY <1>3, <1>6 DEF FirstWord, Settled
    <3>2. QED
      BY <1>2, <1>4, <1>6, <2>1, <3>1 DEF Added
  <2>6. QED
    BY <2>2, <2>3, <2>4, <2>5 DEF Viewed
<1>8. ASSUME NEW u \in Tabs, NEW d \in Cards PROVE Viewed(u, d)'
  BY <1>5, <1>7, SameView DEF Views
<1>9. ASSUME NEW d \in Cards PROVE Agreed(d)'
  <2>1. ASSUME NEW u \in Tabs, NEW p, Says(u, d, p)' PROVE Says(u, d, p)
    <3>1. CASE u # t
      BY <1>5, <2>1, <3>1, SameSaid
    <3>2. CASE u = t
      <4>1. ~About(t, d) /\ d \notin stale[t] /\ ~Pending(t, d) /\ p = Shown(t, d)
        BY <1>2, <1>4, <1>6, <2>1, <3>2 DEF Says, Shown
      <4>2. QED
        BY <3>2, <4>1 DEF Says
    <3>3. QED
      BY <3>1, <3>2
  <2>2. (Unannounced(d)' <=> Unannounced(d)) /\ rows'[d] = rows[d] /\ (d \in raced' <=> d \in raced)
    BY <1>2, <1>4, UnannouncedIs
  <2>3. QED
    BY <2>1, <2>2, StillAgreed
<1>10. QED
  BY <1>8, <1>9 DEF Views

\* A page that loads shows the table.
LEMMA LoadViews ==
  ASSUME TypeOK, Whole, Views, \A c \in Cards : Agreed(c), NEW t \in Tabs, fetchAll(t)
  PROVE Views' /\ \A c \in Cards : Agreed(c)'
<1>1. /\ UNCHANGED server
      /\ inbox'[t] = <<>> /\ stale'[t] = raced /\ Forsakes(t)
      /\ card'[t] = rows /\ \A c \in Cards : lists'[t][c] = rows[c].col
      /\ \A u \in Tabs \ {t} : /\ inbox'[u] = inbox[u] /\ stale'[u] = stale[u]
                               /\ lists'[u] = lists[u] /\ card'[u] = card[u]
  BY LoadEffect
<1>2. /\ Settled /\ \A s \in Reqs, d \in Cards : Unsaid(s, d)' <=> Unsaid(s, d)
      /\ \A d \in Cards : ~Pending(t, d)' /\ ~Deleting(t, d)'
                          /\ \A s \in Reqs : ~Restores(s, t, d)'
      /\ \A u \in Tabs \ {t}, d \in Cards :
             /\ Pending(u, d)' <=> Pending(u, d)
             /\ Deleting(u, d)' <=> Deleting(u, d)
             /\ \A s \in Reqs : Restores(s, u, d)' =>
                  Restores(s, u, d) /\ reqs'[s].snapshot = reqs[s].snapshot
  BY <1>1, ForsakeSays
<1>3. rows' = rows /\ used' = used /\ raced' = raced
  BY <1>1 DEF server
<1>4. ASSUME NEW u \in Tabs \ {t}, NEW d \in Cards PROVE SameAt(u, d)
  BY <1>1, <1>2, <1>3, SettledAt
<1>5. ASSUME NEW c \in Cards
      PROVE /\ ~About(t, c)' /\ (\A k : ~Told(t, c, k)') /\ (\A e : ~Last(t, c, e)')
            /\ Single(t, c)' /\ Buried(t, c)'
            /\ lists'[t][c] = rows[c].col /\ card'[t][c] = rows[c]
            /\ rows[c] # Gone => rows[c].col # Nowhere
            /\ rows[c] = Gone => rows[c].col = Nowhere
  BY <1>1, NoWords, Plain DEF Whole, WholeRows
<1>6. ASSUME NEW c \in Cards PROVE Viewed(t, c)'
  <2>1. Ended(t, c)
    BY DEF Views, Viewed
  <2>2. Listed(t, c)'
    BY <1>2, <1>3, <1>5 DEF Listed
  <2>3. Ended(t, c)'
    BY <1>2, <1>3, <1>5, <2>1 DEF Ended, Settled
  <2>4. Kept(t, c)'
    BY <1>2 DEF Kept
  <2>5. Added(t, c)'
    BY <1>2, <1>3, <1>5 DEF Added
  <2>6. QED
    BY <2>2, <2>3, <2>4, <2>5 DEF Viewed
<1>7. ASSUME NEW u \in Tabs, NEW d \in Cards PROVE Viewed(u, d)'
  BY <1>4, <1>6, SameView DEF Views
<1>8. ASSUME NEW c \in Cards, NEW p, Says(t, c, p)', rows[c] # Gone
      PROVE c \notin raced /\ p = rows[c]
  <2>1. c \notin stale'[t] /\ p = Shown(t, c)'
    BY <1>5, <1>8 DEF Says
  <2>2. [rows[c] EXCEPT !.col = rows[c].col] = rows[c]
    BY DEF TypeOK, Places
  <2>3. QED
    BY <1>1, <1>5, <1>8, <2>1, <2>2 DEF Shown
<1>9. ASSUME NEW d \in Cards PROVE Agreed(d)'
  <2>1. (Unannounced(d)' <=> Unannounced(d)) /\ rows'[d] = rows[d] /\ (d \in raced' <=> d \in raced)
    BY <1>2, <1>3, UnannouncedIs
  <2>2. \A u \in Tabs \ {t}, p \in Places : Says(u, d, p)' => Says(u, d, p)
    BY <1>4, SameSaid
  <2>3. Agreed(d)
    OBVIOUS
  <2>4. ASSUME rows[d] # Gone, ~Unannounced(d), d \notin raced
        PROVE \A u \in Tabs, p \in Places : Says(u, d, p)' => p = rows[d]
    <3>1. TAKE u \in Tabs, p \in Places
    <3>2. CASE u = t
      BY <1>8, <2>4, <3>2
    <3>3. CASE u # t
      BY <2>2, <2>3, <2>4, <3>3 DEF Agreed
    <3>4. QED
      BY <3>2, <3>3
  <2>5. ASSUME rows[d] # Gone, ~Unannounced(d), d \notin Fresh
        PROVE \A u, v \in Tabs, p, q \in Places : Says(u, d, p)' /\ Says(v, d, q)' => p = q
    <3>1. CASE d \notin raced
      BY <2>4, <2>5, <3>1
    <3>2. CASE d \in raced
      <4>1. \A p \in Places : ~Says(t, d, p)'
        BY <1>8, <2>5, <3>2
      <4>2. QED
        BY <2>2, <2>3, <2>5, <4>1 DEF Agreed
    <3>3. QED
      BY <3>1, <3>2
  <2>6. QED
    BY <2>1, <2>4, <2>5 DEF Agreed
<1>10. QED
  BY <1>7, <1>9 DEF Views

\* After a restart pages missed what was on its way and what was never announced.
LEMMA RestartViews ==
  ASSUME TypeOK, Whole, Views, \A c \in Cards : Agreed(c), Restart
  PROVE Views' /\ \A c \in Cards : Agreed(c)'
<1>1. /\ UNCHANGED <<server, store>> /\ Dies
      /\ \A t \in Tabs :
           inbox'[t] = <<>>
           /\ stale'[t] = stale[t] \cup Underway(t) \cup {c \in Cards : Unannounced(c)}
  BY RestartEffect
<1>2. /\ \A s \in Reqs, d \in Cards : ~Unsaid(s, d)'
      /\ \A u \in Tabs, d \in Cards : /\ Pending(u, d) => Pending(u, d)'
                                      /\ Deleting(u, d) => Deleting(u, d)'
      /\ \A s \in Reqs, u \in Tabs, d \in Cards :
           Restores(s, u, d)' => Restores(s, u, d) /\ reqs'[s].snapshot = reqs[s].snapshot
  BY <1>1, DieSays
<1>3. \A d \in Cards : \A op : ~UnsaidOp(d, op)'
  BY <1>2 DEF UnsaidOp
<1>4. rows' = rows /\ used' = used /\ raced' = raced /\ lists' = lists /\ card' = card
  BY <1>1 DEF server, store
<1>5. \A d \in Cards : ~Unannounced(d) => \A op : ~UnsaidOp(d, op)
  BY UnannouncedIs DEF UnsaidOp
<1>6. ASSUME NEW t \in Tabs, NEW c \in Cards
      PROVE /\ ~About(t, c)' /\ (\A k : ~Told(t, c, k)') /\ (\A e : ~Last(t, c, e)')
            /\ Single(t, c)' /\ Buried(t, c)'
            /\ c \notin stale'[t] => /\ c \notin stale[t] /\ ~Unannounced(c)
                                     /\ ~About(t, c) /\ \A k : ~Told(t, c, k)
  BY <1>1, NoWords, UnderwayIs, ToldIsAbout
<1>7. ASSUME NEW t \in Tabs, NEW c \in Cards PROVE Viewed(t, c)'
  <2>1. Listed(t, c) /\ Ended(t, c) /\ Kept(t, c) /\ Added(t, c)
    BY DEF Views, Viewed
  <2>2. Listed(t, c)'
    BY <1>2, <1>4, <1>5, <1>6, <2>1 DEF Listed
  <2>3. Ended(t, c)'
    BY <1>2, <1>3, <1>4, <1>5, <1>6, <2>1 DEF Ended
  <2>4. Kept(t, c)'
    BY <1>2, <1>4, <1>6, <2>1 DEF Kept
  <2>5. Added(t, c)'
    BY <1>3, <1>6 DEF Added, FirstWord
  <2>6. QED
    BY <2>2, <2>3, <2>4, <2>5 DEF Viewed
<1>8. ASSUME NEW d \in Cards PROVE Agreed(d)'
  <2>1. ASSUME NEW u \in Tabs, NEW p, Says(u, d, p)'
        PROVE Says(u, d, p) /\ ~Unannounced(d)
    BY <1>2, <1>4, <1>6, <2>1 DEF Says, Shown
  <2>2. Agreed(d)
    OBVIOUS
  <2>3. QED
    BY <1>4, <2>1, <2>2 DEF Agreed
<1>9. QED
  BY <1>7, <1>8 DEF Views

-----------------------------------------------------------------------------
(* The invariant *)

\* The invariant holds at the start
LEMMA InitHolds == Init => Inv
<1> SUFFICES ASSUME Init PROVE Inv
  OBVIOUS
<1>1. TypeOK /\ Whole
  BY InitTypes
<1>2. /\ \A c \in Cards : rows[c] = IF c \in Fresh THEN Gone ELSE Start
      /\ used = Cards \ Fresh
      /\ \A r \in Reqs : reqs[r] = Idle
      /\ \A t \in Tabs : inbox[t] = <<>>
      /\ \A t \in Tabs, c \in Cards : lists[t][c] = rows[c].col /\ card[t][c] = rows[c]
  BY DEF Init
<1>3. \A r \in Reqs : ~Open(r)
  BY <1>2 DEF Open
<1>4. /\ \A r \in Reqs, c \in Cards : ~Unsaid(r, c) /\ ~Adding(r, c) /\ ~Deletes(r, c)
      /\ \A r \in Reqs, t \in Tabs, c \in Cards : ~Restores(r, t, c)
  BY <1>3 DEF Unsaid, Restores, Adding, Deletes
<1>5. ASSUME NEW t \in Tabs, NEW c \in Cards
      PROVE /\ ~About(t, c) /\ Single(t, c) /\ Buried(t, c)
            /\ (\A k : ~Told(t, c, k)) /\ (\A e : ~Last(t, c, e))
  <2>1. DOMAIN inbox[t] = {}
    BY <1>2, NoEvents
  <2>2. QED
    BY <2>1 DEF About, Single, Buried, Told, Last
<1>6. \A c \in Cards : /\ c \in Fresh => rows[c] = Gone /\ rows[c].col = Nowhere
                       /\ c \notin Fresh => rows[c] # Gone /\ rows[c].col # Nowhere
                       /\ ~Unannounced(c)
  BY <1>2, <1>4, Plain, UnannouncedIs
<1>7. Births
  <2>1. UnusedCards
    BY <1>2, <1>3, <1>5, <1>6 DEF UnusedCards
  <2>2. AddRequests /\ AddEvents
    BY <1>4, <1>5 DEF AddRequests, AddEvents
  <2>3. QED
    BY <2>1, <2>2 DEF Births
<1>8. Deaths /\ Words
  BY <1>4, <1>5 DEF Deaths, Words
<1>9. ASSUME NEW t \in Tabs, NEW c \in Cards PROVE Viewed(t, c)
  <2>1. Listed(t, c)
    BY <1>2, <1>4, <1>6 DEF Listed
  <2>2. Ended(t, c)
    BY <1>2, <1>6 DEF Ended
  <2>3. Kept(t, c)
    BY <1>4 DEF Kept
  <2>4. Added(t, c)
    BY <1>4, <1>5 DEF Added, FirstWord, UnsaidOp
  <2>5. QED
    BY <2>1, <2>2, <2>3, <2>4 DEF Viewed
<1>10. ASSUME NEW c \in Cards PROVE Agreed(c)
  <2>1. ASSUME NEW t \in Tabs, NEW p, rows[c] # Gone, Says(t, c, p) PROVE p = rows[c]
    <3>1. p = Shown(t, c)
      BY <1>5, <2>1 DEF Says
    <3>2. lists[t][c] = rows[c].col /\ card[t][c] = rows[c] /\ rows[c].col # Nowhere
      BY <1>2, <1>6, <2>1
    <3>3. [rows[c] EXCEPT !.col = rows[c].col] = rows[c]
      BY <1>1 DEF TypeOK, Places
    <3>4. QED
      BY <3>1, <3>2, <3>3 DEF Shown
  <2>2. QED
    BY <2>1 DEF Agreed
<1>11. QED
  BY <1>1, <1>7, <1>8, <1>9, <1>10 DEF Inv, Views

\* and every step keeps it.
LEMMA NextHolds == Inv /\ [Next]_vars => Inv'
<1> SUFFICES ASSUME Inv, [Next]_vars PROVE Inv'
  OBVIOUS
<1> USE DEF Inv
<1>1. CASE \E t \in Tabs, r \in Reqs : handleDragEnd(t, r) \/ handleDeleteCard(t, r)
  <2>1. PICK t \in Tabs, r \in Reqs : handleDragEnd(t, r) \/ handleDeleteCard(t, r)
    BY <1>1
  <2>2. TypeOK' /\ Whole'
    BY <2>1, DragEffect, DeleteEffect
  <2>3. Births' /\ Ordinary
    BY <2>1, PageBirths, PageOrdinary
  <2>4. Views' /\ \A c \in Cards : Agreed(c)'
    BY <2>1, PageViews
  <2>5. QED
    BY <2>2, <2>3, <2>4, OrdinaryDeaths, OrdinaryWords
<1>2. CASE \E t \in Tabs, r \in Reqs : handleAddCard(t, r)
  <2>1. PICK t \in Tabs, r \in Reqs : handleAddCard(t, r)
    BY <1>2
  <2>2. TypeOK' /\ Whole'
    BY <2>1, AddEffect
  <2>3. Births' /\ Ordinary
    BY <2>1, AddBirths, PageOrdinary
  <2>4. Views' /\ \A c \in Cards : Agreed(c)'
    BY <2>1, AddViews
  <2>5. QED
    BY <2>2, <2>3, <2>4, OrdinaryDeaths, OrdinaryWords
<1>3. CASE \E r \in Reqs : toggleDone(r) \/ completeMyTask(r)
  <2>1. PICK r \in Reqs : toggleDone(r) \/ completeMyTask(r)
    BY <1>3
  <2>2. TypeOK' /\ Whole'
    BY <2>1, OutsideEffect
  <2>3. Births' /\ Ordinary
    BY <2>1, OutsideBirths, OutsideOrdinary
  <2>4. Views' /\ \A c \in Cards : Agreed(c)'
    BY <2>1, OutsideViews
  <2>5. QED
    BY <2>2, <2>3, <2>4, OrdinaryDeaths, OrdinaryWords
<1>4. CASE \E r \in Reqs : cardContext(r) \/ Refuse(r)
  <2>1. PICK r \in Reqs : cardContext(r) \/ Refuse(r)
    BY <1>4
  <2>2. TypeOK' /\ Whole'
    BY <2>1, LookupEffect, RefuseEffect
  <2>3. Births' /\ Ordinary
    BY <2>1, HandlerBirths, HandlerOrdinary
  <2>4. Views' /\ \A c \in Cards : Agreed(c)'
    BY <2>1, HandlerViews
  <2>5. QED
    BY <2>2, <2>3, <2>4, OrdinaryDeaths, OrdinaryWords
<1>5. CASE \E r \in Reqs : Write(r)
  BY <1>5, WriteEffect, WriteBirths, WriteDeaths, WriteWords, WriteViews
<1>6. CASE \E r \in Reqs : GetCard(r)
  <2>1. PICK r \in Reqs : GetCard(r)
    BY <1>6
  <2>2. TypeOK' /\ Whole'
    BY <2>1, RereadEffect
  <2>3. Births' /\ Deaths' /\ Words'
    BY <2>1, HandlerBirths, RereadDeaths, RereadWords
  <2>4. Views' /\ \A c \in Cards : Agreed(c)'
    BY <2>1, HandlerViews
  <2>5. QED
    BY <2>2, <2>3, <2>4
<1>7. CASE \E r \in Reqs : emit(r)
  BY <1>7, EmitEffect, EmitBirths, EmitDeaths, EmitWords, EmitViews
<1>8. CASE \E r \in Reqs : Succeed(r) \/ Fail(r) \/ Cut(r)
  <2>1. PICK r \in Reqs : Succeed(r) \/ Fail(r) \/ Cut(r)
    BY <1>8
  <2>2. TypeOK' /\ Whole'
    BY <2>1, SucceedEffect, FailEffect, CutEffect
  <2>3. Births' /\ Ordinary
    BY <2>1, AnswerBirths, AnswerOrdinary
  <2>4. Views' /\ \A c \in Cards : Agreed(c)'
    BY <2>1, AddedViews, RevertViews
  <2>5. QED
    BY <2>2, <2>3, <2>4, OrdinaryDeaths, OrdinaryWords
<1>9. CASE \E t \in Tabs : applyWsMessage(t)
  <2>1. PICK t \in Tabs : applyWsMessage(t)
    BY <1>9
  <2>2. TypeOK' /\ Whole'
    BY <2>1, HearEffect
  <2>3. Births' /\ Ordinary
    BY <2>1, HearBirths, HearOrdinary
  <2>4. Views' /\ \A c \in Cards : Agreed(c)'
    BY <2>1, HearViews
  <2>5. QED
    BY <2>2, <2>3, <2>4, OrdinaryDeaths, OrdinaryWords
<1>10. CASE \E t \in Tabs : Drop(t) \/ Connect(t)
  <2>1. PICK t \in Tabs : Drop(t) \/ Connect(t)
    BY <1>10
  <2>2. TypeOK' /\ Whole'
    BY <2>1, DropEffect, ConnectEffect
  <2>3. Births' /\ Ordinary
    BY <2>1, SocketBirths, SocketOrdinary
  <2>4. Views' /\ \A c \in Cards : Agreed(c)'
    BY <2>1, DropViews, ConnectViews
  <2>5. QED
    BY <2>2, <2>3, <2>4, OrdinaryDeaths, OrdinaryWords
<1>11. CASE \E t \in Tabs : fetchAll(t)
  <2>1. PICK t \in Tabs : fetchAll(t)
    BY <1>11
  <2>2. TypeOK' /\ Whole'
    BY <2>1, LoadEffect
  <2>3. Births' /\ Ordinary
    BY <2>1, LoadBirths, LoadOrdinary
  <2>4. Views' /\ \A c \in Cards : Agreed(c)'
    BY <2>1, LoadViews
  <2>5. QED
    BY <2>2, <2>3, <2>4, OrdinaryDeaths, OrdinaryWords
<1>12. CASE Restart
  BY <1>12, RestartEffect, RestartBirths, RestartOrdinary, RestartViews, OrdinaryDeaths, OrdinaryWords
<1>13. CASE UNCHANGED vars
  <2>1. /\ UNCHANGED <<server, inbox, store, stale>> /\ UNCHANGED <<reqs, live, calls>>
    BY <1>13 DEF vars, server, store
  <2>2. TypeOK' /\ Whole'
    BY <2>1 DEF TypeOK, Whole, WholeRows, WholeReqs, WholeInbox, Open, server, store
  <2>3. /\ \A s \in Reqs, d \in Cards : Unsaid(s, d)' <=> Unsaid(s, d)
        /\ \A u \in Tabs, d \in Cards :
             /\ Pending(u, d)' <=> Pending(u, d)
             /\ Deleting(u, d)' <=> Deleting(u, d)
             /\ \A s \in Reqs : Restores(s, u, d)' =>
                  Restores(s, u, d) /\ reqs'[s].snapshot = reqs[s].snapshot
    BY <2>1 DEF Unsaid, Pending, Deleting, Restores, Open
  <2>4. Views' /\ \A c \in Cards : Agreed(c)'
    BY <2>1, <2>3, AsSaid, QuietView
  <2>5. Births'
    BY <2>1, SameWords, LesserBirths DEF Open, server, store
  <2>6. Deaths' /\ Words'
    BY <2>1 DEF Deaths, Words, Deletes, Told, About, Unsaid, Announces, Event, Kind, Open, server
  <2>7. QED
    BY <2>2, <2>4, <2>5, <2>6
<1>14. QED
  BY <1>1, <1>2, <1>3, <1>4, <1>5, <1>6, <1>7, <1>8, <1>9, <1>10, <1>11, <1>12, <1>13 DEF Next

\* The inductive invariant, for any number of pages, cards, requests and calls: what
\* pages show, what is on its way to them and what is still to be announced add up to
\* the table (the optimistic store, the card handlers and their broadcasts).
THEOREM BoardStaysInStep == Spec => []Inv
BY InitHolds, NextHolds, PTL DEF Spec

\* Types: every placement is one of the board's columns or none.
THEOREM TypeCorrect == Spec => []TypeOK
BY BoardStaysInStep, PTL DEF Inv

\* What a page shows is a placement.
LEMMA ShownIsPlace ==
  ASSUME TypeOK, NEW t \in Tabs, NEW c \in Cards
  PROVE /\ Shown(t, c) \in Places
        /\ lists[t][c] = Nowhere => Shown(t, c) = Gone
<1>1. card[t][c] \in Places /\ lists[t][c] \in ColumnOrNone
  BY DEF TypeOK
<1>2. [card[t][c] EXCEPT !.col = lists[t][c]] \in Places
  BY <1>1 DEF Places, ColumnOrNone
<1>3. QED
  BY <1>2, Plain DEF Shown

\* A quiet page tells what it shows, unless the table has no row: then it shows
\* none.
LEMMA QuietPage ==
  ASSUME Inv, NEW t \in Tabs, NEW c \in Cards, Quiet(t, c), c \notin stale[t]
  PROVE /\ rows[c] # Gone => Says(t, c, Shown(t, c))
        /\ rows[c] = Gone /\ (c \notin raced \/ c \notin Fresh) => Shown(t, c) = Gone
<1>1. inbox[t] = <<>> /\ ~Busy(t, c) /\ ~Unannounced(c)
  BY DEF Quiet
<1>2. ~About(t, c) /\ \A k : ~Told(t, c, k)
  BY <1>1, NoEvents DEF About, Told
<1>3. ~Pending(t, c)
  BY <1>1 DEF Busy, Pending
<1>4. rows[c] # Gone => Says(t, c, Shown(t, c))
  BY <1>2, <1>3 DEF Says
<1>5. ASSUME rows[c] = Gone, c \notin raced \/ c \notin Fresh PROVE lists[t][c] = Nowhere
  <2>1. CASE c \notin used
    BY <2>1 DEF Inv, Births, UnusedCards
  <2>2. CASE c \in used
    <3>1. ~UnsaidOp(c, "delete")
      BY <1>1, UnannouncedIs DEF UnsaidOp
    <3>2. Ended(t, c)
      BY DEF Inv, Views, Viewed
    <3>3. QED
      BY <1>2, <1>5, <2>2, <3>1, <3>2 DEF Ended
  <2>3. QED
    BY <2>1, <2>2
<1>6. QED
  BY <1>4, <1>5, ShownIsPlace DEF Inv

\* A connected page that has heard everything and asks for nothing shows a card where
\* the table has it, except for the cards that are accounted for (wsDispatch and the
\* store's setters against the card handlers).
THEOREM QuietTabsAreRight == Spec => []QuietTabsShowTheBoard
<1>1. Inv => QuietTabsShowTheBoard
  <2>1. SUFFICES ASSUME Inv, NEW t \in Tabs, NEW c \in Cards,
                        Quiet(t, c), c \notin stale[t] \cup raced
                 PROVE Shown(t, c) = rows[c]
    BY DEF QuietTabsShowTheBoard
  <2>2. CASE rows[c] = Gone
    BY <2>1, <2>2, QuietPage
  <2>3. CASE rows[c] # Gone
    <3>1. Says(t, c, Shown(t, c)) /\ Shown(t, c) \in Places /\ ~Unannounced(c)
      BY <2>1, <2>3, QuietPage, ShownIsPlace DEF Inv, Quiet
    <3>2. Agreed(c)
      BY <2>1 DEF Inv
    <3>3. QED
      BY <2>1, <2>3, <3>1, <3>2 DEF Agreed
  <2>4. QED
    BY <2>2, <2>3
<1>2. QED
  BY <1>1, BoardStaysInStep, PTL

\* Two such pages show a card in the same place even when handlers overtook each other
\* between write and broadcast: the last broadcast decides on both.
THEOREM QuietTabsAgree == Spec => []TabsAgree
<1>1. Inv => TabsAgree
  <2>1. SUFFICES ASSUME Inv, NEW t \in Tabs, NEW u \in Tabs, NEW c \in Cards \ Fresh,
                        Quiet(t, c), Quiet(u, c), c \notin stale[t] \cup stale[u]
                 PROVE Shown(t, c) = Shown(u, c)
    BY DEF TabsAgree
  <2>2. CASE rows[c] = Gone
    BY <2>1, <2>2, QuietPage
  <2>3. CASE rows[c] # Gone
    <3>1. /\ Says(t, c, Shown(t, c)) /\ Shown(t, c) \in Places /\ ~Unannounced(c)
          /\ Says(u, c, Shown(u, c)) /\ Shown(u, c) \in Places
      BY <2>1, <2>3, QuietPage, ShownIsPlace DEF Inv, Quiet
    <3>2. Agreed(c)
      BY <2>1 DEF Inv
    <3>3. QED
      BY <2>1, <2>3, <3>1, <3>2 DEF Agreed
  <2>4. QED
    BY <2>2, <2>3
<1>2. QED
  BY <1>1, BoardStaysInStep, PTL

=============================================================================
