-------------------------- MODULE CardDialog_proofs --------------------------
(***************************************************************************)
(* Proofs about CardDialog, for any fields, entries, tags, subtasks,        *)
(* columns, slots and bounds.  First the types (Typing), with lemmas that   *)
(* say handler by handler what a step does to the slots, the queue and the  *)
(* store; then one part of the inductive invariant after the other, each    *)
(* with a lemma for the tab's steps (Local) and one for the server's        *)
(* (ServerStep): what was entered, how subtasks are counted, which were     *)
(* made, what became of a deletion, what is known and shown of the row, and *)
(* what is known and shown of the list.  The theorems are at the end.       *)
(***************************************************************************)
EXTENDS CardDialog, FiniteSetTheorems, WellFoundedInduction, SequenceTheorems, TLAPS

\* The types.
Values == ({Blank} \cup UNION {Entries[f] : f \in Fields}) \cup SUBSET Tags
Forms == {g \in [Fields -> Values] : g["tags"] \in SUBSET Tags}
Saved == {g \in Forms : g["title"] # Blank}
Subtasks == [title : Titles, done : BOOLEAN]
Lists == UNION {[S -> Subtasks] : S \in {T \in SUBSET Subs : IsFiniteSet(T)}}
Rows == [fields : Saved, col : Columns, ver : Nat, subs : Lists, used : SUBSET Subs,
         listVer : Nat]
Stores == [fields : Saved, col : Columns, subs : Lists \cup {NoList},
           count : [total : Int, done : Int]]
Dialogs ==
  [open : {TRUE}, form : Forms, committed : Saved, touched : SUBSET Fields,
   focus : Typed \cup {None}, editing : Subs \cup {Nobody}, text : Titles \cup {Blank},
   known : SUBSET Tags, creating : BOOLEAN, failed : SUBSET Fields,
   dev : SUBSET DevFields]
Drafts ==
  [open : {TRUE}, home : Columns, col : Columns, titled : BOOLEAN, rest : BOOLEAN]
Deletions == [sub : Subs, toast : BOOLEAN]

People == {Me, None}
Bodies(f) ==
  {b \in [{f} -> Values] : /\ f = "tags" => b[f] \in SUBSET Tags
                           /\ f = "title" => b[f] # Blank}
SaveAsks ==
  {q \in [op : {"save"}, by : People, field : Fields, meant : BOOLEAN,
          body : UNION {Bodies(f) : f \in Fields}] : q.body \in Bodies(q.field)}
TagAsks == [op : {"tag"}, by : {Me}, tag : Tags, form : Forms]
AddAsks == [op : {"add"}, by : People, title : Titles]
ToggleAsks ==
  [op : {"toggle"}, by : People, sub : Subs, done : BOOLEAN, since : Nat, unsure : BOOLEAN]
RenameAsks == [op : {"rename"}, by : {Me}, sub : Subs, title : Titles]
DropAsks == [op : {"drop"}, by : People, sub : Subs]
MoveAsks ==
  {q \in [op : {"move"}, by : People, to : Columns, snapshot : Stores \cup {Gone}] :
     q.by = Me => q.snapshot \in Stores}
DeleteAsks ==
  {q \in [op : {"delete"}, by : People, snapshot : Stores \cup {Gone}] :
     q.by = Me => q.snapshot \in Stores}
CreateAsks ==
  [op : {"create"}, by : {Me}, col : Columns, rest : BOOLEAN, shown : Columns]
Asks ==
  SaveAsks \cup {Refetch} \cup TagAsks \cup AddAsks \cup ToggleAsks \cup RenameAsks
    \cup DropAsks \cup MoveAsks \cup DeleteAsks \cup CreateAsks
CardEvents == [kind : {"card"}, fields : Saved, ver : Nat]
ListEvents == [kind : {"subtasks"}, list : Lists, listVer : Nat]
Events == CardEvents \cup ListEvents \cup [kind : {"moved"}, to : Columns]
            \cup [kind : {"deleted"}]
Creations == [kind : {"made"}, sub : Subs, row : Subtasks, listVer : Nat]
Requests ==
  [pc : {"sent", "written", "answered"}, waits : BOOLEAN, ask : Asks,
   event : Events \cup {NoEvent}, made : Creations \cup {NoEvent}]

DbTypes == db = Gone \/ db \in Rows
BoardTypes ==
  /\ DOMAIN cols \in SUBSET Columns /\ tags \in SUBSET Tags /\ mine \in BOOLEAN
  /\ \E c \in DOMAIN cols : cols[c] # "DONE"
StoreTypes == store = Gone \/ store \in Stores
\* A field that differs from what was last saved was changed by this user, but for
\* a title that was emptied and went back to the card's.
Touched(d) ==
  \A f \in Fields : f # "title" /\ d.form[f] # d.committed[f] => f \in d.touched
DialogGood == dialog = NoDialog \/ (dialog \in Dialogs /\ Touched(dialog) /\ store # Gone)
DraftTypes == draft = NoDraft \/ draft \in Drafts
UndoTypes == undo \in Seq(Deletions)
ReqTypes == reqs \in [Slots -> {Idle} \cup Requests]
InboxTypes == inbox \in Seq(Events)
HistoryTypes ==
  /\ word \in [Fields -> Values \cup {None}] /\ doubt \in SUBSET Fields /\ listDoubt \in BOOLEAN
  /\ heard \in [row : Nat, list : Nat]
  /\ decided \in [Subs -> {None, "deleted", "again", "undone", "others"}]
\* What is saved was changed by whoever saves it, or is a title that went back.
Meant(q) == q.meant = TRUE \/ q.field = "title"
\* What request r, as far as it is, has with it.
Whole(r) ==
  /\ reqs[r].waits => reqs[r].ask.by = Me
  /\ reqs[r].ask.op = "get" => reqs[r].waits
  /\ reqs[r].ask.op = "save" => Meant(reqs[r].ask)
  /\ reqs[r].pc = "written" =>
       /\ reqs[r].event # NoEvent
       /\ reqs[r].ask.op \in {"save", "add", "toggle", "rename", "drop", "move", "delete"}
  /\ reqs[r].pc = "answered" => reqs[r].ask.op \in {"get", "tag", "add"}
  /\ reqs[r].ask.op = "get" /\ reqs[r].pc = "answered" => reqs[r].event \in ListEvents
  /\ reqs[r].ask.op = "add" /\ reqs[r].pc # "sent" => reqs[r].made # NoEvent
WholeReqs == \A r \in Slots : Open(r) => Whole(r)

Core ==
  /\ DbTypes /\ StoreTypes /\ UndoTypes /\ ReqTypes /\ WholeReqs /\ InboxTypes
  /\ HistoryTypes
Typing == Core /\ BoardTypes /\ DialogGood /\ DraftTypes
-----------------------------------------------------------------------------
\* The order that the library's well-founded minimum is about.
LEMMA LessThan == OpToRel(<, Nat) = {ss \in Nat \X Nat : ss[1] < ss[2]}
BY DEF OpToRel

\* The smallest of a set of numbers is one of them (FiniteSetsExt's Min).
LEMMA LeastIsIn == ASSUME NEW S \in SUBSET Nat, S # {} PROVE First(S) \in S
<1> DEFINE R == OpToRel(<, Nat)
<1>1. IsWellFoundedOn(R, Nat)
  BY NatLessThanWellFounded
<1>2. R = {ss \in Nat \X Nat : ss[1] < ss[2]}
  BY LessThan
<1> HIDE DEF R
<1>3. PICK x \in S : \A y \in S : ~(<<y, x>> \in R)
  BY <1>1, WFMin
<1>4. \A y \in S : x <= y
  <2>1. TAKE y \in S
  <2>2. <<y, x>> \in Nat \X Nat /\ <<y, x>>[1] = y /\ <<y, x>>[2] = x
    OBVIOUS
  <2>3. ~(y < x)
    BY <1>2, <1>3, <2>2
  <2>4. QED
    BY <2>3
<1>5. QED
  BY <1>4 DEF First, Min

\* The larger of two numbers (FiniteSetsExt's Max).
LEMMA Larger ==
  ASSUME NEW a \in Nat, NEW b \in Nat PROVE Max({a, b}) = IF a <= b THEN b ELSE a
<1> DEFINE m == IF a <= b THEN b ELSE a
<1>1. m \in {a, b} /\ \A y \in {a, b} : m >= y
  OBVIOUS
<1>2. \A x \in {a, b} : (\A y \in {a, b} : x >= y) => x = m
  OBVIOUS
<1>3. QED
  BY <1>1, <1>2 DEF Max

\* Names stand for different things.
LEMMA Plain ==
  /\ Gone \notin Rows /\ Gone \notin Stores /\ NoDialog \notin Dialogs
  /\ NoDraft \notin Drafts /\ Idle \notin Requests
  /\ NoEvent \notin Events /\ NoEvent \notin Creations /\ Nobody \notin Subs
  /\ NoDialog.open = FALSE /\ NoDraft.open = FALSE
  /\ Me # None /\ Me \in People /\ None \in People /\ NoEvent.kind = "none"
BY DialogAssumption DEF Gone, Rows, Stores, NoDialog, Dialogs, NoDraft, Drafts, Idle, Requests,
  NoEvent, Events, CardEvents, ListEvents, Creations, Nobody, People

\* The fields.
LEMMA TheFields ==
  /\ "title" \in Fields /\ "tags" \in Fields /\ "assignee_id" \in Fields
  /\ Typed \in SUBSET Fields /\ Picked \in SUBSET Fields /\ DevFields \in SUBSET Typed
  /\ "tags" \notin Typed /\ "tags" \notin Picked /\ "title" \notin Picked
  /\ "title" \notin DevFields
BY DialogAssumption DEF Typed, Picked, DevFields

\* A list is a function from finitely many ids of subtasks.
LEMMA ListIs ==
  ASSUME NEW l
  PROVE l \in Lists <=>
          /\ DOMAIN l \in SUBSET Subs /\ IsFiniteSet(DOMAIN l)
          /\ l = [s \in DOMAIN l |-> l[s]] /\ \A s \in DOMAIN l : l[s] \in Subtasks
<1>1. ASSUME l \in Lists
      PROVE /\ DOMAIN l \in SUBSET Subs /\ IsFiniteSet(DOMAIN l)
            /\ l = [s \in DOMAIN l |-> l[s]] /\ \A s \in DOMAIN l : l[s] \in Subtasks
  <2>1. PICK S \in SUBSET Subs : IsFiniteSet(S) /\ l \in [S -> Subtasks]
    BY <1>1 DEF Lists
  <2>2. QED
    BY <2>1
<1>2. ASSUME DOMAIN l \in SUBSET Subs, IsFiniteSet(DOMAIN l),
             l = [s \in DOMAIN l |-> l[s]], \A s \in DOMAIN l : l[s] \in Subtasks
      PROVE l \in Lists
  <2>1. l \in [DOMAIN l -> Subtasks]
    BY <1>2
  <2>2. QED
    BY <1>2, <2>1 DEF Lists
<1>3. QED
  BY <1>1, <1>2

\* The page's mark for a list it has not read is no list.
LEMMA NoListIsNone == NoList \notin Lists /\ DOMAIN NoList = {Nobody}
BY ListIs, Plain DEF NoList

\* A subtask more.
LEMMA WithIs ==
  ASSUME NEW l \in Lists, NEW s \in Subs, NEW sub \in Subtasks
  PROVE /\ With(l, s, sub) \in Lists /\ DOMAIN With(l, s, sub) = DOMAIN l \cup {s}
        /\ With(l, s, sub)[s] = sub
        /\ \A t \in DOMAIN l : t # s => With(l, s, sub)[t] = l[t]
<1>1. /\ DOMAIN With(l, s, sub) = DOMAIN l \cup {s} /\ With(l, s, sub)[s] = sub
      /\ \A t \in DOMAIN l : t # s => With(l, s, sub)[t] = l[t]
      /\ With(l, s, sub) = [t \in DOMAIN l \cup {s} |-> With(l, s, sub)[t]]
  BY DEF With
<1>2. IsFiniteSet(DOMAIN l \cup {s})
  BY ListIs, FS_AddElement
<1>3. \A t \in DOMAIN l \cup {s} : With(l, s, sub)[t] \in Subtasks
  BY <1>1, ListIs
<1>4. DOMAIN l \cup {s} \in SUBSET Subs
  BY ListIs
<1>5. QED
  BY <1>1, <1>2, <1>3, <1>4, ListIs

\* A subtask less.
LEMMA WithoutIs ==
  ASSUME NEW l \in Lists, NEW s
  PROVE /\ Without(l, s) \in Lists /\ DOMAIN Without(l, s) = DOMAIN l \ {s}
        /\ \A t \in DOMAIN l : t # s => Without(l, s)[t] = l[t]
<1>1. /\ DOMAIN Without(l, s) = DOMAIN l \ {s}
      /\ \A t \in DOMAIN l : t # s => Without(l, s)[t] = l[t]
      /\ Without(l, s) = [t \in DOMAIN l \ {s} |-> Without(l, s)[t]]
  BY DEF Without
<1>2. IsFiniteSet(DOMAIN l \ {s})
  BY ListIs, FS_RemoveElement
<1>3. DOMAIN l \ {s} \in SUBSET Subs /\ \A t \in DOMAIN l \ {s} : Without(l, s)[t] \in Subtasks
  BY <1>1, ListIs
<1>4. QED
  BY <1>1, <1>2, <1>3, ListIs

\* A subtask changed.
LEMMA ExceptIs ==
  ASSUME NEW l \in Lists, NEW s \in DOMAIN l, NEW sub \in Subtasks
  PROVE /\ [l EXCEPT ![s] = sub] \in Lists /\ DOMAIN [l EXCEPT ![s] = sub] = DOMAIN l
        /\ [l EXCEPT ![s] = sub][s] = sub
        /\ \A t \in DOMAIN l : t # s => [l EXCEPT ![s] = sub][t] = l[t]
<1> DEFINE m == [l EXCEPT ![s] = sub]
<1>1. /\ DOMAIN m = DOMAIN l /\ m[s] = sub
      /\ \A t \in DOMAIN l : t # s => m[t] = l[t]
      /\ m = [t \in DOMAIN l |-> m[t]]
  BY ListIs
<1>2. \A t \in DOMAIN m : m[t] \in Subtasks
  BY <1>1, ListIs
<1> HIDE DEF m
<1>3. DOMAIN l \in SUBSET Subs /\ IsFiniteSet(DOMAIN l)
  BY ListIs
<1>4. m \in Lists
  BY <1>1, <1>2, <1>3, ListIs
<1>5. QED
  BY <1>1, <1>4 DEF m

\* A count of a list.
LEMMA CountIs ==
  ASSUME NEW l \in Lists
  PROVE /\ Counts(l) \in [total : Int, done : Int]
        /\ IsFiniteSet(DOMAIN l) /\ IsFiniteSet({s \in DOMAIN l : l[s].done})
<1>1. IsFiniteSet(DOMAIN l)
  BY ListIs
<1>2. IsFiniteSet({s \in DOMAIN l : l[s].done})
  <2>1. {s \in DOMAIN l : l[s].done} \subseteq DOMAIN l
    OBVIOUS
  <2>2. QED
    BY <1>1, <2>1, FS_Subset
<1>3. Cardinality(DOMAIN l) \in Nat /\ Cardinality({s \in DOMAIN l : l[s].done}) \in Nat
  BY <1>1, <1>2, FS_CardinalityType
<1>4. QED
  BY <1>1, <1>2, <1>3 DEF Counts

\* What a request asks for.
LEMMA AskIs ==
  ASSUME NEW q \in Asks
  PROVE /\ q.op \in {"save", "get", "tag", "add", "toggle", "rename", "drop", "move",
                     "delete", "create"}
        /\ q.by \in People
        /\ q.op = "save" => q \in SaveAsks
        /\ q.op = "get" => q = Refetch
        /\ q.op = "tag" => q \in TagAsks
        /\ q.op = "add" => q \in AddAsks
        /\ q.op = "toggle" => q \in ToggleAsks
        /\ q.op = "rename" => q \in RenameAsks
        /\ q.op = "drop" => q \in DropAsks
        /\ q.op = "move" => q \in MoveAsks
        /\ q.op = "delete" => q \in DeleteAsks
        /\ q.op = "create" => q \in CreateAsks
        /\ q.op \in {"get", "tag", "rename", "create"} => q.by = Me
BY DEF Asks, SaveAsks, Refetch, TagAsks, AddAsks, ToggleAsks, RenameAsks, DropAsks, MoveAsks,
  DeleteAsks, CreateAsks, People
-----------------------------------------------------------------------------
\* A slot that a new request may take: a free one, or that of a tag that was made.
Free(r) == ~Open(r) \/ (reqs[r].pc = "answered" /\ reqs[r].ask.op = "tag")
Sent(r, ask) == Free(r) /\ reqs' = [reqs EXCEPT ![r] = Request(ask)]
\* The other slots.
Rest(r) == \A s \in Slots \ {r} : reqs'[s] = reqs[s] /\ (Open(s)' <=> Open(s))

\* An open slot has a request.
LEMMA OpenIs ==
  ASSUME ReqTypes, NEW r \in Slots
  PROVE /\ Open(r) => reqs[r] \in Requests
        /\ ~Open(r) => reqs[r] = Idle
BY DEF ReqTypes, Open

\* A slot gets another content.
LEMMA SlotIs ==
  ASSUME ReqTypes, NEW r \in Slots, NEW q \in Requests \cup {Idle},
         reqs' = [reqs EXCEPT ![r] = q]
  PROVE ReqTypes' /\ reqs'[r] = q /\ Rest(r) /\ (Open(r)' <=> q # Idle)
BY DEF ReqTypes, Rest, Open, Idle

\* A new request.
LEMMA RequestIs ==
  ASSUME NEW ask \in Asks
  PROVE /\ Request(ask) \in Requests /\ Request(ask) # Idle
        /\ Request(ask).pc = "sent" /\ Request(ask).ask = ask
        /\ Request(ask).event = NoEvent /\ Request(ask).made = NoEvent
        /\ Request(ask).waits = (ask.by = Me)
<1>1. Request(ask) \in Requests
  BY Plain, AskIs DEF Request, Requests, People
<1>2. QED
  BY <1>1, Plain DEF Request

\* Send takes a free slot.
LEMMA SendIs ==
  ASSUME ReqTypes, NEW ask, Send(ask)
  PROVE \E r \in Slots : ~Open(r) /\ Sent(r, ask)
<1> DEFINE free == {r \in Slots : ~Open(r)}
<1>1. free \in SUBSET Nat /\ free # {}
  BY DialogAssumption DEF Send
<1>2. First(free) \in free
  BY <1>1, LeastIsIn
<1>3. reqs' = [reqs EXCEPT ![First(free)] = Request(ask)]
  BY DEF Send
<1>4. QED
  BY <1>2, <1>3 DEF Sent, Free

\* What a new request changes of the slots.
LEMMA SentIs ==
  ASSUME ReqTypes, WholeReqs, NEW r \in Slots, NEW ask \in Asks, Sent(r, ask),
         ask.op = "save" => Meant(ask)
  PROVE /\ ReqTypes' /\ WholeReqs' /\ Rest(r) /\ Open(r)' /\ reqs'[r] = Request(ask)
        /\ reqs'[r].pc = "sent" /\ reqs'[r].ask = ask /\ reqs'[r].event = NoEvent
        /\ reqs'[r].made = NoEvent /\ reqs'[r].waits = (ask.by = Me)
        /\ Open(r) => reqs[r].pc = "answered" /\ reqs[r].ask.op = "tag"
<1>1. ReqTypes' /\ reqs'[r] = Request(ask) /\ Rest(r) /\ Open(r)'
  BY RequestIs, SlotIs DEF Sent
<1>2. Whole(r)'
  <2>1. /\ Request(ask).pc = "sent" /\ Request(ask).ask = ask
        /\ Request(ask).waits => ask.by = Me
        /\ ask.op = "get" => Request(ask).waits
    BY RequestIs, AskIs
  <2> DEFINE q == Request(ask)
  <2> HIDE DEF q
  <2>2. reqs'[r] = q /\ q.pc = "sent" /\ q.ask = ask /\ (q.waits => ask.by = Me)
        /\ (ask.op = "get" => q.waits)
    BY <1>1, <2>1 DEF q
  <2>3. QED
    BY <2>2 DEF Whole
<1>3. \A s \in Slots \ {r} : Whole(s)' <=> Whole(s)
  BY <1>1 DEF Rest, Whole
<1>4. WholeReqs'
  BY <1>1, <1>2, <1>3 DEF WholeReqs, Rest
<1>5. QED
  BY <1>1, <1>4, RequestIs DEF Sent, Free

\* What the tab's user does changes nothing of these.
Elsewhere == UNCHANGED <<db, inbox, word, doubt, listDoubt, heard>>
Still == Elsewhere /\ UNCHANGED <<store, undo, reqs, decided>>
\* A request that shows nothing before its answer, or somebody else's.
AsksFor(r, ask) ==
  /\ Elsewhere /\ Sent(r, ask) /\ UNCHANGED <<store, undo, decided>>
  /\ ask.by = Me => ask.op \in {"get", "tag", "add", "create"}
  /\ ask.op \in {"toggle", "rename", "drop"} => db # Gone /\ ask.sub \in DOMAIN db.subs
  /\ ask.op = "save" => Meant(ask)
SavesField(r, form, f, meant) ==
  /\ Elsewhere /\ Sent(r, SaveOf(form, f, meant)) /\ UNCHANGED <<undo, decided>>
  /\ f # "title" => meant = TRUE
  /\ f = "title" => form[f] # Blank
  /\ store' = IF store = Gone THEN store ELSE [store EXCEPT !.fields = Patched(form, f)]
TogglesSub(r, s) ==
  /\ Elsewhere /\ s \in Listed /\ UNCHANGED <<undo, decided>>
  /\ store' = updateSubtaskInCard(s, [store.subs[s] EXCEPT !.done = ~@])
  /\ Sent(r, [op |-> "toggle", by |-> Me, sub |-> s, done |-> ~store.subs[s].done,
              since |-> heard.list, unsure |-> listDoubt \/ Toggling(s)])
RenamesSub(r, s, title) ==
  /\ Elsewhere /\ s \in Listed /\ UNCHANGED <<undo, decided>>
  /\ store' = updateSubtaskInCard(s, [store.subs[s] EXCEPT !.title = title])
  /\ Sent(r, [op |-> "rename", by |-> Me, sub |-> s, title |-> title])
HidesSub(s) ==
  /\ Elsewhere /\ s \in Listed /\ UNCHANGED reqs
  /\ store' = deleteSubtaskFromCard(s)
  /\ undo' = Append(undo, [sub |-> s, toast |-> TRUE])
  /\ decided' = [decided EXCEPT ![s] = IF @ = None THEN "deleted" ELSE "again"]
UndoesSub(r, i) ==
  /\ Elsewhere /\ UNCHANGED store /\ Sent(r, Refetch)
  /\ undo' = RemoveAt(undo, i)
  /\ decided' = [decided EXCEPT ![undo[i].sub] = IF @ = "deleted" THEN "undone" ELSE @]
Dismisses(i) ==
  /\ Elsewhere /\ UNCHANGED <<store, reqs, decided>>
  /\ undo' = [undo EXCEPT ![i].toast = FALSE]
DropsSub(r) ==
  /\ Elsewhere /\ undo # <<>> /\ UNCHANGED <<store, decided>>
  /\ undo' = Tail(undo)
  /\ Sent(r, [op |-> "drop", by |-> Me, sub |-> Head(undo).sub])
MovesCard(r, to) ==
  /\ Elsewhere /\ store # Gone /\ UNCHANGED <<undo, decided>>
  /\ store' = [store EXCEPT !.col = to]
  /\ Sent(r, [op |-> "move", by |-> Me, to |-> to, snapshot |-> store])
DeletesCard(r) ==
  /\ Elsewhere /\ store # Gone /\ UNCHANGED <<undo, decided>>
  /\ store' = Gone
  /\ Sent(r, [op |-> "delete", by |-> Me, snapshot |-> store])

Local ==
  \/ Still
  \/ \E r \in Slots : \E ask \in Asks : AsksFor(r, ask)
  \/ \E r \in Slots : \E form \in Forms : \E f \in Fields : \E meant \in BOOLEAN :
       SavesField(r, form, f, meant)
  \/ \E r \in Slots : \E s \in Subs : TogglesSub(r, s)
  \/ \E r \in Slots : \E s \in Subs : \E title \in Titles : RenamesSub(r, s, title)
  \/ \E s \in Subs : HidesSub(s)
  \/ \E r \in Slots : \E i \in DOMAIN undo : UndoesSub(r, i)
  \/ \E i \in DOMAIN undo : Dismisses(i)
  \/ \E r \in Slots : DropsSub(r)
  \/ \E r \in Slots : \E to \in Columns : MovesCard(r, to)
  \/ \E r \in Slots : DeletesCard(r)
-----------------------------------------------------------------------------
\* A listed subtask is one of a list.
LEMMA ListedIs ==
  ASSUME StoreTypes, NEW s \in Listed
  PROVE /\ store # Gone /\ store \in Stores /\ store.subs # NoList /\ store.subs \in Lists
        /\ s \in DOMAIN store.subs /\ s \in Subs /\ HasSub(s) /\ store.subs[s] \in Subtasks
<1>1. store # Gone /\ store.subs # NoList /\ s \in DOMAIN store.subs
  BY DEF Listed
<1>2. store \in Stores /\ store.subs \in Lists
  BY <1>1 DEF StoreTypes, Stores
<1>3. QED
  BY <1>1, <1>2, ListIs DEF HasSub

\* The count of the store.
LEMMA CountOf ==
  ASSUME store \in Stores
  PROVE /\ store.count = [total |-> store.count.total, done |-> store.count.done]
        /\ store.count.total \in Int /\ store.count.done \in Int
<1>1. store.count \in [total : Int, done : Int]
  BY DEF Stores
<1>2. QED
  BY <1>1

\* A store with another list and another count.
LEMMA StoreIs ==
  ASSUME store \in Stores, NEW l \in Lists \cup {NoList}, NEW t \in Int, NEW d \in Int
  PROVE [store EXCEPT !.subs = l, !.count = [total |-> t, done |-> d]] \in Stores
<1>1. [total |-> t, done |-> d] \in [total : Int, done : Int]
  OBVIOUS
<1> DEFINE c == [total |-> t, done |-> d]
<1> HIDE DEF c
<1>2. c \in [total : Int, done : Int]
  BY <1>1 DEF c
<1>3. [store EXCEPT !.subs = l, !.count = c] \in Stores
  BY <1>2 DEF Stores
<1>4. QED
  BY <1>3 DEF c

\* A store with one subtask changed.
LEMMA UpdateIs ==
  ASSUME NEW s, HasSub(s), store \in Stores, store.subs \in Lists, NEW sub \in Subtasks
  PROVE /\ updateSubtaskInCard(s, sub) \in Stores
        /\ updateSubtaskInCard(s, sub) # Gone
        /\ updateSubtaskInCard(s, sub).fields = store.fields
        /\ updateSubtaskInCard(s, sub).subs = [store.subs EXCEPT ![s] = sub]
        /\ updateSubtaskInCard(s, sub).count.total = store.count.total
        /\ updateSubtaskInCard(s, sub).count.done
             = store.count.done + Mark(sub.done) - Mark(store.subs[s].done)
<1> DEFINE u == [store EXCEPT !.subs[s] = sub,
                     !.count.done = @ + Mark(sub.done) - Mark(store.subs[s].done)]
<1>1. updateSubtaskInCard(s, sub) = u
  BY DEF updateSubtaskInCard
<1>2. [store.subs EXCEPT ![s] = sub] \in Lists
  BY ExceptIs DEF HasSub
<1>3. Mark(sub.done) \in Int /\ Mark(store.subs[s].done) \in Int
  BY DEF Mark
<1>4. /\ u.fields = store.fields /\ u.subs = [store.subs EXCEPT ![s] = sub]
      /\ u.count.total = store.count.total
      /\ u.count.done = store.count.done + Mark(sub.done) - Mark(store.subs[s].done)
  BY DEF Stores
<1> DEFINE x == store.count.done + Mark(sub.done) - Mark(store.subs[s].done)
<1>5. u \in Stores
  <2>1. x \in Int /\ store.count.total \in Int
    BY <1>3, CountOf
  <2>2. u = [store EXCEPT !.subs = [store.subs EXCEPT ![s] = sub],
                          !.count = [total |-> store.count.total, done |-> x]]
    <3>1. DOMAIN store = {"fields", "col", "subs", "count"}
      BY DEF Stores
    <3>2. store.count = [total |-> store.count.total, done |-> store.count.done]
      BY CountOf
    <3>3. [store.count EXCEPT !.done = x] = [total |-> store.count.total, done |-> x]
      BY <3>2
    <3>4. u = [store EXCEPT !.subs = [store.subs EXCEPT ![s] = sub],
                            !.count = [store.count EXCEPT !.done = x]]
      BY <3>1
    <3>5. QED
      BY <3>3, <3>4
  <2> HIDE DEF u, x
  <2>3. QED
    BY <1>2, <2>1, <2>2, StoreIs
<1> HIDE DEF u
<1>6. QED
  BY <1>1, <1>4, <1>5, Plain

\* A store with one subtask less.
LEMMA DeleteIs ==
  ASSUME NEW s, HasSub(s), store \in Stores, store.subs \in Lists
  PROVE /\ deleteSubtaskFromCard(s) \in Stores /\ deleteSubtaskFromCard(s) # Gone
        /\ deleteSubtaskFromCard(s).fields = store.fields
        /\ deleteSubtaskFromCard(s).subs = Without(store.subs, s)
        /\ deleteSubtaskFromCard(s).count.total = store.count.total - 1
        /\ deleteSubtaskFromCard(s).count.done = store.count.done - Mark(store.subs[s].done)
<1>1. Without(store.subs, s) \in Lists
  BY WithoutIs
<1>2. Mark(store.subs[s].done) \in Int
  BY DEF Mark
<1> DEFINE x == store.count.done - Mark(store.subs[s].done)
           y == store.count.total - 1
<1>3. deleteSubtaskFromCard(s) \in Stores
  <2>1. x \in Int /\ y \in Int
    BY <1>2, CountOf
  <2>2. deleteSubtaskFromCard(s)
          = [store EXCEPT !.subs = Without(store.subs, s),
                          !.count = [total |-> y, done |-> x]]
    <3>1. DOMAIN store = {"fields", "col", "subs", "count"}
      BY DEF Stores
    <3>2. store.count = [total |-> store.count.total, done |-> store.count.done]
      BY CountOf
    <3>3. [store.count EXCEPT !.total = y, !.done = x] = [total |-> y, done |-> x]
      <4> HIDE DEF x, y
      <4>1. PICK a, b : store.count = [total |-> a, done |-> b]
        BY <3>2
      <4> DEFINE g == [store.count EXCEPT !.total = y]
      <4>2. g = [total |-> y, done |-> b]
        BY <4>1
      <4>3. [store.count EXCEPT !.total = y, !.done = x] = [g EXCEPT !.done = x]
        BY <4>1
      <4> HIDE DEF g
      <4>4. [g EXCEPT !.done = x] = [total |-> y, done |-> x]
        BY <4>2
      <4>5. QED
        BY <4>3, <4>4
    <3>4. deleteSubtaskFromCard(s)
            = [store EXCEPT !.subs = Without(store.subs, s),
                 !.count = [store.count EXCEPT !.total = y, !.done = x]]
      BY <3>1 DEF deleteSubtaskFromCard
    <3>5. QED
      BY <3>3, <3>4
  <2> HIDE DEF x, y
  <2>3. [store EXCEPT !.subs = Without(store.subs, s),
                      !.count = [total |-> y, done |-> x]] \in Stores
    BY <1>1, <2>1, StoreIs
  <2>4. QED
    BY <2>2, <2>3
<1>4. QED
  BY <1>3, Plain DEF deleteSubtaskFromCard, Stores

\* A store with another list.
LEMMA SetListIs ==
  ASSUME store \in Stores, NEW l \in Lists
  PROVE /\ setSubtasksToCard(l) \in Stores /\ setSubtasksToCard(l) # Gone
        /\ setSubtasksToCard(l).fields = store.fields /\ setSubtasksToCard(l).subs = l
        /\ setSubtasksToCard(l).count = Counts(l)
<1>1. setSubtasksToCard(l) = [store EXCEPT !.subs = l, !.count = Counts(l)]
  BY Plain DEF setSubtasksToCard
<1> DEFINE c == Counts(l)
<1>2. c \in [total : Int, done : Int]
  BY CountIs
<1> HIDE DEF c
<1>3. /\ [store EXCEPT !.subs = l, !.count = c] \in Stores
      /\ [store EXCEPT !.subs = l, !.count = c].fields = store.fields
      /\ [store EXCEPT !.subs = l, !.count = c].subs = l
      /\ [store EXCEPT !.subs = l, !.count = c].count = c
  BY <1>2 DEF Stores
<1>4. QED
  BY <1>1, <1>3, Plain DEF c

\* What is stored of a field.
LEMMA StoredIs ==
  ASSUME NEW form \in Forms, NEW f \in Fields, f = "title" => form[f] # Blank
  PROVE /\ Stored(f, form[f]) \in Values
        /\ f = "tags" => Stored(f, form[f]) \in SUBSET Tags
        /\ f = "title" => Stored(f, form[f]) # Blank
<1>1. form[f] \in Values /\ Blank \in Values
  BY DEF Forms, Values
<1>2. f = "tags" => form[f] \in SUBSET Tags
  BY DEF Forms
<1>3. "tags" # "estimated_hours" /\ "title" # "estimated_hours"
    OBVIOUS
<1>4. QED
  BY <1>1, <1>2, <1>3 DEF Stored

\* What is sent of a field.
LEMMA SaveIs ==
  ASSUME NEW form \in Forms, NEW f \in Fields, f = "title" => form[f] # Blank,
         NEW meant \in BOOLEAN
  PROVE /\ SaveOf(form, f, meant) \in Asks /\ SaveOf(form, f, meant).op = "save"
        /\ SaveOf(form, f, meant).by = Me /\ SaveOf(form, f, meant).meant = meant
        /\ SaveOf(form, f, meant).field = f
<1> DEFINE v == Stored(f, form[f])
<1>1. /\ v \in Values
      /\ f = "tags" => v \in SUBSET Tags
      /\ f = "title" => v # Blank
  BY StoredIs
<1>2. buildCardFieldUpdate(form, f) \in Bodies(f)
  <2>1. buildCardFieldUpdate(form, f) = [g \in {f} |-> v]
    BY DEF buildCardFieldUpdate
  <2> HIDE DEF v
  <2>2. QED
    BY <1>1, <2>1 DEF Bodies
<1>3. SaveOf(form, f, meant) \in SaveAsks
  BY <1>2, Plain DEF SaveOf, SaveAsks
<1>4. QED
  BY <1>3 DEF SaveOf, Asks

\* What the store makes of a field.
LEMMA PatchIs ==
  ASSUME NEW form \in Forms, NEW f \in Fields, f = "title" => form[f] # Blank,
         store \in Stores
  PROVE /\ [store EXCEPT !.fields = Patched(form, f)] \in Stores
        /\ \A g \in Fields : g # f =>
             [store EXCEPT !.fields = Patched(form, f)].fields[g] = store.fields[g]
        /\ [store EXCEPT !.fields = Patched(form, f)].subs = store.subs
        /\ [store EXCEPT !.fields = Patched(form, f)].count = store.count
<1> DEFINE v == Stored(f, form[f])
<1>1. /\ v \in Values
      /\ f = "tags" => v \in SUBSET Tags
      /\ f = "title" => v # Blank
  BY StoredIs
<1>2. /\ Patched(form, f) \in Saved
      /\ \A g \in Fields : g # f => Patched(form, f)[g] = store.fields[g]
  <2>1. store.fields \in Saved
    BY DEF Stores
  <2>2. Patched(form, f) = [store.fields EXCEPT ![f] = v]
    BY DEF Patched
  <2> HIDE DEF v
  <2>3. Patched(form, f) \in [Fields -> Values]
    <3>1. store.fields \in [Fields -> Values] /\ v \in Values
      BY <1>1, <2>1 DEF Saved, Forms
    <3>2. QED
      BY <3>1, <2>2
  <2>4. Patched(form, f)["tags"] \in SUBSET Tags /\ Patched(form, f)["title"] # Blank
    <3>1. /\ store.fields \in [Fields -> Values] /\ store.fields["tags"] \in SUBSET Tags
          /\ store.fields["title"] # Blank
      BY <2>1 DEF Saved, Forms
    <3>2. CASE f = "tags"
      BY <1>1, <2>2, <3>1, <3>2, TheFields
    <3>3. CASE f = "title"
      BY <1>1, <2>2, <3>1, <3>3, TheFields
    <3>4. CASE f # "tags" /\ f # "title"
      BY <2>2, <3>1, <3>4, TheFields
    <3>5. QED
      BY <3>2, <3>3, <3>4
  <2>5. QED
    BY <2>1, <2>2, <2>3, <2>4 DEF Saved, Forms
<1> DEFINE fields == Patched(form, f)
<1> HIDE DEF fields
<1>3. fields \in Saved
  BY <1>2 DEF fields
<1>4. /\ [store EXCEPT !.fields = fields] \in Stores
      /\ [store EXCEPT !.fields = fields].fields = fields
      /\ [store EXCEPT !.fields = fields].subs = store.subs
      /\ [store EXCEPT !.fields = fields].count = store.count
  BY <1>3 DEF Stores
<1>5. QED
  BY <1>2, <1>4 DEF fields
-----------------------------------------------------------------------------
\* What the tab's user asks for is a request.
LEMMA ToggleAskIs ==
  ASSUME NEW s \in Subs, NEW done \in BOOLEAN, NEW since \in Nat, NEW unsure \in BOOLEAN,
         NEW by \in People
  PROVE [op |-> "toggle", by |-> by, sub |-> s, done |-> done, since |-> since,
         unsure |-> unsure] \in Asks
<1>1. [op |-> "toggle", by |-> by, sub |-> s, done |-> done, since |-> since,
       unsure |-> unsure] \in ToggleAsks
  BY DEF ToggleAsks
<1>2. QED
  BY <1>1 DEF Asks

\* A new title.
LEMMA RenameAskIs ==
  ASSUME NEW s \in Subs, NEW title \in Titles
  PROVE [op |-> "rename", by |-> Me, sub |-> s, title |-> title] \in Asks
<1>1. [op |-> "rename", by |-> Me, sub |-> s, title |-> title] \in RenameAsks
  BY DEF RenameAsks
<1>2. QED
  BY <1>1 DEF Asks

\* A deletion.
LEMMA DropAskIs ==
  ASSUME NEW s \in Subs, NEW by \in People
  PROVE [op |-> "drop", by |-> by, sub |-> s] \in Asks
<1>1. [op |-> "drop", by |-> by, sub |-> s] \in DropAsks
  BY DEF DropAsks
<1>2. QED
  BY <1>1 DEF Asks

\* Another column.
LEMMA MoveAskIs ==
  ASSUME NEW to \in Columns, NEW st \in Stores \cup {Gone}, NEW by \in People,
         by = Me => st \in Stores
  PROVE [op |-> "move", by |-> by, to |-> to, snapshot |-> st] \in Asks
<1>1. [op |-> "move", by |-> by, to |-> to, snapshot |-> st] \in MoveAsks
  BY DEF MoveAsks
<1>2. QED
  BY <1>1 DEF Asks

\* The end of the card.
LEMMA DeleteAskIs ==
  ASSUME NEW st \in Stores \cup {Gone}, NEW by \in People, by = Me => st \in Stores
  PROVE [op |-> "delete", by |-> by, snapshot |-> st] \in Asks
<1>1. [op |-> "delete", by |-> by, snapshot |-> st] \in DeleteAsks
  BY DEF DeleteAsks
<1>2. QED
  BY <1>1 DEF Asks

\* A subtask more.
LEMMA AddAskIs ==
  ASSUME NEW title \in Titles, NEW by \in People
  PROVE [op |-> "add", by |-> by, title |-> title] \in Asks
<1>1. [op |-> "add", by |-> by, title |-> title] \in AddAsks
  BY DEF AddAsks
<1>2. QED
  BY <1>1 DEF Asks

\* A tag and the list again.
LEMMA OtherAsks ==
  /\ \A t \in Tags : \A form \in Forms :
       [op |-> "tag", by |-> Me, tag |-> t, form |-> form] \in Asks
  /\ Refetch \in Asks /\ Refetch.op = "get" /\ Refetch.by = Me
<1>1. \A t \in Tags : \A form \in Forms :
        [op |-> "tag", by |-> Me, tag |-> t, form |-> form] \in TagAsks
  BY DEF TagAsks
<1>2. QED
  BY <1>1 DEF Asks, Refetch

\* An entry of the queue of deletions goes.
LEMMA RemoveIs ==
  ASSUME NEW i \in DOMAIN undo, UndoTypes
  PROVE /\ RemoveAt(undo, i) \in Seq(Deletions)
        /\ Len(RemoveAt(undo, i)) = Len(undo) - 1
        /\ \A j \in DOMAIN RemoveAt(undo, i) :
             /\ j < i => j \in DOMAIN undo /\ RemoveAt(undo, i)[j] = undo[j]
             /\ j >= i => j + 1 \in DOMAIN undo /\ RemoveAt(undo, i)[j] = undo[j + 1]
<1>1. /\ undo \in Seq(Deletions) /\ Len(undo) \in Nat /\ DOMAIN undo = 1 .. Len(undo)
      /\ i \in 1 .. Len(undo)
  BY DEF UndoTypes
<1> DEFINE a == SubSeq(undo, 1, i - 1)
           b == SubSeq(undo, i + 1, Len(undo))
<1>2. /\ a \in Seq(Deletions) /\ Len(a) = i - 1 /\ \A j \in 1 .. i - 1 : a[j] = undo[j]
  BY <1>1
<1>3. /\ b \in Seq(Deletions) /\ Len(b) = Len(undo) - i
      /\ \A j \in 1 .. Len(undo) - i : b[j] = undo[j + i]
  BY <1>1
<1>4. RemoveAt(undo, i) = a \o b
  BY DEF RemoveAt
<1> HIDE DEF a, b
<1>5. /\ a \o b \in Seq(Deletions) /\ Len(a \o b) = Len(undo) - 1
      /\ \A j \in 1 .. Len(undo) - 1 :
           (a \o b)[j] = IF j <= i - 1 THEN a[j] ELSE b[j - (i - 1)]
  <2>1. /\ a \o b \in Seq(Deletions) /\ Len(a \o b) = Len(a) + Len(b)
        /\ \A j \in 1 .. Len(a) + Len(b) :
             (a \o b)[j] = IF j <= Len(a) THEN a[j] ELSE b[j - Len(a)]
    BY <1>2, <1>3, ConcatProperties
  <2>2. Len(a) + Len(b) = Len(undo) - 1
    BY <1>1, <1>2, <1>3
  <2>3. QED
    BY <1>2, <2>1, <2>2
<1>6. ASSUME NEW j \in 1 .. Len(undo) - 1
      PROVE /\ j < i => j \in DOMAIN undo /\ (a \o b)[j] = undo[j]
            /\ j >= i => j + 1 \in DOMAIN undo /\ (a \o b)[j] = undo[j + 1]
  <2>1. CASE j < i
    BY <1>1, <1>2, <1>5, <2>1
  <2>2. CASE j >= i
    <3>1. (a \o b)[j] = b[j - (i - 1)] /\ j - (i - 1) \in 1 .. Len(undo) - i
      <4>1. ~(j <= i - 1) /\ j - (i - 1) \in 1 .. Len(undo) - i
        BY <1>1, <2>2
      <4>2. QED
        BY <1>5, <4>1
    <3>2. b[j - (i - 1)] = undo[(j - (i - 1)) + i] /\ (j - (i - 1)) + i = j + 1
      BY <1>1, <1>3, <3>1
    <3>3. QED
      BY <1>1, <2>2, <3>1, <3>2
  <2>3. QED
    BY <1>1, <2>1, <2>2
<1>7. DOMAIN (a \o b) = 1 .. Len(undo) - 1
  BY <1>5
<1>8. QED
  BY <1>4, <1>5, <1>6, <1>7

\* The store after a field is saved.
LEMMA SavedIs ==
  ASSUME Core, NEW r \in Slots, NEW form \in Forms, NEW f \in Fields,
             NEW meant \in BOOLEAN, SavesField(r, form, f, meant)
  PROVE /\ SaveOf(form, f, meant) \in Asks /\ StoreTypes'
        /\ (store' = Gone) <=> (store = Gone)
        /\ store # Gone =>
             /\ store'.subs = store.subs /\ store'.count = store.count
             /\ \A g \in Fields : g # f => store'.fields[g] = store.fields[g]
<1>1. SaveOf(form, f, meant) \in Asks
  BY SaveIs DEF SavesField
<1>2. CASE store = Gone
  BY <1>1, <1>2 DEF SavesField, StoreTypes
<1>3. CASE store # Gone
  <2>1. store \in Stores
    BY <1>3 DEF Core, StoreTypes
  <2>2. store' = [store EXCEPT !.fields = Patched(form, f)]
    BY <1>3 DEF SavesField
  <2>3. f = "title" => form[f] # Blank
    BY DEF SavesField
  <2>4. /\ store' \in Stores /\ store'.subs = store.subs /\ store'.count = store.count
        /\ \A g \in Fields : g # f => store'.fields[g] = store.fields[g]
    BY <2>1, <2>2, <2>3, PatchIs
  <2>5. QED
    BY <1>1, <1>3, <2>4, Plain DEF StoreTypes
<1>4. QED
  BY <1>2, <1>3

\* The store after a subtask is toggled.
LEMMA ToggledIs ==
  ASSUME Core, NEW r \in Slots, NEW s \in Subs, TogglesSub(r, s)
  PROVE /\ store \in Stores /\ store' \in Stores /\ store # Gone /\ store' # Gone
        /\ store'.fields = store.fields
        /\ HasSub(s) /\ store.subs \in Lists
        /\ store'.subs = [store.subs EXCEPT ![s] = [store.subs[s] EXCEPT !.done = ~@]]
        /\ [store.subs[s] EXCEPT !.done = ~@] \in Subtasks
        /\ store' = updateSubtaskInCard(s, [store.subs[s] EXCEPT !.done = ~@])
        /\ \E ask \in Asks :
             /\ Sent(r, ask) /\ ask.op = "toggle" /\ ask.by = Me /\ ask.sub = s
             /\ ask.done = ~store.subs[s].done /\ ask.since = heard.list
             /\ ask.unsure = (listDoubt \/ Toggling(s))
<1> DEFINE sub == [store.subs[s] EXCEPT !.done = ~@]
<1>1. s \in Listed /\ store' = updateSubtaskInCard(s, sub)
  BY DEF TogglesSub
<1>2. /\ store # Gone /\ store \in Stores /\ store.subs # NoList /\ store.subs \in Lists
      /\ HasSub(s) /\ store.subs[s] \in Subtasks
  BY <1>1, ListedIs DEF Core
<1>3. sub \in Subtasks
  BY <1>2 DEF Subtasks
<1> HIDE DEF sub
<1>4. /\ store' \in Stores /\ store' # Gone /\ store'.fields = store.fields
      /\ store'.subs = [store.subs EXCEPT ![s] = sub]
  BY <1>1, <1>2, <1>3, UpdateIs
<1> DEFINE b == listDoubt \/ Toggling(s)
           d == ~store.subs[s].done
<1>5. d \in BOOLEAN /\ b \in BOOLEAN /\ heard.list \in Nat
  BY <1>2 DEF Core, HistoryTypes
<1>6. Sent(r, [op |-> "toggle", by |-> Me, sub |-> s, done |-> d, since |-> heard.list,
               unsure |-> b])
  BY DEF TogglesSub
<1> HIDE DEF b, d
<1>7. [op |-> "toggle", by |-> Me, sub |-> s, done |-> d, since |-> heard.list,
       unsure |-> b] \in Asks
  BY <1>5, ToggleAskIs, Plain
<1>8. \E ask \in Asks :
        /\ Sent(r, ask) /\ ask.op = "toggle" /\ ask.by = Me /\ ask.sub = s
        /\ ask.done = d /\ ask.since = heard.list /\ ask.unsure = b
  BY <1>6, <1>7
<1>9. QED
  BY <1>1, <1>2, <1>3, <1>4, <1>8 DEF sub, b, d

\* The store after a subtask got another title.
LEMMA RenamedIs ==
  ASSUME Core, NEW r \in Slots, NEW s \in Subs, NEW title \in Titles,
         RenamesSub(r, s, title)
  PROVE /\ store \in Stores /\ store' \in Stores /\ store # Gone /\ store' # Gone
        /\ store'.fields = store.fields
        /\ HasSub(s) /\ store.subs \in Lists
        /\ store'.subs = [store.subs EXCEPT ![s] = [store.subs[s] EXCEPT !.title = title]]
        /\ [store.subs[s] EXCEPT !.title = title] \in Subtasks
        /\ store' = updateSubtaskInCard(s, [store.subs[s] EXCEPT !.title = title])
        /\ [op |-> "rename", by |-> Me, sub |-> s, title |-> title] \in Asks
<1> DEFINE sub == [store.subs[s] EXCEPT !.title = title]
<1>1. s \in Listed /\ store' = updateSubtaskInCard(s, sub)
  BY DEF RenamesSub
<1>2. /\ store # Gone /\ store \in Stores /\ store.subs # NoList /\ store.subs \in Lists
      /\ HasSub(s) /\ store.subs[s] \in Subtasks
  BY <1>1, ListedIs DEF Core
<1>3. sub \in Subtasks
  BY <1>2 DEF Subtasks
<1> HIDE DEF sub
<1>4. /\ store' \in Stores /\ store' # Gone /\ store'.fields = store.fields
      /\ store'.subs = [store.subs EXCEPT ![s] = sub]
  BY <1>1, <1>2, <1>3, UpdateIs
<1>5. QED
  BY <1>1, <1>2, <1>3, <1>4, RenameAskIs DEF sub

\* The store after a subtask was hidden.
LEMMA HiddenIs ==
  ASSUME Core, NEW s \in Subs, HidesSub(s)
  PROVE /\ store \in Stores /\ store' \in Stores /\ store # Gone /\ store' # Gone
        /\ store'.fields = store.fields /\ HasSub(s) /\ store.subs \in Lists
        /\ store'.subs = Without(store.subs, s) /\ store' = deleteSubtaskFromCard(s)
        /\ undo' \in Seq(Deletions) /\ Len(undo') = Len(undo) + 1
        /\ \A i \in DOMAIN undo : undo'[i] = undo[i] /\ i \in DOMAIN undo'
        /\ \A i \in DOMAIN undo' : i \in DOMAIN undo \/ i = Len(undo) + 1
        /\ undo'[Len(undo) + 1] = [sub |-> s, toast |-> TRUE]
<1>1. s \in Listed /\ store' = deleteSubtaskFromCard(s)
  BY DEF HidesSub
<1>2. /\ store # Gone /\ store \in Stores /\ store.subs # NoList /\ store.subs \in Lists
      /\ HasSub(s)
  BY <1>1, ListedIs DEF Core
<1>3. /\ store' \in Stores /\ store' # Gone /\ store'.fields = store.fields
      /\ store'.subs = Without(store.subs, s)
  BY <1>1, <1>2, DeleteIs
<1>4. undo \in Seq(Deletions) /\ [sub |-> s, toast |-> TRUE] \in Deletions
  BY DEF Core, UndoTypes, Deletions
<1>5. undo' = Append(undo, [sub |-> s, toast |-> TRUE])
  BY DEF HidesSub
<1> DEFINE e == [sub |-> s, toast |-> TRUE]
<1> HIDE DEF e
<1>6. e \in Deletions /\ undo' = Append(undo, e)
  BY <1>4, <1>5 DEF e
<1>7. /\ undo' \in Seq(Deletions) /\ Len(undo') = Len(undo) + 1
      /\ \A i \in DOMAIN undo : undo'[i] = undo[i] /\ i \in DOMAIN undo'
      /\ \A i \in DOMAIN undo' : i \in DOMAIN undo \/ i = Len(undo) + 1
      /\ undo'[Len(undo) + 1] = e
  BY <1>4, <1>6
<1>8. QED
  BY <1>1, <1>2, <1>3, <1>7 DEF e
\* An entry of the queue loses its toast.
LEMMA DismissIs ==
  ASSUME Core, NEW i \in DOMAIN undo, Dismisses(i)
  PROVE /\ undo' \in Seq(Deletions) /\ DOMAIN undo' = DOMAIN undo
        /\ \A j \in DOMAIN undo : undo'[j].sub = undo[j].sub
<1>1. undo \in Seq(Deletions) /\ undo[i] \in Deletions
  BY DEF Core, UndoTypes
<1> DEFINE e == [undo[i] EXCEPT !.toast = FALSE]
<1>2. e \in Deletions /\ e.sub = undo[i].sub
  BY <1>1 DEF Deletions
<1>3. undo' = [undo EXCEPT ![i] = e]
  BY <1>1 DEF Dismisses
<1> HIDE DEF e
<1>4. QED
  BY <1>1, <1>2, <1>3

\* What the tab's user does keeps the types.
LEMMA LocalTypes ==
  ASSUME Core, Local PROVE Core'
<1> USE DEF Core
<1> DEFINE DecidedTypes == decided \in [Subs -> {None, "deleted", "again", "undone", "others"}]
<1>1. ASSUME Elsewhere, StoreTypes', UndoTypes', ReqTypes', WholeReqs', DecidedTypes'
      PROVE Core'
  BY <1>1 DEF Elsewhere, DbTypes, InboxTypes, HistoryTypes
<1>2. DecidedTypes
  BY DEF HistoryTypes
<1>3. CASE Still
  <2>1. StoreTypes' /\ UndoTypes' /\ ReqTypes' /\ WholeReqs' /\ DecidedTypes'
    BY <1>2, <1>3 DEF Still, StoreTypes, UndoTypes, ReqTypes, WholeReqs, Whole, Open
  <2>2. QED
    BY <1>1, <1>3, <2>1 DEF Still
<1>4. ASSUME NEW r \in Slots, NEW ask \in Asks, AsksFor(r, ask) PROVE Core'
  <2>1. StoreTypes' /\ UndoTypes' /\ DecidedTypes'
    BY <1>2, <1>4 DEF AsksFor, StoreTypes, UndoTypes
  <2>2. ReqTypes' /\ WholeReqs'
    BY <1>4, SentIs DEF AsksFor
  <2>3. QED
    BY <1>1, <1>4, <2>1, <2>2 DEF AsksFor
<1>5. ASSUME NEW r \in Slots, NEW form \in Forms, NEW f \in Fields,
             NEW meant \in BOOLEAN, SavesField(r, form, f, meant)
      PROVE Core'
  <2>1. StoreTypes' /\ SaveOf(form, f, meant) \in Asks
    BY <1>5, SavedIs
  <2>2. UndoTypes' /\ DecidedTypes'
    BY <1>2, <1>5 DEF SavesField, UndoTypes
  <2>3. Meant(SaveOf(form, f, meant))
    BY <1>5 DEF SaveOf, SavesField, Meant
  <2>4. ReqTypes' /\ WholeReqs'
    BY <1>5, <2>1, <2>3, SentIs DEF SavesField
  <2>5. QED
    BY <1>1, <1>5, <2>1, <2>2, <2>4 DEF SavesField
<1>6. ASSUME NEW r \in Slots, NEW s \in Subs, TogglesSub(r, s) PROVE Core'
  <2>1. PICK ask \in Asks : Sent(r, ask) /\ ask.op = "toggle"
    BY <1>6, ToggledIs
  <2>2. ReqTypes' /\ WholeReqs'
    BY <2>1, SentIs
  <2>3. StoreTypes'
    BY <1>6, ToggledIs DEF StoreTypes
  <2>4. UndoTypes' /\ DecidedTypes'
    BY <1>2, <1>6 DEF TogglesSub, UndoTypes
  <2>5. QED
    BY <1>1, <1>6, <2>2, <2>3, <2>4 DEF TogglesSub
<1>7. ASSUME NEW r \in Slots, NEW s \in Subs, NEW title \in Titles, RenamesSub(r, s, title)
      PROVE Core'
  <2> DEFINE ask == [op |-> "rename", by |-> Me, sub |-> s, title |-> title]
  <2>1. ask \in Asks /\ ask.op = "rename" /\ Sent(r, ask)
    BY <1>7, RenamedIs DEF RenamesSub
  <2> HIDE DEF ask
  <2>2. ReqTypes' /\ WholeReqs'
    BY <2>1, SentIs
  <2>3. StoreTypes'
    BY <1>7, RenamedIs DEF StoreTypes
  <2>4. UndoTypes' /\ DecidedTypes'
    BY <1>2, <1>7 DEF RenamesSub, UndoTypes
  <2>5. QED
    BY <1>1, <1>7, <2>2, <2>3, <2>4 DEF RenamesSub
<1>8. ASSUME NEW s \in Subs, HidesSub(s) PROVE Core'
  <2>1. StoreTypes' /\ UndoTypes'
    BY <1>8, HiddenIs DEF StoreTypes, UndoTypes
  <2>2. ReqTypes' /\ WholeReqs'
    BY <1>8 DEF HidesSub, ReqTypes, WholeReqs, Whole, Open
  <2>3. DecidedTypes'
    BY <1>2, <1>8 DEF HidesSub
  <2>4. QED
    BY <1>1, <1>8, <2>1, <2>2, <2>3 DEF HidesSub
<1>9. ASSUME NEW r \in Slots, NEW i \in DOMAIN undo, UndoesSub(r, i) PROVE Core'
  <2>1. StoreTypes'
    BY <1>9 DEF UndoesSub, StoreTypes
  <2>2. UndoTypes'
    BY <1>9, RemoveIs DEF UndoesSub, UndoTypes
  <2>3. ReqTypes' /\ WholeReqs'
    BY <1>9, OtherAsks, SentIs DEF UndoesSub
  <2>4. DecidedTypes'
    BY <1>2, <1>9 DEF UndoesSub
  <2>5. QED
    BY <1>1, <1>9, <2>1, <2>2, <2>3, <2>4 DEF UndoesSub
<1>10. ASSUME NEW i \in DOMAIN undo, Dismisses(i) PROVE Core'
  <2>1. StoreTypes' /\ DecidedTypes'
    BY <1>2, <1>10 DEF Dismisses, StoreTypes
  <2>2. UndoTypes'
    BY <1>10, DismissIs DEF UndoTypes
  <2>3. ReqTypes' /\ WholeReqs'
    BY <1>10 DEF Dismisses, ReqTypes, WholeReqs, Whole, Open
  <2>4. QED
    BY <1>1, <1>10, <2>1, <2>2, <2>3 DEF Dismisses
<1>11. ASSUME NEW r \in Slots, DropsSub(r) PROVE Core'
  <2> DEFINE ask == [op |-> "drop", by |-> Me, sub |-> Head(undo).sub]
  <2>1. Head(undo) \in Deletions /\ Tail(undo) \in Seq(Deletions)
    BY <1>11 DEF DropsSub, UndoTypes
  <2>2. ask \in Asks /\ ask.op = "drop" /\ Sent(r, ask)
    <3>1. Head(undo).sub \in Subs
      BY <2>1 DEF Deletions
    <3>2. QED
      BY <1>11, <3>1, DropAskIs, Plain DEF DropsSub
  <2> HIDE DEF ask
  <2>3. ReqTypes' /\ WholeReqs'
    BY <2>2, SentIs
  <2>4. StoreTypes' /\ UndoTypes' /\ DecidedTypes'
    BY <1>2, <1>11, <2>1 DEF DropsSub, StoreTypes, UndoTypes
  <2>5. QED
    BY <1>1, <1>11, <2>3, <2>4 DEF DropsSub
<1>12. ASSUME NEW r \in Slots, NEW to \in Columns, MovesCard(r, to) PROVE Core'
  <2> DEFINE ask == [op |-> "move", by |-> Me, to |-> to, snapshot |-> store]
  <2>1. store \in Stores
    BY <1>12 DEF MovesCard, StoreTypes
  <2>2. ask \in Asks /\ ask.op = "move" /\ Sent(r, ask)
    BY <1>12, <2>1, MoveAskIs, Plain DEF MovesCard
  <2> HIDE DEF ask
  <2>3. ReqTypes' /\ WholeReqs'
    BY <2>2, SentIs
  <2>4. StoreTypes' /\ UndoTypes' /\ DecidedTypes'
    BY <1>2, <1>12, <2>1 DEF MovesCard, StoreTypes, Stores, UndoTypes
  <2>5. QED
    BY <1>1, <1>12, <2>3, <2>4 DEF MovesCard
<1>13. ASSUME NEW r \in Slots, DeletesCard(r) PROVE Core'
  <2> DEFINE ask == [op |-> "delete", by |-> Me, snapshot |-> store]
  <2>1. store \in Stores
    BY <1>13 DEF DeletesCard, StoreTypes
  <2>2. ask \in Asks /\ ask.op = "delete" /\ Sent(r, ask)
    BY <1>13, <2>1, DeleteAskIs, Plain DEF DeletesCard
  <2> HIDE DEF ask
  <2>3. ReqTypes' /\ WholeReqs'
    BY <2>2, SentIs
  <2>4. StoreTypes' /\ UndoTypes' /\ DecidedTypes'
    BY <1>2, <1>13 DEF DeletesCard, StoreTypes, UndoTypes
  <2>5. QED
    BY <1>1, <1>13, <2>3, <2>4 DEF DeletesCard
<1>14. QED
  BY <1>3, <1>4, <1>5, <1>6, <1>7, <1>8, <1>9, <1>10, <1>11, <1>12, <1>13 DEF Local
-----------------------------------------------------------------------------
\* Columns and draft stay as they are.
Place == UNCHANGED <<board, draft>>
LEMMA PlaceIs ==
  ASSUME Typing, Place PROVE BoardTypes' /\ DraftTypes'
BY DEF Typing, Place, board, BoardTypes, DraftTypes

\* An open dialog is one, and its card is on the board.
LEMMA DialogIs ==
  ASSUME Typing, dialog.open
  PROVE dialog \in Dialogs /\ Touched(dialog) /\ store # Gone /\ store \in Stores
BY Plain DEF Typing, Core, DialogGood, StoreTypes

\* A dialog whose form was changed.
LEMMA FormIs ==
  ASSUME NEW d \in Dialogs, Touched(d), NEW f \in Fields, NEW v \in Values,
         f = "tags" => v \in SUBSET Tags
  PROVE updateForm(d, f, v) \in Dialogs /\ Touched(updateForm(d, f, v))
<1> DEFINE form == [d.form EXCEPT ![f] = v]
           touched == IF v = d.form[f] THEN d.touched ELSE d.touched \cup {f}
           u == updateForm(d, f, v)
<1>1. d.form \in [Fields -> Values] /\ d.form["tags"] \in SUBSET Tags
  BY DEF Dialogs, Forms
<1>2. form \in [Fields -> Values] /\ form["tags"] \in SUBSET Tags
  BY <1>1, TheFields
<1>3. touched \in SUBSET Fields
  BY DEF Dialogs
<1>4. u = [d EXCEPT !.form = form, !.touched = touched]
  BY DEF updateForm
<1>5. ASSUME NEW g \in Fields, g # "title", form[g] # d.committed[g] PROVE g \in touched
  BY <1>1, <1>5 DEF Touched
<1> HIDE DEF form, touched, u
<1>6. form \in Forms
  BY <1>2 DEF Forms
<1>7. u \in Dialogs /\ u.form = form /\ u.touched = touched /\ u.committed = d.committed
  BY <1>3, <1>4, <1>6 DEF Dialogs
<1>8. Touched(u)
  BY <1>5, <1>7 DEF Touched
<1>9. QED
  BY <1>7, <1>8 DEF u

\* A field is left: it is saved, or nothing is to be saved.
LEMMA CommitIs ==
  ASSUME Typing, NEW d \in Dialogs, Touched(d), store \in Stores, NEW f \in Fields,
         commitField(d, f), UNCHANGED <<db, undo, inbox, history>>
  PROVE Local /\ DialogGood'
<1>1. /\ d.form \in [Fields -> Values] /\ d.form["tags"] \in SUBSET Tags
      /\ d.form \in Forms
      /\ d.committed \in Forms /\ d.committed \in [Fields -> Values]
      /\ d.committed["tags"] \in SUBSET Tags /\ d.committed["title"] # Blank
      /\ d.touched \in SUBSET Fields /\ d.failed \in SUBSET Fields
  BY DEF Dialogs, Forms, Saved
<1>2. /\ store.fields \in [Fields -> Values] /\ store.fields["tags"] \in SUBSET Tags
      /\ store # Gone
  BY Plain DEF Stores, Saved, Forms
<1>3. CASE /\ f = "title" /\ d.form[f] = Blank
           /\ dialog' = [d EXCEPT !.form[f] = store.fields[f], !.touched = @ \ {f}]
           /\ UNCHANGED <<store, reqs>>
  <2> DEFINE form == [d.form EXCEPT ![f] = store.fields[f]]
             touched == d.touched \ {f}
  <2>1. form \in [Fields -> Values] /\ form["tags"] \in SUBSET Tags
    BY <1>1, <1>2, <1>3, TheFields
  <2>2. touched \in SUBSET Fields /\ \A g \in d.touched : g # f => g \in touched
    BY <1>1
  <2>3. \A g \in Fields : g # f => form[g] = d.form[g]
    BY <1>1
  <2>4. dialog' = [d EXCEPT !.form = form, !.touched = touched]
    BY <1>3
  <2> HIDE DEF form, touched
  <2>5. form \in Forms
    BY <2>1 DEF Forms
  <2>6. /\ dialog' \in Dialogs /\ dialog'.form = form /\ dialog'.committed = d.committed
        /\ dialog'.touched = touched
    BY <2>2, <2>4, <2>5 DEF Dialogs
  <2>7. \A g \in Fields : g # "title" /\ dialog'.form[g] # dialog'.committed[g]
                           => g \in dialog'.touched
    BY <1>3, <2>2, <2>3, <2>6 DEF Touched
  <2>8. DialogGood'
    BY <1>2, <1>3, <2>6, <2>7 DEF DialogGood, Touched
  <2>9. QED
    BY <1>3, <2>8 DEF Local, Still, Elsewhere, history
<1>4. CASE dialog' = [d EXCEPT !.failed = @ \ {f}] /\ UNCHANGED <<store, reqs>>
  <2> DEFINE failed == d.failed \ {f}
  <2>1. failed \in SUBSET Fields
    BY <1>1
  <2>2. dialog' = [d EXCEPT !.failed = failed]
    BY <1>4
  <2> HIDE DEF failed
  <2>3. /\ dialog' \in Dialogs /\ dialog'.form = d.form /\ dialog'.committed = d.committed
        /\ dialog'.touched = d.touched
    BY <2>1, <2>2 DEF Dialogs
  <2>4. \A g \in Fields : g # "title" /\ dialog'.form[g] # dialog'.committed[g]
                           => g \in dialog'.touched
    BY <2>3 DEF Touched
  <2>5. DialogGood'
    BY <1>2, <1>4, <2>3, <2>4 DEF DialogGood, Touched
  <2>6. QED
    BY <1>4, <2>5 DEF Local, Still, Elsewhere, history
<1>5. CASE /\ ~(f = "title" /\ d.form[f] = Blank) /\ d.form[f] # d.committed[f]
           /\ dialog' = [d EXCEPT !.committed[f] = d.form[f],
                                  !.touched = @ \ {f}, !.failed = @ \ {f}]
           /\ handleUpdateCard(d.form, f, f \in d.touched)
  <2> DEFINE committed == [d.committed EXCEPT ![f] = d.form[f]]
             touched == d.touched \ {f}
             failed == d.failed \ {f}
  <2>1. /\ committed \in [Fields -> Values] /\ committed["tags"] \in SUBSET Tags
        /\ committed["title"] # Blank
    BY <1>1, <1>5, TheFields
  <2>2. \A g \in Fields : g # f => committed[g] = d.committed[g]
    BY <1>1
  <2>3. committed[f] = d.form[f]
    BY <1>1
  <2>4. dialog' = [d EXCEPT !.committed = committed, !.touched = touched, !.failed = failed]
    BY <1>5
  <2>5. touched \in SUBSET Fields /\ failed \in SUBSET Fields
    BY <1>1
  <2> HIDE DEF committed, failed
  <2>6. committed \in Saved
    BY <2>1 DEF Saved, Forms
  <2>7. /\ dialog' \in Dialogs /\ dialog'.form = d.form /\ dialog'.committed = committed
        /\ dialog'.touched = touched
    <3> HIDE DEF touched
    <3>1. QED
      BY <2>4, <2>5, <2>6 DEF Dialogs
  <2>8. \A g \in Fields : g # "title" /\ dialog'.form[g] # dialog'.committed[g]
                           => g \in dialog'.touched
    BY <2>2, <2>3, <2>7 DEF Touched
  <2> DEFINE meant == f \in d.touched
  <2>9. meant \in BOOLEAN /\ (f # "title" => meant = TRUE)
    BY <1>5 DEF Touched
  <2>10. store' = [store EXCEPT !.fields = Patched(d.form, f)]
    BY <1>2, <1>5 DEF handleUpdateCard, updateCard
  <2>11. store' # Gone
    BY <1>1, <1>5, <2>10, PatchIs, Plain
  <2>12. DialogGood'
    BY <2>7, <2>8, <2>11 DEF DialogGood, Touched
  <2>13. Send(SaveOf(d.form, f, meant))
    BY <1>5 DEF handleUpdateCard
  <2> HIDE DEF meant
  <2>14. PICK r \in Slots : Sent(r, SaveOf(d.form, f, meant))
    BY <2>13, SendIs DEF Typing, Core
  <2>15. SavesField(r, d.form, f, meant)
    BY <1>2, <1>5, <2>9, <2>10, <2>14 DEF SavesField, Elsewhere, history
  <2>16. QED
    BY <1>1, <2>9, <2>12, <2>15 DEF Local
<1>6. QED
  BY <1>3, <1>4, <1>5 DEF commitField, fieldEqual
-----------------------------------------------------------------------------
\* A step of the tab's user, of its timers or of somebody's request: what it does to
\* the store and to the requests, and that dialog and draft stay well-formed.
Kept == Local /\ DialogGood' /\ BoardTypes' /\ DraftTypes'

\* The dialog's entries are values.
LEMMA EntryIs ==
  /\ \A f \in Fields : Entries[f] \in SUBSET Values /\ Blank \in Values
  /\ \A v \in Entries["tags"] : v \in SUBSET Tags
  /\ \A T \in SUBSET Tags : T \in Values
<1>1. \A f \in Fields : Entries[f] \in SUBSET Values /\ Blank \in Values
  BY DEF Values
<1>2. \A v \in Entries["tags"] : v \in SUBSET Tags
  BY DialogAssumption
<1>3. \A T \in SUBSET Tags : T \in Values
  <2> DEFINE others == {Blank} \cup UNION {Entries[f] : f \in Fields}
  <2>1. Values = others \cup SUBSET Tags
    BY DEF Values
  <2> HIDE DEF others
  <2>2. QED
    BY <2>1
<1>4. QED
  BY <1>1, <1>2, <1>3

\* The card's dialog: opening, closing, typing, and what is saved field by field.
LEMMA FormSteps ==
  ASSUME Typing,
         \/ OpenDialog \/ CloseDialog \/ Escape
         \/ \E f \in Typed : Blur(f) \/ \E v \in Entries[f] : Type(f, v)
         \/ \E f \in Picked : \E v \in Entries[f] : PickValue(f, v)
         \/ \E f \in DevFields : ShowDev(f) \/ RemoveDev(f)
         \/ \E t \in Tags : handleSelect(t) \/ handleRemove(t) \/ handleCreate(t)
  PROVE Kept
<1>1. ASSUME Place, Local, DialogGood' PROVE Kept
  BY <1>1, PlaceIs DEF Kept
<1>2. CASE OpenDialog
  <2>1. store \in Stores /\ store # Gone /\ store.fields \in Saved /\ store.fields \in Forms
    BY <1>2 DEF OpenDialog, Typing, Core, StoreTypes, Stores, Saved
  <2> DEFINE dev == {f \in DevFields : store.fields[f] # Blank}
  <2>2. dev \in SUBSET DevFields /\ tags \in SUBSET Tags /\ None \in Typed \cup {None}
    BY DEF Typing, BoardTypes
  <2>3. dialog' = [open |-> TRUE, form |-> store.fields, committed |-> store.fields,
                   touched |-> {}, focus |-> None, editing |-> Nobody,
                   text |-> Blank, known |-> tags, creating |-> FALSE, failed |-> {},
                   dev |-> dev]
    BY <1>2 DEF OpenDialog, buildInitialForm
  <2> HIDE DEF dev
  <2>4. dialog' \in Dialogs /\ dialog'.form = dialog'.committed
    BY <2>1, <2>2, <2>3 DEF Dialogs
  <2>5. store' # Gone
    BY <1>2, <2>1 DEF OpenDialog
  <2>6. DialogGood'
    BY <2>4, <2>5 DEF DialogGood, Touched
  <2>7. PICK r \in Slots : Sent(r, Refetch)
    BY <1>2, SendIs DEF OpenDialog, fetchSubtasks, Typing, Core
  <2>8. AsksFor(r, Refetch)
    BY <1>2, <2>7, OtherAsks DEF OpenDialog, AsksFor, Elsewhere, history
  <2>9. Local
    BY <2>8, OtherAsks DEF Local
  <2>10. Place
    BY <1>2 DEF OpenDialog, Place
  <2>11. QED
    BY <1>1, <2>6, <2>9, <2>10
<1>3. CASE CloseDialog \/ Escape
  <2>1. Place /\ Still
    BY <1>3 DEF CloseDialog, Escape, Place, Still, Elsewhere, history
  <2>2. DialogGood'
    BY <1>3 DEF CloseDialog, Escape, Unmount, DialogGood
  <2>3. QED
    BY <1>1, <2>1, <2>2 DEF Local
<1>4. ASSUME NEW f \in Typed, Blur(f) PROVE Kept
  <2> DEFINE d == [dialog EXCEPT !.focus = None]
  <2>1. dialog \in Dialogs /\ Touched(dialog) /\ store \in Stores /\ f \in Fields
    BY <1>4, DialogIs, TheFields DEF Blur
  <2>2. d \in Dialogs /\ d.form = dialog.form /\ d.committed = dialog.committed
        /\ d.touched = dialog.touched
    BY <2>1 DEF Dialogs
  <2> HIDE DEF d
  <2>3. Touched(d)
    BY <2>1, <2>2 DEF Touched
  <2>4. commitField(d, f) /\ UNCHANGED <<db, undo, inbox, history>> /\ Place
    BY <1>4 DEF Blur, d, Place
  <2>5. QED
    BY <1>1, <2>1, <2>2, <2>3, <2>4, CommitIs
<1>5. ASSUME NEW f \in Typed, NEW v \in Entries[f], Type(f, v) PROVE Kept
  <2> DEFINE d == updateForm(dialog, f, v)
  <2>1. dialog \in Dialogs /\ Touched(dialog) /\ store \in Stores /\ f \in Fields
        /\ store # Gone /\ f # "tags" /\ v \in Values
    BY <1>5, DialogIs, TheFields, EntryIs DEF Type, Ready
  <2>2. d \in Dialogs /\ Touched(d)
    BY <2>1, FormIs
  <2>3. dialog' = [d EXCEPT !.focus = f] /\ store' = store
    BY <1>5 DEF Type
  <2> HIDE DEF d
  <2>4. dialog' \in Dialogs /\ dialog'.form = d.form /\ dialog'.committed = d.committed
        /\ dialog'.touched = d.touched
    BY <2>2, <2>3 DEF Dialogs
  <2>5. DialogGood'
    BY <2>1, <2>2, <2>3, <2>4 DEF DialogGood, Touched
  <2>6. Place /\ Still
    BY <1>5 DEF Type, Place, Still, Elsewhere, history
  <2>7. QED
    BY <1>1, <2>5, <2>6 DEF Local
<1>6. ASSUME NEW f \in Picked, NEW v \in Entries[f], PickValue(f, v) PROVE Kept
  <2> DEFINE d == updateForm(dialog, f, v)
  <2>1. dialog \in Dialogs /\ Touched(dialog) /\ store \in Stores /\ f \in Fields
        /\ f # "tags" /\ v \in Values
    BY <1>6, DialogIs, TheFields, EntryIs DEF PickValue, Ready
  <2>2. d \in Dialogs /\ Touched(d)
    BY <2>1, FormIs
  <2> HIDE DEF d
  <2>3. commitField(d, f) /\ UNCHANGED <<db, undo, inbox, history>> /\ Place
    BY <1>6 DEF PickValue, d, Place
  <2>4. QED
    BY <1>1, <2>1, <2>2, <2>3, CommitIs
<1>7. ASSUME NEW f \in DevFields, ShowDev(f) PROVE Kept
  <2> DEFINE dev == dialog.dev \cup {f}
  <2>1. dialog \in Dialogs /\ Touched(dialog) /\ store # Gone
    BY <1>7, DialogIs DEF ShowDev, Ready
  <2>2. dev \in SUBSET DevFields
    BY <2>1 DEF Dialogs
  <2>3. dialog' = [dialog EXCEPT !.dev = dev] /\ store' = store
    BY <1>7 DEF ShowDev
  <2> HIDE DEF dev
  <2>4. dialog' \in Dialogs /\ dialog'.form = dialog.form
        /\ dialog'.committed = dialog.committed /\ dialog'.touched = dialog.touched
    BY <2>1, <2>2, <2>3 DEF Dialogs
  <2>5. DialogGood'
    BY <2>1, <2>3, <2>4 DEF DialogGood, Touched
  <2>6. Place /\ Still
    BY <1>7 DEF ShowDev, Place, Still, Elsewhere, history
  <2>7. QED
    BY <1>1, <2>5, <2>6 DEF Local
<1>8. ASSUME NEW f \in DevFields, RemoveDev(f) PROVE Kept
  <2> DEFINE u == updateForm(dialog, f, Blank)
             d == [u EXCEPT !.dev = @ \ {f}]
  <2>1. dialog \in Dialogs /\ Touched(dialog) /\ store \in Stores /\ f \in Fields
        /\ f # "tags" /\ Blank \in Values
    BY <1>8, DialogIs, TheFields, EntryIs DEF RemoveDev, Ready
  <2>2. u \in Dialogs /\ Touched(u)
    BY <2>1, FormIs
  <2> HIDE DEF u
  <2>3. d \in Dialogs /\ d.form = u.form /\ d.committed = u.committed
        /\ d.touched = u.touched
    <3> DEFINE dev == u.dev \ {f}
    <3>1. dev \in SUBSET DevFields
      BY <2>2 DEF Dialogs
    <3>2. d = [u EXCEPT !.dev = dev]
      OBVIOUS
    <3> HIDE DEF dev, d
    <3>3. QED
      BY <2>2, <3>1, <3>2 DEF Dialogs
  <2>4. commitField(d, f) /\ UNCHANGED <<db, undo, inbox, history>> /\ Place
    BY <1>8 DEF RemoveDev, u, Place
  <2> HIDE DEF d
  <2>5. Touched(d)
    BY <2>2, <2>3 DEF Touched
  <2>6. QED
    BY <1>1, <2>1, <2>3, <2>4, <2>5, CommitIs
<1>9. ASSUME NEW chosen \in SUBSET Tags, Ready, SetTags(dialog, chosen),
             UNCHANGED <<db, undo, inbox, history>>, Place
      PROVE Kept
  <2> DEFINE d == updateForm(dialog, "tags", chosen)
  <2>1. dialog \in Dialogs /\ Touched(dialog) /\ store \in Stores /\ "tags" \in Fields
        /\ chosen \in Values
    <3>1. chosen \in Values
      BY EntryIs
    <3>2. QED
      BY <1>9, <3>1, DialogIs, TheFields DEF Ready
  <2>2. d \in Dialogs /\ Touched(d)
    BY <2>1, FormIs
  <2>3. commitField(d, "tags")
    BY <1>9 DEF SetTags
  <2> HIDE DEF d
  <2>4. QED
    BY <1>1, <1>9, <2>1, <2>2, <2>3, CommitIs
<1>10. ASSUME NEW t \in Tags, handleSelect(t) \/ handleRemove(t) PROVE Kept
  <2>1. dialog \in Dialogs /\ dialog.form["tags"] \in SUBSET Tags
    BY <1>10, DialogIs DEF handleSelect, handleRemove, Ready, Dialogs, Forms
  <2>2. CASE handleSelect(t)
    <3>1. dialog.form["tags"] \cup {t} \in SUBSET Tags
      BY <2>1
    <3>2. QED
      BY <1>9, <2>2, <3>1 DEF handleSelect, Place
  <2>3. CASE handleRemove(t)
    <3>1. dialog.form["tags"] \ {t} \in SUBSET Tags
      BY <2>1
    <3>2. QED
      BY <1>9, <2>3, <3>1 DEF handleRemove, Place
  <2>4. QED
    BY <1>10, <2>2, <2>3
<1>11. ASSUME NEW t \in Tags, handleCreate(t) PROVE Kept
  <2> DEFINE ask == [op |-> "tag", by |-> Me, tag |-> t, form |-> dialog.form]
  <2>1. dialog \in Dialogs /\ Touched(dialog) /\ store # Gone /\ dialog.form \in Forms
    BY <1>11, DialogIs DEF handleCreate, Ready, Dialogs
  <2>2. ask \in Asks /\ ask.op = "tag"
    BY <2>1, OtherAsks
  <2>3. Send(ask)
    BY <1>11 DEF handleCreate
  <2> HIDE DEF ask
  <2>4. PICK r \in Slots : Sent(r, ask)
    BY <2>3, SendIs DEF Typing, Core
  <2>5. AsksFor(r, ask)
    BY <1>11, <2>2, <2>4 DEF handleCreate, AsksFor, Elsewhere, history
  <2>6. dialog' = [dialog EXCEPT !.creating = TRUE] /\ store' = store
    BY <1>11 DEF handleCreate
  <2>7. dialog' \in Dialogs /\ dialog'.form = dialog.form
        /\ dialog'.committed = dialog.committed /\ dialog'.touched = dialog.touched
    BY <2>1, <2>6 DEF Dialogs
  <2>8. DialogGood'
    BY <2>1, <2>6, <2>7 DEF DialogGood, Touched
  <2>9. Local /\ Place
    BY <1>11, <2>2, <2>5 DEF Local, handleCreate, Place
  <2>10. QED
    BY <1>1, <2>8, <2>9
<1>12. QED
  BY <1>2, <1>3, <1>4, <1>5, <1>6, <1>7, <1>8, <1>10, <1>11

\* The dialog's list of subtasks and its queue of deletions.
LEMMA SubtaskSteps ==
  ASSUME Typing,
         \/ \E t \in Titles : handleAddSubtask(t)
         \/ \E s \in Subs : \/ handleToggleSubtask(s) \/ handleDeleteSubtask(s)
                            \/ \E t \in Titles \cup {Blank} : startEdit(s, t)
         \/ handleUpdateSubtaskTitle
         \/ \E i \in DOMAIN undo : Undo(i) \/ DismissToast(i)
         \/ DeleteTimer
  PROVE Kept
<1>1. ASSUME Place, Local, DialogGood' PROVE Kept
  BY <1>1, PlaceIs DEF Kept
<1>2. ASSUME UNCHANGED dialog, (store' = Gone) <=> (store = Gone) PROVE DialogGood'
  BY <1>2 DEF Typing, DialogGood, Touched
<1>3. ASSUME NEW t \in Titles, handleAddSubtask(t) PROVE Kept
  <2> DEFINE ask == [op |-> "add", by |-> Me, title |-> t]
  <2>1. ask \in Asks /\ ask.op = "add"
    BY AddAskIs, Plain
  <2>2. Send(ask)
    BY <1>3 DEF handleAddSubtask
  <2> HIDE DEF ask
  <2>3. PICK r \in Slots : Sent(r, ask)
    BY <2>2, SendIs DEF Typing, Core
  <2>4. AsksFor(r, ask)
    BY <1>3, <2>1, <2>3 DEF handleAddSubtask, AsksFor, Elsewhere, history
  <2>5. Local /\ Place /\ DialogGood'
    BY <1>3, <1>2, <2>1, <2>4 DEF Local, handleAddSubtask, Place
  <2>6. QED
    BY <1>1, <2>5
<1>4. ASSUME NEW s \in Subs, handleToggleSubtask(s) PROVE Kept
  <2>1. PICK r \in Slots :
          Sent(r, [op |-> "toggle", by |-> Me, sub |-> s, done |-> ~store.subs[s].done,
                   since |-> heard.list, unsure |-> listDoubt \/ Toggling(s)])
    BY <1>4, SendIs DEF Typing, Core, handleToggleSubtask
  <2>2. TogglesSub(r, s)
    BY <1>4, <2>1 DEF handleToggleSubtask, TogglesSub, Elsewhere, history
  <2>3. store # Gone /\ store' # Gone
    BY <2>2, ToggledIs DEF Typing
  <2>4. Local /\ Place /\ DialogGood'
    BY <1>4, <1>2, <2>2, <2>3 DEF Local, handleToggleSubtask, Place
  <2>5. QED
    BY <1>1, <2>4
<1>5. ASSUME NEW s \in Subs, handleDeleteSubtask(s) PROVE Kept
  <2>1. HidesSub(s)
    BY <1>5 DEF handleDeleteSubtask, HidesSub, Elsewhere
  <2>2. store # Gone /\ store' # Gone
    BY <2>1, HiddenIs DEF Typing
  <2>3. Local /\ Place /\ DialogGood'
    BY <1>5, <1>2, <2>1, <2>2 DEF Local, handleDeleteSubtask, Place
  <2>4. QED
    BY <1>1, <2>3
<1>6. ASSUME NEW s \in Subs, NEW t \in Titles \cup {Blank}, startEdit(s, t) PROVE Kept
  <2>1. dialog \in Dialogs /\ Touched(dialog) /\ store # Gone
    BY <1>6, DialogIs DEF startEdit, Ready
  <2>2. dialog' = [dialog EXCEPT !.editing = s, !.text = t] /\ store' = store
    BY <1>6 DEF startEdit
  <2>3. dialog' \in Dialogs /\ dialog'.form = dialog.form
        /\ dialog'.committed = dialog.committed /\ dialog'.touched = dialog.touched
    BY <2>1, <2>2 DEF Dialogs
  <2>4. DialogGood'
    BY <2>1, <2>2, <2>3 DEF DialogGood, Touched
  <2>5. Place /\ Still
    BY <1>6 DEF startEdit, Place, Still, Elsewhere, history
  <2>6. QED
    BY <1>1, <2>4, <2>5 DEF Local
<1>7. CASE handleUpdateSubtaskTitle
  <2>1. dialog \in Dialogs /\ Touched(dialog) /\ store # Gone
    BY <1>7, DialogIs DEF handleUpdateSubtaskTitle
  <2>2. dialog' = [dialog EXCEPT !.editing = Nobody, !.text = Blank] /\ Place
    BY <1>7 DEF handleUpdateSubtaskTitle, Place
  <2>3. dialog' \in Dialogs /\ dialog'.form = dialog.form
        /\ dialog'.committed = dialog.committed /\ dialog'.touched = dialog.touched
    BY <2>1, <2>2 DEF Dialogs
  <2>4. ASSUME store' # Gone PROVE DialogGood'
    BY <2>1, <2>2, <2>3, <2>4 DEF DialogGood, Touched
  <2> DEFINE s == dialog.editing
             title == dialog.text
  <2>5. CASE s \in Listed /\ title \notin {Blank, store.subs[s].title}
    <3>1. s \in Subs /\ title \in Titles
      BY <2>1, <2>5, ListedIs DEF Dialogs, Typing, Core
    <3>2. Send([op |-> "rename", by |-> Me, sub |-> s, title |-> title])
      BY <1>7, <2>5 DEF handleUpdateSubtaskTitle
    <3>3. store' = updateSubtaskInCard(s, [store.subs[s] EXCEPT !.title = title])
      BY <1>7, <2>5 DEF handleUpdateSubtaskTitle
    <3>4. UNCHANGED <<db, undo, inbox, history>>
      BY <1>7 DEF handleUpdateSubtaskTitle
    <3> HIDE DEF s, title
    <3>5. PICK r \in Slots :
            Sent(r, [op |-> "rename", by |-> Me, sub |-> s, title |-> title])
      BY <3>2, SendIs DEF Typing, Core
    <3>6. RenamesSub(r, s, title)
      BY <2>5, <3>3, <3>4, <3>5 DEF RenamesSub, Elsewhere, history
    <3>7. store' # Gone
      BY <3>1, <3>6, RenamedIs DEF Typing
    <3>8. Local
      BY <3>1, <3>6 DEF Local
    <3>9. QED
      BY <1>1, <2>2, <2>4, <3>7, <3>8
  <2>6. CASE ~(s \in Listed /\ title \notin {Blank, store.subs[s].title})
    <3>1. Still
      BY <1>7, <2>6 DEF handleUpdateSubtaskTitle, Still, Elsewhere, history
    <3>2. QED
      BY <1>1, <2>1, <2>2, <2>4, <3>1 DEF Local, Still
  <2>7. QED
    BY <2>5, <2>6
<1>8. ASSUME NEW i \in DOMAIN undo, Undo(i) PROVE Kept
  <2>1. PICK r \in Slots : Sent(r, Refetch)
    BY <1>8, SendIs DEF Undo, fetchSubtasks, Typing, Core
  <2>2. UndoesSub(r, i)
    BY <1>8, <2>1 DEF Undo, StopTimer, UndoesSub, Elsewhere
  <2>3. Local /\ Place /\ DialogGood'
    BY <1>8, <1>2, <2>2 DEF Local, Undo, Place
  <2>4. QED
    BY <1>1, <2>3
<1>9. ASSUME NEW i \in DOMAIN undo, DismissToast(i) PROVE Kept
  <2>1. Dismisses(i)
    BY <1>9 DEF DismissToast, Dismisses, Elsewhere, history
  <2>2. Local /\ Place /\ DialogGood'
    BY <1>9, <1>2, <2>1 DEF Local, DismissToast, Place
  <2>3. QED
    BY <1>1, <2>2
<1>10. CASE DeleteTimer
  <2> DEFINE ask == [op |-> "drop", by |-> Me, sub |-> Head(undo).sub]
  <2>1. Send(ask)
    BY <1>10 DEF DeleteTimer
  <2> HIDE DEF ask
  <2>2. PICK r \in Slots : Sent(r, ask)
    BY <2>1, SendIs DEF Typing, Core
  <2>3. DropsSub(r)
    BY <1>10, <2>2 DEF DeleteTimer, DropsSub, Elsewhere, history, ask
  <2>4. Local /\ Place /\ DialogGood'
    BY <1>10, <1>2, <2>3 DEF Local, DeleteTimer, Place
  <2>5. QED
    BY <1>1, <2>4
<1>11. QED
  BY <1>3, <1>4, <1>5, <1>6, <1>7, <1>8, <1>9, <1>10

\* The card's column, the card, and the answer that makes a tag.
LEMMA CardSteps ==
  ASSUME Typing,
         \/ \E c \in Columns : handleChangeColumn(c)
         \/ handleDeleteCard
         \/ \E r \in Slots : TagMade(r)
  PROVE Kept
<1>1. ASSUME Place, Local, DialogGood' PROVE Kept
  BY <1>1, PlaceIs DEF Kept
<1>2. ASSUME NEW c \in Columns, handleChangeColumn(c) PROVE Kept
  <2>1. store # Gone /\ store \in Stores
    BY <1>2, DialogIs DEF handleChangeColumn, Ready
  <2>2. PICK r \in Slots :
          Sent(r, [op |-> "move", by |-> Me, to |-> c, snapshot |-> store])
    BY <1>2, SendIs DEF Typing, Core, handleChangeColumn
  <2>3. MovesCard(r, c)
    BY <1>2, <2>1, <2>2 DEF handleChangeColumn, MovesCard, Elsewhere, history
  <2>4. Local /\ Place /\ DialogGood'
    BY <1>2, <2>3 DEF Local, handleChangeColumn, Place, Unmount, DialogGood
  <2>5. QED
    BY <1>1, <2>4
<1>3. CASE handleDeleteCard
  <2>1. store # Gone
    BY <1>3, DialogIs DEF handleDeleteCard, Ready
  <2>2. PICK r \in Slots : Sent(r, [op |-> "delete", by |-> Me, snapshot |-> store])
    BY <1>3, SendIs DEF Typing, Core, handleDeleteCard
  <2>3. DeletesCard(r)
    BY <1>3, <2>1, <2>2 DEF handleDeleteCard, DeletesCard, Elsewhere, history
  <2>4. Local /\ Place /\ DialogGood'
    BY <1>3, <2>3 DEF Local, handleDeleteCard, Place, Unmount, DialogGood
  <2>5. QED
    BY <1>1, <2>4
<1>4. ASSUME NEW r \in Slots, TagMade(r) PROVE Kept
  <2> DEFINE q == reqs[r].ask
             tagged == q.form["tags"] \cup {q.tag}
             form == [q.form EXCEPT !["tags"] = tagged]
  <2>1. reqs[r] \in Requests /\ q \in Asks /\ q.op = "tag" /\ reqs[r].pc = "answered"
    BY <1>4, OpenIs DEF TagMade, Typing, Core, Requests
  <2>2. q.form \in Forms /\ q.tag \in Tags
    BY <2>1, AskIs DEF TagAsks
  <2>3. tagged \in SUBSET Tags /\ tagged \in Values
    <3>1. q.form["tags"] \in SUBSET Tags
      BY <2>2 DEF Forms
    <3>2. tagged \in SUBSET Tags
      BY <2>2, <3>1
    <3>3. QED
      BY <3>2, EntryIs
  <2>4. form \in Forms /\ form["tags"] = tagged
    BY <2>2, <2>3, TheFields DEF Forms
  <2>5. form = [q.form EXCEPT !["tags"] = @ \cup {q.tag}]
    BY <2>2, TheFields DEF Forms
  <2>6. /\ reqs' = [reqs EXCEPT ![r] = Request(SaveOf(form, "tags", TRUE))]
        /\ store' = IF store = Gone THEN store ELSE updateCard(Patched(form, "tags"))
        /\ dialog' = IF dialog.open /\ dialog.creating
                     THEN [dialog EXCEPT !.form["tags"] = tagged,
                                         !.committed["tags"] = tagged,
                                         !.known = @ \cup {q.tag}, !.creating = FALSE,
                                         !.failed = @ \ {"tags"}]
                     ELSE dialog
    <3> HIDE DEF form
    <3>1. /\ reqs' = [reqs EXCEPT ![r] = Request(SaveOf(form, "tags", TRUE))]
          /\ store' = IF store = Gone THEN store ELSE updateCard(Patched(form, "tags"))
      BY <1>4, <2>5 DEF TagMade
    <3>2. dialog' = IF dialog.open /\ dialog.creating
                    THEN [dialog EXCEPT !.form["tags"] = form["tags"],
                                        !.committed["tags"] = form["tags"],
                                        !.known = @ \cup {q.tag}, !.creating = FALSE,
                                        !.failed = @ \ {"tags"}]
                    ELSE dialog
      <4> DEFINE g == [q.form EXCEPT !["tags"] = @ \cup {q.tag}]
      <4>1. dialog' = IF dialog.open /\ dialog.creating
                      THEN [dialog EXCEPT !.form["tags"] = g["tags"],
                                          !.committed["tags"] = g["tags"],
                                          !.known = @ \cup {q.tag}, !.creating = FALSE,
                                          !.failed = @ \ {"tags"}]
                      ELSE dialog
        BY <1>4 DEF TagMade
      <4>2. g = form
        BY <2>5
      <4> HIDE DEF g
      <4>3. QED
        BY <4>1, <4>2
    <3>3. QED
      BY <2>4, <3>1, <3>2
  <2>7. Place /\ UNCHANGED <<db, undo, inbox, history>>
    BY <1>4 DEF TagMade, Place
  <2> HIDE DEF form
  <2>8. SavesField(r, form, "tags", TRUE)
    BY <2>1, <2>6, <2>7 DEF SavesField, Sent, Free, updateCard, Elsewhere, history
  <2>9. Local
    BY <2>4, <2>8, TheFields DEF Local
  <2>10. (store' = Gone) <=> (store = Gone)
    BY <2>4, <2>8, SavedIs, TheFields DEF Typing
  <2>11. DialogGood'
    <3>1. CASE dialog.open /\ dialog.creating
      <4> DEFINE f == [dialog.form EXCEPT !["tags"] = tagged]
                 c == [dialog.committed EXCEPT !["tags"] = tagged]
                 known == dialog.known \cup {q.tag}
                 failed == dialog.failed \ {"tags"}
      <4>1. dialog \in Dialogs /\ Touched(dialog) /\ store # Gone
        BY <3>1, DialogIs
      <4>2. /\ dialog.form \in [Fields -> Values] /\ dialog.committed \in [Fields -> Values]
            /\ dialog.committed["title"] # Blank
            /\ known \in SUBSET Tags /\ failed \in SUBSET Fields
        BY <2>2, <4>1 DEF Dialogs, Saved, Forms
      <4>3. /\ f \in [Fields -> Values] /\ f["tags"] = tagged
            /\ c \in [Fields -> Values] /\ c["tags"] = tagged /\ c["title"] # Blank
            /\ \A g \in Fields : g # "tags" =>
                 f[g] = dialog.form[g] /\ c[g] = dialog.committed[g]
        BY <2>3, <4>2, TheFields
      <4>4. dialog' = [dialog EXCEPT !.form = f, !.committed = c, !.known = known,
                                     !.creating = FALSE, !.failed = failed]
        BY <2>6, <3>1
      <4> HIDE DEF f, c, known, failed, tagged
      <4>5. f \in Forms /\ c \in Saved
        BY <2>3, <4>3 DEF Saved, Forms
      <4>6. dialog' \in Dialogs /\ dialog'.form = f /\ dialog'.committed = c
            /\ dialog'.touched = dialog.touched
        BY <4>1, <4>2, <4>4, <4>5 DEF Dialogs
      <4>7. \A g \in Fields : g # "title" /\ dialog'.form[g] # dialog'.committed[g]
                               => g \in dialog'.touched
        BY <4>1, <4>3, <4>6 DEF Touched
      <4>8. QED
        BY <2>10, <4>1, <4>6, <4>7 DEF DialogGood, Touched
    <3>2. CASE ~(dialog.open /\ dialog.creating)
      BY <2>6, <2>10, <3>2 DEF Typing, DialogGood, Touched
    <3>3. QED
      BY <3>1, <3>2
  <2>12. QED
    BY <1>1, <2>7, <2>9, <2>11
<1>5. QED
  BY <1>2, <1>3, <1>4

\* The dialog for a new task: its column is the one it shows.
LEMMA DraftSteps ==
  ASSUME Typing,
         \/ \E c \in Columns : OpenDraft(c)
         \/ TypeDraft \/ PickDraft \/ handleAddCard \/ CloseDraft
         \/ \E c \in Columns : ChangeColumn(c)
  PROVE Kept
<1>1. ASSUME UNCHANGED <<dialog, store>> PROVE DialogGood'
  BY <1>1 DEF Typing, DialogGood, Touched
<1>2. ASSUME UNCHANGED board PROVE BoardTypes'
  BY <1>2 DEF Typing, board, BoardTypes
<1>3. draft.open => draft \in Drafts
  BY Plain DEF Typing, DraftTypes
<1>4. TodoColumns \in SUBSET Columns /\ TodoColumns # {}
  BY DEF Typing, BoardTypes, TodoColumns
<1>5. ASSUME NEW c \in Columns, OpenDraft(c) PROVE Kept
  <2>1. draft' = [open |-> TRUE, home |-> c, col |-> c, titled |-> FALSE, rest |-> FALSE]
    BY <1>5 DEF OpenDraft, DefaultColumn
  <2>2. draft' \in Drafts /\ draft'.col = c
    BY <2>1 DEF Drafts
  <2>3. c \in TodoColumns /\ UNCHANGED <<board, dialog, store>> /\ Still
    BY <1>5 DEF OpenDraft, Still, Elsewhere, history
  <2>4. QED
    BY <1>1, <1>2, <2>2, <2>3 DEF Kept, Local, DraftTypes
<1>6. CASE TypeDraft
  <2>1. draft \in Drafts /\ UNCHANGED <<board, dialog, store>> /\ Still
    BY <1>6, <1>3 DEF TypeDraft, Still, Elsewhere, history
  <2>2. draft' \in Drafts
    <3>1. CASE draft' = [draft EXCEPT !.titled = ~@]
      <4>1. draft.titled \in BOOLEAN
        BY <2>1 DEF Drafts
      <4>2. QED
        BY <2>1, <3>1, <4>1 DEF Drafts
    <3>2. CASE draft' = [draft EXCEPT !.rest = TRUE]
      BY <2>1, <3>2 DEF Drafts
    <3>3. QED
      BY <1>6, <3>1, <3>2 DEF TypeDraft
  <2>3. QED
    BY <1>1, <1>2, <2>1, <2>2 DEF Kept, Local, DraftTypes
<1>7. CASE PickDraft
  <2>1. draft \in Drafts /\ UNCHANGED <<board, dialog, store>> /\ Still
    BY <1>7, <1>3 DEF PickDraft, Still, Elsewhere, history
  <2>2. draft' \in Drafts
    <3>1. ASSUME NEW c \in TodoColumns, draft' = [draft EXCEPT !.col = c]
          PROVE draft' \in Drafts
      <4>1. c \in Columns
        BY <1>4
      <4>2. QED
        BY <2>1, <3>1, <4>1 DEF Drafts
    <3>2. CASE draft' = [draft EXCEPT !.rest = TRUE]
      BY <2>1, <3>2 DEF Drafts
    <3>3. QED
      BY <1>7, <3>1, <3>2 DEF PickDraft
  <2>3. QED
    BY <1>1, <1>2, <2>1, <2>2 DEF Kept, Local, DraftTypes
<1>8. CASE CloseDraft
  <2>1. UNCHANGED <<board, dialog, store>> /\ Still /\ draft' = NoDraft
    BY <1>8 DEF CloseDraft, Still, Elsewhere, history
  <2>2. DraftTypes'
    BY <2>1, Plain DEF DraftTypes
  <2>3. QED
    BY <1>1, <1>2, <2>1, <2>2 DEF Kept, Local
<1>9. CASE handleAddCard
  <2> DEFINE ask == [op |-> "create", by |-> Me, col |-> draft.col, rest |-> draft.rest,
                     shown |-> ShownColumn]
  <2>1. draft \in Drafts /\ draft.open
    BY <1>9, <1>3 DEF handleAddCard
  <2>2. ShownColumn \in Columns
    <3>1. draft.col \in Columns
      BY <2>1 DEF Drafts
    <3>2. TodoColumns \in SUBSET Nat
      BY <1>4, DialogAssumption
    <3>3. First(TodoColumns) \in TodoColumns
      BY <1>4, <3>2, LeastIsIn
    <3>4. QED
      BY <1>4, <3>1, <3>3 DEF ShownColumn
  <2>3. Send(ask)
    BY <1>9 DEF handleAddCard
  <2>4. ask \in Asks /\ ask.op = "create"
    <3>1. ask \in CreateAsks
      BY <2>1, <2>2 DEF Drafts, CreateAsks
    <3>2. QED
      BY <3>1 DEF Asks
  <2> HIDE DEF ask
  <2>5. PICK r \in Slots : Sent(r, ask)
    BY <2>3, SendIs DEF Typing, Core
  <2>6. AsksFor(r, ask)
    BY <1>9, <2>4, <2>5 DEF handleAddCard, AsksFor, Elsewhere, history
  <2>7. UNCHANGED <<board, dialog, store>> /\ draft' = NoDraft
    BY <1>9 DEF handleAddCard
  <2>8. DraftTypes'
    BY <2>7, Plain DEF DraftTypes
  <2>9. QED
    BY <1>1, <1>2, <2>4, <2>6, <2>7, <2>8 DEF Kept, Local
<1>10. ASSUME NEW c \in Columns, ChangeColumn(c) PROVE Kept
  <2>1. Still /\ (dialog' = NoDialog \/ dialog' = dialog)
    BY <1>10 DEF ChangeColumn, Still, Elsewhere, history
  <2>2. DialogGood'
    BY <2>1 DEF Typing, DialogGood, Touched, Still
  <2>3. DOMAIN cols' \in SUBSET Columns
    <3>1. DOMAIN cols \in SUBSET Columns
      BY DEF Typing, BoardTypes
    <3>2. CASE cols' = [cols EXCEPT ![c] = IF @ = "DONE" THEN "TODO" ELSE "DONE"]
      BY <3>1, <3>2
    <3>3. CASE cols' = [d \in DOMAIN cols \ {c} |-> cols[d]]
      BY <3>1, <3>3
    <3>4. QED
      BY <1>10, <3>2, <3>3 DEF ChangeColumn
  <2>4. BoardTypes'
    BY <1>10, <2>3 DEF Typing, BoardTypes, ChangeColumn
  <2>5. DraftTypes'
    BY <1>10 DEF ChangeColumn, Typing, DraftTypes
  <2>6. QED
    BY <2>1, <2>2, <2>4, <2>5 DEF Kept, Local
<1>11. QED
  BY <1>5, <1>6, <1>7, <1>8, <1>9, <1>10

\* What somebody else asks for.
LEMMA OthersSteps ==
  ASSUME Typing, Others PROVE Kept
<1>1. UNCHANGED <<dialog, store>> /\ Place
  BY DEF Others, Place
<1>2. DialogGood'
  BY <1>1 DEF Typing, DialogGood, Touched
<1>3. db # Gone /\ db \in Rows
  BY DEF Others, Typing, Core, DbTypes
<1>4. ASSUME NEW ask \in Asks, Send(ask), ask.by = None, ask.op # "create",
             ask.op = "save" => Meant(ask),
             ask.op \in {"toggle", "rename", "drop"} => ask.sub \in DOMAIN db.subs
      PROVE Local
  <2>1. PICK r \in Slots : Sent(r, ask)
    BY <1>4, SendIs DEF Typing, Core
  <2>2. AsksFor(r, ask)
    BY <1>3, <1>4, <2>1, Plain DEF Others, AsksFor, Elsewhere, history
  <2>3. QED
    BY <2>2 DEF Local
<1>5. ASSUME NEW f \in Fields, NEW v \in Entries[f], f = "title" => v # Blank,
             Send([op |-> "save", by |-> None, field |-> f, meant |-> TRUE,
                   body |-> buildCardFieldUpdate([Start EXCEPT ![f] = v], f)])
      PROVE Local
  <2> DEFINE form == [Start EXCEPT ![f] = v]
             body == buildCardFieldUpdate(form, f)
             ask == [op |-> "save", by |-> None, field |-> f, meant |-> TRUE, body |-> body]
  <2>1. form[f] = v
    BY DialogAssumption
  <2> HIDE DEF form
  <2>2. /\ Stored(f, form[f]) \in Values
        /\ f = "tags" => Stored(f, form[f]) \in SUBSET Tags
        /\ f = "title" => Stored(f, form[f]) # Blank
    <3>1. v \in Values /\ Blank \in Values
      BY EntryIs
    <3>2. f = "tags" => v \in SUBSET Tags
      BY EntryIs
    <3>3. QED
      BY <1>5, <2>1, <3>1, <3>2 DEF Stored
  <2>3. body \in Bodies(f)
    <3> DEFINE w == Stored(f, form[f])
    <3>1. body = [g \in {f} |-> w]
      BY DEF buildCardFieldUpdate
    <3> HIDE DEF w
    <3>2. w \in Values
      BY <2>2 DEF w
    <3>3. /\ f = "tags" => w \in SUBSET Tags
          /\ f = "title" => w # Blank
      BY <2>2 DEF w
    <3>4. QED
      BY <3>1, <3>2, <3>3 DEF Bodies
  <2> HIDE DEF body
  <2>4. ask \in SaveAsks
    BY <2>3, Plain DEF SaveAsks
  <2>5. ask \in Asks
    BY <2>4 DEF Asks
  <2>6. Send(ask) /\ ask.op = "save" /\ ask.by = None /\ ask.meant = TRUE
    BY <1>5 DEF body, form
  <2> HIDE DEF ask
  <2>7. QED
    BY <1>4, <2>5, <2>6 DEF Meant
<1>6. ASSUME Send([op |-> "add", by |-> None, title |-> FirstTitle]) PROVE Local
  <2> DEFINE ask == [op |-> "add", by |-> None, title |-> FirstTitle]
  <2>1. FirstTitle \in Titles
    BY DialogAssumption DEF FirstTitle
  <2>2. ask \in Asks /\ ask.by = None /\ ask.op = "add" /\ Send(ask)
    BY <1>6, <2>1, AddAskIs, Plain
  <2> HIDE DEF ask
  <2>3. QED
    BY <1>4, <2>2
<1>7. ASSUME NEW s \in DOMAIN db.subs PROVE s \in Subs /\ db.subs[s].done \in BOOLEAN
  <2>1. db.subs \in Lists
    BY <1>3 DEF Rows
  <2>2. s \in Subs /\ db.subs[s] \in Subtasks
    BY <2>1, ListIs
  <2>3. QED
    BY <2>2 DEF Subtasks
<1>8. ASSUME NEW s \in DOMAIN db.subs,
             Send([op |-> "toggle", by |-> None, sub |-> s, done |-> ~db.subs[s].done,
                   since |-> 0, unsure |-> FALSE])
      PROVE Local
  <2> DEFINE d == ~db.subs[s].done
             ask == [op |-> "toggle", by |-> None, sub |-> s, done |-> d, since |-> 0,
                     unsure |-> FALSE]
  <2>1. s \in Subs /\ d \in BOOLEAN
    BY <1>7
  <2>2. Send(ask)
    BY <1>8
  <2> HIDE DEF d
  <2>3. ask \in Asks /\ ask.by = None /\ ask.op = "toggle" /\ ask.sub = s
    BY <2>1, ToggleAskIs, Plain
  <2> HIDE DEF ask
  <2>4. QED
    BY <1>4, <2>2, <2>3
<1>9. ASSUME NEW s \in DOMAIN db.subs, Send([op |-> "drop", by |-> None, sub |-> s])
      PROVE Local
  <2> DEFINE ask == [op |-> "drop", by |-> None, sub |-> s]
  <2>1. ask \in Asks /\ ask.by = None /\ ask.op = "drop" /\ ask.sub = s /\ Send(ask)
    BY <1>7, <1>9, DropAskIs, Plain
  <2> HIDE DEF ask
  <2>2. QED
    BY <1>4, <2>1
<1>10. ASSUME NEW c \in DOMAIN cols,
              Send([op |-> "move", by |-> None, to |-> c, snapshot |-> Gone])
       PROVE Local
  <2> DEFINE ask == [op |-> "move", by |-> None, to |-> c, snapshot |-> Gone]
  <2>1. c \in Columns
    BY DEF Typing, BoardTypes
  <2>2. ask \in Asks /\ ask.by = None /\ ask.op = "move" /\ Send(ask)
    BY <1>10, <2>1, MoveAskIs, Plain
  <2> HIDE DEF ask
  <2>3. QED
    BY <1>4, <2>2
<1>11. ASSUME Send([op |-> "delete", by |-> None, snapshot |-> Gone]) PROVE Local
  <2> DEFINE ask == [op |-> "delete", by |-> None, snapshot |-> Gone]
  <2>1. ask \in Asks /\ ask.by = None /\ ask.op = "delete" /\ Send(ask)
    BY <1>11, DeleteAskIs, Plain
  <2> HIDE DEF ask
  <2>2. QED
    BY <1>4, <2>1
<1>12. Local
  BY <1>5, <1>6, <1>8, <1>9, <1>10, <1>11 DEF Others
<1>13. QED
  BY <1>1, <1>2, <1>12, PlaceIs DEF Kept

\* A step of the user's, of a timer's, or of somebody's request.
UserStep ==
  \/ UserNext \/ DeleteTimer \/ Others \/ \E c \in Columns : ChangeColumn(c)
  \/ \E r \in Slots : TagMade(r)
LEMMA UserSteps == ASSUME Typing, UserStep PROVE Kept
BY FormSteps, SubtaskSteps, CardSteps, DraftSteps, OthersSteps DEF UserStep, UserNext
-----------------------------------------------------------------------------
\* The row after a request that is allowed, operation by operation.
SameRow(row) ==
  /\ row.fields = db.fields /\ row.col \in Columns /\ row.ver = db.ver
SameList(row) == row.subs = db.subs /\ row.used = db.used /\ row.listVer = db.listVer
ListRow(row, subs, used) ==
  /\ SameRow(row) /\ row.subs = subs /\ subs \in Lists /\ row.used = used
  /\ row.listVer = db.listVer + 1
RowAfter(q, row) ==
  /\ q.op = "save" =>
       /\ SameList(row) /\ row.col = db.col /\ row.ver = db.ver + 1
       /\ \A f \in Fields : row.fields[f] = IF f = q.field THEN q.body[f] ELSE db.fields[f]
  /\ q.op = "move" => SameRow(row) /\ SameList(row)
  /\ q.op = "add" =>
       /\ NextSub \in Subs \ db.used
       /\ [title |-> q.title, done |-> FALSE] \in Subtasks
       /\ ListRow(row, With(db.subs, NextSub, [title |-> q.title, done |-> FALSE]),
                  db.used \cup {NextSub})
  /\ q.op = "toggle" =>
       /\ q.sub \in DOMAIN db.subs /\ [db.subs[q.sub] EXCEPT !.done = q.done] \in Subtasks
       /\ ListRow(row, [db.subs EXCEPT ![q.sub] = [@ EXCEPT !.done = q.done]], db.used)
  /\ q.op = "rename" =>
       /\ q.sub \in DOMAIN db.subs /\ [db.subs[q.sub] EXCEPT !.title = q.title] \in Subtasks
       /\ ListRow(row, [db.subs EXCEPT ![q.sub] = [@ EXCEPT !.title = q.title]], db.used)
  /\ q.op = "drop" =>
       /\ q.sub \in DOMAIN db.subs
       /\ ListRow(row, Without(db.subs, q.sub), db.used)

\* A row with another list.
LEMMA ListRowIs ==
  ASSUME db \in Rows, NEW subs \in Lists, NEW used \in SUBSET Subs
  PROVE LET row == [db EXCEPT !.subs = subs, !.used = used, !.listVer = @ + 1]
        IN  row \in Rows /\ ListRow(row, subs, used)
<1>1. db.listVer \in Nat /\ db.fields \in Saved /\ db.col \in Columns /\ db.ver \in Nat
  BY DEF Rows
<1> DEFINE v == db.listVer + 1
           row == [db EXCEPT !.subs = subs, !.used = used, !.listVer = v]
<1>2. v \in Nat
  BY <1>1
<1> HIDE DEF v
<1>3. row \in Rows
  BY <1>2 DEF Rows
<1>4. /\ row.fields = db.fields /\ row.col = db.col /\ row.ver = db.ver
      /\ row.subs = subs /\ row.used = used /\ row.listVer = v
  BY DEF Rows
<1> HIDE DEF row
<1>5. ListRow(row, subs, used)
  BY <1>1, <1>4 DEF ListRow, SameRow, v
<1>6. QED
  BY <1>3, <1>5 DEF row, v

\* Refused or not, the row is one.
LEMMA RowIs ==
  ASSUME Core, NEW q \in Asks, ~Refused(q)
  PROVE /\ db = Gone => q.op \in {"create", "tag"} /\ Rewritten(q) = Gone
        /\ q.op \in {"get", "tag", "create"} => Rewritten(q) = db
        /\ q.op = "delete" => Rewritten(q) = Gone
        /\ db # Gone /\ q.op # "delete" => Rewritten(q) \in Rows /\ RowAfter(q, Rewritten(q))
<1>1. q.op \in {"get", "tag", "create"} => Rewritten(q) = db
  BY DEF Rewritten
<1>2. q.op = "delete" => Rewritten(q) = Gone
  BY DEF Rewritten
<1>3. db = Gone => q.op \in {"create", "tag"} /\ Rewritten(q) = Gone
  BY <1>1 DEF Refused
<1>4. ASSUME db # Gone, q.op # "delete"
      PROVE Rewritten(q) \in Rows /\ RowAfter(q, Rewritten(q))
  <2>1. /\ db \in Rows /\ db.fields \in Saved /\ db.col \in Columns /\ db.ver \in Nat
        /\ db.subs \in Lists /\ db.used \in SUBSET Subs /\ db.listVer \in Nat
    BY <1>4 DEF Core, DbTypes, Rows
  <2>2. CASE q.op \in {"get", "tag", "create"}
    BY <1>1, <2>1, <2>2 DEF RowAfter
  <2>3. CASE q.op = "save"
    <3> DEFINE fields == [f \in Fields |-> IF f \in DOMAIN q.body THEN q.body[f]
                                           ELSE db.fields[f]]
    <3>1. q.field \in Fields /\ q.body \in Bodies(q.field)
      BY <2>3, AskIs DEF SaveAsks
    <3>2. /\ DOMAIN q.body = {q.field} /\ q.body[q.field] \in Values
          /\ q.field = "tags" => q.body[q.field] \in SUBSET Tags
          /\ q.field = "title" => q.body[q.field] # Blank
      BY <3>1 DEF Bodies
    <3>3. /\ db.fields \in [Fields -> Values] /\ db.fields["tags"] \in SUBSET Tags
          /\ db.fields["title"] # Blank
      BY <2>1 DEF Saved, Forms
    <3>4. \A f \in Fields : fields[f] = IF f = q.field THEN q.body[f] ELSE db.fields[f]
      BY <3>2
    <3>5. fields \in [Fields -> Values]
      BY <3>2, <3>3
    <3>6. fields["tags"] \in SUBSET Tags
      BY <3>2, <3>3, <3>4, TheFields
    <3>7. fields["title"] # Blank
      BY <3>2, <3>3, <3>4, TheFields
    <3>8. Rewritten(q) = [db EXCEPT !.fields = fields, !.ver = @ + 1]
      BY <2>3 DEF Rewritten
    <3> HIDE DEF fields
    <3>9. fields \in Saved
      BY <3>5, <3>6, <3>7 DEF Saved, Forms
    <3>10. /\ Rewritten(q) \in Rows /\ Rewritten(q).fields = fields
           /\ Rewritten(q).ver = db.ver + 1 /\ SameList(Rewritten(q))
           /\ Rewritten(q).col = db.col
      <4> DEFINE v == db.ver + 1
      <4>1. v \in Nat
        BY <2>1
      <4>2. Rewritten(q) = [db EXCEPT !.fields = fields, !.ver = v]
        BY <3>8
      <4> HIDE DEF v
      <4>3. Rewritten(q) \in Rows
        BY <2>1, <3>9, <4>1, <4>2 DEF Rows
      <4>4. Rewritten(q).fields = fields /\ Rewritten(q).ver = v
            /\ SameList(Rewritten(q)) /\ Rewritten(q).col = db.col
        BY <2>1, <4>2 DEF Rows, SameList
      <4>5. QED
        BY <4>3, <4>4 DEF v
    <3>11. QED
      BY <2>3, <3>4, <3>10 DEF RowAfter
  <2>4. CASE q.op = "move"
    <3>1. q.to \in Columns
      BY <2>4, AskIs DEF MoveAsks
    <3>2. Rewritten(q) = [db EXCEPT !.col = q.to]
      BY <2>4 DEF Rewritten
    <3>3. Rewritten(q) \in Rows /\ SameRow(Rewritten(q)) /\ SameList(Rewritten(q))
      BY <2>1, <3>1, <3>2 DEF Rows, SameRow, SameList
    <3>4. QED
      BY <2>4, <3>3 DEF RowAfter
  <2>5. CASE q.op = "add"
    <3> DEFINE sub == [title |-> q.title, done |-> FALSE]
               subs == With(db.subs, NextSub, sub)
               used == db.used \cup {NextSub}
    <3>1. q.title \in Titles
      BY <2>5, AskIs DEF AddAsks
    <3>2. NextSub \in Subs \ db.used
      <4>1. Subs \ db.used # {}
        <5>1. db.used # Subs
          BY <1>4, <2>5 DEF Refused
        <5>2. QED
          BY <2>1, <5>1
      <4>2. Subs \ db.used \in SUBSET Nat
        BY DialogAssumption
      <4>3. QED
        BY <4>1, <4>2, LeastIsIn DEF NextSub
    <3>3. sub \in Subtasks
      BY <3>1 DEF Subtasks
    <3>4. Rewritten(q) = [db EXCEPT !.subs = subs, !.used = used, !.listVer = @ + 1]
      BY <2>1, <2>5 DEF Rewritten, Rows
    <3> HIDE DEF sub
    <3>5. subs \in Lists /\ used \in SUBSET Subs
      BY <2>1, <3>2, <3>3, WithIs
    <3> HIDE DEF subs, used
    <3>6. Rewritten(q) \in Rows /\ ListRow(Rewritten(q), subs, used)
      BY <2>1, <3>4, <3>5, ListRowIs
    <3>7. QED
      BY <2>5, <3>2, <3>3, <3>6 DEF RowAfter, sub, subs, used
  <2>6. CASE q.op = "toggle"
    <3> DEFINE sub == [db.subs[q.sub] EXCEPT !.done = q.done]
               subs == [db.subs EXCEPT ![q.sub] = sub]
    <3>1. q.sub \in DOMAIN db.subs /\ q.done \in BOOLEAN
      BY <1>4, <2>6, AskIs DEF Refused, ToggleAsks
    <3>2. db.subs[q.sub] \in Subtasks
      BY <2>1, <3>1, ListIs
    <3>3. sub \in Subtasks
      BY <3>1, <3>2 DEF Subtasks
    <3>4. Rewritten(q) = [db EXCEPT !.subs[q.sub].done = q.done, !.listVer = @ + 1]
      BY <2>6 DEF Rewritten
    <3>5. Rewritten(q) = [db EXCEPT !.subs = subs, !.used = db.used, !.listVer = @ + 1]
      BY <2>1, <3>1, <3>4 DEF Rows
    <3>6. subs = [db.subs EXCEPT ![q.sub] = [@ EXCEPT !.done = q.done]]
      BY <3>1
    <3> HIDE DEF sub
    <3>7. subs \in Lists
      BY <2>1, <3>1, <3>3, ExceptIs
    <3> HIDE DEF subs
    <3>8. Rewritten(q) \in Rows /\ ListRow(Rewritten(q), subs, db.used)
      BY <2>1, <3>5, <3>7, ListRowIs
    <3>9. QED
      BY <2>6, <3>1, <3>3, <3>6, <3>8 DEF RowAfter, sub
  <2>7. CASE q.op = "rename"
    <3> DEFINE sub == [db.subs[q.sub] EXCEPT !.title = q.title]
               subs == [db.subs EXCEPT ![q.sub] = sub]
    <3>1. q.sub \in DOMAIN db.subs /\ q.title \in Titles
      BY <1>4, <2>7, AskIs DEF Refused, RenameAsks
    <3>2. db.subs[q.sub] \in Subtasks
      BY <2>1, <3>1, ListIs
    <3>3. sub \in Subtasks
      BY <3>1, <3>2 DEF Subtasks
    <3>4. Rewritten(q) = [db EXCEPT !.subs[q.sub].title = q.title, !.listVer = @ + 1]
      BY <2>7 DEF Rewritten
    <3>5. Rewritten(q) = [db EXCEPT !.subs = subs, !.used = db.used, !.listVer = @ + 1]
      BY <2>1, <3>1, <3>4 DEF Rows
    <3>6. subs = [db.subs EXCEPT ![q.sub] = [@ EXCEPT !.title = q.title]]
      BY <3>1
    <3> HIDE DEF sub
    <3>7. subs \in Lists
      BY <2>1, <3>1, <3>3, ExceptIs
    <3> HIDE DEF subs
    <3>8. Rewritten(q) \in Rows /\ ListRow(Rewritten(q), subs, db.used)
      BY <2>1, <3>5, <3>7, ListRowIs
    <3>9. QED
      BY <2>7, <3>1, <3>3, <3>6, <3>8 DEF RowAfter, sub
  <2>8. CASE q.op = "drop"
    <3> DEFINE subs == Without(db.subs, q.sub)
    <3>1. q.sub \in DOMAIN db.subs
      BY <1>4, <2>8 DEF Refused
    <3>2. subs \in Lists
      BY <2>1, WithoutIs
    <3>3. Rewritten(q) = [db EXCEPT !.subs = subs, !.used = db.used, !.listVer = @ + 1]
      BY <2>1, <2>8 DEF Rewritten, Rows
    <3> HIDE DEF subs
    <3>4. Rewritten(q) \in Rows /\ ListRow(Rewritten(q), subs, db.used)
      BY <2>1, <3>2, <3>3, ListRowIs
    <3>5. QED
      BY <2>8, <3>1, <3>4 DEF RowAfter, subs
  <2>9. QED
    BY <1>4, <2>2, <2>3, <2>4, <2>5, <2>6, <2>7, <2>8, AskIs
<1>5. QED
  BY <1>1, <1>2, <1>3, <1>4
-----------------------------------------------------------------------------
\* What is broadcast and answered after a write.
LEMMA EventIs ==
  ASSUME Core, NEW q \in Asks, ~Refused(q),
         q.op \in {"save", "add", "toggle", "rename", "drop", "move", "delete"}
  PROVE LET row == Rewritten(q) IN
        /\ db # Gone /\ db \in Rows
        /\ Event(q, row) \in Events
        /\ Made(q, row) \in Creations \cup {NoEvent}
        /\ q.op = "add" => /\ Made(q, row) \in Creations /\ Made(q, row).sub = NextSub
                           /\ Made(q, row).listVer = row.listVer
        /\ q.op # "add" => Made(q, row) = NoEvent
        /\ q.op = "save" => /\ Event(q, row).kind = "card"
                            /\ Event(q, row).fields = row.fields
                            /\ Event(q, row).ver = row.ver
        /\ q.op = "move" => Event(q, row).kind = "moved"
        /\ q.op = "delete" => Event(q, row).kind = "deleted"
        /\ q.op \in {"add", "toggle", "rename", "drop"} =>
             /\ Event(q, row).kind = "subtasks" /\ Event(q, row).list = row.subs
             /\ Event(q, row).listVer = row.listVer
<1> DEFINE row == Rewritten(q)
<1>1. db # Gone /\ db \in Rows
  BY RowIs DEF Core, DbTypes
<1>2. CASE q.op = "delete"
  <2>1. Event(q, row) = [kind |-> "deleted"] /\ Made(q, row) = NoEvent
    BY <1>2 DEF Event, Made
  <2> HIDE DEF row
  <2>2. [kind |-> "deleted"] \in Events
    BY DEF Events
  <2>3. QED
    BY <1>1, <1>2, <2>1, <2>2 DEF row
<1>3. ASSUME q.op # "delete"
      PROVE /\ row \in Rows /\ RowAfter(q, row) /\ row.fields \in Saved /\ row.ver \in Nat
            /\ row.col \in Columns /\ row.subs \in Lists /\ row.listVer \in Nat
  <2>1. row \in Rows /\ RowAfter(q, row)
    BY <1>1, <1>3, RowIs
  <2> HIDE DEF row
  <2>2. QED
    BY <2>1 DEF Rows
<1>4. CASE q.op = "save"
  <2>1. Event(q, row) = [kind |-> "card", fields |-> row.fields, ver |-> row.ver]
        /\ Made(q, row) = NoEvent
    BY <1>4 DEF Event, Made
  <2> DEFINE e == [kind |-> "card", fields |-> row.fields, ver |-> row.ver]
  <2>2. e \in CardEvents
    BY <1>3, <1>4 DEF CardEvents
  <2>3. e \in Events
    BY <2>2 DEF Events
  <2>4. e.kind = "card" /\ e.fields = row.fields /\ e.ver = row.ver
    OBVIOUS
  <2> HIDE DEF row
  <2>5. QED
    BY <1>1, <1>4, <2>1, <2>3, <2>4 DEF row
<1>5. CASE q.op = "move"
  <2>1. Event(q, row) = [kind |-> "moved", to |-> row.col] /\ Made(q, row) = NoEvent
    BY <1>5 DEF Event, Made
  <2> DEFINE e == [kind |-> "moved", to |-> row.col]
  <2>2. e \in Events /\ e.kind = "moved"
    BY <1>3, <1>5 DEF Events
  <2> HIDE DEF row
  <2>3. QED
    BY <1>1, <1>5, <2>1, <2>2 DEF row
<1>6. CASE q.op \in {"add", "toggle", "rename", "drop"}
  <2> DEFINE e == [kind |-> "subtasks", list |-> row.subs, listVer |-> row.listVer]
  <2>1. Event(q, row) = e
    BY <1>6 DEF Event, ListEvent
  <2>2. e \in ListEvents /\ e.kind = "subtasks" /\ e.list = row.subs
        /\ e.listVer = row.listVer
    BY <1>3, <1>6 DEF ListEvents
  <2>3. e \in Events
    BY <2>2 DEF Events
  <2>4. q.op # "add" => Made(q, row) = NoEvent
    BY DEF Made
  <2>5. ASSUME q.op = "add"
        PROVE /\ Made(q, row) \in Creations /\ Made(q, row).sub = NextSub
              /\ Made(q, row).listVer = row.listVer
    <3> DEFINE sub == [title |-> q.title, done |-> FALSE]
    <3>1. RowAfter(q, row) /\ row.listVer \in Nat
      BY <1>3, <2>5
    <3> HIDE DEF row
    <3>2. /\ NextSub \in Subs /\ sub \in Subtasks /\ row.subs = With(db.subs, NextSub, sub)
          /\ db.subs \in Lists
      BY <1>1, <2>5, <3>1 DEF RowAfter, ListRow, Rows
    <3> HIDE DEF sub
    <3>3. row.subs[NextSub] = sub
      <4>1. PICK s \in Subs, d \in Lists, x \in Subtasks :
              s = NextSub /\ d = db.subs /\ x = sub
        BY <3>2
      <4>2. With(d, s, x)[s] = x
        BY WithIs
      <4>3. row.subs = With(d, s, x)
        BY <3>2, <4>1
      <4>4. QED
        BY <4>1, <4>2, <4>3
    <3>4. Made(q, row) = [kind |-> "made", sub |-> NextSub, row |-> sub,
                          listVer |-> row.listVer]
      BY <2>5, <3>3 DEF Made
    <3>5. QED
      BY <3>1, <3>2, <3>4 DEF Creations
  <2> HIDE DEF row
  <2>6. QED
    BY <1>1, <1>6, <2>1, <2>2, <2>3, <2>4, <2>5 DEF row
<1>7. QED
  BY <1>2, <1>4, <1>5, <1>6

\* What a write does to the slots.
Wrote(r) ==
  LET q == reqs[r].ask IN
  /\ reqs[r] \in Requests /\ Open(r) /\ reqs[r].pc = "sent" /\ q \in Asks /\ ~Refused(q)
  /\ Whole(r) /\ db' = Rewritten(q) /\ Rest(r)
  /\ q.op = "create" => reqs'[r] = Idle
  /\ q.op # "create" => /\ Open(r)' /\ reqs'[r] \in Requests
                        /\ reqs'[r].ask = q /\ reqs'[r].waits = reqs[r].waits
  /\ q.op = "tag" =>
       /\ reqs'[r].pc = "answered" /\ reqs'[r].event = reqs[r].event
       /\ reqs'[r].made = reqs[r].made
  /\ q.op = "get" =>
       /\ reqs'[r].pc = "answered" /\ reqs'[r].event = ListEvent(db)
       /\ db # Gone /\ db \in Rows /\ ListEvent(db) \in ListEvents
       /\ reqs'[r].made = reqs[r].made
  /\ q.op \notin {"create", "tag", "get"} =>
       /\ reqs'[r].pc = "written" /\ reqs'[r].event = Event(q, Rewritten(q))
       /\ reqs'[r].made = Made(q, Rewritten(q))

LEMMA WriteIs ==
  ASSUME Core, NEW r \in Slots, Write(r)
  PROVE Wrote(r) /\ ReqTypes' /\ WholeReqs'
<1> DEFINE x == reqs[r]
           q == x.ask
<1>1. ReqTypes /\ WholeReqs /\ Open(r) /\ x.pc = "sent"
  BY DEF Core, Write
<1>2. x \in Requests /\ Whole(r) /\ q \in Asks
  BY <1>1, OpenIs DEF WholeReqs, Requests
<1>3. ~Refused(q) /\ db' = Rewritten(q)
  BY DEF Write
<1> DEFINE row == Rewritten(q)
<1>4. reqs' = [reqs EXCEPT ![r] =
         IF q.op = "create" THEN Idle
         ELSE IF q.op = "tag" THEN [x EXCEPT !.pc = "answered"]
         ELSE IF q.op = "get" THEN [x EXCEPT !.pc = "answered", !.event = ListEvent(row)]
         ELSE [x EXCEPT !.pc = "written", !.event = Event(q, row), !.made = Made(q, row)]]
  <2>1. reqs \in [Slots -> {Idle} \cup Requests]
    BY <1>1 DEF ReqTypes
  <2>2. QED
    BY <2>1 DEF Write
<1>5. ASSUME Rest(r), Whole(r)' \/ ~Open(r)' PROVE WholeReqs'
  <2>1. \A s \in Slots \ {r} : Open(s)' => Whole(s)'
    BY <1>1, <1>5 DEF WholeReqs, Rest, Whole
  <2>2. QED
    BY <1>5, <2>1 DEF WholeReqs
<1>6. /\ x.waits => q.by = Me
      /\ q.op = "get" => x.waits
      /\ q.op = "save" => Meant(q)
  BY <1>2 DEF Whole
<1> HIDE DEF row
<1>7. CASE q.op = "create"
  <2>1. reqs' = [reqs EXCEPT ![r] = Idle]
    BY <1>4, <1>7
  <2>2. ReqTypes' /\ reqs'[r] = Idle /\ Rest(r) /\ ~Open(r)'
    BY <1>1, <2>1, SlotIs
  <2>3. QED
    BY <1>1, <1>2, <1>3, <1>5, <1>7, <2>2 DEF Wrote
<1>8. CASE q.op = "tag"
  <2> DEFINE y == [x EXCEPT !.pc = "answered"]
  <2>1. reqs' = [reqs EXCEPT ![r] = y]
    BY <1>4, <1>8
  <2>2. /\ y \in Requests /\ y.pc = "answered" /\ y.event = x.event /\ y.made = x.made
        /\ y.ask = q /\ y.waits = x.waits
    BY <1>2 DEF Requests
  <2> HIDE DEF y
  <2>3. ReqTypes' /\ reqs'[r] = y /\ Rest(r) /\ Open(r)'
    BY <1>1, <2>1, <2>2, SlotIs, Plain
  <2>4. Whole(r)'
    BY <1>8, <1>6, <2>2, <2>3 DEF Whole
  <2>5. QED
    BY <1>1, <1>2, <1>3, <1>5, <1>8, <2>2, <2>3, <2>4 DEF Wrote
<1>9. CASE q.op = "get"
  <2>1. row = db /\ db # Gone /\ db \in Rows
    BY <1>2, <1>3, <1>9, RowIs DEF row, Core, DbTypes
  <2>2. ListEvent(db) \in ListEvents
    BY <2>1 DEF ListEvent, ListEvents, Rows
  <2> DEFINE e == ListEvent(db)
             y == [x EXCEPT !.pc = "answered", !.event = e]
  <2>3. reqs' = [reqs EXCEPT ![r] = y]
    BY <1>4, <1>9, <2>1
  <2> HIDE DEF e
  <2>4. e \in Events /\ e \in ListEvents
    BY <2>2 DEF Events, e
  <2>5. /\ y \in Requests /\ y.pc = "answered" /\ y.event = e /\ y.made = x.made
        /\ y.ask = q /\ y.waits = x.waits
    BY <1>2, <2>4 DEF Requests
  <2> HIDE DEF y
  <2>6. ReqTypes' /\ reqs'[r] = y /\ Rest(r) /\ Open(r)'
    BY <1>1, <2>3, <2>5, SlotIs, Plain
  <2>7. Whole(r)'
    BY <1>9, <1>6, <2>4, <2>5, <2>6 DEF Whole
  <2>8. QED
    BY <1>1, <1>2, <1>3, <1>5, <1>9, <2>1, <2>2, <2>5, <2>6, <2>7 DEF Wrote, e
<1>10. CASE q.op \notin {"create", "tag", "get"}
  <2>1. q.op \in {"save", "add", "toggle", "rename", "drop", "move", "delete"}
    BY <1>2, <1>10, AskIs
  <2> DEFINE e == Event(q, row)
             m == Made(q, row)
             y == [x EXCEPT !.pc = "written", !.event = e, !.made = m]
  <2>2. reqs' = [reqs EXCEPT ![r] = y]
    BY <1>4, <1>10
  <2>3. e \in Events /\ m \in Creations \cup {NoEvent} /\ (q.op = "add" => m \in Creations)
    BY <1>2, <1>3, <2>1, EventIs DEF row
  <2> HIDE DEF e, m
  <2>4. /\ y \in Requests /\ y.pc = "written" /\ y.event = e /\ y.made = m
        /\ y.ask = q /\ y.waits = x.waits
    BY <1>2, <2>3 DEF Requests
  <2> HIDE DEF y
  <2>5. ReqTypes' /\ reqs'[r] = y /\ Rest(r) /\ Open(r)'
    BY <1>1, <2>2, <2>4, SlotIs, Plain
  <2>6. Whole(r)'
    BY <1>10, <1>6, <2>1, <2>3, <2>4, <2>5, Plain DEF Whole
  <2>7. QED
    BY <1>1, <1>2, <1>3, <1>5, <1>10, <2>4, <2>5, <2>6 DEF Wrote, e, m, row
<1>11. QED
  BY <1>7, <1>8, <1>9, <1>10

\* A write keeps the types.
LEMMA WriteTypes ==
  ASSUME Typing, NEW r \in Slots, Write(r) PROVE Typing'
<1> DEFINE q == reqs[r].ask
<1>1. Wrote(r) /\ ReqTypes' /\ WholeReqs'
  BY WriteIs DEF Typing
<1>2. q \in Asks /\ ~Refused(q) /\ db' = Rewritten(q) /\ (q.op = "save" => Meant(q))
  BY <1>1 DEF Wrote, Whole
<1>3. DbTypes'
  BY <1>2, RowIs DEF Typing, Core, DbTypes
<1>4. UNCHANGED <<cols, mine, store, dialog, draft, undo, inbox, doubt, listDoubt, heard>>
  BY DEF Write
<1>5. /\ tags' = IF q.op = "tag" THEN tags \cup {q.tag} ELSE tags
      /\ word' = IF q.op # "save" THEN word
                 ELSE [word EXCEPT ![q.field] = IF q.meant THEN q.body[q.field] ELSE None]
      /\ decided' = IF q.op = "drop" /\ q.by = None
                    THEN [decided EXCEPT ![q.sub] = "others"] ELSE decided
  BY DEF Write
<1> HIDE DEF q
<1>6. tags' \in SUBSET Tags
  <2>1. q.op = "tag" => q.tag \in Tags
    BY <1>2, AskIs DEF TagAsks
  <2>2. QED
    BY <1>5, <2>1 DEF Typing, BoardTypes
<1>7. word' \in [Fields -> Values \cup {None}]
  <2>1. q.op = "save" => q.body[q.field] \in Values
    BY <1>2, AskIs DEF SaveAsks, Bodies
  <2>2. QED
    BY <1>5, <2>1 DEF Typing, Core, HistoryTypes
<1>8. decided' \in [Subs -> {None, "deleted", "again", "undone", "others"}]
  BY <1>5 DEF Typing, Core, HistoryTypes
<1>9. Core'
  BY <1>1, <1>3, <1>4, <1>7, <1>8 DEF Typing, Core, StoreTypes, UndoTypes, InboxTypes, HistoryTypes
<1>10. BoardTypes' /\ DialogGood' /\ DraftTypes'
  BY <1>4, <1>6 DEF Typing, BoardTypes, DialogGood, Touched, DraftTypes
<1>11. QED
  BY <1>9, <1>10 DEF Typing

\* Reading the list again changes one event.
LEMMA ReadIs ==
  ASSUME Core, NEW r \in Slots, ReadSubtasks(r)
  PROVE /\ db # Gone /\ db \in Rows /\ Rest(r) /\ Open(r) /\ Open(r)' /\ ReqTypes' /\ WholeReqs'
        /\ reqs[r] \in Requests /\ reqs'[r] \in Requests
        /\ reqs[r].pc = "written" /\ reqs[r].event.kind = "subtasks"
        /\ reqs'[r].pc = "written" /\ reqs'[r].ask = reqs[r].ask
        /\ reqs'[r].waits = reqs[r].waits /\ reqs'[r].made = reqs[r].made
        /\ reqs'[r].event = ListEvent(db) /\ ListEvent(db) \in ListEvents
<1> DEFINE x == reqs[r]
           e == ListEvent(db)
           y == [x EXCEPT !.event = e]
<1>1. ReqTypes /\ WholeReqs /\ Open(r) /\ x.pc = "written" /\ x.event.kind = "subtasks"
      /\ db # Gone
  BY DEF Core, ReadSubtasks
<1>2. x \in Requests /\ Whole(r)
  BY <1>1, OpenIs DEF WholeReqs
<1>3. db \in Rows
  BY <1>1 DEF Core, DbTypes
<1>4. e \in ListEvents
  BY <1>3 DEF ListEvent, ListEvents, Rows
<1>5. reqs' = [reqs EXCEPT ![r] = y]
  BY <1>1 DEF ReadSubtasks, ReqTypes
<1> HIDE DEF e
<1>6. e \in Events /\ e # NoEvent
  BY <1>4, Plain DEF Events
<1>7. /\ y \in Requests /\ y.pc = "written" /\ y.event = e /\ y.made = x.made
      /\ y.ask = x.ask /\ y.waits = x.waits
  BY <1>1, <1>2, <1>6 DEF Requests
<1> HIDE DEF y
<1>8. ReqTypes' /\ reqs'[r] = y /\ Rest(r) /\ Open(r)'
  BY <1>1, <1>5, <1>7, SlotIs, Plain
<1>9. Whole(r)'
  BY <1>1, <1>2, <1>4, <1>6, <1>7, <1>8 DEF Whole
<1>10. WholeReqs'
  <2>1. \A s \in Slots \ {r} : Open(s)' => Whole(s)'
    BY <1>1, <1>8 DEF WholeReqs, Rest, Whole
  <2>2. QED
    BY <1>9, <2>1 DEF WholeReqs
<1>11. QED
  BY <1>1, <1>2, <1>3, <1>4, <1>7, <1>8, <1>10 DEF e

\* A broadcast leaves the request behind.
LEMMA EmitIs ==
  ASSUME Core, NEW r \in Slots, Emit(r)
  PROVE /\ Rest(r) /\ Open(r) /\ ReqTypes' /\ WholeReqs'
        /\ reqs[r] \in Requests /\ reqs[r].pc = "written" /\ reqs[r].event \in Events
        /\ inbox \in Seq(Events) /\ inbox' = Append(inbox, reqs[r].event)
        /\ \/ reqs'[r] = Idle /\ ~Open(r)'
           \/ /\ Open(r)' /\ reqs'[r] \in Requests /\ reqs'[r].pc = "answered"
              /\ reqs'[r].ask = reqs[r].ask /\ reqs[r].ask.op = "add"
              /\ reqs'[r].waits = reqs[r].waits /\ reqs'[r].made = reqs[r].made
              /\ reqs'[r].event = reqs[r].event
<1> DEFINE x == reqs[r]
           y == [x EXCEPT !.pc = "answered"]
<1>1. ReqTypes /\ WholeReqs /\ Open(r) /\ x.pc = "written" /\ inbox \in Seq(Events)
      /\ inbox' = Append(inbox, x.event)
  BY DEF Core, InboxTypes, Emit
<1>2. x \in Requests /\ Whole(r)
  BY <1>1, OpenIs DEF WholeReqs
<1>3. x.event \in Events
  BY <1>1, <1>2 DEF Whole, Requests
<1>4. reqs' = [reqs EXCEPT ![r] = IF ~x.waits \/ x.ask.op # "add" THEN Idle ELSE y]
  BY <1>1 DEF Emit, ReqTypes
<1>5. /\ y \in Requests /\ y.pc = "answered" /\ y.event = x.event /\ y.made = x.made
      /\ y.ask = x.ask /\ y.waits = x.waits
  BY <1>2 DEF Requests
<1> HIDE DEF y
<1>6. ASSUME Rest(r), Whole(r)' \/ ~Open(r)' PROVE WholeReqs'
  <2>1. \A s \in Slots \ {r} : Open(s)' => Whole(s)'
    BY <1>1, <1>6 DEF WholeReqs, Rest, Whole
  <2>2. QED
    BY <1>6, <2>1 DEF WholeReqs
<1>7. CASE ~x.waits \/ x.ask.op # "add"
  <2>1. reqs' = [reqs EXCEPT ![r] = Idle]
    BY <1>4, <1>7
  <2>2. ReqTypes' /\ reqs'[r] = Idle /\ Rest(r) /\ ~Open(r)'
    BY <1>1, <2>1, SlotIs
  <2>3. QED
    BY <1>1, <1>2, <1>3, <1>6, <2>2
<1>8. CASE x.waits /\ x.ask.op = "add"
  <2>1. reqs' = [reqs EXCEPT ![r] = y]
    BY <1>4, <1>8
  <2>2. ReqTypes' /\ reqs'[r] = y /\ Rest(r) /\ Open(r)'
    BY <1>1, <1>5, <2>1, SlotIs, Plain
  <2>3. Whole(r)'
    BY <1>1, <1>2, <1>5, <1>8, <2>2 DEF Whole
  <2>4. QED
    BY <1>1, <1>2, <1>3, <1>5, <1>6, <1>8, <2>2, <2>3
<1>9. QED
  BY <1>7, <1>8

\* The list is read again, or a broadcast is sent: the types are kept.
LEMMA SentTypes ==
  ASSUME Typing, NEW r \in Slots, ReadSubtasks(r) \/ Emit(r) PROVE Typing'
<1>1. UNCHANGED <<db, board, store, dialog, draft, undo, history>>
  BY DEF ReadSubtasks, Emit
<1>2. ReqTypes' /\ WholeReqs'
  BY ReadIs, EmitIs DEF Typing
<1>3. InboxTypes'
  <2>1. CASE ReadSubtasks(r)
    BY <2>1 DEF ReadSubtasks, Typing, Core, InboxTypes
  <2>2. CASE Emit(r)
    BY <2>2, EmitIs DEF Typing, InboxTypes
  <2>3. QED
    BY <2>1, <2>2
<1>4. Core'
  BY <1>1, <1>2, <1>3 DEF Typing, Core, DbTypes, StoreTypes, UndoTypes, HistoryTypes, history
<1>5. DialogGood'
  BY <1>1 DEF Typing, DialogGood, Touched
<1>6. QED
  BY <1>1, <1>4, <1>5, PlaceIs DEF Typing, Place

\* A list is shown.
LEMMA ShowIs ==
  ASSUME Typing, NEW l \in Lists, NEW v \in Nat, ShowList(l, v)
  PROVE /\ StoreTypes' /\ DialogGood'
        /\ (store' = Gone) <=> (store = Gone)
        /\ store # Gone => /\ store'.fields = store.fields /\ store'.subs = l
                           /\ store'.count = Counts(l) /\ listDoubt' = (v < heard.list)
        /\ store = Gone => store' = store /\ listDoubt' = listDoubt
        /\ heard' \in [row : Nat, list : Nat] /\ heard'.row = heard.row
        /\ heard'.list = IF v <= heard.list THEN heard.list ELSE v
        /\ listDoubt' \in BOOLEAN
<1>1. heard.row \in Nat /\ heard.list \in Nat /\ heard \in [row : Nat, list : Nat]
      /\ listDoubt \in BOOLEAN
  BY DEF Typing, Core, HistoryTypes
<1>2. /\ heard' \in [row : Nat, list : Nat] /\ heard'.row = heard.row
      /\ heard'.list = IF v <= heard.list THEN heard.list ELSE v
  <2> DEFINE m == Max({v, heard.list})
  <2>1. m = IF v <= heard.list THEN heard.list ELSE v
    BY <1>1, Larger
  <2>2. heard' = [heard EXCEPT !.list = m]
    BY DEF ShowList
  <2> HIDE DEF m
  <2>3. m \in Nat
    BY <1>1, <2>1
  <2>4. QED
    BY <1>1, <2>1, <2>2, <2>3
<1>3. listDoubt' = IF store = Gone THEN listDoubt ELSE v < heard.list
  BY DEF ShowList
<1>4. listDoubt' \in BOOLEAN
  <2>1. (v < heard.list) \in BOOLEAN
    OBVIOUS
  <2>2. QED
    BY <1>1, <1>3, <2>1
<1>5. store' = setSubtasksToCard(l)
  BY DEF ShowList
<1>6. ASSUME store = Gone PROVE store' = store
  BY <1>5, <1>6 DEF setSubtasksToCard
<1>7. ASSUME store # Gone
      PROVE /\ store' \in Stores /\ store' # Gone /\ store'.fields = store.fields
            /\ store'.subs = l /\ store'.count = Counts(l)
  <2>1. store \in Stores
    BY <1>7 DEF Typing, Core, StoreTypes
  <2>2. QED
    BY <1>5, <1>7, <2>1, SetListIs
<1>8. StoreTypes' /\ ((store' = Gone) <=> (store = Gone))
  BY <1>6, <1>7 DEF StoreTypes
<1>9. DialogGood'
  <2>1. CASE UNCHANGED dialog
    BY <1>8, <2>1 DEF Typing, DialogGood, Touched
  <2>2. CASE dialog.open /\ dialog' = [dialog EXCEPT !.editing = Nobody, !.text = Blank]
    <3>1. dialog \in Dialogs /\ Touched(dialog) /\ store # Gone
      BY <2>2, DialogIs
    <3>2. dialog' \in Dialogs /\ dialog'.form = dialog.form
          /\ dialog'.committed = dialog.committed /\ dialog'.touched = dialog.touched
      BY <2>2, <3>1 DEF Dialogs
    <3>3. QED
      BY <1>8, <3>1, <3>2 DEF DialogGood, Touched
  <2>3. QED
    BY <2>1, <2>2 DEF ShowList
<1>10. QED
  BY <1>2, <1>3, <1>4, <1>6, <1>7, <1>8, <1>9

\* A subtask that was made joins the list, unless it is there.
New(made) ==
  store # Gone /\ made.sub \notin (IF store.subs = NoList THEN {} ELSE DOMAIN store.subs)
Before == IF store.subs = NoList THEN [s \in {} |-> None] ELSE store.subs
LEMMA JoinIs ==
  ASSUME Typing, NEW made \in Creations, AppendAnswer(made)
  PROVE /\ StoreTypes' /\ DialogGood' /\ UNCHANGED <<dialog, heard>>
        /\ (store' = Gone) <=> (store = Gone)
        /\ ~New(made) => store' = store /\ listDoubt' = listDoubt
        /\ New(made) => /\ store # Gone /\ Before \in Lists /\ made.sub \notin DOMAIN Before
                        /\ store'.fields = store.fields
                        /\ store'.subs = With(Before, made.sub, made.row)
                        /\ store'.subs \in Lists
                        /\ store'.count = Counts(store'.subs)
                        /\ listDoubt' = (listDoubt \/ made.listVer <= heard.list)
        /\ listDoubt' \in BOOLEAN
<1> DEFINE list == IF store = Gone \/ store.subs = NoList THEN [s \in {} |-> None]
                   ELSE store.subs
           new == store # Gone /\ made.sub \notin DOMAIN list
<1>1. /\ store' = IF new THEN setSubtasksToCard(With(list, made.sub, made.row)) ELSE store
      /\ listDoubt' = (listDoubt \/ (new /\ made.listVer <= heard.list))
      /\ UNCHANGED <<dialog, heard>>
  BY DEF AppendAnswer
<1>2. DOMAIN [s \in {} |-> None] = {}
  OBVIOUS
<1>3. new <=> New(made)
  BY <1>2 DEF New
<1>4. store # Gone => list = Before
  BY DEF Before
<1>5. listDoubt \in BOOLEAN
  BY DEF Typing, Core, HistoryTypes
<1>6. (made.listVer <= heard.list) \in BOOLEAN
  OBVIOUS
<1> HIDE DEF list
<1>7. CASE ~New(made)
  <2>1. store' = store /\ listDoubt' = listDoubt /\ UNCHANGED <<dialog, heard>>
    BY <1>1, <1>3, <1>5, <1>7
  <2>2. StoreTypes' /\ DialogGood'
    BY <2>1 DEF Typing, Core, StoreTypes, DialogGood, Touched
  <2>3. QED
    BY <1>5, <1>7, <2>1, <2>2
<1>8. CASE New(made)
  <2> DEFINE subs == With(Before, made.sub, made.row)
  <2>1. store # Gone /\ store \in Stores /\ made.sub \in Subs /\ made.row \in Subtasks
    BY <1>8 DEF New, Typing, Core, StoreTypes, Creations
  <2>2. Before \in Lists
    <3>1. [s \in {} |-> None] \in Lists
      <4> DEFINE none == [s \in {} |-> None]
      <4>1. none \in [{} -> Subtasks] /\ {} \in SUBSET Subs /\ IsFiniteSet({})
        BY FS_EmptySet
      <4> HIDE DEF none
      <4>2. none \in Lists
        BY <4>1 DEF Lists
      <4>3. QED
        BY <4>2 DEF none
    <3>2. store.subs \in Lists \cup {NoList}
      BY <2>1 DEF Stores
    <3>3. QED
      BY <3>1, <3>2 DEF Before
  <2>3. made.sub \notin DOMAIN Before
    BY <1>3, <1>4, <1>8, <2>1
  <2>4. subs \in Lists
    BY <2>1, <2>2, WithIs
  <2> HIDE DEF subs
  <2>5. store' = setSubtasksToCard(subs)
    BY <1>1, <1>3, <1>4, <1>8, <2>1 DEF subs
  <2>6. /\ store' \in Stores /\ store' # Gone /\ store'.fields = store.fields
        /\ store'.subs = subs /\ store'.count = Counts(subs)
    BY <2>1, <2>4, <2>5, SetListIs
  <2>7. listDoubt' = (listDoubt \/ made.listVer <= heard.list)
    BY <1>1, <1>3, <1>8
  <2>8. listDoubt' \in BOOLEAN
    BY <1>5, <1>6, <2>7
  <2>9. StoreTypes' /\ DialogGood'
    BY <1>1, <2>1, <2>6 DEF Typing, StoreTypes, DialogGood, Touched
  <2>10. QED
    BY <1>1, <1>8, <2>1, <2>2, <2>3, <2>4, <2>6, <2>7, <2>8, <2>9 DEF subs
<1>9. QED
  BY <1>7, <1>8

\* An answer leaves its slot.
LEMMA LeaveIs ==
  ASSUME Core, NEW r \in Slots, Open(r), reqs' = [reqs EXCEPT ![r] = Idle]
  PROVE /\ ReqTypes' /\ WholeReqs' /\ Rest(r) /\ reqs'[r] = Idle /\ ~Open(r)'
        /\ reqs[r] \in Requests /\ Whole(r)
<1>1. ReqTypes' /\ reqs'[r] = Idle /\ Rest(r) /\ ~Open(r)'
  BY SlotIs DEF Core
<1>2. WholeReqs'
  <2>1. \A s \in Slots \ {r} : Open(s)' => Whole(s)'
    BY <1>1 DEF Core, WholeReqs, Rest, Whole
  <2>2. QED
    BY <1>1, <2>1 DEF WholeReqs
<1>3. reqs[r] \in Requests /\ Whole(r)
  BY OpenIs DEF Core, WholeReqs
<1>4. QED
  BY <1>1, <1>2, <1>3

\* What an answer is.
LEMMA AnswerIs ==
  ASSUME Typing, NEW r \in Slots, Answered(r)
  PROVE /\ \/ /\ reqs[r].ask.op = "get" /\ reqs[r].event \in ListEvents
              /\ reqs[r].event.list \in Lists /\ reqs[r].event.listVer \in Nat
              /\ ShowList(reqs[r].event.list, reqs[r].event.listVer)
           \/ /\ reqs[r].ask.op = "add" /\ reqs[r].made \in Creations
              /\ AppendAnswer(reqs[r].made)
        /\ ReqTypes' /\ WholeReqs' /\ Rest(r) /\ reqs'[r] = Idle /\ ~Open(r)'
        /\ Open(r) /\ reqs[r] \in Requests /\ Whole(r) /\ reqs[r].pc = "answered"
<1>1. Open(r) /\ reqs[r].pc = "answered" /\ reqs' = [reqs EXCEPT ![r] = Idle]
  BY DEF Answered
<1>2. /\ ReqTypes' /\ WholeReqs' /\ Rest(r) /\ reqs'[r] = Idle /\ ~Open(r)'
      /\ reqs[r] \in Requests /\ Whole(r)
  BY <1>1, LeaveIs DEF Typing
<1>3. ASSUME reqs[r].ask.op = "get"
      PROVE /\ reqs[r].event \in ListEvents /\ reqs[r].event.list \in Lists
            /\ reqs[r].event.listVer \in Nat
  BY <1>1, <1>2, <1>3 DEF Whole, ListEvents
<1>4. ASSUME reqs[r].ask.op = "add" PROVE reqs[r].made \in Creations
  BY <1>1, <1>2, <1>4 DEF Whole, Requests
<1>5. QED
  BY <1>1, <1>2, <1>3, <1>4 DEF Answered

\* An answer keeps the types.
LEMMA AnswerTypes ==
  ASSUME Typing, NEW r \in Slots, Answered(r) PROVE Typing'
<1>1. UNCHANGED <<db, board, draft, undo, inbox, word, doubt, decided>>
  BY DEF Answered
<1>2. ReqTypes' /\ WholeReqs'
  BY AnswerIs
<1>3. StoreTypes' /\ DialogGood' /\ listDoubt' \in BOOLEAN
      /\ heard' \in [row : Nat, list : Nat]
  <2>1. ASSUME NEW l \in Lists, NEW v \in Nat, ShowList(l, v)
        PROVE StoreTypes' /\ DialogGood' /\ listDoubt' \in BOOLEAN
              /\ heard' \in [row : Nat, list : Nat]
    BY <2>1, ShowIs
  <2>2. ASSUME NEW made \in Creations, AppendAnswer(made)
        PROVE StoreTypes' /\ DialogGood' /\ listDoubt' \in BOOLEAN
              /\ heard' \in [row : Nat, list : Nat]
    BY <2>2, JoinIs DEF Typing, Core, HistoryTypes
  <2>3. QED
    BY <2>1, <2>2, AnswerIs
<1>4. Core'
  BY <1>1, <1>2, <1>3 DEF Typing, Core, DbTypes, UndoTypes, InboxTypes, HistoryTypes
<1>5. QED
  BY <1>1, <1>3, <1>4, PlaceIs DEF Typing, Place

\* Nobody waits for the answer.
LEMMA ForgetTypes ==
  ASSUME Typing, NEW r \in Slots, Forget(r) PROVE Typing'
<1>1. UNCHANGED <<db, board, store, dialog, draft, undo, inbox, history>>
  BY DEF Forget
<1>2. ReqTypes' /\ WholeReqs'
  BY LeaveIs DEF Forget, Typing
<1>3. Core'
  BY <1>1, <1>2 DEF Typing, Core, DbTypes, StoreTypes, UndoTypes, InboxTypes, HistoryTypes, history
<1>4. DialogGood'
  BY <1>1 DEF Typing, DialogGood, Touched
<1>5. QED
  BY <1>1, <1>3, <1>4, PlaceIs DEF Typing, Place

\* What a failure takes back.
LEMMA RevertIs ==
  ASSUME Typing, NEW q \in Asks, q.by = Me, revert(q)
  PROVE /\ StoreTypes' /\ DialogGood' /\ doubt' \in SUBSET Fields /\ listDoubt' \in BOOLEAN
        /\ q.op = "toggle" /\ HasSub(q.sub) =>
             /\ store \in Stores /\ store # Gone /\ store.subs \in Lists
             /\ q.sub \in DOMAIN store.subs
             /\ [store.subs[q.sub] EXCEPT !.done = ~q.done] \in Subtasks
             /\ store' = updateSubtaskInCard(q.sub,
                                             [store.subs[q.sub] EXCEPT !.done = ~q.done])
             /\ store'.subs = [store.subs EXCEPT ![q.sub] =
                                 [store.subs[q.sub] EXCEPT !.done = ~q.done]]
             /\ store' \in Stores /\ store' # Gone /\ store'.fields = store.fields
        /\ q.op \in {"move", "delete"} =>
             /\ store' = q.snapshot /\ q.snapshot \in Stores /\ q.snapshot # Gone
        /\ q.op \notin {"move", "delete"} /\ ~(q.op = "toggle" /\ HasSub(q.sub)) =>
             store' = store
        /\ q.op = "save" => doubt' = doubt \cup {q.field}
        /\ q.op \notin {"save", "move", "delete"} => doubt' = doubt
        /\ q.op \notin {"get", "toggle", "move", "delete"} => listDoubt' = listDoubt
<1>1. /\ listDoubt \in BOOLEAN /\ doubt \in SUBSET Fields
      /\ store = Gone \/ store \in Stores
  BY DEF Typing, Core, HistoryTypes, StoreTypes
<1>2. ASSUME q.op = "toggle", HasSub(q.sub)
      PROVE /\ store \in Stores /\ store # Gone /\ store.subs \in Lists
            /\ q.sub \in DOMAIN store.subs
            /\ [store.subs[q.sub] EXCEPT !.done = ~q.done] \in Subtasks
            /\ store' = updateSubtaskInCard(q.sub,
                                            [store.subs[q.sub] EXCEPT !.done = ~q.done])
            /\ store'.subs = [store.subs EXCEPT ![q.sub] =
                                [store.subs[q.sub] EXCEPT !.done = ~q.done]]
            /\ store' \in Stores /\ store' # Gone /\ store'.fields = store.fields
  <2> DEFINE sub == [store.subs[q.sub] EXCEPT !.done = ~q.done]
  <2>1. /\ store # Gone /\ store \in Stores /\ store.subs # NoList
        /\ q.sub \in DOMAIN store.subs
    BY <1>1, <1>2 DEF HasSub
  <2>2. store.subs \in Lists
    BY <2>1 DEF Stores
  <2>3. store.subs[q.sub] \in Subtasks /\ q.done \in BOOLEAN
    BY <1>2, <2>1, <2>2, ListIs, AskIs DEF ToggleAsks
  <2>4. sub \in Subtasks
    BY <2>3 DEF Subtasks
  <2>5. store' = updateSubtaskInCard(q.sub, sub)
    BY <1>2 DEF revert
  <2> HIDE DEF sub
  <2>6. /\ store'.subs = [store.subs EXCEPT ![q.sub] = sub]
        /\ store' \in Stores /\ store' # Gone /\ store'.fields = store.fields
    BY <1>2, <2>1, <2>2, <2>4, <2>5, UpdateIs
  <2>7. QED
    BY <2>1, <2>2, <2>4, <2>5, <2>6 DEF sub
<1>3. ASSUME q.op \in {"move", "delete"}
      PROVE store' = q.snapshot /\ q.snapshot \in Stores /\ q.snapshot # Gone
  <2>1. q.snapshot \in Stores
    BY <1>3, AskIs DEF MoveAsks, DeleteAsks
  <2>2. QED
    BY <1>3, <2>1, Plain DEF revert
<1>4. ASSUME q.op \notin {"move", "delete"}, ~(q.op = "toggle" /\ HasSub(q.sub))
      PROVE store' = store
  BY <1>4 DEF revert
<1>5. store' = Gone \/ store' \in Stores
  BY <1>1, <1>2, <1>3, <1>4
<1>6. store # Gone => store' # Gone
  BY <1>2, <1>3, <1>4
<1>7. q.op = "save" => doubt' = doubt \cup {q.field} /\ q.field \in Fields
  BY AskIs DEF revert, SaveAsks
<1>8. q.op \notin {"save", "move", "delete"} => doubt' = doubt
  BY DEF revert
<1>9. q.op \in {"move", "delete"} => doubt' \in SUBSET Fields
  BY DEF revert
<1>10. doubt' \in SUBSET Fields
  BY <1>1, <1>7, <1>8, <1>9
<1>11. q.op \notin {"get", "toggle", "move", "delete"} => listDoubt' = listDoubt
  BY <1>1 DEF revert
<1>12. listDoubt' \in BOOLEAN
  <2>1. listDoubt' = (\/ listDoubt \/ q.op = "get"
                      \/ q.op = "toggle" /\ (q.unsure \/ heard.list # q.since)
                      \/ q.op \in {"move", "delete"}
                         /\ (store = Gone \/ store.subs # q.snapshot.subs))
    BY DEF revert
  <2>2. QED
    BY <2>1
<1>13. DialogGood'
  <2>1. CASE ~dialog.open \/ dialog' = dialog
    <3>1. dialog' = dialog
      BY <2>1 DEF revert
    <3>2. QED
      BY <1>6, <3>1 DEF Typing, DialogGood, Touched
  <2>2. CASE dialog' = NoDialog
    BY <2>2 DEF DialogGood
  <2>3. CASE dialog.open /\ q.op = "save"
             /\ dialog' = [dialog EXCEPT !.failed = @ \cup {q.field}]
    <3> DEFINE failed == dialog.failed \cup {q.field}
    <3>1. dialog \in Dialogs /\ Touched(dialog) /\ store # Gone
      BY <2>3, DialogIs
    <3>2. failed \in SUBSET Fields
      BY <1>7, <2>3, <3>1 DEF Dialogs
    <3>3. dialog' = [dialog EXCEPT !.failed = failed]
      BY <2>3
    <3> HIDE DEF failed
    <3>4. dialog' \in Dialogs /\ dialog'.form = dialog.form
          /\ dialog'.committed = dialog.committed /\ dialog'.touched = dialog.touched
      BY <3>1, <3>2, <3>3 DEF Dialogs
    <3>5. QED
      BY <1>6, <3>1, <3>4 DEF DialogGood, Touched
  <2>4. CASE dialog.open /\ dialog' = [dialog EXCEPT !.creating = FALSE]
    <3>1. dialog \in Dialogs /\ Touched(dialog) /\ store # Gone
      BY <2>4, DialogIs
    <3>2. dialog' \in Dialogs /\ dialog'.form = dialog.form
          /\ dialog'.committed = dialog.committed /\ dialog'.touched = dialog.touched
      BY <2>4, <3>1 DEF Dialogs
    <3>3. QED
      BY <1>6, <3>1, <3>2 DEF DialogGood, Touched
  <2>5. QED
    BY <2>1, <2>2, <2>3, <2>4 DEF revert
<1>14. QED
  BY <1>2, <1>3, <1>4, <1>5, <1>7, <1>8, <1>10, <1>11, <1>12, <1>13 DEF StoreTypes

\* A slot after a failure.
LEMMA FailIs ==
  ASSUME Typing, NEW r \in Slots, Fail(r)
  PROVE /\ Open(r) /\ reqs[r] \in Requests /\ Whole(r) /\ Waiting(r)
        /\ reqs[r].ask \in Asks /\ reqs[r].ask.by = Me /\ reqs[r].pc = "sent"
        /\ revert(reqs[r].ask) /\ ReqTypes' /\ WholeReqs' /\ Rest(r)
        /\ ~LooksUp(reqs[r].ask) => reqs'[r] = Idle /\ ~Open(r)'
        /\ LooksUp(reqs[r].ask) => reqs'[r] = Request(Refetch) /\ Open(r)'
<1>1. Waiting(r) /\ Open(r) /\ reqs[r].pc = "sent" /\ reqs[r].waits /\ revert(reqs[r].ask)
  BY DEF Fail, Waiting
<1>2. reqs[r] \in Requests /\ Whole(r) /\ reqs[r].ask \in Asks
  BY <1>1, OpenIs DEF Typing, Core, WholeReqs, Requests
<1>3. reqs[r].ask.by = Me
  BY <1>1, <1>2 DEF Whole
<1>4. reqs' = [reqs EXCEPT ![r] = IF LooksUp(reqs[r].ask) THEN Request(Refetch) ELSE Idle]
  <2>1. reqs \in [Slots -> {Idle} \cup Requests]
    BY DEF Typing, Core, ReqTypes
  <2>2. QED
    BY <2>1 DEF Fail
<1>5. CASE ~LooksUp(reqs[r].ask)
  <2>1. reqs' = [reqs EXCEPT ![r] = Idle]
    BY <1>4, <1>5
  <2>2. ReqTypes' /\ WholeReqs' /\ Rest(r) /\ reqs'[r] = Idle /\ ~Open(r)'
    BY <1>1, <2>1, LeaveIs DEF Typing
  <2>3. QED
    BY <1>1, <1>2, <1>3, <1>5, <2>2
<1>6. CASE LooksUp(reqs[r].ask)
  <2>1. reqs' = [reqs EXCEPT ![r] = Request(Refetch)]
    BY <1>4, <1>6
  <2>2. ReqTypes' /\ reqs'[r] = Request(Refetch) /\ Rest(r) /\ Open(r)'
    <3> DEFINE y == Request(Refetch)
    <3>1. y \in Requests /\ y # Idle
      BY RequestIs, OtherAsks
    <3> HIDE DEF y
    <3>2. reqs' = [reqs EXCEPT ![r] = y]
      BY <2>1 DEF y
    <3>3. ReqTypes' /\ reqs'[r] = y /\ Rest(r) /\ Open(r)'
      BY <3>1, <3>2, SlotIs DEF Typing, Core
    <3>4. QED
      BY <3>3 DEF y
  <2>3. Whole(r)'
    <3> DEFINE y == Request(Refetch)
    <3>1. y.pc = "sent" /\ y.ask.op = "get" /\ y.ask.by = Me /\ y.waits
      BY RequestIs, OtherAsks
    <3> HIDE DEF y
    <3>2. reqs'[r] = y
      BY <2>2 DEF y
    <3>3. QED
      BY <3>1, <3>2 DEF Whole
  <2>4. WholeReqs'
    <3>1. \A s \in Slots \ {r} : Open(s)' => Whole(s)'
      BY <2>2 DEF Typing, Core, WholeReqs, Rest, Whole
    <3>2. QED
      BY <2>3, <3>1 DEF WholeReqs
  <2>5. QED
    BY <1>1, <1>2, <1>3, <1>6, <2>2, <2>4
<1>7. QED
  BY <1>5, <1>6

\* A failure keeps the types.
LEMMA FailTypes ==
  ASSUME Typing, NEW r \in Slots, Fail(r) PROVE Typing'
<1>1. UNCHANGED <<db, board, draft, undo, inbox, word, heard, decided>>
  BY DEF Fail
<1>2. /\ ReqTypes' /\ WholeReqs' /\ StoreTypes' /\ DialogGood'
      /\ doubt' \in SUBSET Fields /\ listDoubt' \in BOOLEAN
  BY FailIs, RevertIs
<1>3. Core'
  BY <1>1, <1>2 DEF Typing, Core, DbTypes, UndoTypes, InboxTypes, HistoryTypes
<1>4. QED
  BY <1>1, <1>2, <1>3, PlaceIs DEF Typing, Place

\* The slots after the connection broke.
LEMMA CutIs ==
  ASSUME Typing, NEW r \in Slots, Cut(r)
  PROVE /\ Open(r) /\ reqs[r] \in Requests /\ Whole(r) /\ Waiting(r)
        /\ reqs[r].ask \in Asks /\ reqs[r].ask.by = Me /\ reqs[r].ask.op # "get"
        /\ reqs[r].pc = "sent" /\ revert(reqs[r].ask) /\ ReqTypes' /\ WholeReqs'
        /\ Open(r)' /\ reqs'[r] = [reqs[r] EXCEPT !.waits = FALSE]
        /\ reqs'[r].pc = "sent" /\ reqs'[r].ask = reqs[r].ask /\ ~reqs'[r].waits
        /\ reqs'[r].event = reqs[r].event /\ reqs'[r].made = reqs[r].made
        /\ ~LooksUp(reqs[r].ask) => Rest(r)
        /\ LooksUp(reqs[r].ask) =>
             \E x \in Slots \ {r} :
               /\ ~Open(x) /\ Open(x)' /\ reqs'[x] = Request(Refetch)
               /\ \A s \in Slots \ {r, x} : reqs'[s] = reqs[s] /\ (Open(s)' <=> Open(s))
<1>1. Waiting(r) /\ Open(r) /\ reqs[r].pc = "sent" /\ reqs[r].waits /\ revert(reqs[r].ask)
      /\ reqs[r].ask.op # "get"
  BY DEF Cut, Waiting
<1>2. reqs[r] \in Requests /\ Whole(r) /\ reqs[r].ask \in Asks /\ reqs[r].ask.by = Me
  <2>1. reqs[r] \in Requests /\ Whole(r)
    BY <1>1, OpenIs DEF Typing, Core, WholeReqs
  <2>2. QED
    BY <1>1, <2>1 DEF Whole, Requests
<1>3. reqs \in [Slots -> {Idle} \cup Requests]
  BY DEF Typing, Core, ReqTypes
<1> DEFINE y == [reqs[r] EXCEPT !.waits = FALSE]
           gone == [reqs EXCEPT ![r] = y]
           free == {x \in Slots : ~Open(x)}
<1>4. IF LooksUp(reqs[r].ask)
      THEN /\ free # {} /\ reqs' = [gone EXCEPT ![First(free)] = Request(Refetch)]
      ELSE reqs' = gone
  BY <1>3 DEF Cut
<1>5. /\ y \in Requests /\ y.pc = "sent" /\ y.ask = reqs[r].ask /\ ~y.waits
      /\ y.event = reqs[r].event /\ y.made = reqs[r].made
  BY <1>1, <1>2 DEF Requests
<1> HIDE DEF y
<1>6. /\ gone \in [Slots -> {Idle} \cup Requests] /\ gone[r] = y
      /\ \A s \in Slots \ {r} : gone[s] = reqs[s]
  BY <1>3, <1>5
<1> HIDE DEF gone
<1>7. ASSUME reqs'[r] = y PROVE Whole(r)' /\ Open(r)'
  <2>1. Whole(r)'
    BY <1>1, <1>2, <1>5, <1>7 DEF Whole
  <2>2. QED
    BY <1>5, <1>7, <2>1, Plain DEF Open
<1>8. CASE ~LooksUp(reqs[r].ask)
  <2>1. reqs' = gone
    BY <1>4, <1>8
  <2>2. ReqTypes' /\ reqs'[r] = y /\ Rest(r)
    BY <1>6, <2>1 DEF ReqTypes, Rest, Open
  <2>3. WholeReqs'
    <3>1. \A s \in Slots \ {r} : Open(s)' => Whole(s)'
      BY <2>2 DEF Typing, Core, WholeReqs, Rest, Whole
    <3>2. QED
      BY <1>7, <2>2, <3>1 DEF WholeReqs
  <2>4. QED
    BY <1>1, <1>2, <1>5, <1>7, <1>8, <2>2, <2>3 DEF y
<1>9. CASE LooksUp(reqs[r].ask)
  <2>1. free # {} /\ reqs' = [gone EXCEPT ![First(free)] = Request(Refetch)]
    BY <1>4, <1>9
  <2>2. free \in SUBSET Nat
    BY DialogAssumption
  <2>3. First(free) \in free
    BY <2>1, <2>2, LeastIsIn
  <2>4. PICK x \in Slots \ {r} : ~Open(x) /\ x = First(free)
    BY <1>1, <2>3
  <2> HIDE DEF free
  <2>5. reqs' = [gone EXCEPT ![x] = Request(Refetch)]
    BY <2>1, <2>4
  <2> DEFINE z == Request(Refetch)
  <2>6. z \in Requests /\ z # Idle /\ z.pc = "sent" /\ z.ask.op = "get" /\ z.ask.by = Me
        /\ z.waits
    BY RequestIs, OtherAsks
  <2> HIDE DEF z
  <2>7. reqs' = [gone EXCEPT ![x] = z]
    BY <2>5 DEF z
  <2>8. /\ ReqTypes' /\ reqs'[r] = y /\ reqs'[x] = z
        /\ \A s \in Slots \ {r, x} : reqs'[s] = reqs[s]
    BY <1>6, <2>4, <2>6, <2>7 DEF ReqTypes
  <2>9. Open(x)' /\ \A s \in Slots \ {r, x} : Open(s)' <=> Open(s)
    BY <2>6, <2>8 DEF Open
  <2>10. WholeReqs'
    <3>1. Whole(x)'
      BY <2>6, <2>8 DEF Whole
    <3>2. \A s \in Slots \ {r, x} : Open(s)' => Whole(s)'
      BY <2>8, <2>9 DEF Typing, Core, WholeReqs, Whole
    <3>3. QED
      BY <1>7, <2>8, <3>1, <3>2 DEF WholeReqs
  <2>11. QED
    BY <1>1, <1>2, <1>5, <1>7, <1>9, <2>4, <2>8, <2>9, <2>10 DEF y, z
<1>10. QED
  BY <1>8, <1>9

\* A broken connection keeps the types.
LEMMA CutTypes ==
  ASSUME Typing, NEW r \in Slots, Cut(r) PROVE Typing'
<1>1. UNCHANGED <<db, board, draft, undo, inbox, word, heard, decided>>
  BY DEF Cut
<1>2. /\ ReqTypes' /\ WholeReqs' /\ StoreTypes' /\ DialogGood'
      /\ doubt' \in SUBSET Fields /\ listDoubt' \in BOOLEAN
  BY CutIs, RevertIs
<1>3. Core'
  BY <1>1, <1>2 DEF Typing, Core, DbTypes, UndoTypes, InboxTypes, HistoryTypes
<1>4. QED
  BY <1>1, <1>2, <1>3, PlaceIs DEF Typing, Place

\* The kinds of broadcasts.
LEMMA KindIs ==
  ASSUME NEW e \in Events
  PROVE /\ e.kind \in {"card", "subtasks", "moved", "deleted"}
        /\ e.kind = "card" => e \in CardEvents /\ e.fields \in Saved /\ e.ver \in Nat
        /\ e.kind = "subtasks" => e \in ListEvents /\ e.list \in Lists /\ e.listVer \in Nat
        /\ e.kind = "moved" => e.to \in Columns
BY DEF Events, CardEvents, ListEvents

\* The oldest broadcast leaves the queue.
LEMMA ArriveIs ==
  ASSUME Typing, applyWsMessage
  PROVE /\ Len(inbox) \in Nat /\ Len(inbox) > 0 /\ DOMAIN inbox = 1 .. Len(inbox)
        /\ inbox[1] \in Events /\ inbox' \in Seq(Events) /\ Len(inbox') = Len(inbox) - 1
        /\ DOMAIN inbox' = 1 .. Len(inbox) - 1
        /\ \A i \in DOMAIN inbox' : i + 1 \in DOMAIN inbox /\ inbox'[i] = inbox[i + 1]
        /\ inbox[1].kind = "card" =>
             /\ store' = updateCard(inbox[1].fields)
             /\ doubt' = IF store = Gone THEN doubt
                         ELSE IF inbox[1].ver < heard.row THEN Fields ELSE {}
             /\ heard' = [heard EXCEPT !.row = Max({inbox[1].ver, @})]
             /\ UNCHANGED <<dialog, listDoubt>>
        /\ inbox[1].kind = "moved" =>
             /\ store' = IF store = Gone THEN store ELSE [store EXCEPT !.col = inbox[1].to]
             /\ dialog' = IF dialog.open /\ store.col # inbox[1].to THEN NoDialog ELSE dialog
             /\ UNCHANGED <<doubt, listDoubt, heard>>
        /\ inbox[1].kind = "deleted" =>
             store' = Gone /\ dialog' = NoDialog /\ UNCHANGED <<doubt, listDoubt, heard>>
        /\ inbox[1].kind = "subtasks" =>
             ShowList(inbox[1].list, inbox[1].listVer) /\ UNCHANGED doubt
        /\ UNCHANGED <<db, board, draft, undo, reqs, edits, faults, word, decided>>
<1>1. inbox \in Seq(Events) /\ inbox # <<>> /\ inbox' = Tail(inbox)
  BY DEF Typing, Core, InboxTypes, applyWsMessage
<1>2. /\ Len(inbox) \in Nat /\ Len(inbox) > 0 /\ DOMAIN inbox = 1 .. Len(inbox)
      /\ inbox[1] \in Events /\ Head(inbox) = inbox[1]
      /\ inbox' \in Seq(Events) /\ Len(inbox') = Len(inbox) - 1
      /\ DOMAIN inbox' = 1 .. Len(inbox) - 1
  BY <1>1
<1>3. \A i \in DOMAIN inbox' : i + 1 \in DOMAIN inbox /\ inbox'[i] = inbox[i + 1]
  BY <1>1, <1>2
<1> DEFINE e == inbox[1]
<1>4. e.kind = "moved" =>
        /\ store' = IF store = Gone THEN store ELSE [store EXCEPT !.col = e.to]
        /\ dialog' = IF dialog.open /\ store.col # e.to THEN NoDialog ELSE dialog
        /\ UNCHANGED <<doubt, listDoubt, heard>>
  BY <1>2 DEF applyWsMessage
<1>5. e.kind = "deleted" =>
        store' = Gone /\ dialog' = NoDialog /\ UNCHANGED <<doubt, listDoubt, heard>>
  BY <1>2 DEF applyWsMessage, Unmount
<1>6. e.kind = "subtasks" => ShowList(e.list, e.listVer) /\ UNCHANGED doubt
  BY <1>2 DEF applyWsMessage
<1>7. UNCHANGED <<db, board, draft, undo, reqs, edits, faults, word, decided>>
  BY DEF applyWsMessage
<1>8. e.kind = "card" =>
            /\ store' = updateCard(e.fields)
            /\ doubt' = IF store = Gone THEN doubt
                        ELSE IF e.ver < heard.row THEN Fields ELSE {}
            /\ heard' = [heard EXCEPT !.row = Max({e.ver, @})]
            /\ UNCHANGED <<dialog, listDoubt>>
  BY <1>2 DEF applyWsMessage
<1>9. QED
  BY <1>2, <1>3, <1>7, <1>4, <1>5, <1>6, <1>8

\* A row is shown.
LEMMA RowShownIs ==
  ASSUME Typing, NEW fields \in Saved, NEW v \in Nat, store' = updateCard(fields),
         heard' = [heard EXCEPT !.row = Max({v, @})]
  PROVE /\ StoreTypes' /\ ((store' = Gone) <=> (store = Gone))
        /\ store = Gone => store' = store
        /\ store # Gone => /\ store'.fields = fields /\ store'.subs = store.subs
                           /\ store'.count = store.count
        /\ heard' \in [row : Nat, list : Nat] /\ heard'.list = heard.list
        /\ heard'.row = IF v <= heard.row THEN heard.row ELSE v
<1>1. heard \in [row : Nat, list : Nat] /\ heard.row \in Nat
  BY DEF Typing, Core, HistoryTypes
<1> DEFINE m == Max({v, heard.row})
<1>2. m = IF v <= heard.row THEN heard.row ELSE v
  BY <1>1, Larger
<1>3. heard' = [heard EXCEPT !.row = m]
  OBVIOUS
<1> HIDE DEF m
<1>4. /\ heard' \in [row : Nat, list : Nat] /\ heard'.list = heard.list /\ heard'.row = m
  BY <1>1, <1>2, <1>3
<1>5. CASE store = Gone
  BY <1>2, <1>4, <1>5 DEF updateCard, StoreTypes
<1>6. CASE store # Gone
  <2>1. store \in Stores
    BY <1>6 DEF Typing, Core, StoreTypes
  <2>2. store' = [store EXCEPT !.fields = fields]
    BY <1>6 DEF updateCard
  <2>3. /\ store' \in Stores /\ store'.fields = fields /\ store'.subs = store.subs
        /\ store'.count = store.count
    BY <2>1, <2>2 DEF Stores
  <2>4. QED
    BY <1>2, <1>4, <1>6, <2>3, Plain DEF StoreTypes
<1>7. QED
  BY <1>5, <1>6

\* The card's column in the store.
LEMMA MovedIs ==
  ASSUME Core, NEW to \in Columns,
         store' = IF store = Gone THEN store ELSE [store EXCEPT !.col = to]
  PROVE /\ StoreTypes' /\ ((store' = Gone) <=> (store = Gone))
        /\ store = Gone => store' = store
        /\ store # Gone => /\ store'.fields = store.fields /\ store'.subs = store.subs
                           /\ store'.count = store.count
<1>1. CASE store = Gone
  BY <1>1 DEF StoreTypes
<1>2. CASE store # Gone
  <2>1. store \in Stores
    BY <1>2 DEF Core, StoreTypes
  <2>2. /\ store' \in Stores /\ store'.fields = store.fields /\ store'.subs = store.subs
        /\ store'.count = store.count
    BY <1>2, <2>1 DEF Stores
  <2>3. QED
    BY <1>2, <2>2, Plain DEF StoreTypes
<1>3. QED
  BY <1>1, <1>2

\* A broadcast keeps the types.
LEMMA ArriveTypes ==
  ASSUME Typing, applyWsMessage PROVE Typing'
<1> DEFINE e == inbox[1]
<1>1. /\ e \in Events /\ inbox' \in Seq(Events)
      /\ UNCHANGED <<db, board, draft, undo, reqs, word, decided>>
  BY ArriveIs
<1>2. ReqTypes' /\ WholeReqs'
  BY <1>1 DEF Typing, Core, ReqTypes, WholeReqs, Whole, Open
<1>3. StoreTypes' /\ DialogGood' /\ doubt' \in SUBSET Fields /\ listDoubt' \in BOOLEAN
      /\ heard' \in [row : Nat, list : Nat]
  <2>1. doubt \in SUBSET Fields /\ listDoubt \in BOOLEAN /\ heard \in [row : Nat, list : Nat]
    BY DEF Typing, Core, HistoryTypes
  <2>2. CASE e.kind = "card"
    <3>1. e.fields \in Saved /\ e.ver \in Nat
      BY <1>1, <2>2, KindIs
    <3>2. /\ store' = updateCard(e.fields)
          /\ doubt' = IF store = Gone THEN doubt
                      ELSE IF e.ver < heard.row THEN Fields ELSE {}
          /\ heard' = [heard EXCEPT !.row = Max({e.ver, @})]
          /\ UNCHANGED <<dialog, listDoubt>>
      BY <2>2, ArriveIs
    <3>3. /\ StoreTypes' /\ ((store' = Gone) <=> (store = Gone))
          /\ heard' \in [row : Nat, list : Nat]
      BY <3>1, <3>2, RowShownIs
    <3>4. DialogGood'
      BY <3>2, <3>3 DEF Typing, DialogGood, Touched
    <3>5. QED
      BY <2>1, <3>2, <3>3, <3>4
  <2>3. CASE e.kind = "moved"
    <3>1. e.to \in Columns
      BY <1>1, <2>3, KindIs
    <3>2. /\ store' = IF store = Gone THEN store ELSE [store EXCEPT !.col = e.to]
          /\ dialog' = NoDialog \/ dialog' = dialog
          /\ UNCHANGED <<doubt, listDoubt, heard>>
      BY <2>3, ArriveIs
    <3>3. StoreTypes' /\ ((store' = Gone) <=> (store = Gone))
      BY <3>1, <3>2, MovedIs DEF Typing
    <3>4. DialogGood'
      BY <3>2, <3>3 DEF Typing, DialogGood, Touched
    <3>5. QED
      BY <2>1, <3>2, <3>3, <3>4
  <2>4. CASE e.kind = "deleted"
    BY <2>1, <2>4, ArriveIs DEF StoreTypes, DialogGood
  <2>5. CASE e.kind = "subtasks"
    <3>1. e.list \in Lists /\ e.listVer \in Nat
      BY <1>1, <2>5, KindIs
    <3>2. ShowList(e.list, e.listVer) /\ doubt' = doubt
      BY <2>5, ArriveIs
    <3>3. QED
      BY <2>1, <3>1, <3>2, ShowIs
  <2>6. QED
    BY <1>1, <2>2, <2>3, <2>4, <2>5, KindIs
<1>4. Core'
  BY <1>1, <1>2, <1>3 DEF Typing, Core, DbTypes, UndoTypes, InboxTypes, HistoryTypes
<1>5. QED
  BY <1>1, <1>3, <1>4, PlaceIs DEF Typing, Place

\* A step of the server, of an answer or of a broadcast.
ServerStep ==
  \/ applyWsMessage
  \/ \E r \in Slots : \/ Write(r) \/ ReadSubtasks(r) \/ Emit(r)
                      \/ Answered(r) \/ Forget(r) \/ Fail(r) \/ Cut(r)

\* Every step is the user's or the server's.
LEMMA TwoSides == Next <=> UserStep \/ ServerStep
BY DEF Next, UserStep, ServerStep

\* At first everything is what it should be.
LEMMA InitTypes == Init => Typing
<1> SUFFICES ASSUME Init PROVE Typing
  OBVIOUS
<1>1. First(Columns \ DoneCols) \in Columns \ DoneCols /\ First(Subs) \in Subs
  <2>1. Columns \ DoneCols \in SUBSET Nat /\ Columns \ DoneCols # {}
        /\ Subs \in SUBSET Nat /\ Subs # {}
    BY DialogAssumption
  <2>2. QED
    BY <2>1, LeastIsIn
<1>2. Start \in Saved
  <2>1. Start \in [Fields -> Values]
    BY DialogAssumption, EntryIs
  <2>2. Start["tags"] \in SUBSET Tags /\ Start["title"] # Blank
    BY DialogAssumption, EntryIs, TheFields
  <2>3. QED
    BY <2>1, <2>2 DEF Saved, Forms
<1> DEFINE subs == [s \in {First(Subs)} |-> [title |-> FirstTitle, done |-> FALSE]]
           col == First(Columns \ DoneCols)
<1>3. subs \in Lists
  <2> DEFINE sub == [title |-> FirstTitle, done |-> FALSE]
             T == {First(Subs)}
  <2>1. sub \in Subtasks
    BY DialogAssumption DEF FirstTitle, Subtasks
  <2>2. T \in SUBSET Subs /\ IsFiniteSet(T)
    BY <1>1, FS_Singleton
  <2> HIDE DEF sub, T
  <2>3. [s \in T |-> sub] \in [T -> Subtasks]
    BY <2>1
  <2>4. [s \in T |-> sub] \in Lists
    BY <2>2, <2>3 DEF Lists
  <2>5. QED
    BY <2>4 DEF sub, T
<1>4. db = [fields |-> Start, col |-> col, ver |-> 0, subs |-> subs,
            used |-> {First(Subs)}, listVer |-> 0]
  BY DEF Init
<1>5. store = [fields |-> Start, col |-> db.col, subs |-> NoList, count |-> Counts(db.subs)]
  BY DEF Init
<1> HIDE DEF subs, col
<1>6. col \in Columns
  BY <1>1 DEF col
<1>7. db \in Rows /\ db.col = col /\ db.subs = subs
  BY <1>1, <1>2, <1>3, <1>4, <1>6 DEF Rows
<1>8. store \in Stores
  BY <1>2, <1>3, <1>5, <1>6, <1>7, CountIs DEF Stores
<1>9. DbTypes /\ StoreTypes
  BY <1>7, <1>8 DEF DbTypes, StoreTypes
<1>10. UndoTypes /\ InboxTypes
  BY DEF Init, UndoTypes, InboxTypes
<1>11. ReqTypes /\ WholeReqs
  BY DEF Init, ReqTypes, WholeReqs, Open
<1>12. HistoryTypes
  BY <1>2 DEF Init, HistoryTypes, Saved, Forms
<1>13. BoardTypes
  <2>1. cols = [c \in Columns |-> IF c \in DoneCols THEN "DONE" ELSE "TODO"]
        /\ tags = Tags \ NewTags /\ mine \in Mine
    BY DEF Init
  <2>2. QED
    BY <1>1, <2>1, DialogAssumption DEF BoardTypes
<1>14. DialogGood /\ DraftTypes
  BY Plain DEF Init, DialogGood, DraftTypes
<1>15. QED
  BY <1>9, <1>10, <1>11, <1>12, <1>13, <1>14 DEF Typing, Core

\* Every step keeps the types.
LEMMA StepTypes == Typing /\ [Next]_vars => Typing'
<1>1. ASSUME Typing, UserStep PROVE Typing'
  BY <1>1, UserSteps, LocalTypes DEF Kept, Typing
<1>2. ASSUME Typing, ServerStep PROVE Typing'
  BY <1>2, ArriveTypes, WriteTypes, SentTypes, AnswerTypes, ForgetTypes, FailTypes, CutTypes
  DEF ServerStep
<1>3. ASSUME Typing, UNCHANGED vars PROVE Typing'
  <2>1. UNCHANGED <<db, board, store, dialog, draft, undo, reqs, inbox, history>>
    BY <1>3 DEF vars
  <2>2. Core'
    BY <1>3, <2>1 DEF Typing, Core, DbTypes, StoreTypes, UndoTypes, ReqTypes, WholeReqs, Whole,
      Open, InboxTypes, HistoryTypes, history
  <2>3. DialogGood'
    BY <1>3, <2>1 DEF Typing, DialogGood, Touched
  <2>4. QED
    BY <1>3, <2>1, <2>2, <2>3, PlaceIs DEF Typing, Place
<1>4. QED
  BY <1>1, <1>2, <1>3, TwoSides
-----------------------------------------------------------------------------
\* docs/adr/0009: a write changes the field that was meant, and no other; if it was
\* not meant it is the title.
LEMMA EditsStep == Typing /\ EditsSurvive /\ [Next]_vars => EditsSurvive'
<1>1. ASSUME UNCHANGED <<db, word>>, EditsSurvive PROVE EditsSurvive'
  BY <1>1 DEF EditsSurvive
<1>2. ASSUME Typing, Local PROVE UNCHANGED <<db, word>>
  BY <1>2 DEF Local, Elsewhere, Still, AsksFor, SavesField, TogglesSub, RenamesSub, HidesSub,
    UndoesSub, Dismisses, DropsSub, MovesCard, DeletesCard
<1>3. ASSUME Typing, UserStep PROVE UNCHANGED <<db, word>>
  BY <1>2, <1>3, UserSteps DEF Kept
<1>4. ASSUME NEW r \in Slots,
             ReadSubtasks(r) \/ Emit(r) \/ Answered(r) \/ Forget(r) \/ Fail(r) \/ Cut(r)
      PROVE UNCHANGED <<db, word>>
  BY <1>4 DEF ReadSubtasks, Emit, Answered, Forget, Fail, Cut, history
<1>5. ASSUME applyWsMessage PROVE UNCHANGED <<db, word>>
  BY <1>5 DEF applyWsMessage
<1>6. ASSUME NEW r \in Slots, Typing, EditsSurvive, Write(r) PROVE EditsSurvive'
  <2> DEFINE q == reqs[r].ask
             row == Rewritten(q)
  <2>1. q \in Asks /\ ~Refused(q) /\ db' = row /\ (q.op = "save" => Meant(q))
    BY <1>6, WriteIs DEF Typing, Wrote, Whole
  <2>2. word' = IF q.op # "save" THEN word
                ELSE [word EXCEPT ![q.field] = IF q.meant THEN q.body[q.field] ELSE None]
    BY <1>6 DEF Write
  <2>3. /\ db = Gone => q.op \in {"create", "tag"} /\ row = Gone
        /\ q.op \in {"get", "tag", "create"} => row = db
        /\ q.op = "delete" => row = Gone
        /\ db # Gone /\ q.op # "delete" => row \in Rows /\ RowAfter(q, row)
    BY <1>6, <2>1, RowIs DEF Typing
  <2> HIDE DEF row
  <2>4. CASE row = Gone
    BY <2>1, <2>4 DEF EditsSurvive
  <2>5. CASE row # Gone /\ q.op = "save"
    <3> DEFINE v == IF q.meant THEN q.body[q.field] ELSE None
    <3>1. /\ db # Gone /\ word \in [Fields -> Values \cup {None}]
          /\ \A f \in Fields : word[f] = db.fields[f] \/ (f = "title" /\ word[f] = None)
          /\ \A f \in Fields : row.fields[f] = IF f = q.field THEN q.body[f] ELSE db.fields[f]
      BY <1>6, <2>3, <2>5 DEF RowAfter, Typing, Core, HistoryTypes, EditsSurvive, Rows, Saved, Forms
    <3>2. word' = [word EXCEPT ![q.field] = v]
      BY <2>2, <2>5
    <3>3. q.field \in Fields
      BY <2>1, <2>5, AskIs DEF SaveAsks
    <3>4. v = q.body[q.field] \/ (q.field = "title" /\ v = None)
      BY <2>1, <2>5 DEF Meant
    <3> HIDE DEF v
    <3>5. \A f \in Fields : \/ word'[f] = row.fields[f]
                            \/ f = "title" /\ word'[f] = None
      BY <3>1, <3>2, <3>3, <3>4
    <3>6. QED
      BY <2>1, <3>5 DEF EditsSurvive
  <2>6. CASE row # Gone /\ q.op # "save"
    <3>1. word' = word
      BY <2>2, <2>6
    <3>2. db # Gone /\ row.fields = db.fields
      BY <2>1, <2>3, <2>6, AskIs DEF RowAfter, ListRow, SameRow
    <3>3. QED
      BY <1>6, <2>1, <3>1, <3>2 DEF EditsSurvive
  <2>7. QED
    BY <2>4, <2>5, <2>6
<1>7. UNCHANGED vars => UNCHANGED <<db, word>>
  BY DEF vars, history
<1>8. QED
  BY <1>1, <1>3, <1>4, <1>5, <1>6, <1>7, TwoSides DEF ServerStep

\* What is asked, slot by slot, and what a step adds to it.
LEMMA ServerAsks ==
  ASSUME Typing, ServerStep, NEW r \in Slots, Open(r)'
  PROVE \/ Open(r) /\ reqs'[r].ask = reqs[r].ask
        \/ reqs'[r].ask = Refetch
<1>1. CASE applyWsMessage
  <2>1. reqs' = reqs
    BY <1>1, ArriveIs
  <2>2. QED
    BY <2>1 DEF Open
<1>2. ASSUME NEW s \in Slots, Write(s) PROVE Open(r) /\ reqs'[r].ask = reqs[r].ask
  <2>1. Wrote(s)
    BY <1>2, WriteIs DEF Typing
  <2>2. QED
    BY <2>1 DEF Wrote, Rest, Open
<1>3. ASSUME NEW s \in Slots, ReadSubtasks(s) PROVE Open(r) /\ reqs'[r].ask = reqs[r].ask
  BY <1>3, ReadIs DEF Typing, Rest
<1>4. ASSUME NEW s \in Slots, Emit(s) PROVE Open(r) /\ reqs'[r].ask = reqs[r].ask
  BY <1>4, EmitIs DEF Typing, Rest
<1>5. ASSUME NEW s \in Slots, Answered(s) PROVE Open(r) /\ reqs'[r].ask = reqs[r].ask
  BY <1>5, AnswerIs DEF Rest
<1>6. ASSUME NEW s \in Slots, Forget(s) PROVE Open(r) /\ reqs'[r].ask = reqs[r].ask
  <2>1. Rest(s) /\ ~Open(s)'
    BY <1>6, LeaveIs DEF Forget, Typing
  <2>2. QED
    BY <2>1 DEF Rest
<1>7. ASSUME NEW s \in Slots, Fail(s)
      PROVE (Open(r) /\ reqs'[r].ask = reqs[r].ask) \/ reqs'[r].ask = Refetch
  <2>1. /\ Rest(s)
        /\ ~LooksUp(reqs[s].ask) => ~Open(s)'
        /\ LooksUp(reqs[s].ask) => reqs'[s] = Request(Refetch)
    BY <1>7, FailIs
  <2>2. Request(Refetch).ask = Refetch
    BY DEF Request
  <2>3. QED
    BY <2>1, <2>2 DEF Rest
<1>8. ASSUME NEW s \in Slots, Cut(s)
      PROVE (Open(r) /\ reqs'[r].ask = reqs[r].ask) \/ reqs'[r].ask = Refetch
  <2>1. Request(Refetch).ask = Refetch
    BY DEF Request
  <2>2. Open(s) /\ reqs'[s].ask = reqs[s].ask
    BY <1>8, CutIs
  <2>3. CASE ~LooksUp(reqs[s].ask)
    <3>1. Rest(s)
      BY <1>8, <2>3, CutIs
    <3>2. QED
      BY <2>2, <3>1 DEF Rest
  <2>4. CASE LooksUp(reqs[s].ask)
    <3>1. PICK x \in Slots \ {s} :
            /\ reqs'[x] = Request(Refetch)
            /\ \A t \in Slots \ {s, x} : reqs'[t] = reqs[t] /\ (Open(t)' <=> Open(t))
      BY <1>8, <2>4, CutIs
    <3>2. QED
      BY <2>1, <2>2, <3>1
  <2>5. QED
    BY <2>3, <2>4
<1>9. QED
  BY <1>1, <1>2, <1>3, <1>4, <1>5, <1>6, <1>7, <1>8 DEF ServerStep
-----------------------------------------------------------------------------
\* The timer of the oldest deletion asks for it.
LEMMA DropSent ==
  ASSUME Core, NEW r \in Slots, DropsSub(r)
  PROVE /\ Len(undo) \in Nat /\ Len(undo) > 0 /\ DOMAIN undo = 1 .. Len(undo)
        /\ undo[1].sub \in Subs /\ DOMAIN undo' = 1 .. Len(undo) - 1
        /\ \A i \in DOMAIN undo' : i + 1 \in DOMAIN undo /\ undo'[i] = undo[i + 1]
        /\ \E ask \in Asks :
             Sent(r, ask) /\ ask.op = "drop" /\ ask.by = Me /\ ask.sub = undo[1].sub
<1>1. undo \in Seq(Deletions) /\ undo # <<>> /\ undo' = Tail(undo)
  BY DEF Core, UndoTypes, DropsSub
<1>2. /\ Len(undo) \in Nat /\ Len(undo) > 0 /\ DOMAIN undo = 1 .. Len(undo)
      /\ undo[1] \in Deletions /\ Head(undo) = undo[1]
      /\ undo' \in Seq(Deletions) /\ Len(undo') = Len(undo) - 1
      /\ DOMAIN undo' = 1 .. Len(undo) - 1
  BY <1>1
<1>3. \A i \in DOMAIN undo' : i + 1 \in DOMAIN undo /\ undo'[i] = undo[i + 1]
  BY <1>1, <1>2
<1> DEFINE s == undo[1].sub
<1>4. s \in Subs
  BY <1>2 DEF Deletions
<1>5. Sent(r, [op |-> "drop", by |-> Me, sub |-> s])
  BY <1>2 DEF DropsSub
<1> HIDE DEF s
<1>6. \E ask \in Asks : Sent(r, ask) /\ ask.op = "drop" /\ ask.by = Me /\ ask.sub = s
  BY <1>4, <1>5, DropAskIs, Plain
<1>7. QED
  BY <1>2, <1>3, <1>4, <1>6 DEF s

\* A toggle is asked for.
LEMMA ToggleSent ==
  ASSUME Core, NEW r \in Slots, NEW s \in Subs, TogglesSub(r, s)
  PROVE \E ask \in Asks :
          /\ Sent(r, ask) /\ ask.op = "toggle" /\ ask.by = Me /\ ask.sub = s
          /\ ask.since = heard.list
<1>1. \E ask \in Asks :
        /\ Sent(r, ask) /\ ask.op = "toggle" /\ ask.by = Me /\ ask.sub = s
        /\ ask.done = ~store.subs[s].done /\ ask.since = heard.list
        /\ ask.unsure = (listDoubt \/ Toggling(s))
  BY ToggledIs
<1>2. QED
  BY <1>1, Zenon

\* A rename is asked for.
LEMMA RenameSent ==
  ASSUME Core, NEW r \in Slots, NEW s \in Subs, NEW title \in Titles,
         RenamesSub(r, s, title)
  PROVE \E ask \in Asks : Sent(r, ask) /\ ask.op = "rename" /\ ask.by = Me /\ ask.sub = s
<1>1. Sent(r, [op |-> "rename", by |-> Me, sub |-> s, title |-> title])
  BY DEF RenamesSub
<1>2. QED
  BY <1>1, RenameAskIs

\* A move is asked for, with the card as it was.
LEMMA MoveSent ==
  ASSUME Core, NEW r \in Slots, NEW to \in Columns, MovesCard(r, to)
  PROVE /\ store # Gone /\ store \in Stores /\ store' \in Stores /\ store' # Gone
        /\ store'.fields = store.fields /\ store'.subs = store.subs
        /\ store'.count = store.count
        /\ \E ask \in Asks :
             Sent(r, ask) /\ ask.op = "move" /\ ask.by = Me /\ ask.snapshot = store
<1>1. store # Gone /\ store \in Stores
  BY DEF MovesCard, Core, StoreTypes
<1>2. store' = [store EXCEPT !.col = to]
  BY DEF MovesCard
<1>3. /\ store' \in Stores /\ store'.fields = store.fields /\ store'.subs = store.subs
      /\ store'.count = store.count
  BY <1>1, <1>2 DEF Stores
<1>4. Sent(r, [op |-> "move", by |-> Me, to |-> to, snapshot |-> store])
  BY DEF MovesCard
<1>5. [op |-> "move", by |-> Me, to |-> to, snapshot |-> store] \in Asks
  BY <1>1, MoveAskIs, Plain
<1>6. QED
  BY <1>1, <1>3, <1>4, <1>5, Plain

\* A deletion of the card is asked for, with the card as it was.
LEMMA DeleteSent ==
  ASSUME Core, NEW r \in Slots, DeletesCard(r)
  PROVE /\ store # Gone /\ store \in Stores /\ store' = Gone
        /\ \E ask \in Asks :
             Sent(r, ask) /\ ask.op = "delete" /\ ask.by = Me /\ ask.snapshot = store
<1>1. store # Gone /\ store \in Stores
  BY DEF DeletesCard, Core, StoreTypes
<1>2. Sent(r, [op |-> "delete", by |-> Me, snapshot |-> store])
  BY DEF DeletesCard
<1>3. [op |-> "delete", by |-> Me, snapshot |-> store] \in Asks
  BY <1>1, DeleteAskIs, Plain
<1>4. QED
  BY <1>1, <1>2, <1>3 DEF DeletesCard

\* A save is asked for.
LEMMA SaveSent ==
  ASSUME Core, NEW r \in Slots, NEW form \in Forms, NEW f \in Fields,
             NEW meant \in BOOLEAN, SavesField(r, form, f, meant)
  PROVE \E ask \in Asks :
          Sent(r, ask) /\ ask.op = "save" /\ ask.by = Me /\ ask.field = f /\ Meant(ask)
<1>1. Sent(r, SaveOf(form, f, meant)) /\ SaveOf(form, f, meant) \in Asks
  BY SavedIs DEF SavesField
<1>2. /\ SaveOf(form, f, meant).op = "save" /\ SaveOf(form, f, meant).by = Me
      /\ SaveOf(form, f, meant).field = f /\ Meant(SaveOf(form, f, meant))
  BY DEF SaveOf, SavesField, Meant
<1>3. QED
  BY <1>1, <1>2
-----------------------------------------------------------------------------
\* The progress that a card shows is that of its list.
Counted(st) == st.subs # NoList => st.count = Counts(st.subs)
Snapshot(r) == Open(r) /\ reqs[r].ask.op \in {"move", "delete"} /\ reqs[r].ask.by = Me
AllCounted ==
  /\ store # Gone => Counted(store)
  /\ \A r \in Slots : Snapshot(r) => Counted(reqs[r].ask.snapshot)

\* A subtask changed, counted.
LEMMA CountChanged ==
  ASSUME NEW l \in Lists, NEW s \in DOMAIN l, NEW sub \in Subtasks
  PROVE LET m == [l EXCEPT ![s] = sub] IN
        /\ Counts(m).total = Counts(l).total
        /\ Counts(m).done = Counts(l).done + Mark(sub.done) - Mark(l[s].done)
<1> DEFINE m == [l EXCEPT ![s] = sub]
           D == {t \in DOMAIN l : l[t].done}
           E == {t \in DOMAIN m : m[t].done}
<1>1. /\ m \in Lists /\ DOMAIN m = DOMAIN l /\ m[s] = sub
      /\ \A t \in DOMAIN l : t # s => m[t] = l[t]
  BY ExceptIs
<1>2. IsFiniteSet(D) /\ IsFiniteSet(E)
  BY <1>1, CountIs
<1>3. Cardinality(D) \in Nat /\ Cardinality(E) \in Nat
  BY <1>2, FS_CardinalityType
<1>4. Counts(l).done = Cardinality(D) /\ Counts(m).done = Cardinality(E)
      /\ Counts(l).total = Cardinality(DOMAIN l) /\ Counts(m).total = Cardinality(DOMAIN m)
  BY DEF Counts
<1>5. sub.done \in BOOLEAN /\ l[s].done \in BOOLEAN
  BY ListIs DEF Subtasks
<1>6. ASSUME sub.done = l[s].done PROVE D = E
  BY <1>1, <1>6
<1>7. ASSUME sub.done = TRUE, l[s].done = FALSE PROVE Cardinality(E) = Cardinality(D) + 1
  <2>1. E = D \cup {s} /\ s \notin D
    BY <1>1, <1>7
  <2>2. QED
    BY <1>2, <2>1, FS_AddElement
<1>8. ASSUME sub.done = FALSE, l[s].done = TRUE PROVE Cardinality(E) = Cardinality(D) - 1
  <2>1. E = D \ {s} /\ s \in D
    BY <1>1, <1>8
  <2>2. QED
    BY <1>2, <2>1, FS_RemoveElement
<1> HIDE DEF D, E
<1> DEFINE x == Mark(sub.done)
           y == Mark(l[s].done)
           d == Cardinality(D)
           e == Cardinality(E)
<1>9. e = d + x - y
  <2>1. /\ sub.done \in {TRUE, FALSE} /\ l[s].done \in {TRUE, FALSE}
        /\ Mark(TRUE) = 1 /\ Mark(FALSE) = 0
    BY <1>5 DEF Mark
  <2>2. \/ x = 1 /\ y = 0 /\ e = d + 1
        \/ x = 0 /\ y = 1 /\ e = d - 1
        \/ x \in {0, 1} /\ y = x /\ e = d
    BY <1>6, <1>7, <1>8, <2>1, Zenon
  <2>3. d \in Nat
    BY <1>3
  <2> HIDE DEF d, e, x, y
  <2>4. QED
    BY <2>2, <2>3
<1>10. Counts(m).total = Counts(l).total
  BY <1>1, <1>4
<1>11. Counts(m).done = Counts(l).done + Mark(sub.done) - Mark(l[s].done)
  BY <1>4, <1>9, Zenon
<1>12. QED
  BY <1>10, <1>11

\* A subtask less, counted.
LEMMA CountDropped ==
  ASSUME NEW l \in Lists, NEW s \in DOMAIN l
  PROVE /\ Counts(Without(l, s)).total = Counts(l).total - 1
        /\ Counts(Without(l, s)).done = Counts(l).done - Mark(l[s].done)
<1> DEFINE m == Without(l, s)
           D == {t \in DOMAIN l : l[t].done}
           E == {t \in DOMAIN m : m[t].done}
<1>1. m \in Lists /\ DOMAIN m = DOMAIN l \ {s} /\ \A t \in DOMAIN l : t # s => m[t] = l[t]
  BY WithoutIs
<1>2. IsFiniteSet(D) /\ IsFiniteSet(DOMAIN l) /\ l[s].done \in BOOLEAN
  BY CountIs, ListIs DEF Subtasks
<1>3. Cardinality(D) \in Nat /\ Cardinality(DOMAIN l) \in Nat
  BY <1>2, FS_CardinalityType
<1>4. Counts(l).done = Cardinality(D) /\ Counts(m).done = Cardinality(E)
      /\ Counts(l).total = Cardinality(DOMAIN l) /\ Counts(m).total = Cardinality(DOMAIN m)
  BY DEF Counts
<1>5. Cardinality(DOMAIN m) = Cardinality(DOMAIN l) - 1
  BY <1>1, <1>2, FS_RemoveElement
<1>6. ASSUME l[s].done = TRUE PROVE Cardinality(E) = Cardinality(D) - 1
  <2>1. E = D \ {s} /\ s \in D
    BY <1>1, <1>6
  <2> HIDE DEF D, E
  <2>2. Cardinality(D \ {s}) = Cardinality(D) - 1
    BY <1>2, <2>1, FS_RemoveElement
  <2>3. QED
    BY <2>1, <2>2
<1>7. ASSUME l[s].done = FALSE PROVE E = D
  BY <1>1, <1>7
<1> HIDE DEF D, E
<1> DEFINE y == Mark(l[s].done)
           d == Cardinality(D)
           e == Cardinality(E)
<1>8. e = d - y
  <2>1. l[s].done \in {TRUE, FALSE} /\ Mark(TRUE) = 1 /\ Mark(FALSE) = 0
    BY <1>2 DEF Mark
  <2>2. (y = 1 /\ e = d - 1) \/ (y = 0 /\ e = d)
    BY <1>6, <1>7, <2>1, Zenon
  <2>3. d \in Nat
    BY <1>3
  <2> HIDE DEF d, e, y
  <2>4. QED
    BY <2>2, <2>3
<1>9. Counts(m).total = Counts(l).total - 1
  BY <1>4, <1>5
<1>10. Counts(m).done = Counts(l).done - Mark(l[s].done)
  BY <1>4, <1>8, Zenon
<1>11. QED
  BY <1>9, <1>10

\* Two counts with the same numbers are the same.
LEMMA SameCount ==
  ASSUME NEW c \in [total : Int, done : Int], NEW d \in [total : Int, done : Int],
         c.total = d.total, c.done = d.done
  PROVE c = d
OBVIOUS

\* The store's count follows a change of one subtask.
LEMMA UpdateCounted ==
  ASSUME NEW s, HasSub(s), store \in Stores, store.subs \in Lists, NEW sub \in Subtasks,
         Counted(store), store' = updateSubtaskInCard(s, sub)
  PROVE Counted(store')
<1> DEFINE l == store.subs
           m == [l EXCEPT ![s] = sub]
<1>1. /\ store' \in Stores /\ store'.subs = m /\ store'.count.total = store.count.total
      /\ store'.count.done = store.count.done + Mark(sub.done) - Mark(l[s].done)
  BY UpdateIs
<1>2. s \in DOMAIN l /\ l # NoList
  BY DEF HasSub
<1>3. store.count = Counts(l)
  BY <1>2 DEF Counted
<1> HIDE DEF l
<1>4. /\ m \in Lists /\ Counts(m).total = Counts(l).total
      /\ Counts(m).done = Counts(l).done + Mark(sub.done) - Mark(l[s].done)
  BY <1>2, CountChanged, ExceptIs DEF l
<1> HIDE DEF m
<1>5. store'.count \in [total : Int, done : Int] /\ Counts(m) \in [total : Int, done : Int]
  BY <1>1, <1>4, CountIs DEF Stores
<1>6. store'.count.total = Counts(m).total /\ store'.count.done = Counts(m).done
  BY <1>1, <1>3, <1>4
<1>7. store'.count = Counts(m)
  BY <1>5, <1>6, SameCount
<1>8. QED
  BY <1>1, <1>7 DEF Counted

\* The user's steps keep the progress.
LEMMA CountedLocal == ASSUME Core, AllCounted, Local PROVE AllCounted'
<1>1. ReqTypes /\ WholeReqs
  BY DEF Core
<1>2. ASSUME NEW r \in Slots, NEW ask \in Asks, Sent(r, ask),
             ask.op = "save" => Meant(ask),
             ask.op \in {"move", "delete"} /\ ask.by = Me => Counted(ask.snapshot),
             store' = Gone \/ Counted(store')
      PROVE AllCounted'
  <2>1. Rest(r) /\ reqs'[r].ask = ask
    BY <1>1, <1>2, SentIs
  <2>2. \A t \in Slots : Snapshot(t)' => Counted(reqs'[t].ask.snapshot)
    BY <1>2, <2>1 DEF AllCounted, Snapshot, Rest
  <2>3. QED
    BY <1>2, <2>2 DEF AllCounted, Counted
<1>3. ASSUME UNCHANGED reqs, store' = Gone \/ Counted(store') PROVE AllCounted'
  BY <1>3 DEF AllCounted, Snapshot, Counted, Open
<1>4. ASSUME store' = store PROVE store' = Gone \/ Counted(store')
  BY <1>4 DEF AllCounted
<1>5. ASSUME store' # Gone, store # Gone, store'.subs = store.subs, store'.count = store.count
      PROVE Counted(store')
  BY <1>5 DEF AllCounted, Counted
<1>6. CASE Still
  BY <1>3, <1>4, <1>6 DEF Still
<1>7. ASSUME NEW r \in Slots, NEW ask \in Asks, AsksFor(r, ask) PROVE AllCounted'
  BY <1>2, <1>4, <1>7 DEF AsksFor
<1>8. ASSUME NEW r \in Slots, NEW form \in Forms, NEW f \in Fields,
             NEW meant \in BOOLEAN, SavesField(r, form, f, meant)
      PROVE AllCounted'
  <2>1. PICK ask \in Asks : Sent(r, ask) /\ ask.op = "save" /\ Meant(ask)
    BY <1>8, SaveSent
  <2>2. store' = Gone \/ Counted(store')
    BY <1>5, <1>8, SavedIs
  <2>3. QED
    BY <1>2, <2>1, <2>2
<1>9. ASSUME NEW r \in Slots, NEW s \in Subs, TogglesSub(r, s) PROVE AllCounted'
  <2>1. PICK ask \in Asks : Sent(r, ask) /\ ask.op = "toggle"
    BY <1>9, ToggledIs
  <2> DEFINE sub == [store.subs[s] EXCEPT !.done = ~@]
  <2>2. store' = updateSubtaskInCard(s, sub)
    BY <1>9 DEF TogglesSub
  <2>3. HasSub(s) /\ store \in Stores /\ store.subs \in Lists /\ sub \in Subtasks
        /\ store # Gone
    BY <1>9, ToggledIs
  <2> HIDE DEF sub
  <2>4. Counted(store)
    BY <2>3 DEF AllCounted
  <2>5. Counted(store')
    BY <2>2, <2>3, <2>4, UpdateCounted
  <2>6. QED
    BY <1>2, <2>1, <2>5
<1>10. ASSUME NEW r \in Slots, NEW s \in Subs, NEW title \in Titles, RenamesSub(r, s, title)
      PROVE AllCounted'
  <2>1. PICK ask \in Asks : Sent(r, ask) /\ ask.op = "rename"
    BY <1>10, RenameSent
  <2> DEFINE sub == [store.subs[s] EXCEPT !.title = title]
  <2>2. store' = updateSubtaskInCard(s, sub)
    BY <1>10 DEF RenamesSub
  <2>3. HasSub(s) /\ store \in Stores /\ store.subs \in Lists /\ sub \in Subtasks
        /\ store # Gone
    BY <1>10, RenamedIs
  <2> HIDE DEF sub
  <2>4. Counted(store)
    BY <2>3 DEF AllCounted
  <2>5. Counted(store')
    BY <2>2, <2>3, <2>4, UpdateCounted
  <2>6. QED
    BY <1>2, <2>1, <2>5
<1>11. ASSUME NEW s \in Subs, HidesSub(s) PROVE AllCounted'
  <2>1. /\ store \in Stores /\ store # Gone /\ store' \in Stores /\ HasSub(s)
        /\ store.subs \in Lists /\ store'.subs = Without(store.subs, s)
        /\ store' = deleteSubtaskFromCard(s)
    BY <1>11, HiddenIs
  <2>2. s \in DOMAIN store.subs /\ store.subs # NoList /\ store.count = Counts(store.subs)
    BY <2>1 DEF HasSub, AllCounted, Counted
  <2> DEFINE l == store.subs
             m == Without(store.subs, s)
  <2>3. /\ store'.count.total = store.count.total - 1
        /\ store'.count.done = store.count.done - Mark(l[s].done)
    BY <2>1, DeleteIs
  <2>4. /\ m \in Lists /\ Counts(m).total = Counts(l).total - 1
        /\ Counts(m).done = Counts(l).done - Mark(l[s].done)
    BY <2>1, <2>2, CountDropped, WithoutIs
  <2> HIDE DEF m
  <2>5. store'.count \in [total : Int, done : Int] /\ Counts(m) \in [total : Int, done : Int]
    BY <2>1, <2>4, CountIs DEF Stores
  <2>6. store'.count = Counts(m)
    BY <2>2, <2>3, <2>4, <2>5, SameCount
  <2>7. Counted(store')
    BY <2>1, <2>6 DEF Counted, m
  <2>8. QED
    BY <1>3, <1>11, <2>7 DEF HidesSub
<1>12. ASSUME NEW r \in Slots, NEW i \in DOMAIN undo, UndoesSub(r, i) PROVE AllCounted'
  BY <1>2, <1>4, <1>12, OtherAsks DEF UndoesSub
<1>13. ASSUME NEW i \in DOMAIN undo, Dismisses(i) PROVE AllCounted'
  BY <1>3, <1>4, <1>13 DEF Dismisses
<1>14. ASSUME NEW r \in Slots, DropsSub(r) PROVE AllCounted'
  <2>1. PICK ask \in Asks : Sent(r, ask) /\ ask.op = "drop"
    BY <1>14, DropSent
  <2>2. QED
    BY <1>2, <1>4, <1>14, <2>1 DEF DropsSub
<1>15. ASSUME NEW r \in Slots, NEW to \in Columns, MovesCard(r, to) PROVE AllCounted'
  <2>1. PICK ask \in Asks : Sent(r, ask) /\ ask.op = "move" /\ ask.snapshot = store
    BY <1>15, MoveSent
  <2>2. Counted(ask.snapshot) /\ Counted(store')
    BY <1>5, <1>15, <2>1, MoveSent DEF AllCounted
  <2>3. QED
    BY <1>2, <2>1, <2>2
<1>16. ASSUME NEW r \in Slots, DeletesCard(r) PROVE AllCounted'
  <2>1. PICK ask \in Asks : Sent(r, ask) /\ ask.op = "delete" /\ ask.snapshot = store
    BY <1>16, DeleteSent
  <2>2. Counted(ask.snapshot) /\ store' = Gone
    BY <1>16, <2>1, DeleteSent DEF AllCounted
  <2>3. QED
    BY <1>2, <2>1, <2>2
<1>17. QED
  BY <1>6, <1>7, <1>8, <1>9, <1>10, <1>11, <1>12, <1>13, <1>14, <1>15, <1>16 DEF Local
-----------------------------------------------------------------------------
\* The server's steps, and what arrives, keep the progress.
LEMMA CountedServer == ASSUME Typing, AllCounted, ServerStep PROVE AllCounted'
<1>1. \A r \in Slots : Snapshot(r)' => Counted(reqs'[r].ask.snapshot)
  <2>1. Refetch.op = "get"
    BY DEF Refetch
  <2>2. QED
    BY <2>1, ServerAsks DEF AllCounted, Snapshot
<1>2. ASSUME store' = Gone \/ Counted(store') PROVE AllCounted'
  BY <1>1, <1>2 DEF AllCounted, Counted
<1>3. store = Gone \/ Counted(store)
  BY DEF AllCounted
<1>4. ASSUME NEW l \in Lists, NEW v \in Nat, ShowList(l, v) PROVE store' = Gone \/ Counted(store')
  BY <1>4, ShowIs DEF Counted
<1>5. CASE applyWsMessage
  <2>1. inbox[1] \in Events /\ inbox[1].kind \in {"card", "subtasks", "moved", "deleted"}
    BY <1>5, ArriveIs, KindIs
  <2>2. ASSUME (store' = Gone) <=> (store = Gone),
               store # Gone => store'.subs = store.subs /\ store'.count = store.count
        PROVE store' = Gone \/ Counted(store')
    BY <1>3, <2>2 DEF Counted
  <2>3. CASE inbox[1].kind = "card"
    BY <1>2, <1>5, <2>1, <2>2, <2>3, ArriveIs, KindIs, RowShownIs
  <2>4. CASE inbox[1].kind = "moved"
    BY <1>2, <1>5, <2>1, <2>2, <2>4, ArriveIs, KindIs, MovedIs DEF Typing
  <2>5. CASE inbox[1].kind = "deleted"
    BY <1>2, <1>5, <2>5, ArriveIs
  <2>6. CASE inbox[1].kind = "subtasks"
    BY <1>2, <1>4, <1>5, <2>1, <2>6, ArriveIs, KindIs
  <2>7. QED
    BY <2>1, <2>3, <2>4, <2>5, <2>6
<1>6. ASSUME NEW r \in Slots, Write(r) \/ ReadSubtasks(r) \/ Emit(r) \/ Forget(r)
      PROVE AllCounted'
  <2>1. store' = store
    BY <1>6 DEF Write, ReadSubtasks, Emit, Forget
  <2>2. QED
    BY <1>2, <1>3, <2>1
<1>7. ASSUME NEW r \in Slots, Answered(r) PROVE AllCounted'
  <2>1. CASE reqs[r].ask.op = "get"
    BY <1>2, <1>4, <1>7, <2>1, AnswerIs
  <2>2. ASSUME NEW made \in Creations, AppendAnswer(made) PROVE AllCounted'
    <3>1. CASE New(made)
      BY <1>2, <2>2, <3>1, JoinIs DEF Counted
    <3>2. CASE ~New(made)
      BY <1>2, <1>3, <2>2, <3>2, JoinIs
    <3>3. QED
      BY <3>1, <3>2
  <2>3. QED
    BY <1>7, <2>1, <2>2, AnswerIs
<1>8. ASSUME NEW r \in Slots, NEW q \in Asks, Open(r), reqs[r].ask = q, q.by = Me, revert(q)
      PROVE AllCounted'
  <2>1. CASE q.op \in {"move", "delete"}
    <3>1. Counted(q.snapshot)
      BY <1>8, <2>1 DEF AllCounted, Snapshot
    <3>2. store' = q.snapshot
      BY <1>8, <2>1, RevertIs
    <3>3. QED
      BY <1>2, <3>1, <3>2
  <2>2. CASE q.op = "toggle" /\ HasSub(q.sub)
    <3> DEFINE sub == [store.subs[q.sub] EXCEPT !.done = ~q.done]
    <3>1. store' = updateSubtaskInCard(q.sub, sub)
      BY <1>8, <2>2 DEF revert
    <3>2. store \in Stores /\ store # Gone /\ store.subs \in Lists /\ sub \in Subtasks
      BY <1>8, <2>2, RevertIs
    <3> HIDE DEF sub
    <3>3. Counted(store')
      BY <1>3, <2>2, <3>1, <3>2, UpdateCounted
    <3>4. QED
      BY <1>2, <3>3
  <2>3. CASE q.op \notin {"move", "delete"} /\ ~(q.op = "toggle" /\ HasSub(q.sub))
    BY <1>2, <1>3, <1>8, <2>3, RevertIs
  <2>4. QED
    BY <2>1, <2>2, <2>3
<1>9. ASSUME NEW r \in Slots, Fail(r) PROVE AllCounted'
  BY <1>8, <1>9, FailIs
<1>10. ASSUME NEW r \in Slots, Cut(r) PROVE AllCounted'
  BY <1>8, <1>10, CutIs
<1>11. QED
  BY <1>5, <1>6, <1>7, <1>9, <1>10 DEF ServerStep

\* Every step keeps the progress.
LEMMA CountedStep == Typing /\ AllCounted /\ [Next]_vars => AllCounted'
<1>1. ASSUME AllCounted, UNCHANGED vars PROVE AllCounted'
  BY <1>1 DEF vars, AllCounted, Counted, Snapshot, Open
<1>2. QED
  BY <1>1, CountedLocal, CountedServer, UserSteps, TwoSides DEF Kept, Typing

\* The dialog counts what it lists.
LEMMA CountedIsShown == ASSUME StoreTypes, AllCounted PROVE ProgressAgrees
<1> SUFFICES ASSUME store # Gone, store.subs # NoList PROVE TaskCard.bar = SubtaskProgress
  BY DEF ProgressAgrees
<1>1. store.count = Counts(store.subs)
  BY DEF AllCounted, Counted
<1>2. Listed = DOMAIN store.subs
  BY DEF Listed
<1>3. SubtaskProgress = Counts(store.subs)
  BY <1>2 DEF SubtaskProgress, Counts
<1>4. TaskCard.bar = store.count
  BY DEF TaskCard
<1>5. QED
  BY <1>1, <1>3, <1>4
-----------------------------------------------------------------------------
\* Every id of a subtask that is about belongs to one that was made.
ListIn(l, U) == l # NoList => DOMAIN l \subseteq U
EventIn(e, U) == e.kind = "subtasks" => DOMAIN e.list \subseteq U
AskIn(q, U) ==
  /\ q.op \in {"toggle", "rename", "drop"} => q.sub \in U
  /\ q.op \in {"move", "delete"} /\ q.by = Me => ListIn(q.snapshot.subs, U)
RequestIn(x, U) ==
  EventIn(x.event, U) /\ (x.made # NoEvent => x.made.sub \in U) /\ AskIn(x.ask, U)
AllIn(U) ==
  /\ store # Gone => ListIn(store.subs, U)
  /\ \A i \in DOMAIN undo : undo[i].sub \in U
  /\ \A i \in DOMAIN inbox : EventIn(inbox[i], U)
  /\ \A r \in Slots : Open(r) => RequestIn(reqs[r], U)
AllUsed == db # Gone => DOMAIN db.subs \subseteq db.used /\ AllIn(db.used)

\* A request that was just sent.
LEMMA SentIn ==
  ASSUME Core, NEW U, NEW r \in Slots, NEW ask \in Asks, Sent(r, ask), AllIn(U), AskIn(ask, U),
         ask.op = "save" => Meant(ask), UNCHANGED inbox,
         store' = Gone \/ ListIn(store'.subs, U),
         \A i \in DOMAIN undo' : undo'[i].sub \in U
  PROVE AllIn(U)'
<1>1. /\ Rest(r) /\ reqs'[r].ask = ask /\ reqs'[r].event = NoEvent /\ reqs'[r].made = NoEvent
  BY SentIs DEF Core
<1>2. RequestIn(reqs'[r], U)
  BY <1>1, Plain DEF RequestIn, EventIn
<1>3. ASSUME NEW s \in Slots, Open(s)' PROVE RequestIn(reqs'[s], U)
  <2>1. CASE s = r
    BY <1>2, <2>1
  <2>2. CASE s # r
    BY <1>1, <1>3, <2>2 DEF Rest, AllIn
  <2>3. QED
    BY <2>1, <2>2
<1>4. \A i \in DOMAIN inbox' : EventIn(inbox'[i], U)
  BY DEF AllIn
<1>5. QED
  BY <1>3, <1>4 DEF AllIn, ListIn, RequestIn, EventIn, AskIn

\* The tab's steps bring no new id.
LEMMA InLocal ==
  ASSUME Core, NEW U, AllIn(U), Local, db # Gone => DOMAIN db.subs \subseteq U
  PROVE AllIn(U)'
<1>1. store = Gone \/ ListIn(store.subs, U)
  BY DEF AllIn
<1>2. \A i \in DOMAIN undo : undo[i].sub \in U
  BY DEF AllIn
<1>3. ASSUME UNCHANGED <<reqs, inbox>>, store' = Gone \/ ListIn(store'.subs, U),
             \A i \in DOMAIN undo' : undo'[i].sub \in U
      PROVE AllIn(U)'
  BY <1>3 DEF AllIn, Open, ListIn, RequestIn, EventIn, AskIn
<1>4. CASE Still
  BY <1>1, <1>2, <1>3, <1>4 DEF Still, Elsewhere
<1>5. ASSUME NEW r \in Slots, NEW ask \in Asks, AsksFor(r, ask) PROVE AllIn(U)'
  <2>1. AskIn(ask, U)
    BY <1>5 DEF AsksFor, AskIn
  <2>2. QED
    BY <1>1, <1>2, <1>5, <2>1, SentIn DEF AsksFor, Elsewhere
<1>6. ASSUME NEW r \in Slots, NEW form \in Forms, NEW f \in Fields,
             NEW meant \in BOOLEAN, SavesField(r, form, f, meant)
      PROVE AllIn(U)'
  <2>1. PICK ask \in Asks : Sent(r, ask) /\ ask.op = "save" /\ Meant(ask)
    BY <1>6, SaveSent
  <2>2. AskIn(ask, U)
    BY <2>1 DEF AskIn
  <2>3. store' = Gone \/ ListIn(store'.subs, U)
    BY <1>1, <1>6, SavedIs
  <2>4. UNCHANGED <<inbox, undo>>
    BY <1>6 DEF SavesField, Elsewhere
  <2>5. QED
    BY <1>2, <2>1, <2>2, <2>3, <2>4, SentIn
<1>7. ASSUME store # Gone, store' # Gone, NEW s, HasSub(s), NEW sub \in Subtasks,
             store.subs \in Lists, store'.subs = [store.subs EXCEPT ![s] = sub]
      PROVE ListIn(store'.subs, U) /\ s \in U
  <2>1. s \in DOMAIN store.subs /\ DOMAIN store.subs \subseteq U
    BY <1>1, <1>7, NoListIsNone DEF HasSub, ListIn
  <2>2. DOMAIN store'.subs = DOMAIN store.subs
    BY <1>7
  <2>3. QED
    BY <2>1, <2>2 DEF ListIn
<1>8. ASSUME NEW r \in Slots, NEW s \in Subs, TogglesSub(r, s) PROVE AllIn(U)'
  <2>1. PICK ask \in Asks : Sent(r, ask) /\ ask.op = "toggle" /\ ask.sub = s
    BY <1>8, ToggleSent
  <2> DEFINE sub == [store.subs[s] EXCEPT !.done = ~@]
  <2>2. /\ store # Gone /\ store' # Gone /\ store \in Stores /\ HasSub(s) /\ sub \in Subtasks
        /\ store.subs \in Lists
    BY <1>8, ToggledIs
  <2>3. store' = updateSubtaskInCard(s, sub)
    BY <1>8 DEF TogglesSub
  <2> HIDE DEF sub
  <2>4. store'.subs = [store.subs EXCEPT ![s] = sub]
    BY <2>2, <2>3, UpdateIs
  <2>5. ListIn(store'.subs, U) /\ s \in U
    BY <1>7, <2>2, <2>4
  <2>6. AskIn(ask, U) /\ UNCHANGED <<inbox, undo>>
    BY <1>8, <2>1, <2>5 DEF AskIn, TogglesSub, Elsewhere
  <2>7. QED
    BY <1>2, <2>1, <2>5, <2>6, SentIn
<1>9. ASSUME NEW r \in Slots, NEW s \in Subs, NEW title \in Titles, RenamesSub(r, s, title)
      PROVE AllIn(U)'
  <2>1. PICK ask \in Asks : Sent(r, ask) /\ ask.op = "rename" /\ ask.sub = s
    BY <1>9, RenameSent
  <2> DEFINE sub == [store.subs[s] EXCEPT !.title = title]
  <2>2. /\ store # Gone /\ store' # Gone /\ store \in Stores /\ HasSub(s) /\ sub \in Subtasks
        /\ store.subs \in Lists
    BY <1>9, RenamedIs
  <2>3. store' = updateSubtaskInCard(s, sub)
    BY <1>9 DEF RenamesSub
  <2> HIDE DEF sub
  <2>4. store'.subs = [store.subs EXCEPT ![s] = sub]
    BY <2>2, <2>3, UpdateIs
  <2>5. ListIn(store'.subs, U) /\ s \in U
    BY <1>7, <2>2, <2>4
  <2>6. AskIn(ask, U) /\ UNCHANGED <<inbox, undo>>
    BY <1>9, <2>1, <2>5 DEF AskIn, RenamesSub, Elsewhere
  <2>7. QED
    BY <1>2, <2>1, <2>5, <2>6, SentIn
<1>10. ASSUME NEW s \in Subs, HidesSub(s) PROVE AllIn(U)'
  <2>1. /\ store # Gone /\ HasSub(s) /\ store.subs \in Lists
        /\ store'.subs = Without(store.subs, s)
        /\ undo' \in Seq(Deletions) /\ Len(undo') = Len(undo) + 1
        /\ \A i \in DOMAIN undo : undo'[i] = undo[i]
        /\ \A i \in DOMAIN undo' : i \in DOMAIN undo \/ i = Len(undo) + 1
        /\ undo'[Len(undo) + 1] = [sub |-> s, toast |-> TRUE]
    BY <1>10, HiddenIs
  <2>2. s \in DOMAIN store.subs /\ DOMAIN store.subs \subseteq U
    BY <1>1, <2>1, NoListIsNone DEF HasSub, ListIn
  <2>3. ListIn(store'.subs, U)
    <3>1. DOMAIN store'.subs = DOMAIN store.subs \ {s}
      BY <2>1, WithoutIs
    <3>2. QED
      BY <2>2, <3>1 DEF ListIn
  <2>4. \A i \in DOMAIN undo' : undo'[i].sub \in U
    BY <1>2, <2>1, <2>2
  <2>5. UNCHANGED <<reqs, inbox>>
    BY <1>10 DEF HidesSub, Elsewhere
  <2>6. QED
    BY <1>3, <2>3, <2>4, <2>5
<1>11. ASSUME NEW r \in Slots, NEW i \in DOMAIN undo, UndoesSub(r, i) PROVE AllIn(U)'
  <2>1. undo' = RemoveAt(undo, i) /\ Sent(r, Refetch) /\ UNCHANGED <<inbox, store>>
    BY <1>11 DEF UndoesSub, Elsewhere
  <2>2. i \in Nat /\ \A j \in DOMAIN undo' : j \in Nat
    BY <2>1, RemoveIs DEF Core, UndoTypes
  <2>3. \A j \in DOMAIN undo' : \E k \in DOMAIN undo : undo'[j] = undo[k]
    BY <2>1, <2>2, RemoveIs DEF Core
  <2>4. \A j \in DOMAIN undo' : undo'[j].sub \in U
    BY <1>2, <2>3
  <2>5. AskIn(Refetch, U) /\ Refetch.op = "get"
    BY DEF AskIn, Refetch
  <2>6. QED
    BY <1>1, <2>1, <2>4, <2>5, SentIn, OtherAsks
<1>12. ASSUME NEW i \in DOMAIN undo, Dismisses(i) PROVE AllIn(U)'
  BY <1>1, <1>2, <1>3, <1>12, DismissIs DEF Dismisses, Elsewhere
<1>13. ASSUME NEW r \in Slots, DropsSub(r) PROVE AllIn(U)'
  <2>1. PICK ask \in Asks : Sent(r, ask) /\ ask.op = "drop" /\ ask.sub = undo[1].sub
    BY <1>13, DropSent
  <2>2. AskIn(ask, U)
    BY <1>2, <1>13, <2>1, DropSent DEF AskIn
  <2>3. \A i \in DOMAIN undo' : undo'[i].sub \in U
    BY <1>2, <1>13, DropSent
  <2>4. QED
    BY <1>1, <1>13, <2>1, <2>2, <2>3, SentIn DEF DropsSub, Elsewhere
<1>14. ASSUME NEW r \in Slots, NEW to \in Columns, MovesCard(r, to) PROVE AllIn(U)'
  <2>1. PICK ask \in Asks : Sent(r, ask) /\ ask.op = "move" /\ ask.snapshot = store
    BY <1>14, MoveSent
  <2>2. AskIn(ask, U) /\ ListIn(store'.subs, U)
    BY <1>1, <1>14, <2>1, MoveSent DEF AskIn
  <2>3. QED
    BY <1>2, <1>14, <2>1, <2>2, SentIn DEF MovesCard, Elsewhere
<1>15. ASSUME NEW r \in Slots, DeletesCard(r) PROVE AllIn(U)'
  <2>1. PICK ask \in Asks : Sent(r, ask) /\ ask.op = "delete" /\ ask.snapshot = store
    BY <1>15, DeleteSent
  <2>2. AskIn(ask, U)
    BY <1>1, <1>15, <2>1, DeleteSent DEF AskIn
  <2>3. QED
    BY <1>2, <1>15, <2>1, <2>2, SentIn DEF DeletesCard, Elsewhere
<1>16. QED
  BY <1>4, <1>5, <1>6, <1>8, <1>9, <1>10, <1>11, <1>12, <1>13, <1>14, <1>15 DEF Local
\* Fetching the list needs no id.
LEMMA RefetchIn == ASSUME NEW U PROVE RequestIn(Request(Refetch), U)
<1>1. /\ Request(Refetch).event = NoEvent /\ Request(Refetch).made = NoEvent
      /\ Request(Refetch).ask = Refetch /\ Refetch.op = "get"
  BY DEF Request, Refetch
<1>2. QED
  BY <1>1, Plain DEF RequestIn, EventIn, AskIn

\* Taking back what failed brings no new id.
LEMMA InRevert ==
  ASSUME Typing, NEW U, AllIn(U), NEW q \in Asks, q.by = Me, AskIn(q, U), revert(q)
  PROVE store' = Gone \/ ListIn(store'.subs, U)
<1>1. store = Gone \/ ListIn(store.subs, U)
  BY DEF AllIn
<1>2. CASE q.op \in {"move", "delete"}
  <2>1. store' = q.snapshot
    BY <1>2, RevertIs
  <2>2. ListIn(q.snapshot.subs, U)
    BY <1>2 DEF AskIn
  <2>3. QED
    BY <2>1, <2>2
<1>3. CASE q.op = "toggle" /\ HasSub(q.sub)
  <2> DEFINE sub == [store.subs[q.sub] EXCEPT !.done = ~q.done]
  <2>1. store' = updateSubtaskInCard(q.sub, sub)
    BY <1>3 DEF revert
  <2>2. store \in Stores /\ store # Gone /\ store.subs \in Lists /\ sub \in Subtasks
    BY <1>3, RevertIs
  <2> HIDE DEF sub
  <2>3. store'.subs = [store.subs EXCEPT ![q.sub] = sub]
    BY <1>3, <2>1, <2>2, UpdateIs
  <2>4. DOMAIN store'.subs = DOMAIN store.subs
    BY <2>3
  <2>5. QED
    BY <1>1, <2>2, <2>4, NoListIsNone DEF ListIn
<1>4. CASE q.op \notin {"move", "delete"} /\ ~(q.op = "toggle" /\ HasSub(q.sub))
  BY <1>1, <1>4, RevertIs
<1>5. QED
  BY <1>2, <1>3, <1>4

\* Until the card is written nothing brings a new id.
LEMMA InServer ==
  ASSUME Typing, NEW U, AllIn(U), db # Gone, DOMAIN db.subs \subseteq U, ServerStep,
         \A r \in Slots : ~Write(r)
  PROVE AllIn(U)'
<1>1. store = Gone \/ ListIn(store.subs, U)
  BY DEF AllIn
<1>2. ASSUME NEW r \in Slots, Open(r) PROVE RequestIn(reqs[r], U)
  BY <1>2 DEF AllIn
<1>3. ASSUME store' = Gone \/ ListIn(store'.subs, U), UNCHANGED undo,
             \A i \in DOMAIN inbox' : EventIn(inbox'[i], U),
             \A r \in Slots : Open(r)' => RequestIn(reqs'[r], U)
      PROVE AllIn(U)'
  BY <1>3 DEF AllIn, ListIn, RequestIn, EventIn, AskIn
<1>4. \A i \in DOMAIN inbox : EventIn(inbox[i], U)
  BY DEF AllIn
<1>5. ASSUME NEW l \in Lists, NEW v \in Nat, ShowList(l, v), DOMAIN l \subseteq U
      PROVE store' = Gone \/ ListIn(store'.subs, U)
  BY <1>5, ShowIs DEF ListIn
<1>6. CASE applyWsMessage
  <2>1. inbox[1] \in Events /\ inbox[1].kind \in {"card", "subtasks", "moved", "deleted"}
        /\ 1 \in DOMAIN inbox /\ EventIn(inbox[1], U)
    BY <1>4, <1>6, ArriveIs, KindIs
  <2>2. UNCHANGED <<undo, reqs>> /\ \A i \in DOMAIN inbox' : EventIn(inbox'[i], U)
    BY <1>4, <1>6, ArriveIs
  <2>3. \A r \in Slots : Open(r)' => RequestIn(reqs'[r], U)
    BY <1>2, <2>2 DEF Open
  <2>4. ASSUME (store' = Gone) <=> (store = Gone), store # Gone => store'.subs = store.subs
        PROVE store' = Gone \/ ListIn(store'.subs, U)
    BY <1>1, <2>4
  <2>5. store' = Gone \/ ListIn(store'.subs, U)
    <3>1. CASE inbox[1].kind = "card"
      BY <1>6, <2>1, <2>4, <3>1, ArriveIs, KindIs, RowShownIs
    <3>2. CASE inbox[1].kind = "moved"
      BY <1>6, <2>1, <2>4, <3>2, ArriveIs, KindIs, MovedIs DEF Typing
    <3>3. CASE inbox[1].kind = "deleted"
      BY <1>6, <3>3, ArriveIs
    <3>4. CASE inbox[1].kind = "subtasks"
      BY <1>5, <1>6, <2>1, <3>4, ArriveIs, KindIs DEF EventIn
    <3>5. QED
      BY <2>1, <3>1, <3>2, <3>3, <3>4
  <2>6. QED
    BY <1>3, <2>2, <2>3, <2>5
<1>7. ASSUME NEW r \in Slots, ReadSubtasks(r) PROVE AllIn(U)'
  <2>1. /\ Rest(r) /\ Open(r) /\ reqs'[r].ask = reqs[r].ask /\ reqs'[r].made = reqs[r].made
        /\ reqs'[r].event = ListEvent(db)
    BY <1>7, ReadIs DEF Typing
  <2>2. EventIn(ListEvent(db), U)
    BY DEF EventIn, ListEvent
  <2>3. RequestIn(reqs'[r], U)
    BY <1>2, <2>1, <2>2 DEF RequestIn
  <2>4. UNCHANGED <<store, undo, inbox>>
    BY <1>7 DEF ReadSubtasks
  <2>5. \A s \in Slots : Open(s)' => RequestIn(reqs'[s], U)
    BY <1>2, <2>1, <2>3 DEF Rest
  <2>6. QED
    BY <1>1, <1>3, <1>4, <2>4, <2>5
<1>8. ASSUME NEW r \in Slots, Emit(r) PROVE AllIn(U)'
  <2>1. /\ Rest(r) /\ Open(r) /\ reqs[r].event \in Events /\ inbox \in Seq(Events)
        /\ inbox' = Append(inbox, reqs[r].event)
        /\ \/ ~Open(r)'
           \/ /\ reqs'[r].ask = reqs[r].ask /\ reqs'[r].made = reqs[r].made
              /\ reqs'[r].event = reqs[r].event
    BY <1>8, EmitIs DEF Typing
  <2>2. EventIn(reqs[r].event, U) /\ (Open(r)' => RequestIn(reqs'[r], U))
    BY <1>2, <2>1 DEF RequestIn
  <2>3. \A i \in DOMAIN inbox' : EventIn(inbox'[i], U)
    BY <1>4, <2>1, <2>2
  <2>4. UNCHANGED <<store, undo>>
    BY <1>8 DEF Emit
  <2>5. \A s \in Slots : Open(s)' => RequestIn(reqs'[s], U)
    BY <1>2, <2>1, <2>2 DEF Rest
  <2>6. QED
    BY <1>1, <1>3, <2>3, <2>4, <2>5
<1>9. ASSUME NEW r \in Slots, Answered(r) PROVE AllIn(U)'
  <2>1. /\ Rest(r) /\ ~Open(r)' /\ Open(r) /\ RequestIn(reqs[r], U)
        /\ UNCHANGED <<undo, inbox>>
    BY <1>2, <1>9, AnswerIs DEF Answered
  <2>2. \A s \in Slots : Open(s)' => RequestIn(reqs'[s], U)
    BY <1>2, <2>1 DEF Rest
  <2>3. CASE reqs[r].ask.op = "get"
    <3>1. /\ reqs[r].event \in ListEvents /\ reqs[r].event.list \in Lists
          /\ reqs[r].event.listVer \in Nat
          /\ ShowList(reqs[r].event.list, reqs[r].event.listVer)
      BY <1>9, <2>3, AnswerIs
    <3>2. DOMAIN reqs[r].event.list \subseteq U
      BY <2>1, <3>1 DEF RequestIn, EventIn, ListEvents
    <3>3. QED
      BY <1>3, <1>4, <1>5, <2>1, <2>2, <3>1, <3>2
  <2>4. CASE reqs[r].made \in Creations /\ AppendAnswer(reqs[r].made)
    <3> DEFINE made == reqs[r].made
    <3>1. made.sub \in U
      BY <2>1, <2>4, Plain DEF RequestIn
    <3>2. CASE New(made)
      <4>1. /\ store # Gone /\ Before \in Lists
            /\ store'.subs = With(Before, made.sub, made.row)
        BY <2>4, <3>2, JoinIs
      <4>2. DOMAIN Before \subseteq U
        BY <1>1, <4>1 DEF ListIn, Before
      <4>3. DOMAIN store'.subs \subseteq U
        BY <3>1, <4>1, <4>2 DEF With
      <4>4. QED
        BY <1>3, <1>4, <2>1, <2>2, <4>3 DEF ListIn
    <3>3. CASE ~New(made)
      BY <1>1, <1>3, <1>4, <2>1, <2>2, <2>4, <3>3, JoinIs
    <3>4. QED
      BY <3>2, <3>3
  <2>5. QED
    BY <1>9, <2>3, <2>4, AnswerIs
<1>10. ASSUME NEW r \in Slots, Forget(r) PROVE AllIn(U)'
  <2>1. Rest(r) /\ ~Open(r)' /\ UNCHANGED <<store, undo, inbox>>
    BY <1>10, LeaveIs DEF Forget, Typing
  <2>2. \A s \in Slots : Open(s)' => RequestIn(reqs'[s], U)
    BY <1>2, <2>1 DEF Rest
  <2>3. QED
    BY <1>1, <1>3, <1>4, <2>1, <2>2
<1>11. ASSUME NEW r \in Slots, Open(r), reqs[r].ask \in Asks, reqs[r].ask.by = Me,
              revert(reqs[r].ask)
       PROVE store' = Gone \/ ListIn(store'.subs, U)
  <2>1. AskIn(reqs[r].ask, U)
    BY <1>2, <1>11 DEF RequestIn
  <2>2. QED
    BY <1>11, <2>1, InRevert
<1>12. ASSUME NEW r \in Slots, Fail(r) PROVE AllIn(U)'
  <2>1. /\ Rest(r) /\ (~LooksUp(reqs[r].ask) => ~Open(r)')
        /\ (LooksUp(reqs[r].ask) => reqs'[r] = Request(Refetch))
    BY <1>12, FailIs
  <2>2. \A s \in Slots : Open(s)' => RequestIn(reqs'[s], U)
    BY <1>2, <2>1, RefetchIn DEF Rest
  <2>3. store' = Gone \/ ListIn(store'.subs, U)
    BY <1>11, <1>12, FailIs
  <2>4. UNCHANGED <<undo, inbox>>
    BY <1>12 DEF Fail
  <2>5. QED
    BY <1>3, <1>4, <2>2, <2>3, <2>4
<1>13. ASSUME NEW r \in Slots, Cut(r) PROVE AllIn(U)'
  <2>1. /\ Open(r) /\ reqs'[r].ask = reqs[r].ask /\ reqs'[r].event = reqs[r].event
        /\ reqs'[r].made = reqs[r].made
    BY <1>13, CutIs
  <2>2. RequestIn(reqs'[r], U)
    BY <1>2, <2>1 DEF RequestIn
  <2>3. \A s \in Slots : Open(s)' => RequestIn(reqs'[s], U)
    <3>1. CASE ~LooksUp(reqs[r].ask)
      <4>1. Rest(r)
        BY <1>13, <3>1, CutIs
      <4>2. QED
        BY <1>2, <2>2, <4>1 DEF Rest
    <3>2. CASE LooksUp(reqs[r].ask)
      <4>1. PICK x \in Slots \ {r} :
              /\ reqs'[x] = Request(Refetch)
              /\ \A s \in Slots \ {r, x} : reqs'[s] = reqs[s] /\ (Open(s)' <=> Open(s))
        BY <1>13, <3>2, CutIs
      <4>2. QED
        BY <1>2, <2>2, <4>1, RefetchIn
    <3>3. QED
      BY <3>1, <3>2
  <2>4. store' = Gone \/ ListIn(store'.subs, U)
    BY <1>11, <1>13, CutIs
  <2>5. UNCHANGED <<undo, inbox>>
    BY <1>13 DEF Cut
  <2>6. QED
    BY <1>3, <1>4, <2>3, <2>4, <2>5
<1>14. QED
  BY <1>6, <1>7, <1>8, <1>9, <1>10, <1>12, <1>13 DEF ServerStep

\* What a write does to the ids: an addition takes the next one.
LEMMA WriteIn ==
  ASSUME Typing, AllUsed, NEW r \in Slots, Write(r), db' # Gone
  PROVE /\ db # Gone /\ db.used \subseteq db'.used /\ DOMAIN db'.subs \subseteq db'.used
        /\ reqs[r].ask.op = "add" =>
             /\ NextSub \in Subs \ db.used /\ db'.used = db.used \cup {NextSub}
             /\ DOMAIN db'.subs = DOMAIN db.subs \cup {NextSub}
        /\ reqs[r].ask.op # "add" => db'.used = db.used
        /\ reqs[r].ask.op \notin {"add", "drop"} => DOMAIN db'.subs = DOMAIN db.subs
        /\ reqs[r].ask.op = "drop" => DOMAIN db'.subs = DOMAIN db.subs \ {reqs[r].ask.sub}
<1> DEFINE q == reqs[r].ask
           row == Rewritten(q)
<1>1. q \in Asks /\ ~Refused(q) /\ db' = row
  BY WriteIs DEF Typing, Wrote
<1>2. /\ db = Gone => q.op \in {"create", "tag"} /\ row = Gone
      /\ q.op \in {"get", "tag", "create"} => row = db
      /\ q.op = "delete" => row = Gone
      /\ db # Gone /\ q.op # "delete" => row \in Rows /\ RowAfter(q, row)
  BY <1>1, RowIs DEF Typing
<1>3. db # Gone /\ db \in Rows /\ q.op # "delete" /\ DOMAIN db.subs \subseteq db.used
      /\ db.subs \in Lists
  BY <1>1, <1>2 DEF Typing, Core, DbTypes, AllUsed, Rows
<1>4. q.op \in {"save", "get", "tag", "add", "toggle", "rename", "drop", "move", "create"}
  BY <1>1, <1>3, AskIs
<1> HIDE DEF row
<1>5. CASE q.op \in {"get", "tag", "create"}
  BY <1>1, <1>2, <1>3, <1>5
<1>6. CASE q.op \in {"save", "move"}
  BY <1>1, <1>2, <1>3, <1>6 DEF RowAfter, SameList
<1>7. CASE q.op = "add"
  <2> DEFINE sub == [title |-> q.title, done |-> FALSE]
  <2>1. /\ NextSub \in Subs \ db.used /\ sub \in Subtasks
        /\ row.subs = With(db.subs, NextSub, sub) /\ row.used = db.used \cup {NextSub}
    BY <1>2, <1>3, <1>7 DEF RowAfter, ListRow
  <2> HIDE DEF sub
  <2>2. DOMAIN row.subs = DOMAIN db.subs \cup {NextSub}
    BY <2>1 DEF With
  <2>3. QED
    BY <1>1, <1>3, <1>7, <2>1, <2>2
<1>8. CASE q.op = "toggle"
  <2>1. DOMAIN row.subs = DOMAIN db.subs /\ row.used = db.used
    BY <1>2, <1>3, <1>8 DEF RowAfter, ListRow
  <2>2. QED
    BY <1>1, <1>3, <1>8, <2>1
<1>9. CASE q.op = "rename"
  <2>1. DOMAIN row.subs = DOMAIN db.subs /\ row.used = db.used
    BY <1>2, <1>3, <1>9 DEF RowAfter, ListRow
  <2>2. QED
    BY <1>1, <1>3, <1>9, <2>1
<1>10. CASE q.op = "drop"
  <2>1. DOMAIN row.subs = DOMAIN db.subs \ {q.sub} /\ row.used = db.used
    BY <1>2, <1>3, <1>10 DEF RowAfter, ListRow, Without
  <2>2. QED
    BY <1>1, <1>3, <1>10, <2>1
<1>11. QED
  BY <1>4, <1>5, <1>6, <1>7, <1>8, <1>9, <1>10

\* Every step keeps to ids that were given.
LEMMA UsedStep == Typing /\ AllUsed /\ [Next]_vars => AllUsed'
<1> SUFFICES ASSUME Typing, AllUsed, [Next]_vars, db' # Gone PROVE AllUsed'
  BY DEF AllUsed
<1>1. ASSUME NEW V, V = db'.used, DOMAIN db'.subs \subseteq V, AllIn(V)' PROVE AllUsed'
  BY <1>1 DEF AllUsed, AllIn, ListIn, RequestIn, EventIn, AskIn
<1>2. CASE UNCHANGED vars
  BY <1>2 DEF vars, AllUsed, AllIn, ListIn, RequestIn, EventIn, AskIn, Open
<1>3. CASE UserStep
  <2>1. Core /\ Local /\ db' = db
    BY <1>3, UserSteps DEF Kept, Typing, Local, Elsewhere, Still, AsksFor, SavesField,
      TogglesSub, RenamesSub, HidesSub, UndoesSub, Dismisses, DropsSub, MovesCard, DeletesCard
  <2>2. db # Gone /\ DOMAIN db.subs \subseteq db.used /\ AllIn(db.used)
    BY <2>1 DEF AllUsed
  <2>3. PICK V : V = db.used
    OBVIOUS
  <2>4. AllIn(V)'
    BY <2>1, <2>2, <2>3, InLocal
  <2>5. QED
    BY <1>1, <2>1, <2>2, <2>3, <2>4
<1>4. ASSUME NEW r \in Slots, Write(r) PROVE AllUsed'
  <2>1. /\ db # Gone /\ db.used \subseteq db'.used /\ DOMAIN db'.subs \subseteq db'.used
        /\ reqs[r].ask.op = "add" =>
             NextSub \in Subs \ db.used /\ db'.used = db.used \cup {NextSub}
    BY <1>4, WriteIn
  <2>2. PICK V : V = db'.used
    OBVIOUS
  <2>3. AllIn(db.used)
    BY <2>1 DEF AllUsed
  <2>4. UNCHANGED <<store, undo, inbox>>
    BY <1>4 DEF Write
  <2>5. Wrote(r)
    BY <1>4, WriteIs DEF Typing
  <2>6. ASSUME NEW s \in Slots, Open(s) PROVE RequestIn(reqs[s], V)
    BY <2>1, <2>2, <2>3, <2>6 DEF AllIn, RequestIn, EventIn, AskIn, ListIn
  <2> DEFINE q == reqs[r].ask
  <2>7. /\ Rest(r) /\ Open(r) /\ q \in Asks /\ ~Refused(q) /\ db' = Rewritten(q)
        /\ Open(r)' => reqs'[r].ask = q
    BY <2>5, Plain DEF Wrote, Open
  <2>8. ASSUME \A s \in Slots : Open(s)' => RequestIn(reqs'[s], V) PROVE AllUsed'
    <3>1. AllIn(V)'
      BY <2>1, <2>2, <2>3, <2>4, <2>8 DEF AllIn, RequestIn, EventIn, AskIn, ListIn
    <3>2. QED
      BY <1>1, <2>1, <2>2, <3>1
  <2>9. CASE Open(r)'
    <3>1. EventIn(reqs'[r].event, V)
      <4>1. CASE q.op = "tag"
        BY <2>5, <2>6, <2>7, <4>1 DEF Wrote, RequestIn
      <4>2. CASE q.op = "get"
        <5>1. reqs'[r].event = ListEvent(db) /\ DOMAIN db.subs \subseteq db.used
          BY <2>1, <2>5, <4>2 DEF Wrote, AllUsed
        <5>2. QED
          BY <2>1, <2>2, <5>1 DEF EventIn, ListEvent
      <4>3. CASE q.op \in {"save", "move", "delete"}
        <5>1. reqs'[r].event = Event(q, Rewritten(q))
          BY <2>5, <4>3 DEF Wrote
        <5>2. reqs'[r].event.kind # "subtasks"
          BY <2>7, <4>3, <5>1, EventIs DEF Typing
        <5>3. QED
          BY <5>2 DEF EventIn
      <4>4. CASE q.op \in {"add", "toggle", "rename", "drop"}
        <5>1. reqs'[r].event = Event(q, Rewritten(q))
          BY <2>5, <4>4 DEF Wrote
        <5>2. reqs'[r].event.list = db'.subs
          BY <2>7, <4>4, <5>1, EventIs DEF Typing
        <5>3. QED
          BY <2>1, <2>2, <5>2 DEF EventIn
      <4>5. CASE q.op = "create"
        BY <2>5, <2>9, <4>5 DEF Wrote, Open
      <4>6. QED
        BY <2>7, <4>1, <4>2, <4>3, <4>4, <4>5, AskIs
    <3>2. reqs'[r].made # NoEvent => reqs'[r].made.sub \in V
      <4>1. CASE q.op \in {"tag", "get"}
        BY <2>5, <2>6, <2>7, <4>1 DEF Wrote, RequestIn
      <4>2. CASE q.op = "create"
        BY <2>5, <2>9, <4>2 DEF Wrote, Open
      <4>3. CASE q.op = "add"
        <5>1. reqs'[r].made = Made(q, Rewritten(q))
          BY <2>5, <4>3 DEF Wrote
        <5>2. reqs'[r].made.sub = NextSub
          BY <2>7, <4>3, <5>1, EventIs DEF Typing
        <5>3. QED
          BY <2>1, <2>2, <4>3, <5>2
      <4>4. CASE q.op \in {"save", "toggle", "rename", "drop", "move", "delete"}
        <5>1. reqs'[r].made = Made(q, Rewritten(q))
          BY <2>5, <4>4 DEF Wrote
        <5>2. QED
          BY <4>4, <5>1 DEF Made
      <4>5. QED
        BY <2>7, <4>1, <4>2, <4>3, <4>4, AskIs
    <3>3. AskIn(reqs'[r].ask, V)
      BY <2>6, <2>7, <2>9 DEF RequestIn
    <3>4. RequestIn(reqs'[r], V)
      BY <3>1, <3>2, <3>3 DEF RequestIn
    <3>5. \A s \in Slots : Open(s)' => RequestIn(reqs'[s], V)
      BY <2>6, <2>7, <3>4 DEF Rest
    <3>6. QED
      BY <2>8, <3>5
  <2>10. CASE ~Open(r)'
    <3>1. \A s \in Slots : Open(s)' => RequestIn(reqs'[s], V)
      BY <2>6, <2>7, <2>10 DEF Rest
    <3>2. QED
      BY <2>8, <3>1
  <2>11. QED
    BY <2>9, <2>10
<1>5. CASE ServerStep /\ \A r \in Slots : ~Write(r)
  <2>1. db' = db
    BY <1>5, ArriveIs DEF ServerStep, ReadSubtasks, Emit, Answered, Forget, Fail, Cut
  <2>2. PICK V : V = db.used
    OBVIOUS
  <2>3. db # Gone /\ DOMAIN db.subs \subseteq V /\ AllIn(V)
    BY <2>1, <2>2 DEF AllUsed
  <2>4. AllIn(V)'
    BY <1>5, <2>3, InServer
  <2>5. QED
    BY <1>1, <2>1, <2>2, <2>3, <2>4
<1>6. QED
  BY <1>2, <1>3, <1>4, <1>5, TwoSides DEF ServerStep
-----------------------------------------------------------------------------
\* What becomes of a deletion: a subtask that is hidden once and not yet dropped, or
\* whose deletion was undone, is in the list.
MyDrop(r, s) ==
  /\ Open(r) /\ reqs[r].pc = "sent"
  /\ reqs[r].ask.op = "drop" /\ reqs[r].ask.by = Me /\ reqs[r].ask.sub = s
Dropped(s) == \E r \in Slots : MyDrop(r, s)
Hidden(s) == \E i \in DOMAIN undo : undo[i].sub = s
Once(s) == \A i \in DOMAIN undo : \A j \in DOMAIN undo :
             undo[i].sub = s /\ undo[j].sub = s => i = j
Fate(s) ==
  /\ s \notin db.used => decided[s] = None
  /\ decided[s] \in {None, "undone"} =>
       ~Hidden(s) /\ ~Dropped(s) /\ (s \in db.used => s \in DOMAIN db.subs)
  /\ decided[s] = "deleted" =>
       Once(s) /\ (Hidden(s) => s \in DOMAIN db.subs /\ ~Dropped(s))
Fates == db # Gone => \A s \in Subs : Fate(s)

\* A request that was sent is a deletion of its own subtask, and of no other.
LEMMA SentDrop ==
  ASSUME Core, NEW r \in Slots, NEW ask \in Asks, Sent(r, ask), NEW s,
         ask.op = "save" => Meant(ask), ~(ask.op = "drop" /\ ask.by = Me /\ ask.sub = s)
  PROVE Dropped(s)' => Dropped(s)
<1>1. Rest(r) /\ reqs'[r].ask = ask
  BY SentIs DEF Core
<1>2. QED
  BY <1>1 DEF Dropped, MyDrop, Rest

\* The tab's steps keep what was decided.
LEMMA FatesLocal == ASSUME Core, AllUsed, Fates, Local PROVE Fates'
<1> SUFFICES ASSUME NEW s \in Subs, db # Gone PROVE Fate(s)'
  <2>1. db' = db
    BY DEF Local, Elsewhere, Still, AsksFor, SavesField, TogglesSub, RenamesSub, HidesSub,
      UndoesSub, Dismisses, DropsSub, MovesCard, DeletesCard
  <2>2. QED
    BY <2>1 DEF Fates
<1>1. Fate(s)
  BY DEF Fates
<1>2. ASSUME db' = db, decided'[s] = decided[s], Hidden(s)' => Hidden(s),
             Once(s) => Once(s)', Dropped(s)' => Dropped(s)
      PROVE Fate(s)'
  BY <1>1, <1>2 DEF Fate
<1>3. ASSUME UNCHANGED <<db, decided, undo>>, NEW r \in Slots, NEW ask \in Asks, Sent(r, ask),
             ask.op = "save" => Meant(ask), ~(ask.op = "drop" /\ ask.by = Me)
      PROVE Fate(s)'
  <2>1. Dropped(s)' => Dropped(s)
    BY <1>3, SentDrop
  <2>2. QED
    BY <1>2, <1>3, <2>1 DEF Hidden, Once
<1>4. CASE Still
  BY <1>2, <1>4 DEF Still, Elsewhere, Hidden, Once, Dropped, MyDrop, Open
<1>5. ASSUME NEW r \in Slots, NEW ask \in Asks, AsksFor(r, ask) PROVE Fate(s)'
  BY <1>3, <1>5 DEF AsksFor, Elsewhere
<1>6. ASSUME NEW r \in Slots, NEW form \in Forms, NEW f \in Fields,
             NEW meant \in BOOLEAN, SavesField(r, form, f, meant)
      PROVE Fate(s)'
  <2>1. PICK ask \in Asks : Sent(r, ask) /\ ask.op = "save" /\ Meant(ask)
    BY <1>6, SaveSent
  <2>2. QED
    BY <1>3, <1>6, <2>1 DEF SavesField, Elsewhere
<1>7. ASSUME NEW r \in Slots, NEW t \in Subs, TogglesSub(r, t) PROVE Fate(s)'
  <2>1. PICK ask \in Asks : Sent(r, ask) /\ ask.op = "toggle"
    BY <1>7, ToggleSent
  <2>2. UNCHANGED <<db, decided, undo>>
    BY <1>7 DEF TogglesSub, Elsewhere
  <2>3. QED
    BY <1>3, <2>1, <2>2
<1>8. ASSUME NEW r \in Slots, NEW t \in Subs, NEW title \in Titles, RenamesSub(r, t, title)
      PROVE Fate(s)'
  <2>1. PICK ask \in Asks : Sent(r, ask) /\ ask.op = "rename"
    BY <1>8, RenameSent
  <2>2. UNCHANGED <<db, decided, undo>>
    BY <1>8 DEF RenamesSub, Elsewhere
  <2>3. QED
    BY <1>3, <2>1, <2>2
<1>9. ASSUME NEW t \in Subs, HidesSub(t) PROVE Fate(s)'
  <2>1. UNCHANGED <<db, reqs>>
        /\ decided' = [decided EXCEPT ![t] = IF @ = None THEN "deleted" ELSE "again"]
    BY <1>9 DEF HidesSub, Elsewhere
  <2>2. /\ undo \in Seq(Deletions) /\ DOMAIN undo = 1 .. Len(undo) /\ Len(undo) \in Nat
        /\ Len(undo') = Len(undo) + 1 /\ DOMAIN undo' = 1 .. Len(undo) + 1
        /\ \A i \in DOMAIN undo : undo'[i] = undo[i]
        /\ undo'[Len(undo) + 1].sub = t
    <3>1. /\ undo' \in Seq(Deletions) /\ Len(undo') = Len(undo) + 1
          /\ \A i \in DOMAIN undo : undo'[i] = undo[i]
          /\ undo'[Len(undo) + 1] = [sub |-> t, toast |-> TRUE]
      BY <1>9, HiddenIs
    <3>2. undo \in Seq(Deletions) /\ DOMAIN undo = 1 .. Len(undo) /\ Len(undo) \in Nat
      BY DEF Core, UndoTypes
    <3>3. DOMAIN undo' = 1 .. Len(undo) + 1
      BY <3>1
    <3>4. QED
      BY <3>1, <3>2, <3>3
  <2>3. decided \in [Subs -> {None, "deleted", "again", "undone", "others"}]
    BY DEF Core, HistoryTypes
  <2>4. Dropped(s)' <=> Dropped(s)
    BY <2>1 DEF Dropped, MyDrop, Open
  <2>5. CASE s # t
    <3>1. decided'[s] = decided[s]
      BY <2>1, <2>3, <2>5
    <3>2. Hidden(s)' => Hidden(s)
      BY <2>2, <2>5 DEF Hidden
    <3>3. Once(s) => Once(s)'
      BY <2>2, <2>5 DEF Once
    <3>4. QED
      BY <1>2, <2>1, <2>4, <3>1, <3>2, <3>3
  <2>6. CASE s = t
    <3>1. s \in db.used
      <4>1. store # Gone /\ HasSub(t)
        BY <1>9, HiddenIs
      <4>2. QED
        BY <2>6, <4>1 DEF HasSub, AllUsed, AllIn, ListIn
    <3>2. CASE decided[s] = None
      <4>1. ~Hidden(s) /\ ~Dropped(s) /\ s \in DOMAIN db.subs
        BY <1>1, <3>1, <3>2 DEF Fate
      <4>2. Once(s)'
        BY <2>2, <4>1 DEF Once, Hidden
      <4>3. decided'[s] = "deleted"
        BY <2>1, <2>3, <2>6, <3>2
      <4>4. QED
        BY <2>1, <2>4, <3>1, <4>1, <4>2, <4>3 DEF Fate, None
    <3>3. CASE decided[s] # None
      <4>1. decided'[s] = "again"
        BY <2>1, <2>3, <2>6, <3>3
      <4>2. QED
        BY <2>1, <3>1, <4>1 DEF Fate, None
    <3>4. QED
      BY <3>2, <3>3
  <2>7. QED
    BY <2>5, <2>6
<1>10. ASSUME NEW r \in Slots, NEW i \in DOMAIN undo, UndoesSub(r, i) PROVE Fate(s)'
  <2>1. /\ db' = db /\ Sent(r, Refetch) /\ undo' = RemoveAt(undo, i)
        /\ decided' = [decided EXCEPT ![undo[i].sub] = IF @ = "deleted" THEN "undone" ELSE @]
    BY <1>10 DEF UndoesSub, Elsewhere
  <2>2. /\ i \in Nat /\ \A j \in DOMAIN undo' : j \in Nat
        /\ \A j \in DOMAIN undo' :
             /\ j < i => j \in DOMAIN undo /\ undo'[j] = undo[j]
             /\ j >= i => j + 1 \in DOMAIN undo /\ undo'[j] = undo[j + 1]
    BY <2>1, RemoveIs DEF Core, UndoTypes
  <2>3. decided \in [Subs -> {None, "deleted", "again", "undone", "others"}]
    BY DEF Core, HistoryTypes
  <2>4. Dropped(s)' => Dropped(s)
    <3>1. Refetch.op # "drop" /\ Refetch.op # "save"
      BY DEF Refetch
    <3>2. QED
      BY <2>1, <3>1, SentDrop, OtherAsks
  <2>5. Hidden(s)' => Hidden(s)
    BY <2>2 DEF Hidden
  <2>6. Once(s) => Once(s)'
    <3> SUFFICES ASSUME Once(s), NEW j \in DOMAIN undo', NEW k \in DOMAIN undo',
                        undo'[j].sub = s, undo'[k].sub = s
                 PROVE j = k
      BY DEF Once
    <3> DEFINE a == IF j < i THEN j ELSE j + 1
               b == IF k < i THEN k ELSE k + 1
    <3>1. j \in Nat /\ k \in Nat /\ i \in Nat
      BY <2>2
    <3>2. a \in DOMAIN undo /\ undo[a].sub = s /\ b \in DOMAIN undo /\ undo[b].sub = s
      BY <2>2, <3>1
    <3>3. a = b
      BY <3>2 DEF Once
    <3>4. QED
      BY <3>1, <3>3
  <2>7. CASE s # undo[i].sub \/ decided[s] # "deleted"
    <3>1. decided'[s] = decided[s]
      BY <2>1, <2>3, <2>7
    <3>2. QED
      BY <1>2, <2>1, <2>4, <2>5, <2>6, <3>1
  <2>8. CASE s = undo[i].sub /\ decided[s] = "deleted"
    <3>1. decided'[s] = "undone"
      BY <2>1, <2>3, <2>8
    <3>2. Hidden(s) /\ Once(s) /\ s \in DOMAIN db.subs /\ ~Dropped(s)
          /\ (s \notin db.used => decided[s] = None)
      BY <1>1, <1>10, <2>8 DEF Fate, Hidden
    <3>3. ~Hidden(s)'
      <4> SUFFICES ASSUME NEW j \in DOMAIN undo', undo'[j].sub = s PROVE FALSE
        BY DEF Hidden
      <4> DEFINE a == IF j < i THEN j ELSE j + 1
      <4>1. j \in Nat /\ i \in Nat
        BY <2>2
      <4>2. a \in DOMAIN undo /\ undo[a].sub = s /\ a # i
        BY <2>2, <4>1
      <4>3. QED
        BY <1>10, <2>8, <3>2, <4>2 DEF Once
    <3>4. s \in db.used
      BY <2>8, <3>2 DEF None
    <3>5. QED
      BY <2>1, <2>4, <3>1, <3>2, <3>3, <3>4 DEF Fate
  <2>9. QED
    BY <2>7, <2>8
<1>11. ASSUME NEW i \in DOMAIN undo, Dismisses(i) PROVE Fate(s)'
  <2>1. UNCHANGED <<db, reqs, decided>>
    BY <1>11 DEF Dismisses, Elsewhere
  <2>2. DOMAIN undo' = DOMAIN undo /\ \A j \in DOMAIN undo : undo'[j].sub = undo[j].sub
    BY <1>11, DismissIs
  <2>3. (Hidden(s)' => Hidden(s)) /\ (Once(s) => Once(s)') /\ (Dropped(s)' => Dropped(s))
    BY <2>1, <2>2 DEF Hidden, Once, Dropped, MyDrop, Open
  <2>4. QED
    BY <1>2, <2>1, <2>3
<1>12. ASSUME NEW r \in Slots, DropsSub(r) PROVE Fate(s)'
  <2>1. /\ Len(undo) \in Nat /\ Len(undo) > 0 /\ DOMAIN undo = 1 .. Len(undo)
        /\ DOMAIN undo' = 1 .. Len(undo) - 1
        /\ \A i \in DOMAIN undo' : i + 1 \in DOMAIN undo /\ undo'[i] = undo[i + 1]
    BY <1>12, DropSent
  <2>2. PICK ask \in Asks :
          Sent(r, ask) /\ ask.op = "drop" /\ ask.by = Me /\ ask.sub = undo[1].sub
    BY <1>12, DropSent
  <2>3. UNCHANGED <<db, decided>>
    BY <1>12 DEF DropsSub, Elsewhere
  <2>4. Hidden(s)' => Hidden(s)
    BY <2>1 DEF Hidden
  <2>5. Once(s) => Once(s)'
    <3> SUFFICES ASSUME Once(s), NEW j \in DOMAIN undo', NEW k \in DOMAIN undo',
                        undo'[j].sub = s, undo'[k].sub = s
                 PROVE j = k
      BY DEF Once
    <3>1. j \in Nat /\ k \in Nat
      BY <2>1
    <3>2. j + 1 \in DOMAIN undo /\ k + 1 \in DOMAIN undo
          /\ undo[j + 1].sub = s /\ undo[k + 1].sub = s
      BY <2>1
    <3>3. j + 1 = k + 1
      BY <3>2 DEF Once
    <3>4. QED
      BY <3>1, <3>3
  <2>6. CASE s # undo[1].sub
    <3>1. Dropped(s)' => Dropped(s)
      BY <2>2, <2>6, SentDrop
    <3>2. QED
      BY <1>2, <2>3, <2>4, <2>5, <3>1
  <2>7. CASE s = undo[1].sub
    <3>1. 1 \in DOMAIN undo /\ Hidden(s)
      BY <2>1, <2>7 DEF Hidden
    <3>2. decided[s] \notin {None, "undone"}
      BY <1>1, <3>1 DEF Fate
    <3>3. Once(s) => ~Hidden(s)'
      <4> SUFFICES ASSUME Once(s), NEW j \in DOMAIN undo', undo'[j].sub = s PROVE FALSE
        BY DEF Hidden
      <4>1. j \in Nat /\ j > 0 /\ j + 1 \in DOMAIN undo /\ undo[j + 1].sub = s
        BY <2>1
      <4>2. j + 1 = 1
        BY <2>7, <3>1, <4>1 DEF Once
      <4>3. QED
        BY <4>1, <4>2
    <3>4. QED
      BY <1>1, <2>3, <2>5, <3>2, <3>3 DEF Fate
  <2>8. QED
    BY <2>6, <2>7
<1>13. ASSUME NEW r \in Slots, NEW to \in Columns, MovesCard(r, to) PROVE Fate(s)'
  <2>1. PICK ask \in Asks : Sent(r, ask) /\ ask.op = "move"
    BY <1>13, MoveSent
  <2>2. QED
    BY <1>3, <1>13, <2>1 DEF MovesCard, Elsewhere
<1>14. ASSUME NEW r \in Slots, DeletesCard(r) PROVE Fate(s)'
  <2>1. PICK ask \in Asks : Sent(r, ask) /\ ask.op = "delete"
    BY <1>14, DeleteSent
  <2>2. QED
    BY <1>3, <1>14, <2>1 DEF DeletesCard, Elsewhere
<1>15. QED
  BY <1>4, <1>5, <1>6, <1>7, <1>8, <1>9, <1>10, <1>11, <1>12, <1>13, <1>14 DEF Local

\* On the server's side a deletion of the tab's does not come back.
LEMMA ServerDrop ==
  ASSUME Typing, ServerStep, NEW s PROVE Dropped(s)' => Dropped(s)
<1> SUFFICES ASSUME NEW r \in Slots, MyDrop(r, s)' PROVE Dropped(s)
  BY DEF Dropped
<1>1. Open(r)' /\ reqs'[r].pc = "sent" /\ reqs'[r].ask.op = "drop" /\ reqs'[r].ask.by = Me
      /\ reqs'[r].ask.sub = s
  BY DEF MyDrop
<1>2. Open(r) /\ reqs'[r].ask = reqs[r].ask
  <2>1. Refetch.op # "drop"
    BY DEF Refetch
  <2>2. QED
    BY <1>1, <2>1, ServerAsks
<1>3. ASSUME reqs[r].pc = "sent" PROVE Dropped(s)
  BY <1>1, <1>2, <1>3 DEF Dropped, MyDrop
<1>4. ASSUME reqs'[r] = reqs[r] PROVE Dropped(s)
  BY <1>1, <1>3, <1>4
<1>5. CASE applyWsMessage
  BY <1>4, <1>5, ArriveIs
<1>6. ASSUME NEW t \in Slots, Rest(t), t # r PROVE Dropped(s)
  BY <1>4, <1>6 DEF Rest
<1>7. ASSUME NEW t \in Slots, Write(t) PROVE Dropped(s)
  <2>1. Wrote(t)
    BY <1>7, WriteIs DEF Typing
  <2>2. QED
    BY <1>3, <1>6, <2>1 DEF Wrote
<1>8. ASSUME NEW t \in Slots, ReadSubtasks(t) \/ Emit(t) PROVE Dropped(s)
  <2>1. Rest(t) /\ (reqs'[t].pc # "sent" \/ ~Open(t)')
    BY <1>8, ReadIs, EmitIs DEF Typing
  <2>2. QED
    BY <1>1, <1>6, <2>1
<1>9. ASSUME NEW t \in Slots, Answered(t) \/ Forget(t) PROVE Dropped(s)
  <2>1. Rest(t) /\ ~Open(t)'
    BY <1>9, AnswerIs, LeaveIs DEF Typing, Forget
  <2>2. QED
    BY <1>1, <1>6, <2>1
<1>10. ASSUME NEW t \in Slots, Fail(t) PROVE Dropped(s)
  BY <1>3, <1>6, <1>10, FailIs
<1>11. ASSUME NEW t \in Slots, Cut(t) PROVE Dropped(s)
  <2>1. reqs[t].pc = "sent" /\ (~LooksUp(reqs[t].ask) => Rest(t))
        /\ (LooksUp(reqs[t].ask) =>
              \E x \in Slots \ {t} :
               /\ ~Open(x) /\ \A u \in Slots \ {t, x} : reqs'[u] = reqs[u])
    BY <1>11, CutIs
  <2>2. QED
    BY <1>2, <1>3, <1>4, <1>6, <2>1
<1>12. QED
  BY <1>5, <1>7, <1>8, <1>9, <1>10, <1>11 DEF ServerStep

\* The server's steps keep what was decided.
LEMMA FatesServer == ASSUME Typing, AllUsed, Fates, ServerStep PROVE Fates'
<1>1. UNCHANGED undo
  BY ArriveIs DEF ServerStep, Write, ReadSubtasks, Emit, Answered, Forget, Fail, Cut
<1>2. CASE \A r \in Slots : ~Write(r)
  <2>1. UNCHANGED <<db, decided>>
    BY <1>2, ArriveIs DEF ServerStep, ReadSubtasks, Emit, Answered, Forget, Fail, Cut, history
  <2>2. ASSUME db # Gone, NEW s \in Subs PROVE Fate(s)'
    <3>1. Fate(s) /\ (Dropped(s)' => Dropped(s))
      BY <2>2, ServerDrop DEF Fates
    <3>2. QED
      BY <1>1, <2>1, <3>1 DEF Fate, Hidden, Once
  <2>3. QED
    BY <2>1, <2>2 DEF Fates
<1>3. ASSUME NEW r \in Slots, Write(r) PROVE Fates'
  <2> DEFINE q == reqs[r].ask
  <2>1. Wrote(r) /\ Open(r) /\ reqs[r].pc = "sent" /\ q \in Asks
    BY <1>3, WriteIs DEF Typing, Wrote
  <2>2. decided' = IF q.op = "drop" /\ q.by = None
                   THEN [decided EXCEPT ![q.sub] = "others"] ELSE decided
    BY <1>3 DEF Write
  <2>3. decided \in [Subs -> {None, "deleted", "again", "undone", "others"}]
    BY DEF Typing, Core, HistoryTypes
  <2> SUFFICES ASSUME db' # Gone, NEW s \in Subs PROVE Fate(s)'
    BY DEF Fates
  <2>4. /\ db # Gone /\ db.used \subseteq db'.used /\ DOMAIN db'.subs \subseteq db'.used
        /\ q.op = "add" =>
             /\ NextSub \in Subs \ db.used /\ db'.used = db.used \cup {NextSub}
             /\ DOMAIN db'.subs = DOMAIN db.subs \cup {NextSub}
        /\ q.op # "add" => db'.used = db.used
        /\ q.op \notin {"add", "drop"} => DOMAIN db'.subs = DOMAIN db.subs
        /\ q.op = "drop" => DOMAIN db'.subs = DOMAIN db.subs \ {q.sub}
    BY <1>3, WriteIn
  <2>5. Fate(s) /\ (Dropped(s)' => Dropped(s))
    BY <1>3, <2>4, ServerDrop DEF Fates, ServerStep
  <2>6. (Hidden(s)' <=> Hidden(s)) /\ (Once(s)' <=> Once(s))
    BY <1>1 DEF Hidden, Once
  <2>7. CASE q.op \notin {"add", "drop"}
    BY <2>2, <2>4, <2>5, <2>6, <2>7 DEF Fate
  <2>8. CASE q.op = "add"
    <3>1. decided' = decided
      BY <2>2, <2>8
    <3>2. CASE s # NextSub
      BY <2>4, <2>5, <2>6, <2>8, <3>1, <3>2 DEF Fate
    <3>3. CASE s = NextSub
      <4>1. decided[s] = None /\ ~Hidden(s) /\ ~Dropped(s) /\ s \in DOMAIN db'.subs
        BY <2>4, <2>5, <2>8, <3>3 DEF Fate
      <4>2. QED
        BY <2>4, <2>5, <2>6, <3>1, <3>3, <4>1, <2>8 DEF Fate, None
    <3>4. QED
      BY <3>2, <3>3
  <2>9. CASE q.op = "drop" /\ s # q.sub
    <3>1. decided'[s] = decided[s]
      BY <2>2, <2>3, <2>9
    <3>2. QED
      BY <2>4, <2>5, <2>6, <2>9, <3>1 DEF Fate
  <2>10. CASE q.op = "drop" /\ s = q.sub
    <3>1. s \in db.used
      BY <2>1, <2>4, <2>10 DEF AllUsed, AllIn, RequestIn, AskIn
    <3>2. CASE q.by = None
      <4>1. decided'[s] = "others"
        BY <2>2, <2>3, <2>10, <3>2
      <4>2. QED
        BY <2>4, <3>1, <4>1 DEF Fate, None
    <3>3. CASE q.by = Me
      <4>1. Dropped(s)
        BY <2>1, <2>10, <3>3 DEF Dropped, MyDrop
      <4>2. decided[s] \notin {None, "undone"} /\ (decided[s] = "deleted" => ~Hidden(s))
        BY <2>5, <4>1 DEF Fate
      <4>3. decided' = decided
        BY <2>2, <3>3, Plain
      <4>4. QED
        BY <2>4, <2>5, <2>6, <3>1, <4>2, <4>3 DEF Fate
    <3>4. QED
      BY <2>1, <3>2, <3>3, AskIs DEF People
  <2>11. QED
    BY <2>7, <2>8, <2>9, <2>10
<1>4. QED
  BY <1>2, <1>3

\* Every step keeps what was decided.
LEMMA FatesStep == Typing /\ AllUsed /\ Fates /\ [Next]_vars => Fates'
<1>1. ASSUME Fates, UNCHANGED vars PROVE Fates'
  BY <1>1 DEF vars, history, Fates, Fate, Hidden, Once, Dropped, MyDrop, Open
<1>2. QED
  BY <1>1, FatesLocal, FatesServer, UserSteps, TwoSides DEF Kept, Typing

\* A deletion that was undone left the subtask in the list.
LEMMA FatesAreKept == Fates => UndoneDeletionsStay
BY DEF Fates, Fate, UndoneDeletionsStay, None
-----------------------------------------------------------------------------
\* What is written and not yet broadcast.
Unsaid(r) == Open(r) /\ reqs[r].pc = "written"

\* Sending leaves what is under way as it is.
LEMMA SentKeeps ==
  ASSUME Core, NEW r \in Slots, NEW ask \in Asks, Sent(r, ask),
         ask.op = "save" => Meant(ask)
  PROVE /\ \A t \in Slots : Open(t) /\ reqs[t].ask.op # "tag" => Open(t)' /\ reqs'[t] = reqs[t]
        /\ \A t \in Slots : Unsaid(t)' => Unsaid(t) /\ reqs'[t] = reqs[t]
        /\ \A t \in Slots : Unsaid(t) => Unsaid(t)' /\ reqs'[t] = reqs[t]
        /\ \A t \in Slots : Waiting(t)' => (Waiting(t) /\ reqs'[t] = reqs[t]) \/ t = r
        /\ Open(r)' /\ reqs'[r].pc = "sent" /\ reqs'[r].ask = ask
        /\ reqs'[r].waits = (ask.by = Me) /\ reqs'[r].event = NoEvent
        /\ reqs'[r].made = NoEvent
        /\ \A t \in Slots \ {r} : reqs'[t] = reqs[t] /\ (Open(t)' <=> Open(t))
<1>1. /\ Rest(r) /\ Open(r)' /\ reqs'[r].pc = "sent" /\ reqs'[r].ask = ask
      /\ reqs'[r].waits = (ask.by = Me) /\ reqs'[r].event = NoEvent
      /\ reqs'[r].made = NoEvent
      /\ Open(r) => reqs[r].pc = "answered" /\ reqs[r].ask.op = "tag"
  BY SentIs DEF Core
<1>2. ~Unsaid(r) /\ ~Unsaid(r)'
  BY <1>1 DEF Unsaid
<1>3. \A t \in Slots \ {r} : reqs'[t] = reqs[t] /\ (Open(t)' <=> Open(t))
  BY <1>1 DEF Rest
<1>4. \A t \in Slots \ {r} : (Unsaid(t)' <=> Unsaid(t)) /\ (Waiting(t)' <=> Waiting(t))
  BY <1>3 DEF Unsaid, Waiting
<1>5. QED
  BY <1>1, <1>2, <1>3, <1>4

\* A broadcast keeps its kind: that of the list is read again until it is sent.
SameNews(e, d) ==
  d = e \/ (e.kind = "subtasks" /\ db # Gone /\ d = ListEvent(db))

\* What is unsaid stays so until it is broadcast.
LEMMA UnsaidServer ==
  ASSUME Typing, ServerStep, \A r \in Slots : ~Write(r), NEW t \in Slots
  PROVE /\ Unsaid(t)' => Unsaid(t) /\ SameNews(reqs[t].event, reqs'[t].event)
        /\ Unsaid(t) => \/ Unsaid(t)' /\ SameNews(reqs[t].event, reqs'[t].event)
                        \/ inbox' = Append(inbox, reqs[t].event)
<1> DEFINE Goal == /\ Unsaid(t)' => Unsaid(t) /\ SameNews(reqs[t].event, reqs'[t].event)
                   /\ Unsaid(t) => \/ Unsaid(t)' /\ SameNews(reqs[t].event, reqs'[t].event)
                                   \/ inbox' = Append(inbox, reqs[t].event)
<1>1. ASSUME reqs'[t] = reqs[t], Open(t)' <=> Open(t) PROVE Goal
  BY <1>1 DEF Unsaid, SameNews
<1>2. ASSUME ~Unsaid(t), ~Unsaid(t)' PROVE Goal
  BY <1>2
<1>3. ASSUME NEW r \in Slots, Rest(r), r # t PROVE Goal
  BY <1>1, <1>3 DEF Rest
<1>4. CASE applyWsMessage
  BY <1>1, <1>4, ArriveIs DEF Open
<1>5. ASSUME NEW r \in Slots, ReadSubtasks(r) PROVE Goal
  <2>1. /\ Rest(r) /\ reqs[r].event.kind = "subtasks" /\ Open(r) /\ Open(r)' /\ db # Gone
        /\ reqs[r].pc = "written" /\ reqs'[r].pc = "written"
        /\ reqs'[r].event = ListEvent(db)
    BY <1>5, ReadIs DEF Typing
  <2>2. QED
    BY <1>3, <2>1 DEF Unsaid, SameNews
<1>6. ASSUME NEW r \in Slots, Emit(r) PROVE Goal
  <2>1. /\ Rest(r) /\ inbox' = Append(inbox, reqs[r].event)
        /\ ~Open(r)' \/ reqs'[r].pc = "answered"
    BY <1>6, EmitIs DEF Typing
  <2>2. ~Unsaid(r)'
    BY <2>1 DEF Unsaid
  <2>3. QED
    BY <1>3, <2>1, <2>2
<1>7. ASSUME NEW r \in Slots, Rest(r), ~Unsaid(r), ~Open(r)' \/ reqs'[r].pc = "sent" PROVE Goal
  <2>1. ~Unsaid(r)'
    BY <1>7 DEF Unsaid
  <2>2. QED
    BY <1>2, <1>3, <1>7, <2>1
<1>8. ASSUME NEW r \in Slots, Answered(r) PROVE Goal
  BY <1>7, <1>8, AnswerIs DEF Unsaid
<1>9. ASSUME NEW r \in Slots, Forget(r) PROVE Goal
  BY <1>7, <1>9, LeaveIs DEF Forget, Unsaid, Typing
<1>10. ASSUME NEW r \in Slots, Fail(r) PROVE Goal
  <2>1. Rest(r) /\ reqs[r].pc = "sent"
        /\ (~Open(r)' \/ reqs'[r] = Request(Refetch))
    BY <1>10, FailIs
  <2>2. Request(Refetch).pc = "sent"
    BY DEF Request
  <2>3. QED
    BY <1>7, <2>1, <2>2 DEF Unsaid
<1>11. ASSUME NEW r \in Slots, Cut(r) PROVE Goal
  <2>1. /\ Open(r) /\ reqs[r].pc = "sent" /\ reqs'[r].pc = "sent"
        /\ (~LooksUp(reqs[r].ask) => Rest(r))
        /\ (LooksUp(reqs[r].ask) =>
              \E x \in Slots \ {r} :
               /\ ~Open(x) /\ reqs'[x] = Request(Refetch)
               /\ \A s \in Slots \ {r, x} : reqs'[s] = reqs[s] /\ (Open(s)' <=> Open(s)))
    BY <1>11, CutIs
  <2>2. CASE ~LooksUp(reqs[r].ask)
    BY <1>7, <2>1, <2>2 DEF Unsaid
  <2>3. CASE LooksUp(reqs[r].ask)
    <3>1. PICK x \in Slots \ {r} :
               /\ ~Open(x) /\ reqs'[x] = Request(Refetch)
               /\ \A s \in Slots \ {r, x} : reqs'[s] = reqs[s] /\ (Open(s)' <=> Open(s))
      BY <2>1, <2>3
    <3>2. Request(Refetch).pc = "sent"
      BY DEF Request
    <3>3. /\ ~Unsaid(x) /\ ~Unsaid(x)' /\ ~Unsaid(r) /\ ~Unsaid(r)'
      BY <2>1, <3>1, <3>2 DEF Unsaid
    <3>4. QED
      BY <1>1, <1>2, <3>1, <3>3
  <2>4. QED
    BY <2>2, <2>3
<1>12. QED
  BY <1>4, <1>5, <1>6, <1>8, <1>9, <1>10, <1>11 DEF ServerStep

\* A request waits until it is written, fails or is given up.
LEMMA WaitingServer ==
  ASSUME Typing, ServerStep, NEW t \in Slots
  PROVE /\ Waiting(t) => (Waiting(t)' /\ reqs'[t] = reqs[t]) \/ Write(t) \/ Fail(t) \/ Cut(t)
        /\ Waiting(t)' => (Waiting(t) /\ reqs'[t].ask = reqs[t].ask) \/ reqs'[t].ask = Refetch
<1> DEFINE Goal ==
      /\ Waiting(t) => (Waiting(t)' /\ reqs'[t] = reqs[t]) \/ Write(t) \/ Fail(t) \/ Cut(t)
      /\ Waiting(t)' => (Waiting(t) /\ reqs'[t].ask = reqs[t].ask) \/ reqs'[t].ask = Refetch
<1>1. ASSUME reqs'[t] = reqs[t], Open(t)' <=> Open(t) PROVE Goal
  BY <1>1 DEF Waiting
<1>2. ASSUME NEW r \in Slots, Rest(r), r # t PROVE Goal
  BY <1>1, <1>2 DEF Rest
<1>3. ASSUME ~Waiting(t), ~Waiting(t)' PROVE Goal
  BY <1>3
<1>4. CASE applyWsMessage
  BY <1>1, <1>4, ArriveIs DEF Open
<1>5. ASSUME NEW r \in Slots, Write(r) PROVE Goal
  <2>1. Wrote(r)
    BY <1>5, WriteIs DEF Typing
  <2>2. ~Waiting(r)' /\ Rest(r)
    BY <2>1 DEF Wrote, Waiting, Open
  <2>3. QED
    BY <1>2, <1>5, <2>2
<1>6. ASSUME NEW r \in Slots, Rest(r), ~Waiting(r), ~Waiting(r)' PROVE Goal
  BY <1>2, <1>3, <1>6
<1>7. ASSUME NEW r \in Slots, ReadSubtasks(r) PROVE Goal
  BY <1>6, <1>7, ReadIs DEF Typing, Waiting
<1>8. ASSUME NEW r \in Slots, Emit(r) PROVE Goal
  BY <1>6, <1>8, EmitIs DEF Typing, Waiting
<1>9. ASSUME NEW r \in Slots, Answered(r) PROVE Goal
  BY <1>6, <1>9, AnswerIs DEF Waiting
<1>10. ASSUME NEW r \in Slots, Forget(r) PROVE Goal
  BY <1>6, <1>10, LeaveIs DEF Forget, Waiting, Typing
<1>11. Request(Refetch).ask = Refetch
  BY DEF Request
<1>12. ASSUME NEW r \in Slots, Fail(r) PROVE Goal
  <2>1. Rest(r) /\ (~Open(r)' \/ reqs'[r] = Request(Refetch))
    BY <1>12, FailIs
  <2>2. Waiting(r)' => reqs'[r].ask = Refetch
    BY <1>11, <2>1 DEF Waiting
  <2>3. QED
    BY <1>2, <1>12, <2>1, <2>2
<1>13. ASSUME NEW r \in Slots, Cut(r) PROVE Goal
  <2>1. /\ ~reqs'[r].waits
        /\ (~LooksUp(reqs[r].ask) => Rest(r))
        /\ (LooksUp(reqs[r].ask) =>
              \E x \in Slots \ {r} :
               /\ ~Open(x) /\ reqs'[x] = Request(Refetch)
               /\ \A s \in Slots \ {r, x} : reqs'[s] = reqs[s] /\ (Open(s)' <=> Open(s)))
    BY <1>13, CutIs
  <2>2. ~Waiting(r)'
    BY <2>1 DEF Waiting
  <2>3. CASE t = r
    BY <1>13, <2>2, <2>3
  <2>4. CASE t # r /\ ~LooksUp(reqs[r].ask)
    BY <1>2, <2>1, <2>4
  <2>5. CASE t # r /\ LooksUp(reqs[r].ask)
    <3>1. PICK x \in Slots \ {r} :
               /\ ~Open(x) /\ reqs'[x] = Request(Refetch)
               /\ \A s \in Slots \ {r, x} : reqs'[s] = reqs[s] /\ (Open(s)' <=> Open(s))
      BY <2>1, <2>5
    <3>2. ~Waiting(x) /\ reqs'[x].ask = Refetch
      BY <1>11, <3>1 DEF Waiting
    <3>3. QED
      BY <1>1, <2>5, <3>1, <3>2
  <2>6. QED
    BY <2>3, <2>4, <2>5
<1>14. QED
  BY <1>4, <1>5, <1>7, <1>8, <1>9, <1>10, <1>12, <1>13 DEF ServerStep

\* What a write leaves to say.
LEMMA WriteUnsaid ==
  ASSUME Typing, NEW r \in Slots, Write(r), NEW t \in Slots
  PROVE /\ t # r => /\ (Unsaid(t)' <=> Unsaid(t)) /\ (Open(t)' <=> Open(t))
                    /\ reqs'[t] = reqs[t]
        /\ ~Unsaid(r) /\ ~Waiting(r)'
        /\ Unsaid(r)' => /\ reqs[r].ask.op \notin {"create", "tag", "get"}
                         /\ reqs'[r].event = Event(reqs[r].ask, Rewritten(reqs[r].ask))
        /\ reqs[r].ask.op \notin {"create", "tag", "get"} => Unsaid(r)'
<1>1. Wrote(r)
  BY WriteIs DEF Typing
<1>2. t # r => reqs'[t] = reqs[t] /\ (Open(t)' <=> Open(t))
  BY <1>1 DEF Wrote, Rest
<1>3. ~Unsaid(r) /\ ~Waiting(r)'
  BY <1>1 DEF Wrote, Unsaid, Waiting, Open
<1>4. CASE reqs[r].ask.op = "create"
  BY <1>1, <1>2, <1>3, <1>4 DEF Wrote, Unsaid, Open
<1>5. CASE reqs[r].ask.op \in {"tag", "get"}
  BY <1>1, <1>2, <1>3, <1>5 DEF Wrote, Unsaid
<1>6. CASE reqs[r].ask.op \notin {"create", "tag", "get"}
  BY <1>1, <1>2, <1>3, <1>6 DEF Wrote, Unsaid
<1>7. QED
  BY <1>4, <1>5, <1>6
-----------------------------------------------------------------------------
\* What this tab hears of the row: nothing newer than the row, and the row itself as
\* long as it has not heard of it.
TellsRow(e, row) ==
  e.kind = "card" => e.ver <= row.ver /\ (e.ver = row.ver => e.fields = row.fields)
SaysRow(e, row) == e.kind = "card" /\ e.ver = row.ver
RowComing(row) ==
  \/ \E i \in DOMAIN inbox : SaysRow(inbox[i], row)
  \/ \E r \in Slots : Unsaid(r) /\ SaysRow(reqs[r].event, row)
RowNewsOf(row) ==
  /\ heard.row <= row.ver
  /\ \A i \in DOMAIN inbox : TellsRow(inbox[i], row)
  /\ \A r \in Slots : Unsaid(r) => TellsRow(reqs[r].event, row)
  /\ heard.row < row.ver => RowComing(row)
RowNews == db # Gone => RowNewsOf(db)
Saves(r, f) == Waiting(r) /\ reqs[r].ask.op = "save" /\ reqs[r].ask.field = f
Saving(f) == \E r \in Slots : Saves(r, f)
RowShown ==
  db # Gone /\ store # Gone =>
    \A f \in Fields \ doubt : store.fields[f] = db.fields[f] \/ heard.row < db.ver \/ Saving(f)

\* The tab's steps change what is shown and what is being saved, and no news.
LEMMA RowLocal == ASSUME Core, RowNews, RowShown, Local PROVE RowNews' /\ RowShown'
<1>1. UNCHANGED <<db, inbox, heard, doubt>>
  BY DEF Local, Elsewhere, Still, AsksFor, SavesField, TogglesSub, RenamesSub, HidesSub,
    UndoesSub, Dismisses, DropsSub, MovesCard, DeletesCard
<1>2. ASSUME \A r \in Slots : Unsaid(r)' => Unsaid(r) /\ reqs'[r] = reqs[r],
             \A r \in Slots : Unsaid(r) => Unsaid(r)' /\ reqs'[r] = reqs[r]
      PROVE RowNews'
  <2>1. ASSUME NEW row, RowNewsOf(row) PROVE RowNewsOf(row)'
    BY <1>1, <1>2, <2>1 DEF RowNewsOf, RowComing, TellsRow, SaysRow
  <2>2. PICK row : row = db
    OBVIOUS
  <2>3. QED
    BY <1>1, <2>1, <2>2 DEF RowNews, RowNewsOf, RowComing, TellsRow, SaysRow
<1>3. ASSUME \A f \in Fields : Saving(f) => Saving(f)',
             store' # Gone /\ store # Gone =>
               \A f \in Fields : store'.fields[f] = store.fields[f] \/ Saving(f)',
             store' # Gone => store # Gone
      PROVE RowShown'
  BY <1>1, <1>3 DEF RowShown
<1>4. ASSUME UNCHANGED reqs, store' # Gone => store # Gone /\ store'.fields = store.fields
      PROVE RowNews' /\ RowShown'
  <2>1. \A f \in Fields : Saving(f) => Saving(f)'
    BY <1>4 DEF Saving, Saves, Waiting, Open
  <2>2. \A r \in Slots : (Unsaid(r)' <=> Unsaid(r)) /\ reqs'[r] = reqs[r]
    BY <1>4 DEF Unsaid, Open
  <2>3. QED
    BY <1>2, <1>3, <1>4, <2>1, <2>2
<1>5. ASSUME NEW r \in Slots, NEW ask \in Asks, Sent(r, ask), ask.op = "save" => Meant(ask)
      PROVE RowNews' /\ \A f \in Fields : Saving(f) => Saving(f)'
  <2>1. RowNews'
    BY <1>2, <1>5, SentKeeps
  <2>2. ASSUME NEW f \in Fields, NEW t \in Slots, Saves(t, f) PROVE Saving(f)'
    <3>1. Open(t) /\ reqs[t].ask.op = "save"
      BY <2>2 DEF Saves, Waiting
    <3>2. Open(t)' /\ reqs'[t] = reqs[t]
      BY <1>5, <3>1, SentKeeps
    <3>3. QED
      BY <2>2, <3>2 DEF Saving, Saves, Waiting
  <2>3. QED
    BY <2>1, <2>2 DEF Saving
<1>6. ASSUME NEW r \in Slots, NEW ask \in Asks, Sent(r, ask), ask.op = "save" => Meant(ask),
             store' # Gone => store # Gone /\ store'.fields = store.fields
      PROVE RowNews' /\ RowShown'
  BY <1>3, <1>5, <1>6
<1>7. CASE Still
  BY <1>4, <1>7 DEF Still
<1>8. ASSUME NEW r \in Slots, NEW ask \in Asks, AsksFor(r, ask) PROVE RowNews' /\ RowShown'
  BY <1>6, <1>8 DEF AsksFor
<1>9. ASSUME NEW r \in Slots, NEW form \in Forms, NEW f \in Fields,
             NEW meant \in BOOLEAN, SavesField(r, form, f, meant)
      PROVE RowNews' /\ RowShown'
  <2>1. PICK ask \in Asks : /\ Sent(r, ask) /\ ask.op = "save" /\ ask.by = Me
                            /\ ask.field = f /\ Meant(ask)
    BY <1>9, SaveSent
  <2>2. RowNews' /\ \A g \in Fields : Saving(g) => Saving(g)'
    BY <1>5, <2>1
  <2>3. Saving(f)'
    <3>1. Open(r)' /\ reqs'[r].pc = "sent" /\ reqs'[r].ask = ask
      BY <2>1, SentKeeps
    <3>2. reqs'[r].waits = (ask.by = Me)
      BY <2>1, SentKeeps
    <3>3. reqs'[r].waits
      BY <2>1, <3>2
    <3>4. QED
      BY <2>1, <3>1, <3>3 DEF Saving, Saves, Waiting
  <2>4. /\ (store' = Gone) <=> (store = Gone)
        /\ store # Gone => \A g \in Fields : g # f => store'.fields[g] = store.fields[g]
    BY <1>9, SavedIs
  <2>5. QED
    BY <1>3, <2>2, <2>3, <2>4
<1>10. ASSUME NEW r \in Slots, NEW s \in Subs, TogglesSub(r, s) PROVE RowNews' /\ RowShown'
  <2>1. PICK ask \in Asks : Sent(r, ask) /\ ask.op = "toggle"
    BY <1>10, ToggleSent
  <2>2. store # Gone /\ store'.fields = store.fields
    BY <1>10, ToggledIs
  <2>3. QED
    BY <1>6, <2>1, <2>2
<1>11. ASSUME NEW r \in Slots, NEW s \in Subs, NEW title \in Titles, RenamesSub(r, s, title)
       PROVE RowNews' /\ RowShown'
  <2>1. PICK ask \in Asks : Sent(r, ask) /\ ask.op = "rename"
    BY <1>11, RenameSent
  <2>2. store # Gone /\ store'.fields = store.fields
    BY <1>11, RenamedIs
  <2>3. QED
    BY <1>6, <2>1, <2>2
<1>12. ASSUME NEW s \in Subs, HidesSub(s) PROVE RowNews' /\ RowShown'
  BY <1>4, <1>12, HiddenIs DEF HidesSub
<1>13. ASSUME NEW r \in Slots, NEW i \in DOMAIN undo, UndoesSub(r, i) PROVE RowNews' /\ RowShown'
  BY <1>6, <1>13, OtherAsks DEF UndoesSub
<1>14. ASSUME NEW i \in DOMAIN undo, Dismisses(i) PROVE RowNews' /\ RowShown'
  BY <1>4, <1>14 DEF Dismisses
<1>15. ASSUME NEW r \in Slots, DropsSub(r) PROVE RowNews' /\ RowShown'
  <2>1. PICK ask \in Asks : Sent(r, ask) /\ ask.op = "drop"
    BY <1>15, DropSent
  <2>2. QED
    BY <1>6, <1>15, <2>1 DEF DropsSub
<1>16. ASSUME NEW r \in Slots, NEW to \in Columns, MovesCard(r, to) PROVE RowNews' /\ RowShown'
  <2>1. PICK ask \in Asks : Sent(r, ask) /\ ask.op = "move"
    BY <1>16, MoveSent
  <2>2. QED
    BY <1>6, <1>16, <2>1, MoveSent
<1>17. ASSUME NEW r \in Slots, DeletesCard(r) PROVE RowNews' /\ RowShown'
  <2>1. PICK ask \in Asks : Sent(r, ask) /\ ask.op = "delete"
    BY <1>17, DeleteSent
  <2>2. QED
    BY <1>6, <1>17, <2>1, DeleteSent
<1>18. QED
  BY <1>7, <1>8, <1>9, <1>10, <1>11, <1>12, <1>13, <1>14, <1>15, <1>16, <1>17 DEF Local

\* A write of a field is told with the row it made; any other leaves the row.
LEMMA RowWrite ==
  ASSUME Typing, RowNews, RowShown, NEW r \in Slots, Write(r) PROVE RowNews' /\ RowShown'
<1> DEFINE q == reqs[r].ask
           row == Rewritten(q)
<1>1. q \in Asks /\ ~Refused(q) /\ db' = row
  BY WriteIs DEF Typing, Wrote
<1>2. UNCHANGED <<store, inbox, heard, doubt>>
  BY DEF Write
<1> SUFFICES ASSUME db' # Gone PROVE RowNews' /\ RowShown'
  BY DEF RowNews, RowShown
<1>3. /\ db = Gone => row = Gone
      /\ q.op \in {"get", "tag", "create"} => row = db
      /\ q.op = "delete" => row = Gone
      /\ db # Gone /\ q.op # "delete" => row \in Rows /\ RowAfter(q, row)
  BY <1>1, RowIs DEF Typing
<1>4. db # Gone /\ db \in Rows /\ row \in Rows /\ q.op # "delete" /\ row # Gone
  BY <1>1, <1>3 DEF Typing, Core, DbTypes
<1>5. RowNewsOf(db) /\ heard \in [row : Nat, list : Nat] /\ db.ver \in Nat
  BY <1>4 DEF RowNews, Typing, Core, HistoryTypes, Rows
<1>6. \A t \in Slots : /\ t # r => /\ (Unsaid(t)' <=> Unsaid(t)) /\ (Open(t)' <=> Open(t))
                                   /\ reqs'[t] = reqs[t]
                       /\ ~Unsaid(r)
                       /\ Unsaid(r)' => q.op \notin {"create", "tag", "get"}
                                        /\ reqs'[r].event = Event(q, row)
                       /\ q.op \notin {"create", "tag", "get"} => Unsaid(r)'
  BY WriteUnsaid
<1>7. inbox \in Seq(Events) /\ \A t \in Slots : Unsaid(t) => reqs[t].event \in Events
  BY OpenIs DEF Typing, Core, InboxTypes, WholeReqs, Whole, Unsaid, Requests
<1>8. /\ \A i \in DOMAIN inbox : inbox[i].kind = "card" => inbox[i].ver \in Nat
      /\ \A t \in Slots : Unsaid(t) /\ reqs[t].event.kind = "card" => reqs[t].event.ver \in Nat
  BY <1>7, KindIs
<1>9. CASE q.op = "save"
  <2>1. row.ver = db.ver + 1 /\ row.ver \in Nat
    BY <1>3, <1>4, <1>9 DEF RowAfter, Rows
  <2>2. /\ Event(q, row).kind = "card" /\ Event(q, row).fields = row.fields
        /\ Event(q, row).ver = row.ver
    BY <1>1, <1>9, EventIs DEF Typing
  <2>3. Unsaid(r)' /\ reqs'[r].event = Event(q, row)
    BY <1>6, <1>9
  <2> HIDE DEF row, q
  <2>4. heard'.row < db'.ver
    BY <1>1, <1>2, <1>5, <2>1 DEF RowNewsOf
  <2>5. RowShown'
    BY <2>4 DEF RowShown
  <2>6. SaysRow(reqs'[r].event, row) /\ TellsRow(reqs'[r].event, row)
    BY <2>1, <2>2, <2>3 DEF SaysRow, TellsRow
  <2>7. \A i \in DOMAIN inbox' : TellsRow(inbox'[i], row)
    BY <1>2, <1>5, <1>8, <2>1 DEF RowNewsOf, TellsRow
  <2>8. ASSUME NEW t \in Slots, Unsaid(t)' PROVE TellsRow(reqs'[t].event, row)
    <3>1. CASE t = r
      BY <2>6, <3>1
    <3>2. CASE t # r
      BY <1>5, <1>6, <1>8, <2>1, <2>8, <3>2 DEF RowNewsOf, TellsRow
    <3>3. QED
      BY <3>1, <3>2
  <2>9. RowComing(db)'
    BY <1>1, <2>3, <2>6 DEF RowComing, SaysRow
  <2>10. heard'.row <= db'.ver
    BY <1>1, <1>2, <1>5, <2>1, <2>4
  <2>11. QED
    BY <1>1, <2>5, <2>7, <2>8, <2>9, <2>10 DEF RowNews, RowNewsOf, TellsRow
<1>10. CASE q.op # "save"
  <2>1. row.fields = db.fields /\ row.ver = db.ver
    BY <1>1, <1>3, <1>4, <1>10, AskIs DEF RowAfter, SameRow, ListRow
  <2>2. ASSUME Unsaid(r)' PROVE reqs'[r].event.kind # "card"
    <3>1. /\ q.op \in {"add", "toggle", "rename", "drop", "move"}
          /\ reqs'[r].event = Event(q, row)
      BY <1>1, <1>4, <1>6, <1>10, <2>2, AskIs
    <3>2. QED
      BY <1>1, <3>1, EventIs DEF Typing
  <2>3. ~Waiting(r)'
    BY WriteUnsaid
  <2> HIDE DEF row
  <2>4. ASSUME NEW f \in Fields, Saving(f) PROVE Saving(f)'
    <3>1. PICK t \in Slots : Saves(t, f)
      BY <2>4 DEF Saving
    <3>2. t # r
      BY <1>10, <3>1 DEF Saves
    <3>3. QED
      BY <1>6, <3>1, <3>2 DEF Saving, Saves, Waiting
  <2>5. RowShown'
    BY <1>1, <1>2, <1>4, <2>1, <2>4 DEF RowShown
  <2>6. \A i \in DOMAIN inbox' : TellsRow(inbox'[i], row)
    BY <1>2, <1>5, <2>1 DEF RowNewsOf, TellsRow
  <2>7. ASSUME NEW t \in Slots, Unsaid(t)' PROVE TellsRow(reqs'[t].event, row)
    <3>1. CASE t = r
      BY <2>2, <2>7, <3>1 DEF TellsRow
    <3>2. CASE t # r
      BY <1>5, <1>6, <2>1, <2>7, <3>2 DEF RowNewsOf, TellsRow
    <3>3. QED
      BY <3>1, <3>2
  <2>8. ASSUME heard.row < db.ver PROVE RowComing(db)'
    <3>1. RowComing(db)
      BY <1>5, <2>8 DEF RowNewsOf
    <3>2. CASE \E i \in DOMAIN inbox : SaysRow(inbox[i], db)
      BY <1>1, <1>2, <2>1, <3>2 DEF RowComing, SaysRow
    <3>3. ASSUME NEW t \in Slots, Unsaid(t), SaysRow(reqs[t].event, db) PROVE RowComing(db)'
      BY <1>1, <1>6, <2>1, <3>3 DEF RowComing, SaysRow
    <3>4. QED
      BY <3>1, <3>2, <3>3 DEF RowComing
  <2>9. QED
    BY <1>1, <1>2, <1>5, <2>1, <2>5, <2>6, <2>7, <2>8 DEF RowNews, RowNewsOf, TellsRow
<1>11. QED
  BY <1>9, <1>10
\* News that is not the row's stays so, and what is said of it stays said.
LEMMA NewsKept ==
  ASSUME NEW e, NEW d, SameNews(e, d), NEW row
  PROVE /\ TellsRow(e, row) => TellsRow(d, row)
        /\ SaysRow(e, row) => SaysRow(d, row)
<1>1. ListEvent(db).kind = "subtasks"
  BY DEF ListEvent
<1>2. QED
  BY <1>1 DEF SameNews, TellsRow, SaysRow

\* Steps other than a write and an arrival bring no news of the row.
LEMMA RowNewsServer ==
  ASSUME Typing, ServerStep, \A r \in Slots : ~Write(r), ~applyWsMessage,
         NEW row, RowNewsOf(row)
  PROVE RowNewsOf(row)' /\ heard'.row = heard.row
<1>1. inbox' = inbox \/ \E r \in Slots : Unsaid(r) /\ inbox' = Append(inbox, reqs[r].event)
  BY DEF ServerStep, Emit, ReadSubtasks, Answered, Forget, Fail, Cut, Unsaid
<1>2. heard'.row = heard.row
  <2>1. ASSUME NEW r \in Slots, Answered(r) PROVE heard'.row = heard.row
    <3>1. CASE reqs[r].ask.op = "get"
      BY <2>1, <3>1, AnswerIs, ShowIs
    <3>2. CASE reqs[r].made \in Creations /\ AppendAnswer(reqs[r].made)
      BY <3>2, JoinIs
    <3>3. QED
      BY <2>1, <3>1, <3>2, AnswerIs
  <2>2. ASSUME NEW r \in Slots, ReadSubtasks(r) \/ Emit(r) \/ Forget(r) \/ Fail(r) \/ Cut(r)
        PROVE heard'.row = heard.row
    BY <2>2 DEF ReadSubtasks, Emit, Forget, Fail, Cut, history
  <2>3. QED
    BY <2>1, <2>2 DEF ServerStep
<1>3. inbox \in Seq(Events)
  BY DEF Typing, Core, InboxTypes
<1>4. \A i \in DOMAIN inbox : i \in DOMAIN inbox' /\ inbox'[i] = inbox[i]
  <2>1. ASSUME NEW e, inbox' = Append(inbox, e)
        PROVE \A i \in DOMAIN inbox : i \in DOMAIN inbox' /\ inbox'[i] = inbox[i]
    BY <1>3, <2>1
  <2>2. QED
    BY <1>1, <2>1
<1>5. \A i \in DOMAIN inbox' : TellsRow(inbox'[i], row)
  <2>1. ASSUME NEW r \in Slots, Unsaid(r), inbox' = Append(inbox, reqs[r].event)
        PROVE \A i \in DOMAIN inbox' : TellsRow(inbox'[i], row)
    BY <1>3, <2>1 DEF RowNewsOf
  <2>2. QED
    BY <1>1, <2>1 DEF RowNewsOf
<1>6. \A r \in Slots : Unsaid(r)' => TellsRow(reqs'[r].event, row)
  BY UnsaidServer, NewsKept DEF RowNewsOf
<1>7. ASSUME RowComing(row) PROVE RowComing(row)'
  <2>1. CASE \E i \in DOMAIN inbox : SaysRow(inbox[i], row)
    BY <1>4, <2>1 DEF RowComing
  <2>2. ASSUME NEW r \in Slots, Unsaid(r), SaysRow(reqs[r].event, row) PROVE RowComing(row)'
    <3>1. CASE Unsaid(r)' /\ SameNews(reqs[r].event, reqs'[r].event)
      BY <2>2, <3>1, NewsKept DEF RowComing
    <3>2. CASE inbox' = Append(inbox, reqs[r].event)
      <4>1. Len(inbox) + 1 \in DOMAIN inbox' /\ inbox'[Len(inbox) + 1] = reqs[r].event
        BY <1>3, <3>2
      <4>2. QED
        BY <2>2, <4>1 DEF RowComing
    <3>3. QED
      BY <2>2, <3>1, <3>2, UnsaidServer
  <2>3. QED
    BY <1>7, <2>1, <2>2 DEF RowComing
<1>8. QED
  BY <1>2, <1>5, <1>6, <1>7 DEF RowNewsOf

\* What failed to be saved is in doubt.
LEMMA RowReverted ==
  ASSUME Typing, RowShown, db # Gone, db' = db, heard'.row = heard.row,
         NEW r \in Slots, reqs[r].ask \in Asks, reqs[r].ask.by = Me, revert(reqs[r].ask),
         \A f \in Fields : Saving(f) => Saving(f)' \/ Saves(r, f)
  PROVE RowShown'
<1> DEFINE q == reqs[r].ask
<1> SUFFICES ASSUME store' # Gone, NEW f \in Fields \ doubt'
             PROVE store'.fields[f] = db.fields[f] \/ heard.row < db.ver \/ Saving(f)'
  BY DEF RowShown
<1>1. ASSUME store # Gone, f \notin doubt, store'.fields[f] = store.fields[f],
             ~Saves(r, f)
      PROVE store'.fields[f] = db.fields[f] \/ heard.row < db.ver \/ Saving(f)'
  BY <1>1 DEF RowShown
<1>2. CASE q.op \in {"move", "delete"}
  <2>1. doubt' = {g \in Fields : g \in doubt \/ store = Gone
                                 \/ store.fields[g] # q.snapshot.fields[g]}
    BY <1>2 DEF revert
  <2>2. store' = q.snapshot /\ ~Saves(r, f)
    BY <1>2, RevertIs DEF Saves
  <2>3. QED
    BY <1>1, <2>1, <2>2
<1>3. CASE q.op = "toggle" /\ HasSub(q.sub)
  <2>1. store # Gone /\ store'.fields = store.fields
    BY <1>3, RevertIs
  <2>2. doubt' = doubt
    BY <1>3, RevertIs
  <2>3. QED
    BY <1>1, <1>3, <2>1, <2>2 DEF Saves
<1>4. CASE q.op = "save"
  <2>1. store' = store /\ doubt' = doubt \cup {q.field}
    BY <1>4, RevertIs
  <2>2. ~Saves(r, f) /\ f \notin doubt
    BY <2>1 DEF Saves
  <2>3. QED
    BY <1>1, <2>1, <2>2
<1>5. CASE q.op \notin {"move", "delete", "save"} /\ ~(q.op = "toggle" /\ HasSub(q.sub))
  <2>1. store' = store /\ doubt' = doubt
    BY <1>5, RevertIs
  <2>2. QED
    BY <1>1, <1>5, <2>1 DEF Saves
<1>6. QED
  BY <1>2, <1>3, <1>4, <1>5

\* The server's other steps, and an answer, keep what is shown of the row.
LEMMA RowServer ==
  ASSUME Typing, RowNews, RowShown, ServerStep, \A r \in Slots : ~Write(r), ~applyWsMessage
  PROVE RowNews' /\ RowShown'
<1>1. db' = db
  BY DEF ServerStep, ReadSubtasks, Emit, Answered, Forget, Fail, Cut
<1> SUFFICES ASSUME db # Gone PROVE RowNews' /\ RowShown'
  BY <1>1 DEF RowNews, RowShown
<1>2. RowNews' /\ heard'.row = heard.row
  <2>1. PICK row : row = db
    OBVIOUS
  <2>2. RowNewsOf(row)
    BY <2>1 DEF RowNews
  <2>3. RowNewsOf(row)' /\ heard'.row = heard.row
    BY <2>2, RowNewsServer
  <2>4. QED
    BY <1>1, <2>1, <2>3 DEF RowNews, RowNewsOf, RowComing, TellsRow, SaysRow
<1>3. ASSUME NEW f \in Fields, NEW t \in Slots, Saves(t, f)
      PROVE Saving(f)' \/ Fail(t) \/ Cut(t)
  BY <1>3, WaitingServer DEF Saving, Saves
<1>4. ASSUME doubt' = doubt, store' # Gone => store # Gone /\ store'.fields = store.fields,
             \A f \in Fields : Saving(f) => Saving(f)'
      PROVE RowShown'
  BY <1>1, <1>2, <1>4 DEF RowShown
<1>5. ASSUME NEW r \in Slots, ReadSubtasks(r) \/ Emit(r) \/ Answered(r) \/ Forget(r)
      PROVE \A f \in Fields : Saving(f) => Saving(f)'
  <2>1. ASSUME NEW f \in Fields, NEW t \in Slots, Saves(t, f), t # r, Rest(r) PROVE Saving(f)'
    BY <2>1 DEF Saving, Saves, Waiting, Rest
  <2>2. Rest(r) /\ ~Waiting(r)
    <3>1. CASE ReadSubtasks(r)
      BY <3>1, ReadIs DEF Typing, Waiting
    <3>2. CASE Emit(r)
      BY <3>2, EmitIs DEF Typing, Waiting
    <3>3. CASE Answered(r)
      BY <3>3, AnswerIs DEF Waiting
    <3>4. CASE Forget(r)
      BY <3>4, LeaveIs DEF Typing, Forget, Waiting
    <3>5. QED
      BY <1>5, <3>1, <3>2, <3>3, <3>4
  <2>3. QED
    BY <2>1, <2>2 DEF Saving, Saves
<1>6. ASSUME NEW r \in Slots, ReadSubtasks(r) \/ Emit(r) \/ Forget(r) PROVE RowShown'
  <2>1. UNCHANGED <<store, doubt>>
    BY <1>6 DEF ReadSubtasks, Emit, Forget, history
  <2>2. QED
    BY <1>4, <1>5, <1>6, <2>1
<1>7. ASSUME NEW r \in Slots, Answered(r) PROVE RowShown'
  <2>1. doubt' = doubt
    BY <1>7 DEF Answered
  <2>2. store' # Gone => store # Gone /\ store'.fields = store.fields
    <3>1. CASE reqs[r].ask.op = "get"
      BY <1>7, <3>1, AnswerIs, ShowIs
    <3>2. CASE reqs[r].made \in Creations /\ AppendAnswer(reqs[r].made)
      BY <3>2, JoinIs
    <3>3. QED
      BY <1>7, <3>1, <3>2, AnswerIs
  <2>3. QED
    BY <1>4, <1>5, <1>7, <2>1, <2>2
<1>8. ASSUME NEW r \in Slots, Fail(r) \/ Cut(r), NEW f \in Fields, NEW t \in Slots, Saves(t, f)
      PROVE Saving(f)' \/ Saves(r, f)
  <2>1. CASE t = r
    BY <1>8, <2>1
  <2>2. CASE t # r
    <3>1. Open(t) /\ Waiting(t)
      BY <1>8 DEF Saves, Waiting
    <3>2. reqs'[t] = reqs[t] /\ Open(t)'
      <4>1. CASE Fail(r)
        BY <2>2, <3>1, <4>1, FailIs DEF Rest
      <4>2. CASE Cut(r)
        BY <2>2, <3>1, <4>2, CutIs DEF Rest
      <4>3. QED
        BY <1>8, <4>1, <4>2
    <3>3. QED
      BY <1>8, <3>2 DEF Saving, Saves, Waiting
  <2>3. QED
    BY <2>1, <2>2
<1>9. ASSUME NEW r \in Slots, Fail(r) \/ Cut(r) PROVE RowShown'
  <2>1. reqs[r].ask \in Asks /\ reqs[r].ask.by = Me /\ revert(reqs[r].ask)
    BY <1>9, FailIs, CutIs
  <2>2. \A f \in Fields : Saving(f) => Saving(f)' \/ Saves(r, f)
    BY <1>8, <1>9 DEF Saving
  <2>3. QED
    BY <1>1, <1>2, <2>1, <2>2, RowReverted
<1>10. QED
  BY <1>2, <1>6, <1>7, <1>9 DEF ServerStep

\* A broadcast arrives: the tab shows its row, or hears that it is behind.
LEMMA RowArrives ==
  ASSUME Typing, RowNews, RowShown, applyWsMessage PROVE RowNews' /\ RowShown'
<1>1. /\ Len(inbox) \in Nat /\ Len(inbox) > 0 /\ DOMAIN inbox = 1 .. Len(inbox)
      /\ inbox[1] \in Events /\ DOMAIN inbox' = 1 .. Len(inbox) - 1
      /\ \A i \in DOMAIN inbox' : i + 1 \in DOMAIN inbox /\ inbox'[i] = inbox[i + 1]
      /\ UNCHANGED <<db, reqs>>
  BY ArriveIs
<1>2. PICK e : e = inbox[1]
  OBVIOUS
<1>3. e \in Events /\ e.kind \in {"card", "subtasks", "moved", "deleted"}
  BY <1>1, <1>2, KindIs
<1> SUFFICES ASSUME db # Gone PROVE RowNews' /\ RowShown'
  BY <1>1 DEF RowNews, RowShown
<1>4. /\ RowNewsOf(db) /\ TellsRow(e, db) /\ db.ver \in Nat
      /\ heard \in [row : Nat, list : Nat] /\ heard.row \in Nat
  BY <1>1, <1>2 DEF RowNews, RowNewsOf, Typing, Core, HistoryTypes, DbTypes, Rows
<1>5. \A i \in DOMAIN inbox : i = 1 \/ (i - 1 \in DOMAIN inbox' /\ inbox'[i - 1] = inbox[i])
  BY <1>1
<1>6. ASSUME RowComing(db), ~SaysRow(e, db) PROVE RowComing(db)'
  <2>1. CASE \E i \in DOMAIN inbox : SaysRow(inbox[i], db)
    <3>1. PICK i \in DOMAIN inbox : SaysRow(inbox[i], db)
      BY <2>1
    <3>2. i - 1 \in DOMAIN inbox' /\ inbox'[i - 1] = inbox[i]
      BY <1>2, <1>5, <1>6, <3>1
    <3>3. QED
      BY <1>1, <3>1, <3>2 DEF RowComing, SaysRow
  <2>2. CASE \E r \in Slots : Unsaid(r) /\ SaysRow(reqs[r].event, db)
    BY <1>1, <2>2 DEF RowComing, SaysRow, Unsaid, Open
  <2>3. QED
    BY <1>6, <2>1, <2>2 DEF RowComing
<1>7. /\ \A i \in DOMAIN inbox' : TellsRow(inbox'[i], db)
      /\ \A r \in Slots : Unsaid(r)' => TellsRow(reqs'[r].event, db)
  BY <1>1, <1>4 DEF RowNewsOf, Unsaid, Open
<1>8. ASSUME heard'.row <= db.ver, heard'.row < db.ver => RowComing(db)' PROVE RowNews'
  BY <1>1, <1>7, <1>8 DEF RowNews, RowNewsOf, TellsRow
<1>9. \A f \in Fields : Saving(f)' <=> Saving(f)
  BY <1>1 DEF Saving, Saves, Waiting, Open
<1>10. CASE e.kind = "card"
  <2>1. /\ store' = updateCard(e.fields)
        /\ doubt' = IF store = Gone THEN doubt ELSE IF e.ver < heard.row THEN Fields ELSE {}
        /\ heard' = [heard EXCEPT !.row = Max({e.ver, @})]
    BY <1>2, <1>10, ArriveIs
  <2>2. e.fields \in Saved /\ e.ver \in Nat
    BY <1>3, <1>10, KindIs
  <2>3. /\ (store' = Gone) <=> (store = Gone)
        /\ store # Gone => store'.fields = e.fields
        /\ heard'.row = IF e.ver <= heard.row THEN heard.row ELSE e.ver
    BY <2>1, <2>2, RowShownIs
  <2>4. e.ver <= db.ver /\ (e.ver = db.ver => e.fields = db.fields)
    BY <1>4, <1>10 DEF TellsRow
  <2>5. heard.row <= db.ver /\ (heard.row < db.ver => RowComing(db))
    BY <1>4 DEF RowNewsOf
  <2>6. heard'.row <= db.ver
    BY <1>4, <2>2, <2>3, <2>4, <2>5
  <2>7. ASSUME heard'.row < db.ver PROVE RowComing(db)'
    <3>1. e.ver < db.ver /\ heard.row < db.ver
      BY <1>4, <2>2, <2>3, <2>4, <2>5, <2>7
    <3>2. ~SaysRow(e, db)
      BY <2>2, <1>4, <3>1 DEF SaysRow
    <3>3. QED
      BY <1>6, <2>5, <3>1, <3>2
  <2>8. RowShown'
    <3> SUFFICES ASSUME store' # Gone, NEW f \in Fields \ doubt'
                 PROVE store'.fields[f] = db.fields[f] \/ heard'.row < db.ver
      BY <1>1 DEF RowShown
    <3>1. store # Gone /\ store'.fields = e.fields /\ ~(e.ver < heard.row)
      BY <2>1, <2>3
    <3>2. heard'.row = e.ver
      BY <1>4, <2>2, <2>3, <3>1
    <3>3. CASE e.ver = db.ver
      BY <2>4, <3>1, <3>3
    <3>4. CASE e.ver < db.ver
      BY <3>2, <3>4
    <3>5. QED
      BY <1>4, <2>2, <2>4, <3>3, <3>4
  <2>9. QED
    BY <1>8, <2>6, <2>7, <2>8
<1>11. CASE e.kind # "card"
  <2>1. heard'.row = heard.row /\ doubt' = doubt
        /\ (store' # Gone => store # Gone /\ store'.fields = store.fields)
    <3>1. CASE e.kind = "moved"
      BY <1>2, <1>3, <3>1, ArriveIs, KindIs, MovedIs DEF Typing
    <3>2. CASE e.kind = "deleted"
      BY <1>2, <3>2, ArriveIs
    <3>3. CASE e.kind = "subtasks"
      BY <1>2, <1>3, <3>3, ArriveIs, KindIs, ShowIs
    <3>4. QED
      BY <1>3, <1>11, <3>1, <3>2, <3>3
  <2>2. ~SaysRow(e, db)
    BY <1>11 DEF SaysRow
  <2>3. RowNews'
    BY <1>4, <1>6, <1>8, <2>1, <2>2 DEF RowNewsOf
  <2>4. RowShown'
    BY <1>1, <1>9, <2>1 DEF RowShown
  <2>5. QED
    BY <2>3, <2>4
<1>12. QED
  BY <1>10, <1>11

\* Every step keeps what is known and shown of the row.
LEMMA RowStep == Typing /\ RowNews /\ RowShown /\ [Next]_vars => RowNews' /\ RowShown'
<1>1. ASSUME RowNews, RowShown, UNCHANGED vars PROVE RowNews' /\ RowShown'
  BY <1>1 DEF vars, history, RowNews, RowNewsOf, RowComing, TellsRow, SaysRow, RowShown,
    Saving, Saves, Waiting, Unsaid, Open
<1>2. ASSUME Typing, RowNews, RowShown, ServerStep PROVE RowNews' /\ RowShown'
  <2>1. CASE applyWsMessage
    BY <1>2, <2>1, RowArrives
  <2>2. CASE \E r \in Slots : Write(r)
    BY <1>2, <2>2, RowWrite
  <2>3. CASE ~applyWsMessage /\ \A r \in Slots : ~Write(r)
    BY <1>2, <2>3, RowServer
  <2>4. QED
    BY <2>1, <2>2, <2>3
<1>3. QED
  BY <1>1, <1>2, RowLocal, UserSteps, TwoSides DEF Kept, Typing

\* A quiet tab has heard of the row.
LEMMA QuietRow == RowNews /\ RowShown => QuietCardShowsTheRow
<1> SUFFICES ASSUME RowNews, RowShown, Quiet, db # Gone, store # Gone, NEW f \in Fields \ doubt
             PROVE store.fields[f] = db.fields[f]
  BY DEF QuietCardShowsTheRow
<1>1. inbox = <<>> /\ \A r \in Slots : ~Open(r)
  BY DEF Quiet
<1>2. DOMAIN inbox = {}
  BY <1>1
<1>3. ~RowComing(db)
  BY <1>1, <1>2 DEF RowComing, Unsaid
<1>4. ~(heard.row < db.ver)
  BY <1>3 DEF RowNews, RowNewsOf
<1>5. ~Saving(f)
  BY <1>1 DEF Saving, Saves, Waiting
<1>6. QED
  BY <1>4, <1>5 DEF RowShown
-----------------------------------------------------------------------------
\* What this tab hears of the list of subtasks, as of the row.
TellsList(e, row) ==
  e.kind = "subtasks" =>
    e.listVer <= row.listVer /\ (e.listVer = row.listVer => e.list = row.subs)
SaysList(e, row) == e.kind = "subtasks" /\ e.listVer = row.listVer
ListComing(row) ==
  \/ \E i \in DOMAIN inbox : SaysList(inbox[i], row)
  \/ \E r \in Slots : Unsaid(r) /\ SaysList(reqs[r].event, row)
Brings(x, row) ==
  TellsList(x.event, row) /\ (x.made # NoEvent => x.made.listVer <= row.listVer)
ListNewsOf(row) ==
  /\ heard.list <= row.listVer
  /\ \A i \in DOMAIN inbox : TellsList(inbox[i], row)
  /\ \A r \in Slots : Open(r) => Brings(reqs[r], row)
  /\ heard.list < row.listVer => ListComing(row)
ListNews == db # Gone => ListNewsOf(db)

\* What is under way for a subtask, and for the list.
AsksOf(r, op, s) == Waiting(r) /\ reqs[r].ask.op = op /\ reqs[r].ask.sub = s
Asking(op, s) == \E r \in Slots : AsksOf(r, op, s)
Fetching == \E r \in Slots : Open(r) /\ reqs[r].ask.op = "get"

\* A list that is shown differs from the row's by what is under way.
Fits(shown, is, s) ==
  /\ shown.done = is.done \/ Asking("toggle", s)
  /\ shown.title = is.title \/ Asking("rename", s) \/ Fetching
Matches(l, d) ==
  /\ DOMAIN l \subseteq DOMAIN d
  /\ \A s \in DOMAIN l : Fits(l[s], d[s], s)
  /\ \A s \in DOMAIN d \ DOMAIN l : Hidden(s) \/ Asking("drop", s) \/ Fetching
UpToDate == ~listDoubt /\ heard.list = db.listVer
ListShown ==
  db # Gone /\ store # Gone /\ store.subs # NoList /\ UpToDate => Matches(store.subs, db.subs)

\* A toggle that was made of the newest list changes what the row has.
Knew(q) ==
  /\ q.since <= heard.list
  /\ db # Gone /\ ~q.unsure /\ q.since = heard.list /\ heard.list = db.listVer =>
       q.sub \in DOMAIN db.subs /\ db.subs[q.sub].done = ~q.done
ToggleKnows ==
  \A r \in Slots : Waiting(r) /\ reqs[r].ask.op = "toggle" => Knew(reqs[r].ask)

ListGood == ListNews /\ ListShown /\ ToggleKnows

\* What is under way goes on, or another thing takes its place.
Keeps ==
  /\ \A s \in Subs : \A op \in {"toggle", "rename", "drop"} : Asking(op, s) => Asking(op, s)'
  /\ Fetching => Fetching'
  /\ \A s \in Subs : Hidden(s) => Hidden(s)' \/ Asking("drop", s)' \/ Fetching'

\* The model's name for a toggle under way.
LEMMA TogglingIs == ASSUME NEW s PROVE Toggling(s) <=> Asking("toggle", s)
BY DEF Toggling, Asking, AsksOf

\* A list that matched still does.
LEMMA MatchesKept ==
  ASSUME NEW l \in Lists, NEW d \in Lists, Matches(l, d), Keeps PROVE Matches(l, d)'
<1>1. DOMAIN l \subseteq Subs /\ DOMAIN d \subseteq Subs
  BY ListIs
<1>2. ASSUME NEW s \in DOMAIN l PROVE Fits(l[s], d[s], s)'
  <2>1. Fits(l[s], d[s], s) /\ s \in Subs
    BY <1>1, <1>2 DEF Matches
  <2>2. /\ Asking("toggle", s) => Asking("toggle", s)'
        /\ Asking("rename", s) => Asking("rename", s)'
        /\ Fetching => Fetching'
    BY <2>1 DEF Keeps
  <2>3. QED
    BY <2>1, <2>2 DEF Fits
<1>3. ASSUME NEW s \in DOMAIN d \ DOMAIN l
      PROVE Hidden(s)' \/ Asking("drop", s)' \/ Fetching'
  BY <1>1, <1>3 DEF Keeps, Matches
<1>4. QED
  BY <1>2, <1>3 DEF Matches

\* Sending leaves what is under way as it is.
LEMMA SentOn ==
  ASSUME Core, NEW r \in Slots, NEW ask \in Asks, Sent(r, ask), ask.op = "save" => Meant(ask)
  PROVE /\ \A s : \A op \in {"toggle", "rename", "drop"} : Asking(op, s) => Asking(op, s)'
        /\ Fetching => Fetching'
        /\ ask.by = Me /\ ask.op \in {"toggle", "rename", "drop"} => Asking(ask.op, ask.sub)'
        /\ ask.op = "get" => Fetching'
<1>1. ASSUME NEW s, NEW op \in {"toggle", "rename", "drop"}, NEW t \in Slots, AsksOf(t, op, s)
      PROVE AsksOf(t, op, s)'
  <2>1. Open(t) /\ reqs[t].ask.op # "tag"
    BY <1>1 DEF AsksOf, Waiting
  <2>2. Open(t)' /\ reqs'[t] = reqs[t]
    BY <2>1, SentKeeps
  <2>3. QED
    BY <1>1, <2>2 DEF AsksOf, Waiting
<1>2. ASSUME NEW t \in Slots, Open(t), reqs[t].ask.op = "get" PROVE Fetching'
  BY <1>2, SentKeeps DEF Fetching
<1>3. Open(r)' /\ reqs'[r].pc = "sent" /\ reqs'[r].ask = ask /\ reqs'[r].waits = (ask.by = Me)
  BY SentKeeps
<1>4. ASSUME ask.by = Me, ask.op \in {"toggle", "rename", "drop"}
      PROVE Asking(ask.op, ask.sub)'
  <2>1. reqs'[r].waits
    BY <1>3, <1>4
  <2>2. QED
    BY <1>3, <2>1 DEF Asking, AsksOf, Waiting
<1>5. ask.op = "get" => Fetching'
  BY <1>3 DEF Fetching
<1>6. QED
  BY <1>1, <1>2, <1>4, <1>5 DEF Asking, Fetching

\* Sending brings no news, and only a toggle has something to know.
LEMMA ListSent ==
  ASSUME Core, NEW r \in Slots, NEW ask \in Asks, Sent(r, ask),
         ask.op = "save" => Meant(ask), ListNews, ToggleKnows,
         UNCHANGED <<db, inbox, heard>>, ask.op = "toggle" /\ ask.by = Me => Knew(ask)
  PROVE ListNews' /\ ToggleKnows'
<1>1. ASSUME NEW row, ListNewsOf(row) PROVE ListNewsOf(row)'
  <2>1. Brings(reqs'[r], row)
    <3>1. reqs'[r].event = NoEvent /\ reqs'[r].made = NoEvent
      BY SentKeeps
    <3>2. QED
      BY <3>1, Plain DEF Brings, TellsList
  <2>2. \A t \in Slots : Open(t)' => Brings(reqs'[t], row)
    BY <1>1, <2>1, SentKeeps DEF ListNewsOf
  <2>3. ASSUME ListComing(row) PROVE ListComing(row)'
    <3>1. CASE \E i \in DOMAIN inbox : SaysList(inbox[i], row)
      BY <3>1 DEF ListComing, SaysList
    <3>2. CASE \E t \in Slots : Unsaid(t) /\ SaysList(reqs[t].event, row)
      <4>1. PICK t \in Slots : Unsaid(t) /\ SaysList(reqs[t].event, row)
        BY <3>2
      <4>2. Unsaid(t)' /\ reqs'[t] = reqs[t]
        BY <4>1, SentKeeps
      <4>3. QED
        BY <4>1, <4>2 DEF ListComing, SaysList
    <3>3. QED
      BY <2>3, <3>1, <3>2 DEF ListComing
  <2>4. QED
    BY <1>1, <2>2, <2>3 DEF ListNewsOf, TellsList, Brings
<1>2. ListNews'
  <2>1. PICK row : row = db
    OBVIOUS
  <2>2. QED
    BY <1>1, <2>1 DEF ListNews, ListNewsOf, ListComing, TellsList, SaysList, Brings
<1>3. ASSUME NEW q PROVE Knew(q)' <=> Knew(q)
  BY DEF Knew
<1>4. ASSUME NEW t \in Slots, Waiting(t)', reqs'[t].ask.op = "toggle" PROVE Knew(reqs'[t].ask)
  <2>1. CASE Waiting(t) /\ reqs'[t] = reqs[t]
    BY <1>4, <2>1 DEF ToggleKnows
  <2>2. CASE t = r
    <3>1. reqs'[r].ask = ask /\ reqs'[r].waits = (ask.by = Me)
      BY SentKeeps
    <3>2. reqs'[r].waits
      BY <1>4, <2>2 DEF Waiting
    <3>3. ask.by = Me
      BY <3>1, <3>2
    <3>4. QED
      BY <1>4, <2>2, <3>1, <3>3
  <2>3. QED
    BY <1>4, <2>1, <2>2, SentKeeps
<1>5. ToggleKnows'
  BY <1>4 DEF ToggleKnows, Knew
<1>6. QED
  BY <1>2, <1>5
\* The lists that are compared are lists.
LEMMA ShownLists ==
  ASSUME Core, db # Gone, store # Gone, store.subs # NoList
  PROVE store.subs \in Lists /\ db.subs \in Lists
BY DEF Core, StoreTypes, DbTypes, Stores, Rows

\* The list that is shown stays, and what is under way goes on.
LEMMA ListStays ==
  ASSUME Core, ListShown, UNCHANGED db, Keeps,
         store' # Gone => store # Gone /\ store'.subs = store.subs,
         UpToDate' => UpToDate
  PROVE ListShown'
<1> SUFFICES ASSUME db # Gone, store' # Gone, store'.subs # NoList, UpToDate'
             PROVE Matches(store.subs, db.subs)'
  BY DEF ListShown
<1>1. PICK l, d : l = store.subs /\ d = db.subs
  OBVIOUS
<1>2. store # Gone /\ store'.subs = l /\ db'.subs = d /\ l \in Lists /\ d \in Lists
      /\ Matches(l, d)
  BY <1>1, ShownLists DEF ListShown
<1>3. Matches(l, d)'
  BY <1>2, MatchesKept
<1>4. QED
  BY <1>2, <1>3 DEF Matches, Fits

\* One subtask of the list is changed by what is under way for it.
LEMMA ListUpdated ==
  ASSUME Core, ListShown, UNCHANGED db, Keeps, NEW s, HasSub(s), NEW sub \in Subtasks,
         store'.subs = [store.subs EXCEPT ![s] = sub],
         sub.done = store.subs[s].done \/ Asking("toggle", s)',
         sub.title = store.subs[s].title \/ Asking("rename", s)',
         UpToDate' => UpToDate
  PROVE ListShown'
<1> SUFFICES ASSUME db # Gone, UpToDate' PROVE Matches(store.subs, db.subs)'
  BY DEF ListShown
<1>1. PICK l, d : l = store.subs /\ d = db.subs
  OBVIOUS
<1>2. /\ l \in Lists /\ d \in Lists /\ Matches(l, d) /\ s \in DOMAIN l
  BY <1>1, ShownLists DEF ListShown, HasSub
<1>3. Matches(l, d)'
  BY <1>2, MatchesKept
<1>4. PICK m : m = [l EXCEPT ![s] = sub]
  OBVIOUS
<1>5. DOMAIN m = DOMAIN l /\ m[s] = sub /\ \A t \in DOMAIN l : t # s => m[t] = l[t]
  BY <1>2, <1>4, ExceptIs
<1>6. Fits(m[s], d[s], s)'
  <2>1. Fits(l[s], d[s], s)'
    BY <1>2, <1>3 DEF Matches
  <2>2. sub.done = l[s].done \/ Asking("toggle", s)'
    BY <1>1
  <2>3. sub.title = l[s].title \/ Asking("rename", s)'
    BY <1>1
  <2>4. QED
    BY <1>5, <2>1, <2>2, <2>3 DEF Fits
<1>7. \A t \in DOMAIN m : Fits(m[t], d[t], t)'
  BY <1>3, <1>5, <1>6 DEF Matches, Fits
<1>8. Matches(m, d)'
  BY <1>3, <1>5, <1>7 DEF Matches
<1>9. store'.subs = m /\ db'.subs = d
  BY <1>1, <1>4
<1>10. QED
  BY <1>8, <1>9 DEF Matches, Fits

\* A subtask is hidden from the list.
LEMMA ListHidden ==
  ASSUME Core, ListShown, UNCHANGED db, Keeps, NEW s \in Subs, HasSub(s),
         store'.subs = Without(store.subs, s), Hidden(s)', UpToDate' => UpToDate
  PROVE ListShown'
<1> SUFFICES ASSUME db # Gone, UpToDate' PROVE Matches(store.subs, db.subs)'
  BY DEF ListShown
<1>1. PICK l, d : l = store.subs /\ d = db.subs
  OBVIOUS
<1>2. /\ l \in Lists /\ d \in Lists /\ Matches(l, d) /\ s \in DOMAIN l
  BY <1>1, ShownLists DEF ListShown, HasSub
<1>3. Matches(l, d)'
  BY <1>2, MatchesKept
<1>4. PICK m : m = Without(l, s)
  OBVIOUS
<1>5. DOMAIN m = DOMAIN l \ {s} /\ \A t \in DOMAIN l : t # s => m[t] = l[t]
  <2>1. /\ DOMAIN Without(l, s) = DOMAIN l \ {s}
        /\ \A t \in DOMAIN l : t # s => Without(l, s)[t] = l[t]
    BY <1>2, WithoutIs
  <2>2. QED
    BY <1>4, <2>1
<1>6. \A t \in DOMAIN m : Fits(m[t], d[t], t)'
  BY <1>3, <1>5 DEF Matches, Fits
<1>7. ASSUME NEW t \in DOMAIN d \ DOMAIN m
      PROVE Hidden(t)' \/ Asking("drop", t)' \/ Fetching'
  <2>1. CASE t = s
    BY <2>1
  <2>2. CASE t # s
    BY <1>3, <1>5, <1>7, <2>2 DEF Matches
  <2>3. QED
    BY <2>1, <2>2
<1>8. Matches(m, d)'
  BY <1>3, <1>5, <1>6, <1>7 DEF Matches
<1>9. store'.subs = m /\ db'.subs = d
  BY <1>1, <1>4
<1>10. QED
  BY <1>8, <1>9 DEF Matches, Fits

\* A toggle knows what it was made of.
LEMMA ToggleMade ==
  ASSUME Core, ListShown, NEW s \in Subs, HasSub(s), store.subs[s].done \in BOOLEAN,
         NEW ask \in Asks, ask.sub = s, ask.done = ~store.subs[s].done,
         ask.since = heard.list, ask.unsure = (listDoubt \/ Toggling(s))
  PROVE Knew(ask)
<1>1. heard.list \in Nat
  BY DEF Core, HistoryTypes
<1> SUFFICES ASSUME db # Gone, ~ask.unsure, heard.list = db.listVer
             PROVE s \in DOMAIN db.subs /\ db.subs[s].done = ~ask.done
  BY <1>1 DEF Knew
<1>2. ~listDoubt /\ ~Toggling(s)
  BY Zenon
<1>3. /\ store # Gone /\ store.subs # NoList /\ s \in DOMAIN store.subs
      /\ Matches(store.subs, db.subs)
  BY <1>2 DEF HasSub, ListShown, UpToDate
<1>4. s \in DOMAIN db.subs /\ store.subs[s].done = db.subs[s].done
  BY <1>2, <1>3, TogglingIs DEF Matches, Fits
<1>5. QED
  BY <1>4

\* The tab's steps keep what is known and shown of the list.
LEMMA ListLocal == ASSUME Core, ListGood, Local PROVE ListGood'
<1>1. UNCHANGED <<db, inbox, heard, listDoubt>>
  BY DEF Local, Elsewhere, Still, AsksFor, SavesField, TogglesSub, RenamesSub, HidesSub,
    UndoesSub, Dismisses, DropsSub, MovesCard, DeletesCard
<1>2. ListNews /\ ListShown /\ ToggleKnows /\ (UpToDate' => UpToDate)
  BY <1>1 DEF ListGood, UpToDate
<1>3. ASSUME UNCHANGED reqs
      PROVE /\ ListNews' /\ ToggleKnows'
            /\ \A s : \A op \in {"toggle", "rename", "drop"} : Asking(op, s) => Asking(op, s)'
            /\ Fetching => Fetching'
  BY <1>1, <1>2, <1>3 DEF ListNews, ListNewsOf, ListComing, TellsList, SaysList, Brings, Unsaid,
    ToggleKnows, Knew, Asking, AsksOf, Fetching, Waiting, Open
<1>4. ASSUME UNCHANGED undo, NEW s, Hidden(s) PROVE Hidden(s)'
  BY <1>4 DEF Hidden
<1>5. ASSUME UNCHANGED <<reqs, undo>> PROVE ListNews' /\ ToggleKnows' /\ Keeps
  BY <1>3, <1>4, <1>5 DEF Keeps
<1>6. ASSUME NEW r \in Slots, NEW ask \in Asks, Sent(r, ask), ask.op = "save" => Meant(ask),
             ask.op = "toggle" /\ ask.by = Me => Knew(ask), UNCHANGED undo
      PROVE ListNews' /\ ToggleKnows' /\ Keeps
  BY <1>1, <1>2, <1>4, <1>6, ListSent, SentOn DEF Keeps
<1>7. ASSUME NEW r \in Slots, NEW ask \in Asks, Sent(r, ask), ask.op = "save" => Meant(ask),
             ask.op = "toggle" => ask.by # Me, UNCHANGED undo,
             store' # Gone => store # Gone /\ store'.subs = store.subs
      PROVE ListGood'
  BY <1>1, <1>2, <1>6, <1>7, ListStays DEF ListGood
<1>8. CASE Still
  BY <1>1, <1>2, <1>5, <1>8, ListStays DEF Still, ListGood
<1>9. ASSUME NEW r \in Slots, NEW ask \in Asks, AsksFor(r, ask) PROVE ListGood'
  BY <1>7, <1>9 DEF AsksFor
<1>10. ASSUME NEW r \in Slots, NEW form \in Forms, NEW f \in Fields,
             NEW meant \in BOOLEAN, SavesField(r, form, f, meant)
       PROVE ListGood'
  <2>1. PICK ask \in Asks : Sent(r, ask) /\ ask.op = "save" /\ Meant(ask)
    BY <1>10, SaveSent
  <2>2. store' # Gone => store # Gone /\ store'.subs = store.subs
    BY <1>10, SavedIs
  <2>3. QED
    BY <1>7, <1>10, <2>1, <2>2 DEF SavesField
<1>11. ASSUME NEW r \in Slots, NEW s \in Subs, TogglesSub(r, s) PROVE ListGood'
  <2>1. \E ask \in Asks :
          /\ Sent(r, ask) /\ ask.op = "toggle" /\ ask.by = Me /\ ask.sub = s
          /\ ask.done = ~store.subs[s].done /\ ask.since = heard.list
          /\ ask.unsure = (listDoubt \/ Toggling(s))
    BY <1>11, ToggledIs
  <2>2. PICK ask \in Asks :
          /\ Sent(r, ask) /\ ask.op = "toggle" /\ ask.by = Me /\ ask.sub = s
          /\ ask.done = ~store.subs[s].done /\ ask.since = heard.list
          /\ ask.unsure = (listDoubt \/ Toggling(s))
    BY <2>1, Zenon
  <2> DEFINE sub == [store.subs[s] EXCEPT !.done = ~@]
  <2>3. store' = updateSubtaskInCard(s, sub)
    BY <1>11 DEF TogglesSub
  <2>4. HasSub(s) /\ store \in Stores /\ store.subs \in Lists /\ sub \in Subtasks
        /\ store # Gone
    BY <1>11, ToggledIs
  <2>5. sub.title = store.subs[s].title /\ store.subs[s] \in Subtasks
        /\ store.subs[s].done \in BOOLEAN
    BY <2>4, ListIs DEF HasSub, Subtasks
  <2> HIDE DEF sub
  <2>6. store'.subs = [store.subs EXCEPT ![s] = sub]
    BY <2>3, <2>4, UpdateIs
  <2>7. Knew(ask)
    BY <1>2, <2>2, <2>4, <2>5, ToggleMade
  <2>8. ListNews' /\ ToggleKnows' /\ Keeps /\ Asking("toggle", s)'
    BY <1>6, <1>11, <2>2, <2>7, SentOn DEF TogglesSub
  <2>9. ListShown'
    BY <1>1, <1>2, <2>4, <2>5, <2>6, <2>8, ListUpdated
  <2>10. QED
    BY <2>8, <2>9 DEF ListGood
<1>12. ASSUME NEW r \in Slots, NEW s \in Subs, NEW title \in Titles, RenamesSub(r, s, title)
       PROVE ListGood'
  <2>1. PICK ask \in Asks : Sent(r, ask) /\ ask.op = "rename" /\ ask.by = Me /\ ask.sub = s
    BY <1>12, RenameSent
  <2> DEFINE sub == [store.subs[s] EXCEPT !.title = title]
  <2>2. store' = updateSubtaskInCard(s, sub)
    BY <1>12 DEF RenamesSub
  <2>3. HasSub(s) /\ store \in Stores /\ store.subs \in Lists /\ sub \in Subtasks
        /\ store # Gone
    BY <1>12, RenamedIs
  <2>4. sub.done = store.subs[s].done
    BY <2>3, ListIs DEF HasSub, Subtasks
  <2> HIDE DEF sub
  <2>5. store'.subs = [store.subs EXCEPT ![s] = sub]
    BY <2>2, <2>3, UpdateIs
  <2>6. ListNews' /\ ToggleKnows' /\ Keeps /\ Asking("rename", s)'
    BY <1>6, <1>12, <2>1, SentOn DEF RenamesSub
  <2>7. ListShown'
    BY <1>1, <1>2, <2>3, <2>4, <2>5, <2>6, ListUpdated
  <2>8. QED
    BY <2>6, <2>7 DEF ListGood
<1>13. ASSUME NEW s \in Subs, HidesSub(s) PROVE ListGood'
  <2>1. /\ HasSub(s) /\ store'.subs = Without(store.subs, s)
        /\ undo' \in Seq(Deletions) /\ Len(undo') = Len(undo) + 1
        /\ \A i \in DOMAIN undo : undo'[i] = undo[i] /\ i \in DOMAIN undo'
        /\ undo'[Len(undo) + 1] = [sub |-> s, toast |-> TRUE]
    BY <1>13, HiddenIs
  <2>2. /\ Len(undo) + 1 \in DOMAIN undo' /\ undo'[Len(undo) + 1].sub = s
    <3>1. Len(undo) \in Nat
      BY DEF Core, UndoTypes
    <3>2. QED
      BY <2>1, <3>1
  <2>3. Hidden(s)' /\ \A t : Hidden(t) => Hidden(t)'
    BY <2>1, <2>2 DEF Hidden
  <2>4. UNCHANGED reqs
    BY <1>13 DEF HidesSub
  <2>5. ListNews' /\ ToggleKnows' /\ Keeps
    BY <1>3, <2>3, <2>4 DEF Keeps
  <2>6. ListShown'
    BY <1>1, <1>2, <2>1, <2>3, <2>5, ListHidden
  <2>7. QED
    BY <2>5, <2>6 DEF ListGood
<1>14. ASSUME NEW r \in Slots, NEW i \in DOMAIN undo, UndoesSub(r, i) PROVE ListGood'
  <2>1. Sent(r, Refetch) /\ store' = store /\ Refetch \in Asks /\ Refetch.op = "get"
    BY <1>14, OtherAsks DEF UndoesSub
  <2>2. ListNews' /\ ToggleKnows' /\ Fetching'
        /\ \A s : \A op \in {"toggle", "rename", "drop"} : Asking(op, s) => Asking(op, s)'
    BY <1>1, <1>2, <2>1, ListSent, SentOn
  <2>3. Keeps
    BY <2>2 DEF Keeps
  <2>4. QED
    BY <1>1, <1>2, <2>1, <2>2, <2>3, ListStays DEF ListGood
<1>15. ASSUME NEW i \in DOMAIN undo, Dismisses(i) PROVE ListGood'
  <2>1. UNCHANGED <<reqs, store>>
    BY <1>15 DEF Dismisses
  <2>2. DOMAIN undo' = DOMAIN undo /\ \A j \in DOMAIN undo : undo'[j].sub = undo[j].sub
    BY <1>15, DismissIs
  <2>3. \A t : Hidden(t) => Hidden(t)'
    BY <2>2 DEF Hidden
  <2>4. ListNews' /\ ToggleKnows' /\ Keeps
    BY <1>3, <2>1, <2>3 DEF Keeps
  <2>5. QED
    BY <1>1, <1>2, <2>1, <2>4, ListStays DEF ListGood
<1>16. ASSUME NEW r \in Slots, DropsSub(r) PROVE ListGood'
  <2>1. /\ Len(undo) \in Nat /\ Len(undo) > 0 /\ DOMAIN undo = 1 .. Len(undo)
        /\ DOMAIN undo' = 1 .. Len(undo) - 1
        /\ \A i \in DOMAIN undo' : i + 1 \in DOMAIN undo /\ undo'[i] = undo[i + 1]
    BY <1>16, DropSent
  <2>2. PICK ask \in Asks :
          Sent(r, ask) /\ ask.op = "drop" /\ ask.by = Me /\ ask.sub = undo[1].sub
    BY <1>16, DropSent
  <2>3. PICK s : s = undo[1].sub
    OBVIOUS
  <2>4. /\ ListNews' /\ ToggleKnows' /\ Asking("drop", s)'
        /\ \A t : \A op \in {"toggle", "rename", "drop"} : Asking(op, t) => Asking(op, t)'
        /\ Fetching => Fetching'
    BY <1>1, <1>2, <2>2, <2>3, ListSent, SentOn
  <2>5. ASSUME NEW t, Hidden(t) PROVE Hidden(t)' \/ Asking("drop", t)'
    <3>1. PICK i \in DOMAIN undo : undo[i].sub = t
      BY <2>5 DEF Hidden
    <3>2. CASE i = 1
      BY <2>3, <2>4, <3>1, <3>2
    <3>3. CASE i # 1
      <4>1. i - 1 \in DOMAIN undo' /\ undo'[i - 1] = undo[i]
        BY <2>1, <3>1, <3>3
      <4>2. QED
        BY <3>1, <4>1 DEF Hidden
    <3>4. QED
      BY <3>2, <3>3
  <2>6. Keeps
    BY <2>4, <2>5 DEF Keeps
  <2>7. store' = store
    BY <1>16 DEF DropsSub
  <2>8. QED
    BY <1>1, <1>2, <2>4, <2>6, <2>7, ListStays DEF ListGood
<1>17. ASSUME NEW r \in Slots, NEW to \in Columns, MovesCard(r, to) PROVE ListGood'
  <2>1. PICK ask \in Asks : Sent(r, ask) /\ ask.op = "move"
    BY <1>17, MoveSent
  <2>2. QED
    BY <1>7, <1>17, <2>1, MoveSent DEF MovesCard
<1>18. ASSUME NEW r \in Slots, DeletesCard(r) PROVE ListGood'
  <2>1. PICK ask \in Asks : Sent(r, ask) /\ ask.op = "delete"
    BY <1>18, DeleteSent
  <2>2. QED
    BY <1>7, <1>18, <2>1, DeleteSent DEF DeletesCard
<1>19. QED
  BY <1>8, <1>9, <1>10, <1>11, <1>12, <1>13, <1>14, <1>15, <1>16, <1>17, <1>18 DEF Local
\* A write of the list is newer than everything this tab has heard, and is said;
\* another write says nothing of the list, but for the answer of a fetch.
LEMMA ListNewsWrite ==
  ASSUME Typing, NEW r \in Slots, Write(r), db # Gone, reqs[r].ask.op # "delete",
         NEW d \in Rows, d = db, NEW row, row = Rewritten(reqs[r].ask), ListNewsOf(d)
  PROVE /\ ListNewsOf(row)' /\ row \in Rows /\ db' = row
        /\ reqs[r].ask.op \in {"add", "toggle", "rename", "drop"} => heard.list < row.listVer
        /\ reqs[r].ask.op \notin {"add", "toggle", "rename", "drop"} =>
             row.listVer = d.listVer /\ row.subs = d.subs
<1> DEFINE q == reqs[r].ask
           lists == q.op \in {"add", "toggle", "rename", "drop"}
<1>1. Wrote(r) /\ reqs' \in [Slots -> {Idle} \cup Requests]
  BY WriteIs DEF Typing, ReqTypes
<1>2. /\ q \in Asks /\ ~Refused(q) /\ db' = row /\ Rest(r) /\ UNCHANGED <<inbox, heard>>
      /\ reqs[r] \in Requests /\ row = Rewritten(q)
  BY <1>1 DEF Wrote, Write
<1>3. row \in Rows /\ RowAfter(q, row) /\ (q.op \in {"get", "tag", "create"} => row = db)
  BY <1>2, RowIs DEF Typing
<1>4. /\ heard.list \in Nat /\ inbox \in Seq(Events) /\ d.listVer \in Nat
      /\ \A t \in Slots : Open(t) => reqs[t] \in Requests
  BY OpenIs DEF Typing, Core, HistoryTypes, InboxTypes, Rows
<1>5. /\ \A i \in DOMAIN inbox : inbox[i].kind = "subtasks" => inbox[i].listVer \in Nat
      /\ \A t \in Slots : Open(t) =>
           /\ reqs[t].event.kind = "subtasks" => reqs[t].event.listVer \in Nat
           /\ reqs[t].made # NoEvent => reqs[t].made.listVer \in Nat
  <2>1. \A e \in Events \cup {NoEvent} : e.kind = "subtasks" => e.listVer \in Nat
    BY KindIs, Plain
  <2>2. \A m \in Creations : m.listVer \in Nat
    BY DEF Creations
  <2>3. \A x \in Requests : x.event \in Events \cup {NoEvent} /\ x.made \in Creations \cup {NoEvent}
    BY DEF Requests
  <2>4. QED
    BY <1>4, <2>1, <2>2, <2>3
<1>6. \A t \in Slots \ {r} : reqs'[t] = reqs[t] /\ (Open(t)' <=> Open(t)) /\ (Unsaid(t)' <=> Unsaid(t))
  BY <1>2 DEF Rest, Unsaid
<1> HIDE DEF q
<1>7. CASE lists
  <2>1. row.listVer = d.listVer + 1
    BY <1>3, <1>7 DEF RowAfter, ListRow
  <2>2. Unsaid(r)' /\ reqs'[r].event = Event(q, row)
    BY <1>7, WriteUnsaid DEF q
  <2>3. /\ Event(q, row).kind = "subtasks" /\ Event(q, row).list = row.subs
        /\ Event(q, row).listVer = row.listVer
    BY <1>2, <1>7, EventIs DEF Typing
  <2>4. reqs'[r].made # NoEvent => reqs'[r].made.listVer = row.listVer
    <3>1. reqs'[r].made = Made(q, row)
      BY <1>1, <1>7 DEF Wrote, q
    <3>2. QED
      BY <1>2, <1>7, <3>1, EventIs DEF Typing
  <2>5. Brings(reqs'[r], row)
    BY <1>3, <2>1, <2>2, <2>3, <2>4, <1>4 DEF Brings, TellsList
  <2>6. \A t \in Slots : Open(t)' => Brings(reqs'[t], row)
    <3>1. ASSUME NEW t \in Slots \ {r}, Open(t) PROVE Brings(reqs[t], row)
      BY <1>4, <1>5, <2>1, <3>1 DEF ListNewsOf, Brings, TellsList
    <3>2. QED
      BY <1>6, <2>5, <3>1
  <2>7. \A i \in DOMAIN inbox' : TellsList(inbox'[i], row)
    BY <1>2, <1>4, <1>5, <2>1 DEF ListNewsOf, TellsList
  <2>8. ListComing(row)'
    BY <2>2, <2>3 DEF ListComing, SaysList
  <2>9. heard.list < row.listVer /\ heard'.list <= row.listVer
    BY <1>2, <1>4, <2>1 DEF ListNewsOf
  <2>10. QED
    BY <1>2, <1>3, <1>7, <2>6, <2>7, <2>8, <2>9 DEF ListNewsOf, TellsList, Brings, q
<1>8. CASE ~lists
  <2>1. row.listVer = d.listVer /\ row.subs = d.subs
    BY <1>2, <1>3, <1>8, AskIs DEF RowAfter, SameList, q
  <2>2. ASSUME Open(r)' PROVE Brings(reqs'[r], row)
    <3>1. CASE q.op = "tag"
      <4>1. reqs'[r].event = reqs[r].event /\ reqs'[r].made = reqs[r].made /\ Open(r)
        BY <1>1, <3>1 DEF Wrote, q
      <4>2. QED
        BY <2>1, <4>1 DEF ListNewsOf, Brings, TellsList
    <3>2. CASE q.op = "get"
      <4>1. reqs'[r].event = ListEvent(db) /\ reqs'[r].made = reqs[r].made /\ Open(r)
        BY <1>1, <3>2 DEF Wrote, q
      <4>2. ListEvent(db).list = d.subs /\ ListEvent(db).listVer = d.listVer
        BY DEF ListEvent
      <4>3. QED
        BY <1>4, <2>1, <4>1, <4>2 DEF ListNewsOf, Brings, TellsList
    <3>3. CASE q.op \in {"save", "move"}
      <4>1. reqs'[r].event = Event(q, row) /\ reqs'[r].made = Made(q, row)
        BY <1>1, <3>3 DEF Wrote, q
      <4>2. Event(q, row).kind # "subtasks" /\ Made(q, row) = NoEvent
        BY <1>2, <3>3, EventIs DEF Typing
      <4>3. QED
        BY <4>1, <4>2 DEF Brings, TellsList
    <3>4. q.op # "create"
      BY <1>1, <2>2 DEF Wrote, q, Open
    <3>5. QED
      BY <1>2, <1>8, <3>1, <3>2, <3>3, <3>4, AskIs DEF q
  <2>3. \A t \in Slots : Open(t)' => Brings(reqs'[t], row)
    <3>1. ASSUME NEW t \in Slots \ {r}, Open(t) PROVE Brings(reqs[t], row)
      BY <2>1, <3>1 DEF ListNewsOf, Brings, TellsList
    <3>2. QED
      BY <1>6, <2>2, <3>1
  <2>4. \A i \in DOMAIN inbox' : TellsList(inbox'[i], row)
    BY <1>2, <2>1 DEF ListNewsOf, TellsList
  <2>5. ASSUME ListComing(d) PROVE ListComing(row)'
    <3>1. ~Unsaid(r)
      BY WriteUnsaid
    <3>2. QED
      BY <1>2, <1>6, <2>1, <2>5, <3>1 DEF ListComing, SaysList
  <2>6. QED
    BY <1>2, <1>3, <1>8, <2>1, <2>3, <2>4, <2>5 DEF ListNewsOf, TellsList, Brings, q
<1>9. QED
  BY <1>7, <1>8

\* A write keeps what is known and shown of the list.
LEMMA ListWrite ==
  ASSUME Typing, ListGood, NEW r \in Slots, Write(r) PROVE ListGood'
<1> DEFINE q == reqs[r].ask
<1>1. /\ Wrote(r) /\ UNCHANGED <<store, undo, inbox, heard, listDoubt>>
      /\ ListNews /\ ListShown /\ ToggleKnows
  BY WriteIs DEF Typing, Write, ListGood
<1>2. q \in Asks /\ ~Refused(q) /\ db' = Rewritten(q)
  BY <1>1 DEF Wrote
<1>3. /\ \A t \in Slots \ {r} : reqs'[t] = reqs[t] /\ (Open(t)' <=> Open(t))
      /\ ~Waiting(r)'
  BY WriteUnsaid
<1>4. \A t \in Slots : Waiting(t)' => Waiting(t) /\ reqs'[t] = reqs[t]
  BY <1>3 DEF Waiting
<1>5. CASE db' = Gone
  <2>1. ASSUME NEW x, Knew(x) PROVE Knew(x)'
    BY <1>1, <1>5, <2>1 DEF Knew
  <2>2. ToggleKnows'
    BY <1>1, <1>4, <2>1 DEF ToggleKnows, Knew
  <2>3. QED
    BY <1>5, <2>2 DEF ListGood, ListNews, ListShown
<1>6. CASE db' # Gone
  <2>1. db # Gone /\ q.op # "delete" /\ db \in Rows
    BY <1>2, <1>6, RowIs DEF Typing, Core, DbTypes
  <2>2. PICK d, row : d = db /\ row = Rewritten(q)
    OBVIOUS
  <2>3. d \in Rows /\ ListNewsOf(d) /\ d.listVer \in Nat /\ heard.list \in Nat
    BY <1>1, <2>1, <2>2 DEF ListNews, Typing, Core, HistoryTypes, Rows
  <2>4. /\ ListNewsOf(row)' /\ row \in Rows /\ db' = row
        /\ q.op \in {"add", "toggle", "rename", "drop"} => heard.list < row.listVer
        /\ q.op \notin {"add", "toggle", "rename", "drop"} =>
             row.listVer = d.listVer /\ row.subs = d.subs
    BY <2>1, <2>2, <2>3, ListNewsWrite
  <2>5. ListNews'
    BY <2>4 DEF ListNews, ListNewsOf, ListComing, TellsList, SaysList, Brings
  <2>6. row.listVer \in Nat
    BY <2>4 DEF Rows
  <2>7. CASE q.op \in {"add", "toggle", "rename", "drop"}
    <3>1. heard'.list # db'.listVer
      BY <1>1, <2>3, <2>4, <2>6, <2>7
    <3>2. ASSUME NEW x, Knew(x) PROVE Knew(x)'
      BY <1>1, <3>1, <3>2 DEF Knew
    <3>3. ToggleKnows'
      BY <1>1, <1>4, <3>2 DEF ToggleKnows, Knew
    <3>4. ListShown'
      BY <3>1 DEF ListShown, UpToDate
    <3>5. QED
      BY <2>5, <3>3, <3>4 DEF ListGood
  <2>8. CASE q.op \notin {"add", "toggle", "rename", "drop"}
    <3>1. db'.listVer = db.listVer /\ db'.subs = db.subs
      BY <2>2, <2>4, <2>8
    <3>2. ASSUME NEW x, Knew(x) PROVE Knew(x)'
      BY <1>1, <1>6, <2>1, <3>1, <3>2 DEF Knew
    <3>3. ToggleKnows'
      BY <1>1, <1>4, <3>2 DEF ToggleKnows, Knew
    <3>4. ASSUME NEW s, NEW op \in {"toggle", "rename", "drop"}, Asking(op, s) PROVE Asking(op, s)'
      <4>1. PICK t \in Slots : AsksOf(t, op, s)
        BY <3>4 DEF Asking
      <4>2. t # r
        BY <2>8, <4>1 DEF AsksOf
      <4>3. QED
        BY <1>3, <4>1, <4>2 DEF Asking, AsksOf, Waiting
    <3>5. ASSUME Fetching PROVE Fetching'
      <4>1. PICK t \in Slots : Open(t) /\ reqs[t].ask.op = "get"
        BY <3>5 DEF Fetching
      <4>2. CASE t = r
        BY <1>1, <4>1, <4>2 DEF Wrote, Fetching
      <4>3. CASE t # r
        BY <1>3, <4>1, <4>3 DEF Fetching
      <4>4. QED
        BY <4>2, <4>3
    <3>6. Keeps
      BY <1>1, <3>4, <3>5 DEF Keeps, Hidden
    <3>7. ListShown'
      <4> SUFFICES ASSUME store' # Gone, store'.subs # NoList, UpToDate'
                   PROVE Matches(store.subs, db.subs)'
        BY DEF ListShown
      <4>1. PICK l, m : l = store.subs /\ m = db.subs
        OBVIOUS
      <4>2. Matches(l, m) /\ l \in Lists /\ m \in Lists
        BY <1>1, <2>1, <3>1, <4>1, ShownLists DEF ListShown, UpToDate, Typing
      <4>3. Matches(l, m)'
        BY <3>6, <4>2, MatchesKept
      <4>4. store'.subs = l /\ db'.subs = m
        BY <1>1, <3>1, <4>1
      <4>5. QED
        BY <4>3, <4>4 DEF Matches, Fits
    <3>8. QED
      BY <2>5, <3>3, <3>7 DEF ListGood
  <2>9. QED
    BY <2>7, <2>8
<1>7. QED
  BY <1>5, <1>6
-----------------------------------------------------------------------------
\* What an open request has to tell and to answer stays, but for the list that is
\* read again; a request that takes a slot has nothing yet.
LEMMA OpenServer ==
  ASSUME Typing, ServerStep, \A r \in Slots : ~Write(r), NEW t \in Slots, Open(t)'
  PROVE \/ /\ Open(t) /\ SameNews(reqs[t].event, reqs'[t].event)
           /\ reqs'[t].made = reqs[t].made
        \/ reqs'[t].event = NoEvent /\ reqs'[t].made = NoEvent
<1> DEFINE Goal == \/ /\ Open(t) /\ SameNews(reqs[t].event, reqs'[t].event)
                      /\ reqs'[t].made = reqs[t].made
                   \/ reqs'[t].event = NoEvent /\ reqs'[t].made = NoEvent
<1>1. ASSUME reqs'[t] = reqs[t], Open(t) PROVE Goal
  BY <1>1 DEF SameNews
<1>2. ASSUME NEW r \in Slots, Rest(r), r # t PROVE Goal
  BY <1>1, <1>2 DEF Rest
<1>3. ASSUME NEW r \in Slots, Rest(r), ~Open(r)' PROVE Goal
  BY <1>2, <1>3
<1>4. ASSUME reqs'[t] = Request(Refetch) PROVE Goal
  BY <1>4 DEF Request
<1>5. CASE applyWsMessage
  BY <1>1, <1>5, ArriveIs DEF Open
<1>6. ASSUME NEW r \in Slots, ReadSubtasks(r) PROVE Goal
  <2>1. /\ Rest(r) /\ reqs[r].event.kind = "subtasks" /\ Open(r) /\ db # Gone
        /\ reqs'[r].event = ListEvent(db) /\ reqs'[r].made = reqs[r].made
    BY <1>6, ReadIs DEF Typing
  <2>2. QED
    BY <1>2, <2>1 DEF SameNews
<1>7. ASSUME NEW r \in Slots, Emit(r) PROVE Goal
  <2>1. /\ Rest(r) /\ Open(r)
        /\ \/ ~Open(r)'
           \/ reqs'[r].made = reqs[r].made /\ reqs'[r].event = reqs[r].event
    BY <1>7, EmitIs DEF Typing
  <2>2. QED
    BY <1>2, <1>3, <2>1 DEF SameNews
<1>8. ASSUME NEW r \in Slots, Answered(r) PROVE Goal
  BY <1>3, <1>8, AnswerIs
<1>9. ASSUME NEW r \in Slots, Forget(r) PROVE Goal
  BY <1>3, <1>9, LeaveIs DEF Forget, Typing
<1>10. ASSUME NEW r \in Slots, Fail(r) PROVE Goal
  <2>1. Rest(r) /\ (~Open(r)' \/ reqs'[r] = Request(Refetch))
    BY <1>10, FailIs
  <2>2. QED
    BY <1>2, <1>3, <1>4, <2>1
<1>11. ASSUME NEW r \in Slots, Cut(r) PROVE Goal
  <2>1. /\ Open(r) /\ reqs'[r].event = reqs[r].event /\ reqs'[r].made = reqs[r].made
        /\ (~LooksUp(reqs[r].ask) => Rest(r))
        /\ (LooksUp(reqs[r].ask) =>
              \E x \in Slots \ {r} :
               /\ ~Open(x) /\ reqs'[x] = Request(Refetch)
               /\ \A s \in Slots \ {r, x} : reqs'[s] = reqs[s] /\ (Open(s)' <=> Open(s)))
    BY <1>11, CutIs
  <2>2. CASE t = r
    BY <2>1, <2>2 DEF SameNews
  <2>3. CASE t # r /\ ~LooksUp(reqs[r].ask)
    BY <1>2, <2>1, <2>3
  <2>4. CASE t # r /\ LooksUp(reqs[r].ask)
    BY <1>1, <1>4, <2>1, <2>4
  <2>5. QED
    BY <2>2, <2>3, <2>4
<1>12. QED
  BY <1>5, <1>6, <1>7, <1>8, <1>9, <1>10, <1>11 DEF ServerStep

\* News of the list stays news of it when it is read again.
LEMMA ListNewsKept ==
  ASSUME NEW e, NEW d, SameNews(e, d), NEW row, row = db, row # Gone,
         row.listVer \in Nat
  PROVE /\ TellsList(e, row) => TellsList(d, row)
        /\ SaysList(e, row) => SaysList(d, row)
<1>1. /\ ListEvent(row).kind = "subtasks" /\ ListEvent(row).list = row.subs
      /\ ListEvent(row).listVer = row.listVer
  BY DEF ListEvent
<1>2. QED
  BY <1>1 DEF SameNews, TellsList, SaysList

\* The list this tab heard of last is the newest it was shown.
LEMMA HeardServer ==
  ASSUME Typing, ServerStep, \A r \in Slots : ~Write(r), ~applyWsMessage,
         NEW row, ListNewsOf(row), row.listVer \in Nat
  PROVE heard.list <= heard'.list /\ heard'.list <= row.listVer
<1>1. heard.list \in Nat /\ heard.list <= row.listVer
  BY DEF Typing, Core, HistoryTypes, ListNewsOf
<1>2. ASSUME NEW r \in Slots, Answered(r) PROVE heard.list <= heard'.list /\ heard'.list <= row.listVer
  <2>1. CASE reqs[r].ask.op = "get" /\ reqs[r].event \in ListEvents
             /\ reqs[r].event.list \in Lists /\ reqs[r].event.listVer \in Nat
             /\ ShowList(reqs[r].event.list, reqs[r].event.listVer)
    <3>1. heard'.list = IF reqs[r].event.listVer <= heard.list THEN heard.list
                        ELSE reqs[r].event.listVer
      BY <2>1, ShowIs
    <3>2. reqs[r].event.listVer <= row.listVer
      BY <1>2, <2>1, AnswerIs DEF ListNewsOf, Brings, TellsList, ListEvents
    <3>3. QED
      BY <1>1, <2>1, <3>1, <3>2
  <2>2. CASE reqs[r].made \in Creations /\ AppendAnswer(reqs[r].made)
    BY <1>1, <2>2, JoinIs
  <2>3. QED
    BY <1>2, <2>1, <2>2, AnswerIs
<1>3. ASSUME NEW r \in Slots, ReadSubtasks(r) \/ Emit(r) \/ Forget(r) \/ Fail(r) \/ Cut(r)
      PROVE heard' = heard
  BY <1>3 DEF ReadSubtasks, Emit, Forget, Fail, Cut, history
<1>4. QED
  BY <1>1, <1>2, <1>3 DEF ServerStep

\* Steps other than a write and an arrival bring no false news of the list.
LEMMA ListNewsServer ==
  ASSUME Typing, ServerStep, \A r \in Slots : ~Write(r), ~applyWsMessage,
         NEW row, row = db, row # Gone, ListNewsOf(row)
  PROVE ListNewsOf(row)' /\ heard.list <= heard'.list
<1>1. row.listVer \in Nat /\ heard.list \in Nat
  BY DEF Typing, Core, DbTypes, Rows, HistoryTypes
<1>2. inbox' = inbox \/ \E r \in Slots : Unsaid(r) /\ inbox' = Append(inbox, reqs[r].event)
  BY DEF ServerStep, Emit, ReadSubtasks, Answered, Forget, Fail, Cut, Unsaid
<1>3. heard.list <= heard'.list /\ heard'.list <= row.listVer
  BY <1>1, HeardServer
<1>4. inbox \in Seq(Events)
  BY DEF Typing, Core, InboxTypes
<1>5. \A i \in DOMAIN inbox : i \in DOMAIN inbox' /\ inbox'[i] = inbox[i]
  <2>1. ASSUME NEW e, inbox' = Append(inbox, e)
        PROVE \A i \in DOMAIN inbox : i \in DOMAIN inbox' /\ inbox'[i] = inbox[i]
    BY <1>4, <2>1
  <2>2. QED
    BY <1>2, <2>1
<1>6. \A i \in DOMAIN inbox' : TellsList(inbox'[i], row)
  <2>1. ASSUME NEW r \in Slots, Unsaid(r), inbox' = Append(inbox, reqs[r].event)
        PROVE \A i \in DOMAIN inbox' : TellsList(inbox'[i], row)
    <3>1. TellsList(reqs[r].event, row)
      BY <2>1 DEF ListNewsOf, Brings, Unsaid
    <3>2. QED
      BY <1>4, <2>1, <3>1 DEF ListNewsOf
  <2>2. QED
    BY <1>2, <2>1 DEF ListNewsOf
<1>7. ASSUME NEW r \in Slots, Open(r)' PROVE Brings(reqs'[r], row)
  <2>1. CASE /\ Open(r) /\ SameNews(reqs[r].event, reqs'[r].event)
             /\ reqs'[r].made = reqs[r].made
    BY <1>1, <2>1, ListNewsKept DEF ListNewsOf, Brings
  <2>2. CASE reqs'[r].event = NoEvent /\ reqs'[r].made = NoEvent
    BY <2>2, Plain DEF Brings, TellsList
  <2>3. QED
    BY <1>7, <2>1, <2>2, OpenServer
<1>8. ASSUME ListComing(row) PROVE ListComing(row)'
  <2>1. CASE \E i \in DOMAIN inbox : SaysList(inbox[i], row)
    BY <1>5, <2>1 DEF ListComing
  <2>2. ASSUME NEW r \in Slots, Unsaid(r), SaysList(reqs[r].event, row) PROVE ListComing(row)'
    <3>1. CASE Unsaid(r)' /\ SameNews(reqs[r].event, reqs'[r].event)
      BY <1>1, <2>2, <3>1, ListNewsKept DEF ListComing
    <3>2. CASE inbox' = Append(inbox, reqs[r].event)
      <4>1. Len(inbox) + 1 \in DOMAIN inbox' /\ inbox'[Len(inbox) + 1] = reqs[r].event
        BY <1>4, <3>2
      <4>2. QED
        BY <2>2, <4>1 DEF ListComing
    <3>3. QED
      BY <2>2, <3>1, <3>2, UnsaidServer
  <2>3. QED
    BY <1>8, <2>1, <2>2 DEF ListComing
<1>9. heard'.list < row.listVer => ListComing(row)
  <2>1. heard.list < row.listVer => ListComing(row)
    BY DEF ListNewsOf
  <2>2. heard'.list \in Nat \/ heard'.list = heard.list
    BY StepTypes, TwoSides DEF Typing, Core, HistoryTypes
  <2>3. QED
    BY <1>1, <1>3, <2>1, <2>2
<1>10. QED
  BY <1>3, <1>6, <1>7, <1>8, <1>9 DEF ListNewsOf
\* A list that matched still does, whatever becomes of the toggles of one subtask, as
\* long as that one is right.
LEMMA MatchesBut ==
  ASSUME NEW l \in Lists, NEW d \in Lists, Matches(l, d), NEW x, NEW m,
         DOMAIN m = DOMAIN l, \A s \in DOMAIN l : m[s].title = l[s].title,
         \A s \in DOMAIN l : s # x => m[s].done = l[s].done,
         x \in DOMAIN l => m[x].done = d[x].done,
         \A s \in Subs : s # x /\ Asking("toggle", s) => Asking("toggle", s)',
         \A s \in Subs : Asking("rename", s) => Asking("rename", s)' \/ Fetching',
         \A s \in Subs : Asking("drop", s) => Asking("drop", s)' \/ Fetching',
         \A s \in Subs : Hidden(s) => Hidden(s)', Fetching => Fetching'
  PROVE Matches(m, d)'
<1>1. DOMAIN l \subseteq Subs /\ DOMAIN d \subseteq Subs
  BY ListIs
<1>2. ASSUME NEW s \in DOMAIN m PROVE Fits(m[s], d[s], s)'
  <2>1. Fits(l[s], d[s], s) /\ s \in Subs
    BY <1>1, <1>2 DEF Matches
  <2>2. m[s].title = d[s].title \/ Asking("rename", s)' \/ Fetching'
    BY <1>2, <2>1 DEF Fits
  <2>3. m[s].done = d[s].done \/ Asking("toggle", s)'
    BY <1>2, <2>1 DEF Fits
  <2>4. QED
    BY <2>2, <2>3 DEF Fits
<1>3. ASSUME NEW s \in DOMAIN d \ DOMAIN m
      PROVE Hidden(s)' \/ Asking("drop", s)' \/ Fetching'
  BY <1>1, <1>3 DEF Matches
<1>4. QED
  BY <1>2, <1>3 DEF Matches

\* A new list takes the place of the old one: if it is the newest, it is the row's.
LEMMA ListReplaced ==
  ASSUME Typing, db # Gone, ListShown, ListNewsOf(db), NEW e \in ListEvents,
         ShowList(e.list, e.listVer), TellsList(e, db), UNCHANGED db
  PROVE ListShown'
<1> SUFFICES ASSUME store' # Gone, UpToDate' PROVE Matches(store.subs, db.subs)'
  BY DEF ListShown
<1>1. e.list \in Lists /\ e.listVer \in Nat /\ e.kind = "subtasks"
  BY DEF ListEvents
<1>2. /\ store # Gone /\ store'.subs = e.list /\ listDoubt' = (e.listVer < heard.list)
      /\ heard'.list = IF e.listVer <= heard.list THEN heard.list ELSE e.listVer
  BY <1>1, ShowIs
<1>3. heard.list \in Nat /\ ~listDoubt' /\ heard'.list = db.listVer
  BY DEF Typing, Core, HistoryTypes, UpToDate
<1>4. ~(e.listVer < heard.list)
  BY <1>2, <1>3, Zenon
<1>5. e.listVer = db.listVer
  BY <1>1, <1>2, <1>3, <1>4
<1>6. store'.subs = db.subs
  BY <1>1, <1>2, <1>5 DEF TellsList
<1>7. PICK d : d = db.subs
  OBVIOUS
<1>8. DOMAIN d \subseteq DOMAIN d
  OBVIOUS
<1>9. QED
  BY <1>6, <1>7 DEF Matches, Fits

\* A toggle goes on knowing what it was made of, however much the tab hears.
LEMMA KnewKept ==
  ASSUME NEW q, Knew(q), heard.list \in Nat, heard'.list \in Nat, heard.list <= heard'.list,
         q.since \in Nat, UNCHANGED db
  PROVE Knew(q)'
<1>1. q.since <= heard'.list
  BY DEF Knew
<1>2. ASSUME q.since = heard'.list PROVE heard.list = heard'.list
  BY <1>2 DEF Knew
<1>3. QED
  BY <1>1, <1>2 DEF Knew

\* Toggles under way know what they were made of after every step but a write.
LEMMA KnewServer ==
  ASSUME Typing, ToggleKnows, ServerStep, \A r \in Slots : ~Write(r),
         heard.list <= heard'.list, UNCHANGED db
  PROVE ToggleKnows'
<1>1. heard.list \in Nat /\ heard'.list \in Nat
  BY StepTypes, TwoSides DEF Typing, Core, HistoryTypes
<1>2. ASSUME NEW r \in Slots, Waiting(r)', reqs'[r].ask.op = "toggle" PROVE Knew(reqs[r].ask)'
  <2>1. PICK q : q = reqs'[r].ask
    OBVIOUS
  <2>2. q # Refetch
    BY <1>2, <2>1 DEF Refetch
  <2>3. Waiting(r) /\ reqs[r].ask = q
    BY <1>2, <2>1, <2>2, WaitingServer
  <2>4. Knew(q)
    BY <1>2, <2>1, <2>3 DEF ToggleKnows
  <2>5. q.since \in Nat
    <3>1. Open(r) /\ reqs[r] \in Requests
      BY <2>3, OpenIs DEF Waiting, Typing, Core
    <3>2. q \in Asks
      BY <2>3, <3>1 DEF Requests
    <3>3. QED
      BY <1>2, <2>1, <3>2, AskIs DEF ToggleAsks
  <2>6. Knew(q)'
    BY <1>1, <2>4, <2>5, KnewKept
  <2>7. QED
    BY <2>1, <2>6 DEF Knew
<1>3. QED
  BY <1>2 DEF ToggleKnows, Knew
\* What is under way beside a request that failed goes on, and what is looked up is
\* fetched.
LEMMA FailedKeeps ==
  ASSUME Typing, NEW r \in Slots, Fail(r) \/ Cut(r)
  PROVE /\ \A s : \A op \in {"toggle", "rename", "drop"} :
             Asking(op, s) => Asking(op, s)' \/ AsksOf(r, op, s)
        /\ Fetching => Fetching' \/ reqs[r].ask.op = "get"
        /\ LooksUp(reqs[r].ask) => Fetching'
        /\ \A s : Hidden(s) => Hidden(s)'
<1>1. ASSUME NEW t \in Slots \ {r}, Open(t) PROVE Open(t)' /\ reqs'[t] = reqs[t]
  <2>1. CASE Rest(r)
    BY <1>1, <2>1 DEF Rest
  <2>2. CASE Fail(r)
    BY <2>1, <2>2, FailIs
  <2>3. CASE Cut(r) /\ LooksUp(reqs[r].ask)
    <3>1. PICK x \in Slots \ {r} :
            /\ ~Open(x)
            /\ \A s \in Slots \ {r, x} : reqs'[s] = reqs[s] /\ (Open(s)' <=> Open(s))
      BY <2>3, CutIs
    <3>2. t # x
      BY <1>1, <3>1
    <3>3. QED
      BY <1>1, <3>1, <3>2
  <2>4. CASE Cut(r) /\ ~LooksUp(reqs[r].ask)
    BY <2>1, <2>4, CutIs
  <2>5. QED
    BY <2>2, <2>3, <2>4
<1>2. LooksUp(reqs[r].ask) => Fetching'
  <2>1. Request(Refetch).ask.op = "get"
    BY DEF Request, Refetch
  <2>2. CASE Fail(r)
    BY <2>1, <2>2, FailIs DEF Fetching
  <2>3. ASSUME Cut(r), LooksUp(reqs[r].ask) PROVE Fetching'
    <3>1. PICK x \in Slots \ {r} : Open(x)' /\ reqs'[x] = Request(Refetch)
      BY <2>3, CutIs
    <3>2. QED
      BY <2>1, <3>1 DEF Fetching
  <2>4. QED
    BY <2>2, <2>3
<1>3. undo' = undo
  BY DEF Fail, Cut
<1>4. QED
  BY <1>1, <1>2, <1>3 DEF Asking, AsksOf, Waiting, Fetching, Hidden

\* What failed is taken back or fetched again, or it is in doubt.
LEMMA ListReverted ==
  ASSUME Typing, ListShown, ToggleKnows, db # Gone, UNCHANGED db, NEW r \in Slots,
         Fail(r) \/ Cut(r)
  PROVE ListShown'
<1> DEFINE q == reqs[r].ask
<1> SUFFICES ASSUME store' # Gone, store'.subs # NoList, UpToDate'
             PROVE Matches(store.subs, db.subs)'
  BY DEF ListShown
<1>1. /\ q \in Asks /\ q.by = Me /\ revert(q) /\ Waiting(r) /\ heard' = heard
      /\ ~listDoubt' /\ heard.list = db.listVer
  BY FailIs, CutIs DEF Fail, Cut, UpToDate
<1>2. /\ ~listDoubt /\ q.op # "get"
      /\ q.op = "toggle" => ~q.unsure /\ heard.list = q.since
      /\ q.op \in {"move", "delete"} => store # Gone /\ store.subs = q.snapshot.subs
  BY <1>1 DEF revert
<1>3. UpToDate
  BY <1>1, <1>2 DEF UpToDate
<1>4. /\ \A s : \A op \in {"toggle", "rename", "drop"} :
           Asking(op, s) => Asking(op, s)' \/ AsksOf(r, op, s)
      /\ Fetching => Fetching'
      /\ LooksUp(q) => Fetching'
      /\ \A s : Hidden(s) => Hidden(s)'
  BY <1>2, FailedKeeps
<1>5. PICK d : d = db.subs
  OBVIOUS
<1>6. \A l : l = store'.subs /\ Matches(l, d)' => Matches(store.subs, db.subs)'
  BY <1>5 DEF Matches, Fits
<1>7. ASSUME store # Gone, store.subs = store'.subs, q.op # "toggle" \/ q.sub \notin DOMAIN store.subs
      PROVE Matches(store.subs, db.subs)'
  <2>1. PICK l : l = store.subs
    OBVIOUS
  <2>2. l \in Lists /\ d \in Lists /\ Matches(l, d)
    BY <1>3, <1>5, <1>7, <2>1, ShownLists DEF ListShown, Typing
  <2>3. PICK x : x = IF q.op = "toggle" THEN q.sub ELSE Nobody
    OBVIOUS
  <2>4. x \notin DOMAIN l
    BY <1>7, <2>1, <2>2, <2>3, ListIs, Plain
  <2>5. \A s \in Subs : s # x /\ Asking("toggle", s) => Asking("toggle", s)'
    BY <1>4, <2>3 DEF AsksOf
  <2>6. \A s \in Subs : Asking("rename", s) => Asking("rename", s)' \/ Fetching'
    BY <1>4 DEF AsksOf, LooksUp
  <2>7. \A s \in Subs : Asking("drop", s) => Asking("drop", s)' \/ Fetching'
    BY <1>4 DEF AsksOf, LooksUp
  <2>8. Matches(l, d)'
    BY <1>4, <2>2, <2>4, <2>5, <2>6, <2>7, MatchesBut
  <2>9. QED
    BY <1>6, <1>7, <2>1, <2>8
<1>8. CASE q.op = "toggle" /\ HasSub(q.sub)
  <2>1. PICK x, l : x = q.sub /\ l = store.subs
    OBVIOUS
  <2>2. l \in Lists /\ d \in Lists /\ Matches(l, d) /\ x \in DOMAIN l
    BY <1>3, <1>5, <1>8, <2>1, ShownLists DEF ListShown, Typing, HasSub
  <2>3. PICK sub : sub = [store.subs[q.sub] EXCEPT !.done = ~q.done]
    OBVIOUS
  <2>4. sub \in Subtasks /\ store'.subs = [l EXCEPT ![x] = sub]
    BY <1>1, <1>8, <2>1, <2>3, RevertIs
  <2>5. l[x] \in Subtasks
    BY <2>2, ListIs
  <2>6. sub.title = l[x].title /\ sub.done = ~q.done
    BY <2>1, <2>3, <2>5 DEF Subtasks
  <2>7. x \in DOMAIN d /\ d[x].done = ~q.done
    BY <1>1, <1>2, <1>5, <1>8, <2>1 DEF ToggleKnows, Knew
  <2>8. PICK m : m = [l EXCEPT ![x] = sub]
    OBVIOUS
  <2>9. DOMAIN m = DOMAIN l /\ m[x] = sub /\ \A t \in DOMAIN l : t # x => m[t] = l[t]
    BY <2>2, <2>4, <2>8, ExceptIs
  <2>10. m[x].done = d[x].done
    BY <2>6, <2>7, <2>9
  <2>11. \A s \in DOMAIN l : m[s].title = l[s].title
    BY <2>6, <2>9
  <2>12. \A s \in Subs : s # x /\ Asking("toggle", s) => Asking("toggle", s)'
    BY <1>4, <2>1 DEF AsksOf
  <2>13. \A s \in Subs : Asking("rename", s) => Asking("rename", s)' \/ Fetching'
    BY <1>4, <1>8 DEF AsksOf
  <2>14. \A s \in Subs : Asking("drop", s) => Asking("drop", s)' \/ Fetching'
    BY <1>4, <1>8 DEF AsksOf
  <2>15. Matches(m, d)'
    BY <1>4, <2>2, <2>9, <2>10, <2>11, <2>12, <2>13, <2>14, MatchesBut
  <2>16. QED
    BY <1>6, <2>4, <2>8, <2>15
<1>9. CASE q.op \in {"move", "delete"}
  <2>1. store' = q.snapshot
    BY <1>1, <1>9, RevertIs
  <2>2. QED
    BY <1>2, <1>7, <1>9, <2>1
<1>10. CASE q.op \notin {"move", "delete"} /\ ~(q.op = "toggle" /\ HasSub(q.sub))
  <2>1. store' = store
    BY <1>1, <1>10, RevertIs
  <2>2. q.op # "toggle" \/ q.sub \notin DOMAIN store.subs
    BY <1>10, <2>1 DEF HasSub
  <2>3. QED
    BY <1>7, <2>1, <2>2
<1>11. QED
  BY <1>8, <1>9, <1>10

\* What this tab has heard of the list is only ever newer.
LEMMA HeardGrows == ASSUME Typing, ServerStep PROVE heard.list <= heard'.list
<1>1. heard.list \in Nat
  BY DEF Typing, Core, HistoryTypes
<1>2. ASSUME NEW l \in Lists, NEW v \in Nat, ShowList(l, v) PROVE heard.list <= heard'.list
  <2>1. heard'.list = IF v <= heard.list THEN heard.list ELSE v
    BY <1>2, ShowIs
  <2>2. QED
    BY <1>1, <2>1
<1>3. ASSUME NEW r \in Slots, Answered(r) PROVE heard.list <= heard'.list
  <2>1. CASE reqs[r].made \in Creations /\ AppendAnswer(reqs[r].made)
    BY <1>1, <2>1, JoinIs
  <2>2. QED
    BY <1>2, <1>3, <2>1, AnswerIs
<1>4. CASE applyWsMessage
  <2>1. inbox[1] \in Events
    BY <1>4, ArriveIs
  <2>2. CASE inbox[1].kind = "card"
    <3>1. inbox[1].fields \in Saved /\ inbox[1].ver \in Nat
      BY <2>1, <2>2, KindIs
    <3>2. heard'.list = heard.list
      BY <1>4, <2>2, <3>1, ArriveIs, RowShownIs
    <3>3. QED
      BY <1>1, <3>2
  <2>3. CASE inbox[1].kind = "subtasks"
    BY <1>2, <1>4, <2>1, <2>3, ArriveIs, KindIs
  <2>4. CASE inbox[1].kind \in {"moved", "deleted"}
    BY <1>1, <1>4, <2>4, ArriveIs
  <2>5. QED
    BY <2>1, <2>2, <2>3, <2>4, KindIs
<1>5. ASSUME NEW r \in Slots,
             Write(r) \/ ReadSubtasks(r) \/ Emit(r) \/ Forget(r) \/ Fail(r) \/ Cut(r)
      PROVE heard' = heard
  BY <1>5 DEF Write, ReadSubtasks, Emit, Forget, Fail, Cut, history
<1>6. QED
  BY <1>1, <1>3, <1>4, <1>5 DEF ServerStep

\* An answer leaves the list as it is, or in doubt, or the row's.
LEMMA ListAnswered ==
  ASSUME Typing, ListShown, db # Gone, ListNewsOf(db), UNCHANGED <<db, undo>>, NEW r \in Slots,
         Answered(r)
  PROVE ListShown'
<1>1. Open(r) /\ Rest(r) /\ reqs[r].pc = "answered" /\ Brings(reqs[r], db)
  BY AnswerIs DEF ListNewsOf
<1>2. CASE /\ reqs[r].ask.op = "get" /\ reqs[r].event \in ListEvents
           /\ ShowList(reqs[r].event.list, reqs[r].event.listVer)
  <2>1. TellsList(reqs[r].event, db)
    BY <1>1 DEF Brings
  <2>2. QED
    BY <1>2, <2>1, ListReplaced
<1>3. CASE /\ reqs[r].ask.op = "add" /\ reqs[r].made \in Creations
           /\ AppendAnswer(reqs[r].made)
  <2>1. PICK made \in Creations : made = reqs[r].made
    BY <1>3
  <2>2. AppendAnswer(made)
    BY <1>3, <2>1
  <2>3. made.listVer <= db.listVer /\ made.listVer \in Nat /\ db.listVer \in Nat
        /\ heard.list \in Nat
    BY <1>1, <2>1, Plain DEF Brings, Creations, Typing, Core, DbTypes, Rows, HistoryTypes
  <2>4. CASE New(made)
    <3>1. heard' = heard /\ listDoubt' = (listDoubt \/ made.listVer <= heard.list)
      BY <2>2, <2>4, JoinIs
    <3>2. SUFFICES ASSUME ~listDoubt', heard'.list = db.listVer PROVE FALSE
      BY DEF ListShown, UpToDate
    <3>3. made.listVer <= heard.list
      BY <2>3, <3>1, <3>2
    <3>4. listDoubt'
      BY <3>1, <3>3, Zenon
    <3>5. QED
      BY <3>2, <3>4
  <2>5. CASE ~New(made)
    <3>1. store' = store /\ listDoubt' = listDoubt /\ heard' = heard
      BY <2>2, <2>5, JoinIs
    <3>2. \A t \in Slots : t # r => reqs'[t] = reqs[t] /\ (Open(t)' <=> Open(t))
      BY <1>1 DEF Rest
    <3>3. ASSUME NEW s, NEW op \in {"toggle", "rename", "drop"}, Asking(op, s)
          PROVE Asking(op, s)'
      BY <1>1, <3>2, <3>3 DEF Asking, AsksOf, Waiting
    <3>4. Fetching => Fetching'
      BY <1>3, <3>2 DEF Fetching
    <3>5. Keeps
      BY <3>3, <3>4 DEF Keeps, Hidden
    <3>6. UpToDate' => UpToDate
      BY <3>1 DEF UpToDate
    <3>7. QED
      BY <3>1, <3>5, <3>6, ListStays DEF Typing
  <2>6. QED
    BY <2>4, <2>5
<1>4. QED
  BY <1>2, <1>3, AnswerIs

\* The server's other steps, and an answer, keep what is known and shown of the list.
LEMMA ListServer ==
  ASSUME Typing, ListGood, ServerStep, \A r \in Slots : ~Write(r), ~applyWsMessage
  PROVE ListGood'
<1>1. db' = db /\ ListNews /\ ListShown /\ ToggleKnows
  BY DEF ServerStep, ReadSubtasks, Emit, Answered, Forget, Fail, Cut, ListGood
<1>2. ToggleKnows'
  BY <1>1, HeardGrows, KnewServer
<1> SUFFICES ASSUME db # Gone PROVE ListNews' /\ ListShown'
  BY <1>1, <1>2 DEF ListNews, ListShown, ListGood
<1>3. ListNews' /\ ListNewsOf(db)
  <2>1. PICK row : row = db
    OBVIOUS
  <2>2. ListNewsOf(row)
    BY <1>1, <2>1 DEF ListNews
  <2>3. ListNewsOf(row)'
    BY <2>1, <2>2, ListNewsServer
  <2>4. QED
    BY <1>1, <2>1, <2>2, <2>3
      DEF ListNews, ListNewsOf, ListComing, TellsList, SaysList, Brings
<1>4. ASSUME NEW r \in Slots, ReadSubtasks(r) \/ Emit(r) \/ Forget(r) PROVE ListShown'
  <2>1. UNCHANGED <<store, undo, heard, listDoubt>>
    BY <1>4 DEF ReadSubtasks, Emit, Forget, history
  <2>2. /\ \A t \in Slots \ {r} : reqs'[t] = reqs[t] /\ (Open(t)' <=> Open(t))
        /\ Open(r) /\ Whole(r) /\ ~Waiting(r) /\ reqs[r].ask.op # "get"
    <3>1. CASE ReadSubtasks(r)
      BY <3>1, ReadIs DEF Typing, Core, WholeReqs, Whole, Waiting, Rest
    <3>2. CASE Emit(r)
      BY <3>2, EmitIs DEF Typing, Core, WholeReqs, Whole, Waiting, Rest
    <3>3. CASE Forget(r)
      BY <3>3, LeaveIs DEF Typing, Core, WholeReqs, Whole, Waiting, Rest, Forget
    <3>4. QED
      BY <1>4, <3>1, <3>2, <3>3
  <2>3. ASSUME NEW s, NEW op \in {"toggle", "rename", "drop"}, Asking(op, s)
        PROVE Asking(op, s)'
    BY <2>2, <2>3 DEF Asking, AsksOf, Waiting
  <2>4. Fetching => Fetching'
    BY <2>2 DEF Fetching
  <2>5. Keeps
    BY <2>1, <2>3, <2>4 DEF Keeps, Hidden
  <2>6. UpToDate' => UpToDate
    BY <1>1, <2>1 DEF UpToDate
  <2>7. QED
    BY <1>1, <2>1, <2>5, <2>6, ListStays DEF Typing
<1>5. ASSUME NEW r \in Slots, Answered(r) PROVE ListShown'
  <2>1. UNCHANGED <<db, undo>>
    BY <1>5 DEF Answered
  <2>2. QED
    BY <1>1, <1>3, <1>5, <2>1, ListAnswered
<1>6. ASSUME NEW r \in Slots, Fail(r) \/ Cut(r) PROVE ListShown'
  BY <1>1, <1>6, ListReverted
<1>7. QED
  BY <1>3, <1>4, <1>5, <1>6 DEF ServerStep
\* A broadcast arrives: the tab shows the row's list, or hears that it is behind.
LEMMA ListArrives == ASSUME Typing, ListGood, applyWsMessage PROVE ListGood'
<1>1. /\ Len(inbox) \in Nat /\ Len(inbox) > 0 /\ DOMAIN inbox = 1 .. Len(inbox)
      /\ inbox[1] \in Events /\ DOMAIN inbox' = 1 .. Len(inbox) - 1
      /\ \A i \in DOMAIN inbox' : i + 1 \in DOMAIN inbox /\ inbox'[i] = inbox[i + 1]
      /\ UNCHANGED <<db, reqs, undo>>
  BY ArriveIs
<1>2. PICK e : e = inbox[1]
  OBVIOUS
<1>3. e \in Events /\ e.kind \in {"card", "subtasks", "moved", "deleted"}
  BY <1>1, <1>2, KindIs
<1>4. ListNews /\ ListShown /\ ToggleKnows
  BY DEF ListGood
<1>5. ToggleKnows'
  <2>1. ASSUME NEW r \in Slots PROVE ~Write(r)
    BY <1>1, WriteIs DEF Wrote, Open, Typing
  <2>2. QED
    BY <1>1, <1>4, <2>1, HeardGrows, KnewServer DEF ServerStep
<1> SUFFICES ASSUME db # Gone PROVE ListNews' /\ ListShown'
  BY <1>1, <1>5 DEF ListNews, ListShown, ListGood
<1>6. /\ ListNewsOf(db) /\ TellsList(e, db) /\ db.listVer \in Nat /\ heard.list \in Nat
  BY <1>1, <1>2, <1>4 DEF ListNews, ListNewsOf, Typing, Core, HistoryTypes, DbTypes, Rows
<1>7. ASSUME ListComing(db), ~SaysList(e, db) PROVE ListComing(db)'
  <2>1. CASE \E i \in DOMAIN inbox : SaysList(inbox[i], db)
    <3>1. PICK i \in DOMAIN inbox : SaysList(inbox[i], db)
      BY <2>1
    <3>2. i # 1
      BY <1>2, <1>7, <3>1
    <3>3. i - 1 \in DOMAIN inbox' /\ inbox'[i - 1] = inbox[i]
      BY <1>1, <3>2
    <3>4. QED
      BY <1>1, <3>1, <3>3 DEF ListComing, SaysList
  <2>2. CASE \E r \in Slots : Unsaid(r) /\ SaysList(reqs[r].event, db)
    BY <1>1, <2>2 DEF ListComing, SaysList, Unsaid, Open
  <2>3. QED
    BY <1>7, <2>1, <2>2 DEF ListComing
<1>8. /\ \A i \in DOMAIN inbox' : TellsList(inbox'[i], db)
      /\ \A r \in Slots : Open(r)' => Brings(reqs'[r], db)
  BY <1>1, <1>6 DEF ListNewsOf, Open
<1>9. ASSUME heard'.list <= db.listVer, heard'.list < db.listVer => ListComing(db)'
      PROVE ListNews'
  BY <1>1, <1>8, <1>9 DEF ListNews, ListNewsOf, TellsList, Brings
<1>10. CASE e.kind = "subtasks"
  <2>1. e \in ListEvents /\ e.list \in Lists /\ e.listVer \in Nat /\ ShowList(e.list, e.listVer)
    BY <1>2, <1>3, <1>10, ArriveIs, KindIs
  <2>2. heard'.list = IF e.listVer <= heard.list THEN heard.list ELSE e.listVer
    BY <2>1, ShowIs
  <2>3. e.listVer <= db.listVer
    BY <1>6, <1>10 DEF TellsList
  <2>4. heard.list <= db.listVer /\ (heard.list < db.listVer => ListComing(db))
    BY <1>6 DEF ListNewsOf
  <2>5. heard'.list <= db.listVer
    BY <1>6, <2>1, <2>2, <2>3, <2>4
  <2>6. ASSUME heard'.list < db.listVer PROVE ListComing(db)'
    <3>1. e.listVer < db.listVer /\ heard.list < db.listVer
      BY <1>6, <2>1, <2>2, <2>3, <2>4, <2>6
    <3>2. ~SaysList(e, db)
      BY <1>6, <2>1, <3>1 DEF SaysList
    <3>3. QED
      BY <1>7, <2>4, <3>1, <3>2
  <2>7. ListShown'
    BY <1>1, <1>4, <1>6, <2>1, ListReplaced
  <2>8. QED
    BY <1>9, <2>5, <2>6, <2>7
<1>11. CASE e.kind # "subtasks"
  <2>1. heard'.list = heard.list /\ listDoubt' = listDoubt
        /\ (store' # Gone => store # Gone /\ store'.subs = store.subs)
    <3>1. CASE e.kind = "moved"
      BY <1>2, <1>3, <3>1, ArriveIs, KindIs, MovedIs DEF Typing
    <3>2. CASE e.kind = "deleted"
      BY <1>2, <3>2, ArriveIs
    <3>3. CASE e.kind = "card"
      BY <1>2, <1>3, <3>3, ArriveIs, KindIs, RowShownIs
    <3>4. QED
      BY <1>3, <1>11, <3>1, <3>2, <3>3
  <2>2. ~SaysList(e, db)
    BY <1>11 DEF SaysList
  <2>3. ListNews'
    BY <1>6, <1>7, <1>9, <2>1, <2>2 DEF ListNewsOf
  <2>4. Keeps
    BY <1>1 DEF Keeps, Asking, AsksOf, Waiting, Open, Fetching, Hidden
  <2>5. ListShown'
    BY <1>1, <1>4, <2>1, <2>4, ListStays DEF UpToDate, Typing
  <2>6. QED
    BY <2>3, <2>5
<1>12. QED
  BY <1>10, <1>11

\* Every step keeps what is known and shown of the list.
LEMMA ListStep == Typing /\ ListGood /\ [Next]_vars => ListGood'
<1>1. ASSUME ListGood, UNCHANGED vars PROVE ListGood'
  <2>1. UNCHANGED <<db, store, undo, reqs, inbox, heard, listDoubt>>
    BY <1>1 DEF vars, history
  <2>2. ListNews'
    BY <1>1, <2>1 DEF ListGood, ListNews, ListNewsOf, ListComing, TellsList, SaysList, Brings,
      Unsaid, Open
  <2>3. ToggleKnows'
    BY <1>1, <2>1 DEF ListGood, ToggleKnows, Knew, Waiting, Open
  <2>4. \A s : (Hidden(s)' <=> Hidden(s)) /\ \A op : Asking(op, s)' <=> Asking(op, s)
    BY <2>1 DEF Hidden, Asking, AsksOf, Waiting, Open
  <2>5. Fetching' <=> Fetching
    BY <2>1 DEF Fetching, Open
  <2>6. ListShown'
    BY <1>1, <2>1, <2>4, <2>5 DEF ListGood, ListShown, UpToDate, Matches, Fits
  <2>7. QED
    BY <2>2, <2>3, <2>6 DEF ListGood
<1>2. ASSUME Typing, ListGood, ServerStep PROVE ListGood'
  <2>1. CASE applyWsMessage
    BY <1>2, <2>1, ListArrives
  <2>2. CASE \E r \in Slots : Write(r)
    BY <1>2, <2>2, ListWrite
  <2>3. CASE ~applyWsMessage /\ \A r \in Slots : ~Write(r)
    BY <1>2, <2>3, ListServer
  <2>4. QED
    BY <2>1, <2>2, <2>3
<1>3. QED
  BY <1>1, <1>2, ListLocal, UserSteps, TwoSides DEF Kept, Typing

\* A quiet tab has heard of the list, and nothing is under way for it.
LEMMA QuietList == Typing /\ ListGood => QuietListShowsTheSubtasks
<1> SUFFICES ASSUME Typing, ListGood, Quiet, undo = <<>>, db # Gone, store # Gone, ~listDoubt,
                    store.subs # NoList
             PROVE store.subs = db.subs
  BY DEF QuietListShowsTheSubtasks
<1>1. inbox = <<>> /\ \A r \in Slots : ~Open(r)
  BY DEF Quiet
<1>2. DOMAIN inbox = {} /\ DOMAIN undo = {}
  BY <1>1
<1>3. ~ListComing(db)
  BY <1>1, <1>2 DEF ListComing, Unsaid
<1>4. heard.list <= db.listVer /\ ~(heard.list < db.listVer)
  BY <1>3 DEF ListGood, ListNews, ListNewsOf
<1>5. heard.list \in Nat /\ db.listVer \in Nat
  BY DEF Typing, Core, HistoryTypes, DbTypes, Rows
<1>6. Matches(store.subs, db.subs)
  BY <1>4, <1>5 DEF ListGood, ListShown, UpToDate
<1>7. ~Fetching /\ \A s : ~Hidden(s) /\ \A op : ~Asking(op, s)
  BY <1>1, <1>2 DEF Fetching, Hidden, Asking, AsksOf, Waiting
<1>8. PICK l, d : l = store.subs /\ d = db.subs
  OBVIOUS
<1>9. l \in Lists /\ d \in Lists
  BY <1>8, ShownLists DEF Typing
<1>10. DOMAIN l = DOMAIN d
  BY <1>6, <1>7, <1>8 DEF Matches
<1>11. \A s \in DOMAIN l : l[s].done = d[s].done /\ l[s].title = d[s].title
  BY <1>6, <1>7, <1>8 DEF Matches, Fits
<1>12. ASSUME NEW a \in Subtasks, NEW b \in Subtasks, a.done = b.done, a.title = b.title
       PROVE a = b
  BY <1>12 DEF Subtasks
<1>13. \A s \in DOMAIN l : l[s] = d[s]
  BY <1>9, <1>10, <1>11, <1>12, ListIs
<1>14. l = [s \in DOMAIN l |-> l[s]] /\ d = [s \in DOMAIN d |-> d[s]]
  BY <1>9, ListIs
<1>15. l = d
  BY <1>10, <1>13, <1>14
<1>16. QED
  BY <1>8, <1>15
-----------------------------------------------------------------------------
\* What holds in every state: the types, what was entered, where tasks go, how subtasks
\* are counted, which were made and what became of their deletions, and what is known
\* and shown of the row and of the list.
Inv ==
  /\ Typing /\ EditsSurvive /\ AllCounted /\ AllUsed /\ Fates
  /\ RowNews /\ RowShown /\ ListGood

\* Init establishes it: nothing is under way, and the page shows the row it was loaded
\* with.
LEMMA InitHolds == Init => Inv
<1> SUFFICES ASSUME Init PROVE Inv
  OBVIOUS
<1>1. Typing
  BY InitTypes
<1>2. /\ undo = <<>> /\ inbox = <<>> /\ heard = [row |-> 0, list |-> 0]
      /\ store = [fields |-> Start, col |-> db.col, subs |-> NoList,
                  count |-> Counts(db.subs)]
      /\ decided = [s \in Subs |-> None] /\ word = Start
  BY DEF Init
<1>3. \A r \in Slots : ~Open(r)
  BY DEF Init, Open
<1>4. DOMAIN inbox = {} /\ DOMAIN undo = {}
  BY <1>2
<1>5. /\ store.fields = Start /\ store.subs = NoList /\ heard.row = 0 /\ heard.list = 0
      /\ \A s \in Subs : decided[s] = None
  BY <1>2
<1>6. /\ db.fields = Start /\ db.ver = 0 /\ db.listVer = 0 /\ db.used = {First(Subs)}
      /\ db.subs = [s \in {First(Subs)} |-> [title |-> FirstTitle, done |-> FALSE]]
  BY DEF Init
<1>7. DOMAIN db.subs = db.used
  BY <1>6
<1>8. EditsSurvive
  BY <1>2, <1>3, <1>6 DEF EditsSurvive
<1>9. AllCounted
  BY <1>3, <1>5 DEF AllCounted, Counted, Snapshot
<1>10. AllUsed
  BY <1>3, <1>4, <1>5, <1>7 DEF AllUsed, AllIn, ListIn
<1>11. Fates
  BY <1>3, <1>4, <1>5, <1>7 DEF Fates, Fate, Hidden, Dropped, MyDrop, None
<1>12. RowNews /\ RowShown
  BY <1>3, <1>4, <1>5, <1>6 DEF RowNews, RowNewsOf, RowShown, Unsaid
<1>13. ListGood
  BY <1>3, <1>4, <1>5, <1>6
    DEF ListGood, ListNews, ListNewsOf, ListShown, ToggleKnows, Waiting
<1>14. QED
  BY <1>1, <1>8, <1>9, <1>10, <1>11, <1>12, <1>13 DEF Inv

\* Every step keeps it.
LEMMA NextHolds == Inv /\ [Next]_vars => Inv'
BY StepTypes, EditsStep, CountedStep, UsedStep, FatesStep, RowStep, ListStep DEF Inv

\* The inductive invariant, for any fields, subtasks, columns and slots and any number of
\* inputs and failures: the store, the requests and the broadcasts on their way add up to
\* the row (useBoardStore and the dialogs' handlers against the card and subtask
\* handlers).
THEOREM DialogStaysInStep == Spec => []Inv
BY InitHolds, NextHolds, PTL DEF Spec

\* Every request, broadcast, snapshot and list is of its type.
THEOREM TypesAreRight == Spec => []Typing
BY DialogStaysInStep, PTL DEF Inv

\* A dialog that has been open for a while writes no field its user did not change
\* (commitField and buildCardFieldUpdate).
THEOREM NoEditIsWrittenBack == Spec => []EditsSurvive
BY DialogStaysInStep, PTL DEF Inv

\* The progress on the card agrees with the one in its dialog (the store's subtask
\* setters, of which only one counts the list anew).
THEOREM CountsAgree == Spec => []ProgressAgrees
<1>1. Inv => ProgressAgrees
  BY CountedIsShown DEF Inv, Typing, Core
<1>2. QED
  BY <1>1, DialogStaysInStep, PTL

\* A subtask whose deletion was undone in time stays (useSubtaskActions' timers and the
\* undo of their toasts).
THEOREM UndoHolds == Spec => []UndoneDeletionsStay
<1>1. Inv => UndoneDeletionsStay
  BY FatesAreKept DEF Inv
<1>2. QED
  BY <1>1, DialogStaysInStep, PTL

\* With nothing under way the store shows the row, but for the fields that are in doubt
\* (handleUpdateCard's optimistic patch, the handlers' broadcasts and applyWsMessage).
THEOREM QuietCardIsRight == Spec => []QuietCardShowsTheRow
<1>1. Inv => QuietCardShowsTheRow
  BY QuietRow DEF Inv
<1>2. QED
  BY <1>1, DialogStaysInStep, PTL

\* With nothing under way the list is the server's, unless an older one was applied after
\* a newer one or a failed request could not be repaired (useSubtaskActions against
\* broadcastSubtasks).
THEOREM QuietListIsRight == Spec => []QuietListShowsTheSubtasks
<1>1. Inv => QuietListShowsTheSubtasks
  BY QuietList DEF Inv
<1>2. QED
  BY <1>1, DialogStaysInStep, PTL
=============================================================================
