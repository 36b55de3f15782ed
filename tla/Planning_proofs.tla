-------------------------- MODULE Planning_proofs --------------------------
(***************************************************************************)
(* A card is made of a live item only, for any number of items, inputs and  *)
(* faults.  What PromoteItem checked at its SELECT ... FOR UPDATE still     *)
(* holds at its commit, since no other handler writes a locked row.         *)
(* And the page stays in step with the session: the second half, PageInv.   *)
(***************************************************************************)
EXTENDS Planning, FiniteSetTheorems, TLAPS

(* Every request is a record of the fields that Request gives it.            *)
Fields == {"n", "kind", "id", "change", "row", "rest", "bulk", "mine", "at", "new", "back"}
Shape(r) == DOMAIN r = Fields

Shapes == \A r \in reqs : Shape(r)
Rows == DOMAIN items = Items /\ DOMAIN cards = Items

(* An item that is locked is there and may be promoted.                      *)
LockedIsLive ==
  \A r \in reqs : r.at = "locked" =>
     r.id \in Items /\ items[r.id].status \in {"live", "selected"}

(* A row lock has one holder.                                               *)
OneHolder ==
  \A q, r \in reqs : q.at = "locked" /\ r.at = "locked" /\ q.id = r.id => q = r

LockInv == Shapes /\ Rows /\ LockedIsLive /\ OneHolder

-----------------------------------------------------------------------------

(* A request with another state keeps its shape and its item.                *)
LEMMA StepShape ==
  ASSUME NEW r, Shape(r), NEW at
  PROVE  /\ Shape([r EXCEPT !.at = at])
         /\ [r EXCEPT !.at = at].at = at
         /\ [r EXCEPT !.at = at].id = r.id
BY DEF Shape, Fields

(* What a new request is. *)
LEMMA RequestShape ==
  ASSUME NEW kind, NEW id, NEW change
  PROVE  Shape(Request(kind, id, change)) /\ Request(kind, id, change).at = "sent"
BY DEF Shape, Fields, Request

(* The invariant is kept when the rows stay and no request becomes locked.   *)
LEMMA NoNewLock ==
  ASSUME LockInv, UNCHANGED <<items, cards>>,
         \A r \in reqs' : Shape(r) /\ (r.at = "locked" => r \in reqs)
  PROVE  LockInv'
BY DEF LockInv, Shapes, Rows, LockedIsLive, OneHolder, Items

(* It is kept, too, when in addition a row is written that nobody has locked.*)
LEMMA UnlockedWrite ==
  ASSUME LockInv, NEW x, NEW row, items' = [items EXCEPT ![x] = row],
         UNCHANGED cards, Free(x),
         \A r \in reqs' : Shape(r) /\ (r.at = "locked" => r \in reqs)
  PROVE  LockInv'
<1> USE DEF LockInv
<1>1. Shapes' BY DEF Shapes
<1>2. Rows' BY DEF Rows, Items
<1>3. LockedIsLive'
  <2> SUFFICES ASSUME NEW r \in reqs', r.at = "locked"
               PROVE  r.id \in Items /\ items'[r.id].status \in {"live", "selected"}
    BY DEF LockedIsLive, Items
  <2>1. r \in reqs /\ r.id # x BY DEF Free, Locked
  <2>2. r.id \in Items /\ items[r.id].status \in {"live", "selected"}
    BY <2>1 DEF LockedIsLive
  <2>3. items'[r.id] = items[r.id] BY <2>1, <2>2 DEF Rows
  <2> QED BY <2>2, <2>3
<1>4. OneHolder' BY DEF OneHolder
<1> QED BY <1>1, <1>2, <1>3, <1>4

-----------------------------------------------------------------------------

LEMMA InitLockInv == Init => LockInv
BY PlanningAssumption DEF Init, LockInv, Shapes, Rows, LockedIsLive, OneHolder

(* What this user and others begin is not locked, and writes no row.         *)
LEMMA AskKeeps ==
  ASSUME LockInv, UNCHANGED <<items, cards>>, NEW r, Shape(r), r.at = "sent",
         reqs' = reqs \cup {r}
  PROVE  LockInv'
<1>1. \A q \in reqs' : Shape(q) /\ (q.at = "locked" => q \in reqs)
  BY DEF LockInv, Shapes
<1> QED BY <1>1, NoNewLock

(* A step of a request that neither writes nor locks.                        *)
LEMMA BecomesKeeps ==
  ASSUME LockInv, UNCHANGED <<items, cards>>, NEW r \in reqs, NEW new,
         Shape(new), new.at # "locked", Becomes(r, new)
  PROVE  LockInv'
<1>1. \A q \in reqs' : Shape(q) /\ (q.at = "locked" => q \in reqs)
  BY DEF LockInv, Shapes, Becomes
<1> QED BY <1>1, NoNewLock

LEMMA RefuseKeeps ==
  ASSUME LockInv, NEW r \in reqs, Refuse(r)
  PROVE  LockInv'
<1>1. Shape(r) BY DEF LockInv, Shapes
<1> QED BY <1>1, StepShape, BecomesKeeps DEF Refuse, Step

(* A step of a request that writes a row which nobody has locked.            *)
LEMMA BecomesAndWrites ==
  ASSUME LockInv, NEW x, NEW row, items' = [items EXCEPT ![x] = row],
         UNCHANGED cards, Free(x), NEW r \in reqs, NEW new,
         Shape(new), new.at # "locked", Becomes(r, new)
  PROVE  LockInv'
<1>1. \A q \in reqs' : Shape(q) /\ (q.at = "locked" => q \in reqs)
  BY DEF LockInv, Shapes, Becomes
<1> QED BY <1>1, UnlockedWrite

(* What the user of the page does.                                          *)
LEMMA UserKeeps == LockInv /\ UserStep => LockInv'
<1> SUFFICES ASSUME LockInv, UserStep PROVE LockInv'
  OBVIOUS
<1>1. ASSUME NEW row, NEW f, NEW v, patchItem(row, f, v) PROVE LockInv'
  BY <1>1, RequestShape, AskKeeps DEF patchItem, Ask, server
<1>2. ASSUME NEW row \in page, NEW text \in Texts, EditText(row, text) PROVE LockInv'
  BY <1>1, <1>2 DEF EditText
<1>3. ASSUME NEW row \in page, NEW t \in Types, changeType(row, t) PROVE LockInv'
  <2> DEFINE r == [Request("patch", row.id, Change("type", t)) EXCEPT !.row = row]
  <2>1. Shape(r) /\ r.at = "sent" BY DEF Shape, Fields, Request
  <2>2. reqs' = reqs \cup {r} /\ UNCHANGED <<items, cards>>
    BY <1>3 DEF changeType, Ask, server
  <2> HIDE DEF r
  <2> QED BY <2>1, <2>2, AskKeeps
<1>4. ASSUME NEW row \in page, toggleStatus(row) PROVE LockInv'
  BY <1>1, <1>4 DEF toggleStatus
<1>5. ASSUME NEW row \in page, removeItem(row) PROVE LockInv'
  <2> DEFINE r == [Request("delete", row.id, NoChange) EXCEPT !.row = row]
  <2>1. Shape(r) /\ r.at = "sent" BY DEF Shape, Fields, Request
  <2>2. reqs' = reqs \cup {r} /\ UNCHANGED <<items, cards>>
    BY <1>5 DEF removeItem, Ask, server
  <2> HIDE DEF r
  <2> QED BY <2>1, <2>2, AskKeeps
<1>6. ASSUME NEW row \in page, promoteOne(row) PROVE LockInv'
  BY <1>6, RequestShape, AskKeeps DEF promoteOne, Ask, server
<1>7. ASSUME NEW row \in page, toggleSelect(row) PROVE LockInv'
  BY <1>7, NoNewLock DEF toggleSelect, server, LockInv, Shapes
<1>8. ASSUME NEW type \in Types, commitNew(type) PROVE LockInv'
  <2> DEFINE temp == -(inputs + 1)
             r == [Request("create", temp, NoChange) EXCEPT
                     !.row = Shown(temp, Row(type, NewText, "live"))]
  <2>1. Shape(r) /\ r.at = "sent" BY DEF Shape, Fields, Request
  <2>2. reqs' = reqs \cup {r} /\ UNCHANGED <<items, cards>>
    BY <1>8 DEF commitNew, Ask, server
  <2> HIDE DEF r
  <2> QED BY <2>1, <2>2, AskKeeps
<1>9. CASE enterSelectMode
  BY <1>9, NoNewLock DEF enterSelectMode, server, LockInv, Shapes
<1>10. CASE exitSelectMode
  BY <1>10, NoNewLock DEF exitSelectMode, server, LockInv, Shapes
<1>11. CASE handleBulkSend
  <2>1. CASE UNCHANGED reqs
    BY <1>11, <2>1, NoNewLock DEF handleBulkSend, server, LockInv, Shapes
  <2>2. ASSUME NEW i, NEW rest,
               Ask([Request("promote", i, NoChange) EXCEPT !.rest = rest, !.bulk = TRUE])
        PROVE  LockInv'
    <3> DEFINE r == [Request("promote", i, NoChange) EXCEPT !.rest = rest, !.bulk = TRUE]
    <3>1. Shape(r) /\ r.at = "sent" BY DEF Shape, Fields, Request
    <3>2. reqs' = reqs \cup {r} /\ UNCHANGED <<items, cards>>
      BY <1>11, <2>2 DEF handleBulkSend, Ask, server
    <3> HIDE DEF r
    <3> QED BY <3>1, <3>2, AskKeeps
  <2> QED BY <1>11, <2>1, <2>2 DEF handleBulkSend
<1> QED BY <1>2, <1>3, <1>4, <1>5, <1>6, <1>7, <1>8, <1>9, <1>10, <1>11 DEF UserStep

-----------------------------------------------------------------------------

(* What the handlers do.                                                    *)
LEMMA CreateKeeps == ASSUME LockInv, NEW r \in reqs, CreateItem(r) PROVE LockInv'
<1> DEFINE i == CHOOSE j \in Unborn : TRUE
           row == Row(r.row.type, r.row.text, r.row.status)
           new == [r EXCEPT !.at = "done", !.new = i, !.back = row]
<1>1. Shape(r) BY DEF LockInv, Shapes
<1>2. Shape(new) /\ new.at = "done" BY <1>1 DEF Shape, Fields
<1>3. items' = [items EXCEPT ![i] = row] /\ UNCHANGED cards /\ Becomes(r, new)
  BY DEF CreateItem
<1>4. i \in Items /\ items[i] = NoRow BY DEF CreateItem, Unborn
<1> HIDE DEF i, row, new
<1>5. NoRow.status = "none" BY DEF NoRow, Row
<1>6. Free(i) BY <1>4, <1>5 DEF Free, Locked, LockInv, LockedIsLive
<1> QED BY <1>2, <1>3, <1>6, BecomesAndWrites

LEMMA ReadKeeps == ASSUME LockInv, NEW r \in reqs, Read(r) PROVE LockInv'
<1>1. Shape(r) BY DEF LockInv, Shapes
<1>2. CASE Step(r, "read") /\ UNCHANGED <<items, cards, doubt>>
  BY <1>1, <1>2, StepShape, BecomesKeeps DEF Step
<1>3. CASE Refuse(r) BY <1>3, RefuseKeeps
<1> QED BY <1>2, <1>3 DEF Read

LEMMA UpdateKeeps == ASSUME LockInv, NEW r \in reqs, UpdateItem(r) PROVE LockInv'
<1>1. Shape(r) BY DEF LockInv, Shapes
<1>2. CASE r.id \in There
  <2> DEFINE row == With(items[r.id], r.change.field, r.change.to)
  <2>1. items' = [items EXCEPT ![r.id] = row] /\ Step(r, "done")
        /\ UNCHANGED cards /\ Free(r.id)
    BY <1>2 DEF UpdateItem
  <2> HIDE DEF row
  <2> QED BY <1>1, <2>1, StepShape, BecomesAndWrites DEF Step
<1>3. CASE r.id \notin There BY <1>3, RefuseKeeps DEF UpdateItem
<1> QED BY <1>2, <1>3

LEMMA DeleteKeeps == ASSUME LockInv, NEW r \in reqs, DeleteItem(r) PROVE LockInv'
<1>1. Shape(r) BY DEF LockInv, Shapes
<1>2. items' = [items EXCEPT ![r.id] = Gone] /\ Step(r, "done") /\ UNCHANGED cards
      /\ Free(r.id)
  BY DEF DeleteItem, unheard
<1> QED BY <1>1, <1>2, StepShape, BecomesAndWrites DEF Step

(* The check under the lock: the item is live and nobody else holds it.      *)
LEMMA LockKeeps == ASSUME LockInv, NEW r \in reqs, LockItem(r) PROVE LockInv'
<1>1. Shape(r) BY DEF LockInv, Shapes
<1>2. CASE r.id \in There /\ items[r.id].status \notin {"promoted", "dropped"} /\ todo
  <2> DEFINE new == [r EXCEPT !.at = "locked", !.back = items[r.id]]
  <2>1. Shape(new) /\ new.at = "locked" /\ new.id = r.id BY <1>1 DEF Shape, Fields
  <2>2. Becomes(r, new) /\ UNCHANGED <<items, cards>> /\ Free(r.id)
    BY <1>2 DEF LockItem, MayLock
  <2>3. r.id \in Items /\ items[r.id].status \in {"live", "selected"}
    BY <1>2 DEF There, Statuses
  <2>4. r.at = "read" BY DEF LockItem
  <2> HIDE DEF new
  <2>5. \A q \in reqs' : q \in reqs \/ q = new BY <2>2 DEF Becomes
  <2>6. Shapes' BY <2>1, <2>5 DEF LockInv, Shapes
  <2>7. Rows' BY <2>2 DEF LockInv, Rows, Items
  <2>8. LockedIsLive' BY <2>1, <2>2, <2>3, <2>5 DEF LockInv, LockedIsLive, Items
  <2>9. OneHolder' BY <2>1, <2>2, <2>5 DEF LockInv, OneHolder, Free, Locked
  <2> QED BY <2>6, <2>7, <2>8, <2>9 DEF LockInv
<1>3. CASE ~(r.id \in There /\ items[r.id].status \notin {"promoted", "dropped"} /\ todo)
  BY <1>3, RefuseKeeps DEF LockItem
<1> QED BY <1>2, <1>3

(* The commit writes the row that its own request had locked, and no other.  *)
LEMMA CommitKeeps == ASSUME LockInv, NEW r \in reqs, CommitPromote(r) PROVE LockInv'
<1>1. Shape(r) BY DEF LockInv, Shapes
<1>2. CASE todo
  <2> DEFINE new == [r EXCEPT !.at = "done", !.back.status = "promoted"]
  <2>1. Shape(new) /\ new.at = "done" BY <1>1 DEF Shape, Fields
  <2>2. Becomes(r, new) /\ items' = [items EXCEPT ![r.id].status = "promoted"]
        /\ cards' = [cards EXCEPT ![r.id] = @ + 1] /\ r.at = "locked"
    BY <1>2 DEF CommitPromote
  <2> HIDE DEF new
  <2>3. \A q \in reqs' : q = new \/ (q \in reqs /\ q # r) BY <2>2 DEF Becomes
  <2>4. Shapes' BY <2>1, <2>3 DEF LockInv, Shapes
  <2>5. Rows' BY <2>2 DEF LockInv, Rows, Items
  <2>6. LockedIsLive'
    <3> SUFFICES ASSUME NEW q \in reqs', q.at = "locked"
                 PROVE  q.id \in Items /\ items'[q.id].status \in {"live", "selected"}
      BY DEF LockedIsLive, Items
    <3>1. q \in reqs /\ q # r BY <2>1, <2>3
    <3>2. q.id # r.id BY <2>2, <3>1 DEF LockInv, OneHolder
    <3>3. q.id \in Items /\ items[q.id].status \in {"live", "selected"}
      BY <3>1 DEF LockInv, LockedIsLive
    <3>4. items'[q.id] = items[q.id] BY <2>2, <3>2, <3>3 DEF LockInv, Rows
    <3> QED BY <3>3, <3>4
  <2>7. OneHolder' BY <2>1, <2>3 DEF LockInv, OneHolder
  <2> QED BY <2>4, <2>5, <2>6, <2>7 DEF LockInv
<1>3. CASE ~todo BY <1>3, RefuseKeeps DEF CommitPromote
<1> QED BY <1>2, <1>3

LEMMA LoseKeeps == ASSUME LockInv, NEW r \in reqs, Lose(r) PROVE LockInv'
<1>1. Shape(r) BY DEF LockInv, Shapes
<1> QED BY <1>1, StepShape, BecomesKeeps DEF Lose, Step, server

LEMMA AnsweredKeeps == ASSUME LockInv, NEW r \in reqs, Answered(r) PROVE LockInv'
<1>1. UNCHANGED <<items, cards>> BY DEF Answered, server
<1>2. CASE reqs' = reqs \ {r}
  BY <1>1, <1>2, NoNewLock DEF LockInv, Shapes
<1>3. ASSUME NEW i \in r.rest,
             reqs' = (reqs \ {r}) \cup
               {[r EXCEPT !.id = i, !.rest = @ \ {i}, !.at = "sent", !.back = NoRow]}
      PROVE  LockInv'
  <2> DEFINE new == [r EXCEPT !.id = i, !.rest = @ \ {i}, !.at = "sent", !.back = NoRow]
  <2>1. Shape(r) BY DEF LockInv, Shapes
  <2>2. Shape(new) /\ new.at = "sent" BY <2>1 DEF Shape, Fields
  <2>3. \A q \in reqs' : q = new \/ q \in reqs BY <1>3
  <2> HIDE DEF new
  <2>4. \A q \in reqs' : Shape(q) /\ (q.at = "locked" => q \in reqs)
    BY <2>2, <2>3 DEF LockInv, Shapes
  <2> QED BY <1>1, <2>4, NoNewLock
<1> QED BY <1>2, <1>3 DEF Answered

LEMMA ElsewhereKeeps == LockInv /\ Elsewhere => LockInv'
<1>1. ASSUME LockInv, NEW kind, NEW i, NEW change, Theirs(kind, i, change)
      PROVE  LockInv'
  <2> DEFINE r == [Request(kind, i, change) EXCEPT !.mine = FALSE]
  <2>1. Shape(r) /\ r.at = "sent" BY DEF Shape, Fields, Request
  <2>2. reqs' = reqs \cup {r} /\ UNCHANGED <<items, cards>>
    BY <1>1 DEF Theirs, server
  <2> HIDE DEF r
  <2> QED BY <1>1, <2>1, <2>2, AskKeeps
<1> QED BY <1>1 DEF Elsewhere

-----------------------------------------------------------------------------

LEMMA NextKeepsLockInv == LockInv /\ [Next]_vars => LockInv'
<1> SUFFICES ASSUME LockInv, [Next]_vars PROVE LockInv'
  OBVIOUS
<1>1. CASE UserStep BY <1>1, UserKeeps
<1>2. ASSUME NEW r \in reqs,
             \/ CreateItem(r) \/ Read(r) \/ UpdateItem(r) \/ DeleteItem(r)
             \/ LockItem(r) \/ CommitPromote(r) \/ Lose(r) \/ Answered(r)
      PROVE  LockInv'
  BY <1>2, CreateKeeps, ReadKeeps, UpdateKeeps, DeleteKeeps, LockKeeps,
     CommitKeeps, LoseKeeps, AnsweredKeeps
<1>3. CASE Elsewhere BY <1>3, ElsewhereKeeps
<1>4. CASE ColumnsChange
  BY <1>4, NoNewLock DEF ColumnsChange, LockInv, Shapes
<1>5. CASE UNCHANGED vars
  BY <1>5, NoNewLock DEF vars, LockInv, Shapes
<1> QED BY <1>1, <1>2, <1>3, <1>4, <1>5 DEF Next

(* Only a promote's commit makes a card, and of the item it has locked.      *)
LEMMA CardsComeFromCommits ==
  LockInv /\ [Next]_vars =>
    UNCHANGED cards \/ \E r \in reqs : CommitPromote(r) /\ todo
<1> SUFFICES ASSUME LockInv, [Next]_vars
             PROVE  UNCHANGED cards \/ \E r \in reqs : CommitPromote(r) /\ todo
  OBVIOUS
<1>1. CASE UserStep
  BY <1>1 DEF UserStep, EditText, patchItem, changeType, toggleStatus, removeItem,
     promoteOne, toggleSelect, commitNew, enterSelectMode, exitSelectMode,
     handleBulkSend, server
<1>2. ASSUME NEW r \in reqs,
             \/ CreateItem(r) \/ Read(r) \/ UpdateItem(r) \/ DeleteItem(r)
             \/ LockItem(r) \/ CommitPromote(r) \/ Lose(r) \/ Answered(r)
      PROVE  UNCHANGED cards \/ (CommitPromote(r) /\ todo)
  BY <1>2 DEF CreateItem, Read, UpdateItem, DeleteItem, LockItem, CommitPromote,
     Lose, Answered, Refuse, server, unheard
<1>3. CASE Elsewhere BY <1>3 DEF Elsewhere, Theirs, server
<1>4. CASE ColumnsChange BY <1>4 DEF ColumnsChange
<1>5. CASE UNCHANGED vars BY <1>5 DEF vars
<1> QED BY <1>1, <1>2, <1>3, <1>4, <1>5 DEF Next

(* Every locked item is live and has one holder, in every reachable state.   *)
THEOREM LocksHold == Spec => []LockInv
BY InitLockInv, NextKeepsLockInv, PTL DEF Spec

(* A card is made of an item that is live, neither dropped nor promoted, at   *)
(* the moment it is made: PromoteItem's check cannot go stale.               *)
THEOREM CardsAreMadeOfLiveItems == Spec => OnlyLiveItemsBecomeCards
<1> DEFINE Made == \A i \in Items : cards'[i] # cards[i] =>
              cards'[i] = cards[i] + 1 /\ items[i].status \in {"live", "selected"}
<1>1. LockInv /\ [Next]_vars => Made
  <2> SUFFICES ASSUME LockInv, [Next]_vars, NEW i \in Items, cards'[i] # cards[i]
               PROVE  cards'[i] = cards[i] + 1 /\ items[i].status \in {"live", "selected"}
    BY DEF Made
  <2>1. PICK r \in reqs : CommitPromote(r) /\ todo BY CardsComeFromCommits
  <2>2. r.at = "locked" /\ cards' = [cards EXCEPT ![r.id] = @ + 1]
    BY <2>1 DEF CommitPromote
  <2>3. i = r.id /\ cards'[i] = cards[i] + 1 BY <2>2 DEF LockInv, Rows
  <2> QED BY <2>2, <2>3 DEF LockInv, LockedIsLive
<1>2. LockInv /\ [Next]_vars => [Made]_vars BY <1>1
<1> QED BY <1>2, LocksHold, PTL DEF Spec, OnlyLiveItemsBecomeCards
-----------------------------------------------------------------------------
(***************************************************************************)
(* The page.  PageInv says of every item that is not in doubt what the page *)
(* shows of it, given the requests of this page that are under way; with    *)
(* none under way that is the item (QuietPageShowsTheSession).              *)
(***************************************************************************)

(* The types.                                                               *)
Cols == {"type", "text", "status"}
Anything == AllTypes \cup AllTexts \cup Statuses \cup {"", "none", "gone"}
AnyRow == [type : Anything, text : Anything, status : Anything]
AnyShown == [id : Int, type : Anything, text : Anything, status : Anything]
PageRows == [id : Int, type : AllTypes, text : AllTexts, status : Statuses]
Ids == {i \in Int : i \in Items \/ i < 0}
Kinds == {"create", "patch", "delete", "promote"}
Stages == {"sent", "read", "locked", "done", "failed"}
Changes == [field : Cols \cup {"none"}, to : Anything]
Requests ==
  [n : Nat, kind : Kinds, id : Int, change : Changes,
   row : AnyShown, rest : SUBSET Int, bulk : BOOLEAN, mine : BOOLEAN, at : Stages,
   new : Int, back : AnyRow]

(* A value that a column may have.                                          *)
Fits(f, v) ==
  /\ f \in Cols
  /\ f = "type" => v \in AllTypes
  /\ f = "text" => v \in AllTexts
  /\ f = "status" => v \in Statuses

Good(r) ==
  /\ r \in Requests /\ r.n \in 1 .. inputs /\ r.id \in Ids /\ r.rest \subseteq Ids
  /\ r.rest # {} => r.kind = "promote" /\ r.mine
  /\ r.at = "locked" => r.kind = "promote"
  /\ r.kind = "create" =>
       /\ r.mine /\ r.id = -r.n /\ r.row \in PageRows /\ r.at \in {"sent", "done", "failed"}
       /\ r.at = "done" => r.new \in Items /\ r.back \in Stored
  /\ r.kind = "delete" /\ r.mine => r.row \in PageRows /\ r.row.id = r.id
  /\ r.kind = "patch" =>
       /\ Fits(r.change.field, r.change.to)
       /\ r.change.field = "type" /\ r.mine => r.row \in PageRows
  /\ r.kind = "promote" /\ r.at \in {"locked", "done"} => r.back \in Stored

AllGood == \A r \in reqs : Good(r)
OneNumber == \A q, r \in reqs : q.n = r.n => q = r
ItemTypes == items \in [Items -> Stored \cup {NoRow, Gone}] /\ inputs \in Nat
PageTypes ==
  page \in SUBSET PageRows /\ IsFiniteSet(page) /\ \A row \in page : row.id \in Ids

PageOf(i) == {row \in page : row.id = i}
MineOf(i) == {r \in reqs : r.mine /\ r.id = i}
FreshOf(i) == {r \in reqs : r.kind = "create" /\ r.at = "done" /\ r.new = i}

(* Two requests of the page for one item change different columns of it.     *)
Apart(q, r) ==
  q.kind = "patch" /\ r.kind = "patch" /\ q.change.field # r.change.field
NoRace ==
  \A q, r \in reqs :
    q # r /\ q.mine /\ r.mine /\ q.id = r.id /\ q.id \notin doubt => Apart(q, r)

(* A temporary row waits for its creation to be answered.                    *)
Temps ==
  /\ \A row \in page : row.id < 0 /\ row.id \notin doubt =>
       \E r \in reqs : r.kind = "create" /\ r.id = row.id
  /\ \A r \in reqs : r.kind = "delete" /\ r.mine /\ r.id < 0 => r.id \in doubt

(* Nothing is said of an item that is not created yet.                       *)
Names(r, i) == r.id = i \/ i \in r.rest \/ (r.kind = "create" /\ r.new = i)
Born ==
  \A i \in Items : items[i] = NoRow => PageOf(i) = {} /\ \A r \in reqs : ~Names(r, i)

(* What is known of item i from request r of the page.                       *)
Told(r, i) ==
  /\ r.kind = "delete" =>
       IF r.at = "done" THEN i \notin There ELSE i \in There /\ r.row = Shown(i, items[i])
  /\ r.kind = "patch" =>
       /\ i \in There /\ \A row \in PageOf(i) : row[r.change.field] = r.change.to
       /\ r.at = "done" => items[i][r.change.field] = r.change.to
       /\ r.change.field = "type" /\ r.at # "done" => r.row.type = items[i].type
  /\ r.kind = "promote" /\ r.at \in {"locked", "done"} => i \in There /\ items[i] = r.back

(* Why the page may show another value in a column.                          *)
Explains(r, f) ==
  \/ r.kind = "patch" /\ r.change.field = f
  \/ r.kind = "promote" /\ r.at = "done" /\ f = "status"

JustCreated(i) ==
  /\ i \in There /\ PageOf(i) = {} /\ MineOf(i) = {} /\ \A r \in reqs : i \notin r.rest
  /\ \A r \in FreshOf(i) : items[i] = r.back
  /\ \A q, r \in FreshOf(i) : q = r
Listed(i) ==
  \E row \in PageOf(i) :
    /\ PageOf(i) = {row}
    /\ \A f \in Cols : row[f] = items[i][f] \/ \E r \in MineOf(i) : Explains(r, f)
Removed(i) == i \notin There \/ \E r \in MineOf(i) : r.kind = "delete"
Known(i) ==
  /\ \A r \in MineOf(i) : Told(r, i)
  /\ IF Removed(i) THEN PageOf(i) = {} ELSE Listed(i)
Right(i) == IF FreshOf(i) # {} THEN JustCreated(i) ELSE Known(i)
AllRight == \A i \in Items \ doubt : Right(i)

PageInv ==
  /\ AllGood /\ OneNumber /\ ItemTypes /\ PageTypes /\ NoRace /\ Temps /\ Born /\ AllRight
-----------------------------------------------------------------------------

(* Rows and their columns.                                                  *)
LEMMA TheRows ==
  /\ NoRow \in AnyRow /\ Gone \in AnyRow
  /\ Stored \subseteq AnyRow /\ PageRows \subseteq AnyShown
  /\ NoRow \notin Stored /\ Gone \notin Stored /\ NoRow # Gone
  /\ NoRow.status \notin Statuses /\ Gone.status \notin Statuses
<1>1. NoRow \in AnyRow /\ Gone \in AnyRow /\ NoRow # Gone
  BY DEF NoRow, Gone, Row, AnyRow, Anything, AllTypes
<1>2. NoRow.status \notin Statuses /\ Gone.status \notin Statuses
  BY DEF NoRow, Gone, Row, Statuses
<1>3. Stored \subseteq AnyRow /\ PageRows \subseteq AnyShown
  BY DEF AnyRow, AnyShown, Stored, PageRows, Anything
<1>4. NoRow \notin Stored /\ Gone \notin Stored BY <1>2 DEF Stored
<1> QED BY <1>1, <1>2, <1>3, <1>4

(* Items are numbers.                                                       *)
LEMMA TheItems ==
  /\ Items \subseteq Nat /\ IsFiniteSet(Items) /\ \A i \in Items : i > 0 /\ i \in Ids
  /\ Ids \subseteq Int
<1>1. NumItems \in Nat BY PlanningAssumption
<1>2. IsFiniteSet(1 .. NumItems) BY <1>1, FS_Interval
<1> QED BY <1>1, <1>2 DEF Items, Ids

(* An item that is there is a stored row.                                    *)
LEMMA ThereIs ==
  ASSUME ItemTypes, NEW i \in Items
  PROVE  i \in There <=> items[i] \in Stored
<1>1. items[i] \in Stored \cup {NoRow, Gone} BY DEF ItemTypes
<1>2. items[i] \in Stored => items[i].status \in Statuses BY DEF Stored
<1> QED BY <1>1, <1>2, TheRows DEF There

(* What is shown of a row.                                                  *)
LEMMA ShownIs ==
  ASSUME NEW i \in Ids, NEW row \in Stored
  PROVE  /\ Shown(i, row) \in PageRows /\ Shown(i, row).id = i
         /\ \A f \in Cols : Shown(i, row)[f] = row[f]
<1>1. i \in Int BY TheItems
<1>2. Shown(i, row) = [id |-> i, type |-> row.type, text |-> row.text, status |-> row.status]
  BY DEF Shown
<1>3. Shown(i, row) \in PageRows /\ Shown(i, row).id = i BY <1>1, <1>2 DEF PageRows, Stored
<1>4. /\ Shown(i, row)["type"] = row["type"] /\ Shown(i, row)["text"] = row["text"]
      /\ Shown(i, row)["status"] = row["status"]
  BY <1>2
<1> QED BY <1>3, <1>4 DEF Cols

(* Two rows of the page are one when their columns are.                      *)
LEMMA SameRow ==
  ASSUME NEW row \in PageRows, NEW i \in Ids, row.id = i, NEW item \in Stored,
         \A f \in Cols : row[f] = item[f]
  PROVE  row = Shown(i, item)
<1>1. row.type = item.type /\ row.text = item.text /\ row.status = item.status BY DEF Cols
<1>2. row = [id |-> row.id, type |-> row.type, text |-> row.text, status |-> row.status]
  BY DEF PageRows
<1> QED BY <1>1, <1>2 DEF Shown

(* A column changed.                                                        *)
LEMMA WithIs ==
  ASSUME NEW f, NEW v, Fits(f, v)
  PROVE  /\ \A row \in PageRows :
              /\ With(row, f, v) \in PageRows /\ With(row, f, v).id = row.id
              /\ With(row, f, v)[f] = v
              /\ \A g \in Cols : g # f => With(row, f, v)[g] = row[g]
         /\ \A row \in Stored :
              /\ With(row, f, v) \in Stored /\ With(row, f, v)[f] = v
              /\ \A g \in Cols : g # f => With(row, f, v)[g] = row[g]
<1>1. ASSUME NEW row \in PageRows
      PROVE  /\ With(row, f, v) \in PageRows /\ With(row, f, v).id = row.id
             /\ With(row, f, v)[f] = v
             /\ \A g \in Cols : g # f => With(row, f, v)[g] = row[g]
  <2>1. CASE f = "type" BY <2>1 DEF Fits, With, PageRows, Cols
  <2>2. CASE f = "text" BY <2>2 DEF Fits, With, PageRows, Cols
  <2>3. CASE f = "status" BY <2>3 DEF Fits, With, PageRows, Cols
  <2> QED BY <2>1, <2>2, <2>3 DEF Fits, Cols
<1>2. ASSUME NEW row \in Stored
      PROVE  /\ With(row, f, v) \in Stored /\ With(row, f, v)[f] = v
             /\ \A g \in Cols : g # f => With(row, f, v)[g] = row[g]
  <2>1. CASE f = "type" BY <2>1 DEF Fits, With, Stored, Cols
  <2>2. CASE f = "text" BY <2>2 DEF Fits, With, Stored, Cols
  <2>3. CASE f = "status" BY <2>3 DEF Fits, With, Stored, Cols
  <2> QED BY <2>1, <2>2, <2>3 DEF Fits, Cols
<1> QED BY <1>1, <1>2

(* The image of a finite set is finite.                                      *)
LEMMA ImageIsFinite ==
  ASSUME NEW S, IsFiniteSet(S), NEW g, DOMAIN g = S, g = [x \in S |-> g[x]]
  PROVE  IsFiniteSet({g[x] : x \in S})
<1> DEFINE T == {g[x] : x \in S}
<1>1. g \in Surjection(S, T) BY DEF Surjection
<1> QED BY <1>1, FS_Surjection

(* A page of which one row was changed.                                      *)
LEMMA ReplaceRows ==
  ASSUME PageTypes, NEW i \in Ids, NEW g, DOMAIN g = page, g = [row \in page |-> g[row]],
         \A row \in page : g[row] \in PageRows /\ g[row].id \in Ids,
         \A row \in page : row.id # i => g[row] = row,
         page' = {g[row] : row \in page}
  PROVE  /\ PageTypes'
         /\ \A j : j # i /\ (\A row \in page : row.id = i => g[row].id # j)
                     => PageOf(j)' = PageOf(j)
<1>1. IsFiniteSet(page') BY ImageIsFinite DEF PageTypes
<1>2. PageTypes' BY <1>1 DEF PageTypes
<1>3. ASSUME NEW j, j # i, \A row \in page : row.id = i => g[row].id # j
      PROVE  PageOf(j)' = PageOf(j)
  BY <1>3 DEF PageOf
<1> QED BY <1>2, <1>3

(* patchItem and changeType change the item's row.                           *)
LEMMA OnPageIs ==
  ASSUME PageTypes, NEW i \in Ids, NEW f, NEW v, Fits(f, v), page' = OnPage(i, f, v)
  PROVE  /\ PageTypes'
         /\ \A j : j # i => PageOf(j)' = PageOf(j)
         /\ PageOf(i)' = {With(row, f, v) : row \in PageOf(i)}
<1> DEFINE g == [row \in page |-> IF row.id = i THEN With(row, f, v) ELSE row]
<1>1. \A row \in page : row \in PageRows /\ row.id \in Ids BY DEF PageTypes
<1>2. \A row \in page : g[row] \in PageRows /\ g[row].id = row.id BY <1>1, WithIs
<1>3. page' = {g[row] : row \in page} BY DEF OnPage
<1>4. \A row \in page : row.id # i => g[row] = row OBVIOUS
<1>5. \A row \in page : row.id = i => g[row] = With(row, f, v) OBVIOUS
<1>6. DOMAIN g = page /\ g = [row \in page |-> g[row]] OBVIOUS
<1> HIDE DEF g
<1>7. PageTypes' /\ \A j : j # i => PageOf(j)' = PageOf(j)
  BY <1>1, <1>2, <1>3, <1>4, <1>6, ReplaceRows
<1>8. PageOf(i)' = {With(row, f, v) : row \in PageOf(i)}
  BY <1>2, <1>3, <1>5 DEF PageOf
<1> QED BY <1>7, <1>8

(* An answer brings the item's row.                                          *)
LEMMA ReplacedIs ==
  ASSUME PageTypes, NEW i \in Ids, NEW new \in PageRows, new.id \in Ids,
         page' = Replaced(i, new)
  PROVE  /\ PageTypes'
         /\ \A j : j # i /\ (PageOf(i) # {} => new.id # j) => PageOf(j)' = PageOf(j)
         /\ new.id # i => PageOf(i)' = {}
         /\ new.id = i => PageOf(i)' = IF PageOf(i) = {} THEN {} ELSE {new}
         /\ PageOf(i) # {} /\ PageOf(new.id) = {} => PageOf(new.id)' = {new}
<1> DEFINE g == [row \in page |-> IF row.id = i THEN new ELSE row]
<1>1. \A row \in page : row \in PageRows /\ row.id \in Ids BY DEF PageTypes
<1>2. \A row \in page : g[row] \in PageRows /\ g[row].id \in Ids BY <1>1
<1>3. page' = {g[row] : row \in page} BY DEF Replaced
<1>4. \A row \in page : row.id # i => g[row] = row OBVIOUS
<1>5. \A row \in page : row.id = i => g[row] = new OBVIOUS
<1>6. DOMAIN g = page /\ g = [row \in page |-> g[row]] OBVIOUS
<1> HIDE DEF g
<1>7. PageTypes' /\ \A j : j # i /\ (\A row \in page : row.id = i => g[row].id # j)
                              => PageOf(j)' = PageOf(j)
  BY <1>1, <1>2, <1>3, <1>4, <1>6, ReplaceRows
<1>8. \A j : j # i /\ (PageOf(i) # {} => new.id # j) => PageOf(j)' = PageOf(j)
  BY <1>5, <1>7 DEF PageOf
<1>9. new.id # i => PageOf(i)' = {}
  BY <1>3, <1>4, <1>5 DEF PageOf
<1>10. new.id = i => PageOf(i)' = IF PageOf(i) = {} THEN {} ELSE {new}
  BY <1>3, <1>4, <1>5 DEF PageOf
<1>11. PageOf(i) # {} /\ PageOf(new.id) = {} => PageOf(new.id)' = {new}
  BY <1>3, <1>4, <1>5 DEF PageOf
<1> QED BY <1>7, <1>8, <1>9, <1>10, <1>11

(* A row is taken off the page.                                              *)
LEMMA WithoutIs ==
  ASSUME PageTypes, NEW i, page' = Without(i)
  PROVE  PageTypes' /\ (\A j : j # i => PageOf(j)' = PageOf(j)) /\ PageOf(i)' = {}
<1>1. page' \subseteq page BY DEF Without
<1>2. PageTypes' BY <1>1, FS_Subset DEF PageTypes
<1> QED BY <1>2 DEF Without, PageOf

(* A row is put on the page.                                                 *)
LEMMA RowAdded ==
  ASSUME PageTypes, NEW row \in PageRows, row.id \in Ids, page' = page \cup {row}
  PROVE  PageTypes' /\ (\A j : j # row.id => PageOf(j)' = PageOf(j))
         /\ PageOf(row.id)' = PageOf(row.id) \cup {row}
<1>1. IsFiniteSet(page') BY FS_AddElement DEF PageTypes
<1>2. PageTypes' BY <1>1 DEF PageTypes
<1> QED BY <1>2 DEF PageOf
-----------------------------------------------------------------------------

(* A request that is asked.                                                  *)
LEMMA RequestIs ==
  ASSUME ItemTypes, NEW kind \in Kinds, NEW id \in Ids,
         NEW change \in Changes,
         NEW r, r = Request(kind, id, change)
  PROVE  /\ r \in Requests /\ r.n = inputs + 1 /\ r.kind = kind /\ r.id = id
         /\ r.change = change /\ r.rest = {} /\ r.mine /\ r.at = "sent" /\ r.new = 0
<1>1. Shown(0, NoRow) \in AnyShown /\ NoRow \in AnyRow
  BY TheRows DEF Shown, AnyShown, AnyRow
<1>2. inputs \in Nat /\ id \in Int BY TheItems DEF ItemTypes
<1> QED BY <1>1, <1>2 DEF Request, Requests, Kinds, Stages, Cols

(* One with the row that a failure puts back.                                *)
Carrying(q, row) == [q EXCEPT !.row = row]
LEMMA RowRequestIs ==
  ASSUME ItemTypes, NEW kind \in Kinds, NEW id \in Ids,
         NEW change \in Changes, NEW row \in PageRows,
         NEW r, r = Carrying(Request(kind, id, change), row)
  PROVE  /\ r \in Requests /\ r.n = inputs + 1 /\ r.kind = kind /\ r.id = id
         /\ r.change = change /\ r.rest = {} /\ r.mine /\ r.at = "sent" /\ r.new = 0
         /\ r.row = row
<1>1. PICK q : q = Request(kind, id, change) OBVIOUS
<1>2. /\ q \in Requests /\ q.n = inputs + 1 /\ q.kind = kind /\ q.id = id
      /\ q.change = change /\ q.rest = {} /\ q.mine /\ q.at = "sent" /\ q.new = 0
  BY <1>1, RequestIs
<1>3. row \in AnyShown BY TheRows
<1> QED BY <1>1, <1>2, <1>3 DEF Requests, Carrying

(* The first of many.                                                        *)
First(id, rest) == [Request("promote", id, NoChange) EXCEPT !.rest = rest, !.bulk = TRUE]
LEMMA BulkRequestIs ==
  ASSUME ItemTypes, NEW id \in Ids, NEW rest \in SUBSET Ids,
         NEW r, r = First(id, rest)
  PROVE  /\ r \in Requests /\ r.n = inputs + 1 /\ r.kind = "promote" /\ r.id = id
         /\ r.rest = rest /\ r.mine /\ r.at = "sent" /\ r.new = 0
         /\ r.change = NoChange
<1>1. NoChange \in Changes BY DEF NoChange, Changes, Anything
<1>2. "promote" \in Kinds BY DEF Kinds
<1>3. PICK q : q = Request("promote", id, NoChange) OBVIOUS
<1>4. /\ q \in Requests /\ q.n = inputs + 1 /\ q.kind = "promote" /\ q.id = id
      /\ q.rest = {} /\ q.mine /\ q.at = "sent" /\ q.new = 0 /\ q.change = NoChange
  BY <1>3, <1>1, <1>2, RequestIs
<1>5. rest \in SUBSET Int BY TheItems
<1> QED BY <1>3, <1>5, <1>4 DEF Requests, First

(* Somebody else's.                                                          *)
Foreign(q) == [q EXCEPT !.mine = FALSE]
LEMMA TheirRequestIs ==
  ASSUME ItemTypes, NEW kind \in Kinds, NEW id \in Ids,
         NEW change \in Changes,
         NEW r, r = Foreign(Request(kind, id, change))
  PROVE  /\ r \in Requests /\ r.n = inputs + 1 /\ r.kind = kind /\ r.id = id
         /\ r.change = change /\ r.rest = {} /\ ~r.mine /\ r.at = "sent" /\ r.new = 0
<1>1. PICK q : q = Request(kind, id, change) OBVIOUS
<1>2. /\ q \in Requests /\ q.n = inputs + 1 /\ q.kind = kind /\ q.id = id
      /\ q.change = change /\ q.rest = {} /\ q.mine /\ q.at = "sent" /\ q.new = 0
  BY <1>1, RequestIs
<1> QED BY <1>1, <1>2 DEF Requests, Foreign

(* A request a stage further on.                                             *)
Same(r, new) ==
  /\ new \in Requests /\ new.n = r.n /\ new.kind = r.kind /\ new.id = r.id
  /\ new.change = r.change /\ new.row = r.row /\ new.rest = r.rest /\ new.mine = r.mine
LEMMA StageIs ==
  ASSUME NEW r \in Requests, NEW at \in Stages,
         NEW new, new = [r EXCEPT !.at = at]
  PROVE  Same(r, new) /\ new.at = at /\ new.new = r.new /\ new.back = r.back
BY DEF Same, Requests

(* A promoted row.                                                           *)
LEMMA PromotedIs ==
  ASSUME NEW row \in Stored,
         NEW new, new = [row EXCEPT !.status = "promoted"]
  PROVE  /\ new \in Stored /\ new.status = "promoted"
         /\ \A f \in Cols : f # "status" => new[f] = row[f]
BY DEF Stored, Statuses, Cols

(* With the row promoted.                                                    *)
LEMMA BackPromotedIs ==
  ASSUME NEW r \in Requests, r.back \in Stored,
         NEW new, new = [r EXCEPT !.at = "done", !.back.status = "promoted"]
  PROVE  /\ Same(r, new) /\ new.at = "done" /\ new.new = r.new
         /\ new.back = [r.back EXCEPT !.status = "promoted"] /\ new.back \in Stored
<1> DEFINE back == [r.back EXCEPT !.status = "promoted"]
<1>1. back \in Stored BY PromotedIs
<1>2. back \in AnyRow BY <1>1, TheRows
<1>3. new = [r EXCEPT !.at = "done", !.back = back] OBVIOUS
<1>4. back = [r.back EXCEPT !.status = "promoted"] OBVIOUS
<1> HIDE DEF back
<1>5. "done" \in Stages BY DEF Stages
<1>6. back \in AnyRow /\ "done" \in Stages BY <1>2, <1>5
<1>7. Same(r, new) /\ new.at = "done" /\ new.new = r.new /\ new.back = back
  BY <1>3, <1>6 DEF Same, Requests
<1> QED BY <1>1, <1>4, <1>7

-----------------------------------------------------------------------------

(* What is known of an item stays known while nothing changes of it.          *)
LEMMA StaysRight ==
  ASSUME ItemTypes, ItemTypes', NEW i \in Items, Right(i), PageOf(i)' = PageOf(i),
         items'[i] = items[i], MineOf(i)' = MineOf(i), FreshOf(i)' = FreshOf(i),
         \A r \in reqs' : i \in r.rest => PageOf(i) # {} \/ \E q \in reqs : i \in q.rest
  PROVE  Right(i)'
<1>1. i \in There' <=> i \in There BY DEF There
<1>2. ASSUME NEW r, Told(r, i) PROVE Told(r, i)'
  BY <1>1, <1>2 DEF Told
<1>3. ASSUME JustCreated(i) PROVE JustCreated(i)'
  <2>1. \A r \in reqs' : i \notin r.rest BY <1>3 DEF JustCreated
  <2> QED BY <1>1, <1>3, <2>1 DEF JustCreated
<1>4. ASSUME Known(i) PROVE Known(i)'
  <2>1. \A r \in MineOf(i)' : Told(r, i)' BY <1>2, <1>4 DEF Known
  <2>2. Removed(i)' <=> Removed(i) BY <1>1 DEF Removed
  <2>3. Listed(i) => Listed(i)' BY DEF Listed, Explains
  <2> QED BY <1>4, <2>1, <2>2, <2>3 DEF Known
<1> QED BY <1>3, <1>4 DEF Right

(* What is known of an item that the page shows.                             *)
LEMMA OnThePage ==
  ASSUME ItemTypes, AllRight, NEW i \in Items, i \notin doubt, PageOf(i) # {}
  PROVE  /\ FreshOf(i) = {} /\ i \in There /\ items[i] \in Stored
         /\ \A r \in MineOf(i) : Told(r, i) /\ r.kind # "delete"
         /\ Listed(i)
<1>1. Right(i) BY DEF AllRight
<1>2. FreshOf(i) = {} /\ Known(i) BY <1>1 DEF Right, JustCreated
<1>3. ~Removed(i) BY <1>2 DEF Known
<1> QED BY <1>2, <1>3, ThereIs DEF Known, Removed

(* What is known of an item for which the page has a request.                *)
LEMMA UnderWay ==
  ASSUME AllRight, NEW i \in Items, i \notin doubt, MineOf(i) # {}
  PROVE  FreshOf(i) = {} /\ Known(i)
BY DEF AllRight, Right, JustCreated

(* It is the only one unless all change a column each.                       *)
LEMMA OnlyOne ==
  ASSUME NoRace, NEW i, i \notin doubt, NEW r \in MineOf(i)
  PROVE  \A q \in MineOf(i) : q = r \/ Apart(q, r)
BY DEF NoRace, MineOf
-----------------------------------------------------------------------------

(* A request more.                                                           *)
Asked(r) ==
  /\ r \in Requests /\ r.n = inputs + 1 /\ r.id \in Ids /\ r.at = "sent" /\ r.new = 0
  /\ reqs' = reqs \cup {r} /\ inputs' = inputs + 1 /\ items' = items
LEMMA AskedIs ==
  ASSUME AllGood, OneNumber, ItemTypes, NEW r, Asked(r), Good(r)'
  PROVE  /\ AllGood' /\ OneNumber' /\ ItemTypes' /\ \A i : FreshOf(i)' = FreshOf(i)
         /\ \A i : i # r.id \/ ~r.mine => MineOf(i)' = MineOf(i)
         /\ r.mine => MineOf(r.id)' = MineOf(r.id) \cup {r}
<1>1. inputs \in Nat /\ inputs' = inputs + 1 /\ reqs' = reqs \cup {r} /\ items' = items
  BY DEF Asked, ItemTypes
<1>2. ASSUME NEW q \in reqs PROVE Good(q)' /\ q.n # r.n
  <2>1. Good(q) BY DEF AllGood
  <2>2. q.n \in 1 .. inputs BY <2>1 DEF Good
  <2>3. q.n \in 1 .. inputs' /\ q.n # inputs + 1 BY <1>1, <2>2
  <2> QED BY <2>1, <2>3 DEF Good, Asked
<1>3. AllGood' BY <1>1, <1>2 DEF AllGood
<1>4. OneNumber' BY <1>1, <1>2 DEF OneNumber
<1>5. ItemTypes' BY <1>1 DEF ItemTypes, Items
<1>6. r.at # "done" BY DEF Asked
<1>7. \A i : FreshOf(i)' = FreshOf(i) BY <1>1, <1>6 DEF FreshOf
<1>8. \A i : i # r.id \/ ~r.mine => MineOf(i)' = MineOf(i) BY <1>1 DEF MineOf
<1>9. r.mine => MineOf(r.id)' = MineOf(r.id) \cup {r} BY <1>1 DEF MineOf
<1> QED BY <1>3, <1>4, <1>5, <1>7, <1>8, <1>9

(* One of the page.                                                          *)
LEMMA AskIs ==
  ASSUME PageInv, NEW r, Good(r)', r \in Requests, r.n = inputs + 1, r.at = "sent",
         r.new = 0, r.mine, Ask(r), items' = items
  PROVE  /\ Asked(r) /\ AllGood' /\ OneNumber' /\ ItemTypes' /\ NoRace'
         /\ doubt \subseteq doubt'
         /\ \A i : FreshOf(i)' = FreshOf(i)
         /\ \A i : i # r.id => MineOf(i)' = MineOf(i)
         /\ MineOf(r.id)' = MineOf(r.id) \cup {r}
         /\ r.id \notin doubt' => \A q \in MineOf(r.id) : Apart(q, r)
<1>1. Asked(r) BY DEF Asked, Ask, Input, Good
<1>2. /\ AllGood' /\ OneNumber' /\ ItemTypes' /\ \A i : FreshOf(i)' = FreshOf(i)
      /\ \A i : i # r.id => MineOf(i)' = MineOf(i)
      /\ MineOf(r.id)' = MineOf(r.id) \cup {r}
  BY <1>1, AskedIs DEF PageInv
<1>3. doubt' = Raced(r.kind, r.id, r.change) BY DEF Ask
<1>4. doubt \subseteq doubt' BY <1>3 DEF Raced
<1>5. ASSUME r.id \notin doubt', NEW q \in MineOf(r.id) PROVE Apart(q, r)
  <2>1. ~Races(r.kind, r.id, r.change) BY <1>3, <1>5 DEF Raced
  <2>2. q \in reqs /\ q.mine /\ q.id = r.id BY <1>5 DEF MineOf
  <2> QED BY <2>1, <2>2 DEF Races, Apart
<1>6. NoRace'
  <2> SUFFICES ASSUME NEW p \in reqs', NEW q \in reqs', p # q, p.mine, q.mine, p.id = q.id,
                      p.id \notin doubt'
               PROVE  Apart(p, q)
    BY DEF NoRace, Apart
  <2>1. CASE p \in reqs /\ q \in reqs BY <1>4, <2>1 DEF PageInv, NoRace
  <2>2. CASE p = r /\ q \in reqs BY <1>5, <2>2 DEF MineOf, Apart
  <2>3. CASE q = r /\ p \in reqs BY <1>5, <2>3 DEF MineOf, Apart
  <2> QED BY <1>1, <2>1, <2>2, <2>3 DEF Asked
<1> QED BY <1>1, <1>2, <1>4, <1>5, <1>6

(* The row that the user sees tells of the item, unless that is in doubt.    *)
Clear(row, i) ==
  /\ FreshOf(i) = {} /\ i \in There /\ items[i] \in Stored /\ PageOf(i) = {row}
  /\ \A r \in MineOf(i) : Told(r, i) /\ r.kind # "delete"
  /\ \A f \in Cols : row[f] = items[i][f] \/ \E r \in MineOf(i) : Explains(r, f)
LEMMA SeenRow ==
  ASSUME PageInv, NEW row \in page
  PROVE  /\ row \in PageRows /\ row.id \in Ids /\ PageOf(row.id) # {}
         /\ row.id \in Items /\ row.id \notin doubt => Clear(row, row.id)
         /\ row.id < 0 /\ row.id \notin doubt =>
              \E r \in reqs : r.kind = "create" /\ r.id = row.id /\ r.mine
<1>1. row \in PageRows /\ row.id \in Ids BY DEF PageInv, PageTypes
<1>2. row \in PageOf(row.id) BY DEF PageOf
<1>3. ASSUME row.id \in Items, row.id \notin doubt PROVE Clear(row, row.id)
  <2>1. /\ FreshOf(row.id) = {} /\ row.id \in There /\ items[row.id] \in Stored
        /\ \A r \in MineOf(row.id) : Told(r, row.id) /\ r.kind # "delete"
        /\ Listed(row.id)
    BY <1>2, <1>3, OnThePage DEF PageInv
  <2>2. PageOf(row.id) = {row} BY <1>2, <2>1 DEF Listed
  <2> QED BY <2>1, <2>2 DEF Listed, Clear
<1>4. ASSUME row.id < 0, row.id \notin doubt
      PROVE  \E r \in reqs : r.kind = "create" /\ r.id = row.id /\ r.mine
  BY <1>4 DEF PageInv, Temps, AllGood, Good
<1> QED BY <1>1, <1>2, <1>3, <1>4

(* What the user asks of rows on the page leaves the others as they are.     *)
LEMMA OthersStay ==
  ASSUME PageInv, NEW r, Asked(r), r.mine, AllGood', ItemTypes', doubt \subseteq doubt',
         r.kind # "create" => PageOf(r.id) # {},
         \A i \in r.rest : PageOf(i) # {},
         \A i : FreshOf(i)' = FreshOf(i), \A i : i # r.id => MineOf(i)' = MineOf(i),
         \A i \in Items : i # r.id => PageOf(i)' = PageOf(i),
         PageOf(r.id) = {} => r.kind = "create"
  PROVE  /\ \A i \in Items \ doubt' : i # r.id => Right(i)'
         /\ Born'
<1>1. reqs' = reqs \cup {r} /\ items' = items BY DEF Asked
<1>2. ASSUME NEW i \in Items \ doubt', i # r.id PROVE Right(i)'
  <2>1. Right(i) BY <1>2 DEF PageInv, AllRight
  <2>2. PageOf(i)' = PageOf(i) /\ MineOf(i)' = MineOf(i) /\ FreshOf(i)' = FreshOf(i)
    BY <1>2
  <2>3. \A q \in reqs' : i \in q.rest => PageOf(i) # {} \/ \E p \in reqs : i \in p.rest
    BY <1>1
  <2> QED BY <1>1, <2>1, <2>2, <2>3, StaysRight DEF PageInv
<1>3. ASSUME NEW i \in Items, items[i] = NoRow
      PROVE  PageOf(i)' = {} /\ \A q \in reqs' : ~Names(q, i)
  <2>1. PageOf(i) = {} /\ \A q \in reqs : ~Names(q, i) BY <1>3 DEF PageInv, Born
  <2>2. r.kind = "create" => r.id < 0 /\ r.rest = {}
    <3>1. Good(r)' BY <1>1 DEF AllGood
    <3>2. r.kind = "create" => r.id = -r.n /\ r.n \in 1 .. inputs' /\ r.rest = {}
      BY <3>1 DEF Good
    <3>3. inputs' \in Nat BY DEF ItemTypes
    <3> QED BY <3>2, <3>3
  <2>3. r.new = 0 BY DEF Asked
  <2>4. i > 0 BY TheItems
  <2>5. i # r.id
    <3>1. CASE r.kind = "create"
      <4>1. r.id < 0 BY <2>2, <3>1
      <4>2. ~(i < 0) BY TheItems
      <4> QED BY <4>1, <4>2
    <3>2. CASE r.kind # "create" BY <2>1, <3>2
    <3> QED BY <3>1, <3>2
  <2>6. i \notin r.rest BY <2>1
  <2>7. r.new # i BY <2>3, <2>4
  <2>8. ~Names(r, i) BY <2>5, <2>6, <2>7 DEF Names
  <2> QED BY <1>1, <1>3, <2>1, <2>5, <2>8
<1>4. Born' BY <1>1, <1>3 DEF Born, Items
<1> QED BY <1>2, <1>4

(* Ids are kept, so a temporary row still waits for its creation.            *)
LEMMA TempsStay ==
  ASSUME PageInv, NEW r, r.mine, Asked(r), doubt \subseteq doubt',
         \A row \in page' : row.id < 0 =>
           (\E old \in page : old.id = row.id) \/ (r.kind = "create" /\ r.id = row.id),
         r.kind = "delete" => \E row \in page : row.id = r.id,
         r.id \notin doubt' => \A q \in MineOf(r.id) : Apart(q, r)
  PROVE  Temps'
<1>1. reqs' = reqs \cup {r} BY DEF Asked
<1>2. ASSUME NEW row \in page', row.id < 0, row.id \notin doubt'
      PROVE  \E q \in reqs' : q.kind = "create" /\ q.id = row.id
  BY <1>1, <1>2 DEF PageInv, Temps
<1>3. ASSUME NEW q \in reqs', q.kind = "delete", q.mine, q.id < 0 PROVE q.id \in doubt'
  <2>1. CASE q \in reqs BY <1>3, <2>1 DEF PageInv, Temps
  <2>2. CASE q = r
    <3>1. PICK row \in page : row.id = r.id BY <1>3, <2>2
    <3>2. SUFFICES ASSUME r.id \notin doubt' PROVE FALSE BY <2>2
    <3>3. PICK p \in reqs : p.kind = "create" /\ p.id = r.id /\ p.mine
      BY <1>3, <2>2, <3>1, <3>2, SeenRow
    <3>4. Apart(p, r) BY <3>2, <3>3 DEF MineOf
    <3> QED BY <3>3, <3>4 DEF Apart
  <2> QED BY <1>1, <1>3, <2>1, <2>2
<1> QED BY <1>2, <1>3 DEF Temps
-----------------------------------------------------------------------------

(* What the user asks keeps the invariant when it is right about its item.    *)
LEMMA UserAsks ==
  ASSUME PageInv, NEW r, Good(r)', r \in Requests, r.n = inputs + 1, r.at = "sent",
         r.new = 0, r.mine, Ask(r), items' = items, PageTypes',
         r.kind = "create" \/ PageOf(r.id) # {}, \A i \in r.rest : PageOf(i) # {},
         \A i \in Items : i # r.id => PageOf(i)' = PageOf(i),
         \A row \in page' : row.id < 0 =>
           (\E old \in page : old.id = row.id) \/ (r.kind = "create" /\ r.id = row.id),
         r.id \in Items /\ r.id \notin doubt' => Right(r.id)'
  PROVE  PageInv'
<1>1. /\ Asked(r) /\ AllGood' /\ OneNumber' /\ ItemTypes' /\ NoRace' /\ doubt \subseteq doubt'
      /\ \A i : FreshOf(i)' = FreshOf(i)
      /\ \A i : i # r.id => MineOf(i)' = MineOf(i)
      /\ r.id \notin doubt' => \A q \in MineOf(r.id) : Apart(q, r)
  BY AskIs
<1>2. Born' /\ \A i \in Items \ doubt' : i # r.id => Right(i)' BY <1>1, OthersStay
<1>3. r.kind = "delete" => \E row \in page : row.id = r.id BY DEF PageOf
<1>4. Temps' BY <1>1, <1>3, TempsStay
<1>5. AllRight' BY <1>2 DEF AllRight, Items
<1> QED BY <1>1, <1>2, <1>4, <1>5 DEF PageInv

(* A column of a row is changed.                                             *)
LEMMA PatchKeeps ==
  ASSUME PageInv, NEW row \in page, NEW f, NEW v, Fits(f, v),
         NEW r, r \in Requests, r.n = inputs + 1, r.kind = "patch", r.id = row.id,
         r.change = Change(f, v), r.rest = {}, r.mine, r.at = "sent", r.new = 0,
         f = "type" => r.row = row,
         Ask(r), page' = OnPage(row.id, f, v), items' = items
  PROVE  PageInv'
<1>1. /\ row \in PageRows /\ row.id \in Ids /\ PageOf(row.id) # {}
      /\ row.id \in Items /\ row.id \notin doubt => Clear(row, row.id)
  BY SeenRow
<1>2. r.change.field = f /\ r.change.to = v BY DEF Change
<1>3. Good(r)'
  <2>1. inputs \in Nat /\ inputs' = inputs + 1 BY DEF PageInv, ItemTypes, Ask, Input
  <2>2. r.n \in 1 .. inputs' BY <2>1
  <2> QED BY <1>1, <1>2, <2>2 DEF Good, Fits
<1>4. /\ PageTypes' /\ \A j : j # row.id => PageOf(j)' = PageOf(j)
      /\ PageOf(row.id)' = {With(q, f, v) : q \in PageOf(row.id)}
  BY <1>1, OnPageIs DEF PageInv
<1>5. ASSUME NEW new \in page' PROVE \E old \in page : old.id = new.id
  <2>1. new \in PageOf(new.id)' BY <1>5 DEF PageOf
  <2> QED BY <1>4, <2>1 DEF PageOf
<1>6. ASSUME r.id \in Items, r.id \notin doubt' PROVE Right(r.id)'
  <2>1. PICK i \in Items : i = row.id BY <1>6
  <2>2. /\ \A j : FreshOf(j)' = FreshOf(j) /\ doubt \subseteq doubt'
        /\ MineOf(i)' = MineOf(i) \cup {r} /\ \A q \in MineOf(i) : Apart(q, r)
    BY <1>3, <1>6, <2>1, AskIs
  <2>3. Clear(row, i) BY <1>1, <1>6, <2>1, <2>2
  <2>4. /\ FreshOf(i) = {} /\ i \in There /\ PageOf(i) = {row}
        /\ \A q \in MineOf(i) : Told(q, i) /\ q.kind # "delete"
        /\ \A g \in Cols : row[g] = items[i][g] \/ \E q \in MineOf(i) : Explains(q, g)
    BY <2>3 DEF Clear
  <2>5. PICK new : new = With(row, f, v) OBVIOUS
  <2>6. /\ new[f] = v /\ \A g \in Cols : g # f => new[g] = row[g] BY <1>1, <2>5, WithIs
  <2>7. PageOf(i)' = {new} BY <1>4, <2>1, <2>4, <2>5
  <2>8. i \in There' BY <2>4 DEF There, Items
  <2>9. ASSUME NEW q \in MineOf(i) PROVE Told(q, i)'
    <3>1. Told(q, i) /\ q.kind = "patch" /\ q.change.field # f
      BY <1>2, <2>2, <2>4 DEF Apart
    <3>2. q.change.field \in Cols
      BY <3>1 DEF PageInv, AllGood, Good, Fits, MineOf
    <3>3. new[q.change.field] = q.change.to BY <2>4, <2>6, <3>1, <3>2 DEF Told
    <3> QED BY <2>7, <2>8, <3>1, <3>3 DEF Told
  <2>10. Told(r, i)'
    <3>1. ASSUME f = "type" PROVE row.type = items[i].type
      <4>1. \A q \in MineOf(i) : ~Explains(q, "type")
        BY <1>2, <2>2, <3>1 DEF Apart, Explains
      <4>2. row["type"] = items[i]["type"] BY <2>4, <4>1 DEF Cols
      <4> QED BY <4>2
    <3> QED BY <1>2, <2>6, <2>7, <2>8, <3>1 DEF Told
  <2>11. ~Removed(i)' BY <2>2, <2>4, <2>8 DEF Removed
  <2>12. Listed(i)'
    <3>1. ASSUME NEW g \in Cols
          PROVE  new[g] = items[i][g] \/ \E q \in MineOf(i)' : Explains(q, g)
      <4>1. CASE g = f BY <1>2, <2>2, <4>1 DEF Explains
      <4>2. CASE g # f BY <2>2, <2>4, <2>6, <4>2
      <4> QED BY <4>1, <4>2
    <3>2. \A g \in Cols : new[g] = items'[i][g] \/ \E q \in MineOf(i)' : Explains(q, g)'
      BY <3>1 DEF Explains
    <3> QED BY <2>7, <3>2 DEF Listed
  <2>13. Known(i)' BY <2>2, <2>9, <2>10, <2>11, <2>12 DEF Known
  <2> QED BY <2>1, <2>2, <2>4, <2>13 DEF Right
<1> QED BY <1>1, <1>3, <1>4, <1>5, <1>6, UserAsks

(* A row is deleted.                                                         *)
LEMMA RemoveKeeps ==
  ASSUME PageInv, NEW row \in page,
         NEW r, r \in Requests, r.n = inputs + 1, r.kind = "delete", r.id = row.id,
         r.row = row, r.rest = {}, r.mine, r.at = "sent", r.new = 0,
         Ask(r), page' = Without(row.id), items' = items
  PROVE  PageInv'
<1>1. /\ row \in PageRows /\ row.id \in Ids /\ PageOf(row.id) # {}
      /\ row.id \in Items /\ row.id \notin doubt => Clear(row, row.id)
  BY SeenRow
<1>2. Good(r)'
  <2>1. inputs \in Nat /\ inputs' = inputs + 1 BY DEF PageInv, ItemTypes, Ask, Input
  <2>2. r.n \in 1 .. inputs' BY <2>1
  <2> QED BY <1>1, <2>2 DEF Good
<1>3. PageTypes' /\ (\A j : j # row.id => PageOf(j)' = PageOf(j)) /\ PageOf(row.id)' = {}
  BY WithoutIs DEF PageInv
<1>4. page' \subseteq page BY DEF Without
<1>5. ASSUME r.id \in Items, r.id \notin doubt' PROVE Right(r.id)'
  <2>1. PICK i \in Items : i = row.id BY <1>5
  <2>2. /\ \A j : FreshOf(j)' = FreshOf(j) /\ doubt \subseteq doubt'
        /\ MineOf(i)' = MineOf(i) \cup {r} /\ \A q \in MineOf(i) : Apart(q, r)
    BY <1>2, <1>5, <2>1, AskIs
  <2>3. Clear(row, i) BY <1>1, <1>5, <2>1, <2>2
  <2>4. /\ FreshOf(i) = {} /\ i \in There /\ items[i] \in Stored
        /\ \A g \in Cols : row[g] = items[i][g] \/ \E q \in MineOf(i) : Explains(q, g)
    BY <2>3 DEF Clear
  <2>5. MineOf(i) = {} BY <2>2 DEF Apart
  <2>6. row = Shown(i, items[i]) BY <1>1, <2>1, <2>4, <2>5, SameRow
  <2>7. i \in There' BY <2>4 DEF There, Items
  <2>8. Told(r, i)' BY <2>6, <2>7 DEF Told
  <2>9. Known(i)' BY <1>3, <2>1, <2>2, <2>5, <2>8 DEF Known, Removed
  <2> QED BY <2>1, <2>2, <2>4, <2>9 DEF Right
<1> QED BY <1>1, <1>2, <1>3, <1>4, <1>5, UserAsks

(* Rows are promoted.                                                        *)
LEMMA PromoteKeeps ==
  ASSUME PageInv, NEW r, r \in Requests, r.n = inputs + 1, r.kind = "promote",
         r.rest \subseteq Ids, r.mine, r.at = "sent", r.new = 0,
         \A i \in r.rest \cup {r.id} : PageOf(i) # {},
         Ask(r), page' = page, items' = items
  PROVE  PageInv'
<1>1. PICK row \in page : row.id = r.id BY DEF PageOf
<1>2. /\ row \in PageRows /\ row.id \in Ids
      /\ row.id \in Items /\ row.id \notin doubt => Clear(row, row.id)
  BY SeenRow
<1>3. Good(r)'
  <2>1. inputs \in Nat /\ inputs' = inputs + 1 BY DEF PageInv, ItemTypes, Ask, Input
  <2>2. r.n \in 1 .. inputs' BY <2>1
  <2> QED BY <1>1, <1>2, <2>2 DEF Good
<1>4. PageTypes' /\ \A j : PageOf(j)' = PageOf(j) BY DEF PageInv, PageTypes, PageOf
<1>5. ASSUME r.id \in Items, r.id \notin doubt' PROVE Right(r.id)'
  <2>1. PICK i \in Items : i = row.id BY <1>1, <1>5
  <2>2. /\ \A j : FreshOf(j)' = FreshOf(j) /\ doubt \subseteq doubt'
        /\ MineOf(i)' = MineOf(i) \cup {r} /\ \A q \in MineOf(i) : Apart(q, r)
    BY <1>1, <1>3, <1>5, <2>1, AskIs
  <2>3. Clear(row, i) BY <1>1, <1>2, <1>5, <2>1, <2>2
  <2>4. /\ FreshOf(i) = {} /\ i \in There /\ PageOf(i) = {row}
        /\ \A g \in Cols : row[g] = items[i][g] \/ \E q \in MineOf(i) : Explains(q, g)
    BY <2>3 DEF Clear
  <2>5. MineOf(i) = {} BY <2>2 DEF Apart
  <2>6. i \in There' BY <2>4 DEF There, Items
  <2>7. Told(r, i)' BY DEF Told
  <2>8. Listed(i)'
    <3>1. \A g \in Cols : row[g] = items'[i][g] BY <2>4, <2>5
    <3>2. PageOf(i)' = {row} BY <1>4, <2>4
    <3> QED BY <3>1, <3>2 DEF Listed
  <2>9. ~Removed(i)' BY <2>2, <2>5, <2>6 DEF Removed
  <2>10. Known(i)' BY <2>2, <2>5, <2>7, <2>8, <2>9 DEF Known
  <2> QED BY <1>1, <2>1, <2>2, <2>4, <2>10 DEF Right
<1> QED BY <1>3, <1>4, <1>5, UserAsks

(* A row is added.                                                           *)
LEMMA AddKeeps ==
  ASSUME PageInv, NEW row \in PageRows, row.id = -(inputs + 1),
         NEW r, r \in Requests, r.n = inputs + 1, r.kind = "create", r.id = row.id,
         r.row = row, r.rest = {}, r.mine, r.at = "sent", r.new = 0,
         Ask(r), page' = page \cup {row}, items' = items
  PROVE  PageInv'
<1>1. inputs \in Nat /\ inputs' = inputs + 1 BY DEF PageInv, ItemTypes, Ask, Input
<1>2. row.id \in Int /\ row.id < 0 BY <1>1
<1>3. row.id \in Ids /\ row.id \notin Items BY <1>2, TheItems DEF Ids
<1>4. Good(r)'
  <2>1. r.n \in 1 .. inputs' BY <1>1
  <2>2. r.id = -r.n BY <1>1
  <2> QED BY <1>3, <2>1, <2>2 DEF Good
<1>5. PageTypes' /\ \A j : j # row.id => PageOf(j)' = PageOf(j)
  BY <1>3, RowAdded DEF PageInv
<1> QED BY <1>3, <1>4, <1>5, UserAsks
-----------------------------------------------------------------------------

(* The rows' own conditions.                                                 *)
LEMMA ChangeIs ==
  ASSUME NEW f, NEW v, Fits(f, v)
  PROVE  Change(f, v) \in Changes
BY DEF Fits, Change, Changes, Anything, Cols

(* A text or a status is changed.                                           *)
LEMMA patchItemKeeps ==
  ASSUME PageInv, NEW row \in page, NEW f, NEW v, Fits(f, v), f # "type", patchItem(row, f, v)
  PROVE  PageInv'
<1>1. Change(f, v) \in Changes BY ChangeIs
<1>2. "patch" \in Kinds /\ row.id \in Ids BY SeenRow DEF Kinds
<1>3. PICK r : r = Request("patch", row.id, Change(f, v)) OBVIOUS
<1>4. ItemTypes BY DEF PageInv
<1>5. /\ r \in Requests /\ r.n = inputs + 1 /\ r.kind = "patch" /\ r.id = row.id
      /\ r.change = Change(f, v) /\ r.rest = {} /\ r.mine /\ r.at = "sent" /\ r.new = 0
  BY <1>1, <1>2, <1>3, <1>4, RequestIs
<1>6. Ask(r) /\ page' = OnPage(row.id, f, v) /\ items' = items
  BY <1>3 DEF patchItem, server
<1> QED BY <1>5, <1>6, PatchKeeps

(* A type is changed.                                                       *)
LEMMA changeTypeKeeps ==
  ASSUME PageInv, NEW row \in page, NEW t \in Types, changeType(row, t)
  PROVE  PageInv'
<1>1. Fits("type", t) BY PlanningAssumption DEF Fits, Cols
<1>2. Change("type", t) \in Changes BY <1>1, ChangeIs
<1>3. "patch" \in Kinds /\ row.id \in Ids /\ row \in PageRows BY SeenRow DEF Kinds
<1>4. PICK r : r = Carrying(Request("patch", row.id, Change("type", t)), row) OBVIOUS
<1>5. ItemTypes BY DEF PageInv
<1>6. /\ r \in Requests /\ r.n = inputs + 1 /\ r.kind = "patch" /\ r.id = row.id
      /\ r.change = Change("type", t) /\ r.rest = {} /\ r.mine /\ r.at = "sent" /\ r.new = 0
      /\ r.row = row
  BY <1>2, <1>3, <1>4, <1>5, RowRequestIs
<1>7. Ask(r) /\ page' = OnPage(row.id, "type", t) /\ items' = items
  BY <1>4 DEF changeType, server, Carrying
<1> QED BY <1>1, <1>6, <1>7, PatchKeeps

(* A row is deleted: the request carries it.                                *)
LEMMA removeItemKeeps ==
  ASSUME PageInv, NEW row \in page, removeItem(row)
  PROVE  PageInv'
<1>1. NoChange \in Changes BY DEF NoChange, Changes, Anything
<1>2. "delete" \in Kinds /\ row.id \in Ids /\ row \in PageRows BY SeenRow DEF Kinds
<1>3. PICK r : r = Carrying(Request("delete", row.id, NoChange), row) OBVIOUS
<1>4. ItemTypes BY DEF PageInv
<1>5. /\ r \in Requests /\ r.n = inputs + 1 /\ r.kind = "delete" /\ r.id = row.id
      /\ r.rest = {} /\ r.mine /\ r.at = "sent" /\ r.new = 0 /\ r.row = row
  BY <1>1, <1>2, <1>3, <1>4, RowRequestIs
<1>6. Ask(r) /\ page' = Without(row.id) /\ items' = items
  BY <1>3 DEF removeItem, server, Carrying
<1> QED BY <1>5, <1>6, RemoveKeeps

(* A row is sent to the board.                                              *)
LEMMA promoteOneKeeps ==
  ASSUME PageInv, NEW row \in page, promoteOne(row)
  PROVE  PageInv'
<1>1. NoChange \in Changes BY DEF NoChange, Changes, Anything
<1>2. "promote" \in Kinds /\ row.id \in Ids /\ PageOf(row.id) # {} BY SeenRow DEF Kinds
<1>3. PICK r : r = Request("promote", row.id, NoChange) OBVIOUS
<1>4. ItemTypes BY DEF PageInv
<1>5. /\ r \in Requests /\ r.n = inputs + 1 /\ r.kind = "promote" /\ r.id = row.id
      /\ r.rest = {} /\ r.mine /\ r.at = "sent" /\ r.new = 0
  BY <1>1, <1>2, <1>3, <1>4, RequestIs
<1>6. Ask(r) /\ page' = page /\ items' = items BY <1>3 DEF promoteOne, server
<1>7. \A i \in r.rest \cup {r.id} : PageOf(i) # {} BY <1>2, <1>5
<1>8. r.rest \subseteq Ids BY <1>5
<1> QED BY <1>5, <1>6, <1>7, <1>8, PromoteKeeps

(* A row is added under an id of its own.                                   *)
LEMMA commitNewKeeps ==
  ASSUME PageInv, NEW type \in Types, commitNew(type)
  PROVE  PageInv'
<1>1. inputs \in Nat BY DEF PageInv, ItemTypes
<1>2. PICK temp : temp = -(inputs + 1) OBVIOUS
<1>3. temp \in Ids BY <1>1, <1>2 DEF Ids
<1>4. PICK new : new = Row(type, NewText, "live") OBVIOUS
<1>5. new \in Stored
  BY <1>4, PlanningAssumption DEF Row, Stored, Statuses, AllTexts
<1>6. PICK row : row = Shown(temp, new) OBVIOUS
<1>7. row \in PageRows /\ row.id = temp BY <1>3, <1>5, <1>6, ShownIs
<1>8. NoChange \in Changes BY DEF NoChange, Changes, Anything
<1>9. "create" \in Kinds BY DEF Kinds
<1>10. PICK r : r = Carrying(Request("create", temp, NoChange), row) OBVIOUS
<1>11. ItemTypes BY DEF PageInv
<1>12. /\ r \in Requests /\ r.n = inputs + 1 /\ r.kind = "create" /\ r.id = temp
       /\ r.rest = {} /\ r.mine /\ r.at = "sent" /\ r.new = 0 /\ r.row = row
  BY <1>3, <1>7, <1>8, <1>9, <1>10, <1>11, RowRequestIs
<1>13. Ask(r) /\ page' = page \cup {row} /\ items' = items
  BY <1>2, <1>4, <1>6, <1>10 DEF commitNew, server, Carrying
<1> QED BY <1>2, <1>7, <1>12, <1>13, AddKeeps

(* Nothing changes that the invariant is about.                              *)
LEMMA PageIdle ==
  ASSUME PageInv, UNCHANGED <<items, page, reqs, doubt, inputs>>
  PROVE  PageInv'
<1>1. \A i : PageOf(i)' = PageOf(i) /\ MineOf(i)' = MineOf(i) /\ FreshOf(i)' = FreshOf(i)
  BY DEF PageOf, MineOf, FreshOf
<1>2. ItemTypes' BY DEF PageInv, ItemTypes, Items
<1>3. ASSUME NEW i \in Items \ doubt PROVE Right(i)'
  <2>1. Right(i) BY <1>3 DEF PageInv, AllRight
  <2>2. items'[i] = items[i] OBVIOUS
  <2>3. \A q \in reqs' : i \in q.rest => PageOf(i) # {} \/ \E p \in reqs : i \in p.rest
    OBVIOUS
  <2> QED BY <1>1, <1>2, <1>3, <2>1, <2>2, <2>3, StaysRight DEF PageInv
<1>4. AllRight' BY <1>3 DEF AllRight, Items
<1>5. AllGood' BY DEF PageInv, AllGood, Good
<1>6. PageTypes' BY DEF PageInv, PageTypes
<1>7. Born' BY <1>1 DEF PageInv, Born, Items
<1>8. OneNumber' /\ NoRace' /\ Temps' BY DEF PageInv, OneNumber, NoRace, Temps
<1> QED BY <1>2, <1>4, <1>5, <1>6, <1>7, <1>8 DEF PageInv

(* The chosen rows are sent, the first of them at once.                     *)
LEMMA handleBulkSendKeeps ==
  ASSUME PageInv, handleBulkSend
  PROVE  PageInv'
<1>1. PICK targets : targets = {row.id : row \in {it \in page : it.id \in select.ids
                                                    /\ it.status # "promoted"}}
  OBVIOUS
<1>2. ASSUME NEW i \in targets PROVE i \in Ids /\ PageOf(i) # {}
  <2>1. PICK row \in page : row.id = i BY <1>1
  <2> QED BY <2>1, SeenRow
<1>3. CASE UNCHANGED <<reqs, doubt, inputs, faults>>
  BY <1>3, PageIdle DEF handleBulkSend, server
<1>4. CASE \E i \in targets :
             Ask([Request("promote", i, NoChange) EXCEPT
                   !.rest = targets \ {i}, !.bulk = TRUE])
  <2>1. PICK i \in targets :
          Ask([Request("promote", i, NoChange) EXCEPT !.rest = targets \ {i}, !.bulk = TRUE])
    BY <1>4
  <2>2. PICK rest : rest = targets \ {i} OBVIOUS
  <2>3. PICK r : r = First(i, rest) OBVIOUS
  <2>4. i \in Ids /\ rest \in SUBSET Ids BY <1>2, <2>2
  <2>5. ItemTypes BY DEF PageInv
  <2>6. /\ r \in Requests /\ r.n = inputs + 1 /\ r.kind = "promote" /\ r.id = i
        /\ r.rest = rest /\ r.mine /\ r.at = "sent" /\ r.new = 0
    BY <2>3, <2>4, <2>5, BulkRequestIs
  <2>7. Ask(r) BY <2>1, <2>2, <2>3 DEF First
  <2>8. page' = page /\ items' = items BY DEF handleBulkSend, server
  <2>9. \A j \in r.rest \cup {r.id} : PageOf(j) # {} BY <1>2, <2>2, <2>6
  <2>10. r.rest \subseteq Ids BY <2>4, <2>6
  <2> QED BY <2>6, <2>7, <2>8, <2>9, <2>10, PromoteKeeps
<1> QED BY <1>1, <1>3, <1>4 DEF handleBulkSend

(* What the user of the page does.                                           *)
LEMMA PageUserKeeps ==
  ASSUME PageInv, UserStep
  PROVE  PageInv'
<1>1. ASSUME NEW row \in page, NEW text \in Texts, EditText(row, text) PROVE PageInv'
  <2>1. Fits("text", text) BY DEF Fits, Cols, AllTexts
  <2> QED BY <1>1, <2>1, patchItemKeeps DEF EditText
<1>2. ASSUME NEW row \in page, toggleStatus(row) PROVE PageInv'
  <2>1. \A v \in {"live", "dropped"} : Fits("status", v) BY DEF Fits, Cols, Statuses
  <2> QED BY <1>2, <2>1, patchItemKeeps DEF toggleStatus
<1>3. ASSUME NEW row \in page, toggleSelect(row) PROVE PageInv'
  BY <1>3, PageIdle DEF toggleSelect, server
<1>4. CASE enterSelectMode BY <1>4, PageIdle DEF enterSelectMode, server
<1>5. CASE exitSelectMode BY <1>5, PageIdle DEF exitSelectMode, server
<1> QED BY <1>1, <1>2, <1>3, <1>4, <1>5, changeTypeKeeps, removeItemKeeps, promoteOneKeeps,
           commitNewKeeps, handleBulkSendKeeps DEF UserStep
-----------------------------------------------------------------------------

(* A request comes a stage further.                                          *)
LEMMA BecomesIs ==
  ASSUME PageInv, NEW r \in reqs, NEW new, Same(r, new), Good(new), Becomes(r, new),
         inputs' = inputs, doubt \subseteq doubt'
  PROVE  /\ AllGood' /\ OneNumber' /\ NoRace'
         /\ \A i : i # r.id \/ ~r.mine => MineOf(i)' = MineOf(i)
         /\ r.mine => MineOf(r.id)' = (MineOf(r.id) \ {r}) \cup {new}
         /\ reqs' \subseteq reqs \cup {new} /\ reqs \ {r} \subseteq reqs'
         /\ r.mine => new \in reqs'
         /\ (r.kind # "create" \/ (r.at # "done" /\ new.at # "done")) =>
              \A i : FreshOf(i)' = FreshOf(i)
<1>1. /\ reqs' \subseteq (reqs \ {r}) \cup {new} /\ reqs \ {r} \subseteq reqs'
      /\ r.mine => new \in reqs'
  BY DEF Becomes
<1>2. /\ new.n = r.n /\ new.kind = r.kind /\ new.id = r.id /\ new.change = r.change
      /\ new.mine = r.mine
  BY DEF Same
<1>3. AllGood' BY <1>1 DEF PageInv, AllGood, Good
<1>4. OneNumber' BY <1>1, <1>2 DEF PageInv, OneNumber
<1>5. NoRace'
  <2> SUFFICES ASSUME NEW p \in reqs', NEW q \in reqs', p # q, p.mine, q.mine, p.id = q.id,
                      p.id \notin doubt'
               PROVE  Apart(p, q)
    BY DEF NoRace, Apart
  <2>1. \A a, b \in reqs : a # b /\ a.mine /\ b.mine /\ a.id = b.id /\ a.id \notin doubt
                             => Apart(a, b)
    BY DEF PageInv, NoRace
  <2>2. CASE p # new /\ q # new BY <1>1, <2>1, <2>2
  <2>3. CASE p = new /\ q # new
    <3>1. q \in reqs /\ q # r BY <1>1, <2>3
    <3>2. Apart(r, q) BY <1>2, <2>1, <2>3, <3>1
    <3> QED BY <1>2, <2>3, <3>2 DEF Apart
  <2>4. CASE q = new /\ p # new
    <3>1. p \in reqs /\ p # r BY <1>1, <2>4
    <3>2. Apart(p, r) BY <1>2, <2>1, <2>4, <3>1
    <3> QED BY <1>2, <2>4, <3>2 DEF Apart
  <2> QED BY <2>2, <2>3, <2>4
<1>6. \A i : i # r.id \/ ~r.mine => MineOf(i)' = MineOf(i)
  BY <1>1, <1>2 DEF MineOf
<1>7. r.mine => MineOf(r.id)' = (MineOf(r.id) \ {r}) \cup {new}
  BY <1>1, <1>2 DEF MineOf
<1>8. ASSUME r.kind # "create" \/ (r.at # "done" /\ new.at # "done")
      PROVE  \A i : FreshOf(i)' = FreshOf(i)
  BY <1>1, <1>2, <1>8 DEF FreshOf
<1> QED BY <1>1, <1>3, <1>4, <1>5, <1>6, <1>7, <1>8

(* It keeps the invariant when it is right about the items it touches.        *)
Untouched(r, i) ==
  items'[i] = items[i] /\ (i # r.id \/ ~r.mine) /\ FreshOf(i)' = FreshOf(i)
LEMMA MovesKeep ==
  ASSUME PageInv, NEW r \in reqs, NEW new, Same(r, new), Good(new), Becomes(r, new),
         inputs' = inputs, page' = page, doubt \subseteq doubt', ItemTypes',
         \A i \in Items : items'[i] = NoRow => items[i] = NoRow /\ (new.new = i => r.new = i),
         \A i \in Items \ doubt' : Right(i)' \/ Untouched(r, i)
  PROVE  PageInv'
<1>1. /\ AllGood' /\ OneNumber' /\ NoRace'
      /\ \A i : i # r.id \/ ~r.mine => MineOf(i)' = MineOf(i)
      /\ reqs' \subseteq reqs \cup {new} /\ reqs \ {r} \subseteq reqs'
      /\ r.mine => new \in reqs'
  BY BecomesIs
<1>2. new.kind = r.kind /\ new.id = r.id /\ new.rest = r.rest /\ new.mine = r.mine
  BY DEF Same
<1>3. PageTypes' /\ \A i : PageOf(i)' = PageOf(i) BY DEF PageInv, PageTypes, PageOf
<1>4. Temps'
  <2>1. ASSUME NEW row \in page, row.id < 0, row.id \notin doubt'
        PROVE  \E q \in reqs' : q.kind = "create" /\ q.id = row.id
    <3>1. PICK q \in reqs : q.kind = "create" /\ q.id = row.id BY <2>1 DEF PageInv, Temps
    <3>2. q.mine BY <3>1 DEF PageInv, AllGood, Good
    <3> QED BY <1>1, <1>2, <3>1, <3>2
  <2>2. ASSUME NEW q \in reqs', q.kind = "delete", q.mine, q.id < 0 PROVE q.id \in doubt'
    BY <1>1, <1>2, <2>2 DEF PageInv, Temps
  <2> QED BY <2>1, <2>2 DEF Temps
<1>5. Born'
  <2> SUFFICES ASSUME NEW i \in Items, items'[i] = NoRow
               PROVE  PageOf(i)' = {} /\ \A q \in reqs' : ~Names(q, i)
    BY DEF Born, Items, Names
  <2>1. items[i] = NoRow /\ (new.new = i => r.new = i) OBVIOUS
  <2>2. PageOf(i) = {} /\ \A q \in reqs : ~Names(q, i) BY <2>1 DEF PageInv, Born
  <2>3. ~Names(new, i) BY <1>2, <2>1, <2>2 DEF Names
  <2> QED BY <1>1, <1>3, <2>2, <2>3
<1>6. AllRight'
  <2> SUFFICES ASSUME NEW i \in Items \ doubt' PROVE Right(i)'
    BY DEF AllRight, Items
  <2>1. CASE Untouched(r, i)
    <3>1. Right(i) BY DEF PageInv, AllRight
    <3>2. items'[i] = items[i] /\ MineOf(i)' = MineOf(i) /\ FreshOf(i)' = FreshOf(i)
      BY <1>1, <2>1 DEF Untouched
    <3>3. \A q \in reqs' : i \in q.rest => PageOf(i) # {} \/ \E p \in reqs : i \in p.rest
      BY <1>1, <1>2
    <3> QED BY <1>3, <3>1, <3>2, <3>3, StaysRight DEF PageInv
  <2> QED BY <2>1
<1> QED BY <1>1, <1>3, <1>4, <1>5, <1>6 DEF PageInv

(* No row is written.                                                        *)
LEMMA StageKeeps ==
  ASSUME PageInv, NEW r \in reqs, NEW new, Same(r, new), Good(new), Becomes(r, new),
         UNCHANGED <<items, page, inputs>>, doubt' = doubt, new.new = r.new,
         r.at # "done", new.at # "done",
         new.at = "locked" => r.id \in There /\ items[r.id] = new.back
  PROVE  PageInv'
<1>1. ItemTypes' BY DEF PageInv, ItemTypes, Items
<1>2. /\ \A i : FreshOf(i)' = FreshOf(i)
      /\ r.mine => MineOf(r.id)' = (MineOf(r.id) \ {r}) \cup {new}
  BY BecomesIs
<1>3. /\ new.kind = r.kind /\ new.id = r.id /\ new.rest = r.rest /\ new.mine = r.mine
      /\ new.change = r.change /\ new.row = r.row
  BY DEF Same
<1>4. \A i : i \in There' <=> i \in There BY DEF There, Items
<1>5. PageOf(r.id)' = PageOf(r.id) BY DEF PageOf
<1>6. ASSUME r.id \in Items, r.id \notin doubt, r.mine PROVE Right(r.id)'
  <2>1. PICK i \in Items : i = r.id BY <1>6
  <2>2. r \in MineOf(i) BY <1>6, <2>1 DEF MineOf
  <2>3. FreshOf(i) = {} /\ Known(i) BY <1>6, <2>1, <2>2, UnderWay DEF PageInv
  <2>4. MineOf(i)' = (MineOf(i) \ {r}) \cup {new} BY <1>2, <1>6, <2>1
  <2>5. \A q \in MineOf(i) : Told(q, i) BY <2>3 DEF Known
  <2>6. \A q \in MineOf(i) \ {r} : Told(q, i)' BY <1>4, <1>5, <2>1, <2>5 DEF Told
  <2>7. Told(new, i)'
    <3>1. Told(r, i) BY <2>2, <2>5
    <3>2. r.kind = "delete" => Told(new, i)' BY <1>3, <1>4, <3>1 DEF Told
    <3>3. r.kind = "patch" => Told(new, i)' BY <1>3, <1>4, <1>5, <2>1, <3>1 DEF Told
    <3>4. r.kind = "promote" => Told(new, i)' BY <1>3, <1>4, <2>1 DEF Told
    <3>5. r.kind = "create" => Told(new, i)' BY <1>3 DEF Told
    <3>6. r.kind \in Kinds BY DEF PageInv, AllGood, Good, Requests
    <3> QED BY <3>2, <3>3, <3>4, <3>5, <3>6 DEF Kinds
  <2>8. Removed(i)' <=> Removed(i) BY <1>3, <1>4, <2>2, <2>4 DEF Removed
  <2>9. \A f : Explains(r, f) => Explains(new, f) BY <1>3 DEF Explains
  <2>10. Listed(i) => Listed(i)'
    <3>1. \A f : (\E q \in MineOf(i) : Explains(q, f)) => \E q \in MineOf(i)' : Explains(q, f)
      BY <2>4, <2>9
    <3> SUFFICES ASSUME Listed(i) PROVE Listed(i)'
      OBVIOUS
    <3>2. PICK row \in PageOf(i) :
            /\ PageOf(i) = {row}
            /\ \A f \in Cols : row[f] = items[i][f] \/ \E q \in MineOf(i) : Explains(q, f)
      BY DEF Listed
    <3>3. PageOf(i)' = {row} BY <1>5, <2>1, <3>2
    <3>4. \A f \in Cols : row[f] = items'[i][f] \/ \E q \in MineOf(i)' : Explains(q, f)
      BY <3>1, <3>2
    <3> QED BY <3>3, <3>4 DEF Listed, Explains
  <2>11. Known(i)' BY <1>5, <2>1, <2>3, <2>4, <2>6, <2>7, <2>8, <2>10 DEF Known
  <2> QED BY <1>2, <2>1, <2>3, <2>11 DEF Right
<1>7. \A i \in Items \ doubt' : Right(i)' \/ Untouched(r, i)
  BY <1>2, <1>6 DEF Untouched
<1>8. \A i \in Items : items'[i] = NoRow => items[i] = NoRow /\ (new.new = i => r.new = i)
  OBVIOUS
<1> QED BY <1>1, <1>7, <1>8, MovesKeep
-----------------------------------------------------------------------------

(* A stage that carries nothing.                                             *)
LEMMA StepGood ==
  ASSUME PageInv, NEW r \in reqs, r.at # "done", NEW at \in Stages \ {"locked", "done"},
         r.kind = "create" => at \in {"sent", "failed"},
         NEW new, new = [r EXCEPT !.at = at]
  PROVE  Same(r, new) /\ Good(new) /\ new.at = at /\ new.new = r.new
<1>1. Good(r) BY DEF PageInv, AllGood
<1>2. Same(r, new) /\ new.at = at /\ new.new = r.new /\ new.back = r.back
  BY <1>1, StageIs DEF Good
<1> QED BY <1>1, <1>2 DEF Good, Same, Stages

(* Nothing is known of a request that was only read or refused.             *)
LEMMA StepKeepsPage ==
  ASSUME PageInv, NEW r \in reqs, r.at # "done", NEW at \in Stages \ {"locked", "done"},
         r.kind = "create" => at \in {"sent", "failed"},
         Step(r, at), UNCHANGED <<items, page, inputs, doubt>>
  PROVE  PageInv'
<1>1. PICK new : new = [r EXCEPT !.at = at] OBVIOUS
<1>2. Same(r, new) /\ Good(new) /\ new.at = at /\ new.new = r.new BY <1>1, StepGood
<1>3. Becomes(r, new) BY <1>1 DEF Step
<1> QED BY <1>2, <1>3, StageKeeps

(* A handler refuses.                                                       *)
LEMMA RefuseKeepsPage ==
  ASSUME PageInv, NEW r \in reqs, r.at # "done", Refuse(r), UNCHANGED <<page, inputs>>
  PROVE  PageInv'
<1>1. "failed" \in Stages \ {"locked", "done"} BY DEF Stages
<1> QED BY <1>1, StepKeepsPage DEF Refuse

(* A handler reads.                                                         *)
LEMMA ReadKeepsPage ==
  ASSUME PageInv, NEW r \in reqs, Read(r)
  PROVE  PageInv'
<1>1. UNCHANGED <<page, inputs>> /\ r.at # "done" /\ r.kind # "create"
  BY DEF Read, unheard
<1>2. "read" \in Stages \ {"locked", "done"} BY DEF Stages
<1>3. CASE Step(r, "read") /\ UNCHANGED <<items, cards, doubt>>
  BY <1>1, <1>2, <1>3, StepKeepsPage
<1>4. CASE Refuse(r) BY <1>1, <1>4, RefuseKeepsPage
<1> QED BY <1>3, <1>4 DEF Read

(* A promote locks its item and knows it from then on.                      *)
LEMMA LockKeepsPage ==
  ASSUME PageInv, NEW r \in reqs, LockItem(r)
  PROVE  PageInv'
<1>1. UNCHANGED <<page, inputs>> /\ r.at = "read" /\ r.kind = "promote"
  BY DEF LockItem, unheard
<1>2. CASE r.id \in There /\ items[r.id].status \notin {"promoted", "dropped"} /\ todo
  <2>1. PICK back : back = items[r.id] OBVIOUS
  <2>2. PICK new : new = [r EXCEPT !.at = "locked", !.back = back] OBVIOUS
  <2>3. Becomes(r, new) /\ UNCHANGED <<items, cards, doubt>>
    BY <1>2, <2>1, <2>2 DEF LockItem
  <2>4. Good(r) BY DEF PageInv, AllGood
  <2>5. r.id \in Items BY <1>2 DEF There
  <2>6. back \in Stored BY <1>2, <2>1, <2>5, ThereIs DEF PageInv
  <2>7. r \in Requests /\ back \in AnyRow /\ "locked" \in Stages
    BY <2>4, <2>6, TheRows DEF Good, Stages
  <2>8. Same(r, new) /\ new.at = "locked" /\ new.new = r.new /\ new.back = back
    BY <2>2, <2>7 DEF Same, Requests
  <2>9. Good(new) BY <1>1, <2>4, <2>6, <2>8 DEF Good, Same
  <2> QED BY <1>1, <1>2, <2>1, <2>3, <2>8, <2>9, StageKeeps
<1>3. CASE ~(r.id \in There /\ items[r.id].status \notin {"promoted", "dropped"} /\ todo)
  BY <1>1, <1>3, RefuseKeepsPage DEF LockItem
<1> QED BY <1>2, <1>3

(* An answer is lost, or a request before it was served.                      *)
LEMMA LoseKeepsPage ==
  ASSUME PageInv, NEW r \in reqs, Lose(r)
  PROVE  PageInv'
<1>1. UNCHANGED <<items, page, inputs>> /\ Step(r, "failed") BY DEF Lose, server
<1>2. CASE r.at # "done"
  <2>1. doubt' = doubt BY <1>2 DEF Lose
  <2>2. "failed" \in Stages \ {"locked", "done"} BY DEF Stages
  <2> QED BY <1>1, <1>2, <2>1, <2>2, StepKeepsPage
<1>3. CASE r.at = "done"
  <2>1. doubt' = doubt \cup {r.id, r.new} BY <1>3 DEF Lose
  <2>2. PICK new : new = [r EXCEPT !.at = "failed"] OBVIOUS
  <2>3. Good(r) BY DEF PageInv, AllGood
  <2>4. r \in Requests /\ "failed" \in Stages BY <2>3 DEF Good, Stages
  <2>5. Same(r, new) /\ new.at = "failed" /\ new.new = r.new /\ new.back = r.back
    BY <2>2, <2>4, StageIs
  <2>6. Good(new) BY <2>3, <2>5 DEF Good, Same
  <2>7. Becomes(r, new) BY <1>1, <2>2 DEF Step
  <2>8. ItemTypes' BY <1>1 DEF PageInv, ItemTypes, Items
  <2>9. reqs' \subseteq reqs \cup {new} /\ reqs \ {r} \subseteq reqs'
    BY <1>1, <2>1, <2>5, <2>6, <2>7, BecomesIs
  <2>10. ASSUME NEW i \in Items \ doubt' PROVE Untouched(r, i)
    <3>1. i # r.id /\ i # r.new BY <2>1, <2>10
    <3>2. FreshOf(i)' = FreshOf(i) BY <2>5, <2>9, <3>1 DEF FreshOf
    <3> QED BY <1>1, <3>1, <3>2 DEF Untouched
  <2>11. \A i \in Items : items'[i] = NoRow => items[i] = NoRow /\ (new.new = i => r.new = i)
    BY <1>1, <2>5
  <2> QED BY <1>1, <2>1, <2>5, <2>6, <2>7, <2>8, <2>10, <2>11, MovesKeep
<1> QED BY <1>2, <1>3

(* A new item has no rows on the page and no requests; its creator has its     *)
(* answer to come.                                                           *)
LEMMA CreateKeepsPage ==
  ASSUME PageInv, NEW r \in reqs, CreateItem(r)
  PROVE  PageInv'
<1>1. Good(r) /\ r.kind = "create" /\ r.at = "sent" /\ UNCHANGED <<page, inputs>>
  BY DEF PageInv, AllGood, CreateItem, unheard
<1>2. r \in Requests /\ r.row \in PageRows /\ r.mine BY <1>1 DEF Good
<1>3. PICK i : i = CHOOSE j \in Unborn : TRUE OBVIOUS
<1>4. i \in Items /\ items[i] = NoRow BY <1>3 DEF CreateItem, Unborn
<1>5. PICK row : row = Row(r.row.type, r.row.text, r.row.status) OBVIOUS
<1>6. row \in Stored BY <1>2, <1>5 DEF Row, PageRows, Stored
<1>7. PICK new : new = [r EXCEPT !.at = "done", !.new = i, !.back = row] OBVIOUS
<1>8. /\ items' = [items EXCEPT ![i] = row] /\ Becomes(r, new) /\ doubt' = doubt
  BY <1>2, <1>3, <1>5, <1>7 DEF CreateItem, Wrote
<1>9. Same(r, new) /\ new.at = "done" /\ new.new = i /\ new.back = row
  <2>1. row \in AnyRow /\ i \in Int /\ "done" \in Stages
    BY <1>4, <1>6, TheRows, TheItems DEF Stages
  <2> QED BY <1>2, <1>7, <2>1 DEF Same, Requests
<1>10. Good(new) BY <1>1, <1>4, <1>6, <1>9 DEF Good, Same
<1>11. items' \in [Items -> Stored \cup {NoRow, Gone}] /\ items'[i] = row
       /\ \A j \in Items : j # i => items'[j] = items[j]
  BY <1>4, <1>6, <1>8 DEF PageInv, ItemTypes
<1>12. ItemTypes' BY <1>1, <1>11 DEF PageInv, ItemTypes, Items
<1>13. reqs' \subseteq reqs \cup {new} /\ reqs \ {r} \subseteq reqs' /\ new \in reqs'
  BY <1>1, <1>2, <1>8, <1>9, <1>10, BecomesIs
<1>14. PageOf(i) = {} /\ \A q \in reqs : ~Names(q, i) BY <1>4 DEF PageInv, Born
<1>15. Right(i)'
  <2>1. PageOf(i)' = {} BY <1>1, <1>14 DEF PageOf
  <2>2. \A q \in reqs' : q.id # i /\ i \notin q.rest
    BY <1>9, <1>13, <1>14 DEF Names, Same
  <2>3. MineOf(i)' = {} BY <2>2 DEF MineOf
  <2>4. FreshOf(i)' = {new}
    <3>1. new \in FreshOf(i)' BY <1>1, <1>9, <1>13 DEF FreshOf, Same
    <3>2. ASSUME NEW q \in FreshOf(i)' PROVE q = new
      BY <1>13, <1>14 DEF FreshOf, Names
    <3> QED BY <3>1, <3>2
  <2>5. i \in There'
    <3>1. i \in Items' BY <1>4 DEF Items
    <3>2. items'[i].status \in Statuses BY <1>6, <1>11 DEF Stored
    <3> QED BY <3>1, <3>2 DEF There, Items
  <2>6. JustCreated(i)'
    BY <1>9, <1>11, <2>1, <2>2, <2>3, <2>4, <2>5 DEF JustCreated
  <2> QED BY <2>4, <2>6 DEF Right
<1>16. ASSUME NEW j \in Items \ doubt', j # i PROVE Untouched(r, j)
  <2>1. r.id # j
    <3>1. r.id = -r.n /\ r.n \in 1 .. inputs /\ inputs \in Nat
      BY <1>1 DEF Good, PageInv, ItemTypes
    <3>2. r.id < 0 BY <3>1
    <3>3. ~(j < 0) BY TheItems
    <3> QED BY <3>2, <3>3
  <2>2. FreshOf(j)' = FreshOf(j)
    BY <1>1, <1>9, <1>13, <1>16 DEF FreshOf
  <2> QED BY <1>11, <1>16, <2>1, <2>2 DEF Untouched
<1>17. \A j \in Items : items'[j] = NoRow => items[j] = NoRow /\ (new.new = j => r.new = j)
  <2>1. items'[i] # NoRow BY <1>6, <1>11, TheRows
  <2> QED BY <1>9, <1>11, <2>1
<1> QED BY <1>1, <1>8, <1>9, <1>10, <1>12, <1>15, <1>16, <1>17, MovesKeep

(* A handler writes the row of the request's item: it is right about it when   *)
(* the request is the page's, and in doubt otherwise.                        *)
LEMMA WriteKeeps ==
  ASSUME PageInv, NEW r \in reqs, NEW new, Same(r, new), Good(new), Becomes(r, new),
         UNCHANGED <<page, inputs>>, Wrote(r, r.id), r.kind # "create",
         new.new = r.new, NEW row \in Stored \cup {Gone},
         r.id \in Items, items' = [items EXCEPT ![r.id] = row],
         r.mine /\ r.id \notin doubt => Right(r.id)'
  PROVE  PageInv'
<1>1. doubt' = IF r.mine THEN doubt ELSE doubt \cup {r.id} BY DEF Wrote
<1>2. /\ items' \in [Items -> Stored \cup {NoRow, Gone}] /\ items'[r.id] = row
      /\ \A j \in Items : j # r.id => items'[j] = items[j]
  BY DEF PageInv, ItemTypes
<1>3. ItemTypes' BY <1>2 DEF PageInv, ItemTypes, Items
<1>4. \A i : FreshOf(i)' = FreshOf(i) BY <1>1, BecomesIs
<1>5. \A i \in Items \ doubt' : Right(i)' \/ Untouched(r, i)
  BY <1>1, <1>2, <1>4 DEF Untouched
<1>6. \A i \in Items : items'[i] = NoRow => items[i] = NoRow /\ (new.new = i => r.new = i)
  BY <1>2, TheRows
<1> QED BY <1>1, <1>3, <1>5, <1>6, MovesKeep

(* What a request of the page says of its item.                              *)
LEMMA WhatItSays ==
  ASSUME PageInv, NEW r \in reqs, r.mine, r.id \in Items, r.id \notin doubt
  PROVE  /\ FreshOf(r.id) = {} /\ Known(r.id) /\ r \in MineOf(r.id) /\ Told(r, r.id)
         /\ \A q \in MineOf(r.id) : q = r \/ Apart(q, r)
<1>1. r \in MineOf(r.id) BY DEF MineOf
<1>2. FreshOf(r.id) = {} /\ Known(r.id) BY <1>1, UnderWay DEF PageInv
<1>3. \A q \in MineOf(r.id) : q = r \/ Apart(q, r) BY <1>1, OnlyOne DEF PageInv
<1> QED BY <1>1, <1>2, <1>3 DEF Known

(* The column is written that the page shows already.                       *)
LEMMA UpdateKeepsPage ==
  ASSUME PageInv, NEW r \in reqs, UpdateItem(r)
  PROVE  PageInv'
<1>1. r.kind = "patch" /\ r.at = "read" /\ UNCHANGED <<page, inputs>>
  BY DEF UpdateItem, unheard
<1>2. CASE r.id \notin There BY <1>1, <1>2, RefuseKeepsPage DEF UpdateItem
<1>3. CASE r.id \in There
  <2>1. r.id \in Items BY <1>3 DEF There
  <2>2. PICK i \in Items : i = r.id BY <2>1
  <2>3. PICK f, v : f = r.change.field /\ v = r.change.to OBVIOUS
  <2>4. Good(r) BY DEF PageInv, AllGood
  <2>5. Fits(f, v) BY <1>1, <2>3, <2>4 DEF Good
  <2>6. items[i] \in Stored BY <1>3, <2>2, ThereIs DEF PageInv
  <2>7. PICK row : row = With(items[i], f, v) OBVIOUS
  <2>8. /\ row \in Stored /\ row[f] = v /\ \A g \in Cols : g # f => row[g] = items[i][g]
    BY <2>5, <2>6, <2>7, WithIs
  <2>9. /\ items' = [items EXCEPT ![i] = row] /\ Step(r, "done") /\ Wrote(r, r.id)
    BY <1>3, <2>2, <2>3, <2>7 DEF UpdateItem
  <2>10. PICK new : new = [r EXCEPT !.at = "done"] OBVIOUS
  <2>11. r \in Requests /\ "done" \in Stages BY <2>4 DEF Good, Stages
  <2>12. Same(r, new) /\ new.at = "done" /\ new.new = r.new /\ new.back = r.back
    BY <2>10, <2>11, StageIs
  <2>13. Good(new) BY <1>1, <2>4, <2>12 DEF Good, Same
  <2>14. Becomes(r, new) BY <2>9, <2>10 DEF Step
  <2>15. ASSUME r.mine, r.id \notin doubt PROVE Right(i)'
    <3>1. /\ FreshOf(i) = {} /\ Known(i) /\ r \in MineOf(i) /\ Told(r, i)
          /\ \A q \in MineOf(i) : q = r \/ Apart(q, r)
      BY <2>1, <2>2, <2>15, WhatItSays
    <3>2. /\ FreshOf(i)' = FreshOf(i) /\ MineOf(i)' = (MineOf(i) \ {r}) \cup {new}
      <4>1. doubt' = doubt BY <2>9, <2>15 DEF Wrote
      <4> QED BY <1>1, <2>2, <2>12, <2>13, <2>14, <2>15, <4>1, BecomesIs
    <3>3. PageOf(i)' = PageOf(i) BY <1>1 DEF PageOf
    <3>4. /\ i \in There /\ \A x \in PageOf(i) : x[f] = v
      BY <1>1, <2>3, <3>1 DEF Told
    <3>5. \A q \in MineOf(i) : q.kind = "patch" /\ (q # r => q.change.field # f)
      BY <1>1, <2>3, <3>1 DEF Apart
    <3>6. Listed(i) BY <3>1, <3>4, <3>5 DEF Known, Removed
    <3>7. items'[i] = row BY <2>2, <2>9 DEF PageInv, ItemTypes
    <3>8. i \in There'
      <4>1. items'[i].status \in Statuses BY <2>8, <3>7 DEF Stored
      <4>2. i \in Items' BY DEF Items
      <4> QED BY <4>1, <4>2 DEF There, Items
    <3>9. ASSUME NEW q \in MineOf(i), q # r PROVE Told(q, i)'
      <4>1. Told(q, i) /\ q.kind = "patch" /\ q.change.field # f
        BY <3>1, <3>5, <3>9 DEF Known
      <4>2. q.change.field \in Cols
        BY <4>1 DEF PageInv, AllGood, Good, Fits, MineOf
      <4>3. row[q.change.field] = items[i][q.change.field] BY <2>8, <4>1, <4>2
      <4>4. q.change.field = "type" => row.type = items[i].type
        BY <4>3
      <4> QED BY <3>3, <3>7, <3>8, <4>1, <4>3, <4>4 DEF Told
    <3>10. Told(new, i)'
      BY <1>1, <2>3, <2>8, <2>12, <3>3, <3>4, <3>7, <3>8 DEF Told, Same
    <3>11. ~Removed(i)'
      <4>1. \A q \in MineOf(i)' : q.kind = "patch" BY <1>1, <2>12, <3>2, <3>5 DEF Same
      <4> QED BY <3>8, <4>1 DEF Removed
    <3>12. Listed(i)'
      <4>1. PICK x \in PageOf(i) :
              /\ PageOf(i) = {x}
              /\ \A g \in Cols : x[g] = items[i][g] \/ \E q \in MineOf(i) : Explains(q, g)
        BY <3>6 DEF Listed
      <4>2. ASSUME NEW g \in Cols
            PROVE  x[g] = row[g] \/ \E q \in MineOf(i)' : Explains(q, g)
        <5>1. CASE g = f BY <2>8, <3>4, <5>1
        <5>2. CASE g # f
          <6>1. ~Explains(r, g) BY <1>1, <2>3, <5>2 DEF Explains
          <6> QED BY <2>8, <3>2, <4>1, <5>2, <6>1
        <5> QED BY <5>1, <5>2
      <4>3. \A g \in Cols : x[g] = items'[i][g] \/ \E q \in MineOf(i)' : Explains(q, g)
        BY <3>7, <4>2
      <4>4. PageOf(i)' = {x} BY <3>3, <4>1
      <4> QED BY <4>3, <4>4 DEF Listed, Explains
    <3>13. Known(i)' BY <3>2, <3>9, <3>10, <3>11, <3>12 DEF Known
    <3> QED BY <3>1, <3>2, <3>13 DEF Right
  <2> QED BY <1>1, <2>1, <2>2, <2>8, <2>9, <2>12, <2>13, <2>14, <2>15, WriteKeeps
<1> QED BY <1>2, <1>3

(* The item goes, of which the page shows nothing any more.                 *)
LEMMA DeleteKeepsPage ==
  ASSUME PageInv, NEW r \in reqs, DeleteItem(r)
  PROVE  PageInv'
<1>1. /\ r.kind = "delete" /\ r.at = "read" /\ UNCHANGED <<page, inputs>>
      /\ items' = [items EXCEPT ![r.id] = Gone] /\ Step(r, "done") /\ Wrote(r, r.id)
  BY DEF DeleteItem, unheard
<1>2. Good(r) BY DEF PageInv, AllGood
<1>3. PICK new : new = [r EXCEPT !.at = "done"] OBVIOUS
<1>4. r \in Requests /\ "done" \in Stages BY <1>2 DEF Good, Stages
<1>5. Same(r, new) /\ new.at = "done" /\ new.new = r.new /\ new.back = r.back
  BY <1>3, <1>4, StageIs
<1>6. Good(new) BY <1>1, <1>2, <1>5 DEF Good, Same
<1>7. Becomes(r, new) BY <1>1, <1>3 DEF Step
<1>8. CASE r.id \in Items
  <2>1. ASSUME r.mine, r.id \notin doubt PROVE Right(r.id)'
    <3>1. PICK i \in Items : i = r.id BY <1>8
    <3>2. /\ FreshOf(i) = {} /\ Known(i) /\ r \in MineOf(i) /\ Told(r, i)
          /\ \A q \in MineOf(i) : q = r \/ Apart(q, r)
      BY <1>8, <2>1, <3>1, WhatItSays
    <3>3. /\ FreshOf(i)' = FreshOf(i) /\ MineOf(i)' = (MineOf(i) \ {r}) \cup {new}
      <4>1. doubt' = doubt BY <1>1, <2>1 DEF Wrote
      <4> QED BY <1>1, <1>5, <1>6, <1>7, <2>1, <3>1, <4>1, BecomesIs
    <3>4. MineOf(i)' = {new} BY <1>1, <3>2, <3>3 DEF Apart
    <3>5. PageOf(i)' = {}
      <4>1. PageOf(i) = {} BY <1>1, <3>2 DEF Known, Removed
      <4> QED BY <1>1, <4>1 DEF PageOf
    <3>6. items'[i] = Gone BY <1>1, <3>1 DEF PageInv, ItemTypes
    <3>7. i \notin There' BY <3>6, TheRows DEF There, Items
    <3>8. Told(new, i)' BY <1>1, <1>5, <3>7 DEF Told, Same
    <3>9. Known(i)' BY <3>4, <3>5, <3>7, <3>8 DEF Known, Removed
    <3> QED BY <3>1, <3>2, <3>3, <3>9 DEF Right
  <2>2. Gone \in Stored \cup {Gone} OBVIOUS
  <2> QED BY <1>1, <1>5, <1>6, <1>7, <1>8, <2>1, <2>2, WriteKeeps
<1>9. CASE r.id \notin Items
  <2>1. items' = items BY <1>1, <1>9 DEF PageInv, ItemTypes
  <2>2. ItemTypes' BY <1>1, <2>1 DEF PageInv, ItemTypes, Items
  <2>3. doubt \subseteq doubt' BY <1>1 DEF Wrote
  <2>4. \A i : FreshOf(i)' = FreshOf(i) BY <1>1, <1>5, <1>6, <1>7, <2>3, BecomesIs
  <2>5. \A i \in Items \ doubt' : Untouched(r, i) BY <1>9, <2>1, <2>4 DEF Untouched
  <2>6. \A i \in Items : items'[i] = NoRow => items[i] = NoRow /\ (new.new = i => r.new = i)
    BY <1>5, <2>1
  <2> QED BY <1>1, <1>5, <1>6, <1>7, <2>2, <2>3, <2>5, <2>6, MovesKeep
<1> QED BY <1>8, <1>9

(* The item is promoted, which the page does not show yet.                  *)
LEMMA CommitKeepsPage ==
  ASSUME LockInv, PageInv, NEW r \in reqs, CommitPromote(r)
  PROVE  PageInv'
<1>1. r.at = "locked" /\ UNCHANGED <<page, inputs>> BY DEF CommitPromote, unheard
<1>2. CASE ~todo BY <1>1, <1>2, RefuseKeepsPage DEF CommitPromote
<1>3. CASE todo
  <2>1. Good(r) /\ r.kind = "promote" BY <1>1 DEF PageInv, AllGood, Good
  <2>2. r \in Requests /\ r.back \in Stored BY <1>1, <2>1 DEF Good
  <2>3. PICK i \in Items : i = r.id BY <1>1 DEF LockInv, LockedIsLive
  <2>4. items[i].status \in {"live", "selected"} BY <1>1, <2>3 DEF LockInv, LockedIsLive
  <2>5. items[i] \in Stored
    BY <2>4, ThereIs DEF PageInv, There, Statuses
  <2>6. PICK row : row = [items[i] EXCEPT !.status = "promoted"] OBVIOUS
  <2>7. /\ row \in Stored /\ row.status = "promoted"
        /\ \A f \in Cols : f # "status" => row[f] = items[i][f]
    BY <2>5, <2>6, PromotedIs
  <2>8. PICK new : new = [r EXCEPT !.at = "done", !.back.status = "promoted"] OBVIOUS
  <2>9. /\ Same(r, new) /\ new.at = "done" /\ new.new = r.new
        /\ new.back = [r.back EXCEPT !.status = "promoted"] /\ new.back \in Stored
    BY <2>2, <2>8, BackPromotedIs
  <2>10. Good(new) BY <2>1, <2>9 DEF Good, Same
  <2>11. /\ items' = [items EXCEPT ![i] = row] /\ Becomes(r, new) /\ Wrote(r, r.id)
    BY <1>3, <2>3, <2>6, <2>8 DEF CommitPromote, LockInv, Rows
  <2>12. ASSUME r.mine, r.id \notin doubt PROVE Right(i)'
    <3>1. /\ FreshOf(i) = {} /\ Known(i) /\ r \in MineOf(i) /\ Told(r, i)
          /\ \A q \in MineOf(i) : q = r \/ Apart(q, r)
      BY <2>3, <2>12, WhatItSays
    <3>2. /\ FreshOf(i)' = FreshOf(i) /\ MineOf(i)' = (MineOf(i) \ {r}) \cup {new}
      <4>1. doubt' = doubt BY <2>11, <2>12 DEF Wrote
      <4> QED BY <1>1, <2>1, <2>3, <2>9, <2>10, <2>11, <2>12, <4>1, BecomesIs
    <3>3. MineOf(i) = {r} /\ MineOf(i)' = {new} BY <2>1, <3>1, <3>2 DEF Apart
    <3>4. i \in There /\ items[i] = r.back BY <1>1, <2>1, <3>1 DEF Told
    <3>5. items'[i] = row BY <2>11 DEF PageInv, ItemTypes
    <3>6. i \in There'
      <4>1. items'[i].status \in Statuses BY <2>7, <3>5 DEF Stored
      <4>2. i \in Items' BY DEF Items
      <4> QED BY <4>1, <4>2 DEF There, Items
    <3>7. row = new.back BY <2>6, <2>9, <3>4
    <3>8. Told(new, i)' BY <2>1, <2>9, <3>5, <3>6, <3>7 DEF Told, Same
    <3>9. ~Removed(i)' BY <2>1, <2>9, <3>3, <3>6 DEF Removed, Same
    <3>10. Listed(i)'
      <4>1. Listed(i) BY <2>1, <3>1, <3>3, <3>4 DEF Known, Removed
      <4>2. PICK x \in PageOf(i) :
              /\ PageOf(i) = {x}
              /\ \A g \in Cols : x[g] = items[i][g] \/ \E q \in MineOf(i) : Explains(q, g)
        BY <4>1 DEF Listed
      <4>3. \A g \in Cols : x[g] = items[i][g]
        BY <1>1, <2>1, <3>3, <4>2 DEF Explains
      <4>4. Explains(new, "status") BY <2>1, <2>9 DEF Explains, Same
      <4>5. \A g \in Cols : x[g] = items'[i][g] \/ \E q \in MineOf(i)' : Explains(q, g)
        BY <2>7, <3>3, <3>5, <4>3, <4>4
      <4>6. PageOf(i)' = {x} BY <1>1, <4>2 DEF PageOf
      <4> QED BY <4>5, <4>6 DEF Listed, Explains
    <3>11. Known(i)' BY <3>3, <3>8, <3>9, <3>10 DEF Known
    <3> QED BY <3>1, <3>2, <3>11 DEF Right
  <2>13. r.id \in Items /\ r.kind # "create" BY <2>1, <2>3
  <2> QED BY <1>1, <2>3, <2>7, <2>9, <2>10, <2>11, <2>12, <2>13, WriteKeeps
<1> QED BY <1>2, <1>3
-----------------------------------------------------------------------------

(* An item for which nothing is under way is on the page as it is.            *)
Settled(i) == PageOf(i) = IF i \in There THEN {Shown(i, items[i])} ELSE {}
LEMMA SettledIsRight ==
  ASSUME ItemTypes, NEW i \in Items, items' = items, MineOf(i)' = {}, FreshOf(i)' = {},
         PageOf(i)' = IF i \in There THEN {Shown(i, items[i])} ELSE {}
  PROVE  Right(i)'
<1>1. i \in There' <=> i \in There BY DEF There, Items
<1>2. CASE i \notin There BY <1>1, <1>2 DEF Right, Known, Removed
<1>3. CASE i \in There
  <2>1. items[i] \in Stored /\ i \in Ids BY <1>3, ThereIs, TheItems
  <2>2. PageOf(i)' = {Shown(i, items[i])} BY <1>3
  <2>3. \A f \in Cols : Shown(i, items[i])[f] = items'[i][f] BY <2>1, ShownIs
  <2>4. Listed(i)' BY <2>2, <2>3 DEF Listed
  <2>5. ~Removed(i)' BY <1>1, <1>3 DEF Removed
  <2> QED BY <2>4, <2>5 DEF Right, Known
<1> QED BY <1>2, <1>3

(* What is known says so when no request explains a difference.             *)
LEMMA KnownIsSettled ==
  ASSUME ItemTypes, PageTypes, NEW i \in Items, Known(i),
         \A q \in MineOf(i) : q.kind # "delete" /\ \A f : ~Explains(q, f)
  PROVE  Settled(i)
<1>1. CASE i \notin There BY <1>1 DEF Known, Removed, Settled
<1>2. CASE i \in There
  <2>1. items[i] \in Stored /\ i \in Ids BY <1>2, ThereIs, TheItems
  <2>2. Listed(i) BY <1>2 DEF Known, Removed
  <2>3. PICK row \in PageOf(i) :
          /\ PageOf(i) = {row}
          /\ \A f \in Cols : row[f] = items[i][f] \/ \E r \in MineOf(i) : Explains(r, f)
    BY <2>2 DEF Listed
  <2>4. \A f \in Cols : row[f] = items[i][f] BY <2>3
  <2>5. row \in PageRows /\ row.id = i BY <2>3 DEF PageTypes, PageOf
  <2>6. row = Shown(i, items[i]) BY <2>1, <2>4, <2>5, SameRow
  <2> QED BY <1>2, <2>3, <2>6 DEF Settled
<1> QED BY <1>1, <1>2

(* A request is answered.                                                    *)
LEMMA AnswerKeeps ==
  ASSUME PageInv, NEW r \in reqs, r.mine, reqs' = reqs \ {r},
         UNCHANGED <<items, inputs>>, doubt \subseteq doubt', PageTypes',
         \A row \in page' : row.id < 0 /\ row.id \notin doubt =>
           (\E old \in page : old.id = row.id) /\ (r.kind = "create" => r.id # row.id),
         \A i \in Items : items[i] = NoRow => PageOf(i)' = PageOf(i),
         \A i \in Items \ doubt' :
           Right(i)' \/ (i # r.id /\ PageOf(i)' = PageOf(i) /\ FreshOf(i)' = FreshOf(i))
  PROVE  PageInv'
<1>1. ItemTypes' BY DEF PageInv, ItemTypes, Items
<1>2. AllGood' BY DEF PageInv, AllGood, Good
<1>3. OneNumber' /\ NoRace' BY DEF PageInv, OneNumber, NoRace
<1>4. Temps'
  <2>1. ASSUME NEW row \in page', row.id < 0, row.id \notin doubt'
        PROVE  \E q \in reqs' : q.kind = "create" /\ q.id = row.id
    <3>1. PICK old \in page : old.id = row.id BY <2>1
    <3>2. PICK q \in reqs : q.kind = "create" /\ q.id = row.id
      BY <2>1, <3>1 DEF PageInv, Temps
    <3>3. q # r BY <2>1, <3>2
    <3> QED BY <3>2, <3>3
  <2> QED BY <2>1 DEF PageInv, Temps
<1>5. Born'
  <2> SUFFICES ASSUME NEW i \in Items, items'[i] = NoRow
               PROVE  PageOf(i)' = {} /\ \A q \in reqs' : ~Names(q, i)
    BY DEF Born, Items, Names
  <2> QED BY DEF PageInv, Born
<1>6. AllRight'
  <2> SUFFICES ASSUME NEW i \in Items \ doubt' PROVE Right(i)'
    BY DEF AllRight, Items
  <2>1. CASE i # r.id /\ PageOf(i)' = PageOf(i) /\ FreshOf(i)' = FreshOf(i)
    <3>1. Right(i) BY DEF PageInv, AllRight
    <3>2. MineOf(i)' = MineOf(i) BY <2>1 DEF MineOf
    <3>3. items'[i] = items[i] OBVIOUS
    <3>4. \A q \in reqs' : i \in q.rest => PageOf(i) # {} \/ \E p \in reqs : i \in p.rest
      OBVIOUS
    <3> QED BY <1>1, <2>1, <3>1, <3>2, <3>3, <3>4, StaysRight DEF PageInv
  <2> QED BY <2>1
<1> QED BY <1>1, <1>2, <1>3, <1>4, <1>5, <1>6 DEF PageInv

(* Only a request that was answered with a new item brought one.              *)
LEMMA FreshStay ==
  ASSUME NEW r, reqs' = reqs \ {r}, r.kind # "create" \/ r.at # "done"
  PROVE  \A i : FreshOf(i)' = FreshOf(i)
BY DEF FreshOf

(* The item is created: the answer gives its row.                             *)
LEMMA CreatedKeeps ==
  ASSUME PageInv, NEW r \in reqs, r.mine, r.kind = "create", r.at = "done",
         reqs' = reqs \ {r}, UNCHANGED <<items, inputs>>, doubt' = doubt \cup Unsure(r),
         page' = Replaced(r.id, Shown(r.new, r.back))
  PROVE  PageInv'
<1>1. Good(r) BY DEF PageInv, AllGood
<1>2. r.id \in Ids /\ r.new \in Items /\ r.back \in Stored BY <1>1 DEF Good
<1>3. PICK i \in Items : i = r.new BY <1>2
<1>4. r.id < 0 /\ r.id \notin Items
  <2>1. r.id = -r.n /\ r.n \in 1 .. inputs /\ inputs \in Nat
    BY <1>1 DEF Good, PageInv, ItemTypes
  <2>2. r.id < 0 BY <2>1
  <2>3. \A j \in Items : ~(j < 0) BY TheItems
  <2> QED BY <2>2, <2>3
<1>5. PICK new : new = Shown(i, r.back) OBVIOUS
<1>6. /\ new \in PageRows /\ new.id = i /\ i \in Ids
      /\ \A f \in Cols : new[f] = r.back[f]
  BY <1>2, <1>5, ShownIs, TheItems
<1>7. page' = Replaced(r.id, new) BY <1>3, <1>5
<1>8. /\ PageTypes' /\ PageOf(r.id)' = {}
      /\ \A j : j # r.id /\ (PageOf(r.id) # {} => new.id # j) => PageOf(j)' = PageOf(j)
      /\ PageOf(r.id) # {} /\ PageOf(i) = {} => PageOf(i)' = {new}
  BY <1>2, <1>4, <1>6, <1>7, ReplacedIs DEF PageInv
<1>9. ASSUME NEW row \in page', row.id < 0
      PROVE  (\E old \in page : old.id = row.id) /\ r.id # row.id
  <2>1. row \in PageOf(row.id)' BY DEF PageOf
  <2>2. r.id # row.id BY <1>8, <2>1
  <2>3. row.id # i BY <1>9, TheItems
  <2>4. PageOf(row.id)' = PageOf(row.id) BY <1>6, <1>8, <2>2, <2>3
  <2> QED BY <2>1, <2>2, <2>4 DEF PageOf
<1>10. ASSUME NEW j \in Items, items[j] = NoRow PROVE PageOf(j)' = PageOf(j)
  <2>1. ~Names(r, j) BY <1>10 DEF PageInv, Born
  <2>2. j # i BY <1>3, <2>1 DEF Names
  <2> QED BY <1>4, <1>6, <1>8, <2>2
<1>11. ASSUME NEW j \in Items \ doubt', j # i
       PROVE  j # r.id /\ PageOf(j)' = PageOf(j) /\ FreshOf(j)' = FreshOf(j)
  BY <1>3, <1>4, <1>6, <1>8, <1>11 DEF FreshOf
<1>12. ASSUME i \notin doubt' PROVE Right(i)'
  <2>1. i \notin doubt /\ PageOf(r.id) # {}
    BY <1>3, <1>12 DEF Unsure, PageOf
  <2>2. r \in FreshOf(i) BY <1>3 DEF FreshOf
  <2>3. JustCreated(i) BY <2>1, <2>2 DEF PageInv, AllRight, Right
  <2>4. /\ i \in There /\ PageOf(i) = {} /\ MineOf(i) = {} /\ items[i] = r.back
        /\ \A q \in FreshOf(i) : q = r
    BY <2>2, <2>3 DEF JustCreated
  <2>5. FreshOf(i)' = {} BY <2>4 DEF FreshOf
  <2>6. MineOf(i)' = {} BY <2>4 DEF MineOf
  <2>7. PageOf(i)' = {Shown(i, items[i])} BY <1>5, <1>8, <2>1, <2>4
  <2> QED BY <2>4, <2>5, <2>6, <2>7, SettledIsRight DEF PageInv
<1> QED BY <1>8, <1>9, <1>10, <1>11, <1>12, AnswerKeeps

(* It is not: the row is taken off the page.                                  *)
LEMMA NotCreatedKeeps ==
  ASSUME PageInv, NEW r \in reqs, r.mine, r.kind = "create", r.at = "failed",
         reqs' = reqs \ {r}, UNCHANGED <<items, inputs>>, doubt \subseteq doubt',
         page' = Without(r.id)
  PROVE  PageInv'
<1>1. Good(r) BY DEF PageInv, AllGood
<1>2. \A j \in Items : j # r.id
  <2>1. r.id = -r.n /\ r.n \in 1 .. inputs /\ inputs \in Nat
    BY <1>1 DEF Good, PageInv, ItemTypes
  <2>2. r.id < 0 BY <2>1
  <2>3. \A j \in Items : ~(j < 0) BY TheItems
  <2> QED BY <2>2, <2>3
<1>3. PageTypes' /\ (\A j : j # r.id => PageOf(j)' = PageOf(j)) BY WithoutIs DEF PageInv
<1>4. \A row \in page' : row \in page /\ row.id # r.id BY DEF Without
<1>5. \A i : FreshOf(i)' = FreshOf(i) BY FreshStay
<1> QED BY <1>2, <1>3, <1>4, <1>5, AnswerKeeps

(* The item is deleted, or its row comes back.                                *)
LEMMA DeletionKeeps ==
  ASSUME PageInv, NEW r \in reqs, r.mine, r.kind = "delete", r.at \in {"done", "failed"},
         reqs' = reqs \ {r}, UNCHANGED <<items, inputs>>, doubt \subseteq doubt',
         page' = IF r.at = "failed" THEN page \cup {r.row} ELSE page
  PROVE  PageInv'
<1>1. Good(r) BY DEF PageInv, AllGood
<1>2. r.row \in PageRows /\ r.row.id = r.id /\ r.id \in Ids BY <1>1 DEF Good
<1>3. /\ PageTypes' /\ \A j : j # r.id => PageOf(j)' = PageOf(j)
      /\ PageOf(r.id)' = IF r.at = "failed" THEN PageOf(r.id) \cup {r.row} ELSE PageOf(r.id)
  <2>1. CASE r.at = "failed" BY <1>2, <2>1, RowAdded DEF PageInv
  <2>2. CASE r.at # "failed" BY <2>2 DEF PageInv, PageTypes, PageOf
  <2> QED BY <2>1, <2>2
<1>4. \A i : FreshOf(i)' = FreshOf(i) BY FreshStay
<1>5. ASSUME NEW row \in page', row.id < 0, row.id \notin doubt
      PROVE  \E old \in page : old.id = row.id
  BY <1>2, <1>5 DEF PageInv, Temps
<1>6. \A i \in Items : items[i] = NoRow => i # r.id
  BY DEF PageInv, Born, Names
<1>7. ASSUME r.id \in Items, r.id \notin doubt PROVE Right(r.id)'
  <2>1. PICK i \in Items : i = r.id BY <1>7
  <2>2. /\ FreshOf(i) = {} /\ Known(i) /\ r \in MineOf(i) /\ Told(r, i)
        /\ \A q \in MineOf(i) : q = r \/ Apart(q, r)
    BY <1>7, <2>1, WhatItSays
  <2>3. MineOf(i)' = {} BY <2>2 DEF MineOf, Apart
  <2>4. PageOf(i) = {} BY <2>2 DEF Known, Removed
  <2>5. IF r.at = "done" THEN i \notin There ELSE i \in There /\ r.row = Shown(i, items[i])
    BY <2>2 DEF Told
  <2>6. PageOf(i)' = IF i \in There THEN {Shown(i, items[i])} ELSE {}
    BY <1>3, <2>1, <2>4, <2>5
  <2> QED BY <1>4, <2>1, <2>2, <2>3, <2>6, SettledIsRight DEF PageInv
<1> QED BY <1>3, <1>4, <1>5, <1>6, <1>7, AnswerKeeps

(* A promote is answered: its item is as the page shows it now.               *)
LEMMA PromotionIs ==
  ASSUME PageInv, NEW r \in reqs, r.mine, r.kind = "promote", r.at \in {"done", "failed"},
         page' = IF r.at = "done" THEN Replaced(r.id, Shown(r.id, r.back)) ELSE page
  PROVE  /\ PageTypes' /\ \A j : j # r.id => PageOf(j)' = PageOf(j)
         /\ PageOf(r.id) = {} => PageOf(r.id)' = {}
         /\ r.id \in Items /\ r.id \notin doubt =>
              /\ FreshOf(r.id) = {} /\ MineOf(r.id) = {r}
              /\ PageOf(r.id)' = IF r.id \in There THEN {Shown(r.id, items[r.id])} ELSE {}
<1>1. Good(r) BY DEF PageInv, AllGood
<1>2. r.id \in Ids BY <1>1 DEF Good
<1>3. CASE r.at = "done"
  <2>1. r.back \in Stored BY <1>1, <1>3 DEF Good
  <2>2. PICK new : new = Shown(r.id, r.back) OBVIOUS
  <2>3. new \in PageRows /\ new.id = r.id BY <1>2, <2>1, <2>2, ShownIs
  <2>4. page' = Replaced(r.id, new) BY <1>3, <2>2
  <2>5. /\ PageTypes' /\ \A j : j # r.id => PageOf(j)' = PageOf(j)
        /\ PageOf(r.id)' = IF PageOf(r.id) = {} THEN {} ELSE {new}
    BY <1>2, <2>3, <2>4, ReplacedIs DEF PageInv
  <2>6. ASSUME r.id \in Items, r.id \notin doubt
        PROVE  /\ FreshOf(r.id) = {} /\ MineOf(r.id) = {r}
               /\ PageOf(r.id)' = IF r.id \in There THEN {Shown(r.id, items[r.id])} ELSE {}
    <3>1. /\ FreshOf(r.id) = {} /\ Known(r.id) /\ r \in MineOf(r.id) /\ Told(r, r.id)
          /\ \A q \in MineOf(r.id) : q = r \/ Apart(q, r)
      BY <2>6, WhatItSays
    <3>2. MineOf(r.id) = {r} BY <3>1 DEF Apart
    <3>3. r.id \in There /\ items[r.id] = r.back BY <1>3, <3>1 DEF Told
    <3>4. PageOf(r.id) # {} BY <3>1, <3>2, <3>3 DEF Known, Removed, Listed
    <3> QED BY <2>2, <2>5, <3>1, <3>2, <3>3, <3>4
  <2> QED BY <2>5, <2>6
<1>4. CASE r.at = "failed"
  <2>1. page' = page BY <1>4
  <2>2. PageTypes' /\ \A j : PageOf(j)' = PageOf(j) BY <2>1 DEF PageInv, PageTypes, PageOf
  <2>3. ASSUME r.id \in Items, r.id \notin doubt
        PROVE  FreshOf(r.id) = {} /\ MineOf(r.id) = {r} /\ Settled(r.id)
    <3>1. /\ FreshOf(r.id) = {} /\ Known(r.id) /\ r \in MineOf(r.id)
          /\ \A q \in MineOf(r.id) : q = r \/ Apart(q, r)
      BY <2>3, WhatItSays
    <3>2. MineOf(r.id) = {r} BY <3>1 DEF Apart
    <3>3. r.kind # "delete" /\ \A f : ~Explains(r, f) BY <1>4 DEF Explains
    <3> QED BY <2>3, <3>1, <3>2, <3>3, KnownIsSettled DEF PageInv
  <2> QED BY <2>2, <2>3 DEF Settled
<1> QED BY <1>3, <1>4

(* A promote of one item is answered.                                       *)
LEMMA PromotionKeeps ==
  ASSUME PageInv, NEW r \in reqs, r.mine, r.kind = "promote", r.at \in {"done", "failed"},
         reqs' = reqs \ {r}, UNCHANGED <<items, inputs>>, doubt \subseteq doubt',
         page' = IF r.at = "done" THEN Replaced(r.id, Shown(r.id, r.back)) ELSE page
  PROVE  PageInv'
<1>1. /\ PageTypes' /\ \A j : j # r.id => PageOf(j)' = PageOf(j)
      /\ PageOf(r.id) = {} => PageOf(r.id)' = {}
      /\ r.id \in Items /\ r.id \notin doubt =>
           /\ FreshOf(r.id) = {} /\ MineOf(r.id) = {r}
           /\ PageOf(r.id)' = IF r.id \in There THEN {Shown(r.id, items[r.id])} ELSE {}
  BY PromotionIs
<1>2. \A i : FreshOf(i)' = FreshOf(i) BY FreshStay
<1>3. ASSUME NEW row \in page' PROVE \E old \in page : old.id = row.id
  <2>1. row \in PageOf(row.id)' BY <1>3 DEF PageOf
  <2>2. PageOf(row.id) # {} BY <1>1, <2>1
  <2> QED BY <2>2 DEF PageOf
<1>4. \A i \in Items : items[i] = NoRow => i # r.id
  BY DEF PageInv, Born, Names
<1>5. ASSUME r.id \in Items, r.id \notin doubt PROVE Right(r.id)'
  <2>1. MineOf(r.id)' = {} BY <1>1, <1>5 DEF MineOf
  <2> QED BY <1>1, <1>2, <1>5, <2>1, SettledIsRight DEF PageInv
<1> QED BY <1>1, <1>2, <1>3, <1>4, <1>5, AnswerKeeps

(* A change is saved, or a change of type taken back.                         *)
LEMMA ChangeSettled ==
  ASSUME PageInv, NEW r \in reqs, r.mine, r.kind = "patch", reqs' = reqs \ {r}, items' = items,
         NEW i \in Items, i = r.id, i \notin doubt, NEW f, f = r.change.field,
         NEW x, PageOf(i)' = {x}, x[f] = items[i][f],
         \A y \in PageOf(i) : \A g \in Cols : g # f => x[g] = y[g]
  PROVE  Right(i)'
<1>1. /\ FreshOf(i) = {} /\ Known(i) /\ r \in MineOf(i) /\ Told(r, i)
      /\ \A q \in MineOf(i) : q = r \/ Apart(q, r)
  BY WhatItSays
<1>2. \A q \in MineOf(i) : q.kind = "patch" /\ (q # r => q.change.field # f)
  BY <1>1 DEF Apart
<1>3. i \in There BY <1>1 DEF Told
<1>4. MineOf(i)' = MineOf(i) \ {r} /\ FreshOf(i)' = {} BY <1>1 DEF MineOf, FreshOf
<1>5. PICK y \in PageOf(i) :
        /\ PageOf(i) = {y}
        /\ \A g \in Cols : y[g] = items[i][g] \/ \E q \in MineOf(i) : Explains(q, g)
  BY <1>1, <1>2, <1>3 DEF Known, Removed, Listed
<1>6. i \in There' BY <1>3 DEF There, Items
<1>7. ASSUME NEW q \in MineOf(i) \ {r} PROVE Told(q, i)'
  <2>1. Told(q, i) /\ q.kind = "patch" /\ q.change.field # f
    BY <1>1, <1>2 DEF Known
  <2>2. q.change.field \in Cols BY <2>1 DEF PageInv, AllGood, Good, Fits, MineOf
  <2>3. x[q.change.field] = q.change.to BY <1>5, <2>1, <2>2 DEF Told
  <2> QED BY <1>6, <2>1, <2>3 DEF Told
<1>8. ASSUME NEW g \in Cols
      PROVE  x[g] = items[i][g] \/ \E q \in MineOf(i) \ {r} : Explains(q, g)
  <2>1. CASE g # f
    <3>1. ~Explains(r, g) BY <2>1 DEF Explains
    <3> QED BY <1>5, <2>1, <3>1
  <2> QED BY <2>1
<1>9. Listed(i)'
  <2>1. \A g \in Cols : x[g] = items'[i][g] \/ \E q \in MineOf(i)' : Explains(q, g)
    BY <1>4, <1>8
  <2> QED BY <2>1 DEF Listed, Explains
<1>10. ~Removed(i)' BY <1>2, <1>4, <1>6 DEF Removed
<1> QED BY <1>4, <1>7, <1>9, <1>10 DEF Right, Known

(* The answer to a change.                                                  *)
LEMMA ChangeKeeps ==
  ASSUME PageInv, NEW r \in reqs, r.mine, r.kind = "patch", r.at \in {"done", "failed"},
         reqs' = reqs \ {r}, UNCHANGED <<items, inputs>>, doubt \subseteq doubt',
         r.at = "failed" /\ ~Retyping(r) => r.id \in doubt',
         page' = IF Retyping(r) /\ r.at = "failed" THEN RetypeFailed(r) ELSE page
  PROVE  PageInv'
<1>1. Good(r) BY DEF PageInv, AllGood
<1>2. PICK f : f = r.change.field OBVIOUS
<1>3. Fits(f, r.change.to) /\ r.id \in Ids /\ (Retyping(r) => r.row \in PageRows)
  BY <1>1, <1>2 DEF Good, Retyping
<1>4. SUFFICES /\ PageTypes' /\ \A j : j # r.id => PageOf(j)' = PageOf(j)
               /\ PageOf(r.id) = {} => PageOf(r.id)' = {}
               /\ r.id \in Items /\ r.id \notin doubt' => Right(r.id)'
  <2>1. \A i : FreshOf(i)' = FreshOf(i) BY FreshStay
  <2>2. ASSUME NEW row \in page' PROVE \E old \in page : old.id = row.id
    <3>1. row \in PageOf(row.id)' BY <2>2 DEF PageOf
    <3>2. PageOf(row.id) # {} BY <1>4, <3>1
    <3> QED BY <3>2 DEF PageOf
  <2>3. \A i \in Items : items[i] = NoRow => i # r.id BY DEF PageInv, Born, Names
  <2> QED BY <1>4, <2>1, <2>2, <2>3, AnswerKeeps
<1>5. CASE Retyping(r) /\ r.at = "failed"
  <2>1. PICK v : v = r.row.type OBVIOUS
  <2>2. Fits("type", v) BY <1>3, <1>5, <2>1 DEF Fits, Cols, PageRows
  <2>3. page' = OnPage(r.id, "type", v) BY <1>5, <2>1 DEF RetypeFailed
  <2>4. /\ PageTypes' /\ \A j : j # r.id => PageOf(j)' = PageOf(j)
        /\ PageOf(r.id)' = {With(row, "type", v) : row \in PageOf(r.id)}
    BY <1>3, <2>2, <2>3, OnPageIs DEF PageInv
  <2>5. PageOf(r.id) = {} => PageOf(r.id)' = {} BY <2>4
  <2>6. ASSUME r.id \in Items, r.id \notin doubt' PROVE Right(r.id)'
    <3>1. PICK i \in Items : i = r.id BY <2>6
    <3>2. /\ Known(i) /\ r \in MineOf(i) /\ Told(r, i)
          /\ \A q \in MineOf(i) : q = r \/ Apart(q, r)
      BY <2>6, <3>1, WhatItSays
    <3>3. i \in There /\ v = items[i].type
      BY <1>5, <2>1, <3>2 DEF Told, Retyping
    <3>4. Listed(i) BY <3>2, <3>3 DEF Known, Removed, Apart
    <3>5. PICK y : PageOf(i) = {y} BY <3>4 DEF Listed
    <3>6. y \in PageRows BY <3>5 DEF PageInv, PageTypes, PageOf
    <3>7. PICK x : x = With(y, "type", v) OBVIOUS
    <3>8. x["type"] = v /\ \A g \in Cols : g # "type" => x[g] = y[g]
      BY <2>2, <3>6, <3>7, WithIs
    <3>9. PageOf(i)' = {x} BY <2>4, <3>1, <3>5, <3>7
    <3>10. x["type"] = items[i]["type"] BY <3>3, <3>8
    <3>11. f = "type" BY <1>2, <1>5 DEF Retyping
    <3>12. x[f] = items[i][f] BY <3>10, <3>11
    <3>13. \A z \in PageOf(i) : \A g \in Cols : g # f => x[g] = z[g]
      BY <3>5, <3>8, <3>11
    <3>14. Right(i)' BY <1>2, <2>6, <3>1, <3>9, <3>12, <3>13, ChangeSettled
    <3> QED BY <3>1, <3>14
  <2> QED BY <2>4, <2>5, <2>6
<1>6. CASE ~(Retyping(r) /\ r.at = "failed")
  <2>1. page' = page BY <1>6
  <2>2. PageTypes' /\ \A j : PageOf(j)' = PageOf(j) BY <2>1 DEF PageInv, PageTypes, PageOf
  <2>3. ASSUME r.id \in Items, r.id \notin doubt' PROVE Right(r.id)'
    <3>1. PICK i \in Items : i = r.id BY <2>3
    <3>2. /\ Known(i) /\ r \in MineOf(i) /\ Told(r, i)
          /\ \A q \in MineOf(i) : q = r \/ Apart(q, r)
      BY <2>3, <3>1, WhatItSays
    <3>3. r.at = "done" BY <1>6, <2>3
    <3>4. /\ i \in There /\ \A y \in PageOf(i) : y[f] = r.change.to
          /\ items[i][f] = r.change.to
      BY <1>2, <3>2, <3>3 DEF Told
    <3>5. Listed(i) BY <3>2, <3>4 DEF Known, Removed, Apart
    <3>6. PICK y : PageOf(i) = {y} BY <3>5 DEF Listed
    <3>7. PageOf(i)' = {y} /\ y[f] = items[i][f] BY <2>2, <3>4, <3>6
    <3> QED BY <1>2, <2>3, <3>1, <3>6, <3>7, ChangeSettled
  <2> QED BY <2>2, <2>3
<1> QED BY <1>5, <1>6

(* The next of many is sent when one is answered.                             *)
LEMMA NextPromoteKeeps ==
  ASSUME PageInv, NEW r \in reqs, r.mine, r.at \in {"done", "failed"},
         NEW i \in r.rest, NEW new,
         new \in Requests, new.n = r.n, new.kind = r.kind, new.id = i, new.mine = r.mine,
         new.rest = r.rest \ {i}, new.at = "sent", new.new = r.new,
         reqs' = (reqs \ {r}) \cup {new}, UNCHANGED <<items, inputs>>,
         doubt' = Raced("promote", i, NoChange),
         page' = IF r.at = "done" THEN Replaced(r.id, Shown(r.id, r.back)) ELSE page
  PROVE  PageInv'
<1>1. Good(r) BY DEF PageInv, AllGood
<1>2. r \in Requests /\ r.kind = "promote" /\ r.rest \subseteq Ids BY <1>1 DEF Good
<1>3. /\ new \in Requests /\ new.n = r.n /\ new.kind = "promote" /\ new.id = i
      /\ new.rest = r.rest \ {i} /\ new.mine = r.mine /\ new.at = "sent"
      /\ new.new = r.new
  BY <1>2
<1>4. Good(new) BY <1>1, <1>2, <1>3 DEF Good
<1>5. /\ PageTypes' /\ \A j : j # r.id => PageOf(j)' = PageOf(j)
      /\ PageOf(r.id) = {} => PageOf(r.id)' = {}
      /\ r.id \in Items /\ r.id \notin doubt =>
           /\ FreshOf(r.id) = {} /\ MineOf(r.id) = {r}
           /\ PageOf(r.id)' = IF r.id \in There THEN {Shown(r.id, items[r.id])} ELSE {}
  BY <1>2, PromotionIs
<1>6. doubt \subseteq doubt' BY DEF Raced
<1>7. i \notin doubt' => \A q \in reqs : q.mine => q.id # i
  BY DEF Raced, Races
<1>8. ItemTypes' BY DEF PageInv, ItemTypes, Items
<1>9. AllGood' BY <1>4 DEF PageInv, AllGood, Good
<1>10. \A q \in reqs' : q = new \/ (q \in reqs /\ q # r) OBVIOUS
<1>11. OneNumber'
  <2>1. \A p, q \in reqs : p.n = q.n => p = q BY DEF PageInv, OneNumber
  <2> SUFFICES ASSUME NEW p \in reqs', NEW q \in reqs', p.n = q.n PROVE p = q
    BY DEF OneNumber
  <2>2. CASE p = new BY <1>3, <1>10, <2>1, <2>2
  <2>3. CASE q = new BY <1>3, <1>10, <2>1, <2>3
  <2> QED BY <1>10, <2>1, <2>2, <2>3
<1>12. NoRace'
  <2> SUFFICES ASSUME NEW p \in reqs', NEW q \in reqs', p # q, p.mine, q.mine, p.id = q.id,
                      p.id \notin doubt'
               PROVE  Apart(p, q)
    BY DEF NoRace, Apart
  <2>1. p # new /\ q # new BY <1>3, <1>7, <1>10
  <2> QED BY <1>6, <1>10, <2>1 DEF PageInv, NoRace
<1>13. Temps'
  <2>1. ASSUME NEW row \in page', row.id < 0, row.id \notin doubt'
        PROVE  \E q \in reqs' : q.kind = "create" /\ q.id = row.id
    <3>1. row \in PageOf(row.id)' BY DEF PageOf
    <3>2. PageOf(row.id) # {} BY <1>5, <3>1
    <3>3. PICK old \in page : old.id = row.id BY <3>2 DEF PageOf
    <3>4. PICK q \in reqs : q.kind = "create" /\ q.id = row.id
      BY <1>6, <2>1, <3>3 DEF PageInv, Temps
    <3> QED BY <1>2, <3>4
  <2>2. ASSUME NEW q \in reqs', q.kind = "delete", q.mine, q.id < 0 PROVE q.id \in doubt'
    BY <1>3, <1>6, <2>2 DEF PageInv, Temps
  <2> QED BY <2>1, <2>2 DEF Temps
<1>14. Born'
  <2> SUFFICES ASSUME NEW j \in Items, items'[j] = NoRow
               PROVE  PageOf(j)' = {} /\ \A q \in reqs' : ~Names(q, j)
    BY DEF Born, Items, Names
  <2>1. PageOf(j) = {} /\ \A q \in reqs : ~Names(q, j) BY DEF PageInv, Born
  <2>2. ~Names(new, j) BY <1>3, <2>1 DEF Names
  <2> QED BY <1>5, <2>1, <2>2 DEF Names
<1>15. \A j : FreshOf(j)' = FreshOf(j) BY <1>2, <1>3 DEF FreshOf
<1>16. \A j : j # i => MineOf(j)' = MineOf(j) \ {r} BY <1>3 DEF MineOf
<1>17. ASSUME i \in Items, i \notin doubt' PROVE Right(i)'
  <2>1. i # r.id /\ MineOf(i) = {} BY <1>7, <1>17 DEF MineOf
  <2>2. Right(i) BY <1>6, <1>17 DEF PageInv, AllRight
  <2>3. FreshOf(i) = {} /\ Known(i) BY <2>2 DEF Right, JustCreated
  <2>4. MineOf(i)' = {new} BY <1>3, <2>1 DEF MineOf
  <2>5. Told(new, i)' BY <1>3 DEF Told
  <2>6. i \in There' <=> i \in There BY DEF There, Items
  <2>7. Removed(i)' <=> Removed(i) BY <1>3, <2>1, <2>4, <2>6 DEF Removed
  <2>8. PageOf(i)' = PageOf(i) BY <1>5, <2>1
  <2>9. Listed(i) => Listed(i)'
    <3> SUFFICES ASSUME Listed(i) PROVE Listed(i)'
      OBVIOUS
    <3>1. PICK row \in PageOf(i) :
            /\ PageOf(i) = {row}
            /\ \A f \in Cols : row[f] = items[i][f]
      BY <2>1 DEF Listed
    <3> QED BY <2>8, <3>1 DEF Listed
  <2>10. Known(i)' BY <2>3, <2>4, <2>5, <2>7, <2>8, <2>9 DEF Known
  <2> QED BY <1>15, <2>3, <2>10 DEF Right
<1>18. ASSUME r.id \in Items, r.id \notin doubt', r.id # i PROVE Right(r.id)'
  <2>1. MineOf(r.id)' = {} BY <1>5, <1>6, <1>16, <1>18
  <2> QED BY <1>5, <1>6, <1>15, <1>18, <2>1, SettledIsRight DEF PageInv
<1>19. ASSUME NEW j \in Items \ doubt', j # i, j # r.id PROVE Right(j)'
  <2>1. Right(j) BY <1>6 DEF PageInv, AllRight
  <2>2. MineOf(j)' = MineOf(j) BY <1>16, <1>19 DEF MineOf
  <2>3. PageOf(j)' = PageOf(j) /\ FreshOf(j)' = FreshOf(j) /\ items'[j] = items[j]
    BY <1>5, <1>15, <1>19
  <2>4. \A q \in reqs' : j \in q.rest => PageOf(j) # {} \/ \E p \in reqs : j \in p.rest
    BY <1>3
  <2> QED BY <1>8, <2>1, <2>2, <2>3, <2>4, StaysRight DEF PageInv
<1>20. AllRight' BY <1>17, <1>18, <1>19 DEF AllRight, Items
<1> QED BY <1>5, <1>8, <1>9, <1>11, <1>12, <1>13, <1>14, <1>20 DEF PageInv

(* Answers.                                                                  *)
LEMMA PageAfterIs ==
  ASSUME NEW r, r.at \in {"done", "failed"}
  PROVE  /\ r.kind = "create" => PageAfter(r) =
              IF r.at = "done" THEN Replaced(r.id, Shown(r.new, r.back)) ELSE Without(r.id)
         /\ r.kind = "delete" => PageAfter(r) =
              IF r.at = "failed" THEN page \cup {r.row} ELSE page
         /\ r.kind = "promote" => PageAfter(r) =
              IF r.at = "done" THEN Replaced(r.id, Shown(r.id, r.back)) ELSE page
         /\ r.kind = "patch" => PageAfter(r) =
              IF Retyping(r) /\ r.at = "failed" THEN RetypeFailed(r) ELSE page
<1>1. CASE r.kind = "create" BY <1>1 DEF PageAfter
<1>2. CASE r.kind = "delete" BY <1>2 DEF PageAfter
<1>3. CASE r.kind = "promote" BY <1>3 DEF PageAfter
<1>4. CASE r.kind = "patch"
  <2>1. CASE Retyping(r) /\ r.at = "failed" BY <1>4, <2>1 DEF PageAfter
  <2>2. CASE ~(Retyping(r) /\ r.at = "failed") BY <1>4, <2>2 DEF PageAfter
  <2> QED BY <2>1, <2>2
<1> QED BY <1>1, <1>2, <1>3, <1>4

(* Every answer keeps the invariant.                                        *)
LEMMA AnsweredKeepsPage ==
  ASSUME PageInv, NEW r \in reqs, Answered(r)
  PROVE  PageInv'
<1>1. /\ r.mine /\ r.at \in {"done", "failed"} /\ page' = PageAfter(r)
      /\ UNCHANGED <<items, inputs>>
  BY DEF Answered, server
<1>2. Good(r) /\ r.kind \in Kinds BY DEF PageInv, AllGood, Good, Requests
<1>3. CASE reqs' = reqs \ {r} /\ doubt' = doubt \cup Unsure(r)
  <2>1. CASE r.kind = "create" /\ r.at = "done"
    BY <1>1, <1>3, <2>1, PageAfterIs, CreatedKeeps
  <2>2. CASE r.kind = "create" /\ r.at = "failed"
    BY <1>1, <1>3, <2>2, PageAfterIs, NotCreatedKeeps
  <2>3. CASE r.kind = "delete" BY <1>1, <1>3, <2>3, PageAfterIs, DeletionKeeps
  <2>4. CASE r.kind = "promote" BY <1>1, <1>3, <2>4, PageAfterIs, PromotionKeeps
  <2>5. CASE r.kind = "patch"
    <3>1. r.at = "failed" /\ ~Retyping(r) => r.id \in doubt' BY <1>3, <2>5 DEF Unsure
    <3> QED BY <1>1, <1>3, <2>5, <3>1, PageAfterIs, ChangeKeeps
  <2> QED BY <1>1, <1>2, <2>1, <2>2, <2>3, <2>4, <2>5 DEF Kinds
<1>4. ASSUME NEW i \in r.rest,
             reqs' = (reqs \ {r}) \cup
               {[r EXCEPT !.id = i, !.rest = @ \ {i}, !.at = "sent", !.back = NoRow]},
             doubt' = Raced("promote", i, NoChange)
      PROVE  PageInv'
  <2>1. PICK new :
          new = [r EXCEPT !.id = i, !.rest = @ \ {i}, !.at = "sent", !.back = NoRow]
    OBVIOUS
  <2>2. reqs' = (reqs \ {r}) \cup {new} BY <1>4, <2>1
  <2>3. r \in Requests /\ r.kind = "promote" BY <1>2 DEF Good
  <2>4. page' = IF r.at = "done" THEN Replaced(r.id, Shown(r.id, r.back)) ELSE page
    BY <1>1, <2>3, PageAfterIs
  <2>5. /\ new \in Requests /\ new.n = r.n /\ new.kind = r.kind /\ new.id = i
        /\ new.rest = r.rest \ {i} /\ new.mine = r.mine /\ new.at = "sent"
        /\ new.new = r.new
    <3>1. NoRow \in AnyRow /\ "sent" \in Stages BY TheRows DEF Stages
    <3> QED BY <2>1, <2>3, <3>1 DEF Requests
  <2> QED BY <1>1, <1>4, <2>2, <2>4, <2>5, NextPromoteKeeps
<1> QED BY <1>3, <1>4 DEF Answered
-----------------------------------------------------------------------------

(* Others' requests are not of the page.                                     *)
LEMMA TheirsKeepsPage ==
  ASSUME PageInv, NEW kind \in Kinds \ {"create"}, NEW i \in There, NEW change \in Changes,
         kind = "patch" => Fits(change.field, change.to), Theirs(kind, i, change)
  PROVE  PageInv'
<1>1. PICK r : r = Foreign(Request(kind, i, change)) OBVIOUS
<1>2. /\ reqs' = reqs \cup {r} /\ inputs' = inputs + 1
      /\ UNCHANGED <<items, page, doubt>>
  BY <1>1 DEF Theirs, Foreign, Input, server
<1>3. i \in Items /\ i \in Ids BY TheItems DEF There
<1>4. ItemTypes BY DEF PageInv
<1>5. /\ r \in Requests /\ r.n = inputs + 1 /\ r.kind = kind /\ r.id = i
      /\ r.change = change /\ r.rest = {} /\ ~r.mine /\ r.at = "sent" /\ r.new = 0
  BY <1>1, <1>3, <1>4, TheirRequestIs
<1>6. Good(r)'
  <2>1. inputs \in Nat BY <1>4 DEF ItemTypes
  <2>2. r.n \in 1 .. inputs' BY <1>2, <1>5, <2>1
  <2> QED BY <1>3, <1>5, <2>2 DEF Good
<1>7. Asked(r) BY <1>2, <1>3, <1>5 DEF Asked
<1>8. /\ AllGood' /\ OneNumber' /\ ItemTypes' /\ \A j : FreshOf(j)' = FreshOf(j)
      /\ \A j : MineOf(j)' = MineOf(j)
  BY <1>5, <1>6, <1>7, AskedIs DEF PageInv
<1>9. PageTypes' /\ \A j : PageOf(j)' = PageOf(j) BY <1>2 DEF PageInv, PageTypes, PageOf
<1>10. NoRace' BY <1>2, <1>5 DEF PageInv, NoRace
<1>11. Temps' BY <1>2, <1>5 DEF PageInv, Temps
<1>12. Born'
  <2> SUFFICES ASSUME NEW j \in Items, items'[j] = NoRow
               PROVE  PageOf(j)' = {} /\ \A q \in reqs' : ~Names(q, j)
    BY DEF Born, Items, Names
  <2>1. PageOf(j) = {} /\ \A q \in reqs : ~Names(q, j) BY <1>2 DEF PageInv, Born
  <2>2. j # i BY <1>2, TheRows DEF There
  <2>3. ~Names(r, j) BY <1>5, <2>2 DEF Names
  <2> QED BY <1>2, <1>9, <2>1, <2>3
<1>13. AllRight'
  <2> SUFFICES ASSUME NEW j \in Items \ doubt PROVE Right(j)'
    BY <1>2 DEF AllRight, Items
  <2>1. Right(j) BY DEF PageInv, AllRight
  <2>2. PageOf(j)' = PageOf(j) /\ MineOf(j)' = MineOf(j) /\ FreshOf(j)' = FreshOf(j)
        /\ items'[j] = items[j]
    BY <1>2, <1>8, <1>9
  <2>3. \A q \in reqs' : j \in q.rest => PageOf(j) # {} \/ \E p \in reqs : j \in p.rest
    BY <1>2, <1>5
  <2> QED BY <1>4, <1>8, <2>1, <2>2, <2>3, StaysRight
<1> QED BY <1>8, <1>9, <1>10, <1>11, <1>12, <1>13 DEF PageInv

(* Nothing of the page changes with what others begin.                      *)
LEMMA ElsewhereKeepsPage ==
  ASSUME PageInv, Elsewhere
  PROVE  PageInv'
<1>1. PICK i \in There :
       \/ \E t \in Texts \ {items[i].text} : Theirs("patch", i, Change("text", t))
       \/ \E t \in Types \ {items[i].type} : Theirs("patch", i, Change("type", t))
       \/ \E s \in {"live", "dropped"} : Theirs("patch", i, Change("status", s))
       \/ Theirs("promote", i, NoChange)
       \/ Theirs("delete", i, NoChange)
  BY DEF Elsewhere
<1>2. {"patch", "promote", "delete"} \subseteq Kinds \ {"create"} BY DEF Kinds
<1>3. NoChange \in Changes BY DEF NoChange, Changes, Anything
<1>4. ASSUME NEW f, NEW v, Fits(f, v), Theirs("patch", i, Change(f, v)) PROVE PageInv'
  <2>1. Change(f, v) \in Changes BY <1>4, ChangeIs
  <2>2. Change(f, v).field = f /\ Change(f, v).to = v BY DEF Change
  <2> QED BY <1>2, <1>4, <2>1, <2>2, TheirsKeepsPage
<1>5. \A t \in Texts : Fits("text", t) BY DEF Fits, Cols, AllTexts
<1>6. \A t \in Types : Fits("type", t) BY PlanningAssumption DEF Fits, Cols
<1>7. \A s \in {"live", "dropped"} : Fits("status", s) BY DEF Fits, Cols, Statuses
<1>8. Theirs("promote", i, NoChange) \/ Theirs("delete", i, NoChange) => PageInv'
  BY <1>2, <1>3, TheirsKeepsPage
<1> QED BY <1>1, <1>4, <1>5, <1>6, <1>7, <1>8

(* The TODO column comes and goes.                                           *)
LEMMA ColumnsKeepPage ==
  ASSUME PageInv, ColumnsChange
  PROVE  PageInv'
<1>1. inputs \in Nat /\ inputs' = inputs + 1 /\ UNCHANGED <<items, page, reqs, doubt>>
  BY DEF PageInv, ItemTypes, ColumnsChange, Input
<1>2. \A i : PageOf(i)' = PageOf(i) /\ MineOf(i)' = MineOf(i) /\ FreshOf(i)' = FreshOf(i)
  BY <1>1 DEF PageOf, MineOf, FreshOf
<1>3. ItemTypes' BY <1>1 DEF PageInv, ItemTypes, Items
<1>4. AllGood'
  <2> SUFFICES ASSUME NEW q \in reqs PROVE Good(q)'
    BY <1>1 DEF AllGood
  <2>1. Good(q) BY DEF PageInv, AllGood
  <2>2. q.n \in 1 .. inputs' BY <1>1, <2>1 DEF Good
  <2> QED BY <2>1, <2>2 DEF Good
<1>5. PageTypes' BY <1>1 DEF PageInv, PageTypes
<1>6. Born' BY <1>1, <1>2 DEF PageInv, Born, Items
<1>7. OneNumber' /\ NoRace' /\ Temps' BY <1>1 DEF PageInv, OneNumber, NoRace, Temps
<1>8. AllRight'
  <2> SUFFICES ASSUME NEW i \in Items \ doubt PROVE Right(i)'
    BY <1>1 DEF AllRight, Items
  <2>1. Right(i) BY DEF PageInv, AllRight
  <2>2. items'[i] = items[i] BY <1>1
  <2>3. \A q \in reqs' : i \in q.rest => PageOf(i) # {} \/ \E p \in reqs : i \in p.rest
    BY <1>1
  <2> QED BY <1>2, <1>3, <2>1, <2>2, <2>3, StaysRight DEF PageInv
<1> QED BY <1>3, <1>4, <1>5, <1>6, <1>7, <1>8 DEF PageInv

(* At first the page shows the session.                                      *)
LEMMA InitPageInv == Init => PageInv
<1> SUFFICES ASSUME Init PROVE PageInv
  OBVIOUS
<1>1. items \in [Items -> Stored \cup {NoRow}] /\ inputs = 0 /\ reqs = {}
  BY PlanningAssumption DEF Init
<1>2. ItemTypes BY <1>1 DEF ItemTypes
<1>3. AllGood /\ OneNumber /\ NoRace BY <1>1 DEF AllGood, OneNumber, NoRace
<1>4. page = {Shown(i, items[i]) : i \in There} BY DEF Init
<1>5. ASSUME NEW i \in There
      PROVE  /\ i \in Items /\ i \in Ids /\ items[i] \in Stored
             /\ Shown(i, items[i]) \in PageRows /\ Shown(i, items[i]).id = i
             /\ \A f \in Cols : Shown(i, items[i])[f] = items[i][f]
  <2>1. i \in Items /\ i \in Ids BY TheItems DEF There
  <2>2. items[i] \in Stored BY <1>2, <2>1, ThereIs
  <2> QED BY <2>1, <2>2, ShownIs
<1>6. PageTypes
  <2> DEFINE g == [i \in There |-> Shown(i, items[i])]
  <2>1. IsFiniteSet(There) BY TheItems, FS_Subset DEF There
  <2>2. page = {g[i] : i \in There} BY <1>4
  <2>3. DOMAIN g = There /\ g = [i \in There |-> g[i]] OBVIOUS
  <2> HIDE DEF g
  <2>4. IsFiniteSet(page) BY <2>1, <2>2, <2>3, ImageIsFinite
  <2>5. \A row \in page : row \in PageRows /\ row.id \in Ids BY <1>4, <1>5
  <2> QED BY <2>4, <2>5 DEF PageTypes
<1>7. Temps
  <2>1. \A row \in page : row.id \in Items BY <1>4, <1>5
  <2>2. \A i \in Items : ~(i < 0) BY TheItems
  <2> QED BY <1>1, <2>1, <2>2 DEF Temps
<1>8. \A i \in Items : PageOf(i) = IF i \in There THEN {Shown(i, items[i])} ELSE {}
  BY <1>4, <1>5 DEF PageOf
<1>9. Born BY <1>1, <1>8, TheRows DEF Born, There
<1>10. AllRight
  <2> SUFFICES ASSUME NEW i \in Items PROVE Right(i)
    BY DEF AllRight
  <2>1. MineOf(i) = {} /\ FreshOf(i) = {} BY <1>1 DEF MineOf, FreshOf
  <2>2. CASE i \notin There BY <1>8, <2>1, <2>2 DEF Right, Known, Removed
  <2>3. CASE i \in There
    <3>1. PageOf(i) = {Shown(i, items[i])} BY <1>8, <2>3
    <3>2. Listed(i) BY <1>5, <2>3, <3>1 DEF Listed
    <3> QED BY <2>1, <2>3, <3>2 DEF Right, Known, Removed
  <2> QED BY <2>2, <2>3
<1> QED BY <1>2, <1>3, <1>6, <1>7, <1>9, <1>10 DEF PageInv

(* Every step keeps the invariant.                                          *)
LEMMA NextKeepsPage == LockInv /\ PageInv /\ [Next]_vars => PageInv'
<1> SUFFICES ASSUME LockInv, PageInv, [Next]_vars PROVE PageInv'
  OBVIOUS
<1>1. CASE UserStep BY <1>1, PageUserKeeps
<1>2. ASSUME NEW r \in reqs,
             \/ CreateItem(r) \/ Read(r) \/ UpdateItem(r) \/ DeleteItem(r)
             \/ LockItem(r) \/ CommitPromote(r) \/ Lose(r) \/ Answered(r)
      PROVE  PageInv'
  BY <1>2, CreateKeepsPage, ReadKeepsPage, UpdateKeepsPage, DeleteKeepsPage, LockKeepsPage,
     CommitKeepsPage, LoseKeepsPage, AnsweredKeepsPage
<1>3. CASE Elsewhere BY <1>3, ElsewhereKeepsPage
<1>4. CASE ColumnsChange BY <1>4, ColumnsKeepPage
<1>5. CASE UNCHANGED vars BY <1>5, PageIdle DEF vars
<1> QED BY <1>1, <1>2, <1>3, <1>4, <1>5 DEF Next

(* What the page shows of every item that is not in doubt follows from the    *)
(* item and from the page's requests under way, in every reachable state and  *)
(* for any number of items, requests, members and faults.                     *)
THEOREM PageStaysInStep == Spec => []PageInv
BY InitPageInv, NextKeepsPage, LocksHold, PTL DEF Spec
-----------------------------------------------------------------------------

(* With nothing under way the page is the session.                            *)
LEMMA QuietPage == PageInv => QuietPageShowsTheSession
<1> SUFFICES ASSUME PageInv, Quiet
             PROVE  {row \in page : row.id \notin doubt} =
                      {Shown(i, items[i]) : i \in There \ doubt}
  BY DEF QuietPageShowsTheSession
<1>1. ASSUME NEW i \in Items \ doubt
      PROVE  PageOf(i) = IF i \in There THEN {Shown(i, items[i])} ELSE {}
  <2>1. MineOf(i) = {} BY DEF MineOf, Quiet
  <2>2. FreshOf(i) = {} BY DEF FreshOf, Quiet, PageInv, AllGood, Good
  <2>3. Known(i) BY <2>2 DEF PageInv, AllRight, Right
  <2>4. Settled(i) BY <2>1, <2>3, KnownIsSettled DEF PageInv
  <2> QED BY <2>4 DEF Settled
<1>2. ASSUME NEW row \in page, row.id \notin doubt
      PROVE  row.id \in Items
  <2>1. row.id \in Ids BY DEF PageInv, PageTypes
  <2>2. ~(row.id < 0) BY <1>2 DEF PageInv, Temps, AllGood, Good, Quiet
  <2> QED BY <2>1, <2>2 DEF Ids
<1>3. ASSUME NEW row \in page, row.id \notin doubt
      PROVE  \E i \in There \ doubt : row = Shown(i, items[i])
  <2>1. row \in PageOf(row.id) BY DEF PageOf
  <2> QED BY <1>1, <1>2, <1>3, <2>1
<1>4. ASSUME NEW i \in There \ doubt
      PROVE  Shown(i, items[i]) \in page /\ Shown(i, items[i]).id \notin doubt
  <2>1. i \in Items BY DEF There
  <2>2. Shown(i, items[i]) \in PageOf(i) BY <1>1, <1>4, <2>1
  <2> QED BY <1>4, <2>2 DEF PageOf
<1> QED BY <1>3, <1>4

(* QuietPageShowsTheSession: optimistic changes, temporary rows, refusals and  *)
(* rollbacks and any number of promotes leave each item as the server has it. *)
THEOREM QuietPageIsRight == Spec => []QuietPageShowsTheSession
BY PageStaysInStep, QuietPage, PTL

(* Parts of the page that share no row add up.                                *)
LEMMA PartsAddUp ==
  ASSUME NEW S, IsFiniteSet(S), NEW T, IsFiniteSet(T), S \cap T = {}
  PROVE  /\ IsFiniteSet(S \cup T) /\ Cardinality(S \cup T) = Cardinality(S) + Cardinality(T)
         /\ Cardinality(S) \in Nat /\ Cardinality(T) \in Nat
<1>1. Cardinality(S) \in Nat /\ Cardinality(T) \in Nat BY FS_CardinalityType
<1>2. IsFiniteSet(S \cup T) BY FS_Union
<1>3. Cardinality(S \cup T) = Cardinality(S) + Cardinality(T) - Cardinality(S \cap T)
  BY FS_Union
<1>4. Cardinality(S \cap T) = 0 BY FS_EmptySet
<1> QED BY <1>1, <1>2, <1>3, <1>4

(* Counts of parts of one page.                                             *)
LEMMA PageNumbers == PageInv => NumbersAgree
<1> SUFFICES ASSUME PageInv PROVE NumbersAgree
  OBVIOUS
<1>1. page \subseteq PageRows /\ IsFiniteSet(page) BY DEF PageInv, PageTypes
<1>2. \A S \in SUBSET page : IsFiniteSet(S) BY <1>1, FS_Subset
<1>3. \A row \in page : row.type \in AllTypes /\ row.status \in Statuses BY <1>1 DEF PageRows
<1> DEFINE dropped == WithStatus(page, "dropped")
           kept == page \ dropped
           promoted == WithStatus(page, "promoted")
           Open(t) == {row \in page : row.type = t
                         /\ row.status # "dropped" /\ row.status # "promoted"}
<1>4. ASSUME NEW f \in Filters
      PROVE  Cardinality(applySessionFilter(page, f)) = computeFilterCounts(page)[f]
  <2>1. CASE f = "dropped" BY <2>1 DEF applySessionFilter, computeFilterCounts, Filters
  <2>2. CASE f = "all"
    <3>1. {row \in page : row.status # "dropped"} = kept BY DEF WithStatus
    <3>2. applySessionFilter(page, f) = kept BY <2>2, <3>1 DEF applySessionFilter
    <3>3. computeFilterCounts(page)[f] = Cardinality(kept)
      BY <2>2 DEF computeFilterCounts, Filters
    <3> QED BY <3>2, <3>3
  <2>3. CASE f \in {"req", "dec", "q"}
    <3>1. {row \in page : row.status # "dropped" /\ row.type = TypeByFilter[f]}
            = OfType(kept, TypeByFilter[f])
      BY DEF WithStatus, OfType
    <3>2. applySessionFilter(page, f) = OfType(kept, TypeByFilter[f])
      BY <2>3, <3>1 DEF applySessionFilter
    <3>3. computeFilterCounts(page)[f] = Cardinality(OfType(kept, TypeByFilter[f]))
      BY <2>3 DEF computeFilterCounts, Filters
    <3> QED BY <3>2, <3>3
  <2> QED BY <2>1, <2>2, <2>3 DEF Filters
<1>5. stats.promoted = Cardinality(promoted) /\ stats.dropped = Cardinality(dropped)
      /\ \A t \in AllTypes : stats.types[t] = Cardinality(Open(t))
  BY DEF stats
<1>6. SidebarTotal = computeFilterCounts(page)["all"]
  <2>1. /\ IsFiniteSet(Open("REQ")) /\ IsFiniteSet(Open("DEC")) /\ IsFiniteSet(Open("Q"))
        /\ IsFiniteSet(promoted)
    BY <1>2 DEF WithStatus
  <2>2. /\ IsFiniteSet(Open("REQ") \cup Open("DEC"))
        /\ Cardinality(Open("REQ") \cup Open("DEC")) =
             Cardinality(Open("REQ")) + Cardinality(Open("DEC"))
    <3>1. Open("REQ") \cap Open("DEC") = {} OBVIOUS
    <3> HIDE DEF Open
    <3> QED BY <2>1, <3>1, PartsAddUp
  <2>3. /\ IsFiniteSet(Open("REQ") \cup Open("DEC") \cup Open("Q"))
        /\ Cardinality(Open("REQ") \cup Open("DEC") \cup Open("Q")) =
             Cardinality(Open("REQ") \cup Open("DEC")) + Cardinality(Open("Q"))
    <3>1. (Open("REQ") \cup Open("DEC")) \cap Open("Q") = {} OBVIOUS
    <3> HIDE DEF Open
    <3> QED BY <2>1, <2>2, <3>1, PartsAddUp
  <2>4. Cardinality(Open("REQ") \cup Open("DEC") \cup Open("Q") \cup promoted) =
          Cardinality(Open("REQ") \cup Open("DEC") \cup Open("Q")) + Cardinality(promoted)
    <3>1. (Open("REQ") \cup Open("DEC") \cup Open("Q")) \cap promoted = {}
      BY DEF WithStatus
    <3> HIDE DEF Open, promoted
    <3> QED BY <2>1, <2>3, <3>1, PartsAddUp
  <2>5. Open("REQ") \cup Open("DEC") \cup Open("Q") \cup promoted = kept
    BY <1>3 DEF WithStatus, AllTypes
  <2>6. computeFilterCounts(page)["all"] = Cardinality(kept)
    BY DEF computeFilterCounts, Filters
  <2>7. {"REQ", "DEC", "Q"} = AllTypes BY DEF AllTypes
  <2> HIDE DEF Open, promoted, kept
  <2> QED BY <1>5, <2>2, <2>3, <2>4, <2>5, <2>6, <2>7 DEF SidebarTotal, Sum3
<1>7. stats.types["Q"] = Cardinality(openQuestions) +
        Cardinality(OfType(WithStatus(page, "selected"), "Q"))
  <2>1. PICK chosen : chosen = OfType(WithStatus(page, "selected"), "Q") OBVIOUS
  <2>2. IsFiniteSet(openQuestions) /\ IsFiniteSet(chosen)
    BY <1>2, <2>1 DEF openQuestions, OfType, WithStatus
  <2>3. openQuestions \cap chosen = {} BY <2>1 DEF openQuestions, OfType, WithStatus
  <2>4. openQuestions \cup chosen = Open("Q")
    BY <1>3, <2>1 DEF openQuestions, OfType, WithStatus, Statuses
  <2>5. "Q" \in AllTypes BY DEF AllTypes
  <2> QED BY <1>5, <2>1, <2>2, <2>3, <2>4, <2>5, PartsAddUp
<1>8. ASSUME Quiet, doubt = {} PROVE stats = Summary
  <2>1. page = {Shown(i, items[i]) : i \in There}
    BY <1>8, QuietPage DEF QuietPageShowsTheSession
  <2>2. \A t : OfType(OpenOf(page), t) = Open(t) BY DEF OfType, OpenOf
  <2> QED BY <2>1, <2>2 DEF Summary, stats
<1> QED BY <1>4, <1>6, <1>7, <1>8 DEF NumbersAgree

(* NumbersAgree: the counts of the filters, of the sidebar and of the list of  *)
(* sessions agree in every reachable state.                                   *)
THEOREM NumbersAdd == Spec => []NumbersAgree
BY PageStaysInStep, PageNumbers, PTL
=============================================================================
