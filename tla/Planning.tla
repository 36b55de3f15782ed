------------------------------ MODULE Planning ------------------------------
(***************************************************************************)
(* A planning session: the handlers of its items and the promote that makes *)
(* a card of one (planning_handler.go, planning_service.go), and one user's *)
(* page of the session (SessionCaptureView, ItemRow, useSessionItems), which*)
(* others' work reaches only at the next visit.  The page is seen during one*)
(* visit.  A promote locks its item from its read to its commit; every other*)
(* handler reads the item, checks, and then writes it in a second statement *)
(* that waits for such a lock but checks nothing again.                     *)
(*                                                                         *)
(* Left out: the order of the items and their positions, and who the members*)
(* are.  An item's text stands for its title and its note: a promoted item  *)
(* cannot be renamed but its note can be changed.                           *)
(***************************************************************************)
EXTENDS Integers, FiniteSets

CONSTANTS
  NumItems,   \* the items are 1 .. NumItems
  Types,      \* the types items are given
  Texts,      \* the texts items are given
  NewText,    \* the text of a new item
  Starts,     \* the items there may be at first: a set of functions to rows
  MaxInputs,  \* bound: requests that this user and others begin
  MaxFaults   \* bound: requests that are not served or not answered

AllTypes == {"REQ", "DEC", "Q"}
Statuses == {"live", "selected", "dropped", "promoted"}
Items == 1 .. NumItems
Row(type, text, status) == [type |-> type, text |-> text, status |-> status]
NoRow == Row("REQ", "", "none")  \* not created yet
Gone == Row("REQ", "", "gone")
Shown(i, row) == [id |-> i, type |-> row.type, text |-> row.text,
                  status |-> row.status]

(* What the table holds: its CHECKs name the types and the statuses.         *)
AllTexts == Texts \cup {NewText}
Stored == [type : AllTypes, text : AllTexts, status : Statuses]

ASSUME PlanningAssumption ==
  /\ NumItems \in Nat \ {0} /\ Types \subseteq AllTypes
  /\ Texts \subseteq STRING /\ NewText \in STRING
  /\ Starts \subseteq [Items -> Stored \cup {NoRow}]
  /\ MaxInputs \in Nat /\ MaxFaults \in Nat

VARIABLES
  items,    \* the rows of the session
  cards,    \* how many cards were made of each item
  todo,     \* the board has a TODO column
  page,     \* the items the page shows: rows with their ids
  select,   \* the page's select mode: on or not, and the ids chosen
  reqs,     \* requests on their way
  doubt,    \* items of which the page may show something else (history)
  inputs, faults

vars == <<items, cards, todo, page, select, reqs, doubt, inputs, faults>>

-----------------------------------------------------------------------------
(* What the server and the page count *)

OfType(rows, t) == {row \in rows : row.type = t}
OpenOf(rows) == {row \in rows : row.status \notin {"dropped", "promoted"}}
WithStatus(rows, s) == {row \in rows : row.status = s}

There == {i \in Items : items[i].status \in Statuses}

(* ListPlanningSessionsByBoard: the numbers of the session's entry in the   *)
(* list of sessions.                                                        *)
Summary ==
  LET rows == {Shown(i, items[i]) : i \in There}
      open == OpenOf(rows)
  IN [types |-> [t \in AllTypes |-> Cardinality(OfType(open, t))],
      promoted |-> Cardinality(WithStatus(rows, "promoted")),
      dropped |-> Cardinality(WithStatus(rows, "dropped"))]

(* The stats of the sidebar. *)
stats ==
  [types |-> [t \in AllTypes |->
     Cardinality({row \in page : row.type = t
                    /\ row.status # "dropped" /\ row.status # "promoted"})],
   promoted |-> Cardinality(WithStatus(page, "promoted")),
   dropped |-> Cardinality(WithStatus(page, "dropped"))]

Sum3(f) == f["REQ"] + f["DEC"] + f["Q"]
SidebarTotal == Sum3(stats.types) + stats.promoted

Filters == {"all", "req", "dec", "q", "dropped"}
TypeByFilter == [req |-> "REQ", dec |-> "DEC", q |-> "Q"]

applySessionFilter(rows, f) ==
  CASE f = "dropped" -> WithStatus(rows, "dropped")
    [] f = "all" -> {row \in rows : row.status # "dropped"}
    [] OTHER -> {row \in rows : row.status # "dropped" /\ row.type = TypeByFilter[f]}

(* Fault: a dropped row is counted under its type too. *)
CountsDropped(rows) ==
  [f \in Filters |->
     CASE f = "dropped" -> Cardinality(WithStatus(rows, "dropped"))
       [] f = "all" -> Cardinality(rows \ WithStatus(rows, "dropped"))
       [] OTHER -> Cardinality(OfType(rows, TypeByFilter[f]))]

computeFilterCounts(rows) ==
  LET kept == rows \ WithStatus(rows, "dropped") IN
  [f \in Filters |->
     CASE f = "dropped" -> Cardinality(WithStatus(rows, "dropped"))
       [] f = "all" -> Cardinality(kept)
       [] OTHER -> Cardinality(OfType(kept, TypeByFilter[f]))]

openQuestions == {row \in page : row.type = "Q" /\ row.status = "live"}

-----------------------------------------------------------------------------
(* Requests.  Those of this page are mine; the others' have no answer here.  *)

NoChange == [field |-> "none", to |-> ""]
Change(f, v) == [field |-> f, to |-> v]

Request(kind, id, change) ==
  [n |-> inputs + 1, kind |-> kind, id |-> id, change |-> change,
   row |-> Shown(0, NoRow), rest |-> {}, bulk |-> FALSE, mine |-> TRUE,
   at |-> "sent", new |-> 0, back |-> NoRow]

(* Two requests of the page for one item whose order matters: the item may   *)
(* end as either.  Changes of different fields of it are not such.          *)
Races(kind, id, change) ==
  \E r \in reqs :
    /\ r.mine /\ r.id = id
    /\ r.kind = "patch" /\ kind = "patch" => r.change.field = change.field

Raced(kind, id, change) == IF Races(kind, id, change) THEN doubt \cup {id} ELSE doubt

Input == inputs < MaxInputs /\ inputs' = inputs + 1 /\ UNCHANGED faults

Ask(r) ==
  /\ reqs' = reqs \cup {r}
  /\ doubt' = Raced(r.kind, r.id, r.change)
  /\ Input

With(row, f, v) == [row EXCEPT ![f] = v]
OnPage(id, f, v) == {IF row.id = id THEN With(row, f, v) ELSE row : row \in page}
Replaced(id, new) == {IF row.id = id THEN new ELSE row : row \in page}
Without(id) == {row \in page : row.id # id}

Unborn == {i \in Items : items[i] = NoRow}
Creating == {r \in reqs : r.kind = "create" /\ r.at = "sent"}
RoomToCreate == Cardinality(Creating) < Cardinality(Unborn)

-----------------------------------------------------------------------------
(* The page *)

NotSelecting == [on |-> FALSE, ids |-> {}]
server == <<items, cards, todo>>

patchItem(row, f, v) ==
  /\ page' = OnPage(row.id, f, v)
  /\ Ask(Request("patch", row.id, Change(f, v)))
  /\ UNCHANGED <<server, select>>

EditText(row, text) ==
  /\ text # row.text
  /\ patchItem(row, "text", text)

(* The buttons and the menu of a row are hidden while rows are selected.     *)
MenuOf(row) == ~select.on /\ row.status # "promoted"

toggleStatus(row) ==
  /\ MenuOf(row)
  /\ patchItem(row, "status", IF row.status = "dropped" THEN "live" ELSE "dropped")

changeType(row, t) ==
  /\ MenuOf(row) /\ t # row.type
  /\ page' = OnPage(row.id, "type", t)
  /\ Ask([Request("patch", row.id, Change("type", t)) EXCEPT !.row = row])
  /\ UNCHANGED <<server, select>>

(* The new row has an id of its own until the answer brings the item's.      *)
commitNew(type) ==
  LET temp == -(inputs + 1) IN
  /\ RoomToCreate
  /\ page' = page \cup {Shown(temp, Row(type, NewText, "live"))}
  /\ Ask([Request("create", temp, NoChange) EXCEPT
            !.row = Shown(temp, Row(type, NewText, "live"))])
  /\ UNCHANGED <<server, select>>

removeItem(row) ==
  /\ ~select.on
  /\ page' = Without(row.id)
  /\ Ask([Request("delete", row.id, NoChange) EXCEPT !.row = row])
  /\ UNCHANGED <<server, select>>

promoteOne(row) ==
  /\ MenuOf(row) /\ row.status # "dropped"
  /\ Ask(Request("promote", row.id, NoChange))
  /\ UNCHANGED <<server, page, select>>

enterSelectMode ==
  /\ ~select.on
  /\ select' = [on |-> TRUE, ids |-> {}]
  /\ UNCHANGED <<server, page, reqs, doubt, inputs, faults>>

exitSelectMode ==
  /\ select.on
  /\ select' = NotSelecting
  /\ UNCHANGED <<server, page, reqs, doubt, inputs, faults>>

toggleSelect(row) ==
  /\ select.on /\ row.status # "promoted"
  /\ select' = [select EXCEPT !.ids =
                  IF row.id \in @ THEN @ \ {row.id} ELSE @ \cup {row.id}]
  /\ UNCHANGED <<server, page, reqs, doubt, inputs, faults>>

(* The chosen rows that are not promoted are sent one after the other; the   *)
(* page stays as it is meanwhile, the button included.                      *)
handleBulkSend ==
  LET targets == {row.id : row \in {it \in page : it.id \in select.ids
                                               /\ it.status # "promoted"}}
  IN
  /\ select.on /\ select.ids # {}
  /\ UNCHANGED <<server, page>>
  /\ \/ /\ targets = {}
        /\ select' = NotSelecting
        /\ UNCHANGED <<reqs, doubt, inputs, faults>>
     \/ /\ UNCHANGED select
        /\ \E i \in targets :
             Ask([Request("promote", i, NoChange) EXCEPT
                   !.rest = targets \ {i}, !.bulk = TRUE])

-----------------------------------------------------------------------------
(* The server *)

Becomes(r, new) == reqs' = (reqs \ {r}) \cup (IF r.mine \/ new.at \notin {"done", "failed"}
                                            THEN {new} ELSE {})
Step(r, at) == Becomes(r, [r EXCEPT !.at = at])
Refuse(r) == Step(r, "failed") /\ UNCHANGED <<items, cards, doubt>>

(* What others write, this page does not hear of.                            *)
Wrote(r, i) == doubt' = IF r.mine THEN doubt ELSE doubt \cup {i}

Locked(i) == \E r \in reqs : r.id = i /\ r.at = "locked"
Free(i) == ~Locked(i)
unheard == <<todo, page, select, inputs, faults>>

(* CreateItem: the session is there, so the row is inserted.                 *)
CreateItem(r) ==
  LET i == CHOOSE j \in Unborn : TRUE
      row == Row(r.row.type, r.row.text, r.row.status)
  IN
  /\ r.kind = "create" /\ r.at = "sent"
  /\ Unborn # {}  \* see RoomToCreate
  /\ items' = [items EXCEPT ![i] = row]
  /\ Becomes(r, [r EXCEPT !.at = "done", !.new = i, !.back = row])
  /\ Wrote(r, i)
  /\ UNCHANGED <<cards, unheard>>

(* The first statement of the other handlers, with UpdateItem's check.       *)
Frozen(r) ==
  /\ r.change.field = "type" /\ r.change.to # items[r.id].type
  /\ items[r.id].status = "promoted"

Read(r) ==
  /\ r.kind # "create" /\ r.at = "sent"
  /\ IF r.id \in There /\ ~Frozen(r)
     THEN Step(r, "read") /\ UNCHANGED <<items, cards, doubt>>
     ELSE Refuse(r)
  /\ UNCHANGED unheard

UpdateItem(r) ==
  /\ r.kind = "patch" /\ r.at = "read" /\ Free(r.id)
  /\ IF r.id \notin There THEN Refuse(r)
     ELSE /\ items' = [items EXCEPT ![r.id] = With(@, r.change.field, r.change.to)]
          /\ Step(r, "done") /\ Wrote(r, r.id) /\ UNCHANGED cards
  /\ UNCHANGED unheard

DeleteItem(r) ==
  /\ r.kind = "delete" /\ r.at = "read" /\ Free(r.id)
  /\ items' = [items EXCEPT ![r.id] = Gone]
  /\ Step(r, "done") /\ Wrote(r, r.id)
  /\ UNCHANGED <<cards, unheard>>

(* PromoteItem: the item is locked and checked, a card made of it as it was  *)
(* read, and both are seen at the commit.  The column is not locked: without *)
(* it the card cannot be inserted.                                          *)
(* Fault: the item is read without FOR UPDATE. *)
UnlockedRead(i) == TRUE

MayLock(i) == Free(i)

LockItem(r) ==
  /\ r.kind = "promote" /\ r.at = "read" /\ MayLock(r.id)
  /\ IF r.id \in There /\ items[r.id].status \notin {"promoted", "dropped"} /\ todo
     THEN /\ Becomes(r, [r EXCEPT !.at = "locked", !.back = items[r.id]])
          /\ UNCHANGED <<items, cards, doubt>>
     ELSE Refuse(r)
  /\ UNCHANGED unheard

CommitPromote(r) ==
  /\ r.at = "locked"
  /\ IF ~todo THEN Refuse(r)
     ELSE /\ items' = [items EXCEPT ![r.id].status = "promoted"]
          /\ cards' = [cards EXCEPT ![r.id] = @ + 1]
          /\ Becomes(r, [r EXCEPT !.at = "done", !.back.status = "promoted"])
          /\ Wrote(r, r.id)
  /\ UNCHANGED unheard

(* A request is not served, a promote rolled back, or an answer lost.        *)
Lose(r) ==
  /\ faults < MaxFaults /\ r.at \in {"sent", "locked", "done"}
  /\ Step(r, "failed")
  /\ doubt' = IF r.at = "done" THEN doubt \cup {r.id, r.new} ELSE doubt
  /\ faults' = faults + 1
  /\ UNCHANGED <<server, page, select, inputs>>

-----------------------------------------------------------------------------
(* Answers *)

Retyping(r) == r.change.field = "type"
(* Fault: a refused change of type stays on the page. *)
RetypeStays(r) == page

RetypeFailed(r) == OnPage(r.id, "type", r.row.type)

PageAfter(r) ==
  CASE r.kind = "create" /\ r.at = "done" -> Replaced(r.id, Shown(r.new, r.back))
    [] r.kind = "create" /\ r.at = "failed" -> Without(r.id)
    [] r.kind = "delete" /\ r.at = "failed" -> page \cup {r.row}
    [] r.kind = "promote" /\ r.at = "done" -> Replaced(r.id, Shown(r.id, r.back))
    [] r.kind = "patch" /\ Retyping(r) /\ r.at = "failed" -> RetypeFailed(r)
    [] OTHER -> page

(* A change of text or status that fails is not taken back; a row that was   *)
(* deleted before it was created is not shown.                              *)
Unsure(r) ==
  CASE r.kind = "patch" /\ ~Retyping(r) /\ r.at = "failed" -> {r.id}
    [] r.kind = "create" /\ r.at = "done" /\ (\A row \in page : row.id # r.id) -> {r.new}
    [] OTHER -> {}

Answered(r) ==
  /\ r.mine /\ r.at \in {"done", "failed"}
  /\ page' = PageAfter(r)
  /\ \/ /\ r.rest = {}
        /\ reqs' = reqs \ {r}
        /\ select' = IF r.bulk THEN NotSelecting ELSE select
        /\ doubt' = doubt \cup Unsure(r)
     \/ \E i \in r.rest :
           /\ reqs' = (reqs \ {r}) \cup
                 {[r EXCEPT !.id = i, !.rest = @ \ {i}, !.at = "sent", !.back = NoRow]}
           /\ doubt' = Raced("promote", i, NoChange)
           /\ UNCHANGED select
  /\ UNCHANGED <<server, inputs, faults>>

-----------------------------------------------------------------------------
(* Others, on pages of their own that may be as old as this one.             *)

Theirs(kind, i, change) ==
  /\ reqs' = reqs \cup {[Request(kind, i, change) EXCEPT !.mine = FALSE]}
  /\ Input
  /\ UNCHANGED <<server, page, select, doubt>>

Elsewhere ==
  \E i \in There :
       \/ \E t \in Texts \ {items[i].text} : Theirs("patch", i, Change("text", t))
       \/ \E t \in Types \ {items[i].type} : Theirs("patch", i, Change("type", t))
       \/ \E s \in {"live", "dropped"} : Theirs("patch", i, Change("status", s))
       \/ Theirs("promote", i, NoChange)
       \/ Theirs("delete", i, NoChange)

(* A TODO column is added, removed or given another category.                *)
ColumnsChange ==
  /\ todo' = ~todo
  /\ Input
  /\ UNCHANGED <<items, cards, page, select, reqs, doubt>>

-----------------------------------------------------------------------------

Init ==
  /\ items \in Starts
  /\ cards = [i \in Items |-> IF items[i].status = "promoted" THEN 1 ELSE 0]
  /\ todo \in BOOLEAN
  /\ page = {Shown(i, items[i]) : i \in There}
  /\ select = NotSelecting /\ reqs = {} /\ doubt = {}
  /\ inputs = 0 /\ faults = 0

UserStep ==
  \/ \E row \in page :
       \/ \E text \in Texts : EditText(row, text)
       \/ \E t \in Types : changeType(row, t)
       \/ toggleStatus(row)
       \/ removeItem(row)
       \/ promoteOne(row)
       \/ toggleSelect(row)
  \/ \E type \in Types : commitNew(type)
  \/ enterSelectMode
  \/ exitSelectMode
  \/ handleBulkSend

Next ==
  \/ UserStep
  \/ \E r \in reqs :
       \/ CreateItem(r)
       \/ Read(r)
       \/ UpdateItem(r)
       \/ DeleteItem(r)
       \/ LockItem(r)
       \/ CommitPromote(r)
       \/ Lose(r)
       \/ Answered(r)
  \/ Elsewhere
  \/ ColumnsChange

Spec == Init /\ [][Next]_vars

-----------------------------------------------------------------------------
(* Properties *)

(* A card is made only of an item that is live at the moment it is made,      *)
(* neither dropped nor promoted, whoever promotes, drops or changes it at the *)
(* same time: the lock that PromoteItem takes holds from its check to its     *)
(* commit.                                                                  *)
OnlyLiveItemsBecomeCards ==
  [][\A i \in Items : cards'[i] # cards[i] =>
       cards'[i] = cards[i] + 1 /\ items[i].status \in {"live", "selected"}]_vars

Quiet == \A r \in reqs : ~r.mine

(* When nothing of the page is on its way, it shows the session: optimistic   *)
(* changes, temporary rows, refused changes of type, failed additions and     *)
(* deletions and any number of promotes leave each item as the server has it.*)
(* Not so an item that others wrote, whose text or status failed to be saved, *)
(* whose requests raced each other, or whose answer was lost (doubt).        *)
QuietPageShowsTheSession ==
  Quiet => {row \in page : row.id \notin doubt} =
           {Shown(i, items[i]) : i \in There \ doubt}

(* The number on each filter is the number of rows it lists, the sidebar's    *)
(* total is that of the filter for all, its open questions are the callout's *)
(* and the selected ones; and when the page is sure of what it shows, its     *)
(* numbers are those the list of sessions has for it.                        *)
NumbersAgree ==
  /\ \A f \in Filters :
       Cardinality(applySessionFilter(page, f)) = computeFilterCounts(page)[f]
  /\ SidebarTotal = computeFilterCounts(page)["all"]
  /\ stats.types["Q"] = Cardinality(openQuestions) +
       Cardinality(OfType(WithStatus(page, "selected"), "Q"))
  /\ Quiet /\ doubt = {} => stats = Summary
=============================================================================
