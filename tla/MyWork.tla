------------------------------- MODULE MyWork -------------------------------
(***************************************************************************)
(* The My Work page of one user in one tab: the page and its hook           *)
(* useMyWorkActions, the quick view of a card (MyWorkTaskModal, useCardDetail,*)
(* TaskQuickDetails) and the handlers they call.  A completion is hidden at *)
(* once and sent when its time to undo is over or when the page is left; a  *)
(* snooze is a PATCH and then a new GET of the whole page.  The page hears   *)
(* no broadcasts: what others do is seen with the next GET.                 *)
(*                                                                         *)
(* Requests reach the server and are answered in any order.  A timer or a   *)
(* toast may run out at any time after it is set: an undo is possible as    *)
(* long as its completion is pending, and that of a snooze at any time.     *)
(* The order of the rows, the greeting's words and the error's are left out.*)
(***************************************************************************)
EXTENDS Integers, Sequences, FiniteSets, SequencesExt, FiniteSetsExt

CONSTANTS
  NumCards,   \* the cards are 1 .. NumCards, in the order in which GETs list them
  BoardOf,    \* the board of each
  Today,      \* the user's day; days are naturals
  Starts,     \* due dates the cards may have at first, NoDate for none
  Dues,       \* due dates cards are given elsewhere
  Me,         \* the user
  Holders,    \* who cards may be assigned to
  ShowAll,    \* whether the settings list unassigned cards: a set of Booleans
  MaxInputs,  \* bound: what this user and others do
  MaxFaults   \* bound: requests that fail without the server refusing them

NoDate == 0
Nobody == "nobody"
Closed == 0
Cards == 1 .. NumCards
Groups == {"overdue", "today", "this_week", "later", "no_date"}
Offsets == {1, 7}

ASSUME MyWorkAssumption ==
  /\ NumCards \in Nat \ {0} /\ Today \in Nat \ {NoDate}
  /\ Starts \subseteq [Cards -> Nat] /\ Dues \subseteq Nat
  /\ {Me, Nobody} \subseteq Holders /\ Me # Nobody
  /\ ShowAll \subseteq BOOLEAN /\ MaxInputs \in Nat /\ MaxFaults \in Nat

VARIABLES
  db,        \* the rows of the cards, and how often each was written
  all,       \* ShowAllCards of the user's settings
  page,      \* data, counts and doneToday of the mounted page
  pending,   \* pendingCompletions: the rows hidden until their time is over
  view,      \* the quick view, with the detail it got
  reqs,      \* requests on their way
  toasts,    \* offers to undo a snooze
  known,     \* the version of each card that the page shows (history)
  mixed,     \* a snooze overlapped other work of the page (history)
  owed,      \* clicks accepted, less those undone and those sent (history)
  finished,  \* today's cards this page has completed (history)
  inputs, faults

vars == <<db, all, page, pending, view, reqs, toasts, known, mixed, owed,
          finished, inputs, faults>>
history == <<known, mixed, owed, finished>>

-----------------------------------------------------------------------------
(* The rows of a list that are in a set, in their order: a recursive         *)
(* function, since one can prove about it, and not about SelectSeq.         *)
Kept(list, rows) ==
  LET kept[i \in 0 .. Len(list)] ==
        IF i = 0 THEN <<>>
        ELSE IF list[i] \in rows THEN Append(kept[i - 1], list[i])
        ELSE kept[i - 1]
  IN  kept[Len(list)]

-----------------------------------------------------------------------------
(* The server *)

Group(due) ==
  CASE due = NoDate -> "no_date"
    [] due # NoDate /\ due < Today -> "overdue"
    [] due = Today -> "today"
    [] due > Today /\ due <= Today + 6 -> "this_week"
    [] due > Today + 6 -> "later"

InInbox(c) ==
  /\ ~db[c].done
  /\ db[c].holder = Me \/ (all /\ db[c].holder = Nobody)

(* What GET /my-tasks answers: the rows and, for the history, the version of *)
(* every card it read.                                                      *)
Inbox ==
  LET ids == Kept([c \in Cards |-> c], {c \in Cards : InInbox(c)}) IN
  [list |-> [i \in DOMAIN ids |->
               [card |-> ids[i], due |-> db[ids[i]].due, done |-> db[ids[i]].sub]],
   known |-> [c \in Cards |-> db[c].ver]]

InGroup(list, g) ==
  Kept(list, {row \in ToSet(list) : Group(row.due) = g})

CountsOf(list) == [g \in Groups |-> Len(InGroup(list, g))]

Wrote(c, row) == [db EXCEPT ![c] = [row EXCEPT !.ver = @ + 1]]

(* CompleteCardAsAssignee: no matter whether the card is done already. *)
CompleteMyTask(c) == db[c].holder = Me

(* An assignee may edit; whether another may, is a matter of the role and of *)
(* who made the card.                                                       *)
MayEdit(c) == IF db[c].holder = Me THEN {TRUE} ELSE BOOLEAN

-----------------------------------------------------------------------------
(* What the page shows *)

Rows(c) == {i \in DOMAIN page.list : page.list[i].card = c}
Lists(c) == Rows(c) # {}
Listed(c) == page.list[Min(Rows(c))]
IsPending(c) == \E row \in pending : row.card = c

Without(list, c) ==
  Kept(list, {row \in ToSet(list) : row.card # c})

(* The rows of a section are shown under their boards. *)
ProjectGroups(rows) ==
  [b \in {BoardOf[rows[i].card] : i \in DOMAIN rows} |->
     Kept(rows, {row \in ToSet(rows) : BoardOf[row.card] = b})]

NumShown(rows) ==
  LET groups == ProjectGroups(rows)
      sizes == [b \in DOMAIN groups |-> Len(groups[b])]
  IN MapThenSumSet(LAMBDA b : sizes[b], DOMAIN groups)

NoteRows(tab) == InGroup(page.list, tab)
Upcoming ==
  Kept(page.list,
       {row \in ToSet(page.list) : Group(row.due) \in {"this_week", "later"}})
NoDateRows == InGroup(page.list, "no_date")

(* The tiles of the header and the count beside "no date" are counts, the   *)
(* numbers of the tabs are those of the rows.                               *)
Tiles == [g \in {"overdue", "today", "this_week"} |-> page.counts[g]]
RailCount == page.counts["no_date"]
DaySummary == [left |-> page.counts["today"],
               total |-> page.counts["today"] + page.doneToday]

(* The quick view: the boxes wait for the detail, the progress does not. *)
QuickView ==
  [boxes |-> IF view.state = "shown" THEN {view.sub} ELSE {},
   done |-> IF view.state = "shown" THEN view.sub ELSE view.row.done]

-----------------------------------------------------------------------------
(* Requests *)

NoData == [list |-> <<>>, known |-> [c \in Cards |-> 0]]
NoRow == [card |-> 0, due |-> NoDate, done |-> FALSE]

Request(kind, c) ==
  [kind |-> kind, card |-> c, mount |-> page.mount, stage |-> "sent",
   row |-> NoRow, due |-> NoDate, prev |-> NoData, reply |-> NoData,
   view |-> Closed, value |-> FALSE]

Completion(row) == [Request("complete", row.card) EXCEPT !.row = row]

Reads == {"load", "snoozed", "unsnoozed"}
OfThisPage(r) == page.phase # "left" /\ r.mount = page.mount
InFlight(kinds) == \E i \in DOMAIN reqs : reqs[i].kind \in kinds /\ OfThisPage(reqs[i])
Snoozing == InFlight({"snooze", "snoozed", "unsnooze", "unsnoozed"})

Away(i) == RemoveAt(reqs, i)
Then(i, kind) == [reqs EXCEPT ![i].kind = kind, ![i].stage = "sent"]

Input == inputs < MaxInputs /\ inputs' = inputs + 1 /\ UNCHANGED <<faults, all>>
NoInput == UNCHANGED <<inputs, all>>

-----------------------------------------------------------------------------
(* The hook *)

filterPending(list) ==
  Kept(list, {row \in ToSet(list) : ~IsPending(row.card)})

AtLeastZero(n) == IF n < 0 THEN 0 ELSE n

adjustCounts(counts, g, delta) == [counts EXCEPT ![g] = AtLeastZero(@ + delta)]

IsToday(row) == IF Group(row.due) = "today" THEN 1 ELSE 0

RestoreUncounted(row) ==
  [page EXCEPT !.list = Append(@, row),
               !.doneToday = AtLeastZero(@ - IsToday(row))]

restorePending(row) ==
  [page EXCEPT !.list = Append(@, row),
               !.counts = adjustCounts(@, Group(row.due), 1),
               !.doneToday = AtLeastZero(@ - IsToday(row))]

(* A card that is pending or is not listed any more is passed over in       *)
(* silence, also from the quick view, which closes.                         *)
handleComplete(c) ==
  IF IsPending(c) \/ ~Lists(c)
  THEN UNCHANGED <<page, pending, owed, mixed>>
  ELSE LET row == Listed(c) IN
    /\ page' = [page EXCEPT !.list = Without(@, c),
                            !.counts = adjustCounts(@, Group(row.due), -1),
                            !.doneToday = @ + IsToday(row)]
    /\ pending' = pending \cup {row}
    /\ owed' = [owed EXCEPT ![c] = @ + 1]
    /\ mixed' = (mixed \/ Snoozing)

(* The button of a row: the rows of the two tabs have one, the others not. *)
CompleteRow(c) ==
  /\ Input
  /\ page.phase = "ready" /\ view.id = Closed
  /\ \E tab \in {"today", "overdue"} : \E i \in DOMAIN NoteRows(tab) :
       NoteRows(tab)[i].card = c
  /\ handleComplete(c)
  /\ UNCHANGED <<db, view, reqs, toasts, known, finished>>

CompleteViewed ==
  /\ Input
  /\ view.id # Closed
  /\ handleComplete(view.row.card)
  /\ view' = [view EXCEPT !.id = Closed]
  /\ UNCHANGED <<db, reqs, toasts, known, finished>>

undoComplete(row) ==
  /\ Input
  /\ row \in pending
  /\ pending' = pending \ {row}
  /\ page' = restorePending(row)
  /\ owed' = [owed EXCEPT ![row.card] = @ - 1]
  /\ UNCHANGED <<db, view, reqs, toasts, known, mixed, finished>>

(* The time to undo is over. *)
commitComplete(row) ==
  /\ row \in pending
  /\ pending' = pending \ {row}
  /\ reqs' = Append(reqs, Completion(row))
  /\ owed' = [owed EXCEPT ![row.card] = @ - 1]
  /\ NoInput
  /\ UNCHANGED <<db, page, view, toasts, known, mixed, finished, faults>>

(* Fault: a page that only stops its timers when it is left. *)
TimersCleared == <<>>

(* The page is left: what is pending is sent at once. *)
Flush ==
  LET rows == SetToSeq(pending) IN
  [i \in DOMAIN rows |-> Completion(rows[i])]

Leave ==
  /\ Input
  /\ page.phase # "left"
  /\ reqs' = reqs \o Flush
  /\ owed' = [c \in Cards |->
       owed[c] - Cardinality({i \in DOMAIN Flush : Flush[i].card = c})]
  /\ pending' = {}
  /\ page' = [page EXCEPT !.phase = "left"]
  /\ view' = [view EXCEPT !.id = Closed]
  /\ UNCHANGED <<db, toasts, known, mixed, finished>>

Blank(mount) ==
  [phase |-> "loading", list |-> <<>>, counts |-> [g \in Groups |-> 0],
   doneToday |-> 0, mount |-> mount]

Enter ==
  /\ Input
  /\ page.phase = "left"
  /\ page' = Blank(inputs')
  /\ reqs' = Append(reqs, [Request("load", 0) EXCEPT !.mount = inputs'])
  /\ known' = NoData.known /\ mixed' = FALSE /\ finished' = 0
  /\ UNCHANGED <<db, pending, view, toasts, owed>>

(* From the quick view, which closes.  The date to go back to is that of the *)
(* row listed now, none if there is none.                                   *)
handleSnooze(offset) ==
  LET c == view.row.card IN
  /\ Input
  /\ view.id # Closed
  /\ page' = [page EXCEPT !.list = Without(@, c)]
  /\ reqs' = Append(reqs,
       [Request("snooze", c) EXCEPT
          !.due = Today + offset,
          !.row = IF Lists(c) THEN Listed(c) ELSE NoRow,
          !.prev = [list |-> page.list, known |-> known]])
  /\ view' = [view EXCEPT !.id = Closed]
  /\ mixed' = (mixed \/ Snoozing \/ pending # {} \/ InFlight({"complete"}))
  /\ UNCHANGED <<db, pending, toasts, known, owed, finished>>

undoSnooze(t) ==
  /\ Input
  /\ t \in toasts
  /\ toasts' = toasts \ {t}
  /\ reqs' = Append(reqs, [Request("unsnooze", t.card) EXCEPT
                             !.due = t.due, !.mount = t.mount])
  /\ mixed' = (mixed \/ Snoozing \/ pending # {} \/ InFlight({"complete"}))
  /\ UNCHANGED <<db, page, pending, view, known, owed, finished>>

(* Any row opens the quick view, which gets the detail. *)
Open(c) ==
  /\ Input
  /\ page.phase = "ready" /\ view.id = Closed /\ Lists(c)
  /\ view' = [id |-> inputs', row |-> Listed(c), state |-> "loading",
              sub |-> FALSE, known |-> 0, muddled |-> FALSE]
  /\ reqs' = Append(reqs, [Request("detail", c) EXCEPT !.view = inputs'])
  /\ UNCHANGED <<db, page, pending, toasts, history>>

Close ==
  /\ view.id # Closed
  /\ view' = [view EXCEPT !.id = Closed]
  /\ NoInput
  /\ UNCHANGED <<db, page, pending, reqs, toasts, history, faults>>

TogglesOf(v) ==
  {i \in DOMAIN reqs : reqs[i].kind = "toggle" /\ reqs[i].view = v}

toggleSubtask ==
  /\ Input
  /\ view.id # Closed /\ view.state = "shown"
  /\ view' = [view EXCEPT !.sub = ~@, !.muddled = @ \/ TogglesOf(view.id) # {}]
  /\ reqs' = Append(reqs, [Request("toggle", view.row.card) EXCEPT
                             !.value = ~view.sub, !.view = view.id])
  /\ UNCHANGED <<db, page, pending, toasts, history>>

-----------------------------------------------------------------------------
(* The server serves a request; the tab gets the answer or an error. *)

Serve(i) ==
  LET r == reqs[i]
      c == r.card
      done == [reqs EXCEPT ![i].stage = "ok", ![i].reply.known[c] = db[c].ver + 1]
      refused == [reqs EXCEPT ![i].stage = "refused"]
  IN
  /\ r.stage = "sent"
  /\ \/ /\ r.kind = "complete"
        /\ IF CompleteMyTask(c)
           THEN reqs' = done /\ db' = Wrote(c, [db[c] EXCEPT !.done = TRUE])
           ELSE reqs' = refused /\ UNCHANGED db
     \/ /\ r.kind \in {"snooze", "unsnooze"}
        /\ \E may \in MayEdit(c) :
             IF may
             THEN reqs' = done /\ db' = Wrote(c, [db[c] EXCEPT !.due = r.due])
             ELSE reqs' = refused /\ UNCHANGED db
     \/ /\ r.kind \in Reads
        /\ reqs' = [reqs EXCEPT ![i].stage = "ok", ![i].reply = Inbox]
        /\ UNCHANGED db
     \/ /\ r.kind = "toggle"
        /\ reqs' = [reqs EXCEPT ![i].stage = "ok"]
        /\ db' = [db EXCEPT ![c].sub = r.value, ![c].subver = @ + 1]
     \/ /\ r.kind = "detail"
        /\ reqs' = [reqs EXCEPT ![i].stage = "ok", ![i].value = db[c].sub,
                                ![i].reply.known[c] = db[c].subver]
        /\ UNCHANGED db
  /\ NoInput
  /\ UNCHANGED <<page, pending, view, toasts, history, faults>>

(* A list from the server replaces the page's; the first one leaves out     *)
(* what is pending.                                                         *)
Refreshed(list, data) ==
  [page EXCEPT !.phase = "ready", !.list = list, !.counts = CountsOf(data.list)]

Alone(i) == pending = {} /\ \A k \in DOMAIN reqs : k # i => ~OfThisPage(reqs[k])

Answered(i) ==
  LET r == reqs[i] IN
  /\ r.stage = "ok"
  /\ \/ /\ r.kind = "complete" /\ reqs' = Away(i)
        /\ IF OfThisPage(r)
           THEN /\ known' = [known EXCEPT ![r.card] =
                     IF @ + 1 = r.reply.known[r.card] THEN @ + 1 ELSE @]
                /\ finished' = finished + IsToday(r.row)
           ELSE UNCHANGED <<known, finished>>
        /\ UNCHANGED <<page, view, toasts, mixed>>
     \/ /\ r.kind \in {"snooze", "unsnooze"}
        /\ reqs' = Then(i, IF r.kind = "snooze" THEN "snoozed" ELSE "unsnoozed")
        /\ UNCHANGED <<page, view, toasts, known, mixed, finished>>
     \/ /\ r.kind \in Reads /\ reqs' = Away(i)
        /\ toasts' = IF r.kind = "snoozed"
                     THEN toasts \cup {[card |-> r.card, due |-> r.row.due,
                                        mount |-> r.mount]}
                     ELSE toasts
        /\ IF OfThisPage(r)
           THEN /\ page' = Refreshed(IF r.kind = "load"
                                     THEN filterPending(r.reply.list)
                                     ELSE r.reply.list, r.reply)
                /\ known' = r.reply.known
                /\ mixed' = (mixed /\ ~Alone(i))
           ELSE UNCHANGED <<page, known, mixed>>
        /\ UNCHANGED <<view, finished>>
     \/ /\ r.kind = "toggle" /\ reqs' = Away(i)
        /\ view' = IF view.id = r.view THEN [view EXCEPT !.known = @ + 1] ELSE view
        /\ UNCHANGED <<page, toasts, known, mixed, finished>>
     \/ /\ r.kind = "detail" /\ reqs' = Away(i)
        /\ view' = IF view.id = r.view
                   THEN [view EXCEPT !.state = "shown", !.sub = r.value,
                                     !.known = r.reply.known[r.card]]
                   ELSE view
        /\ UNCHANGED <<page, toasts, known, mixed, finished>>
  /\ NoInput
  /\ UNCHANGED <<db, pending, owed, faults>>

(* Fault: a snooze that fails leaves the list as it made it. *)
NotRolledBack(r) == page.list

(* A snooze that fails, or whose GET does, puts back the list it took. *)
RolledBack(r) == r.prev.list

BoxAfterError(r) == ~r.value

Failed(i) ==
  LET r == reqs[i] IN
  /\ IF r.stage = "refused" THEN UNCHANGED faults
     ELSE faults < MaxFaults /\ faults' = faults + 1
  /\ reqs' = Away(i)
  /\ page' = IF ~OfThisPage(r) THEN page
             ELSE IF r.kind = "complete" THEN restorePending(r.row)
             ELSE IF r.kind \in {"snooze", "snoozed"}
             THEN [page EXCEPT !.list = RolledBack(r)]
             ELSE IF r.kind = "load" THEN [page EXCEPT !.phase = "failed"]
             ELSE page
  /\ known' = IF OfThisPage(r) /\ r.kind \in {"snooze", "snoozed"}
              THEN r.prev.known ELSE known
  /\ view' = IF r.view # view.id \/ view.id = Closed THEN view
             ELSE IF r.kind = "detail" THEN [view EXCEPT !.state = "failed"]
             ELSE [view EXCEPT !.sub = BoxAfterError(r)]
  /\ NoInput
  /\ UNCHANGED <<db, pending, toasts, mixed, owed, finished>>

-----------------------------------------------------------------------------

(* Somebody else finishes, assigns or dates a card, or opens it again. *)
Elsewhere(c) ==
  /\ Input
  /\ \/ \E holder \in Holders \ {db[c].holder} :
          db' = Wrote(c, [db[c] EXCEPT !.holder = holder])
     \/ \E due \in Dues \ {db[c].due} : db' = Wrote(c, [db[c] EXCEPT !.due = due])
     \/ db' = Wrote(c, [db[c] EXCEPT !.done = ~@])
  /\ UNCHANGED <<page, pending, view, reqs, toasts, history>>

Init ==
  /\ \E due \in Starts, holder \in [Cards -> {Me, Nobody}] :
       db = [c \in Cards |-> [due |-> due[c], holder |-> holder[c], done |-> FALSE,
                              sub |-> FALSE, ver |-> 1, subver |-> 1]]
  /\ all \in ShowAll
  /\ page = Blank(0)
  /\ pending = {} /\ toasts = {}
  /\ view = [id |-> Closed, row |-> NoRow, state |-> "loading", sub |-> FALSE,
             known |-> 0, muddled |-> FALSE]
  /\ reqs = <<Request("load", 0)>>
  /\ known = NoData.known /\ mixed = FALSE
  /\ owed = [c \in Cards |-> 0] /\ finished = 0
  /\ inputs = 0 /\ faults = 0

Next ==
  \/ \E c \in Cards : CompleteRow(c) \/ Open(c) \/ Elsewhere(c)
  \/ CompleteViewed \/ Close \/ toggleSubtask \/ Leave \/ Enter
  \/ \E row \in pending : undoComplete(row) \/ commitComplete(row)
  \/ \E offset \in Offsets : handleSnooze(offset)
  \/ \E t \in toasts : undoSnooze(t)
  \/ \E i \in DOMAIN reqs : Serve(i) \/ Answered(i) \/ Failed(i)

Spec == Init /\ [][Next]_vars

-----------------------------------------------------------------------------
(* Properties *)

(* A completion that is not undone is sent exactly once, when its time is   *)
(* over or when the page is left, and one that is undone is never sent,     *)
(* whatever timers, undos and navigation race (useMyWorkActions).           *)
OneRequestPerCompletion ==
  \A c \in Cards : owed[c] = IF IsPending(c) THEN 1 ELSE 0

(* The tiles, the tabs, the rail and the greeting agree with the rows: the  *)
(* counts are kept by increments, the rows by filters.  Nothing is listed   *)
(* twice, and what today held is what is left of it and what was done.      *)
(* Not while a snooze is out, or after one that overlapped other work.      *)
PageAddsUp ==
  page.phase = "ready" /\ ~Snoozing /\ ~mixed =>
    /\ \A c \in Cards : Cardinality(Rows(c)) <= 1
    /\ Tiles["today"] = NumShown(NoteRows("today"))
    /\ Tiles["overdue"] = NumShown(NoteRows("overdue"))
    /\ Tiles["this_week"] + page.counts["later"] = NumShown(Upcoming)
    /\ RailCount = NumShown(NoDateRows)
    /\ DaySummary.left >= 0
    /\ DaySummary.total =
         NumShown(NoteRows("today")) + finished
           + Cardinality({row \in pending : IsToday(row) = 1})
           + Cardinality({i \in DOMAIN reqs :
               /\ reqs[i].kind = "complete" /\ OfThisPage(reqs[i])
               /\ IsToday(reqs[i].row) = 1})

(* The quick view's boxes and progress are the stored subtasks, unless        *)
(* somebody else wrote them or a box was clicked again before its answer.    *)
QuickViewAgrees ==
  /\ view.id # Closed /\ view.state = "shown" /\ TogglesOf(view.id) = {}
  /\ ~view.muddled /\ view.known = db[view.row.card].subver
  => QuickView = [boxes |-> {db[view.row.card].sub},
                  done |-> db[view.row.card].sub]

(* A page at rest lists a card as the server would, once and with its date,  *)
(* unless somebody else wrote it since or a snooze overlapped other work.    *)
PageListsTheInbox ==
  /\ page.phase = "ready" /\ pending = {} /\ ~mixed
  /\ ~InFlight({"complete"}) /\ ~Snoozing
  => \A c \in Cards : known[c] = db[c].ver =>
       {page.list[i].due : i \in Rows(c)} = IF InInbox(c) THEN {db[c].due} ELSE {}

(* Whatever was completed, undone, snoozed, toggled or refused before, the   *)
(* page and its quick view show what the server has once they are at rest.   *)
QuietPageShowsTheInbox == PageListsTheInbox /\ QuickViewAgrees

(* A completion that can still be undone is not on the page: "Pending cards *)
(* are filtered out of refetches so they can't reappear" (CODE-NOTES.md).   *)
PendingStaysHidden == \A row \in pending : ~Lists(row.card)
=============================================================================
