----------------------------- MODULE BoardPages -----------------------------
(***************************************************************************)
(* One browser tab on a board: the store its pages share (useBoardStore),   *)
(* the overview (useDashboardStats, useBoardOwnership, the burn-down), the  *)
(* Kanban board (KanbanBoard, Column, useDragActions) and the calendar      *)
(* (ProjectCalendar), each deriving what it shows from the same columns     *)
(* and the same filters.  BoardSync is about how the store is kept in step  *)
(* with the server; here broadcasts are the store changes of other people.  *)
(*                                                                         *)
(* Days are integers.  A card is what the pages tell apart of it: column,   *)
(* position, turn among those that share it, due day, assignee, priority,   *)
(* tags, the done flag with the day it was set, the day it was created and  *)
(* whether some subtask is done.                                            *)
(***************************************************************************)
EXTENDS Integers, Sequences, FiniteSets, FiniteSetsExt, SequencesExt

CONSTANTS
  Cards,       \* the ids cards can have, naturals
  Columns,     \* the ids of columns, naturals in the order of their positions
  NewColumns,  \* those that nobody has made when the page is loaded
  Users, Me,   \* people who can be assigned, one of them at this tab
  Tags,        \* tags of the board
  Priorities,  \* what a card can be marked with
  Boards,      \* stores the page can load: a card record for some ids
  DueDays,     \* days a card can be due
  Today,       \* the day the page is loaded
  LastDay,     \* bound: days pass up to this one
  MonthStart,  \* first days of consecutive months
  FirstDow,    \* day of the week of day 0, Sunday being 0
  Window,      \* days on the burn-down chart
  MaxPills,    \* MAX_PILLS_PER_CELL
  POSITION_GAP,
  MaxEdits     \* bound: changes of the store and of filters in a behaviour

None == "none"
Unassigned == "unassigned"
NoDay == -1
NoId == 0
Statuses == {"todo", "inProgress", "done", "overdue"}

CardType ==
  [col : Columns, pos : Nat, turn : Nat, due : DueDays \cup {NoDay}, who : Users \cup {None},
   prio : Priorities \cup {None}, tags : SUBSET Tags, done : BOOLEAN,
   doneAt : Int, made : Int, begun : BOOLEAN]

Months == 1 .. Len(MonthStart) - 1

ASSUME PagesAssumption ==
  /\ Cards \subseteq Nat \ {NoId} /\ Columns \subseteq Nat \ {NoId}
  /\ NewColumns \subseteq Columns /\ NewColumns # Columns /\ Cards \cap Columns = {}
  /\ IsFiniteSet(Cards) /\ IsFiniteSet(Columns) /\ IsFiniteSet(Users)
  /\ Me \in Users /\ None \notin Users /\ Unassigned \notin Users
  /\ None \notin Priorities
  /\ Today \in Nat /\ LastDay \in Nat /\ Today <= LastDay /\ DueDays \subseteq Nat
  /\ Window > 1 /\ MaxPills > 0 /\ MaxEdits \in Nat
  /\ POSITION_GAP \in Nat /\ POSITION_GAP > 1

\* What the server sends was created and completed in the past.
ASSUME BoardsAssumption ==
  /\ Boards # {}
  /\ \A b \in Boards :
       /\ DOMAIN b \subseteq Cards /\ b \in [DOMAIN b -> CardType]
       /\ \A k \in DOMAIN b :
            /\ b[k].col \notin NewColumns /\ b[k].turn = 0
            /\ b[k].made <= Today /\ b[k].doneAt <= Today

\* The calendar can show every due day.
ASSUME MonthsAssumption ==
  /\ MonthStart \in Seq(Int) /\ FirstDow \in Int
  /\ \A d \in DueDays : \E m \in Months : MonthStart[m] <= d /\ d < MonthStart[m + 1]

VARIABLES
  card,     \* the cards of the store
  cat,      \* the category of each column of the store
  members,  \* boardMembers of the store
  filter,   \* the store's filters: assignee, priorities, tags
  day,      \* the date
  page,     \* the page of the board that is open, None between two
  view,     \* what the components of that page remember
  dialog,   \* the dialog that lies over it, or the card being dragged
  memoDay,  \* the date when the memos of the page last ran
  moving,   \* cards dropped here whose broadcast is not back yet
  edits,    \* changes of the store and of filters so far
  openAt,   \* history: cards open at the end of each day that has passed
  redated   \* history: cards created or completed on another day than they say

store == <<card, cat, members>>
vars == <<card, cat, members, filter, day, page, view, dialog, memoDay, moving,
          edits, openAt, redated>>

Live == DOMAIN card
NoDialog == [kind |-> None]
NoFilter == [who |-> None, prio |-> {}, tags |-> {}]

-----------------------------------------------------------------------------
(* Columns, in the order of the store *)

InColumn(c) == {k \in Live : card[k].col = c}
\* Cards that share a position are in the order in which they took it.
Before(a, b) ==
  \/ card[a].pos < card[b].pos
  \/ card[a].pos = card[b].pos /\ card[a].turn < card[b].turn
  \/ card[a].pos = card[b].pos /\ card[a].turn = card[b].turn /\ a < b

\* A set as a sequence, in the order of a relation: each element stands behind
\* as many as there are before it.
Sorted(S, before) ==
  [i \in 1 .. Cardinality(S) |->
     CHOOSE x \in S : Cardinality({y \in S : <<y, x>> \in before}) = i - 1]

\* The cards column by column: what a filter lets through stays in this order.
InOrder ==
  {p \in Live \X Live : \/ card[p[1]].col < card[p[2]].col
                        \/ card[p[1]].col = card[p[2]].col /\ Before(p[1], p[2])}
CardsOf(c) == Sorted(InColumn(c), InOrder)
Pick(P(_)) == Sorted({k \in Live : P(k)}, InOrder)

\* KanbanBoard shows the TODO columns first, then the DONE ones.
ByPosition == {p \in (DOMAIN cat) \X (DOMAIN cat) : p[1] < p[2]}
BoardColumns ==
  Sorted({c \in DOMAIN cat : cat[c] # "DONE"}, ByPosition)
    \o Sorted({c \in DOMAIN cat : cat[c] = "DONE"}, ByPosition)

-----------------------------------------------------------------------------
(* useDashboardStats: a memo on the columns, so its "today" is the day the  *)
(* columns last changed or the page was opened                              *)

ColumnDone(k) == cat[card[k].col] = "DONE"
Dated(k) == card[k].due # NoDay

\* Fault: the week ends before its seventh day.
ThisWeekShort(today) ==
  Pick(LAMBDA k : Dated(k) /\ ~ColumnDone(k)
                  /\ card[k].due > today + 1 /\ card[k].due < today + 7)
\* Due after tomorrow, the seventh day included.
ThisWeek(today) ==
  Pick(LAMBDA k : Dated(k) /\ ~ColumnDone(k)
                  /\ card[k].due > today + 1 /\ card[k].due <= today + 7)

\* Whether the project is on track or at risk, and whether someone holds the
\* bulk of the work; how long a card has not moved is left out.
Percent(n, of) == IF of = 0 THEN 0 ELSE (200 * n + of) \div (2 * of)
DoneCards == {k \in Live : ColumnDone(k)}
Progress == Percent(Cardinality(DoneCards), Cardinality(Live))
Insights(late) ==
  LET active == Live \ DoneCards
      most == Max({0} \cup {Cardinality({k \in active : card[k].who = u}) : u \in Users})
  IN  {i \in {"onTrack", "atRisk", "heavyLoad"} :
         \/ i = "onTrack" /\ Live # {} /\ Progress >= 60
         \/ i = "atRisk" /\ Progress < 60 /\ 5 * Len(late) > Cardinality(Live)
         \/ i = "heavyLoad" /\ most > 2 /\ Percent(most, Cardinality(active)) >= 40}

DashboardStats(today) ==
  [overdue  |-> Pick(LAMBDA k : Dated(k) /\ ~ColumnDone(k) /\ card[k].due < today),
   today    |-> Pick(LAMBDA k : Dated(k) /\ ~ColumnDone(k) /\ card[k].due = today),
   tomorrow |-> Pick(LAMBDA k : Dated(k) /\ ~ColumnDone(k) /\ card[k].due = today + 1),
   thisWeek |-> ThisWeek(today), progress |-> Progress,
   columnStats |-> [c \in DOMAIN cat |-> Cardinality(InColumn(c))]]
Stats == DashboardStats(memoDay)

\* The badge of the Tasks tab.
UrgentCount ==
  LET s == Stats IN Len(s.overdue) + Len(s.today) + Len(s.tomorrow) + Len(s.thisWeek)

\* The tile of the overview: the done flag and today's date, at every render.
OverdueTile == {k \in Live : ~card[k].done /\ Dated(k) /\ card[k].due < day}

\* An insight leads to the tab where something can be done about it.
classifyInsight(i) ==
  IF i = "atRisk" THEN "Tasks" ELSE IF i = "heavyLoad" THEN "Team" ELSE None
OverviewTabContent ==
  LET s == Stats IN
  [progress |-> s.progress, pie |-> s.columnStats, overdue |-> Cardinality(OverdueTile),
   active |-> Cardinality({k \in Live : ~card[k].done}),
   leads |-> {t \in {"Tasks", "Team"} :
                \/ \E i \in Insights(s.overdue) : classifyInsight(i) = t
                \/ t = "Tasks" /\ OverdueTile # {}}]

\* The rows of the Tasks tab; the first overdue one is the hero.
Mine(s) ==
  IF view.mine THEN Sorted({k \in ToSet(s) : card[k].who = Me}, InOrder) ELSE s
\* The sort is stable: cards due on the same day stay in the order they had.
DueOrder ==
  {p \in Live \X Live : \/ card[p[1]].due < card[p[2]].due
                        \/ card[p[1]].due = card[p[2]].due /\ p \in InOrder}
ByDue(s) == Sorted(ToSet(s), DueOrder)
TaskRows ==
  LET s == Stats IN
  ByDue(Mine(s.overdue)) \o ByDue(Mine(s.today))
    \o ByDue(Mine(s.tomorrow)) \o ByDue(Mine(s.thisWeek))
HasMine ==
  \E k \in UNION {ToSet(Stats[b]) : b \in {"overdue", "today", "tomorrow", "thisWeek"}} :
    card[k].who = Me
\* How late a row says its card is.
daysOverdue(k) == Max({0, day - card[k].due})
TaskTriageRows ==
  LET rows == TaskRows IN
  [i \in DOMAIN rows |-> [card |-> rows[i], late |-> daysOverdue(rows[i]),
                          hero |-> i = 1 /\ Mine(Stats.overdue) # <<>>]]
HeldCardRow(k) ==
  [card |-> k, due |-> IF ~Dated(k) THEN None
                       ELSE IF daysOverdue(k) > 0 THEN "late" ELSE "dated"]

-----------------------------------------------------------------------------
(* useBoardOwnership: who holds what on the way to done *)

ActiveColumns == {c \in DOMAIN cat : cat[c] # "DONE"}
Held(u) == {k \in Live : /\ card[k].col \in ActiveColumns
                         /\ ~card[k].done /\ card[k].who = u}
CountIn(u, c) == Cardinality({k \in Held(u) : card[k].col = c})
\* Fault: who has left the board is not listed.
OwnersOnBoard == members
\* The members, and anyone who has left and still holds a card.
Owners == members \cup {u \in Users : Held(u) # {}}

\* The bar and the counts of a row need two columns, the counts at most five.
MaxNumericColumns == 5
ShowBar == Cardinality(ActiveColumns) >= 2
NumericMode == ShowBar /\ Cardinality(ActiveColumns) <= MaxNumericColumns
MemberOwnershipRow(u) ==
  [total |-> Cardinality(Held(u)),
   bar   |-> IF ShowBar THEN {c \in ActiveColumns : CountIn(u, c) > 0} ELSE {},
   cells |-> IF NumericMode THEN [c \in ActiveColumns |-> CountIn(u, c)] ELSE <<>>,
   cards |-> IF u \in view.expanded THEN {HeldCardRow(k) : k \in Held(u)} ELSE {}]
TeamOwnershipList == [u \in Owners |-> MemberOwnershipRow(u)]

-----------------------------------------------------------------------------
(* buildBurndownData: the chart is derived from the cards there are now *)

Existed(k, d) == card[k].made <= d
\* Fault: a card done later counts as done on the days before.
StillOpenNow(k, d) == ~card[k].done
\* Open at the end of day d, as far as the card remembers.
StillOpen(k, d) == \/ ~card[k].done
                   \/ card[k].doneAt = NoDay
                   \/ card[k].doneAt > d
ChartDays == (day - Window + 1) .. day
\* Today ends in the future, so it has no point.
Actual(d) == {k \in Live : Existed(k, d) /\ StillOpen(k, d)}
Plotted == ChartDays \ {day}

-----------------------------------------------------------------------------
(* Filters: the Kanban columns and the calendar each have their own test *)

KanbanShows(k) ==
  /\ \/ filter.who = None
     \/ filter.who = Unassigned /\ card[k].who = None
     \/ card[k].who = filter.who
  /\ filter.prio = {} \/ card[k].prio \in filter.prio
  /\ filter.tags = {} \/ card[k].tags \cap filter.tags # {}

\* Done beats overdue, overdue beats in progress.
PillState(k, today) ==
  IF card[k].done THEN "done"
  ELSE IF Dated(k) /\ card[k].due < today THEN "overdue"
  ELSE IF card[k].begun THEN "inProgress" ELSE "todo"

CalendarShows(k) ==
  /\ Dated(k)
  /\ view.myTasks => card[k].who = Me
  /\ filter.who = Unassigned => card[k].who = None
  /\ filter.who \notin {None, Unassigned} => card[k].who = filter.who
  /\ filter.prio # {} => card[k].prio # None /\ card[k].prio \in filter.prio
  /\ filter.tags # {} => \E t \in filter.tags : t \in card[k].tags
  /\ view.status # {} => PillState(k, memoDay) \in view.status

\* The tags the calendar can filter by: those some card carries.
CalendarTags == UNION {card[k].tags : k \in Live}

-----------------------------------------------------------------------------
(* ProjectCalendar: whole weeks around a month *)

MonthOf(d) == CHOOSE m \in Months : MonthStart[m] <= d /\ d < MonthStart[m + 1]
Dow(d) == (d + FirstDow) % 7
StartOfWeek(d) == d - Dow(d)
EndOfWeek(d) == d + 6 - Dow(d)
\* Fault: five weeks are drawn, whatever the month.
GridOfFive(m) == StartOfWeek(MonthStart[m]) .. StartOfWeek(MonthStart[m]) + 34
Grid(m) == StartOfWeek(MonthStart[m]) .. EndOfWeek(MonthStart[m + 1] - 1)
CellCards(d) == Pick(LAMBDA k : CalendarShows(k) /\ card[k].due = d)
VisiblePills(d) == SubSeq(CellCards(d), 1, Min({MaxPills, Len(CellCards(d))}))
Overflow(d) == Max({0, Len(CellCards(d)) - MaxPills})

-----------------------------------------------------------------------------
(* Pages *)

NoLine == [col |-> NoId, before |-> NoId]

\* What a component remembers when it has just been mounted.  Which DONE
\* columns are collapsed comes from localStorage, where any choice may be; all
\* others would be, should they become DONE columns.
Mounted(p) ==
  CASE p = "overview" -> {[tab |-> "Overview", mine |-> FALSE, expanded |-> {}]}
    [] p = "board"    -> {[line |-> NoLine, collapsed |-> Columns \ s] :
                            s \in SUBSET {c \in DOMAIN cat : cat[c] = "DONE"}}
    [] p = "calendar" -> {[month |-> MonthOf(day), today |-> day, status |-> {},
                           myTasks |-> FALSE]}

Init ==
  /\ card \in Boards
  /\ cat = [c \in Columns \ NewColumns |->
             IF c = Max(Columns \ NewColumns) THEN "DONE" ELSE "TODO"]
  /\ members = Users /\ filter = NoFilter
  /\ day = Today /\ memoDay = Today
  /\ page \in {"overview", "board", "calendar"} /\ view \in Mounted(page)
  /\ dialog = NoDialog /\ moving = {} /\ edits = 0
  /\ openAt = <<>>
  /\ redated = {k \in Live : card[k].done /\ card[k].doneAt = NoDay}

OpenPage(p) ==
  /\ page # p
  /\ page' = p /\ view' \in Mounted(p)
  /\ dialog' = NoDialog /\ memoDay' = day
  /\ UNCHANGED <<store, filter, day, moving, edits, openAt, redated>>

\* The cards open at the end of the day; nothing on the page is computed again.
Midnight ==
  /\ day < LastDay
  /\ day' = day + 1
  /\ openAt' = [d \in DOMAIN openAt \cup {day} |->
                 IF d = day THEN {k \in Live : ~card[k].done} ELSE openAt[d]]
  /\ UNCHANGED <<store, filter, page, view, dialog, memoDay, moving, edits, redated>>

-----------------------------------------------------------------------------
(* Changes of the store: broadcasts, and the answers to this tab's requests *)

\* On the Kanban board a dialog belongs to the card or column under it and goes
\* when that is unmounted: deleted, filtered out, in another column, or in a
\* column that changes sides.
StaysColumn(c) == c \in DOMAIN cat' /\ cat'[c] = cat[c]
Stays(k) == /\ k \in DOMAIN card' /\ k \in Live
            /\ card'[k].col = card[k].col /\ StaysColumn(card[k].col) /\ KanbanShows(k)'
Settle ==
  dialog' = IF /\ page = "board"
               /\ \/ dialog.kind = "detail" /\ ~(\E k \in Cards : k = dialog.id /\ Stays(k))
                  \/ dialog.kind \in {"options", "confirm"} /\ ~StaysColumn(dialog.id)
            THEN NoDialog ELSE dialog

\* Bound.  No drag begins or goes on when no change is left for its drop.
CanChange == edits < MaxEdits
Change ==
  /\ CanChange /\ edits' = edits + 1
  /\ memoDay' = day
  /\ Settle
  /\ UNCHANGED <<day, page, view, openAt>>

EndOf(c, k) ==
  Max({0} \cup {card[j].pos : j \in InColumn(c) \ {k}}) + POSITION_GAP

\* The store pushes a card to the end of its column and sorts: the sort is stable.
LastTurn(c, k, p) ==
  Max({0} \cup {card[j].turn + 1 : j \in {i \in InColumn(c) \ {k} : card[i].pos = p}})
Put(k, c, p) == [card EXCEPT ![k].col = c, ![k].pos = p, ![k].turn = LastTurn(c, k, p)]

\* A move is done exactly in a DONE column, and done as of now.
CardMoved(k, c, p) ==
  /\ card' = [Put(k, c, p) EXCEPT ![k].done = cat[c] = "DONE",
                                  ![k].doneAt = IF cat[c] = "DONE" THEN day ELSE NoDay]
  /\ redated' = IF card[k].done THEN redated \cup {k} ELSE redated
  /\ moving' = moving \ {k}
  /\ UNCHANGED <<cat, members, filter>>
  /\ Change

\* Fault: the lower half counts like the upper half.
calcPositionUpper(c, over, k, half) ==
  LET s == Sorted(InColumn(c) \ {k}, InOrder)
      i == CHOOSE j \in DOMAIN s : s[j] = over
      prev == IF i > 1 THEN card[s[i - 1]].pos ELSE 0
  IN  IF over = NoId THEN EndOf(c, k) ELSE (prev + card[over].pos) \div 2
\* calcPositionFromColumns: halfway to the neighbour, or a gap after the last.
calcPosition(c, over, k, half) ==
  LET s == Sorted(InColumn(c) \ {k}, InOrder)
      i == CHOOSE j \in DOMAIN s : s[j] = over
      prev == IF i > 1 THEN card[s[i - 1]].pos ELSE 0
      next == IF i < Len(s) THEN card[s[i + 1]].pos ELSE card[over].pos + 2 * POSITION_GAP
  IN  IF over = NoId THEN EndOf(c, k)
      ELSE IF half = "lower" THEN (card[over].pos + next) \div 2
      ELSE (prev + card[over].pos) \div 2

\* Someone else drops a card between others or at the end (MoveCard); sets its
\* done flag, which puts it at position 0 of the first column of that category
\* (ToggleCardDone); or completes it in My Work, where it keeps its position.
FirstOf(category) == Min({c \in DOMAIN cat : cat[c] = category})
MovedElsewhere(k) ==
  /\ k \notin moving
  /\ \/ \E c \in DOMAIN cat : \E over \in (InColumn(c) \ {k}) \cup {NoId} :
          \E half \in {"upper", "lower"} : CardMoved(k, c, calcPosition(c, over, k, half))
     \/ \E c \in DOMAIN cat : c = FirstOf(cat[c]) /\ CardMoved(k, c, 0)
     \/ \E c \in DOMAIN cat :
          cat[c] = "DONE" /\ c = FirstOf("DONE") /\ CardMoved(k, c, card[k].pos)
\* The broadcast of a drop here comes back.
MovedHere(k) == k \in moving /\ CardMoved(k, card[k].col, card[k].pos)

\* A card added at this tab has no created_at until the board is loaded again;
\* a card created in a DONE column is not done.
addCardToStore(k, c, made) ==
  /\ k \notin Live /\ \A d \in DOMAIN openAt : k \notin openAt[d]
  /\ \E due \in {NoDay} \cup DueDays, who \in {None, Me} :
       card' = [j \in Live \cup {k} |->
                  IF j \in Live THEN card[j]
                  ELSE [col |-> c, pos |-> EndOf(c, k), turn |-> 0, due |-> due, who |-> who,
                        prio |-> None, tags |-> {}, done |-> FALSE,
                        doneAt |-> NoDay, made |-> made, begun |-> FALSE]]
  /\ redated' = IF made = NoDay THEN redated \cup {k} ELSE redated
  /\ UNCHANGED <<cat, members, filter, moving>>
  /\ Change

removeCardFromStore(k) ==
  /\ card' = [j \in Live \ {k} |-> card[j]]
  /\ moving' = moving \ {k}
  /\ UNCHANGED <<cat, members, filter, redated>>
  /\ Change

\* One field of a card, here or elsewhere.
updateCard(k) ==
  /\ \/ \E due \in {NoDay} \cup DueDays : card' = [card EXCEPT ![k].due = due]
     \/ \E who \in members \cup {None} : card' = [card EXCEPT ![k].who = who]
     \/ \E t \in Tags : card' = [card EXCEPT ![k].tags = @ \cup {t}]
     \/ card' = [card EXCEPT ![k].prio = None]
  /\ card' # card
  /\ UNCHANGED <<cat, members, filter, moving, redated>>
  /\ Change

removeTagFromBoard(t) ==
  /\ card' = [k \in Live |-> [card[k] EXCEPT !.tags = @ \ {t}]]
  /\ filter' = [filter EXCEPT !.tags = @ \ {t}]
  /\ UNCHANGED <<cat, members, moving, redated>>
  /\ Change

\* The category changes, the done flags of the column's cards do not.
updateColumnInStore(c, to) ==
  /\ cat[c] # to
  /\ cat' = [cat EXCEPT ![c] = to]
  /\ UNCHANGED <<card, members, filter, moving, redated>>
  /\ Change

\* CreateColumn puts it halfway between the last column that is not DONE and the
\* first that is, or last.
HalfWay(c) ==
  LET done == {d \in DOMAIN cat : cat[d] = "DONE"}
      ends == {Min(done), Max({0} \cup ((DOMAIN cat) \ done))}
  IN  IF done = {} THEN \A d \in DOMAIN cat : d < c ELSE Min(ends) < c /\ c < Max(ends)
addColumnToStore(c, category) ==
  /\ c \notin DOMAIN cat /\ HalfWay(c)
  /\ cat' = [d \in DOMAIN cat \cup {c} |-> IF d = c THEN category ELSE cat[d]]
  /\ UNCHANGED <<card, members, filter, moving, redated>>
  /\ Change

\* A column goes with whatever cards it has by then.
removeColumnFromStore(c) ==
  /\ cat' = [d \in DOMAIN cat \ {c} |-> cat[d]]
  /\ card' = [k \in Live \ InColumn(c) |-> card[k]]
  /\ moving' = moving \ InColumn(c)
  /\ UNCHANGED <<members, filter, redated>>
  /\ Change

setBoardMembers(left) ==
  /\ left \in members \ {Me}
  /\ members' = members \ {left}
  /\ UNCHANGED <<card, cat, filter, moving, redated>>
  /\ Change

StoreChange ==
  /\ CanChange
  /\ \/ \E k \in Live : MovedElsewhere(k) \/ MovedHere(k)
                        \/ removeCardFromStore(k) \/ updateCard(k)
     \/ \E k \in Cards, c \in DOMAIN cat, made \in {NoDay, day} : addCardToStore(k, c, made)
     \/ \E t \in Tags : removeTagFromBoard(t)
     \/ \E c \in DOMAIN cat, to \in {"TODO", "DONE"} : updateColumnInStore(c, to)
     \/ \E c \in Columns, to \in {"TODO", "DONE"} : addColumnToStore(c, to)
     \/ \E c \in DOMAIN cat : removeColumnFromStore(c)
     \/ \E u \in Users : setBoardMembers(u)

-----------------------------------------------------------------------------
(* Filters of the store, set on the Kanban board and on the calendar *)

SetFilter(f) ==
  /\ f # filter /\ CanChange
  /\ filter' = f /\ edits' = edits + 1
  /\ memoDay' = IF page = "overview" THEN memoDay ELSE day
  /\ Settle
  /\ UNCHANGED <<store, day, page, view, moving, openAt, redated>>

Toggle(s, x) == IF x \in s THEN s \ {x} ELSE s \cup {x}

setFilterAssigneeId(u) == SetFilter([filter EXCEPT !.who = u])
toggleFilterPriority(p) == SetFilter([filter EXCEPT !.prio = Toggle(@, p)])
clearFilterPriorities == SetFilter([filter EXCEPT !.prio = {}])
toggleFilterTag(t) == SetFilter([filter EXCEPT !.tags = Toggle(@, t)])
clearFilterTags == SetFilter([filter EXCEPT !.tags = {}])

\* All, unassigned, me (the M key too) or one of the others; again to clear.
MemberFilterBar ==
  \E u \in members \cup {None, Unassigned} :
    setFilterAssigneeId(IF u = filter.who THEN None ELSE u)
PriorityFilterDropdown == (\E p \in Priorities : toggleFilterPriority(p)) \/ clearFilterPriorities
\* The tags the board fetched, those no card carries included.
TagFilterDropdown == (\E t \in Tags : toggleFilterTag(t)) \/ clearFilterTags

-----------------------------------------------------------------------------
(* Overview: three tabs, and rows that open a card *)

Look(v, g) ==
  /\ view' = v /\ dialog' = g
  /\ UNCHANGED <<store, filter, day, page, memoDay, moving, edits, openAt, redated>>
Remember(v) == dialog = NoDialog /\ v # view /\ Look(v, dialog)
Show(g) == Look(view, g)

\* Without a card the board has nothing to show, not even an open dialog.
Overview ==
  /\ page = "overview" /\ Live # {} /\ dialog = NoDialog
  /\ \/ view.tab = "Overview" /\ \E t \in OverviewTabContent.leads :
                                   Look([view EXCEPT !.tab = t], dialog)
     \/ \E t \in {"Overview", "Tasks", "Team"} :
          t # view.tab /\ Look([view EXCEPT !.tab = t, !.mine = FALSE, !.expanded = {}], dialog)
     \/ view.tab = "Tasks" /\ HasMine /\ Remember([view EXCEPT !.mine = ~@])
     \/ /\ view.tab = "Tasks"
        /\ \E row \in ToSet(TaskTriageRows) : Show([kind |-> "detail", id |-> row.card])
     \/ /\ view.tab = "Team"
        /\ \E u \in Owners : Held(u) # {}
                             /\ Remember([view EXCEPT !.expanded = Toggle(@, u)])
     \/ /\ view.tab = "Team"
        /\ \E u \in Owners : \E row \in MemberOwnershipRow(u).cards :
                             Show([kind |-> "detail", id |-> row.card])

-----------------------------------------------------------------------------
(* Kanban board *)

Collapsed(c) == cat[c] = "DONE" /\ c \in view.collapsed
VisibleCards(c) == IF Collapsed(c) THEN {} ELSE {k \in InColumn(c) : KanbanShows(k)}
OnBoard == UNION {VisibleCards(c) : c \in DOMAIN cat}

\* The line drawn where the card would go: none within its own column.
Indicator(k, over, half) ==
  IF k \notin Live THEN NoLine
  ELSE IF over.kind = "column"
  THEN IF over.id \notin DOMAIN cat \/ over.id = card[k].col THEN NoLine
       ELSE [col |-> over.id, before |-> NoId]
  ELSE IF over.id \notin Live \/ over.id = k \/ card[over.id].col = card[k].col THEN NoLine
  ELSE LET s == CardsOf(card[over.id].col)
           i == CHOOSE j \in DOMAIN s : s[j] = over.id
       IN  [col |-> card[over.id].col,
            before |-> IF half = "upper" THEN over.id
                       ELSE IF i < Len(s) THEN s[i + 1] ELSE NoId]

Droppables == {[kind |-> "column", id |-> c] : c \in DOMAIN cat}
                \cup {[kind |-> "card", id |-> k] : k \in OnBoard}
NoTarget == [kind |-> "nothing", id |-> NoId]
Draw(line) == [view EXCEPT !.line = line]

DragStart(k) ==
  /\ dialog = NoDialog /\ k \in OnBoard /\ CanChange
  /\ Show([kind |-> "drag", id |-> k, over |-> NoTarget, half |-> "upper"])

\* A card can be dragged or opened.
TaskCard(k) ==
  \/ DragStart(k)
  \/ dialog = NoDialog /\ Show([kind |-> "detail", id |-> k])

\* Reported when the pointer comes over something else, not while it moves there;
\* of a column it does not matter which half.
onDragOver(over, half) ==
  /\ dialog.kind = "drag" /\ CanChange /\ over # dialog.over
  /\ over.kind = "column" => half = "upper"
  /\ Look(Draw(Indicator(dialog.id, over, half)),
          [dialog EXCEPT !.over = over, !.half = half])
DragAlong ==
  /\ dialog.kind = "drag" /\ CanChange /\ dialog.over.kind = "card"
  /\ Show([dialog EXCEPT !.half = IF @ = "upper" THEN "lower" ELSE "upper"])
\* Nobody listens: the line stays where it was drawn.
DragCancel == dialog.kind = "drag" /\ CanChange /\ Show(NoDialog)

\* The store changes at once, the done flag when the broadcast is back.
handleDragEnd ==
  LET k == dialog.id
      over == dialog.over
      known == \/ over.kind = "column" /\ over.id \in DOMAIN cat
               \/ over.kind = "card" /\ over.id \in Live
      c == IF over.kind = "column" THEN over.id ELSE card[over.id].col
  IN
  /\ dialog.kind = "drag" /\ CanChange
  /\ IF ~known \/ over.id = k \/ k \notin Live
     THEN Look(Draw(NoLine), NoDialog)
     ELSE /\ edits' = edits + 1
          /\ card' = Put(k, c, calcPosition(c, IF over.kind = "card" THEN over.id ELSE NoId,
                                            k, dialog.half))
          /\ moving' = moving \cup {k}
          /\ view' = Draw(NoLine) /\ dialog' = NoDialog /\ memoDay' = day
          /\ UNCHANGED <<cat, members, filter, day, page, openAt, redated>>

\* The header of a column: collapse or expand a DONE column, and its options.
KanbanColumn(c) ==
  \/ cat[c] = "DONE" /\ Remember([view EXCEPT !.collapsed = Toggle(@, c)])
  \/ dialog = NoDialog /\ ~Collapsed(c) /\ Show([kind |-> "options", id |-> c])

\* A column with cards cannot be deleted: tested when Delete is pressed, not
\* when it is confirmed.
ColumnOptionsModal ==
  \/ \E to \in {"TODO", "DONE"} :
       dialog.kind = "options" /\ updateColumnInStore(dialog.id, to)
  \/ /\ dialog.kind = "options" /\ InColumn(dialog.id) = {}
     /\ Show([kind |-> "confirm", id |-> dialog.id])
  \/ dialog.kind = "confirm" /\ removeColumnFromStore(dialog.id)

Kanban ==
  /\ page = "board"
  /\ \/ \E c \in DOMAIN cat : KanbanColumn(c)
     \/ ColumnOptionsModal
     \/ dialog = NoDialog /\ (MemberFilterBar \/ PriorityFilterDropdown \/ TagFilterDropdown)
     \/ \E k \in OnBoard : TaskCard(k)
     \/ \E over \in Droppables, half \in {"upper", "lower"} : onDragOver(over, half)
     \/ DragAlong \/ DragCancel
     \/ handleDragEnd

-----------------------------------------------------------------------------
(* Calendar *)

\* What a pill says of its card.
TaskPill(k) ==
  [card |-> k, state |-> PillState(k, day),
   late |-> IF PillState(k, day) = "overdue" THEN day - card[k].due ELSE 0]

\* A pill of a cell or of the day's list opens the card, from there the dialog.
OpenPill ==
  \/ dialog = NoDialog /\ \E d \in Grid(view.month) \cap DueDays : \E k \in ToSet(VisiblePills(d)) :
                            Show([kind |-> "quick", id |-> k])
  \/ dialog = NoDialog /\ \E d \in Grid(view.month) \cap DueDays : Overflow(d) > 0
                            /\ Show([kind |-> "more", id |-> d])
  \/ /\ dialog.kind = "more"
     /\ \E pill \in {TaskPill(k) : k \in ToSet(CellCards(dialog.id))} :
          Show([kind |-> "quick", id |-> pill.card])
  \/ dialog.kind = "quick" /\ Show([kind |-> "detail", id |-> dialog.id])

\* Today is offered while another month is shown than that of the page's own today.
MonthYearPicker == \E m \in Months : Remember([view EXCEPT !.month = m])
CalendarHeader ==
  \/ MonthYearPicker
  \/ \E m \in Months \cap {view.month - 1, view.month + 1} : Remember([view EXCEPT !.month = m])
  \/ MonthOf(view.today) # view.month /\ Remember([view EXCEPT !.month = MonthOf(day)])

OwnFilter ==
  /\ CanChange /\ edits' = edits + 1
  /\ view' \in {[view EXCEPT !.status = Toggle(@, s)] : s \in Statuses}
              \cup {[view EXCEPT !.status = {}], [view EXCEPT !.myTasks = ~@]}
  /\ view' # view /\ memoDay' = day
  /\ UNCHANGED <<store, filter, day, page, dialog, moving, openAt, redated>>
\* Unlike the board's, these offer no unassigned and only the tags in use.
CalendarFilters ==
  /\ dialog = NoDialog
  /\ \/ OwnFilter
     \/ \E u \in members \cup {None} : setFilterAssigneeId(IF u = filter.who THEN None ELSE u)
     \/ PriorityFilterDropdown
     \/ \E t \in CalendarTags : toggleFilterTag(t)
     \/ clearFilterTags

Calendar == page = "calendar" /\ (OpenPill \/ CalendarHeader \/ CalendarFilters)

CloseDialog == dialog.kind \notin {None, "drag"} /\ Show(NoDialog)

Next ==
  \/ \E p \in {"overview", "board", "calendar"} : OpenPage(p)
  \/ Midnight
  \/ StoreChange
  \/ Overview
  \/ Kanban
  \/ Calendar
  \/ CloseDialog

Spec == Init /\ [][Next]_vars

-----------------------------------------------------------------------------
(* Properties *)

FlagsAgree == \A k \in Live : card[k].done = ColumnDone(k)

\* The overview's two ways to tell late work, the tile by the done flag and the
\* lists by the column, name the same cards while the flags agree with the
\* columns and the page was computed today; and the Tasks tab lists, once and
\* in order of urgency, exactly the open work due within a week.
UrgentWorkIsListed ==
  page = "overview" /\ memoDay = day =>
    /\ FlagsAgree => ToSet(Stats.overdue) = OverdueTile
    /\ LET rows == TaskRows IN
       ~view.mine =>
         /\ ToSet(rows) = {k \in Live : Dated(k) /\ ~ColumnDone(k) /\ card[k].due <= day + 7}
         /\ Len(rows) = UrgentCount /\ IsInjective(rows)
         /\ \A i, j \in DOMAIN rows : i < j => card[rows[i]].due <= card[rows[j]].due

\* The rows of the Team tab account for every assigned card that is not done,
\* whoever has left the board or whichever column is gone meanwhile, and the
\* counts of a row add up to its total.
HeldWorkAddsUp ==
  LET list == TeamOwnershipList
      total == [u \in Owners |-> list[u].total]
  IN  page = "overview" =>
        /\ MapThenSumSet(LAMBDA u : total[u], Owners)
             = Cardinality({k \in Live : card[k].who # None /\ ~card[k].done /\ ~ColumnDone(k)})
        /\ NumericMode =>
             \A u \in Owners :
               MapThenSumSet(LAMBDA c : list[u].cells[c], ActiveColumns) = list[u].total

\* For a day that has passed the burn-down chart draws the cards that were open
\* when it ended, of those still on the board; a card that was completed again,
\* reopened or created without its date is what the chart cannot know.
BurndownIsHistory ==
  \A d \in Plotted \cap DOMAIN openAt :
    Actual(d) \ redated = (openAt[d] \cap Live) \ redated

\* The calendar and the Kanban columns test the shared filters in code of their
\* own and agree: a dated card of the month has a cell exactly if its column
\* would show it, also in months that take six weeks.
CalendarPlacesEveryDueCard ==
  page = "calendar" /\ view.status = {} /\ ~view.myTasks =>
    \A k \in Live : Dated(k) /\ MonthOf(card[k].due) = view.month =>
      (KanbanShows(k) <=> \E d \in Grid(view.month) \cap DueDays : k \in ToSet(CellCards(d)))

\* A dropped card comes behind what it was dropped behind and before what it was
\* dropped before, of the columns as they have become during the drag, tied or
\* not.  Only where there is no number left between its neighbours, which then
\* share a position or are at 0, it comes behind the one it was to precede.
Dropped(k) == dialog.kind = "drag" /\ k = dialog.id /\ dialog'.kind # "drag" /\ edits' # edits
DropLandsAtPointer ==
  [][\A k \in Live : Dropped(k) =>
       LET over == dialog.over
           others == InColumn(card'[k].col) \ {k}
       IN  IF over.kind = "column"
           THEN card'[k].col = over.id /\ \A j \in others : Before(j, k)'
           ELSE /\ card'[k].col = card[over.id].col
                /\ \A j \in others :
                     IF Before(j, over.id) \/ (j = over.id /\ dialog.half = "lower")
                     THEN Before(j, k)'
                     ELSE Before(k, j)' \/ card'[k].pos = card[j].pos]_vars

\* Past the midpoint the line goes after the card (KanbanBoard.tsx:115), and a card
\* that is let go lands where the line is.
DropLandsAtLine ==
  [][\A k \in Live : Dropped(k) /\ view.line # NoLine =>
       /\ card'[k].col = view.line.col
       /\ \A j \in InColumn(card'[k].col) \ {k} :
            IF j = view.line.before THEN Before(k, j)'
            ELSE (view.line.before = NoId => Before(j, k)')]_vars

\* What the confirmation of a deleted column says: it is empty.
OnlyEmptyColumnsGo ==
  [][dialog.kind = "confirm" /\ removeColumnFromStore(dialog.id)
       => InColumn(dialog.id) = {}]_vars

=============================================================================
