----------------------------- MODULE CardDialog -----------------------------
(***************************************************************************)
(* The dialogs of the task board: the card's dialog (CardDetailModal with   *)
(* useCardForm, TagSelector, CardDevFields and the subtask list) and the    *)
(* dialog for a new task (CreateTaskModal), in one tab, while other people  *)
(* edit the same card.  Every control saves by itself: the store is patched *)
(* at once, one PATCH carries the one field, and the handlers write,        *)
(* broadcast and answer (docs/adr/0009).                                    *)
(*                                                                         *)
(* There is one card.  Its fields are the keys of FormState; what is typed  *)
(* is a member of a small set.  Requests of a tab travel side by side and   *)
(* reach the server in any order; broadcasts reach the tab in the order in  *)
(* which they are sent.  A handler writes in one step and broadcasts in a   *)
(* later one.                                                               *)
(***************************************************************************)
EXTENDS Integers, Sequences, FiniteSets, FiniteSetsExt, SequencesExt

CONSTANTS
  Fields,     \* the fields of the card in the instance
  Entries,    \* what can be entered into each of them
  Start,      \* the fields of the card when the page is loaded
  Me,         \* who sits at this tab, a member of the board
  Tags,       \* tags the board can have
  NewTags,    \* those nobody has made yet
  MAX_TAGS,   \* tags on a card
  Subs,       \* ids of subtasks, naturals in the order of their positions
  Titles,     \* titles of subtasks
  Columns,    \* ids of columns, naturals in the order of their positions
  DoneCols,   \* those of category DONE when the page is loaded
  Mine,       \* whether Me may have made the card: a set of Booleans
  Slots,      \* requests that can be open at once
  MaxEdits,   \* bound: inputs of this user and of the others
  MaxFaults   \* bound: requests that fail without the server refusing them

Blank == ""
None == "none"
Nobody == 0
Typed == Fields \cap {"title", "description", "estimated_hours",
                      "acceptance_criteria", "implementation_note"}
DevFields == Fields \cap {"acceptance_criteria", "implementation_note"}
Picked == Fields \cap {"assignee_id", "priority", "due_date"}

ASSUME DialogAssumption ==
  /\ {"title", "assignee_id", "tags"} \subseteq Fields
  /\ Fields = Typed \cup Picked \cup {"tags"}
  /\ Start = [f \in Fields |-> Start[f]] /\ \A f \in Fields : Start[f] \in Entries[f]
  /\ MAX_TAGS \in Nat /\ NewTags \subseteq Tags
  /\ Entries["tags"] = {T \in SUBSET Tags : Cardinality(T) <= MAX_TAGS}
  /\ Start["title"] # Blank
  /\ Subs \subseteq Nat \ {Nobody} /\ Subs # {} /\ Titles # {} /\ Mine \subseteq BOOLEAN
  /\ Columns \subseteq Nat \ {Nobody}
  /\ DoneCols \subseteq Columns /\ Columns \ DoneCols # {}
  /\ Slots \subseteq Nat /\ Me # None /\ MaxEdits \in Nat /\ MaxFaults \in Nat

VARIABLES
  db,       \* the row of the card, its subtasks, and how often each was written
  cols,     \* the category of each column, on the server and in the store
  tags,     \* the tags of the board
  mine,     \* whether Me made the card
  store,    \* the card in the board store
  dialog,   \* the card's dialog
  draft,    \* the dialog for a new task
  undo,     \* deleted subtasks whose toast or timer is running, oldest first
  reqs,     \* open requests
  inbox,    \* broadcasts on their way to this tab
  edits,    \* inputs so far
  faults,   \* failures so far
  word,     \* history: what somebody entered in each field and was last saved, None
            \* when nobody had entered what was saved
  doubt,    \* history: fields the store may show wrongly, and why is in README
  listDoubt,\* history: the same for the subtask list
  heard,    \* history: the newest row and list this tab was told of
  decided   \* history: what became of a subtask's deletion

board == <<cols, tags, mine>>
history == <<word, doubt, listDoubt, heard, decided>>
vars == <<db, board, store, dialog, draft, undo, reqs, inbox, edits, faults, history>>

Gone == [gone |-> TRUE]
NoList == [s \in {Nobody} |-> None]
NoDialog == [open |-> FALSE]
NoDraft == [open |-> FALSE]
NoEvent == [kind |-> "none"]
Idle == [pc |-> "idle"]
Open(r) == reqs[r] # Idle
Spend == edits < MaxEdits /\ edits' = edits + 1
Counts(list) == [total |-> Cardinality(DOMAIN list),
                 done |-> Cardinality({s \in DOMAIN list : list[s].done})]
With(list, s, sub) == [t \in DOMAIN list \cup {s} |-> IF t = s THEN sub ELSE list[t]]
Without(list, s) == [t \in DOMAIN list \ {s} |-> list[t]]
First(S) == Min(S)
FirstTitle == CHOOSE t \in Titles : TRUE

Init ==
  /\ db = [fields |-> Start, col |-> First(Columns \ DoneCols), ver |-> 0,
           subs |-> [s \in {First(Subs)} |-> [title |-> FirstTitle, done |-> FALSE]],
           used |-> {First(Subs)}, listVer |-> 0]
  /\ cols = [c \in Columns |-> IF c \in DoneCols THEN "DONE" ELSE "TODO"]
  /\ tags = Tags \ NewTags
  /\ mine \in Mine
  /\ store = [fields |-> Start, col |-> db.col, subs |-> NoList, count |-> Counts(db.subs)]
  /\ dialog = NoDialog /\ draft = NoDraft /\ undo = <<>>
  /\ reqs = [r \in Slots |-> Idle] /\ inbox = <<>>
  /\ edits = 0 /\ faults = 0
  /\ word = Start /\ doubt = {} /\ listDoubt = FALSE /\ heard = [row |-> 0, list |-> 0]
  /\ decided = [s \in Subs |-> None]

-----------------------------------------------------------------------------
(* Requests *)

\* What is asked, by whom, and how far it is.  "made" is the subtask a creation
\* answers with, "event" what is to be broadcast.
Request(ask) ==
  [pc |-> "sent", waits |-> ask.by = Me, ask |-> ask, event |-> NoEvent, made |-> NoEvent]
Send(ask) ==
  LET free == {r \in Slots : ~Open(r)} IN
  /\ free # {}
  /\ reqs' = [reqs EXCEPT ![First(free)] = Request(ask)]
Waiting(r) == Open(r) /\ reqs[r].pc = "sent" /\ reqs[r].waits
Refetch == [op |-> "get", by |-> Me]

\* useCanEdit and canEditCard: whoever made the card or is to do it; Me is no
\* manager.
CanEdit(fields) == mine \/ fields["assignee_id"] = Me

-----------------------------------------------------------------------------
(* useBoardStore *)

setSubtasksToCard(list) ==
  IF store = Gone THEN store ELSE [store EXCEPT !.subs = list, !.count = Counts(list)]

HasSub(s) == store # Gone /\ store.subs # NoList /\ s \in DOMAIN store.subs
Mark(b) == IF b THEN 1 ELSE 0
\* Fault: the count moves with every toggle, also of a subtask that has the state.
updateSubtaskBlind(s, sub) ==
  IF ~HasSub(s) THEN store
  ELSE [store EXCEPT !.subs[s] = sub,
                     !.count.done = @ + IF sub.done THEN 1 ELSE -1]
updateSubtaskInCard(s, sub) ==
  IF ~HasSub(s) THEN store
  ELSE [store EXCEPT !.subs[s] = sub,
                     !.count.done = @ + Mark(sub.done) - Mark(store.subs[s].done)]

deleteSubtaskFromCard(s) ==
  [store EXCEPT !.subs = Without(store.subs, s),
                !.count.total = @ - 1,
                !.count.done = @ - Mark(store.subs[s].done)]

\* Names are resolved where they are shown; a broadcast of the card carries no
\* subtasks, and a card that is not in the store stays away.
updateCard(fields) == IF store = Gone THEN store ELSE [store EXCEPT !.fields = fields]

-----------------------------------------------------------------------------
(* useCardForm, cardPatch, handleUpdateCard: one field is saved *)

\* What the field holds once saved: no hours is no estimate.
Stored(f, v) == IF f = "estimated_hours" /\ v = "0" THEN Blank ELSE v

\* Fault: the whole form is sent.
buildWholeForm(form, field) == [f \in Fields |-> Stored(f, form[f])]
buildCardFieldUpdate(form, field) == [f \in {field} |-> Stored(f, form[f])]

\* "meant" is history: this user changed the field since it was last saved.
SaveOf(form, field, meant) ==
  [op |-> "save", by |-> Me, field |-> field, meant |-> meant,
   body |-> buildCardFieldUpdate(form, field)]

\* Fault: the store takes the whole form.
PatchedByForm(form, field) == [f \in Fields |-> Stored(f, form[f])]
\* The store's copy with the one field: other fields may be newer than the form.
Patched(form, field) == [store.fields EXCEPT ![field] = Stored(field, form[field])]

handleUpdateCard(form, field, meant) ==
  /\ store' = IF store = Gone THEN store ELSE updateCard(Patched(form, field))
  /\ Send(SaveOf(form, field, meant))

\* The form starts as the card and does not follow broadcasts.
buildInitialForm == store.fields
updateForm(d, f, v) ==
  [d EXCEPT !.form[f] = v, !.touched = IF v = d.form[f] THEN @ ELSE @ \cup {f}]

fieldEqual(f, a, b) == a[f] = b[f]

\* An empty title goes back to the card's of now, which need not be what was last
\* saved; a field that is as it was last saved is not saved again.  "touched" and
\* "failed" are history: what this user changed
\* since the last save, and what failed and was not left again since.
commitField(d, f) ==
  \/ /\ f = "title" /\ d.form[f] = Blank
     /\ dialog' = [d EXCEPT !.form[f] = store.fields[f], !.touched = @ \ {f}]
     /\ UNCHANGED <<store, reqs>>
  \/ /\ ~(f = "title" /\ d.form[f] = Blank)
     /\ fieldEqual(f, d.form, d.committed)
     /\ dialog' = [d EXCEPT !.failed = @ \ {f}]
     /\ UNCHANGED <<store, reqs>>
  \/ /\ ~(f = "title" /\ d.form[f] = Blank)
     /\ ~fieldEqual(f, d.form, d.committed)
     /\ dialog' = [d EXCEPT !.committed[f] = d.form[f],
                            !.touched = @ \ {f}, !.failed = @ \ {f}]
     /\ handleUpdateCard(d.form, f, f \in d.touched)

-----------------------------------------------------------------------------
(* CardDetailModal *)

\* TaskCard owns the dialog, so it goes when the card leaves its column, and a
\* text that is being typed goes with it.  A tag being created outlives it.
Unmount == dialog' = NoDialog

fetchSubtasks == Send(Refetch)

\* Fields that are filled in start open, the others behind a button.
OpenDialog ==
  /\ ~dialog.open /\ ~draft.open /\ store # Gone
  /\ dialog' = [open |-> TRUE, form |-> buildInitialForm, committed |-> buildInitialForm,
                touched |-> {}, focus |-> None, editing |-> Nobody,
                text |-> Blank, known |-> tags, creating |-> FALSE, failed |-> {},
                dev |-> {f \in DevFields : store.fields[f] # Blank}]
  /\ fetchSubtasks
  /\ UNCHANGED <<db, board, store, draft, undo, inbox, edits, faults, history>>

\* A click elsewhere leaves the field in focus before anything else happens.
Ready == dialog.open /\ dialog.focus = None /\ dialog.editing = Nobody

CloseDialog ==
  /\ Ready
  /\ Unmount
  /\ UNCHANGED <<db, board, store, draft, undo, reqs, inbox, edits, faults, history>>

\* useEscapeKey listens on the window: what is being typed is not saved.
Escape ==
  /\ dialog.open /\ ~Ready
  /\ Unmount
  /\ UNCHANGED <<db, board, store, draft, undo, reqs, inbox, edits, faults, history>>

\* Fields that are typed into: CardModalHeader, CardDescriptionField, the hours
\* of CardFormFields and CardDevFields.
Type(f, v) ==
  /\ Ready \/ (dialog.open /\ dialog.focus = f)
  /\ CanEdit(store.fields)
  /\ f \in DevFields => f \in dialog.dev
  /\ v # dialog.form[f]
  /\ Spend
  /\ dialog' = [updateForm(dialog, f, v) EXCEPT !.focus = f]
  /\ UNCHANGED <<db, board, store, draft, undo, reqs, inbox, faults, history>>

\* A field can also be left as it was found.
Blur(f) ==
  /\ dialog.open /\ dialog.editing = Nobody /\ dialog.focus \in {None, f}
  /\ CanEdit(store.fields)
  /\ f \in DevFields => f \in dialog.dev
  /\ commitField([dialog EXCEPT !.focus = None], f)
  /\ UNCHANGED <<db, board, draft, undo, inbox, edits, faults, history>>

\* AssigneeDropdown, the priority buttons, the date and the quick chips change
\* a field and save it; a priority can only be exchanged for another.
AssigneeDropdown == Entries["assignee_id"]
OffersValue(f) ==
  IF f = "assignee_id" THEN AssigneeDropdown
  ELSE IF f = "priority" THEN Entries[f] \ {Blank} ELSE Entries[f]
PickValue(f, v) ==
  /\ Ready /\ CanEdit(store.fields) /\ v \in OffersValue(f)
  /\ Spend
  /\ commitField(updateForm(dialog, f, v), f)
  /\ UNCHANGED <<db, board, draft, undo, inbox, faults, history>>

\* CardDevFields: a button opens the field, another clears and closes it.
ShowDev(f) ==
  /\ Ready /\ CanEdit(store.fields) /\ f \notin dialog.dev
  /\ dialog' = [dialog EXCEPT !.dev = @ \cup {f}]
  /\ UNCHANGED <<db, board, store, draft, undo, reqs, inbox, edits, faults, history>>

RemoveDev(f) ==
  /\ Ready /\ CanEdit(store.fields) /\ f \in dialog.dev
  /\ Spend
  /\ commitField([updateForm(dialog, f, Blank) EXCEPT !.dev = @ \ {f}], f)
  /\ UNCHANGED <<db, board, draft, undo, inbox, faults, history>>

-----------------------------------------------------------------------------
(* TagSelector *)

OffersTags == dialog.known \ dialog.form["tags"]

SetTags(d, chosen) == commitField(updateForm(d, "tags", chosen), "tags")

handleSelect(t) ==
  /\ Ready /\ CanEdit(store.fields) /\ t \in OffersTags
  /\ Cardinality(dialog.form["tags"]) < MAX_TAGS
  /\ Spend
  /\ SetTags(dialog, dialog.form["tags"] \cup {t})
  /\ UNCHANGED <<db, board, draft, undo, inbox, faults, history>>

handleRemove(t) ==
  /\ Ready /\ CanEdit(store.fields) /\ t \in dialog.form["tags"]
  /\ Spend
  /\ SetTags(dialog, dialog.form["tags"] \ {t})
  /\ UNCHANGED <<db, board, draft, undo, inbox, faults, history>>

\* The tags chosen when the request is made are the ones the new tag is added
\* to when it is answered.  One tag is made at a time.
handleCreate(t) ==
  /\ Ready /\ CanEdit(store.fields) /\ t \in NewTags \ tags
  /\ Cardinality(dialog.form["tags"]) < MAX_TAGS
  /\ \A r \in Slots : Open(r) => reqs[r].ask.op # "tag"
  /\ Spend
  /\ Send([op |-> "tag", by |-> Me, tag |-> t, form |-> dialog.form])
  /\ dialog' = [dialog EXCEPT !.creating = TRUE]
  /\ UNCHANGED <<db, board, store, draft, undo, inbox, faults, history>>

-----------------------------------------------------------------------------
(* CardSubtaskSection, SubtaskItem, useSubtaskActions *)

Listed == IF store = Gone \/ store.subs = NoList THEN {} ELSE DOMAIN store.subs
SubtaskProgress == [total |-> Cardinality(Listed),
                    done |-> Cardinality({s \in Listed : store.subs[s].done})]

handleAddSubtask(title) ==
  /\ Ready /\ CanEdit(store.fields)
  /\ Spend
  /\ Send([op |-> "add", by |-> Me, title |-> title])
  /\ UNCHANGED <<db, board, store, dialog, draft, undo, inbox, faults, history>>

Toggling(s) ==
  \E r \in Slots : Waiting(r) /\ reqs[r].ask.op = "toggle" /\ reqs[r].ask.sub = s

\* "since" and "unsure" are history: what the tab had heard of the list, and
\* whether the box may have shown something else than the server has.
handleToggleSubtask(s) ==
  /\ Ready /\ CanEdit(store.fields) /\ s \in Listed
  /\ Spend
  /\ LET sub == store.subs[s] IN
     /\ store' = updateSubtaskInCard(s, [sub EXCEPT !.done = ~@])
     /\ Send([op |-> "toggle", by |-> Me, sub |-> s, done |-> ~sub.done,
              since |-> heard.list,
              unsure |-> listDoubt \/ Toggling(s)])
  /\ UNCHANGED <<db, board, dialog, draft, undo, inbox, faults, history>>

\* startEdit and the input: the title is the one the item has then.
startEdit(s, title) ==
  /\ Ready /\ CanEdit(store.fields) /\ s \in Listed
  /\ Spend
  /\ dialog' = [dialog EXCEPT !.editing = s, !.text = title]
  /\ UNCHANGED <<db, board, store, draft, undo, reqs, inbox, faults, history>>

\* handleSave, when the input is left or Enter is pressed; an item that went
\* away took its input along.
handleUpdateSubtaskTitle ==
  /\ dialog.open /\ dialog.editing # Nobody
  /\ dialog' = [dialog EXCEPT !.editing = Nobody, !.text = Blank]
  /\ LET s == dialog.editing IN
     IF s \in Listed /\ dialog.text \notin {Blank, store.subs[s].title}
     THEN /\ store' = updateSubtaskInCard(s, [store.subs[s] EXCEPT !.title = dialog.text])
          /\ Send([op |-> "rename", by |-> Me, sub |-> s, title |-> dialog.text])
     ELSE UNCHANGED <<store, reqs>>
  /\ UNCHANGED <<db, board, draft, undo, inbox, edits, faults, history>>

handleDeleteSubtask(s) ==
  /\ Ready /\ CanEdit(store.fields) /\ s \in Listed
  /\ Spend
  /\ store' = deleteSubtaskFromCard(s)
  /\ undo' = Append(undo, [sub |-> s, toast |-> TRUE])
  /\ decided' = [decided EXCEPT ![s] = IF @ = None THEN "deleted" ELSE "again"]
  /\ UNCHANGED <<db, board, dialog, draft, reqs, inbox, faults, word, doubt, listDoubt,
                 heard>>

\* Fault: Undo shows the subtask again, but its timer goes on.
TimerGoesOn(i) == undo' = [undo EXCEPT ![i].toast = FALSE]
StopTimer(i) == undo' = RemoveAt(undo, i)
Undo(i) ==
  /\ undo[i].toast
  /\ StopTimer(i)
  /\ fetchSubtasks
  /\ decided' = [decided EXCEPT ![undo[i].sub] = IF @ = "deleted" THEN "undone" ELSE @]
  /\ UNCHANGED <<db, board, store, dialog, draft, inbox, edits, faults, word, doubt,
                 listDoubt, heard>>

DismissToast(i) ==
  /\ undo[i].toast
  /\ undo' = [undo EXCEPT ![i].toast = FALSE]
  /\ UNCHANGED <<db, board, store, dialog, draft, reqs, inbox, edits, faults, history>>

\* Five seconds: the toast goes, then the request is sent.
DeleteTimer ==
  /\ undo # <<>>
  /\ undo' = Tail(undo)
  /\ Send([op |-> "drop", by |-> Me, sub |-> Head(undo).sub])
  /\ UNCHANGED <<db, board, store, dialog, draft, inbox, edits, faults, history>>

-----------------------------------------------------------------------------
(* The card's column and the card itself *)

\* Every column is listed, those to do first; the card's own changes nothing.
StatusDropdown == IF CanEdit(store.fields) THEN DOMAIN cols \ {store.col} ELSE {}

handleChangeColumn(to) ==
  /\ Ready /\ to \in StatusDropdown
  /\ Spend
  /\ store' = [store EXCEPT !.col = to]
  /\ Unmount
  /\ Send([op |-> "move", by |-> Me, to |-> to, snapshot |-> store])
  /\ UNCHANGED <<db, board, draft, undo, inbox, faults, history>>

\* CardModalFooter, confirmed.
handleDeleteCard ==
  /\ Ready /\ mine
  /\ Spend
  /\ store' = Gone
  /\ Unmount
  /\ Send([op |-> "delete", by |-> Me, snapshot |-> store])
  /\ UNCHANGED <<db, board, draft, undo, inbox, faults, history>>

-----------------------------------------------------------------------------
(* CreateTaskModal, opened by a TODO column *)

TodoColumns == {c \in DOMAIN cols : cols[c] # "DONE"}
\* A select shows its first option when its value is not among them.
ShownColumn ==
  IF draft.col \in TodoColumns THEN draft.col ELSE First(TodoColumns)

DefaultColumn(home) == home

\* Of the form: the column, whether there is a title, and whether any other part
\* was touched (the assignee, at first the creator; priority, date, description
\* and rows of subtasks, of which empty ones are not sent).
OpenDraft(home) ==
  /\ ~dialog.open /\ ~draft.open /\ home \in TodoColumns
  /\ Spend
  /\ draft' = [open |-> TRUE, home |-> home, col |-> DefaultColumn(home),
               titled |-> FALSE, rest |-> FALSE]
  /\ UNCHANGED <<db, board, store, dialog, undo, reqs, inbox, faults, history>>

\* The title, the description, the rows.
TypeDraft ==
  /\ draft.open /\ Spend
  /\ \/ draft' = [draft EXCEPT !.titled = ~@]
     \/ draft' = [draft EXCEPT !.rest = TRUE]
  /\ UNCHANGED <<db, board, store, dialog, undo, reqs, inbox, faults, history>>

\* The column; the assignee, the date, the priority.
PickDraft ==
  /\ draft.open /\ Spend
  /\ \/ \E c \in TodoColumns : draft' = [draft EXCEPT !.col = c]
     \/ draft' = [draft EXCEPT !.rest = TRUE]
  /\ UNCHANGED <<db, board, store, dialog, undo, reqs, inbox, faults, history>>

\* The dialog closes at once; a request that fails takes the text along.  "shown"
\* is history.
handleAddCard ==
  /\ draft.open /\ draft.titled
  /\ Send([op |-> "create", by |-> Me, col |-> draft.col, rest |-> draft.rest,
           shown |-> ShownColumn])
  /\ draft' = NoDraft
  /\ UNCHANGED <<db, board, store, dialog, undo, inbox, edits, faults, history>>

CloseDraft ==
  /\ draft.open /\ draft' = NoDraft
  /\ UNCHANGED <<db, board, store, dialog, undo, reqs, inbox, edits, faults, history>>

-----------------------------------------------------------------------------
(* The server, for this tab's requests and for those of the others *)

\* What somebody else asks for: a field, a subtask, the column or the card.
Others ==
  /\ Spend /\ db # Gone
  /\ \/ \E f \in Fields : \E v \in Entries[f] \ {db.fields[f]} :
          /\ f = "title" => v # Blank
          /\ Send([op |-> "save", by |-> None, field |-> f, meant |-> TRUE,
                   body |-> buildCardFieldUpdate([Start EXCEPT ![f] = v], f)])
     \/ Send([op |-> "add", by |-> None, title |-> FirstTitle])
     \/ \E s \in DOMAIN db.subs :
          \/ Send([op |-> "toggle", by |-> None, sub |-> s,
                   done |-> ~db.subs[s].done, since |-> 0, unsure |-> FALSE])
          \/ Send([op |-> "drop", by |-> None, sub |-> s])
     \/ \E c \in DOMAIN cols \ {db.col} :
          Send([op |-> "move", by |-> None, to |-> c, snapshot |-> Gone])
     \/ Send([op |-> "delete", by |-> None, snapshot |-> Gone])
  /\ UNCHANGED <<db, board, store, dialog, draft, undo, inbox, faults, history>>

\* Unknown card, unknown subtask, unknown column, or not allowed: any member may
\* look and move.
Refused(q) ==
  IF q.op = "create" THEN q.col \notin DOMAIN cols
  ELSE IF q.op = "tag" THEN FALSE
  ELSE IF db = Gone THEN TRUE
  ELSE \/ q.op \notin {"get", "move"} /\ q.by = Me /\ ~CanEdit(db.fields)
       \/ q.op \in {"toggle", "rename", "drop"} /\ q.sub \notin DOMAIN db.subs
       \/ q.op = "move" /\ q.to \notin DOMAIN cols
       \/ q.op = "add" /\ db.used = Subs

NextSub == First(Subs \ db.used)

\* The row and its subtasks after a request that is allowed.
Rewritten(q) ==
  CASE q.op = "save" ->
         [db EXCEPT !.fields = [f \in Fields |-> IF f \in DOMAIN q.body THEN q.body[f]
                                                 ELSE @[f]],
                    !.ver = @ + 1]
    [] q.op = "move" -> [db EXCEPT !.col = q.to]
    [] q.op = "delete" -> Gone
    [] q.op = "add" ->
         [db EXCEPT !.subs = With(@, NextSub, [title |-> q.title, done |-> FALSE]),
                    !.used = @ \cup {NextSub}, !.listVer = @ + 1]
    [] q.op = "toggle" -> [db EXCEPT !.subs[q.sub].done = q.done, !.listVer = @ + 1]
    [] q.op = "rename" -> [db EXCEPT !.subs[q.sub].title = q.title, !.listVer = @ + 1]
    [] q.op = "drop" ->
         [db EXCEPT !.subs = Without(@, q.sub), !.listVer = @ + 1]
    [] OTHER -> db

ListEvent(row) == [kind |-> "subtasks", list |-> row.subs, listVer |-> row.listVer]
Event(q, row) ==
  CASE q.op = "save" -> [kind |-> "card", fields |-> row.fields, ver |-> row.ver]
    [] q.op = "move" -> [kind |-> "moved", to |-> row.col]
    [] q.op = "delete" -> [kind |-> "deleted"]
    [] OTHER -> ListEvent(row)
Made(q, row) ==
  IF q.op = "add" THEN [kind |-> "made", sub |-> NextSub, row |-> row.subs[NextSub],
                        listVer |-> row.listVer]
  ELSE NoEvent

\* Creating a task or a tag has no part in this card.
Write(r) ==
  /\ Open(r) /\ reqs[r].pc = "sent"
  /\ LET q == reqs[r].ask row == Rewritten(q) IN
     /\ ~Refused(q)
     /\ db' = row
     /\ tags' = IF q.op = "tag" THEN tags \cup {q.tag} ELSE tags
     /\ reqs' = [reqs EXCEPT ![r] =
          IF q.op = "create" THEN Idle
          ELSE IF q.op = "tag" THEN [@ EXCEPT !.pc = "answered"]
          ELSE IF q.op = "get" THEN [@ EXCEPT !.pc = "answered", !.event = ListEvent(row)]
          ELSE [@ EXCEPT !.pc = "written", !.event = Event(q, row), !.made = Made(q, row)]]
     /\ word' = IF q.op # "save" THEN word
                ELSE [word EXCEPT ![q.field] = IF q.meant THEN q.body[q.field] ELSE None]
     /\ decided' = IF q.op = "drop" /\ q.by = None
                   THEN [decided EXCEPT ![q.sub] = "others"] ELSE decided
  /\ UNCHANGED <<cols, mine, store, dialog, draft, undo, inbox, edits, faults, doubt,
                 listDoubt, heard>>

\* broadcastSubtasks reads the list some time after the write.
ReadSubtasks(r) ==
  /\ Open(r) /\ reqs[r].pc = "written" /\ reqs[r].event.kind = "subtasks" /\ db # Gone
  /\ reqs' = [reqs EXCEPT ![r].event = ListEvent(db)]
  /\ UNCHANGED <<db, board, store, dialog, draft, undo, inbox, edits, faults, history>>

\* The handler broadcasts, then answers; others have no use for the answer.
Emit(r) ==
  /\ Open(r) /\ reqs[r].pc = "written"
  /\ inbox' = Append(inbox, reqs[r].event)
  /\ reqs' = [reqs EXCEPT ![r] = IF ~@.waits \/ @.ask.op # "add" THEN Idle
                                 ELSE [@ EXCEPT !.pc = "answered"]]
  /\ UNCHANGED <<db, board, store, dialog, draft, undo, edits, faults, history>>

\* Somebody adds, empties or re-categorises a column.  A column that changes
\* lists is mounted anew, and its dialogs with it.
ChangeColumn(c) ==
  /\ Spend /\ c \in DOMAIN cols
  /\ \/ cols' = [cols EXCEPT ![c] = IF @ = "DONE" THEN "TODO" ELSE "DONE"]
     \/ db # Gone /\ c # db.col /\ (store # Gone => store.col # c)
        /\ cols' = [d \in DOMAIN cols \ {c} |-> cols[d]]
  /\ \E d \in DOMAIN cols' : cols'[d] = "TODO"
  /\ draft' = IF draft.open /\ draft.home = c THEN NoDraft ELSE draft
  /\ dialog' = IF dialog.open /\ store.col = c THEN NoDialog ELSE dialog
  /\ UNCHANGED <<db, tags, mine, store, undo, reqs, inbox, faults, history>>

-----------------------------------------------------------------------------
(* Answers and broadcasts arrive *)

\* A list older than one that was shown before takes its place.
ShowList(list, ver) ==
  /\ store' = setSubtasksToCard(list)
  /\ heard' = [heard EXCEPT !.list = Max({ver, @})]
  /\ listDoubt' = IF store = Gone THEN listDoubt ELSE ver < heard.list
  /\ dialog' = IF dialog.open /\ dialog.editing \notin DOMAIN list
               THEN [dialog EXCEPT !.editing = Nobody, !.text = Blank] ELSE dialog

\* The subtask is appended to the list of now, unless a broadcast brought it.
AppendAnswer(made) ==
  LET list == IF store = Gone \/ store.subs = NoList THEN [s \in {} |-> None]
              ELSE store.subs
      new == store # Gone /\ made.sub \notin DOMAIN list
  IN  /\ store' = IF new THEN setSubtasksToCard(With(list, made.sub, made.row)) ELSE store
      /\ listDoubt' = (listDoubt \/ (new /\ made.listVer <= heard.list))
      /\ UNCHANGED <<dialog, heard>>

Answered(r) ==
  /\ Open(r) /\ reqs[r].pc = "answered" /\ reqs[r].waits
  /\ \/ reqs[r].ask.op = "get" /\ ShowList(reqs[r].event.list, reqs[r].event.listVer)
     \/ reqs[r].ask.op = "add" /\ AppendAnswer(reqs[r].made)
  /\ reqs' = [reqs EXCEPT ![r] = Idle]
  /\ UNCHANGED <<db, board, draft, undo, inbox, edits, faults, word, doubt, decided>>

\* The tag joins the tags that were chosen when it was asked for, and they are
\* saved, also when that dialog has gone.
TagMade(r) ==
  /\ Open(r) /\ reqs[r].pc = "answered" /\ reqs[r].ask.op = "tag" /\ reqs[r].waits
  /\ LET q == reqs[r].ask
         form == [q.form EXCEPT !["tags"] = @ \cup {q.tag}]
     IN /\ reqs' = [reqs EXCEPT ![r] = Request(SaveOf(form, "tags", TRUE))]
        /\ store' = IF store = Gone THEN store ELSE updateCard(Patched(form, "tags"))
        /\ dialog' = IF dialog.open /\ dialog.creating
                     THEN [dialog EXCEPT !.form["tags"] = form["tags"],
                                         !.committed["tags"] = form["tags"],
                                         !.known = @ \cup {q.tag}, !.creating = FALSE,
                                         !.failed = @ \ {"tags"}]
                     ELSE dialog
  /\ UNCHANGED <<db, board, draft, undo, inbox, edits, faults, history>>

\* The others need no answer, nor does a tab that gave up.
Forget(r) ==
  /\ Open(r) /\ ~reqs[r].waits
  /\ \/ reqs[r].pc = "answered"
     \/ reqs[r].pc = "sent" /\ Refused(reqs[r].ask)
  /\ reqs' = [reqs EXCEPT ![r] = Idle]
  /\ UNCHANGED <<db, board, store, dialog, draft, undo, inbox, edits, faults, history>>

\* Fault: a deletion that failed is not looked up again.
LooksUpRename(q) == q.op = "rename"
\* What fetches the list again when it fails.
LooksUp(q) == q.op \in {"rename", "drop"}

\* A toggle is taken back, a move or a deletion of the card puts the snapshot
\* back; a save stays in the store, with a toast that asks to try again.
revert(q) ==
  /\ store' = CASE q.op = "toggle" /\ HasSub(q.sub) ->
                     updateSubtaskInCard(q.sub, [store.subs[q.sub] EXCEPT !.done = ~q.done])
                [] q.op \in {"move", "delete"} -> q.snapshot
                [] OTHER -> store
  /\ dialog' = IF ~dialog.open THEN dialog
               ELSE IF q.op \in {"move", "delete"} /\ store.col # q.snapshot.col THEN NoDialog
               ELSE IF q.op = "save" THEN [dialog EXCEPT !.failed = @ \cup {q.field}]
               ELSE IF q.op = "tag" THEN [dialog EXCEPT !.creating = FALSE] ELSE dialog
  /\ doubt' = CASE q.op = "save" -> doubt \cup {q.field}
                [] q.op \in {"move", "delete"} ->
                     {f \in Fields : f \in doubt \/ store = Gone
                                     \/ store.fields[f] # q.snapshot.fields[f]}
                [] OTHER -> doubt
  /\ listDoubt' = \/ listDoubt
                  \/ q.op = "get"
                  \/ q.op = "toggle" /\ (q.unsure \/ heard.list # q.since)
                  \/ q.op \in {"move", "delete"}
                     /\ (store = Gone \/ store.subs # q.snapshot.subs)

Fail(r) ==
  /\ Waiting(r)
  /\ IF Refused(reqs[r].ask) THEN UNCHANGED faults
     ELSE faults < MaxFaults /\ faults' = faults + 1
  /\ revert(reqs[r].ask)
  /\ reqs' = [reqs EXCEPT ![r] = IF LooksUp(@.ask) THEN Request(Refetch) ELSE Idle]
  /\ UNCHANGED <<db, board, draft, undo, inbox, edits, word, heard, decided>>

\* The connection breaks while the server goes on.
Cut(r) ==
  /\ Waiting(r) /\ reqs[r].ask.op # "get"
  /\ faults < MaxFaults /\ faults' = faults + 1
  /\ revert(reqs[r].ask)
  /\ LET gone == [reqs EXCEPT ![r].waits = FALSE]
         free == {x \in Slots : ~Open(x)}
     IN  IF LooksUp(reqs[r].ask)
         THEN /\ free # {}
              /\ reqs' = [gone EXCEPT ![First(free)] = Request(Refetch)]
         ELSE reqs' = gone
  /\ UNCHANGED <<db, board, draft, undo, inbox, edits, word, heard, decided>>

applyWsMessage ==
  /\ inbox # <<>> /\ inbox' = Tail(inbox)
  /\ LET e == Head(inbox) IN
     CASE e.kind = "card" ->
            /\ store' = updateCard(e.fields)
            /\ doubt' = IF store = Gone THEN doubt
                        ELSE IF e.ver < heard.row THEN Fields ELSE {}
            /\ heard' = [heard EXCEPT !.row = Max({e.ver, @})]
            /\ UNCHANGED <<dialog, listDoubt>>
       [] e.kind = "moved" ->
            /\ store' = IF store = Gone THEN store ELSE [store EXCEPT !.col = e.to]
            /\ dialog' = IF dialog.open /\ store.col # e.to THEN NoDialog ELSE dialog
            /\ UNCHANGED <<doubt, listDoubt, heard>>
       [] e.kind = "deleted" ->
            /\ store' = Gone /\ Unmount /\ UNCHANGED <<doubt, listDoubt, heard>>
       [] OTHER -> ShowList(e.list, e.listVer) /\ UNCHANGED doubt
  /\ UNCHANGED <<db, board, draft, undo, reqs, edits, faults, word, decided>>

-----------------------------------------------------------------------------

UserNext ==
  \/ OpenDialog \/ CloseDialog \/ Escape
  \/ \E f \in Typed : Blur(f) \/ \E v \in Entries[f] : Type(f, v)
  \/ \E f \in Picked : \E v \in Entries[f] : PickValue(f, v)
  \/ \E f \in DevFields : ShowDev(f) \/ RemoveDev(f)
  \/ \E t \in Tags : handleSelect(t) \/ handleRemove(t) \/ handleCreate(t)
  \/ \E t \in Titles : handleAddSubtask(t)
  \/ \E s \in Subs : \/ handleToggleSubtask(s) \/ handleDeleteSubtask(s)
                     \/ \E t \in Titles \cup {Blank} : startEdit(s, t)
  \/ handleUpdateSubtaskTitle
  \/ \E i \in DOMAIN undo : Undo(i) \/ DismissToast(i)
  \/ \E c \in Columns : handleChangeColumn(c) \/ OpenDraft(c)
  \/ handleDeleteCard
  \/ TypeDraft \/ PickDraft \/ handleAddCard \/ CloseDraft

Next ==
  \/ UserNext \/ DeleteTimer \/ applyWsMessage
  \/ \E r \in Slots : \/ Write(r) \/ ReadSubtasks(r) \/ Emit(r)
                      \/ Answered(r) \/ TagMade(r) \/ Forget(r) \/ Fail(r) \/ Cut(r)
  \/ Others \/ \E c \in Columns : ChangeColumn(c)

Spec == Init /\ [][Next]_vars

-----------------------------------------------------------------------------
(* Properties *)

\* docs/adr/0009: a card's row holds, field by field, what somebody last entered
\* there.  A dialog that has been open for a while writes no field its user did
\* not change, but for a title that was emptied and went back to the card's.
EditsSurvive ==
  db # Gone =>
    \A f \in Fields : word[f] = db.fields[f] \/ (f = "title" /\ word[f] = None)

\* The same without the exception.
OnlyEntriesAreSaved == db # Gone => db.fields = word

Quiet == inbox = <<>> /\ \A r \in Slots : ~Open(r)

\* With nothing under way the store shows the row, but for fields whose save
\* failed and fields an overtaken broadcast or a snapshot set back.
QuietCardShowsTheRow ==
  Quiet /\ db # Gone /\ store # Gone
    => \A f \in Fields \ doubt : store.fields[f] = db.fields[f]

\* What the card shows on the board, of what this module is about.
TaskCard ==
  [bar |-> store.count, tags |-> Cardinality(store.fields["tags"]),
   who |-> store.fields["assignee_id"]]

\* The progress on the card and in its dialog are counted in two ways, along
\* every toggle, deletion, undo, answer and broadcast: they agree.
ProgressAgrees ==
  store # Gone /\ store.subs # NoList => TaskCard.bar = SubtaskProgress

\* wsDispatch: a list is safe to apply over an edit of one's own.  With nothing
\* under way the list is the server's, unless an older list was applied after a
\* newer one or a failed request could not be repaired.
QuietListShowsTheSubtasks ==
  Quiet /\ undo = <<>> /\ db # Gone /\ store # Gone /\ ~listDoubt
    => store.subs \in {NoList, db.subs}

\* A subtask whose one deletion was undone in time stays, however timers, toasts
\* and lists interleave, as long as nobody else deletes it.
UndoneDeletionsStay ==
  db # Gone => \A s \in Subs : decided[s] = "undone" => s \in DOMAIN db.subs

\* The column a new task is sent to is the one its dialog shows as chosen.
TaskGoesWhereShown ==
  \A r \in Slots : Open(r) /\ reqs[r].ask.op = "create" => reqs[r].ask.col = reqs[r].ask.shown

\* The toast of a failed save says "try again" (useCardActions.ts:129): leaving the
\* field again, while the row has another value, sends it.
TryingAgainSaves ==
  [][\A f \in Typed :
       Blur(f) /\ f \in dialog.failed /\ dialog.form[f] \notin {Blank, db.fields[f]}
         => \E r \in Slots : reqs'[r] # reqs[r] /\ reqs'[r].ask.op = "save"]_vars
=============================================================================
