# Turtask: verification project

TLA+ models of the Turtask board application (Go API and WebSocket hub in
`src/backend`, Next.js pages in `src/frontend`), the TLC runs that check them
and the TLAPS proofs about them. Paths below are relative to the repository
root, without the leading `src/`.

- `tlc -workers 2 -config <run>.cfg <module>.tla` repeats a run,
- `tlapm <module>_proofs.tla` repeats the proofs of a module.

## 1. The system

One Go process serves a REST API over PostgreSQL and keeps, per board, a room
of WebSocket connections. Every change is an HTTP request: gate, a few database
round trips, a broadcast to the room, the answer. Pages change their own store
first (optimistic update), send the request, put a snapshot back on an error,
and apply the broadcasts of the others and of themselves. There is one process
and no shared cache; PostgreSQL runs at READ COMMITTED, so everything that is
not in one statement, or under one row lock, interleaves.

| Component | State | Operations | Talks to | What is hard | What makes it correct |
|---|---|---|---|---|---|
| Members and roles (`service/member_service.go`, `handler/member_handler.go`, `middleware/board_access.go`) | `board_members.role`, `boards.deleted_at` | add, accept, change role, remove, leave, transfer, stash, restore, delete for good | the room: member list and eviction | role read at the gate, again in the handler, again in the service, then an unconditional write; transfer locks two rows | one owner; ownership moves only by transfer; deleted boards have no members; no deadlock |
| Hub (`websocket/hub.go`, `client.go`) | rooms, one bounded `send` channel per client, four hub channels | register, unregister, broadcast, evict, stop; two pumps per client | all handlers; browsers | two sides may close a channel; slow clients; callers after the stop | no send to or close of a closed channel; no gaps; calls return |
| Room and members together (`cmd/api/routes.go`, `websocket/client.go`, `handler/member_handler.go`) | who is connected against who is a member | handshake, registration, member list, eviction | both of the above | membership is only checked at the handshake | removed users leave the room |
| Refresh tokens (`service/refresh_token_service.go`, `handler/auth_handler.go`, `lib/apiClient.ts`) | `refresh_tokens` rows, one cookie per browser | login, refresh, logout, burn of a user's tokens | browsers with several tabs | tabs share the cookie, answers are lost, a replay must be told from a race | single use; a replay burns all; a race burns nothing |
| Invite links (`service/invite_service.go`) | `board_invites` rows | open, regenerate, close, accept | members | revoke and create are two statements of one transaction | replaced links are dead; one join is reported once |
| Cards (`handler/card_command_handler.go`, `service/board_command_service.go`, `store/useBoardStore.tsx`, `lib/wsDispatch.ts`) | `cards` rows; in each page the lists, the card objects and snapshots of them | move, create, delete, done, complete | hub; all pages | write and broadcast are two steps; snapshots are older than broadcasts; reconnects do not read again | quiet pages show the table, and agree |
| Board pages: overview, Kanban, calendar (`hooks/useDashboardStats.ts`, `hooks/useBoardOwnership.ts`, `components/board/...`) | the store and its filters; what a component remembers: tab, month, drag, a day taken once | open a page, filter, drag, options of a column, month | the store, which broadcasts change at any time | one store, derived in many places, each with tests of its own for done, due and filtered; midnight and columns that go | the pages agree with each other and with the past; a dropped card comes between those it was dropped between |
| Card dialog, fields, tags, subtasks (`hooks/useCardForm.ts`, `hooks/useSubtaskActions.ts`, `service/subtask_service.go`) | `cards`, `card_tags`, `card_subtasks` rows; a form taken when the dialog opens; delayed deletions | one-field PATCHes, tags, append, tick, rename, delete with undo, new task | cards, columns | each control saves by itself; lists are read before they are broadcast | nobody's edit is written back; undone deletions stay; quiet dialogs show the row |
| Columns (`handler/column_command_handler.go`) | `columns` | create, rename, recategorise, delete | cards, pages, planning | deletion cascades to cards; the category decides what is done | as cards; deletion is confirmed for what is deleted (it is not, section 6) |
| Planning sessions (`service/planning_service.go`, `handler/planning_handler.go`, `hooks/useSessionItems.ts`) | `planning_sessions`, `planning_items`; one page's copy of the items | add, edit, retype, drop, delete, promote, send many | cards | promote locks a row, the others read, check and write later; the page is not told of others' work | cards are made of live items only; the page at rest shows the session |
| My Work page (`hooks/useMyWorkActions.ts`, `service/my_work_service.go`) | list and counts of one GET, pending completions, snooze toasts, quick view | complete, undo, snooze, undo, toggle a subtask, leave | cards | timer, undo, leaving and a GET of the whole page race | a completion is sent exactly once unless undone; counts agree with rows |
| Activity log (`service/activity_service.go`, `cmd/api/main.go`) | bounded queue, one worker | record, drain at stop | every handler | full queue; process end against the worker | an audit trail no decision reads: not modelled |
| Demo sandboxes (`service/demo_service.go`) | throw-away users and boards | create in several transactions, purge | everything that still writes | purge against a visitor who is still signed in | not modelled |
| Planning comments, accounts and WebSocket tickets, user settings, read models, middleware, schema and migrations, UI, tools | see `PROJECT.json` | | | single statements, pure request plumbing or view state | not modelled; the reasons are in `PROJECT.json` |

`PROJECT.json` lists the components with their files and status, all hazards
with their lines, and for every definition the lines it models.

## 2. Plan

Most important behaviour first. Done:

1. `BoardMembership`: the authorisation state everything else rests on.
2. `Hub`, with `BoardFeed`, the abstract promise of the hub (a connection
   receives a gapless part of the board's log), which `Hub` implements.
3. `BoardRoom` = `BoardMembership` + the live sockets.
4. `RefreshTokens`: sessions.
5. `Invites`: the link table, with joins abstracted to one user's row.
6. `BoardSync`: the pages and the card handlers, on top of what `Hub` promises.
7. `BoardPages`: what the overview, the Kanban board and the calendar make of
   one store.
8. `CardDialog`: one card's fields, tags and subtasks, and the new-task dialog.
9. `Planning`: the items of a session and the promote.
10. `MyWork`: completions and snoozes of one user.
11. Proofs: membership, hub with its refinement of the feed, room with its
    refinement of the membership, tokens, links, the promote, the pages of
    `BoardSync`, the dialogs of `CardDialog`, the page of `Planning`, `MyWork`,
    what the pages of `BoardPages` show.

What is left, in this order:

12. `BoardSync` with columns that change category or are deleted.
13. `ActivityQueue` (with the shutdown order of `main`), `DemoPurge`,
    `BoardPosition` (positions as bounded midpoints), the row order of a
    session's items.

The modules are written for this: constants carry named assumptions, each
operation or round trip is one action, and recursion, where it comes up in a
module with proofs, is a recursive function or a fold.

## 3. Modules

### BoardMembership

One board. `role[u]` is the row of `board_members` (or "none"), `board` the
row of `boards`. A request is a slot `r` with its program counter `pc[r]` and
what it has read, `req[r]`. Each database round trip is one action:

| Action | Code |
|---|---|
| `Gate` | `RequireBoardRole` / `RequireStashedBoardMember`: reads the caller's role |
| `AuthorizeTarget` | the handler reads the target's role |
| `CheckNotOwner` | the service reads it again |
| `JoinBoardMember`, `RemoveBoardMember`, `UpdateMemberRole` | one statement each, by user id, without a condition on the role |
| `BeginTransfer`, `LockMember`, `CheckTransfer`, `CommitTransfer` | the transaction of `TransferOwnership`: rows locked in id order |
| `StashBoard`, `RestoreBoard`, `HardDeleteBoard` | the board's routes; the delete cascades |
| `Announce`, `EvictMember` | what follows the write: member list, eviction |
| `Abort`, `Crash` | an error, a closed connection, a process stop |

A request that a check refuses becomes an idle slot: it changed nothing.

### Hub and BoardFeed

The goroutine `Run` with its four channels, and the read and write pump of
each connection. All channels but `send` are unbuffered, so an offer is taken
by `Run` or waits: `Register`, `Unregister`, `TakeBroadcast`, `TakeEvict` are
`Run`'s select, `FanOut` visits one client of a broadcast (select with
default: deliver or drop the client), `SeeStop` and `StopClient` are its end.
`TakeMessage`, `WriteMessage`, `SeeClose`, `ReadFails`, `CloseConn`,
`LosePeer` are the pumps and the peer; `GiveUp` is a caller that finds the hub
stopped. `got` is what the browser received, `log` what was broadcast, `since`
and `until` bound a client's stay; they are there for the properties. `BoardFeed` has only a log, the point at which a
connection joined, where it was dropped and what it got. The refinement
mapping is at the end of `Hub`.

### BoardRoom

Extends `BoardMembership` with `Handshake` (the gate of the WebSocket route),
`JoinRoom` (hub registration, a later step), `Disconnect`, and with the tail
of the requests: `ReadMembers`, `SendMembers` or `SkipMembers` (a list that
cannot be read, or of a board that is gone), `Evict`. It uses of the hub that
an eviction closes exactly the sockets that are in the room.

### RefreshTokens

Tokens of one user are numbered; `status`, `replacedBy`, `expired` and `stale`
(the race window of the replacement is over) are the columns, `root` the login
a token descends from (history). A tab presents the
browser's cookie (`Refresh`), locks the row by hash
(`LockRefreshTokenByHash`), and commits a successor (`CommitRotation`), is
told it lost a race, or burns all tokens of the user (`StartBurn`, `BurnRow`,
`CommitBurn`: the UPDATE locks row after row and skips none it found).
`SetRefreshCookie` delivers the answer, `LoseAnswer` loses it. The browser is
whatever sends cookies; "single flight" holds per tab, not per browser.

### Invites

Links are numbered rows: "unused", "pending" in an open transaction, "live",
"revoked" or "failed", and `lapsed` (past `expires_at`). A manager
`m` asks for the link, regenerates or closes it (`step`, with the rows its UPDATE
`found` and is `revoking`); `StartRevoke`,
`RevokeActiveBoardInvites` and `Commit` are the statements of the transaction.
An accept looks the link up (`Lookup`) and then upserts the member
(`JoinBoardMember`), which reports whether it inserted the row.

### BoardSync

Server: the `cards` table as a placement per id (`rows`) and the handlers as
slots: look up (`cardContext`), write (`Write`), re-read if it is a completion
(`GetCard`), broadcast (`emit`), answer. Page: `lists` (which column's list
holds the card) and `card` (the card object). They are two variables because
the code has two things: `moveCard` copies the lists and changes the object in
place, so the object is shared with every snapshot. Requests keep the snapshot
taken before the page's own change; `Fail` and `Cut` put it back. `inbox[t]`
holds broadcasts on the way to a page in the hub's order: that there are no
gaps while it is connected is what `Hub` shows.

Two history variables name the reasons for which a page may show something
else than the table, and the properties promise everything else:

- `raced`: the card was written while another write of it was not announced
  yet. The broadcasts may come in the other order, and then every page shows
  the older write. The next write that is alone ends it, unless it finds no
  row (`Settles`): a page may have heard an addition after the deletion.
- `stale[t]`: page `t` missed a broadcast about the card (dropped socket,
  queue lost with it, a write that was not announced when the server stopped),
  put back a snapshot of it, or of others it heard of in between, or added a
  card from the answer to its creation after the broadcast of its addition
  (while that is still on its way, `Awaited`, what follows it is too). A later
  broadcast about the card clears it if it can make up for the miss: a move
  cannot bring back a card the page does not have.

`move` is a drop or the dialog's column choice, `toggle` the endpoint
`PATCH /cards/{id}/done`, `complete` the completion in My Work, which also
has a handler of its own.

### BoardPages

One tab on a board and the store its pages share: `card`, `cat` (the category
per column), `members`, `filter`. The three pages derive all they show from
it, so the derivations are operators (`DashboardStats`, `TaskRows`,
`MemberOwnershipRow`, `Actual` of the burn-down, `KanbanShows`,
`CalendarShows`, `Grid`), and the state machine is what changes under them: the
store (`StoreChange`, the functions of `useBoardStore` as broadcasts call
them), the filters, midnight, the page that is open, what a component keeps
(`view`, `memo...`: a value computed once and kept), and a drag.
`onDragOver` draws the line where `Indicator` says when the pointer comes over
something else; while it moves on there (`DragAlong`) and when the drag is
cancelled (`DragCancel`) the line stays. `handleDragEnd` computes the new
position apart, from the columns as they are by then (`calcPosition`). Columns
are made (`addColumnToStore`) and deleted here and elsewhere, also during a drag.
`openAt` and `redated` are history: what was open when a day ended, and the
cards whose dates the server wrote anew or never wrote.

Positions are what the server sends: another page drops a card between two
others or at the end (`calcPosition` again), a done flag puts it at 0
(`ToggleCardDone`), and a completion in My Work keeps the number it had
(`MovedElsewhere` has the three). So cards of a column may share a position. The
store pushes a card to the end and sorts with a stable sort: among cards of one
position the order is that of their arrival, which is `turn`.

Every list of the pages is `Sorted`: a set in the order of a relation, column by
column and by position in the store's lists (`InOrder`), by day in the Tasks tab
(`DueOrder`). That says what a filter and a stable sort of the code return, and,
unlike `SelectSeq` and `SortSeq`, one can prove about it.

### CardDialog

The row of one card with its subtasks (`db`), a tab's store and its open dialog
(`dialog.form`, `dialog.committed`), the new-task dialog (`draft`), delayed
deletions (`undo`), requests in slots and the broadcasts on their way
(`inbox`). Every control is an action with its handler's name: `Type`/`Blur`
end in `commitField`, `PickValue`, `handleSelect`, `handleAddSubtask`,
`handleDeleteSubtask`, `DeleteTimer`, `Undo`, ... What a control asks is a
record `ask` in a slot (`Request`), with what is to be broadcast (`event`), the
created subtask the answer carries (`made`) and whether this tab still waits.
On the server `Write` is the statement and `Emit` the broadcast, two steps, as
two handlers may overtake each other between them, and a handler that
broadcasts the list reads it in a step of its own (`ReadSubtasks`);
`Answered`, `Fail` and `Cut` are what the tab hears. `Others` and
`ChangeColumn` are other people's requests.

History: `word` is what somebody last entered in each field. `decided` is what
became of a subtask's deletion. `doubt` are the fields, and `listDoubt` the
list, that the store may show wrongly, and why: the save of a field failed (its
revert puts a snapshot back), a broadcast of an older row arrived after a newer
one, a list that was read earlier was applied over a newer one, or a failed
request could not be repaired by reading again. A toggle carries, as history
too, what the tab had heard of the list (`since`) and whether its box may have
been wrong already (`unsure`): taking it back is right only if neither applies.

Left out: making two tags at once, changes of the member list, trimming of
spaces, deleting a tag from the board, reloads, a deletion timer lost with its
tab; Escape while a subtask is renamed closes the dialog too, a failed creation
loses what was typed. An append to the subtasks, which holds the card's row
lock, is one action.

### Planning

`items` are the rows of a session, `page` one user's copy of them (a set of
rows with ids), `select` the select mode, `reqs` the requests of this page and
of others'. Each handler is read, check and write in steps of their own
(`Read`, then `UpdateItem` or `DeleteItem`: the write waits for a promote's row
lock but checks nothing again); the promote is `LockItem` (SELECT ... FOR UPDATE
with its check) and `CommitPromote` (the card, the link, the status, the commit).
`Answered` is what the page makes of the answer, refused types and failed
additions taken back. `doubt` are the items of which the page may show
something else: others wrote them, the save of their text or status failed
(nothing is taken back), requests for them raced, an answer was lost, or the
row was deleted before its creation was answered.

Left out: the order of items and their positions, creating, renaming and
deleting sessions, the export, the source section of a card, comments.

### MyWork

`db` has the rows of a few cards with a version each, `page` what the mounted
page got (`list`, `counts`, `doneToday`), `pending` the completions that can
still be undone, `toasts` the snoozes that can. `handleComplete`,
`undoComplete`, `commitComplete` (the timer), `Flush` (leaving the page),
`handleSnooze`, `undoSnooze`, `Refreshed` and `Failed` (answers) follow the
hook; `toggleSubtask` and `CompleteViewed` are the quick view; `Elsewhere` is
anyone else. Requests reach the server and are answered in any order.
`owed` counts the clicks accepted less those undone and those sent, `mixed` is
set by a snooze that overlapped other work of the page, `known` is the version
of each card the page shows, `finished` today's cards this page completed.

Left out: the order of rows, wording, the API's filters (the page uses none),
a tab that is closed (the effect that flushes does not run and pending
completions are lost), the browser's day against the time zone of the settings.

The instances are in `MC*.tla` (symmetry sets, small tables).

## 4. Runs

Sizes are distinct states and depth with two workers.

| Run | Bounds | Size | Shows |
|---|---|---|---|
| `membership_requests` | 2 users, 2 requests at once, all operations | 106 365 / 48 | never two owners; what a transfer checked under locks holds at its commit; deleted boards have no members, also with an accept under way; transfers do not wait in a cycle; ownership moves only from owner to new owner in one step; every request ends |
| `membership_owner_lost` | 2 users, 2 requests: accept, remove, transfer | violation | a removal, or role change, passes its checks, the target becomes owner, and the unconditional write takes the only owner away |
| `hub_delivery` | 2 connections on one board, an empty second board, buffer 1, 2 messages, stop, lost peers | 2 084 198 / 36 | `Run` does not panic; browsers see a gapless part of the feed; `Hub` implements `BoardFeed` |
| `hub_progress` | 1 connection, 2 callers, buffer 2, 3 messages | 16 580 / 28 | calls return, also after the stop; lost peers leave; what is queued at a close is still delivered |
| `room_eviction` | 2 users, 2 requests, one socket each | 118 413 / 33 | the socket of a non-member is about to be evicted unless it joined after the row was gone, and the others do close |
| `tokens_rotation` | 2 browsers, 3 tabs, 4 tokens, 1 expiry, a client that logs out | 129 469 / 28 | single use; races of tabs burn nothing; a burn revokes all it found; revocation stands; requests are answered |
| `invites_links` | 2 managers, 2 accepts by one user, 3 links | 2 204 312 / 42 | replaced links are dead; a rolled back create loses no link; one join is reported |
| `sync_pages` | 2 pages, 2 cards (one to be created), 2 columns, 2 requests, all faults | 596 347 / 21 | quiet pages show the table and agree, except for the accounted causes |
| `board_pages` | 3 cards, one of them late from the start, 2 columns and 2 that may be made, 2 users, the last days of a six-week May, one midnight, 2 changes, a chart of 3 days, 1 pill per cell | 1 182 310 / 13 | the overview's lists and tile name the same late work; the team table accounts for all held work; the burn-down draws the past; the calendar shows what the Kanban columns show; a card dropped between others comes between them, whatever became of the columns during the drag |
| `card_dialog` | 4 fields, 2 subtasks, 2 tags of which 1 fits, 2 columns, 2 requests at once, 2 inputs, 1 failure | 1 621 342 / 31 | no edit is written back; the quiet tab shows row, list and progress; undone deletions stay |
| `planning_session` | 2 items and room for a third, 2 requests, 1 failure, with and without a TODO column | 583 396 / 25 | cards are made of live items; the page at rest shows the session; its numbers agree |
| `my_work` | 2 cards on 2 boards around today, 4 inputs, 1 failure | 2 246 837 / 20 | a completion is sent once or was undone; counts and rows agree; the page at rest lists what the server would |

Type invariants are proved, not run, where a module has theorems about its
whole state (membership, hub, tokens, the pages of `BoardSync`, the dialogs, and
as a part of the invariants of the links, the room and the promote); the run properties of the other modules
speak of the state they need.

Each property of a passing run has a mutant in `PROJECT.json`: a plausible bug
in one mapped definition (a definition whose comment starts with "Fault:")
under which the same run finds the property violated.

### Why these bounds

- Two requests (managers, tabs, pages) are enough for every interleaving the
  properties are about: each hazard is a pair, one that has read and one that
  writes in between. Users beyond the pair only stand aside: the proofs cover
  any number for the membership and token invariants.
- A buffer of one makes every second message a slow client; two messages and
  two connections make a broadcast that drops one client and serves the other.
  The progress run has a buffer of two so that messages can be queued when
  the channel is closed.
- Four tokens allow login, rotation, a replay of the first and the successor
  minted meanwhile. Three links: one replaced, and two made concurrently.
- One position is enough for `BoardSync` since no action compares positions.
  With `MaxCalls` 2 the full instance has all operations and faults; the
  proofs cover any number of calls, pages and cards. Three calls with two
  requests were run apart, on parts of the operations (700 615 and, with the
  inductive invariant, 1 774 163 states), without a violation.
- The pages are one tab each: what another tab does reaches them as a change of
  the store, a broadcast, or a row written by someone else. Two inputs put any
  two controls, or a control and another person, against each other, with every
  order of requests, answers and timers; opening, closing, typing, clearing
  and selecting are not counted where they only change the page. My Work has
  four, since a snooze, its undo, a completion and leaving can overlap.
- Three cards fill two cells and two columns of the pages, with one pill per
  cell the second card of a day overflows. The days 29 and 30 of a month whose
  grid needs six weeks put due days at the end of week, month and window; a card
  due on the 28th is late from the start, one due on the 30th is due within the
  week and then today.
- One failure is enough to test what each kind of request takes back; the
  other causes of staleness need none.

### Fairness

- `BoardMembership`: strong fairness of each request's next step. A handler
  runs until it answers; a row lock may be taken by the other again and again
  in between, and PostgreSQL grants locks in the order they were asked for.
- `BoardRoom`: in addition weak fairness of the requests' last steps, which
  wait for nothing.
- `Hub`: the goroutine `Run` is always ready while it does not fan out, and
  Go's select picks at random among ready channels, so a case that is ready
  again and again is taken: strong fairness per case. Fan-out, stop and the
  caller's way out after the stop do not block: weak fairness. Properties
  about the pumps add weak fairness of the two pumps as a premise, and those
  without it hold with peers that hang.
- `RefreshTokens`: as membership; answers are delivered or lost, weakly fair.
- `Invites`, `BoardSync` and the modules of the pages check safety only: a
  user may stop at any time, and what must follow a request is that an answer,
  if it comes, leaves the right page.

Where the cfg of a run turns off the deadlock check it says why: the bounded
supply of inputs, calls, tokens or links is used up, or the board is gone.

## 5. Proofs

All for any value of the constants under the named assumptions of the module
(`MembershipAssumption`, `HubAssumption`, `RefreshAssumption`,
`InvitesAssumption`, `PlanningAssumption`, `SyncAssumption`, `DialogAssumption`,
`MyWorkAssumption`, `PagesAssumption`, `BoardsAssumption`, `MonthsAssumption`:
user ids are ordered, capacities are positive, tabs have a browser, bounds are
naturals, a session starts with rows that the table's CHECKs allow, a board has
columns of both categories, a card has a title, ids of subtasks are ordered, what
the server sends was created and completed in the past, since it stamps both with
`NOW()` and the page's clock is taken to agree, and the calendar can show every day a card is due). They are proved as `Init => IInv`, `IInv /\ [Next]_vars =>
IInv'`, `IInv => Inv`; an action property from `IInv` and the step.

**BoardMembership_proofs.** `TypeCorrect`, `SingleOwner`,
`TransferChecksHold`, `OwnershipMovesByTransfer`, `DeletedIsEmpty`,
`TransfersDoNotDeadlock`. `AtMostOneOwner` alone is not inductive: a state in
which a transfer is about to commit, but its caller is no longer the owner, has
a successor with two. The invariant adds that a transfer between its check and
its commit holds both rows and that they still have the roles it read
(`LockedRolesStand`), that locked rows are not deleted (`LockedRowsExist`), and that no request under
way carries the grant "owner" (`NoOwnerGrant`, from the handler's own check:
the validator lets "owner" through). For the lock cycle it is
`LockedInOrder`: a transfer holds only rows below those it still wants, so the
row one waits for increases along a chain of waiting transfers. `DeletedIsEmpty`
needs only that a join is an insert with a foreign key to the board's row.

The second half of the module is about `BoardRoom`. `RoomIsMembership`:
`RoomSpec => Spec` of `BoardMembership`, so all that is proved there holds with
sockets. `OnlyLateJoiners`: the invariant follows a request from its delete to its
eviction: it keeps its target, and no other step takes the row of a member from
a board that goes on to exist.

**Hub_proofs.** `TypeCorrect`, `PanicFree`. That `Run` never sends to a closed
channel follows from: a client in a room has an open channel (`OpenInRoom`), a
client that has not registered has one too (`FreshIsOpen`), and a broadcast
or the stop visits only clients that are still in their room
(`FanOutBeforeStop`).

The second half of the module is the refinement, `HubImplementsFeed`:
`Spec => Feed!Spec` under the refinement mapping of `Hub`. A registration is the feed's subscription;
unregister, eviction, drop and stop are its drop; `TakeBroadcast` publishes;
a message written to an open socket is delivered, and every other step
stutters. What the step of a delivery needs is that the message is the next
one of the board: what is in a client's hand and channel is exactly its
board's events from the last one delivered up to a place of the log, in order
(`Chain`). That place is the end for clients a broadcast has visited and one
before it for those in `todo`; for clients that have left it is where they
left (`LeftBefore`). Nothing is older than the registration (`NothingBefore`).

The third part is `NothingIsMissed`, about the property TLC checks on the runs of the hub.
`Feed` computes the broadcasts of a board by a recursive function over the
log; `FeedNext` shows from its steps that a broadcast to the board makes it one
message longer and another one leaves it as it is, and that is all the proof
knows of it. The invariant (`InStep`) follows an open connection through a
broadcast: between the publication and the visit it lacks the last message of
its feed and no other, and the visit either appends that message or drops the
connection. All steps but a registration, a publication and a visit keep what
the connection has and will get (`Kept`).

**Tokens_proofs**, about `RefreshTokens`: `TypeCorrect`, `SingleUse`,
`BurnIsComplete`, `RevokedForGood`, `RacesBurnNothing`. Single use needs that a tab that is about to mint holds the
lock of the row it presented (`PresentsToken`), that this row is still live
(`MintingIsLive`), that no two transactions own a row (`OwnersDiffer`), and
that a login's first token and the rows a burn found exist (`RootsInUse`,
`HitsInUse`). That
races burn nothing follows a token from the answer that brings it, where it is
nowhere else and not yet replaced (`AnswersAreFresh`), through the cookie of
the one browser that has it (`TokenHasOneBrowser`) until its replacement is on
its way out (`ReplacedIsOnItsWayOut`); a tab that is about to burn presented a
token whose answer somebody did not hear in time (`StaleIsUnheard`,
`BurnersAreRevoked`).

The same module, about `Invites`: `ReplacedAreDead`, `OnlyClosingEnds`,
`OneJoinPerMembership`. What a transaction inserts is pending and its own
(`MineIsPending`, `MinesDiffer`); the rows its UPDATE has found and the ones it
has locked cover all links that were live when it began and still are
(`FoundIsComplete`, `RevokingIsComplete`), so at its commit none of them survives; a
link that was found live by a committed transaction is revoked
(`DeadAreRevoked`).

**Planning_proofs.** `LocksHold`: a row a promote has locked has passed its
check, one request holds it, and no handler writes it: the writes of the others
wait. `CardsAreMadeOfLiveItems` follows at the commit. It does not say that an
item becomes one card only, which the code does not keep (section 6).

`PageStaysInStep` (the inductive invariant `PageInv`) and from it
`QuietPageIsRight` and `NumbersAdd` are about the page. Like the other
properties of pages at rest, `QuietPageShowsTheSession` says nothing of the step
before; `PageInv` says of each item that is not in doubt what the page shows
while requests are under way (`Right`):

- `Known`: the page has one row of the item, and a column may differ only while
  a change of that column is under way or a promote is not answered yet
  (`Explains`); or it has none, as the item is gone or its deletion was sent. What
  each request knows is in `Told`: a change shows on the page and once it is
  written in the row, a change of type that failed carries the type the item
  still has, a deletion the row it will put back, a promote the row it locked.
- `JustCreated`: an item whose creation is not answered yet is nowhere on the
  page, no request is about it, and one answer brings it.
- `NoRace`: two requests of the page for one item change different columns of it,
  so that what one answer does to the page is no matter of the other.
- `Temps`, `Born`: a temporary row waits for its creation, and nothing is said of
  an item that was not created.

The commit of a promote needs `LockInv`: the row that it writes is still the one
that it read. `NumbersAdd` needs that the page is a finite set of rows of the three
types and four statuses, and that its parts share no row (`PartsAddUp`).
`PageInv` was checked by TLC on the run, and on a larger instance (3 requests on 2
items, 3 641 945 states), before it was proved.

**BoardSync_proofs.** `TypeCorrect`, `BoardStaysInStep` (the inductive
invariant `Inv`), `QuietTabsAreRight`, `QuietTabsAgree`. `QuietTabsShowTheBoard`
speaks of moments at which nothing is on its way, so it says nothing of the
step before. `Inv` says what every page is *going* to show: the last broadcast
about the card that is on its way decides, or, if there is none, what the page
shows already (`Says`); and once every write is announced this is the row, or,
if writes raced, at least the same on all pages (`Agreed`). That a broadcast
extends this to all pages at once is easy; the rest of `Inv` is for the
cases in which a page does something that the others do not:

- `Births`: an id that was never inserted is nowhere; a new id belongs to one
  request, and its answer carries the placement that was broadcast.
- `Deaths`: a deletion that happened is final.
- `Words`: without a race at most one write of a card is unannounced, and it
  will announce the row.
- `Listed`, `Ended`: a page that missed nothing has the cards of the table and
  no others, or is told, and so have the snapshots it may put back.
- `Kept`: snapshots agree with the page about cards of which nothing is pending
  or on its way, so that putting one back disturbs only what `stale` accounts.
- `Added`: until anything else is said of a new card, a page shows it where it
  was added.

An earlier version of the two history variables ended a race, or an answer's
miss, too early: this invariant was not inductive with it, and an instance with
three calls then violated the properties. What is now in
`Settles` and `Awaited` is what the induction needed.

**CardDialog_proofs.** `DialogStaysInStep` (the inductive invariant `Inv`) and
from it `TypesAreRight`, `NoEditIsWrittenBack`, `QuietCardIsRight`,
`CountsAgree`, `QuietListIsRight`, `UndoHolds`: all five properties of the run. The module shows once, in `UserSteps`, that each control
is one of eleven kinds of local step (`Local`: it saves a field, toggles, hides
or drops a subtask, moves the card, ...), and the parts of `Inv` are then proved
against `Local` on one side and the steps of the server, the answers and the
broadcasts (`ServerStep`) on the other. The parts are:

- `Typing`: the shape of rows, forms, asks, snapshots and events. It also has what
  `EditsSurvive` needs, that a form field which differs from what was last saved
  was changed by this user (`Touched`), so every save is meant. A title is the
  exception, in the code as here: emptied, it goes back to the card's title of
  the moment, and the next time the field is left that is saved (section 6).
- `AllCounted`: the counters are those of the list, in the store and in each
  snapshot a move or a deletion may put back.
- `AllUsed`: ids in a list, request, snapshot or broadcast belong to subtasks
  that were made, so a new id is nowhere.
- `Fates`: a subtask this tab hides once, and whose deletion was not sent, is in
  the table; one whose deletion was undone is neither hidden nor being dropped.
  `UndoneDeletionsStay` alone says nothing of the timer that is still running.
- `RowNews`, `RowShown`: nothing that is on its way is newer than the row, what is
  as new says what the row says, and if the tab has not heard of the row, some
  broadcast will tell it. A field out of doubt is the row's, is being saved, or
  the tab has yet to hear. When nothing is on its way the second and third are
  excluded, which is `QuietCardShowsTheRow`.
- `ListGood`: the same for the list, with what may differ meanwhile subtask by
  subtask: the box while a toggle is under way, the title while a rename is or a
  fetch, its absence while it is hidden or being dropped (`Matches`); and a
  toggle that was made of the newest list changes what the row has
  (`ToggleKnows`), so that taking it back restores it.

An earlier version of the model marked a list as doubtful in too few cases, and
this invariant was not inductive with it: two toggles of one box that both fail
leave it wrong (section 6), which takes more inputs and failures than the run
has. `unsure` and `since` are what the induction needed. The run was checked
with `Inv` as an invariant before it was proved.

**MyWork_proofs.** `InvHolds` (the inductive invariant `IInv`) and from it
`OneRequestPerCompletionHolds`, `QuietPageShowsTheInboxHolds` and
`PageAddsUpHolds`. The first needs only that a card is pending at most once (`OnePending`). The second says
what a page at rest lists, and a row is taken off the page long before the
server hears of it, and put back long after. The invariant follows it meanwhile:

- `PageState`: a row that is pending is hidden, and was listed as the server had
  it; nothing is pending before the page has its list; nobody knows a version
  that is not written yet.
- `Working`: what a request may still do to the page would be right: the list
  that a failed snooze puts back, the row that a failed completion puts back,
  or, once it succeeded, that the card is done (`Completed`).
- `Known`: the answer of a read that is on its way has what the server had.
- `Listing`: of each card the page lists what the server would, unless a row of
  it is pending, being completed, or a snooze is under way.
- `Apart`: requests that would undo each other's work are never out together,
  unless the page is `mixed`. This is what `mixed` is for; without it the
  invariant is false, as the violation of `my_work_reappears.cfg` shows.
- `ViewState`, `Boxed`: the same for the boxes of the quick view, toggle by
  toggle.

`IInv` was checked by TLC on the run, and on simulations of a larger instance,
before it was proved.

The counts take a second invariant, `Sums`, which is inductive as long as `IInv`
holds. The page adds to its counts and takes from them, and gets its rows by
filters, so `Sums` says what the two have in common: the counts are those of the
listed rows (`Tallies`), or, while a snooze is out, of the list that the snooze
took and may put back (`TakenAddsUp`); no card is listed twice (`Single`), since
no answer of the server has one twice (`ReplyIsSingle`, from `InboxIsSingle`);
and what was done today is what is finished, pending and on its way
(`DayAddsUp`). Without `Single` the increments are wrong: a filter takes all the
rows that are equal, the count goes down by one. `KeptIs` says that a filter of
a sequence keeps each row once (`OnceEach`), `TalliesFollow` that a row more or
less moves one count by one, and `SumIs` that the rows under their boards are
all the rows. `Sums` was checked by TLC on the run too (2 246 837 states).

**BoardPages_proofs.** `InvHolds` (the inductive invariant `IInv`), and from it
`BurndownDrawsHistory`, `HeldWorkHolds`, `CalendarHolds`, `UrgentWorkHolds`,
`DropsLandAtPointer`. The invariant is about the cards, not about the pages:

- `Placed`: a card is in one of the store's columns. A column goes with its
  cards, and a drop, a move or a creation names a column that is there.
- `NothingAhead`: no card was created or completed after today. Without it a
  day that is about to end could count a card that is not there yet.
- `DoneIsDated`: what is done says since when, unless it is `redated`.
- `Remembered`: of every day that has passed, what the dates of a card say
  (`Existed`, `StillOpen`) is what was so when the day ended. `Midnight` is the
  step that needs the two before; any other step leaves the dates alone
  (`Quiet`, `Dateless`), sets them to today, or marks the card as `redated`.

The chart's past is `Remembered`. The other three hold in each state that has the
invariant, and rest on two facts about the operators. `SortedIs`: if the
relation is a strict order of a finite set, the sequence lists each element once
and in its order (the number of elements before one is an injection into as many
numbers, so it is onto). `SumIs`: if sets are disjoint, the sum of their sizes is
the size of their union; it follows the recursion of `MapThenSumSet` by
induction over the size of the subset, as `WellFoundedInduction` cannot be used
with a predicate of one's own. `FiltersAgree` compares the two tests of a
filter, `MonthInGrid` puts every day of a month into the weeks drawn for it, and
`RowsJoin` puts the buckets of the Tasks tab behind each other.

`DropsLandAtPointer` takes the invariant at both ends of the step. `DropsAre`
finds the drag's end among all steps that end a drag (it is the only one that
counts as a change, so a cancelled drag is not one), `PositionIs` says that the
position computed lies between those of the neighbours, both ends included, and
`PutOrders` that a stable sort then puts the card behind all that were before it,
ties included. Of the cards behind it the property says that they come after it
or share its position: halving has an end (doubles in the code, integers in the
model), and in front of a card at 0 there is no number left.

Only model-checked: all liveness, which is outside the prover's reach.

## 6. Disagreements between code and documents

One is a run of the project, with a finding in `PROJECT.json`; the others have
a configuration that shows the violation when it is run, or none.

| Configuration | Property | What a document says, and what the code does |
|---|---|---|
| `membership_owner_lost` (run) | `ExactlyOneOwner` | `docs/adr/0012-board-role-model.md:38`: exactly one owner. A removal or role change passes its checks, the target becomes owner, and the unconditional write takes the only owner away. |
| `room_late_join` | `RemovedAreEvicted` | `docs/CODE-NOTES.md:129`: removing a member evicts their sockets. The gate and the registration are two steps: an eviction between them finds nothing. |
| `tokens_tab_race` | `ActiveSessionSlides` | `docs/adr/0001-opaque-refresh-tokens.md:27`: an active session slides forward indefinitely. The losing tab's 401 clears the cookie the winner was given. |
| `invites_two_links` | `AtMostOneLiveLink` | `docs/CODE-NOTES.md:125`: at most one live invite link. Two overlapping creates leave two, as neither sees the other's insert. |
| `sync_snap_back` | `RefusedMoveSnapsBack` | `docs/ARCHITECTURE.md:125`: a refused change is rolled back. The snapshot holds the card object that was changed in place. |
| `pages_full_column` | `OnlyEmptyColumnsGo` | `ColumnOptionsModal.tsx:277`: the confirmation is for an empty column. Whether it is empty is tested before, and a card that arrives meanwhile goes with it. |
| `pages_drop_line` | `DropLandsAtLine` | `KanbanBoard.tsx:115`: past the midpoint the indicator goes after the card. It is drawn when the pointer comes over something else, and stays when the pointer moves on over it or the columns change: the card lands elsewhere. A cancelled drag leaves the line on the board (`KanbanBoard.tsx:183-189` has no `onDragCancel`). |
| `dialog_task_elsewhere` | `TaskGoesWhereShown` | `CreateTaskModal.tsx:326-337` shows the column a new task goes to. It is chosen when the dialog opens (`CreateTaskModal.tsx:78-86`): if that column is deleted, or is for done cards by then, the task is still sent there while the list shows another. |
| `dialog_title_back` | `OnlyEntriesAreSaved` | `docs/adr/0009`: a save has what the user changed. A title that was emptied goes back to the card's (`useCardForm.ts:54-59`), without counting as saved; leaving the field again writes it, over a title somebody else entered meanwhile. |
| `dialog_retry_skipped` | `TryingAgainSaves` | `useCardActions.ts:129`: "try again". A field is marked as saved before its request is answered, so leaving it again with the same text sends nothing. |
| `my_work_reappears` | `PendingStaysHidden` | `docs/CODE-NOTES.md:75`, `useMyWorkActions.ts:51`: pending cards are filtered out of refetches. The GET after a snooze is not filtered; only the first load is. |

Seen while modelling, without a configuration of their own:

Server:

- The gate's role is used for the rank rules later in the request: a manager
  demoted in between still removes or adds a member.
- An invite accepted while its board is being stashed still adds the row; the
  member is there after a restore. A permanent delete and a restore that both
  passed the gate end as whichever writes last finds the row.
- A member list that was read earlier may be broadcast later; a page of a
  user who was added in between takes it as its own removal. A user who is
  removed while the list cannot be read is not told, only disconnected.
- A PATCH that read before a promote and writes after it can set the status
  back to live, and a second card is made of the item; the comment at the
  promote's lock speaks of "producing duplicates", and
  `planning_service.go:1` of the link from the item to its card. The freeze of
  a promoted item's type is tested on the same stale read
  (`planning_handler.go:377`).
- "appends never collide" (`planning_service.go:14`): two items created at once
  read the same maximum position. Deleting an "empty" session may take along an
  item created in between.
- A burn revokes what its UPDATE found: the successor another tab's rotation
  commits meanwhile is a new row and stays live.
- The refresh cookie's path leaves it out of the logout request of the
  browser, so logging out there does not revoke the row (only clients that
  send the cookie do: `LogoutClients`).

Pages:

- A box that is ticked and unticked quickly, both requests failing, ends as
  after the first click if the failures are heard in the order of the clicks:
  each restores what its own click found (`useSubtaskActions.ts`).
- Broadcasts between a page's GET and its registration, and while a socket
  reconnects, are missed, and nothing reads the board again (`stale`).
- Promoting a planning item creates a card without broadcasting it.
- `handleDragOver` and `handleToggleDone` have no callers: the drag preview
  described in `docs/ARCHITECTURE.md` is not what the page does, and
  `deleteSession` has none either.
- A card's done flag and its column's category are told apart by some views and
  not by others; they differ after a column changes category. The burn-down's
  "cards open at end of day i" does not hold for cards completed again or
  reopened; a card this tab created has no creation date until a reload.
- The overview's "only mine" stays on when its toggle vanishes; the calendar's
  idea of today is kept over midnight; the overview hides an open dialog
  when the last card goes.
- Cards that share a position (two at 0, say) stay in the order they came in: a
  card dropped before one of them lands behind it.
- Sending many planning items reports all as sent even if some failed, sends
  dropped ones (refused), and ends a selection begun meanwhile. The answer to a
  promote overwrites a title typed meanwhile. An item deleted before its
  creation was answered can leave a row that is not there. The chip for open
  questions counts promoted ones, the callout only live ones.
- My Work: an undone snooze of a card that is no longer listed clears its date;
  a snooze whose PATCH succeeded and whose GET failed is put back on the page;
  the quick view's completion of a card that is no longer listed is ignored;
  unassigned cards are listed (ShowAllCards) but cannot be completed (404);
  leaving and coming back at once can list a card that is being completed; a
  row's subtask progress is not updated by the quick view; the undo of a
  completion does nothing after leaving.

## 7. Not modelled

Authentication itself, tickets and their signatures; SQL beyond row locks,
unique indexes, foreign keys and cascades as they bear on these tables; payloads; time, other than "the race window
is over", "expired" and the day; layout and wording. `PROJECT.json` names the
reason for every component left out, and a note for every listed hazard that
no property covers, or covers in part. In part means that the state a hazard
leads to is excepted, and what is checked is everything around it:

- the socket that registers after its eviction (`RemovedSocketsClose` and
  `OnlyLateJoinersStay` are about all others), and two links made by overlapping
  creates (`ReplacedLinksAreDead` is about those a create found);
- the chart's past of a card whose completion the server dated anew
  (`redated`);
- an older list of subtasks applied over a newer one (`listDoubt`), and a field
  an older broadcast overwrote (`doubt`);
- a second card of an item whose PATCH had read it before the promote
  (`OnlyLiveItemsBecomeCards` says that what is promoted is live then, not that
  this happens once);
- My Work after snoozes that overlap other work of the page (`mixed`);
- a page that missed a broadcast, a snapshot that was changed in place, writes
  announced in another order (`stale`, `raced`): excepted until the next
  broadcast that can put the card right, which is checked. The hazards it lists are those the models cover and those
the code does not withstand (section 6); these were seen as well:

- repeated midpoints before the DONE column run out of precision
  (`CreateColumn`), and two cards created at once read the same maximum
  position (`CreateCardWS`);
- a category is read before `is_done` is written (`MoveCard`), and changing a
  category leaves its cards as they are (`UpdateColumn`);
- two requests that tick the last two subtasks both record the completion;
- an activity heard while the feed is read is lost from it; a full activity
  queue drops records; the end of the process does not wait for the queue
  (`main` stops the worker by closing a channel and returns, so the pool may
  close under it), nor for the rooms to be closed. The log is written and
  displayed, nothing decides by it;
- a pump that registers or unregisters after the hub stopped waits for good
  (the process is ending);
- a sandbox is created in several transactions, and purged by one while its
  visitor may still be signed in: their requests then fail on rows that are gone;
- the invite modal shows the link it was opened with.
