--------------------------- MODULE BoardMembership ---------------------------
(***************************************************************************)
(* Who belongs to one board, and with which role.                          *)
(*                                                                         *)
(* The rows of board_members change through concurrent HTTP requests that  *)
(* take several database round trips each: the access gate reads the       *)
(* caller's role, the handler reads the target's role, the service reads   *)
(* it again, and only then one unconditional statement writes.  Every      *)
(* round trip is a step of its own here, so that requests interleave the   *)
(* way they do under READ COMMITTED.  Only the ownership transfer is a     *)
(* transaction with row locks.                                             *)
(*                                                                         *)
(* A request that is refused by a check leaves no trace: it is an idle     *)
(* slot again.                                                             *)
(***************************************************************************)
EXTENDS Naturals

CONSTANTS
  Users,    \* user ids; ordered, as the uuids of the users table are
  Creator,  \* the user who created the board
  Reqs,     \* slots for requests in flight
  NoReq,    \* "no request": the holder of a row nobody has locked
  Ops       \* the operations that clients call

Kinds == {"add", "accept", "remove", "update", "leave", "transfer",
          "stash", "restore", "purge"}

ASSUME MembershipAssumption ==
  /\ Users \subseteq Nat
  /\ Creator \in Users
  /\ NoReq \notin Reqs
  /\ Ops \subseteq Kinds

VARIABLES
  role,   \* role[u]: the role column of u's row, or "none" without a row
  board,  \* "active", "stashed" (deleted_at is set) or "deleted"
  pc,     \* pc[r]: the next round trip of request r, or "idle"
  req,    \* req[r]: what r asks for, and the role its caller had at the gate
  want,   \* want[r]: rows a transfer still has to lock
  held    \* held[u]: the transfer that has u's row locked, or NoReq

vars == <<role, board, pc, req, want, held>>

Roles == {"owner", "manager", "member"}
Grants == {"manager", "member"}
Steps == {"idle", "authorize", "check", "write", "begin", "lock", "commit",
          "announce", "evict"}

-----------------------------------------------------------------------------
(* Permission rules (core/permissions.go) *)

Rank == [owner |-> 3, manager |-> 2, member |-> 1, none |-> 0]

AtLeast(r, min) == Rank[r] > 0 /\ Rank[r] >= Rank[min]

CanManageMember(actor, target) ==
  \/ actor = "owner" /\ target \in {"manager", "member"}
  \/ actor = "manager" /\ target = "member"

CanGrantRole(actor, r) ==
  \/ actor = "owner" /\ r \in {"manager", "member"}
  \/ actor = "manager" /\ r = "member"

(* The RequireBoardRole that guards each route. *)
MinRole(kind) ==
  CASE kind \in {"add", "remove", "update"} -> "manager"
    [] kind \in {"transfer", "stash", "restore", "purge"} -> "owner"
    [] OTHER -> "member"

(* RequireStashedBoardMember guards the stash routes, RequireBoardMember     *)
(* every other one.                                                         *)
GateState(kind) == IF kind \in {"restore", "purge"} THEN "stashed" ELSE "active"

-----------------------------------------------------------------------------
(* Requests *)

(* A request acts on a target only when its route names one, and carries a  *)
(* role only when its body does.                                            *)
Request == {q \in [kind : Kinds, actor : Users, target : Users,
                   grant : Roles, actorRole : Roles \cup {"none"}] :
              /\ q.kind \notin {"add", "remove", "update", "transfer"}
                   => q.target = q.actor
              /\ q.kind \notin {"add", "update"} => q.grant = "member"}

(* Fault: the handlers trust the validator, which accepts "owner".          *)
GrantsAnything(q) ==
  /\ q.kind = "leave" => q.actorRole # "owner"
  /\ q.kind = "transfer" => q.actor # q.target

(* What the handler decides without another round trip. *)
HandlerAllows(q) ==
  /\ q.kind \in {"add", "update"} =>
       q.grant # "owner" /\ CanGrantRole(q.actorRole, q.grant)
  /\ q.kind = "leave" => q.actorRole # "owner"
  /\ q.kind = "transfer" => q.actor # q.target

FirstStep(kind) ==
  IF kind \in {"remove", "update"} THEN "authorize"
  ELSE IF kind = "leave" THEN "check"
  ELSE IF kind = "transfer" THEN "begin"
  ELSE "write"

(* The content of an idle slot. *)
Blank == [kind |-> "stash", actor |-> Creator, target |-> Creator,
          grant |-> "member", actorRole |-> "none"]

Goto(r, step) ==
  /\ pc' = [pc EXCEPT ![r] = step]
  /\ req' = IF step = "idle" THEN [req EXCEPT ![r] = Blank] ELSE req

Start(r, q) ==
  /\ pc' = [pc EXCEPT ![r] = FirstStep(q.kind)]
  /\ req' = [req EXCEPT ![r] = q]

(* Fault: the transfer reads the two rows without FOR UPDATE.               *)
NeverLocked(u) == TRUE

Unlocked(u) == held[u] = NoReq

Release(r) == held' = [u \in Users |-> IF held[u] = r THEN NoReq ELSE held[u]]

(* The gate reads the caller's role; the rest of the request trusts it.     *)
Gate(r) ==
  /\ pc[r] = "idle"
  /\ \E q \in Request :
       /\ q.kind \in Ops \ {"accept"}
       /\ q.actorRole = role[q.actor]
       /\ board = GateState(q.kind)
       /\ AtLeast(q.actorRole, MinRole(q.kind))
       /\ HandlerAllows(q)
       /\ Start(r, q)
  /\ UNCHANGED <<role, board, want, held>>

(* Accepting an invite is not gated: the token, read and found live, is the *)
(* authorization, and it disappears only with the board.                    *)
AcceptInvite(r) ==
  /\ pc[r] = "idle"
  /\ board # "deleted"
  /\ \E q \in Request :
       /\ q.kind \in Ops \cap {"accept"}
       /\ q.actorRole = "none"
       /\ Start(r, q)
  /\ UNCHANGED <<role, board, want, held>>

(* authorizeMemberTarget: read the target's role, compare with the gate's.  *)
AuthorizeTarget(r) ==
  LET q == req[r] IN
  /\ pc[r] = "authorize"
  /\ Goto(r, IF board = "active" /\ CanManageMember(q.actorRole, role[q.target])
             THEN "check" ELSE "idle")
  /\ UNCHANGED <<role, board, want, held>>

(* The service reads the role again, and only refuses to touch an owner.    *)
CheckNotOwner(r) ==
  LET t == req[r].target IN
  /\ pc[r] = "check"
  /\ Goto(r, IF board = "active" /\ role[t] \in Grants THEN "write" ELSE "idle")
  /\ UNCHANGED <<role, board, want, held>>

(* INSERT ... ON CONFLICT DO NOTHING; the foreign key fails without a board. *)
JoinBoardMember(r) ==
  LET t == req[r].target
      joins == board # "deleted" /\ role[t] = "none" IN
  /\ pc[r] = "write"
  /\ req[r].kind \in {"add", "accept"}
  /\ role' = IF joins THEN [role EXCEPT ![t] = req[r].grant] ELSE role
  /\ Goto(r, IF joins THEN "announce" ELSE "idle")
  /\ UNCHANGED <<board, want, held>>

(* DELETE by user id: no condition on the role, no error without a row.     *)
RemoveBoardMember(r) ==
  LET t == req[r].target IN
  /\ pc[r] = "write"
  /\ req[r].kind \in {"remove", "leave"}
  /\ Unlocked(t)
  /\ role' = [role EXCEPT ![t] = "none"]
  /\ Goto(r, "announce")
  /\ UNCHANGED <<board, want, held>>

(* UPDATE by user id: no condition on the role, an error without a row.     *)
UpdateMemberRole(r) ==
  LET t == req[r].target IN
  /\ pc[r] = "write"
  /\ req[r].kind = "update"
  /\ Unlocked(t)
  /\ \/ /\ role[t] # "none"
        /\ role' = [role EXCEPT ![t] = req[r].grant]
        /\ Goto(r, "announce")
     \/ /\ role[t] = "none"
        /\ UNCHANGED role
        /\ Goto(r, "idle")
  /\ UNCHANGED <<board, want, held>>

(* BEGIN, and the snapshot of the locking SELECT: the rows that exist now.  *)
BeginTransfer(r) ==
  LET q == req[r] IN
  /\ pc[r] = "begin"
  /\ want' = [want EXCEPT ![r] = {u \in {q.actor, q.target} : role[u] # "none"}]
  /\ Goto(r, "lock")
  /\ UNCHANGED <<role, board, held>>

(* SELECT ... ORDER BY user_id FOR UPDATE locks one row at a time; a row     *)
(* that was deleted while the statement waited is skipped.                  *)
(* Fault: no ORDER BY, the caller's row comes first.                        *)
CallersRowFirst(r) ==
  IF req[r].actor \in want[r] THEN req[r].actor ELSE CHOOSE u \in want[r] : TRUE

NextRow(r) == CHOOSE u \in want[r] : \A v \in want[r] : u <= v

LockMember(r) ==
  /\ pc[r] = "lock"
  /\ want[r] # {}
  /\ LET u == NextRow(r) IN
       /\ Unlocked(u)
       /\ held' = IF role[u] = "none" THEN held ELSE [held EXCEPT ![u] = r]
       /\ want' = [want EXCEPT ![r] = @ \ {u}]
  /\ UNCHANGED <<role, board, pc, req>>

(* With the rows locked: still the owner, and the target still a member?    *)
CheckTransfer(r) ==
  LET q == req[r] IN
  /\ pc[r] = "lock"
  /\ want[r] = {}
  /\ \/ /\ held[q.actor] = r
        /\ role[q.actor] = "owner"
        /\ held[q.target] = r
        /\ Goto(r, "commit")
        /\ UNCHANGED held
     \/ /\ \/ held[q.actor] # r
           \/ role[q.actor] # "owner"
           \/ held[q.target] # r
        /\ Goto(r, "idle")
        /\ Release(r)
  /\ UNCHANGED <<role, board, want>>

(* Fault: the target is promoted and the caller keeps the role.             *)
CommitWithoutDemotion(r) ==
  /\ pc[r] = "commit"
  /\ role' = [role EXCEPT ![req[r].target] = "owner"]
  /\ Release(r)
  /\ Goto(r, "announce")
  /\ UNCHANGED <<board, want>>

(* Both updates become visible, and the locks go, at COMMIT. *)
CommitTransfer(r) ==
  LET q == req[r] IN
  /\ pc[r] = "commit"
  /\ role' = [role EXCEPT ![q.actor] = "manager", ![q.target] = "owner"]
  /\ Release(r)
  /\ Goto(r, "announce")
  /\ UNCHANGED <<board, want>>

(* UPDATE boards SET deleted_at: by id only, whatever the board's state is.  *)
StashBoard(r) ==
  /\ pc[r] = "write"
  /\ req[r].kind = "stash"
  /\ board' = IF board = "deleted" THEN "deleted" ELSE "stashed"
  /\ Goto(r, "idle")
  /\ UNCHANGED <<role, want, held>>

RestoreBoard(r) ==
  /\ pc[r] = "write"
  /\ req[r].kind = "restore"
  /\ board' = IF board = "deleted" THEN "deleted" ELSE "active"
  /\ Goto(r, "idle")
  /\ UNCHANGED <<role, want, held>>

(* DELETE FROM boards by id; the member rows go by cascade, which waits for *)
(* every lock on them.                                                      *)
HardDeleteBoard(r) ==
  /\ pc[r] = "write"
  /\ req[r].kind = "purge"
  /\ \A u \in Users : Unlocked(u)
  /\ board' = "deleted"
  /\ role' = [u \in Users |-> "none"]
  /\ Goto(r, "idle")
  /\ UNCHANGED <<want, held>>

(* After the write: send the new list to the room, then close the sockets   *)
(* of a member who is gone.  Nothing here can fail the request.             *)
Announce(r) ==
  /\ pc[r] = "announce"
  /\ Goto(r, IF req[r].kind \in {"remove", "leave"} THEN "evict" ELSE "idle")
  /\ UNCHANGED <<role, board, want, held>>

EvictMember(r) ==
  /\ pc[r] = "evict"
  /\ Goto(r, "idle")
  /\ UNCHANGED <<role, board, want, held>>

(* The client goes away or the database fails before the write: the request *)
(* context is cancelled and an open transaction rolls back.                 *)
Abort(r) ==
  /\ pc[r] \in {"authorize", "check", "write", "begin", "lock", "commit"}
  /\ Goto(r, "idle")
  /\ want' = [want EXCEPT ![r] = {}]
  /\ Release(r)
  /\ UNCHANGED <<role, board>>

(* The server process dies: every request and every open transaction with   *)
(* it; the committed rows stay.                                             *)
Crash ==
  /\ \E r \in Reqs : pc[r] # "idle"
  /\ pc' = [r \in Reqs |-> "idle"]
  /\ req' = [r \in Reqs |-> Blank]
  /\ want' = [r \in Reqs |-> {}]
  /\ held' = [u \in Users |-> NoReq]
  /\ UNCHANGED <<role, board>>

-----------------------------------------------------------------------------

(* CreateBoard commits the board and its owner's row in one transaction.    *)
Init ==
  /\ role = [u \in Users |-> IF u = Creator THEN "owner" ELSE "none"]
  /\ board = "active"
  /\ pc = [r \in Reqs |-> "idle"]
  /\ req = [r \in Reqs |-> Blank]
  /\ want = [r \in Reqs |-> {}]
  /\ held = [u \in Users |-> NoReq]

(* The steps of a request once it is past the gate. *)
Proceed(r) ==
  \/ AuthorizeTarget(r)
  \/ CheckNotOwner(r)
  \/ JoinBoardMember(r)
  \/ RemoveBoardMember(r)
  \/ UpdateMemberRole(r)
  \/ BeginTransfer(r)
  \/ LockMember(r)
  \/ CheckTransfer(r)
  \/ CommitTransfer(r)
  \/ StashBoard(r)
  \/ RestoreBoard(r)
  \/ HardDeleteBoard(r)
  \/ Announce(r)
  \/ EvictMember(r)

Next ==
  \/ \E r \in Reqs : Gate(r) \/ AcceptInvite(r) \/ Proceed(r) \/ Abort(r)
  \/ Crash

Spec == Init /\ [][Next]_vars

(* PostgreSQL grants a row lock in the order it was asked for, so a request *)
(* that waits for one is not passed over forever.                           *)
FairSpec == Spec /\ \A r \in Reqs : SF_vars(Proceed(r))

-----------------------------------------------------------------------------
(* Properties *)

(* The shape of the state; a row is locked by an open transaction only.     *)
TypeOK ==
  /\ role \in [Users -> Roles \cup {"none"}]
  /\ board \in {"active", "stashed", "deleted"}
  /\ pc \in [Reqs -> Steps]
  /\ req \in [Reqs -> Request]
  /\ want \in [Reqs -> SUBSET Users]
  /\ held \in [Users -> Reqs \cup {NoReq}]
  /\ \A u \in Users : held[u] # NoReq => pc[held[u]] \in {"lock", "commit"}

(* Whatever requests interleave, no two users own the board at once: the    *)
(* transfer re-reads the caller's role under the row locks, and nothing     *)
(* else writes "owner" (TransferOwnership, CanGrantRole, JoinBoardMember).  *)
AtMostOneOwner ==
  \A u, v \in Users : role[u] = "owner" /\ role[v] = "owner" => u = v

(* Ownership is never created, only handed over: a user becomes owner in    *)
(* the very step in which the previous owner becomes manager.               *)
OwnershipIsHandedOver ==
  [][\A u \in Users : role[u] # "owner" /\ role'[u] = "owner" =>
       \E v \in Users : role[v] = "owner" /\ role'[v] = "manager"]_vars

(* A row locked by a transfer that passed its check keeps the role that the *)
(* check saw until the transfer commits or rolls back.                      *)
LockedRolesStand ==
  \A r \in Reqs : pc[r] = "commit" =>
    /\ role[req[r].actor] = "owner"
    /\ role[req[r].target] # "none"
    /\ held[req[r].actor] = r /\ held[req[r].target] = r

(* Two transfers never wait for each other's row: the locking SELECT takes  *)
(* the rows in user_id order.                                               *)
WaitsFor(r, s) ==
  /\ pc[r] = "lock" /\ want[r] # {}
  /\ held[NextRow(r)] = s

NoLockCycle ==
  \A r, s \in Reqs : r # s => ~(WaitsFor(r, s) /\ WaitsFor(s, r))

(* A deleted board keeps no member row: a join fails on the foreign key and *)
(* the cascade waits for a transfer that holds member rows.                 *)
NoOrphanMembers ==
  board = "deleted" => \A u \in Users : role[u] = "none"

(* Every request comes to an end, also the ones that wait for row locks.    *)
RequestsFinish ==
  \A r \in Reqs : pc[r] # "idle" ~> pc[r] = "idle"

(* "There is exactly one owner" (docs/adr/0012-board-role-model.md:38), as   *)
(* long as the board exists.                                                *)
ExactlyOneOwner ==
  board # "deleted" => \E u \in Users : role[u] = "owner"
=============================================================================
