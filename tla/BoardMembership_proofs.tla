----------------------- MODULE BoardMembership_proofs -----------------------
(***************************************************************************)
(* Theorems about BoardMembership and about BoardRoom, which extends it,   *)
(* for every set of users and requests.                                    *)
(*                                                                         *)
(* AtMostOneOwner is not inductive by itself: CommitTransfer promotes the  *)
(* target without looking at the roles again.  It is safe because the row  *)
(* locks keep true what CheckTransfer saw (LockedRolesStand), which holds  *)
(* because every other write waits for the lock; and no request carries    *)
(* the role "owner" past the gate (NoOwnerGrant).                          *)
(*                                                                         *)
(* The sockets of the room change nothing about the members, so what is     *)
(* proved of them holds there too.  That no removed user's socket is left   *)
(* over needs that a request which deleted a row keeps its target from the  *)
(* delete to the eviction, and that no other step takes a row from a board  *)
(* that goes on to exist.                                                  *)
(***************************************************************************)
EXTENDS BoardRoom, TLAPS

(* A locked row exists: a delete waits for the lock. *)
LockedRowsExist ==
  \A u \in Users : held[u] # NoReq => role[u] # "none"

(* No request grants ownership. *)
NoOwnerGrant == \A r \in Reqs : req[r].grant # "owner"

IInv ==
  /\ TypeOK
  /\ LockedRowsExist
  /\ NoOwnerGrant
  /\ LockedRolesStand
  /\ AtMostOneOwner

(* The fields of a request have the types the handlers rely on. *)
LEMMA RequestType ==
  ASSUME NEW q \in Request
  PROVE  /\ q.kind \in Kinds /\ q.actor \in Users /\ q.target \in Users
         /\ q.grant \in Roles
         /\ q.kind \notin {"add", "update"} => q.grant = "member"
BY DEF Request

(* The content of an idle slot is a request. *)
LEMMA BlankType == Blank \in Request /\ Blank.grant = "member"
BY MembershipAssumption DEF Blank, Request, Kinds, Roles

(* Moving a request to its next round trip keeps the slots well-formed and  *)
(* grants nothing new.                                                      *)
LEMMA GotoKeeps ==
  ASSUME TypeOK, NoOwnerGrant, NEW r \in Reqs, NEW s \in Steps, Goto(r, s)
  PROVE  /\ pc' \in [Reqs -> Steps]
         /\ req' \in [Reqs -> Request]
         /\ NoOwnerGrant'
         /\ pc'[r] = s
         /\ \A x \in Reqs \ {r} : pc'[x] = pc[x] /\ req'[x] = req[x]
         /\ s # "idle" => req' = req
BY BlankType DEF TypeOK, Goto, NoOwnerGrant

LEMMA InitInv == Init => IInv
<1> SUFFICES ASSUME Init PROVE IInv
  OBVIOUS
<1>1. TypeOK
  BY BlankType, MembershipAssumption DEF Init, TypeOK, Roles, Steps
<1>2. LockedRowsExist /\ NoOwnerGrant /\ LockedRolesStand /\ AtMostOneOwner
  BY BlankType, MembershipAssumption
  DEF Init, LockedRowsExist, NoOwnerGrant, LockedRolesStand, AtMostOneOwner
<1> QED
  BY <1>1, <1>2 DEF IInv

(* A step that changes no role and no lock, and does not reach "commit".    *)
LEMMA QuietStep ==
  ASSUME IInv, NEW r \in Reqs, NEW s \in Steps \ {"commit"}, Goto(r, s),
         UNCHANGED <<role, board, want, held>>,
         \A u \in Users : held[u] # r
  PROVE  IInv'
<1> USE DEF IInv
<1>1. TypeOK'
  BY GotoKeeps DEF TypeOK
<1>2. LockedRowsExist' /\ NoOwnerGrant' /\ AtMostOneOwner'
  BY GotoKeeps DEF LockedRowsExist, AtMostOneOwner
<1>3. LockedRolesStand'
  BY GotoKeeps DEF LockedRolesStand
<1> QED
  BY <1>1, <1>2, <1>3

(* Only a request in "lock" or "commit" holds rows. *)
LEMMA NoLocks ==
  ASSUME TypeOK, NEW r \in Reqs, pc[r] \notin {"lock", "commit"}
  PROVE  \A u \in Users : held[u] # r
BY MembershipAssumption DEF TypeOK

(* Giving up the locks of r leaves the locks of the others alone.           *)
LEMMA ReleaseKeeps ==
  ASSUME TypeOK, NEW r \in Reqs, Release(r)
  PROVE  /\ held' \in [Users -> Reqs \cup {NoReq}]
         /\ \A u \in Users : held'[u] # r
         /\ \A u \in Users : held[u] # r => held'[u] = held[u]
         /\ \A u \in Users : held'[u] # NoReq => held'[u] = held[u]
BY MembershipAssumption DEF TypeOK, Release

(* What is known of a transfer that is about to commit.                     *)
LEMMA CommittingTransfer ==
  ASSUME TypeOK, LockedRolesStand, NEW x \in Reqs, pc[x] = "commit"
  PROVE  /\ req[x].actor \in Users /\ req[x].target \in Users
         /\ held[req[x].actor] = x /\ held[req[x].target] = x
         /\ role[req[x].actor] = "owner" /\ role[req[x].target] # "none"
         /\ x # NoReq
BY RequestType, MembershipAssumption DEF TypeOK, LockedRolesStand

(* The preservation of IInv, one step per action. *)
LEMMA NextKeepsInv == IInv /\ [Next]_vars => IInv'
<1> SUFFICES ASSUME IInv, [Next]_vars PROVE IInv'
  OBVIOUS
<1> USE DEF IInv
<1>1. ASSUME NEW r \in Reqs, Gate(r) PROVE IInv'
  <2>1. PICK q \in Request : /\ HandlerAllows(q)
                             /\ Start(r, q)
                             /\ q.kind \in Kinds \ {"accept"}
    BY <1>1, MembershipAssumption DEF Gate
  <2>2. /\ pc[r] = "idle"
        /\ UNCHANGED <<role, board, want, held>>
    BY <1>1 DEF Gate
  <2>3. q.grant # "owner"
    BY <2>1, RequestType DEF HandlerAllows
  <2>4. FirstStep(q.kind) \in Steps \ {"idle", "commit"}
    BY <2>1 DEF FirstStep, Steps, Kinds
  <2>5. TypeOK'
    BY <2>1, <2>2, <2>4, NoLocks DEF Start, TypeOK
  <2>6. LockedRowsExist' /\ NoOwnerGrant' /\ AtMostOneOwner'
    BY <2>1, <2>2, <2>3 DEF Start, TypeOK, LockedRowsExist, NoOwnerGrant, AtMostOneOwner
  <2>7. LockedRolesStand'
    BY <2>1, <2>2, <2>4 DEF Start, TypeOK, LockedRolesStand
  <2> QED
    BY <2>5, <2>6, <2>7
<1>2. ASSUME NEW r \in Reqs, AcceptInvite(r) PROVE IInv'
  <2>1. PICK q \in Request : Start(r, q) /\ q.kind = "accept"
    BY <1>2 DEF AcceptInvite
  <2>2. /\ pc[r] = "idle"
        /\ UNCHANGED <<role, board, want, held>>
    BY <1>2 DEF AcceptInvite
  <2>3. q.grant # "owner" /\ FirstStep(q.kind) = "write"
    BY <2>1, RequestType DEF FirstStep
  <2>4. TypeOK'
    BY <2>1, <2>2, <2>3, NoLocks DEF Start, TypeOK, Steps
  <2>5. LockedRowsExist' /\ NoOwnerGrant' /\ AtMostOneOwner'
    BY <2>1, <2>2, <2>3 DEF Start, TypeOK, LockedRowsExist, NoOwnerGrant, AtMostOneOwner
  <2>6. LockedRolesStand'
    BY <2>1, <2>2, <2>3 DEF Start, TypeOK, LockedRolesStand
  <2> QED
    BY <2>4, <2>5, <2>6
<1>3. ASSUME NEW r \in Reqs, AuthorizeTarget(r) PROVE IInv'
  <2>1. PICK s \in {"check", "idle"} : Goto(r, s)
    BY <1>3 DEF AuthorizeTarget
  <2> QED
    BY <1>3, <2>1, QuietStep, NoLocks DEF AuthorizeTarget, Steps
<1>4. ASSUME NEW r \in Reqs, CheckNotOwner(r) PROVE IInv'
  <2>1. PICK s \in {"write", "idle"} : Goto(r, s)
    BY <1>4 DEF CheckNotOwner
  <2> QED
    BY <1>4, <2>1, QuietStep, NoLocks DEF CheckNotOwner, Steps
<1>5. ASSUME NEW r \in Reqs, Announce(r) PROVE IInv'
  <2>1. PICK s \in {"evict", "idle"} : Goto(r, s)
    BY <1>5 DEF Announce
  <2> QED
    BY <1>5, <2>1, QuietStep, NoLocks DEF Announce, Steps
<1>6. ASSUME NEW r \in Reqs, EvictMember(r) PROVE IInv'
  BY <1>6, QuietStep, NoLocks DEF EvictMember, Steps
<1>7. ASSUME NEW r \in Reqs, JoinBoardMember(r) PROVE IInv'
  <2> DEFINE t == req[r].target
  <2>1. t \in Users /\ req[r].grant \in {"manager", "member"}
    BY <1>7, RequestType DEF TypeOK, NoOwnerGrant, Roles
  <2>2. PICK s \in {"announce", "idle"} : Goto(r, s)
    BY <1>7 DEF JoinBoardMember
  <2>3. /\ pc[r] = "write"
        /\ UNCHANGED <<board, want, held>>
        /\ \/ role' = role
           \/ role[t] = "none" /\ role' = [role EXCEPT ![t] = req[r].grant]
    BY <1>7 DEF JoinBoardMember
  <2>4. TypeOK'
    BY <2>1, <2>2, <2>3, GotoKeeps, NoLocks DEF TypeOK, Roles, Steps
  <2>5. LockedRowsExist' /\ NoOwnerGrant' /\ AtMostOneOwner'
    BY <2>1, <2>2, <2>3, GotoKeeps DEF TypeOK, LockedRowsExist, AtMostOneOwner, Steps
  <2>6. LockedRolesStand'
    BY <2>1, <2>2, <2>3, GotoKeeps, RequestType DEF TypeOK, LockedRolesStand, Steps
  <2> QED
    BY <2>4, <2>5, <2>6
<1>8. ASSUME NEW r \in Reqs, RemoveBoardMember(r) \/ UpdateMemberRole(r) PROVE IInv'
  <2> DEFINE t == req[r].target
  <2>1. t \in Users /\ req[r].grant \in {"manager", "member"}
    BY <1>8, RequestType DEF TypeOK, NoOwnerGrant, Roles
  <2>2. PICK s \in {"announce", "idle"} : Goto(r, s)
    BY <1>8 DEF RemoveBoardMember, UpdateMemberRole
  <2>3. /\ pc[r] = "write"
        /\ held[t] = NoReq
        /\ UNCHANGED <<board, want, held>>
        /\ \/ role' = role
           \/ role' = [role EXCEPT ![t] = "none"]
           \/ role' = [role EXCEPT ![t] = req[r].grant]
    BY <1>8 DEF RemoveBoardMember, UpdateMemberRole, Unlocked
  <2>4. TypeOK'
    BY <2>1, <2>2, <2>3, GotoKeeps, NoLocks DEF TypeOK, Roles, Steps
  <2>5. LockedRowsExist' /\ NoOwnerGrant' /\ AtMostOneOwner'
    BY <2>1, <2>2, <2>3, GotoKeeps DEF TypeOK, LockedRowsExist, AtMostOneOwner, Steps
  <2>6. LockedRolesStand'
    <3> SUFFICES ASSUME NEW x \in Reqs, pc'[x] = "commit"
                 PROVE  /\ role'[req'[x].actor] = "owner"
                        /\ role'[req'[x].target] # "none"
                        /\ held'[req'[x].actor] = x
                        /\ held'[req'[x].target] = x
      BY DEF LockedRolesStand
    <3>1. pc[x] = "commit" /\ req'[x] = req[x]
      BY <2>2, <2>3, GotoKeeps DEF Steps
    <3>2. req[x].actor # t /\ req[x].target # t
      BY <2>3, <3>1, CommittingTransfer
    <3> QED
      BY <2>1, <2>3, <3>1, <3>2, CommittingTransfer DEF TypeOK
  <2> QED
    BY <2>4, <2>5, <2>6
<1>9. ASSUME NEW r \in Reqs, BeginTransfer(r) PROVE IInv'
  <2>1. /\ pc[r] = "begin" /\ Goto(r, "lock")
        /\ want' \in [Reqs -> SUBSET Users]
        /\ UNCHANGED <<role, board, held>>
    BY <1>9, RequestType DEF BeginTransfer, TypeOK
  <2>2. TypeOK'
    BY <2>1, GotoKeeps, NoLocks DEF TypeOK, Steps
  <2>3. LockedRowsExist' /\ NoOwnerGrant' /\ AtMostOneOwner' /\ LockedRolesStand'
    BY <2>1, GotoKeeps, RequestType
    DEF TypeOK, LockedRowsExist, AtMostOneOwner, LockedRolesStand, Steps
  <2> QED
    BY <2>2, <2>3
<1>10. ASSUME NEW r \in Reqs, LockMember(r) PROVE IInv'
  <2> DEFINE u == NextRow(r)
  <2>1. /\ pc[r] = "lock" /\ held[u] = NoReq
        /\ UNCHANGED <<role, board, pc, req>>
        /\ \/ held' = held
           \/ role[u] # "none" /\ held' = [held EXCEPT ![u] = r]
    BY <1>10 DEF LockMember, Unlocked
  <2>2. want' \in [Reqs -> SUBSET Users]
    BY <1>10 DEF LockMember, TypeOK
  <2> HIDE DEF u
  <2>3. TypeOK'
    BY <2>1, <2>2, MembershipAssumption DEF TypeOK
  <2>4. LockedRowsExist' /\ NoOwnerGrant' /\ AtMostOneOwner'
    BY <2>1 DEF TypeOK, LockedRowsExist, NoOwnerGrant, AtMostOneOwner
  <2>5. LockedRolesStand'
    <3> SUFFICES ASSUME NEW x \in Reqs, pc'[x] = "commit"
                 PROVE  /\ role'[req'[x].actor] = "owner"
                        /\ role'[req'[x].target] # "none"
                        /\ held'[req'[x].actor] = x
                        /\ held'[req'[x].target] = x
      BY DEF LockedRolesStand
    <3>1. pc[x] = "commit" /\ req'[x] = req[x] /\ role' = role
      BY <2>1
    <3>2. req[x].actor # u /\ req[x].target # u
      BY <2>1, <3>1, CommittingTransfer
    <3> QED
      BY <2>1, <3>1, <3>2, CommittingTransfer DEF TypeOK
  <2> QED
    BY <2>3, <2>4, <2>5
<1>11. ASSUME NEW r \in Reqs, CheckTransfer(r) PROVE IInv'
  <2>1. pc[r] = "lock" /\ UNCHANGED <<role, board, want>>
    BY <1>11 DEF CheckTransfer
  <2>2. CASE /\ Goto(r, "commit") /\ UNCHANGED held
             /\ held[req[r].actor] = r /\ held[req[r].target] = r
             /\ role[req[r].actor] = "owner"
    <3>1. TypeOK'
      BY <2>1, <2>2, GotoKeeps DEF TypeOK, Steps
    <3>2. LockedRowsExist' /\ NoOwnerGrant' /\ AtMostOneOwner'
      BY <2>1, <2>2, GotoKeeps DEF LockedRowsExist, AtMostOneOwner, Steps
    <3>3. role[req[r].target] # "none"
      BY <2>2, RequestType, MembershipAssumption DEF TypeOK, LockedRowsExist
    <3>4. LockedRolesStand'
      BY <2>1, <2>2, <3>3, GotoKeeps DEF LockedRolesStand, Steps
    <3> QED
      BY <3>1, <3>2, <3>4
  <2>3. CASE Goto(r, "idle") /\ Release(r)
    <3>1. TypeOK'
      BY <2>1, <2>3, GotoKeeps, ReleaseKeeps, MembershipAssumption DEF TypeOK, Steps
    <3>2. LockedRowsExist' /\ NoOwnerGrant' /\ AtMostOneOwner'
      BY <2>1, <2>3, GotoKeeps, ReleaseKeeps DEF LockedRowsExist, AtMostOneOwner, Steps
    <3>3. LockedRolesStand'
      BY <2>1, <2>3, GotoKeeps, ReleaseKeeps, RequestType
      DEF TypeOK, LockedRolesStand, Steps
    <3> QED
      BY <3>1, <3>2, <3>3
  <2> QED
    BY <1>11, <2>2, <2>3 DEF CheckTransfer
<1>12. ASSUME NEW r \in Reqs, CommitTransfer(r) PROVE IInv'
  <2> DEFINE a == req[r].actor
             t == req[r].target
  <2>1. a \in Users /\ t \in Users
    BY RequestType DEF TypeOK
  <2>2. /\ pc[r] = "commit" /\ Goto(r, "announce") /\ Release(r)
        /\ role' = [role EXCEPT ![a] = "manager", ![t] = "owner"]
        /\ UNCHANGED <<board, want>>
    BY <1>12 DEF CommitTransfer
  <2>3. role[a] = "owner" /\ held[a] = r /\ held[t] = r
    BY <2>2 DEF LockedRolesStand
  <2>4. TypeOK'
    BY <2>1, <2>2, GotoKeeps, ReleaseKeeps, MembershipAssumption DEF TypeOK, Roles, Steps
  <2>5. AtMostOneOwner'
    BY <2>1, <2>2, <2>3 DEF TypeOK, AtMostOneOwner
  <2>6. LockedRowsExist' /\ NoOwnerGrant'
    BY <2>1, <2>2, GotoKeeps, ReleaseKeeps DEF TypeOK, LockedRowsExist, Steps
  <2>7. LockedRolesStand'
    <3> SUFFICES ASSUME NEW x \in Reqs, pc'[x] = "commit"
                 PROVE  /\ role'[req'[x].actor] = "owner"
                        /\ role'[req'[x].target] # "none"
                        /\ held'[req'[x].actor] = x
                        /\ held'[req'[x].target] = x
      BY DEF LockedRolesStand
    <3>1. x # r /\ pc[x] = "commit" /\ req'[x] = req[x]
      BY <2>2, GotoKeeps DEF Steps
    <3>2. req[x].actor \notin {a, t} /\ req[x].target \notin {a, t}
      BY <2>3, <3>1, CommittingTransfer
    <3> QED
      BY <2>1, <2>2, <3>1, <3>2, CommittingTransfer, ReleaseKeeps DEF TypeOK
  <2> QED
    BY <2>4, <2>5, <2>6, <2>7
<1>13. ASSUME NEW r \in Reqs, StashBoard(r) \/ RestoreBoard(r) PROVE IInv'
  <2>1. /\ pc[r] = "write" /\ Goto(r, "idle")
        /\ board' \in {"active", "stashed", "deleted"}
        /\ UNCHANGED <<role, want, held>>
    BY <1>13 DEF StashBoard, RestoreBoard
  <2>2. TypeOK'
    BY <2>1, GotoKeeps, NoLocks DEF TypeOK, Steps
  <2>3. LockedRowsExist' /\ NoOwnerGrant' /\ AtMostOneOwner' /\ LockedRolesStand'
    BY <2>1, GotoKeeps DEF LockedRowsExist, AtMostOneOwner, LockedRolesStand, Steps
  <2> QED
    BY <2>2, <2>3
<1>14. ASSUME NEW r \in Reqs, HardDeleteBoard(r) PROVE IInv'
  <2>1. /\ pc[r] = "write" /\ Goto(r, "idle") /\ board' = "deleted"
        /\ role' = [u \in Users |-> "none"]
        /\ \A u \in Users : held[u] = NoReq
        /\ UNCHANGED <<want, held>>
    BY <1>14 DEF HardDeleteBoard, Unlocked
  <2>2. TypeOK'
    BY <2>1, GotoKeeps DEF TypeOK, Steps
  <2>3. LockedRowsExist' /\ NoOwnerGrant' /\ AtMostOneOwner'
    BY <2>1, GotoKeeps DEF LockedRowsExist, AtMostOneOwner, Steps
  <2>4. LockedRolesStand'
    <3>1. \A x \in Reqs : pc[x] # "commit"
      BY <2>1, CommittingTransfer
    <3> QED
      BY <2>1, <3>1, GotoKeeps DEF LockedRolesStand, Steps
  <2> QED
    BY <2>2, <2>3, <2>4
<1>15. ASSUME NEW r \in Reqs, Abort(r) PROVE IInv'
  <2>1. /\ Goto(r, "idle") /\ Release(r)
        /\ want' = [want EXCEPT ![r] = {}]
        /\ UNCHANGED <<role, board>>
    BY <1>15 DEF Abort
  <2>2. TypeOK'
    BY <2>1, GotoKeeps, ReleaseKeeps, MembershipAssumption DEF TypeOK, Steps
  <2>3. LockedRowsExist' /\ NoOwnerGrant' /\ AtMostOneOwner'
    BY <2>1, GotoKeeps, ReleaseKeeps DEF LockedRowsExist, AtMostOneOwner, Steps
  <2>4. LockedRolesStand'
    BY <2>1, GotoKeeps, ReleaseKeeps, RequestType DEF TypeOK, LockedRolesStand, Steps
  <2> QED
    BY <2>2, <2>3, <2>4
<1>16. CASE Crash
  <2>1. TypeOK' /\ NoOwnerGrant'
    BY <1>16, BlankType, MembershipAssumption DEF Crash, TypeOK, NoOwnerGrant, Steps
  <2>2. LockedRowsExist' /\ AtMostOneOwner' /\ LockedRolesStand'
    BY <1>16 DEF Crash, LockedRowsExist, AtMostOneOwner, LockedRolesStand
  <2> QED
    BY <2>1, <2>2
<1>17. CASE UNCHANGED vars
  BY <1>17 DEF vars, TypeOK, LockedRowsExist, NoOwnerGrant, LockedRolesStand, AtMostOneOwner
<1> QED
  BY <1>1, <1>2, <1>3, <1>4, <1>5, <1>6, <1>7, <1>8, <1>9, <1>10, <1>11, <1>12,
     <1>13, <1>14, <1>15, <1>16, <1>17
  DEF Next, Proceed

(* The inductive invariant holds in every reachable state. *)
THEOREM Invariance == Spec => []IInv
BY InitInv, NextKeepsInv, PTL DEF Spec

(* Every state has the declared shape, and rows are locked only by open     *)
(* transactions.                                                            *)
THEOREM TypeCorrect == Spec => []TypeOK
<1>1. IInv => TypeOK
  BY DEF IInv
<1> QED
  BY Invariance, <1>1, PTL

(* No interleaving of member requests, transfers, aborts and crashes gives  *)
(* a board two owners.                                                      *)
THEOREM SingleOwner == Spec => []AtMostOneOwner
<1>1. IInv => AtMostOneOwner
  BY DEF IInv
<1> QED
  BY Invariance, <1>1, PTL

(* What a transfer checked under its locks still holds when it commits.     *)
THEOREM TransferChecksHold == Spec => []LockedRolesStand
<1>1. IInv => LockedRolesStand
  BY DEF IInv
<1> QED
  BY Invariance, <1>1, PTL

(* A user who becomes owner takes the role from someone in the same step:   *)
(* only CommitTransfer writes "owner", and it runs on the locked rows of an *)
(* owner and a member.                                                      *)
THEOREM OwnershipMovesByTransfer == Spec => OwnershipIsHandedOver
<1> DEFINE HandedOver ==
      \A u \in Users : role[u] # "owner" /\ role'[u] = "owner" =>
        \E v \in Users : role[v] = "owner" /\ role'[v] = "manager"
<1>1. IInv /\ [Next]_vars => [HandedOver]_vars
  <2> SUFFICES ASSUME IInv, [Next]_vars,
                      NEW u \in Users, role[u] # "owner", role'[u] = "owner"
               PROVE  \E v \in Users : role[v] = "owner" /\ role'[v] = "manager"
    OBVIOUS
  <2> USE DEF IInv
  <2>1. ASSUME NEW r \in Reqs, CommitTransfer(r)
        PROVE  \E v \in Users : role[v] = "owner" /\ role'[v] = "manager"
    <3>1. /\ req[r].actor \in Users /\ role[req[r].actor] = "owner"
          /\ role' = [role EXCEPT ![req[r].actor] = "manager", ![req[r].target] = "owner"]
      BY <2>1, CommittingTransfer DEF CommitTransfer
    <3>2. req[r].actor # req[r].target
      BY <3>1 DEF TypeOK
    <3>3. role'[req[r].actor] = "manager"
      BY <3>1, <3>2 DEF TypeOK
    <3> QED
      BY <3>1, <3>3
  <2>2. ASSUME NEW r \in Reqs, JoinBoardMember(r) \/ UpdateMemberRole(r)
        PROVE  FALSE
    BY <2>2 DEF JoinBoardMember, UpdateMemberRole, TypeOK, NoOwnerGrant
  <2>3. ASSUME NEW r \in Reqs, RemoveBoardMember(r) \/ HardDeleteBoard(r)
        PROVE  FALSE
    BY <2>3 DEF RemoveBoardMember, HardDeleteBoard, TypeOK
  <2>4. CASE UNCHANGED role
    BY <2>4
  <2> QED
    BY <2>1, <2>2, <2>3, <2>4
    DEF Next, Proceed, vars, Gate, AcceptInvite, AuthorizeTarget, CheckNotOwner,
        BeginTransfer, LockMember, CheckTransfer, StashBoard, RestoreBoard,
        Announce, EvictMember, Abort, Crash
<1>2. Spec => [][HandedOver]_vars
  BY <1>1, Invariance, PTL DEF Spec
<1> QED
  BY <1>2 DEF OwnershipIsHandedOver

-----------------------------------------------------------------------------
(* A deleted board has no members *)

(* No step leaves a member row behind the board, or adds one to it.         *)
LEMMA NextKeepsEmpty == IInv /\ NoOrphanMembers /\ [Next]_vars => NoOrphanMembers'
<1> SUFFICES ASSUME IInv, NoOrphanMembers, [Next]_vars PROVE NoOrphanMembers'
  OBVIOUS
<1> USE DEF NoOrphanMembers
<1>1. ASSUME NEW r \in Reqs, JoinBoardMember(r) PROVE NoOrphanMembers'
  BY <1>1 DEF JoinBoardMember
<1>2. ASSUME NEW r \in Reqs, RemoveBoardMember(r) PROVE NoOrphanMembers'
  BY <1>2 DEF RemoveBoardMember, IInv, TypeOK
<1>3. ASSUME NEW r \in Reqs, UpdateMemberRole(r) PROVE NoOrphanMembers'
  <2>1. req[r].target \in Users
    BY RequestType DEF IInv, TypeOK
  <2> QED
    BY <1>3, <2>1 DEF UpdateMemberRole
<1>4. ASSUME NEW r \in Reqs, CommitTransfer(r) PROVE NoOrphanMembers'
  <2>1. req[r].actor \in Users /\ role[req[r].actor] = "owner"
    BY <1>4, CommittingTransfer DEF CommitTransfer, IInv
  <2> QED
    BY <1>4, <2>1 DEF CommitTransfer
<1>5. ASSUME NEW r \in Reqs, StashBoard(r) \/ RestoreBoard(r) PROVE NoOrphanMembers'
  BY <1>5 DEF StashBoard, RestoreBoard
<1>6. ASSUME NEW r \in Reqs, HardDeleteBoard(r) PROVE NoOrphanMembers'
  BY <1>6 DEF HardDeleteBoard
<1>7. CASE UNCHANGED <<role, board>>
  BY <1>7
<1>8. ASSUME NEW r \in Reqs,
             \/ Gate(r) \/ AcceptInvite(r) \/ AuthorizeTarget(r) \/ CheckNotOwner(r)
             \/ BeginTransfer(r) \/ LockMember(r) \/ CheckTransfer(r)
             \/ Announce(r) \/ EvictMember(r) \/ Abort(r)
      PROVE  UNCHANGED <<role, board>>
  BY <1>8 DEF Gate, AcceptInvite, AuthorizeTarget, CheckNotOwner, BeginTransfer,
     LockMember, CheckTransfer, Announce, EvictMember, Abort
<1> QED
  BY <1>1, <1>2, <1>3, <1>4, <1>5, <1>6, <1>7, <1>8 DEF Next, Proceed, Crash, vars

(* The permanent delete leaves no member row, and no join or transfer that  *)
(* was under way adds one afterwards (HardDeleteBoard, JoinBoardMember).     *)
THEOREM DeletedIsEmpty == Spec => []NoOrphanMembers
<1>1. Init => NoOrphanMembers
  BY DEF Init, NoOrphanMembers
<1> QED
  BY <1>1, NextKeepsEmpty, Invariance, PTL DEF Spec

-----------------------------------------------------------------------------
(* Transfers do not deadlock *)

(* A transfer still wants only its two rows, all above those it has locked. *)
LockedInOrder ==
  \A r \in Reqs : pc[r] = "lock" =>
    /\ want[r] \subseteq {req[r].actor, req[r].target}
    /\ \A u, v \in Users : held[u] = r /\ v \in want[r] => u < v

(* The row a transfer asks for is the first of those it wants. *)
LEMMA NextRowIsFirst ==
  ASSUME TypeOK, LockedInOrder, NEW r \in Reqs, pc[r] = "lock", want[r] # {}
  PROVE  /\ NextRow(r) \in want[r] /\ NextRow(r) \in Users
         /\ \A v \in want[r] : NextRow(r) <= v
<1>1. want[r] \subseteq {req[r].actor, req[r].target} /\ want[r] \subseteq Nat
      /\ want[r] \subseteq Users
  BY MembershipAssumption DEF LockedInOrder, TypeOK
<1>2. \E u \in want[r] : \A v \in want[r] : u <= v
  BY <1>1
<1> QED
  BY <1>1, <1>2 DEF NextRow

LEMMA NextKeepsOrder == IInv /\ LockedInOrder /\ [Next]_vars => LockedInOrder'
<1> SUFFICES ASSUME IInv, LockedInOrder, [Next]_vars PROVE LockedInOrder'
  OBVIOUS
<1> USE DEF LockedInOrder
<1>1. ASSUME NEW r \in Reqs, BeginTransfer(r) PROVE LockedInOrder'
  <2>1. /\ \A u \in Users : held[u] # r
        /\ \A x \in Reqs \ {r} : pc'[x] = pc[x]
        /\ UNCHANGED <<held, req>>
        /\ want' = [want EXCEPT ![r] =
                      {u \in {req[r].actor, req[r].target} : role[u] # "none"}]
    BY <1>1, NoLocks DEF BeginTransfer, Goto, IInv, TypeOK
  <2> QED
    BY <2>1 DEF IInv, TypeOK
<1>2. ASSUME NEW r \in Reqs, LockMember(r) PROVE LockedInOrder'
  <2> DEFINE u == NextRow(r)
  <2>1. /\ pc[r] = "lock" /\ u \in Users /\ held[u] = NoReq
        /\ u \in want[r] /\ \A v \in want[r] : u <= v
        /\ want' = [want EXCEPT ![r] = @ \ {u}]
        /\ held' = held \/ held' = [held EXCEPT ![u] = r]
        /\ UNCHANGED <<pc, req>>
    BY <1>2, NextRowIsFirst DEF LockMember, Unlocked, IInv
  <2> HIDE DEF u
  <2>2. ASSUME NEW x \in Reqs, pc'[x] = "lock"
        PROVE  want'[x] \subseteq {req'[x].actor, req'[x].target}
    BY <2>1, <2>2 DEF IInv, TypeOK
  <2>3. ASSUME NEW x \in Reqs, pc'[x] = "lock", NEW w \in Users, NEW v \in Users,
               held'[w] = x, v \in want'[x]
        PROVE  w < v
    <3>1. v \in want[x] /\ w \in Nat /\ v \in Nat /\ u \in Nat
      BY <2>1, <2>3, MembershipAssumption DEF IInv, TypeOK
    <3>2. CASE held[w] = x
      BY <2>1, <2>3, <3>1, <3>2
    <3>3. CASE held[w] # x
      <4>1. w = u /\ x = r
        BY <2>1, <2>3, <3>3 DEF IInv, TypeOK
      <4>2. v # u /\ u <= v
        BY <2>1, <2>3, <3>1, <4>1 DEF IInv, TypeOK
      <4> QED
        BY <3>1, <4>1, <4>2
    <3> QED
      BY <3>2, <3>3
  <2> QED
    BY <2>2, <2>3
<1>3. ASSUME NEW r \in Reqs, NEW s \in Steps \ {"lock"},
             \/ Goto(r, s)
             \/ \E q \in Request : Start(r, q) /\ s = FirstStep(q.kind),
             \/ UNCHANGED held
             \/ Release(r),
             UNCHANGED want \/ want' = [want EXCEPT ![r] = {}]
      PROVE  LockedInOrder'
  <2>1. /\ \A x \in Reqs \ {r} : pc'[x] = pc[x] /\ req'[x] = req[x] /\ want'[x] = want[x]
        /\ pc'[r] = s
    BY <1>3 DEF Goto, Start, IInv, TypeOK
  <2>2. \A u \in Users : held'[u] \in Reqs => held'[u] = held[u]
    BY <1>3, ReleaseKeeps, MembershipAssumption DEF IInv, TypeOK
  <2> QED
    BY <2>1, <2>2
<1>4. ASSUME NEW r \in Reqs, Gate(r) \/ AcceptInvite(r) PROVE LockedInOrder'
  <2>1. PICK q \in Request : Start(r, q) /\ UNCHANGED <<want, held>>
    BY <1>4 DEF Gate, AcceptInvite
  <2>2. FirstStep(q.kind) \in Steps \ {"lock"}
    BY DEF FirstStep, Steps
  <2> QED
    BY <1>3, <2>1, <2>2
<1>5. ASSUME NEW r \in Reqs,
             \/ AuthorizeTarget(r) \/ CheckNotOwner(r) \/ JoinBoardMember(r)
             \/ RemoveBoardMember(r) \/ UpdateMemberRole(r) \/ CheckTransfer(r)
             \/ CommitTransfer(r) \/ StashBoard(r) \/ RestoreBoard(r)
             \/ HardDeleteBoard(r) \/ Announce(r) \/ EvictMember(r) \/ Abort(r)
      PROVE  LockedInOrder'
  <2>1. PICK s \in Steps \ {"lock"} : Goto(r, s)
    BY <1>5 DEF AuthorizeTarget, CheckNotOwner, JoinBoardMember, RemoveBoardMember,
       UpdateMemberRole, CheckTransfer, CommitTransfer, StashBoard, RestoreBoard,
       HardDeleteBoard, Announce, EvictMember, Abort, Steps
  <2>2. /\ UNCHANGED held \/ Release(r)
        /\ UNCHANGED want \/ want' = [want EXCEPT ![r] = {}]
    BY <1>5 DEF AuthorizeTarget, CheckNotOwner, JoinBoardMember, RemoveBoardMember,
       UpdateMemberRole, CheckTransfer, CommitTransfer, StashBoard, RestoreBoard,
       HardDeleteBoard, Announce, EvictMember, Abort
  <2> QED
    BY <1>3, <2>1, <2>2
<1>6. CASE Crash
  BY <1>6 DEF Crash
<1>7. CASE UNCHANGED vars
  BY <1>7 DEF vars
<1> QED
  BY <1>1, <1>2, <1>4, <1>5, <1>6, <1>7 DEF Next, Proceed

(* Who waits for a transfer that waits itself asks for a lower row than it: *)
(* following the waits climbs through the rows and never comes round again. *)
LEMMA WaitsClimb ==
  ASSUME TypeOK, LockedInOrder, NEW r \in Reqs, NEW s \in Reqs, WaitsFor(r, s),
         pc[s] = "lock", want[s] # {}
  PROVE  NextRow(r) < NextRow(s)
BY NextRowIsFirst DEF WaitsFor, LockedInOrder

(* Two transfers never wait for each other: both take the rows in the order *)
(* of user_id (LockTwoBoardMembers' ORDER BY).                              *)
THEOREM TransfersDoNotDeadlock == Spec => []NoLockCycle
<1>1. Init => LockedInOrder
  BY DEF Init, LockedInOrder
<1>2. IInv /\ LockedInOrder => NoLockCycle
  <2> SUFFICES ASSUME IInv, LockedInOrder, NEW r \in Reqs, NEW s \in Reqs,
                      WaitsFor(r, s), WaitsFor(s, r)
               PROVE  FALSE
    BY DEF NoLockCycle
  <2>1. NextRow(r) < NextRow(s) /\ NextRow(s) < NextRow(r)
    BY WaitsClimb DEF WaitsFor, IInv
  <2>2. NextRow(r) \in Nat /\ NextRow(s) \in Nat
    BY NextRowIsFirst, MembershipAssumption DEF WaitsFor, IInv
  <2> QED
    BY <2>1, <2>2
<1> QED
  BY <1>1, <1>2, NextKeepsOrder, Invariance, PTL DEF Spec

-----------------------------------------------------------------------------
(* The room *)

TabTypes ==
  /\ tab \in [Users -> {"off", "gated", "live"}]
  /\ late \in [Users -> BOOLEAN]

RoomInv == IInv /\ TabTypes /\ OnlyLateJoinersStay

-----------------------------------------------------------------------------

(* A step of the room is a step of the members, or none. *)
LEMMA RoomStepIsMemberStep ==
  ASSUME [RoomNext]_roomVars
  PROVE  [Next]_vars
<1>1. ASSUME Requests PROVE Next
  BY <1>1 DEF Requests, Next
<1>2. ASSUME NEW r \in Reqs, ReadMembers(r) PROVE UNCHANGED vars
  BY <1>2 DEF ReadMembers
<1>3. ASSUME NEW r \in Reqs, Finish(r) PROVE Next
  BY <1>3 DEF Finish, SendMembers, SkipMembers, Evict, Next, Proceed
<1>4. ASSUME NEW u \in Users, Handshake(u) \/ JoinRoom(u) \/ Disconnect(u)
      PROVE  UNCHANGED vars
  BY <1>4 DEF Handshake, JoinRoom, Disconnect
<1>5. ASSUME CrashServer PROVE Next
  BY <1>5 DEF CrashServer, Next
<1> QED
  BY <1>1, <1>2, <1>3, <1>4, <1>5 DEF RoomNext, roomVars

(* With the sockets left out, the room is BoardMembership: the handshake, the *)
(* member lists and the evictions never decide who is a member.             *)
THEOREM RoomIsMembership == RoomSpec => Spec
<1>1. RoomInit => Init
  BY DEF RoomInit
<1>2. [RoomNext]_roomVars => [Next]_vars
  BY RoomStepIsMemberStep
<1> QED
  BY <1>1, <1>2, PTL DEF RoomSpec, Spec

-----------------------------------------------------------------------------

(* A request that is not at its end moves by itself, and takes a row from a  *)
(* board that stays only by deleting its target's, which it then announces. *)
LEMMA RequestsTakeOnlyTargets ==
  ASSUME IInv, Requests, NEW u \in Users, role'[u] = "none", board' # "deleted"
  PROVE  /\ board # "deleted"
         /\ RemovalInFlight(u) => RemovalInFlight(u)'
         /\ role[u] # "none" => RemovalInFlight(u)'
<1> USE DEF IInv
<1>1. PICK r \in Reqs :
        /\ Gate(r) \/ AcceptInvite(r) \/ Abort(r)
           \/ (pc[r] \notin {"announce", "evict"} /\ Proceed(r))
  BY DEF Requests
<1>2. pc[r] \notin {"announce", "evict"} /\ req[r] \in Request
  BY <1>1 DEF Gate, AcceptInvite, Abort, TypeOK
<1>3. /\ \A q \in Reqs \ {r} : pc'[q] = pc[q] /\ req'[q] = req[q]
      /\ board # "deleted"
  BY <1>1, <1>2 DEF Gate, AcceptInvite, Abort, Proceed, Start, Goto, TypeOK,
     AuthorizeTarget, CheckNotOwner, JoinBoardMember, RemoveBoardMember,
     UpdateMemberRole, BeginTransfer, LockMember, CheckTransfer, CommitTransfer,
     StashBoard, RestoreBoard, HardDeleteBoard, Announce, EvictMember
<1>4. ASSUME RemovalInFlight(u) PROVE RemovalInFlight(u)'
  BY <1>2, <1>3, <1>4 DEF RemovalInFlight
<1>5. ASSUME role[u] # "none" PROVE RemovalInFlight(u)'
  <2>1. CASE RemoveBoardMember(r)
    <3>1. u = req[r].target
      BY <1>5, <2>1 DEF RemoveBoardMember, TypeOK
    <3>2. /\ req[r].kind \in {"remove", "leave"}
          /\ pc'[r] = "announce" /\ req'[r] = req[r]
      BY <2>1 DEF RemoveBoardMember, Goto, TypeOK
    <3> QED
      BY <3>1, <3>2 DEF RemovalInFlight
  <2>2. CASE HardDeleteBoard(r)
    BY <2>2 DEF HardDeleteBoard
  <2>3. CASE JoinBoardMember(r)
    BY <1>5, <2>3 DEF JoinBoardMember, TypeOK
  <2>4. CASE UpdateMemberRole(r)
    <3>1. req[r].grant \in Roles
      BY <1>2 DEF Request
    <3> QED
      BY <1>5, <2>4, <3>1 DEF UpdateMemberRole, TypeOK, Roles
  <2>5. CASE CommitTransfer(r)
    BY <1>5, <2>5 DEF CommitTransfer, TypeOK
  <2>6. CASE UNCHANGED role
    BY <1>5, <2>6
  <2> QED
    BY <1>1, <1>2, <2>1, <2>2, <2>3, <2>4, <2>5, <2>6
    DEF Gate, AcceptInvite, Abort, Proceed, AuthorizeTarget, CheckNotOwner,
        BeginTransfer, LockMember, CheckTransfer, StashBoard, RestoreBoard,
        Announce, EvictMember
<1> QED
  BY <1>3, <1>4, <1>5

LEMMA RoomNextKeepsInv == RoomInv /\ [RoomNext]_roomVars => RoomInv'
<1> SUFFICES ASSUME RoomInv, [RoomNext]_roomVars PROVE RoomInv'
  OBVIOUS
<1> USE DEF RoomInv
<1>1. IInv'
  BY NextKeepsInv, RoomStepIsMemberStep
<1>2. TabTypes'
  BY DEF TabTypes, RoomNext, roomVars, room, Requests, ReadMembers, Finish, SendMembers,
     SkipMembers, Evict, Handshake, JoinRoom, Disconnect, CrashServer
<1>3. ASSUME NEW u \in Users, tab'[u] = "live", role'[u] = "none", board' # "deleted"
      PROVE  late'[u] \/ RemovalInFlight(u)'
  <2>1. CASE Requests
    <3>1. tab[u] = "live" /\ late'[u] = late[u] /\ board # "deleted"
      BY <1>3, <2>1, RequestsTakeOnlyTargets DEF Requests
    <3> QED
      BY <1>3, <2>1, <3>1, RequestsTakeOnlyTargets DEF OnlyLateJoinersStay
  <2>2. ASSUME NEW r \in Reqs, ReadMembers(r)
        PROVE  late'[u] \/ RemovalInFlight(u)'
    BY <1>3, <2>2 DEF ReadMembers, vars, OnlyLateJoinersStay, RemovalInFlight
  <2>3. ASSUME NEW r \in Reqs, SendMembers(r) \/ SkipMembers(r)
        PROVE  late'[u] \/ RemovalInFlight(u)'
    <3>1. /\ Announce(r) /\ UNCHANGED <<tab, late>>
      BY <2>3 DEF SendMembers, SkipMembers, room
    <3>2. /\ UNCHANGED <<role, board>>
          /\ \A q \in Reqs \ {r} : pc'[q] = pc[q] /\ req'[q] = req[q]
          /\ req[r].kind \in {"remove", "leave"} => pc'[r] = "evict" /\ req'[r] = req[r]
      BY <3>1 DEF Announce, Goto, IInv, TypeOK
    <3>3. late[u] \/ RemovalInFlight(u)
      BY <1>3, <3>1, <3>2 DEF OnlyLateJoinersStay
    <3> QED
      BY <3>1, <3>2, <3>3 DEF RemovalInFlight
  <2>4. ASSUME NEW r \in Reqs, Evict(r)
        PROVE  late'[u] \/ RemovalInFlight(u)'
    <3>1. /\ UNCHANGED <<role, board>>
          /\ \A q \in Reqs \ {r} : pc'[q] = pc[q] /\ req'[q] = req[q]
      BY <2>4 DEF Evict, EvictMember, Goto, IInv, TypeOK
    <3>2. tab[u] = "live" /\ late'[u] = late[u] /\ u # req[r].target
      BY <1>3, <2>4 DEF Evict, TabTypes
    <3>3. late[u] \/ RemovalInFlight(u)
      BY <1>3, <3>1, <3>2 DEF OnlyLateJoinersStay
    <3> QED
      BY <3>1, <3>2, <3>3 DEF RemovalInFlight
  <2>5. ASSUME NEW v \in Users, Handshake(v) \/ Disconnect(v)
        PROVE  late'[u] \/ RemovalInFlight(u)'
    <3>1. UNCHANGED vars /\ tab[u] = "live" /\ late'[u] = late[u]
      BY <1>3, <2>5 DEF Handshake, Disconnect, TabTypes
    <3> QED
      BY <1>3, <3>1 DEF vars, OnlyLateJoinersStay, RemovalInFlight
  <2>6. ASSUME NEW v \in Users, JoinRoom(v)
        PROVE  late'[u] \/ RemovalInFlight(u)'
    <3>1. UNCHANGED vars
      BY <2>6 DEF JoinRoom
    <3>2. CASE u = v
      BY <1>3, <2>6, <3>1, <3>2 DEF JoinRoom, TabTypes, vars
    <3>3. CASE u # v
      <4>1. tab[u] = "live" /\ late'[u] = late[u]
        BY <1>3, <2>6, <3>3 DEF JoinRoom, TabTypes
      <4> QED
        BY <1>3, <3>1, <4>1 DEF vars, OnlyLateJoinersStay, RemovalInFlight
    <3> QED
      BY <3>2, <3>3
  <2>7. CASE CrashServer
    BY <1>3, <2>7 DEF CrashServer
  <2>8. CASE UNCHANGED roomVars
    BY <1>3, <2>8 DEF roomVars, vars, room, OnlyLateJoinersStay, RemovalInFlight
  <2> QED
    BY <2>1, <2>2, <2>3, <2>4, <2>5, <2>6, <2>7, <2>8 DEF RoomNext, Finish
<1> QED
  BY <1>1, <1>2, <1>3 DEF OnlyLateJoinersStay

(* A live socket of somebody who is no member belongs to a user who is about *)
(* to be evicted, or who went live after the row was gone: no interleaving   *)
(* of removals, joins, lists, losses and crashes leaves another one behind.  *)
THEOREM OnlyLateJoiners == RoomSpec => []OnlyLateJoinersStay
<1>1. RoomInit => RoomInv
  BY InitInv DEF RoomInit, RoomInv, TabTypes, OnlyLateJoinersStay
<1>2. RoomInv => OnlyLateJoinersStay
  BY DEF RoomInv
<1> QED
  BY <1>1, <1>2, RoomNextKeepsInv, PTL DEF RoomSpec
=============================================================================
