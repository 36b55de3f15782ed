------------------------------ MODULE Invites ------------------------------
(***************************************************************************)
(* One board's invite links: managers who open, regenerate and close the   *)
(* link, and people who accept it.                                         *)
(*                                                                         *)
(* The database is read-committed: an UPDATE visits the rows its snapshot  *)
(* found live, waits for those another transaction holds, and skips those  *)
(* revoked meanwhile.  A link's number is the order of created_at, which   *)
(* is the time its transaction began.  Nothing but CreateInvite's own      *)
(* transaction keeps a board to one link: no index forbids a second.       *)
(***************************************************************************)
EXTENDS Integers

CONSTANTS
  Managers,  \* the managers of the board, each with an invite modal
  Accepts,   \* requests that accept a link
  Users,     \* the people who accept
  MaxLinks   \* bound: the CreateInvite transactions ever begun

ASSUME InvitesAssumption == MaxLinks \in Nat

Links == 1..MaxLinks
NoLink == 0
NoAccept == <<>>

VARIABLES
  link,     \* link[l]: "unused", "pending" (uncommitted), "live", "revoked"
            \* or "failed" (rolled back)
  lapsed,   \* links past expires_at
  step,     \* step[m]: what m's request does next
  mine,     \* mine[m]: the link m's transaction inserts, or NoLink
  found,    \* found[m]: the rows the snapshot of m's UPDATE found
  revoking, \* revoking[m]: the rows m's transaction has revoked, uncommitted
  shown,    \* shown[m]: the link m's modal shows, or NoLink
  accept,   \* accept[a]: NoAccept, or who joins with a link found valid
  role,     \* role[u]: "none" or "member"
  credit,   \* credit[u]: accepts that reported u as joined since u was none
  before,   \* before[m]: the links live when m's request began
  dead      \* links that were live before a request that replaced or closed
            \* the board's link, and that has been answered

modal == <<step, mine, found, revoking, shown, before>>
people == <<accept, role, credit>>
inviteVars == <<link, lapsed, modal, people, dead>>

LiveLinks == {l \in Links : link[l] = "live"}
Usable == LiveLinks \ lapsed
UnusedLinks == {l \in Links : link[l] = "unused"}

Unlocked(l) == \A m \in Managers : l \notin revoking[m]

InviteInit ==
  /\ link = [l \in Links |-> "unused"]
  /\ lapsed = {} /\ dead = {}
  /\ step = [m \in Managers |-> "idle"]
  /\ mine = [m \in Managers |-> NoLink]
  /\ found = [m \in Managers |-> {}]
  /\ revoking = [m \in Managers |-> {}]
  /\ shown = [m \in Managers |-> NoLink]
  /\ before = [m \in Managers |-> {}]
  /\ accept = [a \in Accepts |-> NoAccept]
  /\ role = [u \in Users |-> "none"]
  /\ credit = [u \in Users |-> 0]

-----------------------------------------------------------------------------
(* Managers *)

Goto(m, p) == step' = [step EXCEPT ![m] = p]

(* The modal asks for the board's link, or for a new one, or the link is    *)
(* closed.                                                                  *)
Ask(m) ==
  /\ step[m] = "idle"
  /\ \E p \in {"get", "create", "close"} : Goto(m, p)
  /\ before' = [before EXCEPT ![m] = LiveLinks]
  /\ UNCHANGED <<link, lapsed, mine, found, revoking, shown, people, dead>>

(* The newest usable link; without one the modal creates a link.            *)
GetActiveInvite(m) ==
  /\ step[m] = "get"
  /\ \/ \E l \in Usable :
          /\ \A k \in Usable : k <= l
          /\ shown' = [shown EXCEPT ![m] = l]
          /\ Goto(m, "idle")
     \/ Usable = {} /\ Goto(m, "create") /\ UNCHANGED shown
  /\ UNCHANGED <<link, lapsed, mine, found, revoking, before, people, dead>>

(* A transaction begins and RevokeActiveBoardInvites takes its snapshot;    *)
(* closing the link is that statement alone.                                *)
StartRevoke(m) ==
  /\ found' = [found EXCEPT ![m] = LiveLinks]
  /\ \/ /\ step[m] = "create"
        /\ \E l \in UnusedLinks :
             /\ \A k \in UnusedLinks : l <= k
             /\ mine' = [mine EXCEPT ![m] = l]
             /\ link' = [link EXCEPT ![l] = "pending"]
     \/ step[m] = "close" /\ UNCHANGED <<mine, link>>
  /\ Goto(m, "wait")
  /\ UNCHANGED <<lapsed, revoking, shown, before, people, dead>>

(* Fault: only the link the modal shows is revoked. *)
RevokeShownOnly(m) ==
  /\ step[m] = "wait"
  /\ \A l \in found[m] : Unlocked(l)
  /\ revoking' = [revoking EXCEPT ![m] = found[m] \cap LiveLinks \cap {shown[m]}]
  /\ Goto(m, "commit")
  /\ UNCHANGED <<link, lapsed, mine, found, shown, before, people, dead>>

(* Fault: the two statements of CreateInvite are not one transaction. *)
RevokeAndCommit(m) ==
  /\ step[m] = "wait"
  /\ \A l \in found[m] : Unlocked(l)
  /\ link' = [l \in Links |-> IF l \in found[m] THEN "revoked" ELSE link[l]]
  /\ Goto(m, "commit")
  /\ UNCHANGED <<lapsed, mine, found, revoking, shown, before, people, dead>>

(* The UPDATE gets its rows' locks and revokes what is still live.          *)
RevokeActiveBoardInvites(m) ==
  /\ step[m] = "wait"
  /\ \A l \in found[m] : Unlocked(l)
  /\ revoking' = [revoking EXCEPT ![m] = found[m] \cap LiveLinks]
  /\ Goto(m, "commit")
  /\ UNCHANGED <<link, lapsed, mine, found, shown, before, people, dead>>

End(m) ==
  /\ Goto(m, "idle")
  /\ mine' = [mine EXCEPT ![m] = NoLink]
  /\ found' = [found EXCEPT ![m] = {}]
  /\ revoking' = [revoking EXCEPT ![m] = {}]
  /\ before' = [before EXCEPT ![m] = {}]

(* Commit: the old links are revoked, and a created one is live and shown.  *)
Commit(m) ==
  /\ step[m] = "commit"
  /\ link' = [l \in Links |-> IF l \in revoking[m] THEN "revoked"
                             ELSE IF l = mine[m] THEN "live" ELSE link[l]]
  /\ shown' = [shown EXCEPT ![m] = mine[m]]
  /\ dead' = dead \cup before[m]
  /\ End(m)
  /\ UNCHANGED <<lapsed, people>>

(* A statement fails, or the server dies: nothing of it remains.            *)
RollbackInvite(m) ==
  /\ step[m] # "idle"
  /\ link' = [l \in Links |-> IF l = mine[m] THEN "failed" ELSE link[l]]
  /\ End(m)
  /\ UNCHANGED <<lapsed, shown, people, dead>>

-----------------------------------------------------------------------------
(* People *)

(* AcceptInvite finds the link neither revoked nor expired; any other token *)
(* is refused and changes nothing.                                          *)
Lookup(a, u, l) ==
  /\ accept[a] = NoAccept
  /\ l \in Usable
  /\ accept' = [accept EXCEPT ![a] = <<u, l>>]
  /\ UNCHANGED <<link, lapsed, modal, role, credit, dead>>

(* Fault: the insert updates on conflict and returns a row either way. *)
JoinUpsert(a) ==
  /\ accept[a] # NoAccept
  /\ role' = [role EXCEPT ![accept[a][1]] = "member"]
  /\ credit' = [credit EXCEPT ![accept[a][1]] = @ + 1]
  /\ accept' = [accept EXCEPT ![a] = NoAccept]
  /\ UNCHANGED <<link, lapsed, modal, dead>>

(* The insert does nothing if the row is there, and then reports no join.   *)
JoinBoardMember(a) ==
  /\ accept[a] # NoAccept
  /\ LET u == accept[a][1] IN
       \/ /\ role[u] = "none"
          /\ role' = [role EXCEPT ![u] = "member"]
          /\ credit' = [credit EXCEPT ![u] = @ + 1]
       \/ role[u] # "none" /\ UNCHANGED <<role, credit>>
  /\ accept' = [accept EXCEPT ![a] = NoAccept]
  /\ UNCHANGED <<link, lapsed, modal, dead>>

RemoveMember(u) ==
  /\ role[u] = "member"
  /\ role' = [role EXCEPT ![u] = "none"]
  /\ credit' = [credit EXCEPT ![u] = 0]
  /\ UNCHANGED <<link, lapsed, modal, accept, dead>>

LinkExpires(l) ==
  /\ l \in Usable
  /\ lapsed' = lapsed \cup {l}
  /\ UNCHANGED <<link, modal, people, dead>>

-----------------------------------------------------------------------------
Serve(m) ==
  \/ GetActiveInvite(m) \/ StartRevoke(m)
  \/ RevokeActiveBoardInvites(m) \/ Commit(m)

InviteNext ==
  \/ \E m \in Managers : Ask(m) \/ Serve(m) \/ RollbackInvite(m)
  \/ \E a \in Accepts :
       JoinBoardMember(a) \/ \E u \in Users, l \in Links : Lookup(a, u, l)
  \/ \E u \in Users : RemoveMember(u)
  \/ \E l \in Links : LinkExpires(l)

InviteSpec == InviteInit /\ [][InviteNext]_inviteVars

-----------------------------------------------------------------------------
(* Properties *)

(* Once a manager's request to replace or close the link is answered, no    *)
(* link that was live when it began works any more, whatever other          *)
(* managers do at the same time (CreateInvite, RevokeInvites).              *)
ReplacedLinksAreDead ==
  dead \cap LiveLinks = {}

(* The board loses its last link only to a manager who closes it, never to  *)
(* a CreateInvite that fails half way or races another one.                 *)
OnlyClosingEndsTheLink ==
  [][LiveLinks # {} /\ LiveLinks' = {} =>
       \E m \in Managers : step[m] = "commit" /\ step'[m] = "idle" /\ mine[m] = NoLink]_inviteVars

(* Overlapping accepts report one join per membership (AcceptInvite's       *)
(* joined result, which announces the member).                              *)
OneJoinIsReported ==
  \A u \in Users : credit[u] = (IF role[u] = "none" THEN 0 ELSE 1)

(* "A board has at most one live invite link (revoke + create in one        *)
(* transaction)" (docs/CODE-NOTES.md:125).                                  *)
AtMostOneLiveLink ==
  \A k, l \in LiveLinks : k = l

=============================================================================
