------------------------------ MODULE BoardRoom ------------------------------
(***************************************************************************)
(* A board's members and its WebSocket room together.                      *)
(*                                                                         *)
(* Membership is checked once, when a socket is opened (the gate in front  *)
(* of ServeWs), and registering with the hub is a later step.  From then   *)
(* on a socket is closed only because a request that deleted the member's  *)
(* row says so at its end: it reads the member list, broadcasts it, and    *)
(* evicts the user.  The browser leaves the board when a list arrives that *)
(* does not name its user.                                                 *)
(*                                                                         *)
(* The requests are those of BoardMembership; Announce is two steps here,  *)
(* since other requests write between its read and its broadcast.  A user  *)
(* has one browser tab on the board, which reconnects.  That the hub       *)
(* delivers in order, also what was queued before an eviction, is shown in *)
(* Hub, so delivery is immediate here.                                     *)
(***************************************************************************)
EXTENDS BoardMembership

VARIABLES
  tab,     \* tab[u]: "off", "gated" (past the membership gate) or "live"
  listed,  \* listed[r]: {} or {S}, where r has read S as the members
  told,    \* told[u]: u's page received a list without u and will leave
  late     \* late[u]: u was no member any more when its tab went live

room == <<tab, listed, told, late>>
roomVars == <<vars, room>>

Members == {u \in Users : role[u] # "none"}

-----------------------------------------------------------------------------
(* Browsers *)

(* The gate in front of the handshake: a member, and the board not stashed. *)
Handshake(u) ==
  /\ tab[u] = "off"
  /\ board = "active"
  /\ role[u] # "none"
  /\ tab' = [tab EXCEPT ![u] = "gated"]
  /\ UNCHANGED <<vars, listed, told, late>>

(* ServeWs upgrades and registers with the hub: no further check.           *)
JoinRoom(u) ==
  /\ tab[u] = "gated"
  /\ tab' = [tab EXCEPT ![u] = "live"]
  /\ late' = [late EXCEPT ![u] = role[u] = "none"]
  /\ UNCHANGED <<vars, listed, told>>

(* The tab is closed, or the page leaves because it was told to. *)
Disconnect(u) ==
  /\ tab[u] # "off"
  /\ tab' = [tab EXCEPT ![u] = "off"]
  /\ told' = [told EXCEPT ![u] = FALSE]
  /\ late' = [late EXCEPT ![u] = FALSE]
  /\ UNCHANGED <<vars, listed>>

-----------------------------------------------------------------------------
(* Requests *)

(* What a request does before its write is visible, and the write itself.   *)
Requests ==
  /\ \E r \in Reqs :
       \/ Gate(r) \/ AcceptInvite(r) \/ Abort(r)
       \/ pc[r] \notin {"announce", "evict"} /\ Proceed(r)
  /\ UNCHANGED <<tab, listed, told, late>>

(* broadcastMembers: the list is read ...                                   *)
ReadMembers(r) ==
  /\ pc[r] = "announce"
  /\ listed[r] = {}
  /\ listed' = [listed EXCEPT ![r] = {Members}]
  /\ UNCHANGED <<vars, tab, told, late>>

(* The list that r read does not name u. *)
Unlisted(r, u) == \E S \in listed[r] : u \notin S

(* ... and broadcast.                                                       *)
SendMembers(r) ==
  /\ Announce(r)
  /\ listed[r] # {}
  /\ told' = [u \in Users |-> told[u] \/ (tab[u] = "live" /\ Unlisted(r, u))]
  /\ listed' = IF pc'[r] = "idle" THEN [listed EXCEPT ![r] = {}] ELSE listed
  /\ UNCHANGED <<tab, late>>

(* The read fails: nothing is broadcast, and the request goes on.           *)
SkipMembers(r) ==
  /\ Announce(r)
  /\ listed[r] = {}
  /\ UNCHANGED room

(* Fault: only a removal by somebody else evicts, leaving does not.         *)
EvictRemovedOnly(r) ==
  /\ EvictMember(r)
  /\ LET u == req[r].target IN
       tab' = IF tab[u] = "live" /\ req[r].kind = "remove"
              THEN [tab EXCEPT ![u] = "off"] ELSE tab
  /\ listed' = [listed EXCEPT ![r] = {}]
  /\ UNCHANGED <<told, late>>

(* The hub closes the user's sockets that are in the room now. *)
Evict(r) ==
  /\ EvictMember(r)
  /\ LET u == req[r].target IN
       /\ tab' = IF tab[u] = "live" THEN [tab EXCEPT ![u] = "off"] ELSE tab
       /\ late' = IF tab[u] = "live" THEN [late EXCEPT ![u] = FALSE] ELSE late
       /\ told' = IF tab[u] = "live" THEN [told EXCEPT ![u] = FALSE] ELSE told
  /\ listed' = [listed EXCEPT ![r] = {}]

(* The process dies: its sockets die with it. *)
CrashServer ==
  /\ Crash
  /\ tab' = [u \in Users |-> "off"]
  /\ listed' = [r \in Reqs |-> {}]
  /\ told' = [u \in Users |-> FALSE]
  /\ late' = [u \in Users |-> FALSE]

-----------------------------------------------------------------------------

RoomInit ==
  /\ Init
  /\ tab = [u \in Users |-> "off"]
  /\ listed = [r \in Reqs |-> {}]
  /\ told = [u \in Users |-> FALSE]
  /\ late = [u \in Users |-> FALSE]

Finish(r) == SendMembers(r) \/ SkipMembers(r) \/ Evict(r)

RoomNext ==
  \/ Requests
  \/ \E r \in Reqs : ReadMembers(r) \/ Finish(r)
  \/ \E u \in Users : Handshake(u) \/ JoinRoom(u) \/ Disconnect(u)
  \/ CrashServer

RoomSpec == RoomInit /\ [][RoomNext]_roomVars

(* A request that has written goes on to its end. *)
FairRoomSpec ==
  /\ RoomSpec
  /\ \A r \in Reqs : WF_roomVars(Finish(r))

-----------------------------------------------------------------------------
(* Properties *)

(* A request that deleted u's row and has still to evict u. *)
RemovalInFlight(u) ==
  \E r \in Reqs : /\ pc[r] \in {"announce", "evict"}
                  /\ req[r].kind \in {"remove", "leave"}
                  /\ req[r].target = u

(* Whatever requests interleave, crash or lose their client, the only live  *)
(* sockets of non-members of an existing board are about to be evicted, or  *)
(* went live after the row was gone (RemoveBoardMember, LeaveBoard).        *)
OnlyLateJoinersStay ==
  \A u \in Users :
    tab[u] = "live" /\ role[u] = "none" /\ board # "deleted"
    => late[u] \/ RemovalInFlight(u)

(* A socket that was in the room when its user's row went does not stay.    *)
RemovedSocketsClose ==
  \A u \in Users :
    (tab[u] = "live" /\ role[u] = "none" /\ ~late[u] /\ board # "deleted")
    ~> (tab[u] # "live" \/ role[u] # "none" \/ board = "deleted")

(* "Removing a member evicts their sockets: membership is only checked at   *)
(* the WS handshake" (docs/CODE-NOTES.md:129): once a removal has finished, *)
(* the removed user has no live socket on the board.                        *)
RemovedAreEvicted ==
  \A u \in Users :
    tab[u] = "live" /\ role[u] = "none" /\ board # "deleted" => RemovalInFlight(u)

=============================================================================
