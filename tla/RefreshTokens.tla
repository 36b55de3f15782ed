--------------------------- MODULE RefreshTokens ---------------------------
(***************************************************************************)
(* One user's refresh tokens: the refresh_tokens table, the transactions   *)
(* that rotate and burn tokens, and the browsers that hold them.           *)
(*                                                                         *)
(* A browser has one cookie jar and several tabs; each tab has one request *)
(* in flight (tryRefresh is single-flight).  A request presents the token  *)
(* the jar holds when it is sent and writes the jar when its answer comes  *)
(* back, so answers overwrite each other's cookies.                        *)
(*                                                                         *)
(* The database is read-committed: SELECT FOR UPDATE and UPDATE wait for a *)
(* row's lock and then see the row as committed; an UPDATE visits only the *)
(* rows its snapshot found, and every burn visits them in the same order.  *)
(* A transaction's writes show at its commit, so a rotation's INSERT and   *)
(* UPDATE are part of the step that commits it.                            *)
(***************************************************************************)
EXTENDS Integers, FiniteSets

CONSTANTS
  Browsers,       \* the user's browsers
  Tabs,           \* their tabs; each has at most one request in flight
  Home,           \* Home[r]: the browser of tab r
  LogoutClients,  \* the browsers that send the refresh cookie to logout
  MaxTokens,      \* bound: the tokens ever issued
  MaxExpired      \* bound: the tokens that outlive their expires_at

ASSUME RefreshAssumption ==
  /\ Home \in [Tabs -> Browsers]
  /\ MaxTokens \in Nat

Tokens == 1..MaxTokens
NoToken == 0

VARIABLES
  status,      \* status[t]: "unused" (no row), "live" or "revoked"
  replacedBy,  \* replacedBy[t]: the token t was rotated into, or NoToken
  root,        \* root[t]: the token of the login that t descends from
  expired,     \* tokens past expires_at
  stale,       \* tokens replaced longer ago than rotationRaceWindow
  jar,         \* jar[b]: the token in b's cookie, or NoToken
  pc,          \* pc[r]: what the request of tab r does next
  cookie,      \* cookie[r]: the token the request presents
  owned,       \* owned[r]: the rows the request's transaction has locked
  hit,         \* hit[r]: the rows the snapshot of the request's burn found
  answer,      \* answer[r]: the cookie the answer sets (NoToken: it clears)
  unheard      \* tokens a request presented without an answer in the window

db == <<status, replacedBy, root>>
clock == <<expired, stale, unheard>>
request == <<pc, cookie, owned, hit, answer>>
vars == <<db, clock, jar, request>>

Live == {t \in Tokens : status[t] = "live"}
Unused == {t \in Tokens : status[t] = "unused"}
InFlight == {r \in Tabs : pc[r] # "idle"}

(* No transaction holds the row of t.                                       *)
Free(t) == \A r \in Tabs : t \notin owned[r]

(* Bound: a login or a request starts only while every request in flight    *)
(* could still be given a token.                                            *)
TokensLeft == Cardinality(InFlight) < Cardinality(Unused)

Init ==
  /\ status = [t \in Tokens |-> "unused"]
  /\ replacedBy = [t \in Tokens |-> NoToken]
  /\ root = [t \in Tokens |-> t]
  /\ expired = {} /\ stale = {} /\ unheard = {}
  /\ jar = [b \in Browsers |-> NoToken]
  /\ pc = [r \in Tabs |-> "idle"]
  /\ cookie = [r \in Tabs |-> NoToken]
  /\ owned = [r \in Tabs |-> {}]
  /\ hit = [r \in Tabs |-> {}]
  /\ answer = [r \in Tabs |-> NoToken]

-----------------------------------------------------------------------------
(* Signing in and asking for a refresh *)

(* A login inserts a token in one statement and sets the cookie.            *)
IssueRefreshToken(b) ==
  /\ TokensLeft
  /\ \E t \in Unused :
       /\ \A u \in Unused : t <= u
       /\ status' = [status EXCEPT ![t] = "live"]
       /\ jar' = [jar EXCEPT ![b] = t]
  /\ UNCHANGED <<replacedBy, root, clock, request>>

(* A tab whose access token ran out sends the cookie of its browser.        *)
Refresh(r) ==
  /\ pc[r] = "idle"
  /\ jar[Home[r]] # NoToken
  /\ TokensLeft
  /\ pc' = [pc EXCEPT ![r] = "sent"]
  /\ cookie' = [cookie EXCEPT ![r] = jar[Home[r]]]
  /\ UNCHANGED <<db, clock, jar, owned, hit, answer>>

-----------------------------------------------------------------------------
(* RotateRefreshToken *)

(* End the transaction of r and answer with token t.                        *)
Respond(r, t) ==
  /\ pc' = [pc EXCEPT ![r] = "reply"]
  /\ owned' = [owned EXCEPT ![r] = {}]
  /\ answer' = [answer EXCEPT ![r] = t]

(* A revoked token that was replaced, and just now: two tabs racing.        *)
Raced(t) == replacedBy[t] # NoToken /\ t \notin stale

(* Fault: the row is read without FOR UPDATE. *)
ReadUnlocked(r) ==
  /\ pc[r] = "sent"
  /\ owned' = [owned EXCEPT ![r] = {cookie[r]}]
  /\ pc' = [pc EXCEPT ![r] = IF cookie[r] \in Live THEN "mint" ELSE "burn"]
  /\ UNCHANGED <<db, clock, jar, cookie, hit, answer>>

(* Fault: every replay is taken for theft. *)
LockNoWindow(r) ==
  /\ pc[r] = "sent"
  /\ Free(cookie[r])
  /\ owned' = [owned EXCEPT ![r] = {cookie[r]}]
  /\ pc' = [pc EXCEPT ![r] = IF cookie[r] \in Live THEN "mint" ELSE "burn"]
  /\ UNCHANGED <<db, clock, jar, cookie, hit, answer>>

(* Fault: the transaction is not rolled back on the early returns. *)
LockNoRollback(r) ==
  /\ pc[r] = "sent"
  /\ Free(cookie[r])
  /\ owned' = [owned EXCEPT ![r] = {cookie[r]}]
  /\ IF cookie[r] \in Live \ expired
     THEN pc' = [pc EXCEPT ![r] = "mint"] /\ UNCHANGED answer
     ELSE /\ pc' = [pc EXCEPT ![r] = "reply"]
          /\ answer' = [answer EXCEPT ![r] = NoToken]
  /\ UNCHANGED <<db, clock, jar, cookie, hit>>

(* Take the row's lock and decide from what the row says then: refuse a     *)
(* tab race or an expired token, burn on any other replay, or rotate.       *)
LockRefreshTokenByHash(r) ==
  /\ pc[r] = "sent"
  /\ Free(cookie[r])
  /\ \/ /\ \/ status[cookie[r]] = "revoked" /\ Raced(cookie[r])
           \/ status[cookie[r]] = "live" /\ cookie[r] \in expired
        /\ Respond(r, NoToken)
     \/ /\ owned' = [owned EXCEPT ![r] = {cookie[r]}]
        /\ \/ /\ status[cookie[r]] = "revoked" /\ ~Raced(cookie[r])
              /\ pc' = [pc EXCEPT ![r] = "burn"]
           \/ /\ status[cookie[r]] = "live" /\ cookie[r] \notin expired
              /\ pc' = [pc EXCEPT ![r] = "mint"]
        /\ UNCHANGED answer
  /\ UNCHANGED <<db, clock, jar, cookie, hit>>

(* Insert the replacement, revoke the presented token, commit.              *)
CommitRotation(r) ==
  /\ pc[r] = "mint"
  /\ \E t \in Unused :
       /\ \A u \in Unused : t <= u
       /\ status' = [status EXCEPT ![t] = "live", ![cookie[r]] = "revoked"]
       /\ replacedBy' = [replacedBy EXCEPT ![cookie[r]] = t]
       /\ root' = [root EXCEPT ![t] = root[cookie[r]]]
       /\ Respond(r, t)
  /\ UNCHANGED <<clock, jar, cookie, hit>>

(* RevokeAllRefreshTokensForUser starts: its snapshot finds the live rows.  *)
StartBurn(r) ==
  /\ pc[r] = "burn"
  /\ pc' = [pc EXCEPT ![r] = "burning"]
  /\ hit' = [hit EXCEPT ![r] = Live]
  /\ UNCHANGED <<db, clock, jar, cookie, owned, answer>>

(* The rows the burn has yet to write: neither locked by it nor revoked in  *)
(* the meantime.                                                            *)
BurnLeft(r) == (hit[r] \ owned[r]) \cap Live

(* Lock and write the next row, once whoever holds it is done.              *)
BurnRow(r) ==
  /\ pc[r] = "burning"
  /\ \E t \in BurnLeft(r) :
       /\ \A u \in BurnLeft(r) : t <= u
       /\ Free(t)
       /\ owned' = [owned EXCEPT ![r] = @ \cup {t}]
  /\ UNCHANGED <<db, clock, jar, pc, cookie, hit, answer>>

(* Fault: the deferred rollback undoes the burn. *)
BurnRolledBack(r) ==
  /\ pc[r] = "burning"
  /\ BurnLeft(r) = {}
  /\ Respond(r, NoToken)
  /\ UNCHANGED <<db, clock, jar, cookie, hit>>

CommitBurn(r) ==
  /\ pc[r] = "burning"
  /\ BurnLeft(r) = {}
  /\ status' = [t \in Tokens |-> IF t \in owned[r] THEN "revoked" ELSE status[t]]
  /\ Respond(r, NoToken)
  /\ UNCHANGED <<replacedBy, root, clock, jar, cookie, hit>>

(* A statement fails or the server dies: the transaction rolls back.        *)
Rollback(r) ==
  /\ pc[r] \in {"sent", "mint", "burn", "burning", "revoke"}
  /\ hit' = [hit EXCEPT ![r] = {}]
  /\ Respond(r, NoToken)
  /\ UNCHANGED <<db, clock, jar, cookie>>

-----------------------------------------------------------------------------
(* Logout *)

(* The cookie is forgotten.  Its row is revoked too if the client sent the  *)
(* token; the row is looked up first, without a lock.                       *)
Logout(r) ==
  /\ pc[r] = "idle"
  /\ jar[Home[r]] # NoToken
  /\ TokensLeft
  /\ \/ /\ Home[r] \in LogoutClients /\ jar[Home[r]] \in Live
        /\ pc' = [pc EXCEPT ![r] = "revoke"]
        /\ cookie' = [cookie EXCEPT ![r] = jar[Home[r]]]
        /\ UNCHANGED jar
     \/ /\ ~(Home[r] \in LogoutClients /\ jar[Home[r]] \in Live)
        /\ jar' = [jar EXCEPT ![Home[r]] = NoToken]
        /\ UNCHANGED <<pc, cookie>>
  /\ UNCHANGED <<db, clock, owned, hit, answer>>

(* Fault: the UPDATE does not ask for revoked_at IS NULL again. *)
RevokeAgain(r) ==
  /\ pc[r] = "revoke"
  /\ Free(cookie[r])
  /\ status' = [status EXCEPT ![cookie[r]] = "revoked"]
  /\ replacedBy' = [replacedBy EXCEPT ![cookie[r]] = NoToken]
  /\ Respond(r, NoToken)
  /\ UNCHANGED <<root, clock, jar, cookie, hit>>

(* RevokeRefreshToken outside a rotation: only a row still live.            *)
RevokeRefreshToken(r) ==
  /\ pc[r] = "revoke"
  /\ Free(cookie[r])
  /\ status' = [status EXCEPT ![cookie[r]] = "revoked"]
  /\ Respond(r, NoToken)
  /\ UNCHANGED <<replacedBy, root, clock, jar, cookie, hit>>

-----------------------------------------------------------------------------
(* Answers and the clock *)

Finished(r) ==
  /\ pc[r] = "reply"
  /\ pc' = [pc EXCEPT ![r] = "idle"]
  /\ cookie' = [cookie EXCEPT ![r] = NoToken]
  /\ answer' = [answer EXCEPT ![r] = NoToken]
  /\ hit' = [hit EXCEPT ![r] = {}]
  /\ UNCHANGED <<db, owned, expired, stale>>

(* The answer reaches the browser: a new cookie, or the cookie is cleared.  *)
SetRefreshCookie(r) ==
  /\ Finished(r)
  /\ jar' = [jar EXCEPT ![Home[r]] = answer[r]]
  /\ UNCHANGED unheard

(* The answer is lost, or is a 500 that sets no cookie.                     *)
LoseAnswer(r) ==
  /\ Finished(r)
  /\ unheard' = unheard \cup {cookie[r]}
  /\ UNCHANGED jar

(* The race window of t ends; requests that presented t may be unanswered.  *)
WindowEnds(t) ==
  /\ replacedBy[t] # NoToken /\ t \notin stale
  /\ stale' = stale \cup {t}
  /\ unheard' = unheard \cup {cookie[r] : r \in {q \in InFlight : cookie[q] = t}}
  /\ UNCHANGED <<db, expired, jar, request>>

Expire(t) ==
  /\ t \in Live \ expired
  /\ Cardinality(expired) < MaxExpired
  /\ expired' = expired \cup {t}
  /\ UNCHANGED <<db, stale, unheard, jar, request>>

-----------------------------------------------------------------------------
Handle(r) ==
  \/ LockRefreshTokenByHash(r) \/ CommitRotation(r)
  \/ StartBurn(r) \/ BurnRow(r) \/ CommitBurn(r)
  \/ RevokeRefreshToken(r)

Next ==
  \/ \E b \in Browsers : IssueRefreshToken(b)
  \/ \E r \in Tabs :
       \/ Refresh(r) \/ Logout(r) \/ Handle(r) \/ Rollback(r)
       \/ SetRefreshCookie(r) \/ LoseAnswer(r)
  \/ \E t \in Tokens : WindowEnds(t) \/ Expire(t)

Spec == Init /\ [][Next]_vars

(* A handler goes on, also when others keep taking the row it waits for:    *)
(* row locks are granted in the order they were asked for.  An answer       *)
(* arrives or is lost.                                                      *)
Fairness ==
  \A r \in Tabs : SF_vars(Handle(r)) /\ WF_vars(SetRefreshCookie(r))

FairSpec == Spec /\ Fairness

(* Nothing goes wrong: no failure, loss, logout or expiry, and every        *)
(* request is answered within the race window.                              *)
CalmNext ==
  \/ \E b \in Browsers : IssueRefreshToken(b)
  \/ \E r \in Tabs : Refresh(r) \/ Handle(r) \/ SetRefreshCookie(r)

CalmSpec == Init /\ [][CalmNext]_vars

-----------------------------------------------------------------------------
(* Properties *)

(* Every variable has its type; no row without a login or a rotation.       *)
RefreshTypeOK ==
  /\ status \in [Tokens -> {"unused", "live", "revoked"}]
  /\ replacedBy \in [Tokens -> Tokens \cup {NoToken}]
  /\ root \in [Tokens -> Tokens]
  /\ expired \subseteq Tokens /\ stale \subseteq Tokens /\ unheard \subseteq Tokens
  /\ jar \in [Browsers -> (Tokens \ Unused) \cup {NoToken}]
  /\ pc \in [Tabs -> {"idle", "sent", "mint", "burn", "burning", "revoke", "reply"}]
  /\ cookie \in [Tabs -> (Tokens \ Unused) \cup {NoToken}]
  /\ owned \in [Tabs -> SUBSET Tokens]
  /\ hit \in [Tabs -> SUBSET Tokens]
  /\ answer \in [Tabs -> (Tokens \ Unused) \cup {NoToken}]

(* However the tabs of all browsers race, one login never has two live      *)
(* tokens (LockRefreshTokenByHash, the rotation as one transaction).        *)
OneLivePerLogin ==
  \A t, u \in Live : root[t] = root[u] => t = u

(* A revoked token stays revoked, and who replaced it is never rewritten,   *)
(* also when a logout races a rotation: the race window reads it.           *)
RevocationStands ==
  [][\A t \in Tokens : status[t] = "revoked" =>
       status'[t] = "revoked" /\ replacedBy'[t] = replacedBy[t]]_vars

(* Tabs that race, all answered within the window, burn nothing: a request  *)
(* that burns presents a token that was logged out or burned, or one whose  *)
(* rotation or race some tab did not hear about in time.                    *)
TabRacesBurnNothing ==
  \A r \in Tabs : pc[r] \in {"burn", "burning"} =>
    replacedBy[cookie[r]] = NoToken \/ cookie[r] \in unheard

(* Once a replay is answered, every token that was live when its burn       *)
(* looked is revoked, also those other transactions were rotating.          *)
BurnRevokesWhatItFound ==
  \A r \in Tabs : pc[r] = "reply" => hit[r] \cap Live = {}

(* Row locks never block a request for good: each one is answered.          *)
RequestsAreAnswered ==
  \A r \in Tabs : pc[r] # "idle" ~> pc[r] = "idle"

(* While nothing goes wrong, a signed-in browser loses its cookie only if   *)
(* an answer that sets it again is on its way: "an active session slides    *)
(* forward indefinitely" (docs/adr/0001-opaque-refresh-tokens.md:28).       *)
ActiveSessionSlides ==
  [][\A b \in Browsers : jar[b] # NoToken /\ jar'[b] = NoToken =>
       \E r \in Tabs : /\ Home[r] = b
                       /\ pc'[r] = "reply" /\ answer'[r] # NoToken]_vars

=============================================================================
