--------------------------- MODULE Tokens_proofs ---------------------------
(***************************************************************************)
(* Theorems about the two kinds of token the backend hands out, for any     *)
(* number of tokens: RefreshTokens, with any browsers and tabs, and the     *)
(* invite links of a board, with any managers and people.                   *)
(*                                                                         *)
(* OneLivePerLogin is kept by a rotation because the token it replaces is  *)
(* still the live one of its login when it commits: it was live when the   *)
(* row was locked (MintingIsLive), and only the transaction that holds a   *)
(* row writes it (OwnersDiffer).  A new token cannot meet a live one of    *)
(* its own login, since logins are named by tokens in use (RootsInUse).    *)
(*                                                                         *)
(* TabRacesBurnNothing follows a token from the answer that brings it to    *)
(* the cookie of one browser (TokenHasOneBrowser) and out of it again: a    *)
(* replaced token is only in a jar while a request that presented it is in  *)
(* flight, or after an answer was lost or late (ReplacedIsOnItsWayOut).     *)
(*                                                                         *)
(* A replaced invite link is dead because the transaction that replaced it  *)
(* revoked every link that was live when its request began: its snapshot    *)
(* found them (FoundIsComplete) and its UPDATE has them when it commits     *)
(* (RevokingIsComplete).                                                    *)
(***************************************************************************)
EXTENDS RefreshTokens, Invites, TLAPS

-----------------------------------------------------------------------------
(* Refresh tokens *)

Used == Tokens \ Unused

(* A request in flight presents a token that was issued. *)
PresentsToken ==
  \A r \in Tabs : pc[r] # "idle" => cookie[r] \in Used

(* A rotation about to commit holds the row of a live token. *)
MintingIsLive ==
  \A r \in Tabs : pc[r] = "mint" => cookie[r] \in owned[r] \cap Live

OwnersDiffer ==
  \A r, q \in Tabs : r # q => owned[r] \cap owned[q] = {}

(* A login is named by a token in use, an unused token only by itself. *)
RootsInUse ==
  \A t \in Tokens : /\ t \in Used => root[t] \in Used
                    /\ t \in Unused => root[t] = t

(* Only a burn has a snapshot; it and the locked rows are issued tokens. *)
HitsInUse ==
  \A r \in Tabs : /\ hit[r] \cup owned[r] \subseteq Used
                  /\ pc[r] \notin {"burning", "reply"} => hit[r] = {}

IInv ==
  /\ RefreshTypeOK /\ PresentsToken /\ MintingIsLive /\ OwnersDiffer
  /\ RootsInUse /\ HitsInUse /\ OneLivePerLogin /\ BurnRevokesWhatItFound

LEMMA InitInv == Init => IInv
BY DEF Init, IInv, RefreshTypeOK, PresentsToken, MintingIsLive, OwnersDiffer,
   RootsInUse, HitsInUse, OneLivePerLogin, BurnRevokesWhatItFound, Used,
   Unused, Live, Tokens, NoToken

(* Steps that leave the table alone and lock no row: the parts about rows   *)
(* hold if the step's requests are typed and stay in order.                 *)
LEMMA NoWrite ==
  ASSUME IInv, UNCHANGED db,
         expired' \subseteq Tokens, stale' \subseteq Tokens,
         unheard' \subseteq Tokens,
         jar' \in [Browsers -> Used \cup {NoToken}],
         pc' \in [Tabs -> {"idle", "sent", "mint", "burn", "burning", "revoke", "reply"}],
         cookie' \in [Tabs -> Used \cup {NoToken}],
         owned' \in [Tabs -> SUBSET Tokens],
         hit' \in [Tabs -> SUBSET Tokens],
         answer' \in [Tabs -> Used \cup {NoToken}]
  PROVE  /\ RefreshTypeOK' /\ RootsInUse' /\ OneLivePerLogin'
         /\ Used' = Used /\ Live' = Live
<1>1. Used' = Used /\ Live' = Live /\ Unused' = Unused
  BY DEF db, Used, Live, Unused
<1>2. RefreshTypeOK'
  BY <1>1 DEF IInv, RefreshTypeOK, db, Used
<1>3. RootsInUse' /\ OneLivePerLogin'
  BY <1>1 DEF IInv, RootsInUse, OneLivePerLogin, db
<1> QED
  BY <1>1, <1>2, <1>3

(* A step that leaves the table alone and moves only the request of r, in   *)
(* a way that keeps what the invariant says of a single request.            *)
Moves(r) ==
  /\ UNCHANGED <<db, expired, stale>> /\ unheard' \subseteq Tokens
  /\ jar' \in [Browsers -> Used \cup {NoToken}]
  /\ pc' = [pc EXCEPT ![r] = pc'[r]] /\ cookie' = [cookie EXCEPT ![r] = cookie'[r]]
  /\ owned' = [owned EXCEPT ![r] = owned'[r]] /\ hit' = [hit EXCEPT ![r] = hit'[r]]
  /\ answer' = [answer EXCEPT ![r] = answer'[r]]
  /\ pc'[r] \in {"idle", "sent", "mint", "burn", "burning", "revoke", "reply"}
  /\ cookie'[r] \in Used \cup {NoToken} /\ answer'[r] \in Used \cup {NoToken}
  /\ owned'[r] \subseteq Used /\ hit'[r] \subseteq Used
  /\ pc'[r] # "idle" => cookie'[r] \in Used
  /\ pc'[r] = "mint" => cookie'[r] \in owned'[r] \cap Live
  /\ \A q \in Tabs \ {r} : owned'[r] \cap owned[q] = {}
  /\ pc'[r] \notin {"burning", "reply"} => hit'[r] = {}
  /\ pc'[r] = "reply" => hit'[r] \cap Live = {}

LEMMA OneRequest ==
  ASSUME IInv, NEW r \in Tabs, Moves(r)
  PROVE  IInv'
<1> USE DEF Moves
<1>1. /\ pc' \in [Tabs -> {"idle", "sent", "mint", "burn", "burning", "revoke", "reply"}]
      /\ cookie' \in [Tabs -> Used \cup {NoToken}]
      /\ owned' \in [Tabs -> SUBSET Tokens] /\ hit' \in [Tabs -> SUBSET Tokens]
      /\ answer' \in [Tabs -> Used \cup {NoToken}]
      /\ expired \subseteq Tokens /\ stale \subseteq Tokens
  BY DEF IInv, RefreshTypeOK, Used
<1>2. \A q \in Tabs \ {r} : /\ pc'[q] = pc[q] /\ cookie'[q] = cookie[q]
                            /\ owned'[q] = owned[q] /\ hit'[q] = hit[q]
  BY DEF IInv, RefreshTypeOK
<1>3. /\ RefreshTypeOK' /\ RootsInUse' /\ OneLivePerLogin'
      /\ Used' = Used /\ Live' = Live
  BY <1>1, NoWrite
<1>4. PresentsToken' /\ MintingIsLive'
  BY <1>2, <1>3 DEF IInv, PresentsToken, MintingIsLive
<1>5. OwnersDiffer'
  <2> SUFFICES ASSUME NEW u \in Tabs, NEW v \in Tabs, u # v
               PROVE  owned'[u] \cap owned'[v] = {}
    BY DEF OwnersDiffer
  <2>1. CASE u # r /\ v # r
    BY <1>2, <2>1 DEF IInv, OwnersDiffer
  <2>2. CASE u = r
    BY <1>2, <2>2
  <2>3. CASE v = r
    BY <1>2, <2>3
  <2> QED
    BY <2>1, <2>2, <2>3
<1>6. HitsInUse' /\ BurnRevokesWhatItFound'
  BY <1>2, <1>3 DEF IInv, HitsInUse, BurnRevokesWhatItFound
<1> QED
  BY <1>3, <1>4, <1>5, <1>6 DEF IInv

(* Revoking tokens, at the end of a transaction of r.                       *)
LEMMA RevokeStep ==
  ASSUME IInv, NEW r \in Tabs, pc[r] # "idle", NEW D \in SUBSET Used,
         status' = [t \in Tokens |-> IF t \in D THEN "revoked" ELSE status[t]],
         UNCHANGED <<replacedBy, root, clock, jar, cookie, hit>>,
         Respond(r, NoToken),
         hit[r] \cap Live \subseteq D,
         \A q \in Tabs \ {r} : pc[q] = "mint" => cookie[q] \notin D
  PROVE  IInv'
<1>1. /\ status \in [Tokens -> {"unused", "live", "revoked"}]
      /\ pc \in [Tabs -> {"idle", "sent", "mint", "burn", "burning", "revoke", "reply"}]
      /\ owned \in [Tabs -> SUBSET Tokens]
      /\ answer \in [Tabs -> Used \cup {NoToken}]
  BY DEF IInv, RefreshTypeOK, Used
<1>2. Used' = Used /\ Unused' = Unused /\ Live' = Live \ D
  BY <1>1 DEF Used, Unused, Live
<1>3. /\ pc'[r] = "reply" /\ owned'[r] = {}
      /\ \A q \in Tabs \ {r} : pc'[q] = pc[q] /\ owned'[q] = owned[q]
  BY <1>1 DEF Respond
<1>4. RefreshTypeOK'
  <2>1. /\ status' \in [Tokens -> {"unused", "live", "revoked"}]
        /\ pc' \in [Tabs -> {"idle", "sent", "mint", "burn", "burning", "revoke", "reply"}]
        /\ owned' \in [Tabs -> SUBSET Tokens]
        /\ answer' \in [Tabs -> Used \cup {NoToken}]
    BY <1>1 DEF Respond
  <2> QED
    BY <2>1, <1>2 DEF IInv, RefreshTypeOK, Used, clock
<1>5. RootsInUse' /\ OneLivePerLogin'
  BY <1>2 DEF IInv, RootsInUse, OneLivePerLogin
<1>6. PresentsToken' /\ MintingIsLive'
  BY <1>2, <1>3 DEF IInv, PresentsToken, MintingIsLive
<1>7. OwnersDiffer'
  BY <1>3 DEF IInv, OwnersDiffer
<1>8. HitsInUse' /\ BurnRevokesWhatItFound'
  BY <1>2, <1>3 DEF IInv, HitsInUse, BurnRevokesWhatItFound
<1> QED
  BY <1>4, <1>5, <1>6, <1>7, <1>8 DEF IInv

LEMMA IssueKeeps ==
  ASSUME IInv, NEW b \in Browsers, IssueRefreshToken(b)
  PROVE  IInv'
<1>1. PICK t \in Unused : /\ status' = [status EXCEPT ![t] = "live"]
                          /\ jar' = [jar EXCEPT ![b] = t]
  BY DEF IssueRefreshToken
<1>2. UNCHANGED <<replacedBy, root, expired, stale, unheard>> /\ UNCHANGED <<pc, cookie, owned, hit, answer>>
  BY DEF IssueRefreshToken, clock, request
<1>3. /\ Used' = Used \cup {t} /\ Unused' = Unused \ {t}
      /\ Live' = Live \cup {t} /\ t \notin Used /\ t \in Tokens /\ root[t] = t
  BY <1>1 DEF IInv, RefreshTypeOK, Used, Unused, Live, RootsInUse
<1>4. RefreshTypeOK'
  <2>1. status' \in [Tokens -> {"unused", "live", "revoked"}]
    BY <1>1 DEF IInv, RefreshTypeOK
  <2>2. jar' \in [Browsers -> Used' \cup {NoToken}]
    BY <1>1, <1>3 DEF IInv, RefreshTypeOK, Used
  <2> QED
    BY <1>2, <1>3, <2>1, <2>2 DEF IInv, RefreshTypeOK, Used
<1>5. RootsInUse'
  BY <1>2, <1>3 DEF IInv, RootsInUse
<1>6. OneLivePerLogin'
  <2>1. \A u \in Live : u \in Used /\ root[u] # t
    BY <1>3 DEF IInv, RootsInUse, Used, Live, Unused
  <2> QED
    BY <1>2, <1>3, <2>1 DEF IInv, OneLivePerLogin
<1>7. PresentsToken' /\ MintingIsLive' /\ OwnersDiffer' /\ HitsInUse'
  BY <1>2, <1>3 DEF IInv, PresentsToken, MintingIsLive, OwnersDiffer, HitsInUse
<1>8. BurnRevokesWhatItFound'
  BY <1>2, <1>3 DEF IInv, BurnRevokesWhatItFound, HitsInUse
<1> QED
  BY <1>4, <1>5, <1>6, <1>7, <1>8 DEF IInv

LEMMA RotationKeeps ==
  ASSUME IInv, NEW r \in Tabs, CommitRotation(r)
  PROVE  IInv'
<1> DEFINE c == cookie[r]
<1>1. PICK t \in Unused :
        /\ status' = [status EXCEPT ![t] = "live", ![c] = "revoked"]
        /\ replacedBy' = [replacedBy EXCEPT ![c] = t]
        /\ root' = [root EXCEPT ![t] = root[c]]
        /\ Respond(r, t)
  BY DEF CommitRotation
<1>2. /\ pc[r] = "mint" /\ c \in owned[r] /\ c \in Live /\ hit[r] = {}
      /\ UNCHANGED <<expired, stale, unheard, jar, cookie, hit>>
  BY DEF CommitRotation, clock, IInv, MintingIsLive, HitsInUse
<1>3. /\ Used' = Used \cup {t} /\ Unused' = Unused \ {t}
      /\ Live' = (Live \cup {t}) \ {c}
      /\ t \notin Used /\ t \in Tokens /\ c \in Used /\ c \in Tokens /\ c # t
  BY <1>1, <1>2 DEF IInv, RefreshTypeOK, Used, Unused, Live
<1>4. /\ pc'[r] = "reply" /\ owned'[r] = {}
      /\ \A q \in Tabs \ {r} : pc'[q] = pc[q] /\ owned'[q] = owned[q]
  BY <1>1 DEF Respond, IInv, RefreshTypeOK
<1>5. /\ root'[t] = root[c] /\ \A u \in Tokens \ {t} : root'[u] = root[u]
      /\ root[c] \in Used
  BY <1>1, <1>3 DEF IInv, RefreshTypeOK, RootsInUse
<1>6. RefreshTypeOK'
  <2>1. /\ status' \in [Tokens -> {"unused", "live", "revoked"}]
        /\ replacedBy' \in [Tokens -> Tokens \cup {NoToken}]
        /\ root' \in [Tokens -> Tokens]
    BY <1>1, <1>3, <1>5 DEF IInv, RefreshTypeOK, Used
  <2>2. /\ pc' \in [Tabs -> {"idle", "sent", "mint", "burn", "burning", "revoke", "reply"}]
        /\ owned' \in [Tabs -> SUBSET Tokens]
        /\ answer' \in [Tabs -> Used' \cup {NoToken}]
    BY <1>1, <1>3 DEF Respond, IInv, RefreshTypeOK, Used
  <2> QED
    BY <1>2, <1>3, <2>1, <2>2 DEF IInv, RefreshTypeOK, Used
<1>7. RootsInUse'
  BY <1>3, <1>5 DEF IInv, RootsInUse
<1>8. OneLivePerLogin'
  <2>1. \A u \in Live \ {c} : root[u] # root[c]
    BY <1>2 DEF IInv, OneLivePerLogin
  <2>2. Live \subseteq Used /\ Live \subseteq Tokens
    BY DEF Live, Used, Unused
  <2>3. \A u \in Live' : u = t \/ (u \in Live \ {c} /\ root'[u] = root[u])
    BY <1>3, <1>5, <2>2
  <2> QED
    BY <1>5, <2>1, <2>3 DEF IInv, OneLivePerLogin
<1>9. PresentsToken' /\ OwnersDiffer' /\ HitsInUse'
  BY <1>2, <1>3, <1>4 DEF IInv, PresentsToken, OwnersDiffer, HitsInUse
<1>10. MintingIsLive'
  BY <1>2, <1>3, <1>4 DEF IInv, MintingIsLive, OwnersDiffer
<1>11. BurnRevokesWhatItFound'
  BY <1>2, <1>3, <1>4 DEF IInv, BurnRevokesWhatItFound, HitsInUse
<1> QED
  BY <1>6, <1>7, <1>8, <1>9, <1>10, <1>11 DEF IInv

LEMMA NextKeepsInv == IInv /\ [Next]_vars => IInv'
<1> SUFFICES ASSUME IInv, [Next]_vars PROVE IInv'
  OBVIOUS
<1> USE DEF NoToken
<1>0. /\ jar \in [Browsers -> Used \cup {NoToken}]
      /\ pc \in [Tabs -> {"idle", "sent", "mint", "burn", "burning", "revoke", "reply"}]
      /\ cookie \in [Tabs -> Used \cup {NoToken}]
      /\ owned \in [Tabs -> SUBSET Tokens] /\ hit \in [Tabs -> SUBSET Tokens]
      /\ answer \in [Tabs -> Used \cup {NoToken}]
      /\ unheard \subseteq Tokens /\ Used \subseteq Tokens /\ Live \subseteq Used
      /\ \A r \in Tabs : hit[r] \subseteq Used /\ owned[r] \subseteq Used /\ Home[r] \in Browsers
  BY RefreshAssumption DEF IInv, RefreshTypeOK, Used, Live, Unused, HitsInUse
<1>1. ASSUME NEW b \in Browsers, IssueRefreshToken(b) PROVE IInv'
  BY <1>1, IssueKeeps
<1>2. ASSUME NEW r \in Tabs, Refresh(r) PROVE IInv'
  <2>1. /\ pc[r] = "idle" /\ jar[Home[r]] \in Used
        /\ pc' = [pc EXCEPT ![r] = "sent"]
        /\ cookie' = [cookie EXCEPT ![r] = jar[Home[r]]]
        /\ UNCHANGED <<db, clock, jar, owned, hit, answer>>
    BY <1>0, <1>2 DEF Refresh
  <2>2. hit[r] = {} /\ \A q \in Tabs \ {r} : owned[r] \cap owned[q] = {}
    BY <2>1 DEF IInv, HitsInUse, OwnersDiffer
  <2>3. /\ owned' = [owned EXCEPT ![r] = owned[r]] /\ hit' = [hit EXCEPT ![r] = {}]
        /\ answer' = [answer EXCEPT ![r] = answer[r]]
    BY <1>0, <2>1, <2>2
  <2>4. /\ pc'[r] = "sent" /\ cookie'[r] \in Used /\ owned'[r] = owned[r]
        /\ hit'[r] = {} /\ answer'[r] = answer[r]
    BY <1>0, <2>1, <2>2, <2>3
  <2>9. Moves(r)
    BY <1>0, <2>1, <2>2, <2>3, <2>4 DEF clock, Moves
  <2> QED
    BY <2>9, OneRequest
<1>3. ASSUME NEW r \in Tabs, LockRefreshTokenByHash(r) PROVE IInv'
  <2>1. /\ pc[r] = "sent" /\ cookie[r] \in Used /\ hit[r] = {} /\ Free(cookie[r])
        /\ UNCHANGED <<db, clock, jar, cookie, hit>>
    BY <1>3 DEF LockRefreshTokenByHash, IInv, PresentsToken, HitsInUse
  <2>2. /\ cookie' = [cookie EXCEPT ![r] = cookie[r]] /\ hit' = [hit EXCEPT ![r] = {}]
    BY <1>0, <2>1
  <2>3. CASE Respond(r, NoToken)
    <3>1. /\ pc'[r] = "reply" /\ cookie'[r] = cookie[r] /\ owned'[r] = {}
          /\ hit'[r] = {} /\ answer'[r] = NoToken
      BY <1>0, <2>2, <2>3 DEF Respond
    <3>9. Moves(r)
      BY <1>0, <2>1, <2>2, <2>3, <3>1 DEF Respond, clock, Moves
    <3> QED
      BY <3>9, OneRequest
  <2>4. ASSUME NEW p \in {"burn", "mint"}, owned' = [owned EXCEPT ![r] = {cookie[r]}],
               pc' = [pc EXCEPT ![r] = p], answer' = answer,
               p = "mint" => cookie[r] \in Live
        PROVE  IInv'
    <3>1. answer' = [answer EXCEPT ![r] = answer[r]]
      BY <1>0, <2>4
    <3>2. \A q \in Tabs \ {r} : {cookie[r]} \cap owned[q] = {}
      BY <2>1 DEF Free
    <3>9. Moves(r)
      BY <1>0, <2>1, <2>2, <2>4, <3>1, <3>2 DEF clock, Moves
    <3> QED
      BY <3>9, OneRequest
  <2>5. \/ Respond(r, NoToken)
        \/ \E p \in {"burn", "mint"} :
             /\ owned' = [owned EXCEPT ![r] = {cookie[r]}]
             /\ pc' = [pc EXCEPT ![r] = p] /\ answer' = answer
             /\ p = "mint" => cookie[r] \in Live
    BY <1>0, <1>3, <2>1 DEF LockRefreshTokenByHash, Live
  <2> QED
    BY <2>3, <2>4, <2>5
<1>4. ASSUME NEW r \in Tabs, CommitRotation(r) PROVE IInv'
  BY <1>4, RotationKeeps
<1>5. ASSUME NEW r \in Tabs, StartBurn(r) PROVE IInv'
  <2>1. /\ pc[r] = "burn" /\ cookie[r] \in Used
        /\ pc' = [pc EXCEPT ![r] = "burning"] /\ hit' = [hit EXCEPT ![r] = Live]
        /\ UNCHANGED <<db, clock, jar, cookie, owned, answer>>
        /\ \A q \in Tabs \ {r} : owned[r] \cap owned[q] = {}
    BY <1>5 DEF StartBurn, IInv, PresentsToken, OwnersDiffer
  <2>2. /\ cookie' = [cookie EXCEPT ![r] = cookie[r]] /\ owned' = [owned EXCEPT ![r] = owned[r]]
        /\ answer' = [answer EXCEPT ![r] = answer[r]]
    BY <1>0, <2>1
  <2>9. Moves(r)
    BY <1>0, <2>1, <2>2 DEF clock, Moves
  <2> QED
    BY <2>9, OneRequest
<1>6. ASSUME NEW r \in Tabs, BurnRow(r) PROVE IInv'
  <2>1. PICK t \in BurnLeft(r) : Free(t) /\ owned' = [owned EXCEPT ![r] = owned[r] \cup {t}]
    BY <1>6 DEF BurnRow
  <2>2. /\ pc[r] = "burning" /\ cookie[r] \in Used /\ t \in Tokens
        /\ UNCHANGED <<db, clock, jar, pc, cookie, hit, answer>>
        /\ \A q \in Tabs \ {r} : (owned[r] \cup {t}) \cap owned[q] = {}
    BY <1>0, <1>6, <2>1 DEF BurnRow, BurnLeft, Free, IInv, PresentsToken, OwnersDiffer
  <2>3. /\ cookie' = [cookie EXCEPT ![r] = cookie[r]] /\ pc' = [pc EXCEPT ![r] = "burning"]
        /\ answer' = [answer EXCEPT ![r] = answer[r]] /\ hit' = [hit EXCEPT ![r] = hit[r]]
    BY <1>0, <2>2
  <2>4. /\ pc'[r] = "burning" /\ cookie'[r] = cookie[r] /\ owned'[r] = owned[r] \cup {t}
        /\ hit'[r] = hit[r] /\ answer'[r] = answer[r] /\ t \in Used
    BY <1>0, <2>1, <2>2, <2>3 DEF BurnLeft
  <2>9. Moves(r)
    BY <1>0, <2>1, <2>2, <2>3, <2>4 DEF clock, Moves
  <2> QED
    BY <2>9, OneRequest
<1>7. ASSUME NEW r \in Tabs, CommitBurn(r) PROVE IInv'
  <2>1. /\ pc[r] = "burning" /\ BurnLeft(r) = {} /\ Respond(r, NoToken)
        /\ UNCHANGED <<replacedBy, root, clock, jar, cookie, hit>>
        /\ status' = [t \in Tokens |-> IF t \in owned[r] THEN "revoked" ELSE status[t]]
    BY <1>7 DEF CommitBurn
  <2>2. hit[r] \cap Live \subseteq owned[r]
    BY <2>1 DEF BurnLeft
  <2>3. \A q \in Tabs \ {r} : pc[q] = "mint" => cookie[q] \notin owned[r]
    BY DEF IInv, MintingIsLive, OwnersDiffer
  <2> QED
    BY <1>0, <2>1, <2>2, <2>3, RevokeStep
<1>8. ASSUME NEW r \in Tabs, RevokeRefreshToken(r) PROVE IInv'
  <2>1. /\ pc[r] = "revoke" /\ cookie[r] \in Used /\ hit[r] = {} /\ Free(cookie[r])
        /\ UNCHANGED <<replacedBy, root, clock, jar, cookie, hit>>
        /\ status' = [status EXCEPT ![cookie[r]] = "revoked"]
        /\ Respond(r, NoToken)
    BY <1>8 DEF RevokeRefreshToken, IInv, PresentsToken, HitsInUse
  <2>2. status' = [t \in Tokens |-> IF t \in {cookie[r]} THEN "revoked" ELSE status[t]]
    BY <1>0, <2>1 DEF IInv, RefreshTypeOK
  <2>3. \A q \in Tabs \ {r} : pc[q] = "mint" => cookie[q] \notin {cookie[r]}
    BY <2>1 DEF Free, IInv, MintingIsLive
  <2> QED
    BY <2>1, <2>2, <2>3, RevokeStep
<1>9. ASSUME NEW r \in Tabs, Rollback(r) PROVE IInv'
  <2>1. /\ cookie' = [cookie EXCEPT ![r] = cookie[r]] /\ hit' = [hit EXCEPT ![r] = {}]
        /\ UNCHANGED <<db, clock, jar>> /\ Respond(r, NoToken) /\ cookie[r] \in Used
    BY <1>0, <1>9 DEF Rollback, IInv, PresentsToken
  <2>2. /\ pc'[r] = "reply" /\ cookie'[r] = cookie[r] /\ owned'[r] = {}
        /\ hit'[r] = {} /\ answer'[r] = NoToken
    BY <1>0, <2>1 DEF Respond
  <2>9. Moves(r)
    BY <1>0, <2>1, <2>2 DEF Respond, clock, Moves
  <2> QED
    BY <2>9, OneRequest
<1>10. ASSUME NEW r \in Tabs, Logout(r) PROVE IInv'
  <2>1. CASE pc' = [pc EXCEPT ![r] = "revoke"]
    <3>1. /\ pc[r] = "idle" /\ jar[Home[r]] \in Used /\ UNCHANGED <<db, clock, owned, hit, answer>>
          /\ hit[r] = {} /\ \A q \in Tabs \ {r} : owned[r] \cap owned[q] = {}
      BY <1>0, <1>10 DEF Logout, IInv, HitsInUse, OwnersDiffer
    <3>2. /\ UNCHANGED jar /\ cookie' = [cookie EXCEPT ![r] = jar[Home[r]]]
      BY <1>0, <1>10, <2>1, <3>1 DEF Logout
    <3>3. /\ owned' = [owned EXCEPT ![r] = owned[r]] /\ hit' = [hit EXCEPT ![r] = {}]
          /\ answer' = [answer EXCEPT ![r] = answer[r]]
      BY <1>0, <3>1
    <3>4. /\ pc'[r] = "revoke" /\ cookie'[r] \in Used /\ owned'[r] = owned[r]
          /\ hit'[r] = {} /\ answer'[r] = answer[r]
      BY <1>0, <2>1, <3>1, <3>2, <3>3
    <3>9. Moves(r)
      BY <1>0, <2>1, <3>1, <3>2, <3>3, <3>4 DEF clock, Moves
    <3> QED
      BY <3>9, OneRequest
  <2>2. CASE jar' = [jar EXCEPT ![Home[r]] = NoToken] /\ UNCHANGED <<pc, cookie>>
    <3>1. UNCHANGED <<db, clock, request>> /\ jar' \in [Browsers -> Used \cup {NoToken}]
      BY <1>0, <1>10, <2>2 DEF Logout, request
    <3>2. /\ RefreshTypeOK' /\ RootsInUse' /\ OneLivePerLogin'
          /\ Used' = Used /\ Live' = Live
      BY <1>0, <3>1, NoWrite DEF request, clock, IInv, RefreshTypeOK
    <3> QED
      BY <3>1, <3>2 DEF IInv, request, PresentsToken, MintingIsLive, OwnersDiffer,
         HitsInUse, BurnRevokesWhatItFound
  <2> QED
    BY <1>10, <2>1, <2>2 DEF Logout
<1>11. ASSUME NEW r \in Tabs, Finished(r), unheard' \subseteq Tokens,
              jar' \in [Browsers -> Used \cup {NoToken}]
       PROVE  IInv'
  <2>1. /\ owned' = [owned EXCEPT ![r] = owned[r]]
        /\ \A q \in Tabs \ {r} : owned[r] \cap owned[q] = {}
    BY <1>0, <1>11 DEF Finished, IInv, OwnersDiffer
  <2>9. Moves(r)
    BY <1>0, <1>11, <2>1 DEF Finished, Moves
  <2> QED
    BY <2>9, OneRequest
<1>12. ASSUME NEW r \in Tabs, SetRefreshCookie(r) PROVE IInv'
  BY <1>0, <1>11, <1>12 DEF SetRefreshCookie
<1>13. ASSUME NEW r \in Tabs, LoseAnswer(r) PROVE IInv'
  <2>1. pc[r] = "reply" /\ Finished(r) /\ unheard' = unheard \cup {cookie[r]} /\ UNCHANGED jar
    BY <1>13 DEF LoseAnswer, Finished
  <2>2. cookie[r] \in Tokens
    BY <2>1 DEF IInv, PresentsToken, Used
  <2> QED
    BY <1>0, <1>11, <2>1, <2>2
<1>14. ASSUME UNCHANGED <<db, jar, request>>, expired' \subseteq Tokens,
              stale' \subseteq Tokens, unheard' \subseteq Tokens
       PROVE  IInv'
  <2>1. /\ RefreshTypeOK' /\ RootsInUse' /\ OneLivePerLogin'
        /\ Used' = Used /\ Live' = Live
    BY <1>0, <1>14, NoWrite DEF request
  <2> QED
    BY <1>14, <2>1 DEF IInv, request, PresentsToken, MintingIsLive, OwnersDiffer,
       HitsInUse, BurnRevokesWhatItFound
<1>15. ASSUME NEW t \in Tokens, WindowEnds(t) PROVE IInv'
  <2>1. {cookie[r] : r \in {q \in InFlight : cookie[q] = t}} \subseteq Tokens
    BY <1>15
  <2> QED
    BY <1>0, <1>14, <1>15, <2>1 DEF WindowEnds, IInv, RefreshTypeOK
<1>16. ASSUME NEW t \in Tokens, Expire(t) PROVE IInv'
  BY <1>0, <1>14, <1>16 DEF Expire, IInv, RefreshTypeOK
<1>17. CASE UNCHANGED vars
  BY <1>14, <1>17 DEF vars, clock, IInv, RefreshTypeOK
<1> QED
  BY <1>1, <1>2, <1>3, <1>4, <1>5, <1>6, <1>7, <1>8, <1>9, <1>10, <1>12, <1>13,
     <1>15, <1>16, <1>17 DEF Next, Handle

THEOREM Invariance == Spec => []IInv
<1> QED
  BY InitInv, NextKeepsInv, PTL DEF Spec

(* The table, the cookies and the requests keep their shape, and a cookie   *)
(* names a token that was issued.                                           *)
THEOREM TypeCorrect == Spec => []RefreshTypeOK
<1>1. IInv => RefreshTypeOK
  BY DEF IInv
<1> QED
  BY <1>1, Invariance, PTL

(* However many tabs and browsers race, one login never has two live tokens *)
(* (LockRefreshTokenByHash: the single-use guarantee).                      *)
THEOREM SingleUse == Spec => []OneLivePerLogin
<1>1. IInv => OneLivePerLogin
  BY DEF IInv
<1> QED
  BY <1>1, Invariance, PTL

(* Once a replay is answered, all its burn found live is revoked.           *)
THEOREM BurnIsComplete == Spec => []BurnRevokesWhatItFound
<1>1. IInv => BurnRevokesWhatItFound
  BY DEF IInv
<1> QED
  BY <1>1, Invariance, PTL

(* No step revives a revoked token or rewrites what replaced it: a rotation *)
(* writes only a token that is still live, and every UPDATE asks again.     *)
THEOREM RevokedForGood == Spec => RevocationStands
<1>1. ASSUME IInv, Next, NEW t \in Tokens, status[t] = "revoked"
      PROVE  status'[t] = "revoked" /\ replacedBy'[t] = replacedBy[t]
  <2>1. CASE UNCHANGED db
    BY <1>1, <2>1 DEF db
  <2>2. ASSUME NEW b \in Browsers, IssueRefreshToken(b)
        PROVE  status'[t] = "revoked" /\ replacedBy'[t] = replacedBy[t]
    BY <1>1, <2>2 DEF IssueRefreshToken, Unused, IInv, RefreshTypeOK
  <2>3. ASSUME NEW r \in Tabs, CommitRotation(r)
        PROVE  status'[t] = "revoked" /\ replacedBy'[t] = replacedBy[t]
    <3>1. cookie[r] # t
      BY <1>1, <2>3 DEF CommitRotation, IInv, MintingIsLive, Live
    <3> QED
      BY <1>1, <2>3, <3>1 DEF CommitRotation, Unused, IInv, RefreshTypeOK
  <2>4. ASSUME NEW r \in Tabs, CommitBurn(r) \/ RevokeRefreshToken(r)
        PROVE  status'[t] = "revoked" /\ replacedBy'[t] = replacedBy[t]
    BY <1>1, <2>4 DEF CommitBurn, RevokeRefreshToken, IInv, RefreshTypeOK
  <2> QED
    BY <1>1, <2>1, <2>2, <2>3, <2>4 DEF Next, Handle, Refresh, Logout, Rollback,
       LockRefreshTokenByHash, StartBurn, BurnRow, SetRefreshCookie, LoseAnswer,
       Finished, WindowEnds, Expire
<1>2. UNCHANGED vars => \A t \in Tokens : status[t] = "revoked" =>
                          status'[t] = "revoked" /\ replacedBy'[t] = replacedBy[t]
  BY DEF vars, db
<1>3. IInv /\ [Next]_vars => [\A t \in Tokens : status[t] = "revoked" =>
                             status'[t] = "revoked" /\ replacedBy'[t] = replacedBy[t]]_vars
  BY <1>1, <1>2
<1> QED
  BY <1>3, Invariance, PTL DEF Spec, RevocationStands

-----------------------------------------------------------------------------
(* Tabs that race burn nothing *)

(* A token that an answer brings is nowhere else, and not yet replaced.     *)
AnswersAreFresh ==
  \A r \in Tabs : answer[r] # NoToken =>
    /\ pc[r] = "reply" /\ replacedBy[answer[r]] = NoToken
    /\ \A b \in Browsers : jar[b] # answer[r]
    /\ \A q \in Tabs : cookie[q] # answer[r] /\ (answer[q] = answer[r] => q = r)

TokenHasOneBrowser ==
  /\ \A b, d \in Browsers : jar[b] # NoToken /\ jar[b] = jar[d] => b = d
  /\ \A r \in Tabs, b \in Browsers :
       jar[b] # NoToken /\ cookie[r] = jar[b] => b = Home[r]
  /\ \A q, r \in Tabs :
       cookie[r] # NoToken /\ cookie[q] = cookie[r] => Home[q] = Home[r]

IdlePresentsNothing == \A r \in Tabs : pc[r] = "idle" => cookie[r] = NoToken

Presented(t) == \E r \in Tabs : cookie[r] = t

ReplacedIsOnItsWayOut ==
  \A b \in Browsers : jar[b] # NoToken /\ replacedBy[jar[b]] # NoToken =>
    jar[b] \in unheard \/ Presented(jar[b])

(* A token whose window is over is presented only if that went unheard.     *)
StaleIsUnheard ==
  \A t \in stale : replacedBy[t] # NoToken /\ (Presented(t) => t \in unheard)

BurnersAreRevoked ==
  /\ \A r \in Tabs : pc[r] \in {"burn", "burning"} => status[cookie[r]] = "revoked"
  /\ \A t \in Unused : replacedBy[t] = NoToken

Whereabouts ==
  /\ AnswersAreFresh /\ TokenHasOneBrowser /\ IdlePresentsNothing
  /\ ReplacedIsOnItsWayOut /\ StaleIsUnheard /\ BurnersAreRevoked

RaceInv == IInv /\ Whereabouts /\ TabRacesBurnNothing

Types ==
  /\ jar \in [Browsers -> Used \cup {NoToken}]
  /\ pc \in [Tabs -> {"idle", "sent", "mint", "burn", "burning", "revoke", "reply"}]
  /\ cookie \in [Tabs -> Used \cup {NoToken}]
  /\ answer \in [Tabs -> Used \cup {NoToken}]
  /\ status \in [Tokens -> {"unused", "live", "revoked"}]
  /\ replacedBy \in [Tokens -> Tokens \cup {NoToken}]
  /\ Home \in [Tabs -> Browsers]
  /\ NoToken \notin Tokens /\ Used = Tokens \ Unused /\ stale \subseteq Tokens

LEMMA InvTypes == IInv => Types
<1>1. NoToken \notin Tokens BY RefreshAssumption DEF Tokens, NoToken
<1> QED BY <1>1, RefreshAssumption DEF IInv, RefreshTypeOK, Types, Used

(* A handler's step that writes no replacement and sets no new cookie.      *)
LEMMA HandlerStep ==
  ASSUME RaceInv, NEW r \in Tabs, pc[r] # "idle",
         UNCHANGED <<replacedBy, jar, cookie, stale, unheard>>,
         pc' = [pc EXCEPT ![r] = pc'[r]], pc'[r] # "idle",
         \/ UNCHANGED answer /\ pc[r] # "reply"
         \/ answer' = [answer EXCEPT ![r] = NoToken],
         \A t \in Tokens : /\ status[t] = "revoked" => status'[t] = "revoked"
                           /\ status'[t] = "unused" => status[t] = "unused",
         pc'[r] \in {"burn", "burning"} =>
           /\ status[cookie[r]] = "revoked"
           /\ replacedBy[cookie[r]] = NoToken \/ cookie[r] \in unheard
  PROVE  Whereabouts' /\ TabRacesBurnNothing'
<1> USE DEF RaceInv, Whereabouts
<1>0. Types BY InvTypes
<1>1. \A q \in Tabs \ {r} : pc'[q] = pc[q] BY <1>0 DEF Types
<1>2. AnswersAreFresh'
  BY <1>0, <1>1 DEF AnswersAreFresh, Types
<1>3. (TokenHasOneBrowser /\ ReplacedIsOnItsWayOut /\ StaleIsUnheard)'
  BY DEF TokenHasOneBrowser, ReplacedIsOnItsWayOut, StaleIsUnheard, Presented
<1>4. IdlePresentsNothing' BY <1>1 DEF IdlePresentsNothing
<1>5. BurnersAreRevoked'
  <2>1. \A q \in Tabs : pc'[q] \in {"burn", "burning"} =>
            cookie[q] \in Tokens /\ status[cookie[q]] = "revoked"
    BY <1>0, <1>1 DEF BurnersAreRevoked, Types, IInv, PresentsToken
  <2>2. \A t \in Unused' : t \in Unused BY DEF Unused
  <2> QED BY <2>1, <2>2 DEF BurnersAreRevoked
<1>6. TabRacesBurnNothing' BY <1>1 DEF TabRacesBurnNothing
<1> QED BY <1>2, <1>3, <1>4, <1>5, <1>6

(* A request presents its browser's cookie.                                 *)
LEMMA PresentStep ==
  ASSUME RaceInv, NEW r \in Tabs, pc[r] = "idle", jar[Home[r]] # NoToken,
         NEW p \in {"sent", "revoke"}, pc' = [pc EXCEPT ![r] = p],
         cookie' = [cookie EXCEPT ![r] = jar[Home[r]]],
         UNCHANGED <<db, clock, jar, answer>>
  PROVE  Whereabouts' /\ TabRacesBurnNothing'
<1> USE DEF RaceInv, Whereabouts
<1>0. Types BY InvTypes
<1>1. /\ pc'[r] = p /\ cookie'[r] = jar[Home[r]] /\ Home[r] \in Browsers
      /\ \A q \in Tabs \ {r} : pc'[q] = pc[q] /\ cookie'[q] = cookie[q]
      /\ UNCHANGED <<status, replacedBy, stale, unheard>>
  BY <1>0 DEF Types, db, clock
<1>2. AnswersAreFresh' BY <1>1 DEF AnswersAreFresh
<1>3. TokenHasOneBrowser' BY <1>1 DEF TokenHasOneBrowser
<1>4. IdlePresentsNothing' BY <1>1 DEF IdlePresentsNothing
<1>5. cookie[r] = NoToken BY DEF IdlePresentsNothing
<1>6. ReplacedIsOnItsWayOut'
  BY <1>1, <1>5 DEF ReplacedIsOnItsWayOut, Presented
<1>7. StaleIsUnheard'
  BY <1>1 DEF StaleIsUnheard, Presented, ReplacedIsOnItsWayOut
<1>8. BurnersAreRevoked' BY <1>1 DEF BurnersAreRevoked, Unused
<1>9. TabRacesBurnNothing' BY <1>1 DEF TabRacesBurnNothing
<1> QED BY <1>2, <1>3, <1>4, <1>6, <1>7, <1>8, <1>9

(* The request of r is over: its answer took its cookie's place in the jar,  *)
(* or went unheard.                                                         *)
LEMMA FinishStep ==
  ASSUME RaceInv, NEW r \in Tabs, SetRefreshCookie(r) \/ LoseAnswer(r)
  PROVE  Whereabouts' /\ TabRacesBurnNothing'
<1> USE DEF RaceInv, Whereabouts
<1>0. Types BY InvTypes
<1>1. /\ pc[r] = "reply" /\ pc'[r] = "idle" /\ cookie'[r] = NoToken
      /\ answer'[r] = NoToken /\ Home[r] \in Browsers
      /\ \A q \in Tabs \ {r} : /\ pc'[q] = pc[q] /\ cookie'[q] = cookie[q]
                              /\ answer'[q] = answer[q]
      /\ UNCHANGED <<status, replacedBy, stale>>
  BY <1>0 DEF SetRefreshCookie, LoseAnswer, Finished, db, Types
<1>2. IdlePresentsNothing' BY <1>1 DEF IdlePresentsNothing
<1>3. unheard \subseteq unheard' BY DEF SetRefreshCookie, LoseAnswer
<1>4. TabRacesBurnNothing' /\ BurnersAreRevoked'
  BY <1>1, <1>3 DEF TabRacesBurnNothing, BurnersAreRevoked, Unused
<1>5. StaleIsUnheard'
  BY <1>0, <1>1, <1>3 DEF StaleIsUnheard, Presented, Types
<1>6. CASE LoseAnswer(r)
  <2>1. UNCHANGED jar /\ unheard' = unheard \cup {cookie[r]}
    BY <1>6 DEF LoseAnswer
  <2>2. AnswersAreFresh' BY <1>1, <2>1 DEF AnswersAreFresh
  <2>3. TokenHasOneBrowser' BY <1>1, <2>1 DEF TokenHasOneBrowser
  <2>4. ReplacedIsOnItsWayOut'
    BY <1>1, <2>1 DEF ReplacedIsOnItsWayOut, Presented
  <2> QED BY <1>2, <1>4, <1>5, <2>2, <2>3, <2>4
<1>7. CASE SetRefreshCookie(r)
  <2>1. UNCHANGED unheard /\ jar'[Home[r]] = answer[r]
        /\ \A b \in Browsers \ {Home[r]} : jar'[b] = jar[b]
    BY <1>0, <1>1, <1>7 DEF SetRefreshCookie, Types
  <2>2. AnswersAreFresh' BY <1>1, <2>1 DEF AnswersAreFresh
  <2>3. TokenHasOneBrowser' BY <1>1, <2>1 DEF TokenHasOneBrowser, AnswersAreFresh
  <2>4. ReplacedIsOnItsWayOut'
    <3> SUFFICES ASSUME NEW b \in Browsers, jar'[b] # NoToken,
                        replacedBy'[jar'[b]] # NoToken
                 PROVE  jar'[b] \in unheard' \/ Presented(jar[b])'
      BY <1>1, <2>1 DEF ReplacedIsOnItsWayOut, AnswersAreFresh
    <3>1. b # Home[r] /\ jar'[b] = jar[b]
      BY <1>1, <2>1 DEF AnswersAreFresh
    <3>2. cookie[r] # jar[b] BY <3>1 DEF TokenHasOneBrowser
    <3> QED BY <1>1, <2>1, <3>1, <3>2 DEF ReplacedIsOnItsWayOut, Presented
  <2> QED BY <1>2, <1>4, <1>5, <2>2, <2>3, <2>4
<1> QED BY <1>6, <1>7

(* A rotation replaces a token that its own request presents.               *)
LEMMA RotateStep ==
  ASSUME RaceInv, NEW r \in Tabs, CommitRotation(r)
  PROVE  Whereabouts' /\ TabRacesBurnNothing'
<1> USE DEF RaceInv, Whereabouts
<1>0. Types BY InvTypes
<1>1. PICK t \in Unused :
        /\ status' = [status EXCEPT ![t] = "live", ![cookie[r]] = "revoked"]
        /\ replacedBy' = [replacedBy EXCEPT ![cookie[r]] = t]
        /\ Respond(r, t)
  BY DEF CommitRotation
<1>2. /\ pc[r] = "mint" /\ cookie[r] \in Live /\ cookie[r] \in Tokens /\ t \in Tokens
      /\ status[cookie[r]] = "live" /\ status[t] = "unused" /\ t # cookie[r] /\ t # NoToken
      /\ UNCHANGED <<stale, unheard, jar, cookie>>
  BY <1>0, <1>1 DEF CommitRotation, clock, IInv, MintingIsLive, Live, Unused, Types
<1>3. /\ pc'[r] = "reply" /\ answer'[r] = t
      /\ \A q \in Tabs \ {r} : pc'[q] = pc[q] /\ answer'[q] = answer[q]
      /\ replacedBy'[cookie[r]] = t
      /\ \A u \in Tokens \ {cookie[r]} : replacedBy'[u] = replacedBy[u]
  BY <1>0, <1>1, <1>2 DEF Respond, Types
<1>4. \A b \in Browsers : jar[b] # t
  BY <1>0, <1>1, <1>2 DEF Types
<1>5. \A q \in Tabs : cookie[q] # t /\ answer[q] # t
  BY <1>0, <1>1, <1>2 DEF Types
<1>6. replacedBy[t] = NoToken /\ replacedBy'[t] = NoToken
  BY <1>1, <1>2, <1>3 DEF BurnersAreRevoked
<1>7. AnswersAreFresh'
  <2>1. \A q \in Tabs \ {r} : answer[q] # NoToken =>
          answer[q] \in Tokens /\ answer[q] # cookie[r]
    BY <1>0 DEF Types, AnswersAreFresh
  <2> QED BY <1>2, <1>3, <1>4, <1>5, <1>6, <2>1 DEF AnswersAreFresh
<1>8. TokenHasOneBrowser' BY <1>2 DEF TokenHasOneBrowser
<1>9. IdlePresentsNothing' BY <1>2, <1>3 DEF IdlePresentsNothing
<1>10. ReplacedIsOnItsWayOut'
  <2>1. \A b \in Browsers : jar[b] # NoToken => jar[b] \in Tokens
    BY <1>0 DEF Types
  <2> QED BY <1>2, <1>3, <2>1 DEF ReplacedIsOnItsWayOut, Presented
<1>11. StaleIsUnheard'
  BY <1>0, <1>2, <1>3 DEF StaleIsUnheard, Presented, Types
<1>12. \A q \in Tabs : pc'[q] \in {"burn", "burning"} =>
         /\ pc'[q] = pc[q] /\ cookie[q] \in Tokens /\ status[cookie[q]] = "revoked"
         /\ cookie[q] # cookie[r] /\ cookie[q] # t
  BY <1>0, <1>2, <1>3 DEF BurnersAreRevoked, IInv, PresentsToken, Types
<1>13. BurnersAreRevoked'
  <2>1. Unused' = Unused \ {t}
    BY <1>0, <1>1, <1>2 DEF Unused, Types
  <2>2. \A u \in Tokens : status[u] = "revoked" /\ u # t => status'[u] = "revoked"
    BY <1>0, <1>1, <1>2 DEF Types
  <2>3. \A u \in Unused' : u # cookie[r] /\ u \in Tokens
    BY <1>2, <2>1 DEF Unused
  <2> QED BY <1>2, <1>3, <1>12, <2>1, <2>2, <2>3 DEF BurnersAreRevoked
<1>14. TabRacesBurnNothing'
  BY <1>2, <1>3, <1>12 DEF TabRacesBurnNothing
<1> QED BY <1>7, <1>8, <1>9, <1>10, <1>11, <1>13, <1>14

LEMMA NextKeepsRace == RaceInv /\ [Next]_vars => RaceInv'
<1> SUFFICES ASSUME RaceInv, [Next]_vars PROVE RaceInv'
  OBVIOUS
<1>0. IInv' /\ Types BY NextKeepsInv, InvTypes DEF RaceInv
<1> SUFFICES Whereabouts' /\ TabRacesBurnNothing'
  BY <1>0 DEF RaceInv
<1>1. ASSUME NEW b \in Browsers, IssueRefreshToken(b)
      PROVE  Whereabouts' /\ TabRacesBurnNothing'
  <2> USE DEF RaceInv, Whereabouts
  <2>1. PICK t \in Unused : status' = [status EXCEPT ![t] = "live"]
                            /\ jar' = [jar EXCEPT ![b] = t]
    BY <1>1 DEF IssueRefreshToken
  <2>2. UNCHANGED <<replacedBy, stale, unheard, pc, cookie, answer>>
    BY <1>1 DEF IssueRefreshToken, clock, request
  <2>3. /\ t \in Tokens /\ status[t] = "unused" /\ jar'[b] = t
        /\ \A d \in Browsers \ {b} : jar'[d] = jar[d] /\ jar[d] # t
        /\ \A q \in Tabs : cookie[q] # t /\ answer[q] # t
        /\ replacedBy[t] = NoToken
    BY <1>0, <2>1 DEF Types, Unused, BurnersAreRevoked
  <2>4. AnswersAreFresh' BY <2>2, <2>3 DEF AnswersAreFresh
  <2>5. TokenHasOneBrowser' BY <2>2, <2>3 DEF TokenHasOneBrowser
  <2>6. ReplacedIsOnItsWayOut' BY <2>2, <2>3 DEF ReplacedIsOnItsWayOut, Presented
  <2>7. (IdlePresentsNothing /\ StaleIsUnheard /\ TabRacesBurnNothing)'
    BY <2>2 DEF IdlePresentsNothing, StaleIsUnheard, TabRacesBurnNothing, Presented
  <2>8. BurnersAreRevoked'
    BY <1>0, <2>1, <2>2, <2>3 DEF BurnersAreRevoked, Unused, Types
  <2> QED BY <2>4, <2>5, <2>6, <2>7, <2>8
<1>2. ASSUME NEW r \in Tabs, Refresh(r) PROVE Whereabouts' /\ TabRacesBurnNothing'
  BY <1>2, PresentStep DEF Refresh
<1>3. ASSUME NEW r \in Tabs, Logout(r) PROVE Whereabouts' /\ TabRacesBurnNothing'
  <2>1. CASE pc' = [pc EXCEPT ![r] = "revoke"] /\ cookie' = [cookie EXCEPT ![r] = jar[Home[r]]]
             /\ UNCHANGED jar
    BY <1>3, <2>1, PresentStep DEF Logout
  <2>2. CASE jar' = [jar EXCEPT ![Home[r]] = NoToken] /\ UNCHANGED <<pc, cookie>>
    <3> USE DEF RaceInv, Whereabouts
    <3>1. UNCHANGED <<status, replacedBy, stale, unheard, pc, cookie, answer>>
      BY <1>3, <2>2 DEF Logout, db, clock
    <3>2. \A b \in Browsers : jar'[b] = jar[b] \/ jar'[b] = NoToken
      BY <1>0, <2>2 DEF Types
    <3>3. AnswersAreFresh' BY <3>1, <3>2 DEF AnswersAreFresh
    <3>4. TokenHasOneBrowser' BY <3>1, <3>2 DEF TokenHasOneBrowser
    <3>5. ReplacedIsOnItsWayOut' BY <3>1, <3>2 DEF ReplacedIsOnItsWayOut, Presented
    <3>6. (IdlePresentsNothing /\ StaleIsUnheard /\ BurnersAreRevoked /\ TabRacesBurnNothing)'
      BY <3>1 DEF IdlePresentsNothing, StaleIsUnheard, BurnersAreRevoked, Unused,
         TabRacesBurnNothing, Presented
    <3> QED BY <3>3, <3>4, <3>5, <3>6
  <2> QED BY <1>3, <2>1, <2>2 DEF Logout
<1>4. ASSUME NEW r \in Tabs, LockRefreshTokenByHash(r)
      PROVE  Whereabouts' /\ TabRacesBurnNothing'
  <2>1. /\ pc[r] = "sent" /\ UNCHANGED <<status, replacedBy, jar, cookie, stale, unheard>>
        /\ \/ pc' = [pc EXCEPT ![r] = "reply"] /\ answer' = [answer EXCEPT ![r] = NoToken]
           \/ pc' = [pc EXCEPT ![r] = "mint"] /\ UNCHANGED answer
           \/ /\ pc' = [pc EXCEPT ![r] = "burn"] /\ UNCHANGED answer
              /\ status[cookie[r]] = "revoked" /\ ~Raced(cookie[r])
    BY <1>4 DEF LockRefreshTokenByHash, Respond, db, clock
  <2>2. ~Raced(cookie[r]) => replacedBy[cookie[r]] = NoToken \/ cookie[r] \in unheard
    BY DEF Raced, RaceInv, Whereabouts, StaleIsUnheard, Presented
  <2> QED BY <1>0, <2>1, <2>2, HandlerStep DEF Types
<1>5. ASSUME NEW r \in Tabs, StartBurn(r) \/ BurnRow(r)
      PROVE  Whereabouts' /\ TabRacesBurnNothing'
  <2>1. /\ pc[r] \in {"burn", "burning"}
        /\ UNCHANGED <<status, replacedBy, jar, cookie, stale, unheard, answer>>
        /\ pc' = [pc EXCEPT ![r] = "burning"]
    BY <1>0, <1>5 DEF StartBurn, BurnRow, db, clock, Types
  <2>2. /\ status[cookie[r]] = "revoked"
        /\ replacedBy[cookie[r]] = NoToken \/ cookie[r] \in unheard
    BY <2>1 DEF RaceInv, Whereabouts, BurnersAreRevoked, TabRacesBurnNothing
  <2> QED BY <1>0, <2>1, <2>2, HandlerStep DEF Types
<1>6. ASSUME NEW r \in Tabs, CommitBurn(r) \/ RevokeRefreshToken(r) \/ Rollback(r)
      PROVE  Whereabouts' /\ TabRacesBurnNothing'
  <2>1. /\ pc[r] # "idle" /\ UNCHANGED <<replacedBy, jar, cookie, stale, unheard>>
        /\ pc' = [pc EXCEPT ![r] = "reply"] /\ answer' = [answer EXCEPT ![r] = NoToken]
    BY <1>6 DEF CommitBurn, RevokeRefreshToken, Rollback, Respond, db, clock
  <2>2. \A t \in Tokens : /\ status[t] = "revoked" => status'[t] = "revoked"
                          /\ status'[t] = "unused" => status[t] = "unused"
    BY <1>0, <1>6 DEF CommitBurn, RevokeRefreshToken, Rollback, db, Types
  <2> QED BY <1>0, <2>1, <2>2, HandlerStep DEF Types
<1>7. ASSUME NEW r \in Tabs, CommitRotation(r) PROVE Whereabouts' /\ TabRacesBurnNothing'
  BY <1>7, RotateStep
<1>8. ASSUME NEW r \in Tabs, SetRefreshCookie(r) \/ LoseAnswer(r)
      PROVE  Whereabouts' /\ TabRacesBurnNothing'
  BY <1>8, FinishStep
<1>9. ASSUME NEW t \in Tokens, WindowEnds(t) PROVE Whereabouts' /\ TabRacesBurnNothing'
  <2> USE DEF RaceInv, Whereabouts
  <2>1. /\ UNCHANGED <<status, replacedBy, jar, pc, cookie, answer>>
        /\ stale' = stale \cup {t} /\ replacedBy[t] # NoToken
        /\ unheard' = unheard \cup {cookie[r] : r \in {q \in InFlight : cookie[q] = t}}
    BY <1>9 DEF WindowEnds, db, request
  <2>2. \A q \in Tabs : cookie[q] = t => t \in unheard'
    BY <1>0, <2>1 DEF InFlight, IdlePresentsNothing, Types
  <2>3. StaleIsUnheard' BY <2>1, <2>2 DEF StaleIsUnheard, Presented
  <2>4. ReplacedIsOnItsWayOut' BY <2>1 DEF ReplacedIsOnItsWayOut, Presented
  <2>5. (AnswersAreFresh /\ TokenHasOneBrowser /\ IdlePresentsNothing
         /\ BurnersAreRevoked /\ TabRacesBurnNothing)'
    BY <2>1 DEF AnswersAreFresh, TokenHasOneBrowser, IdlePresentsNothing, BurnersAreRevoked,
       Unused, TabRacesBurnNothing
  <2> QED BY <2>3, <2>4, <2>5
<1>10. CASE UNCHANGED <<db, stale, unheard, jar, request>>
  BY <1>10 DEF db, request, RaceInv, Whereabouts, AnswersAreFresh, TokenHasOneBrowser,
     IdlePresentsNothing, ReplacedIsOnItsWayOut, StaleIsUnheard, BurnersAreRevoked,
     TabRacesBurnNothing, Presented, Unused
<1>11. (\E t \in Tokens : Expire(t)) \/ UNCHANGED vars
       => UNCHANGED <<db, stale, unheard, jar, request>>
  BY DEF Expire, vars, clock
<1> QED
  BY <1>1, <1>2, <1>3, <1>4, <1>5, <1>6, <1>7, <1>8, <1>9, <1>10, <1>11 DEF Next, Handle

(* Tabs of a browser that race within the window sign nobody out: a burn     *)
(* answers only a token that was logged out or burned before, or one of     *)
(* which an answer was lost or late (the race window, Raced).               *)
THEOREM RacesBurnNothing == Spec => []TabRacesBurnNothing
<1>1. Init => RaceInv
  <2> SUFFICES ASSUME Init PROVE RaceInv
    OBVIOUS
  <2>1. IInv BY InitInv
  <2>2. Whereabouts /\ TabRacesBurnNothing
    BY DEF Init, Whereabouts, AnswersAreFresh, TokenHasOneBrowser, IdlePresentsNothing,
       ReplacedIsOnItsWayOut, StaleIsUnheard, BurnersAreRevoked, TabRacesBurnNothing, Unused
  <2> QED BY <2>1, <2>2 DEF RaceInv
<1>2. RaceInv => TabRacesBurnNothing
  BY DEF RaceInv
<1> QED
  BY <1>1, <1>2, NextKeepsRace, PTL DEF Spec

-----------------------------------------------------------------------------
(* Invite links *)

States == {"unused", "pending", "live", "revoked", "failed"}

(* The types that the arguments below need. *)
LinkTypes ==
  /\ link \in [Links -> States]
  /\ step \in [Managers -> {"idle", "get", "create", "close", "wait", "commit"}]
  /\ mine \in [Managers -> Links \cup {NoLink}]
  /\ found \in [Managers -> SUBSET Links]
  /\ revoking \in [Managers -> SUBSET Links]
  /\ before \in [Managers -> SUBSET Links]

(* Links that were live at some time: they are live or revoked for good.     *)
UsedLinks == {l \in Links : link[l] \in {"live", "revoked"}}

(* What a transaction inserts nobody else sees, and it is the only one.      *)
MineIsPending == \A m \in Managers : mine[m] # NoLink => link[mine[m]] = "pending"
MinesDiffer == \A m, n \in Managers : mine[m] = mine[n] /\ mine[m] # NoLink => m = n

(* A transaction revokes and replaces only what was live.                    *)
RevokingAreUsed == \A m \in Managers : revoking[m] \subseteq UsedLinks /\ before[m] \subseteq UsedLinks

(* The snapshot found, and the UPDATE has got hold of, every link that was    *)
(* live when the request began and still is.                                *)
FoundIsComplete ==
  \A m \in Managers : step[m] = "wait" => before[m] \cap LiveLinks \subseteq found[m]
RevokingIsComplete ==
  \A m \in Managers : step[m] = "commit" => before[m] \cap LiveLinks \subseteq revoking[m]

DeadAreRevoked == dead \subseteq {l \in Links : link[l] = "revoked"}

LinkInv ==
  LinkTypes /\ MineIsPending /\ MinesDiffer /\ RevokingAreUsed
  /\ FoundIsComplete /\ RevokingIsComplete /\ DeadAreRevoked

-----------------------------------------------------------------------------

LEMMA InitLinkInv == InviteInit => LinkInv
BY InvitesAssumption DEF InviteInit, LinkInv, LinkTypes, States, MineIsPending, MinesDiffer,
   RevokingAreUsed, FoundIsComplete, RevokingIsComplete, DeadAreRevoked, UsedLinks, LiveLinks, NoLink, Links

(* A link once live never is anything but live or revoked, and stays revoked.*)
LEMMA AskKeepsLinks == ASSUME LinkInv, NEW m \in Managers, Ask(m) PROVE LinkInv'
<1> USE DEF LinkInv, Goto
<1>1. LinkTypes' BY DEF LinkTypes, Ask, LiveLinks
<1>2. (MineIsPending /\ MinesDiffer)' BY DEF Ask, MineIsPending, MinesDiffer
<1>3. RevokingAreUsed' BY DEF Ask, RevokingAreUsed, UsedLinks, LiveLinks, LinkTypes
<1>4. (FoundIsComplete /\ RevokingIsComplete)'
  BY DEF Ask, FoundIsComplete, RevokingIsComplete, LiveLinks, LinkTypes
<1>5. DeadAreRevoked' BY DEF Ask, DeadAreRevoked
<1> QED BY <1>1, <1>2, <1>3, <1>4, <1>5

LEMMA GetKeepsLinks == ASSUME LinkInv, NEW m \in Managers, GetActiveInvite(m) PROVE LinkInv'
<1> USE DEF LinkInv, Goto
<1>1. LinkTypes' BY DEF LinkTypes, GetActiveInvite
<1>2. (MineIsPending /\ MinesDiffer)' BY DEF GetActiveInvite, MineIsPending, MinesDiffer
<1>3. RevokingAreUsed' BY DEF GetActiveInvite, RevokingAreUsed, UsedLinks
<1>4. (FoundIsComplete /\ RevokingIsComplete)'
  BY DEF GetActiveInvite, FoundIsComplete, RevokingIsComplete, LiveLinks, LinkTypes
<1>5. DeadAreRevoked' BY DEF GetActiveInvite, DeadAreRevoked
<1> QED BY <1>1, <1>2, <1>3, <1>4, <1>5

(* The snapshot is taken, and a row inserted that nobody has yet.            *)
LEMMA StartKeepsLinks == ASSUME LinkInv, NEW m \in Managers, StartRevoke(m) PROVE LinkInv'
<1> USE DEF LinkInv, Goto
<1>0. link' = link \/ \E l \in Links : /\ link[l] = "unused" /\ mine' = [mine EXCEPT ![m] = l]
                                        /\ link' = [link EXCEPT ![l] = "pending"]
  BY DEF StartRevoke, UnusedLinks
<1>1. LinkTypes' BY <1>0 DEF LinkTypes, StartRevoke, LiveLinks, UnusedLinks, States
<1>2. LiveLinks' = LiveLinks /\ UsedLinks' = UsedLinks
  BY <1>0 DEF LiveLinks, UsedLinks, LinkTypes
<1>3. MineIsPending' BY InvitesAssumption DEF StartRevoke, MineIsPending, UnusedLinks, LinkTypes, NoLink, Links
<1>4. MinesDiffer'
  BY DEF StartRevoke, MinesDiffer, MineIsPending, UnusedLinks, LinkTypes
<1>5. RevokingAreUsed' BY <1>2 DEF StartRevoke, RevokingAreUsed
<1>6. (FoundIsComplete /\ RevokingIsComplete)'
  BY <1>2 DEF StartRevoke, FoundIsComplete, RevokingIsComplete, LinkTypes
<1>7. DeadAreRevoked' BY <1>0 DEF StartRevoke, DeadAreRevoked, LinkTypes
<1> QED BY <1>1, <1>3, <1>4, <1>5, <1>6, <1>7

LEMMA RevokeKeepsLinks ==
  ASSUME LinkInv, NEW m \in Managers, RevokeActiveBoardInvites(m) PROVE LinkInv'
<1> USE DEF LinkInv, Goto
<1>1. LinkTypes' BY DEF LinkTypes, RevokeActiveBoardInvites
<1>2. (MineIsPending /\ MinesDiffer)' BY DEF RevokeActiveBoardInvites, MineIsPending, MinesDiffer
<1>3. RevokingAreUsed' BY DEF RevokeActiveBoardInvites, RevokingAreUsed, UsedLinks, LiveLinks, LinkTypes
<1>4. FoundIsComplete' BY DEF RevokeActiveBoardInvites, FoundIsComplete, LiveLinks, LinkTypes
<1>5. RevokingIsComplete'
  BY DEF RevokeActiveBoardInvites, FoundIsComplete, RevokingIsComplete, LiveLinks, LinkTypes
<1>6. DeadAreRevoked' BY DEF RevokeActiveBoardInvites, DeadAreRevoked
<1> QED BY <1>1, <1>2, <1>3, <1>4, <1>5, <1>6

(* When a link that was live is not owned by the transaction, its commit and  *)
(* its rollback leave it as it is.                                          *)
LEMMA CommitKeepsLinks == ASSUME LinkInv, NEW m \in Managers, Commit(m) PROVE LinkInv'
<1> USE DEF LinkInv, Goto, End
<1>1. LinkTypes' BY DEF LinkTypes, Commit, States, NoLink
<1>2. \A l \in Links : link'[l] = IF l \in revoking[m] THEN "revoked"
                                  ELSE IF l = mine[m] THEN "live" ELSE link[l]
  BY DEF Commit
<1>3. \A l \in UsedLinks : l # mine[m]
  BY DEF MineIsPending, UsedLinks, NoLink, Links
<1>4. UsedLinks \subseteq UsedLinks' BY <1>2, <1>3 DEF UsedLinks
<1>5. UsedLinks \cap LiveLinks' \subseteq LiveLinks BY <1>2, <1>3 DEF UsedLinks, LiveLinks
<1>6. MineIsPending'
  <2> SUFFICES ASSUME NEW n \in Managers, mine'[n] # NoLink PROVE link'[mine'[n]] = "pending"
    BY DEF MineIsPending
  <2>1. n # m /\ mine'[n] = mine[n] BY DEF Commit, LinkTypes
  <2>2. mine[n] \in Links /\ link[mine[n]] = "pending" BY <2>1 DEF LinkTypes, MineIsPending
  <2>3. mine[n] # mine[m] BY <2>1 DEF MinesDiffer
  <2>4. mine[n] \notin revoking[m] BY <2>2 DEF RevokingAreUsed, UsedLinks
  <2> QED BY <1>2, <2>1, <2>2, <2>3, <2>4
<1>7. MinesDiffer' BY DEF Commit, MinesDiffer, LinkTypes
<1>8. RevokingAreUsed' BY <1>4 DEF Commit, RevokingAreUsed, LinkTypes
<1>9. FoundIsComplete'
  BY <1>5 DEF Commit, FoundIsComplete, RevokingAreUsed, LinkTypes
<1>10. RevokingIsComplete'
  BY <1>5 DEF Commit, RevokingIsComplete, RevokingAreUsed, LinkTypes
<1>11. DeadAreRevoked'
  <2> SUFFICES ASSUME NEW l \in dead \cup before[m] PROVE l \in Links /\ link'[l] = "revoked"
    BY DEF DeadAreRevoked, Commit
  <2>1. l \in UsedLinks BY DEF DeadAreRevoked, RevokingAreUsed, UsedLinks
  <2>2. l \notin revoking[m] => link[l] = "revoked"
    BY <2>1 DEF DeadAreRevoked, RevokingIsComplete, UsedLinks, LiveLinks, Commit
  <2> QED BY <1>2, <1>3, <2>1, <2>2 DEF UsedLinks
<1> QED BY <1>1, <1>6, <1>7, <1>8, <1>9, <1>10, <1>11

LEMMA RollbackKeepsLinks == ASSUME LinkInv, NEW m \in Managers, RollbackInvite(m) PROVE LinkInv'
<1> USE DEF LinkInv, Goto, End
<1>1. LinkTypes' BY DEF LinkTypes, RollbackInvite, States, NoLink
<1>2. \A l \in Links : link'[l] = IF l = mine[m] THEN "failed" ELSE link[l]
  BY DEF RollbackInvite
<1>3. \A l \in UsedLinks : l # mine[m]
  BY DEF MineIsPending, UsedLinks, NoLink, Links
<1>4. UsedLinks' = UsedLinks /\ LiveLinks' = LiveLinks BY <1>2, <1>3 DEF UsedLinks, LiveLinks
<1>5. MineIsPending' BY <1>2 DEF RollbackInvite, MineIsPending, MinesDiffer, LinkTypes
<1>6. MinesDiffer' BY DEF RollbackInvite, MinesDiffer, LinkTypes
<1>7. RevokingAreUsed' BY <1>4 DEF RollbackInvite, RevokingAreUsed, LinkTypes
<1>8. FoundIsComplete' BY <1>4 DEF RollbackInvite, FoundIsComplete, LinkTypes
<1>9. RevokingIsComplete' BY <1>4 DEF RollbackInvite, RevokingIsComplete, LinkTypes
<1>10. DeadAreRevoked' BY <1>2, <1>3 DEF RollbackInvite, DeadAreRevoked, UsedLinks
<1> QED BY <1>1, <1>5, <1>6, <1>7, <1>8, <1>9, <1>10

(* The other steps leave the links and the modals' requests alone.           *)
LEMMA OtherStepsKeepLinks ==
  ASSUME LinkInv, UNCHANGED <<link, step, mine, found, revoking, before, dead>>
  PROVE  LinkInv'
BY DEF LinkInv, LinkTypes, MineIsPending, MinesDiffer, RevokingAreUsed, FoundIsComplete,
   RevokingIsComplete, DeadAreRevoked, UsedLinks, LiveLinks

LEMMA NextKeepsLinkInv == LinkInv /\ [InviteNext]_inviteVars => LinkInv'
<1> SUFFICES ASSUME LinkInv, [InviteNext]_inviteVars PROVE LinkInv'
  OBVIOUS
<1>1. ASSUME NEW m \in Managers, Ask(m) \/ Serve(m) \/ RollbackInvite(m) PROVE LinkInv'
  BY <1>1, AskKeepsLinks, GetKeepsLinks, StartKeepsLinks, RevokeKeepsLinks,
     CommitKeepsLinks, RollbackKeepsLinks DEF Serve
<1>2. ASSUME NEW a \in Accepts,
             JoinBoardMember(a) \/ \E u \in Users, l \in Links : Lookup(a, u, l)
      PROVE  LinkInv'
  BY <1>2, OtherStepsKeepLinks DEF JoinBoardMember, Lookup, modal
<1>3. ASSUME NEW u \in Users, RemoveMember(u) PROVE LinkInv'
  BY <1>3, OtherStepsKeepLinks DEF RemoveMember, modal
<1>4. ASSUME NEW l \in Links, LinkExpires(l) PROVE LinkInv'
  BY <1>4, OtherStepsKeepLinks DEF LinkExpires, modal
<1>5. CASE UNCHANGED inviteVars
  BY <1>5, OtherStepsKeepLinks DEF inviteVars, modal
<1> QED BY <1>1, <1>2, <1>3, <1>4, <1>5 DEF InviteNext

LEMMA LinksHold == InviteSpec => []LinkInv
BY InitLinkInv, NextKeepsLinkInv, PTL DEF InviteSpec

(* Once a request that replaces or closes the link is answered, no link that  *)
(* was live when it began works any more, with any number of managers at it. *)
THEOREM ReplacedAreDead == InviteSpec => []ReplacedLinksAreDead
<1>1. LinkInv => ReplacedLinksAreDead
  BY DEF LinkInv, DeadAreRevoked, ReplacedLinksAreDead, LiveLinks
<1> QED BY <1>1, LinksHold, PTL

-----------------------------------------------------------------------------

(* The last live link goes only with the commit of a manager who closes it.  *)
THEOREM OnlyClosingEnds == InviteSpec => OnlyClosingEndsTheLink
<1> DEFINE Closed == LiveLinks # {} /\ LiveLinks' = {} =>
             \E m \in Managers : step[m] = "commit" /\ step'[m] = "idle" /\ mine[m] = NoLink
<1>1. LinkInv /\ [InviteNext]_inviteVars => Closed
  <2> SUFFICES ASSUME LinkInv, [InviteNext]_inviteVars, LiveLinks # {}, LiveLinks' = {}
               PROVE  \E m \in Managers : step[m] = "commit" /\ step'[m] = "idle" /\ mine[m] = NoLink
    BY DEF Closed
  <2>1. link' # link BY DEF LiveLinks
  <2>2. PICK m \in Managers : StartRevoke(m) \/ Commit(m) \/ RollbackInvite(m)
    BY <2>1 DEF InviteNext, Serve, inviteVars, modal, Ask, GetActiveInvite, RevokeActiveBoardInvites,
       JoinBoardMember, Lookup, RemoveMember, LinkExpires
  <2>3. ~StartRevoke(m)
    <3> SUFFICES ASSUME StartRevoke(m) PROVE FALSE
      OBVIOUS
    <3>1. PICK l \in Links : link[l] = "unused" /\ link' = [link EXCEPT ![l] = "pending"]
      BY <2>1 DEF StartRevoke, UnusedLinks
    <3>2. PICK k \in Links : link[k] = "live" BY DEF LiveLinks
    <3> QED BY <3>1, <3>2 DEF LinkInv, LinkTypes, LiveLinks
  <2>4. ~RollbackInvite(m)
    <3> SUFFICES ASSUME RollbackInvite(m) PROVE FALSE
      OBVIOUS
    <3>1. PICK k \in Links : link[k] = "live" BY DEF LiveLinks
    <3>2. k # mine[m] BY <3>1, InvitesAssumption DEF LinkInv, MineIsPending, NoLink, Links
    <3> QED BY <3>1, <3>2 DEF RollbackInvite, LiveLinks
  <2>5. Commit(m) BY <2>2, <2>3, <2>4
  <2>6. mine[m] = NoLink
    <3> SUFFICES ASSUME mine[m] # NoLink PROVE FALSE
      OBVIOUS
    <3>1. mine[m] \in Links /\ link[mine[m]] = "pending"
      BY DEF LinkInv, LinkTypes, MineIsPending
    <3>2. mine[m] \notin revoking[m] BY <3>1 DEF LinkInv, RevokingAreUsed, UsedLinks
    <3>3. link'[mine[m]] = "live" BY <2>5, <3>1, <3>2 DEF Commit
    <3> QED BY <3>1, <3>3 DEF LiveLinks
  <2>7. step[m] = "commit" /\ step'[m] = "idle"
    BY <2>5 DEF Commit, End, Goto, LinkInv, LinkTypes
  <2> QED BY <2>6, <2>7
<1>2. LinkInv /\ [InviteNext]_inviteVars => [Closed]_inviteVars BY <1>1
<1> QED BY <1>2, LinksHold, PTL DEF InviteSpec, OnlyClosingEndsTheLink

-----------------------------------------------------------------------------

(* An accept is for a person, and memberships are counted one by one.        *)
JoinInv ==
  /\ \A a \in Accepts : accept[a] # NoAccept => accept[a][1] \in Users
  /\ DOMAIN accept = Accepts
  /\ role \in [Users -> {"none", "member"}] /\ credit \in [Users -> Int]
  /\ OneJoinIsReported

(* Overlapping accepts report one join per membership.                       *)
THEOREM OneJoinPerMembership == InviteSpec => []OneJoinIsReported
<1>1. InviteInit => JoinInv
  BY DEF InviteInit, JoinInv, OneJoinIsReported
<1>2. JoinInv /\ [InviteNext]_inviteVars => JoinInv'
  <2> SUFFICES ASSUME JoinInv, [InviteNext]_inviteVars PROVE JoinInv'
    OBVIOUS
  <2>1. CASE UNCHANGED people BY <2>1 DEF people, JoinInv, OneJoinIsReported
  <2>2. ASSUME NEW a \in Accepts, JoinBoardMember(a) PROVE JoinInv'
    <3> DEFINE u == accept[a][1]
    <3>1. u \in Users BY <2>2 DEF JoinInv, JoinBoardMember
    <3>2. \/ role[u] = "none" /\ role' = [role EXCEPT ![u] = "member"]
             /\ credit' = [credit EXCEPT ![u] = @ + 1]
          \/ UNCHANGED <<role, credit>>
      BY <2>2 DEF JoinBoardMember
    <3>3. accept' = [accept EXCEPT ![a] = NoAccept] BY <2>2 DEF JoinBoardMember
    <3> HIDE DEF u
    <3>4. (OneJoinIsReported /\ role \in [Users -> {"none", "member"}] /\ credit \in [Users -> Int])'
      BY <3>1, <3>2 DEF JoinInv, OneJoinIsReported
    <3> QED BY <3>3, <3>4 DEF JoinInv
  <2>3. ASSUME NEW a \in Accepts, NEW u \in Users, NEW l \in Links, Lookup(a, u, l)
        PROVE  JoinInv'
    BY <2>3 DEF Lookup, JoinInv, OneJoinIsReported
  <2>4. ASSUME NEW u \in Users, RemoveMember(u) PROVE JoinInv'
    BY <2>4 DEF RemoveMember, JoinInv, OneJoinIsReported
  <2>5. ASSUME NEW m \in Managers, Ask(m) \/ Serve(m) \/ RollbackInvite(m) PROVE UNCHANGED people
    BY <2>5 DEF Ask, Serve, GetActiveInvite, StartRevoke, RevokeActiveBoardInvites, Commit,
       RollbackInvite
  <2>6. ASSUME NEW l \in Links, LinkExpires(l) PROVE UNCHANGED people
    BY <2>6 DEF LinkExpires
  <2> QED BY <2>1, <2>2, <2>3, <2>4, <2>5, <2>6 DEF InviteNext, inviteVars
<1>3. JoinInv => OneJoinIsReported BY DEF JoinInv
<1> QED BY <1>1, <1>2, <1>3, PTL DEF InviteSpec

=============================================================================
