---------------------------- MODULE ServerProofs ----------------------------
(***************************************************************************)
(* What is proved of the connections of the control server, for any number *)
(* of sockets, tokens and redemptions: there is one uplink and its slot is *)
(* never held by a socket that is gone; a client that has not been told to *)
(* go holds a session that is still there, is on the uplink of the moment  *)
(* and has been sent all of its state; and the server is a Room.           *)
(*                                                                         *)
(* None of this is inductive by itself.  That an admission after a         *)
(* derivation lets in only good sessions rests on the cache and the        *)
(* redemptions of Auth; that an uplink finds the slot free of clients,     *)
(* rests on every open client being on the connection; and that no         *)
(* handshake is taken for a connection, on what the socket of a waiting    *)
(* browser or desktop is (Handshaking).                                    *)
(***************************************************************************)
EXTENDS ControlServer, TLAPS

-----------------------------------------------------------------------------
(* Credentials.  Auth keeps its types, its cache never knows a token that  *)
(* is gone, and a redeemed invite never comes back, for any number of      *)
(* tokens, redemptions and roles.                                          *)

\* A step of the specification, action by action.
LEMMA AuthCases ==
  ASSUME [AuthNext]_authVars
  PROVE  \/ \E k \in Key : BeginVerify(k)
         \/ \E k \in Key : Settle(k)
         \/ \E k \in Key : Expire(k)
         \/ \E t \in Token, role \in Role : BeginInvite(t, role)
         \/ \E t \in Token : FinishInvite(t)
         \/ \E t \in Token : DeleteToken(t)
         \/ \E r \in Redeemer, t \in Issued : BeginRedeem(r, t)
         \/ \E r \in Redeemer : RefuseRedeem(r)
         \/ \E r \in Redeemer, s \in Token : AcceptRedeem(r, s)
         \/ \E r \in Redeemer : FinishRedeem(r)
         \/ UNCHANGED authVars
BY DEF AuthNext, AuthQuiet, ChangeTokens

\* Issuing a token makes it one of the issued, and changes no other.
LEMMA Issuing ==
  ASSUME info \in [Token -> Info \union {Unissued}],
         NEW t \in Token, NEW kind \in Kind, NEW role \in Role,
         BeginCreate(t, kind, role)
  PROVE  /\ info' \in [Token -> Info \union {Unissued}]
         /\ Issued' = Issued \union {t}
         /\ t \notin Issued
         /\ info'[t] = [kind |-> kind, role |-> role]
         /\ \A s \in Issued : info'[s] = info[s]
<1> DEFINE new == [kind |-> kind, role |-> role]
<1>1. new \in Info
  BY DEF Info
<1>2. new # Unissued
  BY DEF Unissued, Kind
<1>3. info' = [info EXCEPT ![t] = new]
  BY DEF BeginCreate
<1> HIDE DEF new
<1>4. info' \in [Token -> Info \union {Unissued}]
  BY <1>1, <1>3
<1>5. Issued' = Issued \union {t}
  BY <1>2, <1>3 DEF Issued
<1> QED BY <1>3, <1>4, <1>5 DEF new, BeginCreate, Issued

-----------------------------------------------------------------------------
(* AuthTypeOK is not inductive: that a finished redemption adds a token    *)
(* that was issued is known only from what the redemption did before.      *)

\* The invite a redemption has accepted, and the session it is redeemed for.
Redeeming(r) ==
  /\ redeem[r].invite \in Issued \ creating
  /\ info[redeem[r].invite].kind = "invite"
  /\ redeem[r].session \in Issued
  /\ info[redeem[r].session] = [kind |-> "session", role |-> info[redeem[r].invite].role]

RedeemInv ==
  \A r \in Redeemer :
    /\ redeem[r].phase \in {"creating", "done"} => Redeeming(r)
    /\ redeem[r].phase = "done" => redeem[r].invite \notin live

AuthInv == AuthTypeOK /\ RedeemInv

-----------------------------------------------------------------------------
(* Types.                                                                  *)

LEMMA AuthTypeInit == AuthInit => AuthTypeOK
BY DEF AuthInit, AuthTypeOK, RedeemState, Issued

\* Every step of the credentials keeps their types.
LEMMA AuthTypeStep ==
  ASSUME AuthInv, [AuthNext]_authVars
  PROVE  AuthTypeOK'
<1> USE DEF AuthTypeOK, AuthInv
<1>1. ASSUME NEW k \in Key, BeginVerify(k) PROVE AuthTypeOK'
  BY <1>1 DEF BeginVerify, Lookup, Issued
<1>2. ASSUME NEW k \in Key, Settle(k) PROVE AuthTypeOK'
  BY <1>2 DEF Settle, Issued
<1>3. ASSUME NEW k \in Key, Expire(k) PROVE AuthTypeOK'
  BY <1>3 DEF Expire, Issued
<1>4. ASSUME NEW t \in Token, NEW role \in Role, BeginInvite(t, role) PROVE AuthTypeOK'
  <2>1. BeginCreate(t, "invite", role) /\ "invite" \in Kind
    BY <1>4 DEF BeginInvite, Kind
  <2>2. Issued' = Issued \union {t} /\ t \notin Issued /\ info' \in [Token -> Info \union {Unissued}]
    BY <2>1, Issuing
  <2> QED BY <1>4, <2>1, <2>2 DEF BeginInvite, BeginCreate
<1>5. ASSUME NEW t \in Token, FinishInvite(t) PROVE AuthTypeOK'
  BY <1>5 DEF FinishInvite, TokensBecome, Issued
<1>6. ASSUME NEW t \in Token, DeleteToken(t) PROVE AuthTypeOK'
  BY <1>6 DEF DeleteToken, TokensBecome, Issued
<1>7. ASSUME NEW r \in Redeemer, NEW t \in Issued, BeginRedeem(r, t) PROVE AuthTypeOK'
  <2>1. redeem' \in [Redeemer -> RedeemState]
    BY <1>7 DEF BeginRedeem, Lookup, RedeemState, Issued
  <2> QED BY <1>7, <2>1 DEF BeginRedeem, Issued
<1>8. ASSUME NEW r \in Redeemer, RefuseRedeem(r) PROVE AuthTypeOK'
  <2>1. redeem' \in [Redeemer -> RedeemState]
    BY <1>8 DEF RefuseRedeem, RedeemState
  <2> QED BY <1>8, <2>1 DEF RefuseRedeem, Issued
<1>9. ASSUME NEW r \in Redeemer, NEW s \in Token, AcceptRedeem(r, s) PROVE AuthTypeOK'
  <2>1. info[redeem[r].invite].role \in Role /\ "session" \in Kind
    BY <1>9, NoTokenAssumption
       DEF AcceptRedeem, Redeemable, StillValid, RedeemState, Issued, Info, Kind, Unissued
  <2>2. BeginCreate(s, "session", info[redeem[r].invite].role)
    BY <1>9 DEF AcceptRedeem
  <2>3. Issued' = Issued \union {s} /\ s \notin Issued /\ info' \in [Token -> Info \union {Unissued}]
    BY <2>1, <2>2, Issuing
  <2>4. redeem' \in [Redeemer -> RedeemState]
    BY <1>9 DEF AcceptRedeem, RedeemState
  <2> QED BY <1>9, <2>2, <2>3, <2>4 DEF AcceptRedeem, BeginCreate
<1>10. ASSUME NEW r \in Redeemer, FinishRedeem(r) PROVE AuthTypeOK'
  <2>1. redeem' \in [Redeemer -> RedeemState]
    BY <1>10 DEF FinishRedeem, RedeemState
  <2>2. redeem[r].session \in Issued
    BY <1>10 DEF FinishRedeem, RedeemInv, Redeeming
  <2>3. live' \subseteq Issued' /\ creating' \subseteq Issued' \ live'
    BY <1>10, <2>2 DEF FinishRedeem, TokensBecome, Remaining, Issued
  <2> QED BY <1>10, <2>1, <2>3 DEF FinishRedeem, TokensBecome
<1>11. CASE UNCHANGED authVars
  BY <1>11 DEF authVars, Issued
<1> QED
  BY AuthCases, <1>1, <1>2, <1>3, <1>4, <1>5, <1>6, <1>7, <1>8, <1>9, <1>10, <1>11

-----------------------------------------------------------------------------
(* Redemptions.                                                            *)

\* What was issued keeps its kind and role; it is enough that neither the
\* redemptions nor the tokens, but for their growth, have changed.
LEMMA RedeemingStays ==
  ASSUME NEW r \in Redeemer, Redeeming(r),
         redeem'[r].invite = redeem[r].invite, redeem'[r].session = redeem[r].session,
         Issued \subseteq Issued', \A t \in Issued : info'[t] = info[t],
         creating' \cap Issued \subseteq creating
  PROVE  Redeeming(r)'
BY DEF Redeeming

\* No invite is being redeemed at the start.
LEMMA RedeemInvInit == AuthInit => RedeemInv
BY DEF AuthInit, RedeemInv

\* Every step leaves the redemptions under way in agreement with the invites that are live.
LEMMA RedeemInvStep ==
  ASSUME AuthInv, [AuthNext]_authVars
  PROVE  RedeemInv'
<1> USE DEF AuthInv, AuthTypeOK, RedeemInv
<1>1. ASSUME UNCHANGED <<info, redeem>>, creating' \subseteq creating, live' \subseteq live
      PROVE  RedeemInv'
  BY <1>1 DEF Redeeming, Issued
<1>2. ASSUME NEW k \in Key, BeginVerify(k) \/ Settle(k) \/ Expire(k) PROVE RedeemInv'
  BY <1>1, <1>2 DEF BeginVerify, Settle, Expire
<1>3. ASSUME NEW t \in Token, NEW role \in Role, BeginInvite(t, role) PROVE RedeemInv'
  <2>1. BeginCreate(t, "invite", role) /\ "invite" \in Kind
    BY <1>3 DEF BeginInvite, Kind
  <2>2. Issued' = Issued \union {t} /\ t \notin Issued /\ \A s \in Issued : info'[s] = info[s]
    BY <2>1, Issuing
  <2>3. creating' \cap Issued \subseteq creating /\ UNCHANGED <<live, redeem>>
    BY <1>3, <2>1, <2>2 DEF BeginInvite, BeginCreate
  <2> QED BY <2>2, <2>3, RedeemingStays
<1>4. ASSUME NEW t \in Token, FinishInvite(t) PROVE RedeemInv'
  <2>1. \A r \in Redeemer : redeem[r].phase \in {"creating", "done"} => redeem[r].invite # t
    BY <1>4 DEF FinishInvite, Redeeming
  <2> QED BY <1>4, <2>1 DEF FinishInvite, TokensBecome, Redeeming, Issued
<1>5. ASSUME NEW t \in Token, DeleteToken(t) PROVE RedeemInv'
  BY <1>1, <1>5 DEF DeleteToken, TokensBecome
<1>6. ASSUME NEW r \in Redeemer, NEW t \in Issued, BeginRedeem(r, t) PROVE RedeemInv'
  <2>1. redeem'[r].phase \notin {"creating", "done"}
    BY <1>6 DEF BeginRedeem, Lookup
  <2>2. \A s \in Redeemer \ {r} : redeem'[s] = redeem[s]
    BY <1>6 DEF BeginRedeem
  <2> QED BY <1>6, <2>1, <2>2 DEF BeginRedeem, Redeeming, Issued
<1>7. ASSUME NEW r \in Redeemer, RefuseRedeem(r) PROVE RedeemInv'
  <2>1. redeem'[r].phase = "refused"
    BY <1>7 DEF RefuseRedeem, RedeemState
  <2>2. \A s \in Redeemer \ {r} : redeem'[s] = redeem[s]
    BY <1>7 DEF RefuseRedeem
  <2> QED BY <1>7, <2>1, <2>2 DEF RefuseRedeem, Redeeming, Issued
<1>8. ASSUME NEW r \in Redeemer, NEW s \in Token, AcceptRedeem(r, s) PROVE RedeemInv'
  <2> DEFINE t == redeem[r].invite
  <2>1. t \in live /\ t \in Issued \ creating /\ info[t].kind = "invite"
    BY <1>8 DEF AcceptRedeem, Redeemable, StillValid
  <2>2. info[t].role \in Role /\ "session" \in Kind
    BY <2>1 DEF Issued, Info, Kind
  <2>3. BeginCreate(s, "session", info[t].role)
    BY <1>8 DEF AcceptRedeem
  <2>4. /\ Issued' = Issued \union {s} /\ s \notin Issued
        /\ info'[s] = [kind |-> "session", role |-> info[t].role]
        /\ \A x \in Issued : info'[x] = info[x]
    BY <2>2, <2>3, Issuing
  <2>5. redeem'[r].phase = "creating" /\ redeem'[r].invite = t /\ redeem'[r].session = s
    BY <1>8 DEF AcceptRedeem, RedeemState
  <2>6. \A x \in Redeemer \ {r} : redeem'[x] = redeem[x]
    BY <1>8 DEF AcceptRedeem
  <2>7. creating' \cap Issued \subseteq creating /\ live' = live /\ creating' = creating \union {s}
    BY <1>8, <2>3, <2>4 DEF AcceptRedeem, BeginCreate
  <2>8. Redeeming(r)'
    BY <2>1, <2>4, <2>5, <2>7 DEF Redeeming
  <2>9. ASSUME NEW x \in Redeemer \ {r}, redeem[x].phase \in {"creating", "done"}
        PROVE  Redeeming(x)'
    BY <2>4, <2>6, <2>7, <2>9, RedeemingStays
  <2> QED BY <2>5, <2>6, <2>7, <2>8, <2>9
<1>9. ASSUME NEW r \in Redeemer, FinishRedeem(r) PROVE RedeemInv'
  <2>1. Redeeming(r)
    BY <1>9 DEF FinishRedeem
  <2>2. redeem' = [redeem EXCEPT ![r].phase = "done"] /\ live' = Remaining(r)
    BY <1>9 DEF FinishRedeem, TokensBecome
  <2>3. \A x \in Redeemer : redeem'[x].invite = redeem[x].invite /\ redeem'[x].session = redeem[x].session
    BY <2>2 DEF RedeemState
  <2>4. \A x \in Redeemer \ {r} : redeem'[x] = redeem[x]
    BY <2>2
  <2>5. ASSUME NEW x \in Redeemer, Redeeming(x) PROVE Redeeming(x)' /\ redeem[r].session # redeem[x].invite
    BY <1>9, <2>1, <2>3, <2>5 DEF FinishRedeem, Redeeming, Issued
  <2>6. ASSUME NEW x \in Redeemer, redeem'[x].phase \in {"creating", "done"} PROVE Redeeming(x)
    BY <2>1, <2>4, <2>6
  <2>7. ASSUME NEW x \in Redeemer, redeem'[x].phase = "done" PROVE redeem'[x].invite \notin live'
    BY <2>1, <2>2, <2>3, <2>4, <2>5, <2>6, <2>7 DEF Remaining
  <2> QED BY <2>5, <2>6, <2>7
<1>10. CASE UNCHANGED authVars
  BY <1>1, <1>10 DEF authVars
<1> QED
  BY AuthCases, <1>2, <1>3, <1>4, <1>5, <1>6, <1>7, <1>8, <1>9, <1>10

\* The invariant behind the theorems below.
LEMMA AuthInvariant == AuthSpec => []AuthInv
<1>1. AuthInit => AuthInv
  BY AuthTypeInit, RedeemInvInit DEF AuthInv
<1>2. AuthInv /\ [AuthNext]_authVars => AuthInv'
  BY AuthTypeStep, RedeemInvStep DEF AuthInv
<1> QED BY <1>1, <1>2, PTL DEF AuthSpec

\* The tokens, the cache and the redemptions stay what they are, and no token
\* is being created that exists (createToken, auth.ts:288).
THEOREM AuthTypeCorrect == AuthSpec => []AuthTypeOK
<1>1. AuthInv => AuthTypeOK
  BY DEF AuthInv
<1> QED BY <1>1, AuthInvariant, PTL

\* A redeemed invite is not among the tokens again, and stood for a session of
\* its role (invite.ts:92).
THEOREM RedeemedStaysSpent == AuthSpec => []RedeemedIsSpent
<1>1. AuthInv => RedeemedIsSpent
  BY DEF AuthInv, RedeemInv, RedeemedIsSpent, Redeeming
<1> QED BY <1>1, AuthInvariant, PTL

-----------------------------------------------------------------------------
(* The cache.                                                              *)

LEMMA VerifiedStep ==
  ASSUME AuthInv, VerifiedAreLive, [AuthNext]_authVars
  PROVE  VerifiedAreLive'
<1> USE DEF AuthInv, AuthTypeOK, VerifiedAreLive
<1>1. ASSUME verified' \subseteq verified, live \subseteq live', \A t \in Issued : info'[t] = info[t]
      PROVE  VerifiedAreLive'
  BY <1>1
<1>2. ASSUME verified' = {} PROVE VerifiedAreLive'
  BY <1>2
<1>3. ASSUME NEW k \in Key, BeginVerify(k) \/ Expire(k) PROVE VerifiedAreLive'
  BY <1>1, <1>3 DEF BeginVerify, Expire
<1>4. ASSUME NEW k \in Key, Settle(k) PROVE VerifiedAreLive'
  BY <1>4 DEF Settle, Authenticates, StillValid
<1>5. ASSUME NEW t \in Token, NEW role \in Role, BeginInvite(t, role) PROVE VerifiedAreLive'
  <2>1. BeginCreate(t, "invite", role) /\ "invite" \in Kind
    BY <1>5 DEF BeginInvite, Kind
  <2>2. \A s \in Issued : info'[s] = info[s]
    BY <2>1, Issuing
  <2> QED BY <1>1, <1>5, <2>2 DEF BeginInvite
<1>6. ASSUME NEW t \in Token, FinishInvite(t) \/ DeleteToken(t) PROVE VerifiedAreLive'
  BY <1>2, <1>6 DEF FinishInvite, DeleteToken, TokensBecome
<1>7. ASSUME NEW r \in Redeemer, NEW t \in Issued, BeginRedeem(r, t) PROVE VerifiedAreLive'
  BY <1>1, <1>7 DEF BeginRedeem
<1>8. ASSUME NEW r \in Redeemer, RefuseRedeem(r) PROVE VerifiedAreLive'
  BY <1>1, <1>8 DEF RefuseRedeem
<1>9. ASSUME NEW r \in Redeemer, NEW s \in Token, AcceptRedeem(r, s) PROVE VerifiedAreLive'
  <2>1. info[redeem[r].invite].role \in Role /\ "session" \in Kind
    BY <1>9 DEF AcceptRedeem, Redeemable, StillValid, Issued, Info, Kind
  <2>2. BeginCreate(s, "session", info[redeem[r].invite].role)
    BY <1>9 DEF AcceptRedeem
  <2>3. \A x \in Issued : info'[x] = info[x]
    BY <2>1, <2>2, Issuing
  <2> QED BY <1>1, <1>9, <2>3 DEF AcceptRedeem
<1>10. ASSUME NEW r \in Redeemer, FinishRedeem(r) PROVE VerifiedAreLive'
  BY <1>2, <1>10 DEF FinishRedeem, TokensBecome
<1>11. CASE UNCHANGED authVars
  BY <1>1, <1>11 DEF authVars
<1> QED
  BY AuthCases, <1>3, <1>4, <1>5, <1>6, <1>7, <1>8, <1>9, <1>10, <1>11

\* However revocations, expiries and derivations interleave, the cache vouches
\* for nobody whose token is gone (verifiedTokenCache.ts:65).
THEOREM VerifiedStayLive == AuthSpec => []VerifiedAreLive
<1>1. AuthInit => VerifiedAreLive
  BY DEF AuthInit, VerifiedAreLive
<1>2. AuthInv /\ VerifiedAreLive /\ [AuthNext]_authVars => VerifiedAreLive'
  BY VerifiedStep
<1> QED BY <1>1, <1>2, AuthInvariant, PTL DEF AuthSpec

-----------------------------------------------------------------------------
(* Connections.                                                            *)

\* A waiting desktop has its socket already, a waiting browser not yet.
Handshaking == \A s \in waiting : sock[s] # "none" <=> s \in Uplink

\* All that holds of a client whose socket is open.
In(c) ==
  /\ cred[c] \in Sessions
  /\ conn # NoUplink /\ bound[c] = conn
  /\ seen[c] = View(RoleOf(c), state[conn])
  /\ doc[conn] \subseteq docSeen[c]

Served ==
  /\ \A c \in Client : sock[c] = "open" => In(c)
  /\ conn # NoUplink => state[conn].auth = Listed(live)

ServerInv ==
  /\ ServerTypeOK /\ AuthInv /\ VerifiedAreLive
  /\ OneLiveUplink /\ Handshaking
  /\ Served

-----------------------------------------------------------------------------
(* The server as a user of Auth.                                           *)

\* Whatever the server does, it does to the credentials what Auth lets it do.
LEMMA ServerStepIsAuthStep == [ServerNext]_serverVars => [AuthNext]_authVars
<1> SUFFICES ASSUME [ServerNext]_serverVars PROVE [AuthNext]_authVars
  OBVIOUS
<1>1. CASE UNCHANGED serverVars
  BY <1>1 DEF serverVars
<1>2. CASE Handshake
  <2>1. ASSUME NEW s \in Socket, NEW t \in Issued, ConnectVerified(s, t)
        PROVE  UNCHANGED authVars
    BY <2>1 DEF ConnectVerified
  <2>2. ASSUME NEW s \in Socket, NEW t \in Issued, ConnectUnverified(s, t)
        PROVE  AuthNext
    <3> DEFINE k == <<IF s \in Client THEN "session" ELSE "streamwall", t>>
    <3>1. k \in Key /\ k[2] \in Issued
      BY DEF Key, Issued
    <3>2. BeginVerify(k)
      BY <2>2 DEF ConnectUnverified
    <3> QED BY <3>1, <3>2 DEF AuthNext
  <2>3. ASSUME NEW k \in Key, Verified(k) PROVE AuthNext
    BY <2>3 DEF Verified, AuthNext
  <2> QED BY <1>2, <2>1, <2>2, <2>3 DEF Handshake
<1>3. CASE Tokens
  BY <1>3 DEF Tokens, RevokeToken, CreateInvite, InviteCreated, InviteRedeemed, AuthNext,
              ChangeTokens
<1>4. CASE Messages \/ Closes
  BY <1>4 DEF Messages, Closes, StateMessage, UplinkEdit, ClientEdit, InvalidEdit, Limit,
              Abort, ClientClosed, UplinkClosed
<1>5. CASE AuthQuiet
  BY <1>5 DEF AuthNext
<1> QED BY <1>1, <1>2, <1>3, <1>4, <1>5 DEF ServerNext

\* What Auth promises holds of the server.
THEOREM ServerUsesAuth == ServerSpec => AuthSpec
<1>1. ServerInit => AuthInit
  BY DEF ServerInit
<1> QED BY <1>1, ServerStepIsAuthStep, PTL DEF ServerSpec, AuthSpec

\* The records of issued tokens stay what they are.
LEMMA RecordsStay ==
  ASSUME AuthInv, [AuthNext]_authVars
  PROVE  \A t \in Issued : info'[t] = info[t]
<1> USE DEF AuthInv, AuthTypeOK
<1>1. ASSUME NEW t \in Token, NEW role \in Role, BeginInvite(t, role)
      PROVE  \A s \in Issued : info'[s] = info[s]
  <2>1. BeginCreate(t, "invite", role) /\ "invite" \in Kind
    BY <1>1 DEF BeginInvite, Kind
  <2> QED BY <2>1, Issuing
<1>2. ASSUME NEW r \in Redeemer, NEW s \in Token, AcceptRedeem(r, s)
      PROVE  \A t \in Issued : info'[t] = info[t]
  <2>1. info[redeem[r].invite].role \in Role /\ "session" \in Kind
    BY <1>2 DEF AcceptRedeem, Redeemable, StillValid, Issued, Info, Kind
  <2>2. BeginCreate(s, "session", info[redeem[r].invite].role)
    BY <1>2 DEF AcceptRedeem
  <2> QED BY <2>1, <2>2, Issuing
<1> QED BY AuthCases, <1>1, <1>2
        DEF BeginVerify, Settle, Expire, FinishInvite, DeleteToken, BeginRedeem, RefuseRedeem,
            FinishRedeem, authVars

\* A step that does not change the set of tokens changes none of what is known of them.
LEMMA SameTokens ==
  ASSUME AuthInv, [AuthNext]_authVars, live' = live
  PROVE  /\ Sessions' = Sessions /\ Listed(live)' = Listed(live)
         /\ \A t \in Sessions : t \in Issued /\ info'[t] = info[t]
<1>1. \A t \in live : t \in Issued /\ info'[t] = info[t]
  BY RecordsStay DEF AuthInv, AuthTypeOK
<1> QED BY <1>1 DEF Sessions, Listed

\* What a client is told is a state.
LEMMA ViewClosed == \A role : \A s \in StateView : View(role, s) \in StateView
BY DEF View, StateView

-----------------------------------------------------------------------------
(* Admissions.                                                             *)

\* The sockets of W come in with k: how a handshake that is over calls Admit.
Arriving(W, k, sk, cr, authentic) ==
  /\ k \in Key
  /\ W \subseteq (IF k[1] = "session" THEN Client ELSE Uplink)
  /\ sk \in [Socket -> {"none", "open", "closing", "limited"}]
  /\ cr \in [Socket -> Token \union {NoToken}]
  /\ \A s \in Socket \ W : sk[s] = sock[s] /\ cr[s] = cred[s]
  /\ \A s \in W : cr[s] = k[2] /\ (sk[s] # "none" <=> s \in Uplink)
  /\ slot # NoUplink => slot \notin W
  /\ \A c \in W \intersect Client : sock[c] = "none"
  /\ authentic => k[2] \in live /\ info[k[2]].kind = k[1]
  /\ waiting' = waiting \ W
  /\ UNCHANGED <<info, live>>
  /\ Admit(W, k, sk, cr, authentic)

\* A socket whose credential is remembered is admitted as the one it belongs to.
LEMMA ArriveVerified ==
  ASSUME ServerInv, NEW s \in Socket, NEW t \in Issued, ConnectVerified(s, t)
  PROVE  \E k, sk, cr : Arriving({s}, k, sk, cr, TRUE)
<1> DEFINE k == <<IF s \in Client THEN "session" ELSE "streamwall", t>>
           sk == Upgraded(s)
           cr == [cred EXCEPT ![s] = t]
<1>1. k \in Key /\ k[2] = t /\ (k[1] = "session" <=> s \in Client)
  BY DEF Key, Issued
<1>2. {s} \subseteq (IF k[1] = "session" THEN Client ELSE Uplink)
  BY <1>1 DEF Socket
<1>3. /\ sk \in [Socket -> {"none", "open", "closing", "limited"}]
      /\ cr \in [Socket -> Token \union {NoToken}]
      /\ \A x \in Socket \ {s} : sk[x] = sock[x] /\ cr[x] = cred[x]
      /\ cr[s] = t /\ (sk[s] # "none" <=> s \in Uplink)
  BY DEF ServerInv, ServerTypeOK, Upgraded, Issued
<1>4. sock[s] = "none" /\ s \notin waiting /\ k \in verified /\ Admit({s}, k, sk, cr, TRUE)
      /\ UNCHANGED <<info, live, waiting>>
  BY DEF ConnectVerified, Idle, authVars
<1>5. slot # NoUplink => slot # s
  BY <1>4, NoUplinkAssumption DEF ServerInv, OneLiveUplink, ServerTypeOK, Socket
<1>6. k[2] \in live /\ info[k[2]].kind = k[1]
  BY <1>4 DEF ServerInv, VerifiedAreLive
<1> HIDE DEF k, sk, cr
<1>7. Arriving({s}, k, sk, cr, TRUE)
  BY <1>1, <1>2, <1>3, <1>4, <1>5, <1>6 DEF Arriving
<1> QED BY <1>7

\* A verification that ends admits or turns away all who waited for it.
LEMMA ArriveSettled ==
  ASSUME ServerInv, NEW k \in Key, Verified(k)
  PROVE  \E W : Arriving(W, k, sock, cred, Authenticates(k))
<1> DEFINE W == {s \in waiting : KeyOf(s) = k}
<1>1. /\ waiting' = waiting \ W /\ UNCHANGED <<info, live>>
      /\ Admit(W, k, sock, cred, Authenticates(k))
  BY DEF Verified, Settle
<1>2. \A s \in W : /\ s \in waiting /\ s \in Socket /\ cred[s] = k[2]
                   /\ k[1] = "session" <=> s \in Client
  BY DEF KeyOf, ServerInv, ServerTypeOK, Key
<1>3. W \subseteq (IF k[1] = "session" THEN Client ELSE Uplink)
  BY <1>2 DEF Socket
<1>4. /\ \A s \in W : sock[s] # "none" <=> s \in Uplink
      /\ slot # NoUplink => slot \notin W
  BY <1>2 DEF ServerInv, Handshaking, OneLiveUplink
<1>5. \A c \in W \intersect Client : sock[c] = "none"
  BY <1>2, <1>4, SocketAssumption
<1>6. Authenticates(k) => k[2] \in live /\ info[k[2]].kind = k[1]
  BY DEF Authenticates, StillValid
<1> HIDE DEF W
<1>7. Arriving(W, k, sock, cred, Authenticates(k))
  BY <1>1, <1>2, <1>3, <1>4, <1>5, <1>6 DEF Arriving, ServerInv, ServerTypeOK
<1> QED BY <1>7

\* The clients of A get in with session t, on the connection and with all its state;
\* the rest of W is turned away.
LetIn(A, W, t) ==
  /\ W \subseteq Client /\ W \intersect Uplink = {}
  /\ A # {} => conn # NoUplink /\ t \in Sessions
  /\ sock' = [s \in Socket |-> IF s \in A THEN "open" ELSE sock[s]]
  /\ cred' = [s \in Socket |-> IF s \in A THEN t
                               ELSE IF s \in W THEN NoToken ELSE cred[s]]
  /\ bound' = [c \in Client |-> IF c \in A THEN conn ELSE bound[c]]
  /\ seen' = [c \in Client |-> IF c \in A THEN View(info[t].role, state[conn]) ELSE seen[c]]
  /\ docSeen' = [c \in Client |-> IF c \in A THEN doc[conn] ELSE docSeen[c]]
  /\ UNCHANGED <<slot, conn, state, doc>>

\* One of the uplinks of W takes the free slot, or none does; the others are closed.
SlotGiven(W) ==
  /\ W \subseteq Uplink /\ W \intersect Client = {}
  /\ \A c \in Client : sock'[c] = sock[c] /\ cred'[c] = cred[c]
  /\ \A u \in Uplink \ W : sock'[u] = sock[u]
  /\ cred' \in [Socket -> Token \union {NoToken}]
  /\ sock' \in [Socket -> {"none", "open", "closing", "limited"}]
  /\ UNCHANGED <<conn, bound, seen, docSeen>>
  /\ \/ /\ \A u \in W : sock'[u] = "none"
        /\ UNCHANGED <<slot, state, doc>>
     \/ /\ slot = NoUplink
        /\ slot' \in W /\ sock'[slot'] # "none"
        /\ \A u \in W \ {slot'} : sock'[u] = "none"
        /\ state' = [state EXCEPT ![slot'] = NoState]
        /\ doc' = [doc EXCEPT ![slot'] = {}]

\* What the clients of a browser's admission get.
LEMMA ClientsArrive ==
  ASSUME ServerInv, NEW W, NEW k, NEW sk, NEW cr, NEW authentic,
         Arriving(W, k, sk, cr, authentic), k[1] = "session"
  PROVE  \E A \in SUBSET W : LetIn(A, W, k[2])
<1> DEFINE A == IF authentic /\ conn # NoUplink THEN W ELSE {}
<1>1. /\ AdmitClients(W, sk, cr, authentic) /\ A \subseteq W
      /\ W \subseteq Client /\ W \intersect Uplink = {}
  BY SocketAssumption DEF Arriving, Admit
<1>2. /\ sock' = [s \in Socket |-> IF s \in A THEN "open" ELSE sk[s]]
      /\ cred' = Keep(A, W, cr)
      /\ bound' = [c \in Client |-> IF c \in A THEN conn ELSE bound[c]]
      /\ seen' = [c \in Client |-> IF c \in A THEN View(info[cr[c]].role, state[conn]) ELSE seen[c]]
      /\ docSeen' = [c \in Client |-> IF c \in A THEN doc[conn] ELSE docSeen[c]]
      /\ UNCHANGED <<slot, conn, state, doc>>
  BY <1>1 DEF AdmitClients
<1>3. A # {} => conn # NoUplink /\ k[2] \in Sessions
  BY DEF Arriving, Sessions
<1> HIDE DEF A
<1>4. \A s \in W : cr[s] = k[2] /\ sk[s] = "none" /\ sock[s] = "none"
  BY <1>1 DEF Arriving, Socket
<1>5. \A s \in Socket : /\ s \notin W => sk[s] = sock[s] /\ cr[s] = cred[s]
                        /\ s \in W => sk[s] = sock[s]
  BY <1>4 DEF Arriving
<1>6. sock' = [s \in Socket |-> IF s \in A THEN "open" ELSE sock[s]]
  BY <1>2, <1>5
<1>7. cred' = [s \in Socket |-> IF s \in A THEN k[2] ELSE IF s \in W THEN NoToken ELSE cred[s]]
  BY <1>1, <1>2, <1>4, <1>5 DEF Keep
<1>8. seen' = [c \in Client |-> IF c \in A THEN View(info[k[2]].role, state[conn]) ELSE seen[c]]
  BY <1>1, <1>2, <1>4
<1> QED BY <1>1, <1>2, <1>3, <1>6, <1>7, <1>8 DEF LetIn

\* What the uplinks of a desktop's admission get: one of them the slot, or none.
LEMMA UplinksArrive ==
  ASSUME ServerInv, NEW W, NEW k, NEW sk, NEW cr, NEW authentic,
         Arriving(W, k, sk, cr, authentic), k[1] # "session"
  PROVE  SlotGiven(W)
<1>1. /\ AdmitUplinks(W, sk, cr, authentic) /\ W \subseteq Uplink /\ W \intersect Client = {}
      /\ W \subseteq Socket /\ Uplink \subseteq Socket /\ Client \subseteq Socket
  BY SocketAssumption DEF Arriving, Admit, Socket
<1>2. /\ sk \in [Socket -> {"none", "open", "closing", "limited"}]
      /\ cr \in [Socket -> Token \union {NoToken}]
      /\ \A s \in Socket \ W : sk[s] = sock[s] /\ cr[s] = cred[s]
      /\ \A s \in W : sk[s] # "none"
  BY <1>1 DEF Arriving
<1>3. CASE \E u \in W : /\ authentic
                        /\ Claim(u)
                        /\ sock' = [s \in Socket |-> IF s \in W \ {u} THEN "none" ELSE sk[s]]
                        /\ cred' = Keep({u}, W, cr)
  BY <1>1, <1>2, <1>3 DEF Claim, Keep, AdmitUplinks, SlotGiven
<1>4. CASE /\ sock' = [s \in Socket |-> IF s \in W THEN "none" ELSE sk[s]]
           /\ cred' = Keep({}, W, cr)
           /\ UNCHANGED <<slot, conn, state, doc>>
  BY <1>1, <1>2, <1>4 DEF Keep, AdmitUplinks, SlotGiven
<1> QED BY <1>1, <1>3, <1>4 DEF AdmitUplinks

\* A step of the server, by what it does to the connections.
LEMMA ServerCases ==
  ASSUME ServerInv, [ServerNext]_serverVars
  PROVE  \/ \E W, k, sk, cr, authentic : Arriving(W, k, sk, cr, authentic)
         \/ UNCHANGED connVars /\ live' = live
         \/ TokensChanged /\ UNCHANGED info
         \/ \E s \in Socket, t \in Issued : ConnectUnverified(s, t)
         \/ \E u \in Uplink, v \in Version : StateMessage(u, v)
         \/ \E u \in Uplink, e \in Edit : UplinkEdit(u, e)
         \/ \E c \in Client, e \in Edit : ClientEdit(c, e)
         \/ \E c \in Client : InvalidEdit(c) \/ Abort(c) \/ ClientClosed(c)
         \/ \E s \in Socket : Limit(s)
         \/ \E u \in Uplink : UplinkClosed(u)
<1>1. CASE UNCHANGED serverVars
  BY <1>1 DEF serverVars, authVars
<1>2. CASE Handshake
  BY <1>2, ArriveVerified, ArriveSettled DEF Handshake
<1>3. CASE Tokens
  BY <1>3 DEF Tokens, RevokeToken, CreateInvite, InviteCreated, InviteRedeemed, DeleteToken,
              FinishInvite, FinishRedeem, BeginInvite
<1>4. CASE Messages \/ Closes
  BY <1>4 DEF Messages, Closes
<1>5. CASE AuthQuiet /\ UNCHANGED connVars
  BY <1>5 DEF AuthQuiet, Expire, BeginRedeem, RefuseRedeem, AcceptRedeem
<1> QED BY <1>1, <1>2, <1>3, <1>4, <1>5 DEF ServerNext

-----------------------------------------------------------------------------
(* Types.                                                                  *)

LEMMA InitServerTypes == ServerInit => ServerTypeOK
BY AuthTypeInit DEF ServerInit, ServerTypeOK, NoState, StateView

\* Every step of the server keeps its types.
LEMMA ServerTypeStep ==
  ASSUME ServerInv, [ServerNext]_serverVars
  PROVE  ServerTypeOK'
<1>0. AuthTypeOK'
  BY ServerStepIsAuthStep, AuthTypeStep DEF ServerInv
<1>t. /\ ServerTypeOK /\ Client \subseteq Socket /\ Uplink \subseteq Socket
      /\ NoState \in StateView /\ live \in SUBSET Token /\ live' \in SUBSET Token
  BY <1>0 DEF ServerInv, Socket, NoState, StateView, ServerTypeOK, AuthTypeOK, Issued
<1>l. \A S \in SUBSET Token : Listed(S) \in SUBSET Token
  BY DEF Listed
<1>c. \A C : Closed(C) \in [Socket -> {"none", "open", "closing", "limited"}]
  BY <1>t DEF Closed, ServerTypeOK
<1> USE DEF connVars
<1>1. ASSUME NEW W, NEW k, NEW sk, NEW cr, NEW authentic, Arriving(W, k, sk, cr, authentic)
      PROVE  ServerTypeOK'
  <2>w. waiting' \subseteq Socket
    BY <1>1, <1>t DEF Arriving, ServerTypeOK
  <2>k. k[2] \in Token
    BY <1>1 DEF Arriving, Key
  <2>1. CASE k[1] = "session"
    <3>1. PICK A \in SUBSET W : LetIn(A, W, k[2])
      BY <1>1, <2>1, ClientsArrive
    <3>2. A # {} => View(info[k[2]].role, state[conn]) \in StateView /\ doc[conn] \in SUBSET Edit
      BY <1>t, <3>1, ViewClosed DEF ServerTypeOK, LetIn
    <3>3. seen' \in [Client -> StateView] /\ docSeen' \in [Client -> SUBSET Edit]
      BY <1>t, <3>1, <3>2 DEF ServerTypeOK, LetIn
    <3> QED BY <1>0, <1>t, <2>w, <2>k, <3>1, <3>3 DEF ServerTypeOK, LetIn
  <2>2. CASE k[1] # "session"
    BY <1>0, <1>1, <1>t, <2>w, <2>2, UplinksArrive DEF ServerTypeOK, SlotGiven
  <2> QED BY <2>1, <2>2
<1>2. CASE UNCHANGED connVars
  BY <1>0, <1>2, <1>t DEF ServerTypeOK
<1>3. CASE TokensChanged
  <2>1. sock' \in [Socket -> {"none", "open", "closing", "limited"}]
    BY <1>3, <1>c DEF TokensChanged
  <2>2. CASE conn = NoUplink
    BY <1>0, <1>3, <1>t, <2>1, <2>2 DEF TokensChanged, ServerTypeOK
  <2>3. CASE conn # NoUplink
    <3> DEFINE s == [state[conn] EXCEPT !.auth = Listed(live')]
    <3>1. s \in StateView
      BY <1>t, <1>l, <2>3 DEF ServerTypeOK, StateView
    <3>2. state' = [state EXCEPT ![conn] = s] /\ Broadcast(s, sock')
      BY <1>3, <2>3 DEF TokensChanged
    <3> HIDE DEF s
    <3>3. state' \in [Uplink -> StateView] /\ seen' \in [Client -> StateView]
      BY <1>t, <3>1, <3>2, ViewClosed DEF ServerTypeOK, Broadcast
    <3> QED BY <1>0, <1>3, <1>t, <2>1, <3>3 DEF TokensChanged, ServerTypeOK
  <2> QED BY <2>2, <2>3
<1>4. ASSUME NEW s \in Socket, NEW t \in Issued, ConnectUnverified(s, t) PROVE ServerTypeOK'
  BY <1>0, <1>4, <1>t DEF ConnectUnverified, Upgraded, ServerTypeOK, Issued
<1>5. ASSUME NEW u \in Uplink, NEW v \in Version, StateMessage(u, v) PROVE ServerTypeOK'
  <2> DEFINE s == [desktop |-> v, auth |-> IF conn = u THEN state[u].auth ELSE Listed(live)]
  <2>1. s \in StateView
    BY <1>t, <1>l DEF ServerTypeOK, StateView
  <2>2. state' = [state EXCEPT ![u] = s] /\ Broadcast(s, sock)
    BY <1>5 DEF StateMessage
  <2> HIDE DEF s
  <2>3. state' \in [Uplink -> StateView] /\ seen' \in [Client -> StateView]
    BY <1>t, <2>1, <2>2, ViewClosed DEF ServerTypeOK, Broadcast
  <2> QED BY <1>0, <1>5, <1>t, <2>3 DEF StateMessage, ServerTypeOK
<1>6. ASSUME NEW u \in Uplink, NEW e \in Edit, UplinkEdit(u, e) PROVE ServerTypeOK'
  <2>1. doc' \in [Uplink -> SUBSET Edit] /\ docSeen' \in [Client -> SUBSET Edit]
    BY <1>6, <1>t DEF UplinkEdit, FanOut, ServerTypeOK
  <2> QED BY <1>0, <1>6, <1>t, <2>1 DEF UplinkEdit, ServerTypeOK
<1>7. ASSUME NEW c \in Client, NEW e \in Edit, ClientEdit(c, e) PROVE ServerTypeOK'
  <2>1. doc' = [doc EXCEPT ![bound[c]] = @ \union {e}] /\ FanOut(e, c)
    BY <1>7 DEF ClientEdit
  <2>2. doc' \in [Uplink -> SUBSET Edit]
    BY <1>t, <2>1 DEF ServerTypeOK
  <2>3. docSeen' \in [Client -> SUBSET Edit]
    BY <1>t, <2>1 DEF FanOut, ServerTypeOK
  <2> QED BY <1>0, <1>7, <1>t, <2>2, <2>3 DEF ClientEdit, ServerTypeOK
<1>8. ASSUME NEW c \in Client, InvalidEdit(c) \/ Abort(c) \/ ClientClosed(c) PROVE ServerTypeOK'
  BY <1>0, <1>8, <1>t, <1>c DEF InvalidEdit, Abort, ClientClosed, ServerTypeOK
<1>9. ASSUME NEW s \in Socket, Limit(s) PROVE ServerTypeOK'
  BY <1>0, <1>9, <1>t DEF Limit, ServerTypeOK
<1>10. ASSUME NEW u \in Uplink, UplinkClosed(u) PROVE ServerTypeOK'
  BY <1>0, <1>10, <1>t, <1>c DEF UplinkClosed, ReleaseSlot, ServerTypeOK
<1> QED BY ServerCases, <1>1, <1>2, <1>3, <1>4, <1>5, <1>6, <1>7, <1>8, <1>9, <1>10

-----------------------------------------------------------------------------
(* The uplink.                                                             *)

\* Closing clients closes no uplink.
LEMMA ClosedValue ==
  \A C : \A s \in Socket :
    Closed(C)[s] = IF s \in C /\ sock[s] = "open" THEN "closing" ELSE sock[s]
BY DEF Closed

\* A step that neither opens nor closes an uplink, nor moves the slot.
LEMMA SameUplinks ==
  ASSUME ServerInv, slot' = slot, conn' \in {conn, slot},
         \A u \in Uplink : (sock'[u] # "none") <=> (sock[u] # "none"),
         waiting' \intersect Uplink = waiting \intersect Uplink
  PROVE  OneLiveUplink'
BY DEF ServerInv, ServerTypeOK, OneLiveUplink

\* Nor does it open the socket of a browser that waits.
LEMMA SameHandshakes ==
  ASSUME ServerInv, waiting' \subseteq waiting,
         \A s \in waiting' : (sock'[s] # "none") <=> (sock[s] # "none")
  PROVE  Handshaking'
BY DEF ServerInv, Handshaking

\* Every step leaves one uplink at most, and it is the one that is served.
LEMMA UplinkStep ==
  ASSUME ServerInv, [ServerNext]_serverVars
  PROVE  OneLiveUplink' /\ Handshaking'
<1> DEFINE Good == OneLiveUplink' /\ Handshaking'
<1>t. /\ ServerTypeOK /\ Client \subseteq Socket /\ Uplink \subseteq Socket
      /\ Uplink \intersect Client = {} /\ waiting \subseteq Socket
      /\ \A s \in waiting : sock[s] # "none" <=> s \in Uplink
  BY SocketAssumption DEF ServerInv, Socket, ServerTypeOK, Handshaking
<1> USE DEF connVars
<1>1. ASSUME NEW W, NEW k, NEW sk, NEW cr, NEW authentic, Arriving(W, k, sk, cr, authentic)
      PROVE  Good
  <2>1. CASE k[1] = "session"
    <3>1. PICK A \in SUBSET W : LetIn(A, W, k[2])
      BY <1>1, <2>1, ClientsArrive
    <3>2. waiting' = waiting \ W
      BY <1>1 DEF Arriving
    <3>3. /\ \A s \in Socket \ W : sock'[s] = sock[s]
          /\ slot' = slot /\ conn' = conn /\ W \intersect Uplink = {}
      BY <3>1 DEF LetIn
    <3> QED BY <1>t, <3>2, <3>3, SameUplinks, SameHandshakes
  <2>2. CASE k[1] # "session"
    <3>1. SlotGiven(W)
      BY <1>1, <2>2, UplinksArrive
    <3>2. waiting' = waiting \ W /\ (slot # NoUplink => slot \notin W)
      BY <1>1 DEF Arriving
    <3>3. \A s \in Socket \ W : sock'[s] = sock[s]
      BY <3>1 DEF SlotGiven, Socket
    <3>4. Handshaking'
      BY <1>t, <3>2, <3>3, SameHandshakes
    <3>5. OneLiveUplink'
      BY <1>t, <3>1, <3>2, NoUplinkAssumption DEF ServerInv, OneLiveUplink, SlotGiven, ServerTypeOK
    <3> QED BY <3>4, <3>5
  <2> QED BY <2>1, <2>2
<1>2. CASE UNCHANGED connVars
  BY <1>2, SameUplinks, SameHandshakes
<1>3. CASE TokensChanged
  BY <1>3, <1>t, ClosedValue, SameUplinks, SameHandshakes DEF TokensChanged
<1>4. ASSUME NEW s \in Socket, NEW t \in Issued, ConnectUnverified(s, t) PROVE Good
  <2>1. /\ sock[s] = "none" /\ s \notin waiting /\ waiting' = waiting \union {s}
        /\ sock' = Upgraded(s) /\ slot' = slot /\ conn' = conn
    BY <1>4 DEF ConnectUnverified, Idle
  <2>2. /\ \A x \in Socket \ {s} : sock'[x] = sock[x]
        /\ sock'[s] # "none" <=> s \in Uplink
    BY <1>t, <2>1 DEF Upgraded, ServerTypeOK
  <2>3. Handshaking'
    BY <1>t, <2>1, <2>2 DEF Handshaking
  <2>4. OneLiveUplink'
    BY <1>t, <2>1, <2>2 DEF ServerInv, OneLiveUplink, ServerTypeOK
  <2> QED BY <2>3, <2>4
<1>5. ASSUME NEW u \in Uplink, NEW v \in Version, StateMessage(u, v) PROVE Good
  BY <1>5, SameUplinks, SameHandshakes DEF StateMessage
<1>6. ASSUME NEW u \in Uplink, NEW e \in Edit, UplinkEdit(u, e) PROVE Good
  BY <1>6, SameUplinks, SameHandshakes DEF UplinkEdit
<1>7. ASSUME NEW c \in Client, NEW e \in Edit, ClientEdit(c, e) PROVE Good
  BY <1>7, SameUplinks, SameHandshakes DEF ClientEdit
<1>8. ASSUME NEW c \in Client, InvalidEdit(c) PROVE Good
  BY <1>8, <1>t, ClosedValue, SameUplinks, SameHandshakes DEF InvalidEdit
<1>9. ASSUME NEW c \in Client, Abort(c) PROVE Good
  BY <1>9, <1>t, SameUplinks, SameHandshakes DEF Abort
<1>10. ASSUME NEW c \in Client, ClientClosed(c) PROVE Good
  <2>1. sock[c] # "none" /\ sock' = [sock EXCEPT ![c] = "none"] /\ UNCHANGED <<waiting, slot, conn>>
    BY <1>10 DEF ClientClosed, Registered
  <2> QED BY <1>t, <2>1, SameUplinks, SameHandshakes DEF ServerTypeOK
<1>11. ASSUME NEW s \in Socket, Limit(s) PROVE Good
  <2>1. /\ sock[s] # "none" /\ sock' = [sock EXCEPT ![s] = "limited"]
        /\ UNCHANGED <<waiting, slot, conn>>
    BY <1>11 DEF Limit
  <2> QED BY <1>t, <2>1, SameUplinks, SameHandshakes DEF ServerTypeOK
<1>12. ASSUME NEW u \in Uplink, UplinkClosed(u) PROVE Good
  <2>1. /\ sock[u] # "none" /\ waiting' = waiting \ {u} /\ sock'[u] = "none"
        /\ \A s \in Socket \ {u} : (sock'[s] # "none") <=> (sock[s] # "none")
        /\ IF slot = u THEN slot' = NoUplink /\ conn' = NoUplink
           ELSE slot' = slot /\ conn' = conn
    <3>1. sock[u] # "none" /\ waiting' = waiting \ {u} /\ u \in Socket
      BY <1>12, <1>t DEF UplinkClosed
    <3>2. CASE slot = u
      <4>1. /\ slot' = NoUplink /\ conn' = NoUplink
            /\ sock' = [Closed(Client) EXCEPT ![u] = "none"]
        BY <1>12, <3>2 DEF UplinkClosed, ReleaseSlot
      <4> QED BY <3>1, <3>2, <4>1 DEF Closed
    <3>3. CASE slot # u
      <4>1. slot' = slot /\ conn' = conn /\ sock' = [sock EXCEPT ![u] = "none"]
        BY <1>12, <3>3 DEF UplinkClosed
      <4> QED BY <1>t, <3>1, <3>3, <4>1 DEF ServerTypeOK
    <3> QED BY <3>2, <3>3
  <2>2. Handshaking'
    BY <1>t, <2>1, SameHandshakes
  <2>3. OneLiveUplink'
    BY <1>t, <2>1 DEF ServerInv, OneLiveUplink, ServerTypeOK
  <2> QED BY <2>2, <2>3
<1> QED BY ServerCases, <1>1, <1>2, <1>3, <1>4, <1>5, <1>6, <1>7, <1>8, <1>9, <1>10, <1>11, <1>12

-----------------------------------------------------------------------------
(* The clients.                                                            *)

\* A client stays in while neither its session nor what it has been sent changes.
LEMMA StillIn ==
  ASSUME ServerInv, [AuthNext]_authVars, live' = live,
         NEW c \in Client, In(c), conn' = conn,
         cred'[c] = cred[c], bound'[c] = bound[c], seen'[c] = seen[c],
         state'[conn] = state[conn], doc'[conn] \subseteq docSeen'[c]
  PROVE  In(c)'
<1>1. Sessions' = Sessions /\ info'[cred[c]] = info[cred[c]]
  BY SameTokens DEF ServerInv, In
<1> QED BY <1>1 DEF In, RoleOf, View

\* A step that sends nothing and lets nobody in.
LEMMA SameServed ==
  ASSUME ServerInv, [AuthNext]_authVars, live' = live,
         UNCHANGED <<conn, state, doc, bound, seen, docSeen>>,
         \A c \in Client : sock'[c] = "open" => sock[c] = "open" /\ cred'[c] = cred[c]
  PROVE  Served'
<1>1. \A c \in Client : sock'[c] = "open" => In(c)'
  BY StillIn DEF ServerInv, Served, In
<1>2. conn # NoUplink => state[conn].auth = Listed(live)'
  BY SameTokens DEF ServerInv, Served
<1> QED BY <1>1, <1>2 DEF Served

\* An edit reaches every client that is in.
LEMMA EditServed ==
  ASSUME ServerInv, [AuthNext]_authVars, NEW u \in Uplink, NEW e, NEW origin,
         doc' = [doc EXCEPT ![u] = @ \union {e}], FanOut(e, origin),
         UNCHANGED <<info, live, sock, cred, conn, state, bound, seen>>
  PROVE  Served'
<1>1. ASSUME NEW c \in Client, sock[c] = "open" PROVE In(c)'
  <2>1. In(c) /\ docSeen'[c] = docSeen[c] \union {e} /\ conn \in Uplink
    BY <1>1 DEF ServerInv, ServerTypeOK, Served, In, FanOut
  <2>2. doc'[conn] \subseteq docSeen'[c]
    BY <2>1 DEF ServerInv, ServerTypeOK, In
  <2> QED BY <2>1, <2>2, StillIn
<1>2. conn # NoUplink => state[conn].auth = Listed(live)'
  BY SameTokens DEF ServerInv, Served
<1> QED BY <1>1, <1>2 DEF Served

\* Every step leaves whoever is served with a live credential.
LEMMA ServedStep ==
  ASSUME ServerInv, [ServerNext]_serverVars
  PROVE  Served'
<1>a. [AuthNext]_authVars
  BY ServerStepIsAuthStep
<1>t. /\ ServerTypeOK /\ Client \subseteq Socket /\ Uplink \subseteq Socket
      /\ Uplink \intersect Client = {}
      /\ conn # NoUplink => conn = slot /\ conn \in Uplink
  BY SocketAssumption DEF ServerInv, Socket, ServerTypeOK, OneLiveUplink
<1>o. /\ \A c \in Client : sock[c] = "open" => In(c)
      /\ conn # NoUplink => state[conn].auth = Listed(live)
  BY DEF ServerInv, Served
<1> USE DEF connVars
<1>1. ASSUME NEW W, NEW k, NEW sk, NEW cr, NEW authentic, Arriving(W, k, sk, cr, authentic)
      PROVE  Served'
  <2>u. live' = live /\ info' = info /\ Sessions' = Sessions /\ Listed(live)' = Listed(live)
    BY <1>1 DEF Arriving, Sessions, Listed
  <2>1. CASE k[1] = "session"
    <3>1. PICK A \in SUBSET W : LetIn(A, W, k[2])
      BY <1>1, <2>1, ClientsArrive
    <3>2. ASSUME NEW c \in A PROVE In(c)'
      <4>1. /\ c \in Client /\ conn # NoUplink /\ k[2] \in Sessions
            /\ cred'[c] = k[2] /\ bound'[c] = conn /\ docSeen'[c] = doc[conn]
            /\ seen'[c] = View(info[k[2]].role, state[conn])
            /\ UNCHANGED <<conn, state, doc>>
        BY <1>t, <3>1 DEF LetIn
      <4> QED BY <2>u, <4>1 DEF In, RoleOf, View
    <3>3. ASSUME NEW c \in Client, c \notin A, sock'[c] = "open" PROVE In(c)'
      <4>1. /\ sock[c] = "open" /\ bound'[c] = bound[c]
            /\ seen'[c] = seen[c] /\ docSeen'[c] = docSeen[c]
            /\ UNCHANGED <<conn, state, doc>>
        BY <1>t, <3>1, <3>3 DEF LetIn
      <4>2. c \notin W
        BY <1>1, <3>3, <4>1 DEF Arriving
      <4>3. cred'[c] = cred[c]
        BY <1>t, <3>1, <3>3, <4>2 DEF LetIn
      <4>4. In(c)
        BY <1>o, <4>1
      <4> QED BY <1>a, <2>u, <4>1, <4>3, <4>4, StillIn DEF In
    <3>4. UNCHANGED <<conn, state>>
      BY <3>1 DEF LetIn
    <3> QED BY <1>o, <2>u, <3>2, <3>3, <3>4 DEF Served
  <2>2. CASE k[1] # "session"
    <3>1. SlotGiven(W)
      BY <1>1, <2>2, UplinksArrive
    <3>2. /\ \A c \in Client : sock'[c] = sock[c] /\ cred'[c] = cred[c]
          /\ UNCHANGED <<conn, bound, seen, docSeen>>
      BY <3>1 DEF SlotGiven
    <3>3. conn # NoUplink => state'[conn] = state[conn] /\ doc'[conn] = doc[conn]
      BY <1>t, <3>1 DEF SlotGiven, ServerTypeOK
    <3>4. ASSUME NEW c \in Client, sock'[c] = "open" PROVE In(c)'
      BY <1>a, <1>o, <2>u, <3>2, <3>3, <3>4, StillIn DEF In
    <3> QED BY <1>o, <2>u, <3>2, <3>3, <3>4 DEF Served
  <2> QED BY <2>1, <2>2
<1>2. CASE UNCHANGED connVars /\ live' = live
  BY <1>2, <1>a, SameServed
<1>3. CASE TokensChanged /\ UNCHANGED info
  <2>1. \A c \in Client : sock'[c] = "open" =>
          sock[c] = "open" /\ cred[c] \in live' /\ info[cred[c]].kind = "session"
    BY <1>3, <1>t, ClosedValue DEF TokensChanged, Revoked, Registered
  <2>2. UNCHANGED <<cred, conn, doc, bound, docSeen>>
    BY <1>3 DEF TokensChanged
  <2>3. CASE conn = NoUplink
    BY <1>o, <2>1, <2>2, <2>3 DEF Served, In
  <2>4. CASE conn # NoUplink
    <3> DEFINE s == [state[conn] EXCEPT !.auth = Listed(live')]
    <3>1. state' = [state EXCEPT ![conn] = s] /\ Broadcast(s, sock')
      BY <1>3, <2>4 DEF TokensChanged
    <3>2. s.auth = Listed(live')
      BY <1>t, <2>4 DEF ServerTypeOK, StateView
    <3>3. Listed(live)' = Listed(live')
      BY <1>3 DEF Listed
    <3> HIDE DEF s
    <3>4. state'[conn] = s
      BY <1>t, <2>4, <3>1 DEF ServerTypeOK
    <3>5. ASSUME NEW c \in Client, sock'[c] = "open" PROVE In(c)'
      <4>1. In(c)
        BY <1>o, <2>1, <3>5
      <4>2. cred[c] \in Sessions'
        BY <1>3, <2>1, <3>5 DEF Sessions
      <4>3. seen'[c] = View(RoleOf(c), s)
        BY <3>1, <3>5 DEF Broadcast
      <4>4. RoleOf(c)' = RoleOf(c)
        BY <1>3, <2>2 DEF RoleOf
      <4> QED BY <2>2, <3>4, <4>1, <4>2, <4>3, <4>4 DEF In, View
    <3> QED BY <2>2, <3>2, <3>3, <3>4, <3>5 DEF Served
  <2> QED BY <2>3, <2>4
<1>4. ASSUME NEW s \in Socket, NEW t \in Issued, ConnectUnverified(s, t) PROVE Served'
  <2>1. /\ sock[s] = "none" /\ sock' = Upgraded(s) /\ cred' = [cred EXCEPT ![s] = t]
        /\ live' = live /\ UNCHANGED <<conn, state, doc, bound, seen, docSeen>>
    BY <1>4 DEF ConnectUnverified, Idle, BeginVerify
  <2>2. \A c \in Client : sock'[c] = "open" => sock[c] = "open" /\ cred'[c] = cred[c]
    BY <1>t, <2>1 DEF Upgraded, ServerTypeOK
  <2> QED BY <1>a, <2>1, <2>2, SameServed
<1>5. ASSUME NEW u \in Uplink, NEW v \in Version, StateMessage(u, v) PROVE Served'
  <2> DEFINE s == [desktop |-> v, auth |-> IF conn = u THEN state[u].auth ELSE Listed(live)]
  <2>1. /\ slot = u /\ conn' = u /\ state' = [state EXCEPT ![u] = s] /\ Broadcast(s, sock)
        /\ UNCHANGED <<info, live, sock, cred, doc, bound, docSeen>>
    BY <1>5 DEF StateMessage, authVars
  <2>2. s.auth = Listed(live)
    BY <1>o, <2>1, NoUplinkAssumption
  <2>3. conn = NoUplink \/ conn = u
    BY <1>t, <2>1
  <2>4. Sessions' = Sessions /\ Listed(live)' = Listed(live)
    BY <2>1 DEF Sessions, Listed
  <2> HIDE DEF s
  <2>5. state'[u] = s
    BY <1>t, <2>1 DEF ServerTypeOK
  <2>6. ASSUME NEW c \in Client, sock'[c] = "open" PROVE In(c)'
    <3>1. In(c) /\ conn = u
      BY <1>o, <2>1, <2>3, <2>6 DEF In
    <3>2. seen'[c] = View(RoleOf(c), s) /\ RoleOf(c)' = RoleOf(c)
      BY <2>1, <2>6 DEF Broadcast, RoleOf
    <3> QED BY <2>1, <2>4, <2>5, <3>1, <3>2 DEF In, View
  <2> QED BY <2>1, <2>2, <2>4, <2>5, <2>6 DEF Served
<1>6. ASSUME NEW u \in Uplink, NEW e \in Edit, UplinkEdit(u, e) PROVE Served'
  BY <1>6, <1>a, EditServed DEF UplinkEdit, authVars
<1>7. ASSUME NEW c \in Client, NEW e \in Edit, ClientEdit(c, e) PROVE Served'
  <2>1. /\ doc' = [doc EXCEPT ![bound[c]] = @ \union {e}] /\ FanOut(e, c)
        /\ UNCHANGED <<info, live, sock, cred, conn, state, bound, seen>>
    BY <1>7 DEF ClientEdit, authVars
  <2>2. CASE bound[c] \in Uplink
    BY <1>a, <2>1, <2>2, EditServed
  <2>3. CASE bound[c] \notin Uplink
    <3>1. doc' = doc
      BY <1>t, <2>1, <2>3 DEF ServerTypeOK
    <3>2. ASSUME NEW d \in Client, sock'[d] = "open" PROVE In(d)'
      <4>1. In(d) /\ docSeen[d] \subseteq docSeen'[d]
        BY <1>o, <2>1, <3>2 DEF FanOut
      <4> QED BY <1>a, <2>1, <3>1, <4>1, StillIn DEF In
    <3>3. Listed(live)' = Listed(live)
      BY <2>1 DEF Listed
    <3> QED BY <1>o, <2>1, <3>2, <3>3 DEF Served
  <2> QED BY <2>2, <2>3
<1>8. ASSUME NEW c \in Client, InvalidEdit(c) PROVE Served'
  BY <1>8, <1>a, <1>t, ClosedValue, SameServed DEF InvalidEdit, authVars
<1>9. ASSUME NEW c \in Client, Abort(c) PROVE Served'
  <2>1. sock[c] = "none"
    BY <1>9, <1>t DEF Abort, ServerInv, Handshaking
  <2>2. /\ cred' = [cred EXCEPT ![c] = NoToken] /\ live' = live
        /\ UNCHANGED <<sock, conn, state, doc, bound, seen, docSeen>>
    BY <1>9 DEF Abort, authVars
  <2> QED BY <1>a, <1>t, <2>1, <2>2, SameServed DEF ServerTypeOK
<1>10. ASSUME NEW c \in Client, ClientClosed(c) PROVE Served'
  <2>1. /\ sock' = [sock EXCEPT ![c] = "none"] /\ cred' = [cred EXCEPT ![c] = NoToken]
        /\ bound' = [bound EXCEPT ![c] = NoUplink]
        /\ seen' = [seen EXCEPT ![c] = NoState]
        /\ docSeen' = [docSeen EXCEPT ![c] = {}]
        /\ UNCHANGED <<info, live, conn, state, doc>>
    BY <1>10 DEF ClientClosed, authVars
  <2>2. ASSUME NEW d \in Client, sock'[d] = "open" PROVE In(d)'
    <3>1. /\ d # c /\ sock[d] = "open" /\ cred'[d] = cred[d] /\ bound'[d] = bound[d]
          /\ seen'[d] = seen[d] /\ docSeen'[d] = docSeen[d]
      BY <1>t, <2>1, <2>2 DEF ServerTypeOK
    <3> QED BY <1>a, <1>o, <2>1, <3>1, StillIn DEF In
  <2>3. Listed(live)' = Listed(live)
    BY <2>1 DEF Listed
  <2> QED BY <1>o, <2>1, <2>2, <2>3 DEF Served
<1>11. ASSUME NEW s \in Socket, Limit(s) PROVE Served'
  <2>1. /\ sock' = [sock EXCEPT ![s] = "limited"] /\ live' = live
        /\ UNCHANGED <<cred, conn, state, doc, bound, seen, docSeen>>
    BY <1>11 DEF Limit, authVars
  <2> QED BY <1>a, <1>t, <2>1, SameServed DEF ServerTypeOK
<1>12. ASSUME NEW u \in Uplink, UplinkClosed(u) PROVE Served'
  <2>1. /\ cred' = [cred EXCEPT ![u] = NoToken] /\ live' = live
        /\ UNCHANGED <<state, doc, bound, seen, docSeen>>
    BY <1>12 DEF UplinkClosed, authVars
  <2>2. \A c \in Client : cred'[c] = cred[c]
    BY <1>t, <2>1 DEF ServerTypeOK
  <2>3. CASE slot = u
    <3>1. conn' = NoUplink /\ sock' = [Closed(Client) EXCEPT ![u] = "none"]
      BY <1>12, <2>3 DEF UplinkClosed, ReleaseSlot
    <3>2. \A c \in Client : sock'[c] # "open"
      BY <1>t, <3>1 DEF Closed
    <3> QED BY <3>1, <3>2 DEF Served
  <2>4. CASE slot # u
    <3>1. conn' = conn /\ sock' = [sock EXCEPT ![u] = "none"]
      BY <1>12, <2>4 DEF UplinkClosed
    <3> QED BY <1>a, <1>t, <2>1, <2>2, <3>1, SameServed DEF ServerTypeOK
  <2> QED BY <2>3, <2>4
<1> QED BY ServerCases, <1>1, <1>2, <1>3, <1>4, <1>5, <1>6, <1>7, <1>8, <1>9, <1>10, <1>11, <1>12

-----------------------------------------------------------------------------
(* The invariant, and what follows from it.                                *)

LEMMA InitServerInv == ServerInit => ServerInv
<1> SUFFICES ASSUME ServerInit PROVE ServerInv
  OBVIOUS
<1>1. ServerTypeOK /\ AuthInv /\ VerifiedAreLive
  BY InitServerTypes, AuthTypeInit, RedeemInvInit
  DEF ServerInit, AuthInv, AuthInit, VerifiedAreLive
<1>2. \A s \in Socket : sock[s] = "none"
  BY DEF ServerInit
<1>3. Client \subseteq Socket /\ Uplink \subseteq Socket
  BY DEF Socket
<1> QED BY <1>1, <1>2, <1>3 DEF ServerInit, ServerInv, OneLiveUplink, Handshaking, Served

\* Every step keeps the invariant.
LEMMA ServerInvStep == ServerInv /\ [ServerNext]_serverVars => ServerInv'
<1> SUFFICES ASSUME ServerInv, [ServerNext]_serverVars PROVE ServerInv'
  OBVIOUS
<1>1. [AuthNext]_authVars
  BY ServerStepIsAuthStep
<1>2. AuthInv' /\ VerifiedAreLive'
  BY <1>1, AuthTypeStep, RedeemInvStep, VerifiedStep DEF ServerInv, AuthInv
<1> QED BY <1>2, ServerTypeStep, UplinkStep, ServedStep DEF ServerInv

\* Credentials and connections agree whatever order verifications, revocations and
\* closes come in (ws/uplink.ts, ws/client.ts): the invariant behind the theorems below.
THEOREM ServerInvariant == ServerSpec => []ServerInv
BY InitServerInv, ServerInvStep, PTL DEF ServerSpec

\* The registers of the server keep their types, those of Auth among them.
THEOREM ServerTypeCorrect == ServerSpec => []ServerTypeOK
BY ServerInvariant, PTL DEF ServerInv

\* However closes, limits and derivations interleave, the slot is not held by a
\* socket that is gone, no second uplink is let in beside it, and a client that has
\* not been told to go is on the uplink of the moment (#743, uplink.ts:26).
THEOREM UplinkStaysHeld == ServerSpec => []UplinkHeld
<1>1. ServerInv => UplinkHeld
  BY DEF ServerInv, Served, In, UplinkHeld, ClientsFollowUplink
<1> QED BY <1>1, ServerInvariant, PTL

\* A client that has not been told to go holds a session that is still there, and
\* has been sent all its role may see of the present state, and every edit.
THEOREM ClientsStayServed == ServerSpec => []ClientsServed
<1>1. ServerInv => ClientsServed
  BY DEF ServerInv, Served, In, ClientsServed, RevokedAreDropped, ClientsUpToDate
<1> QED BY <1>1, ServerInvariant, PTL

\* The cache and the redemptions stay sound when they are driven by connections.
THEOREM ServerKeepsCredentials == ServerSpec => []VerifiedAreLive /\ []RedeemedIsSpent
BY ServerUsesAuth, VerifiedStayLive, RedeemedStaysSpent, PTL

-----------------------------------------------------------------------------
(* The server is a Room.                                                   *)

\* The session each client is in with: the refinement mapping of ControlServer.
Inside == [c \in Client |-> IF sock[c] = "open" THEN cred[c] ELSE NoToken]

\* A step that lets nobody in or out, and changes neither the sessions nor the uplink.
LEMMA NobodyMoves ==
  ASSUME \A c \in Client : Inside'[c] = Inside[c], Sessions' = Sessions, conn' = conn
  PROVE  UNCHANGED R!roomVars
<1>1. Inside' = Inside
  BY DEF Inside
<1> QED BY <1>1 DEF R!roomVars, Inside

\* One client goes, or nobody does.
LEMMA OneLeaves ==
  ASSUME NEW d \in Client, Sessions' = Sessions, conn' = conn,
         \A c \in Client : Inside'[c] = IF c = d THEN NoToken ELSE Inside[c]
  PROVE  R!Leave
<1>1. Inside' = [c \in Client |-> IF c \in {d} THEN NoToken ELSE Inside[c]]
  BY DEF Inside
<1> QED BY <1>1 DEF R!Leave, R!Out, Inside

\* Every step of the server is one of the room, or none of its business.
LEMMA ServerStepIsRoomStep ==
  ASSUME ServerInv, [ServerNext]_serverVars
  PROVE  [R!RoomNext]_(R!roomVars)
<1>t. /\ ServerTypeOK /\ Client \subseteq Socket /\ Uplink \subseteq Socket
      /\ Uplink \intersect Client = {}
      /\ conn # NoUplink => conn = slot /\ conn \in Uplink
      /\ \A c \in Client : Inside[c] = IF sock[c] = "open" THEN cred[c] ELSE NoToken
      /\ \A c \in Client : Inside'[c] = IF sock'[c] = "open" THEN cred'[c] ELSE NoToken
  BY SocketAssumption DEF ServerInv, Socket, ServerTypeOK, OneLiveUplink, Inside
<1>o. \A c \in Client : sock[c] = "open" => cred[c] \in Sessions /\ conn # NoUplink
  BY DEF ServerInv, Served, In
<1>s. live' = live => Sessions' = Sessions
  BY ServerStepIsAuthStep, SameTokens DEF ServerInv
<1> USE DEF connVars
<1>1. ASSUME NEW W, NEW k, NEW sk, NEW cr, NEW authentic, Arriving(W, k, sk, cr, authentic)
      PROVE  [R!RoomNext]_(R!roomVars)
  <2>u. Sessions' = Sessions
    BY <1>1, <1>s DEF Arriving
  <2>1. CASE k[1] = "session"
    <3>1. PICK A \in SUBSET W : LetIn(A, W, k[2])
      BY <1>1, <2>1, ClientsArrive
    <3>2. \A c \in W : c \in Client /\ sock[c] = "none"
      BY <1>1, <3>1 DEF Arriving, LetIn
    <3>3. \A c \in Client : Inside'[c] = IF c \in A THEN k[2] ELSE Inside[c]
      BY <1>t, <3>1, <3>2 DEF LetIn
    <3>4. conn' = conn
      BY <3>1 DEF LetIn
    <3>5. CASE A = {}
      BY <2>u, <3>3, <3>4, <3>5, NobodyMoves
    <3>6. CASE A # {}
      <4>1. /\ A \in SUBSET Client /\ k[2] \in Sessions /\ conn # NoUplink
            /\ \A c \in A : Inside[c] = NoToken
        BY <1>t, <3>1, <3>2, <3>6 DEF LetIn
      <4>2. Inside' = [c \in Client |-> IF c \in A THEN k[2] ELSE Inside[c]]
        BY <3>3 DEF Inside
      <4>3. R!Enter
        BY <2>u, <3>4, <4>1, <4>2 DEF R!Enter, Inside
      <4> QED BY <4>3 DEF R!RoomNext
    <3> QED BY <3>5, <3>6
  <2>2. CASE k[1] # "session"
    <3>1. SlotGiven(W)
      BY <1>1, <2>2, UplinksArrive
    <3> QED BY <1>t, <2>u, <3>1, NobodyMoves DEF SlotGiven
  <2> QED BY <2>1, <2>2
<1>2. CASE UNCHANGED connVars /\ live' = live
  BY <1>2, <1>s, <1>t, NobodyMoves
<1>3. CASE TokensChanged /\ UNCHANGED info
  <2>1. conn' = conn /\ \A c \in Client :
          /\ cred'[c] = cred[c]
          /\ sock'[c] = "open" <=> sock[c] = "open" /\ cred[c] \in Sessions'
    BY <1>3, <1>t, ClosedValue DEF TokensChanged, Revoked, Registered, Sessions
  <2>2. Sessions' \in SUBSET Token
    BY ServerTypeStep DEF Sessions, ServerTypeOK, AuthTypeOK, Issued
  <2>3. NoToken \notin Sessions'
    BY <2>2, NoTokenAssumption
  <2>4. \A c \in Client : Inside'[c] = IF Inside[c] \notin Sessions' THEN NoToken ELSE Inside[c]
    BY <1>t, <2>1, <2>3
  <2>5. Inside' = [c \in Client |-> IF c \in {d \in Client : Inside[d] \notin Sessions'}
                                    THEN NoToken ELSE Inside[c]]
    BY <2>4 DEF Inside
  <2>6. R!Change
    BY <2>1, <2>2, <2>5 DEF R!Change, R!Out, Inside
  <2> QED BY <2>6 DEF R!RoomNext
<1>4. ASSUME NEW s \in Socket, NEW t \in Issued, ConnectUnverified(s, t)
      PROVE  [R!RoomNext]_(R!roomVars)
  <2>1. /\ sock[s] = "none" /\ sock' = Upgraded(s) /\ cred' = [cred EXCEPT ![s] = t]
        /\ live' = live /\ conn' = conn
    BY <1>4 DEF ConnectUnverified, Idle, BeginVerify
  <2>2. \A c \in Client : Inside'[c] = Inside[c]
    BY <1>t, <2>1 DEF Upgraded, ServerTypeOK
  <2> QED BY <1>s, <2>1, <2>2, NobodyMoves
<1>5. ASSUME NEW u \in Uplink, NEW v \in Version, StateMessage(u, v)
      PROVE  [R!RoomNext]_(R!roomVars)
  <2>1. slot = u /\ conn' = u /\ UNCHANGED <<live, sock, cred>>
    BY <1>5 DEF StateMessage, authVars
  <2>2. \A c \in Client : Inside'[c] = Inside[c]
    BY <1>t, <2>1
  <2>3. CASE conn = u
    BY <1>s, <2>1, <2>2, <2>3, NobodyMoves
  <2>4. CASE conn # u
    <3>1. conn = NoUplink
      BY <1>t, <2>1, <2>4
    <3>2. Inside' = Inside
      BY <2>2 DEF Inside
    <3>3. R!Found
      BY <1>s, <2>1, <3>1, <3>2 DEF R!Found, Inside
    <3> QED BY <3>3 DEF R!RoomNext
  <2> QED BY <2>3, <2>4
<1>6. ASSUME NEW u \in Uplink, NEW e \in Edit, UplinkEdit(u, e)
      PROVE  [R!RoomNext]_(R!roomVars)
  BY <1>6, <1>s, <1>t, NobodyMoves DEF UplinkEdit, authVars
<1>7. ASSUME NEW c \in Client, NEW e \in Edit, ClientEdit(c, e)
      PROVE  [R!RoomNext]_(R!roomVars)
  BY <1>7, <1>s, <1>t, NobodyMoves DEF ClientEdit, authVars
<1>8. ASSUME NEW c \in Client, InvalidEdit(c) PROVE [R!RoomNext]_(R!roomVars)
  <2>1. /\ sock' = Closed({c}) /\ UNCHANGED <<live, cred, conn>>
    BY <1>8 DEF InvalidEdit, authVars
  <2>2. \A d \in Client : Inside'[d] = IF d = c THEN NoToken ELSE Inside[d]
    BY <1>t, <2>1, ClosedValue
  <2> QED BY <1>s, <2>1, <2>2, OneLeaves DEF R!RoomNext
<1>9. ASSUME NEW c \in Client, Abort(c) PROVE [R!RoomNext]_(R!roomVars)
  <2>1. sock[c] = "none"
    BY <1>9, <1>t DEF Abort, ServerInv, Handshaking
  <2>2. cred' = [cred EXCEPT ![c] = NoToken] /\ UNCHANGED <<live, sock, conn>>
    BY <1>9 DEF Abort, authVars
  <2>3. \A d \in Client : Inside'[d] = Inside[d]
    BY <1>t, <2>1, <2>2 DEF ServerTypeOK
  <2> QED BY <1>s, <2>2, <2>3, NobodyMoves
<1>10. ASSUME NEW c \in Client, ClientClosed(c) PROVE [R!RoomNext]_(R!roomVars)
  <2>1. /\ sock' = [sock EXCEPT ![c] = "none"] /\ cred' = [cred EXCEPT ![c] = NoToken]
        /\ UNCHANGED <<live, conn>>
    BY <1>10 DEF ClientClosed, authVars
  <2>2. \A d \in Client : Inside'[d] = IF d = c THEN NoToken ELSE Inside[d]
    BY <1>t, <2>1 DEF ServerTypeOK
  <2> QED BY <1>s, <2>1, <2>2, OneLeaves DEF R!RoomNext
<1>11. ASSUME NEW s \in Socket, Limit(s) PROVE [R!RoomNext]_(R!roomVars)
  <2>1. sock' = [sock EXCEPT ![s] = "limited"] /\ UNCHANGED <<live, cred, conn>>
    BY <1>11 DEF Limit, authVars
  <2>2. \A d \in Client : Inside'[d] = IF d = s THEN NoToken ELSE Inside[d]
    BY <1>t, <2>1 DEF ServerTypeOK
  <2>3. CASE s \in Client
    BY <1>s, <2>1, <2>2, <2>3, OneLeaves DEF R!RoomNext
  <2>4. CASE s \notin Client
    BY <1>s, <2>1, <2>2, <2>4, NobodyMoves
  <2> QED BY <2>3, <2>4
<1>12. ASSUME NEW u \in Uplink, UplinkClosed(u) PROVE [R!RoomNext]_(R!roomVars)
  <2>1. cred' = [cred EXCEPT ![u] = NoToken] /\ live' = live
    BY <1>12 DEF UplinkClosed, authVars
  <2>2. \A c \in Client : cred'[c] = cred[c]
    BY <1>t, <2>1 DEF ServerTypeOK
  <2>3. CASE slot = u
    <3>1. conn' = NoUplink /\ sock' = [Closed(Client) EXCEPT ![u] = "none"]
      BY <1>12, <2>3 DEF UplinkClosed, ReleaseSlot
    <3>2. \A c \in Client : sock'[c] # "open"
      BY <1>t, <3>1 DEF Closed
    <3>3. Inside' = [c \in Client |-> IF c \in Client THEN NoToken ELSE Inside[c]]
      BY <3>2 DEF Inside
    <3>4. R!Lost
      BY <1>s, <2>1, <3>1, <3>3 DEF R!Lost, R!Out, Inside
    <3> QED BY <3>4 DEF R!RoomNext
  <2>4. CASE slot # u
    <3>1. conn' = conn /\ sock' = [sock EXCEPT ![u] = "none"]
      BY <1>12, <2>4 DEF UplinkClosed
    <3>2. \A c \in Client : Inside'[c] = Inside[c]
      BY <1>t, <2>2, <3>1 DEF ServerTypeOK
    <3> QED BY <1>s, <2>1, <3>1, <3>2, NobodyMoves
  <2> QED BY <2>3, <2>4
<1> QED BY ServerCases, <1>1, <1>2, <1>3, <1>4, <1>5, <1>6, <1>7, <1>8, <1>9, <1>10, <1>11, <1>12

\* The control server implements Room: a revocation and the loss of the uplink put
\* everybody they concern out in the very step, and no check that was under way lets
\* anyone in after it.
THEOREM ServerKeepsRoom == ServerSpec => KeepsRoom
<1>1. ServerInit => R!RoomInit
  <2> SUFFICES ASSUME ServerInit PROVE R!RoomInit
    OBVIOUS
  <2>1. Sessions \subseteq Token
    BY DEF ServerInit, AuthInit, Sessions, Issued
  <2>2. [c \in Client |-> IF sock[c] = "open" THEN cred[c] ELSE NoToken]
          = [c \in Client |-> NoToken]
    BY DEF ServerInit, Socket
  <2> QED BY <2>1, <2>2 DEF ServerInit, R!RoomInit
<1> QED BY <1>1, ServerInvariant, ServerStepIsRoomStep, PTL
        DEF ServerSpec, KeepsRoom, R!RoomSpec
=============================================================================
