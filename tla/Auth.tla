-------------------------------- MODULE Auth --------------------------------
(***************************************************************************)
(* Credentials of the control server: the tokens of auth.ts, the cache of  *)
(* verifiedTokenCache.ts and the redemption of invites.                    *)
(*                                                                         *)
(* Checking or issuing a secret derives a scrypt hash off the event loop,  *)
(* so each is two steps with the rest of the server between them.  Tokens  *)
(* carry random ids and secrets: a Token stands for both, is issued at     *)
(* most once, and presenting one means presenting its id and its secret.   *)
(* Secrets that match no token never verify and are left out.              *)
(***************************************************************************)
EXTENDS Naturals

CONSTANTS
  Token,
  Redeemer,         \* the POST /invite/:id requests of a behaviour
  Role,
  NoToken

ASSUME NoTokenAssumption == NoToken \notin Token

VARIABLES
  info,             \* kind and role of each token, or Unissued
  creating,         \* tokens whose hash createToken is deriving
  live,             \* tokensById
  verified,         \* the entries of the cache: what each credential was verified as
  deriving,         \* its pending verifications
  redeem            \* the state of each redemption

authVars == <<info, creating, live, verified, deriving, redeem>>

Kind == {"invite", "session", "streamwall"}
Info == [kind : Kind, role : Role]
Unissued == [kind |-> "none", role |-> "none"]

\* Key under which the cache files a credential: presented by a browser or by the
\* desktop, whatever kind of token it turns out to be.
Key == {"session", "streamwall"} \X Token

Issued == {t \in Token : info[t] # Unissued}
Sessions == {t \in live : info[t].kind = "session"}

AuthInit ==
  /\ info \in [Token -> Info \union {Unissued}]
  /\ live = Issued
  /\ creating = {}
  /\ verified = {}
  /\ deriving = [k \in Key |-> "idle"]
  /\ redeem = [r \in Redeemer |-> [phase |-> "idle", invite |-> NoToken, session |-> NoToken]]

-----------------------------------------------------------------------------
(* validateToken behind the cache.                                         *)

\* tokensById.get(id), kept across the derivation.
Lookup(t) == IF t \in live THEN "found" ELSE "missing"

\* Start a derivation for k unless one is in flight to join.
BeginVerify(k) ==
  /\ k \notin verified
  /\ deriving' = [deriving EXCEPT ![k] = IF @ = "idle" THEN Lookup(k[2]) ELSE @]
  /\ UNCHANGED <<info, creating, live, verified, redeem>>

\* Mutant: the record found before the derivation is trusted after it.
BugStillValid(found, t) == found = "found"

\* The record is read again after the derivation.
StillValid(found, t) == found = "found" /\ t \in live

\* A result of another kind is handed to the caller, who refuses it, and never remembered.
Authenticates(k) == StillValid(deriving[k], k[2]) /\ info[k[2]].kind = k[1]

Settle(k) ==
  /\ deriving[k] # "idle"
  /\ deriving' = [deriving EXCEPT ![k] = "idle"]
  /\ verified' = IF Authenticates(k) THEN verified \union {k} ELSE verified
  /\ UNCHANGED <<info, creating, live, redeem>>

\* The entry outlives its TTL, or gives way to another in a full cache.
Expire(k) ==
  /\ k \in verified
  /\ verified' = verified \ {k}
  /\ UNCHANGED <<info, creating, live, deriving, redeem>>

-----------------------------------------------------------------------------
(* Issuing and revoking.                                                   *)

\* Mutant: the random id is not checked against those in use.
BugBeginCreate(t, kind, role) ==
  /\ info' = [info EXCEPT ![t] = [kind |-> kind, role |-> role]]
  /\ creating' = creating \union {t}

BeginCreate(t, kind, role) ==
  /\ t \notin Issued
  /\ info' = [info EXCEPT ![t] = [kind |-> kind, role |-> role]]
  /\ creating' = creating \union {t}

\* emitState: every change of the tokens clears the cache.
TokensBecome(S) == live' = S /\ verified' = {}

RedeemingInto(t) == \E r \in Redeemer : redeem[r].session = t

\* create-invite.
BeginInvite(t, role) ==
  /\ BeginCreate(t, "invite", role)
  /\ UNCHANGED <<live, verified, deriving, redeem>>

FinishInvite(t) ==
  /\ t \in creating /\ ~RedeemingInto(t)
  /\ creating' = creating \ {t}
  /\ TokensBecome(live \union {t})
  /\ UNCHANGED <<info, deriving, redeem>>

\* deleteToken of an id it knows.
DeleteToken(t) ==
  /\ t \in live
  /\ TokensBecome(live \ {t})
  /\ UNCHANGED <<info, creating, deriving, redeem>>

-----------------------------------------------------------------------------
(* POST /invite/:id.                                                       *)

BeginRedeem(r, t) ==
  /\ redeem[r].phase = "idle"
  /\ redeem' = [redeem EXCEPT ![r] = [phase |-> Lookup(t), invite |-> t, session |-> NoToken]]
  /\ UNCHANGED <<info, creating, live, verified, deriving>>

Redeemable(r) ==
  StillValid(redeem[r].phase, redeem[r].invite) /\ info[redeem[r].invite].kind = "invite"

RefuseRedeem(r) ==
  /\ redeem[r].phase \in {"found", "missing"}
  /\ ~Redeemable(r)
  /\ redeem' = [redeem EXCEPT ![r].phase = "refused"]
  /\ UNCHANGED <<info, creating, live, verified, deriving>>

AcceptRedeem(r, s) ==
  /\ redeem[r].phase \in {"found", "missing"}
  /\ Redeemable(r)
  /\ BeginCreate(s, "session", info[redeem[r].invite].role)
  /\ redeem' = [redeem EXCEPT ![r].phase = "creating", ![r].session = s]
  /\ UNCHANGED <<live, verified, deriving>>

\* Mutant: the invite is not consumed.
BugRemaining(r) == live \union {redeem[r].session}

\* The session is there before its invite goes.
Remaining(r) == (live \union {redeem[r].session}) \ {redeem[r].invite}

FinishRedeem(r) ==
  /\ redeem[r].phase = "creating"
  /\ creating' = creating \ {redeem[r].session}
  /\ TokensBecome(Remaining(r))
  /\ redeem' = [redeem EXCEPT ![r].phase = "done"]
  /\ UNCHANGED <<info, deriving>>

-----------------------------------------------------------------------------
\* Whatever changes the tokens.
ChangeTokens ==
  \/ \E t \in Token : FinishInvite(t) \/ DeleteToken(t)
  \/ \E r \in Redeemer : FinishRedeem(r)

\* The steps that concern neither a connection nor the set of tokens.
AuthQuiet ==
  \/ \E k \in Key : Expire(k)
  \/ \E r \in Redeemer :
       \/ \E t \in Issued : BeginRedeem(r, t)
       \/ RefuseRedeem(r)
       \/ \E s \in Token : AcceptRedeem(r, s)

AuthNext ==
  \/ \E k \in Key : (k[2] \in Issued /\ BeginVerify(k)) \/ Settle(k)
  \/ \E t \in Token, role \in Role : BeginInvite(t, role)
  \/ ChangeTokens
  \/ AuthQuiet

AuthSpec == AuthInit /\ [][AuthNext]_authVars

-----------------------------------------------------------------------------
(* Properties.                                                             *)

RedeemState ==
  [phase : {"idle", "found", "missing", "refused", "creating", "done"},
   invite : Token \union {NoToken},
   session : Token \union {NoToken}]

AuthTypeOK ==
  /\ info \in [Token -> Info \union {Unissued}]
  /\ live \subseteq Issued
  /\ creating \subseteq Issued \ live
  /\ verified \subseteq Key
  /\ deriving \in [Key -> {"idle", "found", "missing"}]
  /\ redeem \in [Redeemer -> RedeemState]

\* Whatever the cache would accept without deriving is a token that is still
\* there, and of the kind it is asked for: a revocation takes effect at once,
\* also against a verification that was under way (verifiedTokenCache.ts:65).
VerifiedAreLive ==
  \A k \in verified : k[2] \in live /\ info[k[2]].kind = k[1]

\* A redeemed invite is gone for good, and what it was redeemed for is a
\* session of its role.
RedeemedIsSpent ==
  \A r \in Redeemer :
    redeem[r].phase = "done" =>
      /\ redeem[r].invite \notin live
      /\ info[redeem[r].session] = [kind |-> "session", role |-> info[redeem[r].invite].role]

\* bootstrap.ts:24: "A fresh single-use admin invite link".
SingleUse ==
  \A r, s \in Redeemer :
    r # s /\ redeem[r].phase = "done" /\ redeem[s].phase = "done" =>
      redeem[r].invite # redeem[s].invite
=============================================================================
