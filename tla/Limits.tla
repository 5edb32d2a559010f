------------------------------- MODULE Limits -------------------------------
(***************************************************************************)
(* What one address may ask of the control server: the limiter shared by   *)
(* the routes that verify a credential (scryptRateLimit.ts), with the part *)
(* of the cache of verified credentials it asks (Auth.tla has all of it),  *)
(* and the bucket of messages of a socket (rateLimiter.ts).                *)
(*                                                                         *)
(* Of the store of @fastify/rate-limit (external) a key has the count of   *)
(* its window.  The clock is Date.now: it may be set back.                 *)
(***************************************************************************)
EXTENDS Integers, FiniteSets

CONSTANTS
  Call,
  Credential,       \* session cookies and bearer tokens, good and bad
  Good,             \* those that verify
  NoCredential,
  AuthMax, GlobalMax,
  Capacity, Refill, \* of the bucket: tokens, and tokens per tick
  MaxClock, MaxBack \* bounds: ticks of the clock, how far it is set back

ASSUME LimitAssumption == AuthMax \in Nat \ {0} /\ GlobalMax \in Nat \ {0} /\ Good \subseteq Credential
ASSUME BucketAssumption == Capacity \in Nat \ {0} /\ Refill \in Nat \ {0}

VARIABLES
  counted,             \* requests of the window by key
  remembered, pending, \* of the cache: remembered credentials, verifications that run
  request,          \* of each: its phase, route, credential and DERIVES
  windowAdmitted,   \* of the model: requests the strict budget has let through
  refused           \* of the model: the last refusal was of a remembered credential

limitVars == <<counted, remembered, pending, request, windowAdmitted, refused>>

VARIABLES
  clock,            \* Date.now
  tokens, lastRefill,
  excess,           \* of the model: messages let through beyond what the time since refilled
  back              \* of the model: how far the clock was set back

bucketVars == <<clock, tokens, lastRefill, excess, back>>

Route == {"client", "uplink", "invite"}
Key == {"derive", "verified"}
Absent == [phase |-> "none", route |-> "client", credential |-> NoCredential, derives |-> FALSE]

-----------------------------------------------------------------------------
(* The limiter.                                                            *)

\* scryptDerives of the routes: an invite always does, a credential that is remembered or
\* being verified does not, and no credential is not verified.
Derives(route, c) ==
  \/ route = "invite"
  \/ c # NoCredential /\ c \notin remembered \union pending

\* Mutant: everything that comes from an address is of one budget.
BugKeyOf(derives) == "derive"

\* keyGenerator, with the one store all routes share (#821).
KeyOf(derives) == IF derives THEN "derive" ELSE "verified"

MaxOf(derives) == IF derives THEN AuthMax ELSE GlobalMax

\* onRequest: the classification is remembered, counted and held against its budget.
Arrive(r, route, c) ==
  /\ request[r].phase = "none"
  /\ LET derives == Derives(route, c)
         key == KeyOf(derives)
         fits == counted[key] < MaxOf(derives)
     IN  /\ counted' = IF fits THEN [counted EXCEPT ![key] = @ + 1] ELSE counted
         /\ request' = IF fits
                       THEN [request EXCEPT ![r] = [phase |-> "admitted", route |-> route,
                                                    credential |-> c, derives |-> derives]]
                       ELSE request
         /\ windowAdmitted' = IF fits /\ derives THEN windowAdmitted + 1 ELSE windowAdmitted
         /\ refused' = (~fits /\ route # "invite" /\ c \in remembered /\ counted["verified"] < GlobalMax)
  /\ UNCHANGED <<remembered, pending>>

\* verify: a hit, a verification joined, or one of its own; the uplink and the browser
\* surface alike.  An invite verifies without the cache.
Verify(r) ==
  /\ request[r].phase = "admitted"
  /\ LET c == request[r].credential
         alone == request[r].route # "invite" /\ c \in Credential \ (remembered \union pending)
     IN  /\ pending' = IF alone THEN pending \union {c} ELSE pending
         /\ request' = [request EXCEPT ![r] =
              IF request[r].route # "invite" /\ (alone \/ c \in pending) THEN [@ EXCEPT !.phase = "verifying"] ELSE Absent]
  /\ UNCHANGED <<counted, remembered, windowAdmitted, refused>>

\* The derivation ends: a match is remembered, and whoever joined has its answer.
Settle(c) ==
  /\ c \in pending
  /\ pending' = pending \ {c}
  /\ remembered' = IF c \in Good THEN remembered \union {c} ELSE remembered
  /\ request' = [r \in Call |->
       IF request[r].phase = "verifying" /\ request[r].credential = c THEN Absent ELSE request[r]]
  /\ UNCHANGED <<counted, windowAdmitted, refused>>

\* The TTL of an entry passes, or the tokens change and all go.
Forget(gone) ==
  /\ gone # {} /\ remembered' = remembered \ gone
  /\ UNCHANGED <<counted, pending, request, windowAdmitted, refused>>

WindowEnds ==
  /\ counted' = [k \in Key |-> 0] /\ windowAdmitted' = 0
  /\ UNCHANGED <<remembered, pending, request, refused>>

-----------------------------------------------------------------------------
(* TokenBucket.                                                            *)

Least(a, b) == IF a < b THEN a ELSE b

\* Mutant: a bucket at rest fills without end.
BugRefilled == IF clock <= lastRefill THEN tokens ELSE tokens + (clock - lastRefill) * Refill

\* refill: nothing while the clock is behind.
Refilled ==
  IF clock <= lastRefill THEN tokens ELSE Least(Capacity, tokens + (clock - lastRefill) * Refill)

\* tryConsume; the guard closes the socket at the first message that finds no token.
InboundMessage ==
  /\ lastRefill' = IF clock <= lastRefill THEN lastRefill ELSE clock
  /\ tokens' = IF Refilled >= 1 THEN Refilled - 1 ELSE Refilled
  /\ excess' = IF Refilled >= 1 THEN excess + 1 ELSE excess
  /\ UNCHANGED <<clock, back>>

ClockTicks ==
  /\ clock < MaxClock /\ clock' = clock + 1
  /\ excess' = IF excess > Refill THEN excess - Refill ELSE 0
  /\ UNCHANGED <<tokens, lastRefill, back>>

SetBack ==
  /\ clock > 0 /\ back < MaxBack
  /\ clock' = clock - 1 /\ back' = back + 1
  /\ UNCHANGED <<tokens, lastRefill, excess>>

-----------------------------------------------------------------------------
LimitsInit ==
  /\ counted = [k \in Key |-> 0] /\ remembered = {} /\ pending = {}
  /\ request = [r \in Call |-> Absent] /\ windowAdmitted = 0 /\ refused = FALSE
  /\ clock = 0 /\ tokens = Capacity /\ lastRefill = 0 /\ excess = 0 /\ back = 0

ScryptNext ==
  \/ \E r \in Call, route \in Route, c \in Credential \union {NoCredential} : Arrive(r, route, c)
  \/ \E r \in Call : Verify(r)
  \/ \E c \in Credential : Settle(c)
  \/ \E gone \in SUBSET remembered : Forget(gone)
  \/ WindowEnds

BucketNext == InboundMessage \/ ClockTicks \/ SetBack

\* The two share no state.
LimitsSpec ==
  LimitsInit /\ [][(ScryptNext /\ UNCHANGED bucketVars) \/ (BucketNext /\ UNCHANGED limitVars)]_<<limitVars, bucketVars>>

-----------------------------------------------------------------------------
\* Types of the state.
LimitsTypeOK ==
  /\ counted \in [Key -> Nat] /\ remembered \subseteq Good /\ pending \subseteq Credential
  /\ request \in [Call -> [phase : {"none", "admitted", "verifying"}, route : Route,
                              credential : Credential \union {NoCredential}, derives : BOOLEAN]]
  /\ windowAdmitted \in Nat /\ refused \in BOOLEAN
  /\ {clock, lastRefill, tokens, excess, back} \subseteq Nat

\* Routes that derive share the strict budget of their address (#821), and spending it
\* refuses nobody whose credential is remembered (#735): a wall that reconnects again and
\* again is not locked out by logins that fail beside it.
BudgetsApart == windowAdmitted <= AuthMax /\ ~refused

\* However the sender waits, and however the clock is set back, no stretch of time lets
\* through more than a burst and what the time refills.
BurstsBounded == excess <= Capacity

\* Nobody exceeds what an address may ask, and nobody is held to what others ask.
LimitsHold == BudgetsApart /\ BurstsBounded
=============================================================================
