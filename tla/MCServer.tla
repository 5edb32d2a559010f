------------------------------ MODULE MCServer ------------------------------
(***************************************************************************)
(* The instance of ControlServer that TLC checks for safety: one browser   *)
(* beside two uplinks and a redemption, or two browsers on one uplink and  *)
(* a token more.  All at once would be more states than can be checked.    *)
(***************************************************************************)
EXTENDS ControlServer, FiniteSets, TLC

CONSTANT MaxPending     \* bound on the derivations under way at a time

VARIABLE session        \* chosen at the start

Pending == Cardinality({k \in Key : deriving[k] # "idle"}) + Cardinality(creating)

\* The sockets that something refers to, or that have left something behind.
Used ==
  {s \in Socket : sock[s] # "none" \/ s \in waiting}
    \union {bound[c] : c \in Registered}
    \union {u \in Uplink : state[u] # NoState \/ doc[u] # {}}

Small ==
  \/ /\ session = "uplinks"
     /\ Cardinality(Issued) <= 2 /\ Cardinality(Used \intersect Client) <= 1
  \/ /\ session = "clients"
     /\ Cardinality(Used \intersect Uplink) <= 1
     /\ \A r \in Redeemer : redeem[r].phase = "idle"

MCInit == ServerInit /\ session \in {"uplinks", "clients"} /\ Small
MCNext == ServerNext /\ UNCHANGED session /\ Pending' <= MaxPending /\ Small'
MCSpec == MCInit /\ [][MCNext]_<<serverVars, session>>

\* No action distinguishes one of these from another.
Symmetry ==
  Permutations(Token) \union Permutations(Redeemer) \union Permutations(Uplink)
    \union Permutations(Client) \union Permutations(Version) \union Permutations(Edit)
=============================================================================
