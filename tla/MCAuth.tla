------------------------------- MODULE MCAuth -------------------------------
(* The instance of Auth that TLC checks.                                   *)
EXTENDS Auth, FiniteSets, TLC

CONSTANT MaxPending     \* bound on the verifications under way at a time

MCSpec ==
  /\ AuthInit
  /\ [][AuthNext /\ Cardinality({k \in Key : deriving'[k] # "idle"}) <= MaxPending]_authVars

\* No action distinguishes one token, redemption or role from another.
Symmetry == Permutations(Token) \union Permutations(Redeemer) \union Permutations(Role)
=============================================================================
