------------------------------- MODULE MCCell -------------------------------
(* The instance of Cell that TLC checks for safety.                        *)
EXTENDS Cell, TLC

\* No action distinguishes one raw view, content or rectangle from another.
Symmetry == Permutations(RawView) \union Permutations(Content) \union Permutations(Position)
=============================================================================
