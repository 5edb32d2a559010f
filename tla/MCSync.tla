------------------------------ MODULE MCSync --------------------------------
(***************************************************************************)
(* The instance of Sync that TLC checks: at most MaxEvents changes, edits, *)
(* commands and broken sockets in all, of whatever kinds.                  *)
(***************************************************************************)
EXTENDS Sync, FiniteSets

CONSTANT MaxEvents

Events ==
  deskState + Cardinality(deskDoc \intersect DeskEdit) + Cardinality(made) + Cardinality(sent) + cuts

MCNext == Next /\ Events' <= MaxEvents
MCSpec == Init /\ [][MCNext]_vars /\ Fairness
=============================================================================
