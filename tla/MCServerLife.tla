---------------------------- MODULE MCServerLife ----------------------------
(***************************************************************************)
(* The instance of ServerLife that TLC checks: MaxStarts processes one     *)
(* after the other, and at most MaxQueue writes asked for and not done.    *)
(* The limits of the routes are explored beside it: a behaviour is one of  *)
(* the part it begins with.                                                *)
(***************************************************************************)
EXTENDS ServerLife, Limits

CONSTANTS MaxStarts, MaxQueue

VARIABLES starts, part

MCInit ==
  /\ Init /\ LimitsInit /\ starts = 0
  /\ part \in {"life", "budgets", "messages"}
  /\ part # "life" => file = NoFile /\ temp = NoFile

LifeNext ==
  /\ Next
  /\ starts' = IF proc' = "init" /\ ~Running THEN starts + 1 ELSE starts
  /\ starts' <= MaxStarts
  /\ Len(chain') <= MaxQueue

MCNext ==
  /\ part' = part
  /\ \/ part = "life" /\ LifeNext /\ UNCHANGED <<limitVars, bucketVars>>
     \/ part = "budgets" /\ ScryptNext /\ UNCHANGED <<vars, starts, bucketVars>>
     \/ part = "messages" /\ BucketNext /\ UNCHANGED <<vars, starts, limitVars>>

MCSpec == MCInit /\ [][MCNext]_<<vars, starts, limitVars, bucketVars, part>> /\ Fairness

\* The types of the parts.
LifeTypesOK == LifeTypeOK /\ LimitsTypeOK
=============================================================================
