------------------------------- MODULE MCLive -------------------------------
(***************************************************************************)
(* Two parts that share no state and go on by their own timers: the views  *)
(* of a cell (MCViewLive) and the data sources.  A behaviour is one of the *)
(* part it begins with.                                                    *)
(***************************************************************************)
EXTENDS MCViewLive, Sources

VARIABLE part

\* Ids that run into each other: the first link has no text of its own, and the
\* text of the second is the first's counter.
MCPrefix == <<"", "0">>
MCPlaylist == <<2, 1>>

\* The operator adds and removes one link; the file has the other at most, which
\* the operator rotates; the host has any.
Within(lists, patches, files) ==
  /\ lists["custom"][1] = NoKind /\ patches[2] = NoRotation
  /\ \A f \in File : files[f] # Bad => files[f][2] = NoKind

allVars == <<liveVars, sourceVars, part>>

MCInit ==
  /\ LiveInit /\ SourceInit /\ Within(latest, overlay, contents)
  /\ part \in {"view", "sources"}
  /\ part = "view" => contents = [f \in File |-> Bad] /\ latest["custom"] = Empty

MCNext ==
  /\ part' = part
  /\ \/ part = "view" /\ LiveNext /\ UNCHANGED sourceVars
     \/ part = "sources" /\ SourceNext /\ UNCHANGED liveVars /\ Within(latest', overlay', contents')

\* Each part is fair where it is explored; of the view nothing is due elsewhere.
MCSpec ==
  MCInit /\ [][MCNext]_allVars /\ Fairness /\ (part = "sources" => SourceFairness)

\* No data source comes to a halt: neither the loop of a polled URL (poll.ts:83) nor
\* that of a watched file (watchFile.ts:39).
SourcesGoOn == part = "sources" => LoopsGoOn
=============================================================================
