------------------------------ MODULE Releases ------------------------------
(***************************************************************************)
(* How a version becomes a release: the tag a maintainer pushes, the jobs  *)
(* of release.yml (external) with the script that takes the release out of *)
(* draft (publish-release.mjs), and the daily run of release-tag.yml with  *)
(* its two checks (check-release-tag.mjs, check-release-assets.mjs), which *)
(* files a report and closes it again.                                     *)
(*                                                                         *)
(* Versions are numbers, 0 one of before the present pipeline.  GitHub may *)
(* answer or not; a read that it answers is of one moment.                 *)
(***************************************************************************)
EXTENDS Naturals, FiniteSets

CONSTANTS
  Platform,         \* legs of the publish matrix
  Kind,             \* kinds of artifacts, EXPECTED_ASSET_PATTERNS
  First,            \* FIRST_CHECKED_VERSION
  MaxVersion,       \* bound of the model
  Retries           \* attempts at a page of the listing

ASSUME ReleaseAssumption == First \in Nat \ {0} /\ MaxVersion \in Nat /\ Retries \in Nat \ {0}
ASSUME KindAssumption == IsFiniteSet(Kind) /\ Kind # {}

VARIABLES
  main,             \* the version of the manifest on main
  overdue,          \* main has claimed it for GRACE_PERIOD_HOURS
  tags,
  release,          \* for each version: "none", "draft" or "published"
  uploaded,         \* for each version: kinds whose upload has ended
  leg,              \* for each version and platform: "waiting", "done" or "failed"
  job,              \* of the job that publishes: "waiting", "editing", "done" or "failed"
  latest,           \* what GitHub calls the latest release
  byHand,           \* of the model: versions a maintainer published
  attempt,          \* of a daily run: the attempt under way, 0 for none
  report            \* the report of release-tag.yml: "none", "open"

releaseVars == <<main, overdue, tags, release, uploaded, leg, job, latest, byHand, attempt, report>>

Version == 0 .. MaxVersion
Legs == [Platform -> {"waiting", "done", "failed"}]
Unbuilt == [p \in Platform |-> "waiting"]

-----------------------------------------------------------------------------
(* Cutting a release.                                                      *)

\* The release PR is merged; there is one only once the version before has its tag.
Bump ==
  /\ main \in tags /\ main < MaxVersion
  /\ main' = main + 1 /\ overdue' = FALSE
  /\ UNCHANGED <<tags, release, uploaded, leg, job, latest, byHand, attempt, report>>

GraceEnds ==
  /\ ~overdue /\ overdue' = TRUE
  /\ UNCHANGED <<main, tags, release, uploaded, leg, job, latest, byHand, attempt, report>>

PushTag ==
  /\ main \notin tags /\ tags' = tags \union {main}
  /\ UNCHANGED <<main, overdue, release, uploaded, leg, job, latest, byHand, attempt, report>>

\* prepare-release, once the checks have passed.
Prepare(v) ==
  /\ v \in tags /\ release[v] = "none"
  /\ release' = [release EXCEPT ![v] = "draft"]
  /\ UNCHANGED <<main, overdue, tags, uploaded, leg, job, latest, byHand, attempt, report>>

\* A leg may fail half-way, and may say it is done and leave nothing behind.
LegEnds(v, p, kinds, how) ==
  /\ release[v] # "none" /\ leg[v][p] = "waiting"
  /\ leg' = [leg EXCEPT ![v][p] = how]
  /\ uploaded' = [uploaded EXCEPT ![v] = @ \union kinds]
  /\ UNCHANGED <<main, overdue, tags, release, job, latest, byHand, attempt, report>>

\* A maintainer runs the failed jobs again.
Rerun(v) ==
  /\ job[v] = "failed" \/ \E p \in Platform : leg[v][p] = "failed"
  /\ leg' = [leg EXCEPT ![v] = [p \in Platform |-> IF @[p] = "failed" THEN "waiting" ELSE @[p]]]
  /\ job' = [job EXCEPT ![v] = IF @ = "failed" THEN "waiting" ELSE @]
  /\ UNCHANGED <<main, overdue, tags, release, uploaded, latest, byHand, attempt, report>>

-----------------------------------------------------------------------------
(* evaluateReleaseAssets.                                                  *)

Missing(v) == Kind \ uploaded[v]

\* Mutant: a draft that has everything passes for a release (#698).
BugEvaluate(v) ==
  IF release[v] = "none" THEN "no-release"
  ELSE IF Missing(v) = {} THEN "complete" ELSE "incomplete"

\* Of two releases of one tag the published one decides, so one state stands for both.
Evaluate(v) ==
  IF release[v] = "none" THEN "no-release"
  ELSE IF release[v] = "draft" THEN "draft"
  ELSE IF Missing(v) = {} THEN "complete" ELSE "incomplete"

-----------------------------------------------------------------------------
(* publish-release.mjs.                                                    *)

\* Mutant: that the matrix has succeeded is taken for a complete release.
BugShouldPublish(v) == TRUE

\* describeOutcome: what is missing decides, not the status, which is that of a draft.
ShouldPublish(v) == Missing(v) = {}

\* The release is read; then it is edited.
JobReads(v) ==
  /\ job[v] = "waiting" /\ \A p \in Platform : leg[v][p] = "done"
  /\ job' = [job EXCEPT ![v] = IF ShouldPublish(v) THEN "editing" ELSE "failed"]
  /\ UNCHANGED <<main, overdue, tags, release, uploaded, leg, latest, byHand, attempt, report>>

JobEdits(v, ok) ==
  /\ job[v] = "editing"
  /\ job' = [job EXCEPT ![v] = IF ok THEN "done" ELSE "failed"]
  /\ release' = IF ok THEN [release EXCEPT ![v] = "published"] ELSE release
  /\ latest' = IF ok THEN v ELSE latest
  /\ UNCHANGED <<main, overdue, tags, uploaded, leg, byHand, attempt, report>>

PublishByHand(v) ==
  /\ release[v] = "draft" /\ job[v] = "failed"
  /\ release' = [release EXCEPT ![v] = "published"] /\ latest' = v
  /\ byHand' = byHand \union {v}
  /\ UNCHANGED <<main, overdue, tags, uploaded, leg, job, attempt, report>>

-----------------------------------------------------------------------------
(* The daily run.                                                          *)

\* evaluateReleaseTag.
TagStatus ==
  IF main \in tags THEN "tagged" ELSE IF overdue THEN "missing" ELSE "pending"

\* selectReleaseTag.
Selected == IF main < First THEN "legacy" ELSE IF main \notin tags THEN "no-tag" ELSE "check"

\* What the two checks come to; scheduled-report.yml leaves the report as it is
\* unless they fail or succeed.
Result(answered) ==
  LET assets == IF Selected # "check" THEN "ok"
                ELSE IF ~answered THEN "inconclusive"
                ELSE IF Evaluate(main) = "complete" THEN "ok" ELSE "failed"
  IN  IF TagStatus = "missing" \/ assets = "failed" THEN "failure"
      ELSE IF assets = "inconclusive" THEN "none" ELSE "success"

Concludes(answered) ==
  /\ attempt' = 0
  /\ report' = IF Result(answered) = "failure" THEN "open"
               ELSE IF Result(answered) = "success" THEN "none" ELSE report

DailyRun ==
  /\ attempt = 0 /\ attempt' = 1
  /\ UNCHANGED <<main, overdue, tags, release, uploaded, leg, job, latest, byHand, report>>

\* GitHub has a bad moment; the page is asked for again, a few times.
AttemptFails ==
  /\ attempt > 0
  /\ IF attempt = Retries THEN Concludes(FALSE) ELSE attempt' = attempt + 1 /\ UNCHANGED report
  /\ UNCHANGED <<main, overdue, tags, release, uploaded, leg, job, latest, byHand>>

Answers ==
  /\ attempt > 0
  /\ Concludes(TRUE)
  /\ UNCHANGED <<main, overdue, tags, release, uploaded, leg, job, latest, byHand>>

-----------------------------------------------------------------------------
ReleasesInit ==
  /\ main = 0 /\ overdue = FALSE /\ tags = {0} /\ latest = 0
  /\ release = [v \in Version |-> IF v = 0 THEN "published" ELSE "none"]
  /\ uploaded = [v \in Version |-> {}]
  /\ leg = [v \in Version |-> IF v = 0 THEN [p \in Platform |-> "done"] ELSE Unbuilt]
  /\ job = [v \in Version |-> IF v = 0 THEN "done" ELSE "waiting"]
  /\ byHand = {} /\ attempt = 0 /\ report = "none"

ReleasesNext ==
  \/ Bump \/ GraceEnds \/ PushTag
  \/ \E v \in Version :
       \/ Prepare(v) \/ Rerun(v) \/ JobReads(v) \/ PublishByHand(v)
       \/ \E ok \in BOOLEAN : JobEdits(v, ok)
       \/ \E p \in Platform, kinds \in SUBSET Kind, how \in {"done", "failed"} : LegEnds(v, p, kinds, how)
  \/ DailyRun \/ AttemptFails \/ Answers

ReleasesSpec == ReleasesInit /\ [][ReleasesNext]_releaseVars

\* The workflow runs daily, and GitHub answers it again and again.
ReleasesFairness ==
  /\ WF_releaseVars(DailyRun)
  /\ SF_releaseVars(Answers)

-----------------------------------------------------------------------------
(* Types of the state.                                                     *)
ReleasesTypeOK ==
  /\ main \in Version /\ overdue \in BOOLEAN /\ tags \subseteq Version /\ latest \in Version
  /\ release \in [Version -> {"none", "draft", "published"}]
  /\ uploaded \in [Version -> SUBSET Kind] /\ leg \in [Version -> Legs]
  /\ job \in [Version -> {"waiting", "editing", "done", "failed"}]
  /\ byHand \subseteq Version /\ attempt \in 0 .. Retries /\ report \in {"none", "open"}
  /\ release[latest] = "published"

\* What the pipeline publishes has every kind of artifact, whichever legs failed, were
\* run again, or said they were done: installed apps find their update metadata and
\* self-hosters their installers (#720).
PublishedIsComplete ==
  \A v \in First .. MaxVersion : release[v] = "published" /\ v \notin byHand => Missing(v) = {}

Broken ==
  \/ main >= First /\ main \in tags /\ (release[main] # "published" \/ Missing(main) # {})
  \/ main \notin tags /\ overdue

\* A version that main claims and nobody can install is reported in the end and the report
\* stays, through the bad moments of GitHub: neither a draft (#698) nor a leg that failed
\* passes for a release, and a run that could not tell closes nothing (#721).
BrokenIsReported == <>[]Broken => <>[](report = "open")
=============================================================================
