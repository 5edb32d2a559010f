------------------------------- MODULE Updates -------------------------------
(***************************************************************************)
(* How the parts of Streamwall learn of a release: the self-updater of the *)
(* desktop on macOS and Windows (appUpdater.ts over electron-updater,      *)
(* which is external), the notice on Linux (linuxUpdateChecker.ts), the    *)
(* check of the control server (updateCheck.ts) with the page that polls   *)
(* its status (useServerStatus.ts), and the banners.                       *)
(*                                                                         *)
(* Versions are numbers, compared as isNewerVersion compares them.  A      *)
(* request to GitHub takes its answer at one moment and delivers it later; *)
(* it ends within 10 s, so a checker has one at a time.                    *)
(***************************************************************************)
EXTENDS Naturals, FiniteSets

CONSTANTS
  MaxRelease,       \* bound: versions
  MaxLoads          \* bound: requests of the page

ASSUME UpdateAssumption == MaxRelease \in Nat \ {0} /\ MaxLoads \in Nat

VARIABLES
  newest,           \* the version GitHub calls the latest
  app,              \* UpdateStatus of the self-updater: its state and version
  running,          \* the version of the desktop
  checking,         \* electron-updater has a check under way
  dismissed,        \* dismissedVersion of the control window: a status, or NoStatus
  linux,            \* the version the notice on Linux offers, 0 for none
  answer,           \* for each checker: what its request will be told, 0 for none under way
  known,            \* the release the server knows, 0 for none
  announced,        \* announcedVersion of the server
  lines,            \* of the model: announcements in the server's log
  enabled,          \* the page has a role that may see the status
  active,           \* its activeController: the newest request, 0 for none
  requests,         \* its requests under way: number, session, and answer once the server gave it
  serverStatus,     \* its status: the version known, of which session; or NoStatus
  session, loads,   \* of the model: times the page was enabled, requests so far
  hidden            \* dismissedKey of the page's banner: a version

appVars == <<app, running, checking, dismissed>>
statusVars == <<enabled, active, requests, serverStatus, session, loads, hidden>>
checkerVars == <<linux, answer, known, announced, lines>>
updateVars == <<newest, appVars, checkerVars, statusVars>>

Release == 1 .. MaxRelease
NoStatus == [state |-> "none", version |-> 0]
Idle0 == [state |-> "idle", version |-> 0]
IsNewer(candidate) == candidate > 1

\* A release; a re-run of an older one's pipeline makes that one the latest again.
NewRelease ==
  /\ newest' \in Release
  /\ UNCHANGED <<appVars, checkerVars, statusVars>>

-----------------------------------------------------------------------------
(* The self-updater.                                                       *)

SetStatus(state, version) == app' = [state |-> state, version |-> version]

\* Mutant: whatever the user has before them, the timer checks again.
BugTick ==
  /\ app.state # "quitting"
  /\ checking' = TRUE
  /\ IF checking THEN UNCHANGED app ELSE SetStatus("checking", 0)
  /\ UNCHANGED <<newest, running, dismissed, checkerVars, statusVars>>

\* start and its timer; electron-updater takes a second check for the one under way.
Tick ==
  /\ app.state \in {"idle", "checking", "error"}
  /\ checking' = TRUE
  /\ IF checking THEN UNCHANGED app ELSE SetStatus("checking", 0)
  /\ UNCHANGED <<newest, running, dismissed, checkerVars, statusVars>>

\* update-available or update-not-available.
CheckAnswers ==
  /\ checking /\ checking' = FALSE
  /\ IF newest > running THEN SetStatus("available", newest) ELSE SetStatus("idle", 0)
  /\ UNCHANGED <<newest, running, dismissed, checkerVars, statusVars>>

\* The error event and the rejection of the same call say the same.
CheckFails ==
  /\ checking /\ checking' = FALSE
  /\ SetStatus("error", 0)
  /\ UNCHANGED <<newest, running, dismissed, checkerVars, statusVars>>

\* A stray call does nothing.
Download ==
  /\ app.state = "available" /\ SetStatus("downloading", app.version)
  /\ UNCHANGED <<newest, running, checking, dismissed, checkerVars, statusVars>>

DownloadEnds(ok) ==
  /\ app.state = "downloading"
  /\ IF ok THEN SetStatus("ready", app.version) ELSE SetStatus("error", 0)
  /\ UNCHANGED <<newest, running, checking, dismissed, checkerVars, statusVars>>

\* quitAndInstall, and the start of the version installed.
Install ==
  /\ app.state = "ready" /\ running' = app.version
  /\ SetStatus("idle", 0) /\ checking' = FALSE /\ dismissed' = NoStatus
  /\ UNCHANGED <<newest, checkerVars, statusVars>>

BannerShown == app.state \in {"available", "downloading", "ready"} /\ dismissed # app

\* The notice of a state and a version.
DismissUpdate ==
  /\ BannerShown /\ dismissed' = app
  /\ UNCHANGED <<newest, app, running, checking, checkerVars, statusVars>>

-----------------------------------------------------------------------------
(* The checkers that ask GitHub themselves.                                *)

Checker == {"linux", "server"}

Ask(c) ==
  /\ answer[c] = 0 /\ answer' = [answer EXCEPT ![c] = newest]
  /\ UNCHANGED <<newest, linux, known, announced, lines, appVars, statusVars>>

\* A failure, of whatever kind, leaves what is known.
AskFails(c) ==
  /\ answer[c] # 0 /\ answer' = [answer EXCEPT ![c] = 0]
  /\ UNCHANGED <<newest, linux, known, announced, lines, appVars, statusVars>>

LinuxAnswer ==
  /\ answer["linux"] # 0 /\ answer' = [answer EXCEPT !["linux"] = 0]
  /\ linux' = IF IsNewer(answer["linux"]) THEN answer["linux"] ELSE 0
  /\ UNCHANGED <<newest, known, announced, lines, appVars, statusVars>>

\* Each newer version is announced, unless it is the one announced last.
ServerAnswer ==
  LET v == answer["server"]
  IN  /\ v # 0 /\ answer' = [answer EXCEPT !["server"] = 0]
      /\ known' = v
      /\ announced' = IF IsNewer(v) THEN v ELSE announced
      /\ lines' = IF IsNewer(v) /\ v # announced THEN lines \union {v} ELSE lines
      /\ UNCHANGED <<newest, linux, appVars, statusVars>>

-----------------------------------------------------------------------------
(* The page of an admin.                                                   *)

\* load supersedes the request before it, whose answer is then not wanted.
LoadStatus(s) ==
  /\ loads < MaxLoads /\ loads' = loads + 1
  /\ active' = loads'
  /\ requests' = requests \union {[id |-> loads', session |-> s, version |-> 0]}

\* The interval ends.
Reload ==
  /\ enabled /\ LoadStatus(session)
  /\ UNCHANGED <<newest, enabled, serverStatus, session, hidden, checkerVars, appVars>>

\* The server answers: with the status, or with 403 to a role that may not see it.
Answered(r) ==
  /\ r \in requests /\ r.version = 0
  /\ requests' = (requests \ {r}) \union {[r EXCEPT !.version = IF known = 0 THEN 1 ELSE known]}
  /\ UNCHANGED <<newest, enabled, active, serverStatus, session, loads, hidden, checkerVars, appVars>>

\* The effect the request is of stands, and no newer request was made.
Wanted(r) == r.id = active /\ r.session = session /\ enabled

\* Taken, or nothing when it is no status; an aborted request answers nothing.
Take(r, valid) ==
  /\ r \in requests /\ r.version # 0
  /\ requests' = requests \ {r}
  /\ serverStatus' = IF ~Wanted(r) THEN serverStatus
              ELSE IF valid THEN [state |-> "status", version |-> r.version, session |-> r.session]
              ELSE NoStatus
  /\ UNCHANGED <<newest, enabled, active, session, loads, hidden, checkerVars, appVars>>

\* A timeout, the network, or an abort.
LoadFails(r) ==
  /\ r \in requests /\ requests' = requests \ {r}
  /\ UNCHANGED <<newest, enabled, active, serverStatus, session, loads, hidden, checkerVars, appVars>>

\* The role changes: the effect begins with a request; when it ends, the status goes.
Enable ==
  /\ ~enabled /\ enabled' = TRUE
  /\ session' = session + 1
  /\ LoadStatus(session')
  /\ UNCHANGED <<newest, serverStatus, hidden, checkerVars, appVars>>

Disable ==
  /\ enabled /\ enabled' = FALSE
  /\ serverStatus' = NoStatus
  /\ UNCHANGED <<newest, active, requests, session, loads, hidden, checkerVars, appVars>>

HasUpdate == serverStatus # NoStatus /\ IsNewer(serverStatus.version) /\ hidden # serverStatus.version

DismissRelease ==
  /\ HasUpdate /\ hidden' = serverStatus.version
  /\ UNCHANGED <<newest, enabled, active, requests, serverStatus, session, loads, checkerVars, appVars>>

-----------------------------------------------------------------------------
UpdatesInit ==
  /\ newest = 1 /\ app = Idle0 /\ running = 1 /\ checking = FALSE /\ dismissed = NoStatus
  /\ linux = 0 /\ answer = [c \in Checker |-> 0] /\ known = 0 /\ announced = 0 /\ lines = {}
  /\ enabled = FALSE /\ active = 0 /\ requests = {} /\ serverStatus = NoStatus
  /\ session = 0 /\ loads = 0 /\ hidden = 0

AppNext ==
  \/ NewRelease \/ Tick \/ CheckAnswers \/ CheckFails \/ Download \/ Install \/ DismissUpdate
  \/ \E ok \in BOOLEAN : DownloadEnds(ok)

StatusNext ==
  \/ NewRelease \/ LinuxAnswer \/ ServerAnswer \/ Reload \/ Enable \/ Disable \/ DismissRelease
  \/ \E c \in Checker : Ask(c) \/ AskFails(c)
  \/ \E r \in requests : Answered(r) \/ LoadFails(r) \/ \E valid \in BOOLEAN : Take(r, valid)

-----------------------------------------------------------------------------
(* Types of the state.                                                     *)
UpdatesTypeOK ==
  /\ newest \in Release /\ running \in Release /\ checking \in BOOLEAN
  /\ app.state \in {"idle", "checking", "available", "downloading", "ready", "error"}
  /\ app.version # 0 <=> app.state \in {"available", "downloading", "ready"}
  /\ checking => app.state = "checking"
  /\ linux \in {0} \union Release /\ known \in {0} \union Release
  /\ announced \in {0} \union lines /\ active \in 0 .. loads
  /\ \A r \in requests : r.id \in 1 .. loads /\ r.session \in 1 .. session

\* An offer, a download and an update that is ready are the user's: no check that is due,
\* or whose answer comes late, takes one away or makes another version of it (#432).
OfferStands ==
  [][ app.state \in {"available", "downloading", "ready"} /\ app' # app =>
        \/ app.state = "available" /\ app' = [app EXCEPT !.state = "downloading"]
        \/ app.state = "downloading" /\ app' \in {[app EXCEPT !.state = "ready"], [state |-> "error", version |-> 0]}
        \/ app.state = "ready" /\ running' = app.version ]_updateVars

\* A page shows a status only while its role may see it, and only one it asked for since
\* then, not the late answer to what it asked in an earlier role.
ShownIsAsked == serverStatus # NoStatus => enabled /\ serverStatus.session = session

\* What a user is offered is neither withdrawn nor somebody else's.
OffersHold == OfferStands /\ []ShownIsAsked
=============================================================================
