-------------------------------- MODULE View --------------------------------
(***************************************************************************)
(* One cell of the wall: the XState actor of main/viewStateMachine.ts, the *)
(* WebContentsViews it owns, and the renderers in them.                    *)
(*                                                                         *)
(* The actor owns a current raw view (cur) and, while a change of content  *)
(* is being preloaded, a second one (next).  A raw view carries what       *)
(* Electron keeps of it: where it is attached, its bounds and audioMuted,  *)
(* the document it shows, the navigation under way, and what that document *)
(* has been told by the main process (paused, volume).                     *)
(*                                                                         *)
(* An event of the actor is one action; the state machine handles it to    *)
(* the end before it takes the next.  The timers of the machine may expire *)
(* at any moment at which they run.                                        *)
(***************************************************************************)
EXTENDS Naturals

CONSTANTS
  RawView,          \* identities of WebContentsViews, two are ever alive
  NoView,
  Content,          \* what a cell may be asked to show
  NoContent,
  Position,         \* rectangles (and spaces) on the wall
  NoPosition,
  Volume,           \* playback levels
  DefaultVolume,    \* the level of a new actor, 1 in the code
  NoVolume,
  MaxRetries        \* retry.maxRetries; 0 stands for retry.enabled = false too

ASSUME NoViewAssumption == NoView \notin RawView
ASSUME NoContentAssumption == NoContent \notin Content
ASSUME NoPositionAssumption == NoPosition \notin Position
ASSUME VolumeAssumption == DefaultVolume \in Volume /\ NoVolume \notin Volume
ASSUME MaxRetriesAssumption == MaxRetries \in Nat

VARIABLES
  mode,             \* state value: gone, empty, the phases of loading, running, error
  swap,             \* the region running.swap
  playback,         \* the region running.playback
  audio,            \* the region running.audio
  video,            \* the region running.video
  pos, content,     \* context.pos and context.content, assigned by DISPLAY
  volume,
  retryCount,
  desiredAudio, desiredBlurred, desiredPaused,
  parked,
  cur, next,        \* context.view and context.next
  raw               \* the raw views

regions == <<swap, playback, audio, video>>
target == <<pos, content>>
desired == <<volume, desiredAudio, desiredBlurred, desiredPaused>>
vars == <<mode, regions, target, desired, retryCount, parked, cur, next, raw>>

LoadPhase == {"navigate", "waitForInit", "waitForVideo"}
AudioState == {"muted", "listening", "background"}

Loading == mode \in LoadPhase
Running == mode = "running"
Displaying == Loading \/ Running \/ mode = "error"
Preloading == Running /\ swap # "idle"
Live == {cur, next} \ {NoView}

-----------------------------------------------------------------------------
(* Raw views.                                                              *)

NoDocument == [doc |-> NoContent, phase |-> "blank", paused |-> "unset", level |-> NoVolume]

Disposed == [place |-> "none", bounds |-> NoPosition, muted |-> FALSE,
             nav |-> NoContent, page |-> NoDocument]

Created == [Disposed EXCEPT !.place = "off"]

\* offscreenView: attached to its own hidden window, which it fills.
Offscreen(r) == [r EXCEPT !.place = "off", !.bounds = NoPosition]

\* positionView: attached to the wall window at the cell's rectangle.
Positioned(r, p) == [r EXCEPT !.place = "wall", !.bounds = p]

\* webContents.send of a message of the preload: a view without a document has no listener.
Told(r, field, x) ==
  IF r.page.phase = "blank" THEN r ELSE [r EXCEPT !.page[field] = x]

\* loadPage once the URL is accepted: mute, then start the navigation.
Navigating(r, c) == [r EXCEPT !.muted = TRUE, !.nav = c]

\* The renderer commits the navigation: a new document, its preload listening.
Committed(r) ==
  [r EXCEPT !.nav = NoContent,
            !.page = [doc |-> r.nav, phase |-> "new", paused |-> "unset", level |-> NoVolume]]

\* The reply to view-init fills in only what no earlier message has set.
Inited(r) ==
  [r EXCEPT !.page =
     [doc    |-> r.page.doc,
      phase  |-> "inited",
      paused |-> IF r.page.paused # "unset" THEN r.page.paused
                 ELSE IF desiredPaused THEN "yes" ELSE "no",
      level  |-> IF r.page.level # NoVolume THEN r.page.level ELSE volume]]

\* disposeView of every view in S.
Without(S, rs) == [v \in RawView |-> IF v \in S THEN Disposed ELSE rs[v]]

-----------------------------------------------------------------------------
(* Entering and leaving the states of the machine.                         *)

InitialRegions ==
  /\ swap' = "idle" /\ playback' = "playing" /\ audio' = "muted" /\ video' = "normal"

\* Mutant: running has no exit action.
BugLeaveLeaks(rs) ==
  InitialRegions /\ next' = NoView /\ raw' = rs /\ UNCHANGED cur

\* Leaving running disposes a preload in flight; the other states have none.
LeaveRunning(rs) ==
  /\ InitialRegions
  /\ next' = NoView
  /\ raw' = Without({next}, rs)
  /\ UNCHANGED cur

StartLoading(rs) == mode' = "navigate" /\ LeaveRunning(rs)
Fail == mode' = "error" /\ LeaveRunning(raw) /\ UNCHANGED <<target, desired, retryCount, parked>>

\* A failed preload falls back to reloading the current view, spending no retry.
AbandonPreload == StartLoading(raw) /\ UNCHANGED <<target, desired, retryCount, parked>>

\* Entry of running: place the view unless parked, then apply the recorded requests.
EnterRegions(rs) ==
  /\ mode' = "running"
  /\ audio' = desiredAudio
  /\ video' = IF desiredBlurred THEN "blurred" ELSE "normal"
  /\ LET shown == IF parked THEN rs[cur] ELSE Positioned(rs[cur], pos)
         heard == [shown EXCEPT !.muted = desiredAudio = "muted"]
     IN  raw' = [rs EXCEPT ![cur] = IF desiredPaused THEN Told(heard, "paused", "yes") ELSE heard]
  /\ UNCHANGED <<swap, playback, target, desired, parked, cur, next>>

\* Mutant: reaching running counts as recovery (#645).
BugRunningRecovers(rs) == EnterRegions(rs) /\ retryCount' = 0

EnterRunning(rs) == EnterRegions(rs) /\ UNCHANGED retryCount

\* performSwap: the place of the promoted view.
Placed(r) == IF parked THEN Offscreen(r) ELSE Positioned(r, pos)

\* resyncSwappedView: what the retired view had been told.  A resume is not re-sent.
Resynced(r) ==
  LET told == Told([r EXCEPT !.muted = desiredAudio = "muted"], "level", volume)
  IN  IF desiredPaused THEN Told(told, "paused", "yes") ELSE told

\* performSwap, promoteNextView, resyncSwappedView, resetRetryState.
PromoteNext(rs) ==
  /\ raw' = Without({cur}, [rs EXCEPT ![next] = Resynced(Placed(@))])
  /\ cur' = next /\ next' = NoView
  /\ swap' = "idle"
  /\ retryCount' = 0
  /\ UNCHANGED <<mode, playback, audio, video, target, desired, parked>>

-----------------------------------------------------------------------------
(* The life of the actor: StreamWindow.createView and retireUnusedViews.   *)

Init ==
  /\ mode = "gone"
  /\ swap = "idle" /\ playback = "playing" /\ audio = "muted" /\ video = "normal"
  /\ pos = NoPosition /\ content = NoContent
  /\ volume = DefaultVolume /\ desiredAudio = "muted"
  /\ desiredBlurred = FALSE /\ desiredPaused = FALSE
  /\ retryCount = 0 /\ parked = FALSE
  /\ cur = NoView /\ next = NoView
  /\ raw = [v \in RawView |-> Disposed]

Create ==
  /\ mode = "gone"
  /\ mode' = "empty"
  /\ \E v \in RawView :
       /\ raw[v].place = "none"
       /\ cur' = v
       /\ raw' = [raw EXCEPT ![v] = Created]
  /\ UNCHANGED <<regions, target, desired, retryCount, parked, next>>

\* The stopped actor is forgotten, so its context returns to the initial one.
Stop ==
  /\ mode # "gone"
  /\ mode' = "gone"
  /\ InitialRegions
  /\ pos' = NoPosition /\ content' = NoContent
  /\ volume' = DefaultVolume /\ desiredAudio' = "muted"
  /\ desiredBlurred' = FALSE /\ desiredPaused' = FALSE
  /\ retryCount' = 0 /\ parked' = FALSE
  /\ cur' = NoView /\ next' = NoView
  /\ raw' = Without({cur, next}, raw)

-----------------------------------------------------------------------------
(* DISPLAY.  planViewLayout hands a box with other content only to a       *)
(* running view, so a loading or failed one never sees its content change. *)

DisplayFirst(p, c) ==
  /\ mode = "empty"
  /\ mode' = "navigate"
  /\ pos' = p /\ content' = c
  /\ retryCount' = 0
  /\ raw' = [raw EXCEPT ![cur] = Offscreen(@)]
  /\ UNCHANGED <<regions, desired, parked, cur, next>>

\* Only the rectangle changed, and the view is not the one on the wall yet.
DisplayMovedUnplaced(p) ==
  /\ Loading \/ mode = "error" \/ Preloading
  /\ p # pos
  /\ pos' = p
  /\ UNCHANGED <<mode, regions, content, desired, retryCount, parked, cur, next, raw>>

DisplayMoved(p) ==
  /\ Running /\ ~Preloading
  /\ p # pos
  /\ pos' = p
  /\ raw' = [raw EXCEPT ![cur] = Positioned(@, p)]
  /\ parked' = FALSE
  /\ UNCHANGED <<mode, regions, content, desired, retryCount, cur, next>>

\* Mutant: the content is assigned under a preload that goes on with the old one.
BugChangeKeepsPreload(p, c) ==
  /\ Running
  /\ c # content
  /\ pos' = p /\ content' = c
  /\ IF Preloading THEN UNCHANGED <<swap, next, raw>>
     ELSE /\ swap' = "navigate"
          /\ \E v \in RawView : /\ raw[v].place = "none"
                                /\ next' = v
                                /\ raw' = [raw EXCEPT ![v] = Created]
  /\ UNCHANGED <<mode, playback, audio, video, desired, retryCount, parked, cur>>

\* Other content: preload it in a second view, abandoning an earlier preload.
DisplayChanged(p, c) ==
  /\ Running
  /\ c # content
  /\ pos' = p /\ content' = c
  /\ swap' = "navigate"
  /\ LET kept == Without({next}, raw)
     IN  \E v \in RawView :
           /\ kept[v].place = "none"
           /\ next' = v
           /\ raw' = [kept EXCEPT ![v] = Created]
  /\ UNCHANGED <<mode, playback, audio, video, desired, retryCount, parked, cur>>

-----------------------------------------------------------------------------
(* PARK and UNPARK, around a fullscreen expansion of another cell.         *)

Park ==
  /\ mode # "gone"
  /\ raw' = [raw EXCEPT ![cur] = Offscreen(@)]
  /\ parked' = TRUE
  /\ UNCHANGED <<mode, regions, target, desired, retryCount, cur, next>>

\* Mutant: un-parking is left to DISPLAY, which finds nothing changed (#816).
BugUnparkOnlyClears ==
  /\ parked
  /\ parked' = FALSE
  /\ UNCHANGED <<mode, regions, target, desired, retryCount, cur, next, raw>>

\* While a preload is under way the retiring view is not put back.
Unpark ==
  /\ parked
  /\ parked' = FALSE
  /\ raw' = IF Running /\ ~Preloading THEN [raw EXCEPT ![cur] = Positioned(@, pos)] ELSE raw
  /\ UNCHANGED <<mode, regions, target, desired, retryCount, cur, next>>

-----------------------------------------------------------------------------
(* The operator's requests.                                                *)

\* UNMUTE, BACKGROUND and UNBACKGROUND, and what an effective MUTE does.
AudioRequest(a) ==
  /\ Displaying
  /\ desiredAudio' = a
  /\ audio' = IF Running THEN a ELSE audio
  /\ raw' = IF Running THEN [raw EXCEPT ![cur].muted = a = "muted"] ELSE raw
  /\ UNCHANGED <<mode, swap, playback, video, target, volume, desiredBlurred,
                 desiredPaused, retryCount, parked, cur, next>>

\* The background state ignores normal audio swapping.
Mute == audio # "background" /\ AudioRequest("muted")

Blur(b) ==
  /\ Displaying
  /\ desiredBlurred' = b
  /\ video' = IF Running THEN (IF b THEN "blurred" ELSE "normal") ELSE video
  /\ UNCHANGED <<mode, swap, playback, audio, target, volume, desiredAudio,
                 desiredPaused, retryCount, parked, cur, next, raw>>

\* PAUSE waits for running; RESUME reaches the current view at once.
Pause ==
  /\ Displaying
  /\ desiredPaused' = TRUE
  /\ raw' = IF Running THEN [raw EXCEPT ![cur] = Told(@, "paused", "yes")] ELSE raw
  /\ UNCHANGED <<mode, regions, target, volume, desiredAudio, desiredBlurred,
                 retryCount, parked, cur, next>>

\* Mutant: a RESUME waits for running, where nothing is left to apply it (#738).
BugResumeWaits ==
  /\ Displaying
  /\ desiredPaused' = FALSE
  /\ raw' = IF Running THEN [raw EXCEPT ![cur] = Told(@, "paused", "no")] ELSE raw
  /\ UNCHANGED <<mode, regions, target, volume, desiredAudio, desiredBlurred,
                 retryCount, parked, cur, next>>

Resume ==
  /\ Displaying
  /\ desiredPaused' = FALSE
  /\ raw' = [raw EXCEPT ![cur] = Told(@, "paused", "no")]
  /\ UNCHANGED <<mode, regions, target, volume, desiredAudio, desiredBlurred,
                 retryCount, parked, cur, next>>

SetVolume(x) ==
  /\ Displaying
  /\ x # volume
  /\ volume' = x
  /\ raw' = [raw EXCEPT ![cur] = Told(@, "level", x)]
  /\ UNCHANGED <<mode, regions, target, desiredAudio, desiredBlurred, desiredPaused,
                 retryCount, parked, cur, next>>

Reload ==
  /\ Displaying
  /\ StartLoading(raw)
  /\ retryCount' = 0
  /\ UNCHANGED <<target, desired, parked>>

-----------------------------------------------------------------------------
(* loadPage: ensureValidURL settles.                                       *)

UrlAccepted ==
  /\ mode = "navigate"
  /\ mode' = "waitForInit"
  /\ raw' = [raw EXCEPT ![cur] = Navigating(@, content)]
  /\ UNCHANGED <<regions, target, desired, retryCount, parked, cur, next>>

UrlRefused == mode = "navigate" /\ Fail

NextUrlAccepted ==
  /\ swap = "navigate"
  /\ swap' = "waitForInit"
  /\ raw' = [raw EXCEPT ![next] = Navigating(@, content)]
  /\ UNCHANGED <<mode, playback, audio, video, target, desired, retryCount, parked, cur, next>>

NextUrlRefused == swap = "navigate" /\ AbandonPreload

-----------------------------------------------------------------------------
(* The timers of the machine.                                              *)

LoadingTimeout == Loading /\ Fail

PreloadTimeout == Preloading /\ AbandonPreload

HealthyTimer ==
  /\ Running /\ playback = "playing"
  /\ retryCount # 0
  /\ retryCount' = 0
  /\ UNCHANGED <<mode, regions, target, desired, parked, cur, next, raw>>

RetryLoading ==
  /\ retryCount < MaxRetries
  /\ StartLoading(raw)
  /\ retryCount' = retryCount + 1
  /\ UNCHANGED <<target, desired, parked>>

StalledTimeout ==
  /\ Running /\ playback = "stalled"
  /\ RetryLoading \/ (retryCount >= MaxRetries /\ Fail)

RetryBackoff == mode = "error" /\ RetryLoading

-----------------------------------------------------------------------------
(* The renderers, and the events StreamWindow routes from them.  The       *)
(* document of a view goes on until the next navigation commits.           *)

\* VIEW_ERROR or NEXT_VIEW_ERROR, whichever view v is.
ErrorFrom(v) == (v = next /\ AbandonPreload) \/ (v = cur /\ Displaying /\ Fail)

Commit(v) ==
  /\ raw[v].nav # NoContent
  /\ raw' = [raw EXCEPT ![v] = Committed(@)]
  /\ UNCHANGED <<mode, regions, target, desired, retryCount, parked, cur, next>>

\* did-fail-load of the main frame.
DidFailLoad(v) ==
  /\ raw[v].nav # NoContent
  /\ LET failed == [raw EXCEPT ![v].nav = NoContent]
     IN  \/ v = next /\ StartLoading(failed)
         \/ v = cur /\ mode' = "error" /\ LeaveRunning(failed)
  /\ UNCHANGED <<target, desired, retryCount, parked>>

ViewError(v) == raw[v].page.phase # "blank" /\ ErrorFrom(v)

ViewInit(v) ==
  /\ raw[v].page.phase = "new"
  /\ raw' = [raw EXCEPT ![v] = Inited(@)]
  /\ mode' = IF v = cur /\ mode = "waitForInit" THEN "waitForVideo" ELSE mode
  /\ swap' = IF v = next /\ swap = "waitForInit" THEN "waitForVideo" ELSE swap
  /\ UNCHANGED <<playback, audio, video, target, desired, retryCount, parked, cur, next>>

ViewLoaded(v) ==
  /\ raw[v].page.phase \in {"inited", "loaded", "stalled"}
  /\ LET loaded == [raw EXCEPT ![v].page.phase = "loaded"]
     IN  \/ v = cur /\ mode = "waitForVideo" /\ EnterRunning(loaded)
         \/ v = next /\ swap = "waitForVideo" /\ PromoteNext(loaded)
         \/ /\ ~(v = cur /\ mode = "waitForVideo")
            /\ ~(v = next /\ swap = "waitForVideo")
            /\ raw' = loaded
            /\ playback' = IF v = cur /\ Running THEN "playing" ELSE playback
            /\ UNCHANGED <<mode, swap, audio, video, target, desired, retryCount,
                           parked, cur, next>>

\* Sent when the media of a loaded document is emptied, whichever view shows it.
ViewStalled(v) ==
  /\ raw[v].page.phase = "loaded"
  /\ raw' = [raw EXCEPT ![v].page.phase = "stalled"]
  /\ playback' = IF Running THEN "stalled" ELSE playback
  /\ UNCHANGED <<mode, swap, audio, video, target, desired, retryCount, parked, cur, next>>

-----------------------------------------------------------------------------
Display ==
  \E p \in Position :
    \/ DisplayMovedUnplaced(p)
    \/ DisplayMoved(p)
    \/ \E c \in Content : DisplayFirst(p, c) \/ DisplayChanged(p, c)

\* What StreamWindow sends on behalf of the layout and the operator.
Command ==
  \/ Create \/ Stop \/ Display \/ Park \/ Unpark
  \/ \E a \in AudioState : AudioRequest(a)
  \/ Mute
  \/ \E b \in BOOLEAN : Blur(b)
  \/ Pause \/ Resume
  \/ \E x \in Volume : SetVolume(x)
  \/ Reload

Timer == LoadingTimeout \/ PreloadTimeout \/ HealthyTimer \/ StalledTimeout \/ RetryBackoff

Renderer ==
  \/ UrlAccepted \/ UrlRefused \/ NextUrlAccepted \/ NextUrlRefused
  \/ \E v \in Live :
       Commit(v) \/ DidFailLoad(v) \/ ViewError(v) \/ ViewInit(v) \/ ViewLoaded(v) \/ ViewStalled(v)

Next == Command \/ Timer \/ Renderer

Spec == Init /\ [][Next]_vars

-----------------------------------------------------------------------------
(* Safety.                                                                 *)

RawPage == [doc : Content \union {NoContent},
            phase : {"blank", "new", "inited", "loaded", "stalled"},
            paused : {"unset", "yes", "no"},
            level : Volume \union {NoVolume}]

RawState == [place : {"none", "off", "wall"},
             bounds : Position \union {NoPosition},
             muted : BOOLEAN,
             nav : Content \union {NoContent},
             page : RawPage]

\* Every variable keeps its type; in particular the retry budget is never overdrawn.
TypeOK ==
  /\ mode \in LoadPhase \union {"gone", "empty", "running", "error"}
  /\ swap \in LoadPhase \union {"idle"}
  /\ playback \in {"playing", "stalled"}
  /\ audio \in AudioState
  /\ video \in {"normal", "blurred"}
  /\ pos \in Position \union {NoPosition}
  /\ content \in Content \union {NoContent}
  /\ volume \in Volume
  /\ retryCount \in 0..MaxRetries
  /\ desiredAudio \in AudioState
  /\ desiredBlurred \in BOOLEAN /\ desiredPaused \in BOOLEAN
  /\ parked \in BOOLEAN
  /\ cur \in RawView \union {NoView} /\ next \in RawView \union {NoView}
  /\ raw \in [RawView -> RawState]

\* No WebContentsView outlives its use: the views alive are the current one
\* and the one of a preload in flight, and a preload is in flight only while
\* running (viewStateMachine.ts exit of running, StreamWindow.ts:809).
NoViewLeaks ==
  /\ \A v \in RawView : raw[v].place # "none" <=> v \in Live
  /\ next # NoView <=> Preloading
  /\ cur = NoView <=> mode = "gone"
  /\ next # NoView => next # cur

\* No view of a parked cell is on the wall window, whatever loading, recovery
\* or swap finishes behind the expansion (#741, #816).
ParkedOffWall == parked => \A v \in RawView : raw[v].place # "wall"

\* A running cell that is not parked is on the wall at the rectangle last
\* requested; during a preload the retiring view may still be elsewhere, but
\* the preloaded one never shows (#816).
UnparkedOnWall ==
  /\ Running /\ ~parked /\ ~Preloading => raw[cur].place = "wall" /\ raw[cur].bounds = pos
  /\ next # NoView => raw[next].place = "off"

\* A running view is audible and blurred exactly as last requested, also when
\* the request came during a load, an error or a swap.
RequestsInForce ==
  Running =>
    /\ audio = desiredAudio
    /\ video = "blurred" <=> desiredBlurred
    /\ raw[cur].muted <=> desiredAudio = "muted"

\* A running cell that is to be paused never plays: the document on show has
\* been told, or is about to be by the reply to its view-init (#621, #658).
\* The converse is ResumeInForce, and does not hold of a view that is promoted.
PauseInForce ==
  Running /\ desiredPaused =>
    raw[cur].page.paused = "yes" \/ (raw[cur].page.phase = "new" /\ raw[cur].page.paused = "unset")

\* Every document past its view-init plays at the level of its cell, also one
\* that was preloaded while the level changed.
VolumeInForce ==
  cur # NoView /\ raw[cur].page.phase \notin {"blank", "new"} =>
    raw[cur].page.level = volume

\* The view shows the content last assigned to the cell, or is navigating to it:
\* what a running cell settles on.
ShowsContent == content \in {raw[cur].page.doc, raw[cur].nav}

-----------------------------------------------------------------------------
(* Action properties.                                                      *)

\* A swap puts in place only a view that has loaded the newest content.
SwapOnlyWhenReady ==
  [][ cur # NoView /\ cur' \notin {cur, NoView} =>
        /\ raw'[cur'].page.phase = "loaded"
        /\ raw'[cur'].page.doc = content' ]_vars

\* A view leaves the wall only to be parked, with its actor, or for the view
\* that takes its place: a change of content, a reload or a failure never
\* blanks the tile.
NoBlankTile ==
  [][ \A v \in RawView :
        raw[v].place = "wall" /\ raw'[v].place # "wall" =>
          parked' \/ mode' = "gone" \/ (cur' # v /\ raw'[cur'].place = "wall") ]_vars

\* The document on show is paused though no pause is requested.
Frozen == cur # NoView /\ raw[cur].page.paused = "yes" /\ ~desiredPaused

\* A RESUME reaches the view on show in whatever state it finds the actor (#738):
\* no step freezes it, but the swap that puts another in its place may, if that one
\* was told of a pause that has been withdrawn since (viewStateMachine.ts:415).
ResumeInForce == [][Frozen' => Frozen \/ cur' # cur]_vars

\* The views of a cell are where the layout has it.
PlacedByParking == ParkedOffWall /\ UnparkedOnWall

Enforced == RequestsInForce /\ PauseInForce /\ VolumeInForce

\* The view of a cell does what was asked of the cell, but for a RESUME that was asked
\* while the view was preloading.
AsRequested == []Enforced /\ ResumeInForce

\* A tile goes from one content to the next without a gap, and ends with the newest.
KeepsPicture ==
  [](Running /\ ~Preloading => ShowsContent) /\ SwapOnlyWhenReady /\ NoBlankTile
=============================================================================
