----------------------------- MODULE CellProofs -----------------------------
(***************************************************************************)
(* What is proved of a tile, for any events in any order: View.  And what  *)
(* is proved of a cell as StreamWindow drives it: the batches of Cell are  *)
(* behaviours of View, so that everything proved of View holds of it; and  *)
(* parking loses no choice of audio and leaves nothing paused.             *)
(*                                                                         *)
(* ParkingKeepsAudio speaks of the moments between two calls.  To carry it *)
(* over a batch the invariant says what holds at each of its steps: what   *)
(* DISPLAY has done to the parked flag by the time UNPARK is sent, that    *)
(* the audio to restore is still the operator's choice, and that what the  *)
(* park imposed is still there to be lifted.                               *)
(***************************************************************************)
EXTENDS Cell, TLAPS

-----------------------------------------------------------------------------
(* What the operations on a raw view return and leave alone.               *)

\* Every operation on a raw view yields a raw view.
LEMMA RawClosed ==
  \A r \in RawState :
    /\ Disposed \in RawState
    /\ Created \in RawState
    /\ Offscreen(r) \in RawState
    /\ \A p \in Position \union {NoPosition} : Positioned(r, p) \in RawState
    /\ \A c \in Content \union {NoContent} : Navigating(r, c) \in RawState
    /\ Committed(r) \in RawState
    /\ Told(r, "paused", "yes") \in RawState
    /\ Told(r, "paused", "no") \in RawState
    /\ \A x \in Volume : Told(r, "level", x) \in RawState
    /\ \A b \in BOOLEAN : [r EXCEPT !.muted = b] \in RawState
    /\ [r EXCEPT !.nav = NoContent] \in RawState
    /\ \A ph \in {"loaded", "stalled"} : [r EXCEPT !.page.phase = ph] \in RawState
<1> USE VolumeAssumption DEF RawState, RawPage
<1> SUFFICES ASSUME NEW r \in RawState
             PROVE  /\ Disposed \in RawState
                    /\ Created \in RawState
                    /\ Offscreen(r) \in RawState
                    /\ \A p \in Position \union {NoPosition} : Positioned(r, p) \in RawState
                    /\ \A c \in Content \union {NoContent} : Navigating(r, c) \in RawState
                    /\ Committed(r) \in RawState
                    /\ Told(r, "paused", "yes") \in RawState
                    /\ Told(r, "paused", "no") \in RawState
                    /\ \A x \in Volume : Told(r, "level", x) \in RawState
                    /\ \A b \in BOOLEAN : [r EXCEPT !.muted = b] \in RawState
                    /\ [r EXCEPT !.nav = NoContent] \in RawState
                    /\ \A ph \in {"loaded", "stalled"} : [r EXCEPT !.page.phase = ph] \in RawState
  OBVIOUS
<1>1. Disposed \in RawState /\ Created \in RawState
  BY DEF Disposed, Created, NoDocument
<1>2. /\ Offscreen(r) \in RawState
      /\ \A p \in Position \union {NoPosition} : Positioned(r, p) \in RawState
  BY DEF Offscreen, Positioned
<1>3. /\ \A c \in Content \union {NoContent} : Navigating(r, c) \in RawState
      /\ Committed(r) \in RawState
      /\ [r EXCEPT !.nav = NoContent] \in RawState
  BY DEF Navigating, Committed
<1>4. /\ Told(r, "paused", "yes") \in RawState
      /\ Told(r, "paused", "no") \in RawState
      /\ \A x \in Volume : Told(r, "level", x) \in RawState
  BY DEF Told
<1>5. /\ \A b \in BOOLEAN : [r EXCEPT !.muted = b] \in RawState
      /\ \A ph \in {"loaded", "stalled"} : [r EXCEPT !.page.phase = ph] \in RawState
  OBVIOUS
<1> QED BY <1>1, <1>2, <1>3, <1>4, <1>5

\* A page that gets its settings stays a raw view.
LEMMA InitedClosed == volume \in Volume => \A r \in RawState : Inited(r) \in RawState
BY VolumeAssumption DEF RawState, RawPage, Inited

\* Disposing views leaves a function from raw views to their states.
LEMMA WithoutClosed ==
  \A S : \A rs \in [RawView -> RawState] : Without(S, rs) \in [RawView -> RawState]
<1>1. Disposed \in RawState
  BY VolumeAssumption DEF Disposed, NoDocument, RawState, RawPage
<1> QED BY <1>1 DEF Without

-----------------------------------------------------------------------------
(* Type correctness.                                                       *)

LEMMA InitTypeOK == Init => TypeOK
<1> SUFFICES ASSUME Init PROVE TypeOK
  OBVIOUS
<1>1. Disposed \in RawState
  BY VolumeAssumption DEF Disposed, NoDocument, RawState, RawPage
<1>2. raw \in [RawView -> RawState]
  BY <1>1 DEF Init
<1>3. retryCount \in 0..MaxRetries
  BY MaxRetriesAssumption DEF Init
<1>4. desiredBlurred \in BOOLEAN /\ desiredPaused \in BOOLEAN /\ parked \in BOOLEAN
  BY DEF Init
<1> QED BY <1>2, <1>3, <1>4, VolumeAssumption DEF Init, TypeOK, AudioState

\* The steps that several actions share keep the types.
LEMMA LeaveRunningType ==
  ASSUME TypeOK, NEW rs \in [RawView -> RawState], LeaveRunning(rs)
  PROVE  /\ swap' = "idle" /\ playback' = "playing" /\ audio' = "muted" /\ video' = "normal"
         /\ cur' \in RawView \union {NoView} /\ next' \in RawView \union {NoView}
         /\ raw' \in [RawView -> RawState]
BY WithoutClosed DEF LeaveRunning, InitialRegions, TypeOK

\* The steps that several handlers share keep the types.
LEMMA FailType == ASSUME TypeOK, Fail PROVE TypeOK'
BY LeaveRunningType DEF Fail, TypeOK, target, desired, AudioState

\* So does giving up a preload.
LEMMA AbandonPreloadType == ASSUME TypeOK, AbandonPreload PROVE TypeOK'
BY LeaveRunningType DEF AbandonPreload, StartLoading, TypeOK, target, desired, LoadPhase, AudioState

\* And so does trying again, which counts no further than MaxRetries.
LEMMA RetryLoadingType == ASSUME TypeOK, RetryLoading PROVE TypeOK'
<1>1. retryCount' \in 0..MaxRetries
  BY MaxRetriesAssumption DEF RetryLoading, TypeOK
<1> QED BY <1>1, LeaveRunningType
        DEF RetryLoading, StartLoading, TypeOK, target, desired, LoadPhase, AudioState

\* Every step keeps the types.
LEMMA TypeOKStep == TypeOK /\ [Next]_vars => TypeOK'
<1> SUFFICES ASSUME TypeOK, [Next]_vars PROVE TypeOK'
  OBVIOUS
<1> USE DEF regions, target, desired, Running, AudioState, LoadPhase
<1>1. CASE UNCHANGED vars
  BY <1>1 DEF vars, TypeOK
<1>2. CASE Create
  <2>1. raw' \in [RawView -> RawState]
    BY <1>2, RawClosed DEF Create, TypeOK
  <2> QED BY <1>2, <2>1 DEF Create, TypeOK
<1>3. CASE Stop
  <2>1. raw' \in [RawView -> RawState]
    BY <1>3, WithoutClosed DEF Stop, InitialRegions, TypeOK
  <2>2. retryCount' \in 0..MaxRetries
    BY <1>3, MaxRetriesAssumption DEF Stop
  <2>3. /\ desiredBlurred' \in BOOLEAN
        /\ desiredPaused' \in BOOLEAN
        /\ parked' \in BOOLEAN
    BY <1>3 DEF Stop
  <2> QED BY <1>3, <2>1, <2>2, <2>3, VolumeAssumption DEF Stop, InitialRegions, TypeOK
<1>4. ASSUME NEW p \in Position, NEW c \in Content, DisplayFirst(p, c) PROVE TypeOK'
  <2>1. raw' \in [RawView -> RawState]
    BY <1>4, RawClosed DEF DisplayFirst, TypeOK
  <2> QED BY <1>4, <2>1, MaxRetriesAssumption DEF DisplayFirst, TypeOK
<1>5. ASSUME NEW p \in Position, DisplayMovedUnplaced(p) PROVE TypeOK'
  BY <1>5 DEF DisplayMovedUnplaced, TypeOK
<1>6. ASSUME NEW p \in Position, DisplayMoved(p) PROVE TypeOK'
  <2>1. raw' \in [RawView -> RawState]
    <3>1. raw \in [RawView -> RawState] /\ raw' = [raw EXCEPT ![cur] = Positioned(@, p)]
      BY <1>6 DEF DisplayMoved, TypeOK
    <3> QED BY <3>1, RawClosed
  <2>2. /\ pos' \in Position \union {NoPosition}
        /\ parked' \in BOOLEAN
    BY <1>6 DEF DisplayMoved
  <2> QED BY <1>6, <2>1, <2>2 DEF DisplayMoved, TypeOK
<1>7. ASSUME NEW p \in Position, NEW c \in Content, DisplayChanged(p, c) PROVE TypeOK'
  <2>1. raw' \in [RawView -> RawState]
    <3>1. Without({next}, raw) \in [RawView -> RawState]
      BY WithoutClosed DEF TypeOK
    <3>2. Created \in RawState
      BY VolumeAssumption DEF Created, Disposed, NoDocument, RawState, RawPage
    <3> QED BY <1>7, <3>1, <3>2 DEF DisplayChanged
  <2> QED BY <1>7, <2>1 DEF DisplayChanged, TypeOK
<1>8. CASE Park
  <2>1. raw' \in [RawView -> RawState]
    BY <1>8, RawClosed DEF Park, TypeOK
  <2> QED BY <1>8, <2>1 DEF Park, TypeOK
<1>9. CASE Unpark
  <2>1. raw' \in [RawView -> RawState]
    BY <1>9, RawClosed DEF Unpark, TypeOK
  <2>2. parked' \in BOOLEAN
    BY <1>9 DEF Unpark
  <2> QED BY <1>9, <2>1, <2>2 DEF Unpark, TypeOK
<1>10. ASSUME NEW a \in AudioState, AudioRequest(a) PROVE TypeOK'
  <2>1. raw' \in [RawView -> RawState]
    BY <1>10, RawClosed DEF AudioRequest, TypeOK
  <2> QED BY <1>10, <2>1 DEF AudioRequest, TypeOK
<1>11. CASE Mute
  BY <1>10, <1>11 DEF Mute
<1>12. ASSUME NEW b \in BOOLEAN, Blur(b) PROVE TypeOK'
  BY <1>12 DEF Blur, TypeOK
<1>13. CASE Pause
  <2>1. raw' \in [RawView -> RawState]
    BY <1>13, RawClosed DEF Pause, TypeOK
  <2> QED BY <1>13, <2>1 DEF Pause, TypeOK
<1>14. CASE Resume
  <2>1. raw' \in [RawView -> RawState]
    BY <1>14, RawClosed DEF Resume, TypeOK
  <2>2. desiredPaused' \in BOOLEAN
    BY <1>14 DEF Resume
  <2> QED BY <1>14, <2>1, <2>2 DEF Resume, TypeOK
<1>15. ASSUME NEW x \in Volume, SetVolume(x) PROVE TypeOK'
  <2>1. raw' \in [RawView -> RawState]
    BY <1>15, RawClosed DEF SetVolume, TypeOK
  <2> QED BY <1>15, <2>1 DEF SetVolume, TypeOK
<1>16. CASE Reload
  BY <1>16, LeaveRunningType, MaxRetriesAssumption DEF Reload, StartLoading, TypeOK
<1>17. CASE Timer
  BY <1>17, FailType, AbandonPreloadType, RetryLoadingType, MaxRetriesAssumption
  DEF Timer, LoadingTimeout, PreloadTimeout, HealthyTimer, StalledTimeout, RetryBackoff, TypeOK
<1>18. CASE UrlAccepted
  <2>1. raw' \in [RawView -> RawState]
    BY <1>18, RawClosed DEF UrlAccepted, TypeOK
  <2> QED BY <1>18, <2>1 DEF UrlAccepted, TypeOK
<1>19. CASE UrlRefused \/ NextUrlRefused
  BY <1>19, FailType, AbandonPreloadType DEF UrlRefused, NextUrlRefused
<1>20. CASE NextUrlAccepted
  <2>1. raw' \in [RawView -> RawState]
    BY <1>20, RawClosed DEF NextUrlAccepted, TypeOK
  <2> QED BY <1>20, <2>1 DEF NextUrlAccepted, TypeOK
<1>21. ASSUME NEW v \in Live, Commit(v) PROVE TypeOK'
  <2>1. raw' \in [RawView -> RawState]
    BY <1>21, RawClosed DEF Commit, TypeOK
  <2> QED BY <1>21, <2>1 DEF Commit, TypeOK
<1>22. ASSUME NEW v \in Live, DidFailLoad(v) PROVE TypeOK'
  <2>1. [raw EXCEPT ![v].nav = NoContent] \in [RawView -> RawState]
    BY RawClosed DEF TypeOK
  <2> QED BY <1>22, <2>1, LeaveRunningType DEF DidFailLoad, StartLoading, TypeOK
<1>23. ASSUME NEW v \in Live, ViewError(v) PROVE TypeOK'
  BY <1>23, FailType, AbandonPreloadType DEF ViewError, ErrorFrom
<1>24. ASSUME NEW v \in Live, ViewInit(v) PROVE TypeOK'
  <2>1. raw' \in [RawView -> RawState]
    BY <1>24, InitedClosed DEF ViewInit, TypeOK
  <2> QED BY <1>24, <2>1 DEF ViewInit, TypeOK
<1>25. ASSUME NEW v \in Live, ViewStalled(v) PROVE TypeOK'
  <2>1. raw' \in [RawView -> RawState]
    BY <1>25, RawClosed DEF ViewStalled, TypeOK
  <2> QED BY <1>25, <2>1 DEF ViewStalled, TypeOK
<1>26. ASSUME NEW v \in Live, ViewLoaded(v) PROVE TypeOK'
  <2> DEFINE loaded == [raw EXCEPT ![v].page.phase = "loaded"]
  <2>1. loaded \in [RawView -> RawState]
    BY RawClosed DEF TypeOK
  <2>2. CASE EnterRunning(loaded)
    <3>1. raw' \in [RawView -> RawState]
      BY <2>1, <2>2, RawClosed DEF EnterRunning, EnterRegions, TypeOK
    <3> QED BY <2>2, <3>1 DEF EnterRunning, EnterRegions, TypeOK
  <2>3. CASE PromoteNext(loaded)
    <3>1. \A r \in RawState : Placed(r) \in RawState
      BY RawClosed DEF Placed, TypeOK
    <3>2. \A r \in RawState : Resynced(r) \in RawState
      BY RawClosed DEF Resynced, TypeOK
    <3>3. [loaded EXCEPT ![next] = Resynced(Placed(@))] \in [RawView -> RawState]
      BY <2>1, <3>1, <3>2
    <3>4. raw' \in [RawView -> RawState]
      BY <2>3, <3>3, WithoutClosed DEF PromoteNext
    <3>5. retryCount' \in 0..MaxRetries
      BY <2>3, MaxRetriesAssumption DEF PromoteNext
    <3>6. /\ cur' \in RawView \union {NoView} /\ next' \in RawView \union {NoView}
          /\ swap' = "idle"
          /\ UNCHANGED <<mode, playback, audio, video, pos, content, volume,
                         desiredAudio, desiredBlurred, desiredPaused, parked>>
      BY <2>3 DEF PromoteNext, TypeOK
    <3> QED BY <3>4, <3>5, <3>6 DEF TypeOK
  <2>4. CASE /\ raw' = loaded
             /\ playback' = IF v = cur /\ Running THEN "playing" ELSE playback
             /\ UNCHANGED <<mode, swap, audio, video, target, desired, retryCount,
                            parked, cur, next>>
    BY <2>1, <2>4 DEF TypeOK
  <2> QED BY <1>26, <2>2, <2>3, <2>4 DEF ViewLoaded
<1> QED BY <1>1, <1>2, <1>3, <1>4, <1>5, <1>6, <1>7, <1>8, <1>9, <1>10, <1>11, <1>12, <1>13,
           <1>14, <1>15, <1>16, <1>17, <1>18, <1>19, <1>20, <1>21, <1>22, <1>23, <1>24, <1>25,
           <1>26
        DEF Next, Command, Display, Renderer

\* Every variable keeps its type; the automatic reloads of a failure streak
\* never exceed retry.maxRetries.
THEOREM TypeCorrect == Spec => []TypeOK
BY InitTypeOK, TypeOKStep, PTL DEF Spec

-----------------------------------------------------------------------------
(***************************************************************************)
(* Where the views are.  ParkedOffWall, UnparkedOnWall and NoViewLeaks are *)
(* inductive only together, and with the fact that a swap is active only   *)
(* while running: a promotion is what could put a view of a parked cell on *)
(* the wall, and which views exist bounds where a view may be.             *)
(***************************************************************************)
Placement ==
  /\ TypeOK
  /\ swap # "idle" => Running
  /\ NoViewLeaks
  /\ ParkedOffWall
  /\ UnparkedOnWall

SamePlaces(f, g) ==
  \A v \in RawView : g[v].place = f[v].place /\ g[v].bounds = f[v].bounds

\* What each operation does to the place, the bounds and the mute of a view.
LEMMA RawEffects ==
  \A r \in RawState :
    /\ Offscreen(r).place = "off" /\ Offscreen(r).muted = r.muted
    /\ \A p : /\ Positioned(r, p).place = "wall"
             /\ Positioned(r, p).bounds = p
             /\ Positioned(r, p).muted = r.muted
    /\ \A x : /\ Told(r, "paused", x).place = r.place
             /\ Told(r, "paused", x).bounds = r.bounds
             /\ Told(r, "paused", x).muted = r.muted
    /\ \A x : /\ Told(r, "level", x).place = r.place
             /\ Told(r, "level", x).bounds = r.bounds
             /\ Told(r, "level", x).muted = r.muted
    /\ \A c : /\ Navigating(r, c).place = r.place
             /\ Navigating(r, c).bounds = r.bounds
    /\ Committed(r).place = r.place /\ Committed(r).bounds = r.bounds
    /\ Committed(r).muted = r.muted
    /\ Inited(r).place = r.place /\ Inited(r).bounds = r.bounds /\ Inited(r).muted = r.muted
BY DEF RawState, RawPage, Offscreen, Positioned, Told, Navigating, Committed, Inited

\* Where a view is that is made or disposed of.
LEMMA NewPlaces == Disposed.place = "none" /\ Created.place = "off"
BY DEF Disposed, Created

\* What is left of each raw view when some are disposed of.
LEMMA WithoutValue ==
  \A S, rs : \A v \in RawView : Without(S, rs)[v] = IF v \in S THEN Disposed ELSE rs[v]
BY DEF Without

\* A step that moves no view and neither enters nor leaves running or a swap.
LEMMA QuietStep ==
  ASSUME Placement, TypeOK', SamePlaces(raw, raw'),
         UNCHANGED <<pos, parked, cur, next>>,
         Running' <=> Running,
         (mode' = "gone") <=> (mode = "gone"),
         (swap' = "idle") <=> (swap = "idle")
  PROVE  Placement'
<1>1. NoViewLeaks'
  BY DEF Placement, NoViewLeaks, SamePlaces, Live, Preloading
<1>2. ParkedOffWall'
  BY DEF Placement, ParkedOffWall, SamePlaces
<1>3. UnparkedOnWall'
  <2>1. Running => cur \in RawView
    BY DEF Placement, NoViewLeaks, TypeOK, Running
  <2>2. next # NoView => next \in RawView
    BY DEF Placement, TypeOK
  <2>3. Preloading' <=> Preloading
    BY DEF Preloading
  <2>4. ASSUME Running, ~parked, ~Preloading
        PROVE  raw'[cur].place = "wall" /\ raw'[cur].bounds = pos
    BY <2>1, <2>4 DEF Placement, UnparkedOnWall, SamePlaces
  <2>5. ASSUME next # NoView PROVE raw'[next].place = "off"
    BY <2>2, <2>5 DEF Placement, UnparkedOnWall, SamePlaces
  <2> QED BY <2>3, <2>4, <2>5 DEF UnparkedOnWall
<1> QED BY <1>1, <1>2, <1>3 DEF Placement

\* Leaving running, or any restart of loading, disposes a preload and moves no other view.
LEMMA LeaveStep ==
  ASSUME Placement, TypeOK', NEW rs, SamePlaces(raw, rs), LeaveRunning(rs),
         mode # "gone", mode' \in {"navigate", "error"},
         UNCHANGED parked
  PROVE  Placement'
<1>1. /\ swap' = "idle" /\ next' = NoView /\ cur' = cur
      /\ \A v \in RawView : raw'[v].place = IF v = next THEN "none" ELSE raw[v].place
  BY WithoutValue, NewPlaces DEF LeaveRunning, InitialRegions, SamePlaces
<1>2. cur # NoView /\ (next # NoView => next # cur)
  BY DEF Placement, NoViewLeaks
<1>3. NoViewLeaks'
  <2>1. \A v \in RawView : raw'[v].place # "none" <=> v \in Live'
    BY <1>1, <1>2, NoViewAssumption DEF Placement, NoViewLeaks, Live
  <2>2. next' # NoView <=> Preloading'
    BY <1>1 DEF Preloading
  <2>3. (cur' = NoView <=> mode' = "gone") /\ (next' # NoView => next' # cur')
    BY <1>1, <1>2
  <2> QED BY <2>1, <2>2, <2>3 DEF NoViewLeaks
<1>4. ParkedOffWall'
  BY <1>1 DEF Placement, ParkedOffWall
<1>5. UnparkedOnWall'
  BY <1>1 DEF UnparkedOnWall, Running, Preloading
<1> QED BY <1>1, <1>3, <1>4, <1>5 DEF Placement

\* The errors that several handlers end in keep the views where they belong.
LEMMA FailStep == ASSUME Placement, Fail, Displaying PROVE Placement'
<1>1. TypeOK'
  BY FailType DEF Placement
<1>2. SamePlaces(raw, raw) /\ mode # "gone"
  BY DEF SamePlaces, Displaying, Loading, Running, LoadPhase
<1> QED BY <1>1, <1>2, LeaveStep DEF Fail

\* A preload that is given up is disposed of.
LEMMA AbandonStep == ASSUME Placement, AbandonPreload, Preloading PROVE Placement'
<1>1. TypeOK'
  BY AbandonPreloadType DEF Placement
<1>2. SamePlaces(raw, raw) /\ mode # "gone"
  BY DEF SamePlaces, Preloading, Running
<1> QED BY <1>1, <1>2, LeaveStep DEF AbandonPreload, StartLoading

\* A retry moves no view.
LEMMA RetryStep == ASSUME Placement, RetryLoading, Displaying PROVE Placement'
<1>1. TypeOK'
  BY RetryLoadingType DEF Placement
<1>2. SamePlaces(raw, raw) /\ mode # "gone"
  BY DEF SamePlaces, Displaying, Loading, Running, LoadPhase
<1> QED BY <1>1, <1>2, LeaveStep DEF RetryLoading, StartLoading

\* A step that only places the current view, at the cell's rectangle or off the wall.
LEMMA PlaceStep ==
  ASSUME Placement, TypeOK', NEW place \in {"off", "wall"},
         cur \in RawView,
         \A v \in RawView : v # cur => raw'[v] = raw[v],
         raw'[cur].place = place,
         place = "wall" => raw'[cur].bounds = pos' /\ ~parked',
         place = "off" => (Running' /\ ~Preloading' => parked'),
         parked' => place = "off",
         UNCHANGED <<cur, next>>,
         mode' # "gone",
         next # NoView <=> Preloading',
         swap' # "idle" => Running'
  PROVE  Placement'
<1>1. NoViewLeaks'
  <2>1. mode # "gone" /\ cur # NoView
    BY NoViewAssumption DEF Placement, NoViewLeaks
  <2>2. \A v \in RawView : raw'[v].place # "none" <=> v \in Live'
    BY NoViewAssumption DEF Placement, NoViewLeaks, Live
  <2> QED BY <2>1, <2>2 DEF Placement, NoViewLeaks
<1>2. next # NoView => next \in RawView /\ next # cur /\ raw'[next].place = "off"
  BY DEF Placement, NoViewLeaks, UnparkedOnWall, TypeOK
<1>3. \A v \in RawView : v \notin {cur, next} => raw'[v].place = "none"
  BY DEF Placement, NoViewLeaks, Live
<1>4. ParkedOffWall'
  <2> SUFFICES ASSUME parked', NEW v \in RawView PROVE raw'[v].place # "wall"
    BY DEF ParkedOffWall
  <2>1. raw'[cur].place = "off"
    OBVIOUS
  <2>2. v \notin {cur, next} => raw'[v].place = "none"
    BY <1>3
  <2>3. v = next => raw'[v].place = "off"
    BY <1>2, NoViewAssumption
  <2> QED BY <2>1, <2>2, <2>3
<1>5. UnparkedOnWall'
  <2>1. ASSUME Running', ~parked', ~Preloading'
        PROVE  raw'[cur'].place = "wall" /\ raw'[cur'].bounds = pos'
    <3>1. place = "wall"
      BY <2>1
    <3> QED BY <3>1
  <2> QED BY <1>2, <2>1 DEF UnparkedOnWall
<1> QED BY <1>1, <1>4, <1>5 DEF Placement

\* Promotion: the view that was next is now the current one, placed unless the
\* cell is parked, and the retired one is disposed.
LEMMA PromoteStep ==
  ASSUME Placement, TypeOK', Preloading,
         NEW rs \in [RawView -> RawState], SamePlaces(raw, rs), PromoteNext(rs)
  PROVE  Placement'
<1> DEFINE r == Resynced(Placed(rs[next]))
<1>1. next \in RawView /\ cur \in RawView /\ next # cur /\ cur # NoView /\ next # NoView
  BY NoViewAssumption DEF Placement, NoViewLeaks, TypeOK, Preloading, Running
<1>2. /\ Placed(rs[next]) \in RawState
      /\ Placed(rs[next]).place = IF parked THEN "off" ELSE "wall"
      /\ ~parked => Placed(rs[next]).bounds = pos
  <2>1. rs[next] \in RawState /\ pos \in Position \union {NoPosition}
    BY <1>1 DEF Placement, TypeOK
  <2>2. /\ Offscreen(rs[next]) \in RawState /\ Positioned(rs[next], pos) \in RawState
    BY <2>1, RawClosed
  <2> QED BY <2>1, <2>2, RawEffects DEF Placed
<1>3. /\ r.place = Placed(rs[next]).place
      /\ r.bounds = Placed(rs[next]).bounds
  <2> DEFINE q == Placed(rs[next])
             m == [q EXCEPT !.muted = desiredAudio = "muted"]
             t == Told(m, "level", volume)
  <2>1. m \in RawState /\ m.place = q.place /\ m.bounds = q.bounds
    BY <1>2 DEF RawState
  <2>2. t \in RawState /\ t.place = q.place /\ t.bounds = q.bounds
    <3>1. volume \in Volume
      BY DEF Placement, TypeOK
    <3>2. \A x \in Volume : Told(m, "level", x) \in RawState
      BY <2>1, RawClosed
    <3>3. t \in RawState
      BY <3>1, <3>2
    <3>4. t.place = m.place /\ t.bounds = m.bounds
      <4> HIDE DEF m
      <4> QED BY <2>1, RawEffects
    <3> QED BY <2>1, <3>3, <3>4
  <2>3. r = IF desiredPaused THEN Told(t, "paused", "yes") ELSE t
    BY DEF Resynced
  <2> QED BY <2>2, <2>3, RawEffects
<1>4. \A v \in RawView : raw'[v] = IF v = cur THEN Disposed ELSE IF v = next THEN r ELSE rs[v]
  BY <1>1 DEF PromoteNext, Without
<1>5. cur' = next /\ next' = NoView /\ swap' = "idle" /\ UNCHANGED <<mode, pos, parked>>
  BY DEF PromoteNext, target
<1>6. \A v \in RawView : v \notin {cur, next} => raw'[v].place = "none"
  BY <1>4 DEF Placement, NoViewLeaks, Live, SamePlaces
<1>7. raw'[next].place = (IF parked THEN "off" ELSE "wall") /\ raw'[cur].place = "none"
  BY <1>1, <1>2, <1>3, <1>4, NewPlaces
<1>8. NoViewLeaks'
  <2>1. \A v \in RawView : raw'[v].place # "none" <=> v \in Live'
    BY <1>1, <1>5, <1>6, <1>7, NoViewAssumption DEF Live
  <2>2. mode # "gone"
    BY DEF Preloading, Running
  <2> QED BY <1>1, <1>5, <2>1, <2>2 DEF NoViewLeaks, Preloading
<1>9. ParkedOffWall'
  BY <1>5, <1>6, <1>7 DEF ParkedOffWall
<1>10. UnparkedOnWall'
  BY <1>1, <1>2, <1>3, <1>4, <1>5 DEF UnparkedOnWall
<1> QED BY <1>5, <1>8, <1>9, <1>10 DEF Placement

\* A cell begins with its one view off the wall.
LEMMA InitPlacement == Init => Placement
<1> SUFFICES ASSUME Init PROVE Placement
  OBVIOUS
<1>1. TypeOK
  BY InitTypeOK
<1>2. \A v \in RawView : raw[v].place = "none"
  BY NewPlaces DEF Init
<1> QED BY <1>1, <1>2
        DEF Init, Placement, NoViewLeaks, ParkedOffWall, UnparkedOnWall, Live, Preloading, Running

\* Every step leaves each live view in a place of its own.
LEMMA PlacementStep == Placement /\ [Next]_vars => Placement'
<1> SUFFICES ASSUME Placement, [Next]_vars PROVE Placement'
  OBVIOUS
<1>0. TypeOK /\ TypeOK'
  BY TypeOKStep DEF Placement
<1>c. mode # "gone" => cur \in RawView
  BY DEF Placement, NoViewLeaks, TypeOK
<1>s. SamePlaces(raw, raw)
  BY DEF SamePlaces
<1>g. /\ Displaying => mode # "gone"
      /\ Preloading <=> swap # "idle"
      /\ Loading => ~Running
  BY DEF Displaying, Loading, LoadPhase, Running, Preloading, Placement
<1> USE DEF regions, target, desired
<1>1. CASE UNCHANGED vars
  BY <1>0, <1>1, <1>s, QuietStep DEF vars, Running
<1>2. CASE Create
  <2>1. PICK v \in RawView : /\ raw[v].place = "none" /\ cur' = v
                             /\ raw' = [raw EXCEPT ![v] = Created]
    BY <1>2 DEF Create
  <2>2. /\ mode = "gone" /\ mode' = "empty" /\ next = NoView /\ next' = NoView
        /\ swap' = "idle" /\ cur = NoView /\ parked' = parked
    BY <1>2, <1>g DEF Create, Placement, NoViewLeaks, Running
  <2>3. \A u \in RawView : raw'[u].place = IF u = v THEN "off" ELSE "none"
    BY <1>0, <2>1, <2>2, NewPlaces DEF Placement, NoViewLeaks, Live, TypeOK
  <2>4. NoViewLeaks'
    BY <2>1, <2>2, <2>3, NoViewAssumption DEF NoViewLeaks, Live, Preloading
  <2> QED BY <1>0, <2>2, <2>3, <2>4
          DEF Placement, ParkedOffWall, UnparkedOnWall, Running
<1>3. CASE Stop
  <2>1. /\ mode' = "gone" /\ swap' = "idle" /\ cur' = NoView /\ next' = NoView
        /\ parked' = FALSE
    BY <1>3 DEF Stop, InitialRegions
  <2>2. \A v \in RawView : raw'[v].place = "none"
    BY <1>3, WithoutValue, NewPlaces DEF Stop, Placement, NoViewLeaks, Live
  <2> QED BY <1>0, <2>1, <2>2
          DEF Placement, NoViewLeaks, ParkedOffWall, UnparkedOnWall, Live, Preloading, Running
<1>4. ASSUME NEW p \in Position, NEW c \in Content, DisplayFirst(p, c) PROVE Placement'
  <2>1. /\ mode = "empty" /\ mode' = "navigate" /\ UNCHANGED <<swap, parked, cur, next>>
        /\ raw' = [raw EXCEPT ![cur] = Offscreen(@)]
    BY <1>4 DEF DisplayFirst
  <2>2. cur \in RawView /\ swap = "idle" /\ next = NoView
    BY <1>c, <2>1 DEF Placement, NoViewLeaks, Preloading, Running
  <2>3. raw'[cur].place = "off" /\ \A v \in RawView : v # cur => raw'[v] = raw[v]
    BY <1>0, <2>1, <2>2, RawEffects DEF TypeOK
  <2> QED BY <1>0, <2>1, <2>2, <2>3, PlaceStep DEF Running, Preloading
<1>5. ASSUME NEW p \in Position, DisplayMovedUnplaced(p) PROVE Placement'
  <2>1. UNCHANGED <<mode, swap, parked, cur, next, raw>>
    BY <1>5 DEF DisplayMovedUnplaced
  <2>2. ~(Running /\ ~Preloading)
    BY <1>5, <1>g DEF DisplayMovedUnplaced, Running
  <2> QED BY <1>0, <2>1, <2>2
          DEF Placement, NoViewLeaks, ParkedOffWall, UnparkedOnWall, Live, Preloading, Running
<1>6. ASSUME NEW p \in Position, DisplayMoved(p) PROVE Placement'
  <2>1. /\ Running /\ ~Preloading /\ UNCHANGED <<mode, swap, cur, next>>
        /\ pos' = p /\ ~parked' /\ raw' = [raw EXCEPT ![cur] = Positioned(@, p)]
    BY <1>6 DEF DisplayMoved
  <2>2. cur \in RawView /\ mode' # "gone"
    BY <1>c, <2>1 DEF Running
  <2>3. /\ raw'[cur].place = "wall" /\ raw'[cur].bounds = p
        /\ \A v \in RawView : v # cur => raw'[v] = raw[v]
    BY <1>0, <2>1, <2>2, RawEffects DEF TypeOK
  <2>4. (next # NoView <=> Preloading') /\ (swap' # "idle" => Running')
    BY <2>1 DEF Placement, NoViewLeaks, Preloading, Running
  <2> QED BY <1>0, <2>1, <2>2, <2>3, <2>4, PlaceStep
<1>7. ASSUME NEW p \in Position, NEW c \in Content, DisplayChanged(p, c) PROVE Placement'
  <2>1. PICK v \in RawView : /\ Without({next}, raw)[v].place = "none" /\ next' = v
                             /\ raw' = [Without({next}, raw) EXCEPT ![v] = Created]
    BY <1>7 DEF DisplayChanged
  <2>2. /\ Running /\ swap' = "navigate" /\ UNCHANGED <<mode, parked, cur>>
    BY <1>7 DEF DisplayChanged
  <2>3. cur \in RawView /\ cur # NoView /\ cur # next
    BY <1>c, <2>2, NoViewAssumption DEF Running, Placement, NoViewLeaks
  <2>4. v # cur
    BY <2>1, <2>3, WithoutValue, NoViewAssumption DEF Placement, NoViewLeaks, Live
  <2>5. \A u \in RawView : raw'[u] = IF u = v THEN Created
                                     ELSE IF u = next THEN Disposed ELSE raw[u]
    BY <2>1 DEF Without
  <2>6. \A u \in RawView : raw'[u].place = IF u = v THEN "off"
                                           ELSE IF u = cur THEN raw[cur].place ELSE "none"
    BY <2>3, <2>5, NewPlaces DEF Placement, NoViewLeaks, Live
  <2>7. raw[cur].place # "none"
    BY <2>3 DEF Placement, NoViewLeaks, Live
  <2>8. NoViewLeaks'
    BY <2>1, <2>2, <2>3, <2>4, <2>6, <2>7, NoViewAssumption
    DEF NoViewLeaks, Live, Preloading, Running
  <2>9. ParkedOffWall'
    BY <2>2, <2>3, <2>6 DEF Placement, ParkedOffWall
  <2>10. UnparkedOnWall'
    BY <2>1, <2>2, <2>6 DEF UnparkedOnWall, Preloading, Running
  <2> QED BY <1>0, <2>2, <2>8, <2>9, <2>10 DEF Placement, Running
<1>8. CASE Park
  <2>1. /\ mode # "gone" /\ UNCHANGED <<mode, swap, cur, next>>
        /\ parked' = TRUE /\ raw' = [raw EXCEPT ![cur] = Offscreen(@)]
    BY <1>8 DEF Park
  <2>2. raw'[cur].place = "off" /\ \A v \in RawView : v # cur => raw'[v] = raw[v]
    BY <1>0, <1>c, <2>1, RawEffects DEF TypeOK
  <2>3. (next # NoView <=> Preloading') /\ (swap' # "idle" => Running')
    BY <2>1 DEF Placement, NoViewLeaks, Preloading, Running
  <2> QED BY <1>0, <1>c, <2>1, <2>2, <2>3, PlaceStep
<1>9. CASE Unpark
  <2>1. /\ parked /\ parked' = FALSE /\ UNCHANGED <<mode, swap, pos, cur, next>>
    BY <1>9 DEF Unpark
  <2>2. CASE Running /\ ~Preloading
    <3>1. cur \in RawView /\ mode' # "gone"
      BY <1>c, <2>1, <2>2 DEF Running
    <3>2. /\ raw'[cur].place = "wall" /\ raw'[cur].bounds = pos'
          /\ \A v \in RawView : v # cur => raw'[v] = raw[v]
      BY <1>0, <1>9, <2>1, <2>2, <3>1, RawEffects DEF Unpark, TypeOK
    <3>3. (next # NoView <=> Preloading') /\ (swap' # "idle" => Running')
      BY <2>1 DEF Placement, NoViewLeaks, Preloading, Running
    <3> QED BY <1>0, <2>1, <3>1, <3>2, <3>3, PlaceStep
  <2>3. CASE ~(Running /\ ~Preloading)
    <3>1. raw' = raw
      BY <1>9, <2>3 DEF Unpark
    <3> QED BY <1>0, <2>1, <2>3, <3>1
            DEF Placement, NoViewLeaks, ParkedOffWall, UnparkedOnWall, Live, Preloading, Running
  <2> QED BY <2>2, <2>3
<1>10. ASSUME NEW a \in AudioState, AudioRequest(a) PROVE Placement'
  <2>1. SamePlaces(raw, raw')
    BY <1>10, <1>0, RawEffects DEF AudioRequest, SamePlaces, TypeOK, RawState
  <2> QED BY <1>10, <1>0, <1>g, <2>1, QuietStep DEF AudioRequest, Running
<1>11. CASE Mute
  BY <1>10, <1>11 DEF Mute, AudioState
<1>12. ASSUME NEW b \in BOOLEAN, Blur(b) PROVE Placement'
  <2>1. SamePlaces(raw, raw')
    BY <1>12, <1>0, RawEffects DEF Blur, SamePlaces, TypeOK, RawState
  <2> QED BY <1>12, <1>0, <1>g, <2>1, QuietStep DEF Blur, Running
<1>13. CASE Pause
  <2>1. SamePlaces(raw, raw')
    BY <1>13, <1>0, RawEffects DEF Pause, SamePlaces, TypeOK, RawState
  <2> QED BY <1>13, <1>0, <1>g, <2>1, QuietStep DEF Pause, Running
<1>14. CASE Resume
  <2>1. SamePlaces(raw, raw')
    BY <1>14, <1>0, RawEffects DEF Resume, SamePlaces, TypeOK, RawState
  <2> QED BY <1>14, <1>0, <1>g, <2>1, QuietStep DEF Resume, Running
<1>15. ASSUME NEW x \in Volume, SetVolume(x) PROVE Placement'
  <2>1. SamePlaces(raw, raw')
    BY <1>15, <1>0, RawEffects DEF SetVolume, SamePlaces, TypeOK, RawState
  <2> QED BY <1>15, <1>0, <1>g, <2>1, QuietStep DEF SetVolume, Running
<1>16. CASE Reload
  BY <1>0, <1>16, <1>g, <1>s, LeaveStep DEF Reload, StartLoading
<1>17. CASE LoadingTimeout \/ UrlRefused
  BY <1>17, FailStep DEF LoadingTimeout, UrlRefused, Displaying, Loading, LoadPhase
<1>18. CASE PreloadTimeout \/ NextUrlRefused
  BY <1>18, <1>g, AbandonStep DEF PreloadTimeout, NextUrlRefused
<1>19. CASE HealthyTimer
  BY <1>0, <1>19, <1>s, QuietStep DEF HealthyTimer, Running
<1>20. CASE StalledTimeout \/ RetryBackoff
  <2>1. Displaying
    BY <1>20 DEF StalledTimeout, RetryBackoff, Displaying
  <2> QED BY <1>20, <2>1, FailStep, RetryStep DEF StalledTimeout, RetryBackoff
<1>21. CASE UrlAccepted
  <2>1. SamePlaces(raw, raw')
    BY <1>21, <1>0, RawEffects DEF UrlAccepted, SamePlaces, TypeOK, RawState
  <2> QED BY <1>21, <1>0, <1>g, <2>1, QuietStep DEF UrlAccepted, Running, LoadPhase
<1>22. CASE NextUrlAccepted
  <2>1. SamePlaces(raw, raw')
    BY <1>22, <1>0, RawEffects DEF NextUrlAccepted, SamePlaces, TypeOK, RawState
  <2> QED BY <1>22, <1>0, <1>g, <2>1, QuietStep DEF NextUrlAccepted, Running, LoadPhase
<1>23. ASSUME NEW v \in Live, Commit(v) PROVE Placement'
  <2>1. SamePlaces(raw, raw')
    BY <1>23, <1>0, RawEffects DEF Commit, SamePlaces, TypeOK, RawState
  <2> QED BY <1>23, <1>0, <1>g, <2>1, QuietStep DEF Commit, Running
<1>24. ASSUME NEW v \in Live, DidFailLoad(v) PROVE Placement'
  <2> DEFINE failed == [raw EXCEPT ![v].nav = NoContent]
  <2>1. SamePlaces(raw, failed)
    BY <1>0 DEF SamePlaces, TypeOK, RawState
  <2>2. mode # "gone"
    BY DEF Placement, NoViewLeaks, Live, Preloading, Running
  <2> QED BY <1>0, <1>24, <2>1, <2>2, LeaveStep DEF DidFailLoad, StartLoading
<1>25. ASSUME NEW v \in Live, ViewError(v) PROVE Placement'
  <2>1. v = next => Preloading
    BY DEF Live, Placement, NoViewLeaks
  <2> QED BY <1>25, <2>1, FailStep, AbandonStep DEF ViewError, ErrorFrom
<1>26. ASSUME NEW v \in Live, ViewInit(v) PROVE Placement'
  <2>1. SamePlaces(raw, raw')
    BY <1>26, <1>0, RawEffects DEF ViewInit, SamePlaces, TypeOK, RawState
  <2> QED BY <1>26, <1>0, <1>g, <2>1, QuietStep DEF ViewInit, Running, LoadPhase
<1>27. ASSUME NEW v \in Live, ViewStalled(v) PROVE Placement'
  <2>1. SamePlaces(raw, raw')
    BY <1>27, <1>0, RawEffects DEF ViewStalled, SamePlaces, TypeOK, RawState
  <2> QED BY <1>27, <1>0, <1>g, <2>1, QuietStep DEF ViewStalled, Running
<1>28. ASSUME NEW v \in Live, ViewLoaded(v) PROVE Placement'
  <2> DEFINE loaded == [raw EXCEPT ![v].page.phase = "loaded"]
  <2>1. loaded \in [RawView -> RawState] /\ SamePlaces(raw, loaded)
    <3>1. loaded \in [RawView -> RawState]
      BY <1>0, RawClosed DEF TypeOK
    <3>2. SamePlaces(raw, loaded)
      BY <1>0 DEF SamePlaces, TypeOK, RawState
    <3> QED BY <3>1, <3>2
  <2>2. CASE v = cur /\ mode = "waitForVideo" /\ EnterRunning(loaded)
    <3>1. cur \in RawView /\ loaded[cur] \in RawState
      BY <1>c, <2>1, <2>2
    <3> DEFINE shown == IF parked THEN loaded[cur] ELSE Positioned(loaded[cur], pos)
               heard == [shown EXCEPT !.muted = desiredAudio = "muted"]
               r == IF desiredPaused THEN Told(heard, "paused", "yes") ELSE heard
    <3>2. /\ shown \in RawState
          /\ shown.place = IF parked THEN raw[cur].place ELSE "wall"
          /\ ~parked => shown.bounds = pos
      <4>1. loaded[cur].place = raw[cur].place
        BY <2>1, <3>1 DEF SamePlaces
      <4>2. Positioned(loaded[cur], pos) \in RawState
        <5>1. pos \in Position \union {NoPosition}
          BY <1>0 DEF TypeOK
        <5> QED BY <3>1, <5>1, RawClosed
      <4>3. Positioned(loaded[cur], pos).place = "wall" /\ Positioned(loaded[cur], pos).bounds = pos
        BY <3>1, RawEffects
      <4> QED BY <3>1, <4>1, <4>2, <4>3
    <3>3. heard \in RawState /\ heard.place = shown.place /\ heard.bounds = shown.bounds
      BY <3>2 DEF RawState
    <3>4. r.place = shown.place /\ r.bounds = shown.bounds
      <4> HIDE DEF heard
      <4> QED BY <3>3, RawEffects
    <3>5. raw' = [loaded EXCEPT ![cur] = r]
      BY <2>2 DEF EnterRunning, EnterRegions
    <3>6. raw'[cur] = r /\ \A u \in RawView : u # cur => raw'[u] = raw[u]
      BY <2>1, <2>2, <3>1, <3>5
    <3>7. swap = "idle" /\ next = NoView
      BY <2>2 DEF Placement, NoViewLeaks, Preloading, Running
    <3>8. /\ mode' = "running" /\ UNCHANGED <<swap, pos, parked, cur, next>>
      BY <2>2 DEF EnterRunning, EnterRegions
    <3>9. parked => raw[cur].place = "off"
      BY <1>0, <2>2, <3>1 DEF Placement, ParkedOffWall, NoViewLeaks, Live, TypeOK, RawState
    <3>10. r.place = IF parked THEN "off" ELSE "wall"
      BY <3>2, <3>4, <3>9
    <3>11. ~parked => r.bounds = pos
      BY <3>2, <3>4
    <3> HIDE DEF r, heard, shown
    <3> QED BY <1>0, <3>1, <3>6, <3>7, <3>8, <3>10, <3>11, PlaceStep DEF Running, Preloading
  <2>3. CASE v = next /\ swap = "waitForVideo" /\ PromoteNext(loaded)
    BY <1>0, <1>g, <2>1, <2>3, PromoteStep
  <2>4. CASE /\ raw' = loaded
             /\ UNCHANGED <<mode, swap, pos, parked, cur, next>>
    BY <1>0, <2>1, <2>4, QuietStep DEF Running
  <2> QED BY <1>28, <2>2, <2>3, <2>4 DEF ViewLoaded
<1> QED BY <1>1, <1>2, <1>3, <1>4, <1>5, <1>6, <1>7, <1>8, <1>9, <1>10, <1>11, <1>12, <1>13,
           <1>14, <1>15, <1>16, <1>17, <1>18, <1>19, <1>20, <1>21, <1>22, <1>23, <1>24, <1>25,
           <1>26, <1>27, <1>28
        DEF Next, Command, Display, Timer, Renderer

\* Which views are live, and where they are, is what the mode of the cell says
\* (viewStateMachine.ts:760): the invariant behind the theorems below.
THEOREM PlacementCorrect == Spec => []Placement
BY InitPlacement, PlacementStep, PTL DEF Spec

\* No WebContentsView outlives its use: the live ones are the current view and
\* the preload of a running cell (viewStateMachine.ts:760, StreamWindow.ts:809).
THEOREM NoLeaks == Spec => []NoViewLeaks
BY PlacementCorrect, PTL DEF Placement

\* Nothing a parked cell does behind a fullscreen expansion puts a view of it
\* on the wall window (#741, #816).
THEOREM ParkedStaysOff == Spec => []ParkedOffWall
BY PlacementCorrect, PTL DEF Placement

\* A running cell that is not parked is on the wall at the rectangle requested
\* last, unless a preload is about to replace its view (#816).
THEOREM UnparkedIsOn == Spec => []UnparkedOnWall
BY PlacementCorrect, PTL DEF Placement

\* Both: parked or not, a cell is where the layout has it.
THEOREM StaysPlaced == Spec => []PlacedByParking
BY ParkedStaysOff, UnparkedIsOn, PTL DEF PlacedByParking

-----------------------------------------------------------------------------
(***************************************************************************)
(* What was asked of the cell is in force.  Enforced alone is not          *)
(* inductive: a pause reaches only a view with a document, and the reply   *)
(* to view-init fills in only what the new document has not been told.     *)
(* NewDocuments adds what a document on show may have been told by then.   *)
(***************************************************************************)
NewDocuments ==
  /\ Running => raw[cur].page.phase # "blank"
  /\ cur # NoView /\ raw[cur].page.phase = "new" => raw[cur].page.level \in {NoVolume, volume}

Requested == Placement /\ Enforced /\ NewDocuments

\* Placing a view leaves its navigation and its document alone.
LEMMA PlacedPages ==
  \A r \in RawState :
    /\ Offscreen(r).page = r.page /\ Offscreen(r).nav = r.nav
    /\ \A p : Positioned(r, p).page = r.page /\ Positioned(r, p).nav = r.nav
BY DEF RawState, Offscreen, Positioned

\* What the other operations do to the navigation and the document of a view.
LEMMA PageEffects ==
  \A r \in RawState :
    /\ \A x : /\ Told(r, "paused", x).page.phase = r.page.phase
              /\ Told(r, "paused", x).page.doc = r.page.doc
              /\ Told(r, "paused", x).page.level = r.page.level
              /\ r.page.phase # "blank" => Told(r, "paused", x).page.paused = x
              /\ Told(r, "paused", x).nav = r.nav
    /\ \A x : /\ Told(r, "level", x).page.phase = r.page.phase
              /\ Told(r, "level", x).page.doc = r.page.doc
              /\ Told(r, "level", x).page.paused = r.page.paused
              /\ r.page.phase # "blank" => Told(r, "level", x).page.level = x
              /\ Told(r, "level", x).nav = r.nav
    /\ \A c : Navigating(r, c).page = r.page /\ Navigating(r, c).nav = c
    /\ Committed(r).page.phase = "new" /\ Committed(r).page.doc = r.nav
    /\ Committed(r).page.paused = "unset" /\ Committed(r).page.level = NoVolume
    /\ Committed(r).nav = NoContent
    /\ Inited(r).page.phase = "inited" /\ Inited(r).page.doc = r.page.doc
    /\ Inited(r).page.paused = (IF r.page.paused # "unset" THEN r.page.paused
                                ELSE IF desiredPaused THEN "yes" ELSE "no")
    /\ Inited(r).page.level = (IF r.page.level # NoVolume THEN r.page.level ELSE volume)
    /\ Inited(r).nav = r.nav
    /\ \A b : [r EXCEPT !.muted = b].page = r.page /\ [r EXCEPT !.muted = b].nav = r.nav
    /\ [r EXCEPT !.nav = NoContent].page = r.page
    /\ [r EXCEPT !.nav = NoContent].muted = r.muted
    /\ \A ph : /\ [r EXCEPT !.page.phase = ph].page.phase = ph
               /\ [r EXCEPT !.page.phase = ph].page.doc = r.page.doc
               /\ [r EXCEPT !.page.phase = ph].page.paused = r.page.paused
               /\ [r EXCEPT !.page.phase = ph].page.level = r.page.level
               /\ [r EXCEPT !.page.phase = ph].muted = r.muted
               /\ [r EXCEPT !.page.phase = ph].nav = r.nav
BY DEF RawState, RawPage, Offscreen, Positioned, Told, Navigating, Committed, Inited

\* A disposed view, and a new one, has no document and loads nothing.
LEMMA NewPages == /\ Disposed.page.phase = "blank" /\ Disposed.nav = NoContent
                  /\ Created.page.phase = "blank" /\ Created.nav = NoContent
BY DEF Disposed, Created, NoDocument

\* A step after which the cell is not running leaves only the volume to watch over.
LEMMA RestingRequested ==
  ASSUME Requested, Placement', ~Running', cur' \in {cur, NoView}, volume' = volume,
         cur' # NoView => raw'[cur].page.phase = raw[cur].page.phase
                          /\ raw'[cur].page.level = raw[cur].page.level
  PROVE  Requested'
BY DEF Requested, Enforced, NewDocuments, RequestsInForce, PauseInForce, VolumeInForce

\* A step that changes neither the requests nor what the current view makes of them.
LEMMA SameRequested ==
  ASSUME Requested, Placement',
         Running' => Running,
         UNCHANGED <<audio, video, volume, desiredAudio, desiredBlurred, desiredPaused, cur>>,
         cur # NoView => raw'[cur].page = raw[cur].page /\ raw'[cur].muted = raw[cur].muted
  PROVE  Requested'
<1>1. Running' => cur # NoView
  BY DEF Requested, Placement, NoViewLeaks, Running
<1> QED BY <1>1
        DEF Requested, Enforced, NewDocuments, RequestsInForce, PauseInForce, VolumeInForce

\* Leaving running, as every reload and failure does, keeps the document on show.
LEMMA LeaveRequested ==
  ASSUME Requested, Placement', NEW rs, LeaveRunning(rs),
         mode # "gone", mode' \in {"navigate", "error"}, volume' = volume,
         rs[cur].page = raw[cur].page
  PROVE  Requested'
<1>1. cur \in RawView /\ cur # next /\ cur' = cur
  BY DEF Requested, Placement, NoViewLeaks, TypeOK, LeaveRunning
<1>2. raw'[cur] = rs[cur]
  BY <1>1, WithoutValue DEF LeaveRunning
<1> QED BY <1>1, <1>2, RestingRequested DEF Running

\* Reaching running: the recorded requests are applied to the view on show.
LEMMA EnterRequested ==
  ASSUME Requested, Placement', NEW rs \in [RawView -> RawState], EnterRunning(rs),
         cur \in RawView,
         rs[cur].page.phase = "loaded", rs[cur].page.level = volume
  PROVE  Requested'
<1> DEFINE shown == IF parked THEN rs[cur] ELSE Positioned(rs[cur], pos)
           heard == [shown EXCEPT !.muted = desiredAudio = "muted"]
           told == IF desiredPaused THEN Told(heard, "paused", "yes") ELSE heard
<1>1. shown \in RawState /\ shown.page = rs[cur].page
  <2>1. pos \in Position \union {NoPosition} /\ rs[cur] \in RawState
    BY DEF Requested, Placement, TypeOK
  <2>2. Positioned(rs[cur], pos) \in RawState /\ Positioned(rs[cur], pos).page = rs[cur].page
    BY <2>1, RawClosed, PlacedPages
  <2> QED BY <2>1, <2>2
<1>2. /\ heard \in RawState /\ heard.page = rs[cur].page
      /\ heard.muted <=> desiredAudio = "muted"
  <2> HIDE DEF shown
  <2> QED BY <1>1 DEF RawState
<1>3. /\ told.page.phase = "loaded" /\ told.page.level = volume
      /\ told.muted <=> desiredAudio = "muted"
      /\ desiredPaused => told.page.paused = "yes"
  <2> HIDE DEF heard
  <2> QED BY <1>2, PageEffects, RawEffects
<1>4. raw'[cur] = told
  BY DEF EnterRunning, EnterRegions
<1>5. /\ UNCHANGED <<cur, volume, desiredAudio, desiredBlurred, desiredPaused>>
      /\ audio' = desiredAudio /\ video' = IF desiredBlurred THEN "blurred" ELSE "normal"
  BY DEF EnterRunning, EnterRegions, desired
<1> HIDE DEF told
<1> QED BY <1>3, <1>4, <1>5
        DEF Requested, Enforced, NewDocuments, RequestsInForce, PauseInForce, VolumeInForce

\* A promoted view is told everything the retired one had been told.
LEMMA PromoteRequested ==
  ASSUME Requested, Placement', Preloading, NEW rs \in [RawView -> RawState], PromoteNext(rs),
         rs[next].page.phase = "loaded"
  PROVE  Requested'
<1>1. next \in RawView /\ next # cur
  BY DEF Requested, Placement, NoViewLeaks, TypeOK
<1> DEFINE q == Placed(rs[next])
           m == [q EXCEPT !.muted = desiredAudio = "muted"]
           t == Told(m, "level", volume)
           told == IF desiredPaused THEN Told(t, "paused", "yes") ELSE t
<1>2. q \in RawState /\ q.page.phase = "loaded"
  <2>1. pos \in Position \union {NoPosition} /\ rs[next] \in RawState
    BY <1>1 DEF Requested, Placement, TypeOK
  <2>2. /\ Offscreen(rs[next]) \in RawState /\ Offscreen(rs[next]).page = rs[next].page
        /\ Positioned(rs[next], pos) \in RawState
        /\ Positioned(rs[next], pos).page = rs[next].page
    BY <2>1, RawClosed, PlacedPages
  <2> QED BY <2>1, <2>2 DEF Placed
<1>3. m \in RawState /\ m.page.phase = "loaded" /\ (m.muted <=> desiredAudio = "muted")
  <2> HIDE DEF q
  <2> QED BY <1>2 DEF RawState
<1>4. /\ t \in RawState /\ t.page.phase = "loaded" /\ (t.muted <=> desiredAudio = "muted")
      /\ t.page.level = volume
  <2>1. volume \in Volume
    BY DEF Requested, Placement, TypeOK
  <2> HIDE DEF m
  <2>2. t \in RawState
    BY <1>3, <2>1, RawClosed
  <2> QED BY <1>3, <2>2, PageEffects, RawEffects
<1>5. /\ told.page.phase = "loaded" /\ told.page.level = volume
      /\ told.muted <=> desiredAudio = "muted"
      /\ desiredPaused => told.page.paused = "yes"
  <2> HIDE DEF t
  <2> QED BY <1>4, PageEffects, RawEffects
<1>6. told = Resynced(Placed(rs[next]))
  BY DEF Resynced
<1> HIDE DEF told
<1>7. raw'[next] = told
  BY <1>1, <1>6 DEF PromoteNext, Without
<1>8. /\ cur' = next
      /\ UNCHANGED <<mode, audio, video, volume, desiredAudio, desiredBlurred, desiredPaused>>
  BY DEF PromoteNext, desired
<1> QED BY <1>1, <1>5, <1>7, <1>8
        DEF Requested, Enforced, NewDocuments, RequestsInForce, PauseInForce, VolumeInForce,
            Preloading, Running

\* The requests of a new actor are in force before it has a view.
LEMMA InitRequested == Init => Requested
<1> SUFFICES ASSUME Init PROVE Requested
  OBVIOUS
<1> QED BY InitPlacement
        DEF Init, Requested, Enforced, NewDocuments, RequestsInForce, PauseInForce,
            VolumeInForce, Running

\* Every step keeps the requests in force.
LEMMA RequestedStep == Requested /\ [Next]_vars => Requested'
<1> SUFFICES ASSUME Requested, [Next]_vars PROVE Requested'
  OBVIOUS
<1>0. Placement /\ Placement' /\ TypeOK
  BY PlacementStep DEF Requested, Placement
<1>c. /\ cur # NoView => cur \in RawView /\ raw[cur] \in RawState /\ next # cur
      /\ mode # "gone" <=> cur # NoView
  BY <1>0, NoViewAssumption DEF Placement, NoViewLeaks, TypeOK
<1>g. Displaying => cur # NoView
  BY <1>c DEF Displaying, Loading, LoadPhase, Running
<1> USE DEF regions, target, desired
<1>1. CASE UNCHANGED vars
  BY <1>0, <1>1, SameRequested DEF vars, Running
<1>2. CASE Create
  <2>1. PICK v \in RawView : cur' = v /\ raw' = [raw EXCEPT ![v] = Created]
    BY <1>2 DEF Create
  <2>2. mode' = "empty" /\ raw'[cur'].page.phase = "blank"
    BY <1>0, <1>2, <2>1, NewPages DEF Create, TypeOK
  <2> QED BY <1>0, <2>2
          DEF Requested, Enforced, NewDocuments, RequestsInForce, PauseInForce, VolumeInForce,
              Running
<1>3. CASE Stop
  BY <1>0, <1>3
  DEF Stop, Requested, Enforced, NewDocuments, RequestsInForce, PauseInForce, VolumeInForce,
      Running
<1>4. ASSUME NEW p \in Position, NEW c \in Content, DisplayFirst(p, c) PROVE Requested'
  <2>1. raw'[cur].page = raw[cur].page
    BY <1>0, <1>4, <1>c, PlacedPages DEF DisplayFirst, TypeOK
  <2> QED BY <1>0, <1>4, <2>1, RestingRequested DEF DisplayFirst, Running
<1>5. ASSUME NEW p \in Position, DisplayMovedUnplaced(p) PROVE Requested'
  BY <1>0, <1>5, SameRequested DEF DisplayMovedUnplaced, Running
<1>6. ASSUME NEW p \in Position, DisplayMoved(p) PROVE Requested'
  <2>1. raw'[cur].page = raw[cur].page /\ raw'[cur].muted = raw[cur].muted
    BY <1>0, <1>6, <1>c, <1>g, PlacedPages, RawEffects DEF DisplayMoved, Displaying, TypeOK
  <2> QED BY <1>0, <1>6, <2>1, SameRequested DEF DisplayMoved, Running
<1>7. ASSUME NEW p \in Position, NEW c \in Content, DisplayChanged(p, c) PROVE Requested'
  <2>1. PICK v \in RawView : /\ Without({next}, raw)[v].place = "none"
                             /\ raw' = [Without({next}, raw) EXCEPT ![v] = Created]
    BY <1>7 DEF DisplayChanged
  <2>2. cur # NoView /\ cur # next
    BY <1>7, <1>c, <1>g DEF DisplayChanged, Displaying
  <2>3. Without({next}, raw)[cur] = raw[cur] /\ raw[cur].place # "none"
    BY <1>0, <1>c, <2>2, WithoutValue DEF Placement, NoViewLeaks, Live
  <2>4. raw'[cur] = raw[cur]
    BY <1>c, <2>1, <2>2, <2>3 DEF Without
  <2> QED BY <1>0, <1>7, <2>4, SameRequested DEF DisplayChanged, Running
<1>8. CASE Park
  <2>1. raw'[cur].page = raw[cur].page /\ raw'[cur].muted = raw[cur].muted
    BY <1>0, <1>8, <1>c, PlacedPages, RawEffects DEF Park, TypeOK
  <2> QED BY <1>0, <1>8, <2>1, SameRequested DEF Park, Running
<1>9. CASE Unpark
  <2>1. raw'[cur].page = raw[cur].page /\ raw'[cur].muted = raw[cur].muted
    BY <1>0, <1>9, <1>c, <1>g, PlacedPages, RawEffects DEF Unpark, Displaying, TypeOK
  <2> QED BY <1>0, <1>9, <2>1, SameRequested DEF Unpark, Running
<1>10. ASSUME NEW a \in AudioState, AudioRequest(a) PROVE Requested'
  <2>1. cur # NoView /\ UNCHANGED <<mode, video, volume, desiredBlurred, desiredPaused, cur>>
    BY <1>10, <1>g DEF AudioRequest
  <2>2. CASE Running
    <3>1. raw'[cur] = [raw[cur] EXCEPT !.muted = a = "muted"]
      BY <1>0, <1>10, <1>c, <2>1, <2>2 DEF AudioRequest, TypeOK
    <3>2. raw'[cur].page = raw[cur].page /\ (raw'[cur].muted <=> a = "muted")
      BY <1>c, <2>1, <3>1 DEF RawState
    <3> QED BY <1>0, <1>10, <2>1, <2>2, <3>2
            DEF AudioRequest, Requested, Enforced, NewDocuments, RequestsInForce,
                PauseInForce, VolumeInForce, Running
  <2>3. CASE ~Running
    BY <1>0, <1>10, <2>1, <2>3, RestingRequested DEF AudioRequest, Running
  <2> QED BY <2>2, <2>3
<1>11. CASE Mute
  BY <1>10, <1>11 DEF Mute, AudioState
<1>12. ASSUME NEW b \in BOOLEAN, Blur(b) PROVE Requested'
  BY <1>0, <1>12
  DEF Blur, Requested, Enforced, NewDocuments, RequestsInForce, PauseInForce, VolumeInForce,
      Running
<1>13. CASE Pause
  <2>1. cur # NoView
    BY <1>13, <1>g DEF Pause
  <2>2. CASE Running
    <3>1. raw'[cur] = Told(raw[cur], "paused", "yes")
      BY <1>0, <1>13, <1>c, <2>1, <2>2 DEF Pause, TypeOK
    <3>2. /\ raw'[cur].page.phase = raw[cur].page.phase
          /\ raw'[cur].page.level = raw[cur].page.level
          /\ raw[cur].page.phase # "blank" => raw'[cur].page.paused = "yes"
          /\ raw'[cur].muted = raw[cur].muted
      BY <1>c, <2>1, <3>1, PageEffects, RawEffects
    <3> QED BY <1>0, <1>13, <2>1, <2>2, <3>2
            DEF Pause, Requested, Enforced, NewDocuments, RequestsInForce,
                PauseInForce, VolumeInForce, Running
  <2>3. CASE ~Running
    BY <1>0, <1>13, <2>1, <2>3, RestingRequested DEF Pause, Running
  <2> QED BY <2>2, <2>3
<1>14. CASE Resume
  <2>1. cur # NoView
    BY <1>14, <1>g DEF Resume
  <2>2. raw'[cur] = Told(raw[cur], "paused", "no")
    BY <1>0, <1>14, <1>c, <2>1 DEF Resume, TypeOK
  <2>3. /\ raw'[cur].page.phase = raw[cur].page.phase
        /\ raw'[cur].page.level = raw[cur].page.level
        /\ raw'[cur].muted = raw[cur].muted
    BY <1>c, <2>1, <2>2, PageEffects, RawEffects
  <2> QED BY <1>0, <1>14, <2>1, <2>3
          DEF Resume, Requested, Enforced, NewDocuments, RequestsInForce,
              PauseInForce, VolumeInForce, Running
<1>15. ASSUME NEW x \in Volume, SetVolume(x) PROVE Requested'
  <2>1. cur # NoView
    BY <1>15, <1>g DEF SetVolume
  <2>2. raw'[cur] = Told(raw[cur], "level", x)
    BY <1>0, <1>15, <1>c, <2>1 DEF SetVolume, TypeOK
  <2>3. /\ raw'[cur].page.phase = raw[cur].page.phase
        /\ raw'[cur].page.paused = raw[cur].page.paused
        /\ raw[cur].page.phase # "blank" => raw'[cur].page.level = x
        /\ raw'[cur].muted = raw[cur].muted
    BY <1>c, <2>1, <2>2, PageEffects, RawEffects
  <2> QED BY <1>0, <1>15, <2>1, <2>3
          DEF SetVolume, Requested, Enforced, NewDocuments, RequestsInForce,
              PauseInForce, VolumeInForce, Running
<1>16. CASE Reload
  BY <1>0, <1>16, <1>c, <1>g, LeaveRequested DEF Reload, StartLoading
<1>17. ASSUME Fail, Displaying PROVE Requested'
  BY <1>0, <1>17, <1>c, <1>g, LeaveRequested DEF Fail
<1>18. ASSUME AbandonPreload, Displaying PROVE Requested'
  BY <1>0, <1>18, <1>c, <1>g, LeaveRequested DEF AbandonPreload, StartLoading
<1>19. ASSUME RetryLoading, Displaying PROVE Requested'
  BY <1>0, <1>19, <1>c, <1>g, LeaveRequested DEF RetryLoading, StartLoading
<1>20. CASE Timer
  <2>1. CASE HealthyTimer
    BY <1>0, <2>1, SameRequested DEF HealthyTimer, Running
  <2> QED BY <1>17, <1>18, <1>19, <1>20, <2>1
          DEF Timer, LoadingTimeout, PreloadTimeout, StalledTimeout, RetryBackoff, Displaying,
              Preloading
<1>21. CASE UrlAccepted
  <2>1. raw'[cur].page = raw[cur].page
    BY <1>0, <1>21, <1>c, PageEffects DEF UrlAccepted, TypeOK
  <2> QED BY <1>0, <1>21, <2>1, RestingRequested DEF UrlAccepted, Running
<1>22. CASE UrlRefused \/ NextUrlRefused
  BY <1>0, <1>17, <1>18, <1>22
  DEF UrlRefused, NextUrlRefused, Displaying, Loading, LoadPhase, Placement
<1>23. CASE NextUrlAccepted
  <2>1. cur # NoView => raw'[cur] = raw[cur]
    BY <1>0, <1>23, <1>c DEF NextUrlAccepted, TypeOK
  <2> QED BY <1>0, <1>23, <2>1, SameRequested DEF NextUrlAccepted, Running
<1>24. ASSUME NEW v \in Live, Commit(v) PROVE Requested'
  <2>1. CASE v = cur
    <3>1. cur # NoView /\ raw'[cur] = Committed(raw[cur])
      BY <1>0, <1>24, <1>c, <2>1 DEF Commit, Live, TypeOK
    <3>2. /\ raw'[cur].page.phase = "new" /\ raw'[cur].page.paused = "unset"
          /\ raw'[cur].page.level = NoVolume /\ raw'[cur].muted = raw[cur].muted
      BY <1>c, <3>1, PageEffects, RawEffects
    <3> QED BY <1>0, <1>24, <3>2
            DEF Commit, Requested, Enforced, NewDocuments, RequestsInForce,
                PauseInForce, VolumeInForce, Running
  <2>2. CASE v # cur
    BY <1>0, <1>24, <1>c, <2>2, SameRequested DEF Commit, Running, TypeOK
  <2> QED BY <2>1, <2>2
<1>25. ASSUME NEW v \in Live, DidFailLoad(v) PROVE Requested'
  <2> DEFINE failed == [raw EXCEPT ![v].nav = NoContent]
  <2>1. mode # "gone" /\ cur # NoView
    BY <1>0, <1>c DEF Live, Placement, NoViewLeaks, Preloading, Running
  <2>2. failed[cur].page = raw[cur].page
    BY <1>0, <1>c, <2>1, PageEffects DEF TypeOK
  <2> HIDE DEF failed
  <2> QED BY <1>0, <1>25, <2>1, <2>2, LeaveRequested DEF DidFailLoad, StartLoading, failed
<1>26. ASSUME NEW v \in Live, ViewError(v) PROVE Requested'
  <2>1. v = next => Displaying
    BY <1>0 DEF Live, Placement, NoViewLeaks, Preloading, Displaying
  <2> QED BY <1>17, <1>18, <1>26, <2>1 DEF ViewError, ErrorFrom
<1>27. ASSUME NEW v \in Live, ViewInit(v) PROVE Requested'
  <2>1. Running' <=> Running
    BY <1>27 DEF ViewInit, Running
  <2>2. CASE v = cur
    <3>1. cur # NoView /\ raw'[cur] = Inited(raw[cur]) /\ raw[cur].page.phase = "new"
      BY <1>0, <1>27, <1>c, <2>2 DEF ViewInit, Live, TypeOK
    <3>2. /\ raw'[cur].page.phase = "inited" /\ raw'[cur].muted = raw[cur].muted
          /\ raw'[cur].page.paused = (IF raw[cur].page.paused # "unset" THEN raw[cur].page.paused
                                      ELSE IF desiredPaused THEN "yes" ELSE "no")
          /\ raw'[cur].page.level = (IF raw[cur].page.level # NoVolume THEN raw[cur].page.level
                                     ELSE volume)
      BY <1>c, <3>1, PageEffects, RawEffects
    <3>3. raw'[cur].page.level = volume
      BY <3>1, <3>2 DEF Requested, NewDocuments
    <3> QED BY <1>0, <1>27, <2>1, <3>1, <3>2, <3>3
            DEF ViewInit, Requested, Enforced, NewDocuments, RequestsInForce,
                PauseInForce, VolumeInForce
  <2>3. CASE v # cur
    BY <1>0, <1>27, <1>c, <2>1, <2>3, SameRequested DEF ViewInit, TypeOK
  <2> QED BY <2>2, <2>3
<1>28. ASSUME NEW v \in Live, NEW ph \in {"loaded", "stalled"},
              raw[v].page.phase \in {"inited", "loaded", "stalled"},
              raw' = [raw EXCEPT ![v].page.phase = ph],
              UNCHANGED <<mode, swap, audio, video, target, desired, cur, next>>
       PROVE  Requested'
  <2>1. CASE v = cur
    <3>1. cur # NoView /\ raw'[cur] = [raw[cur] EXCEPT !.page.phase = ph]
      BY <1>0, <1>28, <1>c, <2>1 DEF Live, TypeOK
    <3>2. /\ raw'[cur].page.phase = ph /\ raw'[cur].muted = raw[cur].muted
          /\ raw'[cur].page.paused = raw[cur].page.paused
          /\ raw'[cur].page.level = raw[cur].page.level
      BY <1>c, <3>1 DEF RawState, RawPage
    <3> QED BY <1>0, <1>28, <2>1, <3>1, <3>2
            DEF Requested, Enforced, NewDocuments, RequestsInForce, PauseInForce,
                VolumeInForce, Running
  <2>2. CASE v # cur
    BY <1>0, <1>28, <1>c, <2>2, SameRequested DEF Running, TypeOK
  <2> QED BY <2>1, <2>2
<1>29. ASSUME NEW v \in Live, ViewStalled(v) PROVE Requested'
  BY <1>28, <1>29 DEF ViewStalled
<1>30. ASSUME NEW v \in Live, ViewLoaded(v) PROVE Requested'
  <2> DEFINE loaded == [raw EXCEPT ![v].page.phase = "loaded"]
  <2>1. v \in RawView /\ loaded \in [RawView -> RawState]
    BY <1>0, RawClosed DEF TypeOK, Live
  <2>2. loaded[v].page.phase = "loaded" /\ loaded[v].page.level = raw[v].page.level
    BY <1>0, <2>1, PageEffects DEF TypeOK
  <2>3. raw[v].page.phase \in {"inited", "loaded", "stalled"}
    BY <1>30 DEF ViewLoaded
  <2>4. CASE v = cur /\ EnterRunning(loaded)
    <3>1. raw[cur].page.level = volume
      BY <2>3, <2>4 DEF Live, Requested, Enforced, VolumeInForce
    <3> HIDE DEF loaded
    <3> QED BY <1>0, <2>1, <2>2, <2>4, <3>1, EnterRequested
  <2>5. CASE v = next /\ PromoteNext(loaded)
    <3>1. Preloading
      BY <1>0, <2>5 DEF Live, Placement, NoViewLeaks
    <3> HIDE DEF loaded
    <3> QED BY <1>0, <2>1, <2>2, <2>5, <3>1, PromoteRequested
  <2>6. CASE /\ raw' = loaded
             /\ UNCHANGED <<mode, swap, audio, video, target, desired, retryCount,
                            parked, cur, next>>
    BY <1>28, <2>3, <2>6
  <2> QED BY <1>30, <2>4, <2>5, <2>6 DEF ViewLoaded
<1> QED BY <1>1, <1>2, <1>3, <1>4, <1>5, <1>6, <1>7, <1>8, <1>9, <1>10, <1>11, <1>12, <1>13,
           <1>14, <1>15, <1>16, <1>20, <1>21, <1>22, <1>23, <1>24, <1>25, <1>26, <1>27, <1>29,
           <1>30
        DEF Next, Command, Display, Renderer

-----------------------------------------------------------------------------
(***************************************************************************)
(* The converse for a pause.  A RESUME finds nobody to tell in a view with *)
(* no document yet: what it needs is that such a view was not told to      *)
(* pause either.                                                           *)
(***************************************************************************)
BlankPlays == cur # NoView /\ raw[cur].page.phase = "blank" => raw[cur].page.paused # "yes"

\* What ResumeInForce says of a step.
NotFrozen == Frozen' => Frozen \/ cur' # cur

\* A message to a view without a document is lost, and a new view has been told nothing.
LEMMA BlankPages ==
  /\ \A r \in RawState : \A f, x : r.page.phase = "blank" => Told(r, f, x) = r
  /\ Created.page.paused = "unset" /\ Created.page.phase = "blank"
BY DEF Told, Created, Disposed, NoDocument

\* A step that pauses the view on show only if that is what is asked of the cell.
LEMMA SameResumed ==
  ASSUME BlankPlays, cur' = cur, desiredPaused => desiredPaused',
         cur # NoView =>
           /\ raw'[cur].page.paused = "yes" => raw[cur].page.paused = "yes" \/ desiredPaused'
           /\ raw'[cur].page.phase = "blank" =>
                raw[cur].page.phase = "blank" /\ raw'[cur].page.paused = raw[cur].page.paused
  PROVE  BlankPlays' /\ NotFrozen
BY DEF BlankPlays, NotFrozen, Frozen

\* A step that leaves the document on show alone.
LEMMA SameDocument ==
  ASSUME BlankPlays, cur' = cur, desiredPaused' = desiredPaused,
         cur # NoView => raw'[cur].page = raw[cur].page
  PROVE  BlankPlays' /\ NotFrozen
BY SameResumed

\* Leaving running keeps the document on show.
LEMMA LeaveResumed ==
  ASSUME BlankPlays, Placement, NEW rs, LeaveRunning(rs), mode # "gone",
         desiredPaused' = desiredPaused, rs[cur].page = raw[cur].page
  PROVE  BlankPlays' /\ NotFrozen
<1>1. cur \in RawView /\ cur # next /\ cur' = cur
  BY DEF Placement, NoViewLeaks, TypeOK, LeaveRunning
<1>2. raw'[cur] = rs[cur]
  BY <1>1, WithoutValue DEF LeaveRunning
<1> QED BY <1>1, <1>2, SameDocument

\* Reaching running tells the view on show to pause only if that is asked of the cell.
LEMMA EnterResumed ==
  ASSUME BlankPlays, Placement, NEW rs \in [RawView -> RawState], EnterRunning(rs),
         cur \in RawView, rs[cur].page.phase = "loaded",
         rs[cur].page.paused = raw[cur].page.paused
  PROVE  BlankPlays' /\ NotFrozen
<1> DEFINE shown == IF parked THEN rs[cur] ELSE Positioned(rs[cur], pos)
           heard == [shown EXCEPT !.muted = desiredAudio = "muted"]
           told == IF desiredPaused THEN Told(heard, "paused", "yes") ELSE heard
<1>1. shown \in RawState /\ shown.page = rs[cur].page
  <2>1. pos \in Position \union {NoPosition} /\ rs[cur] \in RawState
    BY DEF Placement, TypeOK
  <2>2. Positioned(rs[cur], pos) \in RawState /\ Positioned(rs[cur], pos).page = rs[cur].page
    BY <2>1, RawClosed, PlacedPages
  <2> QED BY <2>1, <2>2
<1>2. heard \in RawState /\ heard.page = rs[cur].page
  <2> HIDE DEF shown
  <2> QED BY <1>1 DEF RawState
<1>3. told.page.phase = "loaded" /\ (~desiredPaused => told.page = rs[cur].page)
  <2> HIDE DEF heard
  <2> QED BY <1>2, PageEffects
<1>4. raw'[cur] = told
  BY DEF EnterRunning, EnterRegions
<1>5. cur' = cur /\ desiredPaused' = desiredPaused
  BY DEF EnterRunning, EnterRegions, desired
<1> HIDE DEF told
<1> QED BY <1>3, <1>4, <1>5, SameResumed

\* A promoted view has a document.
LEMMA PromoteResumed ==
  ASSUME Placement, Preloading, NEW rs \in [RawView -> RawState], PromoteNext(rs),
         rs[next].page.phase = "loaded"
  PROVE  BlankPlays' /\ NotFrozen
<1>1. next \in RawView /\ next # cur
  BY DEF Placement, NoViewLeaks, TypeOK
<1>2. Placed(rs[next]) \in RawState /\ Placed(rs[next]).page.phase = "loaded"
  <2>1. pos \in Position \union {NoPosition} /\ rs[next] \in RawState
    BY <1>1 DEF Placement, TypeOK
  <2>2. /\ Offscreen(rs[next]) \in RawState /\ Offscreen(rs[next]).page = rs[next].page
        /\ Positioned(rs[next], pos) \in RawState
        /\ Positioned(rs[next], pos).page = rs[next].page
    BY <2>1, RawClosed, PlacedPages
  <2> QED BY <2>1, <2>2 DEF Placed
<1> DEFINE q == Placed(rs[next])
           m == [q EXCEPT !.muted = desiredAudio = "muted"]
           t == Told(m, "level", volume)
<1>3. m \in RawState /\ m.page.phase = "loaded"
  <2> HIDE DEF q
  <2>1. q \in RawState /\ q.page.phase = "loaded"
    BY <1>2 DEF q
  <2> QED BY <2>1 DEF RawState
<1>4. t \in RawState /\ t.page.phase = "loaded"
  <2>1. volume \in Volume
    BY DEF Placement, TypeOK
  <2> HIDE DEF m
  <2>2. t \in RawState
    BY <1>3, <2>1, RawClosed
  <2> QED BY <1>3, <2>2, PageEffects
<1>5. Resynced(Placed(rs[next])).page.phase = "loaded"
  <2>1. Resynced(q) = IF desiredPaused THEN Told(t, "paused", "yes") ELSE t
    BY DEF Resynced
  <2> HIDE DEF t
  <2> QED BY <1>4, <2>1, PageEffects
<1>6. raw'[next] = Resynced(Placed(rs[next])) /\ cur' = next
  BY <1>1 DEF PromoteNext, Without
<1> HIDE DEF q, m, t
<1> QED BY <1>1, <1>5, <1>6 DEF BlankPlays, NotFrozen

\* Before it has a view, the actor has none that could be frozen.
LEMMA InitResumed == Init => BlankPlays
BY DEF Init, BlankPlays

\* No step freezes the view on show.
LEMMA ResumedStep == Requested /\ BlankPlays /\ [Next]_vars => BlankPlays' /\ NotFrozen
<1> SUFFICES ASSUME Requested, BlankPlays, [Next]_vars PROVE BlankPlays' /\ NotFrozen
  OBVIOUS
<1>0. Placement /\ TypeOK
  BY DEF Requested, Placement
<1>c. /\ cur # NoView => cur \in RawView /\ raw[cur] \in RawState /\ next # cur
      /\ mode # "gone" <=> cur # NoView
  BY <1>0, NoViewAssumption DEF Placement, NoViewLeaks, TypeOK
<1>g. Displaying => cur # NoView
  BY <1>c DEF Displaying, Loading, LoadPhase, Running
<1> USE DEF regions, target, desired
<1>1. CASE UNCHANGED vars
  BY <1>1, SameDocument DEF vars
<1>2. CASE Create
  <2>1. PICK v \in RawView : cur' = v /\ raw' = [raw EXCEPT ![v] = Created]
    BY <1>2 DEF Create
  <2>2. raw'[cur'].page.paused = "unset" /\ cur' # cur
    <3>1. cur = NoView /\ cur' # NoView
      BY <1>2, <1>c, <2>1, NoViewAssumption DEF Create
    <3> QED BY <1>0, <2>1, <3>1, BlankPages DEF TypeOK
  <2> QED BY <2>2 DEF BlankPlays, NotFrozen
<1>3. CASE Stop
  BY <1>3 DEF Stop, BlankPlays, NotFrozen, Frozen
<1>4. ASSUME NEW p \in Position, NEW c \in Content, DisplayFirst(p, c)
      PROVE  BlankPlays' /\ NotFrozen
  <2>1. raw'[cur].page = raw[cur].page
    BY <1>0, <1>4, <1>c, PlacedPages DEF DisplayFirst, TypeOK
  <2> QED BY <1>4, <2>1, SameDocument DEF DisplayFirst
<1>5. ASSUME NEW p \in Position, DisplayMovedUnplaced(p) PROVE BlankPlays' /\ NotFrozen
  BY <1>5, SameDocument DEF DisplayMovedUnplaced
<1>6. ASSUME NEW p \in Position, DisplayMoved(p) PROVE BlankPlays' /\ NotFrozen
  <2>1. raw'[cur].page = raw[cur].page
    BY <1>0, <1>6, <1>c, <1>g, PlacedPages DEF DisplayMoved, Displaying, TypeOK
  <2> QED BY <1>6, <2>1, SameDocument DEF DisplayMoved
<1>7. ASSUME NEW p \in Position, NEW c \in Content, DisplayChanged(p, c)
      PROVE  BlankPlays' /\ NotFrozen
  <2>1. PICK v \in RawView : /\ Without({next}, raw)[v].place = "none"
                             /\ raw' = [Without({next}, raw) EXCEPT ![v] = Created]
    BY <1>7 DEF DisplayChanged
  <2>2. cur # NoView /\ cur # next
    BY <1>7, <1>c, <1>g DEF DisplayChanged, Displaying
  <2>3. Without({next}, raw)[cur] = raw[cur] /\ raw[cur].place # "none"
    BY <1>0, <1>c, <2>2, WithoutValue DEF Placement, NoViewLeaks, Live
  <2>4. raw'[cur] = raw[cur]
    BY <1>c, <2>1, <2>2, <2>3 DEF Without
  <2> QED BY <1>7, <2>4, SameDocument DEF DisplayChanged
<1>8. CASE Park
  <2>1. raw'[cur].page = raw[cur].page
    BY <1>0, <1>8, <1>c, PlacedPages DEF Park, TypeOK
  <2> QED BY <1>8, <2>1, SameDocument DEF Park
<1>9. CASE Unpark
  <2>1. cur # NoView => raw'[cur].page = raw[cur].page
    BY <1>0, <1>9, <1>c, PlacedPages DEF Unpark, TypeOK
  <2> QED BY <1>9, <2>1, SameDocument DEF Unpark
<1>10. ASSUME NEW a \in AudioState, AudioRequest(a) PROVE BlankPlays' /\ NotFrozen
  <2>1. raw'[cur].page = raw[cur].page
    BY <1>0, <1>10, <1>c, <1>g DEF AudioRequest, TypeOK, RawState
  <2> QED BY <1>10, <2>1, SameDocument DEF AudioRequest
<1>11. CASE Mute
  BY <1>10, <1>11 DEF Mute, AudioState
<1>12. ASSUME NEW b \in BOOLEAN, Blur(b) PROVE BlankPlays' /\ NotFrozen
  BY <1>12, SameDocument DEF Blur
<1>13. CASE Pause
  <2>1. raw'[cur] \in {raw[cur], Told(raw[cur], "paused", "yes")}
    BY <1>0, <1>13, <1>c, <1>g DEF Pause, TypeOK
  <2>2. /\ raw'[cur].page.phase = raw[cur].page.phase
        /\ raw[cur].page.phase = "blank" => raw'[cur].page.paused = raw[cur].page.paused
    BY <1>13, <1>c, <1>g, <2>1, PageEffects, BlankPages DEF Pause
  <2> QED BY <1>13, <2>2, SameResumed DEF Pause
<1>14. CASE Resume
  <2>1. cur # NoView /\ cur' = cur
    BY <1>14, <1>g DEF Resume
  <2>2. raw'[cur] = Told(raw[cur], "paused", "no")
    BY <1>0, <1>14, <1>c, <2>1 DEF Resume, TypeOK
  <2>3. raw'[cur].page.paused # "yes"
    <3>1. CASE raw[cur].page.phase = "blank"
      BY <1>c, <2>1, <2>2, <3>1, BlankPages DEF BlankPlays
    <3>2. CASE raw[cur].page.phase # "blank"
      BY <1>c, <2>1, <2>2, <3>2, PageEffects
    <3> QED BY <3>1, <3>2
  <2> QED BY <2>1, <2>3 DEF BlankPlays, NotFrozen, Frozen
<1>15. ASSUME NEW x \in Volume, SetVolume(x) PROVE BlankPlays' /\ NotFrozen
  <2>1. raw'[cur] = Told(raw[cur], "level", x)
    BY <1>0, <1>15, <1>c, <1>g DEF SetVolume, TypeOK
  <2>2. /\ raw'[cur].page.phase = raw[cur].page.phase
        /\ raw'[cur].page.paused = raw[cur].page.paused
    BY <1>15, <1>c, <1>g, <2>1, PageEffects DEF SetVolume
  <2> QED BY <1>15, <2>2, SameResumed DEF SetVolume
<1>16. CASE Reload
  BY <1>0, <1>16, <1>c, <1>g, LeaveResumed DEF Reload, StartLoading
<1>17. ASSUME Fail, Displaying PROVE BlankPlays' /\ NotFrozen
  BY <1>0, <1>17, <1>c, <1>g, LeaveResumed DEF Fail
<1>18. ASSUME AbandonPreload, Displaying PROVE BlankPlays' /\ NotFrozen
  BY <1>0, <1>18, <1>c, <1>g, LeaveResumed DEF AbandonPreload, StartLoading
<1>19. ASSUME RetryLoading, Displaying PROVE BlankPlays' /\ NotFrozen
  BY <1>0, <1>19, <1>c, <1>g, LeaveResumed DEF RetryLoading, StartLoading
<1>20. CASE Timer
  <2>1. CASE HealthyTimer
    BY <2>1, SameDocument DEF HealthyTimer
  <2> QED BY <1>17, <1>18, <1>19, <1>20, <2>1
          DEF Timer, LoadingTimeout, PreloadTimeout, StalledTimeout, RetryBackoff, Displaying,
              Preloading
<1>21. CASE UrlAccepted
  <2>1. raw'[cur].page = raw[cur].page
    BY <1>0, <1>21, <1>c, PageEffects DEF UrlAccepted, TypeOK
  <2> QED BY <1>21, <2>1, SameDocument DEF UrlAccepted
<1>22. CASE UrlRefused \/ NextUrlRefused
  BY <1>0, <1>17, <1>18, <1>22
  DEF UrlRefused, NextUrlRefused, Displaying, Loading, LoadPhase, Placement
<1>23. CASE NextUrlAccepted
  <2>1. cur # NoView => raw'[cur] = raw[cur]
    BY <1>0, <1>23, <1>c DEF NextUrlAccepted, TypeOK
  <2> QED BY <1>23, <2>1, SameDocument DEF NextUrlAccepted
<1>24. ASSUME NEW v \in Live, Commit(v) PROVE BlankPlays' /\ NotFrozen
  <2>1. CASE v = cur
    <3>1. cur # NoView /\ raw'[cur] = Committed(raw[cur])
      BY <1>0, <1>24, <1>c, <2>1 DEF Commit, Live, TypeOK
    <3>2. raw'[cur].page.phase = "new" /\ raw'[cur].page.paused = "unset"
      BY <1>c, <3>1, PageEffects
    <3> QED BY <1>24, <3>2, SameResumed DEF Commit
  <2>2. CASE v # cur
    BY <1>0, <1>24, <1>c, <2>2, SameDocument DEF Commit, TypeOK
  <2> QED BY <2>1, <2>2
<1>25. ASSUME NEW v \in Live, DidFailLoad(v) PROVE BlankPlays' /\ NotFrozen
  <2> DEFINE failed == [raw EXCEPT ![v].nav = NoContent]
  <2>1. mode # "gone" /\ cur # NoView
    BY <1>0, <1>c DEF Live, Placement, NoViewLeaks, Preloading, Running
  <2>2. failed[cur].page = raw[cur].page
    BY <1>0, <1>c, <2>1, PageEffects DEF TypeOK
  <2> HIDE DEF failed
  <2> QED BY <1>0, <1>25, <2>1, <2>2, LeaveResumed DEF DidFailLoad, StartLoading, failed
<1>26. ASSUME NEW v \in Live, ViewError(v) PROVE BlankPlays' /\ NotFrozen
  <2>1. v = next => Displaying
    BY <1>0 DEF Live, Placement, NoViewLeaks, Preloading, Displaying
  <2> QED BY <1>17, <1>18, <1>26, <2>1 DEF ViewError, ErrorFrom
<1>27. ASSUME NEW v \in Live, ViewInit(v) PROVE BlankPlays' /\ NotFrozen
  <2>1. CASE v = cur
    <3>1. cur # NoView /\ raw'[cur] = Inited(raw[cur])
      BY <1>0, <1>27, <1>c, <2>1 DEF ViewInit, Live, TypeOK
    <3>2. /\ raw'[cur].page.phase = "inited"
          /\ raw'[cur].page.paused = (IF raw[cur].page.paused # "unset" THEN raw[cur].page.paused
                                      ELSE IF desiredPaused THEN "yes" ELSE "no")
      BY <1>c, <3>1, PageEffects
    <3> QED BY <1>27, <3>2, SameResumed DEF ViewInit
  <2>2. CASE v # cur
    BY <1>0, <1>27, <1>c, <2>2, SameDocument DEF ViewInit, TypeOK
  <2> QED BY <2>1, <2>2
<1>28. ASSUME NEW v \in Live, NEW ph \in {"loaded", "stalled"},
              raw' = [raw EXCEPT ![v].page.phase = ph], UNCHANGED <<target, desired, cur>>
       PROVE  BlankPlays' /\ NotFrozen
  <2>1. CASE v = cur
    <3>1. cur # NoView /\ raw'[cur] = [raw[cur] EXCEPT !.page.phase = ph]
      BY <1>0, <1>28, <1>c, <2>1 DEF Live, TypeOK
    <3>2. raw'[cur].page.phase = ph /\ raw'[cur].page.paused = raw[cur].page.paused
      BY <1>c, <3>1 DEF RawState, RawPage
    <3> QED BY <1>28, <3>2, SameResumed
  <2>2. CASE v # cur
    BY <1>0, <1>28, <1>c, <2>2, SameDocument DEF TypeOK
  <2> QED BY <2>1, <2>2
<1>29. ASSUME NEW v \in Live, ViewStalled(v) PROVE BlankPlays' /\ NotFrozen
  BY <1>28, <1>29 DEF ViewStalled
<1>30. ASSUME NEW v \in Live, ViewLoaded(v) PROVE BlankPlays' /\ NotFrozen
  <2> DEFINE loaded == [raw EXCEPT ![v].page.phase = "loaded"]
  <2>1. v \in RawView /\ loaded \in [RawView -> RawState]
    BY <1>0, RawClosed DEF TypeOK, Live
  <2>2. loaded[v].page.phase = "loaded" /\ loaded[v].page.paused = raw[v].page.paused
    BY <1>0, <2>1, PageEffects DEF TypeOK
  <2>3. CASE v = cur /\ EnterRunning(loaded)
    <3> HIDE DEF loaded
    <3> QED BY <1>0, <2>1, <2>2, <2>3, EnterResumed
  <2>4. CASE v = next /\ PromoteNext(loaded)
    <3>1. Preloading
      BY <1>0, <2>4 DEF Live, Placement, NoViewLeaks
    <3> HIDE DEF loaded
    <3> QED BY <1>0, <2>1, <2>2, <2>4, <3>1, PromoteResumed
  <2>5. CASE raw' = loaded /\ UNCHANGED <<target, desired, cur>>
    BY <1>28, <2>5
  <2> QED BY <1>30, <2>3, <2>4, <2>5 DEF ViewLoaded
<1> QED BY <1>1, <1>2, <1>3, <1>4, <1>5, <1>6, <1>7, <1>8, <1>9, <1>10, <1>11, <1>12, <1>13,
           <1>14, <1>15, <1>16, <1>20, <1>21, <1>22, <1>23, <1>24, <1>25, <1>26, <1>27, <1>29,
           <1>30
        DEF Next, Command, Display, Renderer

\* A running view is audible, blurred and as loud as was last asked of its cell, and
\* paused when that was asked, whatever load, error, swap or view-init the request fell
\* into (#621, #658); and a RESUME reaches the view on show in whatever state it finds
\* the actor (#738).  A swap is excepted there: it may put a view in place that was told
\* of a pause withdrawn since (viewStateMachine.ts:415).
THEOREM DoesAsRequested == Spec => AsRequested
<1>1. Requested /\ BlankPlays /\ [Next]_vars => [NotFrozen]_vars
  BY ResumedStep
<1> QED BY <1>1, InitRequested, RequestedStep, InitResumed, ResumedStep, PTL
        DEF Spec, Requested, AsRequested, ResumeInForce, NotFrozen

-----------------------------------------------------------------------------
(***************************************************************************)
(* From one content to the next.  KeepsPicture needs to know what the two  *)
(* views are loading: the current one what its cell was last asked to      *)
(* show, unless a preload is to replace it; the preload never anything     *)
(* else; and an empty cell is not on the wall, so that its first DISPLAY   *)
(* takes nothing away.                                                     *)
(***************************************************************************)
Leads(r) == r.nav = content \/ (r.nav = NoContent /\ r.page.doc = content)

Preloads(r) ==
  /\ swap = "navigate" => r.page.phase = "blank" /\ r.nav = NoContent
  /\ swap # "navigate" /\ r.page.phase = "blank" => r.nav = content
  /\ swap # "navigate" /\ r.page.phase # "blank" => r.page.doc = content /\ r.nav = NoContent

Picture ==
  /\ Placement
  /\ mode \in {"waitForInit", "waitForVideo"} \/ (Running /\ ~Preloading) => Leads(raw[cur])
  /\ next # NoView => Preloads(raw[next])
  /\ mode = "empty" => raw[cur].place = "off" /\ raw[cur].nav = NoContent

\* What the two action properties of KeepsPicture say of a step.
ReadySwap ==
  cur # NoView /\ cur' \notin {cur, NoView} =>
    raw'[cur'].page.phase = "loaded" /\ raw'[cur'].page.doc = content'

NoGap ==
  \A v \in RawView :
    raw[v].place = "wall" /\ raw'[v].place # "wall" =>
      parked' \/ mode' = "gone" \/ (cur' # v /\ raw'[cur'].place = "wall")

\* r and s have the same document and the same navigation under way.
SameLoad(r, s) ==
  /\ s.nav = r.nav /\ s.page.doc = r.page.doc
  /\ s.page.phase = "blank" <=> r.page.phase = "blank"

\* Only the current view is ever on the wall: a step that leaves it there leaves no gap.
LEMMA StayingTile ==
  ASSUME Picture, cur' = cur,
         cur \in RawView /\ raw[cur].place = "wall" => raw'[cur].place = "wall" \/ parked'
  PROVE  ReadySwap /\ NoGap
<1>1. \A v \in RawView : raw[v].place = "wall" => v = cur
  BY DEF Picture, Placement, NoViewLeaks, UnparkedOnWall, Live
<1> QED BY <1>1 DEF ReadySwap, NoGap

\* A step that changes neither the content asked for nor what the views load.
LEMMA SamePicture ==
  ASSUME Picture, Placement', \A v \in Live : SameLoad(raw[v], raw'[v]),
         UNCHANGED <<content, cur, next>>,
         Running' <=> Running,
         mode' \in {"waitForInit", "waitForVideo"} => mode \in {"waitForInit", "waitForVideo"},
         (swap' = "idle") <=> (swap = "idle"),
         (swap' = "navigate") <=> (swap = "navigate"),
         mode' = "empty" => mode = "empty" /\ raw'[cur].place = "off",
         cur \in RawView /\ raw[cur].place = "wall" => raw'[cur].place = "wall" \/ parked'
  PROVE  Picture' /\ ReadySwap /\ NoGap
<1>1. mode \in {"waitForInit", "waitForVideo", "running", "empty"} => cur \in Live
  BY DEF Picture, Placement, NoViewLeaks, Live
<1>2. mode' \in {"waitForInit", "waitForVideo"} \/ (Running' /\ ~Preloading') => Leads(raw[cur])'
  BY <1>1 DEF Picture, Running, Preloading, SameLoad, Leads
<1>3. next # NoView => Preloads(raw[next])'
  BY DEF Picture, SameLoad, Preloads, Live
<1>4. mode' = "empty" => raw'[cur].place = "off" /\ raw'[cur].nav = NoContent
  BY <1>1 DEF Picture, SameLoad
<1> QED BY <1>2, <1>3, <1>4, StayingTile DEF Picture

\* A reload or a failure leaves the tile where it is, and disposes the preload.
LEMMA LeavePicture ==
  ASSUME Picture, Placement', NEW rs, LeaveRunning(rs),
         mode # "gone", mode' \in {"navigate", "error"},
         rs[cur].place = raw[cur].place
  PROVE  Picture' /\ ReadySwap /\ NoGap
<1>1. cur \in RawView /\ cur # next /\ cur' = cur /\ next' = NoView
  BY DEF Picture, Placement, NoViewLeaks, TypeOK, LeaveRunning
<1>2. raw'[cur] = rs[cur]
  BY <1>1, WithoutValue DEF LeaveRunning
<1> QED BY <1>1, <1>2, StayingTile DEF Picture, Running

\* A promoted view shows the newest content, and stands where the retired one stood.
LEMMA PromotePicture ==
  ASSUME Picture, Placement', Preloading, swap # "navigate",
         NEW rs \in [RawView -> RawState], PromoteNext(rs),
         rs[next].page.phase = "loaded", raw[next].page.phase # "blank",
         rs[next].page.doc = raw[next].page.doc, rs[next].nav = raw[next].nav
  PROVE  Picture' /\ ReadySwap /\ NoGap
<1>1. next \in RawView /\ next # cur /\ next # NoView
  BY DEF Picture, Placement, NoViewLeaks, TypeOK
<1>2. rs[next].page.doc = content /\ rs[next].nav = NoContent
  BY <1>1 DEF Picture, Preloads
<1> DEFINE q == Placed(rs[next])
           m == [q EXCEPT !.muted = desiredAudio = "muted"]
           t == Told(m, "level", volume)
           told == IF desiredPaused THEN Told(t, "paused", "yes") ELSE t
<1>3. /\ q \in RawState /\ q.page = rs[next].page /\ q.nav = NoContent
      /\ ~parked => q.place = "wall"
  <2>1. pos \in Position \union {NoPosition} /\ rs[next] \in RawState
    BY <1>1 DEF Picture, Placement, TypeOK
  <2>2. /\ Offscreen(rs[next]) \in RawState /\ Positioned(rs[next], pos) \in RawState
        /\ Positioned(rs[next], pos).place = "wall"
    <3>1. Offscreen(rs[next]) \in RawState /\ Positioned(rs[next], pos) \in RawState
      BY <2>1, RawClosed
    <3>2. Positioned(rs[next], pos).place = "wall"
      BY <2>1, RawEffects
    <3> QED BY <3>1, <3>2
  <2>3. \A r \in {Offscreen(rs[next]), Positioned(rs[next], pos)} :
          r.page = rs[next].page /\ r.nav = rs[next].nav
    BY <2>1, PlacedPages
  <2> QED BY <1>2, <2>2, <2>3 DEF Placed
<1>4. /\ m \in RawState /\ m.page = rs[next].page /\ m.nav = NoContent
      /\ ~parked => m.place = "wall"
  <2> HIDE DEF q
  <2> QED BY <1>3 DEF RawState
<1>5. /\ t \in RawState /\ t.page.phase = "loaded" /\ t.page.doc = content /\ t.nav = NoContent
      /\ ~parked => t.place = "wall"
  <2>1. volume \in Volume
    BY DEF Picture, Placement, TypeOK
  <2> HIDE DEF m
  <2>2. t \in RawState
    BY <1>4, <2>1, RawClosed
  <2> QED BY <1>2, <1>4, <2>2, PageEffects, RawEffects
<1>6. /\ told.page.phase = "loaded" /\ told.page.doc = content /\ told.nav = NoContent
      /\ ~parked => told.place = "wall"
  <2> HIDE DEF t
  <2> QED BY <1>5, PageEffects, RawEffects
<1>7. told = Resynced(Placed(rs[next]))
  BY DEF Resynced
<1> HIDE DEF told
<1>8. raw'[next] = told
  BY <1>1, <1>7 DEF PromoteNext, Without
<1>9. /\ cur' = next /\ next' = NoView
      /\ UNCHANGED <<mode, content, parked>>
  BY DEF PromoteNext, target
<1>10. ReadySwap
  BY <1>6, <1>8, <1>9 DEF ReadySwap
<1>11. NoGap
  <2>1. \A v \in RawView : raw[v].place = "wall" => v = cur
    BY DEF Picture, Placement, NoViewLeaks, UnparkedOnWall, Live
  <2> QED BY <1>1, <1>6, <1>8, <1>9, <2>1 DEF NoGap
<1>12. Leads(raw[cur])'
  BY <1>6, <1>8, <1>9 DEF Leads
<1> QED BY <1>9, <1>10, <1>11, <1>12 DEF Picture, Preloading, Running

\* A new actor has nothing to show.
LEMMA InitPicture == Init => Picture
<1> SUFFICES ASSUME Init PROVE Picture
  OBVIOUS
<1> QED BY InitPlacement DEF Init, Picture, Running

\* Every step keeps what the views load, swaps in only what is ready and leaves no gap.
LEMMA PictureStep == Picture /\ [Next]_vars => Picture' /\ ReadySwap /\ NoGap
<1> DEFINE Good == Picture' /\ ReadySwap /\ NoGap
<1> SUFFICES ASSUME Picture, [Next]_vars PROVE Good
  OBVIOUS
<1>0. Placement /\ Placement' /\ TypeOK
  BY PlacementStep DEF Picture, Placement
<1>c. /\ cur # NoView => cur \in RawView /\ raw[cur] \in RawState /\ next # cur
      /\ next # NoView => next \in RawView /\ raw[next] \in RawState /\ Running
      /\ mode # "gone" <=> cur # NoView
      /\ cur \in RawView => cur # NoView
      /\ Live \subseteq RawView
  BY <1>0, NoViewAssumption DEF Placement, NoViewLeaks, TypeOK, Preloading, Live
<1>g. /\ Displaying => cur # NoView
      /\ swap # "idle" => Running /\ next # NoView
  BY <1>0, <1>c DEF Displaying, Loading, LoadPhase, Running, Placement, NoViewLeaks, Preloading
<1>r. \A r : SameLoad(r, r)
  BY DEF SameLoad
<1> USE DEF regions, target, desired
<1>1. CASE UNCHANGED vars
  BY <1>0, <1>1, <1>r, SamePicture DEF vars, Running, Picture
<1>2. CASE Create
  <2>1. PICK v \in RawView : cur' = v /\ raw' = [raw EXCEPT ![v] = Created]
    BY <1>2 DEF Create
  <2>2. /\ mode' = "empty" /\ next' = NoView /\ cur = NoView
        /\ raw'[cur'].place = "off" /\ raw'[cur'].nav = NoContent
    BY <1>0, <1>2, <1>c, <2>1, NewPlaces, NewPages
    DEF Create, TypeOK, Placement, NoViewLeaks, Preloading, Running
  <2>3. \A u \in RawView : raw[u].place = "none"
    BY <1>0, <1>2, <2>2 DEF Create, Placement, NoViewLeaks, Live, Preloading, Running
  <2> QED BY <1>0, <2>2, <2>3 DEF Picture, ReadySwap, NoGap, Running
<1>3. CASE Stop
  BY <1>0, <1>3 DEF Stop, Picture, ReadySwap, NoGap, Running
<1>4. ASSUME NEW p \in Position, NEW c \in Content, DisplayFirst(p, c) PROVE Good
  <2>1. next = NoView /\ raw[cur].place = "off"
    BY <1>0, <1>4, <1>c DEF DisplayFirst, Picture, Running
  <2>2. mode' = "navigate" /\ UNCHANGED <<cur, next>>
    BY <1>4 DEF DisplayFirst
  <2> QED BY <1>0, <2>1, <2>2, StayingTile DEF Picture, Running
<1>5. ASSUME NEW p \in Position, DisplayMovedUnplaced(p) PROVE Good
  BY <1>0, <1>5, <1>r, SamePicture DEF DisplayMovedUnplaced, Running, Picture
<1>6. ASSUME NEW p \in Position, DisplayMoved(p) PROVE Good
  <2>1. cur # NoView /\ raw' = [raw EXCEPT ![cur] = Positioned(@, p)]
    BY <1>6, <1>g DEF DisplayMoved, Displaying
  <2>2. \A v \in Live : SameLoad(raw[v], raw'[v])
    BY <1>0, <1>c, <1>r, <2>1, PlacedPages DEF TypeOK, SameLoad
  <2>3. raw'[cur].place = "wall"
    BY <1>0, <1>c, <2>1, RawEffects DEF TypeOK
  <2> QED BY <1>0, <1>6, <2>2, <2>3, SamePicture DEF DisplayMoved, Running
<1>7. ASSUME NEW p \in Position, NEW c \in Content, DisplayChanged(p, c) PROVE Good
  <2>1. PICK v \in RawView : /\ Without({next}, raw)[v].place = "none"
                             /\ next' = v
                             /\ raw' = [Without({next}, raw) EXCEPT ![v] = Created]
    BY <1>7 DEF DisplayChanged
  <2>2. cur # NoView /\ cur # next /\ swap' = "navigate" /\ UNCHANGED <<mode, cur>> /\ Running
    BY <1>7, <1>c, <1>g DEF DisplayChanged, Displaying
  <2>3. Without({next}, raw)[cur] = raw[cur] /\ raw[cur].place # "none"
    BY <1>0, <1>c, <2>2, WithoutValue DEF Placement, NoViewLeaks, Live
  <2>4. raw'[cur] = raw[cur] /\ raw'[next'] = Created
    BY <1>c, <2>1, <2>2, <2>3 DEF Without
  <2> QED BY <1>0, <2>2, <2>4, NewPages, StayingTile DEF Picture, Preloads, Preloading, Running
<1>8. CASE Park
  <2>1. cur # NoView /\ raw' = [raw EXCEPT ![cur] = Offscreen(@)]
    BY <1>8, <1>c DEF Park
  <2>2. \A v \in Live : SameLoad(raw[v], raw'[v])
    BY <1>0, <1>c, <1>r, <2>1, PlacedPages DEF TypeOK, SameLoad
  <2>3. raw'[cur].place = "off"
    BY <1>0, <1>c, <2>1, RawEffects DEF TypeOK
  <2> QED BY <1>0, <1>8, <2>2, <2>3, SamePicture DEF Park, Running
<1>9. CASE Unpark
  <2>1. CASE Running /\ ~Preloading
    <3>1. cur # NoView /\ raw' = [raw EXCEPT ![cur] = Positioned(@, pos)]
      BY <1>9, <1>g, <2>1 DEF Unpark, Displaying
    <3>2. \A v \in Live : SameLoad(raw[v], raw'[v])
      BY <1>0, <1>c, <1>r, <3>1, PlacedPages DEF TypeOK, SameLoad
    <3>3. raw'[cur].place = "wall"
      BY <1>0, <1>c, <3>1, RawEffects DEF TypeOK
    <3> QED BY <1>0, <1>9, <2>1, <3>2, <3>3, SamePicture DEF Unpark, Running
  <2>2. CASE ~(Running /\ ~Preloading)
    BY <1>0, <1>9, <1>r, <2>2, SamePicture DEF Unpark, Running, Picture
  <2> QED BY <2>1, <2>2
\* The requests reach the document and the mute of the current view, not what it loads.
<1>10. ASSUME cur # NoView, NEW r \in RawState, SameLoad(raw[cur], r), r.place = raw[cur].place,
              raw' = [raw EXCEPT ![cur] = r],
              UNCHANGED <<mode, swap, content, cur, next>>
       PROVE  Good
  <2>1. \A v \in Live : SameLoad(raw[v], raw'[v])
    BY <1>0, <1>10, <1>c, <1>r DEF TypeOK
  <2>2. raw'[cur].place = raw[cur].place
    BY <1>0, <1>10, <1>c DEF TypeOK
  <2> QED BY <1>0, <1>10, <2>1, <2>2, SamePicture DEF Running, Picture
<1>11. ASSUME UNCHANGED <<mode, swap, content, cur, next, raw>> PROVE Good
  BY <1>0, <1>11, <1>r, SamePicture DEF Running, Picture
<1>12. ASSUME NEW a \in AudioState, AudioRequest(a) PROVE Good
  <2>1. CASE Running
    <3> DEFINE r == [raw[cur] EXCEPT !.muted = a = "muted"]
    <3>1. cur # NoView /\ raw' = [raw EXCEPT ![cur] = r]
      BY <1>0, <1>12, <1>c, <1>g, <2>1 DEF AudioRequest, TypeOK
    <3>2. r \in RawState /\ SameLoad(raw[cur], r) /\ r.place = raw[cur].place
      BY <1>c, <3>1 DEF RawState, SameLoad
    <3> HIDE DEF r
    <3> QED BY <1>10, <1>12, <3>1, <3>2 DEF AudioRequest
  <2>2. CASE ~Running
    BY <1>11, <1>12, <2>2 DEF AudioRequest
  <2> QED BY <2>1, <2>2
<1>13. CASE Mute
  BY <1>12, <1>13 DEF Mute, AudioState
<1>14. ASSUME NEW b \in BOOLEAN, Blur(b) PROVE Good
  BY <1>11, <1>14 DEF Blur
<1>15. ASSUME cur # NoView, NEW x \in {"yes", "no"},
              raw' = [raw EXCEPT ![cur] = Told(@, "paused", x)],
              UNCHANGED <<mode, swap, content, cur, next>>
       PROVE  Good
  <2> DEFINE r == Told(raw[cur], "paused", x)
  <2>1. r \in RawState
    BY <1>15, <1>c, RawClosed
  <2>2. r.place = raw[cur].place
    BY <1>15, <1>c, RawEffects
  <2>3. SameLoad(raw[cur], r)
    BY <1>15, <1>c, PageEffects DEF SameLoad
  <2> HIDE DEF r
  <2>4. raw' = [raw EXCEPT ![cur] = r]
    BY <1>15 DEF r
  <2> QED BY <1>10, <1>15, <2>1, <2>2, <2>3, <2>4
<1>16. CASE Pause \/ Resume
  BY <1>11, <1>15, <1>16, <1>g DEF Pause, Resume
<1>17. ASSUME NEW x \in Volume, SetVolume(x) PROVE Good
  <2> DEFINE r == Told(raw[cur], "level", x)
  <2>1. cur # NoView /\ UNCHANGED <<mode, swap, content, cur, next>>
    BY <1>17, <1>g DEF SetVolume
  <2>2. r \in RawState
    BY <1>c, <2>1, RawClosed
  <2>3. r.place = raw[cur].place
    BY <1>c, <2>1, RawEffects
  <2>4. SameLoad(raw[cur], r)
    BY <1>c, <2>1, PageEffects DEF SameLoad
  <2> HIDE DEF r
  <2>5. raw' = [raw EXCEPT ![cur] = r]
    BY <1>17 DEF r, SetVolume
  <2> QED BY <1>10, <2>1, <2>2, <2>3, <2>4, <2>5
<1>18. CASE Reload
  BY <1>0, <1>18, <1>c, <1>g, LeavePicture DEF Reload, StartLoading
<1>19. ASSUME Fail, Displaying PROVE Good
  BY <1>0, <1>19, <1>c, <1>g, LeavePicture DEF Fail
<1>20. ASSUME AbandonPreload, Displaying PROVE Good
  BY <1>0, <1>20, <1>c, <1>g, LeavePicture DEF AbandonPreload, StartLoading
<1>21. ASSUME RetryLoading, Displaying PROVE Good
  BY <1>0, <1>21, <1>c, <1>g, LeavePicture DEF RetryLoading, StartLoading
<1>22. CASE Timer
  BY <1>11, <1>19, <1>20, <1>21, <1>22
  DEF Timer, LoadingTimeout, PreloadTimeout, HealthyTimer, StalledTimeout, RetryBackoff,
      Displaying, Preloading
<1>23. CASE UrlRefused \/ NextUrlRefused
  BY <1>19, <1>20, <1>23, <1>g DEF UrlRefused, NextUrlRefused, Displaying, Loading, LoadPhase
<1>24. CASE UrlAccepted
  <2>1. /\ mode = "navigate" /\ mode' = "waitForInit" /\ UNCHANGED <<content, cur, next>>
        /\ raw' = [raw EXCEPT ![cur] = Navigating(@, content)]
    BY <1>24 DEF UrlAccepted
  <2>2. cur # NoView /\ next = NoView
    BY <1>c, <2>1 DEF Running
  <2>3. raw'[cur].nav = content /\ raw'[cur].place = raw[cur].place
    BY <1>0, <1>c, <2>1, <2>2, PageEffects, RawEffects DEF TypeOK
  <2> QED BY <1>0, <2>1, <2>2, <2>3, StayingTile DEF Picture, Leads
<1>25. CASE NextUrlAccepted
  <2>1. /\ swap = "navigate" /\ swap' = "waitForInit" /\ UNCHANGED <<mode, content, cur, next>>
        /\ raw' = [raw EXCEPT ![next] = Navigating(@, content)]
    BY <1>25 DEF NextUrlAccepted
  <2>2. cur # NoView /\ next # NoView /\ Running
    BY <1>g, <2>1 DEF Displaying
  <2>3. raw'[next].nav = content /\ raw'[next].page = raw[next].page
    BY <1>0, <1>c, <2>1, <2>2, PageEffects DEF TypeOK
  <2>4. raw'[cur] = raw[cur]
    BY <1>0, <1>c, <2>1, <2>2 DEF TypeOK
  <2>5. Preloads(raw[next])'
    BY <2>1, <2>2, <2>3 DEF Picture, Preloads
  <2> QED BY <1>0, <2>1, <2>2, <2>4, <2>5, StayingTile DEF Picture, Running, Preloading
<1>26. ASSUME NEW v \in Live, Commit(v) PROVE Good
  <2>1. /\ raw[v].nav # NoContent /\ raw' = [raw EXCEPT ![v] = Committed(@)]
        /\ UNCHANGED <<mode, swap, content, cur, next>>
    BY <1>26 DEF Commit
  <2>2. v \in RawView /\ raw[v] \in RawState
    BY <1>0, <1>c DEF TypeOK
  <2>3. /\ raw'[v].nav = NoContent /\ raw'[v].page.doc = raw[v].nav
        /\ raw'[v].page.phase = "new" /\ raw'[v].place = raw[v].place
    BY <1>0, <2>1, <2>2, PageEffects, RawEffects DEF TypeOK
  <2>4. \A u \in RawView : u # v => raw'[u] = raw[u]
    BY <1>0, <2>1, <2>2 DEF TypeOK
  <2>5. ReadySwap /\ NoGap
    BY <1>c, <2>1, <2>3, <2>4, StayingTile
  <2>6. /\ mode' \in {"waitForInit", "waitForVideo"} \/ (Running' /\ ~Preloading') =>
             Leads(raw[cur])'
        /\ next # NoView => Preloads(raw[next])'
    <3>1. mode \in {"waitForInit", "waitForVideo", "running"} => cur \in RawView
      BY <1>c
    <3>2. next # NoView => next \in RawView
      BY <1>c
    <3> QED BY <2>1, <2>3, <2>4, <3>1, <3>2
            DEF Picture, Leads, Preloads, Running, Preloading
  <2>7. mode' = "empty" => raw'[cur].place = "off" /\ raw'[cur].nav = NoContent
    BY <1>c, <2>1, <2>3, <2>4 DEF Picture
  <2> QED BY <1>0, <2>1, <2>5, <2>6, <2>7 DEF Picture
<1>27. ASSUME NEW v \in Live, DidFailLoad(v) PROVE Good
  <2> DEFINE failed == [raw EXCEPT ![v].nav = NoContent]
  <2>1. mode # "gone" /\ cur # NoView
    BY <1>0, <1>c DEF Live, Running
  <2>2. failed[cur].place = raw[cur].place
    BY <1>0, <1>c, <2>1 DEF TypeOK, RawState
  <2> HIDE DEF failed
  <2> QED BY <1>0, <1>27, <2>1, <2>2, LeavePicture DEF DidFailLoad, StartLoading, failed
<1>28. ASSUME NEW v \in Live, ViewError(v) PROVE Good
  <2>1. v = next => Displaying
    BY <1>c DEF Live, Displaying
  <2> QED BY <1>19, <1>20, <1>28, <2>1 DEF ViewError, ErrorFrom
\* A document that goes on loading.
<1>29. ASSUME NEW v \in Live, NEW r \in RawState, SameLoad(raw[v], r), r.place = raw[v].place,
              raw' = [raw EXCEPT ![v] = r],
              UNCHANGED <<content, cur, next>>,
              Running' <=> Running,
              mode' \in {"waitForInit", "waitForVideo"} => mode \in {"waitForInit", "waitForVideo"},
              mode' = "empty" => mode = "empty",
              (swap' = "idle") <=> (swap = "idle"),
              (swap' = "navigate") <=> (swap = "navigate")
       PROVE  Good
  <2>1. \A u \in Live : SameLoad(raw[u], raw'[u])
    BY <1>0, <1>29, <1>c, <1>r DEF TypeOK
  <2>2. cur # NoView => raw'[cur].place = raw[cur].place
    BY <1>0, <1>29, <1>c DEF TypeOK
  <2>3. mode' = "empty" => mode = "empty" /\ raw'[cur].place = "off"
    BY <1>29, <1>c, <2>2 DEF Picture
  <2>4. cur \in RawView /\ raw[cur].place = "wall" => raw'[cur].place = "wall" \/ parked'
    BY <1>c, <2>2
  <2> QED BY <1>0, <1>29, <2>1, <2>3, <2>4, SamePicture
<1>30. ASSUME NEW v \in Live, ViewInit(v) PROVE Good
  <2> DEFINE r == Inited(raw[v])
  <2>1. raw[v] \in RawState /\ raw[v].page.phase = "new" /\ volume \in Volume
    BY <1>0, <1>30, <1>c DEF ViewInit, TypeOK
  <2>2. r \in RawState /\ r.place = raw[v].place
    BY <2>1, InitedClosed, RawEffects
  <2>3. SameLoad(raw[v], r)
    BY <2>1, PageEffects DEF SameLoad
  <2>4. raw' = [raw EXCEPT ![v] = r]
    BY <1>30 DEF ViewInit
  <2> HIDE DEF r
  <2> QED BY <1>29, <1>30, <2>2, <2>3, <2>4 DEF ViewInit, Running
<1>31. ASSUME NEW v \in Live, ViewStalled(v) PROVE Good
  <2> DEFINE r == [raw[v] EXCEPT !.page.phase = "stalled"]
  <2>1. /\ raw[v] \in RawState /\ raw[v].page.phase = "loaded"
        /\ raw' = [raw EXCEPT ![v] = r]
    BY <1>0, <1>31, <1>c DEF ViewStalled, TypeOK
  <2>2. r \in RawState /\ r.place = raw[v].place /\ SameLoad(raw[v], r)
    BY <2>1 DEF RawState, RawPage, SameLoad
  <2> HIDE DEF r
  <2> QED BY <1>29, <1>31, <2>1, <2>2 DEF ViewStalled, Running
<1>32. ASSUME NEW v \in Live, ViewLoaded(v) PROVE Good
  <2> DEFINE r == [raw[v] EXCEPT !.page.phase = "loaded"]
             loaded == [raw EXCEPT ![v].page.phase = "loaded"]
  <2>1. /\ v \in RawView /\ raw[v] \in RawState
        /\ raw[v].page.phase \in {"inited", "loaded", "stalled"}
    BY <1>0, <1>32, <1>c DEF ViewLoaded, TypeOK
  <2>2. /\ loaded = [raw EXCEPT ![v] = r] /\ loaded \in [RawView -> RawState] /\ loaded[v] = r
    BY <1>0, <2>1, RawClosed DEF TypeOK
  <2>3. /\ r \in RawState /\ r.place = raw[v].place /\ SameLoad(raw[v], r)
        /\ r.page.phase = "loaded" /\ r.page.doc = raw[v].page.doc /\ r.nav = raw[v].nav
    BY <2>1 DEF RawState, RawPage, SameLoad
  <2> HIDE DEF r, loaded
  <2>4. CASE v = cur /\ mode = "waitForVideo" /\ EnterRunning(loaded)
    <3> DEFINE shown == IF parked THEN loaded[cur] ELSE Positioned(loaded[cur], pos)
               heard == [shown EXCEPT !.muted = desiredAudio = "muted"]
               told == IF desiredPaused THEN Told(heard, "paused", "yes") ELSE heard
    <3>1. /\ shown \in RawState /\ shown.page = r.page /\ shown.nav = r.nav
          /\ shown.place = IF parked THEN raw[cur].place ELSE "wall"
      <4>1. pos \in Position \union {NoPosition} /\ loaded[cur] = r
        BY <1>0, <2>2, <2>4 DEF TypeOK
      <4>2. Positioned(r, pos) \in RawState
        BY <2>3, <4>1, RawClosed
      <4>3. Positioned(r, pos).place = "wall"
        BY <2>3, RawEffects
      <4>4. Positioned(r, pos).page = r.page /\ Positioned(r, pos).nav = r.nav
        BY <2>3, PlacedPages
      <4> QED BY <2>3, <2>4, <4>1, <4>2, <4>3, <4>4
    <3>2. /\ heard \in RawState /\ heard.page = r.page /\ heard.nav = r.nav
          /\ heard.place = shown.place
      <4> HIDE DEF shown
      <4> QED BY <3>1 DEF RawState
    <3>3. told.page.doc = r.page.doc /\ told.nav = r.nav /\ told.place = shown.place
      <4> HIDE DEF heard
      <4> QED BY <3>2, PageEffects, RawEffects
    <3>4. raw' = [loaded EXCEPT ![cur] = told]
      BY <2>4 DEF EnterRunning, EnterRegions
    <3>5. raw'[cur] = told
      BY <2>1, <2>2, <2>4, <3>4
    <3>6. mode' = "running" /\ UNCHANGED <<swap, content, cur, next>>
      BY <2>4 DEF EnterRunning, EnterRegions
    <3>7. next = NoView
      BY <1>c, <2>4 DEF Running
    <3>8. raw[cur].place = "wall" => raw'[cur].place = "wall"
      BY <3>1, <3>3, <3>5
    <3> HIDE DEF told
    <3>9. Leads(raw[cur])'
      BY <2>3, <2>4, <3>3, <3>5, <3>6 DEF Picture, Leads
    <3> QED BY <1>0, <3>6, <3>7, <3>8, <3>9, StayingTile DEF Picture
  <2>5. CASE v = next /\ swap = "waitForVideo" /\ PromoteNext(loaded)
    BY <1>0, <1>g, <2>1, <2>2, <2>3, <2>5, PromotePicture DEF Preloading
  <2>6. CASE /\ raw' = loaded
             /\ UNCHANGED <<mode, swap, audio, video, target, desired, retryCount,
                            parked, cur, next>>
    BY <1>29, <2>2, <2>3, <2>6 DEF Running
  <2> QED BY <1>32, <2>4, <2>5, <2>6 DEF ViewLoaded, loaded
<1> QED BY <1>1, <1>2, <1>3, <1>4, <1>5, <1>6, <1>7, <1>8, <1>9, <1>12, <1>13, <1>14, <1>16,
           <1>17, <1>18, <1>22, <1>23, <1>24, <1>25, <1>26, <1>27, <1>28, <1>30, <1>31, <1>32
        DEF Next, Command, Display, Renderer

\* The tile of a cell goes from content to content without a gap and settles on the
\* newest one, however displays, loads, failures and swaps interleave.
THEOREM PictureKept == Spec => KeepsPicture
<1>1. Picture => (Running /\ ~Preloading => ShowsContent)
  BY DEF Picture, Leads, ShowsContent
<1>2. Picture /\ [Next]_vars =>
        [ cur # NoView /\ cur' \notin {cur, NoView} =>
            /\ raw'[cur'].page.phase = "loaded"
            /\ raw'[cur'].page.doc = content' ]_vars
  BY PictureStep DEF ReadySwap
<1>3. Picture /\ [Next]_vars =>
        [ \A v \in RawView :
            raw[v].place = "wall" /\ raw'[v].place # "wall" =>
              parked' \/ mode' = "gone" \/ (cur' # v /\ raw'[cur'].place = "wall") ]_vars
  BY PictureStep DEF NoGap
<1> QED BY <1>1, <1>2, <1>3, InitPicture, PictureStep, PTL
        DEF Spec, KeepsPicture, SwapOnlyWhenReady, NoBlankTile

-----------------------------------------------------------------------------
(* The cell: batches of events to one actor.                               *)

\* a is the operator's choice, or what an effective mute has left of background.
Agrees(a) == a = chosen \/ (chosen = "background" /\ a = "muted")

Between ==
  Idle =>
    /\ parked <=> parkedAudio # NotParked
    /\ Agrees(KeptAudio)
    /\ parked => desiredAudio = "muted"
    /\ desiredPaused <=> (parked /\ PauseParkedViews /\ Displaying)

\* The batch that shows a view, step by step.
Showing ==
  /\ turn \in {"unpark", "restore", "resume"} => Displaying /\ parkedAudio = NotParked
  /\ turn \in {"restore", "resume"} => ~parked
  /\ turn = "unpark" =>
       IF restoring = NotParked THEN ~parked /\ ~desiredPaused /\ Agrees(desiredAudio)
       ELSE /\ Agrees(restoring) /\ desiredAudio = "muted"
            /\ desiredPaused => PauseParkedViews
  /\ turn = "restore" =>
       /\ restoring # NotParked /\ Agrees(restoring) /\ desiredAudio = "muted"
       /\ desiredPaused => PauseParkedViews
  /\ turn = "resume" => Agrees(desiredAudio)

\* The batch that hides it.
Hiding ==
  /\ turn \in {"silence", "pause"} =>
       /\ parked /\ parkedAudio # NotParked /\ Agrees(parkedAudio)
       /\ desiredPaused => PauseParkedViews
  /\ turn = "pause" => PauseParkedViews /\ desiredAudio = "muted"

\* What an actor that displays nothing, or has not reached running, cannot have been told.
Unstarted ==
  /\ ~Displaying => desiredAudio = "muted" /\ ~desiredPaused
  /\ ~Running => audio = "muted"

CellInv == CellTypeOK /\ Requested /\ Picture /\ Between /\ Showing /\ Hiding /\ Unstarted

-----------------------------------------------------------------------------
(* The steps of the actor, as the batches need them.                       *)

\* A step of a batch is a step of the actor, or none.
LEMMA CellStepIsViewStep == CellInv /\ [CellNext]_cellVars => [Next]_vars
<1> SUFFICES ASSUME CellInv, [CellNext]_cellVars PROVE [Next]_vars
  OBVIOUS
<1>1. CASE UNCHANGED cellVars
  BY <1>1 DEF cellVars
<1>2. CASE CellCreate \/ CellDisplay \/ CellUnpark
  BY <1>2 DEF CellCreate, CellDisplay, CellUnpark, DisplaySame, Next, Command
<1>3. CASE CellRestore
  <2>1. restoring \in AudioState
    BY <1>3 DEF CellRestore, CellInv, CellTypeOK, Showing
  <2> QED BY <1>3, <2>1 DEF CellRestore, Next, Command
<1>4. CASE CellResume \/ CellPark \/ CellPause \/ CellStop
  BY <1>4 DEF CellResume, CellPark, CellPause, CellStop, Next, Command
<1>5. CASE CellSilence
  BY <1>5 DEF CellSilence, Next, Command, AudioState
<1>6. ASSUME NEW s \in BOOLEAN,
             SetListeningView(s) \/ SetListeningParked(s) \/ SetViewBackgroundListening(s)
      PROVE  [Next]_vars
  <2>1. \A a \in AudioState : AudioRequest(a) => Next
    BY DEF Next, Command
  <2>2. Mute => Next
    BY DEF Next, Command
  <2>3. {"muted", "listening", "background"} \subseteq AudioState
    BY DEF AudioState
  <2> QED BY <1>6, <2>1, <2>2, <2>3
          DEF SetListeningView, SetListeningParked, SetViewBackgroundListening
<1>7. CASE SendViewEvent
  BY <1>7 DEF SendViewEvent, Next, Command
<1>8. CASE Events
  BY <1>8 DEF Events, Next
<1> QED BY <1>1, <1>2, <1>3, <1>4, <1>5, <1>6, <1>7, <1>8 DEF CellNext

\* The state of the audio region is that of a running cell.
LEMMA AudioStep == (~Running => audio = "muted") /\ [Next]_vars => (~Running => audio = "muted")'
<1> SUFFICES ASSUME ~Running => audio = "muted", [Next]_vars, ~Running' PROVE audio' = "muted"
  OBVIOUS
<1> USE DEF regions, Running
<1>1. ASSUME NEW rs, LeaveRunning(rs) PROVE audio' = "muted"
  BY <1>1 DEF LeaveRunning, InitialRegions
<1>2. CASE UNCHANGED vars
  BY <1>2 DEF vars
<1>3. CASE Create \/ Stop \/ Park \/ Unpark \/ Pause \/ Resume \/ Reload
  BY <1>1, <1>3 DEF Create, Stop, InitialRegions, Park, Unpark, Pause, Resume, Reload, StartLoading
<1>4. CASE Display
  BY <1>4 DEF Display, DisplayFirst, DisplayMovedUnplaced, DisplayMoved, DisplayChanged
<1>5. ASSUME NEW a, AudioRequest(a) PROVE audio' = "muted"
  BY <1>5 DEF AudioRequest
<1>6. ASSUME NEW b, Blur(b) \/ SetVolume(b) PROVE audio' = "muted"
  BY <1>6 DEF Blur, SetVolume
<1>7. Fail \/ AbandonPreload \/ RetryLoading => audio' = "muted"
  BY <1>1 DEF Fail, AbandonPreload, RetryLoading, StartLoading
<1>8. CASE Timer
  BY <1>7, <1>8
  DEF Timer, LoadingTimeout, PreloadTimeout, HealthyTimer, StalledTimeout, RetryBackoff
<1>9. CASE UrlAccepted \/ UrlRefused \/ NextUrlAccepted \/ NextUrlRefused
  BY <1>7, <1>9 DEF UrlAccepted, UrlRefused, NextUrlAccepted, NextUrlRefused
<1>10. ASSUME NEW v \in Live,
              \/ Commit(v) \/ DidFailLoad(v) \/ ViewError(v)
              \/ ViewInit(v) \/ ViewLoaded(v) \/ ViewStalled(v)
       PROVE  audio' = "muted"
  <2>1. CASE Commit(v) \/ ViewInit(v) \/ ViewStalled(v)
    BY <2>1 DEF Commit, ViewInit, ViewStalled
  <2>2. CASE DidFailLoad(v) \/ ViewError(v)
    BY <1>1, <1>7, <2>2 DEF DidFailLoad, ViewError, ErrorFrom, StartLoading
  <2>3. CASE ViewLoaded(v)
    BY <2>3 DEF ViewLoaded, EnterRunning, EnterRegions, PromoteNext
  <2> QED BY <1>10, <2>1, <2>2, <2>3
<1> QED BY <1>2, <1>3, <1>4, <1>5, <1>6, <1>8, <1>9, <1>10
        DEF Next, Command, Renderer, Mute

\* Timers and renderers change no request, and neither start nor end a display.
LEMMA EventsKeep ==
  ASSUME Picture, Timer \/ Renderer
  PROVE  /\ UNCHANGED <<desired, parked, content>>
         /\ Displaying' <=> Displaying
         /\ mode' = "gone" <=> mode = "gone"
<1> USE DEF target, desired, Displaying, Loading, LoadPhase, Running, Preloading
<1>0. swap # "idle" => Running
  BY DEF Picture, Placement
<1>1. Fail => UNCHANGED <<desired, parked, content>> /\ mode' = "error"
  BY DEF Fail
<1>2. AbandonPreload \/ RetryLoading =>
        UNCHANGED <<desired, parked, content>> /\ mode' = "navigate"
  BY DEF AbandonPreload, RetryLoading, StartLoading
<1>3. CASE Timer
  BY <1>1, <1>2, <1>3
  DEF Timer, LoadingTimeout, PreloadTimeout, HealthyTimer, StalledTimeout, RetryBackoff
<1>4. CASE UrlAccepted \/ UrlRefused \/ NextUrlAccepted \/ NextUrlRefused
  BY <1>0, <1>1, <1>2, <1>4 DEF UrlAccepted, UrlRefused, NextUrlAccepted, NextUrlRefused
<1>5. ASSUME NEW v \in Live,
             \/ Commit(v) \/ DidFailLoad(v) \/ ViewError(v)
             \/ ViewInit(v) \/ ViewLoaded(v) \/ ViewStalled(v)
      PROVE  /\ UNCHANGED <<desired, parked, content>>
             /\ Displaying' <=> Displaying
             /\ mode' = "gone" <=> mode = "gone"
  <2>1. v = next => Running
    BY DEF Live, Picture, Placement, NoViewLeaks
  <2>2. CASE Commit(v) \/ ViewInit(v) \/ ViewStalled(v)
    BY <2>2 DEF Commit, ViewInit, ViewStalled
  <2>3. CASE DidFailLoad(v)
    <3>1. /\ UNCHANGED <<desired, parked, content>> /\ mode' \in {"navigate", "error"}
          /\ raw[v].nav # NoContent
      BY <2>3 DEF DidFailLoad, StartLoading
    <3>2. mode \notin {"empty", "gone"}
      BY <2>1, <2>3, <3>1 DEF DidFailLoad, Live, Picture, Placement, NoViewLeaks
    <3>3. Displaying
      BY <3>2 DEF Picture, Placement, TypeOK
    <3> QED BY <3>1, <3>2, <3>3
  <2>4. CASE ViewError(v)
    BY <1>1, <1>2, <2>1, <2>4 DEF ViewError, ErrorFrom
  <2>5. CASE ViewLoaded(v)
    BY <2>5 DEF ViewLoaded, EnterRunning, EnterRegions, PromoteNext
  <2> QED BY <1>5, <2>2, <2>3, <2>4, <2>5
<1> QED BY <1>3, <1>4, <1>5 DEF Renderer

-----------------------------------------------------------------------------
(* The invariant.                                                          *)

\* Before the first view there is nothing to park or to restore.
LEMMA InitCellInv == CellInit => CellInv
<1> SUFFICES ASSUME CellInit PROVE CellInv
  OBVIOUS
<1>1. TypeOK /\ Requested /\ Picture
  BY InitTypeOK, InitRequested, InitPicture DEF CellInit
<1>2. CellTypeOK
  BY <1>1 DEF CellInit, CellTypeOK, NotParked, AudioState, Init
<1>3. ~Displaying /\ ~Running
  BY DEF CellInit, Init, Displaying, Loading, LoadPhase, Running
<1> QED BY <1>1, <1>2, <1>3
        DEF CellInv, CellInit, Init, Between, Showing, Hiding, Unstarted, Agrees, KeptAudio, Idle

\* Each step of a batch hands the next one what it relies on.
LEMMA CellInvStep == CellInv /\ [CellNext]_cellVars => CellInv'
<1> SUFFICES ASSUME CellInv, [CellNext]_cellVars PROVE CellInv'
  OBVIOUS
<1>0. /\ Requested' /\ Picture' /\ TypeOK' /\ TypeOK
      /\ ~Running' => audio' = "muted"
  <2>1. [Next]_vars
    BY CellStepIsViewStep
  <2>2. Requested' /\ Picture'
    BY <2>1, RequestedStep, PictureStep DEF CellInv
  <2>3. ~Running' => audio' = "muted"
    BY <2>1, AudioStep DEF CellInv, Unstarted
  <2> QED BY <2>2, <2>3 DEF CellInv, Picture, Placement
<1> DEFINE Rest == CellTypeOK' /\ Between' /\ Showing' /\ Hiding'
                   /\ (~Displaying' => desiredAudio' = "muted" /\ ~desiredPaused')
<1> SUFFICES Rest
  BY <1>0 DEF CellInv, Unstarted
<1> USE DEF CellInv, CellTypeOK, Between, Showing, Hiding, Unstarted, Agrees, KeptAudio, Idle,
            NotParked, target, desired
<1>a. /\ desiredAudio \in {"muted", "listening", "background"}
      /\ AudioState = {"muted", "listening", "background"}
  BY DEF TypeOK, AudioState
<1>m. /\ Displaying => mode # "gone"
      /\ \A m \in {"gone", "empty"} : mode = m => ~Displaying
  BY DEF Displaying, Loading, LoadPhase, Running
<1>1. CASE UNCHANGED cellVars
  BY <1>0, <1>1 DEF cellVars, vars, Displaying, Loading, Running
<1>2. CASE CellCreate
  <2>1. /\ turn = "idle" /\ mode = "gone" /\ mode' = "empty" /\ chosen' = "muted"
        /\ UNCHANGED <<desired, parked, turn, parkedAudio, restoring>>
    BY <1>2 DEF CellCreate, Create
  <2>2. ~Displaying' /\ ~Displaying
    BY <2>1 DEF Displaying, Loading, LoadPhase, Running
  <2> QED BY <1>0, <1>a, <2>1, <2>2
<1>3. CASE CellStop
  <2>1. /\ turn = "idle" /\ mode' = "gone" /\ chosen' = "muted" /\ parkedAudio' = NotParked
        /\ desiredAudio' = "muted" /\ ~desiredPaused' /\ ~parked'
        /\ UNCHANGED <<turn, restoring>>
    BY <1>3 DEF CellStop, Stop
  <2>2. ~Displaying'
    BY <2>1 DEF Displaying, Loading, LoadPhase, Running
  <2> QED BY <1>0, <1>a, <2>1, <2>2
<1>4. CASE CellDisplay
  <2>1. /\ turn = "idle" /\ turn' = "unpark" /\ restoring' = parkedAudio
        /\ parkedAudio' = NotParked /\ chosen' = chosen
        /\ mode = "empty" => parkedAudio = NotParked
    BY <1>4 DEF CellDisplay
  <2>2. /\ UNCHANGED desired /\ Displaying' /\ (parked' => parked)
        /\ Displaying \/ mode = "empty"
    <3>1. CASE DisplaySame
      BY <3>1 DEF DisplaySame, vars, Displaying, Loading, Running
    <3>2. CASE Display
      BY <3>2 DEF Display, DisplayFirst, DisplayMovedUnplaced, DisplayMoved, DisplayChanged,
                  Displaying, Loading, LoadPhase, Running, Preloading
    <3> QED BY <1>4, <3>1, <3>2 DEF CellDisplay
  <2>3. parkedAudio = NotParked => ~parked /\ ~desiredPaused /\ Agrees(desiredAudio)
    BY <2>1
  <2>4. parkedAudio # NotParked =>
          desiredAudio = "muted" /\ Agrees(parkedAudio) /\ (desiredPaused => PauseParkedViews)
    BY <2>1
  <2> QED BY <1>0, <1>a, <2>1, <2>2, <2>3, <2>4
<1>5. CASE CellUnpark
  <2>1. /\ turn = "unpark" /\ turn' = (IF restoring = NotParked THEN "idle" ELSE "restore")
        /\ UNCHANGED <<parkedAudio, restoring, chosen>>
    BY <1>5 DEF CellUnpark
  <2>2. ~parked' /\ UNCHANGED <<desired, mode>>
    BY <1>5 DEF CellUnpark, Unpark, vars
  <2>3. Displaying' <=> Displaying
    BY <2>2 DEF Displaying, Loading, Running
  <2> QED BY <1>0, <1>a, <2>1, <2>2, <2>3
<1>6. CASE CellRestore
  <2>1. /\ turn = "restore" /\ turn' = (IF PauseParkedViews THEN "resume" ELSE "idle")
        /\ restoring' = NotParked /\ UNCHANGED <<parkedAudio, chosen>>
    BY <1>6 DEF CellRestore
  <2>2. desiredAudio' = restoring /\ UNCHANGED <<desiredPaused, parked, mode>>
    BY <1>6, <2>1 DEF CellRestore, AudioRequest, vars
  <2>3. Displaying' <=> Displaying
    BY <2>2 DEF Displaying, Loading, Running
  <2> QED BY <1>0, <1>a, <2>1, <2>2, <2>3
<1>7. CASE CellResume
  <2>1. /\ turn = "resume" /\ turn' = "idle" /\ UNCHANGED <<parkedAudio, restoring, chosen>>
        /\ ~desiredPaused' /\ UNCHANGED <<desiredAudio, parked, mode>>
    BY <1>7 DEF CellResume, Resume
  <2>2. Displaying' <=> Displaying
    BY <2>1 DEF Displaying, Loading, Running
  <2> QED BY <1>0, <1>a, <2>1, <2>2
<1>8. CASE CellPark
  <2>1. /\ turn = "idle" /\ turn' = "silence" /\ UNCHANGED <<restoring, chosen>>
        /\ parkedAudio' = (IF parkedAudio = NotParked THEN desiredAudio ELSE parkedAudio)
        /\ mode # "gone" /\ parked' /\ UNCHANGED <<desired, mode>>
    BY <1>8 DEF CellPark, Park
  <2>2. Displaying' <=> Displaying
    BY <2>1 DEF Displaying, Loading, Running
  <2>3. desiredPaused => PauseParkedViews
    BY <2>1
  <2>4. parkedAudio' \in AudioState /\ parkedAudio' = KeptAudio
    BY <1>a, <2>1
  <2> QED BY <1>0, <1>a, <2>1, <2>2, <2>3, <2>4
<1>9. CASE CellSilence
  <2>1. /\ turn = "silence" /\ turn' = (IF PauseParkedViews THEN "pause" ELSE "idle")
        /\ UNCHANGED <<parkedAudio, restoring, chosen>>
    BY <1>9 DEF CellSilence
  <2>2. desiredAudio' = "muted" /\ UNCHANGED <<desiredPaused, parked, mode>>
    BY <1>9 DEF CellSilence, Mute, AudioRequest, vars
  <2>3. Displaying' <=> Displaying
    BY <2>2 DEF Displaying, Loading, Running
  <2> QED BY <1>0, <1>a, <2>1, <2>2, <2>3
<1>10. CASE CellPause
  <2>1. /\ turn = "pause" /\ turn' = "idle" /\ UNCHANGED <<parkedAudio, restoring, chosen>>
    BY <1>10 DEF CellPause
  <2>2. UNCHANGED <<desiredAudio, parked, mode>>
    BY <1>10 DEF CellPause, Pause, vars
  <2>3. Displaying' <=> Displaying
    BY <2>2 DEF Displaying, Loading, Running
  <2>4. CASE Displaying
    <3>1. desiredPaused' = TRUE
      BY <1>10, <2>4 DEF CellPause, Pause
    <3> QED BY <1>0, <1>a, <2>1, <2>2, <2>3, <2>4, <3>1
  <2>5. CASE ~Displaying
    <3>1. desiredPaused' = desiredPaused
      BY <1>10, <2>5 DEF CellPause, Pause, vars
    <3> QED BY <1>0, <1>a, <2>1, <2>2, <2>3, <2>5, <3>1
  <2> QED BY <2>4, <2>5
<1>11. ASSUME NEW s \in BOOLEAN, SetListeningView(s) PROVE Rest
  <2>1. /\ turn = "idle" /\ Displaying /\ parkedAudio = NotParked /\ Selected(s)
        /\ UNCHANGED <<turn, parkedAudio, restoring>>
    BY <1>11 DEF SetListeningView, OnLayout
  <2>2. UNCHANGED <<desiredPaused, parked, mode>>
    BY <1>11 DEF SetListeningView, Mute, AudioRequest, vars
  <2>3. /\ s => desiredAudio' = "listening"
        /\ ~s => desiredAudio' = "muted" \/ (desiredAudio' = desiredAudio /\ audio = "background")
    BY <1>11 DEF SetListeningView, Mute, AudioRequest, vars
  <2>4. audio = "background" => desiredAudio = "background"
    BY DEF Requested, Enforced, RequestsInForce
  <2>5. desiredAudio = "background" => chosen = "background"
    BY <2>1
  <2>6. Displaying'
    BY <2>1, <2>2 DEF Displaying, Loading, Running
  <2>7. /\ chosen' = (IF s THEN "listening"
                      ELSE IF chosen = "background" THEN "background" ELSE "muted")
        /\ chosen' \in AudioState
    BY <1>a, <2>1 DEF Selected
  <2>8. Agrees(desiredAudio)'
    BY <2>3, <2>4, <2>5, <2>7
  <2> QED BY <1>0, <2>1, <2>2, <2>6, <2>7, <2>8
<1>12. ASSUME NEW s \in BOOLEAN, SetListeningParked(s) PROVE Rest
  <2>1. /\ turn = "idle" /\ parkedAudio # NotParked /\ Selected(s)
        /\ parkedAudio' = (IF s THEN "listening" ELSE "muted")
        /\ UNCHANGED <<vars, turn, restoring>>
    BY <1>12 DEF SetListeningParked
  <2>2. UNCHANGED <<desired, parked, mode>> /\ (Displaying' <=> Displaying)
    BY <2>1 DEF vars, Displaying, Loading, Running
  <2>3. /\ chosen' = (IF s THEN "listening"
                      ELSE IF chosen = "background" THEN "background" ELSE "muted")
        /\ chosen' \in AudioState /\ parkedAudio' \in AudioState
    BY <1>a, <2>1 DEF Selected
  <2> QED BY <1>0, <1>a, <2>1, <2>2, <2>3
<1>13. ASSUME NEW l \in BOOLEAN, SetViewBackgroundListening(l) PROVE Rest
  <2>1. /\ turn = "idle" /\ Displaying /\ parkedAudio = NotParked
        /\ chosen' = (IF l THEN "background" ELSE "muted")
        /\ UNCHANGED <<turn, parkedAudio, restoring>>
        /\ AudioRequest(IF l THEN "background" ELSE "muted")
    BY <1>13 DEF SetViewBackgroundListening, OnLayout
  <2>2. desiredAudio' = chosen' /\ UNCHANGED <<desiredPaused, parked, mode>>
    BY <2>1 DEF AudioRequest
  <2>3. Displaying'
    BY <2>1, <2>2 DEF Displaying, Loading, Running
  <2> QED BY <1>0, <1>a, <2>1, <2>2, <2>3
<1>14. CASE SendViewEvent
  <2>1. /\ turn = "idle" /\ Displaying /\ UNCHANGED <<turn, parkedAudio, restoring, chosen>>
    BY <1>14 DEF SendViewEvent, OnLayout
  <2>2. UNCHANGED <<desiredAudio, desiredPaused, parked>> /\ (mode' = mode \/ mode' = "navigate")
    BY <1>14 DEF SendViewEvent, Reload, StartLoading, Blur, SetVolume
  <2>3. Displaying'
    BY <2>1, <2>2 DEF Displaying, Loading, LoadPhase, Running
  <2>4. mode' # "gone"
    BY <2>3 DEF Displaying, Loading, LoadPhase, Running
  <2> QED BY <1>0, <1>a, <2>1, <2>2, <2>3, <2>4
<1>15. CASE Events
  <2>1. /\ turn = "idle" /\ UNCHANGED <<turn, parkedAudio, restoring, chosen>>
    BY <1>15 DEF Events
  <2>2. /\ UNCHANGED <<desired, parked>> /\ (Displaying' <=> Displaying)
        /\ mode' = "gone" <=> mode = "gone"
    BY <1>15, EventsKeep DEF Events
  <2> QED BY <1>0, <1>a, <2>1, <2>2
<1> QED BY <1>1, <1>2, <1>3, <1>4, <1>5, <1>6, <1>7, <1>8, <1>9, <1>10, <1>11, <1>12, <1>13,
           <1>14, <1>15
        DEF CellNext

\* What a cell was asked for, what it shows and what is on its way to it agree:
\* the invariant behind the theorems below.
THEOREM CellInvariant == CellSpec => []CellInv
BY InitCellInv, CellInvStep, PTL DEF CellSpec

-----------------------------------------------------------------------------
(* What follows.                                                           *)

\* No entry of parkedAudio is kept for a view that is gone, and none is restored
\* outside the batch that took it out (StreamWindow.ts, parkedAudio).
THEOREM CellTypeCorrect == CellSpec => []CellTypeOK
BY CellInvariant, PTL DEF CellInv

\* However parks, repeated parks, selections and returns to the layout follow each
\* other, the audio the operator chose survives, a parked cell is silent and asked to
\* pause, and what parking asked is taken back on the layout (#740, #816).
THEOREM ParkingIsUndone == CellSpec => []ParkingKeepsAudio
<1>1. CellInv => ParkingKeepsAudio
  <2> SUFFICES ASSUME CellInv PROVE ParkingKeepsAudio
    OBVIOUS
  <2>1. Idle /\ parked /\ Running => raw[cur].muted
    BY DEF CellInv, Between, Requested, Enforced, RequestsInForce
  <2> QED BY <2>1
          DEF CellInv, Between, Agrees, ParkingKeepsAudio, ParkedAgrees, AudioSurvivesParking,
              ParkedIsQuiet
<1> QED BY <1>1, CellInvariant, PTL

\* The batches of StreamWindow drive the actor only as View lets events come: a cell
\* implements View, and inherits what is proved of it.
THEOREM CellImplementsView == CellSpec => Spec
<1>1. CellInit => Init
  BY DEF CellInit
<1> QED BY <1>1, CellInvariant, CellStepIsViewStep, PTL DEF CellSpec, Spec

\* In particular no raw view leaks, a cell is where the layout has it, it does what was
\* asked of it as AsRequested says, and its tile goes from content to content without a
\* gap.
THEOREM CellKeepsPromises ==
  CellSpec => []NoViewLeaks /\ []PlacedByParking /\ AsRequested /\ KeepsPicture
BY CellImplementsView, NoLeaks, StaysPlaced, DoesAsRequested, PictureKept, PTL
=============================================================================
