-------------------------------- MODULE Cell --------------------------------
(***************************************************************************)
(* A cell as main/StreamWindow.ts drives it.  View takes the events of its *)
(* actor one at a time, in any order; here they come in the batches that   *)
(* setViews sends without yielding: DISPLAY, UNPARK and the audio and      *)
(* playback to restore when the layout has a box for the view, PARK, the   *)
(* mute and PAUSE when a fullscreen expansion hides it.  turn is what of   *)
(* the batch is still to be sent.  The operator's other commands reach     *)
(* only a view on the layout; a selection of the tile to listen to is      *)
(* recorded for a parked one in parkedAudio.                               *)
(***************************************************************************)
EXTENDS View

CONSTANT PauseParkedViews       \* the configuration flag of that name

ASSUME PauseParkedViewsAssumption == PauseParkedViews \in BOOLEAN

VARIABLES
  turn,             \* idle, or the next step of the batch under way
  parkedAudio,      \* parkedAudio.get(id), NotParked when this view is not in parkedViews
  restoring,        \* previouslyParkedAudio.get(id) of the setViews under way
  chosen            \* history: the audio mode the operator's commands add up to

NotParked == "none"
cellVars == <<vars, turn, parkedAudio, restoring, chosen>>

CellInit ==
  /\ Init
  /\ turn = "idle" /\ parkedAudio = NotParked /\ restoring = NotParked
  /\ chosen = "muted"

Idle == turn = "idle"
OnLayout == Displaying /\ parkedAudio = NotParked

-----------------------------------------------------------------------------
(* displayPlannedViews.                                                    *)

\* The DISPLAY that finds content and rectangle as they were changes nothing.
DisplaySame == Displaying /\ UNCHANGED vars

CellCreate ==
  /\ Idle
  /\ Create
  /\ chosen' = "muted"
  /\ UNCHANGED <<turn, parkedAudio, restoring>>

CellDisplay ==
  /\ Idle
  /\ mode = "empty" => parkedAudio = NotParked
  /\ Display \/ DisplaySame
  /\ turn' = "unpark"
  /\ restoring' = parkedAudio
  /\ parkedAudio' = NotParked
  /\ UNCHANGED chosen

\* UNPARK is ignored unless the view is parked.
CellUnpark ==
  /\ turn = "unpark"
  /\ Unpark \/ (~parked /\ UNCHANGED vars)
  /\ turn' = IF restoring = NotParked THEN "idle" ELSE "restore"
  /\ UNCHANGED <<parkedAudio, restoring, chosen>>

CellRestore ==
  /\ turn = "restore"
  /\ IF restoring = "muted" THEN UNCHANGED vars ELSE AudioRequest(restoring)
  /\ turn' = IF PauseParkedViews THEN "resume" ELSE "idle"
  /\ restoring' = NotParked
  /\ UNCHANGED <<parkedAudio, chosen>>

CellResume ==
  /\ turn = "resume"
  /\ Resume
  /\ turn' = "idle"
  /\ UNCHANGED <<parkedAudio, restoring, chosen>>

-----------------------------------------------------------------------------
(* retireUnusedViews: hideView, or stop and dispose.                       *)

\* Mutant: a repeated park saves the mute the first one imposed (#740).
BugParkAgain ==
  /\ Idle
  /\ Park
  /\ parkedAudio' = desiredAudio
  /\ turn' = "silence"
  /\ UNCHANGED <<restoring, chosen>>

\* The audio to restore is that of the first park: a repeated one finds it muted.
\* A view created for a box whose stream is unknown is parked while still empty,
\* where its machine ignores the rest of the batch; no later box matches it.
CellPark ==
  /\ Idle
  /\ Park
  /\ parkedAudio' = IF parkedAudio = NotParked THEN desiredAudio ELSE parkedAudio
  /\ turn' = "silence"
  /\ UNCHANGED <<restoring, chosen>>

CellSilence ==
  /\ turn = "silence"
  /\ \/ parkedAudio = "background" /\ AudioRequest("muted")
     \/ parkedAudio # "background" /\ Mute
     \/ ~Displaying /\ UNCHANGED vars
  /\ turn' = IF PauseParkedViews THEN "pause" ELSE "idle"
  /\ UNCHANGED <<parkedAudio, restoring, chosen>>

CellPause ==
  /\ turn = "pause"
  /\ Pause \/ (~Displaying /\ UNCHANGED vars)
  /\ turn' = "idle"
  /\ UNCHANGED <<parkedAudio, restoring, chosen>>

\* Mutant: the entry of parkedAudio outlives the view.
BugStop ==
  /\ Idle
  /\ Stop
  /\ chosen' = "muted"
  /\ UNCHANGED <<turn, parkedAudio, restoring>>

CellStop ==
  /\ Idle
  /\ Stop
  /\ parkedAudio' = NotParked
  /\ chosen' = "muted"
  /\ UNCHANGED <<turn, restoring>>

-----------------------------------------------------------------------------
(* The operator's commands.                                                *)

Selected(isSelected) ==
  chosen' = IF isSelected THEN "listening"
            ELSE IF chosen = "background" THEN "background" ELSE "muted"

\* setListeningView, as it concerns this view.
SetListeningView(isSelected) ==
  /\ Idle
  /\ OnLayout
  /\ IF isSelected THEN AudioRequest("listening")
     ELSE Mute \/ (audio = "background" /\ UNCHANGED vars)
  /\ Selected(isSelected)
  /\ UNCHANGED <<turn, parkedAudio, restoring>>

SetListeningParked(isSelected) ==
  /\ Idle
  /\ parkedAudio \notin {NotParked, "background"}
  /\ parkedAudio' = IF isSelected THEN "listening" ELSE "muted"
  /\ Selected(isSelected)
  /\ UNCHANGED <<vars, turn, restoring>>

SetViewBackgroundListening(listening) ==
  /\ Idle
  /\ OnLayout
  /\ AudioRequest(IF listening THEN "background" ELSE "muted")
  /\ chosen' = IF listening THEN "background" ELSE "muted"
  /\ UNCHANGED <<turn, parkedAudio, restoring>>

SendViewEvent ==
  /\ Idle
  /\ OnLayout
  /\ \/ Reload
     \/ \E b \in BOOLEAN : Blur(b)
     \/ \E x \in Volume : SetVolume(x)
  /\ UNCHANGED <<turn, parkedAudio, restoring, chosen>>

Events == Idle /\ (Timer \/ Renderer) /\ UNCHANGED <<turn, parkedAudio, restoring, chosen>>

CellNext ==
  \/ CellCreate \/ CellDisplay \/ CellUnpark \/ CellRestore \/ CellResume
  \/ CellPark \/ CellSilence \/ CellPause \/ CellStop
  \/ \E s \in BOOLEAN :
       SetListeningView(s) \/ SetListeningParked(s) \/ SetViewBackgroundListening(s)
  \/ SendViewEvent
  \/ Events

CellSpec == CellInit /\ [][CellNext]_cellVars

-----------------------------------------------------------------------------
(* Properties.                                                             *)

\* Types of what Cell adds to View; no entry of parkedAudio is for a view that
\* is gone, and none is restored without a batch.
CellTypeOK ==
  /\ TypeOK
  /\ turn \in {"idle", "unpark", "restore", "resume", "silence", "pause"}
  /\ parkedAudio \in AudioState \union {NotParked}
  /\ restoring \in AudioState \union {NotParked}
  /\ chosen \in AudioState
  /\ parkedAudio # NotParked => mode # "gone"
  /\ restoring # NotParked => turn \in {"unpark", "restore"}

KeptAudio == IF parkedAudio = NotParked THEN desiredAudio ELSE parkedAudio

\* Between two calls the actor's own parked flag and StreamWindow's
\* parkedViews agree, whatever DISPLAY did to the flag on the way (#816).
ParkedAgrees == Idle => (parked <=> parkedAudio # NotParked)

\* Parking, repeated parking, a selection made while parked and the return to
\* the layout together lose no choice between muted and listening; background
\* may only decay to muted (#740).
AudioSurvivesParking ==
  Idle /\ Displaying =>
    KeptAudio = chosen \/ (chosen = "background" /\ KeptAudio = "muted")

\* Once hideView has returned nothing a running parked cell holds is audible, and
\* between two calls a pause is requested of a cell exactly while it is parked (#374,
\* #740).  What the document on show makes of that request is AsRequested's concern.
ParkedIsQuiet ==
  Idle =>
    /\ parked /\ Running => raw[cur].muted
    /\ desiredPaused <=> (parked /\ PauseParkedViews /\ Displaying)

\* cliArgs.ts:294-296: playback of hidden views is paused while a stream is expanded; a
\* running cell on the layout has no document that was told to pause and not to go on.
ResumedPlays == Idle /\ OnLayout /\ Running => raw[cur].page.paused # "yes"

\* What parking asks of the actor is taken back with it.
ParkingKeepsAudio == ParkedAgrees /\ AudioSurvivesParking /\ ParkedIsQuiet
=============================================================================
