----------------------------- MODULE MCViewLive -----------------------------
(***************************************************************************)
(* Liveness of one cell.  The timers are fair: Node fires a timer that is  *)
(* not cancelled.  Nothing is assumed of the operator, the network and the *)
(* page, except that commands stop: each RELOAD or change of content       *)
(* restarts a timer, so an endless series of them defers it for ever.      *)
(***************************************************************************)
EXTENDS View

CONSTANT MaxCommands    \* bound on the commands of a behaviour
VARIABLE issued         \* how many there have been

LiveInit == Init /\ issued = 0

LiveNext ==
  \/ issued < MaxCommands /\ Command /\ issued' = issued + 1
  \/ (Timer \/ Renderer) /\ UNCHANGED issued

liveVars == <<vars, issued>>

\* HealthyTimer is left out: a page may stall for ever before it expires.
Fairness ==
  /\ WF_liveVars(LoadingTimeout /\ UNCHANGED issued)
  /\ WF_liveVars(PreloadTimeout /\ UNCHANGED issued)
  /\ WF_liveVars(StalledTimeout /\ UNCHANGED issued)
  /\ WF_liveVars(RetryBackoff /\ UNCHANGED issued)

LiveSpec == LiveInit /\ [][LiveNext]_liveVars /\ Fairness

\* No cell shows its loading spinner for ever, even if the page never answers
\* (viewStateMachine.ts:685).
LoadingEnds == Loading ~> ~Loading

\* No preload is in flight for ever (viewStateMachine.ts:984).
PreloadEnds == next # NoView ~> next = NoView

\* No view stays stalled for ever (viewStateMachine.ts:836).
StallEnds == playback = "stalled" ~> playback = "playing"

\* A cell reloads itself for ever only if it is healthy for a while again and
\* again: a stream that stalls or fails after each reload ends in the terminal
\* error (#645).
ReloadsExhausted ==
  []<><<StalledTimeout \/ RetryBackoff>>_vars => []<><<HealthyTimer>>_vars

\* No cell is stuck on the way to its picture, or goes on for ever beginning anew.
NothingHangs == LoadingEnds /\ PreloadEnds /\ StallEnds /\ ReloadsExhausted
=============================================================================
