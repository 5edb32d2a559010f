-------------------------------- MODULE Page --------------------------------
(***************************************************************************)
(* The preload script in a document of a view (preload/mediaPreload.ts):   *)
(* the search for the media element, in the document and the frames of it  *)
(* that are of its origin, its acquisition, its loss and re-acquisition,   *)
(* and what the operator wants of it.  View.tla says when the main process *)
(* sends what; here a message may be any time on its way.                  *)
(***************************************************************************)
EXTENDS Naturals, Sequences

CONSTANTS
  Media, NoMedia,         \* media elements of the kind that is searched for
  Frame,                  \* frames of the document
  Volume, Rotation,
  Unset,                  \* undefined
  MaxMoves, MaxMessages   \* bounds: what the page does, what the operator changes

ASSUME PageAssumption == NoMedia \notin Media /\ Unset \notin BOOLEAN /\ Unset \notin Volume /\ Unset \notin Rotation
ASSUME DefaultAssumption == 0 \in Rotation /\ 1 \in Volume

VARIABLES
  hasVideo,               \* content.kind is "video", not "audio"
  ready,                  \* DOMContentLoaded
  place,                  \* where an element is: "nowhere", "top" or a frame
  width,                  \* elements with a videoWidth: they have started
  element,                \* of each: is it paused, its volume and rotation
  origin, body, loading,  \* of a frame: "absent", "same" or "cross"; its document; its load is due
  search,                 \* "none", "waiting" for the document, or "observing"
  watched, observed,      \* frames whose load is listened to; the body of a frame observed, or 0
  scanDue,                \* a scan is due
  acquisition,            \* none, searching, starting, acquired, failed
  bounded,                \* it has a timeout
  candidate, current,     \* the element being started; currentMedia
  listening, snapshots,   \* elements whose emptied is handled; those whose interval runs
  desired,                \* desiredPaused, latestVolume, latestRotation, each perhaps Unset
  reply,                  \* the payload of view-init, once it is here
  begun,                  \* main has gone on from its await
  hasReportedMediaError,
  want, toDocument,           \* what the operator wants; messages on their way
  moves, messages         \* of the model

domVars == <<place, width, origin, body, loading>>
searchVars == <<search, watched, observed, scanDue>>
acquireVars == <<acquisition, bounded, candidate, current, listening, snapshots>>
wishVars == <<desired, reply, begun, want, toDocument, messages>>
pageVars == <<hasVideo, ready, domVars, element, searchVars, acquireVars, hasReportedMediaError, wishVars, moves>>

Default == [paused |-> FALSE, volume |-> 1, rotation |-> 0]
Unheard == [paused |-> Unset, volume |-> Unset, rotation |-> Unset]
Nowhere == [f \in Frame |-> 0]

-----------------------------------------------------------------------------
(* The search.                                                             *)

\* Elements that scanForMedia can see; one in the document comes before any in a frame.
Reachable == {m \in Media : place[m] = "top" \/ \E f \in Frame : place[m] = f /\ origin[f] = "same"}

\* querySelector takes the first; the element acquired before was moved to the end.
VisibleMedia ==
  LET top == {m \in Media : place[m] = "top"}
  IN  IF top \ {current} # {} THEN top \ {current}
      ELSE IF top # {} THEN top ELSE Reachable

\* Of the documents, the frames and the scan that is due.
StopSearch == search' = "none" /\ watched' = {} /\ observed' = Nowhere /\ scanDue' = FALSE

\* acquireMedia, up to the search.
StartSearch ==
  /\ acquisition' = "searching"
  /\ search' = IF ready THEN "observing" ELSE "waiting"
  /\ scanDue' = ready
  /\ UNCHANGED <<watched, observed>>

DomReady ==
  /\ ~ready /\ ready' = TRUE
  /\ IF search = "waiting" THEN search' = "observing" /\ scanDue' = TRUE ELSE UNCHANGED <<search, scanDue>>
  /\ UNCHANGED <<hasVideo, domVars, element, watched, observed, acquireVars, hasReportedMediaError, wishVars, moves>>

\* Mutant: only the document itself is observed (#534).
BugAttach == Nowhere

\* observeFrameDocument, of every frame.
Attach == [f \in Frame |-> IF origin[f] = "same" THEN body[f] ELSE 0]

ScanInVain ==
  /\ search = "observing" /\ scanDue /\ VisibleMedia = {}
  /\ scanDue' = FALSE
  /\ watched' = {f \in Frame : origin[f] # "absent"}
  /\ observed' = Attach
  /\ UNCHANGED <<hasVideo, ready, domVars, element, search, acquireVars, hasReportedMediaError, wishVars, moves>>

-----------------------------------------------------------------------------
(* Acquisition.                                                            *)

\* VolumeController, RotationController, and the pause that survives.
Tuned(m) ==
  [paused |-> desired.paused, volume |-> desired.volume,
   rotation |-> IF hasVideo THEN desired.rotation ELSE element[m].rotation]

\* The element acquired before is removed when it is another.
Acquire(m) ==
  /\ acquisition' = "acquired" /\ candidate' = NoMedia /\ current' = m
  /\ element' = [element EXCEPT ![m] = Tuned(m)]
  /\ place' = IF current \in Media \ {m} THEN [place EXCEPT ![current] = "nowhere"] ELSE place
  /\ listening' = listening \union {m}
  /\ snapshots' = IF hasVideo THEN snapshots \union {m} ELSE snapshots
  /\ UNCHANGED bounded

\* findMedia has an element: it plays, and a video that has not started is waited for.
Found(m) ==
  /\ StopSearch
  /\ IF hasVideo /\ m \notin width
     THEN /\ acquisition' = "starting" /\ candidate' = m
          /\ element' = [element EXCEPT ![m].paused = FALSE]
          /\ UNCHANGED <<place, bounded, current, listening, snapshots>>
     ELSE Acquire(m)
  /\ UNCHANGED <<hasVideo, ready, width, origin, body, loading, hasReportedMediaError, wishVars, moves>>

ScanFinds(m) == search = "observing" /\ scanDue /\ m \in VisibleMedia /\ Found(m)

\* Only the first is sent.
SendError == hasReportedMediaError' = TRUE

Fail ==
  /\ acquisition' = "failed" /\ candidate' = NoMedia
  /\ SendError
  /\ UNCHANGED <<hasVideo, ready, domVars, element, bounded, current, listening, snapshots, wishVars, moves>>

\* The search is aborted, and takes a last look.
SearchTimesOut ==
  /\ acquisition = "searching" /\ bounded
  /\ IF search = "observing" /\ VisibleMedia # {} THEN \E m \in VisibleMedia : Found(m)
     ELSE StopSearch /\ Fail

StartTimesOut ==
  /\ acquisition = "starting" /\ bounded
  /\ IF candidate \in width
     THEN /\ Acquire(candidate)
          /\ UNCHANGED <<hasVideo, ready, width, origin, body, loading, searchVars, hasReportedMediaError, wishVars, moves>>
     ELSE Fail /\ UNCHANGED searchVars

\* An element that is not paused plays, with or without a picture.
Playing(m, picture) ==
  /\ place[m] # "nowhere" /\ ~element[m].paused /\ m \notin width
  /\ width' = IF picture THEN width \union {m} ELSE width
  /\ IF acquisition # "starting" \/ candidate # m
     THEN picture /\ UNCHANGED <<hasVideo, ready, place, origin, body, loading, element,
                                 searchVars, acquireVars, hasReportedMediaError, wishVars, moves>>
     ELSE IF picture
     THEN /\ Acquire(m)
          /\ UNCHANGED <<hasVideo, ready, origin, body, loading, searchVars, hasReportedMediaError, wishVars, moves>>
     ELSE /\ acquisition' = "failed" /\ candidate' = NoMedia /\ SendError
          /\ UNCHANGED <<hasVideo, ready, place, origin, body, loading, element, searchVars,
                         bounded, current, listening, snapshots, wishVars, moves>>

\* The element is emptied: view-stalled, and another search, for as long as it takes.
Emptied(m) ==
  /\ m \in listening /\ place[m] # "nowhere" /\ moves < MaxMoves /\ moves' = moves + 1
  /\ listening' = listening \ {m} /\ snapshots' = snapshots \ {m}
  /\ width' = width \ {m}
  /\ bounded' = FALSE
  /\ StartSearch
  /\ UNCHANGED <<hasVideo, ready, place, origin, body, loading, element, candidate, current, hasReportedMediaError, wishVars>>

\* The HLS player says that the stream can never play.
ReportError ==
  /\ begun /\ ~hasReportedMediaError
  /\ SendError
  /\ UNCHANGED <<hasVideo, ready, domVars, element, searchVars, acquireVars, wishVars, moves>>

-----------------------------------------------------------------------------
(* What the page does.                                                     *)

Moves == moves < MaxMoves /\ moves' = moves + 1
Mutated(seen) == scanDue' = (scanDue \/ (search = "observing" /\ seen))

\* In a frame a mutation is seen if its present body is observed.
Insert(m, where) ==
  /\ Moves /\ place[m] = "nowhere" /\ m # current
  /\ IF where = "top" THEN TRUE ELSE origin[where] # "absent"
  /\ place' = [place EXCEPT ![m] = where]
  /\ Mutated(IF where = "top" THEN TRUE ELSE observed[where] = body[where])
  /\ UNCHANGED <<hasVideo, ready, width, element, origin, body, loading, search, watched, observed,
                 acquireVars, hasReportedMediaError, wishVars>>

AddFrame(f, o) ==
  /\ Moves /\ origin[f] = "absent"
  /\ origin' = [origin EXCEPT ![f] = o] /\ body' = [body EXCEPT ![f] = @ + 1]
  /\ loading' = [loading EXCEPT ![f] = TRUE]
  /\ Mutated(TRUE)
  /\ UNCHANGED <<hasVideo, ready, place, width, element, search, watched, observed, acquireVars, hasReportedMediaError, wishVars>>

\* The frame has another document; no mutation tells.
Navigate(f, o) ==
  /\ Moves /\ origin[f] # "absent"
  /\ origin' = [origin EXCEPT ![f] = o] /\ body' = [body EXCEPT ![f] = @ + 1]
  /\ loading' = [loading EXCEPT ![f] = TRUE]
  /\ place' = [m \in Media |-> IF place[m] = f THEN "nowhere" ELSE place[m]]
  /\ UNCHANGED <<hasVideo, ready, width, element, searchVars, acquireVars, hasReportedMediaError, wishVars>>

FrameLoads(f) ==
  /\ loading[f] /\ loading' = [loading EXCEPT ![f] = FALSE]
  /\ scanDue' = (scanDue \/ f \in watched)
  /\ UNCHANGED <<hasVideo, ready, place, width, element, origin, body, search, watched, observed,
                 acquireVars, hasReportedMediaError, wishVars, moves>>

-----------------------------------------------------------------------------
(* The operator.                                                           *)

Message(type, value) == [type |-> type, value |-> value]

\* The operator wants something else, and the main process says so.
Wish(type, value) ==
  /\ messages < MaxMessages /\ messages' = messages + 1
  /\ want[type] # value /\ want' = [want EXCEPT ![type] = value]
  /\ toDocument' = Append(toDocument, Message(type, value))
  /\ UNCHANGED <<hasVideo, ready, domVars, element, searchVars, acquireVars, hasReportedMediaError, desired, reply, begun, moves>>

\* pause, resume, volume, options: recorded, and done to the element there is.
HearMessage ==
  /\ toDocument # <<>> /\ toDocument' = Tail(toDocument)
  /\ LET msg == Head(toDocument)
     IN  IF msg.type = "view-init" THEN reply' = msg.value /\ UNCHANGED <<desired, element>>
         ELSE /\ desired' = [desired EXCEPT ![msg.type] = msg.value]
              /\ element' = IF current = NoMedia \/ (msg.type = "rotation" /\ ~hasVideo) THEN element
                            ELSE [element EXCEPT ![current][msg.type] = msg.value]
              /\ UNCHANGED reply
  /\ UNCHANGED <<hasVideo, ready, domVars, searchVars, acquireVars, hasReportedMediaError, begun, want, messages, moves>>

\* Mutant: the reply is taken for the newest (#756).
BugFilled == reply

\* What no message has said by now is as the reply has it.
Filled == [k \in DOMAIN desired |-> IF desired[k] = Unset THEN reply[k] ELSE desired[k]]

\* view-init is answered and the scripts of the page are loaded: the first acquisition.
Begin ==
  /\ ~begun /\ reply # Unheard /\ begun' = TRUE
  /\ desired' = Filled
  /\ bounded' = TRUE
  /\ StartSearch
  /\ UNCHANGED <<hasVideo, ready, domVars, element, candidate, current, listening, snapshots, hasReportedMediaError,
                 reply, want, toDocument, messages, moves>>

-----------------------------------------------------------------------------
\* The document begins: what was wanted before is in the reply.
PageInit ==
  /\ hasVideo \in BOOLEAN /\ ready = FALSE
  /\ place = [m \in Media |-> "nowhere"] /\ width = {}
  /\ element = [m \in Media |-> Default]
  /\ origin = [f \in Frame |-> "absent"] /\ body = [f \in Frame |-> 0] /\ loading = [f \in Frame |-> FALSE]
  /\ search = "none" /\ watched = {} /\ observed = Nowhere /\ scanDue = FALSE
  /\ acquisition = "none" /\ bounded = TRUE /\ candidate = NoMedia /\ current = NoMedia
  /\ listening = {} /\ snapshots = {}
  /\ desired = Unheard /\ reply = Unheard /\ begun = FALSE
  /\ hasReportedMediaError = FALSE
  /\ want = Default /\ toDocument = <<Message("view-init", Default)>>
  /\ moves = 0 /\ messages = 0

PageNext ==
  \/ DomReady \/ ScanInVain \/ SearchTimesOut \/ StartTimesOut \/ ReportError \/ HearMessage \/ Begin
  \/ \E m \in Media :
       \/ ScanFinds(m) \/ Emptied(m)
       \/ \E picture \in BOOLEAN : Playing(m, picture)
       \/ \E where \in Frame \union {"top"} : Insert(m, where)
  \/ \E f \in Frame :
       \/ FrameLoads(f)
       \/ \E o \in {"same", "cross"} : AddFrame(f, o) \/ Navigate(f, o)
  \/ \E p \in BOOLEAN : Wish("paused", p)
  \/ \E x \in Volume : Wish("volume", x)
  \/ \E r \in Rotation : Wish("rotation", r)

\* A throttled scan runs; a document and a frame are loaded in the end.
PageFairness ==
  /\ WF_pageVars(ScanInVain \/ \E m \in Media : ScanFinds(m))
  /\ \A f \in Frame : WF_pageVars(FrameLoads(f))

PageSpec == PageInit /\ [][PageNext]_pageVars /\ PageFairness

-----------------------------------------------------------------------------
(* Types of the state; a timer, a listener or an observer is of what is current.           *)
PageTypeOK ==
  /\ acquisition \in {"none", "searching", "starting", "acquired", "failed"}
  /\ search \in {"none", "waiting", "observing"}
  /\ search # "none" <=> acquisition = "searching"
  /\ candidate # NoMedia <=> acquisition = "starting"
  /\ acquisition = "acquired" => current \in Media
  /\ listening \subseteq {current} /\ snapshots \subseteq listening
  /\ width \subseteq Media
  /\ begun => desired.paused # Unset /\ desired.volume # Unset /\ desired.rotation # Unset

\* A search that has ended leaves nothing behind that would go on watching the page for
\* the rest of its life: no observer of a frame, no listener, no scan (#412).
NoStrayObservers == search = "none" => watched = {} /\ observed = Nowhere /\ ~scanDue

\* The element a view plays is as the operator wants it once every message has arrived,
\* whether it was acquired before or after the messages, with the reply on its way, or
\* again after the page had emptied it (#620, #621, #658, #756).
AsWanted ==
  acquisition = "acquired" /\ toDocument = <<>> =>
    /\ element[current].paused = want.paused
    /\ element[current].volume = want.volume
    /\ hasVideo => element[current].rotation = want.rotation

\* An element that stays within reach is found, however late it or its frame came, and
\* through the navigations of the frame (#485, #534).
FindsMedia == search = "observing" /\ Reachable # {} ~> search # "observing" \/ Reachable = {}
=============================================================================
