------------------------------ MODULE Desktop ------------------------------
(***************************************************************************)
(* What the desktop keeps on disk, and how it quits: the throttled save of *)
(* the document and the saves of the lists (bootstrap.ts, storage.ts), the *)
(* closing and hiding of the two windows, the flush before the quit        *)
(* (wireWindowLifecycle), and crashes and starts.                          *)
(*                                                                         *)
(* A document is the number of its last change.  The favorites stand for   *)
(* every list that a command saves (layout presets and custom streams are  *)
(* saved in the same way).  The file is written atomically by lowdb's      *)
(* writer, which starts no write before the last has ended and then writes *)
(* only the newest of what was asked for.                                  *)
(***************************************************************************)
EXTENDS Naturals, FiniteSets

CONSTANTS
  FavUrl,           \* URLs of favorites
  MaxChanges,       \* bound: changes of the document, and of the favorites
  Idle,             \* where the writer has no data
  MaxStarts         \* bound: starts of the app

ASSUME ChangesAssumption == MaxChanges \in Nat /\ MaxStarts \in Nat
ASSUME IdleAssumption == Idle \notin [doc : 0 .. MaxChanges, favorites : SUBSET FavUrl]

VARIABLES
  darwin,           \* the platform is macOS
  phase,            \* "up", or how the app has ended: "exited", "failed", "crashed"
  backed,           \* the storage could be read: changes are persisted
  doc,              \* stateDoc
  favorites,        \* of clientState
  mem,              \* db.data
  timer, due,       \* of the throttle: it runs, and a call waits for its end
  writing, queued,  \* lowdb's writer: data being written, data to write next
  disk,             \* streamwall-storage.json
  isQuitting, storageFlushed,
  flush,            \* which writes a flushStorage waits for
  window,           \* each window: "open", "hidden" or "closed"
  leaving,          \* Electron goes on with a quit that nothing prevented
  starts, toggles,  \* of the model: starts so far, changes of the favorites
  quitAsked,        \* of the model: something other than a window asked the app to quit
  owed, lost        \* of the model: the document when the quit began; the last write failed

storage == <<mem, timer, due, writing, queued, disk, lost>>
quitting == <<isQuitting, storageFlushed, flush, leaving, owed, quitAsked>>
desktopVars == <<phase, backed, doc, favorites, storage, quitting, window, starts, toggles, darwin>>

Window == {"stream", "control"}
Nothing == [doc |-> 0, favorites |-> {}]
Data == [doc : 0 .. MaxChanges, favorites : SUBSET FavUrl]
Up == phase = "up"

-----------------------------------------------------------------------------
(* Storage.                                                                *)

\* db.write: the adapter gets the data as they are now.
Write(data) ==
  IF ~backed THEN UNCHANGED <<writing, queued>>
  ELSE IF writing = Idle THEN writing' = data /\ queued' = queued
  ELSE writing' = writing /\ queued' = data

\* safeUpdate.
Save(data) == mem' = data /\ Write(data)

\* The throttled persister runs.
PersistStateDoc == Save([mem EXCEPT !.doc = doc'])

\* Mutant: no call waits for the end of the timer.
BugChangeDocument ==
  /\ Up /\ doc < MaxChanges /\ doc' = doc + 1
  /\ IF timer THEN UNCHANGED <<mem, writing, queued, timer, due>>
              ELSE PersistStateDoc /\ timer' = TRUE /\ due' = FALSE
  /\ UNCHANGED <<phase, backed, favorites, disk, lost, quitting, window, starts, toggles, darwin>>

\* The document changes: the save runs at once, or when the timer ends.  Shortly after
\* a save at the end of a timer or by a flush, a call only starts a new timer.
ChangeDocument ==
  /\ Up /\ doc < MaxChanges /\ doc' = doc + 1
  /\ \/ /\ ~timer /\ PersistStateDoc
        /\ timer' = TRUE /\ due' = FALSE
     \/ /\ timer' = TRUE /\ due' = TRUE
        /\ UNCHANGED <<mem, writing, queued>>
  /\ UNCHANGED <<phase, backed, favorites, disk, lost, quitting, window, starts, toggles, darwin>>

TimerEnds ==
  /\ Up /\ timer /\ timer' = FALSE /\ due' = FALSE
  /\ IF due THEN UNCHANGED doc /\ PersistStateDoc ELSE UNCHANGED <<doc, mem, writing, queued>>
  /\ UNCHANGED <<phase, backed, favorites, disk, lost, quitting, window, starts, toggles, darwin>>

\* add-favorite, remove-favorite: a command that changes nothing saves nothing.
SetFavorites(new) ==
  /\ Up /\ new # favorites /\ favorites' = new
  /\ toggles < MaxChanges /\ toggles' = toggles + 1
  /\ Save([mem EXCEPT !.favorites = new])
  /\ UNCHANGED <<phase, backed, doc, timer, due, disk, lost, quitting, window, starts, darwin>>

AddFavorite(url) == SetFavorites(favorites \union {url})
RemoveFavorite(url) == SetFavorites(favorites \ {url})

-----------------------------------------------------------------------------
(* Quitting.                                                               *)

\* The promise of a write that finds the writer idle settles when nothing is queued any
\* more, that of a queued one when the write it was queued for has ended.
Awaited == IF writing = Idle THEN "idle writer" ELSE "queued"

\* flushStorage: the pending save first, then a write, which is the one waited for.
FlushStorage ==
  /\ timer' = FALSE /\ due' = FALSE
  /\ Save(IF due THEN [mem EXCEPT !.doc = doc] ELSE mem)
  /\ flush' = flush \union {Awaited}

\* app.quit emits before-quit.  The first hook notes the intent; the second prevents
\* the quit until the storage is flushed.  With storage in memory, that is at once.
Quit ==
  /\ isQuitting' = TRUE
  /\ owed' = IF isQuitting THEN owed ELSE doc
  /\ IF storageFlushed \/ ~backed
     THEN /\ storageFlushed' = TRUE /\ leaving' = TRUE
          /\ UNCHANGED <<flush, mem, timer, due, writing, queued>>
     ELSE FlushStorage /\ UNCHANGED <<storageFlushed, leaving>>

\* The menu, the dock or the updater's quitAndInstall; more than once, perhaps.
QuitAsked ==
  /\ Up /\ ~leaving
  /\ quitAsked' = TRUE
  /\ Quit
  /\ UNCHANGED <<phase, backed, doc, favorites, disk, lost, window, starts, toggles, darwin>>

\* A write ends, well or not; a flush that waited for it quits again, which nothing
\* prevents now.
WriteEnds(ok) ==
  LET settled == "second" \in flush \/ ("idle writer" \in flush /\ queued = Idle)
  IN  /\ Up /\ writing # Idle
      /\ disk' = IF ok THEN writing ELSE disk
      /\ lost' = ~ok
      /\ writing' = queued /\ queued' = Idle
      /\ flush' = {f \in flush : f = "idle writer" /\ queued # Idle}
                     \union {"second" : f \in flush \intersect {"queued"}}
      /\ storageFlushed' = (storageFlushed \/ settled)
      /\ leaving' = (leaving \/ settled)
      /\ UNCHANGED <<phase, backed, doc, favorites, mem, timer, due, isQuitting, owed, quitAsked, window,
                     starts, toggles, darwin>>

\* Mutant: the intent to quit is not looked at.
BugHides == darwin

\* shouldHideInsteadOfQuit.
Hides == darwin /\ ~isQuitting

\* A window is closed, by its button or by Electron that leaves; closing the last one
\* also ends in app.quit.  To prevent a close ends Electron's own quit.
Close(w) ==
  /\ Up /\ (window[w] = "open" \/ (window[w] = "hidden" /\ leaving))
  /\ window' = [window EXCEPT ![w] = IF Hides THEN "hidden" ELSE "closed"]
  /\ IF Hides THEN /\ leaving' = FALSE
                   /\ UNCHANGED <<isQuitting, storageFlushed, flush, owed, mem, timer, due, writing, queued>>
     ELSE IF leaving THEN UNCHANGED <<isQuitting, storageFlushed, flush, leaving, owed,
                                      mem, timer, due, writing, queued>>
     ELSE Quit
  /\ UNCHANGED <<phase, backed, doc, favorites, disk, lost, quitAsked, starts, toggles, darwin>>

Activate ==
  /\ Up /\ darwin /\ ~isQuitting /\ \E w \in Window : window[w] = "hidden"
  /\ window' = [w \in Window |-> "open"]
  /\ UNCHANGED <<phase, backed, doc, favorites, storage, quitting, starts, toggles, darwin>>

Ends(how) ==
  /\ phase' = how
  /\ UNCHANGED <<backed, doc, favorites, storage, quitting, window, starts, toggles, darwin>>

Exit == Up /\ leaving /\ (\A w \in Window : window[w] = "closed") /\ Ends("exited")

\* The state is sent to a control window that is gone: the loop of main over the data sources
\* throws, and the app exits with 1, whatever is being flushed.
StreamsArrive == Up /\ window["control"] = "closed" /\ Ends("failed")

Crash == Up /\ Ends("crashed")

-----------------------------------------------------------------------------
\* main: a storage that cannot be read is replaced by one in memory.
Loaded(data, readable) ==
  /\ phase' = "up" /\ backed' = readable
  /\ doc' = data.doc /\ favorites' = data.favorites /\ mem' = data

Start(readable) ==
  /\ ~Up /\ starts < MaxStarts /\ starts' = starts + 1
  /\ Loaded(IF readable THEN disk ELSE Nothing, readable)
  /\ timer' = FALSE /\ due' = FALSE /\ writing' = Idle /\ queued' = Idle /\ lost' = FALSE
  /\ isQuitting' = FALSE /\ storageFlushed' = FALSE /\ flush' = {} /\ leaving' = FALSE
  /\ owed' = 0 /\ quitAsked' = FALSE
  /\ window' = [w \in Window |-> "open"]
  /\ UNCHANGED <<disk, toggles, darwin>>

DesktopInit ==
  /\ darwin \in BOOLEAN /\ phase = "up" /\ backed = TRUE
  /\ doc = 0 /\ favorites = {} /\ mem = Nothing /\ disk = Nothing
  /\ timer = FALSE /\ due = FALSE /\ writing = Idle /\ queued = Idle /\ lost = FALSE
  /\ isQuitting = FALSE /\ storageFlushed = FALSE /\ flush = {} /\ leaving = FALSE
  /\ owed = 0 /\ quitAsked = FALSE
  /\ window = [w \in Window |-> "open"]
  /\ starts = 1 /\ toggles = 0

DesktopNext ==
  \/ ChangeDocument \/ TimerEnds
  \/ \E url \in FavUrl : AddFavorite(url) \/ RemoveFavorite(url)
  \/ QuitAsked \/ \E ok \in BOOLEAN : WriteEnds(ok)
  \/ \E w \in Window : Close(w)
  \/ Activate \/ Exit \/ StreamsArrive \/ Crash
  \/ \E readable \in BOOLEAN : Start(readable)

\* A write ends in time, well or not; Electron goes on with a quit; the timer ends.
DesktopFairness ==
  /\ WF_desktopVars(\E ok \in BOOLEAN : WriteEnds(ok))
  /\ WF_desktopVars(leaving /\ \E w \in Window : Close(w))
  /\ WF_desktopVars(Exit)
  /\ WF_desktopVars(TimerEnds)

DesktopSpec == DesktopInit /\ [][DesktopNext]_desktopVars /\ DesktopFairness

-----------------------------------------------------------------------------
(* Types of the state.                                                     *)
DesktopTypeOK ==
  /\ darwin \in BOOLEAN /\ phase \in {"up", "exited", "failed", "crashed"}
  /\ doc \in 0 .. MaxChanges /\ favorites \subseteq FavUrl
  /\ mem \in Data /\ disk \in Data
  /\ writing = Idle \/ writing \in Data
  /\ queued = Idle \/ (queued \in Data /\ writing # Idle)
  /\ due => timer
  /\ flush \subseteq {"idle writer", "queued", "second"} /\ (flush # {} => writing # Idle)
  /\ storageFlushed \/ leaving => isQuitting
  /\ window \in [Window -> {"open", "hidden", "closed"}]

\* When no save is pending or under way and the last one did not fail, the file has what
\* the app shows: a change that the throttle or the writer swallowed would be gone after
\* the next crash, with nothing left that could save it.
SettledIsSaved ==
  Up /\ backed /\ ~due /\ writing = Idle /\ ~lost =>
    disk.doc = doc /\ disk.favorites = favorites

\* A quit keeps what the document was when it began, through the throttle, a writer that
\* is busy and a second quit, unless the disk fails.
QuitSaves == phase = "exited" /\ backed /\ ~lost => disk.doc >= owed

\* A quit that has begun comes to an end, also if the flush fails, and also on macOS,
\* where the same close that hides a window must now let it close.
QuitEnds == isQuitting /\ Up ~> ~Up

\* On macOS the windows alone do not end the app.
HidesOnMac == darwin /\ phase = "exited" => quitAsked

\* The file never goes back to an older document, also over starts that could not read it.
NeverBack == [][disk.doc' >= disk.doc]_desktopVars

\* What was changed is saved, in time and at a quit, and stays saved; and windows alone end
\* the app only where they are to.
ChangesAreSaved == [](SettledIsSaved /\ QuitSaves /\ HidesOnMac) /\ NeverBack
=============================================================================
