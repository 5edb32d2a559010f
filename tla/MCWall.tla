------------------------------- MODULE MCWall -------------------------------
(* The instance of Wall that TLC checks.                                   *)
EXTENDS Panel, TLC, FiniteSets

CONSTANTS WindowWidth, WindowHeight   \* pixels

ASSUME WindowAssumption ==
  {WindowWidth, WindowHeight} \subseteq Nat /\ WindowWidth >= MaxCols /\ WindowHeight >= MaxRows

VARIABLE session                      \* chosen at the start

\* Streams are interchangeable, and so are kinds.
Symmetry == Permutations(Stream) \union Permutations(Kind)

\* Which identities the actors have makes no difference either.
ByPlace ==
  LET actors(q) == [i \in DOMAIN q |-> view[q[i]]]
  IN  <<doc, streams, fullscreenViewIdx, actors(live), actors(parked), presets, panelVars, session>>

Rects == RectsTile(WindowWidth, WindowHeight)

(***************************************************************************)
(* Four sessions, in each of which other commands meet, on the walls on    *)
(* which they have room to go wrong and for as many streams as that takes: *)
(* all of them at once would be more states than can be checked.           *)
(***************************************************************************)
sessionVars == <<wallVars, panelVars, session>>

\* Rows of cells, whose boxes can overlap the places they move to.
Layout == rows = 1 /\ rows' = 1 /\ (Assignments \/ Resizing \/ Expanding \/ Loading)

\* Walls with room for L shapes, of which only the document is looked at.
Editing == Assignments \/ Resizing \/ Gestures

\* All other commands, on walls of four cells for one stream.
Used ==
  {s \in Stream : \/ streams[s] # NoKind
                  \/ \E i \in Cell : assign[i] = s
                  \/ \E a \in Alive : view[a].content[1] = s
                  \/ \E p \in DOMAIN presets : \E i \in Cell : presets[p].views[i] = s}
Small == cols <= 2 /\ Cardinality(Used) <= 1
Commanding ==
  /\ Small
  /\ Assignments \/ Resizing \/ Expanding \/ Audio \/ Presets \/ Restarts
  /\ Small'

\* A late panel, on a row of cells and with one gesture at a time.
Working(swap, move, stretched, grid) ==
  /\ swap = NoCell \/ (move = NoCell /\ stretched = NoResize)
  /\ grid.rows = 1

\* What the panel is about where it is not looked at.
EmptyWall == [cols |-> 1, rows |-> 1, ids |-> [i \in {0} |-> NoStream]]

Sessions == {"layout", "editing", "commanding", "panel"}

SessionInit ==
  /\ WallInit /\ PanelInit
  /\ session \in Sessions
  /\ session = "layout" => rows = 1
  /\ session = "commanding" => Small
  /\ IF session = "panel" THEN cols = 1 /\ rows = 1 /\ main.rows = 1
     ELSE main = EmptyWall
SessionNext ==
  /\ UNCHANGED session
  /\ \/ UNCHANGED panelVars
        /\ \/ session = "layout" /\ Layout
           \/ session = "editing" /\ Editing
           \/ session = "commanding" /\ Commanding
     \/ UNCHANGED wallVars
        /\ session = "panel" /\ PanelNext /\ Working(swapStart', moveStart', resize', main')

SessionSpec == SessionInit /\ [][SessionNext]_sessionVars

\* A panel that drags tiles while one of them may be expanded.
DragNext == Assignments \/ Gestures \/ Expanding
DragSpec ==
  /\ WallInit /\ PanelInit /\ main = EmptyWall /\ session = "editing"
  /\ [][DragNext /\ UNCHANGED <<panelVars, session>>]_sessionVars

\* The types of the state, and tiles that cover their windows and overlap nowhere.
WallOK == WallTypeOK /\ PanelTypeOK /\ Rects
=============================================================================
