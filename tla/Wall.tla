-------------------------------- MODULE Wall --------------------------------
(***************************************************************************)
(* The wall, from the assignment of streams to cells to the actors on it.  *)
(* Whatever changes the grid, the assignments, the streams or the expanded *)
(* cell ends in updateViewsFromStateDoc (main/index.ts), which derives the *)
(* content of every cell and calls StreamWindow.setViews: boxes are made   *)
(* out of equal cells, planViewLayout gives each box an actor, and the     *)
(* actors left over are parked during an expansion and disposed otherwise. *)
(* The observer of the document is synchronous, so each action below does  *)
(* all of this.  An actor is what the layout sees of one: View has the     *)
(* rest.                                                                   *)
(***************************************************************************)
EXTENDS Grid

CONSTANTS
  Stream,           \* ids of streams
  NoStream,         \* undefined, null or '' for a stream id
  Kind,             \* kinds of content
  NoKind,
  MaxCols, MaxRows, \* GRID_MAX, 8 in the code for both
  MaxActors,        \* a bound: identities of actors
  MaxPresets        \* MAX_LAYOUT_PRESETS

ASSUME NoCellAssumption == NoCell \notin Cells(MaxCols, MaxRows)
ASSUME NoContentAssumption == NoContent \notin Stream
ASSUME NoStreamAssumption == NoStream \notin Stream
ASSUME NoKindAssumption == NoKind \notin Kind
ASSUME WallBoundsAssumption == {MaxCols, MaxRows, MaxActors} \subseteq Nat \ {0} /\ MaxPresets \in Nat

VARIABLES
  cols, rows,       \* the configuration every part shares
  assign,           \* the document: views.get(cell).streamId
  streams,          \* the kind of each stream in clientState.streams
  fullscreenViewIdx,
  live, parked,     \* StreamWindow.views and parkedViews, in insertion order
  view,             \* the actors
  presets           \* clientState.layoutPresets

doc == <<cols, rows, assign>>
wall == <<live, parked, view>>
wallVars == <<doc, streams, fullscreenViewIdx, wall, presets>>

Cell == Cells(MaxCols, MaxRows)
Actor == 1 .. MaxActors
Width == 1 .. MaxCols
Height == 1 .. MaxRows
NotParked == "none"
NoneLeft == 0

Alive == ToSet(live) \union ToSet(parked)

NoActor == [content |-> NoContent, spaces |-> {}, running |-> FALSE,
            audio |-> "muted", saved |-> NotParked]

-----------------------------------------------------------------------------
(* planViewLayout.                                                         *)

\* Mutant: a view that is still loading is handed other content too, and drops it.
BugMatches(v, m, box) ==
  /\ m \in {1, 2, 3} => v.content = box.content
  /\ m \in {1, 2} => v.running
  /\ m \in {1, 4} => v.spaces \intersect box.spaces # {}

\* What the matchers ask for, from the most to the least preferred.
Matches(v, m, box) ==
  /\ m \in {1, 2, 3} => v.content = box.content
  /\ m \in {1, 2, 4} => v.running
  /\ m \in {1, 4} => v.spaces \intersect box.spaces # {}

\* Every box has its turn at one matcher before the next matcher is considered.
Rounds(n) == [k \in 1 .. (4 * n) |-> <<((k - 1) \div n) + 1, ((k - 1) % n) + 1>>]

Claim(p, b, i) ==
  [reused |-> Append(p.reused, <<b, p.unused[i]>>), unused |-> RemoveAt(p.unused, i)]

\* The turn of box r[2] at matcher r[1]: it takes the first actor that matches.
Turn(boxes, p, r) ==
  LET hit == SelectInSeq(p.unused, LAMBDA a : Matches(view[a], r[1], boxes[r[2]]))
  IN  IF hit = 0 \/ \E i \in DOMAIN p.reused : p.reused[i][1] = r[2] THEN p
      ELSE Claim(p, r[2], hit)

\* reused pairs boxes with actors in the order matched, unused keeps the others.
Plan(boxes, candidates) ==
  Fold(LAMBDA p, r : Turn(boxes, p, r), [reused |-> <<>>, unused |-> candidates], Rounds(Len(boxes)))

-----------------------------------------------------------------------------
(* setViews.                                                               *)

\* createView, and its first DISPLAY.
CreatedFor(box) == [NoActor EXCEPT !.content = box.content, !.spaces = box.spaces]

\* DISPLAY: only a running view takes other content; then UNPARK, which gives
\* back the audio of before.
Displayed(v, box) ==
  LET shown == IF v.running \/ v.content = box.content
               THEN [v EXCEPT !.content = box.content, !.spaces = box.spaces] ELSE v
  IN  [shown EXCEPT !.audio = IF v.saved = NotParked THEN @ ELSE v.saved,
                    !.saved = NotParked]

\* hideView: a repeated park keeps the audio the first one saved.
Hidden(v) == [v EXCEPT !.saved = IF @ = NotParked THEN v.audio ELSE @, !.audio = "muted"]

\* Mutant: parked views are forgotten instead of handed to the plan.
BugCandidates == live

\* reuseCandidates
Candidates == live \o parked

\* The identity of an actor that is made.
Fresh(given) ==
  LET left == Actor \ (Alive \union {given[i][2] : i \in DOMAIN given})
  IN  IF left = {} THEN NoneLeft ELSE CHOOSE a \in left : TRUE

Create(given, b) ==
  IF \E i \in DOMAIN given : given[i][1] = b THEN given ELSE Append(given, <<b, Fresh(given)>>)

\* The boxes that the plan has no actor for get new ones.
Given(boxes, plan) == Fold(Create, plan.reused, [b \in DOMAIN boxes |-> b])

\* What becomes of actor a, if those in kept are parked.
After(boxes, given, kept, a) ==
  With(SelectInSeq(given, LAMBDA g : g[2] = a),
       LAMBDA i : IF i > 0 THEN IF a \in Alive THEN Displayed(view[a], boxes[given[i][1]])
                                ELSE CreatedFor(boxes[given[i][1]])
                  ELSE IF a \in kept THEN Hidden(view[a]) ELSE NoActor)

\* MaxActors is the bound of the last conjunct.
SetViews(boxes, parkUnused) ==
  \E plan \in {Plan(boxes, Candidates)} :
    \E given \in {Given(boxes, plan)} :
      /\ live' = [i \in DOMAIN given |-> given[i][2]]
      /\ parked' = IF parkUnused THEN plan.unused ELSE <<>>
      /\ view' = [a \in Actor |-> After(boxes, given, ToSet(parked'), a)]
      /\ NoneLeft \notin ToSet(live')

-----------------------------------------------------------------------------
(* deriveWallViews and updateViewsFromStateDoc.                            *)

ContentOf(s) ==
  IF s = NoStream \/ streams[s] = NoKind THEN NoContent ELSE <<s, streams[s]>>

\* What the cells are to show apart from an expansion.
Wanted == [i \in Cell |-> ContentOf(assign[i])]

Expanded == fullscreenViewIdx # NoCell

\* fullscreenViewContentMap
ToShow ==
  IF Expanded THEN [i \in Cell |-> Wanted[fullscreenViewIdx]] ELSE Wanted

WallBoxes == Boxes(cols, rows, ToShow)

\* f is the expansion asked for; it is given up when its stream is gone.
UpdateViewsFromStateDoc(f) ==
  /\ fullscreenViewIdx' = IF f # NoCell /\ Wanted'[f] # NoContent THEN f ELSE NoCell
  /\ \E boxes \in {WallBoxes'} : SetViews(boxes, Expanded')

WallInit ==
  /\ cols \in Width /\ rows \in Height
  /\ assign = [i \in Cell |-> NoStream]
  /\ streams = [s \in Stream |-> NoKind]
  /\ fullscreenViewIdx = NoCell
  /\ live = <<>> /\ parked = <<>>
  /\ view = [a \in Actor |-> NoActor]
  /\ presets = <<>>

\* initializeViewsState: keys from a larger grid are pruned.
Pruned(w, h) == [i \in Cell |-> IF i \in Cells(w, h) THEN assign[i] ELSE NoStream]

\* A restart, perhaps with another grid configured: document and presets were saved.
Restart(w, h) ==
  /\ cols' = w /\ rows' = h
  /\ assign' = Pruned(w, h)
  /\ streams' = [s \in Stream |-> NoKind]
  /\ fullscreenViewIdx' = NoCell
  /\ live' = <<>> /\ parked' = <<>>
  /\ view' = [a \in Actor |-> NoActor]
  /\ UNCHANGED presets

\* The loop of main: the data sources deliver a list.
StreamsUpdate(s, k) ==
  /\ streams' = [streams EXCEPT ![s] = k]
  /\ UNCHANGED <<doc, presets>>
  /\ UpdateViewsFromStateDoc(fullscreenViewIdx)

-----------------------------------------------------------------------------
(* Edits of the document in a control panel.                               *)

\* The tile of each cell, as the panel sees it (stateIdxMap).
Tile == [i \in Cell |-> UNION {view[a].spaces : a \in {b \in ToSet(live) : i \in view[b].spaces}}]

Edited ==
  /\ UNCHANGED <<cols, rows, streams, presets>>
  /\ UpdateViewsFromStateDoc(fullscreenViewIdx)

\* handleSetView: a stream of the list, or none.
Place(i, s) ==
  /\ s # NoStream => streams[s] # NoKind
  /\ assign' = [assign EXCEPT ![i] = s]
  /\ Edited

\* swapBoxes
Drag(from, to) ==
  /\ from # to
  /\ \E tile \in {Tile} : assign' = Swapped(cols, rows, assign, NoStream, tile, from, to)
  /\ Edited

\* The resize of the tile of actor a, confirmed where it overwrites another.
Stretch(a, hover, handle) ==
  LET anchor == Min(view[a].spaces)
  IN  /\ assign[anchor] # NoStream
      /\ assign' = Stretched(cols, assign, NoStream, anchor, hover, handle, view[a].spaces)
      /\ Edited

-----------------------------------------------------------------------------
(* Operator commands (main/commandHandlers.ts).                            *)

\* Mutant: a resize leaves the expanded cell as it is (#739).
BugRemapFullscreen(w, h) == fullscreenViewIdx

RemapFullscreen(w, h) ==
  IF Expanded THEN RemapCell(cols, rows, w, h, fullscreenViewIdx) ELSE NoCell

\* applyGridResize: dimensions, expanded cell, document, in this order.
SetGridSize(w, h) ==
  /\ cols' = w /\ rows' = h
  /\ assign' = Remap(Cell, cols, rows, w, h, assign, NoStream)
  /\ UNCHANGED <<streams, presets>>
  /\ UpdateViewsFromStateDoc(RemapFullscreen(w, h))

\* set-view-fullscreen, with getViewAnchorIdx.
SetViewFullscreen(a, fullscreen) ==
  /\ UNCHANGED <<doc, streams, presets>>
  /\ UpdateViewsFromStateDoc(IF fullscreen /\ a \in ToSet(live) THEN Min(view[a].spaces) ELSE NoCell)

\* addLayoutPreset drops the oldest preset when there are too many.
SaveLayoutPreset ==
  LET all == Append(presets, [cols |-> cols, rows |-> rows, views |-> assign])
  IN  /\ presets' = IF Len(all) > MaxPresets THEN Tail(all) ELSE all
      /\ UNCHANGED <<doc, streams, fullscreenViewIdx, wall>>

\* applyLayoutPreset drops the expansion.
LoadLayoutPreset(p) ==
  /\ cols' = presets[p].cols /\ rows' = presets[p].rows
  /\ assign' = presets[p].views
  /\ UNCHANGED <<streams, presets>>
  /\ UpdateViewsFromStateDoc(NoCell)

DeleteLayoutPreset(p) ==
  /\ presets' = RemoveAt(presets, p)
  /\ UNCHANGED <<doc, streams, fullscreenViewIdx, wall>>

\* Selecting a tile silences the others, a running background one excepted.
Heard(a, v, selected) ==
  IF v.audio = "background" /\ v.running /\ a # selected THEN v
  ELSE [v EXCEPT !.audio = IF a = selected THEN "listening" ELSE "muted"]

\* For a parked one the choice is only recorded.
Recorded(a, v, selected) ==
  IF v.saved = "background" THEN v
  ELSE [v EXCEPT !.saved = IF a = selected THEN "listening" ELSE "muted"]

\* Mutant: the selection does not concern parked views (#740).
BugSetListeningView(selected) ==
  /\ view' = [a \in Actor |-> IF a \in ToSet(live) THEN Heard(a, view[a], selected) ELSE view[a]]
  /\ UNCHANGED <<doc, streams, fullscreenViewIdx, live, parked, presets>>

SetListeningView(selected) ==
  /\ view' = [a \in Actor |->
                IF a \in ToSet(live) THEN Heard(a, view[a], selected)
                ELSE IF a \in ToSet(parked) THEN Recorded(a, view[a], selected)
                ELSE view[a]]
  /\ UNCHANGED <<doc, streams, fullscreenViewIdx, live, parked, presets>>

SetViewBackgroundListening(a, listening) ==
  /\ view' = [view EXCEPT ![a].audio = IF listening THEN "background" ELSE "muted"]
  /\ UNCHANGED <<doc, streams, fullscreenViewIdx, live, parked, presets>>

-----------------------------------------------------------------------------
(* What the actors do by themselves: reach running, and leave it again.    *)

Runs(a) ==
  /\ view' = [view EXCEPT ![a].running = ~@]
  /\ UNCHANGED <<doc, streams, fullscreenViewIdx, live, parked, presets>>

-----------------------------------------------------------------------------
Assignments ==
  \/ \E s \in Stream, k \in Kind \union {NoKind} : StreamsUpdate(s, k)
  \/ \E i \in Cells(cols, rows), s \in Stream \union {NoStream} : Place(i, s)

Gestures ==
  \E i \in Cells(cols, rows) :
    \/ \E j \in Cells(cols, rows) : Drag(i, j)
    \/ \E a \in ToSet(live), d \in {"e", "s", "se"} : Stretch(a, i, d)

Resizing == \E w \in Width, h \in Height : SetGridSize(w, h)
Expanding == \E a \in Alive, b \in BOOLEAN : SetViewFullscreen(a, b)
Loading == \E a \in Alive : Runs(a)

Presets ==
  \/ SaveLayoutPreset
  \/ \E p \in DOMAIN presets : LoadLayoutPreset(p) \/ DeleteLayoutPreset(p)

Audio ==
  \/ \E selected \in Alive \union {0} : SetListeningView(selected)
  \/ \E a \in ToSet(live), b \in BOOLEAN : SetViewBackgroundListening(a, b)

Restarts == \E w \in Width, h \in Height : Restart(w, h)

WallNext ==
  \/ Assignments \/ Gestures \/ Resizing \/ Expanding \/ Loading
  \/ Presets \/ Audio \/ Restarts

WallSpec == WallInit /\ [][WallNext]_wallVars

-----------------------------------------------------------------------------
(* Safety.                                                                 *)

PresetType == [cols : Width, rows : Height, views : [Cell -> Stream \union {NoStream}]]

\* Types; an actor is on the wall or parked, never both and never twice
\* (the caller assumption of planViewLayout, viewLayoutPlan.ts:87), and parked
\* actors, and only those, have audio saved.
WallTypeOK ==
  /\ cols \in Width /\ rows \in Height
  /\ assign \in [Cell -> Stream \union {NoStream}]
  /\ streams \in [Stream -> Kind \union {NoKind}]
  /\ fullscreenViewIdx \in Cell \union {NoCell}
  /\ live \o parked \in Seq(Actor) /\ IsInjective(live \o parked)
  /\ \A a \in Actor :
       /\ view[a].spaces \subseteq Cell /\ view[a].running \in BOOLEAN
       /\ view[a].audio \in {"muted", "listening", "background"}
       /\ view[a].saved # NotParked <=> a \in ToSet(parked)
       /\ view[a] = NoActor <=> a \notin Alive
  /\ presets \in Seq(PresetType) /\ Len(presets) <= MaxPresets

\* The wall shows what the document says: each cell with a stream is covered by
\* exactly one actor, whose content is that stream, and by none otherwise; an
\* expansion covers them all.  Nothing is parked without an expansion.
ShowsDocument ==
  /\ \A i \in Cells(cols, rows) :
       LET covering == {a \in ToSet(live) : i \in view[a].spaces}
       IN  IF ToShow[i] = NoContent THEN covering = {}
           ELSE \E a \in covering : covering = {a} /\ view[a].content = ToShow[i]
  /\ \A a \in ToSet(live) : view[a].spaces # {} /\ view[a].spaces \subseteq Cells(cols, rows)
  /\ parked # <<>> => Expanded

\* Nothing is assigned to a cell off the grid, where it would come back as a
\* ghost when the grid grows (#17), and the expanded cell is one with a stream.
NoGhosts ==
  /\ \A i \in Cell \ Cells(cols, rows) : assign[i] = NoStream
  /\ Expanded => fullscreenViewIdx \in Cells(cols, rows) /\ Wanted[fullscreenViewIdx] # NoContent

\* Whatever is parked, restored, moved or disposed in between, the operator
\* listens to at most one tile, counting what a parked one will come back with.
OneListening ==
  \A a, b \in Alive :
    {"listening"} = {IF view[v].saved = NotParked THEN view[v].audio ELSE view[v].saved : v \in {a, b}}
      => a = b

\* The rectangles of the boxes leave no pixel of an assigned cell out and share
\* none, also when the window does not divide evenly.
RectsTile(width, height) ==
  \A boxes \in {ToSet(WallBoxes)}, px \in 0 .. (width - 1), py \in 0 .. (height - 1) :
    LET cell == At(cols, Min({cols - 1, px \div (width \div cols)}),
                         Min({rows - 1, py \div (height \div rows)}))
        on == {b \in boxes : Covers(BoxRect(cols, rows, width, height, b), px, py)}
    IN  /\ on = {b \in boxes : cell \in b.spaces}
        /\ Cardinality(on) = IF ToShow[cell] = NoContent THEN 0 ELSE 1

-----------------------------------------------------------------------------
(* Action properties.                                                      *)

Showing(c) == {a \in Alive : view[a].content = c}
OnWall(c) == {a \in ToSet(live) : view[a].content = c}

\* Running streams survive a change of layout: if the new layout has boxes for
\* a content, actors that show it already take them, as far as they go, and a
\* loaded one is not passed over for one that loads (#15, #369).
KeepsRunning ==
  [][ wall' # wall =>
        \A c \in Stream \X Kind :
          \A showing \in {Showing(c)}, wanted \in {OnWall(c)'} :
            LET kept == showing \intersect wanted
            IN  /\ Cardinality(kept) >= Min({Cardinality(showing), Cardinality(wanted)})
                /\ <<live, parked>>' # <<live, parked>> =>
                     \A a \in showing \ kept, b \in kept : view[a].running => view[b].running ]_wallVars

\* A running tile is moved only if no box of the new layout is its own: a stream
\* that appears, moves or goes elsewhere does not disturb it.
Steady ==
  [][ \A a \in ToSet(live) :
        view[a].running /\ ~(a \in ToSet(live)' /\ view'[a].spaces = view[a].spaces) =>
          \A b \in ToSet(WallBoxes') :
            ~(b.content = view[a].content /\ b.spaces = view[a].spaces) ]_wallVars

\* When the dimensions change, streams stay at their column and row, or are
\* dropped with it, and so does the expansion (#739).
ResizeKeepsPlaces ==
  [][ \A w \in Width, h \in Height :
        <<w, h>> # <<cols, rows>> /\ <<w, h>> = <<cols, rows>>' /\ SetGridSize(w, h) =>
        LET both == {p \in (0 .. MaxCols - 1) \X (0 .. MaxRows - 1) :
                       p[1] < Min({cols, w}) /\ p[2] < Min({rows, h})}
        IN  /\ \A p \in both : assign'[At(w, p[1], p[2])] = assign[At(cols, p[1], p[2])]
            /\ \A i \in Cell \ {At(w, p[1], p[2]) : p \in both} : assign'[i] = NoStream
            /\ \A p \in both : fullscreenViewIdx = At(cols, p[1], p[2]) =>
                                  fullscreenViewIdx' = At(w, p[1], p[2]) ]_wallVars

\* A tile moved to an empty cell keeps its size, even where its new place
\* overlaps the old one, and of two tiles traded neither is lost.
DragKeepsStreams ==
  [][ ~Expanded /\ assign' # assign /\ UNCHANGED <<cols, rows>> =>
        \A tile \in {Tile}, i, j \in Cells(cols, rows) :
          tile[i] # {} /\ assign' = Swapped(cols, rows, assign, NoStream, tile, i, j) =>
            IF tile[j] = {} THEN Cardinality({c \in Cell : assign'[c] = assign[i]}) >= Cardinality(tile[i])
            ELSE {assign[i], assign[j]} \subseteq Range(assign') ]_wallVars

\* gridInteractions.ts:61: a swap "Returns an empty map -- a no-op -- when
\* `fromIdx` and `toIdx` name the same box".
SameBoxIsNoop ==
  [][ \A i, j \in Cells(cols, rows) : Drag(i, j) /\ Tile[i] # {} /\ j \in Tile[i] => assign' = assign ]_wallVars

\* What runs goes on running.
StreamsSurvive == KeepsRunning /\ Steady
=============================================================================
