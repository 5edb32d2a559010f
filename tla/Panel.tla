-------------------------------- MODULE Panel --------------------------------
(***************************************************************************)
(* A control panel at work (streamwall-control-ui): the inputs of the      *)
(* cells, the swap, drag and resize of tiles, and the size of the grid,    *)
(* while other operators edit and resize too.  The panel knows the wall by *)
(* two messages that arrive apart: the state, with the grid and its tiles, *)
(* and the document, which it edits itself before anyone else sees it.     *)
(* Wall has what becomes of the views; here the wall is its document and   *)
(* the boxes that makes.  The operator may edit, has one pointer, and      *)
(* knows every stream; nobody undoes anything.                             *)
(***************************************************************************)
EXTENDS Wall

CONSTANT MaxChanges    \* writes by anyone, the bound of the checked instance

ASSUME PanelBoundsAssumption == MaxChanges \in Nat

VARIABLES
  main,         \* the grid and the document of the desktop
  changes,      \* how often they were changed
  seen,         \* the grid and the tiles in the state the panel has
  copy,         \* the panel's document; like main.ids, only cells with a key
  current,      \* whether the maps in copy are those of main: a resize makes new ones
  unseen,       \* cells that others wrote to since
  swapStart,    \* the cell a swap begins with
  moveStart,    \* the cell a drag began on
  resize        \* the cells, the stream and the handle a resize began with

gesture == <<swapStart, moveStart, resize>>
known == <<seen, copy, current, unseen>>
panelVars == <<main, changes, known, gesture>>

Handle == {"e", "s", "se"}
NoResize == [spaces |-> {}, id |-> NoStream, handle |-> "se"]

-----------------------------------------------------------------------------
(* The wall of a document, and the tiles on it.                            *)

IdAt(ids, i) == IF i \in DOMAIN ids THEN ids[i] ELSE NoStream

\* ids, for all cells a gesture may name.
Total(ids) == [i \in Cell |-> IdAt(ids, i)]

BoxesOf(m) ==
  LET content == [i \in Cells(m.cols, m.rows) |-> IF IdAt(m.ids, i) = NoStream THEN NoContent ELSE m.ids[i]]
  IN  ToSet(Boxes(m.cols, m.rows, content))

\* stateIdxMap, with the configuration it came with.
Look(m) ==
  With(BoxesOf(m), LAMBDA boxes :
    [cols |-> m.cols, rows |-> m.rows,
     tile |-> [i \in Cell |-> UNION {b.spaces : b \in {c \in boxes : i \in c.spaces}}]])

SeenCells == Cells(seen.cols, seen.rows)

\* applyGridResize: all cells get new maps.
Resized(m, w, h) ==
  LET ids == Remap(Cell, m.cols, m.rows, w, h, Total(m.ids), NoStream)
  IN  [cols |-> w, rows |-> h, ids |-> [i \in Cells(w, h) |-> ids[i]]]

-----------------------------------------------------------------------------
(* Writing to the document.                                                *)

Counted == changes < MaxChanges /\ changes' = changes + 1

\* Only cells with a map are written.  On the desktop an edit of a map that is gone
\* does nothing, and one of a cell others have written to may lose to theirs.
Write(cells, ids) ==
  /\ Counted
  /\ copy' = [i \in DOMAIN copy |-> IF i \in cells THEN ids[i] ELSE copy[i]]
  /\ \E lost \in SUBSET (unseen \intersect cells) :
       main' = IF current
               THEN [main EXCEPT !.ids = [i \in DOMAIN @ |-> IF i \in cells \ lost THEN ids[i] ELSE @[i]]]
               ELSE main
  /\ UNCHANGED <<seen, current, unseen>>

WriteNothing == UNCHANGED <<main, changes, known>>

-----------------------------------------------------------------------------
(* The inputs of the cells and the ids in the sidebar.                     *)

\* handleSetView, from the input of a cell.
Type(i, s) ==
  /\ Write({i}, [Total(copy) EXCEPT ![i] = s])
  /\ UNCHANGED gesture

\* handleClickId with resolveTargetViewIdx: the first empty cell, where one that the
\* document has not got yet counts as empty.  A focused input is typed into instead.
ClickId(s) ==
  LET empty == {i \in SeenCells : IdAt(copy, i) = NoStream}
  IN  \E i \in {c \in empty : c = Min(empty)} : Type(i, s)

-----------------------------------------------------------------------------
(* useTileDrag.                                                            *)

\* The cells computeSwap assigns.
Traded(from, to) ==
  LET own(i) == IF seen.tile[i] = {} THEN {i} ELSE seen.tile[i]
  IN  own(from) \union
      IF seen.tile[from] # {} /\ seen.tile[to] = {}
      THEN Translated(seen.cols, seen.rows, seen.tile[from], from, to) ELSE own(to)

\* The tiles are those of the state, their streams those of the document.
SwapBoxes(from, to) ==
  IF from = to THEN WriteNothing
  ELSE Write(Traded(from, to),
             Swapped(seen.cols, seen.rows, Total(copy), NoStream, seen.tile, from, to))

SwapView(i) ==
  /\ seen.tile[i] # {}
  /\ swapStart' = i
  /\ UNCHANGED <<main, changes, known, moveStart, resize>>

PointerUp == moveStart = NoCell /\ resize = NoResize

\* handleGridPointerDown: the second click of a swap, or the start of a drag.
PressSwap(i) ==
  /\ PointerUp /\ swapStart # NoCell
  /\ SwapBoxes(swapStart, i)
  /\ swapStart' = NoCell
  /\ UNCHANGED <<moveStart, resize>>

PressMove(i) ==
  /\ PointerUp /\ swapStart = NoCell
  /\ moveStart' = i
  /\ UNCHANGED <<main, changes, known, swapStart, resize>>

\* endMove, over a cell.
EndMove(i) ==
  /\ moveStart # NoCell
  /\ SwapBoxes(moveStart, i)
  /\ moveStart' = NoCell
  /\ UNCHANGED <<swapStart, resize>>

\* Escape, pointercancel, or the end of a gesture off the grid: a swap stays begun.
Abort ==
  /\ ~PointerUp
  /\ moveStart' = NoCell /\ resize' = NoResize
  /\ UNCHANGED <<main, changes, known, swapStart>>

-----------------------------------------------------------------------------
(* useTileResize.                                                          *)

Stretching(r, hover) == ResizeBox(seen.cols, Min(r.spaces), hover, r.handle, r.spaces)

\* resizeWouldOverwriteOtherStream
Overwrites(r, hover) ==
  \E i \in Stretching(r, hover) \intersect DOMAIN copy : copy[i] \notin {NoStream, r.id}

\* computeResizeAssignments, with the stream of the beginning.
CommitResize(r, hover) ==
  LET box == Stretching(r, hover)
  IN  Write(box \union r.spaces, Assigned(Assigned(Total(copy), r.spaces, NoStream), box, r.id))

\* What a handle of the tile that has cell i would resize.
Resizable(i, handle) ==
  [spaces |-> seen.tile[i], id |-> IdAt(copy, Min(seen.tile[i])), handle |-> handle]

StartResize(i, handle) ==
  /\ PointerUp
  /\ seen.tile[i] # {} /\ Resizable(i, handle).id # NoStream
  /\ resize' = Resizable(i, handle)
  /\ UNCHANGED <<main, changes, known, swapStart, moveStart>>

\* endResize, over a cell.  Declined, it is an abort.
EndResize(hover, confirmed) ==
  /\ resize # NoResize
  /\ Overwrites(resize, hover) => confirmed
  /\ CommitResize(resize, hover)
  /\ resize' = NoResize
  /\ UNCHANGED <<swapStart, moveStart>>

\* computeKeyboardResizeHoverIdx: one cell along an axis of the handle.
Steps(r) ==
  LET right == Max(Columns(seen.cols, r.spaces))
      bottom == Max(Lines(seen.cols, r.spaces))
      first == Min(r.spaces)
  IN  {p \in (XOf(seen.cols, first) .. (seen.cols - 1)) \X (YOf(seen.cols, first) .. (seen.rows - 1)) :
         \/ r.handle # "s" /\ p[2] = bottom /\ p[1] \in {right - 1, right + 1}
         \/ r.handle # "e" /\ p[1] = right /\ p[2] \in {bottom - 1, bottom + 1}}

\* handleResizeKeyDown: instead of asking, it takes the Shift key.
KeyResize(i, handle, shift) ==
  /\ seen.tile[i] # {} /\ Resizable(i, handle).id # NoStream
  /\ \E p \in Steps(Resizable(i, handle)) :
       LET hover == At(seen.cols, p[1], p[2])
       IN  /\ Overwrites(Resizable(i, handle), hover) => shift
           /\ CommitResize(Resizable(i, handle), hover)
  /\ UNCHANGED gesture

-----------------------------------------------------------------------------
(* The size of the grid.                                                   *)

\* gridWouldDropAssignments
WouldDrop(w, h) ==
  \E i \in DOMAIN copy :
    copy[i] # NoStream /\ (XOf(seen.cols, i) >= w \/ YOf(seen.cols, i) >= h)

\* handleSetGridSize, and the command it sends.
AskGridSize(w, h, confirmed) ==
  /\ Counted
  /\ WouldDrop(w, h) => confirmed
  /\ main' = Resized(main, w, h) /\ current' = FALSE
  /\ UNCHANGED <<seen, copy, unseen, gesture>>

-----------------------------------------------------------------------------
(* Others, and what the panel learns of them.                              *)

Others ==
  /\ Counted
  /\ \/ \E i \in DOMAIN main.ids, s \in Stream \union {NoStream} :
          /\ s # main.ids[i]
          /\ main' = [main EXCEPT !.ids[i] = s]
          /\ unseen' = IF current THEN unseen \union {i} ELSE unseen
          /\ UNCHANGED current
     \/ \E w \in Width, h \in Height :
          main' = Resized(main, w, h) /\ current' = FALSE /\ UNCHANGED unseen
  /\ UNCHANGED <<seen, copy, gesture>>

SeeState ==
  /\ seen' = Look(main)
  /\ UNCHANGED <<main, changes, copy, current, unseen, gesture>>

SeeDocument ==
  /\ copy' = main.ids /\ current' = TRUE /\ unseen' = {}
  /\ UNCHANGED <<main, changes, seen, gesture>>

-----------------------------------------------------------------------------
\* A panel that knows the wall.
PanelInit ==
  /\ \E w \in Width, h \in Height :
       \E ids \in [Cells(w, h) -> Stream \union {NoStream}] : main = [cols |-> w, rows |-> h, ids |-> ids]
  /\ changes = 0
  /\ seen = Look(main) /\ copy = main.ids /\ current = TRUE /\ unseen = {}
  /\ swapStart = NoCell /\ moveStart = NoCell /\ resize = NoResize

Inputs ==
  \/ \E i \in SeenCells, s \in Stream \union {NoStream} : Type(i, s)
  \/ \E s \in Stream : ClickId(s)

\* The cell is the one of the last move of the pointer, when the grid may have been larger.
Pointing ==
  \E i \in Cell :
    \/ SwapView(i) \/ PressSwap(i) \/ PressMove(i) \/ EndMove(i)
    \/ \E handle \in Handle : StartResize(i, handle)
    \/ \E confirmed \in BOOLEAN : EndResize(i, confirmed)

Keys ==
  \/ Abort
  \/ \E i \in SeenCells, handle \in Handle, shift \in BOOLEAN : KeyResize(i, handle, shift)
  \/ \E w \in Width, h \in Height, confirmed \in BOOLEAN : AskGridSize(w, h, confirmed)

PanelNext == Inputs \/ Pointing \/ Keys \/ Others \/ SeeState \/ SeeDocument

\* The two, of which each has the document as its own.
PanelSpec ==
  /\ WallInit /\ PanelInit
  /\ [][(WallNext /\ UNCHANGED panelVars) \/ (PanelNext /\ UNCHANGED wallVars)]_<<wallVars, panelVars>>

-----------------------------------------------------------------------------
(* Properties.                                                             *)

\* Types, and a panel that has heard of everything has the document of the desktop.
PanelTypeOK ==
  /\ main.cols \in Width /\ main.rows \in Height /\ Range(main.ids) \subseteq Stream \union {NoStream}
  /\ seen.cols \in Width /\ seen.rows \in Height /\ seen.tile \in [Cell -> SUBSET Cell]
  /\ DOMAIN copy \subseteq Cell /\ unseen \subseteq Cell
  /\ {swapStart, moveStart} \subseteq Cell \union {NoCell} /\ resize.spaces \subseteq Cell
  /\ current /\ unseen = {} => copy = main.ids

\* However late the panel, the document has the cells of the grid and no others:
\* a gesture begun on a larger grid leaves nothing to come back later (#17).
KeysOfGrid == DOMAIN main.ids = Cells(main.cols, main.rows)

\* The wall has the document on it, all of it and nothing else.
ShowsOnlyDocument == ShowsDocument /\ NoGhosts /\ KeysOfGrid

\* A resize that the operator did not confirm takes no cell from a stream that has
\* it when the pointer is released, though it may have come during the gesture.
AsksFirst ==
  [][ \A i \in Cell :
        EndResize(i, FALSE) =>
          \A c \in DOMAIN copy \ resize.spaces : copy[c] \in {NoStream, resize.id, copy'[c]} ]_panelVars

InStep == current /\ unseen = {} /\ copy = main.ids /\ seen = Look(main)

\* A panel that is in step loses no stream it drags or swaps, whatever went on
\* between the two ends of the gesture, as long as the first end is on the grid.
DraggedStay ==
  [][ \A i \in DOMAIN main.ids :
        \A from \in ({moveStart, swapStart} \intersect DOMAIN main.ids) :
          InStep /\ ((from = moveStart /\ EndMove(i)) \/ (from = swapStart /\ PressSwap(i))) =>
            {main.ids[from], main.ids[i]} \ {NoStream} \subseteq Range(main'.ids) ]_panelVars

Held(ids, s) == Cardinality({i \in DOMAIN ids : ids[i] = s})

\* A panel that is in step makes the grid no smaller than its streams unasked: what it
\* warns of is what the desktop will drop.
DropsAsked ==
  [][ \A w \in Width, h \in Height :
        InStep /\ AskGridSize(w, h, FALSE) =>
          \A s \in Stream : Held(main'.ids, s) = Held(main.ids, s) ]_panelVars

\* No gesture and no resize loses or moves a stream it was not about.
TilesKeepStreams == DragKeepsStreams /\ ResizeKeepsPlaces /\ AsksFirst /\ DraggedStay /\ DropsAsked
=============================================================================
