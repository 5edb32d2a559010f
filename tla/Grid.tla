-------------------------------- MODULE Grid --------------------------------
(***************************************************************************)
(* The geometry of the wall (streamwall-shared/src/geometry.ts): cells are *)
(* numbered row by row from 0 in a grid of w columns and h rows.           *)
(***************************************************************************)
EXTENDS Integers, Sequences, SequencesExt, FiniteSetsExt

CONSTANTS
  NoCell,           \* null for a cell index
  NoContent         \* no content

\* LET x == e IN Op(x), with e evaluated once: TLC evaluates the definitions of a
\* LET anew at each use when the formula is an action.
With(e, Op(_)) == CHOOSE y \in {Op(x) : x \in {e}} : TRUE

\* FoldLeft, with every intermediate result evaluated once.
Fold(Op(_, _), base, q) ==
  LET f[k \in 0 .. Len(q)] == IF k = 0 THEN base ELSE With(f[k - 1], LAMBDA p : Op(p, q[k]))
  IN  f[Len(q)]

Cells(w, h) == 0 .. (w * h - 1)
At(w, x, y) == w * y + x
XOf(w, i) == i % w
YOf(w, i) == i \div w

-----------------------------------------------------------------------------
(* boxesFromViewContentMap.                                                *)

\* How far the run from the first of n columns or rows goes: while they are good.
Run(n, good) == CHOOSE k \in 1 .. n : 1 .. (k - 1) \subseteq good /\ (k < n => k \notin good)

\* The largest box at cell i, down first and then to the right, of cells with the
\* content of i that no earlier box has.
LargestBox(w, h, content, visited, i) ==
  LET x == XOf(w, i)
      y == YOf(w, i)
      free(a, b) == At(w, a, b) \notin visited /\ content[At(w, a, b)] = content[i]
      tall == Run(h - y, {j \in 1 .. (h - y - 1) : free(x, y + j)})
      wide == Run(w - x, {j \in 1 .. (w - x - 1) : \A d \in 0 .. (tall - 1) : free(x + j, y + d)})
  IN  [content |-> content[i],
       x |-> x, y |-> y, w |-> wide, h |-> tall,
       spaces |-> {At(w, a, b) : a \in x .. (x + wide - 1), b \in y .. (y + tall - 1)}]

\* Mutant: cells that a box has already are not kept out of later ones.
BugVisited(boxes) == {}

Visited(boxes) == UNION {boxes[b].spaces : b \in DOMAIN boxes}

\* Cell i begins a box if it has content and is in none.
AddBox(w, h, content, boxes, i) ==
  IF i \in Visited(boxes) \/ content[i] = NoContent THEN boxes
  ELSE Append(boxes, LargestBox(w, h, content, Visited(boxes), i))

Boxes(w, h, content) ==
  LET scan(c) == Fold(LAMBDA boxes, i : AddBox(w, h, c, boxes, i), <<>>, [k \in 1 .. (w * h) |-> k - 1])
  IN  With(content, scan)

-----------------------------------------------------------------------------
(* computeBoxRect, on a window of width by height pixels.                  *)

\* A box at the right or bottom edge has them too.
BoxRect(w, h, width, height, box) ==
  LET sw == width \div w
      sh == height \div h
  IN  [left   |-> sw * box.x,
       width  |-> IF box.x + box.w >= w THEN width - sw * box.x ELSE sw * box.w,
       top    |-> sh * box.y,
       height |-> IF box.y + box.h >= h THEN height - sh * box.y ELSE sh * box.h]

Covers(r, px, py) ==
  px \in r.left .. (r.left + r.width - 1) /\ py \in r.top .. (r.top + r.height - 1)

-----------------------------------------------------------------------------
(* Resizing.                                                               *)

\* remapCellIdx: the cell at the same column and row, if both grids have it.
RemapCell(w, h, nw, nh, i) ==
  IF i \in Cells(w, h) /\ XOf(w, i) < nw /\ YOf(w, i) < nh
  THEN At(nw, XOf(w, i), YOf(w, i))
  ELSE NoCell

\* remapGridAssignments, of assignments to every cell of All.
Remap(All, w, h, nw, nh, assign, none) ==
  [i \in All |->
     IF i \in Cells(nw, nh) /\ XOf(nw, i) < w /\ YOf(nw, i) < h
     THEN assign[At(w, XOf(nw, i), YOf(nw, i))]
     ELSE none]

-----------------------------------------------------------------------------
(* Gestures in the control panel (streamwall-control-ui/src/               *)
(* gridInteractions.ts).  tile[i] is what the panel takes for the tile of  *)
(* cell i: its cells, none when there is none.                             *)

Columns(w, S) == {XOf(w, i) : i \in S}
Lines(w, S) == {YOf(w, i) : i \in S}

\* The offset from one line to another, less what would carry S off 0 .. n - 1.
Shift(S, n, from, to) ==
  LET d == to - from
  IN  IF Min(S) + d < 0 THEN -Min(S)
      ELSE IF Max(S) + d > n - 1 THEN n - 1 - Max(S)
      ELSE d

\* translateFootprint: S moves as one rigid shape, and stays on the grid.
Translated(w, h, S, from, to) ==
  LET dx == Shift(Columns(w, S), w, XOf(w, from), XOf(w, to))
      dy == Shift(Lines(w, S), h, YOf(w, from), YOf(w, to))
  IN  {At(w, XOf(w, i) + dx, YOf(w, i) + dy) : i \in S}

Assigned(assign, S, s) == [i \in DOMAIN assign |-> IF i \in S THEN s ELSE assign[i]]

\* computeSwap: onto another tile the two trade, onto an empty cell the tile moves.
Swapped(w, h, assign, none, tile, from, to) ==
  LET own(i) == IF tile[i] = {} THEN {i} ELSE tile[i]
      held(i) == IF tile[i] = {} THEN none ELSE assign[i]
  IN  IF tile[from] # {} /\ tile[to] = {}
      THEN Assigned(Assigned(assign, tile[from], none),
                    Translated(w, h, tile[from], from, to), assign[from])
      ELSE Assigned(Assigned(assign, own(from), held(to)), own(to), held(from))

\* computeResizeBox: from the anchor to the hovered cell, on the axes of the handle.
ResizeBox(w, anchor, hover, handle, S) ==
  LET right == IF handle = "s" THEN Max(Columns(w, S))
               ELSE Max({XOf(w, anchor), XOf(w, hover)})
      bottom == IF handle = "e" THEN Max(Lines(w, S))
                ELSE Max({YOf(w, anchor), YOf(w, hover)})
  IN  {At(w, x, y) : x \in XOf(w, anchor) .. right, y \in YOf(w, anchor) .. bottom}

\* computeResizeAssignments: the cells of the tile that are left out are vacated.
Stretched(w, assign, none, anchor, hover, handle, S) ==
  Assigned(Assigned(assign, S, none), ResizeBox(w, anchor, hover, handle, S), assign[anchor])
=============================================================================
