-------------------------------- MODULE Tiling --------------------------------
(***************************************************************************)
(* Where the panes of a tab are: orientations and ratios of its splits,    *)
(* the rectangles they make, resizing and moving in a direction on the     *)
(* host, and the splitters a UI finds between the rectangles and drags.    *)
(*                                                                         *)
(* The host does not know the size of a window.  It takes the largest      *)
(* width and height of any session, which the UI told it, for the whole.   *)
(* A splitter that is dragged resizes the UI's copy of the tree only.      *)
(*                                                                         *)
(* A tree is a function from paths, sequences of 1 (first) and 2 (second). *)
(* Ratios are exact fractions here and floating point there.  Arenas are   *)
(* in LayoutTree.                                                          *)
(***************************************************************************)
EXTENDS Integers, Sequences, SequencesExt, FiniteSets, FiniteSetsExt

CONSTANTS
  Definitions,    \* trees a tab may start with
  Areas,          \* sizes of the UI's content, in cells
  Inset,          \* cells of a pane's rectangle its session does not get
  Unit,           \* pixels of a cell, either way
  Moves,          \* how far a pointer moves at once, in pixels
  Amounts,        \* how many cells a resize action asks for
  MaxPanes, MaxSteps  \* bounds on the panes of a tree and on the actions

VARIABLES
  tree,           \* the host's
  zoomed,         \* a pane, or none (0)
  sizes,          \* the sessions' sizes, by pane
  shown,          \* the UI's copy of tree and zoom
  area,           \* the UI's content
  drag,           \* PaneLayout.drag: a splitter's index (0: no drag), the pixels left over,
                  \* and PaneLayout.splitters, whose order matters to a drag only
  steps

host == <<tree, zoomed, sizes>>
window == <<shown, area, drag>>
vars == <<host, window, steps>>

Across == "horizontal"     \* first left of second
Down == "vertical"         \* first above second

LeafOf(p) == [pane |-> p, split |-> "none", ratio |-> <<0, 1>>]
SplitOf(orient, ratio) == [pane |-> 0, split |-> orient, ratio |-> ratio]

PanesIn(t) == {t[path].pane : path \in DOMAIN t} \ {0}
PathOf(t, p) == CHOOSE path \in DOMAIN t : t[path].pane = p
Ups(path) == {SubSeq(path, 1, n) : n \in 0 .. Len(path) - 1}

-----------------------------------------------------------------------------
(* Rectangles.                                                             *)

Extent(rect, orient) == IF orient = Across THEN rect.w ELSE rect.h

(* f64::round, of a fraction of a whole.                                   *)
Rounded(part, whole) == (2 * part[1] * whole + part[2]) \div (2 * part[2])

(* Each half rounded for itself.                                           *)
Bug_BothRounded(rect, node, side) ==
  LET cut  == Rounded(node.ratio, Extent(rect, node.split))
      rest == Rounded(<<node.ratio[2] - node.ratio[1], node.ratio[2]>>, Extent(rect, node.split))
  IN  CASE node.split = Across /\ side = 1 -> [rect EXCEPT !.w = cut]
        [] node.split = Across /\ side = 2 -> [rect EXCEPT !.x = @ + cut, !.w = rest]
        [] node.split = Down /\ side = 1   -> [rect EXCEPT !.h = cut]
        [] node.split = Down /\ side = 2   -> [rect EXCEPT !.y = @ + cut, !.h = rest]

(* divide: the second half gets what is left.                              *)
Half(rect, node, side) ==
  LET cut == Rounded(node.ratio, Extent(rect, node.split))
  IN  CASE node.split = Across /\ side = 1 -> [rect EXCEPT !.w = cut]
        [] node.split = Across /\ side = 2 -> [rect EXCEPT !.x = @ + cut, !.w = @ - cut]
        [] node.split = Down /\ side = 1   -> [rect EXCEPT !.h = cut]
        [] node.split = Down /\ side = 2   -> [rect EXCEPT !.y = @ + cut, !.h = @ - cut]

RectOf(t, total) ==
  LET rect[path \in DOMAIN t] ==
        IF path = <<>> THEN total ELSE Half(rect[Front(path)], t[Front(path)], Last(path))
  IN  rect

Whole(size) == [x |-> 0, y |-> 0, w |-> size[1], h |-> size[2]]

(* compute_rects.                                                          *)
Rects(t, zoom, size) ==
  IF zoom # 0 THEN [p \in {zoom} |-> Whole(size)]
  ELSE [p \in PanesIn(t) |-> RectOf(t, Whole(size))[PathOf(t, p)]]

(* estimated_viewport_size.                                                *)
Viewport == <<Max({sizes[p][1] : p \in DOMAIN sizes}), Max({sizes[p][2] : p \in DOMAIN sizes})>>

-----------------------------------------------------------------------------
(* Directions.  HashMap order picks among the nearest.                     *)

(* Only panes that begin on the same line.                                 *)
Bug_InLine(dir, from, to) ==
  CASE dir = "left"  -> to.x < from.x /\ to.y = from.y
    [] dir = "right" -> to.x > from.x /\ to.y = from.y
    [] dir = "up"    -> to.y < from.y /\ to.x = from.x
    [] dir = "down"  -> to.y > from.y /\ to.x = from.x

Ahead(dir, from, to) ==
  CASE dir = "left"  -> 2 * to.x + to.w < 2 * from.x + from.w
    [] dir = "right" -> 2 * to.x + to.w > 2 * from.x + from.w
    [] dir = "up"    -> 2 * to.y + to.h < 2 * from.y + from.h
    [] dir = "down"  -> 2 * to.y + to.h > 2 * from.y + from.h

Distance(a, b) ==
  LET dx == 2 * (a.x - b.x) + a.w - b.w
      dy == 2 * (a.y - b.y) + a.h - b.h
  IN  dx * dx + dy * dy

Nearest(rects, p, dir) ==
  LET ahead == IF p \in DOMAIN rects THEN {q \in DOMAIN rects : Ahead(dir, rects[p], rects[q])} ELSE {}
  IN  {q \in ahead : \A other \in ahead : Distance(rects[p], rects[q]) <= Distance(rects[p], rects[other])}

-----------------------------------------------------------------------------
(* Resizing a tree of a given size.                                        *)

(* nearest_ancestor_split.                                                 *)
SplitsAbove(t, p, orient) == {path \in Ups(PathOf(t, p)) : t[path].split = orient}

Lowest(paths) == CHOOSE path \in paths : \A other \in paths : Len(other) <= Len(path)

(* Which half of its own split the pane is.                                *)
Bug_OwnSide(t, p, split) == Last(PathOf(t, p)) = 1

InFirst(t, p, split) == PathOf(t, p)[Len(split) + 1] = 1

(* min_dim: MIN_PANE_COLS is 2 and MIN_PANE_ROWS is 1.                     *)
MinDim(t, orient) ==
  LET min[path \in DOMAIN t] ==
        CASE t[path].pane # 0       -> IF orient = Across THEN 2 ELSE 1
          [] t[path].pane = 0 /\ t[path].split = orient -> min[Append(path, 1)] + min[Append(path, 2)]
          [] OTHER                  -> Max({min[Append(path, 1)], min[Append(path, 2)]})
  IN  min

Plus(a, b) == <<a[1] * b[2] + b[1] * a[2], a[2] * b[2]>>
AtMost(a, b) == a[1] * b[2] <= b[1] * a[2]
Greater(a, b) == IF AtMost(a, b) THEN b ELSE a
Smaller(a, b) == IF AtMost(a, b) THEN a ELSE b

(* Fractions are kept reduced.                                             *)
Reduced(a) ==
  LET common == Max({n \in 1 .. a[2] : a[1] % n = 0 /\ a[2] % n = 0})
  IN  <<a[1] \div common, a[2] \div common>>

Lo(t, split, whole) == Greater(<<MinDim(t, t[split].split)[Append(split, 1)], whole>>, <<1, 10>>)
Hi(t, split, whole) == Smaller(<<whole - MinDim(t, t[split].split)[Append(split, 2)], whole>>, <<9, 10>>)

(* resize_against_orientation: a pane in the second half grows to the left *)
(* and up, whatever the direction is called.                               *)
Resized(t, p, orient, growing, cells, size) ==
  LET above == SplitsAbove(t, p, orient)
      split == Lowest(above)
      whole == Extent(RectOf(t, Whole(size))[split], orient)
      delta == IF InFirst(t, p, split) = growing THEN <<cells, whole>> ELSE <<-cells, whole>>
      lo    == Lo(t, split, whole)
      hi    == Hi(t, split, whole)
  IN  IF above = {} \/ (above # {} /\ (whole = 0 \/ (whole # 0 /\ ~AtMost(lo, hi)))) THEN t
      ELSE [t EXCEPT ![split].ratio = Reduced(Smaller(Greater(Plus(@, delta), lo), hi))]

-----------------------------------------------------------------------------
(* Splitters.                                                              *)

Starts(rect, orient) == IF orient = Across THEN rect.x ELSE rect.y
Ends(rect, orient) == Starts(rect, orient) + Extent(rect, orient)
Other(orient) == IF orient = Across THEN Down ELSE Across

(* Where a pane ends that another one begins, along what both have.        *)
Segment(rects, orient, p, q) ==
  [pos |-> Ends(rects[p], orient), before |-> p,
   start |-> Max({Starts(rects[p], Other(orient)), Starts(rects[q], Other(orient))}),
   end |-> Min({Ends(rects[p], Other(orient)), Ends(rects[q], Other(orient))})]

Segments(rects, orient) ==
  {Segment(rects, orient, pair[1], pair[2]) :
   pair \in {at \in (DOMAIN rects) \X (DOMAIN rects) :
               at[1] # at[2] /\ Ends(rects[at[1]], orient) = Starts(rects[at[2]], orient)}}

Proper(segments) == {s \in segments : s.start < s.end}

(* Segments on one line that touch are one splitter, of the first of them. *)
Touching(s, t) == s.pos = t.pos /\ s.start <= t.end /\ t.start <= s.end

Joined(segments) ==
  LET begins(s) == \A t \in segments : Touching(s, t) => s.start <= t.start
      run(s) == LET on == {t \in segments : t.pos = s.pos /\ t.start >= s.start}
                IN  {t \in on : \A at \in s.start .. t.start - 1 : \E u \in on : u.start <= at /\ at < u.end}
  IN  {[pos |-> s.pos, start |-> s.start, end |-> Max({t.end : t \in run(s)}), before |-> s.before] :
         s \in {u \in segments : begins(u)}}

Bars(rects, orient) ==
  {[orient |-> orient, pos |-> s.pos, start |-> s.start, end |-> s.end, before |-> s.before] :
     s \in Joined(Proper(Segments(rects, orient)))}

(* The splitters are listed in the order of a HashMap of their positions,  *)
(* which is another one each time.                                         *)
Listings(rects) ==
  {across \o down : across \in SetToSeqs(Bars(rects, Across)), down \in SetToSeqs(Bars(rects, Down))}

-----------------------------------------------------------------------------
(* The host's actions.                                                     *)

Step == steps < MaxSteps /\ steps' = steps + 1

Edit(t) == tree' = t /\ Step /\ UNCHANGED <<zoomed, sizes, window>>

(* split; the new pane's session starts with a default size.               *)
SplitPane(p, orient) ==
  /\ Cardinality(PanesIn(tree)) < MaxPanes
  /\ LET at == PathOf(tree, p)
         new == Max(PanesIn(tree)) + 1
     IN  /\ tree' = [path \in DOMAIN tree \cup {Append(at, 1), Append(at, 2)} |->
                       CASE path = at            -> SplitOf(orient, <<1, 2>>)
                         [] path = Append(at, 1) -> tree[at]
                         [] path = Append(at, 2) -> LeafOf(new)
                         [] OTHER                -> tree[path]]
         /\ sizes' = [q \in DOMAIN sizes \cup {new} |-> IF q = new THEN <<1, 1>> ELSE sizes[q]]
  /\ Step /\ UNCHANGED <<zoomed, window>>

(* close_pane: the sibling takes the place of the split.                   *)
ClosePane(p) ==
  /\ Cardinality(PanesIn(tree)) > 1
  /\ LET at   == PathOf(tree, p)
         up   == Front(at)
         kept == Append(up, 3 - Last(at))
         from(path) == IF IsPrefix(up, path) THEN kept \o SubSeq(path, Len(up) + 1, Len(path)) ELSE path
         moved == {up \o SubSeq(path, Len(kept) + 1, Len(path)) : path \in {q \in DOMAIN tree : IsPrefix(kept, q)}}
     IN  tree' = [path \in moved \cup {q \in DOMAIN tree : ~IsPrefix(up, q)} |-> tree[from(path)]]
  /\ sizes' = [q \in DOMAIN sizes \ {p} |-> sizes[q]]
  /\ zoomed' = IF zoomed = p THEN 0 ELSE zoomed
  /\ Step /\ UNCHANGED window

ToggleOrientation(p) == p \in PanesIn(tree) /\ PathOf(tree, p) # <<>> /\
  Edit([tree EXCEPT ![Front(PathOf(tree, p))].split = Other(@)])

Equalize(p) == PathOf(tree, p) # <<>> /\ Edit([tree EXCEPT ![Front(PathOf(tree, p))].ratio = <<1, 2>>])

EqualizeTab ==
  Edit([path \in DOMAIN tree |-> IF tree[path].pane = 0 THEN [tree[path] EXCEPT !.ratio = <<1, 2>>] ELSE tree[path]])

Resize(p, orient, growing, cells) == Edit(Resized(tree, p, orient, growing, cells, Viewport))

(* resize_pane_toward: the pane's own split moves in the direction.        *)
ResizeToward(p, dir, cells) ==
  LET orient == IF dir \in {"left", "right"} THEN Across ELSE Down
      above  == SplitsAbove(tree, p, orient)
  IN  above # {} /\ Resize(p, orient, (dir \in {"right", "down"}) = InFirst(tree, p, Lowest(above)), cells)

Swap(p, dir) ==
  \E q \in Nearest(Rects(tree, zoomed, Viewport), p, dir) :
    Edit([tree EXCEPT ![PathOf(tree, p)].pane = q, ![PathOf(tree, q)].pane = p])

ToggleZoom(p) ==
  zoomed' = (IF zoomed = 0 THEN p ELSE 0) /\ Step /\ UNCHANGED <<tree, sizes, window>>

-----------------------------------------------------------------------------
(* The UI's.                                                               *)

(* send_active_pane_sizes tells the host of each rectangle with a session. *)
SizesOf(rects) ==
  [p \in DOMAIN sizes |->
     IF p \in DOMAIN rects THEN <<Max({rects[p].w - Inset, 1}), Max({rects[p].h - Inset, 1})>> ELSE sizes[p]]

(* PaneLayout::update finds the splitters again, whatever is dragged.      *)
Laid(layout, size, moved) ==
  LET rects == Rects(layout.tree, layout.zoomed, size)
  IN  /\ sizes' = SizesOf(rects)
      /\ IF drag.at = 0 THEN UNCHANGED drag
         ELSE \E listed \in Listings(rects) : drag' = [moved EXCEPT !.splitters = listed]

(* A snapshot brings the host's tree, without what was dragged.            *)
Snapshot ==
  /\ shown' = [tree |-> tree, zoomed |-> zoomed] /\ Laid(shown', area, drag)
  /\ Step /\ UNCHANGED <<tree, zoomed, area>>

WindowSized(size) ==
  /\ area' = size /\ Laid(shown, size, drag)
  /\ Step /\ UNCHANGED <<tree, zoomed, shown>>

NoDrag == [at |-> 0, rest |-> 0, splitters |-> <<>>]

Press ==
  /\ drag.at = 0
  /\ \E listed \in Listings(Rects(shown.tree, shown.zoomed, area)) : \E i \in DOMAIN listed :
       drag' = [at |-> i, rest |-> 0, splitters |-> listed]
  /\ UNCHANGED <<host, shown, area, steps>>

Release == drag.at # 0 /\ drag' = NoDrag /\ UNCHANGED <<host, shown, area, steps>>

(* on_mouse_move; it indexes the splitters with what the press found.      *)
Move(pixels) ==
  /\ drag.at \in DOMAIN drag.splitters
  /\ LET bar   == drag.splitters[drag.at]
         left  == drag.rest + pixels
         cells == (IF left < 0 THEN -left ELSE left) \div Unit
         rest  == IF left > 0 THEN left - cells * Unit ELSE left + cells * Unit
         moved == [drag EXCEPT !.rest = rest]
     IN  IF cells = 0 THEN drag' = moved /\ UNCHANGED <<shown, sizes>>
         ELSE /\ shown' = [shown EXCEPT !.tree = Resized(@, bar.before, bar.orient, left > 0, cells, area)]
              /\ Laid(shown', area, moved)
  /\ Step /\ UNCHANGED <<tree, zoomed, area>>

-----------------------------------------------------------------------------
Init ==
  /\ tree \in Definitions /\ zoomed = 0 /\ shown = [tree |-> tree, zoomed |-> 0]
  /\ area \in Areas
  /\ sizes = [p \in PanesIn(tree) |->
                LET rect == Rects(tree, 0, area)[p] IN <<Max({rect.w - Inset, 1}), Max({rect.h - Inset, 1})>>]
  /\ drag = NoDrag /\ steps = 0

Directions == {"left", "right", "up", "down"}

Next ==
  \/ \E p \in PanesIn(tree) :
       \/ \E orient \in {Across, Down} : SplitPane(p, orient)
       \/ ClosePane(p) \/ ToggleOrientation(p) \/ Equalize(p) \/ ToggleZoom(p)
       \/ \E orient \in {Across, Down}, growing \in BOOLEAN, cells \in Amounts : Resize(p, orient, growing, cells)
       \/ \E dir \in Directions : Swap(p, dir) \/ \E cells \in Amounts : ResizeToward(p, dir, cells)
  \/ EqualizeTab \/ Snapshot \/ Press \/ Release
  \/ \E size \in Areas : WindowSized(size)
  \/ \E pixels \in Moves : Move(pixels)

Spec == Init /\ [][Next]_vars

-----------------------------------------------------------------------------
(* Properties.                                                             *)

CellsOf(rect) == (rect.x .. rect.x + rect.w - 1) \X (rect.y .. rect.y + rect.h - 1)

(* Every cell of the UI is in one pane, however the tree came to be: after *)
(* every rounding the panes neither overlap, leave a gap or leave the tab. *)
Tiled ==
  LET rects == Rects(shown.tree, 0, area)
  IN  /\ \A p \in DOMAIN rects : CellsOf(rects[p]) \subseteq CellsOf(Whole(area))
      /\ \A cell \in CellsOf(Whole(area)) : Cardinality({p \in DOMAIN rects : cell \in CellsOf(rects[p])}) = 1

(* From each pane every other one can be reached with the arrow keys.      *)
Reached(rects, from) ==
  FoldLeft(LAMBDA found, n : found \cup UNION {Nearest(rects, p, dir) : p \in found, dir \in Directions},
           {from}, [n \in 1 .. Cardinality(DOMAIN rects) |-> n])

DirectionsReach ==
  LET rects == Rects(tree, 0, Viewport)
  IN  \A p \in DOMAIN rects : Reached(rects, p) = DOMAIN rects

(* A resize changes the pane in the way it is asked to and by no more than *)
(* it is asked for, unless the ratio was out of the bounds it then comes   *)
(* back to, as it can be when the window has become smaller.               *)
Bounded(p, orient) ==
  LET split == Lowest(SplitsAbove(tree, p, orient))
      whole == Extent(RectOf(tree, Whole(Viewport))[split], orient)
  IN  whole # 0 /\ AtMost(Lo(tree, split, whole), tree[split].ratio) /\ AtMost(tree[split].ratio, Hi(tree, split, whole))

ExtentOf(t, p, orient) == Extent(RectOf(t, Whole(Viewport))[PathOf(t, p)], orient)

ResizeHeeds ==
  \A p \in PanesIn(tree), orient \in {Across, Down}, growing \in BOOLEAN, cells \in Amounts :
    Resize(p, orient, growing, cells) /\ SplitsAbove(tree, p, orient) # {} /\ Bounded(p, orient) =>
      LET grown == ExtentOf(tree', p, orient) - ExtentOf(tree, p, orient)
      IN  IF growing THEN grown \in 0 .. cells ELSE grown \in -cells .. 0

=============================================================================
