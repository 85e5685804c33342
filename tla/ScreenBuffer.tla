----------------------------- MODULE ScreenBuffer -----------------------------
(***************************************************************************)
(* The terminal screen that a host keeps of each session and a UI of each  *)
(* pane: what every control function does to grids, cursor and modes.      *)
(*                                                                         *)
(* A screen is a record and a control function an operator on it.  Grids   *)
(* are row-major, as the code's vectors: a range that runs past its row    *)
(* runs into the next one, and one past the grid panics.  Text is a        *)
(* sequence of characters, a grapheme cluster; widths follow from them.    *)
(***************************************************************************)
EXTENDS Integers, Sequences, SequencesExt, FiniteSetsExt, Sgr

CONSTANTS
  WideChars,      \* characters two columns wide
  Marks           \* characters without width, which join the cluster before

AtMost(m, n) == IF m <= n THEN m ELSE n
AtLeast(m, n) == IF m >= n THEN m ELSE n

-----------------------------------------------------------------------------
(* Cells, grids and fresh screens.                                         *)

Blank == [text |-> <<" ">>, pen |-> Plain, wide |-> "no", link |-> 0, image |-> 0]

Rest == [Blank EXCEPT !.wide = "rest"]

NewGrid(cols, rows) == [i \in 0 .. (cols * rows - 1) |-> Blank]

Modes == [visible |-> TRUE, shape |-> "block", mouse |-> "none",
          sgrMouse |-> FALSE, paste |-> FALSE, keyboard |-> "legacy"]

NoCursor == [row |-> -1, col |-> -1, pen |-> Plain]

Fresh(cols, rows, max) ==
  [cols |-> cols, rows |-> rows, max |-> max,
   primary |-> NewGrid(cols, rows), alternate |-> NewGrid(cols, rows),
   onAlternate |-> FALSE, scrollback |-> <<>>,
   row |-> 0, col |-> 0, saved |-> NoCursor, altSaved |-> NoCursor,
   pen |-> Plain, top |-> 0, bottom |-> rows - 1,
   title |-> "", progress |-> "none", links |-> <<>>, link |-> 0,
   images |-> 0, notes |-> 0, modes |-> Modes,
   pending |-> <<>>, panicked |-> FALSE]

Active(s) == IF s.onAlternate THEN s.alternate ELSE s.primary

WithActive(s, grid) ==
  IF s.onAlternate THEN [s EXCEPT !.alternate = grid] ELSE [s EXCEPT !.primary = grid]

RowOf(grid, cols, r) == [c \in 0 .. (cols - 1) |-> grid[r * cols + c]]

Erased(grid, from, to) ==
  [i \in DOMAIN grid |-> IF from <= i /\ i < to THEN Blank ELSE grid[i]]

(* copy_within: the cells of from .. to - 1 go to dest and on.             *)
Copied(grid, from, to, dest) ==
  [i \in DOMAIN grid |->
     IF dest <= i /\ i < dest + (to - from) THEN grid[i - dest + from] ELSE grid[i]]

-----------------------------------------------------------------------------
(* Scrolling.                                                              *)

Newest(rows, max) == SubSeq(rows, AtLeast(1, Len(rows) - max + 1), Len(rows))

(* The rows top .. bottom move up by n; those that leave the top of the    *)
(* whole screen enter the history if the caller keeps one.                 *)
RegionUp(s, top, bottom, n, keep) ==
  LET m == AtMost(n, bottom + 1 - top)
      moved == Copied(Active(s), (top + m) * s.cols, (bottom + 1) * s.cols, top * s.cols)
      grid == Erased(moved, (bottom + 1 - m) * s.cols, (bottom + 1) * s.cols)
      gone == [i \in 1 .. m |-> RowOf(Active(s), s.cols, i - 1)]
  IN  [WithActive(s, grid) EXCEPT
         !.scrollback = IF keep /\ top = 0 /\ bottom = s.rows - 1
                          THEN Newest(@ \o gone, s.max) ELSE @]

RegionDown(s, top, bottom, n) ==
  LET m == AtMost(n, bottom + 1 - top)
      moved == Copied(Active(s), top * s.cols, (bottom + 1 - m) * s.cols, (top + m) * s.cols)
  IN  WithActive(s, Erased(moved, top * s.cols, (top + m) * s.cols))

(* SU, and what LF and printing do at the bottom of the region.            *)
ScrollUp(s, n) == RegionUp(s, s.top, s.bottom, n, s.top = 0 /\ ~s.onAlternate)

-----------------------------------------------------------------------------
(* Printing.                                                               *)

Width(cluster) ==
  CASE ToSet(cluster) \subseteq Marks            -> 0
    [] ToSet(cluster) \cap WideChars # {}        -> 2
    [] OTHER                                     -> 1

(* print_grapheme: wrap, scroll, write.  A wide cluster in the last column *)
(* has no second half, and leaves the cursor two columns past the last.    *)
PrintCluster(s, cluster) ==
  LET wrapped == IF s.col >= s.cols THEN [s EXCEPT !.col = 0, !.row = @ + 1] ELSE s
      t == IF wrapped.row > s.bottom
             THEN [ScrollUp(wrapped, 1) EXCEPT !.row = s.bottom] ELSE wrapped
      wide == Width(cluster) = 2
      at == t.row * t.cols + t.col
      head == [text |-> cluster, pen |-> t.pen, wide |-> IF wide THEN "head" ELSE "no",
               link |-> t.link, image |-> Active(t)[at].image]
      grid == [i \in DOMAIN Active(t) |->
                 CASE i = at                                  -> head
                   [] i = at + 1 /\ wide /\ t.col + 1 < t.cols -> Rest
                   [] OTHER                                   -> Active(t)[i]]
  IN  IF Width(cluster) = 0 THEN s
      ELSE [WithActive(t, grid) EXCEPT !.col = @ + Width(cluster)]

(* The last cluster waits for characters that may still join it.           *)
Flush(s) ==
  IF s.pending = <<>> THEN s
  ELSE [PrintCluster(s, s.pending) EXCEPT !.pending = <<>>]

PrintChar(s, char) ==
  IF char \in Marks /\ s.pending # <<>>
    THEN [s EXCEPT !.pending = Append(@, char)]
    ELSE [Flush(s) EXCEPT !.pending = <<char>>]

(* handle_kitty_graphics: a placeholder where the cursor is.               *)
PlaceImage(s) ==
  LET col == AtMost(s.col, s.cols - 1)
      at == AtMost(s.row, s.rows - 1) * s.cols + col
      cell == [text |-> <<"image">>, pen |-> s.pen, wide |-> "no", link |-> 0,
               image |-> s.images + 1]
  IN  [WithActive(s, [Active(s) EXCEPT ![at] = cell]) EXCEPT
         !.images = @ + 1, !.col = AtMost(col + 1, s.cols - 1)]

-----------------------------------------------------------------------------
(* Control characters: execute.                                            *)

TabWidth == 8

LineFeed(s) ==
  IF s.row = s.bottom THEN ScrollUp(s, 1)
  ELSE [s EXCEPT !.row = AtMost(@ + 1, s.rows - 1)]

Execute(s, c) ==
  CASE c.op = "BS" -> [s EXCEPT !.col = AtLeast(@ - 1, 0)]
    [] c.op = "HT" -> [s EXCEPT !.col = AtMost(((@ \div TabWidth) + 1) * TabWidth, s.cols - 1)]
    [] c.op = "LF" -> LineFeed(s)
    [] c.op = "CR" -> [s EXCEPT !.col = 0]

-----------------------------------------------------------------------------
(* Control sequences: csi_dispatch.  A count of 0 counts as 1.             *)

Count(n) == AtLeast(n, 1)

MoveCursor(s, c) ==
  LET n == Count(c.n)
      lastRow == s.rows - 1
      lastCol == s.cols - 1
  IN  CASE c.op = "CUU" -> [s EXCEPT !.row = AtLeast(AtLeast(@ - n, 0), s.top)]
        [] c.op = "CUD" -> [s EXCEPT !.row = AtMost(@ + n, s.bottom)]
        [] c.op = "CUF" -> [s EXCEPT !.col = AtMost(@ + n, lastCol)]
        [] c.op = "CUB" -> [s EXCEPT !.col = AtLeast(@ - n, 0)]
        [] c.op = "CNL" -> [s EXCEPT !.row = AtMost(@ + n, lastRow), !.col = 0]
        [] c.op = "CPL" -> [s EXCEPT !.row = AtLeast(@ - n, 0), !.col = 0]
        [] c.op = "CHA" -> [s EXCEPT !.col = AtMost(n - 1, lastCol)]
        [] c.op = "VPA" -> [s EXCEPT !.row = AtMost(n - 1, lastRow)]
        [] c.op = "CUP" -> [s EXCEPT !.row = AtMost(n - 1, lastRow),
                                     !.col = AtMost(Count(c.m) - 1, lastCol)]

(* The cells ED (whole screen) and EL (the cursor's row) erase: from the   *)
(* cursor, up to it, or all.                                               *)
EraseRange(s, c) ==
  LET at == s.row * s.cols + s.col
      first == IF c.op = "ED" THEN 0 ELSE s.row * s.cols
      end == IF c.op = "ED" THEN s.rows * s.cols ELSE (s.row + 1) * s.cols
  IN  CASE c.n = 0 -> [from |-> at, to |-> end]
        [] c.n = 1 -> [from |-> first, to |-> at + 1]
        [] c.n = 2 \/ (c.n = 3 /\ c.op = "ED") -> [from |-> first, to |-> end]
        [] OTHER   -> [from |-> 0, to |-> 0]

Erase(s, c) ==
  LET range == EraseRange(s, c)
  IN  WithActive(s, Erased(Active(s), range.from, range.to))

InsertLines(s, n) == RegionDown(s, s.row, s.bottom, n)

DeleteLines(s, n) == RegionUp(s, s.row, s.bottom, n, FALSE)

(* DCH, ICH, ECH, within the cursor's row.                                 *)
EditRow(s, c) ==
  LET n == Count(c.n)
      at == s.row * s.cols + s.col
      end == (s.row + 1) * s.cols
      grid == Active(s)
      fits == s.col + n < s.cols
  IN  WithActive(s,
        CASE c.op = "DCH" -> Erased(IF fits THEN Copied(grid, at + n, end, at) ELSE grid,
                                    AtLeast(end - n, at), end)
          [] c.op = "ICH" -> Erased(IF fits THEN Copied(grid, at, end - n, at + n) ELSE grid,
                                    at, AtMost(at + n, end))
          [] c.op = "ECH" -> Erased(grid, at, AtMost(at + n, end)))

SetRegion(s, c) ==
  LET top == Count(c.n) - 1
      bottom == (IF c.m < 0 THEN s.rows ELSE Count(c.m)) - 1   \* negative: not given
  IN  IF top < bottom /\ bottom < s.rows
        THEN [s EXCEPT !.top = top, !.bottom = bottom, !.row = 0, !.col = 0]
        ELSE s

-----------------------------------------------------------------------------
(* Saved cursors and the alternate screen.                                 *)

SavedHere(s) == IF s.onAlternate THEN s.altSaved ELSE s.saved

Bug_OneSavedCursor(s) ==
  [s EXCEPT !.saved = [row |-> s.row, col |-> s.col, pen |-> s.pen]]

SaveCursor(s) ==
  LET c == [row |-> s.row, col |-> s.col, pen |-> s.pen]
  IN  IF s.onAlternate THEN [s EXCEPT !.altSaved = c] ELSE [s EXCEPT !.saved = c]

(* A saved cursor is restored once.                                        *)
RestoreCursor(s) ==
  LET c == SavedHere(s)
      t == IF s.onAlternate THEN [s EXCEPT !.altSaved = NoCursor]
                            ELSE [s EXCEPT !.saved = NoCursor]
  IN  IF c = NoCursor THEN s
      ELSE [t EXCEPT !.row = AtMost(c.row, s.rows - 1),
                     !.col = AtMost(c.col, s.cols - 1), !.pen = c.pen]

EnterAlternate(s) ==
  IF s.onAlternate THEN s
  ELSE [s EXCEPT !.onAlternate = TRUE, !.alternate = NewGrid(s.cols, s.rows),
                 !.row = 0, !.col = 0, !.modes.visible = TRUE, !.modes.shape = "block"]

LeaveAlternate(s) == [s EXCEPT !.onAlternate = FALSE]

SetMode(s, c) ==
  CASE c.arg = "visible"   -> [s EXCEPT !.modes.visible = TRUE]
    [] c.arg \in {"normal", "button", "any"} -> [s EXCEPT !.modes.mouse = c.arg]
    [] c.arg = "sgrMouse"  -> [s EXCEPT !.modes.sgrMouse = TRUE]
    [] c.arg = "paste"     -> [s EXCEPT !.modes.paste = TRUE]
    [] c.arg = "alternate" -> EnterAlternate(SaveCursor(s))

ResetMode(s, c) ==
  CASE c.arg = "visible"   -> [s EXCEPT !.modes.visible = FALSE]
    [] c.arg \in {"normal", "button", "any"} -> [s EXCEPT !.modes.mouse = "none"]
    [] c.arg = "sgrMouse"  -> [s EXCEPT !.modes.sgrMouse = FALSE]
    [] c.arg = "paste"     -> [s EXCEPT !.modes.paste = FALSE]
    [] c.arg = "alternate" -> RestoreCursor(LeaveAlternate(s))

(* RIS; notifications not drained yet survive it.                          *)
Reset(s) == [Fresh(s.cols, s.rows, s.max) EXCEPT !.notes = s.notes]

(* Operating system commands: title, progress, links, notifications.       *)
SystemCommand(s, c) ==
  CASE c.op = "TITLE"    -> [s EXCEPT !.title = c.arg]
    [] c.op = "PROGRESS" -> [s EXCEPT !.progress = c.arg]
    [] c.op = "NOTIFY"   -> [s EXCEPT !.notes = @ + 1]
    [] c.op = "LINK"     ->
         IF c.arg = "" THEN [s EXCEPT !.link = 0]
         ELSE LET known == SelectInSeq(s.links, LAMBDA uri : uri = c.arg)
              IN  IF known # 0 THEN [s EXCEPT !.link = known]
                  ELSE [s EXCEPT !.links = Append(@, c.arg), !.link = Len(s.links) + 1]

-----------------------------------------------------------------------------
(* One control function.                                                   *)

(* The ranges of cells that are taken before they are clamped.             *)
Panics(s, c) ==
  CASE c.op \in {"ED", "EL"} ->
         LET range == EraseRange(s, c)
         IN  range.from > range.to \/ range.to > s.rows * s.cols
    [] c.op \in {"IL", "DL"} -> s.row > s.bottom + 1
    [] c.op \in {"DCH", "ICH"} -> s.col > s.cols
    [] OTHER -> FALSE

Dispatch(s, c) ==
  CASE c.op \in {"BS", "HT", "LF", "CR"} -> Execute(s, c)
    [] c.op \in {"CUU", "CUD", "CUF", "CUB", "CNL", "CPL", "CHA", "VPA", "CUP"} ->
         MoveCursor(s, c)
    [] c.op \in {"ED", "EL"} -> Erase(s, c)
    [] c.op \in {"DCH", "ICH", "ECH"} -> EditRow(s, c)
    [] c.op = "IL" -> InsertLines(s, Count(c.n))
    [] c.op = "DL" -> DeleteLines(s, Count(c.n))
    [] c.op = "SU" -> ScrollUp(s, Count(c.n))
    [] c.op = "SD" -> RegionDown(s, s.top, s.bottom, Count(c.n))
    [] c.op = "SGR" -> [s EXCEPT !.pen = ApplySgr(@, c.params)]
    [] c.op = "REGION" -> SetRegion(s, c)
    [] c.op = "SAVE" -> SaveCursor(s)
    [] c.op = "RESTORE" -> RestoreCursor(s)
    [] c.op = "SHAPE" -> [s EXCEPT !.modes.shape = c.arg]
    [] c.op = "KEYBOARD" -> [s EXCEPT !.modes.keyboard = c.arg]
    [] c.op = "SET" -> SetMode(s, c)
    [] c.op = "RESET" -> ResetMode(s, c)
    [] c.op = "RIS" -> Reset(s)
    [] c.op \in {"TITLE", "PROGRESS", "NOTIFY", "LINK"} -> SystemCommand(s, c)

(* A character is buffered; everything else flushes the buffer first.      *)
Step(s, c) ==
  IF c.op = "PRINT" THEN PrintChar(s, c.arg)
  ELSE LET t == Flush(s)
       IN  IF Panics(t, c) THEN [t EXCEPT !.panicked = TRUE] ELSE Dispatch(t, c)

(* A chunk of output.  Images are taken out of it before the rest is read; *)
(* a panic drops what is left of it.                                       *)
Advance(s, chunk) ==
  LET images == SelectSeq(chunk, LAMBDA c : c.op = "IMAGE")
      rest == SelectSeq(chunk, LAMBDA c : c.op # "IMAGE")
      placed == FoldLeft(LAMBDA t, c : PlaceImage(t), s, images)
  IN  Flush(FoldLeft(LAMBDA t, c : IF t.panicked THEN t ELSE Step(t, c), placed, rest))

-----------------------------------------------------------------------------
(* Requests other than output.                                             *)

ResizedGrid(grid, s, cols, rows) ==
  [i \in 0 .. (cols * rows - 1) |->
     LET r == i \div cols
         c == i % cols
     IN  IF r < s.rows /\ c < s.cols THEN grid[r * s.cols + c] ELSE Blank]

Resize(s, cols, rows) ==
  [s EXCEPT !.cols = cols, !.rows = rows,
            !.primary = ResizedGrid(@, s, cols, rows),
            !.alternate = ResizedGrid(@, s, cols, rows),
            !.row = AtMost(@, rows - 1), !.col = AtMost(@, cols - 1),
            !.top = 0, !.bottom = rows - 1]

ClearScrollback(s) == [s EXCEPT !.scrollback = <<>>]

ClearBuffer(s) ==
  [WithActive(ClearScrollback(s), NewGrid(s.cols, s.rows)) EXCEPT
     !.row = 0, !.col = 0, !.pending = <<>>]

DrainNotifications(s) == [s EXCEPT !.notes = 0]

-----------------------------------------------------------------------------
(* Control functions as values.                                            *)

Plainly(op) == [op |-> op, n |-> 0, m |-> 0, arg |-> "", params |-> <<>>]
By(op, n) == [Plainly(op) EXCEPT !.n = n]
At(op, n, m) == [Plainly(op) EXCEPT !.n = n, !.m = m]
With(op, arg) == [Plainly(op) EXCEPT !.arg = arg]
Pen(params) == [Plainly("SGR") EXCEPT !.params = params]
PrintAll(text) == [i \in DOMAIN text |-> With("PRINT", text[i])]

(* What a row reads as: its cells but for second halves.                   *)
CellsOf(row, cols) ==
  LET seq == [i \in 1 .. AtMost(cols, Cardinality(DOMAIN row)) |-> row[i - 1]]
  IN  SelectSeq(seq, LAMBDA cell : cell.wide # "rest")

TextOf(row, cols) == [i \in DOMAIN CellsOf(row, cols) |-> CellsOf(row, cols)[i].text]

(* emit_cells_as_vt_line.                                                  *)
EmitRow(row, cols) ==
  FlattenSeq([i \in DOMAIN CellsOf(row, cols) |->
                <<Pen(BuildSgr(CellsOf(row, cols)[i].pen))>> \o
                PrintAll(CellsOf(row, cols)[i].text)])

(* to_vt_snapshot.                                                         *)
Snapshot(s) ==
  LET row(r) == (IF r > 0 THEN <<At("CUP", r + 1, 1)>> ELSE <<>>) \o
                EmitRow(RowOf(Active(s), s.cols, r), s.cols)
      if(on, c) == IF on THEN <<c>> ELSE <<>>
  IN  if(s.title # "", With("TITLE", s.title)) \o
      if(s.progress # "none", With("PROGRESS", s.progress)) \o
      if(s.onAlternate, With("SET", "alternate")) \o
      <<By("ED", 2), At("CUP", 1, 1)>> \o
      FlattenSeq([r \in 1 .. s.rows |-> row(r - 1)]) \o
      <<Pen(<<<<0>>>>), At("CUP", s.row + 1, s.col + 1), With("SHAPE", s.modes.shape),
        With(IF s.modes.visible THEN "SET" ELSE "RESET", "visible")>> \o
      if(s.modes.mouse # "none", With("SET", s.modes.mouse)) \o
      if(s.modes.sgrMouse, With("SET", "sgrMouse")) \o
      if(s.modes.paste, With("SET", "paste"))

(* to_vt_scrollback.                                                       *)
History(s) ==
  FlattenSeq([i \in DOMAIN s.scrollback |->
                EmitRow(s.scrollback[i], s.cols) \o <<Plainly("CR"), Plainly("LF")>>])
  \o <<Pen(<<<<0>>>>)>>

(* capture_extended: the first line captured, of the lines of history and  *)
(* screen, which count from 0; matches are the lines the anchor occurs in. *)
CaptureStart(total, history, matches, anchored, lines, all, max) ==
  LET default == CASE lines >= 0 -> AtLeast(total - lines, 0)
                   [] lines < 0 /\ all -> 0
                   [] OTHER -> history
      start == IF anchored /\ matches # {} THEN Max(matches) ELSE default
  IN  IF max >= 0 /\ total - start > max THEN total - max ELSE start

=============================================================================
