-------------------------------- MODULE UiView ---------------------------------
(***************************************************************************)
(* What a pane shows of its buffer and what of it is selected: the offset  *)
(* into the scrollback, the selection by mouse and by keys, search, and    *)
(* the scrollbar.  The buffer grows while all this is kept: an offset is   *)
(* counted from its live end, a selection and a match from its oldest row, *)
(* and both are kept by the number that the last snapshot gave the pane.   *)
(*                                                                         *)
(* A line is known by its number in the order of printing.  An application *)
(* prints lines, takes and leaves the alternate screen, and asks for mouse *)
(* reports; what it draws over a line already shown is still that line.    *)
(***************************************************************************)
EXTENDS Integers, Sequences, SequencesExt, FiniteSets, FiniteSetsExt

CONSTANTS
  Sessions,       \* the sessions of the tab, whose screens the UI mirrors
  Rows, Cols,     \* the size of every pane
  MaxHistory,     \* max_scrollback
  Histories,      \* scrollbacks to begin with
  Queries,        \* what is searched for: by name, the lines that hold it
  Notches,        \* turns of the wheel, up positive
  Height,         \* of a pane, in pixels
  Points,         \* where its scrollbar is pressed
  MaxSteps        \* bound: steps taken

ASSUME UiViewAssumption ==
  /\ IsFiniteSet(Sessions) /\ Sessions # {}
  /\ Rows \in Nat \ {0} /\ Cols \in Nat \ {0} /\ Height \in Nat \ {0}
  /\ MaxHistory \in Nat /\ Notches \subseteq Int
  /\ Histories \subseteq 0..MaxHistory /\ Points \subseteq 0..(Height - 1)

VARIABLES
  screens,        \* by session: lines printed, of which so many above the screen, and the kind of screen
  panes, focus,   \* the session of each pane by number, and the focused pane
  views,          \* pane_states, by number: the offset and the selection
  drag,           \* left_down, selecting_pane, selection_pointer, vt_mouse_pane
  thumb,          \* the scrollbar's drag
  mark,           \* KeyboardSelectionState
  find,           \* FindState
  chosen,         \* by number: the lines at the ends of the selection, while rows still name them
  steps

viewVars == <<screens, panes, focus, views, drag, thumb, mark, find, chosen, steps>>

Numbers == 1 .. Len(panes)

Screen(p) == screens[panes[p]]

TotalRows(s) == s.history + Rows

(* cell_at_virtual: the scrollback, then the screen, which while it is the *)
(* alternate one has no line of the buffer.                                *)
LineAt(s, row) ==
  IF row >= s.history /\ s.kind = "alternate" THEN 0 ELSE s.printed - TotalRows(s) + row + 1

(* visible_base_row, and base_row of the renderer.                         *)
Base(p) == Max({Screen(p).history - views[p].offset, 0})

Clamped(n, high) == Max({0, Min({n, high})})

-----------------------------------------------------------------------------
(* Steps that change a pane's view.                                        *)

LinesOf(p, selection) == [i \in DOMAIN selection |-> LineAt(Screen(p), selection[i][1])]

Kept == UNCHANGED <<screens, panes, thumb, find>>

Tick == steps < MaxSteps /\ steps' = steps + 1

(* set_selection and clear_selection end a drag in that pane; the second   *)
(* also forgets that it was told of a press.                               *)
Undragged(p, clears) ==
  [drag EXCEPT !.pane = IF @ = p THEN 0 ELSE @, !.told = IF clears /\ @ = p THEN 0 ELSE @]

View(p, offset, selection) == views' = [views EXCEPT ![p] = [offset |-> offset, selection |-> selection]]

Select(p, offset, selection) ==
  /\ View(p, offset, selection)
  /\ chosen' = [chosen EXCEPT ![p] = LinesOf(p, selection)]
  /\ drag' = Undragged(p, selection = <<>>)

ScrollTo(p, offset) == View(p, offset, views[p].selection) /\ UNCHANGED <<chosen, drag>>

Bug_PastTheTop(p, lines) == ScrollTo(p, Max({views[p].offset + lines, 0}))

(* scroll_by; the wheel, with clamp_scroll of the loop after it.           *)
ScrollBy(p, lines) == ScrollTo(p, Clamped(views[p].offset + lines, Screen(p).history))

(* prepare_pane_for_live_input.                                            *)
ForInput(p, clears) ==
  IF Screen(p).kind = "alternate" THEN UNCHANGED <<views, chosen, drag>>
  ELSE IF clears /\ views[p].selection # <<>> THEN Select(p, 0, <<>>)
  ELSE ScrollTo(p, 0)

-----------------------------------------------------------------------------
(* Applications and the host.                                              *)

NumbersOf(session) == {p \in Numbers : panes[p] = session}

Unsure(ps) == chosen' = [p \in DOMAIN chosen |-> IF p \in ps THEN <<>> ELSE chosen[p]]

Stale(ps) == find' = [find EXCEPT !.sure = @ /\ find.pane \notin ps]

(* A line is printed; the oldest one is dropped if the scrollback is full. *)
Output == \E s \in Sessions :
  LET full == screens[s].history = MaxHistory
  IN  /\ screens[s].kind # "alternate"
      /\ screens' = [screens EXCEPT ![s].printed = @ + 1, ![s].history = Min({@ + 1, MaxHistory})]
      /\ Unsure(IF full THEN NumbersOf(s) ELSE {}) /\ Stale(IF full THEN NumbersOf(s) ELSE {})
      /\ UNCHANGED <<panes, focus, views, drag, thumb, mark>>

SetKind == \E s \in Sessions, kind \in {"lines", "alternate", "mouse"} :
  /\ screens' = [screens EXCEPT ![s].kind = kind]
  /\ Unsure(NumbersOf(s)) /\ Stale(NumbersOf(s))
  /\ UNCHANGED <<panes, focus, views, drag, thumb, mark>>

(* A snapshot: the panes are numbered afresh, and their buffers are those  *)
(* of the host, which may keep fewer lines.                                *)
Reshown ==
  /\ panes' \in SetToSeqs(Sessions) /\ focus' \in DOMAIN panes'
  /\ \E s \in Sessions : \E h \in {0, screens[s].history} : screens' = [screens EXCEPT ![s].history = h]
  /\ Unsure(Numbers) /\ Stale(Numbers)
  /\ UNCHANGED <<views, drag, thumb, mark>>

(* clear-buffer and clear-scrollback: not the search.                      *)
Clear == \E blank \in {0, Rows} :
  /\ screens' = [screens EXCEPT ![panes[focus]].printed = @ + blank, ![panes[focus]].history = 0]
  /\ View(focus, 0, <<>>) /\ drag' = Undragged(focus, TRUE)
  /\ Unsure({focus}) /\ Stale({focus})
  /\ mark' = [pane |-> 0, start |-> FALSE]
  /\ UNCHANGED <<panes, focus, thumb>>

-----------------------------------------------------------------------------
(* Keys.                                                                   *)

(* navigate_focused_scrollback.                                            *)
Navigate ==
  /\ Screen(focus).kind # "alternate"
  /\ LET page == Max({Rows - 1, 1})
     IN  \/ \E lines \in {1, -1, page, -page} : ScrollBy(focus, lines)
         \/ \E offset \in {0, Screen(focus).history} : ScrollTo(focus, offset)
  /\ Kept /\ UNCHANGED <<focus, mark>>

CursorAt(p, row, col) == <<Min({Base(p) + row, TotalRows(Screen(p)) - 1}), Min({col, Cols - 1})>>

Marking == mark' = [pane |-> focus, start |-> FALSE]

(* activate_keyboard_mark_mode: where the cursor would be in what is shown. *)
MarkMode == \E row \in 0..(Rows - 1) :
  /\ IF views[focus].selection # <<>> THEN UNCHANGED <<views, chosen, drag>>
     ELSE LET at == CursorAt(focus, row, 0) IN Select(focus, views[focus].offset, <<at, at>>)
  /\ Marking /\ Kept /\ UNCHANGED focus

SelectAll ==
  /\ Select(focus, views[focus].offset,
            <<<<Base(focus), 0>>, <<Min({Base(focus) + Rows, TotalRows(Screen(focus))}) - 1, Cols - 1>>>>)
  /\ Marking /\ Kept /\ UNCHANGED focus

SwitchEndpoint ==
  mark.pane # 0 /\ mark' = [mark EXCEPT !.start = ~@] /\ Kept /\ UNCHANGED <<focus, views, chosen, drag>>

Moves(at, s) ==
  {[at EXCEPT ![2] = Max({@ - 1, 0})], [at EXCEPT ![2] = Min({@ + 1, Cols - 1})],
   [at EXCEPT ![1] = Max({@ - 1, 0})], [at EXCEPT ![1] = Min({@ + 1, TotalRows(s) - 1})],
   [at EXCEPT ![2] = 0], [at EXCEPT ![2] = Cols - 1], [at EXCEPT ![1] = 0], [at EXCEPT ![1] = TotalRows(s) - 1]}

(* move_keyboard_selection, which never scrolls.  The other end keeps the  *)
(* line it names.                                                          *)
MoveMark ==
  /\ mark.pane = focus
  /\ LET end == IF mark.start THEN 1 ELSE 2
         old == IF views[focus].selection # <<>> THEN views[focus].selection
                ELSE <<CursorAt(focus, 0, 0), CursorAt(focus, 0, 0)>>
     IN  \E at \in Moves(old[end], Screen(focus)) :
           LET new == [old EXCEPT ![end] = at]
           IN  /\ View(focus, views[focus].offset, new)
               /\ chosen' = [chosen EXCEPT ![focus] =
                    IF views[focus].selection = <<>> THEN LinesOf(focus, new)
                    ELSE IF @ = <<>> THEN <<>> ELSE [@ EXCEPT ![end] = LineAt(Screen(focus), at[1])]]
               /\ drag' = Undragged(focus, FALSE)
  /\ Kept /\ UNCHANGED <<focus, mark>>

EndMark ==
  mark.pane # 0 /\ mark' = [pane |-> 0, start |-> FALSE] /\ Kept /\ UNCHANGED <<focus, views, chosen, drag>>

(* Typing and pasting.                                                     *)
Type == ForInput(focus, TRUE) /\ Kept /\ UNCHANGED <<focus, mark>>

FocusOther == \E p \in Numbers \ {focus} : focus' = p /\ Kept /\ UNCHANGED <<views, chosen, drag, mark>>

-----------------------------------------------------------------------------
(* Search.                                                                 *)

(* find_matches, by lines.  Columns are left out: the code takes a byte    *)
(* offset in the lower-cased line for a column (main.rs:1811-1815), so     *)
(* with text that is not ASCII it selects other cells of the line.         *)
Matches(s, query) == {row \in 0..(TotalRows(s) - 1) : LineAt(s, row) \in Queries[query]}

(* apply_find_match.                                                       *)
ApplyFind(p, row) ==
  Select(p, Screen(p).history - Min({row, Screen(p).history}), <<<<row, 0>>, <<row, 0>>>>)

(* start_find: without a match the selection goes.                         *)
Find == \E query \in DOMAIN Queries :
  LET matches == Matches(Screen(focus), query)
      first   == IF matches = {} THEN 0 ELSE Min(matches)
  IN  /\ find' = [pane |-> focus, query |-> query, matches |-> matches, current |-> first, sure |-> TRUE]
      /\ IF matches = {} THEN Select(focus, views[focus].offset, <<>>) ELSE ApplyFind(focus, first)
      /\ UNCHANGED <<screens, panes, focus, thumb, mark>>

(* next_find_index: the next match down or up, round the ends.             *)
NextMatch(forward) ==
  LET beyond == {row \in find.matches : IF forward THEN row > find.current ELSE row < find.current}
      among  == IF beyond = {} THEN find.matches ELSE beyond
  IN  IF forward THEN Min(among) ELSE Max(among)

(* navigate_find, over the matches that the search found at first; a line  *)
(* may hold several.                                                       *)
FindNext ==
  /\ find.pane = focus /\ find.matches # {}
  /\ \E forward \in BOOLEAN : \E row \in {NextMatch(forward), find.current} \cap find.matches :
       find' = [find EXCEPT !.current = row] /\ ApplyFind(focus, row)
  /\ UNCHANGED <<screens, panes, focus, thumb, mark>>

-----------------------------------------------------------------------------
(* The mouse.                                                              *)

Bug_OfTheLiveEnd(p, row) == Screen(p).history + row

(* viewport_to_buffer_row.                                                 *)
BufferRow(p, row) == Base(p) + row

(* What is drawn where the pointer is.                                     *)
Drawn(p, row) == LineAt(Screen(p), Base(p) + row)

CellsAt == (0..(Rows - 1)) \X (0..(Cols - 1))

(* A pane whose application asked for mouse reports (here: of moves too)   *)
(* is sent one and shown live.                                             *)
Reported(vs, p) == IF p \in Numbers /\ Screen(p).kind = "mouse" THEN [vs EXCEPT ![p].offset = 0] ELSE vs

Pointed == IF drag.told \in Numbers THEN drag.told ELSE focus

(* A press in a pane: it is told, or a selection starts.                   *)
PressCell == \E p \in Numbers, cell \in CellsAt :
  LET at == <<BufferRow(p, cell[1]), cell[2]>>
  IN  /\ thumb.pane = 0 /\ ~drag.down
      /\ focus' = p
      /\ IF Screen(p).kind = "mouse"
           THEN /\ views' = Reported(views, p) /\ drag' = [drag EXCEPT !.down = TRUE, !.told = p]
                /\ UNCHANGED chosen
           ELSE /\ View(p, views[p].offset, <<at, at>>)
                /\ drag' = [down |-> TRUE, pane |-> p, told |-> 0, out |-> 0, cell |-> cell]
                /\ chosen' = [chosen EXCEPT ![p] = <<Drawn(p, cell[1]), Drawn(p, cell[1])>>]
      /\ Kept /\ UNCHANGED mark

(* update_selection_endpoint_from_pointer.                                 *)
EndAt(p, offset, cell, told) ==
  LET row == Max({Screen(p).history - offset, 0}) + cell[1]
      old == views[p].selection
      new == IF old = <<>> THEN <<>> ELSE <<old[1], <<row, cell[2]>>>>
  IN  /\ views' = Reported([views EXCEPT ![p] = [offset |-> offset, selection |-> new]], told)
      /\ chosen' = [chosen EXCEPT ![p] = IF @ = <<>> THEN <<>> ELSE <<@[1], LineAt(Screen(p), row)>>]

Selecting == drag.down /\ drag.pane \in Numbers

(* A move in a drag; the pointer may leave the pane above (1) or below     *)
(* (-1), where its row is the pane's first or last.                        *)
DragTo == \E cell \in CellsAt, out \in {-1, 0, 1} :
  /\ thumb.pane = 0 /\ Selecting
  /\ out # 0 => cell[1] = IF out = 1 THEN 0 ELSE Rows - 1
  /\ EndAt(drag.pane, views[drag.pane].offset, cell, Pointed)
  /\ drag' = [drag EXCEPT !.out = out, !.cell = cell]
  /\ Kept /\ UNCHANGED <<focus, mark>>

Hover ==
  /\ thumb.pane = 0 /\ ~Selecting
  /\ views' = Reported(views, Pointed)
  /\ Kept /\ UNCHANGED <<focus, mark, drag, chosen>>

(* tick_selection_autoscroll, which does not ask for the kind of screen.   *)
Autoscroll ==
  /\ Selecting /\ drag.out # 0
  /\ EndAt(drag.pane, Clamped(views[drag.pane].offset + drag.out, Screen(drag.pane).history), drag.cell, 0)
  /\ Kept /\ UNCHANGED <<focus, mark, drag>>

Undragging == [down |-> FALSE, pane |-> 0, told |-> 0, out |-> 0, cell |-> <<0, 0>>]

(* A click selects nothing.  The release is told to the pane of the press, *)
(* or the one it is over.                                                  *)
Release == \E over \in Numbers :
  LET p       == drag.pane
      clicked == p \in Numbers /\ views[p].selection # <<>> /\ views[p].selection[1] = views[p].selection[2]
  IN  /\ thumb.pane = 0 /\ drag.down /\ drag' = Undragging
      /\ views' = Reported(IF clicked THEN [views EXCEPT ![p].selection = <<>>] ELSE views,
                           IF drag.told \in Numbers THEN drag.told ELSE over)
      /\ chosen' = IF clicked THEN [chosen EXCEPT ![p] = <<>>] ELSE chosen
      /\ Kept /\ UNCHANGED <<focus, mark>>

(* A notch is three lines; a pane that reports the mouse is told.          *)
Wheel == \E p \in Numbers, notches \in Notches :
  /\ IF Screen(p).kind = "mouse" THEN ScrollTo(p, 0)
     ELSE Screen(p).kind = "lines" /\ ScrollBy(p, 3 * notches)
  /\ Kept /\ UNCHANGED <<focus, mark>>

-----------------------------------------------------------------------------
(* The scrollbar, in whole pixels.                                         *)

MinThumb == 28

ArrowHeight == IF Height >= MinThumb + 24 THEN Min({12, Height \div 4}) ELSE 0

Track == Height - 2 * ArrowHeight

ThumbHeight(history) ==
  Max({Min({MinThumb, Track}), Min({(Track * Rows) \div (history + Rows), Track})})

Travel(history) == Track - ThumbHeight(history)

(* scrollbar_metrics: the thumb's top, times the lines it can pass.        *)
ThumbTop(history, offset) == ArrowHeight * history + Travel(history) * (history - Clamped(offset, history))

(* scrollbar_offset_for_thumb_top, rounded.                                *)
OffsetForTop(history, top) ==
  IF Travel(history) = 0 THEN 0
  ELSE LET down == Clamped(top - ArrowHeight * history, Travel(history) * history)
       IN  (2 * (history * Travel(history) - down) + Travel(history)) \div (2 * Travel(history))

HasBar(p) == Screen(p).kind # "alternate" /\ Screen(p).history > 0

(* scrollbar_part_at_point.                                                *)
PartAt(p, y) ==
  LET h   == Screen(p).history
      top == ThumbTop(h, views[p].offset)
  IN  CASE y < ArrowHeight -> "top-arrow"
        [] y >= Height - ArrowHeight -> "bottom-arrow"
        [] OTHER -> IF y * h >= top /\ y * h < top + ThumbHeight(h) * h THEN "thumb"
                    ELSE IF y * h < top THEN "track-above" ELSE "track-below"

(* A press on it is not seen by the mouse handler.                         *)
PressBar == \E p \in Numbers, y \in Points :
  LET h     == Screen(p).history
      by    == CASE PartAt(p, y) = "top-arrow" -> 1
                 [] PartAt(p, y) = "bottom-arrow" -> -1
                 [] PartAt(p, y) = "track-above" -> Rows
                 [] PartAt(p, y) = "track-below" -> -Rows
                 [] OTHER -> 0
  IN  /\ thumb.pane = 0 /\ ~drag.down /\ HasBar(p)
      /\ focus' = p
      /\ IF PartAt(p, y) = "thumb"
           THEN /\ thumb' = [pane |-> p, grab |-> y, top |-> ThumbTop(h, views[p].offset), history |-> h]
                /\ UNCHANGED <<views, chosen, drag>>
           ELSE ScrollBy(p, by) /\ UNCHANGED thumb
      /\ UNCHANGED <<screens, panes, mark, find>>

(* The thumb is dragged by the measures taken when it was pressed, which   *)
(* are those of the pane, the buffer and the number of that time.          *)
DragThumb == \E y \in Points :
  /\ thumb.pane # 0
  /\ ScrollTo(thumb.pane, Clamped(OffsetForTop(thumb.history, thumb.top + (y - thumb.grab) * thumb.history), thumb.history))
  /\ Kept /\ UNCHANGED <<focus, mark>>

NoThumb == [pane |-> 0, grab |-> 0, top |-> 0, history |-> 0]

ReleaseThumb ==
  thumb.pane # 0 /\ thumb' = NoThumb
  /\ UNCHANGED <<screens, panes, focus, views, drag, mark, find, chosen>>

-----------------------------------------------------------------------------
ViewInit ==
  /\ screens \in [Sessions -> {[printed |-> h + Rows, history |-> h, kind |-> "lines"] : h \in Histories}]
  /\ panes \in SetToSeqs(Sessions) /\ focus = 1
  /\ views = [p \in Numbers |-> [offset |-> 0, selection |-> <<>>]]
  /\ drag = Undragging
  /\ thumb = NoThumb
  /\ mark = [pane |-> 0, start |-> FALSE]
  /\ find = [pane |-> 0, query |-> "none", matches |-> {}, current |-> 0, sure |-> FALSE]
  /\ chosen = [p \in Numbers |-> <<>>]
  /\ steps = 0

ViewNext ==
  /\ Tick
  /\ \/ Output \/ SetKind \/ Reshown \/ Clear
     \/ Navigate \/ MarkMode \/ SelectAll \/ SwitchEndpoint \/ MoveMark \/ EndMark \/ Type \/ FocusOther
     \/ Find \/ FindNext
     \/ PressCell \/ DragTo \/ Hover \/ Autoscroll \/ Release \/ Wheel
     \/ PressBar \/ DragThumb \/ ReleaseThumb

ViewSpec == ViewInit /\ [][ViewNext]_viewVars

-----------------------------------------------------------------------------
(* Properties.                                                             *)

(* What is selected, and would be copied, is what the user selected: the   *)
(* ends of a selection are on the lines drawn where they were put, however *)
(* the pane is scrolled and its buffer grows since, until a line of it is  *)
(* dropped, cleared or hidden or the panes are numbered afresh.            *)
SelectionKept == \A p \in Numbers :
  chosen[p] # <<>> => LinesOf(p, views[p].selection) = chosen[p]

(* No step scrolls further back than the oldest line, but a thumb that was *)
(* taken when there were more lines.                                       *)
NoFurther == \A p \in DOMAIN views :
  LET h == screens'[panes'[p]].history
  IN  views'[p].offset <= Max({h, views[p].offset}) \/ (thumb.pane = p /\ thumb.history > h)

ScrollSound == [][NoFurther]_viewVars

(* The scrollbar's thumb, taken and not moved, leaves the view as it is,   *)
(* unless it has no room to move at all.                                   *)
ThumbKept == \A p \in Numbers :
  LET h == Screen(p).history
  IN  HasBar(p) /\ Travel(h) > 0 => OffsetForTop(h, ThumbTop(h, views[p].offset)) = Min({views[p].offset, h})

(* What is drawn as selected, and copied, is what was selected, and the    *)
(* scrollbar's thumb is where its pane is scrolled to.                     *)
ViewsKept == SelectionKept /\ ThumbKept

(* A match that is gone to is on the screen, and its line holds what was   *)
(* searched for, while no line was dropped, cleared or hidden since the    *)
(* search and no snapshot came.  (Which of its cells are selected is not   *)
(* said: see Matches.)                                                     *)
Lands == (Find \/ FindNext) /\ find'.sure /\ find'.matches # {} =>
  LET row == find'.current
      s   == Screen(focus)
  IN  /\ LineAt(s, row) \in Queries[find'.query]
      /\ row - Max({s.history - views'[focus].offset, 0}) \in 0..(Rows - 1)
      /\ views'[focus].selection[1][1] = row

FindLands == [][Lands]_viewVars

(* No step of the keys, the wheel, a drag or a search shows lines that are *)
(* not there, and a match that is gone to is in view.                      *)
ScrollsLand == ScrollSound /\ FindLands

=============================================================================
