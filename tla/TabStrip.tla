------------------------------- MODULE TabStrip --------------------------------
(***************************************************************************)
(* The tab strip along the x axis: where the badge of the workspace, the   *)
(* tabs, the + button, the arrows and the buttons of the window are drawn, *)
(* what a press hits, how the arrows scroll, and how a tab is dragged to   *)
(* another place.  Lengths are in pixels.  The strip is laid out again at  *)
(* every change of a title, of the tabs or of the window; a snapshot of    *)
(* the host makes a new one, and forgets the drag and the scrolling.       *)
(***************************************************************************)
EXTENDS Integers, Sequences, SequencesExt, FiniteSetsExt

CONSTANTS
  Labels,         \* widths of a tab's name, title and progress ring
  Names,          \* widths of the workspace's name; 0: it has none
  Windows,        \* widths of the window
  Places,         \* where the pointer goes
  MaxTabs,        \* bound: tabs
  MaxSteps        \* bound: steps taken

VARIABLES
  strip,          \* tabs (id, label) in order, active tab, scroll offset; widths of window and name
  held,           \* what the left button holds: nothing, a button of the window, a tab
  steps

stripVars == <<strip, held, steps>>

Nothing == [button |-> "none", tab |-> 0, id |-> 0, from |-> 0, active |-> FALSE]

Arrow == 20
Add == 32
Button == 44
MinTab == 80

Within(n, low, high) == Max({low, Min({n, high})})

-----------------------------------------------------------------------------
(* layout.                                                                 *)

ButtonsLeft(s) == Max({s.window - 3 * Button, 0})

Badge(s) ==
  IF s.name = 0 THEN 0
  ELSE Within(s.name + 24, 88, Min({Max({ButtonsLeft(s) - Add - 10 - MinTab, 88}), 480}))

Left(s) == IF Badge(s) = 0 THEN 0 ELSE Badge(s) + 10

TabWidth(label) == Within(label + 56, MinTab, 420)

(* How far from the first each tab begins, a pixel after the one before    *)
(* it; one past the last is the + button.                                  *)
Edges(s) ==
  LET edge[i \in 1 .. Len(s.tabs) + 1] == IF i = 1 THEN 0 ELSE edge[i - 1] + TabWidth(s.tabs[i - 1].label) + 1
  IN  edge

Total(s) == Edges(s)[Len(s.tabs) + 1] + Add

Overflows(s) == Total(s) > Max({s.window - Left(s) - 3 * Button, 0})

ContentLeft(s) == IF Overflows(s) THEN Left(s) + Arrow ELSE Left(s)

ContentRight(s) == s.window - 3 * Button - (IF Overflows(s) THEN Arrow ELSE 0)

Bug_ArrowsForgotten(s) == Max({Total(s) - (s.window - Left(s) - 3 * Button), 0})

MaxScroll(s) == Max({Total(s) - (ContentRight(s) - ContentLeft(s)), 0})

(* What the layout makes of a strip.                                       *)
LaidOut(s) == [s EXCEPT !.scroll = IF Overflows(s) THEN Within(@, 0, MaxScroll(s)) ELSE 0]

Start(s, i) == ContentLeft(s) - s.scroll + Edges(s)[i]

End(s, i) == Start(s, i) + TabWidth(s.tabs[i].label)

In(x, start, length) == x >= start /\ x < start + length

On(s, x) == {i \in DOMAIN s.tabs : In(x, Start(s, i), TabWidth(s.tabs[i].label))}

OnClose(s, x) == {i \in DOMAIN s.tabs : In(x, End(s, i) - 22, 16)}

WindowButtons == <<"minimize", "maximize", "close-window">>

OnButton(s, x) == {i \in 1..3 : In(x, ButtonsLeft(s) + (i - 1) * Button, Button)}

-----------------------------------------------------------------------------
(* on_mouse_down, in the order of its tests.                               *)

Hit(s, x) ==
  LET arrows == Overflows(s)
      part   == IF arrows /\ In(x, Left(s), Arrow) THEN "left"
                ELSE IF arrows /\ In(x, s.window - 3 * Button - Arrow, Arrow) THEN "right"
                ELSE IF OnButton(s, x) # {} THEN WindowButtons[Min(OnButton(s, x))]
                ELSE IF In(x, Start(s, Len(s.tabs) + 1), Add) THEN "add"
                ELSE IF OnClose(s, x) # {} THEN "close"
                ELSE IF On(s, x) # {} THEN "tab" ELSE "none"
  IN  [part |-> part, tab |-> IF part = "close" THEN Min(OnClose(s, x)) ELSE IF part = "tab" THEN Min(On(s, x)) ELSE 0]

(* paint: what covers what, and what is on top.                            *)
Parts == <<"tab", "close", "add", "left", "right">>

Layers(s, x) ==
  LET there(on) == IF on THEN {0} ELSE {}
      arrows    == Overflows(s)
  IN  <<On(s, x), OnClose(s, x), there(In(x, Start(s, Len(s.tabs) + 1), Add)), there(arrows /\ In(x, Left(s), Arrow)),
        there(arrows /\ In(x, s.window - 3 * Button - Arrow, Arrow)), OnButton(s, x)>>

Seen(s, x) ==
  LET layers == Layers(s, x)
      top    == Max({0} \cup {l \in 1..6 : layers[l] # {}})
  IN  IF top = 0 THEN [part |-> "none", tab |-> 0]
      ELSE IF top = 6 THEN [part |-> WindowButtons[Max(layers[6])], tab |-> 0]
      ELSE [part |-> Parts[top], tab |-> Max(layers[top])]

Step == steps < MaxSteps /\ steps' = steps + 1

(* A tab is held from its press, and shown at once; its close button, + and *)
(* the buttons of the window ask others to act.                            *)
Press == \E x \in Places :
  LET hit == Hit(strip, x)
  IN  /\ strip' = CASE hit.part = "left"  -> LaidOut([strip EXCEPT !.scroll = Max({@ - 60, 0})])
                    [] hit.part = "right" -> LaidOut([strip EXCEPT !.scroll = @ + 60])
                    [] hit.part = "tab"   -> [strip EXCEPT !.active = hit.tab]
                    [] OTHER -> strip
      /\ held' = CASE hit.part \in ToSet(WindowButtons) -> [held EXCEPT !.button = hit.part]
                   [] hit.part = "tab" ->
                        [held EXCEPT !.tab = hit.tab, !.id = strip.tabs[hit.tab].id, !.from = x, !.active = FALSE]
                   [] OTHER -> held

(* on_mouse_move, in the strip: the button may be up.                      *)
Move == \E x \in Places :
  /\ held.tab # 0
  /\ held' = [held EXCEPT !.active = @ \/ x - held.from > 5 \/ held.from - x > 5]
  /\ UNCHANGED strip

(* drop_index_at: the first tab whose middle is to the right.              *)
DropAt(s, x) ==
  LET right == {i \in DOMAIN s.tabs : 2 * x < Start(s, i) + End(s, i)}
  IN  IF right = {} THEN Len(s.tabs) ELSE Min(right)

Bug_ActiveLeftBehind(s, from, to) == [s EXCEPT !.tabs = InsertAt(RemoveAt(@, from), to, s.tabs[from])]

(* reorder.                                                                *)
Reordered(s, from, to) ==
  [s EXCEPT !.tabs = InsertAt(RemoveAt(@, from), to, s.tabs[from]),
            !.active = CASE @ = from -> to
                         [] from < @ /\ to >= @ -> @ - 1
                         [] from > @ /\ to <= @ -> @ + 1
                         [] OTHER -> @]

(* on_mouse_up; one off the strip is not told to it.  A button of the      *)
(* window acts if it is still under the pointer, and the tab stays held.   *)
Release == \E x \in Places :
  LET acts == held.button # "none" /\ \E i \in OnButton(strip, x) : held.button = WindowButtons[i]
      to   == DropAt(strip, x)
  IN  /\ held # Nothing
      /\ held' = IF acts THEN [held EXCEPT !.button = "none"] ELSE Nothing
      /\ strip' = IF ~acts /\ held.active /\ to # held.tab
                    THEN LaidOut(Reordered(strip, held.tab, to)) ELSE strip

(* set_active, by keys.                                                    *)
Activate == \E i \in DOMAIN strip.tabs : strip' = [strip EXCEPT !.active = i] /\ UNCHANGED held

(* set_title_suffix and set_progress.                                      *)
Retitle == \E i \in DOMAIN strip.tabs, label \in Labels :
  /\ strip' = LaidOut([strip EXCEPT !.tabs[i].label = label])
  /\ UNCHANGED held

(* layout, with the new width.                                             *)
Resize == \E w \in Windows :
  /\ strip' = LaidOut([strip EXCEPT !.window = w])
  /\ UNCHANGED held

(* New with a workspace.                                                   *)
Strips(window) ==
  {[tabs |-> [i \in 1..n |-> [id |-> i, label |-> label]], active |-> active, scroll |-> 0,
    window |-> window, name |-> name] : n \in 1..MaxTabs, active \in 1..MaxTabs, label \in Labels, name \in Names}

(* A snapshot.                                                             *)
Renew == strip' \in {s \in Strips(strip.window) : s.active <= Len(s.tabs)} /\ held' = Nothing

StripInit ==
  /\ strip \in UNION {{s \in Strips(window) : s.active <= Len(s.tabs)} : window \in Windows}
  /\ held = Nothing /\ steps = 0

StripNext == Step /\ (Press \/ Move \/ Release \/ Activate \/ Retitle \/ Resize \/ Renew)

StripSpec == StripInit /\ [][StripNext]_stripVars

-----------------------------------------------------------------------------
(* Properties.                                                             *)

(* What a press hits is what is drawn there on top, in a window that has   *)
(* room for the badge, both arrows and its buttons.                        *)
PressesSeen ==
  strip.window >= Left(strip) + 2 * Arrow + 3 * Button => \A x \in Places : Hit(strip, x) = Seen(strip, x)

(* Every close button and the + button come between the arrows by presses  *)
(* on them, whatever the titles grew to.                                   *)
TabsReachable ==
  LET still   == [strip EXCEPT !.scroll = 0]
      most    == MaxScroll(strip)
      offsets == {Min({60 * n, most}) : n \in 0 .. (most \div 60) + 1}
      shown(a, b) == \E o \in offsets : a - o >= ContentLeft(strip) /\ b - o <= ContentRight(strip)
  IN  ContentRight(strip) - ContentLeft(strip) >= MinTab =>
        /\ \A i \in DOMAIN strip.tabs : shown(End(still, i) - 22, End(still, i) - 6)
        /\ shown(Start(still, Len(strip.tabs) + 1), Start(still, Len(strip.tabs) + 1) + Add)

(* Only the tab that was pressed last is moved by a release, wherever it   *)
(* is dropped: it is still there, the others are as they were without it,  *)
(* and the active tab stays the same tab.                                  *)
OneTabMoves ==
  [][Release /\ strip'.tabs # strip.tabs =>
       LET others(s) == RemoveAt(s.tabs, CHOOSE i \in DOMAIN s.tabs : s.tabs[i].id = held.id)
       IN  /\ others(strip') = others(strip)
           /\ strip'.tabs[strip'.active].id = strip.tabs[strip.active].id]_stripVars

=============================================================================
