------------------------------- MODULE UiMouse --------------------------------
(***************************************************************************)
(* The mouse of the UI, together with its keyboard: presses told to panes, *)
(* selections, splitters and scrollbars dragged, and the palette, which    *)
(* takes every event of the mouse while it is open, the release too.       *)
(*                                                                         *)
(* A move of the pointer changes none of this: it reads the splitter that  *)
(* is dragged by its index, and the process ends if there is no such       *)
(* splitter.  Clicks on tabs are in UiTabs.                                *)
(***************************************************************************)
EXTENDS UiKeys

VARIABLES
  mouse,          \* MouseHandler.splitter_dragging, PaneLayout.drag, the scrollbar's drag
  button,         \* whether the left button is down
  held,           \* panes told of a press and not of its release
  upset           \* while something is held or dragged: whether the palette, a snapshot or
                  \* typing came between

vars == <<ui, mouse, button, held, upset>>

Splitters(u) == 1 .. (Len(u.layout) - 1)

Areas(u) ==
  {<<"strip", 0>>} \cup {<<"pane", i>> : i \in DOMAIN u.layout} \cup {<<"splitter", i>> : i \in Splitters(u)}
    \cup {<<"bar", i>> : i \in {j \in DOMAIN u.layout : ~Kind[u.layout[j]].alternate}}

(* pane_at_point: a splitter lies on the edges of two panes.               *)
PanesAt(u, area) ==
  CASE area[1] = "strip" -> {} [] area[1] = "splitter" -> {area[2], area[2] + 1} [] OTHER -> {area[2]}

(* Nothing is held or dragged.                                             *)
Settled(u, m, down, told) ==
  ~down /\ told = {} /\ u.selecting = 0 /\ u.vt = 0 /\ m = [splitting |-> FALSE, drag |-> 0, thumb |-> 0]

Upset(cause) == upset' = ((upset \/ cause) /\ ~Settled(ui', mouse', button', held'))

(* The palette takes a press: it hides, or an item of it acts, or nothing. *)
PressOnPalette ==
  /\ ui.palette # None
  /\ \/ ui' = [ui EXCEPT !.palette = None]
     \/ UNCHANGED ui
     \/ /\ ui.palette = "list"
        /\ \E chosen \in Actions : ui' = Dispatch([ui EXCEPT !.palette = None], chosen, FALSE)
  /\ UNCHANGED <<mouse, held>>

(* A press on a scrollbar moves the view, or takes its thumb.              *)
PressOnBar(i) ==
  /\ ui' = [ui EXCEPT !.focus = i]
  /\ \/ mouse' = [mouse EXCEPT !.thumb = i] \/ UNCHANGED mouse
  /\ UNCHANGED held

PressOnSplitter(i) ==
  /\ mouse' = [mouse EXCEPT !.splitting = TRUE, !.drag = i]
  /\ UNCHANGED <<ui, held>>

(* A pane that reports the mouse is told; in another a selection starts.   *)
PressOnPane(i) ==
  /\ IF Kind[ui.layout[i]].mouse
       THEN ui' = [ui EXCEPT !.focus = i, !.vt = i] /\ held' = held \cup {ui.layout[i]}
       ELSE /\ ui' = [ui EXCEPT !.focus = i, !.vt = 0, !.selecting = i, !.selected = @ \cup {i}]
            /\ UNCHANGED held
  /\ UNCHANGED mouse

LeftDown(area) ==
  /\ ~button /\ button' = TRUE
  /\ IF ui.palette # None THEN PressOnPalette
     ELSE CASE area[1] = "strip"    -> UNCHANGED <<ui, mouse, held>>
            [] area[1] = "bar"      -> PressOnBar(area[2])
            [] area[1] = "splitter" -> PressOnSplitter(area[2])
            [] area[1] = "pane"     -> PressOnPane(area[2])
  /\ Upset(FALSE)

(* The second press of a double click comes as another message, and        *)
(* neither palette nor panes make anything of it.                          *)
LeftDoubleDown ==
  /\ ~button /\ button' = TRUE
  /\ UNCHANGED <<ui, mouse, held>> /\ Upset(FALSE)

(* handle_event tells the release to the pane of the press, else to the    *)
(* pane below the pointer, else to the focused pane.                       *)
ReleaseTargets(u, area) ==
  IF u.vt # 0 THEN {u.vt} ELSE IF PanesAt(u, area) # {} THEN PanesAt(u, area) ELSE {u.focus}

Told(u, i) ==
  IF i \in DOMAIN u.layout /\ Kind[u.layout[i]].mouse THEN held \ {u.layout[i]} ELSE held

Bug_LeftUpPoint(area, selects) ==
  /\ button /\ button' = FALSE
  /\ CASE ui.palette # None -> UNCHANGED <<ui, mouse, held>>
       [] ui.palette = None /\ mouse.thumb # 0 -> mouse' = [mouse EXCEPT !.thumb = 0] /\ UNCHANGED <<ui, held>>
       [] OTHER ->
            /\ \E target \in ReleaseTargets([ui EXCEPT !.vt = 0], area) : held' = Told(ui, target)
            /\ ui' = [ui EXCEPT !.vt = 0, !.selecting = 0, !.selected = IF selects THEN @ ELSE @ \ {ui.selecting}]
            /\ mouse' = IF mouse.splitting THEN [mouse EXCEPT !.splitting = FALSE, !.drag = 0] ELSE mouse
  /\ Upset(ui.palette # None)

(* A release: the palette takes it, else a scrollbar that is dragged, else *)
(* it ends every other drag.  A selection of no cells goes.                *)
LeftUp(area, selects) ==
  /\ button /\ button' = FALSE
  /\ CASE ui.palette # None -> UNCHANGED <<ui, mouse, held>>
       [] ui.palette = None /\ mouse.thumb # 0 -> mouse' = [mouse EXCEPT !.thumb = 0] /\ UNCHANGED <<ui, held>>
       [] OTHER ->
            /\ \E target \in ReleaseTargets(ui, area) : held' = Told(ui, target)
            /\ ui' = [ui EXCEPT !.vt = 0, !.selecting = 0, !.selected = IF selects THEN @ ELSE @ \ {ui.selecting}]
            /\ mouse' = IF mouse.splitting THEN [mouse EXCEPT !.splitting = FALSE, !.drag = 0] ELSE mouse
  /\ Upset(ui.palette # None)

(* The right button pastes into a pane that does not report the mouse.     *)
RightDown(area) ==
  /\ ui.palette = None
  /\ \E i \in PanesAt(ui, area) : ~Kind[ui.layout[i]].mouse /\ ui' = Prepared(ui, i)
  /\ UNCHANGED <<mouse, button, held>> /\ Upset(ui'.vt # ui.vt)

(* Rename Tab in the menu of a tab; a tab that is not active is gone to.   *)
TabMenu ==
  /\ ui.palette = None
  /\ \E goes \in BOOLEAN : ui' = [ui EXCEPT !.palette = "rename-pane", !.asked = @ \/ goes]
  /\ UNCHANGED <<mouse, button, held>> /\ Upset(FALSE)

(* Ctrl and the wheel: another font, and a layout without a drag.          *)
Zoom(area) ==
  /\ LET at == IF PanesAt(ui, area) = {} THEN {ui.focus} ELSE PanesAt(ui, area)
     IN  \E i \in at : ~Kind[ui.layout[i]].mouse
  /\ mouse' = [mouse EXCEPT !.drag = 0]
  /\ UNCHANGED <<ui, button, held>> /\ Upset(FALSE)

Keyboard ==
  /\ PrefixTimeout \/ \E k \in Keys : \E chosen \in Chosen(k) : Press(k, chosen)
  /\ UNCHANGED <<mouse, button, held>> /\ Upset(ui'.vt # ui.vt)

(* PaneLayout::update keeps the index of the splitter that is dragged.     *)
Shown(layout, focus) ==
  /\ Snapshot(layout, focus)
  /\ held' = held \cap ToSet(layout)
  /\ UNCHANGED <<mouse, button>> /\ Upset(~Settled(ui, mouse, button, held))

-----------------------------------------------------------------------------
MouseInit ==
  Init /\ mouse = [splitting |-> FALSE, drag |-> 0, thumb |-> 0] /\ button = FALSE /\ held = {} /\ upset = FALSE

MouseNext ==
  \/ \E area \in Areas(ui) : LeftDown(area) \/ RightDown(area) \/ Zoom(area)
  \/ \E area \in Areas(ui), selects \in BOOLEAN : LeftUp(area, selects)
  \/ LeftDoubleDown \/ TabMenu \/ Keyboard
  \/ \E layout \in Layouts : \E focus \in DOMAIN layout : Shown(layout, focus)

MouseSpec == MouseInit /\ [][MouseNext]_vars

-----------------------------------------------------------------------------
(* Properties.                                                             *)

(* A pane that is told of a press of the left button is told of its        *)
(* release, wherever the pointer is by then, if no palette took the        *)
(* release, no snapshot renumbered the panes and no typing made the mouse  *)
(* forget whose press it was.                                              *)
PressesReleased == ~button /\ ~upset => held = {}

(* When the button is up nothing is dragged, but for what the palette or a *)
(* snapshot left; and but for a snapshot the splitter that is dragged is a *)
(* splitter of the layout, which a move of the pointer reads by its index. *)
DragsEnd ==
  ~upset =>
    /\ ~button => ui.selecting = 0 /\ ui.vt = 0 /\ mouse = [splitting |-> FALSE, drag |-> 0, thumb |-> 0]
    /\ mouse.drag # 0 => mouse.drag \in Splitters(ui)

(* Whatever is pressed or dragged ends with the button.                    *)
PressesEnd == PressesReleased /\ DragsEnd

=============================================================================
