------------------------------ MODULE TabLayout ------------------------------
(***************************************************************************)
(* What the layout tree of one tab promises to the workspace that owns it, *)
(* with the shape of the tree left out: the panes that are leaves of the   *)
(* tree, the focused one, the zoomed one, and the counter the tree takes   *)
(* new pane ids from.  Workspace keeps one such record per tab;            *)
(* TabLayoutSpec is the life of one of them, which the arena of module     *)
(* LayoutTree is checked to implement.                                     *)
(***************************************************************************)
EXTENDS Naturals

PaneIds == Nat \ {0}

NoPane == 0     \* Option::None where a pane id is expected; ids start at 1

Layouts ==
  [panes : SUBSET PaneIds, focus : PaneIds, zoomed : Nat, next : PaneIds]

(* A tree whose leaves just got their ids from an allocator: new() or      *)
(* from_pane_node() followed by reassign_pane_ids().                       *)
Assigned(ids, last, focus) ==
  [panes |-> ids, focus |-> focus, zoomed |-> NoPane, next |-> last + 1]

(* split_right / split_down: the id comes from the tree's own counter.     *)
Split(t) ==
  [t EXCEPT !.panes = @ \cup {t.next}, !.next = @ + 1]

(* close_pane(p), f being where the focus goes when p had it.  Closing the *)
(* last pane leaves the focus on the pane that is gone.                    *)
ClosedLast(t, p) ==
  [t EXCEPT !.panes = {}, !.zoomed = IF @ = p THEN NoPane ELSE @]

Bug_ZoomKept(t, p, f) ==
  [t EXCEPT !.panes = @ \ {p}, !.focus = IF @ = p THEN f ELSE @]

Closed(t, p, f) ==
  [t EXCEPT !.panes = @ \ {p},
            !.focus = IF @ = p THEN f ELSE @,
            !.zoomed = IF @ = p THEN NoPane ELSE @]

CloseResults(t, p) ==
  IF t.panes = {p}
    THEN {ClosedLast(t, p)}
    ELSE {Closed(t, p, f) : f \in t.panes \ {p}}

(* set_focus, focus_next, focus_prev and focus_direction.                  *)
Focused(t, p) == [t EXCEPT !.focus = p]

(* toggle_zoom: the zoomed pane is the focused one at that moment.         *)
ZoomToggled(t) ==
  [t EXCEPT !.zoomed = IF @ = NoPane THEN t.focus ELSE NoPane]

=============================================================================
