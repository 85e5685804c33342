---------------------------- MODULE TabLayoutSpec ----------------------------
(***************************************************************************)
(* The life of one tree, as its callers can see it.                        *)
(***************************************************************************)
EXTENDS TabLayout

VARIABLE layout

Init ==
  /\ layout.panes # {} /\ layout.focus \in layout.panes
  /\ layout.zoomed = NoPane
  /\ layout.next - 1 \in layout.panes
  /\ \A p \in layout.panes : p < layout.next

SplitStep == layout.panes # {} /\ layout' = Split(layout)

CloseStep ==
  \E p \in layout.panes : layout' \in CloseResults(layout, p)

FocusStep ==
  \E p \in layout.panes : layout' = Focused(layout, p)

ZoomStep == layout' = ZoomToggled(layout)

Next == SplitStep \/ CloseStep \/ FocusStep \/ ZoomStep

Spec == Init /\ [][Next]_layout

=============================================================================
