----------------------------- MODULE MCPaneStatus -----------------------------
(* Three panes, and the statuses agents report.                              *)
EXTENDS PaneStatus

MCReports == {[phase |-> "idle", text |-> "ready", queue |-> 0], [phase |-> "working", queue |-> 1]}

MCPanes == 1 .. 3

=============================================================================
