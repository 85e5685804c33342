----------------------------- MODULE MCCommands -----------------------------
(* Two commands that may both start a host, and one stop.  The first command *)
(* is an ask or a wait, the second a follow. *)
EXTENDS Commands, TLC

CONSTANTS c1, c2

Ask3 == [tool |-> "ask", steps |-> <<"prompt", "wait", "capture">>, json |-> FALSE]
Wait1 == [tool |-> "steps", steps |-> <<"wait">>, json |-> TRUE]
Follow1 == [tool |-> "follow", steps |-> <<"follow">>, json |-> FALSE]

MCPlans == (c1 :> {Ask3, Wait1}) @@ (c2 :> {Follow1})
=============================================================================
