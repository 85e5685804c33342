------------------------------ MODULE MCUiInput -------------------------------
(* What the user does in a window, in three parts that share no state: the *)
(* keyboard of MCKeyboard with the mouse; the bytes a key or a report of   *)
(* the mouse becomes; or the views of two sessions of four lines each, in  *)
(* panes of two rows.                                                      *)
EXTENDS UiMouse, MCKeyboard, KeyEncoding, UiView, TLC

VARIABLE part

MCLetters == [A |-> 1, H |-> 8, I |-> 9, M |-> 13]
MCLiterals == [Digit1 |-> <<49, 33>>, Minus |-> <<45, 95>>]
MCAliases == [esc |-> "Escape", del |-> "Delete", pgup |-> "PageUp"]
MCSpecs == {<<k>> : k \in KeyNames \cup DOMAIN MCAliases \cup {"", "Nokey", "shift"}}
  \cup {<<m, k>> : m \in Modifiers, k \in KeyNames \cup {""}}
  \cup {<<m, n, k>> : m, n \in Modifiers, k \in KeyNames \cup {""}}
  \cup {<<m, k, n>> : m, n \in {"ctrl"}, k \in {"A", ""}}
MCModes == {[protocol |-> "legacy", mouse |-> FALSE, sgr |-> FALSE], [protocol |-> "csi-u", mouse |-> TRUE, sgr |-> FALSE],
            [protocol |-> "kitty", mouse |-> TRUE, sgr |-> TRUE]}
MCCells == {0, 94, 222, 223, 255}

MCQueries == "q" :> {2, 5} @@ "z" :> {}
MCNotches == {1, -1}

InputInit ==
  /\ MouseInit /\ KeysInit /\ ViewInit
  /\ \/ part = "events" /\ panes = <<"a", "b">>
     \/ part \in {"codes", "views"} /\ ui.layout = <<"editor">> /\ (part = "codes" => panes = <<"a", "b">>)

Over == part = "views" /\ steps = MaxSteps /\ UNCHANGED <<part, vars, keyVars, viewVars>>

InputNext ==
  \/ part = "events" /\ MouseNext /\ UNCHANGED <<part, keyVars, viewVars>>
  \/ part = "codes" /\ KeysNext /\ UNCHANGED <<part, vars, viewVars>>
  \/ part = "views" /\ ViewNext /\ UNCHANGED <<part, vars, keyVars>>
  \/ Over

InputSpec == InputInit /\ [][InputNext]_<<part, vars, keyVars, viewVars>>
=============================================================================
