------------------------------- MODULE MCUiTabs -------------------------------
(* Tabs, in three parts that share no state.  In the first the tabs of two *)
(* workspaces of three panes: as opened, and after its first pane was      *)
(* closed, with a pane that has no session.  In the second what a key or   *)
(* an entry of the palette asks for, under the bindings of the UI and the  *)
(* other preset with a key removed and one changed.  In the third up to    *)
(* three tabs in a strip of two widths.                                    *)
EXTENDS UiTabs, Actions, TLC

MCStarts == {
  [name |-> "w", active |-> 1, detached |-> {}, next |-> 4,
   tabs |-> <<[id |-> 1, name |-> 1, panes |-> <<1, 2>>, focus |-> 1],
              [id |-> 2, name |-> 2, panes |-> <<3>>, focus |-> 3]>>],
  [name |-> "w", active |-> 2, detached |-> {4}, next |-> 5,
   tabs |-> <<[id |-> 1, name |-> 1, panes |-> <<2>>, focus |-> 2],
              [id |-> 2, name |-> 2, panes |-> <<3, 4>>, focus |-> 4]>>]}

MCOthers == {[op |-> "next-tab"], [op |-> "close-tab"], [op |-> "rename", name |-> "v"]}

CONSTANTS Labels, Widths, Windows, Places, MaxMoves

VARIABLES part, strip, held, moves

MCGiven ==
  {DefaultBindings,
   [preset |-> "tmux", keys |-> (<<"", "F11">> :> Removed) @@ (<<"Ctrl", "Tab">> :> Simple("zoom-pane"))]}

Strip == INSTANCE TabStrip WITH Names <- Widths, MaxSteps <- MaxMoves, steps <- moves

drawn == <<strip, held, moves>>

ASSUME StripAssumption == Labels \subseteq Nat /\ Widths \subseteq Nat /\ Windows \subseteq Nat /\ Places \subseteq Int

MCOpen == {[default |-> 1], [w |-> 2], [w |-> 1, v |-> 2]}
MCTwo == {[w |-> 1, v |-> 2]}
MCPlaces == {40 * n : n \in 0..14}

Idle == "idle"

TabsInit ==
  /\ Init /\ Strip!StripInit
  /\ part \in {"tabs", "actions", "strip"}
  /\ part # "tabs" => host.active = 1
  /\ part # "strip" => Len(strip.tabs) = 1 /\ strip.window = 600 /\ strip.tabs[1].label = 20
  /\ \/ part = "actions" /\ AskInit
     \/ part # "actions" /\ bindings = Idle /\ workspaces = Idle /\ palette = Idle /\ last = Idle

TabsNext ==
  \/ part = "tabs" /\ Next /\ UNCHANGED <<part, askVars, drawn>>
  \/ part = "actions" /\ AskNext /\ UNCHANGED <<part, vars, drawn>>
  \/ part = "strip" /\ Strip!StripNext /\ UNCHANGED <<part, vars, askVars>>

TabsSpec == TabsInit /\ [][TabsNext]_<<part, vars, askVars, drawn>>

(* What a bound key or an entry of the palette asks for is done, with the  *)
(* arguments the host wants: but for the actions that nobody does, a name  *)
(* that is refused, a session or a file that is not there, and requests    *)
(* without a pane that the host takes for another workspace.               *)
EntriesMatch == part = "actions" => EntriesDone

(* What is clicked or taken is what is drawn: the entry Enter would take   *)
(* is in view, a press on the strip hits what is on top there, and every   *)
(* close button comes between the arrows.                                  *)
HitAsDrawn ==
  /\ part = "actions" => SelectionDrawn
  /\ part = "strip" => Strip!PressesSeen /\ Strip!TabsReachable

(* An action of the UI is done to the workspace that it shows: "Rename the *)
(* current workspace" (action.rs:290).                                     *)
ShownActedOn == part = "actions" => ActsOnShown

(* A release in the strip moves at most the tab that was pressed last, and *)
(* the active tab stays the same one.                                      *)
OneTabMoves == Strip!OneTabMoves
=============================================================================
