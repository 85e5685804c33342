------------------------------- MODULE Actions -------------------------------
(***************************************************************************)
(* What can be asked for by name: the actions of the host's registry, the  *)
(* keys of the presets, the entries of the command palette with its        *)
(* prompts and selectors, what the UI does of an action itself and what it *)
(* sends, and how the host answers.  An action is one step: what the UI    *)
(* sends is answered, and its tabs are drawn from the answer; UiTabs has   *)
(* the two apart.                                                          *)
(***************************************************************************)
EXTENDS Naturals, Sequences, FiniteSets, SequencesExt, FiniteSetsExt

CONSTANTS
  Given,          \* definitions of bindings the UI may be built with
  Open,           \* the workspaces a host may have open: by name, the number of their tabs
  Entered,        \* what is typed into prompts
  Unfit,          \* those of them that are blank or hold a path separator
  Profiles,       \* what a selector offers or is typed into it
  Items,          \* how many entries match an empty query
  MaxVisible,     \* MAX_VISIBLE_ITEMS
  TabLimit        \* bound: tabs a workspace is given

ASSUME ActionsAssumption ==
  /\ Unfit \subseteq Entered
  /\ MaxVisible \in Nat \ {0} /\ Items \in Nat /\ IsFiniteSet(Profiles)
  /\ TabLimit \in Nat
  /\ \A o \in Open : DOMAIN o # {} /\ DOMAIN o \cap Unfit = {} /\ \A w \in DOMAIN o : o[w] \in 1 .. TabLimit

VARIABLES
  bindings,       \* what the classifier was built from
  workspaces,     \* by name, the number of tabs
  palette,        \* the workspace shown; the palette: mode, action asked about, matches, selected, scroll
  last            \* the last action that was sent, what the host answered, and whether for the workspace shown

askVars == <<bindings, workspaces, palette, last>>

-----------------------------------------------------------------------------
(* The registry.                                                           *)

LifecycleActions == {"open-workspace", "close-workspace", "recreate-workspace", "save-workspace", "rename-workspace",
                     "new-window", "close-window"}

TabActions == {"new-tab", "close-tab", "next-tab", "prev-tab", "goto-tab", "rename-tab", "move-tab-left", "move-tab-right"}

ResizeActions == {"resize-pane-right", "resize-pane-left", "resize-pane-down", "resize-pane-up", "resize-pane-grow-right",
                  "resize-pane-grow-down", "resize-pane-shrink-right", "resize-pane-shrink-down"}

FocusActions == {"focus-next-pane", "focus-prev-pane", "focus-pane-up", "focus-pane-down", "focus-pane-left",
                 "focus-pane-right", "focus-pane"}

SwapActions == {"swap-pane-up", "swap-pane-down", "swap-pane-left", "swap-pane-right"}

TileActions == {"toggle-split-orientation", "equalize-pane-split", "equalize-tab", "retile-even-horizontal",
                "retile-even-vertical", "retile-grid", "retile-main-left", "retile-main-right", "retile-main-top",
                "retile-main-bottom"}

PaneActions == {"split-right", "split-down", "close-pane", "zoom-pane", "rename-pane"}
                 \cup FocusActions \cup SwapActions \cup TileActions \cup ResizeActions

SessionActions == {"change-profile", "restart-session", "clear-buffer", "clear-scrollback"}

SelectionActions == {"copy", "paste", "select-all", "mark-mode", "switch-selection-endpoint", "find", "find-next", "find-prev"}

ScrollActions == {"scrollback-line-up", "scrollback-line-down", "scrollback-page-up", "scrollback-page-down",
                  "scrollback-top", "scrollback-bottom"}

UiActions == {"toggle-command-palette", "toggle-fullscreen", "enter-scrollback-mode", "pass-through-next-key"}

Registered == LifecycleActions \cup TabActions \cup PaneActions \cup SessionActions \cup SelectionActions
                \cup ScrollActions \cup UiActions

Arg(type, required) == [type |-> type, required |-> required]

(* The arguments an action may have.                                       *)
ArgsOf(action) ==
  CASE action = "open-workspace" ->
         [name |-> Arg("string", TRUE), file |-> Arg("string", FALSE), recreate |-> Arg("bool", FALSE)]
    [] action = "close-workspace" -> [kill |-> Arg("bool", FALSE)]
    [] action = "save-workspace" -> [file |-> Arg("string", FALSE)]
    [] action = "goto-tab" -> [index |-> Arg("int", FALSE), name |-> Arg("string", FALSE)]
    [] action \in {"rename-workspace", "rename-tab", "rename-pane", "focus-pane"} -> [name |-> Arg("string", TRUE)]
    [] action \in {"new-tab", "split-right", "split-down"} -> [profile |-> Arg("string", FALSE)]
    [] action = "change-profile" -> [profile |-> Arg("string", TRUE)]
    [] action \in ResizeActions -> [amount |-> Arg("int", FALSE)]
    [] OTHER -> <<>>

(* Arguments as they are sent: null, or an object of typed values.         *)
Null == [null |-> TRUE, of |-> <<>>]
Object(of) == [null |-> FALSE, of |-> of]
Text(v) == [type |-> "string", v |-> v]

(* ActionRegistry::validate_args.                                          *)
Valid(action, args) ==
  LET known == ArgsOf(action)
  IN  /\ action \in Registered
      /\ \A a \in DOMAIN known : known[a].required => a \in DOMAIN args.of
      /\ DOMAIN args.of \subseteq DOMAIN known
      /\ \A a \in DOMAIN args.of : args.of[a].type = known[a].type

-----------------------------------------------------------------------------
(* Bindings: what a key or a chord does, by its name.                      *)

Simple(action) == [action |-> action, args |-> Null]

Removed == Simple("removed")

Chord(mods, actions) == [spec \in {mods} \X DOMAIN actions |-> Simple(actions[spec[2]])]

(* One map of maps without a key in common.                                *)
Together(maps) ==
  [spec \in UNION {DOMAIN f : f \in maps} |-> (CHOOSE f \in maps : spec \in DOMAIN f)[spec]]

TmuxKeys == Together({
  Chord("Ctrl+Shift", [T |-> "new-tab", W |-> "close-pane", Space |-> "toggle-command-palette", C |-> "copy", V |-> "paste",
                       A |-> "select-all", M |-> "mark-mode", F |-> "find", Tab |-> "prev-tab"]),
  Chord("Ctrl", [Tab |-> "next-tab"]), Chord("Alt+Shift", [D |-> "split-right", Minus |-> "split-down"]),
  Chord("", [F3 |-> "find-next", F11 |-> "toggle-fullscreen"])})

TmuxChords ==
  Chord("prefix", [Up |-> "focus-pane-up", Down |-> "focus-pane-down", Left |-> "focus-pane-left",
                   Right |-> "focus-pane-right", Space |-> "mark-mode", A |-> "select-all", F3 |-> "find-next",
                   F4 |-> "find-prev", PageUp |-> "scrollback-page-up", PageDown |-> "scrollback-page-down",
                   Home |-> "scrollback-top", End |-> "scrollback-bottom", o |-> "focus-next-pane", c |-> "new-tab",
                   x |-> "close-pane", z |-> "zoom-pane", n |-> "next-tab", p |-> "prev-tab", d |-> "close-workspace",
                   k |-> "pass-through-next-key", s |-> "switch-selection-endpoint", f |-> "find",
                   percent |-> "split-right", quote |-> "split-down", comma |-> "rename-pane",
                   bracket |-> "enter-scrollback-mode"])

Digits == <<"1", "2", "3", "4", "5", "6", "7", "8">>

(* Ctrl+Alt+1 goes to the tab with index 0; a binding's arguments are text. *)
GotoKeys ==
  [spec \in {"Ctrl+Alt"} \X ToSet(Digits) |-> [action |-> "goto-tab", args |-> Object([index |-> Text(spec[2])])]]

WindowsTerminalKeys == Together({
  Chord("Ctrl+Shift", [T |-> "new-tab", W |-> "close-pane", Tab |-> "prev-tab", C |-> "copy", V |-> "paste",
                       A |-> "select-all", M |-> "mark-mode", F |-> "find", K |-> "clear-buffer",
                       P |-> "toggle-command-palette", Up |-> "scrollback-line-up", Down |-> "scrollback-line-down",
                       PageUp |-> "scrollback-page-up", PageDown |-> "scrollback-page-down",
                       Home |-> "scrollback-top", End |-> "scrollback-bottom"]),
  Chord("Ctrl", [Tab |-> "next-tab", Insert |-> "copy"]),
  Chord("Shift", [Insert |-> "paste"]),
  Chord("Alt", [Down |-> "focus-pane-down", Up |-> "focus-pane-up", Left |-> "focus-pane-left",
                     Right |-> "focus-pane-right"]),
  Chord("Alt+Shift", [Plus |-> "split-right", Minus |-> "split-down", K |-> "pass-through-next-key",
                           Down |-> "resize-pane-down", Up |-> "resize-pane-up", Right |-> "resize-pane-right",
                           Left |-> "resize-pane-left"]),
  Chord("", [F3 |-> "find-next", F11 |-> "toggle-fullscreen"]),
  GotoKeys})

(* expand_preset.                                                          *)
Preset(name) ==
  CASE name = "tmux" -> Together({TmuxKeys, TmuxChords}) [] name = "windows-terminal" -> WindowsTerminalKeys [] OTHER -> <<>>

(* merge_action_maps.                                                      *)
Overlaid(base, over) ==
  [k \in (DOMAIN base \cup DOMAIN over) \ {k \in DOMAIN over : over[k] = Removed} |->
     IF k \in DOMAIN over THEN over[k] ELSE base[k]]

(* effective_bindings.                                                     *)
Effective(def) == Overlaid(Preset(def.preset), def.keys)

(* default_bindings, all the UI ever builds its classifier from.           *)
DefaultBindings == [preset |-> "windows-terminal", keys |-> <<>>]

-----------------------------------------------------------------------------
(* The palette.                                                            *)

PaneListActions == {"next-attention", "prev-attention", "clear-focused-attention", "toggle-notification-center",
                    "toggle-pane-metadata-list", "filter-pane-list-attention", "filter-pane-list-status",
                    "filter-pane-list-driver", "filter-pane-list-cwd", "filter-pane-list-branch"}

(* RUNNABLE_ACTIONS.                                                       *)
Runnable == Registered \cup PaneListActions

(* What a key may be bound to.                                             *)
Bindable == {Simple(a) : a \in Runnable \cup {"removed"}} \cup {GotoKeys[spec] : spec \in DOMAIN GotoKeys}

ASSUME BindingsAssumption == \A def \in Given : \A k \in DOMAIN def.keys : def.keys[k] \in Bindable

Hidden(u) == [u EXCEPT !.mode = "closed"]

(* refilter.                                                               *)
Refiltered(u, matches) == [u EXCEPT !.matches = matches, !.selected = 0, !.scroll = 0]

(* show, and toggle with it.                                               *)
Toggled(u) == IF u.mode = "closed" THEN Refiltered([u EXCEPT !.mode = "list"], Items) ELSE Hidden(u)

(* show_prompt.                                                            *)
Prompted(u, action) == Refiltered([u EXCEPT !.mode = "prompt", !.action = action], 0)

(* show_profile_selector, with show_selector.                              *)
Offered(u, action) == Refiltered([u EXCEPT !.mode = "profiles", !.action = action], Cardinality(Profiles))

(* ensure_visible.                                                         *)
EnsuredVisible(u) ==
  IF u.selected < u.scroll THEN [u EXCEPT !.scroll = u.selected]
  ELSE IF u.selected >= u.scroll + MaxVisible THEN [u EXCEPT !.scroll = u.selected + 1 - MaxVisible]
  ELSE u

(* Up and Down, and the wheel, which may pass several entries at once.     *)
Moved(u, back, places) ==
  EnsuredVisible([u EXCEPT !.selected = IF back THEN Max({@ - places, 0}) ELSE Min({@ + places, u.matches - 1})])

-----------------------------------------------------------------------------
(* dispatch_action: the UI after it, and what it sends, to a pane of the   *)
(* tab shown or to no pane at all.                                         *)

LocalActions == PaneListActions \cup ScrollActions \cup SelectionActions
                  \cup {"toggle-command-palette", "pass-through-next-key", "close-window"}

TabRequests == {"next-tab", "prev-tab", "close-tab", "new-tab", "rename-tab", "goto-tab", "close-workspace",
                "save-workspace", "rename-workspace", "save-default-workspace"}

Sending(action, args, pane) == <<[action |-> action, args |-> args, pane |-> pane]>>

(* An action without its argument begins with a question.                  *)
Asked(u, action) ==
  \/ action \in {"new-tab", "change-profile", "find", "rename-workspace", "rename-tab", "rename-pane"}
  \/ action = "save-workspace" /\ u.shown = "default"

Question(u, action) ==
  CASE action \in {"new-tab", "change-profile"} -> Offered(u, action)
    [] action = "save-workspace" -> Prompted(u, "save-default-workspace")
    [] OTHER -> Prompted(u, action)

(* The tab that a text index of a binding names.                           *)
IndexOf(args) == IF "index" \notin DOMAIN args.of THEN TabLimit
                 ELSE (CHOOSE i \in DOMAIN Digits : Digits[i] = args.of.index.v) - 1

Bug_IndexAsText(u, action, args) ==
  CASE action = "goto-tab" -> IF IndexOf(args) < workspaces[u.shown] THEN Sending(action, args, FALSE) ELSE <<>>
    [] action = "close-tab" -> IF workspaces[u.shown] > 1 THEN Sending(action, Object(<<>>), FALSE) ELSE <<>>
    [] action = "save-default-workspace" -> Sending("rename-workspace", args, FALSE) \o Sending("save-workspace", Object(<<>>), FALSE)
    [] action \in LocalActions -> <<>>
    [] OTHER -> Sending(action, args, action \notin TabRequests)

Requests(u, action, args) ==
  CASE action = "goto-tab" ->
         IF IndexOf(args) < workspaces[u.shown]
         THEN Sending(action, Object([index |-> [type |-> "int", v |-> IndexOf(args)]]), FALSE) ELSE <<>>
    [] action = "close-tab" -> IF workspaces[u.shown] > 1 THEN Sending(action, Object(<<>>), FALSE) ELSE <<>>
    [] action = "save-default-workspace" -> Sending("rename-workspace", args, FALSE) \o Sending("save-workspace", Object(<<>>), FALSE)
    [] action \in LocalActions -> <<>>
    [] OTHER -> Sending(action, args, action \notin TabRequests)

-----------------------------------------------------------------------------
(* The host.                                                               *)

(* ActionDispatcher::dispatch; everything else is "not implemented".       *)
Implemented == (PaneActions \cup SessionActions) \ {"change-profile"}

(* What a pane without a session cannot do: it is detached, or has no      *)
(* record.                                                                 *)
OnSession == {"restart-session", "clear-buffer", "clear-scrollback"}

(* handle_invoke_action for a workspace.  fails: the pane has no session,  *)
(* or one that does not start again, or the file cannot be written.  A new *)
(* tab or profile is "ok" even when its session does not start.            *)
Verdict(open, m, w, fails) ==
  LET given(a) == a \in DOMAIN m.args.of /\ m.args.of[a].type = "string"
  IN  CASE m.action = "rename-workspace" ->
             IF ~Valid(m.action, m.args) THEN "invalid"
             ELSE IF m.args.of.name.v \in Unfit \cup DOMAIN open THEN "refused" ELSE "ok"
        [] m.action \in {"new-tab", "next-tab", "prev-tab"} -> "ok"
        [] m.action = "goto-tab" ->
             IF "index" \in DOMAIN m.args.of /\ m.args.of.index.type = "int" /\ m.args.of.index.v < open[w]
             THEN "ok" ELSE "invalid"
        [] m.action = "rename-tab" -> IF given("name") THEN "ok" ELSE "invalid"
        [] m.action = "change-profile" -> IF given("profile") THEN "ok" ELSE "invalid"
        [] m.action = "save-workspace" ->
             IF ~Valid(m.action, m.args) THEN "invalid" ELSE IF fails THEN "failed" ELSE "ok"
        [] m.action = "close-tab" -> IF open[w] > 1 THEN "ok" ELSE "refused"
        [] OTHER -> IF ~Valid(m.action, m.args) THEN "invalid"
                    ELSE IF m.action \notin Implemented THEN "not implemented"
                    ELSE IF fails /\ m.action \in OnSession THEN "failed" ELSE "ok"

(* The workspaces after an answer.                                         *)
Renamed(open, old, new) == [n \in (DOMAIN open \ {old}) \cup {new} |-> IF n = new THEN open[old] ELSE open[n]]

Effect(open, m, w) ==
  CASE m.action = "rename-workspace" -> Renamed(open, w, m.args.of.name.v)
    [] m.action = "new-tab" -> [open EXCEPT ![w] = @ + 1]
    [] m.action = "close-tab" -> [open EXCEPT ![w] = @ - 1]
    [] OTHER -> open

(* A message without a pane is for "the first" workspace of a hash map.    *)
Addressed(s, m) == IF m.pane THEN {s.shown} ELSE DOMAIN s.open

(* The UI follows a rename of whichever workspace.                         *)
Answered(s, m, w, fails) ==
  LET verdict == Verdict(s.open, m, w, fails)
      ok      == verdict = "ok"
  IN  [open    |-> IF ok THEN Effect(s.open, m, w) ELSE s.open,
       shown   |-> IF ok /\ m.action = "rename-workspace" THEN m.args.of.name.v ELSE s.shown,
       answers |-> Append(s.answers, [verdict |-> verdict, here |-> w = s.shown])]

Answers(shown, requests) ==
  LET after[n \in 0 .. Len(requests)] ==
        IF n = 0 THEN {[open |-> workspaces, shown |-> shown, answers |-> <<>>]}
        ELSE UNION {{Answered(s, requests[n], w, fails) : w \in Addressed(s, requests[n]), fails \in BOOLEAN}
                          : s \in after[n - 1]}
  IN  after[Len(requests)]

-----------------------------------------------------------------------------
(* Steps.                                                                  *)

Unasked == [action |-> "none", answers |-> <<>>]

(* An action asked for in the UI, from u on.                               *)
Perform(u, action, args) ==
  LET asks     == args.null /\ Asked(u, action)
      put      == IF asks THEN Question(u, action) ELSE u
      requests == IF asks THEN <<>> ELSE Requests(u, action, args)
  IN  \E s \in Answers(u.shown, requests) :
        /\ \A w \in DOMAIN s.open : s.open[w] <= TabLimit
        /\ workspaces' = s.open
        /\ palette' = [(IF action = "toggle-command-palette" THEN Toggled(u) ELSE put) EXCEPT !.shown = s.shown]
        /\ last' = IF s.answers = <<>> THEN Unasked ELSE [action |-> action, answers |-> s.answers]
        /\ UNCHANGED bindings

(* A bound key; while the palette is open, by name only.                   *)
PressBound == \E spec \in DOMAIN bindings :
  LET bound == bindings[spec]
  IN  IF palette.mode = "closed" THEN Perform(palette, bound.action, bound.args)
      ELSE bound.action \in Runnable /\ spec[1] # "prefix" /\ Perform(palette, bound.action, Null)

(* Enter or a click on an entry of the list.                               *)
ChooseEntry == palette.mode = "list" /\ palette.matches > 0 /\ \E a \in Runnable : Perform(Hidden(palette), a, Null)

AnswerPrompt == palette.mode = "prompt" /\ \E n \in Entered : Perform(Hidden(palette), palette.action, Object([name |-> Text(n)]))

PickProfile == palette.mode = "profiles" /\ \E p \in Profiles : Perform(Hidden(palette), palette.action, Object([profile |-> Text(p)]))

Edit(u) == palette' = u /\ UNCHANGED <<bindings, workspaces, last>>

Dismiss == palette.mode # "closed" /\ Edit(Hidden(palette))

(* Text and Backspace change the query.                                    *)
TypeQuery == palette.mode \in {"list", "profiles"} /\ \E n \in 0..Items : Edit(Refiltered(palette, n))

MoveSelection ==
  palette.mode \in {"list", "profiles"} /\ palette.matches > 0 /\ \E back \in BOOLEAN, places \in 1..2 : Edit(Moved(palette, back, places))

AskInit ==
  /\ \E def \in Given : bindings = Effective(def)
  /\ workspaces \in Open
  /\ \E shown \in DOMAIN workspaces :
       palette = [shown |-> shown, mode |-> "closed", action |-> "none", matches |-> 0, selected |-> 0, scroll |-> 0]
  /\ last = Unasked

AskNext == PressBound \/ ChooseEntry \/ AnswerPrompt \/ PickProfile \/ Dismiss \/ TypeQuery \/ MoveSelection

AskSpec == AskInit /\ [][AskNext]_askVars

-----------------------------------------------------------------------------
(* Properties.                                                             *)

(* Bound or listed, and nobody does them: the host's dispatcher says that  *)
(* it does not implement them, or wants an argument the UI never asks for. *)
Undone == {"open-workspace", "close-workspace", "recreate-workspace", "new-window", "move-tab-left", "move-tab-right",
           "toggle-fullscreen", "enter-scrollback-mode", "focus-pane"}

(* The host may refuse a name, and fail at what needs a session or a      *)
(* file.                                                                   *)
MayBe(action, verdict) ==
  \/ verdict = "refused" /\ action \in {"rename-workspace", "save-default-workspace"}
  \/ verdict = "failed" /\ action \in OnSession \cup {"save-workspace", "save-default-workspace"}

(* What a key or an entry asks for is done to the workspace shown, with    *)
(* the arguments the host expects, but for what nobody does, what the host *)
(* may refuse or fail at, and what goes to another workspace (ActsOnShown): *)
(* only requests that name no pane.                                        *)
EntriesDone ==
  \A i \in DOMAIN last.answers :
    \/ last.answers[i].here /\ last.answers[i].verdict = "ok"
    \/ last.action \in Undone
    \/ last.answers[i].here /\ MayBe(last.action, last.answers[i].verdict)
    \/ ~last.answers[i].here /\ last.action \in TabRequests

(* The entry that Enter would take is one of those drawn.                  *)
SelectionDrawn ==
  palette.mode \in {"list", "profiles"} /\ palette.matches > 0 =>
    /\ palette.selected < palette.matches
    /\ palette.scroll <= palette.selected /\ palette.selected < palette.scroll + MaxVisible
    /\ palette.scroll + Min({MaxVisible, palette.matches}) <= palette.matches

(* An action of the UI is done to the workspace that it shows: "Rename the *)
(* current workspace" (action.rs:290).                                     *)
ActsOnShown == \A i \in DOMAIN last.answers : last.answers[i].here

=============================================================================
