-------------------------------- MODULE UiTabs --------------------------------
(***************************************************************************)
(* The tabs of a window and the tabs of its workspace: what clicks and     *)
(* keys ask of the host, what the UI shows before the answer, and the      *)
(* snapshots that put the two in step again.                               *)
(*                                                                         *)
(* Every action of the UI asks for a snapshot after what it does, and no   *)
(* other message tells a UI of tabs, so it lags behind what other clients  *)
(* do.  Requests without a target act on the active tab of the host; pane  *)
(* actions name the pane focused in the UI.  The workspace is the only one *)
(* of its host here, and the last pane of a tab is not closed (Registry    *)
(* and Workspace model those).                                             *)
(***************************************************************************)
EXTENDS Naturals, Sequences, SequencesExt, FiniteSets

CONSTANTS
  Starts,         \* workspaces a UI attaches to: records as host
  Names,          \* names of the workspace
  Others,         \* requests of other clients
  MaxTabs,        \* bound on tabs
  MaxAsked,       \* bound on the requests that wait
  MaxSteps        \* bound on the steps of a behaviour

ASSUME UiTabsAssumption ==
  /\ MaxTabs \in Nat /\ MaxAsked \in Nat /\ MaxSteps \in Nat
  /\ \A h \in Starts :
       /\ h \in [name : Names, tabs : Seq([id : Nat, name : Nat, panes : Seq(Nat), focus : Nat]), active : Nat,
                detached : SUBSET Nat, next : Nat]
       /\ h.active \in DOMAIN h.tabs
       /\ \A i \in DOMAIN h.tabs :
            /\ Len(h.tabs[i].panes) <= 2 /\ h.tabs[i].id < h.next
            /\ \A j \in DOMAIN h.tabs : h.tabs[i].id = h.tabs[j].id => i = j
  /\ \A r \in Others : "op" \in DOMAIN r /\ (r.op = "goto-tab" => r.index \in Nat \ {0})

VARIABLES
  host,           \* name, tabs, active tab, panes without a session, next pane
  ui,             \* tabs and active tab as last shown, their order in the strip, names
  asked,          \* requests of the UI the host has not handled
  inbox,          \* answers the UI has not read
  foreign,        \* another client changed the tabs since the last snapshot, or ever the name
  moved,          \* what the UI changed without asking, since the last snapshot it read
  steps

vars == <<host, ui, asked, inbox, foreign, moved, steps>>

Ids(tabs) == [i \in DOMAIN tabs |-> tabs[i].id]

PanesOf(tabs) == UNION {ToSet(tabs[i].panes) : i \in DOMAIN tabs}

-----------------------------------------------------------------------------
(* The host.                                                               *)

(* resolve_invoke_action_target: a number is a pane of the host; a path is *)
(* workspace, the first tab of that name, and a pane in it.  0 if none.    *)
Resolved(h, target) ==
  IF "number" \in DOMAIN target THEN (IF target.number \in PanesOf(h.tabs) THEN target.number ELSE 0)
  ELSE LET named == {i \in DOMAIN h.tabs : h.tabs[i].name = target.tab}
           first == CHOOSE i \in named : \A j \in named : i <= j
       IN  IF target.workspace = h.name /\ named # {} /\ target.pane \in ToSet(h.tabs[first].panes)
             THEN target.pane ELSE 0

(* focus_next and focus_prev on a tab.                                     *)
Turned(tab, step) ==
  LET at == CHOOSE i \in DOMAIN tab.panes : tab.panes[i] = tab.focus
      n  == Len(tab.panes)
  IN  [tab EXCEPT !.focus = tab.panes[((at + (IF step = "next" THEN 0 ELSE n - 2)) % n) + 1]]

(* One of the two panes of a tab closes; the other has the focus.          *)
PaneClosed(h, p) ==
  LET i == CHOOSE j \in DOMAIN h.tabs : p \in ToSet(h.tabs[j].panes)
      left == ToSet(h.tabs[i].panes) \ {p}
      other == CHOOSE q \in left : TRUE
  IN  IF left = {} THEN h ELSE [h EXCEPT !.tabs[i].panes = <<other>>, !.tabs[i].focus = other]

(* close-tab: the active tab, unless it is the last.                       *)
TabClosed(h) ==
  IF Len(h.tabs) = 1 THEN h
  ELSE [h EXCEPT !.tabs = RemoveAt(h.tabs, h.active),
                 !.active = IF h.active = Len(h.tabs) THEN h.active - 1 ELSE h.active]

(* A tab is named for the number of tabs; its session may not start.       *)
TabAdded(h, starts) ==
  IF Len(h.tabs) = MaxTabs THEN h
  ELSE [h EXCEPT !.tabs = Append(@, [id |-> h.next, name |-> Len(h.tabs) + 1, panes |-> <<h.next>>, focus |-> h.next]),
                 !.active = Len(h.tabs) + 1, !.next = @ + 1,
                 !.detached = IF starts THEN @ ELSE @ \cup {h.next}]

(* handle_invoke_action.                                                   *)
Done(h, r, starts) ==
  CASE r.op = "next-tab"   -> [h EXCEPT !.active = (@ % Len(h.tabs)) + 1]
    [] r.op = "prev-tab"   -> [h EXCEPT !.active = IF @ = 1 THEN Len(h.tabs) ELSE @ - 1]
    [] r.op = "goto-tab"   -> IF r.index <= Len(h.tabs) THEN [h EXCEPT !.active = r.index] ELSE h
    [] r.op = "close-tab"  -> TabClosed(h)
    [] r.op = "new-tab"    -> TabAdded(h, starts)
    [] r.op = "rename"     -> [h EXCEPT !.name = r.name]
    [] r.op = "focus"      -> IF Resolved(h, r.target) = 0 THEN h
                              ELSE [h EXCEPT !.tabs[h.active] = Turned(@, r.step)]
    [] r.op = "close-pane" -> IF Resolved(h, r.target) = 0 THEN h ELSE PaneClosed(h, Resolved(h, r.target))
    [] OTHER -> h

(* A host after the first n of some requests.                              *)
Handled(h, requests) ==
  LET then[n \in 0 .. Len(requests)] == IF n = 0 THEN h ELSE Done(then[n - 1], requests[n], TRUE)
  IN  then

(* What the host will be once it has handled what the UI asked.            *)
Predicted == Handled(host, asked)[Len(asked)]

-----------------------------------------------------------------------------
(* What the UI asks.                                                       *)

Refresh == [op |-> "refresh"]

(* send_ui_action and send_workspace_action.                               *)
Ask(requests) ==
  /\ steps < MaxSteps /\ steps' = steps + 1
  /\ Len(asked) < MaxAsked
  /\ asked' = asked \o Append(requests, Refresh)

Local(what) ==
  /\ steps < MaxSteps /\ steps' = steps + 1
  /\ moved' = moved \cup what
  /\ UNCHANGED <<host, asked, inbox, foreign>>

ActiveTab == ui.tabs[ui.active]

(* The number snapshot.rs gives a pane: its place among all panes.         *)
Number(p) ==
  LET all == FlattenSeq([i \in DOMAIN ui.tabs |-> ui.tabs[i].panes])
  IN  CHOOSE n \in DOMAIN all : all[n] = p

(* pane_host_target, and send_ui_action for a pane without a session.      *)
Target(tab) ==
  IF tab.focus \in ui.detached THEN [number |-> Number(tab.focus)]
  ELSE [workspace |-> ui.title, tab |-> tab.name, pane |-> tab.focus]

(* The tab the user sees at a place of the strip.                          *)
Clicked(i) == ui.tabs[ui.strip[i]].id

(* The user sees the tabs as they will be when the host comes to what is   *)
(* asked now.                                                              *)
Sound ==
  /\ [i \in DOMAIN ui.strip |-> Clicked(i)] = Ids(Predicted.tabs)
  /\ ui.lit = ui.active /\ ui.active = Predicted.active

Asks(requests) == Ask(requests) /\ UNCHANGED <<host, inbox, foreign, moved>>

GotoRequest(i) == [op |-> "goto-tab", index |-> i, meant |-> Clicked(i), sound |-> Sound]
CloseRequest(i) == [op |-> "close-tab", meant |-> Clicked(i), sound |-> Sound]

(* TabAction::SwitchTo: shown at once.                                     *)
ClickTab(i) ==
  /\ i # ui.lit
  /\ ui' = [ui EXCEPT !.active = i, !.lit = i]
  /\ Asks(<<GotoRequest(i)>>)

(* goto-tab from a key: shown when the host answers.                       *)
GotoTab(i) == Asks(<<GotoRequest(i)>>) /\ UNCHANGED ui

Bug_CloseOnly(i) ==
  /\ Len(ui.tabs) > 1
  /\ Asks(<<CloseRequest(i)>>) /\ UNCHANGED ui

(* TabAction::Close, and Close Tab of the menu: two requests when the tab  *)
(* is not the active one.                                                  *)
CloseClicked(i) ==
  /\ Len(ui.tabs) > 1
  /\ Asks(IF i = ui.active THEN <<CloseRequest(i)>> ELSE <<GotoRequest(i), Refresh, CloseRequest(i)>>)
  /\ UNCHANGED ui

CloseTab == Len(ui.strip) > 1 /\ Asks(<<CloseRequest(ui.lit)>>) /\ UNCHANGED ui

OtherTab == \E op \in {"next-tab", "prev-tab", "new-tab"} : Asks(<<[op |-> op]>>) /\ UNCHANGED ui

(* rename-workspace: the refreshes that follow it still bear the old name. *)
Rename(name) == Asks(<<[op |-> "rename", name |-> name], Refresh>>) /\ UNCHANGED ui

(* focus-next-pane and focus-prev-pane: asked for the pane focused so far, *)
(* and shown at once; the host moves its own focus.                        *)
MoveFocus(step) ==
  /\ Asks(<<[op |-> "focus", step |-> step, target |-> Target(ActiveTab)]>>)
  /\ ui' = [ui EXCEPT !.tabs[ui.active] = Turned(@, step)]

ClosePane ==
  /\ Asks(<<[op |-> "close-pane", target |-> Target(ActiveTab), meant |-> ActiveTab.focus,
             sound |-> ActiveTab.focus \notin ui.detached]>>)
  /\ UNCHANGED ui

(* A click on a pane, and on a scrollbar: the host is not told.            *)
ClickPane(p) ==
  /\ p \in ToSet(ActiveTab.panes) /\ p # ActiveTab.focus
  /\ ui' = [ui EXCEPT !.tabs[ui.active].focus = p]
  /\ Local({"focus"})

(* focus_attention_target: any pane may ask for attention.                 *)
GoToAttention(i, p) ==
  /\ p \in ToSet(ui.tabs[i].panes) \ ui.detached
  /\ ui' = [ui EXCEPT !.tabs[i].focus = p, !.active = i, !.lit = i]
  /\ Local({"focus", "tab"})

(* TabStrip::reorder: only the strip has a new order; its lit tab follows. *)
Reorder(from, to) ==
  LET at(i) == IF i = to THEN from
               ELSE IF from < to /\ i \in from .. to THEN i + 1
               ELSE IF to < from /\ i \in to .. from THEN i - 1 ELSE i
  IN  /\ from # to
      /\ ui' = [ui EXCEPT !.strip = [i \in DOMAIN @ |-> @[at(i)]],
                          !.lit = CHOOSE i \in DOMAIN ui.strip : at(i) = ui.lit]
      /\ Local({"strip"})

-----------------------------------------------------------------------------
(* The host and its other clients; answers.                                *)

(* handle_attach_workspace knows the workspace by its present name, and    *)
(* the bridge asks by the name it last heard in an answer.                 *)
Serve ==
  /\ asked # <<>> /\ asked' = Tail(asked)
  /\ \E starts \in BOOLEAN : host' = Done(host, asked[1], starts)
  /\ CASE asked[1].op = "refresh" /\ ui.name = host.name ->
            inbox' = Append(inbox, host) /\ foreign' = foreign \ {"tabs"}
       [] asked[1].op = "rename" /\ asked[1].name # host.name ->
            inbox' = Append(inbox, [renamed |-> asked[1].name]) /\ UNCHANGED foreign
       [] OTHER -> UNCHANGED <<inbox, foreign>>
  /\ UNCHANGED <<ui, moved, steps>>

(* Another client acts: what the UI asked before was asked of other tabs.  *)
Other(r) ==
  /\ steps < MaxSteps /\ steps' = steps + 1
  /\ host' = Done(host, r, TRUE) /\ host' # host
  /\ foreign' = foreign \cup {IF r.op = "rename" THEN "name" ELSE "tabs"}
  /\ asked' = [i \in DOMAIN asked |->
                 IF asked[i].op \in {"goto-tab", "close-tab"} THEN [asked[i] EXCEPT !.sound = FALSE] ELSE asked[i]]
  /\ UNCHANGED <<ui, inbox, moved>>

(* rebuild_from_snapshot and the handler of Connected: everything the UI   *)
(* showed goes, what it moved on its own too.                              *)
Shown(snapshot, name) ==
  [tabs |-> snapshot.tabs, active |-> snapshot.active, detached |-> snapshot.detached, title |-> snapshot.name,
   strip |-> [i \in DOMAIN snapshot.tabs |-> i], lit |-> snapshot.active, name |-> name]

Bug_RenameNotAskedAnew ==
  /\ inbox # <<>> /\ inbox' = Tail(inbox)
  /\ IF "renamed" \in DOMAIN inbox[1]
       THEN ui' = [ui EXCEPT !.name = inbox[1].renamed] /\ UNCHANGED <<asked, moved>>
       ELSE ui' = Shown(inbox[1], ui.name) /\ moved' = {} /\ UNCHANGED asked
  /\ UNCHANGED <<host, foreign, steps>>

(* The answer to a rename gives the bridge its name and asks for another   *)
(* snapshot.                                                               *)
Read ==
  /\ inbox # <<>> /\ inbox' = Tail(inbox)
  /\ IF "renamed" \in DOMAIN inbox[1]
       THEN ui' = [ui EXCEPT !.name = inbox[1].renamed] /\ asked' = Append(asked, Refresh) /\ UNCHANGED moved
       ELSE ui' = Shown(inbox[1], ui.name) /\ moved' = {} /\ UNCHANGED asked
  /\ UNCHANGED <<host, foreign, steps>>

-----------------------------------------------------------------------------
Init ==
  /\ host \in Starts /\ ui = Shown(host, host.name)
  /\ asked = <<>> /\ inbox = <<>> /\ foreign = {} /\ moved = {} /\ steps = 0

Next ==
  \/ \E i \in DOMAIN ui.strip :
       \/ ClickTab(i) \/ GotoTab(i) \/ CloseClicked(i)
       \/ \E j \in DOMAIN ui.strip : Reorder(i, j)
       \/ \E p \in PanesOf(ui.tabs) : GoToAttention(i, p)
  \/ CloseTab \/ OtherTab \/ ClosePane
  \/ \E name \in Names : Rename(name)
  \/ \E step \in {"next", "prev"} : MoveFocus(step)
  \/ \E p \in PanesOf(ui.tabs) : ClickPane(p)
  \/ \E r \in Others : Other(r)
  \/ Serve \/ Read

Spec == Init /\ [][Next]_vars

-----------------------------------------------------------------------------
(* Properties.                                                             *)

(* When all is answered and no other client has changed the tabs since, or *)
(* has ever named the workspace, the UI shows the tabs of the host, their  *)
(* focus and the active one, but for what it moved on its own, and its     *)
(* bridge knows the name of the workspace.                                 *)
InStep ==
  asked = <<>> /\ inbox = <<>> /\ foreign = {} =>
    /\ ui.name = host.name /\ ui.title = host.name
    /\ Ids(ui.tabs) = Ids(host.tabs)
    /\ "tab" \in moved \/ ui.active = host.active
    /\ "strip" \in moved \/ \A i \in DOMAIN ui.strip : ui.strip[i] = i
    /\ "focus" \in moved \/ \A i \in DOMAIN ui.tabs : ui.tabs[i] = host.tabs[i]

(* A tab the user closes or goes to is the tab that is closed or active,   *)
(* if the strip showed what the host would have come to by then; a pane    *)
(* the user closes is the pane that closes, or none does, if it had a      *)
(* session.  A pane without one is named by its number in the window,      *)
(* which may be the number of another pane of the host.                    *)
ActsOnClicked ==
  [][asked # <<>> /\ asked' = Tail(asked) /\ "sound" \in DOMAIN asked[1] /\ asked[1].sound =>
       LET r == asked[1]
       IN  CASE r.op = "goto-tab"   -> host'.tabs[host'.active].id = r.meant
             [] r.op = "close-tab"  -> r.meant \notin ToSet(Ids(host'.tabs)) /\ Len(host'.tabs) = Len(host.tabs) - 1
             [] r.op = "close-pane" -> PanesOf(host.tabs) \ PanesOf(host'.tabs) \subseteq {r.meant}]_vars

=============================================================================
