------------------------------ MODULE Workspace ------------------------------
(***************************************************************************)
(* One running workspace of the host: its tabs, the record of every pane   *)
(* and its map of sessions, under the requests clients send.  What a       *)
(* session does after it started is not represented here.                  *)
(*                                                                         *)
(* Every handler runs under the host's mutex, so each is one step.  The    *)
(* tabs are the layout records of module TabLayout.  Pane names, drivers,  *)
(* attention and metadata are not represented: a request names its pane by *)
(* the id its target resolves to.                                          *)
(*                                                                         *)
(* Three counters hand out ids: next_pane_id of the workspace (tabs),      *)
(* next_pane_id of each tree (splits) and next_session_id.                 *)
(***************************************************************************)
EXTENDS Naturals, Sequences

CONSTANTS
  Definitions,    \* the workspace definitions open and recreate may load
  MaxPaneId,      \* bound: no pane id above this is handed out
  MaxSessionId,   \* bound: no session id above this is handed out
  MaxTabs         \* bound on the number of tabs

(* A definition is the sequence of its tabs' cumulative pane counts:       *)
(* <<2, 3>> has a tab of two panes and a tab of one.                       *)
ASSUME DefinitionsAssumption ==
  \A d \in Definitions :
    /\ d \in Seq(Nat \ {0}) /\ d # <<>>
    /\ \A i, j \in 1..Len(d) : i < j => d[i] < d[j]

ASSUME BoundsAssumption ==
  MaxPaneId \in Nat /\ MaxSessionId \in Nat /\ MaxTabs \in Nat

VARIABLES
  state,          \* WorkspaceState
  tabs,           \* the tabs' layouts, in tab-strip order
  active,         \* active_tab_index: 0-based, as in the code
  nextPane,       \* WorkspaceInstance::next_pane_id
  rec,            \* pane records: pane id -> attached session, or NoSession
  sess,           \* sessions map: session id -> did its process start
  nextSession     \* WorkspaceInstance::next_session_id

vars == <<state, tabs, active, nextPane, rec, sess, nextSession>>

Layout == INSTANCE TabLayout

NoPane == Layout!NoPane
NoSession == 0                      \* PaneState::Detached
SessionStates == {"Started", "Failed"}

(* How starting a session for a pane can end: the launch spec does not     *)
(* resolve, the process does not start, or it runs.                        *)
Outcomes == {"Unresolved", "StartFailed", "Started"}

Without(f, K) == [x \in DOMAIN f \ K |-> f[x]]
With(f, k, v) == [x \in DOMAIN f \cup {k} |-> IF x = k THEN v ELSE f[x]]

-----------------------------------------------------------------------------
(* Building the tabs of a definition.                                      *)

PaneCount(d) == d[Len(d)]

(* The panes of d's i-th tab when the allocator stands at base.            *)
Block(d, i, base) ==
  (base + (IF i = 1 THEN 0 ELSE d[i-1])) .. (base + d[i] - 1)

(* sid gives each new pane its session id, or NoSession when its launch    *)
(* spec does not resolve; ids are taken from base on in pane order.        *)
InOrder(sid, base, last) ==
  /\ {sid[p] : p \in DOMAIN sid} \ {NoSession} = base .. last
  /\ \A p, q \in DOMAIN sid :
       p < q /\ sid[p] # NoSession /\ sid[q] # NoSession => sid[p] < sid[q]

Bug_TreeIdsKept(d, base, focus) ==
  [i \in 1 .. Len(d) |->
     LET n == d[i] - (IF i = 1 THEN 0 ELSE d[i-1])
     IN  Layout!Assigned(1 .. n, n, 1)]

(* One tab per definition tab, and one session per resolved pane, kept in  *)
(* the map even when it failed to start (its pane is then detached).       *)
BuiltTabs(d, base, focus) ==
  [i \in 1 .. Len(d) |->
     Layout!Assigned(Block(d, i, base), base + d[i] - 1, focus[i])]

BuiltRecords(sid, failed) ==
  [p \in DOMAIN sid |-> IF sid[p] \in failed THEN NoSession ELSE sid[p]]

BuiltSessions(first, last, failed) ==
  [s \in first .. last |-> IF s \in failed THEN "Failed" ELSE "Started"]

(* The focus of each tab is its first pane or the one the definition names.*)
Focuses(d, base) ==
  {f \in [1 .. Len(d) -> base .. (base + PaneCount(d) - 1)] :
     \A i \in 1 .. Len(d) : f[i] \in Block(d, i, base)}

SessionIds(d, base, first, last) ==
  {sid \in [base .. (base + PaneCount(d) - 1) ->
               {NoSession} \cup (first .. last)] : InOrder(sid, first, last)}

(* populate(), with its session ids from first on.                         *)
PopulateFrom(d, first) ==
  /\ nextPane + PaneCount(d) - 1 <= MaxPaneId
  /\ \E last \in (first - 1) .. MaxSessionId :
     \E sid \in SessionIds(d, nextPane, first, last) :
     \E failed \in SUBSET (first .. last) :
       /\ rec' = BuiltRecords(sid, failed)
       /\ sess' = BuiltSessions(first, last, failed)
       /\ nextSession' = last + 1
  /\ \E focus \in Focuses(d, nextPane) : tabs' = BuiltTabs(d, nextPane, focus)
  /\ nextPane' = nextPane + PaneCount(d)
  /\ state' = "Active"

Bug_SessionIdsFromOne(d) == PopulateFrom(d, 1)

Populate(d) == PopulateFrom(d, nextSession)

-----------------------------------------------------------------------------
(* Looking panes up.                                                       *)

(* A request without a target acts on the focused pane of the first tab.   *)
Resolved(target) ==
  IF target = NoPane THEN tabs[1].focus ELSE target

Targets == {NoPane} \cup DOMAIN rec

(* resolve_pane and find_tab_for_pane_mut search up to the first tab with  *)
(* the pane; the leaves of a tree whose last pane was closed cannot be     *)
(* enumerated, and the handler panics when it meets such a tree.           *)
SearchEnds(p) ==
  \A j \in DOMAIN tabs :
    tabs[j].panes = {} => \E i \in 1 .. (j - 1) : p \in tabs[i].panes

FindsIn(p, i) ==
  /\ i \in DOMAIN tabs
  /\ p \in tabs[i].panes
  /\ \A j \in 1 .. (i - 1) : tabs[j].panes # {} /\ p \notin tabs[j].panes

ActiveTab == active + 1

HasActiveTab == ActiveTab \in DOMAIN tabs

-----------------------------------------------------------------------------
(* Sessions of panes.                                                      *)

Bug_SessionNotStopped(p) == sess

(* The sessions left when the session of pane p was stopped.               *)
StoppedFor(p) ==
  IF p \in DOMAIN rec THEN Without(sess, {rec[p]}) ELSE sess

Bug_SessionIdNotTaken(p, S, outcome) ==
  /\ nextSession <= MaxSessionId
  /\ rec' = With(rec, p, IF outcome = "Started" THEN nextSession
                                                ELSE NoSession)
  /\ sess' = IF outcome = "Unresolved" THEN S
             ELSE With(S, nextSession, IF outcome = "Started"
                                         THEN "Started" ELSE "Failed")
  /\ UNCHANGED nextSession

(* spawn_session_for_pane: the pane's record is replaced, whatever it was; *)
(* S is the sessions map to add to.                                        *)
Spawn(p, S, outcome) ==
  /\ nextSession <= MaxSessionId
  /\ rec' = With(rec, p, IF outcome = "Started" THEN nextSession
                                                ELSE NoSession)
  /\ IF outcome = "Unresolved"
       THEN sess' = S /\ UNCHANGED nextSession
       ELSE /\ sess' = With(S, nextSession, IF outcome = "Started"
                                              THEN "Started" ELSE "Failed")
            /\ nextSession' = nextSession + 1

-----------------------------------------------------------------------------
(* Tab actions.                                                            *)

NewTab(outcome) ==
  /\ state # "Closed"
  /\ Len(tabs) < MaxTabs /\ nextPane <= MaxPaneId
  /\ tabs' = Append(tabs, Layout!Assigned({nextPane}, nextPane, nextPane))
  /\ active' = Len(tabs)
  /\ nextPane' = nextPane + 1
  /\ Spawn(nextPane, sess, outcome)
  /\ UNCHANGED state

NextTab ==
  /\ tabs # <<>>
  /\ active' = (active + 1) % Len(tabs)
  /\ UNCHANGED <<state, tabs, nextPane, rec, sess, nextSession>>

(* With a stale index the step back may still be out of range, and         *)
(* set_active_tab ignores it.                                              *)
PrevTab ==
  /\ tabs # <<>>
  /\ LET prev == IF active = 0 THEN Len(tabs) - 1 ELSE active - 1
     IN  active' = IF prev < Len(tabs) THEN prev ELSE active
  /\ UNCHANGED <<state, tabs, nextPane, rec, sess, nextSession>>

GotoTab(i) ==
  /\ i < Len(tabs)
  /\ active' = i
  /\ UNCHANGED <<state, tabs, nextPane, rec, sess, nextSession>>

(* close_tab() of the active tab, which leaves index the selected one.     *)
RemoveActiveTab(index) ==
  /\ LET ids == tabs[ActiveTab].panes
     IN  /\ ids # {}
         /\ sess' = Without(sess, {rec[p] : p \in ids \cap DOMAIN rec})
         /\ rec' = Without(rec, ids)
  /\ tabs' = [i \in 1 .. (Len(tabs) - 1) |->
                IF i < ActiveTab THEN tabs[i] ELSE tabs[i+1]]
  /\ active' = index
  /\ UNCHANGED <<state, nextPane, nextSession>>

(* close-tab: the active tab with the sessions and records of its panes.   *)
(* The last tab stays, and so does a tab whose tree is empty (the handler  *)
(* panics while it lists the panes).                                       *)
CloseTab ==
  /\ Len(tabs) > 1 /\ HasActiveTab
  /\ RemoveActiveTab(IF active >= Len(tabs) - 1 THEN Len(tabs) - 2 ELSE active)

-----------------------------------------------------------------------------
(* Pane actions, which the dispatcher refuses unless the workspace is      *)
(* Active.                                                                 *)

SplitPane(target, outcome) ==
  /\ state = "Active" /\ tabs # <<>>
  /\ \E i \in DOMAIN tabs :
       /\ FindsIn(Resolved(target), i)
       /\ tabs[i].next <= MaxPaneId
       /\ tabs' = [tabs EXCEPT ![i] = Layout!Split(@)]
       /\ Spawn(tabs[i].next, sess, outcome)
  /\ UNCHANGED <<state, active, nextPane>>

ClosePane(target) ==
  /\ state = "Active" /\ tabs # <<>>
  /\ LET p == Resolved(target)
     IN  /\ \E i \in DOMAIN tabs :
              /\ FindsIn(p, i)
              /\ \E t \in Layout!CloseResults(tabs[i], p) :
                   tabs' = [tabs EXCEPT ![i] = t]
         /\ sess' = StoppedFor(p)
         /\ rec' = Without(rec, {p})
  /\ UNCHANGED <<state, active, nextPane, nextSession>>

(* close-pane without a target when the first tab's tree is empty: the     *)
(* session recorded for the pane that had the focus is stopped, then the   *)
(* search for its tab panics.                                              *)
ClosePanePanics ==
  /\ state = "Active" /\ tabs # <<>> /\ tabs[1].panes = {}
  /\ sess' = StoppedFor(tabs[1].focus)
  /\ UNCHANGED <<state, tabs, active, nextPane, rec, nextSession>>

(* focus-next, focus-prev and focus-pane-<direction> on the active tab:    *)
(* which pane is next depends on the tree, which LayoutTree models.        *)
MoveFocus ==
  /\ state = "Active" /\ HasActiveTab
  /\ \E p \in tabs[ActiveTab].panes :
       tabs' = [tabs EXCEPT ![ActiveTab] = Layout!Focused(@, p)]
  /\ UNCHANGED <<state, active, nextPane, rec, sess, nextSession>>

(* focus-pane, and the FocusPane request of a client.                      *)
FocusPane(p) ==
  /\ p \in DOMAIN rec
  /\ \E i \in DOMAIN tabs :
       /\ FindsIn(p, i)
       /\ tabs' = [tabs EXCEPT ![i] = Layout!Focused(@, p)]
  /\ UNCHANGED <<state, active, nextPane, rec, sess, nextSession>>

ZoomPane ==
  /\ state = "Active" /\ HasActiveTab
  /\ tabs' = [tabs EXCEPT ![ActiveTab] = Layout!ZoomToggled(@)]
  /\ UNCHANGED <<state, active, nextPane, rec, sess, nextSession>>

(* change-profile: the pane's session is replaced by a new one.  Without a *)
(* target it is the focused pane of the active tab, empty tree or not.     *)
ChangeProfile(target, outcome) ==
  /\ target = NoPane => HasActiveTab
  /\ LET p == IF target = NoPane THEN tabs[ActiveTab].focus ELSE target
     IN  Spawn(p, StoppedFor(p), outcome)
  /\ UNCHANGED <<state, tabs, active, nextPane>>

(* restart-session keeps the session and its id.  A detached pane is       *)
(* refused; a session that does not start again is Failed and the pane     *)
(* stays attached to it.                                                   *)
RestartSession(target, started) ==
  /\ state = "Active" /\ tabs # <<>>
  /\ target # NoPane => SearchEnds(target)
  /\ LET p == Resolved(target)
     IN  /\ p \in DOMAIN rec /\ rec[p] \in DOMAIN sess
         /\ sess' = [sess EXCEPT ![rec[p]] =
                       IF started THEN "Started" ELSE "Failed"]
  /\ UNCHANGED <<state, tabs, active, nextPane, rec, nextSession>>

-----------------------------------------------------------------------------
(* recreate(): everything goes and is built again from the definition, but *)
(* the counters and the active tab stay as they are.                       *)
Recreate(d) ==
  /\ state # "Closed"
  /\ Populate(d)
  /\ UNCHANGED active

(* recreate() when the job object cannot be created: populate returns      *)
(* early and leaves a workspace without tabs in state Creating.            *)
RecreateFails ==
  /\ state # "Closed"
  /\ state' = "Creating"
  /\ tabs' = <<>> /\ rec' = <<>> /\ sess' = <<>>
  /\ UNCHANGED <<active, nextPane, nextSession>>

(* close(): the host also drops the workspace, nothing follows.            *)
Close ==
  /\ state # "Closed"
  /\ state' = "Closed"
  /\ tabs' = <<>> /\ rec' = <<>> /\ sess' = <<>>
  /\ UNCHANGED <<active, nextPane, nextSession>>

-----------------------------------------------------------------------------
(* open() of a definition, as populate() leaves it.                        *)
Init ==
  /\ active = 0
  /\ state = "Active"
  /\ \E d \in Definitions :
       /\ PaneCount(d) <= MaxPaneId
       /\ \E last \in 0 .. MaxSessionId :
          \E sid \in SessionIds(d, 1, 1, last) :
          \E failed \in SUBSET (1 .. last) :
            /\ rec = BuiltRecords(sid, failed)
            /\ sess = BuiltSessions(1, last, failed)
            /\ nextSession = last + 1
       /\ \E focus \in Focuses(d, 1) : tabs = BuiltTabs(d, 1, focus)
       /\ nextPane = PaneCount(d) + 1

TabStep ==
  \/ \E outcome \in Outcomes : NewTab(outcome)
  \/ NextTab
  \/ PrevTab
  \/ \E i \in 0 .. MaxTabs : GotoTab(i)
  \/ CloseTab

PaneStep ==
  \/ \E target \in Targets, outcome \in Outcomes : SplitPane(target, outcome)
  \/ \E target \in Targets : ClosePane(target)
  \/ ClosePanePanics
  \/ MoveFocus
  \/ \E p \in DOMAIN rec : FocusPane(p)
  \/ ZoomPane
  \/ \E target \in Targets, outcome \in Outcomes :
       ChangeProfile(target, outcome)
  \/ \E target \in Targets, started \in BOOLEAN :
       RestartSession(target, started)

LifecycleStep ==
  \/ \E d \in Definitions : Recreate(d)
  \/ RecreateFails
  \/ Close

Next == TabStep \/ PaneStep \/ LifecycleStep

Spec == Init /\ [][Next]_vars

-----------------------------------------------------------------------------
(* Properties.                                                             *)

AllPanes == UNION {tabs[i].panes : i \in DOMAIN tabs}

Attached == {p \in DOMAIN rec : rec[p] # NoSession}

(* What each variable holds; the bounds are those of the model.            *)
TypeOK ==
  /\ state \in {"Creating", "Active", "Closed"}
  /\ tabs \in Seq(Layout!Layouts)
  /\ active \in Nat
  /\ nextPane \in Layout!PaneIds
  /\ DOMAIN rec \subseteq Layout!PaneIds
  /\ \A p \in DOMAIN rec : rec[p] \in Nat
  /\ DOMAIN sess \subseteq Nat \ {NoSession}
  /\ \A s \in DOMAIN sess : sess[s] \in SessionStates
  /\ nextSession \in Nat \ {NoSession}

(* Whatever tabs are opened and closed around it, a tab that still has     *)
(* panes has its focus and its zoom on one of them, and its tree will not  *)
(* hand out an id it already has.                                          *)
LayoutsSound ==
  \A i \in DOMAIN tabs :
    tabs[i].panes # {} =>
      /\ tabs[i].focus \in tabs[i].panes
      /\ tabs[i].zoomed \in tabs[i].panes \cup {NoPane}
      /\ \A p \in tabs[i].panes : p < tabs[i].next

(* Half of the 1:1 relation of panes and sessions: no two panes are        *)
(* attached to one session, and none to a session that does not exist yet, *)
(* even when pane ids collide and records are overwritten.                 *)
SessionsNotShared ==
  /\ \A p, q \in Attached : rec[p] = rec[q] => p = q
  /\ \A p \in DOMAIN rec : rec[p] < nextSession
  /\ \A s \in DOMAIN sess : s < nextSession

(* The other half, with all it needs: every pane of a tab is in that tab   *)
(* only and has a record, every record is of such a pane, every attached   *)
(* session exists, and every session that started belongs to a pane.       *)
TabsDisjoint ==
  \A i, j \in DOMAIN tabs : i # j => tabs[i].panes \cap tabs[j].panes = {}

NoEmptyTab == \A i \in DOMAIN tabs : tabs[i].panes # {}

RecordsMatchPanes == DOMAIN rec = AllPanes

AttachedExist == \A p \in Attached : rec[p] \in DOMAIN sess

NoHeadlessSession ==
  \A s \in DOMAIN sess : sess[s] = "Started" => \E p \in DOMAIN rec : rec[p] = s

Owned ==
  /\ TabsDisjoint
  /\ NoEmptyTab
  /\ RecordsMatchPanes
  /\ AttachedExist
  /\ NoHeadlessSession

(* A tab takes a pane id that is in use: the counter of a tree does not    *)
(* know the panes of other tabs, and the workspace's counter, which new    *)
(* tabs take theirs from, does not know the panes that splits made.        *)
IdCollides ==
  \E i \in DOMAIN tabs' :
    IF i \in DOMAIN tabs
      THEN tabs[i].next \in AllPanes /\ tabs'[i] = Layout!Split(tabs[i])
      ELSE tabs'[i].panes \cap AllPanes # {}

(* A close takes the last pane of a tab.                                   *)
LastPaneCloses ==
  \E i \in DOMAIN tabs \cap DOMAIN tabs' :
    tabs[i].panes # {} /\ tabs'[i].panes = {}

(* Ownership is lost in two ways only: a split or a new tab whose pane id  *)
(* is in use, and the close of a tab's last pane.  No order of the other   *)
(* requests, and no launch that fails half-way, leaks a session, leaves a  *)
(* record behind or a pane without one.                                    *)
OwnershipLostOnlyThere ==
  [][Owned /\ ~Owned' => IdCollides \/ LastPaneCloses]_vars

(* recreate() repairs whatever was lost.                                   *)
RecreateRestoresOwnership ==
  [][(\E d \in Definitions : Recreate(d)) => Owned']_vars

(* Session ids are never handed out twice, not even across a recreate: a   *)
(* client's stale SessionInput can only reach a session that is gone.      *)
SessionIdsFresh ==
  [][/\ nextSession <= nextSession'
     /\ \A s \in DOMAIN sess' \ DOMAIN sess :
          nextSession <= s /\ s < nextSession']_vars

=============================================================================
