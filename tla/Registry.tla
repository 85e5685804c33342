------------------------------- MODULE Registry -------------------------------
(***************************************************************************)
(* The workspaces a host has open, by name, and the definition files they  *)
(* are loaded from and saved to: open, recreate, close, rename, save, and  *)
(* the edits that make a workspace differ from its file.                   *)
(*                                                                         *)
(* Handlers hold one lock, so each is one action.  Sessions, focus and     *)
(* the tab that is active are Workspace's; here an edit may be made in any *)
(* tab.  The order in which a HashMap is searched is any order.            *)
(*                                                                         *)
(* A workspace keeps its panes' names and definitions by pane id.  Ids of  *)
(* new tabs come from the workspace's counter, ids of splits from their    *)
(* tab's: two tabs may come to hold one id, and then share its record.     *)
(***************************************************************************)
EXTENDS Definitions, FiniteSetsExt, Functions

CONSTANTS
  Names,          \* workspace names requests use
  Opens,          \* open requests: records of name, profile, file, recreate, cwd
  Texts,          \* names given to tabs and panes
  Written,        \* definitions a user writes into files
  Paths,          \* files they are written to
  Profiles,       \* profiles actions name
  MaxPanes,       \* bound on the pane ids of a workspace
  MaxSteps        \* bound on the steps of a behaviour

ASSUME RegistryAssumption ==
  MaxPanes \in Nat /\ MaxSteps \in Nat /\ \A def \in Written : IsDefinition(def)

VARIABLES
  open,           \* HostState.workspaces: instances by the name they are open under
  nextId,         \* next_instance_id
  disk,           \* definitions by path
  author,         \* by path: the instance that wrote or loaded it last, 0 others
  reply,          \* the last reply: request, and "ok" or why it failed
  steps

vars == <<open, nextId, disk, author, reply, steps>>

PaneName(n) == "pane-" \o ToString(n)
TabName(n) == "tab-" \o ToString(n)

-----------------------------------------------------------------------------
(* Instances.                                                              *)

(* populate: panes get ids from 1 on, or on from where a recreation is,    *)
(* and each tab goes on from its last.                                     *)
Populated(inst, def) ==
  LET before(t) == Len(PanesOf(SubSeq(def.tabs, 1, t - 1)))
      panes == PanesOf(def.tabs)
  IN  [inst EXCEPT !.name = def.name,
                   !.tabs = [t \in DOMAIN def.tabs |->
                               [name |-> def.tabs[t].name,
                                panes |-> [i \in DOMAIN def.tabs[t].panes |-> inst.next + before(t) + i - 1],
                                next |-> inst.next + before(t + 1)]],
                   !.panes = [id \in inst.next .. inst.next + Len(panes) - 1 |-> panes[id - inst.next + 1]],
                   !.next = @ + Len(panes),
                   !.collided = FALSE]

(* collided and cut are history: an id was handed out that a pane had; the *)
(* last attempt to write the workspace's own file cut it off.              *)
Unopened(id) ==
  [id |-> id, name |-> "", tabs |-> <<>>, panes |-> <<>>, next |-> 1, saved |-> <<>>, path |-> <<>>,
   collided |-> FALSE, cut |-> FALSE]

Opened(id, def) == Populated(Unopened(id), def)

(* What is known of a pane; one whose record is gone is named by its id.   *)
RecordOf(inst, id) ==
  IF id \in DOMAIN inst.panes THEN inst.panes[id] ELSE [name |-> PaneName(id), profile |-> NoProfile]

(* save: names, layout and sessions; no profiles, defaults or windows.     *)
Saved(inst) ==
  [name |-> inst.name, declares |-> {}, windows |-> FALSE,
   tabs |-> [t \in DOMAIN inst.tabs |->
     [name |-> inst.tabs[t].name,
      panes |-> [i \in DOMAIN inst.tabs[t].panes |-> RecordOf(inst, inst.tabs[t].panes[i])]]]]

MarkSaved(inst, path) == [inst EXCEPT !.saved = <<Saved(inst)>>, !.path = <<path>>, !.cut = FALSE]

(* save_status: saved once, and what it would save now is that.            *)
Clean(inst) == inst.saved = <<Saved(inst)>>

PaneIdsOf(inst) == UNION {ToSet(tab.panes) : tab \in ToSet(inst.tabs)}

(* The first tab that holds an id, or 0.                                   *)
TabOf(inst, id) == SelectInSeq(inst.tabs, LAMBDA tab : id \in ToSet(tab.panes))

-----------------------------------------------------------------------------
(* Targets: a number, or a path of one to four names.                      *)

Number(n) == [number |-> n, path |-> <<>>]
Path(path) == [number |-> 0, path |-> path]

NamedAs(inst, id, name) == id \in DOMAIN inst.panes /\ inst.panes[id].name = name

Bug_TabIgnored(k, tab, name) == {<<k, id>> : id \in {p \in DOMAIN open[k].panes : NamedAs(open[k], p, name)}}

InTab(k, tab, name) ==
  LET t == SelectInSeq(open[k].tabs, LAMBDA x : x.name = tab)
      p == IF t = 0 THEN 0 ELSE SelectInSeq(open[k].tabs[t].panes, LAMBDA id : NamedAs(open[k], id, name))
  IN  IF p = 0 THEN {} ELSE {<<k, open[k].tabs[t].panes[p]>>}

(* Where a pane of that name is: an id two tabs hold is found twice.       *)
Places(k, name) ==
  UNION {{<<t, i>> : i \in {j \in DOMAIN open[k].tabs[t].panes : NamedAs(open[k], open[k].tabs[t].panes[j], name)}} :
           t \in DOMAIN open[k].tabs}

OnlyOne(k, name) ==
  IF Cardinality(Places(k, name)) = 1 THEN {<<k, open[k].tabs[p[1]].panes[p[2]]>> : p \in Places(k, name)} ELSE {}

(* find_instance_by_name goes by the instance's own name, and refuses two. *)
Instances(name) ==
  LET same == {k \in DOMAIN open : open[k].name = name}
  IN  IF Cardinality(same) = 1 THEN same ELSE {}

(* TargetPath::parse and resolve_target: a path whose names are not        *)
(* identifiers leads nowhere.                                              *)
ByPath(path) ==
  IF ~(ToSet(path) \subseteq Idents) THEN {}
  ELSE CASE Len(path) = 1 -> IF Cardinality(DOMAIN open) = 1
                               THEN UNION {OnlyOne(k, path[1]) : k \in DOMAIN open} ELSE {}
         [] Len(path) = 2 -> UNION {OnlyOne(k, path[2]) : k \in Instances(path[1])}
         [] OTHER -> UNION {InTab(k, path[Len(path) - 1], path[Len(path)]) : k \in Instances(path[1])}

(* resolve_invoke_action_target: the panes a target may reach: by number   *)
(* in any workspace, by path, or, refused there, by name in any workspace. *)
Resolve(target) ==
  LET numbered == {<<k, target.number>> : k \in {q \in DOMAIN open : target.number \in DOMAIN open[q].panes}}
      named(k) == {<<k, id>> : id \in {p \in DOMAIN open[k].panes : NamedAs(open[k], p, target.path[1])}}
      pathed == ByPath(target.path)
  IN  IF target.path = <<>> THEN numbered
      ELSE IF pathed = {} /\ Len(target.path) = 1 THEN UNION {named(k) : k \in DOMAIN open}
      ELSE pathed

(* canonical_pane_path: through the first tab that holds the id.           *)
CanonicalPath(inst, id) == <<inst.name, inst.tabs[TabOf(inst, id)].name, inst.panes[id].name>>

Targets ==
  {Number(n) : n \in 1 .. MaxPanes}
    \cup {Path(<<p>>) : p \in Texts} \cup {Path(<<k, p>>) : k \in Names, p \in Texts}

-----------------------------------------------------------------------------
(* Requests.                                                               *)

Running == steps < MaxSteps

Answer(op, result) ==
  /\ Running
  /\ reply' = [op |-> op, result |-> result]
  /\ steps' = steps + 1

Refuse(op) == Answer(op, "refused") /\ UNCHANGED <<open, nextId, disk, author>>

Effective(r) == IF r.name # "" THEN r.name ELSE IF r.profile # NoProfile THEN r.profile ELSE "default"

FromFile(r) == r.file # <<>> \/ (r.name # "" /\ r.profile = NoProfile)

Reused(r) == ~r.recreate /\ Effective(r) \in DOMAIN open

Loaded(r) ==
  IF FromFile(r) THEN Load(disk, Effective(r), r.file, r.cwd) ELSE [result |-> "not found"]

Definition(r, loaded) ==
  IF loaded.result = "loaded" THEN loaded.def ELSE Synthesized(Effective(r), r.profile)

Bug_ClosedBeforeLoading(r) ==
  /\ ~Reused(r) /\ Loaded(r).result = "error" /\ Answer("open", "refused")
  /\ open' = IF r.recreate THEN Restrict(open, DOMAIN open \ {Effective(r)}) ELSE open
  /\ UNCHANGED <<nextId, disk, author>>

(* handle_open_workspace: a workspace that is open is used again, a        *)
(* definition that does not load is refused.                               *)
OpenRefused(r) == ~Reused(r) /\ Loaded(r).result = "error" /\ Refuse("open")

OpenReused(r) == Reused(r) /\ Answer("open", "ok") /\ UNCHANGED <<open, nextId, disk, author>>

(* Recreating, the old one is closed first; without a job object there is  *)
(* then no new one.                                                        *)
Open(r, job) ==
  LET key == Effective(r)
      loaded == Loaded(r)
      inst == Opened(nextId, Definition(r, loaded))
      marked == IF loaded.result = "loaded" THEN MarkSaved(inst, loaded.path) ELSE inst
  IN  /\ ~Reused(r) /\ loaded.result # "error"
      /\ marked.next <= MaxPanes + 1
      /\ nextId' = nextId + 1
      /\ open' = IF job THEN With(open, key, marked) ELSE Restrict(open, DOMAIN open \ {key})
      /\ author' = IF job /\ loaded.result = "loaded"
                     THEN [author EXCEPT ![loaded.path] = nextId] ELSE author
      /\ Answer("open", IF job THEN "ok" ELSE "no job")
      /\ UNCHANGED disk

(* handle_close_workspace.                                                 *)
Close(k) ==
  /\ k \in DOMAIN open
  /\ open' = Restrict(open, DOMAIN open \ {k})
  /\ Answer("close", "ok")
  /\ UNCHANGED <<nextId, disk, author>>

(* handle_recreate_workspace: found under the name it is open under, and   *)
(* torn down before the job object is made.                                *)
Recreate(k, cwd, job) ==
  LET loaded == Load(disk, k, <<>>, cwd)
  IN  /\ k \in DOMAIN open
      /\ \/ loaded.result # "loaded" /\ Refuse("recreate")
         \/ /\ loaded.result = "loaded" /\ Running
            /\ LET inst == IF job THEN MarkSaved(Populated(open[k], loaded.def), loaded.path)
                           ELSE [open[k] EXCEPT !.name = loaded.def.name, !.tabs = <<>>, !.panes = <<>>]
               IN  inst.next <= MaxPanes + 1 /\ open' = [open EXCEPT ![k] = inst]
            /\ author' = IF job THEN [author EXCEPT ![loaded.path] = open[k].id] ELSE author
            /\ Answer("recreate", IF job THEN "ok" ELSE "no job")
            /\ UNCHANGED <<nextId, disk>>

(* save_workspace_definition_to_file: to the file given, the one it came   *)
(* from, or one of the user's.                                             *)
SavePath(k, file) ==
  IF file # <<>> THEN file[1]
  ELSE IF open[k].path # <<>> THEN open[k].path[1] ELSE <<"user", k>>

Save(k, file) ==
  LET path == SavePath(k, file)
  IN  /\ k \in DOMAIN open /\ Running /\ path \in Paths
      /\ disk' = With(disk, path, Saved(open[k]))
      /\ author' = [author EXCEPT ![path] = open[k].id]
      /\ open' = [open EXCEPT ![k] = MarkSaved(@, path)]
      /\ Answer("save", "ok")
      /\ UNCHANGED nextId

(* The write fails, before or after it has cut the file off; the workspace *)
(* is as clean as it was.                                                  *)
SaveFails(k, file, cut) ==
  LET path == SavePath(k, file)
  IN  /\ k \in DOMAIN open /\ Running /\ path \in Paths
      /\ disk' = IF cut THEN With(disk, path, Garbage) ELSE disk
      /\ author' = IF cut THEN [author EXCEPT ![path] = open[k].id] ELSE author
      /\ open' = [open EXCEPT ![k].cut = @ \/ (cut /\ open[k].path = <<path>>)]
      /\ Answer("save", "not written")
      /\ UNCHANGED nextId

(* handle_rename_workspace, and the action rename-workspace: the name may  *)
(* be one no loader accepts.                                               *)
Rename(k, new) ==
  /\ k \in DOMAIN open /\ new \notin DOMAIN open
  /\ open' = With(Restrict(open, DOMAIN open \ {k}), new, [open[k] EXCEPT !.name = new])
  /\ Answer("rename", "ok")
  /\ UNCHANGED <<nextId, disk, author>>

RenameRefused(k, new) == (new \in DOMAIN open \/ k \notin DOMAIN open) /\ Refuse("rename")

(* A request for a workspace that is not open.                             *)
Unknown(k) == k \notin DOMAIN open /\ Refuse("close")

-----------------------------------------------------------------------------
(* Edits, made by actions on a workspace.                                  *)

Edit(k, inst) ==
  /\ inst.next <= MaxPanes + 1 /\ \A t \in DOMAIN inst.tabs : inst.tabs[t].next <= MaxPanes + 1
  /\ open' = [open EXCEPT ![k] = inst]
  /\ Answer("action", "ok")
  /\ UNCHANGED <<nextId, disk, author>>

(* A pane's record is set, whatever pane has it.                           *)
Recorded(inst, id, name, profile) ==
  [inst EXCEPT !.panes = With(@, id, [name |-> name, profile |-> profile])]

(* The new pane's id is its tab's next, which another tab may hold.  It    *)
(* comes after the pane split, and is named by its id.                     *)
Split(k, t, i, profile) ==
  LET inst == open[k]
      id == inst.tabs[t].next
      tab == [inst.tabs[t] EXCEPT !.panes = InsertAt(@, i + 1, id), !.next = @ + 1]
      with == [inst EXCEPT !.tabs[t] = tab, !.collided = @ \/ id \in PaneIdsOf(inst)]
  IN  Edit(k, Recorded(with, id, PaneName(id), profile))

(* Tabs are named by their number, whatever the others are named, and      *)
(* their pane by the workspace's next id, which a split may have taken.    *)
NewTab(k, profile) ==
  LET id == open[k].next
      tab == [name |-> TabName(Len(open[k].tabs) + 1), panes |-> <<id>>, next |-> id + 1]
      with == [open[k] EXCEPT !.tabs = Append(@, tab), !.next = @ + 1, !.collided = @ \/ id \in PaneIdsOf(open[k])]
  IN  Edit(k, Recorded(with, id, PaneName(id), profile))

Forgotten(inst, ids) == [inst EXCEPT !.panes = Restrict(@, DOMAIN @ \ ids)]

CloseTab(k, t) ==
  /\ Len(open[k].tabs) > 1
  /\ Edit(k, Forgotten([open[k] EXCEPT !.tabs = RemoveAt(@, t)], ToSet(open[k].tabs[t].panes)))

RenameTab(k, t, name) == Edit(k, [open[k] EXCEPT !.tabs[t].name = name])

RenamePane(k, id, name) ==
  Edit(k, IF id \in DOMAIN open[k].panes THEN Recorded(open[k], id, name, open[k].panes[id].profile) ELSE open[k])

ChangeProfile(k, id, profile) == Edit(k, Recorded(open[k], id, RecordOf(open[k], id).name, profile))

(* A pane that is not the last of its tab.                                 *)
ClosePane(k, t, i) ==
  /\ Len(open[k].tabs[t].panes) > 1
  /\ Edit(k, Forgotten([open[k] EXCEPT !.tabs[t].panes = RemoveAt(@, i)], {open[k].tabs[t].panes[i]}))

(* What is done to a pane where it is; a split takes the profile named, or *)
(* its target's.                                                           *)
AtPane(k, t, i, given) ==
  \/ \E profile \in Profiles \cup {given} : Split(k, t, i, profile)
  \/ \E name \in Texts : RenamePane(k, open[k].tabs[t].panes[i], name)
  \/ ClosePane(k, t, i)

(* handle_invoke_action on a pane: it is looked for in the first tab that  *)
(* holds its id.                                                           *)
OnPane(k, id) ==
  LET t == TabOf(open[k], id)
  IN  /\ t # 0
      /\ \/ \E i \in DOMAIN open[k].tabs[t].panes :
              open[k].tabs[t].panes[i] = id /\ AtPane(k, t, i, RecordOf(open[k], id).profile)
         \/ \E name \in Texts : RenameTab(k, t, name)
         \/ \E profile \in Profiles : ChangeProfile(k, id, profile)

(* Without a target: on any workspace, there on the first tab, or the      *)
(* active one, and the pane that has its focus.                            *)
OnWorkspace(k) ==
  \/ open[k].tabs # <<>> /\ \E i \in DOMAIN open[k].tabs[1].panes : AtPane(k, 1, i, NoProfile)
  \/ \E t \in DOMAIN open[k].tabs :
       \/ \E name \in Texts : RenameTab(k, t, name)
       \/ CloseTab(k, t)
       \/ \E id \in ToSet(open[k].tabs[t].panes), profile \in Profiles : ChangeProfile(k, id, profile)
  \/ \E profile \in Profiles \cup {NoProfile} : NewTab(k, profile)
  \/ \E new \in Names : Rename(k, new)
  \/ Save(k, <<>>)

(* A user writes or deletes a definition.                                  *)
Write(path, def) ==
  /\ Running /\ disk' = With(disk, path, def)
  /\ author' = [author EXCEPT ![path] = 0]
  /\ reply' = [op |-> "none", result |-> "ok"] /\ steps' = steps + 1
  /\ UNCHANGED <<open, nextId>>

Delete(path) ==
  /\ Running /\ path \in DOMAIN disk /\ disk' = Restrict(disk, DOMAIN disk \ {path})
  /\ author' = [author EXCEPT ![path] = 0]
  /\ reply' = [op |-> "none", result |-> "ok"] /\ steps' = steps + 1
  /\ UNCHANGED <<open, nextId>>

-----------------------------------------------------------------------------
Init ==
  /\ open = <<>> /\ nextId = 1
  /\ disk = <<>> /\ author = [path \in Paths |-> 0]
  /\ reply = [op |-> "none", result |-> "ok"] /\ steps = 0

Next ==
  \/ \E r \in Opens : OpenRefused(r) \/ OpenReused(r) \/ Open(r, TRUE) \/ Open(r, FALSE)
  \/ \E k \in Names :
       \/ Unknown(k) \/ Close(k)
       \/ \E cwd \in {"here", "elsewhere"} : Recreate(k, cwd, TRUE) \/ Recreate(k, cwd, FALSE)
       \/ \E file \in {<<>>} \cup {<<path>> : path \in Paths} :
            Save(k, file) \/ SaveFails(k, file, TRUE) \/ SaveFails(k, file, FALSE)
       \/ \E new \in Names : Rename(k, new) \/ RenameRefused(k, new)
  \/ Running /\ \E target \in Targets : \E r \in Resolve(target) : OnPane(r[1], r[2])
  \/ Running /\ \E k \in DOMAIN open : OnWorkspace(k)
  \/ \E path \in Paths : Delete(path) \/ \E def \in Written : Write(path, def)

Spec == Init /\ [][Next]_vars

-----------------------------------------------------------------------------
(* Properties.                                                             *)

(* Every pane has a record, and an id no other pane has.                   *)
EachItsOwn(inst) ==
  /\ PaneIdsOf(inst) = DOMAIN inst.panes
  /\ \A t, u \in DOMAIN inst.tabs : t # u => ToSet(inst.tabs[t].panes) \cap ToSet(inst.tabs[u].panes) = {}

(* Instances are told apart by their ids, panes of a tab by theirs, and    *)
(* those of a workspace until an id was handed out that another tab held;  *)
(* a workspace that can be saved without a file name has one.              *)
TypeOK ==
  /\ \A k, l \in DOMAIN open : open[k].id = open[l].id => k = l
  /\ \A k \in DOMAIN open :
       /\ open[k].id < nextId
       /\ \A t \in DOMAIN open[k].tabs :
            LET ids == open[k].tabs[t].panes
            IN  /\ \A i \in DOMAIN ids : ids[i] < open[k].tabs[t].next
                /\ \A i, j \in DOMAIN ids : ids[i] = ids[j] => i = j
       /\ open[k].collided \/ EachItsOwn(open[k])
       /\ (open[k].saved = <<>>) = (open[k].path = <<>>)
  /\ steps \in 0 .. MaxSteps

(* What the title bar shows as saved is on disk: a workspace that saved or *)
(* loaded its file last, and is not dirty, is in it, but for the profiles, *)
(* defaults and windows a definition of the user's may have; or it cut the *)
(* file off itself, in a save that failed, and shows as saved all the same.*)
CleanMeansOnDisk ==
  \A k \in DOMAIN open :
    open[k].path # <<>> /\ Clean(open[k]) /\ author[open[k].path[1]] = open[k].id =>
      LET found == disk[open[k].path[1]]
      IN  \/ [found EXCEPT !.declares = {}, !.windows = FALSE] = Saved(open[k])
          \/ open[k].cut /\ found = Garbage

(* A request that is refused changes nothing: in particular, a workspace   *)
(* to be recreated survives a definition that does not load.               *)
RefusalChangesNothing == [][reply'.result = "refused" => UNCHANGED <<open, nextId, disk>>]_vars

(* The name a workspace is open under and the one its panes are addressed  *)
(* by part only when a definition with another name is loaded.             *)
NamesPartOnlyByLoading ==
  [][\A k \in DOMAIN open' :
       open'[k].name # k /\ (k \in DOMAIN open => open[k].name = k)
         => reply'.op \in {"open", "recreate"}]_vars

(* The path a reply gives for a pane leads back to its id, if workspace,   *)
(* tab and pane have names no other has, and the names parse; and to the   *)
(* pane itself, unless another tab was handed its id.                      *)
Unmistaken(k, id) ==
  LET inst == open[k]
      tab == inst.tabs[TabOf(inst, id)]
  IN  /\ Instances(inst.name) = {k} /\ NamesUnique(inst.tabs)
      /\ \A other \in ToSet(tab.panes) : NamedAs(inst, other, inst.panes[id].name) => other = id
      /\ ToSet(CanonicalPath(inst, id)) \subseteq Idents

CanonicalResolves == TypeOK /\
  \A k \in DOMAIN open : \A t \in DOMAIN open[k].tabs : \A id \in ToSet(open[k].tabs[t].panes) :
    /\ id \in DOMAIN open[k].panes /\ Unmistaken(k, id) => Resolve(Path(CanonicalPath(open[k], id))) = {<<k, id>>}
    /\ open[k].collided \/ (id \in DOMAIN open[k].panes /\ TabOf(open[k], id) = t)

=============================================================================
