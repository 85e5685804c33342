----------------------------- MODULE Definitions ------------------------------
(***************************************************************************)
(* Workspace definitions: what a file holds, where files are looked for,   *)
(* what the loader accepts, and what a running workspace saves.            *)
(*                                                                         *)
(* A definition has a name, the profiles it declares, and tabs of panes,   *)
(* each with the profile of its session.  Splits and their ratios are      *)
(* LayoutTree's; environment and directories are left to Profiles.         *)
(***************************************************************************)
EXTENDS Naturals, Sequences, SequencesExt, FiniteSets

CONSTANTS
  Idents,         \* names that match [a-zA-Z0-9_.-]{1,64}
  Builtins,       \* powershell, cmd, wsl, ssh, custom
  NoProfile       \* a session that leaves its profile to the defaults

(* A file that does not parse, or that a failed write cut off.             *)
Garbage == [name |-> "", declares |-> {}, windows |-> FALSE, tabs |-> <<>>]

(* A map with one entry set, which it may have had.                        *)
With(f, key, value) == [k \in DOMAIN f \cup {key} |-> IF k = key THEN value ELSE f[k]]

(* The shape of a definition: tabs in order, each of panes in order.       *)
IsSeq(s) == Len(s) \in Nat /\ s = [i \in 1 .. Len(s) |-> s[i]]

IsDefinition(def) ==
  /\ def = [name |-> def.name, declares |-> def.declares, windows |-> def.windows, tabs |-> def.tabs]
  /\ IsSeq(def.tabs)
  /\ \A t \in DOMAIN def.tabs :
       /\ def.tabs[t] = [name |-> def.tabs[t].name, panes |-> def.tabs[t].panes]
       /\ IsSeq(def.tabs[t].panes)
       /\ \A i \in DOMAIN def.tabs[t].panes :
            def.tabs[t].panes[i] = [name |-> def.tabs[t].panes[i].name, profile |-> def.tabs[t].panes[i].profile]

PanesOf(tabs) == FlattenSeq([t \in DOMAIN tabs |-> tabs[t].panes])

NamesUnique(items) == \A i, j \in DOMAIN items : items[i].name = items[j].name => i = j

(* validate: names, their uniqueness, and profiles that are declared here  *)
(* or built in.  Tabs of different windows may share a name.               *)
Valid(def) ==
  LET panes == PanesOf(def.tabs)
  IN  /\ def.name \in Idents
      /\ def.windows \/ NamesUnique(def.tabs)
      /\ NamesUnique(panes)
      /\ \A t \in DOMAIN def.tabs : def.tabs[t].name \in Idents
      /\ \A i \in DOMAIN panes :
           /\ panes[i].name \in Idents
           /\ panes[i].profile \in def.declares \cup Builtins \cup {NoProfile}

(* synthesize_default_workspace: one pane with a named profile.            *)
Synthesized(name, profile) ==
  [name |-> name, declares |-> {}, windows |-> FALSE,
   tabs |-> <<[name |-> "main", panes |-> <<[name |-> "shell", profile |-> profile]>>]>>]

-----------------------------------------------------------------------------
(* Files: a path is a directory and a file stem.  Requests see the         *)
(* directory .wtd of their own working directory and the user's.           *)

(* find_workspace: the file given, the directory's, or the user's.         *)
Found(disk, name, file, cwd) ==
  IF file # <<>> THEN file[1]
  ELSE IF <<cwd, name>> \in DOMAIN disk THEN <<cwd, name>> ELSE <<"user", name>>

(* load_workspace_from_disk: an explicit file must exist; file is <<>> or  *)
(* <<path>>.                                                               *)
Load(disk, name, file, cwd) ==
  LET path == Found(disk, name, file, cwd)
  IN  IF path \notin DOMAIN disk THEN [result |-> IF file = <<>> THEN "not found" ELSE "error"]
      ELSE IF ~Valid(disk[path]) THEN [result |-> "error"]
      ELSE [result |-> "loaded", path |-> path, def |-> disk[path]]

=============================================================================
