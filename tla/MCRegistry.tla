------------------------------ MODULE MCRegistry ------------------------------
(* In one part two workspaces, one definition of the user's with a profile *)
(* of its own; in the other, which shares no state with it, what a         *)
(* workspace of one or two panes starts, with and without profiles and     *)
(* defaults, and what prompts to its panes become.                         *)
EXTENDS Registry, TLC, SequencesExt

Request(name, profile, file, recreate, cwd) ==
  [name |-> name, profile |-> profile, file |-> file, recreate |-> recreate, cwd |-> cwd]

MCOpens ==
  {Request("dev", "none", <<>>, FALSE, "here"), Request("dev", "none", <<>>, TRUE, "elsewhere"),
   Request("", "cmd", <<>>, FALSE, "here"), Request("ops", "none", <<<<"here", "dev">>>>, TRUE, "here")}

MCDefinition ==
  [name |-> "dev", declares |-> {"own"}, windows |-> TRUE,
   tabs |-> <<[name |-> "main", panes |-> <<[name |-> "shell", profile |-> "own"]>>],
              [name |-> "main", panes |-> <<[name |-> "pane-3", profile |-> "none"]>>]>>]

MCWritten == {MCDefinition, [MCDefinition EXCEPT !.name = "other"]}

MCPaths == {<<"here", "dev">>, <<"user", "dev">>, <<"user", "ops">>}

CONSTANTS KeySpecs, Size, GlobalProfiles, GlobalDefault, HostEnv, Name, Reference, Agents, PwshFound, Files, Requests,
  PromptTexts, Picked, MaxLaunched, MaxTaken

VARIABLES part, file, from, panes, taken

Shapes == INSTANCE Launch WITH
  Profiles <- {}, MaxPanes <- 0, MaxSteps <- 0, steps <- taken, Files <- {}, Requests <- {}, GlobalProfiles <- <<>>,
  Name <- <<>>

Sessions == INSTANCE Launch WITH Profiles <- Picked, MaxPanes <- MaxLaunched, MaxSteps <- MaxTaken, steps <- taken

ASSUME SessionsAssumption ==
  /\ \A f \in Files : Sessions!IsFile(f)
  /\ \A name \in DOMAIN GlobalProfiles : Sessions!IsProfile(GlobalProfiles[name])
  /\ \A lines \in PromptTexts : lines \in Seq(DOMAIN Size)

MCName ==
  [v \in {"Path", "PATH", "NO_COLOR", "TERM", "MODE", "USERPROFILE"} \cup Shapes!OfTerminal \cup Shapes!OfDriver |->
    IF v = "Path" THEN "PATH" ELSE v]

MCHostEnv == [v \in {"Path", "NO_COLOR", "USERPROFILE"} |-> "host"]

MCReference == "%USERPROFILE%" :> "USERPROFILE" @@ "%HOME%" :> "HOME"

MCAgents == "pi.exe" :> "pi" @@ "codex" :> "codex"

MCGlobalProfiles == "cmd" :> [Shapes!Typed("cmd") EXCEPT !.args = <<<<"/K">>>>, !.env = "MODE" :> <<"settings">>]

Own == [Shapes!Typed("custom") EXCEPT !.executable = <<"pi.exe">>, !.cwd = <<"%HOME%">>,
                                    !.env = "MODE" :> <<"profile">> @@ "TERM_PROGRAM" :> <<"profile">>]

Remote ==
  [Shapes!Typed("ssh") EXCEPT !.ssh = <<[identity |-> <<"key">>, agent |-> FALSE, host |-> "far", command |-> <<>>]>>]

MCDriver == [Shapes!NoDriver EXCEPT !.profile = <<"pi">>, !.soft = <<"Alt+Enter">>]

MCFiles ==
  {[profiles |-> "own" :> Own @@ "far" :> Remote,
    defaults |-> [Shapes!NoDefaults EXCEPT !.profile = <<"own">>, !.env = "MODE" :> <<"defaults">>, !.driver = driver],
    panes |-> <<<<>>, <<[Shapes!NoSession EXCEPT !.profile = <<"far">>, !.env = "MODE" :> <<>> @@ "PATH" :> <<"pane">> @@ "COLORTERM" :> <<>>]>>>>] :
     driver \in {<<>>, <<MCDriver>>}}
   \cup
  {[panes |-> <<<<[Shapes!NoSession EXCEPT !.profile = <<profile>>, !.startup = <<"codex">>, !.args = args]>>>>] @@ Shapes!Bare :
     profile \in {"powershell", "cmd", "wsl"}, args \in {<<>>, <<<<"/C">>>>}}

Plainly == [clear |-> FALSE, profile |-> <<>>, submit |-> <<>>, soft |-> <<>>, clearSoft |-> FALSE]

MCRequests ==
  {Plainly, [Plainly EXCEPT !.clear = TRUE], [Plainly EXCEPT !.profile = <<"pi">>],
   [Plainly EXCEPT !.soft = <<"Ctrl+J">>], [Plainly EXCEPT !.clearSoft = TRUE, !.submit = <<"Hyper+X">>]}

MCSize == "" :> 0 @@ "y" :> 1 @@ "text" :> 4

MCPrompts == SeqOf(DOMAIN MCSize, 3) \ {<<>>}

launched == <<file, from, panes, taken>>

BothInit ==
  /\ Init /\ Sessions!Init
  /\ part \in {"registry", "sessions"}
  /\ part = "registry" => file = CHOOSE f \in Files : f.profiles = <<>>

BothNext ==
  \/ part = "registry" /\ Next /\ UNCHANGED <<part, launched>>
  \/ part = "sessions" /\ Sessions!Next /\ UNCHANGED <<part, vars>>

BothSpec == BothInit /\ [][BothNext]_<<part, vars, launched>>

(* What is saved is on disk, and the path a reply gives for a pane leads   *)
(* back to it.                                                             *)
SavedAndNamed == part = "registry" => CleanMeansOnDisk /\ CanonicalResolves

(* A request that is refused changes nothing, and a workspace goes by      *)
(* another name than its own only when a definition was loaded.            *)
ChangesMeant == RefusalChangesNothing /\ NamesPartOnlyByLoading

(* A pane runs what its definition says, which is what will be saved, and  *)
(* what the definition sets is what its program gets, but for TERM and the *)
(* variables that are the terminal's and the driver's own.                 *)
RunAsDefined == part = "sessions" => Sessions!DefinedAsRun /\ Sessions!SetAsDefined

(* A prompt arrives whole, in order, and is submitted at its end.          *)
PromptsWhole == part = "sessions" => Sessions!PromptsWhole

(* A prompt is planned or refused: pi has "`Shift+Enter` soft breaks"      *)
(* (docs/AGENT_GUIDE.md:328).                                              *)
PromptsAnswered == part = "sessions" => Sessions!PromptsAnswered
=============================================================================
