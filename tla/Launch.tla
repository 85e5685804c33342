------------------------------- MODULE Launch --------------------------------
(***************************************************************************)
(* What the panes of a workspace start, and what becomes of it when panes  *)
(* are added, given another profile or driver, saved and opened again.     *)
(*                                                                         *)
(* A session definition sets a profile, arguments, a directory, an         *)
(* environment, a startup command and a driver; what it leaves open comes  *)
(* from the defaults of its workspace, its profile, the settings and the   *)
(* host's environment.  The terminal's own variables come last, over all   *)
(* of these.  Panes that are added later are resolved without the profiles *)
(* and defaults of the workspace, and saving drops both.                   *)
(***************************************************************************)
EXTENDS PromptDriver, FiniteSets, Functions

CONSTANTS
  GlobalProfiles, \* the profiles of the settings: a function of their names
  GlobalDefault,  \* defaultProfile of the settings
  HostEnv,        \* the environment of the host: a function of spelled names
  Name,           \* what a spelled name of a variable means: names ignore case
  Reference,      \* directories that are written as a variable, with its name
  Agents,         \* programs that are known agents, with their driver's profile
  PwshFound,      \* whether pwsh.exe is on the path
  Files,          \* definitions the user may have written
  Profiles,       \* profiles that actions name
  Requests,       \* configure-pane requests
  PromptTexts,    \* prompts, each as its lines
  MaxPanes, MaxSteps  \* bounds on the panes and on the actions

VARIABLES
  file,           \* the definition on disk
  from,           \* the definition the running workspace was opened from: none or one
  panes,          \* the panes of the running workspace
  steps

vars == <<file, from, panes, steps>>

NoSession ==
  [profile |-> <<>>, args |-> <<>>, cwd |-> <<>>, env |-> <<>>, startup |-> <<>>, driver |-> <<>>]

NoDefaults == [profile |-> <<>>, cwd |-> <<>>, env |-> <<>>, driver |-> <<>>]

Bare == [profiles |-> <<>>, defaults |-> NoDefaults]

BuiltInTypes == {"powershell", "cmd", "wsl", "ssh", "custom"}

(* A profile that says its type only.                                      *)
Typed(type) ==
  [type |-> type, executable |-> <<>>, args |-> <<>>, cwd |-> <<>>, env |-> <<>>, distribution |-> <<>>, ssh |-> <<>>]

(* What users may write, where it is relied on: sessions, profiles, and    *)
(* the definitions that hold them.                                         *)
IsSeq(s) == Len(s) \in Nat /\ s = [i \in 1 .. Len(s) |-> s[i]]

Optional(x) == x = <<>> \/ x = <<x[1]>>

IsSession(s) ==
  /\ s = [profile |-> s.profile, args |-> s.args, cwd |-> s.cwd, env |-> s.env, startup |-> s.startup, driver |-> s.driver]
  /\ Optional(s.args) /\ (s.args # <<>> => IsSeq(s.args[1]))
  /\ Optional(s.cwd) /\ Optional(s.startup)
  /\ \A v \in DOMAIN s.env : Optional(s.env[v])

IsProfile(p) ==
  /\ p.type \in BuiltInTypes
  /\ p.args # <<>> => IsSeq(p.args[1])
  /\ IsSeq(p.distribution)
  /\ p.ssh # <<>> => IsSeq(p.ssh[1].identity) /\ IsSeq(p.ssh[1].command)

IsFile(f) ==
  /\ IsSeq(f.panes)
  /\ \A i \in DOMAIN f.panes : Optional(f.panes[i]) /\ (f.panes[i] # <<>> => IsSession(f.panes[i][1]))
  /\ \A name \in DOMAIN f.profiles : IsProfile(f.profiles[name])

-----------------------------------------------------------------------------
(* resolve_launch_spec.                                                    *)

(* The workspace's profiles, then those of the settings, then the types.   *)
Lookup(name, ws) ==
  IF name \in DOMAIN ws.profiles THEN <<ws.profiles[name]>>
  ELSE IF name \in DOMAIN GlobalProfiles THEN <<GlobalProfiles[name]>>
  ELSE IF name \in BuiltInTypes THEN <<Typed(name)>> ELSE <<>>

Executable(profile) ==
  IF profile.executable # <<>> THEN profile.executable
  ELSE CASE profile.type = "powershell" -> <<IF PwshFound THEN "pwsh.exe" ELSE "powershell.exe">>
         [] profile.type = "custom"     -> <<>>
         [] profile.type \in {"cmd", "wsl", "ssh"} -> <<profile.type \o ".exe">>

SshArgs(ssh) ==
  (IF ssh.identity = <<>> THEN <<>> ELSE <<"-i">> \o ssh.identity)
    \o (IF ssh.agent THEN <<>> ELSE <<"-o", "IdentitiesOnly=yes">>)
    \o <<ssh.host>> \o ssh.command

Args(profile) ==
  IF profile.args # <<>> THEN profile.args[1]
  ELSE CASE profile.type = "powershell" -> <<"-NoLogo">>
         [] profile.type = "wsl" -> IF profile.distribution = <<>> THEN <<>> ELSE <<"-d">> \o profile.distribution
         [] profile.type = "ssh" -> IF profile.ssh = <<>> THEN <<>> ELSE SshArgs(profile.ssh[1])
         [] profile.type \in {"cmd", "custom"} -> <<>>

(* expand_env_vars: a variable the host does not have is nothing.          *)
Expanded(cwd) ==
  IF cwd \notin DOMAIN Reference THEN cwd
  ELSE IF Reference[cwd] \in DOMAIN HostEnv THEN HostEnv[Reference[cwd]] ELSE ""

Cwd(session, ws, profile) ==
  LET own  == IF profile.type = "wsl" THEN <<>> ELSE <<"%USERPROFILE%">>
      said == Or(Or(session.cwd, ws.defaults.cwd), Or(profile.cwd, own))
  IN  [i \in DOMAIN said |-> Expanded(said[i])]

(* apply_layer: a layer gives a variable a value, or none to take it away. *)
Layered(env, layer) ==
  [v \in {w \in DOMAIN layer : layer[w] # <<>>} \cup (DOMAIN env \ DOMAIN layer) |->
    IF v \in DOMAIN layer THEN layer[v][1] ELSE env[v]]

(* The host's, the settings', the workspace's, the profile's, its own.     *)
Env(session, ws, profile) ==
  LET host     == Restrict(HostEnv, DOMAIN HostEnv \ {"NO_COLOR"})
      settings == IF GlobalDefault \in DOMAIN GlobalProfiles THEN GlobalProfiles[GlobalDefault].env ELSE <<>>
      below    == Layered(Layered(Layered(host, settings), ws.defaults.env), profile.env)
      merged   == Layered(below, session.env)
  IN  IF profile.type = "ssh" THEN merged ELSE Layered(merged, [v \in {"TERM"} |-> <<"xterm-256color">>])

(* The startup command goes into the arguments of PowerShell and cmd, and  *)
(* is typed into every other program.                                      *)
Started(executable, args, startup) ==
  CASE startup = <<>> -> [args |-> args, typed |-> <<>>]
    [] startup # <<>> /\ executable \in {"pwsh.exe", "powershell.exe"} ->
         [args |-> args \o (IF "-NoExit" \in ToSet(args) THEN <<>> ELSE <<"-NoExit">>) \o <<"-Command">> \o startup,
          typed |-> <<>>]
    [] startup # <<>> /\ executable = "cmd.exe" /\ ToSet(args) \cap {"/C", "/K"} = {} ->
         [args |-> args \o <<"/K">> \o startup, typed |-> <<>>]
    [] OTHER -> [args |-> args, typed |-> startup]

Failed == [ok |-> FALSE]

(* What a session starts in the surroundings of a workspace.               *)
Resolved(session, ws) ==
  LET name  == Or(Or(session.profile, ws.defaults.profile), <<GlobalDefault>>)[1]
      found == Lookup(name, ws)
  IN  IF found = <<>> \/ (found # <<>> /\ Executable(found[1]) = <<>>) THEN Failed
      ELSE LET profile == found[1]
               program == Executable(profile)[1]
               begun   == Started(program, Or(session.args, <<Args(profile)>>)[1], session.startup)
           IN  [ok |-> TRUE, executable |-> program, args |-> begun.args, typed |-> begun.typed,
                cwd |-> Cwd(session, ws, profile), env |-> Env(session, ws, profile)]

(* infer_pane_driver_profile: by the startup command, else by the program. *)
Inferred(session, ran) ==
  LET known(programs) == IF programs # <<>> /\ ToSet(programs) \subseteq DOMAIN Agents
                         THEN <<Agents[programs[1]]>> ELSE <<>>
  IN  Or(known(session.startup), IF ran.ok THEN known(<<ran.executable>>) ELSE <<>>)

DriverOf(session, ws) == Driver(ws.defaults.driver, session.driver, Inferred(session, Resolved(session, ws)))

-----------------------------------------------------------------------------
(* apply_runtime_terminal_env: variables that tell a program of the        *)
(* terminal and of its pane, and those that tell an agent of its driver.   *)
OfTerminal ==
  {"TERM_PROGRAM", "TERM_PROGRAM_VERSION", "COLORTERM", "WT_SESSION", "WT_PROFILE_ID", "WT_WINDOW_ID",
   "WTD_TERMINAL", "WTD_WORKSPACE", "WTD_PANE", "WTD_SESSION_ID",
   "WTD_AGENT_HOST", "WTD_AGENT_HYPERLINKS", "WTD_AGENT_IMAGES"}

OfDriver ==
  {"WTD_AGENT_DRIVER", "WTD_AGENT_MULTILINE_MODE", "WTD_AGENT_PASTE_MODE", "WTD_AGENT_SUBMIT_KEY", "WTD_AGENT_SOFT_BREAK_KEY"}

Told(driver) ==
  [v \in OfTerminal \cup OfDriver |->
    CASE v = "WTD_AGENT_DRIVER"         -> <<driver.profile>>
      [] v = "WTD_AGENT_MULTILINE_MODE" -> <<Multiline(driver.profile)>>
      [] v = "WTD_AGENT_PASTE_MODE"     -> <<IF Brackets(driver.profile) THEN "bracketed" ELSE "plain">>
      [] v = "WTD_AGENT_SUBMIT_KEY"     -> <<driver.submit>>
      [] v = "WTD_AGENT_SOFT_BREAK_KEY" -> driver.soft
      [] OTHER                          -> <<"terminal">>]

EnvOf(ran, driver) == IF ran.ok THEN Layered(ran.env, Told(driver)) ELSE <<>>

(* A pane keeps its definition, what was made of it, what its program got  *)
(* as environment, the driver prompts use, and, as history, whether that   *)
(* was set or cleared since.                                               *)
Pane(def, session, ws) ==
  LET ran    == Resolved(session, ws)
      driver == DriverOf(session, ws)
  IN  [def |-> def, ran |-> ran, env |-> EnvOf(ran, driver), driver |-> driver, configured |-> "no"]

Populated(definition) ==
  [i \in DOMAIN definition.panes |->
    Pane(definition.panes[i], Or(definition.panes[i], <<NoSession>>)[1], definition)]

(* spawn_session_for_pane_with_definition.                                 *)
Spawned(session) == Pane(<<session>>, session, Bare)

WithProfile(session, profile) == [session EXCEPT !.profile = <<profile>>]

Step == steps < MaxSteps /\ steps' = steps + 1

Open ==
  /\ from = <<>>
  /\ from' = <<file>> /\ panes' = Populated(file)
  /\ Step /\ UNCHANGED file

Close ==
  /\ from # <<>>
  /\ from' = <<>> /\ panes' = <<>>
  /\ Step /\ UNCHANGED file

(* Recreating reads the file again.                                        *)
Recreate ==
  /\ from # <<>>
  /\ from' = <<file>> /\ panes' = Populated(file)
  /\ Step /\ UNCHANGED file

(* A split takes a profile, else the definition of the pane it was asked   *)
(* of; a new tab, and a split of no pane in particular, start the default. *)
Add(session) ==
  /\ from # <<>> /\ Len(panes) < MaxPanes
  /\ panes' = Append(panes, Spawned(session))
  /\ Step /\ UNCHANGED <<file, from>>

AddDefault == Add(NoSession)

AddWithProfile(profile) == Add(WithProfile(NoSession, profile))

SplitPane(i) == i \in DOMAIN panes /\ Add(Or(panes[i].def, <<NoSession>>)[1])

Bug_NotInDefinition(i, profile) ==
  /\ i \in DOMAIN panes
  /\ LET session == WithProfile(Or(panes[i].def, <<NoSession>>)[1], profile)
     IN  panes' = [panes EXCEPT ![i] = [Spawned(session) EXCEPT !.def = panes[i].def]]
  /\ Step /\ UNCHANGED <<file, from>>

(* change-profile keeps everything else the definition sets.               *)
ChangeProfile(i, profile) ==
  /\ i \in DOMAIN panes
  /\ panes' = [panes EXCEPT ![i] = Spawned(WithProfile(Or(@.def, <<NoSession>>)[1], profile))]
  /\ Step /\ UNCHANGED <<file, from>>

Refused(request) ==
  LET sets == request.profile # <<>> \/ request.submit # <<>> \/ request.soft # <<>> \/ request.clearSoft
  IN  request.clear = sets

(* The settings of a request, on top of the driver the pane has.           *)
Asked(driver, request) ==
  LET current == FromEffective(driver)
      named   == [current EXCEPT !.profile = Or(request.profile, @), !.submit = Or(request.submit, @)]
      broken  == IF request.soft = <<>> THEN named ELSE [named EXCEPT !.soft = request.soft, !.noSoft = FALSE]
  IN  IF request.clearSoft THEN [broken EXCEPT !.soft = <<>>, !.noSoft = TRUE] ELSE broken

(* set_pane_driver: the pane's definition gets the driver, and the pane    *)
(* what it makes without defaults and without a guess.                     *)
Configure(i, request) ==
  /\ i \in DOMAIN panes /\ ~Refused(request)
  /\ LET asked   == IF request.clear THEN <<>> ELSE <<Asked(panes[i].driver, request)>>
         session == [Or(panes[i].def, <<NoSession>>)[1] EXCEPT !.driver = asked]
     IN  panes' = [panes EXCEPT ![i].driver = Driver(<<>>, asked, <<>>),
                                ![i].def = IF session = NoSession THEN <<>> ELSE <<session>>,
                                ![i].configured = IF request.clear THEN "cleared" ELSE "set"]
  /\ Step /\ UNCHANGED <<file, from>>

ClosePane(i) ==
  /\ i \in DOMAIN panes /\ Len(panes) > 1
  /\ panes' = RemoveAt(panes, i)
  /\ Step /\ UNCHANGED <<file, from>>

Saved ==
  [profiles |-> Bare.profiles, defaults |-> Bare.defaults, panes |-> [i \in DOMAIN panes |-> panes[i].def]]

Save ==
  /\ from # <<>>
  /\ file' = Saved
  /\ Step /\ UNCHANGED <<from, panes>>

Init == file \in Files /\ from = <<>> /\ panes = <<>> /\ steps = 0

Next ==
  \/ Open \/ Close \/ Recreate \/ AddDefault \/ Save
  \/ \E p \in Profiles : AddWithProfile(p)
  \/ \E i \in 1 .. MaxPanes :
       \/ SplitPane(i) \/ ClosePane(i)
       \/ \E p \in Profiles : ChangeProfile(i, p)
       \/ \E r \in Requests : Configure(i, r)

Spec == Init /\ [][Next]_vars

-----------------------------------------------------------------------------
(* Properties *)

SessionOf(pane) == Or(pane.def, <<NoSession>>)[1]

(* A pane runs what its definition makes of it, in the workspace as it was *)
(* opened or in none, and so does its driver: the definition that is saved *)
(* is the one that ran.  Only a driver that was cleared comes back when it *)
(* is read again: clear-driver falls back to plain, not to the defaults or *)
(* the guess.  An agent is told of the driver of its pane, but not of one  *)
(* set while it runs.                                                      *)
DefinedAsRun ==
  \A i \in DOMAIN panes :
    /\ \E ws \in {from[1], Bare} : panes[i].ran = Resolved(SessionOf(panes[i]), ws)
    /\ panes[i].configured = "cleared" \/ \E ws \in {from[1], Bare} : panes[i].driver = DriverOf(SessionOf(panes[i]), ws)
    /\ panes[i].configured # "no" \/ panes[i].env = EnvOf(panes[i].ran, panes[i].driver)

(* What a program sees of a variable: two spellings of one name are both   *)
(* in its environment, in an order nobody chose.                           *)
Seen(env, name) == {env[v] : v \in {w \in DOMAIN env : Name[w] = name}}

(* A program gets its startup command once: typed into it, started with    *)
(* the arguments it has without one, or as the last after those.           *)
StartedOnce(session, ran, without) ==
  \/ ran.typed = session.startup /\ ran.args = without.args
  \/ ran.typed = <<>> /\ IsPrefix(without.args, ran.args) /\ Last(<<"">> \o ran.args) = session.startup[1]

(* What a definition itself sets is what its program gets: directory,      *)
(* arguments, startup command once, and each variable that no lower layer  *)
(* spells in another way; but TERM and what the terminal and the driver    *)
(* say of themselves are theirs, whatever it sets them to.                 *)
SetAsDefined ==
  \A i \in DOMAIN panes : panes[i].ran.ok =>
    LET session == SessionOf(panes[i])
        ran     == panes[i].ran
        env     == panes[i].env
    IN  /\ session.cwd # <<>> => ran.cwd = <<Expanded(session.cwd[1])>>
        /\ session.args # <<>> => IsPrefix(session.args[1], ran.args)
        /\ session.startup # <<>> =>
             \E ws \in {from[1], Bare} : StartedOnce(session, ran, Resolved([session EXCEPT !.startup = <<>>], ws))
        /\ \A v \in DOMAIN session.env :
             \/ Seen(env, Name[v]) = ToSet(session.env[v])
             \/ \E w \in DOMAIN env : w # v /\ Name[w] = Name[v]
             \/ v \in {"TERM"} \cup OfTerminal \cup OfDriver
        /\ \A v \in OfTerminal : v \in DOMAIN env /\ env[v] = "terminal"

(* What a prompt becomes in pane i.                                        *)
PlanFor(lines, i, bracketed) == Plan(lines, panes[i].driver, bracketed)

(* A prompt that is planned has every line of its text, in order, and      *)
(* between two lines the key that breaks them or the text's own break; it  *)
(* is not submitted before its end, unless that key submits, or the one    *)
(* that clears the agent's input before it.                                *)
PromptsWhole ==
  \A lines \in PromptTexts, i \in DOMAIN panes, bracketed \in BOOLEAN :
    LET plan   == PlanFor(lines, i, bracketed)
        driver == panes[i].driver
    IN  plan.result = "planned" =>
          /\ FlattenSeq([n \in DOMAIN plan.body |-> LinesOf(plan.body[n])]) = lines
          /\ \A n \in DOMAIN plan.body : plan.body[n] = Key(plan.submit) =>
               \/ driver.soft # <<>> /\ plan.submit = driver.soft[1]
               \/ plan.submit \in ToSet(Prepare(driver.profile))

(* A prompt is planned or refused: pi has "`Shift+Enter` soft breaks"      *)
(* (docs/AGENT_GUIDE.md:328).                                              *)
PromptsAnswered ==
  \A lines \in PromptTexts, i \in DOMAIN panes, bracketed \in BOOLEAN : PlanFor(lines, i, bracketed).result # "panic"

=============================================================================
