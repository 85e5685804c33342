------------------------------ MODULE Commands ------------------------------
(***************************************************************************)
(* What a command line asks of a host and what its exit code then tells:   *)
(* run, run_ask, run_recipe and run_follow of wtd-cli/src/dispatch.rs over *)
(* the client of client.rs, the connection task of ipc_server.rs, and the  *)
(* exit codes of output.rs.                                                *)
(*                                                                         *)
(* A command is a plan, the requests it makes one after the other: one for *)
(* most commands, two for `save default`, prompt, wait and capture for     *)
(* ask, the steps of a recipe.  What a request does in the host is left    *)
(* out: it is done, refused (an Error comes back), or, for a wait, over    *)
(* without a match.  The log, a history variable, is what the host really  *)
(* did; the exit code is what the command knows.                           *)
(***************************************************************************)
EXTENDS HostLifecycle, Sequences

CONSTANT Plans          \* [Commands -> the plans it may be given], a plan being
                        \* [tool : {"steps", "ask", "follow"}, steps : Seq(Requests),
                        \*  json : BOOLEAN, the flag --json]

Requests == {"act", "prompt", "wait", "capture", "follow"}

ASSUME PlansAreAskable ==
    \A p \in UNION {Plans[c] : c \in Commands} :
        /\ p.steps # <<>> /\ p.steps \in Seq(Requests)
        /\ p.tool = "ask" => p.steps = <<"prompt", "wait", "capture">>
        /\ p.tool = "follow" <=> p.steps = <<"follow">>

VARIABLES plan,       \* [Commands -> its plan]
          at,         \* [Commands -> the step being asked]
          wire,       \* [Commands -> the frame between the command and its host]
          log         \* history: [Commands -> what the host did, in order]

cmdVars == <<plan, at, wire, log>>
commandsVars == <<lifeVars, cmdVars>>

Steps(c) == plan[c].steps

\* The codes of exit_code.rs a request can end with.
Success == 0
NotFound == 2
Lost == 6
TimedOut == 10

CommandsInit ==
    /\ LifeInit
    /\ plan \in {p \in [Commands -> UNION {Plans[c] : c \in Commands}] :
                    \A c \in Commands : p[c] \in Plans[c]}
    /\ at = [c \in Commands |-> 1]
    /\ wire = [c \in Commands |-> "quiet"]
    /\ log = [c \in Commands |-> <<>>]

-----------------------------------------------------------------------------
(* The host's side of a connection *)

\* handle_handshake
Greet(c) ==
    /\ link[c] # None
    /\ wire[c] = "hello"
    /\ wire' = [wire EXCEPT ![c] = "welcome"]
    /\ UNCHANGED <<lifeVars, plan, at, log>>

Outcomes(request) ==
    {"done", "refused"} \cup (IF request = "wait" THEN {"unmatched"} ELSE {})

\* handle_message: a frame that was written is handled, whether or not the
\* command still waits for the answer.
Handle(c) ==
    /\ link[c] # None
    /\ wire[c] = "asked"
    /\ \E outcome \in Outcomes(Steps(c)[at[c]]) :
        /\ wire' = [wire EXCEPT ![c] = outcome]
        /\ log' = [log EXCEPT ![c] = Append(@, [step |-> at[c], outcome |-> outcome])]
    /\ UNCHANGED <<lifeVars, plan, at>>

\* The host reads what was written before it sees that the pipe is closed.
HangsUp(c) ==
    /\ wire[c] # "asked"
    /\ Hangup(c)
    /\ wire' = [wire EXCEPT ![c] = "quiet"]
    /\ UNCHANGED <<plan, at, log>>

-----------------------------------------------------------------------------
(* The command's side *)

Hello(c) ==
    /\ Open(c)
    /\ wire' = [wire EXCEPT ![c] = "hello"]
    /\ UNCHANGED <<plan, at, log>>

\* The first request follows the handshake, as each one follows the answer to
\* the one before; a write that fails is a connection lost.
Welcomed(c) ==
    /\ stage[c] = "greeting"
    /\ wire[c] = "welcome"
    /\ Goes(c, "waiting")
    /\ wire' = [wire EXCEPT ![c] = "asked"]
    /\ UNCHANGED <<hostVars, link, victim, plan, at, log>>

\* format_response, the text and the JSON form: a wait without a match is a
\* timeout in the one and a success in the other.
ExitCode(c, answer) ==
    CASE answer = "done" -> Success
      [] answer = "refused" -> NotFound
      [] answer = "unmatched" -> IF plan[c].json THEN Success ELSE TimedOut

\* run_ask looks at the answer to its wait, and not at that to its prompt.
Unread(c) == plan[c].tool = "ask" /\ at[c] = 1

Bug_RunsOn(c) == FALSE
Stopping(c) == ~Unread(c) /\ ExitCode(c, wire[c]) # Success
Answered(c) ==
    /\ stage[c] = "waiting"
    /\ wire[c] \in {"done", "refused", "unmatched"}
    /\ IF Stopping(c) \/ at[c] = Len(Steps(c))
       THEN /\ IF plan[c].tool = "follow" /\ ~Stopping(c) THEN Goes(c, "following") ELSE Ends(c, ExitCode(c, wire[c]))
            /\ wire' = [wire EXCEPT ![c] = "quiet"]
            /\ UNCHANGED at
       ELSE /\ Goes(c, "waiting")
            /\ at' = [at EXCEPT ![c] = @ + 1]
            /\ wire' = [wire EXCEPT ![c] = "asked"]
    /\ UNCHANGED <<hostVars, link, victim, plan, log>>

\* The read ends in an error, or the write does: the host is gone.
ConnectionLost(c) ==
    /\ stage[c] \in {"greeting", "waiting", "following"}
    /\ link[c] = None
    /\ Ends(c, Lost)
    /\ wire' = [wire EXCEPT ![c] = "quiet"]
    /\ UNCHANGED <<hostVars, link, victim, plan, at, log>>

\* read_frame_with_timeout; run_follow reads without one once it is greeted.
Bug_Untimed(c) == stage[c] = "greeting"
Timed(c) == stage[c] = "greeting" \/ (stage[c] = "waiting" /\ plan[c].tool # "follow")
RequestTimeout(c) ==
    /\ Timed(c)
    /\ Ends(c, TimedOut)
    /\ UNCHANGED <<hostVars, link, victim, cmdVars>>

\* Ctrl+C: CancelFollow is written and nobody waits for an answer.
Interrupt(c) ==
    /\ stage[c] = "following"
    /\ Ends(c, Success)
    /\ UNCHANGED <<hostVars, link, victim, cmdVars>>

CommandStep(c) ==
    \/ Connecting(c) /\ UNCHANGED cmdVars
    \/ Hello(c) \/ Welcomed(c) \/ Answered(c) \/ ConnectionLost(c) \/ RequestTimeout(c)

CommandsNext ==
    \/ \E h \in Hosts : HostStep(h) /\ UNCHANGED cmdVars
    \/ \E s \in Stops : StopStep(s) /\ UNCHANGED cmdVars
    \/ \E c \in Commands : CommandStep(c) \/ Interrupt(c) \/ Greet(c) \/ Handle(c) \/ HangsUp(c)

CommandsSpec == CommandsInit /\ [][CommandsNext]_commandsVars

\* A command is a process with timers of its own: it goes on as long as it
\* can.  Nothing is assumed of the hosts.
CommandsFairness == \A c \in Commands : WF_commandsVars(CommandStep(c))
CommandsFairSpec == CommandsSpec /\ CommandsFairness

-----------------------------------------------------------------------------
(* Properties *)

Sound ==
    /\ host \in [Hosts -> HostPhases]
    /\ free \subseteq {h \in Hosts : host[h] = "serving"}
    /\ \A c \in Commands : link[c] # None => host[link[c]] \in {"serving", "leaving", "exiting"}
    /\ \A c \in Commands : at[c] \in DOMAIN Steps(c)

Did(c, i) == log[c][i].outcome
\* The step counts as done for whoever reads the exit code: but for the two
\* answers that are dropped, a refused prompt of ask and, under --json, a wait
\* that did not match.
Passes(c, i) ==
    \/ Did(c, i) = "done"
    \/ plan[c].tool = "ask" /\ i = 1
    \/ plan[c].json /\ Did(c, i) = "unmatched"
Passed(c, n) == \A i \in 1..n : Passes(c, i)

\* The exit code tells how far the plan got.  0: all of it; 2: the last answer
\* is the refusal, and nothing came after it; 4: nothing was asked of any
\* host; 6 and 10: everything before the current step, and of that step no
\* more than one execution, which may still be to come.
CodeTells ==
    \A c \in Commands : stage[c] = "ended" /\ plan[c].tool # "follow" =>
        LET n == Len(log[c])
        IN CASE code[c] = Success -> n = Len(Steps(c)) /\ Passed(c, n)
             [] code[c] = NotFound -> n = at[c] /\ Passed(c, n - 1) /\ Did(c, n) = "refused"
             [] code[c] = 4 -> n = 0
             [] code[c] \in {Lost, TimedOut} -> n \in {at[c] - 1, at[c]} /\ Passed(c, at[c] - 1)

\* The host carries out the steps of a command in order and each at most once,
\* whatever is lost on the way.
InOrderOnce ==
    \A c \in Commands : \A i \in DOMAIN log[c] : log[c][i].step = i

ExitsTell == Sound /\ CodeTells /\ InOrderOnce

\* Whatever the hosts do, every command comes to an end by itself, except
\* follow, that reads without a timeout.
CommandsEnd == \A c \in Commands : plan[c].tool # "follow" => <>(stage[c] = "ended")
=============================================================================
