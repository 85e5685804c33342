--------------------------- MODULE HostLifecycle ---------------------------
(***************************************************************************)
(* How hosts start, find that another one serves, and go: the named pipe,  *)
(* the file host.pid, the commands that start a host when they find none,  *)
(* and `wtd host stop` (host_lifecycle.rs, wtd-host/src/main.rs, the       *)
(* accept loop of ipc_server.rs, wtd-ipc/src/connect.rs, client.rs and     *)
(* stop_host_process of dispatch.rs).                                      *)
(*                                                                         *)
(* The only lock between processes is the flag "first instance" with which *)
(* a host creates its pipe.  What comes before it (the probe, the stale    *)
(* file, the new file) and after it (the next instance, made only when a   *)
(* client has taken the last one) is not protected, so every step of it is *)
(* an action.  A command starts at most one host, and the host bears the   *)
(* name of the command that started it.  The named pipe is external:       *)
(* WaitNamedPipe sees a free instance, opening takes one, an instance is   *)
(* there until the host that made it drops it or dies.                     *)
(***************************************************************************)
EXTENDS Naturals, FiniteSets

CONSTANTS Commands,   \* the commands that connect, starting a host if need be
          Stops       \* the runs of `wtd host stop`

None == "none"
Hosts == Commands

ASSUME Apart == Commands \cap Stops = {} /\ None \notin Commands

VARIABLES host,       \* [Hosts -> where its process is]
          recorded,   \* [Hosts -> the process it read in host.pid at its start]
          pid,        \* the process named by host.pid, or None
          free,       \* the hosts with an instance of the pipe nobody has taken
          link,       \* [Commands -> the host whose instance the command took]
          stage,      \* [Commands \cup Stops -> how far the command is]
          code,       \* [Commands \cup Stops -> its exit code]
          victim,     \* [Stops -> the process it is about to terminate]
          crossed,    \* history: hosts whose start met another host or a stop
          bare        \* history: a serving host was found without any instance

hostVars == <<host, recorded, pid, free, crossed, bare>>
lifeVars == <<host, recorded, pid, free, link, stage, code, victim, crossed, bare>>

HostPhases == {"unborn", "probing", "reading", "cleaning", "writing", "binding",
               "serving", "leaving", "exiting", "gone"}

Alive(h) == host[h] \notin {"unborn", "gone"}
Entered == {h \in Hosts : Alive(h) /\ host[h] # "probing"}

\* is_host_pipe_available: a free instance can be seen, a busy pipe cannot.
PipeAvailable == free # {}
InstanceExists == free # {} \/ \E c \in Commands : link[c] # None

Moves(h, to) == host' = [host EXCEPT ![h] = to]
Ends(c, n) == stage' = [stage EXCEPT ![c] = "ended"] /\ code' = [code EXCEPT ![c] = n]
Goes(c, to) == stage' = [stage EXCEPT ![c] = to] /\ UNCHANGED code
\* The process is no more: the system closes all its instances.
Dies(h) ==
    /\ Moves(h, "gone")
    /\ crossed' = crossed \ {h}
    /\ free' = free \ {h}
    /\ link' = [c \in Commands |-> IF link[c] = h THEN None ELSE link[c]]

LifeInit ==
    /\ host = [h \in Hosts |-> "unborn"]
    /\ recorded = [h \in Hosts |-> None]
    /\ pid = None
    /\ free = {}
    /\ link = [c \in Commands |-> None]
    /\ stage = [c \in Commands \cup Stops |-> "new"]
    /\ code = [c \in Commands \cup Stops |-> 0]
    /\ victim = [s \in Stops |-> None]
    /\ crossed = {}
    /\ bare = FALSE

-----------------------------------------------------------------------------
(* A host, from its start to its end *)

Bug_PidFirst(h) ==
    /\ host[h] = "probing"
    /\ pid' = h
    /\ IF PipeAvailable
       THEN Moves(h, "gone") /\ UNCHANGED crossed
       ELSE /\ Moves(h, "reading")
            /\ crossed' = crossed \cup (IF Entered # {} THEN Entered \cup {h} ELSE {})
    /\ UNCHANGED <<recorded, free, link, stage, code, victim, bare>>

\* Step 2 of main: another host is seen only by a free instance of the pipe.
Probe(h) ==
    /\ host[h] = "probing"
    /\ IF PipeAvailable
       THEN Moves(h, "gone") /\ UNCHANGED crossed
       ELSE /\ Moves(h, "reading")
            /\ crossed' = crossed \cup (IF Entered # {} THEN Entered \cup {h} ELSE {})
    /\ UNCHANGED <<recorded, pid, free, link, stage, code, victim, bare>>

ReadPid(h) ==
    /\ host[h] = "reading"
    /\ Moves(h, "cleaning")
    /\ recorded' = [recorded EXCEPT ![h] = pid]
    /\ UNCHANGED <<pid, free, link, stage, code, victim, crossed, bare>>

\* clean_stale_pid_in: the file is removed for what it named when it was read.
CleanStalePid(h) ==
    /\ host[h] = "cleaning"
    /\ Moves(h, "writing")
    /\ pid' = IF recorded[h] # None /\ ~Alive(recorded[h]) THEN None ELSE pid
    /\ recorded' = [recorded EXCEPT ![h] = None]
    /\ UNCHANGED <<free, link, stage, code, victim, crossed, bare>>

WritePid(h) ==
    /\ host[h] = "writing"
    /\ Moves(h, "binding")
    /\ pid' = h
    /\ UNCHANGED <<recorded, free, link, stage, code, victim, crossed, bare>>

\* first_pipe_instance: an instance that only a host without company can create; a host
\* that cannot leaves run, and goes on to remove the file.
CanBind == ~InstanceExists
Bind(h) ==
    /\ host[h] = "binding"
    /\ IF CanBind
       THEN /\ Moves(h, "serving")
            /\ free' = free \cup {h}
            /\ bare' = (bare \/ (~InstanceExists /\ \E o \in Hosts : host[o] = "serving"))
       ELSE Moves(h, "leaving") /\ UNCHANGED <<free, bare>>
    /\ UNCHANGED <<recorded, pid, link, stage, code, victim, crossed>>

\* The loop of run after accept_connection, or after an error of connect.
NextInstance(h) ==
    /\ host[h] = "serving"
    /\ h \notin free
    /\ free' = free \cup {h}
    /\ UNCHANGED <<host, recorded, pid, link, stage, code, victim, crossed, bare>>

\* The signal is looked at only where the loop waits for a client.
Shutdown(h) ==
    /\ host[h] = "serving"
    /\ h \in free
    /\ Moves(h, "leaving")
    /\ free' = free \ {h}
    /\ UNCHANGED <<recorded, pid, link, stage, code, victim, crossed, bare>>

RemovePid(h) ==
    /\ host[h] = "leaving"
    /\ Moves(h, "exiting")
    /\ pid' = None
    /\ UNCHANGED <<recorded, free, link, stage, code, victim, crossed, bare>>

HostExit(h) ==
    /\ host[h] = "exiting"
    /\ Dies(h)
    /\ UNCHANGED <<recorded, pid, stage, code, victim, bare>>

Crash(h) ==
    /\ Alive(h)
    /\ Dies(h)
    /\ UNCHANGED <<recorded, pid, stage, code, victim, bare>>

\* The task of a connection drops the instance once the client has left it.
Hangup(c) ==
    /\ link[c] # None
    /\ stage[c] = "ended"
    /\ link' = [link EXCEPT ![c] = None]
    /\ UNCHANGED <<host, recorded, pid, free, stage, code, victim, crossed, bare>>

-----------------------------------------------------------------------------
(* A command that connects: ensure_host_running, then connect_to_pipe *)

EnsureHost(c) ==
    /\ stage[c] = "new"
    /\ IF PipeAvailable
       THEN Goes(c, "opening") /\ UNCHANGED host
       ELSE Goes(c, "polling") /\ Moves(c, "probing")
    /\ UNCHANGED <<recorded, pid, free, link, victim, crossed, bare>>

Poll(c) ==
    /\ stage[c] = "polling"
    /\ PipeAvailable
    /\ Goes(c, "opening")
    /\ UNCHANGED <<hostVars, link, victim>>

\* A hundred attempts without a free instance: StartupTimeout, code 4.
StartupTimeout(c) ==
    /\ stage[c] \in {"polling", "opening"}
    /\ ~PipeAvailable
    /\ Ends(c, 4)
    /\ UNCHANGED <<hostVars, link, victim>>

\* The client writes its handshake as soon as it has an instance.
Open(c) ==
    /\ stage[c] = "opening"
    /\ \E h \in free :
        /\ link' = [link EXCEPT ![c] = h]
        /\ free' = free \ {h}
    /\ Goes(c, "greeting")
    /\ UNCHANGED <<host, recorded, pid, victim, crossed, bare>>

-----------------------------------------------------------------------------
(* wtd host stop *)

\* The probe only words the answer when there is no file to go by, so the model
\* makes it at the same time as the read.
StopReads(s) ==
    /\ stage[s] = "new"
    /\ IF pid = None
       THEN Ends(s, IF PipeAvailable THEN 1 ELSE 0) /\ UNCHANGED victim
       ELSE Goes(s, "deciding") /\ victim' = [victim EXCEPT ![s] = pid]
    /\ UNCHANGED <<hostVars, link>>

\* A dead process: the file is removed, whoever it names by now.
StopDecides(s) ==
    /\ stage[s] = "deciding"
    /\ \/ /\ ~Alive(victim[s])
          /\ pid' = None
          /\ crossed' = crossed \cup Entered
          /\ Ends(s, 0)
          /\ UNCHANGED <<host, free, link>>
       \/ /\ Alive(victim[s])
          /\ Dies(victim[s])
          /\ Goes(s, "stopping")
          /\ UNCHANGED pid
    /\ victim' = [victim EXCEPT ![s] = None]
    /\ UNCHANGED <<recorded, bare>>

\* The host went by itself between the look at it and TerminateProcess.
StopMisses(s) ==
    /\ stage[s] = "deciding"
    /\ ~Alive(victim[s])
    /\ Ends(s, 1)
    /\ UNCHANGED <<hostVars, link, victim>>

StopConfirms(s) ==
    /\ stage[s] = "stopping"
    /\ ~PipeAvailable
    /\ pid' = None
    /\ crossed' = crossed \cup Entered
    /\ Ends(s, 0)
    /\ UNCHANGED <<host, recorded, free, link, victim, bare>>

StopGivesUp(s) ==
    /\ stage[s] = "stopping"
    /\ PipeAvailable
    /\ Ends(s, 1)
    /\ UNCHANGED <<hostVars, link, victim>>

-----------------------------------------------------------------------------
HostStep(h) ==
    \/ Probe(h) \/ ReadPid(h) \/ CleanStalePid(h) \/ WritePid(h) \/ Bind(h)
    \/ NextInstance(h) \/ Shutdown(h) \/ RemovePid(h) \/ HostExit(h) \/ Crash(h)

Connecting(c) == EnsureHost(c) \/ Poll(c) \/ StartupTimeout(c)

StopStep(s) ==
    \/ StopReads(s) \/ StopDecides(s) \/ StopMisses(s)
    \/ StopConfirms(s) \/ StopGivesUp(s)

-----------------------------------------------------------------------------
(* Properties *)

\* Two hosts accept clients at the same time only after one of them was
\* without any instance for a moment: the pipe then looked like nobody's, and
\* the first-instance flag let another host in (ipc_server.rs:212-216).
OneServes == bare \/ Cardinality({h \in Hosts : host[h] = "serving"}) <= 1

\* host.pid names the host that serves, so that `wtd host stop` finds it,
\* unless its start and another host, or a stop, ran into each other: a host
\* that cannot bind removes the file of the one that did, a host on its way
\* out that of its successor, and a stop that of a host it does not know.
PidFileKept == \A h \in Hosts : host[h] = "serving" /\ h \notin crossed => pid = h

\* One host serves, and host.pid names it.
OneHost == OneServes /\ PidFileKept
=============================================================================
