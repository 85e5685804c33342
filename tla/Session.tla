------------------------------- MODULE Session -------------------------------
(***************************************************************************)
(* The sessions of a host: each runs a child behind a pseudo-console, is   *)
(* started, restarted and stopped by requests, found exited by the tick of *)
(* the broadcaster, and written to, now or by a thread that sleeps first.  *)
(*                                                                         *)
(* Such a thread keeps the bare value of the input pipe's handle, which    *)
(* the system may give to another pipe once the session closed its own.    *)
(* Handles are reused for the pipes of sessions only.                      *)
(*                                                                         *)
(* Requests and ticks run under the host's mutex, so each is one step;     *)
(* delayed writes do not take it.  Delays have no length: a thread that    *)
(* sleeps may wake at any later moment.                                    *)
(***************************************************************************)
EXTENDS Naturals, Sequences, SequencesExt

CONSTANTS
  Sessions,       \* session ids
  Typed,          \* those whose startup command is typed into the child
  Handles,        \* the values a pipe handle can have
  MaxChildren,    \* bound on the children started
  MaxWrites       \* bound on the send and prompt requests

NoHandle == "none"

ASSUME SessionAssumption ==
  /\ Typed \subseteq Sessions /\ NoHandle \notin Handles
  /\ MaxChildren \in Nat /\ MaxWrites \in Nat

VARIABLES
  state,          \* SessionState, before new() and after removal included
  attached,       \* the pane of the session is PaneState::Attached to it
  pty,            \* the input handle of the session's PtySession, if any
  owner,          \* handle -> the child its pipe leads to, 0 when closed
  children,       \* the children ever started, in that order
  pending,        \* delayed writes: what, and the handle value kept for it
  writes          \* number of send and prompt requests so far

vars == <<state, attached, pty, owner, children, pending, writes>>

NoChild == 0

ChildOf(s) == IF pty[s] = NoHandle THEN NoChild ELSE owner[pty[s]]

Item(kind, child, request) ==
  [kind |-> kind, child |-> child, request |-> request]

-----------------------------------------------------------------------------
(* The pseudo-console of a session.                                        *)

Bug_HandleLeftOpen(s) == owner

(* stop_pty drops the PtySession: its handles are closed ...               *)
Closed(s) ==
  [h \in Handles |-> IF h = pty[s] THEN NoChild ELSE owner[h]]

Bug_ChildLeftRunning(s) == children

(* ... and its child, which gets a moment to end by itself, is terminated. *)
Killed(s) ==
  [g \in DOMAIN children |->
     IF g = ChildOf(s) THEN [children[g] EXCEPT !.alive = FALSE]
                       ELSE children[g]]

Spawned(s) == [session |-> s, alive |-> TRUE, reports |-> 0, input |-> <<>>]

(* start(), from the handles and children cs left by stop_pty, when the    *)
(* child runs and its input pipe got the handle h.                         *)
Started(s, h, open, cs) ==
  /\ open[h] = NoChild /\ Len(cs) < MaxChildren
  /\ LET g == Len(cs) + 1
     IN  /\ owner' = [open EXCEPT ![h] = g]
         /\ children' = Append(cs, Spawned(s))
         /\ pending' = IF s \in Typed
                         THEN pending \cup {[handle |-> h,
                                             item |-> Item("startup", g, 0)]}
                         ELSE pending
  /\ pty' = [pty EXCEPT ![s] = h]
  /\ state' = [state EXCEPT ![s] = "Running"]

(* start() when spawn fails.                                               *)
StartFailed(s, open, cs) ==
  /\ owner' = open /\ children' = cs
  /\ pty' = [pty EXCEPT ![s] = NoHandle]
  /\ state' = [state EXCEPT ![s] = "Failed"]
  /\ UNCHANGED pending

-----------------------------------------------------------------------------
(* Requests that start and stop sessions.                                  *)

(* A session for a new pane; the pane is attached if the child runs.       *)
Spawn(s) ==
  /\ state[s] = "Absent"
  /\ \/ /\ \E h \in Handles : Started(s, h, owner, children)
        /\ attached' = [attached EXCEPT ![s] = TRUE]
     \/ /\ StartFailed(s, owner, children)
        /\ UNCHANGED attached
  /\ UNCHANGED writes

MayRestart(s) == attached[s]

(* restart_pane_session: stop, then a fresh screen and a fresh child.      *)
Restart(s) ==
  /\ MayRestart(s)
  /\ \/ \E h \in Handles : Started(s, h, Closed(s), Killed(s))
     \/ StartFailed(s, Closed(s), Killed(s))
  /\ UNCHANGED <<attached, writes>>

(* The session is stopped and leaves the map: close-pane, close-tab,       *)
(* change-profile, recreate and close.  A detached pane's session is only  *)
(* dropped, by the last two.                                               *)
Stop(s) ==
  /\ state[s] \in {"Running", "Exited", "Failed"}
  /\ owner' = Closed(s)
  /\ children' = Killed(s)
  /\ pty' = [pty EXCEPT ![s] = NoHandle]
  /\ state' = [state EXCEPT ![s] = "Removed"]
  /\ attached' = [attached EXCEPT ![s] = FALSE]
  /\ UNCHANGED <<pending, writes>>

-----------------------------------------------------------------------------
(* Exits.                                                                  *)

Exit(g) ==
  /\ children[g].alive
  /\ children' = [children EXCEPT ![g].alive = FALSE]
  /\ UNCHANGED <<state, attached, pty, owner, pending, writes>>

Bug_ExitFoundAgain ==
  {s \in Sessions : state[s] \in {"Running", "Exited"} /\ ~children[ChildOf(s)].alive}

(* check_exit looks at running sessions only.                              *)
FoundExited ==
  {s \in Sessions : state[s] = "Running" /\ ~children[ChildOf(s)].alive}

(* A tick of the broadcaster that finds children gone: StateChanged goes   *)
(* out for each, the pseudo-console stays.                                 *)
Tick ==
  /\ FoundExited # {}
  /\ state' = [s \in Sessions |-> IF s \in FoundExited THEN "Exited" ELSE state[s]]
  /\ children' = [g \in DOMAIN children |->
                    IF \E s \in FoundExited : ChildOf(s) = g
                      THEN [children[g] EXCEPT !.reports = @ + 1]
                      ELSE children[g]]
  /\ UNCHANGED <<attached, pty, owner, pending, writes>>

-----------------------------------------------------------------------------
(* Input.                                                                  *)

(* The children once items were written to child g's pipe; no child, and   *)
(* the write fails.                                                        *)
Written(g, items) ==
  [c \in DOMAIN children |->
     IF c = g THEN [children[c] EXCEPT !.input = @ \o items] ELSE children[c]]

(* write_input, by send, keys, mouse and the input of a UI.                *)
Send(s) ==
  /\ attached[s] /\ pty[s] # NoHandle /\ writes < MaxWrites
  /\ children' = Written(ChildOf(s), <<Item("text", ChildOf(s), writes + 1)>>)
  /\ writes' = writes + 1
  /\ UNCHANGED <<state, attached, pty, owner, pending>>

BodyAndSubmit(g, n) == <<Item("body", g, n), Item("submit", g, n)>>

(* handle_prompt, when the pane's driver submits at once.                  *)
PromptNow(s) ==
  /\ attached[s] /\ pty[s] # NoHandle /\ writes < MaxWrites
  /\ children' = Written(ChildOf(s), BodyAndSubmit(ChildOf(s), writes + 1))
  /\ writes' = writes + 1
  /\ UNCHANGED <<state, attached, pty, owner, pending>>

Bug_SubmitForgotten(s) ==
  /\ attached[s] /\ pty[s] # NoHandle /\ writes < MaxWrites
  /\ children' = Written(ChildOf(s), <<Item("body", ChildOf(s), writes + 1)>>)
  /\ writes' = writes + 1
  /\ UNCHANGED <<state, attached, pty, owner, pending>>

(* handle_prompt, when it submits after a delay.                           *)
PromptDelayed(s) ==
  /\ attached[s] /\ pty[s] # NoHandle /\ writes < MaxWrites
  /\ LET g == ChildOf(s)
     IN  /\ children' = Written(g, <<Item("body", g, writes + 1)>>)
         /\ pending' = pending \cup
              {[handle |-> pty[s], item |-> Item("submit", g, writes + 1)]}
  /\ writes' = writes + 1
  /\ UNCHANGED <<state, attached, pty, owner>>

Bug_ToNewestChild(w) == Len(children)

(* Where a delayed write ends up when it is made.                          *)
Destination(w) == owner[w.handle]

(* A sleeping thread wakes: write_raw.                                     *)
WriteLate(w) ==
  /\ children' = Written(Destination(w), <<w.item>>)
  /\ pending' = pending \ {w}
  /\ UNCHANGED <<state, attached, pty, owner, writes>>

-----------------------------------------------------------------------------
Init ==
  /\ state = [s \in Sessions |-> "Absent"]
  /\ attached = [s \in Sessions |-> FALSE]
  /\ pty = [s \in Sessions |-> NoHandle]
  /\ owner = [h \in Handles |-> NoChild]
  /\ children = <<>> /\ pending = {} /\ writes = 0

Next ==
  \/ \E s \in Sessions : Spawn(s)
  \/ \E s \in Sessions : Restart(s)
  \/ \E s \in Sessions : Stop(s)
  \/ \E g \in DOMAIN children : Exit(g)
  \/ Tick
  \/ \E s \in Sessions : Send(s)
  \/ \E s \in Sessions : PromptNow(s)
  \/ \E s \in Sessions : PromptDelayed(s)
  \/ \E w \in pending : WriteLate(w)

Spec == Init /\ [][Next]_vars

(* The broadcaster ticks every 50 ms, and a sleeping thread wakes.         *)
Fairness == WF_vars(Tick) /\ WF_vars(\E w \in pending : WriteLate(w))

FairSpec == Spec /\ Fairness

-----------------------------------------------------------------------------
(* Properties.                                                             *)

Kinds == {"startup", "text", "body", "submit"}

ItemsOf(n) == [kind : Kinds, child : 1 .. n, request : 0 .. MaxWrites]

TypeOK ==
  /\ state \in [Sessions -> {"Absent", "Running", "Exited", "Failed", "Removed"}]
  /\ attached \in [Sessions -> BOOLEAN]
  /\ pty \in [Sessions -> Handles \cup {NoHandle}]
  /\ owner \in [Handles -> 0 .. Len(children)]
  /\ children \in Seq([session : Sessions, alive : BOOLEAN, reports : Nat,
                       input : Seq(ItemsOf(Len(children)))])
  /\ pending \subseteq [handle : Handles, item : ItemsOf(Len(children))]
  /\ writes \in 0 .. MaxWrites

(* Every open pipe belongs to one session, which it serves, and every      *)
(* session that runs or has run out has one: no order of restarts, failed  *)
(* starts and stops leaks a handle or closes one of another session.       *)
PipesOwned ==
  /\ \A h \in Handles : owner[h] # NoChild => pty[children[owner[h]].session] = h
  /\ \A s \in Sessions : pty[s] # NoHandle <=> state[s] \in {"Running", "Exited"}
  /\ \A s \in Sessions : pty[s] # NoHandle =>
       owner[pty[s]] # NoChild /\ children[owner[pty[s]]].session = s

(* A child that runs is the current one of a session the workspace still   *)
(* has: none survives the stop or the restart of its session.              *)
NoOrphans ==
  \A g \in DOMAIN children :
    children[g].alive =>
      state[children[g].session] = "Running" /\ ChildOf(children[g].session) = g

(* An exit is reported once, and only for a child that is gone; a session  *)
(* shown as exited has its report out.                                     *)
ReportedOnce ==
  /\ \A g \in DOMAIN children :
       children[g].reports <= 1 /\ (children[g].reports = 1 => ~children[g].alive)
  /\ \A s \in Sessions : state[s] = "Exited" => children[ChildOf(s)].reports = 1

(* Input goes astray in one way only: a delayed write, once the child it   *)
(* was for lost its pipe, reaches a child that was started later.          *)
StraysOnlyAfterClose ==
  \A g \in DOMAIN children :
    \A item \in ToSet(children[g].input) :
      item.child # g =>
        /\ item.kind \in {"startup", "submit"}
        /\ item.child < g
        /\ \A h \in Handles : owner[h] # item.child

PipeGone(g) == \A h \in Handles : owner[h] # g

Gone(g) == g \in DOMAIN children /\ ~children[g].alive

Got(g, item) ==
  g \in DOMAIN children /\ item \in ToSet(children[g].input)

(* A child that exits is reported, unless its session is stopped or        *)
(* restarted before the tick.                                              *)
ExitsReported ==
  \A g \in 1 .. MaxChildren :
    Gone(g) ~> PipeGone(g) \/ children[g].reports = 1

(* The submit of a delayed prompt reaches the child that got its body,     *)
(* unless its session is stopped or restarted during the delay.            *)
PromptsSubmitted ==
  \A g \in 1 .. MaxChildren, n \in 1 .. MaxWrites :
    Got(g, Item("body", g, n)) ~> Got(g, Item("submit", g, n)) \/ PipeGone(g)

(* What was begun ends: an exit is reported, a delayed prompt submitted,   *)
(* unless a stop or a restart closed the pipe meanwhile.                   *)
WorkEnds == ExitsReported /\ PromptsSubmitted

=============================================================================
