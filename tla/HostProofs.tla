------------------------------- MODULE HostProofs -------------------------------
(***************************************************************************)
(* Theorems about the processes on either side of a pipe.  First Session,  *)
(* for any sessions, handles and bounds: pipes are owned, children are not *)
(* orphaned, exits are reported once, and a write goes astray only when    *)
(* its thread slept while the child it was for lost its pipe, and then to  *)
(* a child that was started later.                                         *)
(*                                                                         *)
(* Then Commands, for any commands, stops and plans: one host serves and   *)
(* host.pid names it (OneHost), and an exit code tells what the host did   *)
(* (ExitsTell).  The two halves of that state hardly meet.  The life of    *)
(* the hosts is proved with LifeInv, and holds whatever the commands ask;  *)
(* what a command knows is proved with Progress, of each command by        *)
(* itself, whatever becomes of the hosts.                                  *)
(***************************************************************************)
EXTENDS Session, Commands, FiniteSetTheorems, TLAPS

ItemSet == [kind : Kinds, child : Nat, request : Nat]

Child == [session : Sessions, alive : BOOLEAN, reports : Nat, input : Seq(ItemSet)]

(* The types the proofs need: coarser than TypeOK.                         *)
Typing ==
  /\ state \in [Sessions -> {"Absent", "Running", "Exited", "Failed", "Removed"}]
  /\ attached \in [Sessions -> BOOLEAN]
  /\ pty \in [Sessions -> Handles \cup {NoHandle}]
  /\ owner \in [Handles -> 0 .. Len(children)]
  /\ children \in Seq(Child)
  /\ pending \in SUBSET [handle : Handles, item : ItemSet]
  /\ writes \in Nat

(* What makes ReportedOnce inductive: a running session's child has no     *)
(* report yet.                                                             *)
Unreported ==
  \A s \in Sessions : state[s] = "Running" => children[ChildOf(s)].reports = 0

IInv == Typing /\ PipesOwned /\ NoOrphans /\ ReportedOnce /\ Unreported

-----------------------------------------------------------------------------
LEMMA InitSound == Init => IInv
<1> SUFFICES ASSUME Init PROVE IInv
  OBVIOUS
<1> USE DEF Init, NoChild
<1>1. Typing
  BY DEF Typing, Child
<1>2. DOMAIN children = {}
  OBVIOUS
<1>3. PipesOwned
  BY DEF PipesOwned
<1>4. NoOrphans /\ ReportedOnce /\ Unreported
  BY <1>2 DEF NoOrphans, ReportedOnce, Unreported
<1> QED BY <1>1, <1>3, <1>4 DEF IInv

LEMMA ChildTyped ==
  ASSUME IInv
  PROVE  /\ DOMAIN children = 1 .. Len(children) /\ Len(children) \in Nat
         /\ \A g \in 1 .. Len(children) :
              /\ children[g] \in Child /\ children[g].session \in Sessions
              /\ children[g].alive \in BOOLEAN /\ children[g].reports \in Nat
              /\ children[g].input \in Seq(ItemSet)
<1>1. children \in Seq(Child)
  BY DEF IInv, Typing
<1>2. /\ DOMAIN children = 1 .. Len(children) /\ Len(children) \in Nat
      /\ \A g \in 1 .. Len(children) : children[g] \in Child
  BY <1>1
<1>3. \A c \in Child : /\ c.session \in Sessions /\ c.alive \in BOOLEAN
                       /\ c.reports \in Nat /\ c.input \in Seq(ItemSet)
  BY DEF Child
<1> QED BY <1>2, <1>3

(* A session that holds a handle: its child, and that no other has it.     *)
LEMMA Held ==
  ASSUME IInv, NEW s \in Sessions, pty[s] # NoHandle
  PROVE  /\ pty[s] \in Handles /\ ChildOf(s) = owner[pty[s]]
         /\ ChildOf(s) \in DOMAIN children /\ children[ChildOf(s)].session = s
         /\ \A h \in Handles : owner[h] = ChildOf(s) => h = pty[s]
<1>1. pty[s] \in Handles /\ ChildOf(s) = owner[pty[s]]
  BY DEF IInv, Typing, ChildOf
<1>2. owner[pty[s]] # NoChild /\ children[owner[pty[s]]].session = s
  BY DEF IInv, PipesOwned
<1>3. owner[pty[s]] \in 0 .. Len(children) /\ children \in Seq(Child)
  BY <1>1 DEF IInv, Typing
<1>4. ChildOf(s) \in DOMAIN children
  BY <1>1, <1>2, <1>3 DEF NoChild
<1>5. ASSUME NEW h \in Handles, owner[h] = ChildOf(s) PROVE h = pty[s]
  BY <1>5, <1>1, <1>2 DEF IInv, PipesOwned
<1> QED BY <1>1, <1>2, <1>4, <1>5

(* The children and handles after stop_pty of session s: the others keep   *)
(* theirs, and no child of s is left alive or with a pipe.                 *)
LEMMA TornDown ==
  ASSUME IInv, NEW s \in Sessions
  PROVE  /\ Killed(s) \in Seq(Child) /\ Len(Killed(s)) = Len(children)
         /\ DOMAIN Killed(s) = DOMAIN children
         /\ Closed(s) \in [Handles -> 0 .. Len(children)]
         /\ \A g \in DOMAIN children :
              /\ Killed(s)[g].session = children[g].session
              /\ Killed(s)[g].reports = children[g].reports
              /\ Killed(s)[g].input = children[g].input
              /\ Killed(s)[g].alive => children[g].alive /\ children[g].session # s
              /\ children[g].session # s => Killed(s)[g] = children[g]
              /\ ~children[g].alive => Killed(s)[g] = children[g]
         /\ \A h \in Handles :
              /\ Closed(s)[h] # NoChild =>
                   Closed(s)[h] = owner[h] /\ children[owner[h]].session # s
              /\ h # pty[s] => Closed(s)[h] = owner[h]
              /\ h = pty[s] => Closed(s)[h] = NoChild
<1>1. children \in Seq(Child) /\ owner \in [Handles -> 0 .. Len(children)]
  BY DEF IInv, Typing
<1>2. /\ DOMAIN children = 1 .. Len(children)
      /\ \A g \in DOMAIN children : children[g] \in Child
  BY <1>1
<1>3. ASSUME NEW g \in DOMAIN children
      PROVE  /\ [children[g] EXCEPT !.alive = FALSE] \in Child
             /\ [children[g] EXCEPT !.alive = FALSE].session = children[g].session
             /\ [children[g] EXCEPT !.alive = FALSE].reports = children[g].reports
             /\ [children[g] EXCEPT !.alive = FALSE].input = children[g].input
             /\ ~[children[g] EXCEPT !.alive = FALSE].alive
             /\ ~children[g].alive => [children[g] EXCEPT !.alive = FALSE] = children[g]
  BY <1>2, <1>3 DEF Child
<1>4. /\ DOMAIN Killed(s) = 1 .. Len(children)
      /\ \A g \in DOMAIN children : Killed(s)[g] \in Child
  BY <1>2, <1>3 DEF Killed
<1>5. Killed(s) \in Seq(Child) /\ Len(Killed(s)) = Len(children)
  <2>1. Killed(s) \in [1 .. Len(children) -> Child]
    BY <1>2, <1>3, <1>4 DEF Killed
  <2> QED BY <2>1, <1>1
<1>6. Closed(s) \in [Handles -> 0 .. Len(children)]
  BY <1>1 DEF Closed, NoChild
<1>7. ASSUME NEW g \in DOMAIN children
      PROVE  /\ Killed(s)[g].session = children[g].session
             /\ Killed(s)[g].reports = children[g].reports
             /\ Killed(s)[g].input = children[g].input
             /\ Killed(s)[g].alive => children[g].alive /\ children[g].session # s
             /\ children[g].session # s => Killed(s)[g] = children[g]
             /\ ~children[g].alive => Killed(s)[g] = children[g]
  <2>1. CASE g = ChildOf(s)
    <3>1. pty[s] # NoHandle
      BY <2>1, <1>2 DEF ChildOf, NoChild
    <3>2. children[g].session = s
      BY <2>1, <3>1, Held
    <3> QED BY <2>1, <3>2, <1>3 DEF Killed
  <2>2. CASE g # ChildOf(s)
    <3>1. Killed(s)[g] = children[g]
      BY <2>2 DEF Killed
    <3>2. children[g].alive => children[g].session # s
      BY <2>2 DEF IInv, NoOrphans
    <3> QED BY <3>1, <3>2
  <2> QED BY <2>1, <2>2
<1>8. ASSUME NEW h \in Handles
      PROVE  /\ Closed(s)[h] # NoChild =>
                  Closed(s)[h] = owner[h] /\ children[owner[h]].session # s
             /\ h # pty[s] => Closed(s)[h] = owner[h]
             /\ h = pty[s] => Closed(s)[h] = NoChild
  BY DEF IInv, PipesOwned, Closed
<1> QED BY <1>2, <1>4, <1>5, <1>6, <1>7, <1>8

-----------------------------------------------------------------------------
(* Starting and stopping.                                                  *)

(* Handles own and children cs in which session s has nothing left, and    *)
(* everything else is as it is now.                                        *)
Clean(s, own, cs) ==
  /\ cs \in Seq(Child) /\ Len(cs) = Len(children)
  /\ own \in [Handles -> 0 .. Len(children)]
  /\ \A g \in 1 .. Len(children) :
       /\ cs[g].session = children[g].session
       /\ cs[g].reports = children[g].reports
       /\ cs[g].input = children[g].input
       /\ cs[g].alive => children[g].session # s
       /\ children[g].session # s => cs[g] = children[g]
       /\ ~children[g].alive => cs[g] = children[g]
  /\ \A h \in Handles :
       /\ own[h] # NoChild => own[h] = owner[h] /\ children[owner[h]].session # s
       /\ owner[h] # NoChild /\ children[owner[h]].session # s => own[h] = owner[h]

LEMMA TornDownClean ==
  ASSUME IInv, NEW s \in Sessions
  PROVE  Clean(s, Closed(s), Killed(s))
<1>1. children \in Seq(Child)
  BY DEF IInv, Typing
<1>2. ASSUME NEW h \in Handles, owner[h] # NoChild, children[owner[h]].session # s
      PROVE  Closed(s)[h] = owner[h]
  <2>1. h # pty[s]
    BY <1>2, SessionAssumption DEF IInv, PipesOwned
  <2> QED BY <2>1, TornDown
<1> QED BY <1>1, <1>2, TornDown DEF Clean

LEMMA AbsentClean ==
  ASSUME IInv, NEW s \in Sessions, state[s] = "Absent"
  PROVE  Clean(s, owner, children)
<1>1. children \in Seq(Child) /\ owner \in [Handles -> 0 .. Len(children)]
  BY DEF IInv, Typing
<1>2. pty[s] = NoHandle
  BY DEF IInv, PipesOwned
<1>3. ASSUME NEW h \in Handles, owner[h] # NoChild
      PROVE  children[owner[h]].session # s
  BY <1>2, <1>3, SessionAssumption DEF IInv, PipesOwned
<1>4. ASSUME NEW g \in 1 .. Len(children), children[g].alive
      PROVE  children[g].session # s
  BY <1>1, <1>4 DEF IInv, NoOrphans
<1> QED BY <1>1, <1>3, <1>4 DEF Clean

(* A session other than s keeps its child through such a change.           *)
LEMMA OthersKept ==
  ASSUME IInv, NEW s \in Sessions, NEW own, NEW cs, Clean(s, own, cs),
         NEW t \in Sessions, t # s, pty[t] # NoHandle
  PROVE  /\ own[pty[t]] = owner[pty[t]]
         /\ owner[pty[t]] \in 1 .. Len(children)
         /\ cs[owner[pty[t]]] = children[owner[pty[t]]]
         /\ children[owner[pty[t]]].session = t
<1>1. /\ pty[t] \in Handles /\ owner[pty[t]] \in DOMAIN children
      /\ children[owner[pty[t]]].session = t
  BY Held
<1>2. DOMAIN children = 1 .. Len(children)
  BY DEF IInv, Typing
<1>3. owner[pty[t]] # NoChild
  BY <1>1, <1>2 DEF NoChild
<1> QED BY <1>1, <1>2, <1>3 DEF Clean

LEMMA EndSound ==
  ASSUME IInv, NEW s \in Sessions, Clean(s, owner', children'),
         NEW end \in {"Failed", "Removed"},
         pty' = [pty EXCEPT ![s] = NoHandle], state' = [state EXCEPT ![s] = end],
         attached' \in [Sessions -> BOOLEAN], pending' = pending, writes' = writes
  PROVE  IInv'
<1>1. Typing'
  BY DEF IInv, Typing, Clean
<1>2. /\ pty'[s] = NoHandle /\ state'[s] = end
      /\ \A t \in Sessions \ {s} : pty'[t] = pty[t] /\ state'[t] = state[t]
  BY DEF IInv, Typing
<1>3. DOMAIN children' = 1 .. Len(children)
  BY DEF Clean
<1>4. ASSUME NEW t \in Sessions, t # s, pty[t] # NoHandle
      PROVE  /\ owner'[pty'[t]] = owner[pty[t]] /\ ChildOf(t)' = ChildOf(t)
             /\ ChildOf(t) = owner[pty[t]] /\ ChildOf(t) \in 1 .. Len(children)
             /\ children'[ChildOf(t)] = children[ChildOf(t)]
             /\ children[ChildOf(t)].session = t
  BY <1>2, <1>4, OthersKept DEF ChildOf
<1>5. PipesOwned'
  <2>1. ASSUME NEW h \in Handles, owner'[h] # NoChild
        PROVE  pty'[children'[owner'[h]].session] = h
    <3>1. owner'[h] = owner[h] /\ children[owner[h]].session # s
      BY <2>1 DEF Clean
    <3>2. owner[h] \in 1 .. Len(children)
      BY <2>1, <3>1 DEF IInv, Typing, NoChild
    <3>3. children'[owner[h]].session = children[owner[h]].session
      BY <3>2 DEF Clean
    <3>4. children[owner[h]].session \in Sessions
      BY <3>2, ChildTyped
    <3> QED BY <1>2, <2>1, <3>1, <3>3, <3>4 DEF IInv, PipesOwned
  <2>2. ASSUME NEW t \in Sessions
        PROVE  pty'[t] # NoHandle <=> state'[t] \in {"Running", "Exited"}
    BY <1>2 DEF IInv, PipesOwned
  <2>3. ASSUME NEW t \in Sessions, pty'[t] # NoHandle
        PROVE  owner'[pty'[t]] # NoChild /\ children'[owner'[pty'[t]]].session = t
    BY <1>2, <1>4, <2>3 DEF NoChild
  <2> QED BY <2>1, <2>2, <2>3 DEF PipesOwned
<1>6. NoOrphans'
  <2> SUFFICES ASSUME NEW g \in 1 .. Len(children), children'[g].alive,
                      NEW t, t = children'[g].session
               PROVE  state'[t] = "Running" /\ ChildOf(t)' = g
    BY <1>3 DEF NoOrphans, ChildOf
  <2>1. t # s /\ t = children[g].session /\ children[g].alive
    BY DEF Clean
  <2>2. t \in Sessions
    BY <2>1, ChildTyped
  <2>3. state[t] = "Running" /\ ChildOf(t) = g
    BY <2>1, ChildTyped DEF IInv, NoOrphans
  <2>4. pty[t] # NoHandle
    BY <2>2, <2>3 DEF IInv, PipesOwned
  <2> QED BY <1>2, <1>4, <2>1, <2>2, <2>3, <2>4
<1>7. ReportedOnce'
  <2>1. ASSUME NEW g \in 1 .. Len(children)
        PROVE  /\ children'[g].reports <= 1
               /\ children'[g].reports = 1 => ~children'[g].alive
    BY ChildTyped DEF Clean, IInv, ReportedOnce
  <2>2. ASSUME NEW t \in Sessions, state'[t] = "Exited"
        PROVE  children'[ChildOf(t)'].reports = 1
    BY <1>2, <1>4, <2>2 DEF IInv, ReportedOnce, PipesOwned
  <2> QED BY <1>3, <2>1, <2>2 DEF ReportedOnce, ChildOf
<1>8. Unreported'
  <2>1. ASSUME NEW t \in Sessions, state'[t] = "Running"
        PROVE  children'[ChildOf(t)'].reports = 0
    BY <1>2, <1>4, <2>1 DEF IInv, Unreported, PipesOwned
  <2> QED BY <2>1 DEF Unreported, ChildOf
<1> QED BY <1>1, <1>5, <1>6, <1>7, <1>8 DEF IInv

LEMMA StartSound ==
  ASSUME IInv, NEW s \in Sessions, NEW own, NEW cs, Clean(s, own, cs),
         NEW h \in Handles, Started(s, h, own, cs),
         attached' \in [Sessions -> BOOLEAN], writes' = writes
  PROVE  IInv'
<1> DEFINE g == Len(children) + 1
<1>0. g \in Nat /\ g # NoChild /\ Len(cs) = Len(children) /\ cs \in Seq(Child)
  BY ChildTyped DEF Clean, NoChild
<1>1. Spawned(s) \in Child /\ Spawned(s).session = s /\ Spawned(s).alive = TRUE
      /\ Spawned(s).reports = 0
  BY DEF Spawned, Child
<1>2. /\ children' = Append(cs, Spawned(s)) /\ owner' = [own EXCEPT ![h] = g]
      /\ own[h] = NoChild
      /\ pty' = [pty EXCEPT ![s] = h] /\ state' = [state EXCEPT ![s] = "Running"]
  BY <1>0 DEF Started
<1>3. /\ children' \in Seq(Child) /\ DOMAIN children' = 1 .. g /\ Len(children') = g
      /\ children'[g] = Spawned(s)
      /\ \A c \in 1 .. Len(children) : children'[c] = cs[c]
  BY <1>0, <1>1, <1>2
<1>4. /\ owner' \in [Handles -> 0 .. g] /\ owner'[h] = g
      /\ \A k \in Handles \ {h} : owner'[k] = own[k]
  BY <1>0, <1>2 DEF Clean
<1>5. /\ pty'[s] = h /\ state'[s] = "Running" /\ h # NoHandle
      /\ \A t \in Sessions \ {s} : pty'[t] = pty[t] /\ state'[t] = state[t]
  BY <1>2, SessionAssumption DEF IInv, Typing
<1>6. Typing'
  <2>1. pending' \in SUBSET [handle : Handles, item : ItemSet]
    <3>1. Item("startup", g, 0) \in ItemSet
      BY <1>0 DEF Item, ItemSet, Kinds
    <3> QED BY <1>0, <3>1 DEF IInv, Typing, Started
  <2> QED BY <1>2, <1>3, <1>4, <2>1 DEF IInv, Typing
<1>7. ChildOf(s)' = g
  BY <1>4, <1>5 DEF ChildOf
<1>8. ASSUME NEW t \in Sessions, t # s, pty[t] # NoHandle
      PROVE  /\ owner'[pty'[t]] = owner[pty[t]] /\ ChildOf(t)' = ChildOf(t)
             /\ ChildOf(t) = owner[pty[t]] /\ ChildOf(t) \in 1 .. Len(children)
             /\ children'[ChildOf(t)] = children[ChildOf(t)]
             /\ children[ChildOf(t)].session = t
  <2>1. /\ own[pty[t]] = owner[pty[t]] /\ owner[pty[t]] \in 1 .. Len(children)
        /\ cs[owner[pty[t]]] = children[owner[pty[t]]]
        /\ children[owner[pty[t]]].session = t
    BY <1>8, OthersKept
  <2>2. pty[t] \in Handles \ {h}
    BY <1>2, <1>8, <2>1 DEF IInv, Typing, NoChild
  <2> QED BY <1>3, <1>4, <1>5, <1>8, <2>1, <2>2 DEF ChildOf
<1>9. PipesOwned'
  <2>1. ASSUME NEW k \in Handles, owner'[k] # NoChild
        PROVE  pty'[children'[owner'[k]].session] = k
    <3>1. CASE k = h
      BY <3>1, <1>1, <1>3, <1>4, <1>5
    <3>2. CASE k # h
      <4>1. owner'[k] = owner[k] /\ owner[k] # NoChild /\ children[owner[k]].session # s
        BY <1>4, <2>1, <3>2 DEF Clean
      <4>2. owner[k] \in 1 .. Len(children)
        BY <4>1 DEF IInv, Typing, NoChild
      <4>3. children'[owner[k]].session = children[owner[k]].session
        BY <1>3, <4>2 DEF Clean
      <4>4. children[owner[k]].session \in Sessions
        BY <4>2, ChildTyped
      <4> QED BY <1>5, <4>1, <4>3, <4>4 DEF IInv, PipesOwned
    <3> QED BY <3>1, <3>2
  <2>2. ASSUME NEW t \in Sessions
        PROVE  pty'[t] # NoHandle <=> state'[t] \in {"Running", "Exited"}
    BY <1>5 DEF IInv, PipesOwned
  <2>3. ASSUME NEW t \in Sessions, pty'[t] # NoHandle
        PROVE  owner'[pty'[t]] # NoChild /\ children'[owner'[pty'[t]]].session = t
    <3>1. CASE t = s
      BY <3>1, <1>0, <1>1, <1>3, <1>4, <1>5
    <3>2. CASE t # s
      BY <3>2, <1>5, <1>8, <2>3 DEF NoChild
    <3> QED BY <3>1, <3>2
  <2> QED BY <2>1, <2>2, <2>3 DEF PipesOwned
<1>10. NoOrphans'
  <2> SUFFICES ASSUME NEW c \in 1 .. g, children'[c].alive,
                      NEW t, t = children'[c].session
               PROVE  state'[t] = "Running" /\ ChildOf(t)' = c
    BY <1>3 DEF NoOrphans, ChildOf
  <2>1. CASE c = g
    BY <2>1, <1>1, <1>3, <1>5, <1>7
  <2>2. CASE c # g
    <3>1. c \in 1 .. Len(children)
      BY <1>0, <2>2, ChildTyped
    <3>2. t # s /\ t = children[c].session /\ children[c].alive
      BY <1>3, <3>1 DEF Clean
    <3>3. t \in Sessions
      BY <3>1, <3>2, ChildTyped
    <3>4. state[t] = "Running" /\ ChildOf(t) = c
      BY <3>1, <3>2, ChildTyped DEF IInv, NoOrphans
    <3>5. pty[t] # NoHandle
      BY <3>3, <3>4 DEF IInv, PipesOwned
    <3> QED BY <1>5, <1>8, <3>2, <3>3, <3>4, <3>5
  <2> QED BY <2>1, <2>2
<1>11. ReportedOnce'
  <2>1. ASSUME NEW c \in 1 .. g
        PROVE  /\ children'[c].reports <= 1
               /\ children'[c].reports = 1 => ~children'[c].alive
    <3>1. CASE c = g
      BY <3>1, <1>1, <1>3
    <3>2. CASE c # g
      <4>1. c \in 1 .. Len(children)
        BY <1>0, <3>2, ChildTyped
      <4> QED BY <1>3, <4>1, ChildTyped, SMTT(30) DEF Clean, IInv, ReportedOnce
    <3> QED BY <3>1, <3>2
  <2>2. ASSUME NEW t \in Sessions, state'[t] = "Exited"
        PROVE  children'[ChildOf(t)'].reports = 1
    <3>1. t # s
      BY <1>5, <2>2
    <3> QED BY <1>5, <1>8, <2>2, <3>1 DEF IInv, ReportedOnce, PipesOwned
  <2> QED BY <1>3, <2>1, <2>2 DEF ReportedOnce, ChildOf
<1>12. Unreported'
  <2>1. ASSUME NEW t \in Sessions, state'[t] = "Running"
        PROVE  children'[ChildOf(t)'].reports = 0
    <3>1. CASE t = s
      BY <3>1, <1>1, <1>3, <1>7
    <3>2. CASE t # s
      BY <3>2, <1>5, <1>8, <2>1 DEF IInv, Unreported, PipesOwned
    <3> QED BY <3>1, <3>2
  <2> QED BY <2>1 DEF Unreported, ChildOf
<1> QED BY <1>6, <1>9, <1>10, <1>11, <1>12 DEF IInv

-----------------------------------------------------------------------------
(* Exits, ticks and input.                                                 *)

(* A step that leaves sessions and handles alone, and gives no child life  *)
(* or a report.                                                            *)
LEMMA ShapeKept ==
  ASSUME IInv, UNCHANGED <<state, attached, pty, owner>>,
         children' \in Seq(Child), Len(children') = Len(children),
         \A g \in 1 .. Len(children) :
           /\ children'[g].session = children[g].session
           /\ children'[g].reports = children[g].reports
           /\ children'[g].alive => children[g].alive,
         pending' \in SUBSET [handle : Handles, item : ItemSet], writes' \in Nat
  PROVE  IInv'
<1>1. Typing'
  BY DEF IInv, Typing
<1>2. DOMAIN children' = 1 .. Len(children) /\ DOMAIN children = 1 .. Len(children)
  BY ChildTyped
<1>3. ASSUME NEW s \in Sessions
      PROVE  /\ ChildOf(s)' = ChildOf(s)
             /\ pty[s] # NoHandle => ChildOf(s) \in 1 .. Len(children)
  BY <1>2, Held DEF ChildOf
<1>4. PipesOwned'
  <2>1. ASSUME NEW h \in Handles, owner[h] # NoChild
        PROVE  owner[h] \in 1 .. Len(children)
    BY <2>1 DEF IInv, Typing, NoChild
  <2>2. ASSUME NEW h \in Handles, owner'[h] # NoChild
        PROVE  pty'[children'[owner'[h]].session] = h
    BY <2>1, <2>2 DEF IInv, PipesOwned
  <2>3. ASSUME NEW s \in Sessions, pty'[s] # NoHandle
        PROVE  owner'[pty'[s]] # NoChild /\ children'[owner'[pty'[s]]].session = s
    BY <2>1, <2>3 DEF IInv, PipesOwned, Typing
  <2> QED BY <2>2, <2>3 DEF IInv, PipesOwned
<1>5. NoOrphans'
  <2> SUFFICES ASSUME NEW g \in 1 .. Len(children), children'[g].alive,
                      NEW t, t = children'[g].session
               PROVE  state'[t] = "Running" /\ ChildOf(t)' = g
    BY <1>2 DEF NoOrphans, ChildOf
  <2> QED BY <1>2, <1>3, ChildTyped DEF IInv, NoOrphans
<1>6. ReportedOnce'
  <2>1. ASSUME NEW g \in 1 .. Len(children)
        PROVE  /\ children'[g].reports <= 1
               /\ children'[g].reports = 1 => ~children'[g].alive
    BY <1>2 DEF IInv, ReportedOnce
  <2>2. ASSUME NEW t \in Sessions, state'[t] = "Exited"
        PROVE  children'[ChildOf(t)'].reports = 1
    BY <1>3, <2>2 DEF IInv, ReportedOnce, PipesOwned
  <2> QED BY <1>2, <2>1, <2>2 DEF ReportedOnce, ChildOf
<1>7. Unreported'
  <2>1. ASSUME NEW t \in Sessions, state'[t] = "Running"
        PROVE  children'[ChildOf(t)'].reports = 0
    BY <1>3, <2>1 DEF IInv, Unreported, PipesOwned
  <2> QED BY <2>1 DEF Unreported, ChildOf
<1> QED BY <1>1, <1>4, <1>5, <1>6, <1>7 DEF IInv

LEMMA ExitSound ==
  ASSUME IInv, NEW g \in DOMAIN children, Exit(g)
  PROVE  IInv'
<1>1. children \in Seq(Child) /\ children[g] \in Child
  BY ChildTyped DEF IInv, Typing
<1>2. children' = [children EXCEPT ![g] = [children[g] EXCEPT !.alive = FALSE]]
  BY DEF Exit
<1>3. [children[g] EXCEPT !.alive = FALSE] \in Child
  BY <1>1 DEF Child
<1>4. children' \in Seq(Child) /\ Len(children') = Len(children)
  BY <1>1, <1>2, <1>3
<1>5. ASSUME NEW c \in 1 .. Len(children)
      PROVE  /\ children'[c].session = children[c].session
             /\ children'[c].reports = children[c].reports
             /\ children'[c].alive => children[c].alive
  <2>1. CASE c = g
    BY <2>1, <1>1 DEF Child, Exit
  <2>2. CASE c # g
    BY <2>2, <1>1, <1>2
  <2> QED BY <2>1, <2>2
<1> QED BY <1>4, <1>5, ShapeKept DEF Exit, IInv, Typing

(* What a write does to the children.                                      *)
LEMMA WrittenTyped ==
  ASSUME IInv, NEW g, NEW items \in Seq(ItemSet)
  PROVE  /\ Written(g, items) \in Seq(Child)
         /\ Len(Written(g, items)) = Len(children)
         /\ \A c \in 1 .. Len(children) :
              /\ Written(g, items)[c].session = children[c].session
              /\ Written(g, items)[c].reports = children[c].reports
              /\ Written(g, items)[c].alive = children[c].alive
              /\ Written(g, items)[c].input =
                   IF c = g THEN children[c].input \o items ELSE children[c].input
<1>1. /\ DOMAIN children = 1 .. Len(children) /\ Len(children) \in Nat
      /\ \A c \in 1 .. Len(children) : children[c] \in Child
  BY ChildTyped
<1>2. ASSUME NEW c \in 1 .. Len(children)
      PROVE  /\ [children[c] EXCEPT !.input = children[c].input \o items] \in Child
             /\ [children[c] EXCEPT !.input = children[c].input \o items].session
                  = children[c].session
             /\ [children[c] EXCEPT !.input = children[c].input \o items].reports
                  = children[c].reports
             /\ [children[c] EXCEPT !.input = children[c].input \o items].alive
                  = children[c].alive
             /\ [children[c] EXCEPT !.input = children[c].input \o items].input
                  = children[c].input \o items
  <2>1. children[c].input \o items \in Seq(ItemSet)
    BY ChildTyped
  <2> QED BY <1>1, <2>1 DEF Child
<1>3. ASSUME NEW c \in 1 .. Len(children)
      PROVE  Written(g, items)[c] =
               IF c = g THEN [children[c] EXCEPT !.input = children[c].input \o items]
                        ELSE children[c]
  BY <1>1 DEF Written
<1>4. Written(g, items) \in [1 .. Len(children) -> Child]
  BY <1>1, <1>2, <1>3 DEF Written
<1>5. Written(g, items) \in Seq(Child) /\ Len(Written(g, items)) = Len(children)
  BY <1>1, <1>4
<1>6. ASSUME NEW c \in 1 .. Len(children)
      PROVE  /\ Written(g, items)[c].session = children[c].session
             /\ Written(g, items)[c].reports = children[c].reports
             /\ Written(g, items)[c].alive = children[c].alive
             /\ Written(g, items)[c].input =
                  IF c = g THEN children[c].input \o items ELSE children[c].input
  <2>1. CASE c = g
    BY <2>1, <1>2, <1>3
  <2>2. CASE c # g
    BY <2>2, <1>3
  <2> QED BY <2>1, <2>2
<1> QED BY <1>5, <1>6

(* The requests that write: the items go to the session's own child.       *)
LEMMA WriteNowSound ==
  ASSUME IInv, NEW g, NEW items \in Seq(ItemSet), children' = Written(g, items),
         UNCHANGED <<state, attached, pty, owner>>,
         pending' \in SUBSET [handle : Handles, item : ItemSet], writes' \in Nat
  PROVE  IInv'
BY WrittenTyped, ShapeKept

LEMMA InputSound ==
  ASSUME IInv, NEW s \in Sessions, Send(s) \/ PromptNow(s) \/ PromptDelayed(s)
  PROVE  IInv'
<1>1. pty[s] # NoHandle
  BY DEF Send, PromptNow, PromptDelayed
<1>2. pty[s] \in Handles /\ ChildOf(s) \in Nat /\ writes + 1 \in Nat
  BY <1>1, Held, ChildTyped DEF IInv, Typing
<1>3. /\ \A kind \in Kinds : Item(kind, ChildOf(s), writes + 1) \in ItemSet
      /\ {"text", "body", "submit"} \subseteq Kinds
  BY <1>2 DEF Item, ItemSet, Kinds
<1>4. pending \in SUBSET [handle : Handles, item : ItemSet]
  BY DEF IInv, Typing
<1>5. CASE Send(s)
  <2>1. <<Item("text", ChildOf(s), writes + 1)>> \in Seq(ItemSet)
    BY <1>3
  <2>2. /\ children' = Written(ChildOf(s), <<Item("text", ChildOf(s), writes + 1)>>)
        /\ UNCHANGED <<state, attached, pty, owner, pending>> /\ writes' \in Nat
    BY <1>2, <1>5 DEF Send
  <2> QED BY <1>4, <2>1, <2>2, WriteNowSound
<1>6. CASE PromptNow(s)
  <2>1. BodyAndSubmit(ChildOf(s), writes + 1) \in Seq(ItemSet)
    BY <1>3 DEF BodyAndSubmit
  <2>2. /\ children' = Written(ChildOf(s), BodyAndSubmit(ChildOf(s), writes + 1))
        /\ UNCHANGED <<state, attached, pty, owner, pending>> /\ writes' \in Nat
    BY <1>2, <1>6 DEF PromptNow
  <2> QED BY <1>4, <2>1, <2>2, WriteNowSound
<1>7. CASE PromptDelayed(s)
  <2>1. <<Item("body", ChildOf(s), writes + 1)>> \in Seq(ItemSet)
    BY <1>3
  <2>2. /\ children' = Written(ChildOf(s), <<Item("body", ChildOf(s), writes + 1)>>)
        /\ UNCHANGED <<state, attached, pty, owner>> /\ writes' \in Nat
        /\ pending' = pending \cup
             {[handle |-> pty[s], item |-> Item("submit", ChildOf(s), writes + 1)]}
    BY <1>2, <1>7 DEF PromptDelayed
  <2>3. pending' \in SUBSET [handle : Handles, item : ItemSet]
    BY <1>2, <1>3, <1>4, <2>2
  <2> QED BY <2>1, <2>2, <2>3, WriteNowSound
<1> QED BY <1>5, <1>6, <1>7

LEMMA WriteLateSound ==
  ASSUME IInv, NEW w \in pending, WriteLate(w)
  PROVE  IInv'
<1>1. pending \in SUBSET [handle : Handles, item : ItemSet] /\ writes \in Nat
  BY DEF IInv, Typing
<1>2. <<w.item>> \in Seq(ItemSet)
  BY <1>1
<1>3. /\ children' = Written(Destination(w), <<w.item>>)
      /\ pending' \subseteq pending /\ writes' = writes
      /\ UNCHANGED <<state, attached, pty, owner>>
  BY DEF WriteLate
<1> QED BY <1>1, <1>2, <1>3, WriteNowSound

LEMMA TickSound ==
  ASSUME IInv, Tick
  PROVE  IInv'
<1> DEFINE F == FoundExited
           Hit(g) == \E s \in F : ChildOf(s) = g
<1>1. /\ DOMAIN children = 1 .. Len(children) /\ Len(children) \in Nat
      /\ \A g \in 1 .. Len(children) : children[g] \in Child
  BY ChildTyped
<1>2. ASSUME NEW s \in F
      PROVE  /\ s \in Sessions /\ state[s] = "Running" /\ pty[s] # NoHandle
             /\ ChildOf(s) \in 1 .. Len(children) /\ children[ChildOf(s)].session = s
             /\ ~children[ChildOf(s)].alive /\ children[ChildOf(s)].reports = 0
  <2>1. s \in Sessions /\ state[s] = "Running" /\ ~children[ChildOf(s)].alive
    BY DEF FoundExited
  <2>2. pty[s] # NoHandle
    BY <2>1 DEF IInv, PipesOwned
  <2> QED BY <1>1, <2>1, <2>2, Held DEF IInv, Unreported
<1>3. ASSUME NEW g \in 1 .. Len(children)
      PROVE  /\ children'[g] \in Child
             /\ children'[g].session = children[g].session
             /\ children'[g].alive = children[g].alive
             /\ children'[g].reports =
                  IF Hit(g) THEN children[g].reports + 1 ELSE children[g].reports
  <2>1. CASE Hit(g)
    <3>1. children'[g] = [children[g] EXCEPT !.reports = children[g].reports + 1]
      BY <1>1, <2>1 DEF Tick
    <3> QED BY <1>1, <2>1, <3>1 DEF Child
  <2>2. CASE ~Hit(g)
    <3>1. children'[g] = children[g]
      BY <1>1, <2>2 DEF Tick
    <3> QED BY <1>1, <2>2, <3>1
  <2> QED BY <2>1, <2>2
<1>4. children' \in Seq(Child) /\ Len(children') = Len(children)
      /\ DOMAIN children' = 1 .. Len(children)
  <2>1. children' \in [1 .. Len(children) -> Child]
    BY <1>1, <1>3 DEF Tick
  <2> QED BY <1>1, <2>1
<1>5. /\ UNCHANGED <<attached, pty, owner, pending, writes>>
      /\ \A s \in Sessions : state'[s] = IF s \in F THEN "Exited" ELSE state[s]
  BY DEF Tick
<1>6. Typing'
  <2>1. state' \in [Sessions -> {"Absent", "Running", "Exited", "Failed", "Removed"}]
    BY <1>5 DEF Tick, IInv, Typing
  <2> QED BY <1>4, <1>5, <2>1 DEF IInv, Typing
<1>7. ASSUME NEW s \in Sessions
      PROVE  /\ ChildOf(s)' = ChildOf(s)
             /\ pty[s] # NoHandle => /\ ChildOf(s) \in 1 .. Len(children)
                                     /\ children[ChildOf(s)].session = s
  BY <1>1, <1>5, Held DEF ChildOf
<1>8. PipesOwned'
  <2>1. ASSUME NEW h \in Handles, owner[h] # NoChild
        PROVE  owner[h] \in 1 .. Len(children)
    BY <2>1 DEF IInv, Typing, NoChild
  <2>2. ASSUME NEW h \in Handles, owner'[h] # NoChild
        PROVE  pty'[children'[owner'[h]].session] = h
    BY <1>3, <1>5, <2>1, <2>2 DEF IInv, PipesOwned
  <2>3. ASSUME NEW s \in Sessions, pty'[s] # NoHandle
        PROVE  owner'[pty'[s]] # NoChild /\ children'[owner'[pty'[s]]].session = s
    BY <1>3, <1>5, <2>1, <2>3 DEF IInv, PipesOwned, Typing
  <2>4. ASSUME NEW s \in Sessions
        PROVE  pty'[s] # NoHandle <=> state'[s] \in {"Running", "Exited"}
    BY <1>2, <1>5 DEF IInv, PipesOwned
  <2> QED BY <2>2, <2>3, <2>4 DEF PipesOwned
<1>9. NoOrphans'
  <2> SUFFICES ASSUME NEW g \in 1 .. Len(children), children'[g].alive,
                      NEW t, t = children'[g].session
               PROVE  state'[t] = "Running" /\ ChildOf(t)' = g
    BY <1>4 DEF NoOrphans, ChildOf
  <2>1. t = children[g].session /\ children[g].alive /\ t \in Sessions
    BY <1>3, ChildTyped
  <2>2. state[t] = "Running" /\ ChildOf(t) = g
    BY <1>1, <2>1 DEF IInv, NoOrphans
  <2>3. t \notin F
    BY <1>2, <2>1, <2>2
  <2> QED BY <1>5, <1>7, <2>1, <2>2, <2>3
<1>10. ReportedOnce'
  <2>1. ASSUME NEW g \in 1 .. Len(children)
        PROVE  /\ children'[g].reports <= 1
               /\ children'[g].reports = 1 => ~children'[g].alive
    BY <1>1, <1>2, <1>3 DEF IInv, ReportedOnce
  <2>2. ASSUME NEW t \in Sessions, state'[t] = "Exited"
        PROVE  children'[ChildOf(t)'].reports = 1
    <3>1. CASE t \in F
      BY <3>1, <1>2, <1>3, <1>7
    <3>2. CASE t \notin F
      <4>1. state[t] = "Exited" /\ pty[t] # NoHandle
        BY <1>5, <2>2, <3>2 DEF IInv, PipesOwned
      <4>2. ~Hit(ChildOf(t))
        BY <1>2, <1>7, <3>2, <4>1
      <4> QED BY <1>3, <1>7, <4>1, <4>2 DEF IInv, ReportedOnce
    <3> QED BY <3>1, <3>2
  <2> QED BY <1>4, <2>1, <2>2 DEF ReportedOnce, ChildOf
<1>11. Unreported'
  <2>1. ASSUME NEW t \in Sessions, state'[t] = "Running"
        PROVE  children'[ChildOf(t)'].reports = 0
    <3>1. state[t] = "Running" /\ pty[t] # NoHandle /\ t \notin F
      BY <1>5, <2>1 DEF IInv, PipesOwned
    <3>2. ~Hit(ChildOf(t))
      BY <1>2, <1>7, <3>1
    <3> QED BY <1>3, <1>7, <3>1, <3>2 DEF IInv, Unreported
  <2> QED BY <2>1 DEF Unreported, ChildOf
<1> QED BY <1>6, <1>8, <1>9, <1>10, <1>11 DEF IInv

-----------------------------------------------------------------------------
LEMMA StepSound == IInv /\ [Next]_vars => IInv'
<1> SUFFICES ASSUME IInv, [Next]_vars PROVE IInv'
  OBVIOUS
<1>1. ASSUME NEW s \in Sessions, Spawn(s) PROVE IInv'
  <2>1. Clean(s, owner, children) /\ attached \in [Sessions -> BOOLEAN]
    BY <1>1, AbsentClean DEF Spawn, IInv, Typing
  <2>2. ASSUME NEW h \in Handles, Started(s, h, owner, children),
               attached' = [attached EXCEPT ![s] = TRUE]
        PROVE  IInv'
    BY <1>1, <2>1, <2>2, StartSound DEF Spawn
  <2>3. ASSUME StartFailed(s, owner, children), UNCHANGED attached PROVE IInv'
    BY <1>1, <2>1, <2>3, EndSound DEF Spawn, StartFailed
  <2> QED BY <1>1, <2>2, <2>3 DEF Spawn
<1>2. ASSUME NEW s \in Sessions, Restart(s) PROVE IInv'
  <2>1. Clean(s, Closed(s), Killed(s)) /\ attached' \in [Sessions -> BOOLEAN]
        /\ writes' = writes
    BY <1>2, TornDownClean DEF Restart, IInv, Typing
  <2>2. ASSUME NEW h \in Handles, Started(s, h, Closed(s), Killed(s)) PROVE IInv'
    BY <2>1, <2>2, StartSound
  <2>3. ASSUME StartFailed(s, Closed(s), Killed(s)) PROVE IInv'
    BY <2>1, <2>3, EndSound DEF StartFailed
  <2> QED BY <1>2, <2>2, <2>3 DEF Restart
<1>3. ASSUME NEW s \in Sessions, Stop(s) PROVE IInv'
  <2>1. Clean(s, Closed(s), Killed(s)) /\ attached' \in [Sessions -> BOOLEAN]
    BY <1>3, TornDownClean DEF Stop, IInv, Typing
  <2> QED BY <1>3, <2>1, EndSound DEF Stop
<1>4. ASSUME NEW g \in DOMAIN children, Exit(g) PROVE IInv'
  BY <1>4, ExitSound
<1>5. ASSUME Tick PROVE IInv'
  BY <1>5, TickSound
<1>6. ASSUME NEW s \in Sessions, Send(s) \/ PromptNow(s) \/ PromptDelayed(s) PROVE IInv'
  BY <1>6, InputSound
<1>7. ASSUME NEW w \in pending, WriteLate(w) PROVE IInv'
  BY <1>7, WriteLateSound
<1>8. CASE UNCHANGED vars
  BY <1>8 DEF vars, IInv, Typing, PipesOwned, NoOrphans, ReportedOnce, Unreported, ChildOf
<1> QED BY <1>1, <1>2, <1>3, <1>4, <1>5, <1>6, <1>7, <1>8 DEF Next

(* The strengthening of the three invariants below holds throughout.       *)
THEOREM Invariance == Spec => []IInv
<1>1. Init => IInv
  BY InitSound
<1>2. IInv /\ [Next]_vars => IInv'
  BY StepSound
<1> QED BY <1>1, <1>2, PTL DEF Spec

(* Every open pipe belongs to the one session it serves, whatever order    *)
(* restarts, failed starts and stops come in.                              *)
THEOREM PipesStayOwned == Spec => []PipesOwned
<1>1. IInv => PipesOwned
  BY DEF IInv
<1> QED BY <1>1, Invariance, PTL

(* No child outlives the stop or the restart of its session.               *)
THEOREM NoChildOrphaned == Spec => []NoOrphans
<1>1. IInv => NoOrphans
  BY DEF IInv
<1> QED BY <1>1, Invariance, PTL

(* check_exit reports an exit once, and only of a child that is gone.      *)
THEOREM ExitsReportedOnce == Spec => []ReportedOnce
<1>1. IInv => ReportedOnce
  BY DEF IInv
<1> QED BY <1>1, Invariance, PTL

-----------------------------------------------------------------------------
(* Where the input ends up.                                                *)

(* An item in the input of child g.                                        *)
RightOrLate(item, g) ==
  /\ item.child \in 1 .. Len(children)
  /\ item.child # g =>
       item.kind \in {"startup", "submit"} /\ item.child < g /\ PipeGone(item.child)

(* A sleeping write: its handle still leads to its child, or that child's  *)
(* pipe is gone for good and the handle leads nowhere or to a later child. *)
Aimed(w) ==
  /\ w.item.kind \in {"startup", "submit"}
  /\ w.item.child \in 1 .. Len(children)
  /\ owner[w.handle] # w.item.child =>
       /\ PipeGone(w.item.child)
       /\ owner[w.handle] # NoChild => w.item.child < owner[w.handle]

InputInv ==
  /\ \A g \in DOMAIN children :
       \A item \in ToSet(children[g].input) : RightOrLate(item, g)
  /\ \A w \in pending : Aimed(w)

LEMMA InputInvMeans == InputInv => StraysOnlyAfterClose
BY DEF InputInv, RightOrLate, StraysOnlyAfterClose, PipeGone

LEMMA InitInput == Init => InputInv
BY DEF Init, InputInv

(* Only one handle leads to a child.                                       *)
LEMMA OnePipe ==
  ASSUME IInv, NEW h \in Handles, NEW k \in Handles,
         owner[h] # NoChild, owner[h] = owner[k]
  PROVE  h = k
BY DEF IInv, PipesOwned

(* A step that may close pipes and open one to a new child, and leaves     *)
(* the input of the old ones alone.                                        *)
LEMMA PipesChanged ==
  ASSUME IInv, InputInv, NEW n \in Nat, n >= Len(children),
         DOMAIN children' = 1 .. n, Len(children') = n,
         \A h \in Handles :
           \/ owner'[h] = owner[h]
           \/ owner'[h] = NoChild
           \/ owner'[h] \in (Len(children) + 1) .. n,
         \A g \in 1 .. Len(children) : children'[g].input = children[g].input,
         \A g \in (Len(children) + 1) .. n : children'[g].input = <<>>,
         \A w \in pending' \ pending :
           /\ w.item.kind \in {"startup", "submit"} /\ w.item.child \in 1 .. n
           /\ owner'[w.handle] = w.item.child
  PROVE  InputInv'
<1>1. Len(children) \in Nat /\ DOMAIN children = 1 .. Len(children)
  BY ChildTyped
<1>2. ASSUME NEW c \in 1 .. Len(children), PipeGone(c)
      PROVE  PipeGone(c)'
  BY <1>1, <1>2 DEF PipeGone, NoChild
<1>3. ASSUME NEW g \in 1 .. n, NEW item \in ToSet(children'[g].input)
      PROVE  RightOrLate(item, g)'
  <2>1. CASE g \in 1 .. Len(children)
    <3>1. item \in ToSet(children[g].input)
      BY <1>3, <2>1
    <3>2. RightOrLate(item, g)
      BY <1>1, <2>1, <3>1 DEF InputInv
    <3> QED BY <1>1, <1>2, <3>2 DEF RightOrLate
  <2>2. CASE g \in (Len(children) + 1) .. n
    BY <1>3, <2>2 DEF ToSet
  <2> QED BY <1>1, <2>1, <2>2
<1>4. ASSUME NEW w \in pending'
      PROVE  Aimed(w)'
  <2>1. CASE w \in pending
    <3>1. Aimed(w) /\ w.handle \in Handles
      BY <2>1 DEF InputInv, IInv, Typing
    <3>2. CASE owner[w.handle] # w.item.child
      <4>1. PipeGone(w.item.child)'
        BY <1>2, <3>1, <3>2 DEF Aimed
      <4> QED BY <1>1, <3>1, <3>2, <4>1 DEF Aimed, NoChild
    <3>3. CASE owner[w.handle] = w.item.child
      <4>1. CASE owner'[w.handle] = w.item.child
        BY <1>1, <3>1, <4>1 DEF Aimed
      <4>2. CASE owner'[w.handle] # w.item.child
        <5>1. ASSUME NEW h \in Handles, owner'[h] = w.item.child PROVE FALSE
          <6>1. owner[h] = w.item.child /\ w.item.child # NoChild
            BY <1>1, <3>1, <5>1 DEF Aimed, NoChild
          <6>2. h = w.handle
            BY <3>1, <3>3, <6>1, OnePipe
          <6> QED BY <4>2, <5>1, <6>2
        <5>2. PipeGone(w.item.child)'
          BY <5>1 DEF PipeGone
        <5> QED BY <1>1, <3>1, <3>3, <4>2, <5>2 DEF Aimed, NoChild
      <4> QED BY <4>1, <4>2
    <3> QED BY <3>2, <3>3
  <2>2. CASE w \notin pending
    BY <1>4, <2>2 DEF Aimed
  <2> QED BY <2>1, <2>2
<1> QED BY <1>3, <1>4 DEF InputInv

(* A step that writes items, each meant for the child that gets it or a    *)
(* sleeping write whose handle leads there.                                *)
LEMMA ItemsWritten ==
  ASSUME IInv, InputInv, NEW d \in Nat, NEW items \in Seq(ItemSet),
         children' = Written(d, items), owner' = owner,
         \A i \in DOMAIN items :
           \/ items[i].child = d
           \/ \E w \in pending : w.item = items[i] /\ owner[w.handle] = d,
         \A w \in pending' \ pending :
           /\ w.item.kind \in {"startup", "submit"}
           /\ w.item.child \in 1 .. Len(children)
           /\ owner[w.handle] = w.item.child
  PROVE  InputInv'
<1>1. /\ DOMAIN children = 1 .. Len(children) /\ Len(children) \in Nat
      /\ \A g \in 1 .. Len(children) : children[g].input \in Seq(ItemSet)
  BY ChildTyped
<1>2. /\ children' \in Seq(Child) /\ Len(children') = Len(children)
      /\ \A g \in 1 .. Len(children) :
           children'[g].input =
             IF g = d THEN children[g].input \o items ELSE children[g].input
  BY WrittenTyped
<1>3. DOMAIN children' = 1 .. Len(children)
  BY <1>2
<1>4. \A c : PipeGone(c)' <=> PipeGone(c)
  BY DEF PipeGone
<1>5. ASSUME NEW g \in 1 .. Len(children), NEW item \in ToSet(children'[g].input)
      PROVE  RightOrLate(item, g)'
  <2>1. CASE item \in ToSet(children[g].input)
    <3>1. RightOrLate(item, g)
      BY <1>1, <2>1 DEF InputInv
    <3> QED BY <1>2, <1>4, <3>1 DEF RightOrLate
  <2>2. CASE item \notin ToSet(children[g].input)
    <3>1. g = d
      BY <1>2, <1>5, <2>2
    <3>2. \E i \in DOMAIN items : item = items[i]
      <4>0. item \in ToSet(children[g].input \o items)
        BY <1>2, <1>5, <3>1
      <4>1. PICK j \in DOMAIN (children[g].input \o items) :
              item = (children[g].input \o items)[j]
        BY <4>0 DEF ToSet
      <4>2. children[g].input \in Seq(ItemSet)
        BY <1>1
      <4>3. CASE j \in 1 .. Len(children[g].input)
        <5>1. item = children[g].input[j] /\ j \in DOMAIN children[g].input
          BY <4>1, <4>2, <4>3
        <5> QED BY <2>2, <5>1 DEF ToSet
      <4>4. CASE j \notin 1 .. Len(children[g].input)
        <5>1. /\ j - Len(children[g].input) \in DOMAIN items
              /\ item = items[j - Len(children[g].input)]
          BY <4>1, <4>2, <4>4
        <5> QED BY <5>1
      <4> QED BY <4>3, <4>4
    <3>3. CASE item.child = d
      BY <1>2, <3>1, <3>3 DEF RightOrLate
    <3>4. CASE item.child # d
      <4>1. PICK w \in pending : w.item = item /\ owner[w.handle] = d
        BY <3>2, <3>4
      <4>2. Aimed(w)
        BY <4>1 DEF InputInv
      <4> QED BY <1>1, <1>2, <1>4, <3>1, <3>4, <4>1, <4>2 DEF Aimed, RightOrLate, NoChild
    <3> QED BY <3>3, <3>4
  <2> QED BY <2>1, <2>2
<1>6. ASSUME NEW w \in pending'
      PROVE  Aimed(w)'
  <2>1. CASE w \in pending
    <3>1. Aimed(w)
      BY <2>1 DEF InputInv
    <3> QED BY <1>2, <1>4, <3>1 DEF Aimed
  <2>2. CASE w \notin pending
    BY <1>2, <1>6, <2>2 DEF Aimed
  <2> QED BY <2>1, <2>2
<1> QED BY <1>3, <1>5, <1>6 DEF InputInv

(* A step that concerns neither pipes nor input.                           *)
LEMMA InputKept ==
  ASSUME IInv, InputInv, owner' = owner, pending' = pending,
         DOMAIN children' = 1 .. Len(children), Len(children') = Len(children),
         \A g \in 1 .. Len(children) : children'[g].input = children[g].input
  PROVE  InputInv'
<1>1. Len(children) \in Nat
  BY ChildTyped
<1>2. \A h \in Handles : owner'[h] = owner[h]
  OBVIOUS
<1>3. \A g \in (Len(children) + 1) .. Len(children) : children'[g].input = <<>>
  BY <1>1
<1>4. pending' \ pending = {}
  OBVIOUS
<1>5. Len(children) >= Len(children)
  BY <1>1
<1> QED BY <1>1, <1>2, <1>3, <1>4, <1>5, PipesChanged

-----------------------------------------------------------------------------
LEMMA StartInput ==
  ASSUME IInv, InputInv, NEW s \in Sessions, NEW own, NEW cs, Clean(s, own, cs),
         NEW h \in Handles, Started(s, h, own, cs)
  PROVE  InputInv'
<1> DEFINE n == Len(children) + 1
<1>1. n \in Nat /\ Len(children) \in Nat /\ Len(cs) = Len(children) /\ cs \in Seq(Child)
  BY ChildTyped DEF Clean
<1>2. Spawned(s) \in Child /\ Spawned(s).input = <<>>
  BY DEF Spawned, Child
<1>3. children' = Append(cs, Spawned(s)) /\ owner' = [own EXCEPT ![h] = n]
  BY <1>1 DEF Started
<1>4. /\ DOMAIN children' = 1 .. n /\ Len(children') = n
      /\ children'[n] = Spawned(s)
      /\ \A g \in 1 .. Len(children) : children'[g] = cs[g]
  BY <1>1, <1>2, <1>3
<1>5. ASSUME NEW k \in Handles
      PROVE  \/ owner'[k] = owner[k] \/ owner'[k] = NoChild
             \/ owner'[k] \in (Len(children) + 1) .. n
  BY <1>1, <1>3 DEF Clean
<1>6. \A g \in 1 .. Len(children) : children'[g].input = children[g].input
  BY <1>4 DEF Clean
<1>7. \A g \in (Len(children) + 1) .. n : children'[g].input = <<>>
  BY <1>1, <1>2, <1>4
<1>8. ASSUME NEW w \in pending' \ pending
      PROVE  /\ w.item.kind \in {"startup", "submit"} /\ w.item.child \in 1 .. n
             /\ owner'[w.handle] = w.item.child
  <2>1. w = [handle |-> h, item |-> Item("startup", n, 0)]
    BY <1>1 DEF Started
  <2>2. owner'[h] = n
    BY <1>3 DEF Clean
  <2> QED BY <1>1, <2>1, <2>2 DEF Item
<1> QED BY <1>1, <1>4, <1>5, <1>6, <1>7, <1>8, PipesChanged

LEMMA EndInput ==
  ASSUME IInv, InputInv, NEW s \in Sessions, Clean(s, owner', children'),
         pending' = pending
  PROVE  InputInv'
<1>1. Len(children) \in Nat /\ Len(children') = Len(children)
      /\ DOMAIN children' = 1 .. Len(children)
  BY ChildTyped DEF Clean
<1>2. ASSUME NEW h \in Handles
      PROVE  owner'[h] = owner[h] \/ owner'[h] = NoChild
  BY DEF Clean
<1>3. \A g \in 1 .. Len(children) : children'[g].input = children[g].input
  BY DEF Clean
<1>4. \A g \in (Len(children) + 1) .. Len(children) : children'[g].input = <<>>
  BY <1>1
<1>5. pending' \ pending = {}
  OBVIOUS
<1>6. Len(children) >= Len(children)
  BY <1>1
<1> QED BY <1>1, <1>2, <1>3, <1>4, <1>5, <1>6, PipesChanged

LEMMA StepInput == IInv /\ InputInv /\ [Next]_vars => InputInv'
<1> SUFFICES ASSUME IInv, InputInv, [Next]_vars PROVE InputInv'
  OBVIOUS
<1>0. /\ DOMAIN children = 1 .. Len(children) /\ Len(children) \in Nat
      /\ pending \in SUBSET [handle : Handles, item : ItemSet] /\ writes \in Nat
      /\ children \in Seq(Child) /\ owner \in [Handles -> 0 .. Len(children)]
  BY ChildTyped DEF IInv, Typing
<1>1. ASSUME NEW s \in Sessions, Spawn(s) PROVE InputInv'
  <2>1. Clean(s, owner, children)
    BY <1>1, AbsentClean DEF Spawn
  <2>2. ASSUME NEW h \in Handles, Started(s, h, owner, children) PROVE InputInv'
    BY <2>1, <2>2, StartInput
  <2>3. ASSUME StartFailed(s, owner, children) PROVE InputInv'
    BY <2>1, <2>3, EndInput DEF StartFailed
  <2> QED BY <1>1, <2>2, <2>3 DEF Spawn
<1>2. ASSUME NEW s \in Sessions, Restart(s) PROVE InputInv'
  <2>1. Clean(s, Closed(s), Killed(s))
    BY TornDownClean
  <2>2. ASSUME NEW h \in Handles, Started(s, h, Closed(s), Killed(s)) PROVE InputInv'
    BY <2>1, <2>2, StartInput
  <2>3. ASSUME StartFailed(s, Closed(s), Killed(s)) PROVE InputInv'
    BY <2>1, <2>3, EndInput DEF StartFailed
  <2> QED BY <1>2, <2>2, <2>3 DEF Restart
<1>3. ASSUME NEW s \in Sessions, Stop(s) PROVE InputInv'
  BY <1>3, TornDownClean, EndInput DEF Stop
<1>4. ASSUME NEW g \in DOMAIN children, Exit(g) PROVE InputInv'
  <2>1. children' = [children EXCEPT ![g] = [children[g] EXCEPT !.alive = FALSE]]
        /\ owner' = owner /\ pending' = pending
    BY <1>4 DEF Exit
  <2>2. DOMAIN children' = 1 .. Len(children) /\ Len(children') = Len(children)
    BY <1>0, <2>1
  <2>3. ASSUME NEW c \in 1 .. Len(children)
        PROVE  children'[c].input = children[c].input
    <3>1. children[c] \in Child
      BY ChildTyped
    <3>2. CASE c = g
      BY <1>0, <1>4, <2>1, <3>1, <3>2 DEF Child
    <3>3. CASE c # g
      BY <1>0, <2>1, <3>3
    <3> QED BY <3>2, <3>3
  <2> QED BY <2>1, <2>2, <2>3, InputKept
<1>5. ASSUME Tick PROVE InputInv'
  <2>1. owner' = owner /\ pending' = pending
    BY <1>5 DEF Tick
  <2>2. ASSUME NEW c \in 1 .. Len(children)
        PROVE  children'[c].input = children[c].input
    <3>1. children[c] \in Child
      BY ChildTyped
    <3> QED BY <1>0, <1>5, <3>1 DEF Tick, Child
  <2>3. DOMAIN children' = 1 .. Len(children) /\ Len(children') = Len(children)
    <3>1. IInv'
      BY <1>5, TickSound
    <3>2. children' \in Seq(Child)
      BY <3>1 DEF IInv, Typing
    <3>3. DOMAIN children' = 1 .. Len(children)
      BY <1>0, <1>5 DEF Tick
    <3> QED BY <1>0, <3>2, <3>3
  <2> QED BY <2>1, <2>2, <2>3, InputKept
<1>6. ASSUME NEW s \in Sessions, Send(s) \/ PromptNow(s) \/ PromptDelayed(s)
      PROVE  InputInv'
  <2> DEFINE g == ChildOf(s)
  <2>1. /\ pty[s] # NoHandle /\ owner' = owner
    BY <1>6 DEF Send, PromptNow, PromptDelayed
  <2>2. /\ pty[s] \in Handles /\ g = owner[pty[s]]
        /\ g \in 1 .. Len(children) /\ g \in Nat
    BY <1>0, <2>1, Held
  <2>3. \A kind \in Kinds : /\ Item(kind, g, writes + 1) \in ItemSet
                            /\ Item(kind, g, writes + 1).child = g
                            /\ Item(kind, g, writes + 1).kind = kind
    BY <1>0, <2>2 DEF Item, ItemSet
  <2>4. {"text", "body", "submit"} \subseteq Kinds
    BY DEF Kinds
  <2>5. CASE Send(s)
    <3>1. <<Item("text", g, writes + 1)>> \in Seq(ItemSet)
      BY <2>3, <2>4
    <3>2. children' = Written(g, <<Item("text", g, writes + 1)>>) /\ pending' = pending
      BY <2>5 DEF Send
    <3>3. \A i \in DOMAIN <<Item("text", g, writes + 1)>> :
            <<Item("text", g, writes + 1)>>[i].child = g
      BY <2>3, <2>4
    <3>4. pending' \ pending = {}
      BY <3>2
    <3> QED BY <2>1, <2>2, <3>1, <3>2, <3>3, <3>4, ItemsWritten
  <2>6. CASE PromptNow(s)
    <3>1. /\ BodyAndSubmit(g, writes + 1) \in Seq(ItemSet)
          /\ \A i \in DOMAIN BodyAndSubmit(g, writes + 1) :
               BodyAndSubmit(g, writes + 1)[i].child = g
      BY <2>3, <2>4 DEF BodyAndSubmit
    <3>2. children' = Written(g, BodyAndSubmit(g, writes + 1)) /\ pending' = pending
      BY <2>6 DEF PromptNow
    <3>3. pending' \ pending = {}
      BY <3>2
    <3> QED BY <2>1, <2>2, <3>1, <3>2, <3>3, ItemsWritten
  <2>7. CASE PromptDelayed(s)
    <3>1. <<Item("body", g, writes + 1)>> \in Seq(ItemSet)
      BY <2>3, <2>4
    <3>2. /\ children' = Written(g, <<Item("body", g, writes + 1)>>)
          /\ pending' = pending \cup
               {[handle |-> pty[s], item |-> Item("submit", g, writes + 1)]}
      BY <2>7 DEF PromptDelayed
    <3>3. ASSUME NEW w \in pending' \ pending
          PROVE  /\ w.item.kind \in {"startup", "submit"}
                 /\ w.item.child \in 1 .. Len(children)
                 /\ owner[w.handle] = w.item.child
      <4>1. w = [handle |-> pty[s], item |-> Item("submit", g, writes + 1)]
        BY <3>2
      <4> QED BY <2>2, <2>3, <2>4, <4>1
    <3>4. \A i \in DOMAIN <<Item("body", g, writes + 1)>> :
            <<Item("body", g, writes + 1)>>[i].child = g
      BY <2>3, <2>4
    <3> QED BY <2>1, <2>2, <3>1, <3>2, <3>3, <3>4, ItemsWritten
  <2> QED BY <1>6, <2>5, <2>6, <2>7
<1>7. ASSUME NEW w \in pending, WriteLate(w) PROVE InputInv'
  <2>1. /\ children' = Written(owner[w.handle], <<w.item>>)
        /\ owner' = owner /\ pending' \subseteq pending
    BY <1>7 DEF WriteLate, Destination
  <2>2. owner[w.handle] \in Nat /\ <<w.item>> \in Seq(ItemSet)
    BY <1>0
  <2>3. ASSUME NEW i \in DOMAIN <<w.item>>
        PROVE  \E v \in pending : v.item = <<w.item>>[i] /\ owner[v.handle] = owner[w.handle]
    <3>1. w.item = <<w.item>>[i]
      OBVIOUS
    <3> QED BY <3>1
  <2>4. pending' \ pending = {}
    BY <2>1
  <2> QED BY <2>1, <2>2, <2>3, <2>4, ItemsWritten
<1>8. CASE UNCHANGED vars
  BY <1>8 DEF vars, InputInv, RightOrLate, Aimed, PipeGone
<1> QED BY <1>1, <1>2, <1>3, <1>4, <1>5, <1>6, <1>7, <1>8 DEF Next

(* Input is only ever misdirected by a delayed write (the submit of        *)
(* schedule_write_input or the typed startup command) that slept while the *)
(* pipe of its child was closed, and then reaches a child started later.   *)
THEOREM StraysAreLateWrites == Spec => []StraysOnlyAfterClose
<1>1. Init => IInv /\ InputInv
  BY InitSound, InitInput
<1>2. (IInv /\ InputInv) /\ [Next]_vars => (IInv /\ InputInv)'
  BY StepSound, StepInput
<1>3. InputInv => StraysOnlyAfterClose
  BY InputInvMeans
<1> QED BY <1>1, <1>2, <1>3, PTL DEF Spec

-----------------------------------------------------------------------------
(* Commands.                                                               *)

Stages == {"new", "polling", "opening", "greeting", "waiting", "following",
           "ended", "deciding", "stopping"}

Serving == {h \in Hosts : host[h] = "serving"}

LifeTyping ==
  /\ host \in [Hosts -> HostPhases]
  /\ pid \in Hosts \cup {None}
  /\ free \subseteq Serving
  /\ crossed \subseteq Hosts
  /\ link \in [Commands -> Hosts \cup {None}]
  /\ stage \in [Commands \cup Stops -> Stages]
  /\ code \in [Commands \cup Stops -> Nat]
  /\ victim \in [Stops -> Hosts \cup {None}]

(* A connection leads to a host that lives; a command that has not looked  *)
(* for a host has not started one; a stop that decides has somebody in     *)
(* mind.                                                                   *)
Wired ==
  /\ \A c \in Commands : link[c] # None => host[link[c]] \in {"serving", "leaving", "exiting"}
  /\ \A c \in Commands : stage[c] = "new" => host[c] = "unborn"
  /\ \A s \in Stops : stage[s] = "deciding" => victim[s] # None

(* OneServes, without counting.                                            *)
Alone == bare \/ \A h \in Serving, k \in Serving : h = k

(* What makes PidFileKept inductive: a host whose start met nobody has the *)
(* file to itself from its first look at it, and its name in it from the   *)
(* moment it has written it.                                               *)
Undisturbed == \A h \in Entered \ crossed : Entered = {h}
PidWritten == \A h \in Hosts \ crossed : host[h] \in {"binding", "serving"} => pid = h

LifeInv == LifeTyping /\ Wired /\ Alone /\ Undisturbed /\ PidWritten

Answers == {"done", "refused", "unmatched"}
Entry == [step : Nat, outcome : Answers]

CmdTyping ==
  /\ plan \in [Commands -> UNION {Plans[c] : c \in Commands}]
  /\ at \in [Commands -> Nat]
  /\ wire \in [Commands -> {"quiet", "hello", "welcome", "asked"} \cup Answers]
  /\ log \in [Commands -> Seq(Entry)]

(* CodeTells, of one command.                                              *)
Tells(c) ==
  LET n == Len(log[c])
  IN /\ code[c] \in {Success, NotFound, 4, Lost, TimedOut}
     /\ code[c] = Success => n = Len(Steps(c)) /\ Passed(c, n)
     /\ code[c] = NotFound => n = at[c] /\ Passed(c, n - 1) /\ Did(c, n) = "refused"
     /\ code[c] = 4 => n = 0
     /\ code[c] \in {Lost, TimedOut} => n \in {at[c] - 1, at[c]} /\ Passed(c, at[c] - 1)

(* What makes ExitsTell inductive: how far the log is, by the frame on the *)
(* wire and the stage of the command.  Only a command that timed out can   *)
(* have ended with its request still on the way.                           *)
Progress(c) ==
  /\ at[c] \in 1 .. Len(Steps(c))
  /\ \A i \in DOMAIN log[c] : log[c][i].step = i
  /\ stage[c] \in {"new", "polling", "opening", "greeting"} =>
       at[c] = 1 /\ log[c] = <<>> /\ wire[c] \in {"quiet", "hello", "welcome"}
  /\ stage[c] = "waiting" => wire[c] \in {"asked"} \cup Answers /\ Passed(c, at[c] - 1)
  /\ stage[c] = "following" => plan[c].tool = "follow" /\ wire[c] = "quiet"
  /\ wire[c] = "asked" => Len(log[c]) = at[c] - 1
  /\ wire[c] \in Answers => Len(log[c]) = at[c] /\ Did(c, at[c]) = wire[c]
  /\ stage[c] = "ended" =>
       /\ wire[c] = "asked" => code[c] = TimedOut
       /\ plan[c].tool # "follow" => Tells(c)

CmdInv == CmdTyping /\ \A c \in Commands : Progress(c)

-----------------------------------------------------------------------------
(* The life of the hosts *)

(* A command that has an instance goes on by itself.                       *)
Talks(c) ==
  /\ stage[c] \in {"greeting", "waiting", "following"}
  /\ \E to \in {"waiting", "following"} : Goes(c, to)
     \/ \E n \in Nat : Ends(c, n)
  /\ UNCHANGED <<hostVars, link, victim>>

LifeNext ==
  \/ \E h \in Hosts : HostStep(h)
  \/ \E s \in Stops : StopStep(s)
  \/ \E c \in Commands : Connecting(c) \/ Open(c) \/ Hangup(c) \/ Talks(c)

LEMMA InitLife == LifeInit => LifeInv
<1> SUFFICES ASSUME LifeInit PROVE LifeInv
  OBVIOUS
<1>1. Serving = {} /\ Entered = {}
  BY DEF LifeInit, Serving, Entered, Alive
<1>2. LifeTyping
  BY <1>1 DEF LifeInit, LifeTyping, HostPhases, Stages
<1>3. Wired /\ Alone /\ Undisturbed /\ PidWritten
  BY <1>1, Apart DEF LifeInit, Wired, Alone, Undisturbed, PidWritten, Hosts
<1> QED BY <1>2, <1>3 DEF LifeInv

(* The system closes what a dead process had: nobody else loses anything.  *)
LEMMA DeathKeeps ==
  ASSUME LifeInv, NEW h \in Hosts, Dies(h), Alive(h), UNCHANGED <<pid, bare>>
  PROVE  /\ host' \in [Hosts -> HostPhases] /\ free' \subseteq Serving'
         /\ crossed' \subseteq Hosts /\ link' \in [Commands -> Hosts \cup {None}]
         /\ \A c \in Commands : link'[c] # None => host'[link'[c]] \in {"serving", "leaving", "exiting"}
         /\ \A c \in Commands : host[c] = "unborn" => host'[c] = "unborn"
         /\ Alone' /\ Undisturbed' /\ PidWritten'
<1> USE DEF LifeInv, LifeTyping
<1>1. /\ host' = [host EXCEPT ![h] = "gone"] /\ host' \in [Hosts -> HostPhases]
      /\ crossed' = crossed \ {h} /\ free' = free \ {h}
      /\ link' = [c \in Commands |-> IF link[c] = h THEN None ELSE link[c]]
  BY DEF Dies, Moves, HostPhases
<1>2. Serving' = Serving \ {h} /\ Entered' = Entered \ {h}
  BY <1>1 DEF Serving, Entered, Alive
<1>3. /\ free' \subseteq Serving' /\ crossed' \subseteq Hosts
      /\ link' \in [Commands -> Hosts \cup {None}]
  BY <1>1, <1>2
<1>4. ASSUME NEW c \in Commands, link'[c] # None
      PROVE  host'[link'[c]] \in {"serving", "leaving", "exiting"}
  BY <1>1, <1>4 DEF Wired
<1>5. \A c \in Commands : host[c] = "unborn" => host'[c] = "unborn"
  BY <1>1 DEF Alive, Hosts
<1>6. Alone'
  BY <1>2 DEF Alone
<1>7. Undisturbed'
  BY <1>1, <1>2 DEF Undisturbed
<1>8. PidWritten'
  BY <1>1, <1>2 DEF PidWritten
<1> QED BY <1>1, <1>3, <1>4, <1>5, <1>6, <1>7, <1>8

LEMMA HostStepKeeps ==
  ASSUME LifeInv, NEW h \in Hosts, HostStep(h)
  PROVE  LifeInv'
<1> USE DEF LifeInv, LifeTyping
<1>1. CASE Probe(h)
  <2> USE DEF Probe, Moves
  <2>1. LifeTyping'
    BY <1>1 DEF Serving, HostPhases, Entered
  <2> HIDE DEF LifeTyping
  <2>4. Wired'
    BY <1>1 DEF LifeTyping, Wired, HostPhases, Hosts
  <2>2. Alone'
    BY <1>1 DEF LifeTyping, Alone, Serving
  <2>3. Undisturbed' /\ PidWritten'
    BY <1>1 DEF LifeTyping, Undisturbed, PidWritten, Entered, Alive
  <2> QED BY <2>1, <2>2, <2>3, <2>4
<1>2. CASE ReadPid(h)
  BY <1>2 DEF ReadPid, Moves, Wired, Serving, HostPhases, Alone, Undisturbed, PidWritten, Entered, Alive
<1>3. CASE CleanStalePid(h)
  BY <1>3 DEF CleanStalePid, Moves, Wired, Serving, HostPhases, Alone, Undisturbed, PidWritten, Entered, Alive
<1>4. CASE WritePid(h)
  BY <1>4 DEF WritePid, Moves, Wired, Serving, HostPhases, Alone, Undisturbed, PidWritten, Entered, Alive
<1>5. CASE Bind(h)
  <2> USE DEF Bind, Moves
  <2>1. LifeTyping' /\ Wired'
    BY <1>5 DEF Wired, Serving, HostPhases, Hosts
  <2>2. Alone'
    BY <1>5 DEF CanBind, Alone, Serving
  <2>3. Undisturbed' /\ PidWritten'
    BY <1>5 DEF Undisturbed, PidWritten, Entered, Alive
  <2> QED BY <2>1, <2>2, <2>3
<1>6. CASE NextInstance(h)
  BY <1>6 DEF NextInstance, Wired, Serving, HostPhases, Alone, Undisturbed, PidWritten, Entered, Alive
<1>7. CASE Shutdown(h)
  BY <1>7 DEF Shutdown, Moves, Wired, Serving, HostPhases, Alone, Undisturbed, PidWritten, Entered, Alive
<1>8. CASE RemovePid(h)
  BY <1>8 DEF RemovePid, Moves, Wired, Serving, HostPhases, Alone, Undisturbed, PidWritten, Entered, Alive
<1>9. CASE HostExit(h) \/ Crash(h)
  <2>1. Dies(h) /\ Alive(h) /\ UNCHANGED <<pid, bare>> /\ UNCHANGED <<stage, code, victim>>
    BY <1>9 DEF HostExit, Crash, Alive
  <2> QED BY <2>1, DeathKeeps DEF Wired
<1> QED BY <1>1, <1>2, <1>3, <1>4, <1>5, <1>6, <1>7, <1>8, <1>9 DEF HostStep

LEMMA StopStepKeeps ==
  ASSUME LifeInv, NEW s \in Stops, StopStep(s)
  PROVE  LifeInv'
<1> USE DEF LifeInv, LifeTyping
<1>1. CASE StopReads(s)
  BY <1>1, Apart DEF StopReads, hostVars, Goes, Ends, Stages, Wired, Serving, Alone, Undisturbed, PidWritten, Entered, Alive
<1>2. CASE StopDecides(s) /\ ~Alive(victim[s])
  BY <1>2, Apart DEF StopDecides, Ends, Stages, Wired, Serving, Alone, Undisturbed, PidWritten, Entered, Alive
<1>3. CASE StopDecides(s) /\ Alive(victim[s])
  <2>1. /\ victim[s] \in Hosts
        /\ Dies(victim[s]) /\ Goes(s, "stopping") /\ UNCHANGED <<pid, bare>>
        /\ victim' = [victim EXCEPT ![s] = None] /\ stage[s] = "deciding"
    BY <1>3 DEF StopDecides, Wired
  <2> QED BY <1>3, <2>1, DeathKeeps, Apart DEF Wired, Goes, Stages
<1>4. CASE StopMisses(s) \/ StopGivesUp(s)
  BY <1>4, Apart DEF StopMisses, StopGivesUp, hostVars, Ends, Stages, Wired, Serving, Alone, Undisturbed, PidWritten, Entered, Alive
<1>5. CASE StopConfirms(s)
  BY <1>5, Apart DEF StopConfirms, Ends, Stages, Wired, Serving, Alone, Undisturbed, PidWritten, Entered, Alive
<1> QED BY <1>1, <1>2, <1>3, <1>4, <1>5 DEF StopStep, StopDecides

LEMMA CommandStepKeeps ==
  ASSUME LifeInv, NEW c \in Commands, Connecting(c) \/ Open(c) \/ Hangup(c) \/ Talks(c)
  PROVE  LifeInv'
<1> USE DEF LifeInv, LifeTyping
<1>1. CASE EnsureHost(c)
  BY <1>1, Apart DEF EnsureHost, Moves, Goes, Stages, HostPhases, Hosts, Wired, Serving, Alone, Undisturbed, PidWritten, Entered, Alive
<1>2. CASE Poll(c) \/ StartupTimeout(c)
  BY <1>2, Apart DEF Poll, StartupTimeout, hostVars, Goes, Ends, Stages, Hosts, Wired, Serving, Alone, Undisturbed, PidWritten, Entered, Alive
<1>3. CASE Open(c)
  BY <1>3, Apart DEF Open, Goes, Stages, Hosts, Wired, Serving, Alone, Undisturbed, PidWritten, Entered, Alive
<1>4. CASE Hangup(c)
  BY <1>4, Apart DEF Hangup, Hosts, Wired, Serving, Alone, Undisturbed, PidWritten, Entered, Alive
<1>5. CASE Talks(c)
  BY <1>5, Apart DEF Talks, hostVars, Goes, Ends, Stages, Hosts, Wired, Serving, Alone, Undisturbed, PidWritten, Entered, Alive
<1> QED BY <1>1, <1>2, <1>3, <1>4, <1>5 DEF Connecting

-----------------------------------------------------------------------------
(* What a command knows *)

LEMMA PlanOf ==
  ASSUME CmdTyping, NEW c \in Commands
  PROVE  /\ Len(Steps(c)) \in Nat \ {0}
         /\ DOMAIN Steps(c) = 1 .. Len(Steps(c))
         /\ plan[c].tool = "ask" => Len(Steps(c)) = 3
         /\ plan[c].tool = "follow" => Len(Steps(c)) = 1
<1>1. plan[c] \in UNION {Plans[d] : d \in Commands}
  BY DEF CmdTyping
<1>2. /\ plan[c].steps # <<>> /\ plan[c].steps \in Seq(Requests)
      /\ plan[c].tool = "ask" => plan[c].steps = <<"prompt", "wait", "capture">>
      /\ plan[c].tool = "follow" => plan[c].steps = <<"follow">>
  BY <1>1, PlansAreAskable
<1>3. Len(plan[c].steps) # 0
  BY <1>2
<1>4. /\ Len(plan[c].steps) \in Nat
      /\ DOMAIN plan[c].steps = 1 .. Len(plan[c].steps)
  BY <1>2
<1>5. /\ Len(<<"prompt", "wait", "capture">>) = 3
      /\ Len(<<"follow">>) = 1
  OBVIOUS
<1> QED BY <1>2, <1>3, <1>4, <1>5 DEF Steps

LEMMA LogOf ==
  ASSUME CmdTyping, NEW c \in Commands
  PROVE  /\ log[c] \in Seq(Entry) /\ Len(log[c]) \in Nat
         /\ DOMAIN log[c] = 1 .. Len(log[c]) /\ at[c] \in Nat
         /\ \A i \in 1 .. Len(log[c]) : log[c][i] \in Entry
BY DEF CmdTyping

(* A command whose own state stands still keeps what is said of it.        *)
LEMMA ProgressKept ==
  ASSUME NEW c \in Commands, Progress(c),
         plan'[c] = plan[c], at'[c] = at[c], wire'[c] = wire[c],
         log'[c] = log[c], stage'[c] = stage[c], code'[c] = code[c]
  PROVE  Progress(c)'
BY DEF Progress, Tells, Passed, Passes, Did, Steps

LEMMA OthersKeep ==
  ASSUME CmdInv, NEW c \in Commands, plan' = plan,
         \A d \in Commands \ {c} :
           /\ at'[d] = at[d] /\ wire'[d] = wire[d] /\ log'[d] = log[d]
           /\ stage'[d] = stage[d] /\ code'[d] = code[d],
         CmdTyping', Progress(c)'
  PROVE  CmdInv'
<1>1. ASSUME NEW d \in Commands \ {c} PROVE Progress(d)'
  BY ProgressKept DEF CmdInv
<1> QED BY <1>1 DEF CmdInv

LEMMA InitCmd == CommandsInit => CmdInv
<1> SUFFICES ASSUME CommandsInit PROVE CmdInv
  OBVIOUS
<1>1. CmdTyping
  BY DEF CommandsInit, CmdTyping
<1>2. ASSUME NEW c \in Commands PROVE Progress(c)
  <2>1. at[c] = 1 /\ log[c] = <<>> /\ wire[c] = "quiet" /\ stage[c] = "new"
    BY DEF CommandsInit, LifeInit
  <2> QED BY <2>1, <1>1, PlanOf DEF Progress, Answers
<1> QED BY <1>1, <1>2 DEF CmdInv

(* The host and stop steps leave the commands alone.                       *)
LEMMA ElsewhereKeeps ==
  ASSUME LifeInv, CmdInv, UNCHANGED cmdVars,
         \/ \E h \in Hosts : HostStep(h)
         \/ \E s \in Stops : StopStep(s)
  PROVE  CmdInv'
<1>1. \A c \in Commands : stage'[c] = stage[c] /\ code'[c] = code[c]
  <2>1. CASE \E h \in Hosts : HostStep(h)
    BY <2>1 DEF HostStep, Probe, ReadPid, CleanStalePid, WritePid, Bind, NextInstance,
      Shutdown, RemovePid, HostExit, Crash
  <2>2. CASE \E s \in Stops : StopStep(s)
    <3>1. PICK s \in Stops : StopStep(s)
      BY <2>2
    <3>2. \/ Goes(s, "deciding") \/ Goes(s, "stopping") \/ \E n \in Nat : Ends(s, n)
      BY <3>1 DEF StopStep, StopReads, StopDecides, StopMisses, StopConfirms, StopGivesUp
    <3> QED BY <3>2, Apart DEF Goes, Ends, LifeInv, LifeTyping
  <2> QED BY <2>1, <2>2
<1>2. ASSUME NEW c \in Commands PROVE Progress(c)'
  BY <1>1, ProgressKept DEF CmdInv, cmdVars
<1>3. CmdTyping'
  BY DEF CmdInv, CmdTyping, cmdVars
<1> QED BY <1>2, <1>3 DEF CmdInv

(* On the way to a greeting nothing is asked of any host.                  *)
LEMMA ConnectingKeeps ==
  ASSUME LifeInv, CmdInv, NEW c \in Commands,
         (Connecting(c) /\ UNCHANGED cmdVars) \/ Hello(c)
  PROVE  CmdInv'
<1> USE DEF CmdInv, LifeInv
<1>1. /\ Progress(c) /\ CmdTyping /\ stage[c] \in {"new", "polling", "opening"}
      /\ UNCHANGED <<plan, at, log>>
  BY DEF Connecting, EnsureHost, Poll, StartupTimeout, Hello, Open, cmdVars
<1>2. /\ wire' = wire \/ wire' = [wire EXCEPT ![c] = "hello"]
      /\ CmdTyping'
  BY <1>1 DEF CmdTyping, Hello, cmdVars
<1>3. at[c] = 1 /\ log[c] = <<>> /\ wire[c] \in {"quiet", "hello", "welcome"}
  BY <1>1 DEF Progress
<1>4. /\ wire'[c] \in {"quiet", "hello", "welcome"}
      /\ \A d \in Commands \ {c} : wire'[d] = wire[d]
  BY <1>1, <1>2, <1>3 DEF CmdTyping
<1>5. \/ stage'[c] \in {"polling", "opening", "greeting"}
      \/ stage'[c] = "ended" /\ code'[c] = 4
  BY <1>1 DEF Connecting, EnsureHost, Poll, StartupTimeout, Hello, Open, Goes, Ends, LifeTyping
<1>6. \A d \in Commands \ {c} : stage'[d] = stage[d] /\ code'[d] = code[d]
  BY DEF Connecting, EnsureHost, Poll, StartupTimeout, Hello, Open, Goes, Ends, LifeTyping
<1>7. Progress(c)'
  BY <1>1, <1>3, <1>4, <1>5
  DEF Progress, Tells, Answers, Success, NotFound, Lost, TimedOut, Steps
<1> QED BY <1>1, <1>2, <1>4, <1>6, <1>7, OthersKeep

LEMMA GreetKeeps ==
  ASSUME LifeInv, CmdInv, NEW c \in Commands, Greet(c) \/ HangsUp(c)
  PROVE  CmdInv'
<1> USE DEF CmdInv, LifeInv
<1>1. /\ UNCHANGED <<plan, at, log, stage, code>> /\ CmdTyping /\ Progress(c)
      /\ wire[c] # "asked"
      /\ \/ wire[c] = "hello" /\ wire' = [wire EXCEPT ![c] = "welcome"]
         \/ stage[c] = "ended" /\ wire' = [wire EXCEPT ![c] = "quiet"]
  BY DEF Greet, HangsUp, Hangup, lifeVars
<1>2. CmdTyping'
  BY <1>1 DEF CmdTyping
<1>3. Progress(c)'
  <2>1. /\ wire'[c] \in {"quiet", "welcome"}
        /\ wire[c] # "hello" => stage[c] = "ended"
    BY <1>1 DEF CmdTyping
  <2>2. Passed(c, at[c] - 1)' <=> Passed(c, at[c] - 1)
    BY <1>1 DEF Passed, Passes, Did
  <2>3. Tells(c)' <=> Tells(c)
    BY <1>1 DEF Tells, Passed, Passes, Did, Steps
  <2>4. stage[c] \notin {"waiting", "following"}
    BY <1>1, <2>1 DEF Progress, Answers
  <2> QED BY <1>1, <2>1, <2>2, <2>3, <2>4 DEF Progress, Steps, Answers
<1> QED BY <1>1, <1>2, <1>3, OthersKeep DEF CmdTyping

(* The log grows by the step that was asked, whoever still waits for it.   *)
LEMMA HandleKeeps ==
  ASSUME LifeInv, CmdInv, NEW c \in Commands, Handle(c)
  PROVE  CmdInv'
<1> USE DEF CmdInv, LifeInv
<1>1. PICK outcome \in Answers :
        /\ wire' = [wire EXCEPT ![c] = outcome]
        /\ log' = [log EXCEPT ![c] = Append(@, [step |-> at[c], outcome |-> outcome])]
  BY DEF Handle, Outcomes, Answers
<1>2. /\ UNCHANGED <<plan, at, stage, code>> /\ CmdTyping /\ Progress(c)
      /\ wire[c] = "asked" /\ Len(log[c]) = at[c] - 1
  BY DEF Handle, lifeVars, Progress
<1> DEFINE new == [step |-> at[c], outcome |-> outcome]
<1>3. /\ new \in Entry /\ log'[c] = Append(log[c], new) /\ wire'[c] = outcome
  BY <1>1, <1>2 DEF CmdTyping, Entry
<1>4. CmdTyping'
  <2>1. Append(log[c], new) \in Seq(Entry)
    BY <1>3, LogOf, <1>2
  <2> QED BY <2>1, <1>1, <1>2 DEF CmdTyping
<1> HIDE DEF new
<1>5. /\ Len(log'[c]) = at[c] /\ DOMAIN log'[c] = 1 .. at[c] /\ log'[c][at[c]] = new
      /\ \A i \in 1 .. at[c] - 1 : log'[c][i] = log[c][i]
  BY <1>2, <1>3, LogOf
<1>6. new.step = at[c] /\ new.outcome = outcome
  BY DEF new
<1>7. Passed(c, at[c] - 1)' <=> Passed(c, at[c] - 1)
  BY <1>2, <1>5 DEF Passed, Passes, Did
<1>8. Progress(c)'
  BY <1>2, <1>3, <1>5, <1>6, <1>7, LogOf
  DEF Progress, Tells, Did, Answers, Steps, Success, NotFound, Lost, TimedOut
<1> QED BY <1>1, <1>2, <1>4, <1>8, OthersKeep DEF CmdTyping

LEMMA WelcomedKeeps ==
  ASSUME LifeInv, CmdInv, NEW c \in Commands, Welcomed(c)
  PROVE  CmdInv'
<1> USE DEF CmdInv, LifeInv
<1>1. /\ UNCHANGED <<plan, at, log, code>> /\ CmdTyping /\ Progress(c)
      /\ stage[c] = "greeting" /\ stage' = [stage EXCEPT ![c] = "waiting"]
      /\ wire' = [wire EXCEPT ![c] = "asked"]
  BY DEF Welcomed, Goes
<1>2. CmdTyping'
  BY <1>1 DEF CmdTyping
<1>3. /\ wire'[c] = "asked" /\ stage'[c] = "waiting"
      /\ \A d \in Commands \ {c} : wire'[d] = wire[d] /\ stage'[d] = stage[d]
  BY <1>1 DEF CmdTyping, LifeTyping
<1>4. at[c] = 1 /\ log[c] = <<>>
  BY <1>1 DEF Progress
<1>5. Passed(c, at[c] - 1)'
  BY <1>1, <1>4 DEF Passed
<1>6. Progress(c)'
  BY <1>1, <1>3, <1>4, <1>5 DEF Progress, Steps, Answers
<1> QED BY <1>1, <1>2, <1>3, <1>6, OthersKeep

(* An answer ends the command, or lets it go on to the next step: it has   *)
(* then passed the one it asked for.                                       *)
LEMMA AnsweredKeeps ==
  ASSUME LifeInv, CmdInv, NEW c \in Commands, Answered(c)
  PROVE  CmdInv'
<1> USE DEF CmdInv, LifeInv
<1>1. /\ UNCHANGED <<plan, log>> /\ CmdTyping /\ Progress(c)
      /\ stage[c] = "waiting" /\ wire[c] \in Answers
      /\ Len(log[c]) = at[c] /\ Did(c, at[c]) = wire[c]
      /\ Passed(c, at[c] - 1) /\ at[c] \in 1 .. Len(Steps(c))
      /\ Len(Steps(c)) \in Nat
  BY PlanOf DEF Answered, Progress, Answers
<1>2. ExitCode(c, wire[c]) \in {Success, NotFound, TimedOut}
  BY <1>1 DEF ExitCode, Answers
<1>3. ~Stopping(c) => Passes(c, at[c])
  BY <1>1 DEF Stopping, Unread, ExitCode, Answers, Passes, Success, NotFound, TimedOut
<1>4. ~Stopping(c) => Passed(c, at[c])
  BY <1>1, <1>3 DEF Passed
<1>5. Stopping(c) => \/ ExitCode(c, wire[c]) = NotFound /\ wire[c] = "refused"
                     \/ ExitCode(c, wire[c]) = TimedOut
  BY <1>1 DEF Stopping, ExitCode, Answers, Success, NotFound, TimedOut
<1>6. Unread(c) => at[c] # Len(Steps(c))
  <2>1. Unread(c) => plan[c].tool = "ask" /\ at[c] = 1
    BY DEF Unread
  <2>2. plan[c].tool = "ask" => Len(Steps(c)) = 3
    BY <1>1, PlanOf
  <2>3. Unread(c) => at[c] = 1 /\ Len(Steps(c)) = 3
    BY <2>1, <2>2
  <2>4. 1 # 3
    OBVIOUS
  <2> QED BY <2>3, <2>4, Zenon
<1>7. \A n : Passed(c, n)' <=> Passed(c, n)
  BY <1>1 DEF Passed, Passes, Did
<1>8. CASE Stopping(c) \/ at[c] = Len(Steps(c))
  <2>1. /\ UNCHANGED at /\ wire' = [wire EXCEPT ![c] = "quiet"]
        /\ \/ /\ plan[c].tool = "follow"
              /\ stage' = [stage EXCEPT ![c] = "following"] /\ code' = code
           \/ /\ stage' = [stage EXCEPT ![c] = "ended"]
              /\ code' = [code EXCEPT ![c] = ExitCode(c, wire[c])]
    BY <1>8 DEF Answered, Goes, Ends
  <2>2. CmdTyping'
    BY <1>1, <2>1 DEF CmdTyping
  <2>3. wire'[c] = "quiet"
    BY <2>1, <1>1 DEF CmdTyping
  <2>6. \/ stage'[c] = "following" /\ plan[c].tool = "follow"
        \/ stage'[c] = "ended" /\ code'[c] = ExitCode(c, wire[c])
    BY <2>1 DEF LifeTyping
  <2>7. \A d \in Commands \ {c} :
          wire'[d] = wire[d] /\ stage'[d] = stage[d] /\ code'[d] = code[d]
    BY <2>1, <1>1 DEF CmdTyping, LifeTyping
  <2>4. ASSUME stage'[c] = "ended" PROVE Tells(c)'
    <3>1. code'[c] = ExitCode(c, wire[c])
      BY <2>6, <2>4
    <3>2. CASE Stopping(c)
      BY <3>1, <3>2, <1>1, <1>5, <1>7, <2>1
      DEF Tells, Did, Success, NotFound, Lost, TimedOut, Steps
    <3>3. CASE ~Stopping(c)
      <4>1. code'[c] = Success /\ at[c] = Len(Steps(c))
        BY <3>1, <3>3, <1>6, <1>8 DEF Stopping
      <4> QED BY <4>1, <3>3, <1>1, <1>4, <1>7, <2>1
          DEF Tells, Success, NotFound, Lost, TimedOut, Steps
    <3> QED BY <3>2, <3>3
  <2>5. Progress(c)'
    BY <1>1, <2>1, <2>3, <2>4, <2>6 DEF Progress, Steps, Answers
  <2> QED BY <1>1, <2>1, <2>2, <2>5, <2>7, OthersKeep DEF CmdTyping
<1>9. CASE ~Stopping(c) /\ at[c] # Len(Steps(c))
  <2>1. /\ at' = [at EXCEPT ![c] = @ + 1] /\ wire' = [wire EXCEPT ![c] = "asked"]
        /\ stage' = [stage EXCEPT ![c] = "waiting"] /\ code' = code
    BY <1>9 DEF Answered, Goes
  <2>2. CmdTyping'
    <3>1. at[c] + 1 \in Nat
      BY <1>1, LogOf
    <3> QED BY <1>1, <2>1, <3>1 DEF CmdTyping
  <2>3. /\ wire'[c] = "asked" /\ stage'[c] = "waiting" /\ at'[c] = at[c] + 1
        /\ \A d \in Commands \ {c} :
             at'[d] = at[d] /\ wire'[d] = wire[d] /\ stage'[d] = stage[d]
    BY <2>1, <1>1 DEF CmdTyping, LifeTyping
  <2>4. Passed(c, at[c] - 1)'
    <3>1. at'[c] - 1 = at[c]
      BY <1>1, <2>3
    <3>2. \A i \in 1 .. at[c] : Passes(c, i)'
      BY <1>1, <1>4, <1>9 DEF Passed, Passes, Did
    <3> QED BY <3>1, <3>2 DEF Passed
  <2>5. Progress(c)'
    BY <1>1, <1>9, <2>3, <2>4 DEF Progress, Steps, Answers
  <2> QED BY <1>1, <2>1, <2>2, <2>3, <2>5, OthersKeep
<1> QED BY <1>8, <1>9

(* The ways a command ends without an answer.                              *)
LEMMA GivingUpKeeps ==
  ASSUME LifeInv, CmdInv, NEW c \in Commands,
         ConnectionLost(c) \/ RequestTimeout(c) \/ Interrupt(c)
  PROVE  CmdInv'
<1> USE DEF CmdInv, LifeInv
<1>1. /\ UNCHANGED <<plan, at, log>> /\ CmdTyping /\ Progress(c)
      /\ stage[c] \in {"greeting", "waiting", "following"}
      /\ \/ /\ wire' = [wire EXCEPT ![c] = "quiet"] /\ Ends(c, Lost)
         \/ /\ wire' = wire /\ Ends(c, TimedOut) /\ stage[c] # "following"
         \/ /\ wire' = wire /\ Ends(c, Success) /\ stage[c] = "following"
  BY DEF ConnectionLost, RequestTimeout, Interrupt, Timed, cmdVars
<1>2. CmdTyping'
  BY <1>1 DEF CmdTyping
<1>3. /\ stage'[c] = "ended"
      /\ \/ wire'[c] = "quiet" /\ code'[c] = Lost
         \/ wire'[c] = wire[c] /\ code'[c] = TimedOut /\ stage[c] # "following"
         \/ wire'[c] = wire[c] /\ code'[c] = Success /\ stage[c] = "following"
      /\ \A d \in Commands \ {c} :
           wire'[d] = wire[d] /\ stage'[d] = stage[d] /\ code'[d] = code[d]
  BY <1>1 DEF CmdTyping, LifeTyping, Ends
<1>4. ASSUME stage[c] # "following"
      PROVE  Len(log[c]) \in {at[c] - 1, at[c]} /\ Passed(c, at[c] - 1)
  <2>1. CASE stage[c] = "greeting"
    BY <2>1, <1>1 DEF Progress, Passed
  <2>2. CASE stage[c] = "waiting"
    BY <2>2, <1>1 DEF Progress
  <2> QED BY <2>1, <2>2, <1>1, <1>4
<1>5. \A n : Passed(c, n)' <=> Passed(c, n)
  BY <1>1 DEF Passed, Passes, Did
<1>6. plan[c].tool # "follow" => Tells(c)'
  BY <1>1, <1>3, <1>4, <1>5 DEF Tells, Progress, Success, NotFound, Lost, TimedOut
<1>7. Progress(c)'
  BY <1>1, <1>3, <1>6 DEF Progress, Did, Steps, Answers
<1> QED BY <1>1, <1>2, <1>3, <1>7, OthersKeep DEF CmdTyping

-----------------------------------------------------------------------------
LEMMA StepKeeps ==
  ASSUME LifeInv, CmdInv, CommandsNext
  PROVE  LifeInv' /\ CmdInv'
<1>1. CASE \E h \in Hosts : HostStep(h) /\ UNCHANGED cmdVars
  BY <1>1, HostStepKeeps, ElsewhereKeeps
<1>2. CASE \E s \in Stops : StopStep(s) /\ UNCHANGED cmdVars
  BY <1>2, StopStepKeeps, ElsewhereKeeps
<1>3. ASSUME NEW c \in Commands, CommandStep(c) \/ Interrupt(c) \/ Greet(c) \/ Handle(c) \/ HangsUp(c)
      PROVE  LifeInv' /\ CmdInv'
  <2>1. CASE Connecting(c) /\ UNCHANGED cmdVars
    BY <2>1, CommandStepKeeps, ConnectingKeeps
  <2>2. CASE Hello(c)
    BY <2>2, CommandStepKeeps, ConnectingKeeps DEF Hello
  <2>3. CASE Welcomed(c)
    BY <2>3, CommandStepKeeps, WelcomedKeeps DEF Welcomed, Talks
  <2>4. CASE Answered(c)
    <3>1. Talks(c)
      BY <2>4 DEF Answered, Talks, ExitCode, Success, NotFound, TimedOut
    <3> QED BY <3>1, <2>4, CommandStepKeeps, AnsweredKeeps
  <2>5. CASE ConnectionLost(c) \/ RequestTimeout(c) \/ Interrupt(c)
    <3>1. Talks(c)
      BY <2>5 DEF ConnectionLost, RequestTimeout, Interrupt, Timed, Talks, Success, Lost, TimedOut
    <3> QED BY <3>1, <2>5, CommandStepKeeps, GivingUpKeeps
  <2>6. CASE Greet(c) \/ Handle(c)
    <3>1. LifeInv'
      BY <2>6 DEF Greet, Handle, lifeVars, LifeInv, LifeTyping, Wired, Alone, Undisturbed,
        PidWritten, Serving, Entered, Alive
    <3> QED BY <3>1, <2>6, GreetKeeps, HandleKeeps
  <2>7. CASE HangsUp(c)
    BY <2>7, CommandStepKeeps, GreetKeeps DEF HangsUp
  <2> QED BY <1>3, <2>1, <2>2, <2>3, <2>4, <2>5, <2>6, <2>7 DEF CommandStep
<1> QED BY <1>1, <1>2, <1>3 DEF CommandsNext

LEMMA StutterKeeps ==
  ASSUME LifeInv, CmdInv, UNCHANGED commandsVars
  PROVE  LifeInv' /\ CmdInv'
<1>1. LifeInv'
  BY DEF commandsVars, lifeVars, LifeInv, LifeTyping, Wired, Alone, Undisturbed, PidWritten,
    Serving, Entered, Alive
<1>2. ASSUME NEW c \in Commands PROVE Progress(c)'
  BY ProgressKept DEF commandsVars, lifeVars, cmdVars, CmdInv
<1> QED BY <1>1, <1>2 DEF commandsVars, cmdVars, CmdInv, CmdTyping

(* The inductive invariant holds of every behaviour.                       *)
THEOREM CommandsInvariant == CommandsSpec => [](LifeInv /\ CmdInv)
<1>1. CommandsInit => LifeInv /\ CmdInv
  BY InitLife, InitCmd DEF CommandsInit
<1>2. LifeInv /\ CmdInv /\ [CommandsNext]_commandsVars => (LifeInv /\ CmdInv)'
  BY StepKeeps, StutterKeeps
<1> QED BY <1>1, <1>2, PTL DEF CommandsSpec

(* At most one host serves, unless one was without any instance of its     *)
(* pipe for a moment, and host.pid names it, unless its start met another  *)
(* host or a stop: for any number of commands and stops.                   *)
THEOREM OneHostHolds == CommandsSpec => []OneHost
<1>1. LifeInv => OneHost
  <2> SUFFICES ASSUME LifeInv PROVE OneHost
    OBVIOUS
  <2>1. PidFileKept
    BY DEF LifeInv, PidWritten, PidFileKept
  <2>2. ASSUME ~bare PROVE Cardinality(Serving) <= 1
    <3>1. CASE Serving = {}
      BY <3>1, FS_EmptySet
    <3>2. CASE Serving # {}
      <4>1. PICK h \in Serving : Serving = {h}
        BY <3>2, <2>2 DEF LifeInv, Alone
      <4> QED BY <4>1, FS_Singleton
    <3> QED BY <3>1, <3>2
  <2> QED BY <2>1, <2>2 DEF OneHost, OneServes, Serving
<1> QED BY <1>1, CommandsInvariant, PTL

(* An exit code tells how far the plan of its command got, and the host    *)
(* carries out the steps of a command in order and each at most once: for  *)
(* any plans, however many requests are lost on the way.                   *)
THEOREM ExitsTellHolds == CommandsSpec => []ExitsTell
<1>1. LifeInv /\ CmdInv => ExitsTell
  <2> SUFFICES ASSUME LifeInv, CmdInv PROVE ExitsTell
    OBVIOUS
  <2>1. Sound
    BY PlanOf DEF Sound, LifeInv, LifeTyping, Wired, Serving, CmdInv, Progress
  <2>2. InOrderOnce
    BY DEF InOrderOnce, CmdInv, Progress
  <2>3. ASSUME NEW c \in Commands, stage[c] = "ended", plan[c].tool # "follow"
        PROVE  Tells(c)
    BY <2>3 DEF CmdInv, Progress
  <2>4. CodeTells
    BY <2>3 DEF CodeTells, Tells, Success, NotFound, Lost, TimedOut
  <2> QED BY <2>1, <2>2, <2>4 DEF ExitsTell
<1> QED BY <1>1, CommandsInvariant, PTL

=============================================================================
