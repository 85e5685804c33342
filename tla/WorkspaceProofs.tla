--------------------------- MODULE WorkspaceProofs ---------------------------
(***************************************************************************)
(* Proofs about module Workspace, for every set of definitions and every   *)
(* bound: layouts stay sound and sessions are not shared; and, of who owns *)
(* which session, that ids are never reused, that recreate() builds a      *)
(* workspace in which panes and sessions match one to one, and that two    *)
(* kinds of step only can break that match.                                *)
(***************************************************************************)
EXTENDS Workspace, TLAPS, WellFoundedInduction

PositiveNat == Nat \ {0}

(* One tab's layout: its type, and the conjunct of LayoutsSound about it.  *)
Sound(t) ==
  t.panes # {} =>
    /\ t.focus \in t.panes
    /\ t.zoomed \in t.panes \cup {NoPane}
    /\ \A p \in t.panes : p < t.next

-----------------------------------------------------------------------------
(* The operations on one layout.                                           *)

LEMMA AssignedSound ==
  ASSUME NEW ids \in SUBSET Layout!PaneIds, NEW last \in Nat,
         \A p \in ids : p <= last, NEW f \in ids
  PROVE  /\ Layout!Assigned(ids, last, f) \in Layout!Layouts
         /\ Sound(Layout!Assigned(ids, last, f))
BY DEF Layout!Assigned, Layout!Layouts, Layout!PaneIds, Layout!NoPane,
       NoPane, Sound

LEMMA SplitSound ==
  ASSUME NEW t \in Layout!Layouts, t.panes # {}, Sound(t)
  PROVE  /\ Layout!Split(t) \in Layout!Layouts
         /\ Sound(Layout!Split(t))
<1>1. /\ t.next \in Nat \ {0} /\ t.panes \subseteq Nat \ {0}
      /\ t.focus \in Nat \ {0} /\ t.zoomed \in Nat
  BY DEF Layout!Layouts, Layout!PaneIds
<1>2. PICK u : u = Layout!Split(t)
  OBVIOUS
<1>3. /\ u.panes = t.panes \cup {t.next} /\ u.next = t.next + 1
      /\ u.focus = t.focus /\ u.zoomed = t.zoomed
  BY <1>2 DEF Layout!Split, Layout!Layouts
<1>4. u \in Layout!Layouts
  <2>1. u = [panes |-> u.panes, focus |-> u.focus, zoomed |-> u.zoomed,
             next |-> u.next]
    BY <1>2 DEF Layout!Split, Layout!Layouts
  <2>2. /\ u.panes \in SUBSET (Nat \ {0}) /\ u.focus \in Nat \ {0}
        /\ u.zoomed \in Nat /\ u.next \in Nat \ {0}
    BY <1>1, <1>3
  <2> QED BY <2>1, <2>2 DEF Layout!Layouts, Layout!PaneIds
<1>5. Sound(u)
  BY <1>1, <1>3 DEF Sound
<1> QED BY <1>2, <1>4, <1>5

LEMMA CloseSound ==
  ASSUME NEW t \in Layout!Layouts, Sound(t), NEW p \in t.panes,
         NEW u \in Layout!CloseResults(t, p)
  PROVE  u \in Layout!Layouts /\ Sound(u)
<1>1. CASE t.panes = {p}
  <2>1. u = [panes |-> {}, focus |-> t.focus, next |-> t.next,
             zoomed |-> IF t.zoomed = p THEN Layout!NoPane ELSE t.zoomed]
    BY <1>1 DEF Layout!CloseResults, Layout!ClosedLast, Layout!Layouts
  <2> QED BY <2>1 DEF Layout!Layouts, Layout!NoPane, Sound
<1>2. CASE t.panes # {p}
  <2>1. PICK f \in t.panes \ {p} : u = Layout!Closed(t, p, f)
    BY <1>2 DEF Layout!CloseResults
  <2>2. u = [panes |-> t.panes \ {p},
             focus |-> IF t.focus = p THEN f ELSE t.focus,
             zoomed |-> IF t.zoomed = p THEN NoPane ELSE t.zoomed,
             next |-> t.next]
    BY <2>1 DEF Layout!Closed, Layout!Layouts, NoPane
  <2>3. u \in Layout!Layouts
    BY <2>2 DEF Layout!Layouts, Layout!PaneIds, Layout!NoPane, NoPane
  <2>4. Sound(u)
    BY <2>2 DEF Sound
  <2> QED BY <2>3, <2>4
<1> QED BY <1>1, <1>2

LEMMA FocusedSound ==
  ASSUME NEW t \in Layout!Layouts, Sound(t), NEW p \in t.panes
  PROVE  Layout!Focused(t, p) \in Layout!Layouts /\ Sound(Layout!Focused(t, p))
BY DEF Layout!Focused, Layout!Layouts, Layout!PaneIds, Layout!NoPane,
       NoPane, Sound

LEMMA ZoomToggledSound ==
  ASSUME NEW t \in Layout!Layouts, Sound(t)
  PROVE  Layout!ZoomToggled(t) \in Layout!Layouts /\ Sound(Layout!ZoomToggled(t))
BY DEF Layout!ZoomToggled, Layout!Layouts, Layout!PaneIds, Layout!NoPane,
       NoPane, Sound

-----------------------------------------------------------------------------
(* What a definition is built into.                                        *)

LEMMA DefinitionFacts ==
  ASSUME NEW d \in Definitions
  PROVE  /\ d \in Seq(Nat) /\ Len(d) \in PositiveNat
         /\ \A i \in 1 .. Len(d) : d[i] \in PositiveNat /\ d[i] <= PaneCount(d)
         /\ PaneCount(d) \in PositiveNat
         /\ \A i, j \in 1 .. Len(d) : i < j => d[i] < d[j]
<1> USE DEF PositiveNat
<1>1. /\ d \in Seq(Nat \ {0}) /\ d # <<>>
      /\ \A i, j \in 1..Len(d) : i < j => d[i] < d[j]
  BY DefinitionsAssumption
<1>2. Len(d) \in Nat \ {0}
  BY <1>1
<1>3. \A i \in 1 .. Len(d) : d[i] \in Nat \ {0} /\ d[i] <= PaneCount(d)
  BY <1>1, <1>2 DEF PaneCount
<1>4. PaneCount(d) \in Nat \ {0}
  BY <1>1, <1>2 DEF PaneCount
<1> QED BY <1>1, <1>2, <1>3, <1>4

LEMMA BuiltTabsSound ==
  ASSUME NEW d \in Definitions, NEW base \in PositiveNat,
         NEW focus \in Focuses(d, base)
  PROVE  /\ BuiltTabs(d, base, focus) \in Seq(Layout!Layouts)
         /\ \A i \in DOMAIN BuiltTabs(d, base, focus) :
              Sound(BuiltTabs(d, base, focus)[i])
<1> USE DEF PositiveNat
<1>1. ASSUME NEW i \in 1 .. Len(d)
      PROVE  LET t == Layout!Assigned(Block(d, i, base), base + d[i] - 1, focus[i])
             IN  t \in Layout!Layouts /\ Sound(t)
  <2>1. d[i] \in Nat \ {0} /\ (i # 1 => d[i-1] \in Nat)
    <3>1. i # 1 => i - 1 \in 1 .. Len(d)
      BY DefinitionFacts
    <3> QED BY <3>1, DefinitionFacts
  <2>2. Block(d, i, base) \in SUBSET Layout!PaneIds
    BY <2>1 DEF Block, Layout!PaneIds
  <2>3. \A p \in Block(d, i, base) : p <= base + d[i] - 1
    BY <2>1 DEF Block
  <2>4. focus[i] \in Block(d, i, base)
    BY DEF Focuses
  <2>5. base + d[i] - 1 \in Nat
    BY <2>1
  <2> QED BY <2>2, <2>3, <2>4, <2>5, AssignedSound
<1>2. Len(d) \in Nat
  BY DefinitionFacts
<1> QED BY <1>1, <1>2 DEF BuiltTabs

-----------------------------------------------------------------------------
(* The records and the sessions.                                           *)

(* The conjuncts of the invariant about the pane records r, the sessions   *)
(* map m and the next session id n.                                        *)
SoundRecords(r, n) ==
  /\ n \in PositiveNat
  /\ \A p \in DOMAIN r : p \in Layout!PaneIds /\ r[p] \in Nat /\ r[p] < n
  /\ \A p, q \in DOMAIN r : r[p] # NoSession /\ r[p] = r[q] => p = q

SoundSessions(m, n) ==
  \A s \in DOMAIN m : s \in PositiveNat /\ s < n /\ m[s] \in SessionStates

LEMMA BuiltRecordsSound ==
  ASSUME NEW d \in Definitions, NEW base \in PositiveNat,
         NEW first \in PositiveNat, NEW last \in Nat, first - 1 <= last,
         NEW sid \in SessionIds(d, base, first, last),
         NEW failed \in SUBSET (first .. last)
  PROVE  /\ SoundRecords(BuiltRecords(sid, failed), last + 1)
         /\ SoundSessions(BuiltSessions(first, last, failed), last + 1)
<1> USE DEF PositiveNat
<1>1. /\ DOMAIN sid = base .. (base + PaneCount(d) - 1)
      /\ \A p \in DOMAIN sid : sid[p] \in Nat /\ sid[p] <= last
      /\ InOrder(sid, first, last)
  BY DEF SessionIds, NoSession
<1>2. PaneCount(d) \in Nat \ {0}
  BY DefinitionFacts
<1>3. DOMAIN sid \subseteq Nat \ {0}
  BY <1>1, <1>2
<1>4. \A p, q \in DOMAIN sid :
        sid[p] # NoSession /\ sid[p] = sid[q] => p = q
  BY <1>1, <1>3 DEF InOrder
<1>5. SoundRecords(BuiltRecords(sid, failed), last + 1)
  BY <1>1, <1>3, <1>4
  DEF SoundRecords, BuiltRecords, NoSession, Layout!PaneIds
<1>6. SoundSessions(BuiltSessions(first, last, failed), last + 1)
  BY DEF SoundSessions, BuiltSessions, SessionStates
<1> QED BY <1>5, <1>6

LEMMA WithoutSound ==
  ASSUME NEW r, NEW m, NEW n, NEW K,
         SoundRecords(r, n), SoundSessions(m, n)
  PROVE  SoundRecords(Without(r, K), n) /\ SoundSessions(Without(m, K), n)
BY DEF SoundRecords, SoundSessions, Without

LEMMA StoppedForSound ==
  ASSUME NEW p, SoundSessions(sess, nextSession)
  PROVE  /\ SoundSessions(StoppedFor(p), nextSession)
         /\ DOMAIN StoppedFor(p) \subseteq DOMAIN sess
BY DEF SoundSessions, StoppedFor, Without

LEMMA SpawnSound ==
  ASSUME NEW p \in Layout!PaneIds, NEW S, NEW outcome \in Outcomes,
         SoundRecords(rec, nextSession), SoundSessions(S, nextSession),
         Spawn(p, S, outcome)
  PROVE  /\ SoundRecords(rec', nextSession')
         /\ SoundSessions(sess', nextSession')
<1> USE DEF PositiveNat
<1>1. nextSession \in Nat \ {0}
  BY DEF SoundRecords
<1>2. CASE outcome = "Unresolved"
  <2>1. rec' = With(rec, p, NoSession) /\ sess' = S /\ nextSession' = nextSession
    BY <1>2 DEF Spawn
  <2> QED BY <1>1, <2>1 DEF SoundRecords, With, NoSession
<1>3. CASE outcome # "Unresolved"
  <2>1. PICK v \in SessionStates :
          /\ sess' = With(S, nextSession, v)
          /\ nextSession' = nextSession + 1
    BY <1>3 DEF Spawn, SessionStates
  <2>2. SoundSessions(sess', nextSession')
    BY <1>1, <2>1 DEF SoundSessions, With
  <2>3. PICK s \in {NoSession, nextSession} : rec' = With(rec, p, s)
    BY DEF Spawn
  <2>4. SoundRecords(rec', nextSession')
    BY <1>1, <2>1, <2>3 DEF SoundRecords, With, NoSession
  <2> QED BY <2>2, <2>4
<1> QED BY <1>2, <1>3

-----------------------------------------------------------------------------
(* The invariant: TypeOK, LayoutsSound and SessionsNotShared need each     *)
(* other, and together they are inductive.  Parts regroups them by the     *)
(* variables an action changes together.                                   *)
IInv == TypeOK /\ LayoutsSound /\ SessionsNotShared

SoundTabs(ts) ==
  ts \in Seq(Layout!Layouts) /\ \A i \in DOMAIN ts : Sound(ts[i])

Parts ==
  /\ state \in {"Creating", "Active", "Closed"}
  /\ SoundTabs(tabs)
  /\ active \in Nat
  /\ nextPane \in PositiveNat
  /\ SoundRecords(rec, nextSession)
  /\ SoundSessions(sess, nextSession)

LEMMA IInvParts == IInv <=> Parts
<1> USE DEF PositiveNat
<1>1. ASSUME IInv PROVE Parts
  <2>1. SoundTabs(tabs)
    BY <1>1 DEF IInv, TypeOK, LayoutsSound, SoundTabs, Sound
  <2>2. SoundRecords(rec, nextSession)
    BY <1>1 DEF IInv, TypeOK, SessionsNotShared, Attached, SoundRecords, NoSession
  <2>3. SoundSessions(sess, nextSession)
    BY <1>1 DEF IInv, TypeOK, SessionsNotShared, SoundSessions, NoSession
  <2> QED BY <1>1, <2>1, <2>2, <2>3 DEF IInv, TypeOK, Parts, Layout!PaneIds
<1>2. ASSUME Parts PROVE IInv
  <2>1. TypeOK
    BY <1>2 DEF Parts, TypeOK, SoundTabs, SoundRecords, SoundSessions,
                NoSession, Layout!PaneIds
  <2>2. LayoutsSound
    BY <1>2 DEF Parts, LayoutsSound, SoundTabs, Sound
  <2>3. SessionsNotShared
    BY <1>2 DEF Parts, SessionsNotShared, Attached, SoundRecords, SoundSessions
  <2> QED BY <2>1, <2>2, <2>3 DEF IInv
<1> QED BY <1>1, <1>2

LEMMA ReplacedSound ==
  ASSUME SoundTabs(tabs), NEW i \in DOMAIN tabs, NEW t \in Layout!Layouts,
         Sound(t), tabs' = [tabs EXCEPT ![i] = t]
  PROVE  SoundTabs(tabs')
BY DEF SoundTabs

LEMMA InitSound == Init => IInv
<1> SUFFICES ASSUME Init PROVE Parts
  BY IInvParts
<1>1. PICK d \in Definitions :
        /\ \E last \in 0 .. MaxSessionId :
           \E sid \in SessionIds(d, 1, 1, last) :
           \E failed \in SUBSET (1 .. last) :
             /\ rec = BuiltRecords(sid, failed)
             /\ sess = BuiltSessions(1, last, failed)
             /\ nextSession = last + 1
        /\ \E focus \in Focuses(d, 1) : tabs = BuiltTabs(d, 1, focus)
        /\ nextPane = PaneCount(d) + 1
  BY DEF Init
<1>2. 1 \in PositiveNat /\ PaneCount(d) \in PositiveNat
  BY DefinitionFacts DEF PositiveNat
<1>3. SoundTabs(tabs)
  BY <1>1, <1>2, BuiltTabsSound DEF SoundTabs
<1>4. SoundRecords(rec, nextSession) /\ SoundSessions(sess, nextSession)
  <2>1. PICK last \in 0 .. MaxSessionId :
          \E sid \in SessionIds(d, 1, 1, last) :
          \E failed \in SUBSET (1 .. last) :
            /\ rec = BuiltRecords(sid, failed)
            /\ sess = BuiltSessions(1, last, failed)
            /\ nextSession = last + 1
    BY <1>1
  <2>2. PICK sid \in SessionIds(d, 1, 1, last), failed \in SUBSET (1 .. last) :
          /\ rec = BuiltRecords(sid, failed)
          /\ sess = BuiltSessions(1, last, failed)
          /\ nextSession = last + 1
    BY <2>1
  <2>3. last \in Nat /\ 1 - 1 <= last
    BY BoundsAssumption
  <2> QED BY <1>2, <2>2, <2>3, BuiltRecordsSound
<1> QED BY <1>1, <1>2, <1>3, <1>4 DEF Init, Parts, PositiveNat

-----------------------------------------------------------------------------
(* Every step keeps the invariant.                                         *)

LEMMA TabStepSound == Parts /\ TabStep => Parts'
<1> SUFFICES ASSUME Parts, TabStep PROVE Parts'
  OBVIOUS
<1> USE DEF Parts, PositiveNat
<1>1. ASSUME NEW outcome \in Outcomes, NewTab(outcome) PROVE Parts'
  <2> DEFINE t == Layout!Assigned({nextPane}, nextPane, nextPane)
  <2>1. t \in Layout!Layouts /\ Sound(t)
    <3>1. /\ {nextPane} \in SUBSET Layout!PaneIds /\ nextPane \in Nat
          /\ \A p \in {nextPane} : p <= nextPane
      BY DEF Layout!PaneIds
    <3> QED BY <3>1, AssignedSound
  <2>2. tabs' = Append(tabs, t) /\ active' = Len(tabs)
    BY <1>1 DEF NewTab
  <2>3. SoundTabs(tabs') /\ active' \in Nat
    <3>1. tabs \in Seq(Layout!Layouts) /\ \A i \in DOMAIN tabs : Sound(tabs[i])
      BY DEF SoundTabs
    <3>2. tabs' \in Seq(Layout!Layouts) /\ Len(tabs') = Len(tabs) + 1
      BY <2>1, <2>2, <3>1
    <3>3. \A i \in DOMAIN tabs' : Sound(tabs'[i])
      BY <2>1, <2>2, <3>1, <3>2
    <3>4. active' \in Nat
      BY <2>2, <3>1
    <3>5. SoundTabs(tabs')
      BY <3>2, <3>3 DEF SoundTabs
    <3> QED BY <3>4, <3>5
  <2>4. SoundRecords(rec', nextSession') /\ SoundSessions(sess', nextSession')
    <3>1. nextPane \in Layout!PaneIds /\ Spawn(nextPane, sess, outcome)
      BY <1>1 DEF NewTab, Layout!PaneIds
    <3> QED BY <3>1, SpawnSound
  <2> QED BY <1>1, <2>3, <2>4 DEF NewTab
<1>2. CASE NextTab
  <2>1. Len(tabs) \in Nat \ {0}
    BY <1>2 DEF NextTab, SoundTabs
  <2>2. active' \in Nat
    BY <1>2, <2>1 DEF NextTab
  <2> QED BY <1>2, <2>2 DEF NextTab
<1>3. CASE PrevTab
  <2>1. Len(tabs) \in Nat \ {0}
    BY <1>3 DEF PrevTab, SoundTabs
  <2>2. active' \in Nat
    BY <1>3, <2>1 DEF PrevTab
  <2> QED BY <1>3, <2>2 DEF PrevTab
<1>4. ASSUME NEW i \in 0 .. MaxTabs, GotoTab(i) PROVE Parts'
  BY <1>4, BoundsAssumption DEF GotoTab
<1>5. CASE CloseTab
  <2>1. PICK index \in Nat : RemoveActiveTab(index)
    <3>1. Len(tabs) \in Nat /\ Len(tabs) > 1
      BY <1>5 DEF CloseTab, SoundTabs
    <3> QED BY <1>5, <3>1 DEF CloseTab
  <2>2. SoundTabs(tabs')
    <3>1. Len(tabs) \in Nat /\ Len(tabs) > 1
      BY <1>5 DEF CloseTab, SoundTabs
    <3>2. \A i \in 1 .. (Len(tabs) - 1) : i \in DOMAIN tabs /\ i + 1 \in DOMAIN tabs
      BY <3>1 DEF SoundTabs
    <3>3. tabs' = [i \in 1 .. (Len(tabs) - 1) |->
                     IF i < ActiveTab THEN tabs[i] ELSE tabs[i+1]]
      BY <2>1 DEF RemoveActiveTab
    <3>4. \A i \in 1 .. (Len(tabs) - 1) :
            tabs'[i] \in Layout!Layouts /\ Sound(tabs'[i])
      BY <3>2, <3>3 DEF SoundTabs
    <3> QED BY <3>1, <3>3, <3>4 DEF SoundTabs
  <2>3. SoundRecords(rec', nextSession) /\ SoundSessions(sess', nextSession)
    BY <2>1, WithoutSound DEF RemoveActiveTab
  <2> QED BY <2>1, <2>2, <2>3 DEF RemoveActiveTab
<1> QED BY <1>1, <1>2, <1>3, <1>4, <1>5 DEF TabStep

LEMMA PaneStepSound == Parts /\ PaneStep => Parts'
<1> SUFFICES ASSUME Parts, PaneStep PROVE Parts'
  OBVIOUS
<1> USE DEF Parts, PositiveNat
<1>1. ASSUME NEW target \in Targets, NEW outcome \in Outcomes,
             SplitPane(target, outcome)
      PROVE  Parts'
  <2>1. PICK i \in DOMAIN tabs :
          /\ FindsIn(Resolved(target), i)
          /\ tabs' = [tabs EXCEPT ![i] = Layout!Split(tabs[i])]
          /\ Spawn(tabs[i].next, sess, outcome)
    BY <1>1 DEF SplitPane
  <2>2. /\ tabs[i] \in Layout!Layouts /\ Sound(tabs[i])
        /\ tabs[i].panes # {} /\ tabs[i].next \in Layout!PaneIds
    <3>1. tabs[i] \in Layout!Layouts /\ Sound(tabs[i]) /\ tabs[i].panes # {}
      BY <2>1 DEF SoundTabs, FindsIn
    <3>2. tabs[i].next \in Layout!PaneIds
      BY <3>1 DEF Layout!Layouts
    <3> QED BY <3>1, <3>2
  <2>3. SoundTabs(tabs')
    BY <2>1, <2>2, SplitSound, ReplacedSound
  <2>4. SoundRecords(rec', nextSession') /\ SoundSessions(sess', nextSession')
    BY <2>1, <2>2, SpawnSound
  <2> QED BY <1>1, <2>3, <2>4 DEF SplitPane
<1>2. ASSUME NEW target \in Targets, ClosePane(target) PROVE Parts'
  <2> DEFINE p == Resolved(target)
  <2>1. PICK i \in DOMAIN tabs :
          /\ FindsIn(p, i)
          /\ \E t \in Layout!CloseResults(tabs[i], p) :
               tabs' = [tabs EXCEPT ![i] = t]
    BY <1>2 DEF ClosePane
  <2>2. tabs[i] \in Layout!Layouts /\ Sound(tabs[i]) /\ p \in tabs[i].panes
    BY <2>1 DEF SoundTabs, FindsIn
  <2>3. SoundTabs(tabs')
    BY <2>1, <2>2, CloseSound, ReplacedSound
  <2>4. SoundRecords(rec', nextSession) /\ SoundSessions(sess', nextSession)
    BY <1>2, WithoutSound, StoppedForSound DEF ClosePane
  <2> QED BY <1>2, <2>3, <2>4 DEF ClosePane
<1>3. CASE ClosePanePanics
  BY <1>3, StoppedForSound DEF ClosePanePanics
<1>4. CASE MoveFocus
  <2>1. PICK p \in tabs[ActiveTab].panes :
          tabs' = [tabs EXCEPT ![ActiveTab] = Layout!Focused(tabs[ActiveTab], p)]
    BY <1>4 DEF MoveFocus
  <2>2. ActiveTab \in DOMAIN tabs
    BY <1>4 DEF MoveFocus, HasActiveTab
  <2>3. SoundTabs(tabs')
    BY <2>1, <2>2, FocusedSound, ReplacedSound DEF SoundTabs
  <2> QED BY <1>4, <2>3 DEF MoveFocus
<1>5. ASSUME NEW p \in DOMAIN rec, FocusPane(p) PROVE Parts'
  <2>1. PICK i \in DOMAIN tabs :
          /\ FindsIn(p, i)
          /\ tabs' = [tabs EXCEPT ![i] = Layout!Focused(tabs[i], p)]
    BY <1>5 DEF FocusPane
  <2>2. tabs[i] \in Layout!Layouts /\ Sound(tabs[i]) /\ p \in tabs[i].panes
    BY <2>1 DEF SoundTabs, FindsIn
  <2>3. SoundTabs(tabs')
    BY <2>1, <2>2, FocusedSound, ReplacedSound
  <2> QED BY <1>5, <2>3 DEF FocusPane
<1>6. CASE ZoomPane
  <2>1. ActiveTab \in DOMAIN tabs
    BY <1>6 DEF ZoomPane, HasActiveTab
  <2>2. tabs' = [tabs EXCEPT ![ActiveTab] = Layout!ZoomToggled(tabs[ActiveTab])]
    BY <1>6 DEF ZoomPane
  <2>3. SoundTabs(tabs')
    BY <2>1, <2>2, ZoomToggledSound, ReplacedSound DEF SoundTabs
  <2> QED BY <1>6, <2>3 DEF ZoomPane
<1>7. ASSUME NEW target \in Targets, NEW outcome \in Outcomes,
             ChangeProfile(target, outcome)
      PROVE  Parts'
  <2>1. PICK p : /\ p = IF target = NoPane THEN tabs[ActiveTab].focus ELSE target
                 /\ Spawn(p, StoppedFor(p), outcome)
    BY <1>7 DEF ChangeProfile
  <2>2. p \in Layout!PaneIds
    <3>1. CASE target = NoPane
      <4>1. ActiveTab \in DOMAIN tabs
        BY <1>7, <3>1 DEF ChangeProfile, HasActiveTab
      <4>2. tabs[ActiveTab] \in Layout!Layouts
        BY <4>1 DEF SoundTabs
      <4>3. tabs[ActiveTab].focus \in Layout!PaneIds
        BY <4>2 DEF Layout!Layouts
      <4> QED BY <2>1, <3>1, <4>3
    <3>2. CASE target # NoPane
      BY <2>1, <3>2 DEF Targets, SoundRecords
    <3> QED BY <3>1, <3>2
  <2>3. SoundRecords(rec', nextSession') /\ SoundSessions(sess', nextSession')
    BY <2>1, <2>2, StoppedForSound, SpawnSound
  <2> QED BY <1>7, <2>3 DEF ChangeProfile
<1>8. ASSUME NEW target \in Targets, NEW started \in BOOLEAN,
             RestartSession(target, started)
      PROVE  Parts'
  <2>1. PICK s \in DOMAIN sess, v \in SessionStates : sess' = [sess EXCEPT ![s] = v]
    BY <1>8 DEF RestartSession, SessionStates
  <2>2. SoundSessions(sess', nextSession)
    BY <2>1 DEF SoundSessions
  <2> QED BY <1>8, <2>2 DEF RestartSession
<1> QED BY <1>1, <1>2, <1>3, <1>4, <1>5, <1>6, <1>7, <1>8 DEF PaneStep

LEMMA PopulateSound ==
  ASSUME Parts, NEW d \in Definitions, Populate(d)
  PROVE  /\ state' = "Active"
         /\ SoundTabs(tabs')
         /\ nextPane' \in PositiveNat
         /\ SoundRecords(rec', nextSession')
         /\ SoundSessions(sess', nextSession')
<1> USE DEF PositiveNat
<1>1. nextPane \in PositiveNat /\ nextSession \in PositiveNat
  BY DEF Parts, SoundRecords
<1>2. PICK last \in (nextSession - 1) .. MaxSessionId :
        \E sid \in SessionIds(d, nextPane, nextSession, last) :
        \E failed \in SUBSET (nextSession .. last) :
          /\ rec' = BuiltRecords(sid, failed)
          /\ sess' = BuiltSessions(nextSession, last, failed)
          /\ nextSession' = last + 1
  BY DEF Populate, PopulateFrom
<1>3. PICK sid \in SessionIds(d, nextPane, nextSession, last),
           failed \in SUBSET (nextSession .. last) :
        /\ rec' = BuiltRecords(sid, failed)
        /\ sess' = BuiltSessions(nextSession, last, failed)
        /\ nextSession' = last + 1
  BY <1>2
<1>4. last \in Nat /\ nextSession - 1 <= last
  BY <1>1, BoundsAssumption
<1>5. SoundRecords(rec', nextSession') /\ SoundSessions(sess', nextSession')
  BY <1>1, <1>3, <1>4, BuiltRecordsSound
<1>6. PICK focus \in Focuses(d, nextPane) : tabs' = BuiltTabs(d, nextPane, focus)
  BY DEF Populate, PopulateFrom
<1>7. SoundTabs(tabs')
  BY <1>1, <1>6, BuiltTabsSound DEF SoundTabs
<1>8. nextPane' \in PositiveNat
  BY <1>1, DefinitionFacts DEF Populate, PopulateFrom
<1> QED BY <1>5, <1>7, <1>8 DEF Populate, PopulateFrom

LEMMA LifecycleStepSound == Parts /\ LifecycleStep => Parts'
<1> SUFFICES ASSUME Parts, LifecycleStep PROVE Parts'
  OBVIOUS
<1>1. ASSUME NEW d \in Definitions, Recreate(d) PROVE Parts'
  BY <1>1, PopulateSound DEF Recreate, Parts
<1>2. CASE RecreateFails
  BY <1>2 DEF RecreateFails, Parts, SoundTabs, SoundRecords, SoundSessions
<1>3. CASE Close
  BY <1>3 DEF Close, Parts, SoundTabs, SoundRecords, SoundSessions
<1> QED BY <1>1, <1>2, <1>3 DEF LifecycleStep

LEMMA StepSound == IInv /\ [Next]_vars => IInv'
<1>0. (IInv <=> Parts) /\ (IInv <=> Parts)'
  BY IInvParts, PTL
<1> SUFFICES ASSUME Parts, [Next]_vars PROVE Parts'
  BY <1>0
<1>1. CASE Next
  BY <1>1, TabStepSound, PaneStepSound, LifecycleStepSound DEF Next
<1>2. CASE UNCHANGED vars
  BY <1>2 DEF vars, Parts
<1> QED BY <1>1, <1>2

-----------------------------------------------------------------------------
(* The invariant holds in every reachable state, for every set of          *)
(* definitions and without any bound on ids: whatever clients ask for.     *)
THEOREM Invariance == Spec => []IInv
<1>1. Init => IInv
  BY InitSound
<1>2. IInv /\ [Next]_vars => IInv'
  BY StepSound
<1> QED BY <1>1, <1>2, PTL DEF Spec

(* Every variable keeps its type.                                          *)
THEOREM TypeCorrect == Spec => []TypeOK
<1>1. IInv => TypeOK
  BY DEF IInv
<1> QED BY <1>1, Invariance, PTL

(* No sequence of splits, closes, zooms and focus changes, in any tab,     *)
(* leaves a tab that has panes with its focus or its zoom elsewhere, or    *)
(* with a tree about to hand out an id it already has.                     *)
THEOREM LayoutsStaySound == Spec => []LayoutsSound
<1>1. IInv => LayoutsSound
  BY DEF IInv
<1> QED BY <1>1, Invariance, PTL

(* No two panes are ever attached to one session, though pane ids collide  *)
(* and records are overwritten.                                            *)
THEOREM SessionsNeverShared == Spec => []SessionsNotShared
<1>1. IInv => SessionsNotShared
  BY DEF IInv
<1> QED BY <1>1, Invariance, PTL

-----------------------------------------------------------------------------
(* Who owns which session.                                                 *)

LEMMA LeastElement ==
  ASSUME NEW T \in SUBSET Nat, T # {}
  PROVE  \E n \in T : \A m \in T : n <= m
<1> DEFINE R == {ss \in Nat \X Nat : ss[1] < ss[2]}
<1>1. R = OpToRel(<, Nat)
  BY DEF OpToRel
<1>2. IsWellFoundedOn(R, Nat)
  BY <1>1, NatLessThanWellFounded
<1>3. PICK n \in T : \A m \in T : ~ (<<m, n>> \in R)
  <2> HIDE DEF R
  <2> QED BY <1>2, WFMin
<1>4. \A m \in T : ~ (m < n)
  BY <1>3
<1> QED BY <1>4

-----------------------------------------------------------------------------
(* Session ids are handed out once.                                        *)

Fresh ==
  /\ nextSession <= nextSession'
  /\ \A s \in DOMAIN sess' \ DOMAIN sess :
       nextSession <= s /\ s < nextSession'

LEMMA SpawnFresh ==
  ASSUME Parts, NEW p, NEW S, DOMAIN S \subseteq DOMAIN sess,
         NEW outcome \in Outcomes, Spawn(p, S, outcome)
  PROVE  Fresh
<1>1. nextSession \in Nat
  BY DEF Parts, SoundRecords, PositiveNat
<1>2. CASE outcome = "Unresolved"
  BY <1>1, <1>2 DEF Spawn, Fresh
<1>3. CASE outcome # "Unresolved"
  <2>1. /\ DOMAIN sess' = DOMAIN S \cup {nextSession}
        /\ nextSession' = nextSession + 1
    BY <1>3 DEF Spawn, With
  <2> QED BY <1>1, <2>1 DEF Fresh
<1> QED BY <1>2, <1>3

LEMMA NoNewSessionFresh ==
  ASSUME Parts, DOMAIN sess' \subseteq DOMAIN sess, nextSession' = nextSession
  PROVE  Fresh
BY DEF Parts, SoundRecords, PositiveNat, Fresh

LEMMA StepFresh == Parts /\ [Next]_vars => Fresh
<1> SUFFICES ASSUME Parts, [Next]_vars PROVE Fresh
  OBVIOUS
<1>1. ASSUME NEW outcome \in Outcomes, NewTab(outcome) PROVE Fresh
  BY <1>1, SpawnFresh DEF NewTab
<1>2. CASE NextTab
  BY <1>2, NoNewSessionFresh DEF NextTab
<1>3. CASE PrevTab
  BY <1>3, NoNewSessionFresh DEF PrevTab
<1>4. ASSUME NEW i \in 0 .. MaxTabs, GotoTab(i) PROVE Fresh
  BY <1>4, NoNewSessionFresh DEF GotoTab
<1>5. CASE CloseTab
  BY <1>5, NoNewSessionFresh DEF CloseTab, RemoveActiveTab, Without
<1>6. ASSUME NEW target \in Targets, NEW outcome \in Outcomes,
             SplitPane(target, outcome)
      PROVE  Fresh
  BY <1>6, SpawnFresh DEF SplitPane
<1>7. ASSUME NEW target \in Targets, ClosePane(target) PROVE Fresh
  BY <1>7, NoNewSessionFresh, StoppedForSound DEF ClosePane, Parts
<1>8. CASE ClosePanePanics
  BY <1>8, NoNewSessionFresh, StoppedForSound DEF ClosePanePanics, Parts
<1>9. CASE MoveFocus
  BY <1>9, NoNewSessionFresh DEF MoveFocus
<1>10. ASSUME NEW p \in DOMAIN rec, FocusPane(p) PROVE Fresh
  BY <1>10, NoNewSessionFresh DEF FocusPane
<1>11. CASE ZoomPane
  BY <1>11, NoNewSessionFresh DEF ZoomPane
<1>12. ASSUME NEW target \in Targets, NEW outcome \in Outcomes,
              ChangeProfile(target, outcome)
       PROVE  Fresh
  BY <1>12, SpawnFresh, StoppedForSound DEF ChangeProfile, Parts
<1>13. ASSUME NEW target \in Targets, NEW started \in BOOLEAN,
              RestartSession(target, started)
       PROVE  Fresh
  BY <1>13, NoNewSessionFresh DEF RestartSession
<1>14. ASSUME NEW d \in Definitions, Recreate(d) PROVE Fresh
  <2>1. nextSession \in Nat \ {0}
    BY DEF Parts, SoundRecords, PositiveNat
  <2>2. PICK last \in (nextSession - 1) .. MaxSessionId :
          /\ DOMAIN sess' = nextSession .. last
          /\ nextSession' = last + 1
    BY <1>14 DEF Recreate, Populate, PopulateFrom, BuiltSessions
  <2>3. last \in Int /\ nextSession - 1 <= last
    BY <2>1, BoundsAssumption
  <2> QED BY <2>1, <2>2, <2>3 DEF Fresh
<1>15. CASE RecreateFails
  BY <1>15, NoNewSessionFresh DEF RecreateFails
<1>16. CASE Close
  BY <1>16, NoNewSessionFresh DEF Close
<1>17. CASE UNCHANGED vars
  BY <1>17, NoNewSessionFresh DEF vars
<1> QED
  BY <1>1, <1>2, <1>3, <1>4, <1>5, <1>6, <1>7, <1>8, <1>9, <1>10, <1>11,
     <1>12, <1>13, <1>14, <1>15, <1>16, <1>17
  DEF Next, TabStep, PaneStep, LifecycleStep

(* A session id is never handed out twice, whatever fails to start and     *)
(* however often the workspace is recreated.                               *)
THEOREM SessionIdsStayFresh == Spec => SessionIdsFresh
<1>1. IInv /\ [Next]_vars =>
        [/\ nextSession <= nextSession'
         /\ \A s \in DOMAIN sess' \ DOMAIN sess :
              nextSession <= s /\ s < nextSession']_vars
  BY IInvParts, StepFresh DEF Fresh
<1> QED BY <1>1, Invariance, PTL DEF Spec, SessionIdsFresh

-----------------------------------------------------------------------------
(* What populate() builds is owned.                                        *)

(* The blocks of a definition's tabs are disjoint, none is empty, and      *)
(* together they are the ids handed out.                                   *)
LEMMA BlocksPartition ==
  ASSUME NEW d \in Definitions, NEW base \in PositiveNat
  PROVE  /\ \A i \in 1 .. Len(d) : Block(d, i, base) # {}
         /\ \A i, j \in 1 .. Len(d) :
              i # j => Block(d, i, base) \cap Block(d, j, base) = {}
         /\ UNION {Block(d, i, base) : i \in 1 .. Len(d)}
              = base .. (base + PaneCount(d) - 1)
<1> USE DEF PositiveNat
<1>1. /\ Len(d) \in Nat \ {0}
      /\ \A i \in 1 .. Len(d) : d[i] \in Nat \ {0} /\ d[i] <= PaneCount(d)
      /\ \A i, j \in 1 .. Len(d) : i < j => d[i] < d[j]
      /\ PaneCount(d) \in Nat \ {0}
  BY DefinitionFacts
<1>2. ASSUME NEW i \in 1 .. Len(d), i # 1
      PROVE  i - 1 \in 1 .. Len(d) /\ d[i-1] < d[i]
  <2>1. i - 1 \in 1 .. Len(d) /\ i - 1 < i
    BY <1>1, <1>2
  <2> QED BY <1>1, <2>1
<1>3. ASSUME NEW i \in 1 .. Len(d) PROVE Block(d, i, base) # {}
  <2>1. base + d[i] - 1 \in Block(d, i, base)
    <3>1. CASE i = 1
      BY <1>1, <3>1 DEF Block
    <3>2. CASE i # 1
      BY <1>1, <1>2, <3>2 DEF Block
    <3> QED BY <3>1, <3>2
  <2> QED BY <2>1
<1>4. ASSUME NEW i \in 1 .. Len(d), NEW j \in 1 .. Len(d), i < j
      PROVE  Block(d, i, base) \cap Block(d, j, base) = {}
  <2>1. j # 1 /\ j - 1 \in 1 .. Len(d) /\ i <= j - 1
    BY <1>1, <1>4
  <2>2. d[i] <= d[j-1]
    BY <1>1, <2>1
  <2>3. \A p \in Block(d, i, base) : p <= base + d[i] - 1
    BY <1>1 DEF Block
  <2>4. \A p \in Block(d, j, base) : p >= base + d[j-1]
    BY <1>1, <2>1 DEF Block
  <2>5. \A p \in Block(d, i, base) : p \in Int
    BY DEF Block
  <2> QED BY <1>1, <2>1, <2>2, <2>3, <2>4, <2>5
<1>5. ASSUME NEW i \in 1 .. Len(d), NEW p \in Block(d, i, base)
      PROVE  p \in base .. (base + PaneCount(d) - 1)
  <2>1. CASE i = 1
    BY <1>1, <1>5, <2>1 DEF Block
  <2>2. CASE i # 1
    BY <1>1, <1>2, <1>5, <2>2, SMTT(30) DEF Block
  <2> QED BY <2>1, <2>2
<1>6. ASSUME NEW p \in base .. (base + PaneCount(d) - 1)
      PROVE  \E i \in 1 .. Len(d) : p \in Block(d, i, base)
  <2> DEFINE T == {i \in 1 .. Len(d) : p < base + d[i]}
  <2>1. Len(d) \in T
    BY <1>1 DEF PaneCount
  <2>2. T \in SUBSET Nat
    OBVIOUS
  <2>3. PICK i \in T : \A j \in T : i <= j
    <3> HIDE DEF T
    <3> QED BY <2>1, <2>2, LeastElement
  <2>4. CASE i = 1
    BY <1>1, <2>4 DEF Block
  <2>5. CASE i # 1
    <3>1. i - 1 \in 1 .. Len(d) /\ ~(i <= i - 1)
      BY <1>2, <2>5
    <3>2. ~(p < base + d[i-1])
      BY <2>3, <3>1
    <3>3. /\ p \in Int /\ i \in 1 .. Len(d) /\ p <= base + d[i] - 1
          /\ d[i] \in Nat /\ d[i-1] \in Nat
      BY <1>1, <3>1
    <3>4. base + d[i-1] <= p
      BY <3>2, <3>3
    <3>5. p \in Block(d, i, base)
      BY <2>5, <3>3, <3>4 DEF Block
    <3> QED BY <3>3, <3>5
  <2> QED BY <2>4, <2>5
<1>7. \A i, j \in 1 .. Len(d) :
        i # j => Block(d, i, base) \cap Block(d, j, base) = {}
  BY <1>1, <1>4
<1> QED BY <1>3, <1>5, <1>6, <1>7

LEMMA PopulateOwned ==
  ASSUME Parts, NEW d \in Definitions, Populate(d)
  PROVE  Owned'
<1> USE DEF PositiveNat
<1>1. nextPane \in PositiveNat /\ nextSession \in PositiveNat
  BY DEF Parts, SoundRecords
<1>2. PICK focus \in Focuses(d, nextPane) : tabs' = BuiltTabs(d, nextPane, focus)
  BY DEF Populate, PopulateFrom
<1>3. /\ Len(d) \in Nat
      /\ DOMAIN tabs' = 1 .. Len(d)
      /\ \A i \in 1 .. Len(d) : tabs'[i].panes = Block(d, i, nextPane)
  BY <1>2, DefinitionFacts DEF BuiltTabs, Layout!Assigned
<1>4. TabsDisjoint' /\ NoEmptyTab'
  BY <1>1, <1>3, BlocksPartition DEF TabsDisjoint, NoEmptyTab
<1>5. AllPanes' = nextPane .. (nextPane + PaneCount(d) - 1)
  BY <1>1, <1>3, BlocksPartition DEF AllPanes
<1>6. PICK last \in (nextSession - 1) .. MaxSessionId :
        \E sid \in SessionIds(d, nextPane, nextSession, last) :
        \E failed \in SUBSET (nextSession .. last) :
          /\ rec' = BuiltRecords(sid, failed)
          /\ sess' = BuiltSessions(nextSession, last, failed)
  BY DEF Populate, PopulateFrom
<1>7. PICK sid \in SessionIds(d, nextPane, nextSession, last),
           failed \in SUBSET (nextSession .. last) :
        /\ rec' = BuiltRecords(sid, failed)
        /\ sess' = BuiltSessions(nextSession, last, failed)
  BY <1>6
<1>8. /\ DOMAIN sid = nextPane .. (nextPane + PaneCount(d) - 1)
      /\ {sid[p] : p \in DOMAIN sid} \ {NoSession} = nextSession .. last
  BY DEF SessionIds, InOrder
<1>9. RecordsMatchPanes'
  BY <1>5, <1>7, <1>8 DEF RecordsMatchPanes, BuiltRecords
<1>10. AttachedExist'
  BY <1>7, <1>8
  DEF AttachedExist, Attached, BuiltRecords, BuiltSessions
<1>11. NoHeadlessSession'
  <2> SUFFICES ASSUME NEW s \in DOMAIN sess', sess'[s] = "Started"
               PROVE  \E p \in DOMAIN rec' : rec'[p] = s
    BY DEF NoHeadlessSession
  <2>1. s \in nextSession .. last /\ s \notin failed
    BY <1>7 DEF BuiltSessions
  <2>2. PICK p \in DOMAIN sid : sid[p] = s
    BY <1>8, <2>1
  <2> QED BY <1>7, <2>1, <2>2 DEF BuiltRecords
<1> QED BY <1>4, <1>9, <1>10, <1>11 DEF Owned

(* recreate() repairs whatever was lost before it.                         *)
THEOREM RecreateRepairs == Spec => RecreateRestoresOwnership
<1>1. IInv /\ [Next]_vars =>
        [(\E d \in Definitions : Recreate(d)) => Owned']_vars
  BY IInvParts, PopulateOwned DEF Recreate
<1> QED BY <1>1, Invariance, PTL DEF Spec, RecreateRestoresOwnership

-----------------------------------------------------------------------------
(* A workspace that is owned stays so, step by step.                       *)

(* A pane gets a session: a new pane, or one whose session was stopped.    *)
LEMMA SpawnKeepsSessionsOwned ==
  ASSUME Parts, AttachedExist, NoHeadlessSession, NEW p,
         NEW outcome \in Outcomes, Spawn(p, StoppedFor(p), outcome)
  PROVE  /\ DOMAIN rec' = DOMAIN rec \cup {p}
         /\ AttachedExist' /\ NoHeadlessSession'
<1> DEFINE S == StoppedFor(p)
<1>1. nextSession \in Nat \ {0} /\ nextSession \notin DOMAIN sess
  BY DEF Parts, SoundRecords, SoundSessions, PositiveNat
<1>2. \A q \in DOMAIN rec : q # p /\ rec[q] # NoSession => rec[q] \in DOMAIN S
  BY DEF StoppedFor, Without, AttachedExist, Attached, Parts, SoundRecords
<1>3. \A s \in DOMAIN S : /\ s \in DOMAIN sess /\ S[s] = sess[s]
                          /\ p \in DOMAIN rec => s # rec[p]
  BY DEF StoppedFor, Without
<1>4. /\ DOMAIN rec' = DOMAIN rec \cup {p}
      /\ \A q \in DOMAIN rec : q # p => rec'[q] = rec[q]
      /\ rec'[p] = IF outcome = "Started" THEN nextSession ELSE NoSession
  BY DEF Spawn, With
<1>5. /\ DOMAIN S \subseteq DOMAIN sess'
      /\ outcome = "Started" => nextSession \in DOMAIN sess'
  BY DEF Spawn, With
<1>6. \A s \in DOMAIN sess' : sess'[s] = "Started" =>
        \/ s \in DOMAIN S /\ S[s] = "Started"
        \/ s = nextSession /\ outcome = "Started"
  BY DEF Spawn, With
<1>7. AttachedExist'
  <2> SUFFICES ASSUME NEW q \in DOMAIN rec', rec'[q] # NoSession
               PROVE  rec'[q] \in DOMAIN sess'
    BY DEF AttachedExist, Attached
  <2>1. CASE q = p
    BY <1>4, <1>5, <2>1
  <2>2. CASE q # p
    BY <1>2, <1>4, <1>5, <2>2
  <2> QED BY <2>1, <2>2
<1>8. NoHeadlessSession'
  <2> SUFFICES ASSUME NEW s \in DOMAIN sess', sess'[s] = "Started"
               PROVE  \E q \in DOMAIN rec' : rec'[q] = s
    BY DEF NoHeadlessSession
  <2>1. CASE s = nextSession /\ outcome = "Started"
    BY <1>4, <2>1
  <2>2. CASE s \in DOMAIN S /\ S[s] = "Started"
    <3>1. PICK q \in DOMAIN rec : rec[q] = s
      BY <1>3, <2>2 DEF NoHeadlessSession
    <3>2. q # p
      BY <1>3, <2>2, <3>1
    <3> QED BY <1>4, <3>1, <3>2
  <2> QED BY <1>6, <2>1, <2>2
<1> QED BY <1>4, <1>7, <1>8

(* Panes go, with their records and their sessions.                        *)
LEMMA RemovalKeepsSessionsOwned ==
  ASSUME Parts, AttachedExist, NoHeadlessSession, NEW K,
         rec' = Without(rec, K),
         sess' = Without(sess, {rec[p] : p \in K \cap DOMAIN rec})
  PROVE  /\ DOMAIN rec' = DOMAIN rec \ K
         /\ AttachedExist' /\ NoHeadlessSession'
<1>1. DOMAIN rec' = DOMAIN rec \ K /\ \A p \in DOMAIN rec' : rec'[p] = rec[p]
  BY DEF Without
<1>2. \A s : s \in DOMAIN sess' <=>
               /\ s \in DOMAIN sess
               /\ \A p \in K \cap DOMAIN rec : rec[p] # s
  BY DEF Without
<1>3. \A s \in DOMAIN sess' : sess'[s] = sess[s]
  BY DEF Without
<1>4. AttachedExist'
  BY <1>1, <1>2 DEF AttachedExist, Attached, Parts, SoundRecords
<1>5. NoHeadlessSession'
  BY <1>1, <1>2, <1>3 DEF NoHeadlessSession
<1> QED BY <1>1, <1>4, <1>5

(* Nothing but the focus or the zoom of a tab changes.                     *)
LEMMA SamePanesOwned ==
  ASSUME Owned, DOMAIN tabs' = DOMAIN tabs,
         \A i \in DOMAIN tabs : tabs'[i].panes = tabs[i].panes,
         rec' = rec, sess' = sess
  PROVE  Owned'
<1>1. AllPanes' = AllPanes
  BY DEF AllPanes
<1> QED BY <1>1 DEF Owned, TabsDisjoint, NoEmptyTab, RecordsMatchPanes,
                    AttachedExist, Attached, NoHeadlessSession

LEMMA NothingLeftOwned ==
  ASSUME tabs' = <<>>, rec' = <<>>, sess' = <<>>
  PROVE  Owned'
<1>1. AllPanes' = {}
  BY DEF AllPanes
<1> QED BY <1>1 DEF Owned, TabsDisjoint, NoEmptyTab, RecordsMatchPanes,
                    AttachedExist, Attached, NoHeadlessSession

LEMMA StoppedForUnknown ==
  ASSUME NEW p, p \notin DOMAIN rec
  PROVE  StoppedFor(p) = sess
BY DEF StoppedFor

LEMMA NewTabOwned ==
  ASSUME Parts, Owned, NEW outcome \in Outcomes, NewTab(outcome), ~ IdCollides
  PROVE  Owned'
<1> DEFINE n == Len(tabs) + 1
<1>1. /\ tabs \in Seq(Layout!Layouts) /\ n \in Nat
      /\ DOMAIN tabs' = DOMAIN tabs \cup {n} /\ n \notin DOMAIN tabs
      /\ tabs'[n].panes = {nextPane}
      /\ \A i \in DOMAIN tabs : tabs'[i] = tabs[i]
  <2>1. tabs \in Seq(Layout!Layouts)
    BY DEF Parts, SoundTabs
  <2>2. tabs' = Append(tabs, Layout!Assigned({nextPane}, nextPane, nextPane))
    BY DEF NewTab
  <2> QED BY <2>1, <2>2 DEF Layout!Assigned
<1>2. nextPane \notin AllPanes
  <2>1. tabs'[n].panes \cap AllPanes = {}
    BY <1>1 DEF IdCollides
  <2> QED BY <1>1, <2>1
<1>3. AllPanes' = AllPanes \cup {nextPane}
  BY <1>1 DEF AllPanes
<1>4. TabsDisjoint' /\ NoEmptyTab'
  <2>1. \A i \in DOMAIN tabs : nextPane \notin tabs[i].panes
    BY <1>2 DEF AllPanes
  <2> QED BY <1>1, <2>1 DEF Owned, TabsDisjoint, NoEmptyTab
<1>5. nextPane \notin DOMAIN rec
  BY <1>2 DEF Owned, RecordsMatchPanes
<1>6. Spawn(nextPane, StoppedFor(nextPane), outcome)
  BY <1>5, StoppedForUnknown DEF NewTab
<1>7. /\ DOMAIN rec' = DOMAIN rec \cup {nextPane}
      /\ AttachedExist' /\ NoHeadlessSession'
  BY <1>6, SpawnKeepsSessionsOwned DEF Owned
<1>8. RecordsMatchPanes'
  BY <1>3, <1>7 DEF Owned, RecordsMatchPanes
<1> QED BY <1>4, <1>7, <1>8 DEF Owned

LEMMA SplitPaneOwned ==
  ASSUME Parts, Owned, NEW target \in Targets, NEW outcome \in Outcomes,
         SplitPane(target, outcome), ~ IdCollides
  PROVE  Owned'
<1>1. PICK i \in DOMAIN tabs :
        /\ tabs' = [tabs EXCEPT ![i] = Layout!Split(tabs[i])]
        /\ Spawn(tabs[i].next, sess, outcome)
  BY DEF SplitPane
<1> DEFINE new == tabs[i].next
<1>2. /\ DOMAIN tabs' = DOMAIN tabs
      /\ tabs'[i] = Layout!Split(tabs[i])
      /\ \A j \in DOMAIN tabs : j # i => tabs'[j] = tabs[j]
  BY <1>1 DEF Parts, SoundTabs
<1>3. tabs'[i].panes = tabs[i].panes \cup {new}
  <2>1. tabs[i] \in Layout!Layouts
    BY DEF Parts, SoundTabs
  <2> QED BY <1>2, <2>1 DEF Layout!Split, Layout!Layouts
<1>4. new \notin AllPanes
  BY <1>2 DEF IdCollides
<1>5. AllPanes' = AllPanes \cup {new}
  <2> HIDE DEF new
  <2> QED BY <1>2, <1>3 DEF AllPanes
<1>6. TabsDisjoint' /\ NoEmptyTab'
  <2>1. \A j \in DOMAIN tabs : new \notin tabs[j].panes
    BY <1>4 DEF AllPanes
  <2> HIDE DEF new
  <2> QED BY <1>2, <1>3, <2>1 DEF Owned, TabsDisjoint, NoEmptyTab
<1>7. new \notin DOMAIN rec
  BY <1>4 DEF Owned, RecordsMatchPanes
<1>8. Spawn(new, StoppedFor(new), outcome)
  BY <1>1, <1>7, StoppedForUnknown
<1>9. /\ DOMAIN rec' = DOMAIN rec \cup {new}
      /\ AttachedExist' /\ NoHeadlessSession'
  <2> HIDE DEF new
  <2> QED BY <1>8, SpawnKeepsSessionsOwned DEF Owned
<1>10. RecordsMatchPanes'
  BY <1>5, <1>9 DEF Owned, RecordsMatchPanes
<1> QED BY <1>6, <1>9, <1>10 DEF Owned

LEMMA CloseTabOwned ==
  ASSUME Parts, Owned, CloseTab
  PROVE  Owned'
<1> DEFINE a == ActiveTab
           ids == tabs[a].panes
           Old(i) == IF i < a THEN i ELSE i + 1
<1>1. /\ a \in DOMAIN tabs /\ a \in Nat /\ Len(tabs) \in Nat
      /\ tabs \in Seq(Layout!Layouts) /\ DOMAIN tabs = 1 .. Len(tabs)
  BY DEF CloseTab, HasActiveTab, Parts, SoundTabs, ActiveTab
<1>2. /\ tabs' = [i \in 1 .. (Len(tabs) - 1) |->
                    IF i < a THEN tabs[i] ELSE tabs[i+1]]
      /\ rec' = Without(rec, ids)
      /\ sess' = Without(sess, {rec[p] : p \in ids \cap DOMAIN rec})
  BY DEF CloseTab, RemoveActiveTab
<1>3. /\ DOMAIN rec' = DOMAIN rec \ ids
      /\ AttachedExist' /\ NoHeadlessSession'
  BY <1>2, RemovalKeepsSessionsOwned DEF Owned
<1>4. \A i \in DOMAIN tabs' : /\ Old(i) \in DOMAIN tabs /\ Old(i) # a
                              /\ tabs'[i] = tabs[Old(i)]
  <2> HIDE DEF a
  <2> QED BY <1>1, <1>2
<1>5. \A i, j \in DOMAIN tabs' : i # j => Old(i) # Old(j)
  <2>1. \A i \in DOMAIN tabs' : i \in Nat
    BY <1>2
  <2> HIDE DEF a
  <2> QED BY <1>1, <2>1
<1>6. \A k \in DOMAIN tabs : k # a => \E i \in DOMAIN tabs' : Old(i) = k
  <2> SUFFICES ASSUME NEW k \in DOMAIN tabs, k # a
               PROVE  \E i \in DOMAIN tabs' : Old(i) = k
    OBVIOUS
  <2> HIDE DEF a
  <2>0. DOMAIN tabs' = 1 .. (Len(tabs) - 1)
    BY <1>2
  <2>1. CASE k < a
    BY <1>1, <2>0, <2>1
  <2>2. CASE k > a
    <3>1. k - 1 \in DOMAIN tabs' /\ ~(k - 1 < a) /\ (k - 1) + 1 = k
      BY <1>1, <2>0, <2>2
    <3> QED BY <3>1
  <2> QED BY <1>1, <2>1, <2>2
<1> HIDE DEF a, Old
<1>7. TabsDisjoint' /\ NoEmptyTab'
  BY <1>4, <1>5 DEF Owned, TabsDisjoint, NoEmptyTab
<1>8. AllPanes' = AllPanes \ ids
  <2>1. \A i \in DOMAIN tabs' : tabs'[i].panes \cap ids = {}
    BY <1>1, <1>4 DEF Owned, TabsDisjoint
  <2>2. \A k \in DOMAIN tabs : k # a =>
          \E i \in DOMAIN tabs' : tabs'[i].panes = tabs[k].panes
    BY <1>4, <1>6
  <2> HIDE DEF ids
  <2>3. \A p \in AllPanes' : p \in AllPanes /\ p \notin ids
    BY <1>4, <2>1 DEF AllPanes
  <2>4. ASSUME NEW p \in AllPanes, p \notin ids PROVE p \in AllPanes'
    <3>1. PICK k \in DOMAIN tabs : p \in tabs[k].panes
      BY DEF AllPanes
    <3>2. k # a
      BY <2>4, <3>1 DEF ids
    <3> QED BY <2>2, <3>1, <3>2 DEF AllPanes
  <2> QED BY <2>3, <2>4
<1>9. RecordsMatchPanes'
  BY <1>3, <1>8 DEF Owned, RecordsMatchPanes
<1> QED BY <1>3, <1>7, <1>9 DEF Owned

LEMMA ClosePaneOwned ==
  ASSUME Parts, Owned, NEW target \in Targets, ClosePane(target),
         ~ LastPaneCloses
  PROVE  Owned'
<1> DEFINE p == Resolved(target)
<1>1. PICK i \in DOMAIN tabs :
        /\ p \in tabs[i].panes
        /\ \E t \in Layout!CloseResults(tabs[i], p) :
             tabs' = [tabs EXCEPT ![i] = t]
  BY DEF ClosePane, FindsIn
<1>2. /\ rec' = Without(rec, {p})
      /\ sess' = Without(sess, {rec[q] : q \in {p} \cap DOMAIN rec})
  <2>1. p \in DOMAIN rec
    BY <1>1 DEF Owned, RecordsMatchPanes, AllPanes
  <2>2. {rec[q] : q \in {p} \cap DOMAIN rec} = {rec[p]}
    BY <2>1
  <2> QED BY <2>1, <2>2 DEF ClosePane, StoppedFor
<1> HIDE DEF p
<1>3. /\ DOMAIN rec' = DOMAIN rec \ {p}
      /\ AttachedExist' /\ NoHeadlessSession'
  BY <1>2, RemovalKeepsSessionsOwned DEF Owned
<1>4. /\ DOMAIN tabs' = DOMAIN tabs
      /\ \A j \in DOMAIN tabs : j # i => tabs'[j] = tabs[j]
      /\ tabs'[i] \in Layout!CloseResults(tabs[i], p)
  BY <1>1 DEF Parts, SoundTabs
<1>5. tabs'[i].panes = tabs[i].panes \ {p}
  <2>1. tabs[i] \in Layout!Layouts
    BY DEF Parts, SoundTabs
  <2>2. CASE tabs[i].panes = {p}
    <3>1. tabs'[i] = Layout!ClosedLast(tabs[i], p)
      BY <1>4, <2>2 DEF Layout!CloseResults
    <3> QED BY <2>1, <2>2, <3>1 DEF Layout!ClosedLast, Layout!Layouts
  <2>3. CASE tabs[i].panes # {p}
    <3>1. PICK f : tabs'[i] = Layout!Closed(tabs[i], p, f)
      BY <1>4, <2>3 DEF Layout!CloseResults
    <3> QED BY <2>1, <3>1 DEF Layout!Closed, Layout!Layouts
  <2> QED BY <2>2, <2>3
<1>6. tabs'[i].panes # {}
  BY <1>1, <1>4 DEF LastPaneCloses
<1>7. TabsDisjoint' /\ NoEmptyTab'
  BY <1>4, <1>5, <1>6 DEF Owned, TabsDisjoint, NoEmptyTab
<1>8. AllPanes' = AllPanes \ {p}
  <2>1. \A j \in DOMAIN tabs : j # i => p \notin tabs[j].panes
    BY <1>1 DEF Owned, TabsDisjoint
  <2>2. \A j \in DOMAIN tabs : tabs'[j].panes = tabs[j].panes \ {p}
    BY <1>4, <1>5, <2>1
  <2> QED BY <1>4, <2>2 DEF AllPanes
<1>9. RecordsMatchPanes'
  BY <1>3, <1>8 DEF Owned, RecordsMatchPanes
<1> QED BY <1>3, <1>7, <1>9 DEF Owned

LEMMA ChangeProfileOwned ==
  ASSUME Parts, Owned, NEW target \in Targets, NEW outcome \in Outcomes,
         ChangeProfile(target, outcome)
  PROVE  Owned'
<1>1. PICK p : /\ p = IF target = NoPane THEN tabs[ActiveTab].focus ELSE target
               /\ Spawn(p, StoppedFor(p), outcome)
  BY DEF ChangeProfile
<1>2. p \in DOMAIN rec
  <2>1. CASE target = NoPane
    <3>1. ActiveTab \in DOMAIN tabs
      BY <2>1 DEF ChangeProfile, HasActiveTab
    <3>2. tabs[ActiveTab].focus \in tabs[ActiveTab].panes
      BY <3>1 DEF Owned, NoEmptyTab, Parts, SoundTabs, Sound
    <3>3. tabs[ActiveTab].focus \in AllPanes
      BY <3>1, <3>2 DEF AllPanes
    <3> QED BY <1>1, <2>1, <3>3 DEF Owned, RecordsMatchPanes
  <2>2. CASE target # NoPane
    BY <1>1, <2>2 DEF Targets
  <2> QED BY <2>1, <2>2
<1>3. /\ DOMAIN rec' = DOMAIN rec
      /\ AttachedExist' /\ NoHeadlessSession'
  BY <1>1, <1>2, SpawnKeepsSessionsOwned DEF Owned
<1>4. tabs' = tabs
  BY DEF ChangeProfile
<1> QED BY <1>3, <1>4 DEF Owned, TabsDisjoint, NoEmptyTab, RecordsMatchPanes, AllPanes

LEMMA RestartSessionOwned ==
  ASSUME Parts, Owned, NEW target \in Targets, NEW started \in BOOLEAN,
         RestartSession(target, started)
  PROVE  Owned'
<1>1. PICK p : /\ p \in DOMAIN rec /\ rec[p] \in DOMAIN sess
               /\ sess' = [sess EXCEPT ![rec[p]] =
                             IF started THEN "Started" ELSE "Failed"]
  BY DEF RestartSession
<1>2. tabs' = tabs /\ rec' = rec
  BY DEF RestartSession
<1>3. DOMAIN sess' = DOMAIN sess
  BY <1>1
<1>4. \A s \in DOMAIN sess : s # rec[p] => sess'[s] = sess[s]
  BY <1>1
<1>5. NoHeadlessSession'
  BY <1>1, <1>2, <1>3, <1>4 DEF Owned, NoHeadlessSession
<1> QED BY <1>2, <1>3, <1>5 DEF Owned, TabsDisjoint, NoEmptyTab,
          RecordsMatchPanes, AllPanes, AttachedExist, Attached

(* The steps that move the focus or the zoom of one tab.                   *)
LEMMA FocusOrZoomOwned ==
  ASSUME Parts, Owned,
         MoveFocus \/ (\E p \in DOMAIN rec : FocusPane(p)) \/ ZoomPane
  PROVE  Owned'
<1> DEFINE Moved(i) == {Layout!ZoomToggled(tabs[i])}
                 \cup {Layout!Focused(tabs[i], p) : p \in Layout!PaneIds}
<1>1. \E i \in DOMAIN tabs : \E t \in Moved(i) : tabs' = [tabs EXCEPT ![i] = t]
  <2>1. CASE MoveFocus
    <3>1. ActiveTab \in DOMAIN tabs
      BY <2>1 DEF MoveFocus, HasActiveTab
    <3>2. PICK p \in tabs[ActiveTab].panes :
            tabs' = [tabs EXCEPT ![ActiveTab] = Layout!Focused(tabs[ActiveTab], p)]
      BY <2>1 DEF MoveFocus
    <3>3. tabs[ActiveTab] \in Layout!Layouts
      BY <3>1 DEF Parts, SoundTabs
    <3>4. p \in Layout!PaneIds
      BY <3>2, <3>3 DEF Layout!Layouts
    <3> QED BY <3>1, <3>2, <3>4
  <2>2. ASSUME NEW p \in DOMAIN rec, FocusPane(p)
        PROVE  \E i \in DOMAIN tabs : \E t \in Moved(i) :
                 tabs' = [tabs EXCEPT ![i] = t]
    <3>1. p \in Layout!PaneIds
      BY DEF Parts, SoundRecords
    <3> QED BY <2>2, <3>1 DEF FocusPane
  <2>3. CASE ZoomPane
    BY <2>3 DEF ZoomPane, HasActiveTab
  <2> QED BY <2>1, <2>2, <2>3
<1>2. DOMAIN tabs' = DOMAIN tabs /\ \A j \in DOMAIN tabs : tabs'[j].panes = tabs[j].panes
  <2>1. PICK i \in DOMAIN tabs : \E t \in Moved(i) : tabs' = [tabs EXCEPT ![i] = t]
    BY <1>1
  <2>2. PICK t \in Moved(i) : tabs' = [tabs EXCEPT ![i] = t]
    BY <2>1
  <2>3. tabs[i] \in Layout!Layouts
    BY DEF Parts, SoundTabs
  <2>4. t.panes = tabs[i].panes
    BY <2>3 DEF Layout!ZoomToggled, Layout!Focused, Layout!Layouts
  <2> QED BY <2>2, <2>4 DEF Parts, SoundTabs
<1>3. rec' = rec /\ sess' = sess
  BY DEF MoveFocus, FocusPane, ZoomPane
<1> QED BY <1>2, <1>3, SamePanesOwned

LEMMA StepOwned ==
  Parts /\ Owned /\ [Next]_vars /\ ~ IdCollides /\ ~ LastPaneCloses => Owned'
<1> SUFFICES ASSUME Parts, Owned, [Next]_vars, ~ IdCollides, ~ LastPaneCloses
             PROVE  Owned'
  OBVIOUS
<1>1. CASE TabStep
  <2>1. CASE NextTab \/ PrevTab \/ \E i \in 0 .. MaxTabs : GotoTab(i)
    BY <2>1, SamePanesOwned DEF NextTab, PrevTab, GotoTab
  <2> QED BY <1>1, <2>1, NewTabOwned, CloseTabOwned DEF TabStep
<1>2. CASE PaneStep
  <2>1. ~ ClosePanePanics
    BY DEF ClosePanePanics, Owned, NoEmptyTab, Parts, SoundTabs
  <2> QED BY <1>2, <2>1, SplitPaneOwned, ClosePaneOwned, ChangeProfileOwned,
             RestartSessionOwned, FocusOrZoomOwned
          DEF PaneStep
<1>3. CASE LifecycleStep
  BY <1>3, PopulateOwned, NothingLeftOwned
  DEF LifecycleStep, Recreate, RecreateFails, Close
<1>4. CASE UNCHANGED vars
  BY <1>4, SamePanesOwned DEF vars
<1> QED BY <1>1, <1>2, <1>3, <1>4 DEF Next

(* Panes, records and sessions match one to one until a pane id is handed  *)
(* out twice or the last pane of a tab is closed: no launch that fails     *)
(* half-way, no restart, profile change, close or rebuild, in any order,   *)
(* leaks a session or leaves a pane or a record behind.                    *)
THEOREM OwnershipKept == Spec => OwnershipLostOnlyThere
<1>1. IInv /\ [Next]_vars =>
        [Owned /\ ~Owned' => IdCollides \/ LastPaneCloses]_vars
  BY IInvParts, StepOwned
<1> QED BY <1>1, Invariance, PTL DEF Spec, OwnershipLostOnlyThere

=============================================================================
