----------------------------- MODULE StatusProofs -----------------------------
(***************************************************************************)
(* Theorems about module PaneStatus, for any panes, titles, statuses and   *)
(* bounds: what a UI shows is what the host keeps once nothing is on its   *)
(* way (ShownMatches), a wait begun after a prompt is not satisfied by     *)
(* older work (WaitNotStale), and every pane that asks for attention is    *)
(* gone to (AttentionReached).                                             *)
(*                                                                         *)
(* What the UI will show of a pane is what the last frame on its way tells *)
(* of it, or what it shows when none does: that is what the host keeps, at *)
(* all times, except where the history variables say why not.  A snapshot  *)
(* overtakes the queue, so frames after it may be older than it; the last  *)
(* of them is not.                                                         *)
(***************************************************************************)
EXTENDS PaneStatus, FiniteSetTheorems, WellFoundedInduction, TLAPS

(* The last item of q that is in T is in V; no item of q is in T.          *)
LastIn(q, T, V) ==
  \E i \in DOMAIN q : /\ q[i] \in T /\ q[i] \in V
                      /\ \A j \in DOMAIN q : i < j => q[j] \notin T

NoneIn(q, T) == \A i \in DOMAIN q : q[i] \notin T

(* The same, of all that is on its way to the UI: the frames of its inbox, *)
(* then the events of its queue, then those that are pending.              *)
DueIn(new, sent, frames, T, V) ==
  \/ LastIn(new, T, V)
  \/ NoneIn(new, T) /\ LastIn(sent, T, V)
  \/ NoneIn(new, T) /\ NoneIn(sent, T) /\ LastIn(frames, T, V)

StillIn(new, sent, frames, T) == NoneIn(new, T) /\ NoneIn(sent, T) /\ NoneIn(frames, T)

Due(T, V) == DueIn(pending, queue, inbox, T, V)
Still(T) == StillIn(pending, queue, inbox, T)

States == {"active", "done", "needs-attention", "error"}

(* STRING; the provers are told which literals are in it.                  *)
Words == STRING \cup {"", "working", "prompt sent", "done", "needs-attention", "error"}

Record == [attention : States, phase : Words, text : Words, queue : Nat, completion : Words]
View == [attention : States, phase : Words, text : Words, queue : Nat, title : Words]

Events ==
  [kind : {"attention"}, pane : Panes, state : States]
    \cup [kind : {"metadata"}, pane : Panes, phase : Words, text : Words, queue : Nat]
    \cup [kind : {"title"}, pane : Panes, title : Words]

Frames == Events \cup [kind : {"snapshot"}, panes : [Panes -> View]]

Typing ==
  /\ record \in [Panes -> Record]
  /\ screen \in [Panes -> [title : Words, notes : {0, 1}, reads : BOOLEAN]]
  /\ previous \in [Panes -> Words]
  /\ pending \in Seq(Events) /\ queue \in Seq(Events) /\ inbox \in Seq(Frames)
  /\ asked \in Seq(Panes \cup {Attach})
  /\ shown \in [Panes -> View]
  /\ focus \in Panes
  /\ gap \in [Panes -> SUBSET {"attention", "metadata", "title"}]
  /\ seen \in [Panes -> BOOLEAN]
  /\ prompted \in [Panes -> BOOLEAN]

(* The frames that tell something of pane p, and those that tell it is v.  *)
AttentionOf(p) ==
  {e \in Frames : e.kind = "snapshot" \/ (e.kind = "attention" /\ e.pane = p)}
AttentionIs(p, v) ==
  {e \in Frames : IF e.kind = "snapshot" THEN e.panes[p].attention = v
                                         ELSE e.kind = "attention" /\ e.state = v}
StatusOf(p, f) ==
  {e \in Frames : e.kind = "snapshot" \/ (e.kind = "metadata" /\ e.pane = p /\ Given(f, e[f]))}
StatusIs(p, f, v) ==
  {e \in Frames : IF e.kind = "snapshot" THEN e.panes[p][f] = v
                                         ELSE e.kind = "metadata" /\ e[f] = v}
TitleOf(p) ==
  {e \in Frames : e.kind = "snapshot" \/ (e.kind = "title" /\ e.pane = p)}
TitleIs(p, v) ==
  {e \in Frames : IF e.kind = "snapshot" THEN e.panes[p].title = v
                                         ELSE e.kind = "title" /\ e.title = v}

(* What the UI will show is what the host keeps, unless the UI is about to *)
(* clear it, or no event told it.                                          *)
AttentionComes(p) ==
  \/ p \in ToSet(asked)
  \/ "attention" \in gap[p]
  \/ Due(AttentionOf(p), AttentionIs(p, record[p].attention))
  \/ /\ Still(AttentionOf(p))
     /\ \/ shown[p].attention = record[p].attention
        \/ seen[p] /\ shown[p].attention = "active"

(* A status that was never given is shown as such, whatever was lost.      *)
StatusComes(p, f) ==
  \/ "metadata" \in gap[p] /\ Given(f, record[p][f])
  \/ Due(StatusOf(p, f), StatusIs(p, f, record[p][f]))
  \/ Still(StatusOf(p, f)) /\ shown[p][f] = record[p][f]

(* Titles come as the broadcaster last compared them.                      *)
TitleComes(p) ==
  \/ "title" \in gap[p]
  \/ Due(TitleOf(p), TitleIs(p, previous[p]))
  \/ Still(TitleOf(p)) /\ shown[p].title = previous[p]

(* A pane whose last event is a prompt has the record of one.              *)
Prompted == \A p \in Panes : prompted[p] =>
  record[p] = [attention |-> "active", phase |-> "working", text |-> "prompt sent",
               queue |-> 1, completion |-> ""]

StatusFields == {"phase", "text", "queue"}

StatusInv ==
  /\ Typing /\ Prompted
  /\ \A p \in Panes : /\ AttentionComes(p) /\ TitleComes(p)
                      /\ \A f \in StatusFields : StatusComes(p, f)

-----------------------------------------------------------------------------
(* Lemmas about sequences and the items in a set.                          *)

LEMMA InConcat ==
  ASSUME NEW S, NEW q \in Seq(S), NEW r \in Seq(S), NEW T, NEW V
  PROVE  /\ NoneIn(q \o r, T) <=> NoneIn(q, T) /\ NoneIn(r, T)
         /\ LastIn(r, T, V) => LastIn(q \o r, T, V)
         /\ NoneIn(r, T) /\ LastIn(q, T, V) => LastIn(q \o r, T, V)
<1>1. /\ Len(q) \in Nat /\ Len(r) \in Nat
      /\ DOMAIN q = 1 .. Len(q) /\ DOMAIN r = 1 .. Len(r)
      /\ DOMAIN (q \o r) = 1 .. (Len(q) + Len(r))
      /\ \A i \in DOMAIN q : i \in DOMAIN (q \o r) /\ (q \o r)[i] = q[i]
      /\ \A i \in DOMAIN r : Len(q) + i \in DOMAIN (q \o r) /\ (q \o r)[Len(q) + i] = r[i]
  OBVIOUS
<1>2. ASSUME NEW i \in DOMAIN (q \o r), i \notin DOMAIN q
      PROVE  /\ i - Len(q) \in DOMAIN r /\ (q \o r)[i] = r[i - Len(q)]
             /\ i = Len(q) + (i - Len(q))
  <2>1. i - Len(q) \in DOMAIN r /\ i = Len(q) + (i - Len(q))
    BY <1>1, <1>2
  <2>2. (q \o r)[Len(q) + (i - Len(q))] = r[i - Len(q)]
    BY <2>1, <1>1
  <2> QED BY <2>1, <2>2
<1>3. NoneIn(q \o r, T) <=> NoneIn(q, T) /\ NoneIn(r, T)
  BY <1>1, <1>2 DEF NoneIn
<1>4. ASSUME LastIn(r, T, V) PROVE LastIn(q \o r, T, V)
  <2>1. PICK i \in DOMAIN r : /\ r[i] \in T /\ r[i] \in V
                              /\ \A j \in DOMAIN r : i < j => r[j] \notin T
    BY <1>4 DEF LastIn
  <2>2. ASSUME NEW j \in DOMAIN (q \o r), Len(q) + i < j PROVE (q \o r)[j] \notin T
    <3>1. j \notin DOMAIN q
      BY <1>1, <2>2
    <3>2. j - Len(q) \in DOMAIN r /\ i < j - Len(q) /\ (q \o r)[j] = r[j - Len(q)]
      BY <1>1, <1>2, <2>2, <3>1
    <3> QED BY <2>1, <3>2
  <2>3. Len(q) + i \in DOMAIN (q \o r) /\ (q \o r)[Len(q) + i] = r[i]
    BY <1>1
  <2> QED BY <2>1, <2>2, <2>3 DEF LastIn
<1>5. ASSUME NoneIn(r, T), LastIn(q, T, V) PROVE LastIn(q \o r, T, V)
  <2>1. PICK i \in DOMAIN q : /\ q[i] \in T /\ q[i] \in V
                              /\ \A j \in DOMAIN q : i < j => q[j] \notin T
    BY <1>5 DEF LastIn
  <2>2. ASSUME NEW j \in DOMAIN (q \o r), i < j PROVE (q \o r)[j] \notin T
    BY <1>1, <1>2, <1>5, <2>1, <2>2 DEF NoneIn
  <2> QED BY <1>1, <2>1, <2>2 DEF LastIn
<1> QED BY <1>3, <1>4, <1>5

LEMMA InTail ==
  ASSUME NEW S, NEW q \in Seq(S), q # <<>>, NEW T, NEW V
  PROVE  /\ q[1] \in S /\ Tail(q) \in Seq(S)
         /\ NoneIn(q, T) <=> q[1] \notin T /\ NoneIn(Tail(q), T)
         /\ LastIn(q, T, V) =>
              LastIn(Tail(q), T, V) \/ (NoneIn(Tail(q), T) /\ q[1] \in T /\ q[1] \in V)
<1>1. /\ q[1] \in S /\ Tail(q) \in Seq(S) /\ Len(q) \in Nat \ {0}
      /\ DOMAIN q = 1 .. Len(q) /\ DOMAIN Tail(q) = 1 .. (Len(q) - 1)
      /\ \A i \in DOMAIN Tail(q) : i + 1 \in DOMAIN q /\ Tail(q)[i] = q[i + 1] /\ i + 1 # 1
      /\ 1 \in DOMAIN q
  OBVIOUS
<1>2. ASSUME NEW i \in DOMAIN q, i # 1
      PROVE  i - 1 \in DOMAIN Tail(q) /\ q[i] = Tail(q)[i - 1]
  BY <1>1, <1>2
<1>3. NoneIn(q, T) <=> q[1] \notin T /\ NoneIn(Tail(q), T)
  BY <1>1, <1>2 DEF NoneIn
<1>4. ASSUME LastIn(q, T, V)
      PROVE  LastIn(Tail(q), T, V) \/ (NoneIn(Tail(q), T) /\ q[1] \in T /\ q[1] \in V)
  <2>1. PICK i \in DOMAIN q : /\ q[i] \in T /\ q[i] \in V
                              /\ \A j \in DOMAIN q : i < j => q[j] \notin T
    BY <1>4 DEF LastIn
  <2>2. ASSUME NEW j \in DOMAIN Tail(q), i < j + 1 PROVE Tail(q)[j] \notin T
    BY <1>1, <2>1, <2>2
  <2>3. CASE i = 1
    <3>1. NoneIn(Tail(q), T)
      BY <1>1, <2>2, <2>3 DEF NoneIn
    <3> QED BY <2>1, <2>3, <3>1
  <2>4. CASE i # 1
    <3>1. i - 1 \in DOMAIN Tail(q) /\ q[i] = Tail(q)[i - 1]
      BY <1>2, <2>4
    <3>2. \A j \in DOMAIN Tail(q) : i - 1 < j => Tail(q)[j] \notin T
      BY <1>1, <2>2
    <3> QED BY <2>1, <3>1, <3>2 DEF LastIn
  <2> QED BY <2>3, <2>4
<1> QED BY <1>1, <1>3, <1>4

-----------------------------------------------------------------------------
(* FlattenSeq.  It is a recursive function, so what it does is shown by    *)
(* induction: over a set of numbers, since the theorems of the library     *)
(* that take a predicate are beyond the provers.                           *)

LEMMA SetInduction ==
  ASSUME NEW T \in SUBSET Nat, 0 \in T, \A n \in T : n + 1 \in T
  PROVE  T = Nat
<1> SUFFICES ASSUME Nat \ T # {} PROVE FALSE
  OBVIOUS
<1> DEFINE R == {ss \in Nat \X Nat : ss[1] < ss[2]}
<1>1. IsWellFoundedOn(R, Nat)
  BY NatLessThanWellFounded DEF OpToRel
<1>2. PICK x \in Nat \ T : \A y \in Nat \ T : <<y, x>> \notin R
  <2> HIDE DEF R
  <2> QED BY <1>1, WFMin
<1>3. x - 1 \in Nat /\ x - 1 \in T
  <2>1. x # 0 /\ x - 1 \in Nat
    OBVIOUS
  <2>2. ASSUME x - 1 \notin T PROVE FALSE
    <3>1. <<x - 1, x>> \in Nat \X Nat /\ <<x - 1, x>>[1] < <<x - 1, x>>[2]
      BY <2>1
    <3>2. <<x - 1, x>> \in R
      BY <3>1
    <3> QED BY <1>2, <2>1, <2>2, <3>2
  <2> QED BY <2>1, <2>2
<1>4. (x - 1) + 1 \in T /\ (x - 1) + 1 = x
  BY <1>3
<1> QED BY <1>4

Joins(f, s, n) == f = [i \in 1 .. n |-> IF i = 1 THEN s[i] ELSE f[i-1] \o s[i]]

LEMMA Joined ==
  ASSUME NEW s, NEW n \in Nat
  PROVE  \E f : Joins(f, s, n)
<1> DEFINE T == {m \in Nat : \E f : Joins(f, s, m)}
<1>1. 0 \in T
  <2>1. Joins(<<>>, s, 0)
    BY DEF Joins
  <2> QED BY <2>1
<1>2. ASSUME NEW m \in T PROVE m + 1 \in T
  <2>1. PICK f : Joins(f, s, m)
    OBVIOUS
  <2> DEFINE g == [i \in 1 .. m + 1 |->
                     IF i <= m THEN f[i] ELSE IF i = 1 THEN s[i] ELSE f[m] \o s[i]]
  <2>2. m \in Nat
    OBVIOUS
  <2>3. ASSUME NEW i \in 1 .. m + 1
        PROVE  g[i] = IF i = 1 THEN s[i] ELSE g[i-1] \o s[i]
    <3>1. CASE i <= m
      <4>1. g[i] = f[i] /\ (i # 1 => g[i-1] = f[i-1])
        BY <3>1, <2>2
      <4>2. i \in 1 .. m
        BY <3>1, <2>2
      <4>3. f[i] = IF i = 1 THEN s[i] ELSE f[i-1] \o s[i]
        BY <2>1, <4>2 DEF Joins
      <4> QED BY <4>1, <4>3
    <3>2. CASE i > m
      <4>1. i = m + 1 /\ g[i] = IF i = 1 THEN s[i] ELSE f[m] \o s[i]
        BY <3>2, <2>2
      <4>2. i # 1 => g[i - 1] = f[m]
        BY <4>1, <2>2
      <4> QED BY <4>1, <4>2
    <3> QED BY <3>1, <3>2, <2>2
  <2>4. Joins(g, s, m + 1)
    BY <2>3 DEF Joins
  <2>5. \E h : Joins(h, s, m + 1)
    <3> HIDE DEF g
    <3> QED BY <2>4
  <2> QED BY <2>2, <2>5
<1>3. T = Nat
  <2>1. T \in SUBSET Nat
    OBVIOUS
  <2> HIDE DEF T
  <2> QED BY <1>1, <1>2, <2>1, SetInduction
<1> QED BY <1>3

LEMMA FlattenJoins ==
  ASSUME NEW s, NEW n \in Nat \ {0}, Len(s) = n
  PROVE  \E f : Joins(f, s, n) /\ FlattenSeq(s) = f[n]
<1>1. \E f : Joins(f, s, n)
  BY Joined
<1> DEFINE f == CHOOSE f : Joins(f, s, n)
<1>2. Joins(f, s, n)
  BY <1>1
<1>3. FlattenSeq(s) = f[n]
  BY DEF FlattenSeq, Joins
<1> QED BY <1>2, <1>3

(* Of the parts that are joined, only part p has items in T.               *)
LEMMA Flattened ==
  ASSUME NEW S, NEW n \in Nat \ {0}, NEW s \in [1 .. n -> Seq(S)]
  PROVE  /\ FlattenSeq(s) \in Seq(S)
         /\ \A p \in 1 .. n : \A T, V :
              (\A m \in 1 .. n : m # p => NoneIn(s[m], T)) =>
                /\ NoneIn(FlattenSeq(s), T) <=> NoneIn(s[p], T)
                /\ LastIn(s[p], T, V) => LastIn(FlattenSeq(s), T, V)
<1>1. PICK f : Joins(f, s, n) /\ FlattenSeq(s) = f[n]
  <2>1. Len(s) = n
    OBVIOUS
  <2> QED BY <2>1, FlattenJoins
<1>2. /\ f[1] = s[1]
      /\ \A m \in 1 .. n : m # 1 => f[m] = f[m - 1] \o s[m]
  <2>1. \A m \in 1 .. n : f[m] = IF m = 1 THEN s[m] ELSE f[m - 1] \o s[m]
    BY <1>1 DEF Joins
  <2>2. 1 \in 1 .. n
    OBVIOUS
  <2> QED BY <2>1, <2>2
<1> DEFINE Good(m) ==
      /\ f[m] \in Seq(S)
      /\ \A p \in 1 .. n : \A T, V :
           (\A k \in 1 .. n : k # p => NoneIn(s[k], T)) =>
             /\ m < p => NoneIn(f[m], T)
             /\ p <= m => (NoneIn(f[m], T) <=> NoneIn(s[p], T))
             /\ p <= m /\ LastIn(s[p], T, V) => LastIn(f[m], T, V)
           M == {m \in Nat : m + 1 <= n => Good(m + 1)}
<1>3. Good(1)
  BY <1>2
<1>4. ASSUME NEW m \in 1 .. n, m # 1, Good(m - 1) PROVE Good(m)
  <2>1. /\ f[m] = f[m - 1] \o s[m] /\ f[m - 1] \in Seq(S) /\ s[m] \in Seq(S)
    BY <1>2, <1>4
  <2>2. f[m] \in Seq(S)
    BY <2>1
  <2>3. ASSUME NEW p \in 1 .. n, NEW T, NEW V,
               \A k \in 1 .. n : k # p => NoneIn(s[k], T)
        PROVE  /\ m < p => NoneIn(f[m], T)
               /\ p <= m => (NoneIn(f[m], T) <=> NoneIn(s[p], T))
               /\ p <= m /\ LastIn(s[p], T, V) => LastIn(f[m], T, V)
    <3>1. /\ NoneIn(f[m], T) <=> NoneIn(f[m - 1], T) /\ NoneIn(s[m], T)
          /\ LastIn(s[m], T, V) => LastIn(f[m], T, V)
          /\ NoneIn(s[m], T) /\ LastIn(f[m - 1], T, V) => LastIn(f[m], T, V)
      BY <2>1, InConcat
    <3>2. /\ m - 1 < p => NoneIn(f[m - 1], T)
          /\ p <= m - 1 => (NoneIn(f[m - 1], T) <=> NoneIn(s[p], T))
          /\ p <= m - 1 /\ LastIn(s[p], T, V) => LastIn(f[m - 1], T, V)
      BY <1>4, <2>3
    <3>3. CASE m < p
      BY <3>1, <3>2, <3>3, <2>3
    <3>4. CASE m = p
      BY <3>1, <3>2, <3>4
    <3>5. CASE p < m
      <4>1. p <= m - 1 /\ NoneIn(s[m], T) /\ ~(m < p)
        BY <3>5, <2>3
      <4> QED BY <4>1, <3>1, <3>2
    <3> QED BY <3>3, <3>4, <3>5
  <2> QED BY <2>2, <2>3
<1> HIDE DEF Good
<1>5. M = Nat
  <2>1. M \in SUBSET Nat /\ 0 \in M
    BY <1>3
  <2>2. ASSUME NEW m \in M PROVE m + 1 \in M
    <3>1. m \in Nat
      OBVIOUS
    <3>2. ASSUME (m + 1) + 1 <= n PROVE Good((m + 1) + 1)
      <4>1. Good(m + 1) /\ (m + 1) + 1 \in 1 .. n /\ ((m + 1) + 1) - 1 = m + 1 /\ (m + 1) + 1 # 1
        BY <3>1, <3>2
      <4> QED BY <4>1, <1>4
    <3> QED BY <3>1, <3>2
  <2> HIDE DEF M
  <2> QED BY <2>1, <2>2, SetInduction
<1>6. Good(n)
  <2>1. n - 1 \in Nat /\ (n - 1) + 1 = n /\ n <= n
    OBVIOUS
  <2>2. \A m \in Nat : m + 1 <= n => Good(m + 1)
    BY <1>5
  <2>3. (n - 1) + 1 <= n => Good((n - 1) + 1)
    BY <2>1, <2>2
  <2> QED BY <2>1, <2>3
<1>7. ASSUME NEW p \in 1 .. n, NEW T, NEW V,
             \A m \in 1 .. n : m # p => NoneIn(s[m], T)
      PROVE  /\ NoneIn(f[n], T) <=> NoneIn(s[p], T)
             /\ LastIn(s[p], T, V) => LastIn(f[n], T, V)
  <2>1. p <= n
    OBVIOUS
  <2> QED BY <1>6, <1>7, <2>1 DEF Good
<1>8. f[n] \in Seq(S)
  BY <1>6 DEF Good
<1> QED BY <1>1, <1>7, <1>8
-----------------------------------------------------------------------------
(* What is on its way, as each step changes it.                            *)

LEMMA NotTwo == 0 # 2 /\ 1 # 2
OBVIOUS

LEMMA GivenIs ==
  ASSUME NEW value
  PROVE  /\ Given("phase", value) <=> value # ""
         /\ Given("text", value) <=> value # ""
         /\ Given("queue", value) <=> value # 2
BY DEF Given

LEMMA InOne ==
  ASSUME NEW x, NEW T, NEW V
  PROVE  /\ NoneIn(<<x>>, T) <=> x \notin T
         /\ LastIn(<<x>>, T, V) <=> x \in T /\ x \in V
         /\ NoneIn(<<>>, T) /\ ~LastIn(<<>>, T, V)
<1>1. DOMAIN <<x>> = {1} /\ <<x>>[1] = x /\ DOMAIN <<>> = {}
  OBVIOUS
<1> QED BY <1>1 DEF NoneIn, LastIn

LEMMA Pushed ==
  ASSUME NEW new \in Seq(Events), NEW sent, NEW frames, NEW events \in Seq(Events), NEW T, NEW V
  PROVE  /\ NoneIn(events, T) /\ DueIn(new, sent, frames, T, V) => DueIn(new \o events, sent, frames, T, V)
         /\ NoneIn(events, T) /\ StillIn(new, sent, frames, T) => StillIn(new \o events, sent, frames, T)
         /\ LastIn(events, T, V) => DueIn(new \o events, sent, frames, T, V)
BY InConcat DEF DueIn, StillIn

LEMMA Shifted ==
  ASSUME NEW new \in Seq(Events), NEW sent \in Seq(Events), NEW frames, NEW T, NEW V
  PROVE  /\ DueIn(new, sent, frames, T, V) => DueIn(<<>>, sent \o new, frames, T, V)
         /\ StillIn(new, sent, frames, T) => StillIn(<<>>, sent \o new, frames, T)
BY InConcat, InOne DEF DueIn, StillIn

LEMMA Forwarded ==
  ASSUME NEW new, NEW sent \in Seq(Events), NEW frames \in Seq(Frames), sent # <<>>, NEW T, NEW V
  PROVE  /\ DueIn(new, sent, frames, T, V) => DueIn(new, Tail(sent), Append(frames, sent[1]), T, V)
         /\ StillIn(new, sent, frames, T) => StillIn(new, Tail(sent), Append(frames, sent[1]), T)
<1>1. /\ sent[1] \in Events /\ <<sent[1]>> \in Seq(Frames)
      /\ Append(frames, sent[1]) = frames \o <<sent[1]>>
  <2>1. sent[1] \in Events
    OBVIOUS
  <2>2. sent[1] \in Frames
    BY <2>1 DEF Frames
  <2> QED BY <2>1, <2>2
<1>2. /\ NoneIn(sent, T) <=> sent[1] \notin T /\ NoneIn(Tail(sent), T)
      /\ LastIn(sent, T, V) =>
           LastIn(Tail(sent), T, V) \/ (NoneIn(Tail(sent), T) /\ sent[1] \in T /\ sent[1] \in V)
  BY InTail
<1>3. /\ NoneIn(frames \o <<sent[1]>>, T) <=> NoneIn(frames, T) /\ NoneIn(<<sent[1]>>, T)
      /\ LastIn(<<sent[1]>>, T, V) => LastIn(frames \o <<sent[1]>>, T, V)
      /\ NoneIn(<<sent[1]>>, T) /\ LastIn(frames, T, V) => LastIn(frames \o <<sent[1]>>, T, V)
  BY <1>1, InConcat
<1> QED BY <1>1, <1>2, <1>3, InOne DEF DueIn, StillIn

LEMMA Received ==
  ASSUME NEW new, NEW sent, NEW frames \in Seq(Frames), frames # <<>>, NEW T, NEW V
  PROVE  /\ DueIn(new, sent, frames, T, V) =>
              \/ DueIn(new, sent, Tail(frames), T, V)
              \/ StillIn(new, sent, Tail(frames), T) /\ frames[1] \in T /\ frames[1] \in V
         /\ StillIn(new, sent, frames, T) => StillIn(new, sent, Tail(frames), T) /\ frames[1] \notin T
BY InTail DEF DueIn, StillIn

LEMMA Overtaken ==
  ASSUME NEW new, NEW sent, NEW frames \in Seq(Frames), NEW T, NEW V, NEW s \in Frames, s \in T, s \in V
  PROVE  DueIn(new, sent, frames, T, V) \/ StillIn(new, sent, frames, T)
           => DueIn(new, sent, Append(frames, s), T, V)
<1>1. Append(frames, s) = frames \o <<s>> /\ <<s>> \in Seq(Frames)
  OBVIOUS
<1>2. LastIn(Append(frames, s), T, V)
  <2>1. LastIn(<<s>>, T, V)
    BY InOne
  <2>2. LastIn(frames \o <<s>>, T, V)
    BY <1>1, <2>1, InConcat
  <2> QED BY <1>1, <2>2
<1> QED BY <1>2 DEF DueIn, StillIn

LEMMA Dropped ==
  ASSUME NEW new, NEW sent, NEW frames, NEW T, NEW V, NoneIn(new, T)
  PROVE  /\ DueIn(new, sent, frames, T, V) => DueIn(<<>>, sent, frames, T, V)
         /\ StillIn(new, sent, frames, T) => StillIn(<<>>, sent, frames, T)
<1>1. ~LastIn(new, T, V)
  BY DEF LastIn, NoneIn
<1> QED BY <1>1, InOne DEF DueIn, StillIn
-----------------------------------------------------------------------------
(* Events that tell a change of the record of pane p.                      *)

(* The events that tell a record r of pane p, and what they are about.     *)
Tellings(p, r) ==
  {<<Metadata(p, r), Attention(p, r)>>, <<Attention(p, r), Metadata(p, r)>>,
   <<Metadata(p, r)>>, <<Attention(p, r)>>}

Kinds(events) == {e.kind : e \in ToSet(events)}

LEMMA TellingsDiffer ==
  ASSUME NEW p, NEW r
  PROVE  /\ <<Metadata(p, r), Attention(p, r)>> \in Tellings(p, r)
         /\ <<Attention(p, r), Metadata(p, r)>> \in Tellings(p, r)
         /\ <<Metadata(p, r)>> \in Tellings(p, r) /\ <<Attention(p, r)>> \in Tellings(p, r)
         /\ <<Metadata(p, r), Attention(p, r)>> # <<Metadata(p, r)>>
         /\ <<Metadata(p, r), Attention(p, r)>> # <<Attention(p, r)>>
         /\ <<Attention(p, r), Metadata(p, r)>> # <<Metadata(p, r)>>
         /\ <<Metadata(p, r)>> # <<Attention(p, r)>>
<1>1. Attention(p, r).kind = "attention" /\ Metadata(p, r).kind = "metadata"
  BY DEF Attention, Metadata
<1> QED BY <1>1 DEF Tellings

(* They tell the attention of p or leave it, and so its status.            *)
LEMMA Two ==
  ASSUME NEW S, NEW x \in S, NEW y \in S
  PROVE  <<x, y>> = <<x>> \o <<y>> /\ <<x, y>> \in Seq(S) /\ Len(<<x, y>>) = 2
<1>1. <<x, y>> = Append(<<x>>, y)
  OBVIOUS
<1>2. Append(<<x>>, y) = <<x>> \o <<y>>
  <2>1. <<x>> \in Seq(S) /\ <<y>> \in Seq(S) /\ Len(<<x>>) = 1 /\ Len(<<y>>) = 1 /\ <<y>>[1] = y
    OBVIOUS
  <2> QED BY <2>1
<1>3. <<x, y>> \in Seq(S) /\ Len(<<x, y>>) = 2
  OBVIOUS
<1> QED BY <1>1, <1>2, <1>3

LEMMA Telling ==
  ASSUME NEW p \in Panes, NEW r \in Record,
         NEW events \in Tellings(p, r)
  PROVE  /\ events \in Seq(Events)
         /\ IF events = <<Metadata(p, r)>>
              THEN NoneIn(events, AttentionOf(p)) /\ "attention" \notin Kinds(events)
              ELSE LastIn(events, AttentionOf(p), AttentionIs(p, r.attention))
         /\ \A f \in StatusFields :
              /\ IF events # <<Attention(p, r)>> /\ Given(f, r[f])
                   THEN LastIn(events, StatusOf(p, f), StatusIs(p, f, r[f]))
                   ELSE NoneIn(events, StatusOf(p, f))
              /\ events = <<Attention(p, r)>> => "metadata" \notin Kinds(events)
         /\ NoneIn(events, TitleOf(p)) /\ "title" \notin Kinds(events)
         /\ \A q \in Panes \ {p} :
              /\ NoneIn(events, AttentionOf(q)) /\ NoneIn(events, TitleOf(q))
              /\ \A f \in StatusFields : NoneIn(events, StatusOf(q, f))
<1> DEFINE a == Attention(p, r)
           m == Metadata(p, r)
<1>1. /\ a \in Events /\ m \in Events /\ a \in Frames /\ m \in Frames
      /\ a.kind = "attention" /\ a.pane = p /\ a.state = r.attention
      /\ m.kind = "metadata" /\ m.pane = p
      /\ \A f \in StatusFields : m[f] = r[f]
  BY DEF Attention, Metadata, Events, Frames, Record, StatusFields
<1>2. /\ a \in AttentionOf(p) /\ a \in AttentionIs(p, r.attention) /\ m \notin AttentionOf(p)
      /\ a \notin TitleOf(p) /\ m \notin TitleOf(p)
  BY <1>1 DEF AttentionOf, AttentionIs, TitleOf
<1>3. \A f \in StatusFields :
        /\ a \notin StatusOf(p, f)
        /\ m \in StatusOf(p, f) <=> Given(f, r[f])
        /\ m \in StatusIs(p, f, r[f])
  BY <1>1 DEF StatusOf, StatusIs
<1>4. \A q \in Panes \ {p} :
        /\ a \notin AttentionOf(q) /\ m \notin AttentionOf(q) /\ a \notin TitleOf(q) /\ m \notin TitleOf(q)
        /\ \A f \in StatusFields : a \notin StatusOf(q, f) /\ m \notin StatusOf(q, f)
  BY <1>1 DEF AttentionOf, StatusOf, TitleOf
<1>5. /\ <<m, a>> = <<m>> \o <<a>> /\ <<a, m>> = <<a>> \o <<m>>
      /\ <<a>> \in Seq(Events) /\ <<m>> \in Seq(Events)
      /\ <<m, a>> # <<m>> /\ <<a, m>> # <<m>> /\ <<m, a>> # <<a>> /\ <<a, m>> # <<a>> /\ <<a>> # <<m>>
      /\ <<m, a>> \in Seq(Events) /\ <<a, m>> \in Seq(Events)
  <2>1. a # m /\ a \in Events /\ m \in Events
    BY <1>1
  <2> HIDE DEF a, m
  <2>2. <<a>> \in Seq(Events) /\ <<m>> \in Seq(Events)
    BY <2>1
  <2>3. <<m, a>> = <<m>> \o <<a>> /\ <<a, m>> = <<a>> \o <<m>>
    BY <2>1, Two
  <2>4. <<a>> # <<m>>
    BY <2>1
  <2>5. Len(<<m, a>>) = 2 /\ Len(<<a, m>>) = 2 /\ Len(<<a>>) = 1 /\ Len(<<m>>) = 1
    BY <2>1, Two
  <2>6. <<m, a>> \in Seq(Events) /\ <<a, m>> \in Seq(Events)
    BY <2>2, <2>3
  <2> QED BY <2>2, <2>3, <2>4, <2>5, <2>6
<1>6. /\ ToSet(<<m, a>>) = {a, m} /\ ToSet(<<a, m>>) = {a, m}
      /\ ToSet(<<m>>) = {m} /\ ToSet(<<a>>) = {a}
  <2> HIDE DEF a, m
  <2> QED BY DEF ToSet
<1>7. events \in {<<m>> \o <<a>>, <<a>> \o <<m>>, <<m>>, <<a>>}
  BY <1>5 DEF Tellings
<1> HIDE DEF a, m
<1>8. events \in Seq(Events)
  BY <1>5, <1>7
<1>9. \A T, V :
        /\ a \notin T /\ m \notin T => NoneIn(events, T)
        /\ a \notin T /\ events = <<a>> => NoneIn(events, T)
        /\ m \notin T /\ events = <<m>> => NoneIn(events, T)
        /\ a \in T /\ a \in V /\ m \notin T /\ events # <<m>> => LastIn(events, T, V)
        /\ m \in T /\ m \in V /\ a \notin T /\ events # <<a>> => LastIn(events, T, V)
  <2> TAKE T, V
  <2>1. /\ NoneIn(<<a>>, T) <=> a \notin T
        /\ NoneIn(<<m>>, T) <=> m \notin T
        /\ a \in T /\ a \in V => LastIn(<<a>>, T, V)
        /\ m \in T /\ m \in V => LastIn(<<m>>, T, V)
    BY InOne
  <2>2. /\ NoneIn(<<a>> \o <<m>>, T) <=> NoneIn(<<a>>, T) /\ NoneIn(<<m>>, T)
        /\ NoneIn(<<m>> \o <<a>>, T) <=> NoneIn(<<a>>, T) /\ NoneIn(<<m>>, T)
        /\ LastIn(<<m>>, T, V) => LastIn(<<a>> \o <<m>>, T, V)
        /\ LastIn(<<a>>, T, V) => LastIn(<<m>> \o <<a>>, T, V)
        /\ NoneIn(<<m>>, T) /\ LastIn(<<a>>, T, V) => LastIn(<<a>> \o <<m>>, T, V)
        /\ NoneIn(<<a>>, T) /\ LastIn(<<m>>, T, V) => LastIn(<<m>> \o <<a>>, T, V)
    BY <1>5, InConcat
  <2> QED BY <1>7, <2>1, <2>2, Zenon
<1>10. /\ events = <<m>> => Kinds(events) = {"metadata"}
       /\ events = <<a>> => Kinds(events) = {"attention"}
       /\ Kinds(events) \subseteq {"attention", "metadata"}
  <2>1. a.kind = "attention" /\ m.kind = "metadata"
    BY <1>1
  <2>2. ToSet(events) \subseteq {a, m}
    BY <1>6, <1>7, <1>5
  <2> QED BY <2>1, <2>2, <1>6 DEF Kinds
<1>11. /\ events = <<Metadata(p, r)>> <=> events = <<m>>
       /\ events = <<Attention(p, r)>> <=> events = <<a>>
  BY DEF a, m
<1>12. IF events = <<m>>
         THEN NoneIn(events, AttentionOf(p)) /\ "attention" \notin Kinds(events)
         ELSE LastIn(events, AttentionOf(p), AttentionIs(p, r.attention))
  BY <1>2, <1>9, <1>10
<1>13. ASSUME NEW f \in StatusFields
       PROVE  /\ IF events # <<a>> /\ Given(f, r[f])
                   THEN LastIn(events, StatusOf(p, f), StatusIs(p, f, r[f]))
                   ELSE NoneIn(events, StatusOf(p, f))
              /\ events = <<a>> => "metadata" \notin Kinds(events)
  <2>1. /\ a \notin StatusOf(p, f)
        /\ m \in StatusOf(p, f) <=> Given(f, r[f])
        /\ m \in StatusIs(p, f, r[f])
    BY <1>3
  <2>2. /\ events # <<a>> /\ Given(f, r[f]) => LastIn(events, StatusOf(p, f), StatusIs(p, f, r[f]))
        /\ ~(events # <<a>> /\ Given(f, r[f])) => NoneIn(events, StatusOf(p, f))
    BY <1>9, <2>1, Zenon
  <2>3. events = <<a>> => "metadata" \notin Kinds(events)
    BY <1>10
  <2> QED BY <2>2, <2>3
<1>14. NoneIn(events, TitleOf(p)) /\ "title" \notin Kinds(events)
  BY <1>2, <1>9, <1>10
<1>15. \A q \in Panes \ {p} :
         /\ NoneIn(events, AttentionOf(q)) /\ NoneIn(events, TitleOf(q))
         /\ \A f \in StatusFields : NoneIn(events, StatusOf(q, f))
  BY <1>4, <1>9
<1> QED BY <1>8, <1>11, <1>12, <1>13, <1>14, <1>15, Zenon
(* The requests of the UI that are left when one is served.                *)
LEMMA AskedTail ==
  ASSUME asked \in Seq(Panes \cup {Attach}), asked # <<>>
  PROVE  /\ asked[1] \in Panes \cup {Attach} /\ Tail(asked) \in Seq(Panes \cup {Attach})
         /\ \A q \in ToSet(asked) : q = asked[1] \/ q \in ToSet(Tail(asked))
<1>1. /\ asked[1] \in Panes \cup {Attach} /\ Tail(asked) \in Seq(Panes \cup {Attach})
      /\ DOMAIN asked = 1 .. Len(asked) /\ Len(asked) \in Nat
      /\ DOMAIN Tail(asked) = 1 .. (Len(asked) - 1)
      /\ \A i \in DOMAIN Tail(asked) : Tail(asked)[i] = asked[i + 1]
  OBVIOUS
<1>2. ASSUME NEW i \in DOMAIN asked, i # 1 PROVE asked[i] \in ToSet(Tail(asked))
  <2>1. i - 1 \in DOMAIN Tail(asked) /\ asked[i] = Tail(asked)[i - 1]
    BY <1>1, <1>2
  <2> QED BY <2>1 DEF ToSet
<1> QED BY <1>1, <1>2 DEF ToSet

LEMMA AskedMore ==
  ASSUME asked \in Seq(Panes \cup {Attach}), NEW x \in Panes \cup {Attach}
  PROVE  /\ Append(asked, x) \in Seq(Panes \cup {Attach})
         /\ ToSet(asked) \cup {x} \subseteq ToSet(Append(asked, x))
<1>1. /\ Append(asked, x) \in Seq(Panes \cup {Attach})
      /\ DOMAIN asked = 1 .. Len(asked) /\ Len(asked) \in Nat
      /\ DOMAIN Append(asked, x) = 1 .. (Len(asked) + 1)
      /\ \A i \in DOMAIN asked : Append(asked, x)[i] = asked[i]
      /\ Append(asked, x)[Len(asked) + 1] = x
  OBVIOUS
<1> QED BY <1>1 DEF ToSet

(* A step that gives pane p the record r and tells it with events: what is *)
(* not told does not change, and the requests of the UI that are left are  *)
(* all but one to clear p, unless r is not told to be cleared.             *)
Tells(p, r, events) ==
  /\ r \in Record /\ events \in Tellings(p, r) /\ Changed(p, r, events)
  /\ UNCHANGED <<screen, previous, queue, inbox, ui>>
  /\ events = <<Metadata(p, r)>> => r.attention = record[p].attention
  /\ \A f \in StatusFields :
       events = <<Attention(p, r)>> \/ ~Given(f, r[f]) => r[f] = record[p][f]
  /\ \/ asked' = asked
     \/ /\ asked # <<>> /\ asked[1] = p /\ asked' = Tail(asked)
        /\ events = <<Attention(p, r)>>
  /\ prompted' \in [Panes -> BOOLEAN]
  /\ \A q \in Panes : prompted'[q] => IF q = p THEN r = WorkStarted(record[p]) ELSE prompted[q]

LEMMA PushKeeps ==
  ASSUME StatusInv, NEW p \in Panes, NEW r, NEW events, Tells(p, r, events)
  PROVE  StatusInv'
<1>1. /\ Typing /\ Prompted
      /\ \A q \in Panes : /\ AttentionComes(q) /\ TitleComes(q)
                          /\ \A f \in StatusFields : StatusComes(q, f)
  BY DEF StatusInv
<1>2. /\ record' = [record EXCEPT ![p] = r] /\ pending' = pending \o events
      /\ gap' = [gap EXCEPT ![p] = @ \ Kinds(events)]
      /\ screen' = screen /\ previous' = previous /\ queue' = queue /\ inbox' = inbox
      /\ shown' = shown /\ focus' = focus /\ seen' = seen
  BY DEF Tells, Changed, Kinds, ui
<1>3. /\ events \in Seq(Events)
      /\ IF events = <<Metadata(p, r)>>
           THEN NoneIn(events, AttentionOf(p)) /\ "attention" \notin Kinds(events)
           ELSE LastIn(events, AttentionOf(p), AttentionIs(p, r.attention))
      /\ \A f \in StatusFields :
           /\ IF events # <<Attention(p, r)>> /\ Given(f, r[f])
                THEN LastIn(events, StatusOf(p, f), StatusIs(p, f, r[f]))
                ELSE NoneIn(events, StatusOf(p, f))
           /\ events = <<Attention(p, r)>> => "metadata" \notin Kinds(events)
      /\ NoneIn(events, TitleOf(p)) /\ "title" \notin Kinds(events)
      /\ \A q \in Panes \ {p} :
           /\ NoneIn(events, AttentionOf(q)) /\ NoneIn(events, TitleOf(q))
           /\ \A f \in StatusFields : NoneIn(events, StatusOf(q, f))
  BY Telling DEF Tells
<1>4. /\ record'[p] = r /\ gap'[p] = gap[p] \ Kinds(events)
      /\ \A q \in Panes \ {p} : record'[q] = record[q] /\ gap'[q] = gap[q]
  BY <1>1, <1>2 DEF Typing
<1>5. Typing'
  <2>1. asked' \in Seq(Panes \cup {Attach})
    BY <1>1, AskedTail DEF Typing, Tells
  <2>2. pending' \in Seq(Events)
    BY <1>1, <1>2, <1>3 DEF Typing
  <2>3. record' \in [Panes -> Record] /\ gap' \in [Panes -> SUBSET {"attention", "metadata", "title"}]
    BY <1>1, <1>2 DEF Typing, Tells
  <2> QED BY <1>1, <1>2, <2>1, <2>2, <2>3 DEF Typing, Tells
<1>6. Prompted'
  <2>1. ASSUME NEW q \in Panes, prompted'[q]
        PROVE  record'[q] = [attention |-> "active", phase |-> "working", text |-> "prompt sent",
                             queue |-> 1, completion |-> ""]
    <3>1. CASE q = p
      <4>1. r = WorkStarted(record[p])
        BY <2>1, <3>1 DEF Tells
      <4> QED BY <1>4, <3>1, <4>1 DEF WorkStarted
    <3>2. CASE q # p
      <4>1. record'[q] = record[q]
        BY <1>4, <3>2
      <4>2. prompted[q]
        BY <2>1, <3>2 DEF Tells
      <4> QED BY <1>1, <4>1, <4>2 DEF Prompted
    <3> QED BY <3>1, <3>2
  <2> QED BY <2>1 DEF Prompted
<1>7. \A T, V :
        /\ NoneIn(events, T) /\ Due(T, V) => DueIn(pending', queue', inbox', T, V)
        /\ NoneIn(events, T) /\ Still(T) => StillIn(pending', queue', inbox', T)
        /\ LastIn(events, T, V) => DueIn(pending', queue', inbox', T, V)
  <2>1. pending \in Seq(Events)
    BY <1>1 DEF Typing
  <2> QED BY <1>2, <1>3, <2>1, Pushed DEF Due, Still
<1>8. ASSUME NEW q \in Panes PROVE AttentionComes(q)'
  <2>1. CASE q = p /\ events # <<Metadata(p, r)>>
    <3>1. DueIn(pending', queue', inbox', AttentionOf(p), AttentionIs(p, record'[p].attention))
      BY <1>3, <1>4, <1>7, <2>1
    <3> QED BY <3>1, <2>1 DEF AttentionComes, Due
  <2>2. CASE q # p \/ events = <<Metadata(p, r)>>
    <3>1. NoneIn(events, AttentionOf(q)) /\ record'[q].attention = record[q].attention
      BY <1>3, <1>4, <2>2 DEF Tells
    <3>2. q \in ToSet(asked) => q \in ToSet(asked')
      <4>1. CASE asked' = asked
        BY <4>1
      <4>2. CASE asked # <<>> /\ asked[1] = p /\ asked' = Tail(asked) /\ events = <<Attention(p, r)>>
        <5>1. <<Attention(p, r)>> # <<Metadata(p, r)>>
          BY TellingsDiffer
        <5>2. q # p
          BY <2>2, <4>2, <5>1
        <5>3. asked \in Seq(Panes \cup {Attach})
          BY <1>1 DEF Typing
        <5> QED BY <4>2, <5>2, <5>3, AskedTail
      <4> QED BY <4>1, <4>2 DEF Tells
    <3>3. "attention" \in gap[q] => "attention" \in gap'[q]
      BY <1>3, <1>4, <2>2
    <3>4. AttentionComes(q)
      BY <1>1
    <3> QED BY <1>2, <1>7, <3>1, <3>2, <3>3, <3>4 DEF AttentionComes, Due, Still
  <2> QED BY <2>1, <2>2
<1>9. ASSUME NEW q \in Panes PROVE TitleComes(q)'
  <2>1. NoneIn(events, TitleOf(q)) /\ ("title" \in gap[q] => "title" \in gap'[q])
    BY <1>3, <1>4
  <2>2. TitleComes(q)
    BY <1>1
  <2> QED BY <1>2, <1>7, <2>1, <2>2 DEF TitleComes, Due, Still
<1>10. ASSUME NEW q \in Panes, NEW f \in StatusFields PROVE StatusComes(q, f)'
  <2>1. CASE q = p /\ events # <<Attention(p, r)>> /\ Given(f, r[f])
    <3>1. DueIn(pending', queue', inbox', StatusOf(p, f), StatusIs(p, f, record'[p][f]))
      BY <1>3, <1>4, <1>7, <2>1
    <3> QED BY <3>1, <2>1 DEF StatusComes, Due
  <2>2. CASE q # p \/ events = <<Attention(p, r)>> \/ ~Given(f, r[f])
    <3>1. NoneIn(events, StatusOf(q, f)) /\ record'[q][f] = record[q][f]
      BY <1>3, <1>4, <2>2 DEF Tells
    <3>2. "metadata" \in gap[q] /\ Given(f, record[q][f]) => "metadata" \in gap'[q]
      BY <1>3, <1>4, <2>2, <3>1
    <3>3. StatusComes(q, f)
      BY <1>1
    <3> QED BY <1>2, <1>7, <3>1, <3>2, <3>3 DEF StatusComes, Due, Still
  <2> QED BY <2>1, <2>2
<1> QED BY <1>5, <1>6, <1>8, <1>9, <1>10 DEF StatusInv
-----------------------------------------------------------------------------
(* Every step keeps StatusInv.                                             *)

LEMMA PromptKeeps == ASSUME StatusInv, NEW p \in Panes, Prompt(p) PROVE StatusInv'
<1> DEFINE r == WorkStarted(record[p])
<1>1. Typing
  BY DEF StatusInv
<1>2. /\ r \in Record /\ \A f \in StatusFields : Given(f, r[f])
  <2>1. r = [attention |-> "active", phase |-> "working", text |-> "prompt sent", queue |-> 1,
             completion |-> ""]
    BY DEF WorkStarted
  <2> HIDE DEF r
  <2>2. r \in Record
    BY <2>1 DEF Record, States, Words
  <2>3. Given("phase", r.phase) /\ Given("text", r.text) /\ Given("queue", r.queue)
    <3>1. r.phase = "working" /\ r.text = "prompt sent" /\ r.queue = 1
      BY <2>1
    <3>2. r.queue # 2
      BY <3>1, NotTwo, Zenon
    <3> QED BY <3>1, <3>2, GivenIs
  <2> QED BY <2>2, <2>3 DEF StatusFields
<1>3. /\ UNCHANGED <<screen, previous, queue, inbox, asked, ui>>
      /\ prompted' = [prompted EXCEPT ![p] = screen[p].reads]
  BY DEF Prompt
<1>4. /\ prompted' \in [Panes -> BOOLEAN]
      /\ \A q \in Panes \ {p} : prompted'[q] = prompted[q]
  BY <1>1, <1>3 DEF Typing
<1>5. CASE screen[p].reads
  <2>1. Changed(p, r, <<Metadata(p, r), Attention(p, r)>>)
    BY <1>5 DEF Prompt
  <2>3. \A q \in Panes : prompted'[q] => IF q = p THEN r = WorkStarted(record[p]) ELSE prompted[q]
    BY <1>4
  <2> HIDE DEF r
  <2>4. Tells(p, r, <<Metadata(p, r), Attention(p, r)>>)
    BY <1>2, <1>3, <1>4, <2>1, <2>3, TellingsDiffer DEF Tells
  <2> QED BY <2>4, PushKeeps
<1>6. CASE ~screen[p].reads
  <2>1. /\ record' = [record EXCEPT ![p] = r] /\ pending' = pending
        /\ gap' = [gap EXCEPT ![p] = @ \cup {"metadata", "attention"}]
    BY <1>6 DEF Prompt
  <2>2. ~prompted'[p]
    BY <1>1, <1>3, <1>6 DEF Typing
  <2> HIDE DEF r
  <2>3. Typing'
    BY <1>1, <1>2, <1>3, <1>4, <2>1 DEF Typing, ui
  <2>4. Prompted'
    BY <1>1, <1>4, <2>1, <2>2 DEF StatusInv, Prompted, Typing
  <2>5. ASSUME NEW q \in Panes
        PROVE /\ AttentionComes(q)' /\ TitleComes(q)' /\ \A f \in StatusFields : StatusComes(q, f)'
    <3>1. /\ AttentionComes(q) /\ TitleComes(q) /\ \A f \in StatusFields : StatusComes(q, f)
      BY DEF StatusInv
    <3>2. CASE q = p
      <4>1. record'[p] = r /\ gap'[p] = gap[p] \cup {"metadata", "attention"}
        BY <1>1, <2>1 DEF Typing
      <4>2. TitleComes(q)'
        BY <1>3, <2>1, <3>1, <3>2, <4>1 DEF TitleComes, Due, Still, ui
      <4> QED BY <1>2, <3>2, <4>1, <4>2 DEF AttentionComes, StatusComes
    <3>3. CASE q # p
      <4>1. record'[q] = record[q] /\ gap'[q] = gap[q]
        BY <1>1, <2>1, <3>3 DEF Typing
      <4> QED BY <1>3, <2>1, <3>1, <4>1 DEF AttentionComes, StatusComes, TitleComes, Due, Still, ui
    <3> QED BY <3>2, <3>3
  <2> QED BY <2>3, <2>4, <2>5 DEF StatusInv
<1> QED BY <1>5, <1>6

LEMMA NotifyKeeps ==
  ASSUME StatusInv, NEW p \in Panes, NEW state \in States, Notify(p, state) PROVE StatusInv'
<1> DEFINE r == Notified(record[p], state)
<1>1. Typing
  BY DEF StatusInv
<1>2. /\ UNCHANGED <<screen, previous, queue, inbox, asked, ui>>
      /\ prompted' = [prompted EXCEPT ![p] = FALSE]
      /\ Changed(p, r, <<Attention(p, r), Metadata(p, r)>>)
  BY DEF Notify
<1>3. /\ prompted' \in [Panes -> BOOLEAN]
      /\ \A q \in Panes : prompted'[q] => q # p /\ prompted[q]
  BY <1>1, <1>2 DEF Typing
<1>4. record[p] \in Record
  BY <1>1 DEF Typing
<1>5. /\ r \in Record
      /\ \A f \in StatusFields : ~Given(f, r[f]) => r[f] = record[p][f]
  <2>1. CASE state = "active"
    <3>1. r = [record[p] EXCEPT !.attention = "active"]
      BY <1>4, <2>1 DEF Notified, WithStatus, Record
    <3> QED BY <1>4, <3>1 DEF Record, States, Words, StatusFields
  <2>2. CASE state = "done"
    <3>1. r = [attention |-> "done", phase |-> "done", text |-> record[p].text, queue |-> 0, completion |-> "done"]
      <4>1. r = [WithStatus(record[p], [phase |-> "done", queue |-> 0, completion |-> "done"])
                   EXCEPT !.attention = "done"]
        BY <2>2 DEF Notified
      <4> QED BY <1>4, <4>1 DEF WithStatus, Record
    <3> HIDE DEF r
    <3>2. /\ r.attention \in States /\ r.phase \in Words /\ r.queue \in Nat /\ r.completion \in Words
          /\ r.phase # "" /\ r.queue = 0 /\ r.text = record[p].text /\ r.text \in Words
      BY <1>4, <3>1 DEF Record, States, Words
    <3>3. r.queue # 2
      BY <3>2, NotTwo, Zenon
    <3>4. r \in Record
      BY <3>1, <3>2 DEF Record
    <3> QED BY <3>2, <3>3, <3>4, GivenIs DEF StatusFields
  <2>3. CASE state \in {"needs-attention", "error"}
    <3>1. r = [attention |-> state, phase |-> state, text |-> record[p].text, queue |-> 0,
               completion |-> record[p].completion]
      <4>1. r = [WithStatus(record[p], [phase |-> state, queue |-> 0]) EXCEPT !.attention = state]
        BY <2>3 DEF Notified
      <4> QED BY <1>4, <4>1 DEF WithStatus, Record
    <3> HIDE DEF r
    <3>2. /\ r.attention \in States /\ r.phase \in Words /\ r.queue \in Nat /\ r.completion \in Words
          /\ r.phase # "" /\ r.queue = 0 /\ r.text = record[p].text /\ r.text \in Words
      BY <1>4, <2>3, <3>1 DEF Record, States, Words
    <3>3. r.queue # 2
      BY <3>2, NotTwo, Zenon
    <3>4. r \in Record
      BY <3>1, <3>2 DEF Record
    <3> QED BY <3>2, <3>3, <3>4, GivenIs DEF StatusFields
  <2> QED BY <2>1, <2>2, <2>3 DEF States
<1> HIDE DEF r
<1>6. Tells(p, r, <<Attention(p, r), Metadata(p, r)>>)
  BY <1>2, <1>3, <1>5, TellingsDiffer DEF Tells
<1> QED BY <1>6, PushKeeps

LEMMA SetStatusKeeps ==
  ASSUME StatusInv, NEW p \in Panes, NEW report \in Reports, SetStatus(p, report) PROVE StatusInv'
<1> DEFINE r == WithStatus(record[p], report)
<1>1. Typing
  BY DEF StatusInv
<1>2. /\ UNCHANGED <<screen, previous, queue, inbox, asked, ui>>
      /\ prompted' = [prompted EXCEPT ![p] = FALSE]
      /\ Changed(p, r, <<Metadata(p, r)>>)
  BY DEF SetStatus
<1>3. /\ prompted' \in [Panes -> BOOLEAN]
      /\ \A q \in Panes : prompted'[q] => q # p /\ prompted[q]
  BY <1>1, <1>2 DEF Typing
<1>4. record[p] \in Record
  BY <1>1 DEF Typing
<1>5. /\ r \in Record /\ r.attention = record[p].attention
      /\ \A f \in StatusFields : ~Given(f, r[f]) => r[f] = record[p][f]
  <2>1. /\ DOMAIN report \subseteq {"phase", "text", "queue", "completion"}
        /\ \A f \in DOMAIN report :
             /\ f \in {"phase", "text"} => report[f] \in STRING \ {""}
             /\ f = "queue" => report[f] \in Nat \ {2}
             /\ f = "completion" => report[f] \in STRING
    BY ReportsAreStatuses
  <2>2. r = [f \in {"attention", "phase", "text", "queue", "completion"} |->
               IF f \in DOMAIN report THEN report[f] ELSE record[p][f]]
    <3>1. DOMAIN record[p] = {"attention", "phase", "text", "queue", "completion"}
      BY <1>4 DEF Record
    <3> QED BY <3>1 DEF WithStatus
  <2>3. /\ r = [attention |-> record[p].attention, phase |-> r.phase, text |-> r.text,
                queue |-> r.queue, completion |-> r.completion]
        /\ r.attention = record[p].attention
    BY <2>1, <2>2
  <2>4. \A f \in StatusFields :
          r[f] = IF f \in DOMAIN report THEN report[f] ELSE record[p][f]
    BY <2>2 DEF StatusFields
  <2>5. /\ r.phase \in Words /\ r.text \in Words /\ r.queue \in Nat
        /\ r.completion \in Words /\ r.attention \in States
    BY <1>4, <2>1, <2>2, ZenonT(30) DEF Record, Words
  <2>6. r \in Record
    <3> HIDE DEF r
    <3> QED BY <2>3, <2>5 DEF Record
  <2>7. \A f \in StatusFields : ~Given(f, r[f]) => r[f] = record[p][f]
    BY <2>1, <2>4 DEF StatusFields, Given
  <2> QED BY <2>3, <2>6, <2>7
<1> HIDE DEF r
<1>6. Tells(p, r, <<Metadata(p, r)>>)
  BY <1>2, <1>3, <1>5, TellingsDiffer DEF Tells
<1> QED BY <1>6, PushKeeps

(* Attention is cleared: for a client, or for the UI whose request is      *)
(* served.                                                                 *)
LEMMA ClearKeeps ==
  ASSUME StatusInv, NEW p \in Panes, NEW r, r = [record[p] EXCEPT !.attention = "active"],
         Changed(p, r, <<Attention(p, r)>>), UNCHANGED <<screen, previous, queue, inbox, ui>>,
         prompted' = [prompted EXCEPT ![p] = FALSE],
         asked' = asked \/ (asked # <<>> /\ asked[1] = p /\ asked' = Tail(asked))
  PROVE  StatusInv'
<1>1. Typing
  BY DEF StatusInv
<1>2. /\ prompted' \in [Panes -> BOOLEAN]
      /\ \A q \in Panes : prompted'[q] => q # p /\ prompted[q]
  BY <1>1 DEF Typing
<1>3. record[p] \in Record
  BY <1>1 DEF Typing
<1>4. r \in Record /\ \A f \in StatusFields : r[f] = record[p][f]
  BY <1>3 DEF Record, States, StatusFields
<1>5. Tells(p, r, <<Attention(p, r)>>)
  BY <1>2, <1>4, TellingsDiffer DEF Tells
<1> QED BY <1>5, PushKeeps

LEMMA ClearAttentionKeeps == ASSUME StatusInv, NEW p \in Panes, ClearAttention(p) PROVE StatusInv'
<1>1. /\ UNCHANGED <<screen, previous, queue, inbox, ui>> /\ asked' = asked
      /\ prompted' = [prompted EXCEPT ![p] = FALSE]
      /\ \E r : r = [record[p] EXCEPT !.attention = "active"] /\ Changed(p, r, <<Attention(p, r)>>)
  BY DEF ClearAttention
<1> QED BY <1>1, ClearKeeps

(* Steps that change nothing the claims of StatusInv are about, but for    *)
(* requests the UI adds.                                                   *)
LEMMA RestKeeps ==
  ASSUME StatusInv, Typing',
         UNCHANGED <<record, previous, pending, queue, inbox, gap, shown, seen, prompted>>,
         ToSet(asked) \subseteq ToSet(asked')
  PROVE  StatusInv'
<1>1. Prompted'
  BY DEF StatusInv, Prompted
<1>2. ASSUME NEW q \in Panes
      PROVE  /\ AttentionComes(q)' /\ TitleComes(q)'
             /\ \A f \in StatusFields : StatusComes(q, f)'
  <2>1. AttentionComes(q) /\ TitleComes(q) /\ \A f \in StatusFields : StatusComes(q, f)
    BY DEF StatusInv
  <2> QED BY <2>1 DEF AttentionComes, TitleComes, StatusComes, Due, Still
<1> QED BY <1>1, <1>2 DEF StatusInv

LEMMA ProgramKeeps == ASSUME StatusInv, NEW p \in Panes, Program(p) PROVE StatusInv'
<1>1. Typing
  BY DEF StatusInv
<1>2. UNCHANGED <<record, previous, pending, queue, inbox, asked, gap, shown, focus, seen, prompted>>
  BY DEF Program, ui
<1>3. screen' \in [Panes -> [title : Words, notes : {0, 1}, reads : BOOLEAN]]
  <2>1. screen \in [Panes -> [title : Words, notes : {0, 1}, reads : BOOLEAN]]
    BY <1>1 DEF Typing
  <2>2. CASE \E t \in Titles \cup {""} : screen' = [screen EXCEPT ![p].title = t]
    <3>1. PICK t \in Titles \cup {""} : screen' = [screen EXCEPT ![p].title = t]
      BY <2>2
    <3>2. t \in Words
      BY PaneStatusAssumption DEF Words
    <3> QED BY <2>1, <3>1, <3>2
  <2>3. CASE screen' = [screen EXCEPT ![p].notes = 1]
    BY <2>1, <2>3
  <2>4. CASE screen' = [screen EXCEPT ![p].reads = ~@]
    BY <2>1, <2>4
  <2> QED BY <2>2, <2>3, <2>4 DEF Program
<1>4. Typing'
  BY <1>1, <1>2, <1>3 DEF Typing
<1> QED BY <1>2, <1>4, RestKeeps

LEMMA FocusKeeps ==
  ASSUME StatusInv, focus' \in Panes, UNCHANGED <<host, queue, inbox, asked, shown, seen>>
  PROVE  StatusInv'
<1>1. Typing
  BY DEF StatusInv
<1>2. UNCHANGED <<record, screen, previous, pending, queue, inbox, asked, gap, shown, seen, prompted>>
  BY DEF host
<1>3. Typing'
  BY <1>1, <1>2 DEF Typing
<1> QED BY <1>2, <1>3, RestKeeps

LEMMA RefreshKeeps == ASSUME StatusInv, Refresh PROVE StatusInv'
<1>1. Typing
  BY DEF StatusInv
<1>2. /\ UNCHANGED <<record, screen, previous, pending, queue, inbox, gap, shown, focus, seen, prompted>>
      /\ asked' = Append(asked, Attach)
  BY DEF Refresh, host, ui
<1>3. asked' \in Seq(Panes \cup {Attach}) /\ ToSet(asked) \subseteq ToSet(asked')
  BY <1>1, <1>2, AskedMore DEF Typing
<1>4. Typing'
  BY <1>1, <1>2, <1>3 DEF Typing
<1> QED BY <1>2, <1>3, <1>4, RestKeeps

LEMMA ClearFocusedKeeps == ASSUME StatusInv, ClearFocused PROVE StatusInv'
<1>1. Typing
  BY DEF StatusInv
<1>2. /\ UNCHANGED <<record, screen, previous, pending, queue, inbox, gap, focus, seen, prompted>>
      /\ shown' = [shown EXCEPT ![focus].attention = "active"]
      /\ asked' = Append(asked, focus)
  BY DEF ClearFocused, host
<1>3. /\ asked' \in Seq(Panes \cup {Attach})
      /\ ToSet(asked) \cup {focus} \subseteq ToSet(asked')
  BY <1>1, <1>2, AskedMore DEF Typing
<1>4. /\ shown' \in [Panes -> View]
      /\ \A q \in Panes \ {focus} : shown'[q] = shown[q]
      /\ \A q \in Panes : /\ shown'[q].title = shown[q].title
                          /\ \A f \in StatusFields : shown'[q][f] = shown[q][f]
  BY <1>1, <1>2, ZenonT(30) DEF Typing, View, States, StatusFields
<1>5. Typing'
  BY <1>1, <1>2, <1>3, <1>4 DEF Typing
<1>6. Prompted'
  BY <1>2 DEF StatusInv, Prompted
<1>7. ASSUME NEW q \in Panes
      PROVE  /\ AttentionComes(q)' /\ TitleComes(q)'
             /\ \A f \in StatusFields : StatusComes(q, f)'
  <2>1. AttentionComes(q) /\ TitleComes(q) /\ \A f \in StatusFields : StatusComes(q, f)
    BY DEF StatusInv
  <2>2. TitleComes(q)' /\ \A f \in StatusFields : StatusComes(q, f)'
    BY <1>2, <1>4, <2>1 DEF TitleComes, StatusComes, Due, Still
  <2>3. CASE q = focus
    BY <1>3, <2>2, <2>3 DEF AttentionComes
  <2>4. CASE q # focus
    BY <1>2, <1>3, <1>4, <2>1, <2>2, <2>4 DEF AttentionComes, Due, Still
  <2> QED BY <2>3, <2>4
<1> QED BY <1>5, <1>6, <1>7 DEF StatusInv

(* There is a first and a last of some panes, so going to the next that    *)
(* asks for attention goes to a pane.                                      *)
LEMMA Least ==
  ASSUME NEW S \in SUBSET Nat, S # {}
  PROVE  \E x \in S : \A y \in S : x <= y
<1> DEFINE R == {ss \in Nat \X Nat : ss[1] < ss[2]}
<1>1. IsWellFoundedOn(R, Nat)
  BY NatLessThanWellFounded DEF OpToRel
<1>2. PICK x \in S : \A y \in S : <<y, x>> \notin R
  <2> HIDE DEF R
  <2> QED BY <1>1, WFMin
<1>3. ASSUME NEW y \in S PROVE x <= y
  <2>1. ~(y < x)
    <3>1. ASSUME y < x PROVE FALSE
      <4>1. <<y, x>> \in Nat \X Nat /\ <<y, x>>[1] < <<y, x>>[2]
        BY <3>1
      <4>2. <<y, x>> \in R
        BY <4>1
      <4> QED BY <1>2, <4>2
    <3> QED BY <3>1
  <2> QED BY <2>1
<1> QED BY <1>3

LEMMA Greatest ==
  ASSUME NEW n \in Nat, NEW S \in SUBSET (1 .. n), S # {}
  PROVE  \E x \in S : \A y \in S : x >= y
<1> DEFINE D == {n - x : x \in S}
<1>1. D \in SUBSET Nat /\ D # {}
  <2>1. \A x \in S : n - x \in Nat
    OBVIOUS
  <2>2. PICK x \in S : TRUE
    OBVIOUS
  <2>3. n - x \in D
    OBVIOUS
  <2> QED BY <2>1, <2>3
<1>2. PICK d \in D : \A e \in D : d <= e
  <2> HIDE DEF D
  <2> QED BY <1>1, Least
<1>3. PICK x \in S : d = n - x
  OBVIOUS
<1>4. ASSUME NEW y \in S PROVE x >= y
  <2>1. n - y \in D
    OBVIOUS
  <2>2. n - x <= n - y
    BY <1>2, <1>3, <2>1
  <2> QED BY <2>2
<1> QED BY <1>4

LEMMA NextAttentionIn ==
  ASSUME NEW from \in Panes, NEW forward \in BOOLEAN
  PROVE  NextAttention(from, forward) \in Panes
<1> DEFINE ahead == {p \in Unread : IF forward THEN p > from ELSE p < from}
           among == IF ahead = {} THEN Unread ELSE ahead
<1>1. among \subseteq Panes
  BY DEF Unread
<1>2. CASE among = {}
  BY <1>2 DEF NextAttention
<1>3. CASE among # {}
  <2>1. \E p \in among : \A q \in among : IF forward THEN p <= q ELSE p >= q
    <3> HIDE DEF among
    <3>1. Cardinality(Panes) \in Nat
      BY PaneStatusAssumption, FS_CardinalityType
    <3>2. PICK n \in Nat : Panes = 1 .. n
      BY <3>1, PaneStatusAssumption
    <3>3. among \in SUBSET (1 .. n) /\ among \in SUBSET Nat
      BY <1>1, <3>2
    <3>4. CASE forward
      <4>1. PICK p \in among : \A q \in among : p <= q
        BY <1>3, <3>3, Least
      <4> QED BY <3>4, <4>1
    <3>5. CASE ~forward
      <4>1. PICK p \in among : \A q \in among : p >= q
        BY <1>3, <3>3, Greatest
      <4> QED BY <3>5, <4>1
    <3> QED BY <3>4, <3>5
  <2>2. NextAttention(from, forward)
          = CHOOSE p \in among : \A q \in among : IF forward THEN p <= q ELSE p >= q
    BY <1>3 DEF NextAttention
  <2> HIDE DEF among
  <2> QED BY <1>1, <2>1, <2>2
<1> QED BY <1>2, <1>3

LEMMA GoToAttentionKeeps == ASSUME StatusInv, GoToAttention PROVE StatusInv'
<1>1. focus \in Panes
  BY DEF StatusInv, Typing
<1>2. focus' \in Panes /\ UNCHANGED <<host, queue, inbox, asked, shown, seen>>
  BY <1>1, NextAttentionIn DEF GoToAttention
<1> QED BY <1>2, FocusKeeps

LEMMA FocusPaneKeeps == ASSUME StatusInv, NEW p \in Panes, FocusPane(p) PROVE StatusInv'
BY FocusKeeps DEF FocusPane

LEMMA OnePane == 1 \in Panes
<1>1. Cardinality(Panes) \in Nat
  BY PaneStatusAssumption, FS_CardinalityType
<1>2. PICK n \in Nat : Panes = 1 .. n
  BY <1>1, PaneStatusAssumption
<1>3. PICK x \in Panes : TRUE
  BY PaneStatusAssumption
<1>4. x \in 1 .. n
  BY <1>2
<1>5. 1 \in 1 .. n
  BY <1>4
<1> QED BY <1>2, <1>5

LEMMA ReopenKeeps == ASSUME StatusInv, Reopen PROVE StatusInv'
<1>1. Typing
  BY DEF StatusInv
<1>2. /\ record' = [p \in Panes |-> Fresh]
      /\ screen' = [p \in Panes |-> [title |-> "", notes |-> 0, reads |-> TRUE]]
      /\ gap' = [p \in Panes |-> IF previous[p] = "" THEN {} ELSE {"title"}]
      /\ prompted' = [p \in Panes |-> FALSE]
      /\ pending' = <<>> /\ queue' = <<>> /\ inbox' = <<>> /\ asked' = <<Attach>>
      /\ shown' = [p \in Panes |-> Unknown]
      /\ focus' = 1 /\ seen' = [p \in Panes |-> FALSE] /\ previous' = previous
  BY DEF Reopen
<1>3. /\ Fresh = [attention |-> "active", phase |-> "", text |-> "", queue |-> 2, completion |-> ""]
      /\ Unknown = [attention |-> "active", phase |-> "", text |-> "", queue |-> 2, title |-> ""]
      /\ \A f \in StatusFields : Unknown[f] = Fresh[f]
  BY DEF Fresh, Unknown, StatusFields
<1>4. Fresh \in Record /\ Unknown \in View
  BY <1>3 DEF Record, View, States, Words
<1>5. 1 \in Panes
  BY OnePane
<1>6. Typing'
  <2>1. [title |-> "", notes |-> 0, reads |-> TRUE] \in [title : Words, notes : {0, 1}, reads : BOOLEAN]
    BY DEF Words
  <2>2. asked' \in Seq(Panes \cup {Attach})
    <3>1. Attach \in Panes \cup {Attach}
      OBVIOUS
    <3>2. <<Attach>> \in Seq(Panes \cup {Attach})
      BY <3>1
    <3> QED BY <1>2, <3>2
  <2>3. \A p \in Panes : gap'[p] \in SUBSET {"attention", "metadata", "title"}
    BY <1>2
  <2>4. gap' \in [Panes -> SUBSET {"attention", "metadata", "title"}]
    BY <1>2, <2>3
  <2>5. record' \in [Panes -> Record] /\ shown' \in [Panes -> View]
    BY <1>2, <1>4
  <2>6. screen' \in [Panes -> [title : Words, notes : {0, 1}, reads : BOOLEAN]]
    BY <1>2, <2>1
  <2>7. /\ previous' \in [Panes -> Words] /\ focus' \in Panes
        /\ seen' \in [Panes -> BOOLEAN] /\ prompted' \in [Panes -> BOOLEAN]
    BY <1>1, <1>2, <1>5 DEF Typing
  <2>8. pending' \in Seq(Events) /\ queue' \in Seq(Events) /\ inbox' \in Seq(Frames)
    <3>1. <<>> \in Seq(Events) /\ <<>> \in Seq(Frames)
      OBVIOUS
    <3> QED BY <1>2, <3>1, Zenon
  <2> QED BY <2>2, <2>4, <2>5, <2>6, <2>7, <2>8 DEF Typing
<1>7. Prompted'
  BY <1>2 DEF Prompted
<1>8. \A T : Still(T)'
  BY <1>2, InOne DEF Still, StillIn
<1>9. ASSUME NEW q \in Panes
      PROVE  /\ AttentionComes(q)' /\ TitleComes(q)'
             /\ \A f \in StatusFields : StatusComes(q, f)'
  <2>1. record'[q] = Fresh /\ shown'[q] = Unknown
    BY <1>2
  <2>2. AttentionComes(q)'
    <3>1. Unknown.attention = Fresh.attention
      BY <1>3
    <3> QED BY <3>1, <1>8, <2>1 DEF AttentionComes
  <2>3. \A f \in StatusFields : StatusComes(q, f)'
    BY <1>3, <1>8, <2>1 DEF StatusComes
  <2>4. TitleComes(q)'
    <3>1. CASE previous[q] = ""
      BY <1>2, <1>3, <1>8, <2>1, <3>1 DEF TitleComes
    <3>2. CASE previous[q] # ""
      BY <1>2, <3>2 DEF TitleComes
    <3> QED BY <3>1, <3>2
  <2> QED BY <2>2, <2>3, <2>4
<1> QED BY <1>6, <1>7, <1>9 DEF StatusInv

LEMMA ForwardKeeps == ASSUME StatusInv, Forward PROVE StatusInv'
<1>1. Typing
  BY DEF StatusInv
<1>2. /\ queue # <<>> /\ inbox' = Append(inbox, queue[1]) /\ queue' = Tail(queue)
      /\ UNCHANGED <<record, screen, previous, pending, asked, gap, shown, focus, seen, prompted>>
  BY DEF Forward, host, ui
<1>3. queue \in Seq(Events) /\ inbox \in Seq(Frames)
  BY <1>1 DEF Typing
<1>4. queue' \in Seq(Events) /\ inbox' \in Seq(Frames)
  <2>1. queue[1] \in Events /\ Tail(queue) \in Seq(Events)
    BY <1>2, <1>3
  <2>2. queue[1] \in Frames
    BY <2>1 DEF Frames
  <2> QED BY <1>2, <1>3, <2>1, <2>2
<1>5. Typing'
  BY <1>1, <1>2, <1>4 DEF Typing
<1>6. Prompted'
  BY <1>2 DEF StatusInv, Prompted
<1>7. \A T, V :
        /\ Due(T, V) => DueIn(pending', queue', inbox', T, V)
        /\ Still(T) => StillIn(pending', queue', inbox', T)
  BY <1>2, <1>3, Forwarded DEF Due, Still
<1>8. ASSUME NEW q \in Panes
      PROVE  /\ AttentionComes(q)' /\ TitleComes(q)'
             /\ \A f \in StatusFields : StatusComes(q, f)'
  <2>1. AttentionComes(q) /\ TitleComes(q) /\ \A f \in StatusFields : StatusComes(q, f)
    BY DEF StatusInv
  <2> QED BY <1>2, <1>7, <2>1 DEF AttentionComes, TitleComes, StatusComes, Due, Still
<1> QED BY <1>5, <1>6, <1>8 DEF StatusInv

(* What a frame does to the view of pane q.                                *)
LEMMA AppliedIs ==
  ASSUME Typing, NEW h \in Frames, NEW q \in Panes
  PROVE  /\ Applied(h) \in [Panes -> View]
         /\ h \notin AttentionOf(q) => Applied(h)[q].attention = shown[q].attention
         /\ \A v : h \in AttentionOf(q) /\ h \in AttentionIs(q, v) =>
              \/ Applied(h)[q].attention = v
              \/ /\ h.kind = "attention" /\ h.pane = q /\ q = focus /\ h.state = "needs-attention"
                 /\ Applied(h)[q].attention = "active"
         /\ h \notin TitleOf(q) => Applied(h)[q].title = shown[q].title
         /\ \A v : h \in TitleOf(q) /\ h \in TitleIs(q, v) => Applied(h)[q].title = v
         /\ \A f \in StatusFields :
              /\ h \notin StatusOf(q, f) => Applied(h)[q][f] = shown[q][f]
              /\ \A v : h \in StatusOf(q, f) /\ h \in StatusIs(q, f, v) => Applied(h)[q][f] = v
<1>1. shown \in [Panes -> View] /\ shown[q] \in View
  BY DEF Typing
<1>2. CASE h.kind = "snapshot"
  <2>1. Applied(h) = h.panes
    BY <1>2 DEF Applied
  <2>2. h.panes \in [Panes -> View]
    BY <1>2 DEF Frames, Events
  <2> QED BY <1>2, <2>1, <2>2 DEF AttentionOf, AttentionIs, TitleOf, TitleIs, StatusOf, StatusIs
<1>3. CASE h.kind = "attention"
  <2>1. Applied(h) = [shown EXCEPT ![h.pane].attention = FocusAware(h.pane, h.state)]
    BY <1>3 DEF Applied
  <2>2. h.pane \in Panes /\ h.state \in States
    BY <1>3 DEF Frames, Events
  <2>3. FocusAware(h.pane, h.state) \in States
    BY <2>2 DEF FocusAware, States
  <2>4. /\ Applied(h) \in [Panes -> View]
        /\ Applied(h)[q] = IF q = h.pane THEN [shown[q] EXCEPT !.attention = FocusAware(h.pane, h.state)]
                                         ELSE shown[q]
    BY <1>1, <2>1, <2>2, <2>3 DEF View
  <2>5. /\ Applied(h)[q].attention = IF q = h.pane THEN FocusAware(q, h.state) ELSE shown[q].attention
        /\ Applied(h)[q].title = shown[q].title
        /\ \A f \in StatusFields : Applied(h)[q][f] = shown[q][f]
    BY <1>1, <2>4 DEF View, StatusFields
  <2>6. /\ h \notin TitleOf(q) /\ \A f \in StatusFields : h \notin StatusOf(q, f)
        /\ h \in AttentionOf(q) <=> h.pane = q
        /\ \A v : h \in AttentionIs(q, v) <=> h.state = v
    BY <1>3 DEF TitleOf, StatusOf, AttentionOf, AttentionIs
  <2>7. FocusAware(q, h.state) = h.state
          \/ (q = focus /\ h.state = "needs-attention" /\ FocusAware(q, h.state) = "active")
    BY DEF FocusAware
  <2>8. \A v : h \in AttentionOf(q) /\ h \in AttentionIs(q, v) =>
          \/ Applied(h)[q].attention = v
          \/ /\ h.kind = "attention" /\ h.pane = q /\ q = focus /\ h.state = "needs-attention"
             /\ Applied(h)[q].attention = "active"
    BY <1>3, <2>5, <2>6, <2>7
  <2> QED BY <2>4, <2>5, <2>6, <2>8
<1>4. CASE h.kind = "title"
  <2>1. Applied(h) = [shown EXCEPT ![h.pane].title = h.title]
    BY <1>4 DEF Applied
  <2>2. h.pane \in Panes /\ h.title \in Words
    BY <1>4 DEF Frames, Events
  <2>3. /\ Applied(h) \in [Panes -> View]
        /\ Applied(h)[q] = IF q = h.pane THEN [shown[q] EXCEPT !.title = h.title] ELSE shown[q]
    BY <1>1, <2>1, <2>2 DEF View
  <2>4. /\ Applied(h)[q].title = IF q = h.pane THEN h.title ELSE shown[q].title
        /\ Applied(h)[q].attention = shown[q].attention
        /\ \A f \in StatusFields : Applied(h)[q][f] = shown[q][f]
    BY <1>1, <2>3 DEF View, StatusFields
  <2>5. /\ h \notin AttentionOf(q) /\ \A f \in StatusFields : h \notin StatusOf(q, f)
        /\ h \in TitleOf(q) <=> h.pane = q
        /\ \A v : h \in TitleIs(q, v) <=> h.title = v
    BY <1>4 DEF TitleOf, StatusOf, AttentionOf, TitleIs
  <2> QED BY <2>3, <2>4, <2>5
<1>5. CASE h.kind = "metadata"
  <2> DEFINE g == [f \in {x \in {"phase", "text", "queue"} : Given(x, h[x])} |-> h[f]]
  <2>1. Applied(h) = [shown EXCEPT ![h.pane] = WithStatus(@, g)]
    BY <1>5 DEF Applied
  <2>2. h.pane \in Panes /\ h.phase \in Words /\ h.text \in Words /\ h.queue \in Nat
    BY <1>5 DEF Frames, Events
  <2>3. /\ DOMAIN g = {f \in StatusFields : Given(f, h[f])}
        /\ \A f \in DOMAIN g : g[f] = h[f]
    BY DEF StatusFields
  <2> HIDE DEF g
  <2>4. ASSUME NEW w \in View
        PROVE  /\ WithStatus(w, g) \in View
               /\ WithStatus(w, g).attention = w.attention /\ WithStatus(w, g).title = w.title
               /\ \A f \in StatusFields : WithStatus(w, g)[f] = IF Given(f, h[f]) THEN h[f] ELSE w[f]
    <3>1. WithStatus(w, g) = [f \in {"attention", "phase", "text", "queue", "title"} |->
                                IF f \in DOMAIN g THEN g[f] ELSE w[f]]
      BY DEF WithStatus, View
    <3>2. /\ WithStatus(w, g).attention = w.attention /\ WithStatus(w, g).title = w.title
          /\ \A f \in StatusFields : WithStatus(w, g)[f] = IF Given(f, h[f]) THEN h[f] ELSE w[f]
      BY <2>3, <3>1 DEF StatusFields
    <3>3. /\ WithStatus(w, g).attention \in States /\ WithStatus(w, g).title \in Words
          /\ WithStatus(w, g).phase \in Words /\ WithStatus(w, g).text \in Words
          /\ WithStatus(w, g).queue \in Nat
      BY <2>2, <3>2 DEF View, StatusFields
    <3>4. WithStatus(w, g) = [attention |-> WithStatus(w, g).attention, phase |-> WithStatus(w, g).phase,
                              text |-> WithStatus(w, g).text, queue |-> WithStatus(w, g).queue,
                              title |-> WithStatus(w, g).title]
      BY <3>1
    <3>5. WithStatus(w, g) \in View
      BY <3>3, <3>4 DEF View
    <3> QED BY <3>2, <3>5
  <2>5. /\ Applied(h) \in [Panes -> View]
        /\ Applied(h)[q] = IF q = h.pane THEN WithStatus(shown[q], g) ELSE shown[q]
    BY <1>1, <2>1, <2>2, <2>4
  <2>6. /\ Applied(h)[q].title = shown[q].title /\ Applied(h)[q].attention = shown[q].attention
        /\ \A f \in StatusFields : Applied(h)[q][f] = IF q = h.pane /\ Given(f, h[f]) THEN h[f] ELSE shown[q][f]
    BY <1>1, <2>4, <2>5
  <2>7. /\ h \notin AttentionOf(q) /\ h \notin TitleOf(q)
        /\ \A f \in StatusFields : h \in StatusOf(q, f) <=> h.pane = q /\ Given(f, h[f])
        /\ \A f \in StatusFields : \A v : h \in StatusIs(q, f, v) <=> h[f] = v
    BY <1>5 DEF TitleOf, StatusOf, AttentionOf, StatusIs
  <2> QED BY <2>5, <2>6, <2>7
<1>6. h.kind \in {"snapshot", "attention", "title", "metadata"}
  BY DEF Frames, Events
<1> QED BY <1>2, <1>3, <1>4, <1>5, <1>6

LEMMA ReadKeeps == ASSUME StatusInv, Read PROVE StatusInv'
<1> DEFINE h == inbox[1]
<1>1. Typing
  BY DEF StatusInv
<1>2. /\ inbox # <<>> /\ inbox' = Tail(inbox) /\ shown' = Applied(h)
      /\ seen' = CASE h.kind = "snapshot" -> [p \in Panes |-> FALSE]
                   [] h.kind = "attention" ->
                        [seen EXCEPT ![h.pane] = (h.pane = focus /\ h.state = "needs-attention")]
                   [] OTHER -> seen
      /\ UNCHANGED <<record, screen, previous, pending, queue, asked, gap, focus, prompted>>
  BY DEF Read, host
<1>3. h \in Frames /\ inbox' \in Seq(Frames)
  BY <1>1, <1>2, InTail DEF Typing
<1>4. \A q \in Panes :
        /\ Applied(h) \in [Panes -> View]
        /\ h \notin AttentionOf(q) => Applied(h)[q].attention = shown[q].attention
        /\ \A v : h \in AttentionOf(q) /\ h \in AttentionIs(q, v) =>
             \/ Applied(h)[q].attention = v
             \/ /\ h.kind = "attention" /\ h.pane = q /\ q = focus /\ h.state = "needs-attention"
                /\ Applied(h)[q].attention = "active"
        /\ h \notin TitleOf(q) => Applied(h)[q].title = shown[q].title
        /\ \A v : h \in TitleOf(q) /\ h \in TitleIs(q, v) => Applied(h)[q].title = v
        /\ \A f \in StatusFields :
             /\ h \notin StatusOf(q, f) => Applied(h)[q][f] = shown[q][f]
             /\ \A v : h \in StatusOf(q, f) /\ h \in StatusIs(q, f, v) => Applied(h)[q][f] = v
  BY <1>1, <1>3, AppliedIs
<1> HIDE DEF h
<1>5. /\ seen' \in [Panes -> BOOLEAN]
      /\ \A q \in Panes : h \notin AttentionOf(q) => seen'[q] = seen[q]
      /\ \A q \in Panes :
           h.kind = "attention" /\ h.pane = q /\ q = focus /\ h.state = "needs-attention" => seen'[q]
  <2>1. seen \in [Panes -> BOOLEAN]
    BY <1>1 DEF Typing
  <2>2. h.kind = "attention" => h.pane \in Panes
    BY <1>3 DEF Frames, Events
  <2>3. CASE h.kind = "snapshot"
    BY <1>2, <1>3, <2>3 DEF AttentionOf
  <2>4. CASE h.kind = "attention"
    <3>1. seen' = [seen EXCEPT ![h.pane] = (h.pane = focus /\ h.state = "needs-attention")]
      BY <1>2, <2>4
    <3>2. \A q \in Panes : h \in AttentionOf(q) <=> h.pane = q
      BY <1>3, <2>4 DEF AttentionOf
    <3> QED BY <2>1, <2>2, <2>4, <3>1, <3>2
  <2>5. CASE h.kind \notin {"snapshot", "attention"}
    <3>1. seen' = seen
      BY <1>2, <2>5
    <3> QED BY <2>1, <2>5, <3>1
  <2> QED BY <2>3, <2>4, <2>5
<1>6. Typing'
  <2>1. \E q : q \in Panes
    BY PaneStatusAssumption
  <2>2. shown' \in [Panes -> View]
    BY <1>2, <1>4, <2>1
  <2> QED BY <1>1, <1>2, <1>3, <1>5, <2>2 DEF Typing
<1>7. Prompted'
  BY <1>2 DEF StatusInv, Prompted
<1>8. \A T, V :
        /\ Due(T, V) => \/ DueIn(pending', queue', inbox', T, V)
                        \/ StillIn(pending', queue', inbox', T) /\ h \in T /\ h \in V
        /\ Still(T) => StillIn(pending', queue', inbox', T) /\ h \notin T
  <2>1. inbox \in Seq(Frames)
    BY <1>1 DEF Typing
  <2> QED BY <1>2, <2>1, Received DEF Due, Still, h
<1>9. ASSUME NEW q \in Panes PROVE AttentionComes(q)'
  <2> DEFINE T == AttentionOf(q)
             V == AttentionIs(q, record[q].attention)
  <2>1. AttentionComes(q)
    BY DEF StatusInv
  <2>2. /\ Due(T, V) => \/ DueIn(pending', queue', inbox', T, V)
                        \/ StillIn(pending', queue', inbox', T) /\ h \in T /\ h \in V
        /\ Still(T) => StillIn(pending', queue', inbox', T) /\ h \notin T
    BY <1>8
  <2>3. CASE q \in ToSet(asked) \/ "attention" \in gap[q] \/ DueIn(pending', queue', inbox', T, V)
    BY <1>2, <2>3 DEF AttentionComes, Due
  <2>4. CASE Still(T) /\ (shown[q].attention = record[q].attention \/ (seen[q] /\ shown[q].attention = "active"))
    <3>1. shown'[q].attention = shown[q].attention /\ seen'[q] = seen[q]
      BY <1>2, <1>4, <1>5, <2>2, <2>4
    <3> QED BY <1>2, <2>2, <2>4, <3>1 DEF AttentionComes, Still
  <2>5. CASE StillIn(pending', queue', inbox', T) /\ h \in T /\ h \in V
    <3>1. \/ shown'[q].attention = record[q].attention
          \/ seen'[q] /\ shown'[q].attention = "active"
      BY <1>2, <1>4, <1>5, <2>5
    <3> QED BY <1>2, <2>5, <3>1 DEF AttentionComes, Still
  <2> QED BY <2>1, <2>2, <2>3, <2>4, <2>5 DEF AttentionComes
<1>10. ASSUME NEW q \in Panes PROVE TitleComes(q)'
  <2>1. TitleComes(q)
    BY DEF StatusInv
  <2> QED BY <1>2, <1>4, <1>8, <2>1 DEF TitleComes, Due, Still
<1>11. ASSUME NEW q \in Panes, NEW f \in StatusFields PROVE StatusComes(q, f)'
  <2>1. StatusComes(q, f)
    BY DEF StatusInv
  <2> QED BY <1>2, <1>4, <1>8, <2>1 DEF StatusComes, Due, Still
<1> QED BY <1>6, <1>7, <1>9, <1>10, <1>11 DEF StatusInv

(* A snapshot is what the host keeps, but for titles not compared yet.     *)
LEMMA SnapshotTells ==
  ASSUME Typing
  PROVE  /\ Snapshot \in Frames
         /\ \A q \in Panes :
              /\ Snapshot \in AttentionOf(q) /\ Snapshot \in AttentionIs(q, record[q].attention)
              /\ Snapshot \in TitleOf(q) /\ Snapshot \in TitleIs(q, screen[q].title)
              /\ \A f \in StatusFields :
                   Snapshot \in StatusOf(q, f) /\ Snapshot \in StatusIs(q, f, record[q][f])
<1> DEFINE v(q) == [attention |-> record[q].attention, phase |-> record[q].phase, text |-> record[q].text,
                    queue |-> record[q].queue, title |-> screen[q].title]
<1>1. ASSUME NEW q \in Panes
      PROVE  /\ v(q) \in View
             /\ v(q).attention = record[q].attention /\ v(q).title = screen[q].title
             /\ \A f \in StatusFields : v(q)[f] = record[q][f]
  <2>1. record[q] \in Record /\ screen[q] \in [title : Words, notes : {0, 1}, reads : BOOLEAN]
    BY DEF Typing
  <2> QED BY <2>1 DEF Record, View, StatusFields
<1>2. /\ Snapshot.kind = "snapshot" /\ Snapshot.panes = [q \in Panes |-> v(q)]
      /\ Snapshot = [kind |-> "snapshot", panes |-> [q \in Panes |-> v(q)]]
  BY DEF Snapshot
<1> HIDE DEF v
<1>3. [q \in Panes |-> v(q)] \in [Panes -> View]
  BY <1>1
<1>4. Snapshot \in Frames
  BY <1>2, <1>3 DEF Frames
<1> QED BY <1>1, <1>2, <1>4 DEF AttentionOf, AttentionIs, TitleOf, TitleIs, StatusOf, StatusIs

LEMMA ServeKeeps == ASSUME StatusInv, Serve PROVE StatusInv'
<1>1. Typing
  BY DEF StatusInv
<1>2. /\ asked # <<>> /\ asked' = Tail(asked)
      /\ UNCHANGED <<shown, focus, seen>>
  BY DEF Serve, ui
<1>3. /\ asked[1] \in Panes \cup {Attach} /\ Tail(asked) \in Seq(Panes \cup {Attach})
      /\ \A q \in ToSet(asked) : q = asked[1] \/ q \in ToSet(Tail(asked))
  BY <1>1, <1>2, AskedTail DEF Typing
<1>4. CASE asked[1] # Attach
  <2>1. asked[1] \in Panes
    BY <1>3, <1>4
  <2>2. PICK p \in Panes : p = asked[1]
    BY <2>1
  <2>3. PICK r : r = [record[p] EXCEPT !.attention = "active"]
    OBVIOUS
  <2>4. /\ Changed(p, r, <<Attention(p, r)>>) /\ prompted' = [prompted EXCEPT ![p] = FALSE]
        /\ UNCHANGED <<screen, previous, queue, inbox, ui>>
    BY <1>4, <2>2, <2>3 DEF Serve
  <2> QED BY <1>2, <2>2, <2>3, <2>4, ClearKeeps
<1>5. CASE asked[1] = Attach
  <2>1. /\ inbox' = Append(inbox, Snapshot)
        /\ gap' = [p \in Panes |-> IF Told(p) = <<>> THEN gap[p] ELSE gap[p] \cup {"title"}]
        /\ UNCHANGED <<record, screen, previous, pending, prompted, queue>>
    BY <1>5 DEF Serve
  <2>2. inbox' \in Seq(Frames)
    BY <1>1, <2>1, SnapshotTells DEF Typing
  <2>3. gap' \in [Panes -> SUBSET {"attention", "metadata", "title"}]
    BY <1>1, <2>1 DEF Typing
  <2>4. Typing'
    BY <1>1, <1>2, <1>3, <2>1, <2>2, <2>3 DEF Typing
  <2>5. Prompted'
    BY <2>1 DEF StatusInv, Prompted
  <2>6. \A T, V : Snapshot \in T /\ Snapshot \in V /\ (Due(T, V) \/ Still(T))
                    => DueIn(pending', queue', inbox', T, V)
    <3>1. inbox \in Seq(Frames) /\ Snapshot \in Frames
      BY <1>1, SnapshotTells DEF Typing
    <3> QED BY <2>1, <3>1, Overtaken DEF Due, Still
  <2>7. ASSUME NEW q \in Panes
        PROVE  /\ AttentionComes(q)' /\ TitleComes(q)'
               /\ \A f \in StatusFields : StatusComes(q, f)'
    <3>1. AttentionComes(q) /\ TitleComes(q) /\ \A f \in StatusFields : StatusComes(q, f)
      BY DEF StatusInv
    <3>2. gap[q] \subseteq gap'[q]
      BY <2>1
    <3>3. q # Attach
      <4>1. q # 0
        <5>1. Cardinality(Panes) \in Nat
          BY PaneStatusAssumption, FS_CardinalityType
        <5>2. q \in 1 .. Cardinality(Panes)
          BY PaneStatusAssumption
        <5> QED BY <5>1, <5>2
      <4> QED BY <4>1 DEF Attach
    <3>4. AttentionComes(q)'
      <4>1. Snapshot \in AttentionOf(q) /\ Snapshot \in AttentionIs(q, record[q].attention)
        BY <1>1, SnapshotTells
      <4> QED BY <1>2, <1>3, <1>5, <2>1, <2>6, <3>1, <3>2, <3>3, <4>1 DEF AttentionComes, Due
    <3>5. ASSUME NEW f \in StatusFields PROVE StatusComes(q, f)'
      <4>1. Snapshot \in StatusOf(q, f) /\ Snapshot \in StatusIs(q, f, record[q][f])
        BY <1>1, SnapshotTells
      <4> QED BY <2>1, <2>6, <3>1, <3>2, <4>1 DEF StatusComes, Due
    <3>6. TitleComes(q)'
      <4>1. CASE screen[q].title = previous[q]
        <5>1. Snapshot \in TitleOf(q) /\ Snapshot \in TitleIs(q, previous[q])
          BY <1>1, <4>1, SnapshotTells
        <5> QED BY <2>1, <2>6, <3>1, <3>2, <5>1 DEF TitleComes, Due
      <4>2. CASE screen[q].title # previous[q]
        <5>1. Told(q) # <<>>
          BY <4>2 DEF Told
        <5>2. "title" \in gap'[q]
          BY <2>1, <5>1
        <5> QED BY <5>2 DEF TitleComes
      <4> QED BY <4>1, <4>2
    <3> QED BY <3>4, <3>5, <3>6
  <2> QED BY <2>4, <2>5, <2>7 DEF StatusInv
<1> QED BY <1>4, <1>5

(* What the tick tells of pane p.                                          *)
News(p) == Told(p) \o Raised(p)

LEMMA NewsIs ==
  ASSUME Typing, NEW p \in Panes
  PROVE  /\ News(p) \in Seq(Events)
         /\ \A q \in Panes : \A f \in StatusFields : NoneIn(News(p), StatusOf(q, f))
         /\ IF screen[p].notes = 0
              THEN NoneIn(News(p), AttentionOf(p)) /\ "attention" \notin Kinds(News(p))
              ELSE LastIn(News(p), AttentionOf(p), AttentionIs(p, "needs-attention"))
         /\ IF screen[p].title = previous[p]
              THEN NoneIn(News(p), TitleOf(p)) /\ "title" \notin Kinds(News(p))
              ELSE LastIn(News(p), TitleOf(p), TitleIs(p, screen[p].title))
         /\ \A q \in Panes \ {p} : NoneIn(News(p), AttentionOf(q)) /\ NoneIn(News(p), TitleOf(q))
         /\ "metadata" \notin Kinds(News(p))
<1> DEFINE t == Title(p, screen[p].title)
           a == [kind |-> "attention", pane |-> p, state |-> "needs-attention"]
<1>1. screen[p] \in [title : Words, notes : {0, 1}, reads : BOOLEAN]
  BY DEF Typing
<1>2. /\ t \in Events /\ t \in Frames /\ t.kind = "title" /\ t.pane = p /\ t.title = screen[p].title
      /\ a \in Events /\ a \in Frames /\ a.kind = "attention" /\ a.pane = p /\ a.state = "needs-attention"
  BY <1>1 DEF Title, Events, Frames, States
<1>3. /\ t \in TitleOf(p) /\ t \in TitleIs(p, screen[p].title)
      /\ a \in AttentionOf(p) /\ a \in AttentionIs(p, "needs-attention")
      /\ \A q \in Panes : /\ t \notin AttentionOf(q)
                          /\ a \notin TitleOf(q)
                          /\ \A f \in StatusFields : t \notin StatusOf(q, f) /\ a \notin StatusOf(q, f)
      /\ \A q \in Panes \ {p} : t \notin TitleOf(q) /\ a \notin AttentionOf(q)
  BY <1>2 DEF TitleOf, TitleIs, AttentionOf, AttentionIs, StatusOf
<1>4. /\ Told(p) = IF screen[p].title = previous[p] THEN <<>> ELSE <<t>>
      /\ Raised(p) = IF screen[p].notes = 0 THEN <<>> ELSE <<a>>
  BY DEF Told, Raised
<1> HIDE DEF t, a
<1>5. /\ Told(p) \in Seq(Events) /\ Raised(p) \in Seq(Events) /\ News(p) \in Seq(Events)
  <2>1. <<>> \in Seq(Events) /\ <<t>> \in Seq(Events) /\ <<a>> \in Seq(Events)
    BY <1>2
  <2>2. Told(p) \in Seq(Events) /\ Raised(p) \in Seq(Events)
    BY <1>4, <2>1
  <2> QED BY <2>2 DEF News
<1>6. \A T, V :
        /\ t \notin T /\ a \notin T => NoneIn(News(p), T)
        /\ t \notin T /\ screen[p].notes = 0 => NoneIn(News(p), T)
        /\ a \notin T /\ screen[p].title = previous[p] => NoneIn(News(p), T)
        /\ a \in T /\ a \in V /\ screen[p].notes # 0 => LastIn(News(p), T, V)
        /\ t \in T /\ t \in V /\ a \notin T /\ screen[p].title # previous[p] => LastIn(News(p), T, V)
  <2> TAKE T, V
  <2>1. /\ NoneIn(News(p), T) <=> NoneIn(Told(p), T) /\ NoneIn(Raised(p), T)
        /\ LastIn(Raised(p), T, V) => LastIn(News(p), T, V)
        /\ NoneIn(Raised(p), T) /\ LastIn(Told(p), T, V) => LastIn(News(p), T, V)
    BY <1>5, InConcat DEF News
  <2>2. /\ NoneIn(<<t>>, T) <=> t \notin T
        /\ NoneIn(<<a>>, T) <=> a \notin T
        /\ NoneIn(<<>>, T)
        /\ t \in T /\ t \in V => LastIn(<<t>>, T, V)
        /\ a \in T /\ a \in V => LastIn(<<a>>, T, V)
    BY InOne
  <2>3. /\ NoneIn(Told(p), T) <=> screen[p].title = previous[p] \/ t \notin T
        /\ NoneIn(Raised(p), T) <=> screen[p].notes = 0 \/ a \notin T
        /\ screen[p].title # previous[p] /\ t \in T /\ t \in V => LastIn(Told(p), T, V)
        /\ screen[p].notes # 0 /\ a \in T /\ a \in V => LastIn(Raised(p), T, V)
    BY <1>4, <2>2
  <2> QED BY <2>1, <2>3
<1>7. /\ screen[p].notes = 0 => "attention" \notin Kinds(News(p))
      /\ screen[p].title = previous[p] => "title" \notin Kinds(News(p))
      /\ "metadata" \notin Kinds(News(p))
  <2> DEFINE K(T) == {e \in Events : e.kind = T}
  <2>1. \A T : NoneIn(News(p), K(T)) => T \notin Kinds(News(p))
    <3> TAKE T
    <3>1. ASSUME NoneIn(News(p), K(T)), NEW e \in ToSet(News(p)), e.kind = T PROVE FALSE
      <4>1. PICK i \in DOMAIN News(p) : e = News(p)[i]
        BY <1>5, <3>1 DEF ToSet
      <4>2. e \in Events
        BY <1>5, <4>1
      <4> QED BY <3>1, <4>1, <4>2 DEF NoneIn
    <3> QED BY <3>1 DEF Kinds
  <2>2. /\ t \notin K("attention") /\ a \notin K("title") /\ t \notin K("metadata") /\ a \notin K("metadata")
    BY <1>2
  <2> HIDE DEF K
  <2> QED BY <1>6, <2>1, <2>2
<1>8. \A q \in Panes : \A f \in StatusFields : NoneIn(News(p), StatusOf(q, f))
  BY <1>3, <1>6
<1>9. IF screen[p].notes = 0
        THEN NoneIn(News(p), AttentionOf(p)) /\ "attention" \notin Kinds(News(p))
        ELSE LastIn(News(p), AttentionOf(p), AttentionIs(p, "needs-attention"))
  BY <1>3, <1>6, <1>7
<1>10. IF screen[p].title = previous[p]
         THEN NoneIn(News(p), TitleOf(p)) /\ "title" \notin Kinds(News(p))
         ELSE LastIn(News(p), TitleOf(p), TitleIs(p, screen[p].title))
  BY <1>3, <1>6, <1>7
<1>11. \A q \in Panes \ {p} : NoneIn(News(p), AttentionOf(q)) /\ NoneIn(News(p), TitleOf(q))
  BY <1>3, <1>6
<1> QED BY <1>5, <1>7, <1>8, <1>9, <1>10, <1>11

LEMMA TickKeeps == ASSUME StatusInv, Tick PROVE StatusInv'
<1> DEFINE told == FlattenSeq([p \in Panes |-> News(p)])
<1>1. Typing
  BY DEF StatusInv
<1>2. /\ queue' = queue \o (pending \o told) /\ pending' = <<>>
      /\ previous' = [p \in Panes |-> screen[p].title]
      /\ record' = [p \in Panes |->
                      IF screen[p].notes = 0 THEN record[p] ELSE [record[p] EXCEPT !.attention = "needs-attention"]]
      /\ screen' = [p \in Panes |-> [screen[p] EXCEPT !.notes = 0]]
      /\ prompted' = [p \in Panes |-> prompted[p] /\ screen[p].notes = 0]
      /\ gap' = [p \in Panes |-> gap[p] \ Kinds(News(p))]
      /\ UNCHANGED <<inbox, asked, shown, focus, seen>>
  BY DEF Tick, Asking, News, Kinds, ui
<1>3. /\ told \in Seq(Events)
      /\ \A q \in Panes : \A T, V :
           (\A p \in Panes : p # q => NoneIn(News(p), T)) =>
             /\ NoneIn(told, T) <=> NoneIn(News(q), T)
             /\ LastIn(News(q), T, V) => LastIn(told, T, V)
  <2>1. PICK n \in Nat : Panes = 1 .. n
    <3>1. Cardinality(Panes) \in Nat
      BY PaneStatusAssumption, FS_CardinalityType
    <3> QED BY <3>1, PaneStatusAssumption
  <2>2. n # 0
    BY <2>1, OnePane
  <2> DEFINE s == [p \in Panes |-> News(p)]
  <2>3. s \in [1 .. n -> Seq(Events)] /\ \A p \in Panes : s[p] = News(p)
    BY <1>1, <2>1, NewsIs
  <2>4. told = FlattenSeq(s)
    OBVIOUS
  <2> HIDE DEF s, told
  <2>5. /\ FlattenSeq(s) \in Seq(Events)
        /\ \A p \in 1 .. n : \A T, V :
             (\A m \in 1 .. n : m # p => NoneIn(s[m], T)) =>
               /\ NoneIn(FlattenSeq(s), T) <=> NoneIn(s[p], T)
               /\ LastIn(s[p], T, V) => LastIn(FlattenSeq(s), T, V)
    BY <2>2, <2>3, Flattened
  <2>6. ASSUME NEW q \in Panes, NEW T, NEW V,
               \A p \in Panes : p # q => NoneIn(News(p), T)
        PROVE  /\ NoneIn(told, T) <=> NoneIn(News(q), T)
               /\ LastIn(News(q), T, V) => LastIn(told, T, V)
    <3>1. q \in 1 .. n /\ s[q] = News(q)
      BY <2>1, <2>3
    <3>2. \A m \in 1 .. n : m # q => NoneIn(s[m], T)
      BY <2>1, <2>3, <2>6
    <3> QED BY <2>4, <2>5, <3>1, <3>2
  <2> QED BY <2>4, <2>5, <2>6
<1> HIDE DEF told
<1>4. pending \in Seq(Events) /\ queue \in Seq(Events)
  BY <1>1 DEF Typing
<1>5. \A T, V :
        /\ NoneIn(told, T) /\ Due(T, V) => DueIn(pending', queue', inbox', T, V)
        /\ NoneIn(told, T) /\ Still(T) => StillIn(pending', queue', inbox', T)
        /\ LastIn(told, T, V) => DueIn(pending', queue', inbox', T, V)
  <2> TAKE T, V
  <2>1. /\ NoneIn(told, T) /\ DueIn(pending, queue, inbox, T, V) => DueIn(pending \o told, queue, inbox, T, V)
        /\ NoneIn(told, T) /\ StillIn(pending, queue, inbox, T) => StillIn(pending \o told, queue, inbox, T)
        /\ LastIn(told, T, V) => DueIn(pending \o told, queue, inbox, T, V)
    BY <1>3, <1>4, Pushed
  <2>2. pending \o told \in Seq(Events)
    BY <1>3, <1>4
  <2>3. /\ DueIn(pending \o told, queue, inbox, T, V) => DueIn(<<>>, queue \o (pending \o told), inbox, T, V)
        /\ StillIn(pending \o told, queue, inbox, T) => StillIn(<<>>, queue \o (pending \o told), inbox, T)
    BY <1>4, <2>2, Shifted
  <2> QED BY <1>2, <2>1, <2>3 DEF Due, Still
<1>6. Typing'
  <2>1. /\ record' \in [Panes -> Record] /\ screen' \in [Panes -> [title : Words, notes : {0, 1}, reads : BOOLEAN]]
        /\ previous' \in [Panes -> Words] /\ prompted' \in [Panes -> BOOLEAN]
    <3>1. /\ record \in [Panes -> Record] /\ screen \in [Panes -> [title : Words, notes : {0, 1}, reads : BOOLEAN]]
          /\ prompted \in [Panes -> BOOLEAN]
      BY <1>1 DEF Typing
    <3>2. \A w \in Record : [w EXCEPT !.attention = "needs-attention"] \in Record
      BY DEF Record, States
    <3>3. record' \in [Panes -> Record]
      BY <1>2, <3>1, <3>2
    <3>4. screen' \in [Panes -> [title : Words, notes : {0, 1}, reads : BOOLEAN]]
      BY <1>2, <3>1
    <3>5. previous' \in [Panes -> Words] /\ prompted' \in [Panes -> BOOLEAN]
      BY <1>2, <3>1
    <3> QED BY <3>3, <3>4, <3>5
  <2>2. gap' \in [Panes -> SUBSET {"attention", "metadata", "title"}]
    BY <1>1, <1>2 DEF Typing
  <2>3. queue' \in Seq(Events) /\ pending' \in Seq(Events)
    BY <1>2, <1>3, <1>4
  <2> QED BY <1>1, <1>2, <2>1, <2>2, <2>3 DEF Typing
<1>7. Prompted'
  BY <1>2 DEF StatusInv, Prompted
<1>8. ASSUME NEW q \in Panes
      PROVE  /\ AttentionComes(q)' /\ TitleComes(q)'
             /\ \A f \in StatusFields : StatusComes(q, f)'
  <2>1. AttentionComes(q) /\ TitleComes(q) /\ \A f \in StatusFields : StatusComes(q, f)
    BY DEF StatusInv
  <2>2. /\ \A p \in Panes : p # q => NoneIn(News(p), AttentionOf(q)) /\ NoneIn(News(p), TitleOf(q))
        /\ \A p \in Panes : \A f \in StatusFields : NoneIn(News(p), StatusOf(q, f))
    BY <1>1, NewsIs
  <2>3. gap'[q] = gap[q] \ Kinds(News(q))
    BY <1>2
  <2>4. AttentionComes(q)'
    <3>1. CASE screen[q].notes = 0
      <4>1. NoneIn(News(q), AttentionOf(q)) /\ "attention" \notin Kinds(News(q))
        BY <1>1, <3>1, NewsIs
      <4>2. NoneIn(told, AttentionOf(q)) /\ record'[q] = record[q]
        BY <1>2, <1>3, <2>2, <3>1, <4>1
      <4> QED BY <1>2, <1>5, <2>1, <2>3, <4>1, <4>2 DEF AttentionComes, Due, Still
    <3>2. CASE screen[q].notes # 0
      <4>1. LastIn(News(q), AttentionOf(q), AttentionIs(q, "needs-attention"))
        BY <1>1, <3>2, NewsIs
      <4>2. LastIn(told, AttentionOf(q), AttentionIs(q, "needs-attention"))
        BY <1>3, <2>2, <4>1
      <4>3. record'[q].attention = "needs-attention"
        BY <1>1, <1>2, <3>2 DEF Typing, Record
      <4> QED BY <1>5, <4>2, <4>3 DEF AttentionComes, Due
    <3> QED BY <3>1, <3>2
  <2>5. TitleComes(q)'
    <3>0. previous'[q] = screen[q].title
      BY <1>2
    <3>1. CASE screen[q].title = previous[q]
      <4>1. NoneIn(News(q), TitleOf(q)) /\ "title" \notin Kinds(News(q))
        BY <1>1, <3>1, NewsIs
      <4>2. NoneIn(told, TitleOf(q))
        BY <1>3, <2>2, <4>1
      <4> QED BY <1>2, <1>5, <2>1, <2>3, <3>0, <3>1, <4>1, <4>2 DEF TitleComes, Due, Still
    <3>2. CASE screen[q].title # previous[q]
      <4>1. LastIn(News(q), TitleOf(q), TitleIs(q, screen[q].title))
        BY <1>1, <3>2, NewsIs
      <4>2. LastIn(told, TitleOf(q), TitleIs(q, screen[q].title))
        BY <1>3, <2>2, <4>1
      <4> QED BY <1>5, <3>0, <4>2 DEF TitleComes, Due
    <3> QED BY <3>1, <3>2
  <2>6. ASSUME NEW f \in StatusFields PROVE StatusComes(q, f)'
    <3>1. NoneIn(told, StatusOf(q, f))
      BY <1>3, <2>2
    <3>2. record'[q][f] = record[q][f]
      BY <1>1, <1>2 DEF Typing, Record, StatusFields
    <3>3. "metadata" \notin Kinds(News(q))
      BY <1>1, NewsIs
    <3> QED BY <1>2, <1>5, <2>1, <2>3, <3>1, <3>2, <3>3 DEF StatusComes, Due, Still
  <2> QED BY <2>4, <2>5, <2>6
<1> QED BY <1>6, <1>7, <1>8 DEF StatusInv

(* What was pending is lost, and what the tick had found: a claim that     *)
(* rested on it is excused.                                                *)
LEMMA TickPanicsKeeps ==
  ASSUME StatusInv, NEW drained \in SUBSET Panes, TickPanics(drained)
  PROVE  StatusInv'
<1> DEFINE found(p) == IF p \in drained THEN News(p) ELSE <<>>
<1>1. Typing
  BY DEF StatusInv
<1>2. /\ gap' = [p \in Panes |-> gap[p] \cup {e.kind : e \in {x \in ToSet(pending) : x.pane = p} \cup ToSet(found(p))}]
      /\ pending' = <<>>
      /\ previous' = [p \in Panes |-> IF p \in drained THEN screen[p].title ELSE previous[p]]
      /\ record' = [p \in Panes |-> IF p \in drained THEN Asking(p) ELSE record[p]]
      /\ screen' = [p \in Panes |-> IF p \in drained THEN [screen[p] EXCEPT !.notes = 0] ELSE screen[p]]
      /\ prompted' = [p \in Panes |-> prompted[p] /\ (p \in drained => screen[p].notes = 0)]
      /\ UNCHANGED <<queue, inbox, asked, shown, focus, seen>>
  BY DEF TickPanics, News, ui
<1>3. /\ DOMAIN pending = 1 .. Len(pending)
      /\ \A i \in DOMAIN pending : pending[i] \in Events /\ pending[i] \in ToSet(pending)
      /\ \A e \in ToSet(pending) : e \in Events
  BY <1>1 DEF Typing, ToSet
<1>4. \A e \in Events : e.kind \in {"attention", "metadata", "title"} /\ e \in Frames
  BY DEF Events, Frames
<1>. HIDE DEF found
<1>15. ASSUME NEW p \in Panes
       PROVE  /\ \A e \in ToSet(found(p)) : e \in Events
              /\ p \notin drained => found(p) = <<>>
              /\ p \in drained => found(p) = News(p)
  <2>1. News(p) \in Seq(Events)
    BY <1>1, NewsIs
  <2>2. \A i \in DOMAIN News(p) : News(p)[i] \in Events
    BY <2>1
  <2> QED BY <2>2 DEF found, ToSet
<1>5. Typing'
  <2>1. ASSUME NEW p \in Panes PROVE gap'[p] \in SUBSET {"attention", "metadata", "title"}
    BY <1>1, <1>2, <1>3, <1>4, <1>15 DEF Typing
  <2>2. gap' \in [Panes -> SUBSET {"attention", "metadata", "title"}]
    BY <1>2, <2>1
  <2>3. pending' \in Seq(Events)
    BY <1>2
  <2>4. /\ record' \in [Panes -> Record] /\ screen' \in [Panes -> [title : Words, notes : {0, 1}, reads : BOOLEAN]]
        /\ previous' \in [Panes -> Words] /\ prompted' \in [Panes -> BOOLEAN]
    <3>1. /\ record \in [Panes -> Record] /\ screen \in [Panes -> [title : Words, notes : {0, 1}, reads : BOOLEAN]]
          /\ prompted \in [Panes -> BOOLEAN] /\ previous \in [Panes -> Words]
      BY <1>1 DEF Typing
    <3>2. \A w \in Record : [w EXCEPT !.attention = "needs-attention"] \in Record
      BY DEF Record, States
    <3>3. record' \in [Panes -> Record]
      BY <1>2, <3>1, <3>2 DEF Asking
    <3>4. screen' \in [Panes -> [title : Words, notes : {0, 1}, reads : BOOLEAN]]
      BY <1>2, <3>1
    <3>5. previous' \in [Panes -> Words] /\ prompted' \in [Panes -> BOOLEAN]
      BY <1>2, <3>1
    <3> QED BY <3>3, <3>4, <3>5
  <2> QED BY <1>1, <1>2, <2>2, <2>3, <2>4 DEF Typing
<1>6. Prompted'
  BY <1>2 DEF StatusInv, Prompted, Asking
<1>7. ASSUME NEW q \in Panes, NEW kind,
             \E e \in ToSet(pending) : e.pane = q /\ e.kind = kind
      PROVE  kind \in gap'[q]
  BY <1>2, <1>7
<1>16. ASSUME NEW q \in Panes, NEW kind, q \in drained,
              \E i \in DOMAIN News(q) : News(q)[i].kind = kind
       PROVE  kind \in gap'[q]
  <2>1. PICK e \in ToSet(found(q)) : e.kind = kind
    BY <1>15, <1>16 DEF ToSet
  <2> QED BY <1>2, <2>1
<1>17. ASSUME NEW q \in Panes
       PROVE  /\ record'[q].attention = record[q].attention \/ "attention" \in gap'[q]
              /\ \A f \in StatusFields : record'[q][f] = record[q][f]
              /\ previous'[q] = previous[q] \/ "title" \in gap'[q]
  <2>1. CASE q \notin drained
    BY <1>2, <2>1
  <2>2. CASE q \in drained
    <3>1. \A i \in DOMAIN News(q) : News(q)[i] \in Events
      <4>1. News(q) \in Seq(Events)
        BY <1>1, NewsIs
      <4> QED BY <4>1
    <3>2. /\ record'[q] = Asking(q) /\ previous'[q] = screen[q].title
      BY <1>2, <2>2
    <3>3. ASSUME screen[q].notes # 0 PROVE "attention" \in gap'[q]
      <4>1. LastIn(News(q), AttentionOf(q), AttentionIs(q, "needs-attention"))
        BY <1>1, <3>3, NewsIs
      <4>2. PICK i \in DOMAIN News(q) : News(q)[i] \in AttentionOf(q)
        BY <4>1 DEF LastIn
      <4>3. News(q)[i].kind = "attention"
        BY <1>4, <3>1, <4>2 DEF AttentionOf
      <4> QED BY <1>16, <2>2, <4>3
    <3>4. ASSUME screen[q].title # previous[q] PROVE "title" \in gap'[q]
      <4>1. LastIn(News(q), TitleOf(q), TitleIs(q, screen[q].title))
        BY <1>1, <3>4, NewsIs
      <4>2. PICK i \in DOMAIN News(q) : News(q)[i] \in TitleOf(q)
        BY <4>1 DEF LastIn
      <4>3. News(q)[i].kind = "title"
        BY <1>4, <3>1, <4>2 DEF TitleOf
      <4> QED BY <1>16, <2>2, <4>3
    <3>5. \A f \in StatusFields : record'[q][f] = record[q][f]
      BY <1>1, <3>2 DEF Asking, Typing, Record, StatusFields
    <3>6. screen[q].notes = 0 => record'[q] = record[q]
      BY <3>2 DEF Asking
    <3> QED BY <3>2, <3>3, <3>4, <3>5, <3>6
  <2> QED BY <2>1, <2>2
<1>8. \A q \in Panes : gap[q] \subseteq gap'[q]
  BY <1>2
<1>9. \A T, V : NoneIn(pending, T) =>
        /\ Due(T, V) => DueIn(pending', queue', inbox', T, V)
        /\ Still(T) => StillIn(pending', queue', inbox', T)
  BY <1>2, Dropped DEF Due, Still
<1>10. ASSUME NEW q \in Panes
       PROVE  /\ AttentionComes(q)' /\ TitleComes(q)'
              /\ \A f \in StatusFields : StatusComes(q, f)'
  <2>1. AttentionComes(q) /\ TitleComes(q) /\ \A f \in StatusFields : StatusComes(q, f)
    BY DEF StatusInv
  <2>2. AttentionComes(q)'
    <3>1. CASE NoneIn(pending, AttentionOf(q))
      BY <1>2, <1>8, <1>9, <1>17, <2>1, <3>1 DEF AttentionComes, Due, Still
    <3>2. CASE ~NoneIn(pending, AttentionOf(q))
      <4>1. PICK i \in DOMAIN pending : pending[i] \in AttentionOf(q)
        BY <3>2 DEF NoneIn
      <4>2. pending[i].kind = "attention" /\ pending[i].pane = q
        BY <1>3, <1>4, <4>1 DEF AttentionOf
      <4>3. "attention" \in gap'[q]
        BY <1>3, <1>7, <4>2
      <4> QED BY <4>3 DEF AttentionComes
    <3> QED BY <3>1, <3>2
  <2>3. TitleComes(q)'
    <3>1. CASE NoneIn(pending, TitleOf(q))
      BY <1>2, <1>8, <1>9, <1>17, <2>1, <3>1 DEF TitleComes, Due, Still
    <3>2. CASE ~NoneIn(pending, TitleOf(q))
      <4>1. PICK i \in DOMAIN pending : pending[i] \in TitleOf(q)
        BY <3>2 DEF NoneIn
      <4>2. pending[i].kind = "title" /\ pending[i].pane = q
        BY <1>3, <1>4, <4>1 DEF TitleOf
      <4>3. "title" \in gap'[q]
        BY <1>3, <1>7, <4>2
      <4> QED BY <4>3 DEF TitleComes
    <3> QED BY <3>1, <3>2
  <2>4. ASSUME NEW f \in StatusFields PROVE StatusComes(q, f)'
    <3>1. CASE NoneIn(pending, StatusOf(q, f))
      BY <1>2, <1>8, <1>9, <1>17, <2>1, <3>1 DEF StatusComes, Due, Still
    <3>2. CASE ~NoneIn(pending, StatusOf(q, f))
      <4>1. PICK i \in DOMAIN pending : pending[i] \in StatusOf(q, f)
        BY <3>2 DEF NoneIn
      <4>2. pending[i].kind = "metadata" /\ pending[i].pane = q
        BY <1>3, <1>4, <4>1 DEF StatusOf
      <4>3. "metadata" \in gap'[q]
        BY <1>3, <1>7, <4>2
      <4>4. Given(f, record[q][f])
        <5>1. CASE "metadata" \in gap[q] /\ Given(f, record[q][f])
          BY <5>1
        <5>2. CASE LastIn(pending, StatusOf(q, f), StatusIs(q, f, record[q][f]))
          <6>1. PICK j \in DOMAIN pending : /\ pending[j] \in StatusOf(q, f)
                                            /\ pending[j] \in StatusIs(q, f, record[q][f])
            BY <5>2 DEF LastIn
          <6>2. pending[j].kind = "metadata"
            BY <1>3, <1>4, <6>1 DEF StatusOf
          <6>3. pending[j][f] = record[q][f]
            BY <6>1, <6>2 DEF StatusIs
          <6>4. Given(f, pending[j][f])
            BY <6>1, <6>2 DEF StatusOf
          <6> QED BY <6>3, <6>4
        <5> QED BY <2>1, <3>2, <5>1, <5>2 DEF StatusComes, Due, DueIn, Still, StillIn
      <4> QED BY <1>2, <1>17, <4>3, <4>4 DEF StatusComes
    <3> QED BY <3>1, <3>2
  <2> QED BY <2>2, <2>3, <2>4
<1> QED BY <1>5, <1>6, <1>10 DEF StatusInv

-----------------------------------------------------------------------------
(* At all times, for every pane, what is on its way to the UI or shown by  *)
(* it is what the host keeps (mark_pane_work_started, handle_notify,       *)
(* set_pane_metadata, the broadcaster's tick and the UI's handlers), unless *)
(* the history variables tell why no event said so.                        *)
THEOREM StatusInvariant == Spec => []StatusInv
<1>1. Init => StatusInv
  <2> SUFFICES ASSUME Init PROVE StatusInv
    OBVIOUS
  <2>1. /\ record = [p \in Panes |-> Fresh] /\ shown = [p \in Panes |-> Unknown]
        /\ screen = [p \in Panes |-> [title |-> "", notes |-> 0, reads |-> TRUE]]
        /\ previous = [p \in Panes |-> ""]
        /\ pending = <<>> /\ queue = <<>> /\ inbox = <<>> /\ asked = <<Attach>>
        /\ focus = 1 /\ gap = [p \in Panes |-> {}] /\ seen = [p \in Panes |-> FALSE]
        /\ prompted = [p \in Panes |-> FALSE]
    BY DEF Init
  <2>2. /\ Fresh = [attention |-> "active", phase |-> "", text |-> "", queue |-> 2, completion |-> ""]
        /\ Unknown = [attention |-> "active", phase |-> "", text |-> "", queue |-> 2, title |-> ""]
        /\ \A f \in StatusFields : Unknown[f] = Fresh[f]
    BY DEF Fresh, Unknown, StatusFields
  <2>3. Fresh \in Record /\ Unknown \in View
    BY <2>2 DEF Record, View, States, Words
  <2>4. Typing
    <3>1. [title |-> "", notes |-> 0, reads |-> TRUE] \in [title : Words, notes : {0, 1}, reads : BOOLEAN]
      BY DEF Words
    <3>2. "" \in Words
      BY DEF Words
    <3>3. asked \in Seq(Panes \cup {Attach})
      <4>1. <<Attach>> \in Seq(Panes \cup {Attach})
        OBVIOUS
      <4> QED BY <2>1, <4>1
    <3>4. pending \in Seq(Events) /\ queue \in Seq(Events) /\ inbox \in Seq(Frames)
      <4>1. <<>> \in Seq(Events) /\ <<>> \in Seq(Frames)
        OBVIOUS
      <4> QED BY <2>1, <4>1, Zenon
    <3>5. 1 \in Panes
      BY OnePane
    <3>6. /\ record \in [Panes -> Record] /\ shown \in [Panes -> View]
          /\ screen \in [Panes -> [title : Words, notes : {0, 1}, reads : BOOLEAN]]
          /\ previous \in [Panes -> Words]
      BY <2>1, <2>3, <3>1, <3>2
    <3>7. /\ gap \in [Panes -> SUBSET {"attention", "metadata", "title"}]
          /\ seen \in [Panes -> BOOLEAN] /\ prompted \in [Panes -> BOOLEAN] /\ focus \in Panes
      BY <2>1, <3>5
    <3> QED BY <3>3, <3>4, <3>6, <3>7 DEF Typing
  <2>5. Prompted
    BY <2>1 DEF Prompted
  <2>6. \A T : Still(T)
    BY <2>1, InOne DEF Still, StillIn
  <2>7. ASSUME NEW q \in Panes
        PROVE  /\ AttentionComes(q) /\ TitleComes(q)
               /\ \A f \in StatusFields : StatusComes(q, f)
    <3>1. record[q] = Fresh /\ shown[q] = Unknown /\ previous[q] = ""
      BY <2>1
    <3>2. Unknown.attention = Fresh.attention /\ Unknown.title = ""
      BY <2>2
    <3> QED BY <2>2, <2>6, <3>1, <3>2 DEF AttentionComes, TitleComes, StatusComes
  <2> QED BY <2>4, <2>5, <2>7 DEF StatusInv
<1>2. StatusInv /\ [Next]_vars => StatusInv'
  <2> SUFFICES ASSUME StatusInv, [Next]_vars PROVE StatusInv'
    OBVIOUS
  <2>1. CASE \E p \in Panes : Prompt(p)
    BY <2>1, PromptKeeps
  <2>2. CASE \E p \in Panes : ClearAttention(p)
    BY <2>2, ClearAttentionKeeps
  <2>3. CASE \E p \in Panes : Program(p)
    BY <2>3, ProgramKeeps
  <2>4. CASE \E p \in Panes : FocusPane(p)
    BY <2>4, FocusPaneKeeps
  <2>5. CASE \E p \in Panes : \E state \in {"active", "done", "needs-attention", "error"} : Notify(p, state)
    BY <2>5, NotifyKeeps DEF States
  <2>6. CASE \E p \in Panes : \E report \in Reports : SetStatus(p, report)
    BY <2>6, SetStatusKeeps
  <2>7. CASE Reopen
    BY <2>7, ReopenKeeps
  <2>8. CASE Tick
    BY <2>8, TickKeeps
  <2>9. CASE \E drained \in SUBSET Panes : TickPanics(drained)
    BY <2>9, TickPanicsKeeps
  <2>10. CASE Serve
    BY <2>10, ServeKeeps
  <2>11. CASE Forward
    BY <2>11, ForwardKeeps
  <2>12. CASE Read
    BY <2>12, ReadKeeps
  <2>13. CASE ClearFocused
    BY <2>13, ClearFocusedKeeps
  <2>14. CASE Refresh
    BY <2>14, RefreshKeeps
  <2>15. CASE GoToAttention
    BY <2>15, GoToAttentionKeeps
  <2>16. CASE UNCHANGED vars
    <3>1. Typing'
      BY <2>16 DEF StatusInv, Typing, vars
    <3> QED BY <2>16, <3>1, RestKeeps DEF vars
  <2> QED BY <2>1, <2>2, <2>3, <2>4, <2>5, <2>6, <2>7, <2>8, <2>9, <2>10, <2>11, <2>12, <2>13,
             <2>14, <2>15, <2>16 DEF Next
<1> QED BY <1>1, <1>2, PTL DEF Spec

(* When nothing is on its way, the UI shows the attention, status and      *)
(* title the host keeps of every pane, but for what no event told it: the  *)
(* events of clients and of the broadcaster's tick, and the snapshot that  *)
(* overtakes them, leave no pane of the tab strip stale.                   *)
THEOREM ShownMatchesHolds == Spec => []ShownMatches
<1>1. StatusInv => ShownMatches
  <2> SUFFICES ASSUME StatusInv, Quiet, NEW p \in Panes
               PROVE  /\ \/ "attention" \in gap[p] \/ shown[p].attention = record[p].attention
                         \/ seen[p] /\ shown[p].attention = "active"
                      /\ "metadata" \in gap[p] \/ \A f \in {"phase", "text", "queue"} : shown[p][f] = record[p][f]
                      /\ "title" \in gap[p] \/ shown[p].title = screen[p].title
    BY DEF ShownMatches
  <2>1. /\ pending = <<>> /\ queue = <<>> /\ inbox = <<>> /\ asked = <<>>
        /\ screen[p].title = previous[p]
    BY DEF Quiet
  <2>2. \A T, V : ~Due(T, V)
    BY <2>1, InOne DEF Due, DueIn
  <2>3. p \notin ToSet(asked)
    BY <2>1 DEF ToSet
  <2>4. AttentionComes(p) /\ TitleComes(p) /\ \A f \in StatusFields : StatusComes(p, f)
    BY DEF StatusInv
  <2> QED BY <2>1, <2>2, <2>3, <2>4 DEF AttentionComes, TitleComes, StatusComes, StatusFields
<1> QED BY <1>1, StatusInvariant, PTL

(* A wait begun after an accepted prompt does not end on the status that   *)
(* was there before it: mark_pane_work_started leaves nothing that         *)
(* wait_condition_matches takes for work done.                             *)
THEOREM WaitNotStaleHolds == Spec => []WaitNotStale
<1>1. StatusInv => WaitNotStale
  <2> SUFFICES ASSUME StatusInv, NEW p \in Panes, prompted[p],
                      NEW condition \in {"ready", "idle", "done", "needs-attention", "error", "queue-empty"}
               PROVE  ~Matches(condition, record[p])
    BY DEF WaitNotStale
  <2>1. /\ record[p].attention = "active" /\ record[p].phase = "working"
        /\ record[p].text = "prompt sent" /\ record[p].queue = 1 /\ record[p].completion = ""
    <3>1. record[p] = [attention |-> "active", phase |-> "working", text |-> "prompt sent",
                       queue |-> 1, completion |-> ""]
      BY DEF StatusInv, Prompted
    <3>2. PICK r : r = [attention |-> "active", phase |-> "working", text |-> "prompt sent",
                        queue |-> 1, completion |-> ""]
      OBVIOUS
    <3>3. r.attention = "active" /\ r.phase = "working" /\ r.text = "prompt sent" /\ r.queue = 1 /\ r.completion = ""
      BY <3>2
    <3>4. record[p] = r
      BY <3>1, <3>2, Zenon
    <3> QED BY <3>3, <3>4, Zenon
  <2>2. 1 # 0 /\ 1 # 2
    OBVIOUS
  <2>3. record[p].queue # 0 /\ record[p].queue # 2
    BY <2>1, <2>2, Zenon
  <2> QED BY <2>1, <2>3 DEF Matches
<1> QED BY <1>1, StatusInvariant, PTL

-----------------------------------------------------------------------------
(* Going from one pane that asks for attention to the next.                *)

Ahead(from, forward) == {p \in Unread : IF forward THEN p > from ELSE p < from}

First(p, S, forward) == p \in S /\ \A q \in S : IF forward THEN p <= q ELSE p >= q

LEMMA PanesAreNumbers == \E n \in Nat : Panes = 1 .. n
<1>1. Cardinality(Panes) \in Nat
  BY PaneStatusAssumption, FS_CardinalityType
<1> QED BY <1>1, PaneStatusAssumption

LEMMA SomeFirst ==
  ASSUME NEW S \in SUBSET Panes, S # {}, NEW forward \in BOOLEAN
  PROVE  \E p \in S : First(p, S, forward)
<1>1. PICK n \in Nat : Panes = 1 .. n
  BY PanesAreNumbers
<1>2. S \in SUBSET (1 .. n) /\ S \in SUBSET Nat
  BY <1>1
<1>3. CASE forward
  BY <1>2, <1>3, Least DEF First
<1>4. CASE ~forward
  BY <1>2, <1>4, Greatest DEF First
<1> QED BY <1>3, <1>4

LEMMA NextIs ==
  ASSUME NEW from \in Panes, NEW forward \in BOOLEAN, Unread # {}
  PROVE  First(NextAttention(from, forward), IF Ahead(from, forward) = {} THEN Unread ELSE Ahead(from, forward), forward)
<1> DEFINE among == IF Ahead(from, forward) = {} THEN Unread ELSE Ahead(from, forward)
<1>1. among \in SUBSET Panes /\ among # {}
  BY DEF Ahead, Unread
<1>2. NextAttention(from, forward) = CHOOSE p \in among : \A q \in among : IF forward THEN p <= q ELSE p >= q
  BY <1>1 DEF NextAttention, Ahead
<1> HIDE DEF among
<1>3. \E p \in among : \A q \in among : IF forward THEN p <= q ELSE p >= q
  BY <1>1, SomeFirst DEF First
<1>4. First(NextAttention(from, forward), among, forward)
  BY <1>2, <1>3 DEF First
<1> QED BY <1>4 DEF among

(* Some panes from which the next leads to no others are all there are.    *)
LEMMA ClosedIsAll ==
  ASSUME NEW forward \in BOOLEAN, NEW S \in SUBSET Unread, S # {}, \A p \in S : NextAttention(p, forward) \in S
  PROVE  S = Unread
<1>1. PICK n \in Nat : Panes = 1 .. n
  BY PanesAreNumbers
<1>2. Unread \subseteq Nat /\ Unread \subseteq Panes /\ S \subseteq Panes /\ Unread # {}
  <2>1. \A p \in Unread : p \in Panes
    BY DEF Unread
  <2>2. \A p \in Panes : p \in Nat
    BY <1>1
  <2> QED BY <2>1, <2>2
<1>3. PICK m \in S : First(m, S, ~forward)
  BY <1>2, SomeFirst
<1>4. Ahead(m, forward) = {}
  <2> SUFFICES ASSUME Ahead(m, forward) # {} PROVE FALSE
    OBVIOUS
  <2> DEFINE q == NextAttention(m, forward)
  <2>1. q \in S /\ q \in Ahead(m, forward)
    BY <1>2, <1>3, NextIs DEF First
  <2> HIDE DEF q
  <2>2. q \in Nat /\ m \in Nat
    BY <1>2, <2>1
  <2>3. CASE forward
    BY <1>3, <2>1, <2>2, <2>3 DEF First, Ahead
  <2>4. CASE ~forward
    BY <1>3, <2>1, <2>2, <2>4 DEF First, Ahead
  <2> QED BY <2>3, <2>4
<1>5. PICK a \in S : First(a, Unread, forward)
  <2>1. First(NextAttention(m, forward), Unread, forward) /\ NextAttention(m, forward) \in S
    BY <1>2, <1>3, <1>4, NextIs
  <2> QED BY <2>1
<1>6. ASSUME Unread \ S # {} PROVE FALSE
  <2>1. PICK u \in Unread \ S : First(u, Unread \ S, forward)
    BY <1>2, <1>6, SomeFirst
  <2> DEFINE P == {v \in S : IF forward THEN v < u ELSE v > u}
  <2>2. a \in P /\ P \in SUBSET Panes
    <3>1. a # u /\ a \in Nat /\ u \in Nat
      BY <1>2, <2>1
    <3>2. IF forward THEN a < u ELSE a > u
      BY <1>5, <2>1, <3>1 DEF First
    <3> QED BY <1>2, <3>2
  <2>3. PICK p \in P : First(p, P, ~forward)
    BY <2>2, SomeFirst
  <2> DEFINE q == NextAttention(p, forward)
  <2>4. u \in Ahead(p, forward) /\ p \in S /\ p \in Panes
    <3>1. p \in Nat /\ u \in Nat
      BY <1>2, <2>1
    <3> QED BY <1>2, <2>1, <3>1 DEF Ahead
  <2>5. First(q, Ahead(p, forward), forward) /\ q \in S
    BY <1>2, <2>4, NextIs
  <2> HIDE DEF q
  <2>6. q \in Ahead(p, forward) /\ q # u /\ q \in Nat /\ u \in Nat /\ p \in Nat
    BY <1>2, <2>1, <2>4, <2>5 DEF First
  <2>7. q \in P
    BY <2>4, <2>5, <2>6 DEF First
  <2> HIDE DEF P
  <2>8. CASE forward
    BY <2>3, <2>6, <2>7, <2>8 DEF First, Ahead
  <2>9. CASE ~forward
    BY <2>3, <2>6, <2>7, <2>9 DEF First, Ahead
  <2> QED BY <2>8, <2>9
<1> QED BY <1>6

Going(f, forward, n) == f = [k \in 0 .. n |-> IF k = 0 THEN focus ELSE NextAttention(f[k - 1], forward)]

LEMMA SomeGoing ==
  ASSUME NEW forward, NEW n \in Nat
  PROVE  \E f : Going(f, forward, n)
<1> DEFINE T == {m \in Nat : \E f : Going(f, forward, m)}
<1>1. 0 \in T
  <2>1. Going([k \in 0 .. 0 |-> focus], forward, 0)
    BY DEF Going
  <2> QED BY <2>1
<1>2. ASSUME NEW m \in T PROVE m + 1 \in T
  <2>1. PICK f : Going(f, forward, m)
    OBVIOUS
  <2> DEFINE g == [k \in 0 .. m + 1 |-> IF k <= m THEN f[k] ELSE NextAttention(f[m], forward)]
  <2>2. m \in Nat
    OBVIOUS
  <2>3. ASSUME NEW k \in 0 .. m + 1
        PROVE  g[k] = IF k = 0 THEN focus ELSE NextAttention(g[k - 1], forward)
    <3>1. CASE k <= m
      <4>1. g[k] = f[k] /\ (k # 0 => g[k - 1] = f[k - 1])
        BY <3>1, <2>2
      <4>2. k \in 0 .. m
        BY <3>1, <2>2
      <4>3. f[k] = IF k = 0 THEN focus ELSE NextAttention(f[k - 1], forward)
        BY <2>1, <4>2 DEF Going
      <4> QED BY <4>1, <4>3
    <3>2. CASE k > m
      <4>1. k = m + 1 /\ k # 0 /\ k - 1 = m /\ g[k] = NextAttention(f[m], forward) /\ g[m] = f[m]
        BY <3>2, <2>2
      <4> QED BY <4>1
    <3> QED BY <3>1, <3>2, <2>2
  <2>4. Going(g, forward, m + 1)
    BY <2>3 DEF Going
  <2>5. \E h : Going(h, forward, m + 1)
    <3> HIDE DEF g
    <3> QED BY <2>4
  <2> QED BY <2>2, <2>5
<1>3. T = Nat
  <2>1. T \in SUBSET Nat
    OBVIOUS
  <2> HIDE DEF T
  <2> QED BY <1>1, <1>2, <2>1, SetInduction
<1> QED BY <1>3

(* As many steps as there are panes that ask for attention come to each.   *)
LEMMA GoingReaches ==
  ASSUME focus \in Panes, NEW forward \in BOOLEAN, NEW f, Going(f, forward, Cardinality(Unread)), Unread # {}
  PROVE  Unread \subseteq {f[n] : n \in 1 .. Cardinality(Unread)}
<1> DEFINE k == Cardinality(Unread)
<1>1. IsFiniteSet(Unread) /\ k \in Nat /\ Unread \subseteq Panes
  <2>1. Unread \in SUBSET Panes
    BY DEF Unread
  <2>2. IsFiniteSet(Unread)
    BY <2>1, PaneStatusAssumption, FS_Subset
  <2> QED BY <2>1, <2>2, FS_CardinalityType
<1>2. f[0] = focus /\ \A n \in 1 .. k : f[n] = NextAttention(f[n - 1], forward)
  <2> HIDE DEF k
  <2>1. f = [n \in 0 .. k |-> IF n = 0 THEN focus ELSE NextAttention(f[n - 1], forward)]
    BY DEF Going, k
  <2>2. \A n \in 0 .. k : f[n] = IF n = 0 THEN focus ELSE NextAttention(f[n - 1], forward)
    BY <2>1, Zenon
  <2> QED BY <1>1, <2>2
<1> HIDE DEF k
<1>3. \A p \in Panes : NextAttention(p, forward) \in Unread
  BY NextIs DEF First, Ahead
<1>4. \A n \in 1 .. k : f[n] \in Unread
  <2> DEFINE T == {n \in Nat : n \in 1 .. k => f[n] \in Unread}
  <2>1. 0 \in T
    OBVIOUS
  <2>2. ASSUME NEW n \in T PROVE n + 1 \in T
    <3> SUFFICES ASSUME n + 1 \in 1 .. k PROVE f[n + 1] \in Unread
      OBVIOUS
    <3>1. n \in Nat /\ (n + 1) - 1 = n
      OBVIOUS
    <3>2. f[n + 1] = NextAttention(f[n], forward)
      BY <1>2, <3>1
    <3>3. f[n] \in Panes
      <4>1. CASE n = 0
        BY <1>2, <4>1
      <4>2. CASE n # 0
        <5>1. n \in 1 .. k
          BY <1>1, <3>1, <4>2
        <5> QED BY <1>1, <5>1
      <4> QED BY <4>1, <4>2
    <3> QED BY <1>3, <3>2, <3>3
  <2>3. T = Nat
    <3>1. T \in SUBSET Nat
      OBVIOUS
    <3> HIDE DEF T
    <3> QED BY <2>1, <2>2, <3>1, SetInduction
  <2>4. \A n \in Nat : n \in 1 .. k => f[n] \in Unread
    BY <2>3
  <2> QED BY <2>4
<1>5. CASE \E i, j \in 1 .. k : i < j /\ f[i] = f[j]
  <2>1. PICK i \in 1 .. k, j \in 1 .. k : i < j /\ f[i] = f[j]
    BY <1>5
  <2> DEFINE S == {f[n] : n \in 1 .. (j - 1)}
  <2>2. \A n \in 1 .. (j - 1) : n \in 1 .. k /\ n + 1 \in 1 .. k /\ (n + 1) - 1 = n
    BY <1>1
  <2>3. S \in SUBSET Unread /\ S # {}
    <3>1. 1 \in 1 .. (j - 1)
      BY <2>1
    <3>2. f[1] \in S
      BY <3>1
    <3>3. \A s \in S : s \in Unread
      BY <1>4, <2>2
    <3> QED BY <3>2, <3>3
  <2>4. ASSUME NEW s \in S PROVE NextAttention(s, forward) \in S
    <3>1. PICK n \in 1 .. (j - 1) : s = f[n]
      OBVIOUS
    <3>2. f[n + 1] = NextAttention(s, forward)
      BY <1>2, <2>2, <3>1
    <3>3. CASE n + 1 = j
      <4>1. i \in 1 .. (j - 1)
        BY <2>1
      <4>2. f[i] \in S
        BY <4>1
      <4> QED BY <2>1, <3>2, <3>3, <4>2
    <3>4. CASE n + 1 # j
      <4>1. n + 1 \in 1 .. (j - 1)
        BY <3>4
      <4>2. f[n + 1] \in S
        BY <4>1
      <4> QED BY <3>2, <4>2
    <3> QED BY <3>3, <3>4
  <2>5. S = Unread
    <3> HIDE DEF S
    <3> QED BY <2>3, <2>4, ClosedIsAll
  <2> QED BY <2>2, <2>5 DEF k
<1>6. CASE ~ \E i, j \in 1 .. k : i < j /\ f[i] = f[j]
  <2> DEFINE g == [n \in 1 .. k |-> f[n]]
  <2>1. g \in [1 .. k -> Unread]
    BY <1>4
  <2>2. ASSUME NEW i \in 1 .. k, NEW j \in 1 .. k, g[i] = g[j] PROVE i = j
    <3>1. f[i] = f[j]
      BY <2>2
    <3>2. ~(i < j) /\ ~(j < i)
      BY <1>6, <3>1
    <3> QED BY <3>2
  <2>3. g \in Injection(1 .. k, Unread)
    <3> HIDE DEF g
    <3> QED BY <2>1, <2>2 DEF Injection, IsInjective
  <2>4. IsFiniteSet(1 .. k) /\ Cardinality(1 .. k) = k
    BY <1>1, FS_Interval
  <2>5. g \in Surjection(1 .. k, Unread)
    <3> HIDE DEF g
    <3> QED BY <1>1, <2>3, <2>4, FS_Injection DEF k
  <2>6. \A u \in Unread : \E n \in 1 .. k : g[n] = u
    <3> HIDE DEF g
    <3> QED BY <2>5 DEF Surjection
  <2> QED BY <2>6 DEF k
<1> QED BY <1>5, <1>6

(* next_attention_target, from whichever pane is focused: going on forward *)
(* or backward comes to every pane that asks for attention, and no pane    *)
(* is passed over at the ends of the tab strip.                            *)
THEOREM AttentionReachedHolds == Spec => []AttentionReached
<1>1. StatusInv => AttentionReached
  <2> SUFFICES ASSUME StatusInv, NEW forward \in BOOLEAN
               PROVE  LET goes[n \in 0 .. Cardinality(Unread)] ==
                            IF n = 0 THEN focus ELSE NextAttention(goes[n - 1], forward)
                      IN  Unread \subseteq {goes[n] : n \in 1 .. Cardinality(Unread)}
    BY DEF AttentionReached
  <2> DEFINE k == Cardinality(Unread)
             goes == CHOOSE f : f = [n \in 0 .. k |-> IF n = 0 THEN focus ELSE NextAttention(f[n - 1], forward)]
  <2>1. k \in Nat /\ focus \in Panes
    <3>1. Unread \in SUBSET Panes
      BY DEF Unread
    <3>2. IsFiniteSet(Unread)
      BY <3>1, PaneStatusAssumption, FS_Subset
    <3> QED BY <3>2, FS_CardinalityType DEF StatusInv, Typing
  <2>2. Going(goes, forward, k)
    <3>1. \E f : Going(f, forward, k)
      BY <2>1, SomeGoing
    <3> QED BY <3>1 DEF Going
  <2> SUFFICES Unread \subseteq {goes[n] : n \in 1 .. k}
    OBVIOUS
  <2> HIDE DEF goes
  <2> QED BY <2>1, <2>2, GoingReaches
<1> QED BY <1>1, StatusInvariant, PTL
=============================================================================
