------------------------------ MODULE TreeProofs -------------------------------
(***************************************************************************)
(* Theorems about LayoutTree, for any ids, bounds and definitions: the     *)
(* arena stays a tree with an exact index and free list (TreeSound),       *)
(* implements the layout its workspace sees (ImplementsTabLayout), and the *)
(* order of the panes is stable (OrderStable).  And about Tiling, for any  *)
(* trees, ratios, sizes and moves: the panes of a tab fill it (PanesTile)  *)
(* and a resize does what it is asked to (ResizesHeeded).                  *)
(*                                                                         *)
(* The invariant says of each slot only what is seen at the slot and its   *)
(* neighbours, and that there are no cycles: ranks grow from children to   *)
(* their split.  That is easily kept by splitting, closing, swapping and   *)
(* joining arenas.  What a walk from the root finds follows from it, by    *)
(* induction on the ranks.                                                 *)
(*                                                                         *)
(* The halves of a rectangle share its cells, whatever is rounded, so a    *)
(* cell of the tab is in the rectangle of one path of each length that     *)
(* reaches so far, and hence in one leaf.  A resize moves one cut, and no  *)
(* split between it and the pane divides the same way: the pane changes by *)
(* what the half does.                                                     *)
(***************************************************************************)
EXTENDS MCLayoutTree, FiniteSetTheorems, SequenceTheorems, WellFoundedInduction, TLAPS

Slot(ns) == 1 .. Len(ns)

Shape(ns, i) ==
  \/ ns[i] = Hole
  \/ ns[i].id # NoPane /\ ns[i].first = NoNode /\ ns[i].second = NoNode
  \/ /\ ns[i].id = NoPane
     /\ ns[i].first \in Slot(ns) /\ ns[i].second \in Slot(ns) /\ ns[i].first # ns[i].second
     /\ ns[ns[i].first] # Hole /\ ns[ns[i].first].parent = i
     /\ ns[ns[i].second] # Hole /\ ns[ns[i].second].parent = i

Hanging(ns, i) ==
  ns[i].parent # NoNode =>
    ns[i].parent \in Slot(ns) /\ i \in {ns[ns[i].parent].first, ns[ns[i].parent].second}

(* Only the root has no parent.                                            *)
OneRoot(ns, rt) ==
  rt \in Slot(ns) /\ \A i \in Slot(ns) : (ns[i] # Hole /\ ns[i].parent = NoNode) <=> i = rt

Distinct(ns) ==
  \A i, j \in Slot(ns) : ns[i].id # NoPane /\ ns[i].id = ns[j].id => i = j

IsRank(ns, m, r) ==
  /\ r \in [Slot(ns) -> 0 .. m]
  /\ \A i \in Slot(ns) : IsSplit(ns[i]) => r[ns[i].first] < r[i] /\ r[ns[i].second] < r[i]

Ranked(ns) == \E m \in Nat : \E r : IsRank(ns, m, r)

Linked(ns) == \A i \in Slot(ns) : Shape(ns, i) /\ Hanging(ns, i)

Tree(ns, rt) ==
  ns \in Seq(Node) /\ Linked(ns) /\ OneRoot(ns, rt) /\ Distinct(ns) /\ Ranked(ns)

-----------------------------------------------------------------------------
(* Induction.                                                              *)

LEMMA Least ==
  ASSUME NEW S \in SUBSET Nat, S # {}
  PROVE  \E x \in S : \A y \in S : x <= y
<1> DEFINE R == {ss \in Nat \X Nat : ss[1] < ss[2]}
<1>1. IsWellFoundedOn(R, Nat)
  BY NatLessThanWellFounded DEF OpToRel
<1>2. PICK x \in S : \A y \in S : <<y, x>> \notin R
  <2> HIDE DEF R
  <2> QED BY <1>1, WFMin
<1>3. ASSUME NEW y \in S, y < x PROVE FALSE
  <2>1. <<y, x>> \in Nat \X Nat /\ <<y, x>>[1] < <<y, x>>[2]
    BY <1>3
  <2>2. <<y, x>> \in R
    BY <2>1
  <2> QED BY <1>2, <1>3, <2>2
<1> QED BY <1>3

(* What passes from the slots of lower rank to a slot is true of all.      *)
LEMMA RankInduction ==
  ASSUME NEW D, NEW m \in Nat, NEW r \in [D -> 0 .. m], NEW S,
         \A j \in D : (\A k \in D : r[k] < r[j] => k \in S) => j \in S
  PROVE  \A j \in D : j \in S
<1> SUFFICES ASSUME NEW j \in D, j \notin S PROVE FALSE
  OBVIOUS
<1> DEFINE T == {r[k] : k \in D \ S}
<1>1. T \in SUBSET Nat /\ T # {}
  OBVIOUS
<1>2. PICK x \in T : \A y \in T : x <= y
  <2> HIDE DEF T
  <2> QED BY <1>1, Least
<1>3. PICK k \in D \ S : x = r[k]
  OBVIOUS
<1>4. \A l \in D : r[l] < r[k] => l \in S
  <2> SUFFICES ASSUME NEW l \in D, r[l] < r[k], l \notin S PROVE FALSE
    OBVIOUS
  <2>1. r[l] \in T
    OBVIOUS
  <2> QED BY <1>2, <1>3, <2>1, SMTT(30)
<1> QED BY <1>3, <1>4

LEMMA SetInduction ==
  ASSUME NEW T \in SUBSET Nat, 0 \in T, \A n \in T : n + 1 \in T
  PROVE  T = Nat
<1> SUFFICES ASSUME Nat \ T # {} PROVE FALSE
  OBVIOUS
<1>1. PICK x \in Nat \ T : \A y \in Nat \ T : x <= y
  BY Least
<1>2. x # 0 /\ x - 1 \in Nat
  OBVIOUS
<1>3. x - 1 \in T /\ (x - 1) + 1 = x
  BY <1>1, <1>2
<1> QED BY <1>3

-----------------------------------------------------------------------------
(* What a slot of a tree is.                                               *)

LEMMA Slots3 ==
  ASSUME NEW ns, ns \in Seq(Node), Linked(ns), NEW i \in Slot(ns)
  PROVE  /\ ns[i] \in Node
         /\ IsSplit(ns[i]) => /\ ns[i].first \in Slot(ns) /\ ns[i].second \in Slot(ns) /\ ns[i].id = NoPane
                              /\ ns[i].first # ns[i].second
                              /\ ns[ns[i].first] # Hole /\ ns[ns[i].second] # Hole
                              /\ ns[ns[i].first].parent = i /\ ns[ns[i].second].parent = i
         /\ IsLeaf(ns[i]) => ~IsSplit(ns[i])
         /\ ns[i] # Hole => IsLeaf(ns[i]) \/ IsSplit(ns[i])
<1>1. ns[i] \in Node
  BY DEF Slot
<1>2. Shape(ns, i)
  BY DEF Linked
<1> QED BY <1>1, <1>2, SMTT(30) DEF Shape, IsSplit, IsLeaf, NoPane, NoNode, Node, Slot, Hole, Branch

(* The walk is a function: level by level.                                 *)
IsWalk(ns, w) ==
  /\ w \in [Slot(ns) -> Seq(Nat)]
  /\ \A j \in Slot(ns) : w[j] = IF IsSplit(ns[j]) THEN w[ns[j].first] \o w[ns[j].second] ELSE <<ns[j].id>>

LEMMA WalkExists ==
  ASSUME NEW ns, ns \in Seq(Node), Linked(ns), Ranked(ns)
  PROVE  \E w : IsWalk(ns, w)
<1>0. PICK m \in Nat : \E r : IsRank(ns, m, r)
  BY DEF Ranked
<1>1. PICK r : IsRank(ns, m, r)
  BY <1>0
<1> DEFINE Level(n) == {j \in Slot(ns) : r[j] < n}
           Walks(n, w) == /\ w \in [Level(n) -> Seq(Nat)]
                          /\ \A j \in Level(n) : w[j] = IF IsSplit(ns[j]) THEN w[ns[j].first] \o w[ns[j].second]
                                                                          ELSE <<ns[j].id>>
           T == {n \in Nat : \E w : Walks(n, w)}
<1>2. 0 \in T
  <2>1. Level(0) = {}
    BY <1>1 DEF IsRank
  <2>2. Walks(0, [j \in {} |-> <<>>])
    BY <2>1
  <2> QED BY <2>2
<1>3. ASSUME NEW n \in T PROVE n + 1 \in T
  <2>1. PICK w : Walks(n, w)
    OBVIOUS
  <2> DEFINE v == [j \in Level(n + 1) |-> IF r[j] < n THEN w[j]
                     ELSE IF IsSplit(ns[j]) THEN w[ns[j].first] \o w[ns[j].second] ELSE <<ns[j].id>>]
  <2>2. ASSUME NEW j \in Level(n + 1)
        PROVE  IsSplit(ns[j]) => /\ ns[j].first \in Level(n) /\ ns[j].second \in Level(n)
    <3>1. IsSplit(ns[j]) => ns[j].first \in Slot(ns) /\ ns[j].second \in Slot(ns)
      BY Slots3
    <3> QED BY <1>1, <3>1 DEF IsRank
  <2>3. ASSUME NEW j \in Level(n + 1)
        PROVE  /\ v[j] \in Seq(Nat)
               /\ v[j] = IF IsSplit(ns[j]) THEN v[ns[j].first] \o v[ns[j].second] ELSE <<ns[j].id>>
    <3>1. \A k \in Level(n) : v[k] = w[k] /\ w[k] \in Seq(Nat)
      <4>1. \A k \in Level(n) : k \in Level(n + 1)
        BY <1>1 DEF IsRank
      <4> QED BY <2>1, <4>1
    <3>2. ns[j].id \in Nat
      BY Slots3 DEF Node
    <3>3. v[j] = IF IsSplit(ns[j]) THEN w[ns[j].first] \o w[ns[j].second] ELSE <<ns[j].id>>
      <4>1. CASE r[j] < n
        BY <2>1, <4>1
      <4>2. CASE ~(r[j] < n)
        BY <4>2
      <4> QED BY <4>1, <4>2
    <3> HIDE DEF v, Level
    <3>4. CASE IsSplit(ns[j])
      <4> DEFINE a == ns[j].first
                 b == ns[j].second
      <4>1. v[a] = w[a] /\ v[b] = w[b] /\ w[a] \in Seq(Nat) /\ w[b] \in Seq(Nat)
        BY <2>2, <3>1, <3>4
      <4>2. v[j] = w[a] \o w[b]
        BY <3>3, <3>4
      <4> HIDE DEF a, b
      <4>3. v[j] \in Seq(Nat) /\ v[j] = v[a] \o v[b]
        BY <4>1, <4>2
      <4> QED BY <3>4, <4>3 DEF a, b
    <3>5. CASE ~IsSplit(ns[j])
      BY <3>2, <3>3, <3>5
    <3> QED BY <3>4, <3>5
  <2>4. Walks(n + 1, v)
    <3> HIDE DEF Level
    <3>1. v \in [Level(n + 1) -> Seq(Nat)]
      BY <2>3
    <3>2. \A j \in Level(n + 1) :
            v[j] = IF IsSplit(ns[j]) THEN v[ns[j].first] \o v[ns[j].second] ELSE <<ns[j].id>>
      BY <2>3
    <3> HIDE DEF v
    <3> QED BY <3>1, <3>2
  <2> HIDE DEF Walks
  <2> QED BY <2>4
<1>4. m + 1 \in T
  <2> HIDE DEF T
  <2>1. T \in SUBSET Nat
    BY DEF T
  <2> QED BY <1>2, <1>3, <2>1, SetInduction
<1>5. Level(m + 1) = Slot(ns)
  BY <1>1 DEF IsRank
<1>6. PICK w : Walks(m + 1, w)
  BY <1>4
<1> QED BY <1>5, <1>6 DEF IsWalk

(* And there is one only.                                                  *)
LEMMA WalkIs ==
  ASSUME NEW ns, ns \in Seq(Node), Linked(ns), Ranked(ns), NEW w, IsWalk(ns, w), NEW i \in Slot(ns)
  PROVE  LeavesFrom(ns, i) = w[i]
<1>0. PICK m \in Nat : \E r : IsRank(ns, m, r)
  BY DEF Ranked
<1>1. PICK r : IsRank(ns, m, r)
  BY <1>0
<1> DEFINE Is(f) == f = [j \in 1 .. Len(ns) |-> IF IsSplit(ns[j]) THEN f[ns[j].first] \o f[ns[j].second]
                                                                  ELSE <<ns[j].id>>]
           u == CHOOSE f : Is(f)
<1>2. Is(w)
  BY DEF IsWalk, Slot
<1>3. Is(u)
  <2> HIDE DEF Is
  <2> QED BY <1>2
<1>4. LeavesFrom(ns, i) = u[i]
  BY DEF LeavesFrom
<1> HIDE DEF u
<1> DEFINE S == {j \in Slot(ns) : u[j] = w[j]}
<1>5. ASSUME NEW j \in Slot(ns), \A k \in Slot(ns) : r[k] < r[j] => k \in S
      PROVE  j \in S
  <2>1. IsSplit(ns[j]) => /\ ns[j].first \in Slot(ns) /\ ns[j].second \in Slot(ns)
                          /\ r[ns[j].first] < r[j] /\ r[ns[j].second] < r[j]
    BY <1>1, Slots3 DEF IsRank
  <2>2. IsSplit(ns[j]) => u[ns[j].first] = w[ns[j].first] /\ u[ns[j].second] = w[ns[j].second]
    BY <1>5, <2>1
  <2>3. u[j] = w[j]
    BY <1>3, <2>2 DEF IsWalk, Slot
  <2> QED BY <2>3
<1>6. \A j \in Slot(ns) : j \in S
  <2> HIDE DEF S
  <2> QED BY <1>1, <1>5, RankInduction DEF IsRank
<1> QED BY <1>4, <1>6

-----------------------------------------------------------------------------
(* What is under a slot.                                                   *)
Closed(ns, S) ==
  \A y \in S : IsSplit(ns[y]) => ns[y].first \in S /\ ns[y].second \in S

Under(ns, j) ==
  {x \in Slot(ns) : \A S \in SUBSET Slot(ns) : j \in S /\ Closed(ns, S) => x \in S}

LEMMA UnderSmallest ==
  ASSUME NEW ns, NEW j, NEW S \in SUBSET Slot(ns), j \in S, Closed(ns, S)
  PROVE  Under(ns, j) \subseteq S
BY DEF Under

LEMMA UnderClosed ==
  ASSUME NEW ns, ns \in Seq(Node), Linked(ns), NEW j \in Slot(ns)
  PROVE  j \in Under(ns, j) /\ Under(ns, j) \in SUBSET Slot(ns) /\ Closed(ns, Under(ns, j))
<1>1. ASSUME NEW y \in Under(ns, j), IsSplit(ns[y])
      PROVE  ns[y].first \in Under(ns, j) /\ ns[y].second \in Under(ns, j)
  <2>1. ns[y].first \in Slot(ns) /\ ns[y].second \in Slot(ns)
    BY <1>1, Slots3 DEF Under
  <2> QED BY <1>1, <2>1 DEF Under, Closed
<1> QED BY <1>1 DEF Under, Closed

LEMMA UnderLeaf ==
  ASSUME NEW ns, ns \in Seq(Node), Linked(ns), NEW j \in Slot(ns), ~IsSplit(ns[j])
  PROVE  Under(ns, j) = {j}
<1>1. Closed(ns, {j})
  BY DEF Closed
<1> QED BY <1>1, UnderSmallest, UnderClosed

LEMMA UnderSplit ==
  ASSUME NEW ns, ns \in Seq(Node), Linked(ns), NEW j \in Slot(ns), IsSplit(ns[j])
  PROVE  Under(ns, j) = {j} \cup Under(ns, ns[j].first) \cup Under(ns, ns[j].second)
<1> DEFINE a == ns[j].first
           b == ns[j].second
           U == {j} \cup Under(ns, a) \cup Under(ns, b)
<1>1. a \in Slot(ns) /\ b \in Slot(ns)
  BY Slots3
<1> HIDE DEF a, b
<1>2. /\ a \in Under(ns, a) /\ Under(ns, a) \in SUBSET Slot(ns) /\ Closed(ns, Under(ns, a))
      /\ b \in Under(ns, b) /\ Under(ns, b) \in SUBSET Slot(ns) /\ Closed(ns, Under(ns, b))
  BY <1>1, UnderClosed
<1>3. Closed(ns, U)
  BY <1>2 DEF Closed, a, b
<1>4. Under(ns, j) \subseteq U
  BY <1>2, <1>3, UnderSmallest
<1>5. j \in Under(ns, j) /\ Under(ns, j) \in SUBSET Slot(ns) /\ Closed(ns, Under(ns, j))
  BY UnderClosed
<1>6. a \in Under(ns, j) /\ b \in Under(ns, j)
  BY <1>5 DEF Closed, a, b
<1>7. Under(ns, a) \subseteq Under(ns, j) /\ Under(ns, b) \subseteq Under(ns, j)
  BY <1>5, <1>6, UnderSmallest
<1> QED BY <1>4, <1>5, <1>7 DEF a, b

LEMMA UnderRank ==
  ASSUME NEW ns, ns \in Seq(Node), Linked(ns), NEW m \in Nat, NEW r, IsRank(ns, m, r),
         NEW j \in Slot(ns), NEW x \in Under(ns, j)
  PROVE  r[x] <= r[j]
<1> DEFINE S == {y \in Slot(ns) : r[y] <= r[j]}
<1>1. Closed(ns, S)
  <2> SUFFICES ASSUME NEW y \in S, IsSplit(ns[y]) PROVE ns[y].first \in S /\ ns[y].second \in S
    BY DEF Closed
  <2>1. ns[y].first \in Slot(ns) /\ ns[y].second \in Slot(ns)
    BY Slots3
  <2> QED BY <2>1 DEF IsRank
<1>2. j \in S
  BY DEF IsRank
<1>3. x \in S
  <2> HIDE DEF S
  <2>1. S \in SUBSET Slot(ns)
    BY DEF S
  <2> QED BY <1>1, <1>2, <2>1, UnderSmallest
<1> QED BY <1>3

(* All but the top hang on a slot that is under it too.                    *)
LEMMA UnderHangs ==
  ASSUME NEW ns, ns \in Seq(Node), Linked(ns), NEW j \in Slot(ns), NEW x \in Under(ns, j), x # j
  PROVE  ns[x].parent \in Under(ns, j)
<1> DEFINE S == {y \in Under(ns, j) : y = j \/ ns[y].parent \in Under(ns, j)}
<1>1. j \in Under(ns, j) /\ Under(ns, j) \in SUBSET Slot(ns) /\ Closed(ns, Under(ns, j))
  BY UnderClosed
<1>2. Closed(ns, S)
  <2> SUFFICES ASSUME NEW y \in S, IsSplit(ns[y]) PROVE ns[y].first \in S /\ ns[y].second \in S
    BY DEF Closed
  <2>1. ns[ns[y].first].parent = y /\ ns[ns[y].second].parent = y
    BY <1>1, Slots3
  <2> QED BY <1>1, <2>1 DEF Closed
<1>3. x \in S
  <2> HIDE DEF S
  <2>1. S \in SUBSET Slot(ns) /\ j \in S
    BY <1>1 DEF S
  <2> QED BY <1>2, <2>1, UnderSmallest
<1> QED BY <1>3

LEMMA UnderApart ==
  ASSUME NEW ns, ns \in Seq(Node), Linked(ns), Ranked(ns), NEW j \in Slot(ns), IsSplit(ns[j]),
         NEW a \in {ns[j].first, ns[j].second}, NEW b \in {ns[j].first, ns[j].second}, a # b
  PROVE  Under(ns, a) \cap Under(ns, b) = {}
<1>0. PICK m \in Nat : \E r : IsRank(ns, m, r)
  BY DEF Ranked
<1>1. PICK r : IsRank(ns, m, r)
  BY <1>0
<1>2. /\ a \in Slot(ns) /\ b \in Slot(ns) /\ ns[a].parent = j /\ ns[b].parent = j
      /\ r[a] < r[j] /\ r[b] < r[j]
  BY <1>1, Slots3 DEF IsRank
<1>3. j \notin Under(ns, a) /\ j \notin Under(ns, b)
  <2>1. r[a] \in Nat /\ r[b] \in Nat /\ r[j] \in Nat
    BY <1>1, <1>2 DEF IsRank
  <2>2. ASSUME j \in Under(ns, a) PROVE FALSE
    <3>1. r[j] <= r[a]
      BY <1>1, <1>2, <2>2, UnderRank
    <3> QED BY <1>2, <2>1, <3>1
  <2>3. ASSUME j \in Under(ns, b) PROVE FALSE
    <3>1. r[j] <= r[b]
      BY <1>1, <1>2, <2>3, UnderRank
    <3> QED BY <1>2, <2>1, <3>1
  <2> QED BY <2>2, <2>3
<1> DEFINE S == Under(ns, a) \ Under(ns, b)
<1>4. /\ a \in Under(ns, a) /\ Under(ns, a) \in SUBSET Slot(ns) /\ Closed(ns, Under(ns, a))
      /\ Under(ns, b) \in SUBSET Slot(ns)
  BY <1>2, UnderClosed
<1>5. a \in S
  BY <1>2, <1>3, <1>4, UnderHangs
<1>6. Closed(ns, S)
  <2> SUFFICES ASSUME NEW y \in S, IsSplit(ns[y]), NEW c \in {ns[y].first, ns[y].second} PROVE c \in S
    BY DEF Closed
  <2>1. ns[c].parent = y /\ c \in Under(ns, a)
    BY <1>4, Slots3 DEF Closed
  <2>2. ASSUME c \in Under(ns, b) PROVE FALSE
    <3>1. CASE c = b
      BY <1>2, <1>3, <2>1, <3>1
    <3>2. CASE c # b
      BY <1>2, <2>1, <2>2, <3>2, UnderHangs
    <3> QED BY <3>1, <3>2
  <2> QED BY <2>1, <2>2
<1>7. Under(ns, a) \subseteq S
  <2> HIDE DEF S
  <2>1. S \in SUBSET Slot(ns)
    BY <1>4 DEF S
  <2> QED BY <1>5, <1>6, <2>1, UnderSmallest
<1> QED BY <1>7

(* All that is not free is under the root.                                 *)
LEMMA UnderRoot ==
  ASSUME NEW ns, NEW rt, Tree(ns, rt), NEW i \in Slot(ns), ns[i] # Hole
  PROVE  i \in Under(ns, rt)
<1>0. PICK m \in Nat : \E r : IsRank(ns, m, r)
  BY DEF Tree, Ranked
<1>1. PICK r : IsRank(ns, m, r)
  BY <1>0
<1> DEFINE d == [x \in Slot(ns) |-> m - r[x]]
           S == {x \in Slot(ns) : ns[x] # Hole => x \in Under(ns, rt)}
<1>2. d \in [Slot(ns) -> 0 .. m]
  BY <1>1 DEF IsRank
<1>3. rt \in Slot(ns) /\ rt \in Under(ns, rt) /\ Closed(ns, Under(ns, rt))
  BY UnderClosed DEF Tree, OneRoot
<1>4. ASSUME NEW x \in Slot(ns), \A k \in Slot(ns) : d[k] < d[x] => k \in S
      PROVE  x \in S
  <2> SUFFICES ASSUME ns[x] # Hole, x # rt PROVE x \in Under(ns, rt)
    BY <1>3
  <2> DEFINE k == ns[x].parent
  <2>1. k \in Slot(ns) /\ x \in {ns[k].first, ns[k].second} /\ IsSplit(ns[k])
    <3>1. ns[x].parent # NoNode /\ Hanging(ns, x)
      BY DEF Tree, OneRoot, Linked
    <3>2. k \in Slot(ns) /\ x \in {ns[k].first, ns[k].second}
      BY <3>1 DEF Hanging
    <3>3. Shape(ns, k) /\ x # NoNode
      BY <3>2 DEF Tree, Linked, Slot, NoNode
    <3> HIDE DEF k
    <3> QED BY <3>2, <3>3 DEF Shape, IsSplit, Slot, NoNode, Hole, Branch
  <2>2. r[x] < r[k]
    BY <1>1, <2>1 DEF IsRank
  <2>3. d[k] < d[x]
    BY <1>1, <2>1, <2>2 DEF IsRank
  <2>4. ns[k] # Hole
    BY <2>1 DEF IsSplit, Hole, Branch
  <2>5. k \in Under(ns, rt)
    BY <1>4, <2>1, <2>3, <2>4
  <2> QED BY <1>3, <2>1, <2>5 DEF Closed
<1>5. \A x \in Slot(ns) : x \in S
  <2> HIDE DEF S, d
  <2> QED BY <1>2, <1>4, RankInduction
<1> QED BY <1>5

-----------------------------------------------------------------------------
(* What a walk finds: every leaf under the slot, once.                     *)
Finds(ns, s, U) ==
  /\ s \in Seq(Nat) /\ s # <<>>
  /\ \A k \in DOMAIN s : \E x \in U : IsLeaf(ns[x]) /\ ns[x].id = s[k]
  /\ \A x \in U : IsLeaf(ns[x]) => \E k \in DOMAIN s : s[k] = ns[x].id
  /\ \A k, l \in DOMAIN s : s[k] = s[l] => k = l

LEMMA Joined ==
  ASSUME NEW T, NEW s \in Seq(T), NEW t \in Seq(T)
  PROVE  /\ s \o t \in Seq(T) /\ Len(s \o t) = Len(s) + Len(t)
         /\ DOMAIN s = 1 .. Len(s) /\ DOMAIN t = 1 .. Len(t) /\ DOMAIN (s \o t) = 1 .. (Len(s) + Len(t))
         /\ \A k \in 1 .. Len(s) : (s \o t)[k] = s[k]
         /\ \A k \in 1 .. Len(t) : (s \o t)[Len(s) + k] = t[k]
         /\ \A k \in 1 .. (Len(s) + Len(t)) :
              k \in 1 .. Len(s) \/ \E l \in 1 .. Len(t) : k = Len(s) + l
<1>1. ASSUME NEW k \in 1 .. (Len(s) + Len(t)), k \notin 1 .. Len(s)
      PROVE  \E l \in 1 .. Len(t) : k = Len(s) + l
  <2>1. k - Len(s) \in 1 .. Len(t) /\ k = Len(s) + (k - Len(s))
    BY <1>1
  <2> QED BY <2>1
<1> QED BY <1>1

LEMMA FindsJoin ==
  ASSUME NEW ns, Distinct(ns), NEW U \in SUBSET Slot(ns), NEW V \in SUBSET Slot(ns), U \cap V = {},
         NEW s, NEW t, Finds(ns, s, U), Finds(ns, t, V), NEW j, ~IsLeaf(ns[j])
  PROVE  Finds(ns, s \o t, {j} \cup U \cup V)
<1> DEFINE q == s \o t
           m == Len(s)
           n == Len(t)
<1>1. s \in Seq(Nat) /\ t \in Seq(Nat) /\ m \in Nat /\ n \in Nat /\ m # 0
  BY DEF Finds
<1>2. /\ q \in Seq(Nat) /\ Len(q) = m + n
      /\ DOMAIN s = 1 .. m /\ DOMAIN t = 1 .. n /\ DOMAIN q = 1 .. (m + n)
      /\ \A k \in 1 .. m : q[k] = s[k]
      /\ \A k \in 1 .. n : q[m + k] = t[k]
      /\ \A k \in 1 .. (m + n) : k \in 1 .. m \/ \E l \in 1 .. n : k = m + l
  BY <1>1, Joined
<1>3. \A k \in 1 .. n : m + k \in 1 .. (m + n)
  BY <1>1
<1>4. \A k \in 1 .. m : k \in 1 .. (m + n)
  BY <1>1
<1>5. q # <<>>
  BY <1>1, <1>2
<1> HIDE DEF q, m, n
<1>6. ASSUME NEW k \in DOMAIN q PROVE \E x \in {j} \cup U \cup V : IsLeaf(ns[x]) /\ ns[x].id = q[k]
  <2>1. CASE k \in 1 .. m
    <3>1. k \in DOMAIN s /\ q[k] = s[k]
      BY <1>2, <2>1
    <3>2. PICK x \in U : IsLeaf(ns[x]) /\ ns[x].id = s[k]
      BY <3>1 DEF Finds
    <3> QED BY <3>1, <3>2
  <2>2. ASSUME NEW l \in 1 .. n, k = m + l PROVE \E x \in {j} \cup U \cup V : IsLeaf(ns[x]) /\ ns[x].id = q[k]
    <3>1. l \in DOMAIN t /\ q[k] = t[l]
      BY <1>2, <2>2
    <3>2. PICK x \in V : IsLeaf(ns[x]) /\ ns[x].id = t[l]
      BY <3>1 DEF Finds
    <3> QED BY <3>1, <3>2
  <2> QED BY <1>2, <2>1, <2>2
<1>7. ASSUME NEW x \in {j} \cup U \cup V, IsLeaf(ns[x]) PROVE \E k \in DOMAIN q : q[k] = ns[x].id
  <2>1. CASE x \in U
    <3>1. PICK k \in 1 .. m : s[k] = ns[x].id
      BY <1>2, <1>7, <2>1 DEF Finds
    <3> QED BY <1>2, <1>4, <3>1
  <2>2. CASE x \in V
    <3>1. PICK k \in 1 .. n : t[k] = ns[x].id
      BY <1>2, <1>7, <2>2 DEF Finds
    <3> QED BY <1>2, <1>3, <3>1
  <2> QED BY <1>7, <2>1, <2>2
<1>8. ASSUME NEW k \in 1 .. m, NEW l \in 1 .. n PROVE s[k] # t[l]
  <2>1. PICK x \in U : IsLeaf(ns[x]) /\ ns[x].id = s[k]
    BY <1>2 DEF Finds
  <2>2. PICK y \in V : IsLeaf(ns[y]) /\ ns[y].id = t[l]
    BY <1>2 DEF Finds
  <2> QED BY <2>1, <2>2 DEF Distinct, IsLeaf
<1>9. ASSUME NEW k \in DOMAIN q, NEW l \in DOMAIN q, q[k] = q[l] PROVE k = l
  <2>1. CASE k \in 1 .. m /\ l \in 1 .. m
    BY <1>2, <1>9, <2>1 DEF Finds
  <2>2. ASSUME NEW b \in 1 .. n, l = m + b, k \in 1 .. m PROVE FALSE
    BY <1>2, <1>8, <1>9, <2>2
  <2>3. ASSUME NEW a \in 1 .. n, k = m + a, l \in 1 .. m PROVE FALSE
    BY <1>2, <1>8, <1>9, <2>3
  <2>4. ASSUME NEW a \in 1 .. n, k = m + a, NEW b \in 1 .. n, l = m + b PROVE k = l
    <3>1. a \in DOMAIN t /\ b \in DOMAIN t /\ t[a] = t[b]
      BY <1>2, <1>9, <2>4
    <3>2. a = b
      BY <3>1 DEF Finds
    <3> QED BY <2>4, <3>2
  <2> QED BY <1>2, <2>1, <2>2, <2>3, <2>4
<1>10. Finds(ns, q, {j} \cup U \cup V)
  BY <1>2, <1>5, <1>6, <1>7, <1>9 DEF Finds
<1> QED BY <1>10 DEF q

LEMMA WalkFinds ==
  ASSUME NEW ns, NEW rt, Tree(ns, rt), NEW w, IsWalk(ns, w), NEW i \in Slot(ns), ns[i] # Hole
  PROVE  Finds(ns, w[i], Under(ns, i))
<1>0. PICK m \in Nat : \E r : IsRank(ns, m, r)
  BY DEF Tree, Ranked
<1>1. PICK r : IsRank(ns, m, r)
  BY <1>0
<1> DEFINE S == {j \in Slot(ns) : ns[j] # Hole => Finds(ns, w[j], Under(ns, j))}
<1>2. ASSUME NEW j \in Slot(ns), \A k \in Slot(ns) : r[k] < r[j] => k \in S
      PROVE  j \in S
  <2> SUFFICES ASSUME ns[j] # Hole PROVE Finds(ns, w[j], Under(ns, j))
    OBVIOUS
  <2>1. CASE IsSplit(ns[j])
    <3> DEFINE a == ns[j].first
               b == ns[j].second
    <3>1. /\ a \in Slot(ns) /\ b \in Slot(ns) /\ ns[a] # Hole /\ ns[b] # Hole /\ a # b /\ ns[j].id = NoPane
          /\ r[a] < r[j] /\ r[b] < r[j]
      BY <1>1, <2>1, Slots3 DEF IsRank, Tree
    <3>2. Finds(ns, w[a], Under(ns, a)) /\ Finds(ns, w[b], Under(ns, b))
      BY <1>2, <3>1
    <3>3. Under(ns, a) \cap Under(ns, b) = {}
      BY <2>1, <3>1, UnderApart DEF Tree
    <3>4. Under(ns, a) \in SUBSET Slot(ns) /\ Under(ns, b) \in SUBSET Slot(ns)
      BY <3>1, UnderClosed DEF Tree
    <3>5. Under(ns, j) = {j} \cup Under(ns, a) \cup Under(ns, b)
      BY <2>1, UnderSplit DEF Tree
    <3>6. w[j] = w[a] \o w[b]
      BY <2>1 DEF IsWalk
    <3>7. ~IsLeaf(ns[j])
      BY <3>1 DEF IsLeaf
    <3> HIDE DEF a, b
    <3>8. Finds(ns, w[a] \o w[b], {j} \cup Under(ns, a) \cup Under(ns, b))
      BY <3>2, <3>3, <3>4, <3>7, FindsJoin DEF Tree
    <3> QED BY <3>5, <3>6, <3>8
  <2>2. CASE ~IsSplit(ns[j])
    <3>1. Under(ns, j) = {j} /\ w[j] = <<ns[j].id>> /\ ns[j].id \in Nat /\ IsLeaf(ns[j])
      BY <2>2, UnderLeaf, Slots3 DEF Tree, IsWalk, Node
    <3> QED BY <3>1 DEF Finds
  <2> QED BY <2>1, <2>2
<1>3. \A j \in Slot(ns) : j \in S
  <2> HIDE DEF S
  <2>1. r \in [Slot(ns) -> 0 .. m]
    BY <1>1 DEF IsRank
  <2> QED BY <1>2, <2>1, RankInduction
<1> QED BY <1>3

(* The panes of a tree are its leaves, those of a slot what it leads to.   *)
LEMMA LeavesFound ==
  ASSUME NEW ns, NEW rt, Tree(ns, rt), NEW i \in Slot(ns), ns[i] # Hole
  PROVE  Finds(ns, LeavesFrom(ns, i), Under(ns, i))
<1>1. PICK w : IsWalk(ns, w)
  BY WalkExists DEF Tree
<1>2. LeavesFrom(ns, i) = w[i]
  BY <1>1, WalkIs DEF Tree
<1> QED BY <1>1, <1>2, WalkFinds

LEMMA PanesFound ==
  ASSUME NEW ns, NEW rt, Tree(ns, rt)
  PROVE  Finds(ns, LeavesFrom(ns, rt), Slot(ns))
<1>1. rt \in Slot(ns) /\ ns[rt] # Hole
  BY DEF Tree, OneRoot
<1>2. Finds(ns, LeavesFrom(ns, rt), Under(ns, rt))
  BY <1>1, LeavesFound
<1>3. \A x \in Slot(ns) : IsLeaf(ns[x]) => x \in Under(ns, rt)
  BY UnderRoot DEF IsLeaf, Hole, Branch
<1>4. Under(ns, rt) \in SUBSET Slot(ns)
  BY <1>1, UnderClosed DEF Tree
<1> QED BY <1>2, <1>3, <1>4 DEF Finds
-----------------------------------------------------------------------------
(* Joining arenas.                                                         *)

(* An arena without holes whose panes are s.                               *)
Plan(ns, rt, s) ==
  Tree(ns, rt) /\ (\A i \in Slot(ns) : ns[i] # Hole) /\ LeavesFrom(ns, rt) = s

To(i, k) == IF i = NoNode THEN NoNode ELSE i + k

(* Slot i of arena a, which is moved by k slots with its root r under top. *)
CopyAt(a, i, k, r, top) ==
  [id |-> a[i].id, parent |-> IF i = r THEN top ELSE To(a[i].parent, k),
   first |-> To(a[i].first, k), second |-> To(a[i].second, k)]

(* a, with root ra, is in ns moved by k, under top.                        *)
Copied(ns, a, k, ra, top) ==
  \A i \in Slot(a) : i + k \in Slot(ns) /\ ns[i + k] = CopyAt(a, i, k, ra, top)

LEMMA CopyLinked ==
  ASSUME NEW a, NEW ra, NEW s, Plan(a, ra, s), NEW k \in Nat, NEW ns, NEW top \in Slot(ns), Copied(ns, a, k, ra, top),
         ra + k \in {ns[top].first, ns[top].second}, NEW i \in Slot(a)
  PROVE  /\ Shape(ns, i + k) /\ Hanging(ns, i + k) /\ ns[i + k] # Hole /\ ns[i + k].parent # NoNode
         /\ ns[i + k].id = a[i].id /\ (IsSplit(ns[i + k]) <=> IsSplit(a[i]))
         /\ IsSplit(a[i]) => ns[i + k].first = a[i].first + k /\ ns[i + k].second = a[i].second + k
<1>1. /\ a[i] \in Node /\ a[i] # Hole /\ ra \in Slot(a) /\ ra # NoNode /\ i # NoNode /\ i \in Nat /\ top # NoNode
      /\ a[ra].parent = NoNode /\ (i # ra => a[i].parent # NoNode)
  BY Slots3 DEF Plan, Tree, OneRoot, Slot, NoNode
<1>2. /\ i + k \in Slot(ns)
      /\ ns[i + k] = [id |-> a[i].id, parent |-> IF i = ra THEN top ELSE To(a[i].parent, k),
                      first |-> To(a[i].first, k), second |-> To(a[i].second, k)]
  BY DEF Copied, CopyAt
<1>3. i # ra => /\ a[i].parent \in Slot(a) /\ i \in {a[a[i].parent].first, a[a[i].parent].second}
  <2>1. Hanging(a, i)
    BY DEF Plan, Tree, Linked
  <2> QED BY <1>1, <2>1 DEF Hanging
<1>4. ns[i + k].parent # NoNode /\ Hanging(ns, i + k)
  <2>1. CASE i = ra
    BY <1>1, <1>2, <2>1 DEF Hanging
  <2>2. CASE i # ra
    <3> DEFINE p == a[i].parent
    <3>1. p \in Slot(a) /\ p # NoNode /\ p \in Nat /\ i \in {a[p].first, a[p].second}
      <4>1. p \in Slot(a) /\ i \in {a[p].first, a[p].second} /\ p # NoNode
        BY <1>1, <1>3, <2>2
      <4> HIDE DEF p
      <4> QED BY <4>1 DEF Slot
    <3>2. p + k \in Slot(ns) /\ ns[p + k].first = To(a[p].first, k) /\ ns[p + k].second = To(a[p].second, k)
      <4> HIDE DEF p
      <4>1. /\ p + k \in Slot(ns)
            /\ ns[p + k] = [id |-> a[p].id, parent |-> IF p = ra THEN top ELSE To(a[p].parent, k),
                            first |-> To(a[p].first, k), second |-> To(a[p].second, k)]
        BY <3>1 DEF Copied, CopyAt
      <4> QED BY <4>1
    <3>3. ns[i + k].parent = p + k /\ p + k # NoNode
      BY <1>2, <2>2, <3>1 DEF To, NoNode
    <3> HIDE DEF p
    <3>4. i + k \in {ns[p + k].first, ns[p + k].second}
      BY <1>1, <3>1, <3>2 DEF To
    <3> QED BY <3>2, <3>3, <3>4 DEF Hanging
  <2> QED BY <2>1, <2>2
<1>5. CASE IsSplit(a[i])
  <2> DEFINE f == a[i].first
             g == a[i].second
  <2>1. /\ f \in Slot(a) /\ g \in Slot(a) /\ f # g /\ a[i].id = NoPane /\ a[f].parent = i /\ a[g].parent = i
        /\ a[f] # Hole /\ a[g] # Hole
    BY <1>5, Slots3 DEF Plan, Tree
  <2>2. f # NoNode /\ g # NoNode /\ f \in Nat /\ g \in Nat /\ f # ra /\ g # ra
    BY <1>1, <2>1 DEF Slot, NoNode
  <2>3. ns[i + k].first = f + k /\ ns[i + k].second = g + k /\ ns[i + k].id = NoPane
    BY <1>2, <2>1, <2>2 DEF To
  <2>4. ASSUME NEW h \in {f, g} PROVE h + k \in Slot(ns) /\ ns[h + k] # Hole /\ ns[h + k].parent = i + k
    <3>1. h \in Slot(a) /\ a[h].parent = i /\ h # ra /\ a[h] # Hole
      BY <2>1, <2>2
    <3>2. /\ h + k \in Slot(ns)
          /\ ns[h + k] = [id |-> a[h].id, parent |-> To(a[h].parent, k),
                          first |-> To(a[h].first, k), second |-> To(a[h].second, k)]
      BY <3>1 DEF Copied, CopyAt
    <3>3. ns[h + k].parent = i + k
      BY <1>1, <3>1, <3>2 DEF To
    <3>4. i + k # NoNode
      BY <1>1 DEF NoNode
    <3> QED BY <3>2, <3>3, <3>4 DEF Hole, Branch
  <2> HIDE DEF f, g
  <2>5. f + k # g + k /\ f + k # NoNode /\ f + k \in Slot(ns) /\ g + k \in Slot(ns)
    BY <2>1, <2>2, <2>4 DEF NoNode
  <2>6. Shape(ns, i + k) /\ ns[i + k] # Hole /\ IsSplit(ns[i + k])
    BY <2>3, <2>4, <2>5 DEF Shape, IsSplit, Hole, Branch
  <2> QED BY <1>2, <1>4, <1>5, <2>3, <2>6 DEF f, g
<1>6. CASE ~IsSplit(a[i])
  <2>1. a[i].id # NoPane /\ a[i].first = NoNode /\ a[i].second = NoNode
    <3>1. Shape(a, i)
      BY DEF Plan, Tree, Linked
    <3> QED BY <1>1, <1>6, <3>1 DEF Shape, IsSplit, Slot, NoNode
  <2>2. ns[i + k].id # NoPane /\ ns[i + k].first = NoNode /\ ns[i + k].second = NoNode
    BY <1>2, <2>1 DEF To
  <2> QED BY <1>2, <1>4, <1>6, <2>1, <2>2 DEF Shape, IsSplit, Hole, Branch
<1> QED BY <1>5, <1>6

(* ns is the arenas a and b and a split above them.                        *)
Glued(ns, top, a, ka, ra, b, kb, rb) ==
  /\ ns \in Seq(Node) /\ top \in Slot(ns) /\ ns[top] = Branch(NoNode, ra + ka, rb + kb)
  /\ Copied(ns, a, ka, ra, top) /\ Copied(ns, b, kb, rb, top)
  /\ \A x \in Slot(ns) : \/ x = top
                         \/ \E i \in Slot(a) : x = i + ka
                         \/ \E i \in Slot(b) : x = i + kb
  /\ \A i \in Slot(a) : i + ka # top /\ \A j \in Slot(b) : i + ka # j + kb
  /\ \A j \in Slot(b) : j + kb # top
LEMMA GluedPlan ==
  ASSUME NEW a, NEW ra, NEW s, Plan(a, ra, s), NEW b, NEW rb, NEW t, Plan(b, rb, t),
         \A k \in DOMAIN s, l \in DOMAIN t : s[k] # t[l],
         NEW ka \in Nat, NEW kb \in Nat, NEW ns, NEW top, Glued(ns, top, a, ka, ra, b, kb, rb)
  PROVE  Plan(ns, top, s \o t)
<1>a. /\ ns \in Seq(Node) /\ top \in Slot(ns) /\ ns[top] = Branch(NoNode, ra + ka, rb + kb)
      /\ Copied(ns, a, ka, ra, top) /\ Copied(ns, b, kb, rb, top)
      /\ \A x \in Slot(ns) : x = top \/ (\E i \in Slot(a) : x = i + ka) \/ (\E i \in Slot(b) : x = i + kb)
      /\ Tree(a, ra) /\ Tree(b, rb) /\ a \in Seq(Node) /\ b \in Seq(Node)
  BY DEF Glued, Plan, Tree
<1>b. ASSUME NEW i \in Slot(a)
      PROVE  i \in Nat /\ i + ka \in Slot(ns) /\ i + ka # top /\ (i + ka) - ka = i
  <2>1. i \in Nat /\ (i + ka) - ka = i
    BY <1>a DEF Slot
  <2>2. i + ka \in Slot(ns) /\ i + ka # top
    BY DEF Glued, Copied
  <2> QED BY <2>1, <2>2
<1>c. ASSUME NEW i \in Slot(b)
      PROVE  /\ i \in Nat /\ i + kb \in Slot(ns) /\ i + kb # top /\ (i + kb) - kb = i
             /\ i + kb \notin {j + ka : j \in Slot(a)}
  <2>1. i \in Nat /\ (i + kb) - kb = i
    BY <1>a DEF Slot
  <2>2. i + kb \in Slot(ns) /\ i + kb # top /\ \A j \in Slot(a) : j + ka # i + kb
    BY DEF Glued, Copied
  <2> QED BY <2>1, <2>2
<1>1. top \in Slot(ns) /\ ns[top].first = ra + ka /\ ns[top].second = rb + kb /\ ns[top].id = NoPane /\ ns[top].parent = NoNode
  BY <1>a DEF Branch
<1>2. /\ ra \in Slot(a) /\ rb \in Slot(b) /\ a[ra] # Hole /\ b[rb] # Hole
      /\ ra + ka \in Slot(ns) /\ rb + kb \in Slot(ns) /\ ra + ka # rb + kb /\ ra + ka # NoNode
      /\ ns[ra + ka].parent = top /\ ns[rb + kb].parent = top
  <2>1. ra \in Slot(a) /\ rb \in Slot(b) /\ a[ra] # Hole /\ b[rb] # Hole
    BY DEF Plan, Tree, OneRoot
  <2>2. ra + ka # rb + kb
    BY <1>b, <1>c, <2>1
  <2>3. ns[ra + ka].parent = top /\ ns[rb + kb].parent = top
    <3>1. ns[ra + ka] = [id |-> a[ra].id, parent |-> top, first |-> To(a[ra].first, ka), second |-> To(a[ra].second, ka)]
      BY <1>a, <2>1 DEF Copied, CopyAt
    <3>2. ns[rb + kb] = [id |-> b[rb].id, parent |-> top, first |-> To(b[rb].first, kb), second |-> To(b[rb].second, kb)]
      BY <1>a, <2>1 DEF Copied, CopyAt
    <3> QED BY <3>1, <3>2
  <2>4. ra + ka # NoNode
    BY <1>a, <2>1 DEF Slot, NoNode
  <2> QED BY <1>b, <1>c, <2>1, <2>2, <2>3, <2>4
<1>3. ASSUME NEW i \in Slot(a)
      PROVE  /\ Shape(ns, i + ka) /\ Hanging(ns, i + ka) /\ ns[i + ka] # Hole /\ ns[i + ka].parent # NoNode
             /\ ns[i + ka].id = a[i].id /\ (IsSplit(ns[i + ka]) <=> IsSplit(a[i]))
             /\ IsSplit(a[i]) => ns[i + ka].first = a[i].first + ka /\ ns[i + ka].second = a[i].second + ka
  <2>1. ra + ka \in {ns[top].first, ns[top].second}
    BY <1>1
  <2>2. top \in Slot(ns) /\ Copied(ns, a, ka, ra, top)
    BY <1>a, <1>1
  <2> QED BY <2>1, <2>2, CopyLinked
<1>4. ASSUME NEW i \in Slot(b)
      PROVE  /\ Shape(ns, i + kb) /\ Hanging(ns, i + kb) /\ ns[i + kb] # Hole /\ ns[i + kb].parent # NoNode
             /\ ns[i + kb].id = b[i].id /\ (IsSplit(ns[i + kb]) <=> IsSplit(b[i]))
             /\ IsSplit(b[i]) => ns[i + kb].first = b[i].first + kb /\ ns[i + kb].second = b[i].second + kb
  <2>1. rb + kb \in {ns[top].first, ns[top].second}
    BY <1>1
  <2>2. top \in Slot(ns) /\ Copied(ns, b, kb, rb, top)
    BY <1>a, <1>1
  <2> QED BY <2>1, <2>2, CopyLinked
<1>5. Shape(ns, top) /\ Hanging(ns, top) /\ ns[top] # Hole /\ IsSplit(ns[top])
  BY <1>1, <1>2, <1>3, <1>4 DEF Shape, Hanging, IsSplit, Hole, Branch
<1>6. Linked(ns)
  BY <1>a, <1>3, <1>4, <1>5 DEF Linked
<1>7. OneRoot(ns, top)
  BY <1>a, <1>1, <1>3, <1>4, <1>5 DEF OneRoot
<1>8. \A i \in Slot(ns) : ns[i] # Hole
  BY <1>a, <1>3, <1>4, <1>5
<1>9. Distinct(ns)
  <2>1. ASSUME NEW i \in Slot(a), NEW j \in Slot(b), a[i].id # NoPane PROVE a[i].id # b[j].id
    <3>1. Finds(a, s, Slot(a)) /\ Finds(b, t, Slot(b))
      BY PanesFound DEF Plan
    <3>2. PICK k \in DOMAIN s : s[k] = a[i].id
      BY <2>1, <3>1 DEF Finds, IsLeaf
    <3>3. ASSUME a[i].id = b[j].id PROVE FALSE
      <4>1. PICK l \in DOMAIN t : t[l] = b[j].id
        BY <2>1, <3>1, <3>3 DEF Finds, IsLeaf
      <4> QED BY <3>2, <3>3, <4>1
    <3> QED BY <3>3
  <2>2. ASSUME NEW x \in Slot(ns), NEW y \in Slot(ns), ns[x].id # NoPane, ns[x].id = ns[y].id PROVE x = y
    <3>1. x # top /\ y # top
      BY <1>1, <2>2
    <3>2. ASSUME NEW i \in Slot(a), x = i + ka, NEW j \in Slot(a), y = j + ka PROVE x = y
      BY <1>3, <2>2, <3>2 DEF Plan, Tree, Distinct
    <3>3. ASSUME NEW i \in Slot(b), x = i + kb, NEW j \in Slot(b), y = j + kb PROVE x = y
      BY <1>4, <2>2, <3>3 DEF Plan, Tree, Distinct
    <3>4. ASSUME NEW i \in Slot(a), NEW j \in Slot(b), ns[i + ka].id = ns[j + kb].id, ns[i + ka].id # NoPane
          PROVE  FALSE
      <4>1. a[i].id # NoPane /\ a[i].id = b[j].id
        BY <1>3, <1>4, <3>4
      <4> QED BY <2>1, <4>1
    <3> QED BY <1>a, <2>2, <3>1, <3>2, <3>3, <3>4
  <2> QED BY <2>2 DEF Distinct
<1>10. Ranked(ns)
  <2>a. PICK ma \in Nat : \E u : IsRank(a, ma, u)
    BY DEF Plan, Tree, Ranked
  <2>1. PICK u : IsRank(a, ma, u)
    BY <2>a
  <2>b. PICK mb \in Nat : \E v : IsRank(b, mb, v)
    BY DEF Plan, Tree, Ranked
  <2>2. PICK v : IsRank(b, mb, v)
    BY <2>b
  <2> DEFINE m == ma + mb + 1
             r == [x \in Slot(ns) |-> IF x = top THEN m
                                      ELSE IF x \in {i + ka : i \in Slot(a)} THEN u[x - ka] ELSE v[x - kb]]
  <2>3. r[top] = m /\ m \in Nat /\ ma < m /\ mb < m
    BY <1>1
  <2>4. ASSUME NEW i \in Slot(a) PROVE r[i + ka] = u[i] /\ u[i] \in 0 .. ma
    <3>1. r[i + ka] = u[i]
      BY <1>b
    <3> QED BY <2>1, <3>1 DEF IsRank
  <2>5. ASSUME NEW i \in Slot(b) PROVE r[i + kb] = v[i] /\ v[i] \in 0 .. mb
    <3>1. r[i + kb] = v[i]
      BY <1>c
    <3> QED BY <2>2, <3>1 DEF IsRank
  <2>6. r \in [Slot(ns) -> 0 .. m]
    <3>1. \A x \in Slot(ns) : r[x] \in 0 .. m
      <4> HIDE DEF r
      <4> QED BY <1>a, <2>3, <2>4, <2>5, SMTT(30)
    <3> QED BY <3>1
  <2> HIDE DEF r, m
  <2>7. ASSUME NEW x \in Slot(ns), IsSplit(ns[x]) PROVE r[ns[x].first] < r[x] /\ r[ns[x].second] < r[x]
    <3>1. CASE x = top
      BY <1>1, <1>2, <2>3, <2>4, <2>5, <3>1
    <3>2. ASSUME NEW i \in Slot(a), x = i + ka PROVE r[ns[x].first] < r[x] /\ r[ns[x].second] < r[x]
      <4>1. IsSplit(a[i]) /\ ns[x].first = a[i].first + ka /\ ns[x].second = a[i].second + ka
        BY <1>3, <2>7, <3>2
      <4>2. a[i].first \in Slot(a) /\ a[i].second \in Slot(a) /\ u[a[i].first] < u[i] /\ u[a[i].second] < u[i]
        BY <2>1, <4>1, Slots3 DEF IsRank, Plan, Tree
      <4> QED BY <2>4, <3>2, <4>1, <4>2
    <3>3. ASSUME NEW i \in Slot(b), x = i + kb PROVE r[ns[x].first] < r[x] /\ r[ns[x].second] < r[x]
      <4>1. IsSplit(b[i]) /\ ns[x].first = b[i].first + kb /\ ns[x].second = b[i].second + kb
        BY <1>4, <2>7, <3>3
      <4>2. b[i].first \in Slot(b) /\ b[i].second \in Slot(b) /\ v[b[i].first] < v[i] /\ v[b[i].second] < v[i]
        BY <2>2, <4>1, Slots3 DEF IsRank, Plan, Tree
      <4> QED BY <2>5, <3>3, <4>1, <4>2
    <3> QED BY <1>a, <3>1, <3>2, <3>3
  <2>8. IsRank(ns, m, r)
    BY <2>6, <2>7 DEF IsRank
  <2> QED BY <2>3, <2>8 DEF Ranked
<1>11. Tree(ns, top)
  BY <1>a, <1>6, <1>7, <1>9, <1>10 DEF Tree
<1>12. LeavesFrom(ns, top) = s \o t
  <2>1. PICK u : IsWalk(a, u)
    BY WalkExists DEF Plan, Tree
  <2>2. PICK v : IsWalk(b, v)
    BY WalkExists DEF Plan, Tree
  <2>3. u[ra] = s /\ v[rb] = t
    BY <1>2, <2>1, <2>2, WalkIs DEF Plan, Tree
  <2> DEFINE w == [x \in Slot(ns) |-> IF x = top THEN s \o t
                                      ELSE IF x \in {i + ka : i \in Slot(a)} THEN u[x - ka] ELSE v[x - kb]]
  <2>4. w[top] = s \o t /\ s \in Seq(Nat) /\ t \in Seq(Nat)
    BY <1>1, <1>2, <2>1, <2>2, <2>3 DEF IsWalk
  <2>5. ASSUME NEW i \in Slot(a) PROVE w[i + ka] = u[i] /\ u[i] \in Seq(Nat)
    <3>1. w[i + ka] = u[i]
      BY <1>b
    <3> QED BY <2>1, <3>1 DEF IsWalk
  <2>6. ASSUME NEW i \in Slot(b) PROVE w[i + kb] = v[i] /\ v[i] \in Seq(Nat)
    <3>1. w[i + kb] = v[i]
      BY <1>c
    <3> QED BY <2>2, <3>1 DEF IsWalk
  <2>7. w \in [Slot(ns) -> Seq(Nat)]
    <3>1. s \o t \in Seq(Nat)
      BY <2>4
    <3>2. \A x \in Slot(ns) : w[x] \in Seq(Nat)
      <4> HIDE DEF w
      <4> QED BY <1>a, <2>4, <2>5, <2>6, <3>1
    <3> QED BY <3>2
  <2> HIDE DEF w
  <2>8. ASSUME NEW x \in Slot(ns)
        PROVE  w[x] = IF IsSplit(ns[x]) THEN w[ns[x].first] \o w[ns[x].second] ELSE <<ns[x].id>>
    <3>1. CASE x = top
      BY <1>1, <1>2, <1>5, <2>3, <2>4, <2>5, <2>6, <3>1
    <3>2. ASSUME NEW i \in Slot(a), x = i + ka
          PROVE  w[x] = IF IsSplit(ns[x]) THEN w[ns[x].first] \o w[ns[x].second] ELSE <<ns[x].id>>
      <4>1. CASE IsSplit(a[i])
        <5>1. IsSplit(ns[x]) /\ ns[x].first = a[i].first + ka /\ ns[x].second = a[i].second + ka
          BY <1>3, <3>2, <4>1
        <5>2. a[i].first \in Slot(a) /\ a[i].second \in Slot(a)
          BY <4>1, Slots3 DEF Plan, Tree
        <5>3. w[x] = u[i] /\ w[ns[x].first] = u[a[i].first] /\ w[ns[x].second] = u[a[i].second]
          BY <2>5, <3>2, <5>1, <5>2
        <5>4. u[i] = u[a[i].first] \o u[a[i].second]
          BY <2>1, <4>1 DEF IsWalk
        <5> QED BY <5>1, <5>3, <5>4
      <4>2. CASE ~IsSplit(a[i])
        <5>1. ~IsSplit(ns[x]) /\ ns[x].id = a[i].id /\ w[x] = u[i]
          BY <1>3, <2>5, <3>2, <4>2
        <5>2. u[i] = <<a[i].id>>
          BY <2>1, <4>2 DEF IsWalk
        <5> QED BY <5>1, <5>2
      <4> QED BY <4>1, <4>2
    <3>3. ASSUME NEW i \in Slot(b), x = i + kb
          PROVE  w[x] = IF IsSplit(ns[x]) THEN w[ns[x].first] \o w[ns[x].second] ELSE <<ns[x].id>>
      <4>1. CASE IsSplit(b[i])
        <5>1. IsSplit(ns[x]) /\ ns[x].first = b[i].first + kb /\ ns[x].second = b[i].second + kb
          BY <1>4, <3>3, <4>1
        <5>2. b[i].first \in Slot(b) /\ b[i].second \in Slot(b)
          BY <4>1, Slots3 DEF Plan, Tree
        <5>3. w[x] = v[i] /\ w[ns[x].first] = v[b[i].first] /\ w[ns[x].second] = v[b[i].second]
          BY <2>6, <3>3, <5>1, <5>2
        <5>4. v[i] = v[b[i].first] \o v[b[i].second]
          BY <2>2, <4>1 DEF IsWalk
        <5> QED BY <5>1, <5>3, <5>4
      <4>2. CASE ~IsSplit(b[i])
        <5>1. ~IsSplit(ns[x]) /\ ns[x].id = b[i].id /\ w[x] = v[i]
          BY <1>4, <2>6, <3>3, <4>2
        <5>2. v[i] = <<b[i].id>>
          BY <2>2, <4>2 DEF IsWalk
        <5> QED BY <5>1, <5>2
      <4> QED BY <4>1, <4>2
    <3> QED BY <1>a, <3>1, <3>2, <3>3
  <2>9. IsWalk(ns, w)
    BY <2>7, <2>8 DEF IsWalk
  <2> QED BY <1>1, <1>11, <2>4, <2>9, WalkIs DEF Tree
<1> QED BY <1>8, <1>11, <1>12 DEF Plan
LEMMA MovedIs ==
  ASSUME NEW ns \in Seq(Node), NEW k \in Nat, NEW r, NEW parent \in Nat
  PROVE  /\ Moved(ns, k, r, parent) \in Seq(Node) /\ Len(Moved(ns, k, r, parent)) = Len(ns)
         /\ \A i \in 1 .. Len(ns) : Moved(ns, k, r, parent)[i] = CopyAt(ns, i, k, r, parent)
<1> DEFINE m == Moved(ns, k, r, parent)
<1>1. m = [i \in 1 .. Len(ns) |-> CopyAt(ns, i, k, r, parent)]
  BY DEF Moved, To, CopyAt
<1>2. ASSUME NEW i \in 1 .. Len(ns) PROVE CopyAt(ns, i, k, r, parent) \in Node
  <2>1. ns[i] \in Node
    OBVIOUS
  <2>2. ns[i].id \in Nat /\ ns[i].parent \in Nat /\ ns[i].first \in Nat /\ ns[i].second \in Nat
    BY <2>1 DEF Node
  <2>3. \A n \in Nat : To(n, k) \in Nat
    BY DEF To, NoNode
  <2>4. (IF i = r THEN parent ELSE To(ns[i].parent, k)) \in Nat
    BY <2>2, <2>3
  <2> QED BY <2>2, <2>3, <2>4 DEF Node, CopyAt
<1>3. \A i \in 1 .. Len(ns) : m[i] = CopyAt(ns, i, k, r, parent)
  BY <1>1
<1> HIDE DEF m
<1>4. m \in Seq(Node) /\ Len(m) = Len(ns)
  BY <1>1, <1>2
<1> QED BY <1>3, <1>4 DEF m

(* Three in a row.                                                         *)
LEMMA ThreeJoined ==
  ASSUME NEW x \in Seq(Node), NEW y \in Seq(Node), NEW z \in Seq(Node)
  PROVE  /\ (x \o y) \o z \in Seq(Node) /\ Len((x \o y) \o z) = Len(x) + Len(y) + Len(z)
         /\ \A i \in 1 .. Len(x) : ((x \o y) \o z)[i] = x[i]
         /\ \A i \in 1 .. Len(y) : ((x \o y) \o z)[i + Len(x)] = y[i]
         /\ \A i \in 1 .. Len(z) : ((x \o y) \o z)[i + (Len(x) + Len(y))] = z[i]
<1>1. ASSUME NEW s \in Seq(Node), NEW t \in Seq(Node)
      PROVE  /\ s \o t \in Seq(Node) /\ Len(s \o t) = Len(s) + Len(t)
             /\ \A i \in 1 .. Len(s) : (s \o t)[i] = s[i]
             /\ \A i \in 1 .. Len(t) : (s \o t)[i + Len(s)] = t[i]
  <2>1. \A i \in 1 .. Len(t) : (s \o t)[i + Len(s)] = t[i]
    OBVIOUS
  <2> QED BY <2>1
<1> DEFINE u == x \o y
<1>2. /\ u \in Seq(Node) /\ Len(u) = Len(x) + Len(y)
      /\ \A i \in 1 .. Len(x) : u[i] = x[i]
      /\ \A i \in 1 .. Len(y) : u[i + Len(x)] = y[i]
  BY <1>1
<1> HIDE DEF u
<1>3. /\ u \o z \in Seq(Node) /\ Len(u \o z) = Len(u) + Len(z)
      /\ \A i \in 1 .. Len(u) : (u \o z)[i] = u[i]
      /\ \A i \in 1 .. Len(z) : (u \o z)[i + Len(u)] = z[i]
  BY <1>1, <1>2
<1>4. \A i \in 1 .. Len(x) : i \in 1 .. Len(u)
  BY <1>2
<1>5. \A i \in 1 .. Len(y) : i + Len(x) \in 1 .. Len(u)
  BY <1>2
<1>6. \A i \in 1 .. Len(x) : (u \o z)[i] = x[i]
  BY <1>2, <1>3, <1>4
<1>7. \A i \in 1 .. Len(y) : (u \o z)[i + Len(x)] = y[i]
  BY <1>2, <1>3, <1>5
<1> QED BY <1>2, <1>3, <1>6, <1>7 DEF u

LEMMA JoinedBefore ==
  ASSUME NEW a, NEW s, Plan(a, 1, s), NEW b, NEW t, Plan(b, 1, t),
         \A k \in DOMAIN s, l \in DOMAIN t : s[k] # t[l]
  PROVE  Plan(JoinBefore(a, b), 1, s \o t)
<1> DEFINE n == Len(a)
           m == Len(b)
           x == <<Branch(NoNode, 2, 2 + n)>>
           y == Moved(a, 1, 1, 1)
           z == Moved(b, 1 + n, 1, 1)
           ns == (x \o y) \o z
<1>1. a \in Seq(Node) /\ b \in Seq(Node) /\ n \in Nat /\ m \in Nat /\ 1 + n \in Nat
  BY DEF Plan, Tree
<1>2. y \in Seq(Node) /\ Len(y) = n /\ \A i \in 1 .. n : y[i] = CopyAt(a, i, 1, 1, 1)
  BY <1>1, MovedIs
<1>3. z \in Seq(Node) /\ Len(z) = m /\ \A i \in 1 .. m : z[i] = CopyAt(b, i, 1 + n, 1, 1)
  BY <1>1, MovedIs
<1>4. x \in Seq(Node) /\ Len(x) = 1 /\ x[1] = Branch(NoNode, 2, 2 + n)
  BY <1>1 DEF Branch, Node, NoNode, NoPane
<1>5. JoinBefore(a, b) = ns
  BY DEF JoinBefore
<1> HIDE DEF x, y, z, n, m
<1>6. /\ ns \in Seq(Node) /\ Len(ns) = 1 + n + m
      /\ \A i \in 1 .. 1 : ns[i] = x[i]
      /\ \A i \in 1 .. n : ns[i + 1] = y[i]
      /\ \A i \in 1 .. m : ns[i + (1 + n)] = z[i]
  <2> HIDE DEF ns
  <2>1. x \in Seq(Node) /\ y \in Seq(Node) /\ z \in Seq(Node)
    BY <1>2, <1>3, <1>4
  <2>2. /\ (x \o y) \o z \in Seq(Node) /\ Len((x \o y) \o z) = Len(x) + Len(y) + Len(z)
        /\ \A i \in 1 .. Len(x) : ((x \o y) \o z)[i] = x[i]
        /\ \A i \in 1 .. Len(y) : ((x \o y) \o z)[i + Len(x)] = y[i]
        /\ \A i \in 1 .. Len(z) : ((x \o y) \o z)[i + (Len(x) + Len(y))] = z[i]
    BY <2>1, ThreeJoined
  <2>3. Len(x) = 1 /\ Len(y) = n /\ Len(z) = m
    BY <1>2, <1>3, <1>4
  <2> QED BY <2>2, <2>3 DEF ns
<1> HIDE DEF ns
<1>7. Slot(a) = 1 .. n /\ Slot(b) = 1 .. m /\ Slot(ns) = 1 .. (1 + n + m)
  BY <1>6 DEF Slot, n, m
<1>8. \A i \in 1 .. n : i + 1 \in 1 .. (1 + n + m) /\ i + 1 # 1
  BY <1>1
<1>9. \A i \in 1 .. m : i + (1 + n) \in 1 .. (1 + n + m) /\ i + (1 + n) # 1
  BY <1>1
<1>10. Copied(ns, a, 1, 1, 1)
  BY <1>2, <1>6, <1>7, <1>8 DEF Copied
<1>11. Copied(ns, b, 1 + n, 1, 1)
  BY <1>3, <1>6, <1>7, <1>9 DEF Copied
<1>12. 1 \in Slot(ns) /\ ns[1] = Branch(NoNode, 1 + 1, 1 + (1 + n))
  BY <1>1, <1>4, <1>6, <1>7
<1>13. ASSUME NEW i \in Slot(ns)
       PROVE  i = 1 \/ (\E j \in Slot(a) : i = j + 1) \/ (\E j \in Slot(b) : i = j + (1 + n))
  <2>1. i = 1 \/ i - 1 \in 1 .. n \/ i - (1 + n) \in 1 .. m
    BY <1>1, <1>7
  <2>2. i = (i - 1) + 1 /\ i = (i - (1 + n)) + (1 + n)
    BY <1>1, <1>7
  <2> QED BY <1>7, <2>1, <2>2
<1>14. ASSUME NEW i \in Slot(a), NEW j \in Slot(b) PROVE i + 1 # j + (1 + n)
  BY <1>1, <1>7
<1>15. Glued(ns, 1, a, 1, 1, b, 1 + n, 1)
  BY <1>6, <1>7, <1>8, <1>9, <1>10, <1>11, <1>12, <1>13, <1>14 DEF Glued
<1>16. Plan(ns, 1, s \o t)
  BY <1>1, <1>15, GluedPlan
<1> QED BY <1>5, <1>16

LEMMA JoinedAfter ==
  ASSUME NEW a, NEW s, Plan(a, Len(a), s), NEW b, NEW t, Plan(b, Len(b), t),
         \A k \in DOMAIN s, l \in DOMAIN t : s[k] # t[l]
  PROVE  Plan(JoinAfter(a, b), Len(JoinAfter(a, b)), s \o t)
<1> DEFINE n == Len(a)
           m == Len(b)
           top == n + m + 1
           x == Moved(a, 0, n, top)
           y == Moved(b, n, m, top)
           z == <<Branch(NoNode, n, n + m)>>
           ns == (x \o y) \o z
<1>1. a \in Seq(Node) /\ b \in Seq(Node) /\ n \in Nat /\ m \in Nat /\ top \in Nat /\ 0 \in Nat
  BY DEF Plan, Tree
<1>2. x \in Seq(Node) /\ Len(x) = n /\ \A i \in 1 .. n : x[i] = CopyAt(a, i, 0, n, top)
  BY <1>1, MovedIs
<1>3. y \in Seq(Node) /\ Len(y) = m /\ \A i \in 1 .. m : y[i] = CopyAt(b, i, n, m, top)
  BY <1>1, MovedIs
<1>4. z \in Seq(Node) /\ Len(z) = 1 /\ z[1] = Branch(NoNode, n, n + m)
  BY <1>1 DEF Branch, Node, NoNode, NoPane
<1>5. JoinAfter(a, b) = ns
  BY DEF JoinAfter
<1>6. Plan(a, n, s) /\ Plan(b, m, t) /\ Slot(a) = 1 .. n /\ Slot(b) = 1 .. m
  BY DEF Slot
<1> HIDE DEF x, y, z, n, m
<1>7. /\ ns \in Seq(Node) /\ Len(ns) = n + m + 1
      /\ \A i \in 1 .. n : ns[i] = x[i]
      /\ \A i \in 1 .. m : ns[i + n] = y[i]
      /\ \A i \in 1 .. 1 : ns[i + (n + m)] = z[i]
  <2> HIDE DEF ns
  <2>1. x \in Seq(Node) /\ y \in Seq(Node) /\ z \in Seq(Node)
    BY <1>2, <1>3, <1>4
  <2>2. /\ (x \o y) \o z \in Seq(Node) /\ Len((x \o y) \o z) = Len(x) + Len(y) + Len(z)
        /\ \A i \in 1 .. Len(x) : ((x \o y) \o z)[i] = x[i]
        /\ \A i \in 1 .. Len(y) : ((x \o y) \o z)[i + Len(x)] = y[i]
        /\ \A i \in 1 .. Len(z) : ((x \o y) \o z)[i + (Len(x) + Len(y))] = z[i]
    BY <2>1, ThreeJoined
  <2>3. Len(x) = n /\ Len(y) = m /\ Len(z) = 1
    BY <1>2, <1>3, <1>4
  <2> QED BY <2>2, <2>3 DEF ns
<1> HIDE DEF ns
<1>8. Slot(ns) = 1 .. top /\ top = 1 + (n + m) /\ top = n + m + 1
  BY <1>1, <1>7 DEF Slot
<1>9. \A i \in 1 .. n : i + 0 = i /\ i \in 1 .. top /\ i # top
  BY <1>1
<1>10. \A i \in 1 .. m : i + n \in 1 .. top /\ i + n # top
  BY <1>1
<1>11. top \in Slot(ns) /\ ns[top] = Branch(NoNode, n + 0, m + n)
  <2>1. ns[1 + (n + m)] = z[1]
    BY <1>7
  <2>2. n + 0 = n /\ m + n = n + m /\ top \in 1 .. top
    BY <1>1
  <2> QED BY <1>4, <1>8, <2>1, <2>2
<1>12. ASSUME NEW i \in Slot(ns)
       PROVE  i = top \/ (\E j \in Slot(a) : i = j + 0) \/ (\E j \in Slot(b) : i = j + n)
  <2>1. i = top \/ i \in 1 .. n \/ i - n \in 1 .. m
    BY <1>1, <1>8
  <2>2. i = i + 0 /\ i = (i - n) + n
    BY <1>1, <1>8
  <2> QED BY <1>6, <2>1, <2>2
<1>13. ASSUME NEW i \in Slot(a), NEW j \in Slot(b) PROVE i + 0 # j + n
  BY <1>1, <1>6
<1> HIDE DEF top
<1>14. Copied(ns, a, 0, n, top)
  BY <1>2, <1>6, <1>7, <1>8, <1>9 DEF Copied
<1>15. Copied(ns, b, n, m, top)
  BY <1>3, <1>6, <1>7, <1>8, <1>10 DEF Copied
<1>16. Glued(ns, top, a, 0, n, b, n, m)
  BY <1>6, <1>7, <1>8, <1>9, <1>10, <1>11, <1>12, <1>13, <1>14, <1>15 DEF Glued
<1>17. Plan(ns, top, s \o t)
  BY <1>1, <1>6, <1>16, GluedPlan
<1> QED BY <1>5, <1>7, <1>8, <1>17

(* One pane by itself.                                                     *)
LEMMA LeafPlan ==
  ASSUME NEW p \in Nat \ {NoPane}
  PROVE  Plan(<<Leaf(p)>>, 1, <<p>>)
<1> DEFINE ns == <<Leaf(p)>>
<1>1. Leaf(p) \in Node /\ Leaf(p).id = p /\ Leaf(p).parent = NoNode /\ Leaf(p).first = NoNode /\ Leaf(p).second = NoNode
  BY DEF Leaf, Node, NoNode
<1>2. ns \in Seq(Node) /\ Len(ns) = 1 /\ ns[1] = Leaf(p) /\ Slot(ns) = {1}
  BY <1>1 DEF Slot
<1> HIDE DEF ns
<1>3. ns[1] # Hole /\ ~IsSplit(ns[1])
  BY <1>1, <1>2 DEF Hole, Branch, NoPane, IsSplit
<1>4. Linked(ns) /\ OneRoot(ns, 1) /\ Distinct(ns)
  BY <1>1, <1>2, <1>3 DEF Linked, Shape, Hanging, OneRoot, Distinct, NoPane
<1>5. Ranked(ns)
  <2>1. IsRank(ns, 0, [i \in Slot(ns) |-> 0])
    BY <1>2, <1>3 DEF IsRank
  <2> QED BY <2>1 DEF Ranked
<1>6. Tree(ns, 1)
  BY <1>2, <1>4, <1>5 DEF Tree
<1>7. IsWalk(ns, [i \in Slot(ns) |-> <<p>>])
  <2>1. <<p>> \in Seq(Nat)
    OBVIOUS
  <2> QED BY <1>1, <1>2, <1>3, <2>1 DEF IsWalk
<1>8. LeavesFrom(ns, 1) = <<p>>
  <2>1. LeavesFrom(ns, 1) = [i \in Slot(ns) |-> <<p>>][1]
    BY <1>2, <1>6, <1>7, WalkIs DEF Tree
  <2> QED BY <1>2, <2>1
<1> QED BY <1>2, <1>3, <1>6, <1>8 DEF Plan, ns
-----------------------------------------------------------------------------
(* Joining plans half by half.                                             *)

(* A function of ranges that is the joined plans.                          *)
JoinedAt(f, plans, r) ==
  IF r[1] < r[2]
    THEN JoinBefore(f[<<r[1], (r[1] + (r[2] - r[1] + 1) \div 2) - 1>>],
                    f[<<r[1] + (r[2] - r[1] + 1) \div 2, r[2]>>])
    ELSE plans[r[1]]

LEMMA JoinedSplit ==
  ASSUME NEW f, NEW plans, NEW r, r[1] < r[2]
  PROVE  JoinedAt(f, plans, r) =
           JoinBefore(f[<<r[1], (r[1] + (r[2] - r[1] + 1) \div 2) - 1>>],
                      f[<<r[1] + (r[2] - r[1] + 1) \div 2, r[2]>>])
<1> QED BY Zenon DEF JoinedAt

Places(n) == (1 .. n) \X (1 .. n)

Narrower(n, d) == {r \in Places(n) : r[2] < r[1] + d}

LEMMA Middle ==
  ASSUME NEW n \in Nat, NEW r \in Places(n), r[1] < r[2]
  PROVE  LET mid == r[1] + (r[2] - r[1] + 1) \div 2
         IN  /\ mid \in Nat /\ mid - 1 \in Nat /\ r[1] <= mid - 1 /\ mid <= r[2]
             /\ <<r[1], mid - 1>> \in Places(n) /\ <<mid, r[2]>> \in Places(n)
             /\ \A d \in Nat : r[2] < r[1] + (d + 1) =>
                  <<r[1], mid - 1>> \in Narrower(n, d) /\ <<mid, r[2]>> \in Narrower(n, d)
<1> DEFINE i == r[1]
           j == r[2]
           h == (j - i + 1) \div 2
           mid == i + h
<1>1. i \in 1 .. n /\ j \in 1 .. n /\ i < j
  BY DEF Places
<1>2. h \in Nat /\ 1 <= h /\ h <= j - i
  <2>1. j - i + 1 \in Nat /\ j - i + 1 >= 2
    BY <1>1
  <2> HIDE DEF i, j
  <2>2. \A k \in Nat : k >= 2 => (k \div 2) \in Nat /\ 1 <= (k \div 2) /\ (k \div 2) <= k - 1
    OBVIOUS
  <2> QED BY <1>1, <2>1, <2>2
<1> HIDE DEF h
<1>3. mid \in 1 .. n /\ mid - 1 \in 1 .. n /\ i <= mid - 1 /\ mid <= j
  BY <1>1, <1>2
<1>4. <<i, mid - 1>> \in Places(n) /\ <<mid, j>> \in Places(n)
  BY <1>1, <1>3 DEF Places
<1>5. ASSUME NEW d \in Nat, j < i + (d + 1) PROVE <<i, mid - 1>> \in Narrower(n, d) /\ <<mid, j>> \in Narrower(n, d)
  BY <1>1, <1>3, <1>4, <1>5 DEF Narrower
<1> QED BY <1>3, <1>4, <1>5 DEF h

LEMMA JoinedExists ==
  ASSUME NEW plans, NEW n \in Nat
  PROVE  \E f : f = [r \in Places(n) |-> JoinedAt(f, plans, r)]
<1> DEFINE Is(d, f) == f = [r \in Narrower(n, d) |-> JoinedAt(f, plans, r)]
           T == {d \in Nat : \E f : Is(d, f)}
<1>1. 0 \in T
  <2> DEFINE f == [r \in Narrower(n, 0) |-> plans[r[1]]]
  <2>1. ASSUME NEW r \in Narrower(n, 0) PROVE f[r] = JoinedAt(f, plans, r)
    BY DEF Narrower, Places, JoinedAt
  <2>2. Is(0, f)
    BY <2>1
  <2> HIDE DEF Is, f
  <2> QED BY <2>2
<1>2. ASSUME NEW d \in T PROVE d + 1 \in T
  <2>1. PICK f : Is(d, f)
    OBVIOUS
  <2> DEFINE g == [r \in Narrower(n, d + 1) |-> JoinedAt(f, plans, r)]
  <2>2. ASSUME NEW r \in Narrower(n, d) PROVE g[r] = f[r]
    <3>1. r \in Narrower(n, d + 1)
      BY DEF Narrower, Places
    <3> HIDE DEF Narrower, JoinedAt
    <3> QED BY <2>1, <3>1
  <2>3. ASSUME NEW r \in Narrower(n, d + 1) PROVE g[r] = JoinedAt(g, plans, r)
    <3>1. g[r] = JoinedAt(f, plans, r)
      OBVIOUS
    <3> DEFINE mid == r[1] + (r[2] - r[1] + 1) \div 2
               p == <<r[1], mid - 1>>
               q == <<mid, r[2]>>
    <3> HIDE DEF g
    <3>2. CASE r[1] < r[2]
      <4>1. r \in Places(n) /\ r[2] < r[1] + (d + 1)
        BY DEF Narrower
      <4>2. p \in Narrower(n, d) /\ q \in Narrower(n, d)
        BY <3>2, <4>1, Middle
      <4>3. JoinedAt(f, plans, r) = JoinBefore(f[p], f[q]) /\ JoinedAt(g, plans, r) = JoinBefore(g[p], g[q])
        BY <3>2, JoinedSplit, Zenon
      <4> HIDE DEF p, q
      <4>4. g[p] = f[p] /\ g[q] = f[q]
        BY <2>2, <4>2
      <4> QED BY <3>1, <4>3, <4>4
    <3>3. CASE ~(r[1] < r[2])
      BY <3>1, <3>3 DEF JoinedAt
    <3> QED BY <3>2, <3>3
  <2>4. Is(d + 1, g)
    <3> HIDE DEF JoinedAt
    <3>1. g = [r \in Narrower(n, d + 1) |-> g[r]]
      OBVIOUS
    <3> HIDE DEF g
    <3> QED BY <2>3, <3>1
  <2> HIDE DEF Is, g
  <2> QED BY <2>4
<1>3. n \in T
  <2> HIDE DEF T
  <2>1. T \in SUBSET Nat
    BY DEF T
  <2> QED BY <1>1, <1>2, <2>1, SetInduction
<1>4. Narrower(n, n) = Places(n)
  BY DEF Narrower, Places
<1> QED BY <1>3, <1>4
(* Plans of consecutive pieces of ps join to a plan of all of it.          *)
Pieces(plans, n, ps, cut) ==
  /\ n \in Nat \ {0} /\ ps \in Seq(Nat) /\ \A k, l \in 1 .. Len(ps) : ps[k] = ps[l] => k = l
  /\ cut \in [0 .. n -> 0 .. Len(ps)]
  /\ \A i, j \in 0 .. n : i <= j => cut[i] <= cut[j]
  /\ \A i \in 1 .. n : Plan(plans[i], 1, SubSeq(ps, cut[i - 1] + 1, cut[i]))

LEMMA Adjacent ==
  ASSUME NEW x \in Nat, NEW y \in Nat, NEW z \in Nat, NEW m \in Nat, x <= y, y <= z, z <= m,
         NEW k \in Nat, 1 <= k, k <= y - x, NEW l \in Nat, 1 <= l, l <= z - y
  PROVE  x + k \in 1 .. m /\ y + l \in 1 .. m /\ x + k # y + l
<1> QED OBVIOUS

LEMMA PiecesJoin ==
  ASSUME NEW ps \in Seq(Nat), \A k, l \in 1 .. Len(ps) : ps[k] = ps[l] => k = l,
         NEW x \in 0 .. Len(ps), NEW y \in x .. Len(ps), NEW z \in y .. Len(ps),
         NEW a, Plan(a, 1, SubSeq(ps, x + 1, y)), NEW b, Plan(b, 1, SubSeq(ps, y + 1, z))
  PROVE  Plan(JoinBefore(a, b), 1, SubSeq(ps, x + 1, z))
<1> DEFINE s == SubSeq(ps, x + 1, y)
           t == SubSeq(ps, y + 1, z)
<1>1. s \o t = SubSeq(ps, x + 1, z)
  BY ConcatAdjacentSubSeq
<1>2. /\ s \in Seq(Nat) /\ Len(s) = (IF x + 1 <= y THEN y - (x + 1) + 1 ELSE 0)
      /\ \A i \in 1 .. (y - (x + 1) + 1) : s[i] = ps[(x + 1) + i - 1]
  <2>1. \A i \in (x + 1) .. y : ps[i] \in Nat
    OBVIOUS
  <2> QED BY <2>1, SubSeqProperties
<1>3. /\ t \in Seq(Nat) /\ Len(t) = (IF y + 1 <= z THEN z - (y + 1) + 1 ELSE 0)
      /\ \A i \in 1 .. (z - (y + 1) + 1) : t[i] = ps[(y + 1) + i - 1]
  <2>1. \A i \in (y + 1) .. z : ps[i] \in Nat
    OBVIOUS
  <2> QED BY <2>1, SubSeqProperties
<1> HIDE DEF s, t
<1>4. ASSUME NEW k \in DOMAIN s, NEW l \in DOMAIN t PROVE s[k] # t[l]
  <2>0. x \in Nat /\ y \in Nat /\ z \in Nat /\ Len(ps) \in Nat /\ x <= y /\ y <= z /\ z <= Len(ps)
    OBVIOUS
  <2>1. k \in 1 .. (y - x)
    <3>1. k \in 1 .. Len(s)
      <4>1. s \in Seq(Nat)
        BY <1>2
      <4> QED BY <4>1
    <3>2. Len(s) = y - x
      BY <1>2, <2>0
    <3> QED BY <3>1, <3>2
  <2>2. s[k] = ps[x + k]
    <3>1. y - (x + 1) + 1 = y - x /\ (x + 1) + k - 1 = x + k
      BY <2>0, <2>1
    <3> QED BY <1>2, <2>1, <3>1
  <2>3. l \in 1 .. (z - y)
    BY <1>3, <2>0, SMTT(30)
  <2>4. t[l] = ps[y + l]
    <3>1. z - (y + 1) + 1 = z - y /\ (y + 1) + l - 1 = y + l
      BY <2>0, <2>3
    <3> QED BY <1>3, <2>3, <3>1
  <2>5. x + k \in 1 .. Len(ps) /\ y + l \in 1 .. Len(ps) /\ x + k # y + l
    <3>1. k \in Nat /\ 1 <= k /\ k <= y - x /\ l \in Nat /\ 1 <= l /\ l <= z - y
      BY <2>0, <2>1, <2>3, SMTT(30)
    <3> QED BY <2>0, <3>1, Adjacent
  <2> QED BY <2>2, <2>4, <2>5
<1>5. Plan(JoinBefore(a, b), 1, s \o t)
  BY <1>4, JoinedBefore DEF s, t
<1> QED BY <1>1, <1>5

LEMMA HalvedPlan ==
  ASSUME NEW plans, NEW ps, NEW cut, Pieces(plans, Len(plans), ps, cut)
  PROVE  Plan(Halved(plans), 1, SubSeq(ps, cut[0] + 1, cut[Len(plans)]))
<1> DEFINE n == Len(plans)
           Is(f) == f = [r \in Places(n) |-> JoinedAt(f, plans, r)]
           join == CHOOSE f : Is(f)
           Good(r) == r[1] <= r[2] => Plan(join[r], 1, SubSeq(ps, cut[r[1] - 1] + 1, cut[r[2]]))
           T == {d \in Nat : \A r \in Narrower(n, d) : Good(r)}
<1>1. n \in Nat \ {0}
  BY DEF Pieces
<1>2. Is(join)
  <2>1. \E f : Is(f)
    BY <1>1, JoinedExists
  <2> HIDE DEF Is
  <2> QED BY <2>1
<1>3. Halved(plans) = join[<<1, n>>]
  BY Zenon DEF Halved, Places, JoinedAt
<1> HIDE DEF join, n
<1>4. 0 \in T
  BY DEF Narrower, Places
<1>5. ASSUME NEW d \in T PROVE d + 1 \in T
  <2> SUFFICES ASSUME NEW r \in Narrower(n, d + 1), r[1] <= r[2]
               PROVE  Plan(join[r], 1, SubSeq(ps, cut[r[1] - 1] + 1, cut[r[2]]))
    OBVIOUS
  <2>1. r \in Places(n) /\ r[1] \in 1 .. n /\ r[2] \in 1 .. n /\ r[2] < r[1] + (d + 1)
    BY DEF Narrower, Places
  <2>2. join[r] = JoinedAt(join, plans, r)
    BY <1>2, <2>1
  <2>3. CASE r[1] < r[2]
    <3> DEFINE mid == r[1] + (r[2] - r[1] + 1) \div 2
               p == <<r[1], mid - 1>>
               q == <<mid, r[2]>>
    <3>1. /\ mid \in Nat /\ mid - 1 \in Nat /\ r[1] <= mid - 1 /\ mid <= r[2]
          /\ p \in Narrower(n, d) /\ q \in Narrower(n, d)
      BY <1>1, <2>1, <2>3, Middle
    <3>2. join[r] = JoinBefore(join[p], join[q])
      <4>1. JoinedAt(join, plans, r) = JoinBefore(join[p], join[q])
        BY <2>3, JoinedSplit, Zenon
      <4> QED BY <2>2, <4>1, Zenon
    <3>3. Good(p) /\ Good(q)
      <4> HIDE DEF Good, p, q
      <4> QED BY <1>5, <3>1
    <3> HIDE DEF mid
    <3>4. /\ Plan(join[p], 1, SubSeq(ps, cut[r[1] - 1] + 1, cut[mid - 1]))
          /\ Plan(join[q], 1, SubSeq(ps, cut[mid - 1] + 1, cut[r[2]]))
      BY <3>1, <3>3
    <3> HIDE DEF p, q
    <3>5. /\ ps \in Seq(Nat) /\ \A k, l \in 1 .. Len(ps) : ps[k] = ps[l] => k = l
          /\ cut[r[1] - 1] \in 0 .. Len(ps) /\ cut[mid - 1] \in cut[r[1] - 1] .. Len(ps)
          /\ cut[r[2]] \in cut[mid - 1] .. Len(ps)
      <4>1. r[1] - 1 \in 0 .. n /\ mid - 1 \in 0 .. n /\ r[2] \in 0 .. n /\ r[1] - 1 <= mid - 1 /\ mid - 1 <= r[2]
        BY <1>1, <2>1, <3>1
      <4> QED BY <4>1 DEF Pieces, n
    <3> DEFINE x == cut[r[1] - 1]
               y == cut[mid - 1]
               z == cut[r[2]]
               a == join[p]
               b == join[q]
    <3>6. /\ x \in 0 .. Len(ps) /\ y \in x .. Len(ps) /\ z \in y .. Len(ps)
          /\ Plan(a, 1, SubSeq(ps, x + 1, y)) /\ Plan(b, 1, SubSeq(ps, y + 1, z))
      BY <3>4, <3>5
    <3>7. join[r] = JoinBefore(a, b)
      BY <3>2
    <3> HIDE DEF x, y, z, a, b
    <3>8. Plan(JoinBefore(a, b), 1, SubSeq(ps, x + 1, z))
      BY <3>5, <3>6, PiecesJoin
    <3> QED BY <3>7, <3>8 DEF x, z
  <2>4. CASE ~(r[1] < r[2])
    <3>1. r[2] = r[1]
      BY <2>1, <2>4
    <3>2. join[r] = plans[r[1]]
      BY <2>2, <2>4 DEF JoinedAt
    <3>3. Plan(plans[r[1]], 1, SubSeq(ps, cut[r[1] - 1] + 1, cut[r[1]]))
      BY <2>1 DEF Pieces, n
    <3> QED BY <3>1, <3>2, <3>3
  <2> QED BY <2>3, <2>4
<1>6. n \in T
  <2> HIDE DEF T
  <2>1. T \in SUBSET Nat
    BY DEF T
  <2> QED BY <1>1, <1>4, <1>5, <2>1, SetInduction
<1>7. <<1, n>> \in Narrower(n, n) /\ <<1, n>>[1] <= <<1, n>>[2]
  BY <1>1 DEF Narrower, Places
<1>8. Good(<<1, n>>)
  BY <1>6, <1>7
<1>9. Plan(join[<<1, n>>], 1, SubSeq(ps, cut[0] + 1, cut[n]))
  BY <1>1, <1>8
<1> QED BY <1>3, <1>9 DEF n
-----------------------------------------------------------------------------
(* The plans of the retiles spell the order they are given.                *)

(* A pane order: a sequence that names no pane twice.                      *)
Order(ps) ==
  /\ ps \in Seq(Nat) /\ \A k \in 1 .. Len(ps) : ps[k] # NoPane
  /\ \A k, l \in 1 .. Len(ps) : ps[k] = ps[l] => k = l

LEMMA EvenSpells ==
  ASSUME NEW ps, Order(ps), Len(ps) > 0
  PROVE  Plan(EvenPlan(ps), 1, ps)
<1> DEFINE n == Len(ps)
           plans == [i \in 1 .. n |-> <<Leaf(ps[i])>>]
           cut == [i \in 0 .. n |-> i]
<1>1. n \in Nat \ {0} /\ ps \in Seq(Nat) /\ \A k \in 1 .. n : ps[k] \in Nat \ {NoPane}
  BY DEF Order
<1>2. EvenPlan(ps) = Halved(plans)
  BY DEF EvenPlan
<1> HIDE DEF n
<1>3. Len(plans) = n /\ \A i \in 1 .. n : plans[i] = <<Leaf(ps[i])>>
  <2>1. \A i \in 1 .. n : <<Leaf(ps[i])>> \in Seq(Node)
    BY <1>1 DEF Leaf, Node, NoNode
  <2>2. plans \in Seq(Seq(Node)) /\ DOMAIN plans = 1 .. n
    BY <1>1, <2>1
  <2> HIDE DEF plans
  <2>3. DOMAIN plans = 1 .. Len(plans) /\ Len(plans) \in Nat
    BY <2>2
  <2> QED BY <1>1, <2>2, <2>3 DEF plans
<1>4. cut \in [0 .. n -> 0 .. n] /\ \A i \in 0 .. n : cut[i] = i
  BY <1>1
<1> HIDE DEF plans, cut
<1>5. ASSUME NEW i \in 1 .. n PROVE Plan(plans[i], 1, SubSeq(ps, cut[i - 1] + 1, cut[i]))
  <2>1. cut[i - 1] + 1 = i /\ cut[i] = i
    BY <1>1, <1>4
  <2>2. SubSeq(ps, i, i) = <<ps[i]>>
    <3>1. i \in 1 .. Len(ps) /\ i \in i .. Len(ps) /\ i \in Int /\ i + 1 \in Int /\ i < i + 1
      BY <1>1 DEF n
    <3>2. SubSeq(ps, i, i) = <<ps[i]>> \o SubSeq(ps, i + 1, i)
      BY <1>1, <3>1, SubSeqRecursiveFirst
    <3>3. SubSeq(ps, i + 1, i) = <<>>
      BY <3>1, SubSeqEmpty
    <3>4. <<ps[i]>> \in Seq(Nat)
      BY <1>1
    <3> QED BY <3>2, <3>3, <3>4, ConcatEmptySeq
  <2>3. Plan(<<Leaf(ps[i])>>, 1, <<ps[i]>>)
    BY <1>1, LeafPlan
  <2> QED BY <1>3, <2>1, <2>2, <2>3
<1>6. Pieces(plans, Len(plans), ps, cut)
  BY <1>1, <1>3, <1>4, <1>5 DEF Pieces, Order, n
<1>7. Plan(Halved(plans), 1, SubSeq(ps, cut[0] + 1, cut[n]))
  BY <1>3, <1>6, HalvedPlan
<1>8. SubSeq(ps, cut[0] + 1, cut[n]) = ps
  BY <1>1, <1>4, SubSeqFull DEF n
<1> QED BY <1>2, <1>7, <1>8

LEMMA SubOrder ==
  ASSUME NEW ps, Order(ps), NEW x \in 0 .. Len(ps), NEW y \in x .. Len(ps)
  PROVE  /\ Order(SubSeq(ps, x + 1, y)) /\ Len(SubSeq(ps, x + 1, y)) = y - x
         /\ \A k \in 1 .. (y - x) : SubSeq(ps, x + 1, y)[k] = ps[x + k] /\ x + k \in 1 .. Len(ps)
<1> DEFINE s == SubSeq(ps, x + 1, y)
<1>1. ps \in Seq(Nat) /\ Len(ps) \in Nat /\ x \in Nat /\ y \in Nat /\ x <= y /\ y <= Len(ps)
  BY DEF Order
<1>2. /\ s \in Seq(Nat) /\ Len(s) = (IF x + 1 <= y THEN y - (x + 1) + 1 ELSE 0)
      /\ \A i \in 1 .. (y - (x + 1) + 1) : s[i] = ps[(x + 1) + i - 1]
  <2>1. \A i \in (x + 1) .. y : ps[i] \in Nat
    BY <1>1
  <2> QED BY <1>1, <2>1, SubSeqProperties
<1> HIDE DEF s
<1>3. Len(s) = y - x
  BY <1>1, <1>2
<1>4. ASSUME NEW k \in 1 .. (y - x) PROVE s[k] = ps[x + k] /\ x + k \in 1 .. Len(ps)
  <2>1. y - (x + 1) + 1 = y - x /\ (x + 1) + k - 1 = x + k /\ x + k \in 1 .. Len(ps)
    BY <1>1
  <2> QED BY <1>2, <2>1
<1>5. ASSUME NEW k \in 1 .. (y - x), NEW l \in 1 .. (y - x), s[k] = s[l] PROVE k = l
  <2>1. x + k = x + l
    BY <1>4, <1>5 DEF Order
  <2> QED BY <1>1, <2>1
<1>6. \A k \in 1 .. (y - x) : s[k] # NoPane
  BY <1>4 DEF Order
<1> QED BY <1>2, <1>3, <1>4, <1>5, <1>6 DEF s, Order

(* The arithmetic of the grid's rows.                                      *)
LEMMA GridColumns ==
  ASSUME NEW n \in Nat \ {0}
  PROVE  \E c \in 1 .. n : c * c >= n /\ (c - 1) * (c - 1) < n
<1> DEFINE S == {c \in 1 .. n : c * c >= n}
<1>1. n * n >= n
  OBVIOUS
<1>2. S \in SUBSET Nat /\ S # {}
  <2>1. n \in S
    BY <1>1
  <2>2. \A c \in S : c \in Nat
    OBVIOUS
  <2> HIDE DEF S
  <2> QED BY <2>1, <2>2
<1>3. PICK c \in S : \A y \in S : c <= y
  <2> HIDE DEF S
  <2> QED BY <1>2, Least
<1>4. (c - 1) * (c - 1) < n
  <2>1. CASE c = 1
    BY <2>1
  <2>2. CASE c # 1
    <3>1. c - 1 \in 1 .. n /\ c - 1 < c /\ (c - 1) * (c - 1) \in Nat
      BY <2>2
    <3>2. c - 1 \notin S
      BY <1>3, <3>1
    <3> QED BY <3>1, <3>2
  <2> QED BY <2>1, <2>2
<1> QED BY <1>3, <1>4

LEMMA Rows ==
  ASSUME NEW n \in Nat \ {0}, NEW c \in 1 .. n
  PROVE  LET q == (n + c - 1) \div c
         IN  q \in Nat \ {0} /\ q * c >= n /\ \A r \in 0 .. (q - 1) : r * c \in Nat /\ r * c < n
<1> DEFINE q == (n + c - 1) \div c
           m == (n + c - 1) % c
<1>1. n + c - 1 \in Nat /\ c \in Nat \ {0} /\ n + c - 1 >= c
  OBVIOUS
<1>2. q \in Nat /\ m \in Nat /\ m < c /\ n + c - 1 = q * c + m
  BY <1>1
<1> HIDE DEF q, m
<1>3. q * c \in Nat /\ q * c >= n /\ q * c < n + c
  BY <1>1, <1>2
<1>4. q # 0
  BY <1>3
<1>5. ASSUME NEW r \in 0 .. (q - 1) PROVE r * c \in Nat /\ r * c < n
  <2>1. r \in Nat /\ r + 1 <= q /\ c \in Nat
    BY <1>2
  <2>2. (r + 1) * c <= q * c
    BY <1>2, <2>1
  <2>3. (r + 1) * c = r * c + c /\ r * c \in Nat
    BY <2>1
  <2> QED BY <1>3, <2>1, <2>2, <2>3
<1> QED BY <1>2, <1>3, <1>4, <1>5 DEF q

LEMMA RowEnds ==
  ASSUME NEW n \in Nat \ {0}, NEW c \in 1 .. n, NEW q \in Nat \ {0}, q * c >= n,
         \A r \in 0 .. (q - 1) : r * c \in Nat /\ r * c < n,
         NEW e, \A r \in 0 .. q : e[r] = IF r * c < n THEN r * c ELSE n
  PROVE  /\ e[0] = 0 /\ e[q] = n
         /\ \A i \in 0 .. q : e[i] \in 0 .. n
         /\ \A i, j \in 0 .. q : i <= j => e[i] <= e[j]
         /\ \A i \in 1 .. q : e[i - 1] < e[i]
<1>1. e[0] = 0
  BY DEF NoNode
<1>2. e[q] = n
  <2>1. q * c \in Nat
    OBVIOUS
  <2> QED BY <2>1
<1>3. \A i \in 0 .. (q - 1) : e[i] = i * c /\ i * c \in Nat /\ i * c < n
  OBVIOUS
<1>4. ASSUME NEW i \in 0 .. q PROVE e[i] \in 0 .. n
  BY <1>2, <1>3
<1>5. ASSUME NEW i \in 0 .. q, NEW j \in 0 .. q, i <= j PROVE e[i] <= e[j]
  <2>1. CASE j = q
    BY <1>2, <1>4, <2>1
  <2>2. CASE j # q
    <3>1. i \in 0 .. (q - 1) /\ j \in 0 .. (q - 1) /\ i \in Nat /\ j \in Nat
      BY <1>5, <2>2
    <3>2. i * c <= j * c
      BY <1>5, <3>1
    <3> QED BY <1>3, <3>1, <3>2
  <2> QED BY <2>1, <2>2
<1>6. ASSUME NEW i \in 1 .. q PROVE e[i - 1] < e[i]
  <2>1. i - 1 \in 0 .. (q - 1) /\ i \in 0 .. q /\ i \in Nat /\ i - 1 \in Nat
    OBVIOUS
  <2>2. e[i - 1] = (i - 1) * c /\ (i - 1) * c \in Nat /\ (i - 1) * c < n
    BY <1>3, <2>1
  <2>3. i * c = (i - 1) * c + c
    BY <2>1
  <2> QED BY <2>1, <2>2, <2>3
<1> QED BY <1>1, <1>2, <1>4, <1>5, <1>6

LEMMA GridSpells ==
  ASSUME NEW ps, Order(ps), Len(ps) > 0
  PROVE  Plan(GridPlan(ps), 1, ps)
<1> DEFINE n == Len(ps)
           cols == CHOOSE c \in 1 .. n : c * c >= n /\ (c - 1) * (c - 1) < n
           rows == (n + cols - 1) \div cols
           last(r) == IF r * cols < n THEN r * cols ELSE n
           row(r) == SubSeq(ps, last(r - 1) + 1, last(r))
           plans == [r \in 1 .. rows |-> EvenPlan(row(r))]
           cut == [r \in 0 .. rows |-> last(r)]
<1>1. n \in Nat \ {0} /\ ps \in Seq(Nat)
  BY DEF Order
<1>2. GridPlan(ps) = Halved(plans)
  BY DEF GridPlan
<1>3. cols \in 1 .. n
  <2> HIDE DEF n
  <2>1. \E c \in 1 .. n : c * c >= n /\ (c - 1) * (c - 1) < n
    BY <1>1, GridColumns
  <2> QED BY <2>1
<1> HIDE DEF cols, n
<1>4. /\ rows \in Nat \ {0} /\ rows * cols >= n
      /\ \A r \in 0 .. (rows - 1) : r * cols \in Nat /\ r * cols < n
  BY <1>1, <1>3, Rows
<1> HIDE DEF rows
<1>5. \A r \in 0 .. rows : cut[r] = IF r * cols < n THEN r * cols ELSE n
  OBVIOUS
<1>6. \A r \in 0 .. rows : cut[r] = last(r)
  OBVIOUS
<1>7. cut = [r \in 0 .. rows |-> cut[r]]
  OBVIOUS
<1> HIDE DEF cut
<1>8. /\ cut[0] = 0 /\ cut[rows] = n
      /\ \A i \in 0 .. rows : cut[i] \in 0 .. n
      /\ \A i, j \in 0 .. rows : i <= j => cut[i] <= cut[j]
      /\ \A i \in 1 .. rows : cut[i - 1] < cut[i]
  BY <1>1, <1>3, <1>4, <1>5, RowEnds
<1> HIDE DEF last
<1>9. ASSUME NEW r \in 1 .. rows PROVE Plan(EvenPlan(row(r)), 1, SubSeq(ps, cut[r - 1] + 1, cut[r]))
  <2>1. r \in 0 .. rows /\ r - 1 \in 0 .. rows
    BY <1>4
  <2>2. cut[r - 1] \in 0 .. n /\ cut[r] \in cut[r - 1] .. n /\ cut[r] > cut[r - 1]
    BY <1>1, <1>8, <2>1
  <2>3. row(r) = SubSeq(ps, cut[r - 1] + 1, cut[r])
    BY <1>6, <2>1
  <2> HIDE DEF row
  <2>4. Order(row(r)) /\ Len(row(r)) = cut[r] - cut[r - 1]
    BY <2>2, <2>3, SubOrder DEF n
  <2>5. Len(row(r)) > 0
    BY <1>1, <2>2, <2>4
  <2>6. Plan(EvenPlan(row(r)), 1, row(r))
    BY <2>4, <2>5, EvenSpells
  <2> QED BY <2>3, <2>6
<1> HIDE DEF row
<1>10. Len(plans) = rows /\ \A r \in 1 .. rows : plans[r] = EvenPlan(row(r))
  <2>1. \A r \in 1 .. rows : EvenPlan(row(r)) \in Seq(Node)
    BY <1>9 DEF Plan, Tree
  <2>2. plans \in Seq(Seq(Node)) /\ DOMAIN plans = 1 .. rows
    BY <1>4, <2>1
  <2> HIDE DEF plans
  <2>3. DOMAIN plans = 1 .. Len(plans) /\ Len(plans) \in Nat
    BY <2>2
  <2> QED BY <1>4, <2>2, <2>3 DEF plans
<1> HIDE DEF plans
<1>11. Pieces(plans, Len(plans), ps, cut)
  <2>1. cut \in [0 .. rows -> 0 .. n]
    BY <1>7, <1>8
  <2>2. \A i \in 1 .. rows : Plan(plans[i], 1, SubSeq(ps, cut[i - 1] + 1, cut[i]))
    BY <1>9, <1>10
  <2> QED BY <1>4, <1>8, <1>10, <2>1, <2>2 DEF Pieces, Order, n
<1>12. Plan(Halved(plans), 1, SubSeq(ps, cut[0] + 1, cut[rows]))
  BY <1>10, <1>11, HalvedPlan
<1>13. SubSeq(ps, cut[0] + 1, cut[rows]) = ps
  BY <1>1, <1>8, SubSeqFull DEF n
<1> QED BY <1>2, <1>12, <1>13

LEMMA OrdersJoin ==
  ASSUME NEW s, Order(s), NEW t, Order(t), \A k \in DOMAIN s, l \in DOMAIN t : s[k] # t[l]
  PROVE  Order(s \o t) /\ ToSet(s \o t) = ToSet(s) \cup ToSet(t)
<1>1. s \in Seq(Nat) /\ t \in Seq(Nat) /\ Len(s) \in Nat /\ Len(t) \in Nat
  BY DEF Order
<1>2. /\ s \o t \in Seq(Nat) /\ Len(s \o t) = Len(s) + Len(t)
      /\ DOMAIN s = 1 .. Len(s) /\ DOMAIN t = 1 .. Len(t) /\ DOMAIN (s \o t) = 1 .. (Len(s) + Len(t))
      /\ \A i \in 1 .. Len(s) : (s \o t)[i] = s[i]
      /\ \A i \in 1 .. Len(t) : (s \o t)[Len(s) + i] = t[i]
  BY <1>1, Joined
<1> DEFINE u == s \o t
           n == Len(s)
           m == Len(t)
<1>3. ASSUME NEW k \in 1 .. (n + m)
      PROVE  \/ k \in 1 .. n /\ u[k] = s[k]
             \/ k - n \in 1 .. m /\ u[k] = t[k - n] /\ k = n + (k - n)
  <2>1. k \in 1 .. n \/ (k - n \in 1 .. m /\ k = n + (k - n))
    BY <1>1
  <2> QED BY <1>2, <2>1
<1>4. (\A i \in 1 .. n : i \in 1 .. (n + m)) /\ (\A i \in 1 .. m : n + i \in 1 .. (n + m))
  BY <1>1
<1>5. /\ u \in Seq(Nat) /\ Len(u) = n + m /\ DOMAIN s = 1 .. n /\ DOMAIN t = 1 .. m /\ DOMAIN u = 1 .. (n + m)
      /\ \A i \in 1 .. n : u[i] = s[i]
      /\ \A i \in 1 .. m : u[n + i] = t[i]
      /\ \A k \in 1 .. n, l \in 1 .. m : s[k] # t[l]
      /\ \A k \in 1 .. n : s[k] # NoPane
      /\ \A k \in 1 .. m : t[k] # NoPane
      /\ \A k, l \in 1 .. n : s[k] = s[l] => k = l
      /\ \A k, l \in 1 .. m : t[k] = t[l] => k = l
  BY <1>2 DEF Order
<1> HIDE DEF u, n, m
<1>6. ASSUME NEW k \in 1 .. (n + m), NEW l \in 1 .. (n + m), u[k] = u[l] PROVE k = l
  BY <1>3, <1>5, <1>6
<1>7. \A k \in 1 .. (n + m) : u[k] # NoPane
  BY <1>3, <1>5
<1>8. Order(u)
  BY <1>5, <1>6, <1>7 DEF Order
<1>9. ToSet(u) = ToSet(s) \cup ToSet(t)
  BY <1>3, <1>4, <1>5 DEF ToSet
<1> QED BY <1>8, <1>9 DEF u

(* The stack comes after the main pane or before it.                       *)
LEMMA MainSpells ==
  ASSUME NEW ps, Order(ps), Len(ps) > 0, NEW mainFirst \in BOOLEAN
  PROVE  \E s : Plan(MainPlan(ps, mainFirst), 1, s) /\ Order(s) /\ ToSet(s) = ToSet(ps)
<1>1. ps \in Seq(Nat) /\ Len(ps) \in Nat \ {0} /\ ps[1] \in Nat \ {NoPane} /\ DOMAIN ps = 1 .. Len(ps)
  BY DEF Order
<1>2. CASE Len(ps) = 1
  <2>1. MainPlan(ps, mainFirst) = <<Leaf(ps[1])>>
    BY <1>2 DEF MainPlan
  <2>2. Plan(<<Leaf(ps[1])>>, 1, <<ps[1]>>)
    BY <1>1, LeafPlan
  <2>3. ps = <<ps[1]>>
    BY <1>1, <1>2
  <2> QED BY <2>1, <2>2, <2>3
<1>3. CASE Len(ps) # 1
  <2> DEFINE t == Tail(ps)
             u == <<ps[1]>>
             stack == EvenPlan(t)
             main == <<Leaf(ps[1])>>
  <2>1. ps # <<>> /\ 1 \in 0 .. Len(ps) /\ Len(ps) \in 1 .. Len(ps) /\ 1 + 1 = 2 /\ Len(ps) - 1 > 0
    BY <1>1, <1>3
  <2>2. t = SubSeq(ps, 2, Len(ps))
    BY <1>1, <2>1, TailIsSubSeq
  <2>3. Order(t) /\ Len(t) = Len(ps) - 1
    <3>1. Order(SubSeq(ps, 1 + 1, Len(ps))) /\ Len(SubSeq(ps, 1 + 1, Len(ps))) = Len(ps) - 1
      BY <2>1, SubOrder
    <3> HIDE DEF t
    <3> QED BY <2>1, <2>2, <3>1
  <2>4. t \in Seq(Nat) /\ \A i \in 1 .. Len(t) : t[i] = ps[i + 1]
    BY <1>1, <2>1, HeadTailProperties
  <2>5. Plan(stack, 1, t)
    BY <2>1, <2>3, EvenSpells
  <2>6. Plan(main, 1, u)
    BY <1>1, LeafPlan
  <2>7. u \in Seq(Nat) /\ Len(u) = 1 /\ u[1] = ps[1] /\ DOMAIN u = {1}
    BY <1>1
  <2>8. MainPlan(ps, mainFirst) = IF mainFirst THEN JoinBefore(main, stack) ELSE JoinBefore(stack, main)
    BY <1>3 DEF MainPlan
  <2> HIDE DEF t, u, stack, main
  <2>9. \A i \in 1 .. Len(t) : i + 1 \in 1 .. Len(ps) /\ i + 1 # 1
    BY <1>1, <2>3
  <2>10. DOMAIN t = 1 .. Len(t)
    BY <2>4
  <2>11. \A k \in DOMAIN u, l \in DOMAIN t : u[k] # t[l]
    BY <1>1, <2>4, <2>7, <2>9, <2>10 DEF Order
  <2>12. Plan(JoinBefore(main, stack), 1, u \o t)
    BY <2>5, <2>6, <2>11, JoinedBefore
  <2>13. Plan(JoinBefore(stack, main), 1, t \o u)
    BY <2>5, <2>6, <2>11, JoinedBefore
  <2>14. ToSet(ps) = ToSet(u) \cup ToSet(t)
    <3>1. \A k \in 1 .. Len(ps) : k = 1 \/ (k - 1 \in 1 .. Len(t) /\ (k - 1) + 1 = k)
      BY <1>1, <2>3
    <3>2. \A k \in 1 .. Len(ps) : k = 1 \/ \E l \in 1 .. Len(t) : t[l] = ps[k]
      BY <2>4, <3>1
    <3>3. ASSUME NEW p \in ToSet(ps) PROVE p \in ToSet(u) \cup ToSet(t)
      BY <1>1, <2>7, <2>10, <3>2 DEF ToSet
    <3>4. ASSUME NEW p \in ToSet(t) PROVE p \in ToSet(ps)
      <4>1. PICK l \in DOMAIN t : t[l] = p
        BY DEF ToSet
      <4>2. l + 1 \in DOMAIN ps /\ ps[l + 1] = p
        BY <1>1, <2>4, <2>9, <2>10, <4>1
      <4> QED BY <4>2 DEF ToSet
    <3>5. ASSUME NEW p \in ToSet(u) PROVE p \in ToSet(ps)
      <4>1. 1 \in DOMAIN ps /\ p = ps[1]
        BY <1>1, <2>7 DEF ToSet
      <4> QED BY <4>1 DEF ToSet
    <3> QED BY <3>3, <3>4, <3>5
  <2>15. Order(u)
    BY <1>1, <2>7 DEF Order
  <2>16. /\ Order(u \o t) /\ ToSet(u \o t) = ToSet(ps)
         /\ Order(t \o u) /\ ToSet(t \o u) = ToSet(ps)
    <3>1. \A k \in DOMAIN t, l \in DOMAIN u : t[k] # u[l]
      BY <2>11
    <3>2. Order(u \o t) /\ ToSet(u \o t) = ToSet(u) \cup ToSet(t)
      BY <2>3, <2>11, <2>15, OrdersJoin
    <3>3. Order(t \o u) /\ ToSet(t \o u) = ToSet(t) \cup ToSet(u)
      BY <2>3, <2>15, <3>1, OrdersJoin
    <3> QED BY <2>14, <3>2, <3>3
  <2>17. CASE mainFirst
    <3> WITNESS u \o t
    <3> QED BY <2>8, <2>12, <2>16, <2>17
  <2>18. CASE ~mainFirst
    <3> WITNESS t \o u
    <3> QED BY <2>8, <2>13, <2>16, <2>18
  <2> QED BY <2>17, <2>18
<1> QED BY <1>2, <1>3

LEMMA FirstOrder ==
  ASSUME NEW ps, Order(ps), NEW i \in 1 .. Len(ps)
  PROVE  /\ Order(<<ps[i]>> \o RemoveAt(ps, i)) /\ Len(<<ps[i]>> \o RemoveAt(ps, i)) > 0
         /\ ToSet(<<ps[i]>> \o RemoveAt(ps, i)) = ToSet(ps)
<1> DEFINE n == Len(ps)
           u == <<ps[i]>>
           a == SubSeq(ps, 0 + 1, i - 1)
           b == SubSeq(ps, i + 1, n)
<1>1. ps \in Seq(Nat) /\ n \in Nat /\ DOMAIN ps = 1 .. n /\ i \in Nat /\ ps[i] \in Nat \ {NoPane}
  BY DEF Order
<1>2. /\ Order(a) /\ Len(a) = (i - 1) - 0
      /\ \A k \in 1 .. ((i - 1) - 0) : a[k] = ps[0 + k] /\ 0 + k \in 1 .. n
  <2>1. 0 \in 0 .. Len(ps) /\ i - 1 \in 0 .. Len(ps)
    BY <1>1
  <2> QED BY <2>1, SubOrder
<1>3. /\ Order(b) /\ Len(b) = n - i
      /\ \A k \in 1 .. (n - i) : b[k] = ps[i + k] /\ i + k \in 1 .. n
  <2>1. i \in 0 .. Len(ps) /\ n \in i .. Len(ps)
    BY <1>1
  <2> QED BY <2>1, SubOrder
<1>4. RemoveAt(ps, i) = a \o b
  BY DEF RemoveAt
<1>5. Order(u) /\ Len(u) = 1 /\ DOMAIN u = {1} /\ u[1] = ps[i] /\ ToSet(u) = {ps[i]}
  BY <1>1 DEF Order, ToSet
<1> HIDE DEF a, b, u, n
<1>6. /\ DOMAIN a = 1 .. (i - 1) /\ \A k \in DOMAIN a : a[k] = ps[k] /\ k \in 1 .. n /\ k < i
  <2>1. a \in Seq(Nat) /\ DOMAIN a = 1 .. Len(a)
    BY <1>2 DEF Order
  <2>2. \A k \in 1 .. (i - 1) : 0 + k = k /\ k < i
    BY <1>1
  <2>3. (i - 1) - 0 = i - 1
    BY <1>1
  <2> QED BY <1>2, <2>1, <2>2, <2>3
<1>7. /\ DOMAIN b = 1 .. (n - i) /\ \A k \in DOMAIN b : b[k] = ps[i + k] /\ i + k \in 1 .. n /\ i + k > i
  <2>1. b \in Seq(Nat) /\ DOMAIN b = 1 .. Len(b)
    BY <1>3 DEF Order
  <2>2. \A k \in 1 .. (n - i) : i + k > i
    BY <1>1
  <2> QED BY <1>3, <2>1, <2>2
<1>8. \A k, l \in 1 .. n : ps[k] = ps[l] => k = l
  BY DEF Order, n
<1>9. \A k \in DOMAIN a, l \in DOMAIN b : a[k] # b[l]
  <2> SUFFICES ASSUME NEW k \in DOMAIN a, NEW l \in DOMAIN b PROVE a[k] # b[l]
    OBVIOUS
  <2>1. k # i + l
    BY <1>1, <1>6, <1>7
  <2> QED BY <1>6, <1>7, <1>8, <2>1
<1>10. Order(a \o b) /\ ToSet(a \o b) = ToSet(a) \cup ToSet(b)
  BY <1>2, <1>3, <1>9, OrdersJoin
<1>11. \A p \in ToSet(a) : \E k \in 1 .. n : k # i /\ ps[k] = p
  BY <1>1, <1>6 DEF ToSet
<1>12. \A p \in ToSet(b) : \E k \in 1 .. n : k # i /\ ps[k] = p
  BY <1>1, <1>7 DEF ToSet
<1>13. \A k \in 1 .. n : k # i => ps[k] \in ToSet(a) \cup ToSet(b)
  <2> SUFFICES ASSUME NEW k \in 1 .. n, k # i PROVE ps[k] \in ToSet(a) \cup ToSet(b)
    OBVIOUS
  <2>1. CASE k < i
    <3>1. k \in DOMAIN a
      BY <1>1, <1>6, <2>1
    <3> QED BY <1>6, <3>1 DEF ToSet
  <2>2. CASE ~(k < i)
    <3>1. k - i \in DOMAIN b /\ i + (k - i) = k
      BY <1>1, <1>7, <2>2
    <3>2. b[k - i] = ps[k]
      BY <1>7, <3>1
    <3> QED BY <3>1, <3>2 DEF ToSet
  <2> QED BY <2>1, <2>2
<1>14. i \in 1 .. n /\ \A p : p \in ToSet(ps) <=> \E k \in 1 .. n : ps[k] = p
  BY <1>1 DEF ToSet, n
<1> DEFINE c == a \o b
<1>15. ToSet(c) \cup {ps[i]} = ToSet(ps) /\ ps[i] \notin ToSet(c)
  <2>1. ps[i] \notin ToSet(c)
    BY <1>8, <1>10, <1>11, <1>12, <1>14
  <2>2. ASSUME NEW p \in ToSet(c) PROVE p \in ToSet(ps)
    BY <1>10, <1>11, <1>12, <1>14
  <2>3. ASSUME NEW p \in ToSet(ps) PROVE p \in ToSet(c) \cup {ps[i]}
    BY <1>10, <1>13, <1>14
  <2>4. ps[i] \in ToSet(ps)
    BY <1>14
  <2> HIDE DEF c
  <2> QED BY <2>1, <2>2, <2>3, <2>4
<1> HIDE DEF c
<1>16. Order(c)
  BY <1>10 DEF c
<1>17. \A k \in DOMAIN u, l \in DOMAIN c : u[k] # c[l]
  BY <1>5, <1>15 DEF ToSet
<1>18. Order(u \o c) /\ ToSet(u \o c) = ToSet(u) \cup ToSet(c)
  BY <1>5, <1>16, <1>17, OrdersJoin
<1>19. Len(u \o c) > 0
  <2>1. u \in Seq(Nat) /\ c \in Seq(Nat)
    BY <1>5, <1>16 DEF Order
  <2>2. Len(u \o c) = Len(u) + Len(c) /\ Len(c) \in Nat
    BY <2>1
  <2> QED BY <1>5, <2>2
<1>20. ToSet(u \o c) = ToSet(ps)
  BY <1>5, <1>15, <1>18
<1> QED BY <1>4, <1>18, <1>19, <1>20 DEF u, c
-----------------------------------------------------------------------------
(* The trees a definition spells have its panes, each once.                *)

TreesAt(f, r) ==
  IF r[1] = r[2] THEN {<<Leaf(r[1])>>}
  ELSE UNION {Splits(f[<<r[1], m>>], f[<<m + 1, r[2]>>]) : m \in r[1] .. (r[2] - 1)}

(* The ranges of ids, and the shorter ones of them.                        *)
Ranges(ids) == ids \X ids

Shorter(ids, d) == {r \in Ranges(ids) : r[2] < r[1] + d}

LEMMA TreesSame ==
  ASSUME NEW f, NEW g, NEW r,
         r[1] # r[2] => \A m \in r[1] .. (r[2] - 1) : f[<<r[1], m>>] = g[<<r[1], m>>] /\ f[<<m + 1, r[2]>>] = g[<<m + 1, r[2]>>]
  PROVE  TreesAt(f, r) = TreesAt(g, r)
<1>1. CASE r[1] = r[2]
  BY <1>1 DEF TreesAt
<1>2. CASE r[1] # r[2]
  <2> DEFINE F(h, m) == Splits(h[<<r[1], m>>], h[<<m + 1, r[2]>>])
  <2>1. TreesAt(f, r) = UNION {F(f, m) : m \in r[1] .. (r[2] - 1)} /\ TreesAt(g, r) = UNION {F(g, m) : m \in r[1] .. (r[2] - 1)}
    BY <1>2 DEF TreesAt
  <2>2. \A m \in r[1] .. (r[2] - 1) : F(f, m) = F(g, m)
    BY <1>2
  <2> HIDE DEF F
  <2> QED BY <2>1, <2>2
<1> QED BY <1>1, <1>2

LEMMA TreesExist ==
  ASSUME NEW ids \in SUBSET Nat, \A i, j \in ids : i .. j \subseteq ids, NEW top \in Nat, \A i \in ids : i <= top
  PROVE  \E f : f = [r \in Ranges(ids) |-> TreesAt(f, r)]
<1> DEFINE Is(d, f) == f = [r \in Shorter(ids, d) |-> TreesAt(f, r)]
           T == {d \in Nat : \E f : Is(d, f)}
<1>0. \A i \in ids : i \in Nat
  OBVIOUS
<1>1. 0 \in T
  <2> DEFINE f == [r \in Shorter(ids, 0) |-> {}]
  <2>1. ASSUME NEW r \in Shorter(ids, 0) PROVE f[r] = TreesAt(f, r)
    <3>1. r[1] \in Nat /\ r[2] \in Nat /\ r[2] < r[1]
      <4>1. r[1] \in ids /\ r[2] \in ids /\ r[2] < r[1] + 0
        BY DEF Shorter, Ranges
      <4>2. r[1] \in Nat /\ r[2] \in Nat
        BY <1>0, <4>1
      <4> QED BY <4>1, <4>2
    <3>2. r[1] # r[2] /\ r[1] .. (r[2] - 1) = {}
      BY <3>1
    <3> HIDE DEF f
    <3>3. TreesAt(f, r) = {}
      <4>1. TreesAt(f, r) = UNION {Splits(f[<<r[1], m>>], f[<<m + 1, r[2]>>]) : m \in r[1] .. (r[2] - 1)}
        BY <3>2 DEF TreesAt
      <4> QED BY <3>2, <4>1
    <3> QED BY <3>3 DEF f
  <2>2. Is(0, f)
    <3>1. f = [r \in Shorter(ids, 0) |-> f[r]]
      OBVIOUS
    <3> HIDE DEF f
    <3> QED BY <2>1, <3>1
  <2> HIDE DEF Is, f
  <2> QED BY <2>2
<1>2. ASSUME NEW d \in T PROVE d + 1 \in T
  <2>1. PICK f : Is(d, f)
    OBVIOUS
  <2> DEFINE g == [r \in Shorter(ids, d + 1) |-> TreesAt(f, r)]
  <2>2. ASSUME NEW r \in Shorter(ids, d) PROVE g[r] = f[r]
    <3>1. r \in Shorter(ids, d + 1)
      <4>1. r \in Ranges(ids) /\ r[1] \in ids /\ r[2] \in ids /\ r[2] < r[1] + d /\ d \in Nat
        BY DEF Shorter, Ranges
      <4>2. r[1] \in Nat /\ r[2] \in Nat
        BY <1>0, <4>1
      <4>3. r[2] < r[1] + (d + 1)
        BY <4>1, <4>2
      <4> QED BY <4>1, <4>3 DEF Shorter
    <3> QED BY <2>1, <3>1
  <2>3. ASSUME NEW r \in Shorter(ids, d + 1) PROVE g[r] = TreesAt(g, r)
    <3>1. g[r] = TreesAt(f, r)
      OBVIOUS
    <3> HIDE DEF g
    <3>2. r[1] \in ids /\ r[2] \in ids /\ r[1] \in Nat /\ r[2] \in Nat /\ r[2] < r[1] + (d + 1) /\ d \in Nat
      BY DEF Shorter, Ranges
    <3>3. ASSUME NEW m \in r[1] .. (r[2] - 1)
          PROVE  <<r[1], m>> \in Shorter(ids, d) /\ <<m + 1, r[2]>> \in Shorter(ids, d)
      <4>1. m \in r[1] .. r[2] /\ m + 1 \in r[1] .. r[2] /\ m < r[1] + d /\ r[2] < (m + 1) + d
        BY <3>2
      <4>2. m \in ids /\ m + 1 \in ids
        BY <3>2, <4>1
      <4> QED BY <3>2, <4>1, <4>2 DEF Shorter, Ranges
    <3>4. TreesAt(f, r) = TreesAt(g, r)
      BY <2>2, <3>3, TreesSame
    <3> QED BY <3>1, <3>4
  <2>4. Is(d + 1, g)
    <3>1. g = [r \in Shorter(ids, d + 1) |-> g[r]]
      OBVIOUS
    <3> HIDE DEF g
    <3> QED BY <2>3, <3>1
  <2> HIDE DEF Is, g
  <2> QED BY <2>4
<1>3. top + 1 \in T
  <2> HIDE DEF T
  <2>1. T \in SUBSET Nat
    BY DEF T
  <2> QED BY <1>1, <1>2, <2>1, SetInduction
<1>4. Shorter(ids, top + 1) = Ranges(ids)
  <2>1. \A i, j \in ids : j < i + (top + 1)
    <3> SUFFICES ASSUME NEW i \in ids, NEW j \in ids PROVE j < i + (top + 1)
      OBVIOUS
    <3>1. i \in Nat /\ j \in Nat /\ j <= top
      OBVIOUS
    <3> QED BY <3>1
  <2> QED BY <2>1 DEF Shorter, Ranges
<1> QED BY <1>3, <1>4

LEMMA BuiltPlan ==
  ASSUME NEW first \in Nat \ {0}, NEW last \in Nat, first <= last, NEW ns \in Built(first, last)
  PROVE  \E s : Plan(ns, Len(ns), s) /\ Order(s) /\ ToSet(s) = first .. last
<1> DEFINE ids == first .. last
           Is(f) == f = [r \in Ranges(ids) |-> TreesAt(f, r)]
           trees == CHOOSE f : Is(f)
           Good(r) == r[1] <= r[2] =>
             \A t \in trees[r] : \E s : Plan(t, Len(t), s) /\ Order(s) /\ ToSet(s) = r[1] .. r[2]
           T == {d \in Nat : \A r \in Shorter(ids, d) : Good(r)}
<1>1. ids \in SUBSET Nat /\ (\A i, j \in ids : i .. j \subseteq ids) /\ (\A i \in ids : i <= last /\ i # 0) /\ first \in ids /\ last \in ids
  OBVIOUS
<1>2. Built(first, last) = trees[<<first, last>>]
  BY Zenon DEF Built, Ranges, TreesAt
<1> HIDE DEF ids
<1>3. Is(trees)
  <2>1. \E f : Is(f)
    BY <1>1, TreesExist
  <2> HIDE DEF Is
  <2> QED BY <2>1
<1> HIDE DEF trees
<1>4. 0 \in T
  <2>1. ASSUME NEW r \in Shorter(ids, 0) PROVE ~(r[1] <= r[2])
    <3>1. r[1] \in ids /\ r[2] \in ids /\ r[2] < r[1] + 0
      BY DEF Shorter, Ranges
    <3>2. r[1] \in Nat /\ r[2] \in Nat
      BY <1>1, <3>1
    <3> QED BY <3>1, <3>2
  <2> QED BY <2>1
<1>5. ASSUME NEW d \in T PROVE d + 1 \in T
  <2> SUFFICES ASSUME NEW r \in Shorter(ids, d + 1), r[1] <= r[2], NEW t \in trees[r]
               PROVE  \E s : Plan(t, Len(t), s) /\ Order(s) /\ ToSet(s) = r[1] .. r[2]
    OBVIOUS
  <2>1. r \in Ranges(ids) /\ r[1] \in ids /\ r[2] \in ids /\ r[1] \in Nat /\ r[2] \in Nat /\ r[1] # 0 /\ r[2] < r[1] + (d + 1) /\ d \in Nat
    BY <1>1 DEF Shorter, Ranges
  <2>2. t \in TreesAt(trees, r)
    BY <1>3, <2>1
  <2>3. CASE r[1] = r[2]
    <3>1. t = <<Leaf(r[1])>>
      BY <2>2, <2>3 DEF TreesAt
    <3> DEFINE p == r[1]
               s == <<p>>
    <3>2. p \in Nat \ {NoPane} /\ r[1] .. r[2] = {p}
      BY <2>1, <2>3 DEF NoPane
    <3> HIDE DEF p
    <3>3. Plan(<<Leaf(p)>>, 1, s) /\ Len(<<Leaf(p)>>) = 1
      BY <3>2, LeafPlan
    <3>4. Order(s) /\ ToSet(s) = {p}
      BY <3>2 DEF Order, ToSet
    <3>5. t = <<Leaf(p)>>
      BY <3>1 DEF p
    <3> QED BY <3>2, <3>3, <3>4, <3>5
  <2>4. CASE r[1] # r[2]
    <3>1. PICK m \in r[1] .. (r[2] - 1) : t \in Splits(trees[<<r[1], m>>], trees[<<m + 1, r[2]>>])
      BY <2>2, <2>4 DEF TreesAt
    <3>2. PICK a \in trees[<<r[1], m>>], b \in trees[<<m + 1, r[2]>>] : t = JoinAfter(a, b)
      BY <3>1 DEF Splits
    <3> DEFINE q == <<r[1], m>>
               w == <<m + 1, r[2]>>
    <3>3. q \in Shorter(ids, d) /\ w \in Shorter(ids, d) /\ q[1] = r[1] /\ q[2] = m /\ w[1] = m + 1 /\ w[2] = r[2] /\ q[1] <= q[2] /\ w[1] <= w[2]
      <4>1. m \in r[1] .. r[2] /\ m + 1 \in r[1] .. r[2] /\ m < r[1] + d /\ r[2] < (m + 1) + d /\ r[1] <= m /\ m + 1 <= r[2]
        BY <2>1
      <4>2. m \in ids /\ m + 1 \in ids
        BY <1>1, <2>1, <4>1
      <4> QED BY <2>1, <4>1, <4>2 DEF Shorter, Ranges
    <3> HIDE DEF q, w, Good
    <3>4. Good(q) /\ Good(w)
      BY <3>3
    <3>5. PICK s : Plan(a, Len(a), s) /\ Order(s) /\ ToSet(s) = r[1] .. m
      BY <3>2, <3>3, <3>4 DEF Good, q
    <3>6. PICK v : Plan(b, Len(b), v) /\ Order(v) /\ ToSet(v) = (m + 1) .. r[2]
      BY <3>2, <3>3, <3>4 DEF Good, w
    <3>7. \A k \in DOMAIN s, l \in DOMAIN v : s[k] # v[l]
      <4>1. (r[1] .. m) \cap ((m + 1) .. r[2]) = {}
        BY <2>1
      <4> QED BY <3>5, <3>6, <4>1 DEF ToSet
    <3>8. Plan(t, Len(t), s \o v)
      BY <3>2, <3>5, <3>6, <3>7, JoinedAfter
    <3>9. Order(s \o v) /\ ToSet(s \o v) = ToSet(s) \cup ToSet(v)
      BY <3>5, <3>6, <3>7, OrdersJoin
    <3>10. (r[1] .. m) \cup ((m + 1) .. r[2]) = r[1] .. r[2]
      BY <2>1
    <3>11. Order(s \o v) /\ ToSet(s \o v) = r[1] .. r[2]
      BY <3>5, <3>6, <3>9, <3>10
    <3> QED BY <3>8, <3>11
  <2> QED BY <2>3, <2>4
<1>6. last + 1 \in T
  <2> HIDE DEF T
  <2>1. T \in SUBSET Nat
    BY DEF T
  <2> QED BY <1>4, <1>5, <2>1, SetInduction
<1>7. <<first, last>> \in Shorter(ids, last + 1)
  BY <1>1 DEF Shorter, Ranges
<1>8. Good(<<first, last>>)
  BY <1>6, <1>7
<1> QED BY <1>2, <1>8
-----------------------------------------------------------------------------
(* A leaf is split: at takes the fresh slots old and new under it.         *)

Grown(ns, ms, at, old, new, q) ==
  /\ ms \in Seq(Node) /\ Slot(ms) = Slot(ns) \cup {old, new}
  /\ at \in Slot(ns) /\ IsLeaf(ns[at]) /\ old # new
  /\ (old \in Slot(ns) => ns[old] = Hole) /\ (new \in Slot(ns) => ns[new] = Hole)
  /\ ms[at] = Branch(ns[at].parent, old, new)
  /\ ms[old] = [Leaf(ns[at].id) EXCEPT !.parent = at]
  /\ ms[new] = [Leaf(q) EXCEPT !.parent = at]
  /\ \A i \in Slot(ns) : i \notin {at, old, new} => ms[i] = ns[i]

LEMMA SplitTree ==
  ASSUME NEW ns, NEW rt, Tree(ns, rt), NEW q \in Nat \ {NoPane}, \A i \in Slot(ns) : ns[i].id # q,
         NEW ms, NEW at, NEW old, NEW new, Grown(ns, ms, at, old, new, q)
  PROVE  Tree(ms, rt)
<1>1. /\ ns \in Seq(Node) /\ Linked(ns) /\ OneRoot(ns, rt) /\ Distinct(ns) /\ Ranked(ns)
      /\ ms \in Seq(Node) /\ Slot(ms) = Slot(ns) \cup {old, new}
      /\ at \in Slot(ns) /\ IsLeaf(ns[at]) /\ old # new
      /\ (old \in Slot(ns) => ns[old] = Hole) /\ (new \in Slot(ns) => ns[new] = Hole)
      /\ \A i \in Slot(ns) : i \notin {at, old, new} => ms[i] = ns[i]
  BY DEF Tree, Grown
<1>2. Hole.id = NoPane /\ Hole.first = NoNode /\ Hole.second = NoNode /\ Hole.parent = NoNode /\ NoNode = 0 /\ NoPane = 0
  BY DEF Hole, Branch, NoPane, NoNode
<1>3. ns[at] \in Node /\ ns[at].first = NoNode /\ ns[at].second = NoNode /\ ns[at] # Hole /\ ns[at].id # NoPane /\ ns[at].id \in Nat
  <2>1. Shape(ns, at) /\ ns[at] \in Node
    BY <1>1 DEF Linked, Slot
  <2> QED BY <1>1, <1>2, <2>1 DEF Shape, IsLeaf, Slot, Node
<1>4. at # old /\ at # new /\ \A i \in Slot(ms) : i # NoNode
  BY <1>1, <1>2, <1>3 DEF Slot
<1>5. ms[at].id = NoPane /\ ms[at].first = old /\ ms[at].second = new /\ ms[at].parent = ns[at].parent /\ ms[at] # Hole
  <2>1. ms[at] = Branch(ns[at].parent, old, new)
    BY DEF Grown
  <2> QED BY <1>1, <1>2, <1>4, <2>1 DEF Branch
<1>6. /\ ms[old].id = ns[at].id /\ ms[old].first = NoNode /\ ms[old].second = NoNode /\ ms[old].parent = at
      /\ ms[new].id = q /\ ms[new].first = NoNode /\ ms[new].second = NoNode /\ ms[new].parent = at
  BY DEF Grown, Leaf
<1>7. ms[old] # Hole /\ ms[new] # Hole
  BY <1>2, <1>3, <1>6
<1>8. ASSUME NEW c \in Slot(ns), ns[c] # Hole
      PROVE  c \in Slot(ms) /\ c # old /\ c # new /\ ms[c] # Hole /\ ms[c].parent = ns[c].parent
  BY <1>1, <1>5, <1>8
<1>9. \A i \in Slot(ms) : i \in {at, old, new} \/ (i \in Slot(ns) /\ ms[i] = ns[i])
  BY <1>1
<1>10. ASSUME NEW i \in Slot(ms) PROVE Shape(ms, i)
  <2>1. CASE i = at
    BY <1>1, <1>5, <1>6, <1>7, <2>1 DEF Shape
  <2>2. CASE i \in {old, new}
    BY <1>3, <1>6, <2>2 DEF Shape
  <2>3. CASE i \in Slot(ns) /\ ms[i] = ns[i]
    <3>1. Shape(ns, i)
      BY <1>1, <2>3 DEF Linked
    <3>2. CASE /\ ns[i].id = NoPane
               /\ ns[i].first \in Slot(ns) /\ ns[i].second \in Slot(ns) /\ ns[i].first # ns[i].second
               /\ ns[ns[i].first] # Hole /\ ns[ns[i].first].parent = i
               /\ ns[ns[i].second] # Hole /\ ns[ns[i].second].parent = i
      BY <1>8, <2>3, <3>2 DEF Shape
    <3> QED BY <2>3, <3>1, <3>2 DEF Shape
  <2> QED BY <1>9, <2>1, <2>2, <2>3
<1>11. ASSUME NEW u \in Slot(ns), NEW c, c # NoNode, c \in {ns[u].first, ns[u].second}
       PROVE  u \in Slot(ms) /\ ms[u] = ns[u]
  BY <1>1, <1>2, <1>3, <1>11
<1>12. ASSUME NEW i \in Slot(ms) PROVE Hanging(ms, i)
  <2>1. CASE i \in {old, new}
    BY <1>1, <1>5, <1>6, <2>1 DEF Hanging
  <2>2. CASE i \in Slot(ns) /\ ms[i].parent = ns[i].parent
    <3>1. Hanging(ns, i)
      BY <1>1, <2>2 DEF Linked
    <3>2. i # NoNode
      BY <1>4
    <3> QED BY <1>11, <2>2, <3>1, <3>2 DEF Hanging
  <2> QED BY <1>1, <1>5, <1>9, <2>1, <2>2
<1>13. OneRoot(ms, rt)
  <2>1. rt \in Slot(ns) /\ ns[rt] # Hole /\ \A i \in Slot(ns) : (ns[i] # Hole /\ ns[i].parent = NoNode) <=> i = rt
    BY <1>1 DEF OneRoot
  <2>2. rt \in Slot(ms) /\ rt # old /\ rt # new
    BY <1>8, <2>1
  <2>3. ASSUME NEW i \in Slot(ms) PROVE (ms[i] # Hole /\ ms[i].parent = NoNode) <=> i = rt
    <3>1. CASE i \in {old, new}
      BY <1>1, <1>4, <1>6, <2>2, <3>1
    <3>2. CASE i = at
      BY <1>1, <1>3, <1>5, <2>1, <3>2
    <3>3. CASE i \in Slot(ns) /\ ms[i] = ns[i]
      BY <2>1, <3>3
    <3> QED BY <1>9, <3>1, <3>2, <3>3
  <2> QED BY <2>2, <2>3 DEF OneRoot
<1>14. Distinct(ms)
  <2>1. \A i, j \in Slot(ns) : ns[i].id # NoPane /\ ns[i].id = ns[j].id => i = j
    BY <1>1 DEF Distinct
  <2> SUFFICES ASSUME NEW i \in Slot(ms), NEW j \in Slot(ms), ms[i].id # NoPane, ms[i].id = ms[j].id PROVE i = j
    BY DEF Distinct
  <2>2. q # ns[at].id
    BY <1>1
  <2>3. i # at /\ j # at
    BY <1>5
  <2>4. ASSUME NEW k \in Slot(ms), k \notin {at, old, new} PROVE k \in Slot(ns) /\ ms[k].id = ns[k].id /\ ms[k].id # q
    BY <1>9, <2>4
  <2>5. ASSUME NEW k \in Slot(ms), k \notin {at, old, new} PROVE ms[k].id # ns[at].id
    BY <1>1, <1>3, <2>1, <2>4, <2>5
  <2>6. CASE i \in {old, new}
    BY <1>6, <2>2, <2>3, <2>4, <2>5, <2>6
  <2>7. CASE j \in {old, new}
    BY <1>6, <2>2, <2>3, <2>4, <2>5, <2>7
  <2>8. CASE i \notin {old, new} /\ j \notin {old, new}
    BY <2>1, <2>3, <2>4, <2>8
  <2> QED BY <2>6, <2>7, <2>8
<1>15. Ranked(ms)
  <2>0. PICK m \in Nat : \E r : IsRank(ns, m, r)
    BY <1>1 DEF Ranked
  <2>1. PICK r : IsRank(ns, m, r)
    BY <2>0
  <2> DEFINE R == [i \in Slot(ms) |-> IF i \in {old, new} THEN 0 ELSE r[i] + 1]
  <2>2. r \in [Slot(ns) -> 0 .. m] /\ \A i \in Slot(ns) : IsSplit(ns[i]) => r[ns[i].first] < r[i] /\ r[ns[i].second] < r[i]
    BY <2>1 DEF IsRank
  <2>3. \A i \in Slot(ns) : r[i] \in 0 .. m /\ r[i] \in Nat
    BY <2>2
  <2>4. \A i \in Slot(ms) : R[i] = IF i \in {old, new} THEN 0 ELSE r[i] + 1
    OBVIOUS
  <2>5. R \in [Slot(ms) -> 0 .. (m + 1)]
    <3> SUFFICES ASSUME NEW i \in Slot(ms) PROVE (IF i \in {old, new} THEN 0 ELSE r[i] + 1) \in 0 .. (m + 1)
      OBVIOUS
    <3>1. CASE i \in {old, new}
      BY <3>1
    <3>2. CASE i \notin {old, new}
      <4>1. r[i] \in 0 .. m
        BY <1>1, <2>3, <3>2
      <4> QED BY <3>2, <4>1
    <3> QED BY <3>1, <3>2
  <2> HIDE DEF R
  <2>6. ASSUME NEW i \in Slot(ms), IsSplit(ms[i]) PROVE R[ms[i].first] < R[i] /\ R[ms[i].second] < R[i]
    <3>1. CASE i = at
      <4>1. R[old] = 0 /\ R[new] = 0 /\ R[at] = r[at] + 1 /\ r[at] \in Nat
        BY <1>1, <1>4, <2>3, <2>4
      <4> QED BY <1>5, <3>1, <4>1
    <3>2. CASE i \in {old, new}
      BY <1>6, <2>6, <3>2 DEF IsSplit
    <3>3. CASE i \in Slot(ns) /\ ms[i] = ns[i] /\ i \notin {old, new}
      <4>1. /\ ns[i].first \in Slot(ns) /\ ns[i].second \in Slot(ns)
            /\ ns[ns[i].first] # Hole /\ ns[ns[i].second] # Hole
        BY <1>1, <2>6, <3>3, Slots3
      <4>2. R[i] = r[i] + 1 /\ R[ns[i].first] = r[ns[i].first] + 1 /\ R[ns[i].second] = r[ns[i].second] + 1
        BY <1>8, <2>4, <3>3, <4>1
      <4>3. r[i] \in Nat /\ r[ns[i].first] \in Nat /\ r[ns[i].second] \in Nat /\ r[ns[i].first] < r[i] /\ r[ns[i].second] < r[i]
        BY <2>2, <2>3, <2>6, <3>3, <4>1
      <4> QED BY <3>3, <4>2, <4>3
    <3> QED BY <1>9, <3>1, <3>2, <3>3
  <2>7. IsRank(ms, m + 1, R)
    BY <2>5, <2>6 DEF IsRank
  <2> QED BY <2>1, <2>7 DEF Ranked
<1> QED BY <1>1, <1>10, <1>12, <1>13, <1>14, <1>15 DEF Tree, Linked

-----------------------------------------------------------------------------
(* The sibling sib of a closed leaf at takes the place of their parent up. *)

Bypassed(ns, ms, at, sib, up) ==
  /\ ms \in Seq(Node) /\ Slot(ms) = Slot(ns)
  /\ at \in Slot(ns) /\ sib \in Slot(ns) /\ up \in Slot(ns) /\ at # sib
  /\ IsLeaf(ns[at]) /\ IsSplit(ns[up]) /\ {ns[up].first, ns[up].second} = {at, sib}
  /\ ms[up] = [ns[sib] EXCEPT !.parent = ns[up].parent]
  /\ ms[at] = Hole /\ ms[sib] = Hole
  /\ \A i \in Slot(ns) : i \notin {up, at, sib} =>
       ms[i] = IF i \in {ns[sib].first, ns[sib].second} THEN [ns[i] EXCEPT !.parent = up] ELSE ns[i]

LEMMA BypassTree ==
  ASSUME NEW ns, NEW rt, Tree(ns, rt), NEW ms, NEW at, NEW sib, NEW up, Bypassed(ns, ms, at, sib, up)
  PROVE  Tree(ms, rt)
<1> DEFINE kids == {ns[sib].first, ns[sib].second}
<1>1. /\ ns \in Seq(Node) /\ Linked(ns) /\ OneRoot(ns, rt) /\ Distinct(ns) /\ Ranked(ns)
      /\ ms \in Seq(Node) /\ Slot(ms) = Slot(ns)
      /\ at \in Slot(ns) /\ sib \in Slot(ns) /\ up \in Slot(ns) /\ at # sib
      /\ IsLeaf(ns[at]) /\ IsSplit(ns[up]) /\ {ns[up].first, ns[up].second} = {at, sib}
      /\ ms[at] = Hole /\ ms[sib] = Hole
      /\ \A i \in Slot(ns) : i \notin {up, at, sib} => ms[i] = IF i \in kids THEN [ns[i] EXCEPT !.parent = up] ELSE ns[i]
  BY DEF Tree, Bypassed
<1>2. Hole.id = NoPane /\ Hole.first = NoNode /\ Hole.second = NoNode /\ Hole.parent = NoNode /\ NoNode = 0 /\ NoPane = 0
  BY DEF Hole, Branch, NoPane, NoNode
<1>3. (\A i \in Slot(ns) : i # NoNode /\ ns[i] \in Node) /\ (\A i \in Slot(ns) : ms[i] \in Node)
  <2>1. \A i \in Slot(ns) : i # NoNode /\ ns[i] \in Node
    BY <1>1, <1>2 DEF Slot
  <2>2. \A i \in Slot(ms) : ms[i] \in Node
    BY <1>1 DEF Slot
  <2> QED BY <1>1, <2>1, <2>2
<1>a. PICK m \in Nat : \E r : IsRank(ns, m, r)
  BY <1>1 DEF Ranked
<1>4. PICK r : IsRank(ns, m, r)
  BY <1>a
<1>5. r \in [Slot(ns) -> 0 .. m] /\ \A i \in Slot(ns) : IsSplit(ns[i]) => r[ns[i].first] < r[i] /\ r[ns[i].second] < r[i]
  BY <1>4 DEF IsRank
<1>6. \A i \in Slot(ns) : r[i] \in Nat
  BY <1>5
<1>7. ns[at] # Hole /\ ns[sib] # Hole /\ ns[at].parent = up /\ ns[sib].parent = up /\ r[at] < r[up] /\ r[sib] < r[up]
  <2>1. /\ ns[ns[up].first] # Hole /\ ns[ns[up].second] # Hole
        /\ ns[ns[up].first].parent = up /\ ns[ns[up].second].parent = up
        /\ r[ns[up].first] < r[up] /\ r[ns[up].second] < r[up]
    BY <1>1, <1>5, Slots3
  <2>2. at \in {ns[up].first, ns[up].second} /\ sib \in {ns[up].first, ns[up].second}
    BY <1>1
  <2> QED BY <2>1, <2>2
<1>8. up # at /\ up # sib /\ ~IsSplit(ns[at])
  BY <1>1, <1>6, <1>7, Slots3
<1>9. ns[sib].first \in Slot(ns) \/ ns[sib].first = NoNode
  BY <1>1, <1>7, Slots3 DEF IsSplit
<1>10. IsSplit(ns[sib]) =>
         /\ ns[sib].id = NoPane /\ ns[sib].first # ns[sib].second
         /\ \A c \in kids : c \in Slot(ns) /\ ns[c] # Hole /\ ns[c].parent = sib /\ r[c] < r[sib] /\ c \notin {at, sib, up}
  <2> SUFFICES ASSUME IsSplit(ns[sib])
               PROVE  /\ ns[sib].id = NoPane /\ ns[sib].first # ns[sib].second
                      /\ \A c \in kids : c \in Slot(ns) /\ ns[c] # Hole /\ ns[c].parent = sib /\ r[c] < r[sib] /\ c \notin {at, sib, up}
    OBVIOUS
  <2>1. /\ ns[sib].id = NoPane /\ ns[sib].first # ns[sib].second
        /\ \A c \in kids : c \in Slot(ns) /\ ns[c] # Hole /\ ns[c].parent = sib /\ r[c] < r[sib]
    BY <1>1, <1>5, Slots3
  <2>2. \A c \in kids : c # at
    BY <1>7, <1>8, <2>1
  <2>3. \A c \in kids : c # sib /\ c # up
    BY <1>1, <1>6, <1>7, <2>1
  <2> QED BY <2>1, <2>2, <2>3
<1>11. ~IsSplit(ns[sib]) => ns[sib].id # NoPane /\ ns[sib].first = NoNode /\ ns[sib].second = NoNode /\ \A i \in Slot(ns) : i \notin kids
  <2> SUFFICES ASSUME ~IsSplit(ns[sib])
               PROVE  ns[sib].id # NoPane /\ ns[sib].first = NoNode /\ ns[sib].second = NoNode /\ \A i \in Slot(ns) : i \notin kids
    OBVIOUS
  <2>1. Shape(ns, sib)
    BY <1>1 DEF Linked
  <2>2. ns[sib].id # NoPane /\ ns[sib].first = NoNode /\ ns[sib].second = NoNode
    BY <1>3, <1>7, <2>1 DEF Shape, IsSplit
  <2> QED BY <1>3, <2>2
<1>12. ms[up].id = ns[sib].id /\ ms[up].first = ns[sib].first /\ ms[up].second = ns[sib].second /\ ms[up].parent = ns[up].parent
  <2>1. ms[up] = [ns[sib] EXCEPT !.parent = ns[up].parent]
    BY DEF Bypassed
  <2> QED BY <1>1, <1>3, <2>1 DEF Node
<1>13. ms[up] # Hole
  BY <1>2, <1>10, <1>11, <1>12 DEF IsSplit
<1> DEFINE Other(i) == i \in Slot(ns) /\ i \notin {up, at, sib}
<1>14. ASSUME NEW i, Other(i)
       PROVE  /\ ms[i].id = ns[i].id /\ ms[i].first = ns[i].first /\ ms[i].second = ns[i].second
              /\ ms[i].parent = IF i \in kids THEN up ELSE ns[i].parent
              /\ ms[i] = Hole <=> ns[i] = Hole
  <2>1. ms[i] = IF i \in kids THEN [ns[i] EXCEPT !.parent = up] ELSE ns[i]
    BY <1>1, <1>14
  <2>2. CASE i \in kids
    <3>1. ns[i] # Hole /\ up # NoNode
      BY <1>1, <1>3, <1>10, <1>11, <1>14, <2>2
    <3>2. ms[i].id = ns[i].id /\ ms[i].first = ns[i].first /\ ms[i].second = ns[i].second /\ ms[i].parent = up
      BY <1>3, <1>14, <2>1, <2>2 DEF Node
    <3> QED BY <1>2, <2>2, <3>1, <3>2
  <2>3. CASE i \notin kids
    BY <2>1, <2>3
  <2> QED BY <2>2, <2>3
<1> HIDE DEF kids
<1>15. ASSUME NEW i \in Slot(ns) PROVE Other(i) \/ i \in {up, at, sib}
  OBVIOUS
<1>16. ASSUME NEW i, Other(i), IsSplit(ns[i]), NEW c \in {ns[i].first, ns[i].second}
       PROVE  c \in Slot(ns) /\ ms[c] # Hole /\ ms[c].parent = i
  <2>1. c \in Slot(ns) /\ ns[c] # Hole /\ ns[c].parent = i
    BY <1>1, <1>16, Slots3
  <2>2. c \notin {at, sib}
    BY <1>7, <1>16, <2>1
  <2>3. CASE c = up
    BY <1>12, <1>13, <2>1, <2>3
  <2>4. CASE Other(c)
    <3>1. c \notin kids
      BY <1>1, <1>10, <1>11, <1>16, <2>1
    <3> QED BY <1>14, <2>1, <2>4, <3>1
  <2> QED BY <1>15, <2>1, <2>2, <2>3, <2>4
<1>17. ASSUME NEW i \in Slot(ms) PROVE Shape(ms, i)
  <2>1. CASE i \in {at, sib}
    BY <1>1, <2>1 DEF Shape
  <2>2. CASE i = up /\ IsSplit(ns[sib])
    <3>1. ms[up].id = NoPane /\ ms[up].first # ms[up].second
      BY <1>10, <1>12, <2>2
    <3>2. ASSUME NEW c \in {ms[up].first, ms[up].second} PROVE c \in Slot(ms) /\ ms[c] # Hole /\ ms[c].parent = up
      <4>1. c \in kids /\ Other(c) /\ ns[c] # Hole
        BY <1>10, <1>12, <2>2 DEF kids
      <4> QED BY <1>1, <1>14, <4>1
    <3> QED BY <2>2, <3>1, <3>2 DEF Shape
  <2>3. CASE i = up /\ ~IsSplit(ns[sib])
    BY <1>11, <1>12, <2>3 DEF Shape
  <2>4. CASE Other(i)
    <3>1. Shape(ns, i)
      BY <1>1, <2>4 DEF Linked
    <3>2. CASE IsSplit(ns[i])
      <4>1. ns[i].id = NoPane /\ ns[i].first # ns[i].second
        BY <1>1, <2>4, <3>2, Slots3
      <4>2. \A c \in {ns[i].first, ns[i].second} : c \in Slot(ns) /\ ms[c] # Hole /\ ms[c].parent = i
        BY <1>16, <2>4, <3>2
      <4> QED BY <1>1, <1>14, <2>4, <4>1, <4>2 DEF Shape
    <3>3. CASE ~IsSplit(ns[i])
      <4>1. ns[i] = Hole \/ (ns[i].id # NoPane /\ ns[i].first = NoNode /\ ns[i].second = NoNode)
        BY <1>3, <2>4, <3>1, <3>3 DEF Shape, IsSplit
      <4> QED BY <1>14, <2>4, <4>1 DEF Shape
    <3> QED BY <3>2, <3>3
  <2> QED BY <1>1, <1>15, <2>1, <2>2, <2>3, <2>4
<1>18. ASSUME NEW i \in Slot(ns), i \notin {at, sib}, i \notin kids, ns[i].parent # NoNode
       PROVE  /\ ns[i].parent \in Slot(ns)
              /\ i \in {ms[ns[i].parent].first, ms[ns[i].parent].second}
  <2> DEFINE u == ns[i].parent
  <2>1. u \in Slot(ns) /\ i \in {ns[u].first, ns[u].second}
    BY <1>1, <1>18 DEF Linked, Hanging
  <2>2. IsSplit(ns[u])
    <3>1. Shape(ns, u)
      BY <1>1, <2>1 DEF Linked
    <3> QED BY <1>2, <1>3, <2>1, <3>1 DEF Shape, IsSplit
  <2>3. Other(u)
    BY <1>1, <1>8, <1>18, <2>1, <2>2 DEF kids
  <2> HIDE DEF u
  <2>4. i \in {ms[u].first, ms[u].second}
    BY <1>14, <2>1, <2>3
  <2> QED BY <2>1, <2>4 DEF u
<1>19. ASSUME NEW i \in Slot(ms) PROVE Hanging(ms, i)
  <2>1. CASE i \in {at, sib}
    BY <1>1, <1>2, <2>1 DEF Hanging
  <2>2. CASE i = up
    <3>1. up \notin kids
      BY <1>1, <1>10, <1>11
    <3> QED BY <1>1, <1>8, <1>12, <1>18, <2>2, <3>1 DEF Hanging
  <2>3. CASE Other(i) /\ i \in kids
    <3>1. ms[i].parent = up
      BY <1>14, <2>3
    <3>2. i \in {ms[up].first, ms[up].second}
      BY <1>12, <2>3 DEF kids
    <3> QED BY <1>1, <3>1, <3>2 DEF Hanging
  <2>4. CASE Other(i) /\ i \notin kids
    BY <1>1, <1>14, <1>18, <2>4 DEF Hanging
  <2> QED BY <1>1, <1>15, <2>1, <2>2, <2>3, <2>4
<1>20. OneRoot(ms, rt)
  <2>1. rt \in Slot(ns) /\ \A i \in Slot(ns) : (ns[i] # Hole /\ ns[i].parent = NoNode) <=> i = rt
    BY <1>1 DEF OneRoot
  <2>2. up # NoNode /\ sib # NoNode /\ rt # at /\ rt # sib /\ ns[up] # Hole
    BY <1>1, <1>2, <1>3, <1>7, <2>1 DEF IsSplit
  <2>3. ASSUME NEW i \in Slot(ms) PROVE (ms[i] # Hole /\ ms[i].parent = NoNode) <=> i = rt
    <3>1. CASE i \in {at, sib}
      BY <1>1, <2>2, <3>1
    <3>2. CASE i = up
      BY <1>1, <1>12, <1>13, <2>1, <2>2, <3>2
    <3>3. CASE Other(i) /\ i \in kids
      BY <1>10, <1>11, <1>14, <2>1, <2>2, <3>3
    <3>4. CASE Other(i) /\ i \notin kids
      BY <1>14, <2>1, <3>4
    <3> QED BY <1>1, <1>15, <3>1, <3>2, <3>3, <3>4
  <2> QED BY <1>1, <2>1, <2>3 DEF OneRoot
<1>21. Distinct(ms)
  <2>1. \A i, j \in Slot(ns) : ns[i].id # NoPane /\ ns[i].id = ns[j].id => i = j
    BY <1>1 DEF Distinct
  <2> SUFFICES ASSUME NEW i \in Slot(ms), NEW j \in Slot(ms), ms[i].id # NoPane, ms[i].id = ms[j].id PROVE i = j
    BY DEF Distinct
  <2>2. i \notin {at, sib} /\ j \notin {at, sib}
    BY <1>1, <1>2
  <2>3. ASSUME NEW k \in Slot(ns), k \notin {at, sib}
        PROVE  (k = up /\ ms[k].id = ns[sib].id) \/ (k # up /\ ms[k].id = ns[k].id)
    <3>1. CASE k = up
      BY <1>12, <3>1
    <3>2. CASE Other(k)
      BY <1>14, <3>2
    <3> QED BY <1>15, <2>3, <3>1, <3>2
  <2> QED BY <1>1, <2>1, <2>2, <2>3
<1>22. Ranked(ms)
  <2>1. r \in [Slot(ms) -> 0 .. m]
    BY <1>1, <1>5
  <2>2. ASSUME NEW i \in Slot(ms), IsSplit(ms[i]) PROVE r[ms[i].first] < r[i] /\ r[ms[i].second] < r[i]
    <3>1. CASE i \in {at, sib}
      BY <1>1, <1>2, <2>2, <3>1 DEF IsSplit
    <3>2. CASE i = up
      <4>1. IsSplit(ns[sib]) /\ ns[sib].first \in Slot(ns) /\ ns[sib].second \in Slot(ns)
        BY <1>10, <1>12, <2>2, <3>2 DEF IsSplit, kids
      <4>2. r[ns[sib].first] < r[sib] /\ r[ns[sib].second] < r[sib] /\ r[sib] < r[up]
        BY <1>1, <1>5, <1>7, <4>1
      <4> QED BY <1>1, <1>6, <1>12, <3>2, <4>1, <4>2
    <3>3. CASE Other(i)
      BY <1>5, <1>14, <2>2, <3>3 DEF IsSplit
    <3> QED BY <1>1, <1>15, <3>1, <3>2, <3>3
  <2> QED BY <2>1, <2>2 DEF IsRank, Ranked
<1> QED BY <1>1, <1>17, <1>19, <1>20, <1>21, <1>22 DEF Tree, Linked

-----------------------------------------------------------------------------
(* Two leaves trade their panes.                                           *)

Traded(ns, ms, i, j) ==
  /\ i \in Slot(ns) /\ j \in Slot(ns) /\ i # j /\ IsLeaf(ns[i]) /\ IsLeaf(ns[j])
  /\ ms = [ns EXCEPT ![i].id = ns[j].id, ![j].id = ns[i].id]

LEMMA TradeTree ==
  ASSUME NEW ns, NEW rt, Tree(ns, rt), NEW ms, NEW i, NEW j, Traded(ns, ms, i, j)
  PROVE  /\ Tree(ms, rt) /\ Slot(ms) = Slot(ns)
         /\ \A k \in Slot(ns) : ms[k] = Hole <=> ns[k] = Hole
         /\ \A k \in Slot(ns) : ms[k].id = IF k = i THEN ns[j].id ELSE IF k = j THEN ns[i].id ELSE ns[k].id
<1>1. /\ ns \in Seq(Node) /\ Linked(ns) /\ OneRoot(ns, rt) /\ Distinct(ns) /\ Ranked(ns)
      /\ i \in Slot(ns) /\ j \in Slot(ns) /\ i # j /\ ns[i].id # NoPane /\ ns[j].id # NoPane
  BY DEF Tree, Traded, IsLeaf
<1>2. \A k \in Slot(ns) : ns[k] \in Node
  BY <1>1 DEF Slot
<1> DEFINE x == [ns[i] EXCEPT !.id = ns[j].id]
           y == [ns[j] EXCEPT !.id = ns[i].id]
<1>a. /\ x \in Node /\ x.id = ns[j].id /\ x.parent = ns[i].parent /\ x.first = ns[i].first /\ x.second = ns[i].second
      /\ y \in Node /\ y.id = ns[i].id /\ y.parent = ns[j].parent /\ y.first = ns[j].first /\ y.second = ns[j].second
  BY <1>1, <1>2 DEF Node
<1>b. ms = [ns EXCEPT ![i] = x, ![j] = y]
  BY <1>1 DEF Traded
<1> HIDE DEF x, y
<1>3. ms \in Seq(Node) /\ Slot(ms) = Slot(ns)
  BY <1>1, <1>a, <1>b DEF Slot
<1>c. \A k \in Slot(ns) : ms[k] = IF k = i THEN x ELSE IF k = j THEN y ELSE ns[k]
  BY <1>1, <1>b DEF Slot
<1>4. ASSUME NEW k \in Slot(ns)
      PROVE  /\ ms[k].id = (IF k = i THEN ns[j].id ELSE IF k = j THEN ns[i].id ELSE ns[k].id)
             /\ ms[k].parent = ns[k].parent /\ ms[k].first = ns[k].first /\ ms[k].second = ns[k].second
  BY <1>a, <1>c
<1>5. Hole.id = NoPane /\ Hole.first = NoNode /\ Hole.second = NoNode /\ Hole.parent = NoNode
  BY DEF Hole, Branch
<1>6. ASSUME NEW k \in Slot(ns) PROVE /\ ms[k] = Hole <=> ns[k] = Hole
                                      /\ ms[k].id = NoPane <=> ns[k].id = NoPane
  <2>1. CASE k \in {i, j}
    BY <1>1, <1>4, <1>5, <2>1
  <2>2. CASE k \notin {i, j}
    <3>1. ms[k] = ns[k]
      BY <1>c, <2>2
    <3> QED BY <3>1
  <2> QED BY <2>1, <2>2
<1>7. ASSUME NEW k \in Slot(ms) PROVE Shape(ms, k)
  <2>1. Shape(ns, k)
    BY <1>1, <1>3 DEF Linked
  <2> QED BY <1>3, <1>4, <1>6, <2>1 DEF Shape
<1>8. ASSUME NEW k \in Slot(ms) PROVE Hanging(ms, k)
  <2>1. Hanging(ns, k)
    BY <1>1, <1>3 DEF Linked
  <2> QED BY <1>3, <1>4, <2>1 DEF Hanging
<1>9. OneRoot(ms, rt)
  BY <1>1, <1>3, <1>4, <1>6 DEF OneRoot
<1>10. Distinct(ms)
  <2>1. \A k, l \in Slot(ns) : ns[k].id # NoPane /\ ns[k].id = ns[l].id => k = l
    BY <1>1 DEF Distinct
  <2> SUFFICES ASSUME NEW k \in Slot(ms), NEW l \in Slot(ms), ms[k].id # NoPane, ms[k].id = ms[l].id PROVE k = l
    BY DEF Distinct
  <2>2. ns[k].id # NoPane
    BY <1>3, <1>6
  <2> QED BY <1>1, <1>3, <1>4, <2>1, <2>2
<1>11. Ranked(ms)
  <2>0. PICK m \in Nat : \E r : IsRank(ns, m, r)
    BY <1>1 DEF Ranked
  <2>1. PICK r : IsRank(ns, m, r)
    BY <2>0
  <2>2. IsRank(ms, m, r)
    BY <1>3, <1>4, <2>1 DEF IsRank, IsSplit
  <2> QED BY <2>2 DEF Ranked
<1> QED BY <1>1, <1>3, <1>4, <1>6, <1>7, <1>8, <1>9, <1>10, <1>11 DEF Tree, Linked

-----------------------------------------------------------------------------
(* The free list names the holes, each once.                               *)

FreeExact(ns, fl) ==
  /\ fl \in Seq(Slot(ns))
  /\ \A k, l \in 1 .. Len(fl) : fl[k] = fl[l] => k = l
  /\ \A i \in Slot(ns) : ns[i] = Hole <=> \E k \in 1 .. Len(fl) : fl[k] = i

LEMMA Alloc ==
  ASSUME NEW ns, ns \in Seq(Node), NEW fl, FreeExact(ns, fl), NEW n \in Node, n # Hole
  PROVE  LET at == SlotFor(ns, fl)
             ms == Placed(ns, fl, n)
         IN  /\ ms \in Seq(Node) /\ Slot(ms) = Slot(ns) \cup {at} /\ ms[at] = n
             /\ (at \in Slot(ns) => ns[at] = Hole)
             /\ \A i \in Slot(ns) : i # at => ms[i] = ns[i]
             /\ FreeExact(ms, Rest(fl))
<1>1. /\ fl \in Seq(Slot(ns)) /\ Len(fl) \in Nat /\ DOMAIN fl = 1 .. Len(fl) /\ Len(ns) \in Nat /\ Slot(ns) = 1 .. Len(ns)
      /\ \A k, l \in 1 .. Len(fl) : fl[k] = fl[l] => k = l
      /\ \A i \in Slot(ns) : ns[i] = Hole <=> \E k \in 1 .. Len(fl) : fl[k] = i
  BY DEF FreeExact, Slot
<1>2. CASE fl = <<>>
  <2> DEFINE at == Len(ns) + 1
             ms == Append(ns, n)
  <2>1. SlotFor(ns, fl) = at /\ Placed(ns, fl, n) = ms /\ Rest(fl) = <<>>
    BY <1>2 DEF SlotFor, Placed, Rest
  <2>2. ms \in Seq(Node) /\ Slot(ms) = Slot(ns) \cup {at} /\ ms[at] = n /\ at \notin Slot(ns) /\ \A i \in Slot(ns) : ms[i] = ns[i]
    BY <1>1 DEF Slot
  <2>3. FreeExact(ms, <<>>)
    <3> HIDE DEF ms, at
    <3>1. \A i \in Slot(ns) : ns[i] # Hole
      BY <1>1, <1>2
    <3>2. \A i \in Slot(ms) : ms[i] # Hole
      BY <2>2, <3>1
    <3> QED BY <3>2 DEF FreeExact
  <2> QED BY <2>1, <2>2, <2>3
<1>3. CASE fl # <<>>
  <2> DEFINE m == Len(fl)
             at == fl[m]
             ms == [ns EXCEPT ![at] = n]
             f2 == SubSeq(fl, 1, m - 1)
  <2>1. SlotFor(ns, fl) = at /\ Placed(ns, fl, n) = ms /\ Rest(fl) = f2
    BY <1>3 DEF SlotFor, Placed, Rest, Last, Front
  <2>2. m \in Nat \ {0} /\ at \in Slot(ns)
    BY <1>1, <1>3
  <2>3. ms \in Seq(Node) /\ Slot(ms) = Slot(ns) /\ ms[at] = n /\ \A i \in Slot(ns) : i # at => ms[i] = ns[i]
    BY <2>2 DEF Slot
  <2>4. ns[at] = Hole
    BY <1>1, <2>2
  <2>5. f2 \in Seq(Slot(ns)) /\ Len(f2) = m - 1 /\ \A k \in 1 .. (m - 1) : f2[k] = fl[k]
    <3>1. \A i \in 1 .. (m - 1) : fl[i] \in Slot(ns)
      BY <1>1, <2>2
    <3>2. /\ f2 \in Seq(Slot(ns))
          /\ Len(f2) = (IF 1 <= m - 1 THEN (m - 1) - 1 + 1 ELSE 0)
          /\ \A i \in 1 .. (m - 1) - 1 + 1 : f2[i] = fl[1 + i - 1]
      <4>1. 1 \in Int /\ m - 1 \in Int
        BY <2>2
      <4> HIDE DEF m
      <4> QED BY <3>1, <4>1, SubSeqProperties
    <3> HIDE DEF f2, m
    <3>3. (m - 1) - 1 + 1 = m - 1 /\ \A i \in 1 .. (m - 1) : 1 + i - 1 = i
      BY <2>2
    <3> QED BY <2>2, <3>2, <3>3
  <2>6. FreeExact(ms, f2)
    <3> HIDE DEF ms, f2, at, m
    <3>1. m = Len(fl) /\ at = fl[m] /\ \A k \in 1 .. m : k = m \/ k \in 1 .. (m - 1)
      BY <2>2 DEF m, at
    <3>2. \A k \in 1 .. (m - 1) : k \in 1 .. m /\ k # m /\ m \in 1 .. m
      BY <2>2
    <3>a. /\ \A k, l \in 1 .. m : fl[k] = fl[l] => k = l
          /\ \A i \in Slot(ns) : ns[i] = Hole <=> \E k \in 1 .. m : fl[k] = i
      BY <1>1, <3>1
    <3>b. \A k \in 1 .. Len(f2) : k \in 1 .. (m - 1) /\ k \in 1 .. m /\ k # m /\ f2[k] = fl[k]
      BY <2>5, <3>2
    <3>c. \A k \in 1 .. m : k = m \/ k \in 1 .. Len(f2)
      BY <2>5, <3>1
    <3>d. m \in 1 .. m
      BY <2>2
    <3>3. \A k, l \in 1 .. Len(f2) : f2[k] = f2[l] => k = l
      BY <3>a, <3>b
    <3>4. ASSUME NEW i \in Slot(ms) PROVE ms[i] = Hole <=> \E k \in 1 .. Len(f2) : f2[k] = i
      <4>1. CASE i = at
        <5>1. \A k \in 1 .. Len(f2) : f2[k] # at
          BY <3>1, <3>a, <3>b, <3>d
        <5> QED BY <2>3, <4>1, <5>1
      <4>2. CASE i # at
        <5>1. ms[i] = Hole <=> \E k \in 1 .. m : fl[k] = i
          BY <2>3, <3>a, <4>2
        <5> QED BY <3>1, <3>b, <3>c, <4>2, <5>1
      <4> QED BY <4>1, <4>2
    <3> QED BY <2>3, <2>5, <3>3, <3>4 DEF FreeExact
  <2> QED BY <2>1, <2>2, <2>3, <2>4, <2>6
<1> QED BY <1>2, <1>3

-----------------------------------------------------------------------------
(* The index of a tree.                                                    *)

Indexed(ns, ix) ==
  /\ ix \in [DOMAIN ix -> Slot(ns)]
  /\ \A p \in DOMAIN ix : p # NoPane /\ ns[ix[p]].id = p
  /\ \A i \in Slot(ns) : IsLeaf(ns[i]) => ns[i].id \in DOMAIN ix /\ ix[ns[i].id] = i

LEMMA IndexOfTree ==
  ASSUME NEW ns, NEW rt, Tree(ns, rt)
  PROVE  Indexed(ns, IndexOf(ns))
<1> DEFINE leaves == {i \in 1 .. Len(ns) : IsLeaf(ns[i])}
           ids == {ns[i].id : i \in leaves}
           at(p) == CHOOSE i \in leaves : ns[i].id = p
           ix == [p \in ids |-> at(p)]
<1>1. IndexOf(ns) = ix
  BY DEF IndexOf
<1>2. \A i, j \in Slot(ns) : ns[i].id # NoPane /\ ns[i].id = ns[j].id => i = j
  BY DEF Tree, Distinct
<1>3. \A i \in leaves : i \in Slot(ns) /\ ns[i].id # NoPane
  BY DEF Slot, IsLeaf
<1>4. \A p \in ids : \E i \in leaves : ns[i].id = p
  OBVIOUS
<1>5. \A i \in Slot(ns) : IsLeaf(ns[i]) => i \in leaves /\ ns[i].id \in ids
  BY DEF Slot
<1> HIDE DEF leaves, ids
<1>6. \A p \in ids : at(p) \in leaves /\ ns[at(p)].id = p
  BY <1>4
<1> HIDE DEF at
<1>7. DOMAIN ix = ids /\ \A p \in ids : ix[p] = at(p)
  OBVIOUS
<1>8. ix \in [DOMAIN ix -> Slot(ns)]
  BY <1>3, <1>6
<1> HIDE DEF ix
<1>9. \A p \in DOMAIN ix : p # NoPane /\ ns[ix[p]].id = p
  BY <1>3, <1>6, <1>7
<1>10. ASSUME NEW i \in Slot(ns), IsLeaf(ns[i]) PROVE ns[i].id \in DOMAIN ix /\ ix[ns[i].id] = i
  <2>1. ns[i].id \in ids /\ i \in leaves
    BY <1>5, <1>10
  <2>2. at(ns[i].id) \in Slot(ns) /\ ns[at(ns[i].id)].id = ns[i].id
    BY <1>3, <1>6, <2>1
  <2> QED BY <1>2, <1>3, <1>7, <2>1, <2>2
<1> QED BY <1>1, <1>8, <1>9, <1>10 DEF Indexed

LEMMA Counted ==
  ASSUME NEW S, NEW s \in Seq(S), \A k, l \in 1 .. Len(s) : s[k] = s[l] => k = l
  PROVE  Cardinality(ToSet(s)) = Len(s)
<1> DEFINE n == Len(s)
           T == ToSet(s)
           f == [k \in 1 .. n |-> s[k]]
<1>1. n \in Nat
  OBVIOUS
<1>2. ExistsBijection(1 .. n, T)
  <2>1. f \in [1 .. n -> T] /\ \A t \in T : \E k \in 1 .. n : f[k] = t
    BY DEF ToSet
  <2>2. \A k, l \in DOMAIN f : f[k] = f[l] => k = l
    OBVIOUS
  <2> HIDE DEF f, n, T
  <2> QED BY <2>1, <2>2 DEF ExistsBijection, Bijection, Injection, Surjection, IsInjective
<1> HIDE DEF n, T, f
<1> QED BY <1>1, <1>2, FS_CountingElements DEF n, T

LEMMA PanesAre ==
  ASSUME NEW ns, NEW rt, Tree(ns, rt), NEW ix, Indexed(ns, ix)
  PROVE  /\ Order(LeavesFrom(ns, rt)) /\ Len(LeavesFrom(ns, rt)) > 0
         /\ ToSet(LeavesFrom(ns, rt)) = DOMAIN ix
         /\ DOMAIN ix \subseteq Nat \ {NoPane} /\ DOMAIN ix # {}
         /\ Len(LeavesFrom(ns, rt)) = Cardinality(DOMAIN ix)
<1> DEFINE s == LeavesFrom(ns, rt)
<1>1. Finds(ns, s, Slot(ns))
  BY PanesFound
<1> HIDE DEF s
<1>2. /\ s \in Seq(Nat) /\ s # <<>> /\ Len(s) \in Nat /\ DOMAIN s = 1 .. Len(s)
      /\ \A k \in DOMAIN s : \E x \in Slot(ns) : IsLeaf(ns[x]) /\ ns[x].id = s[k]
      /\ \A x \in Slot(ns) : IsLeaf(ns[x]) => \E k \in DOMAIN s : s[k] = ns[x].id
      /\ \A k, l \in DOMAIN s : s[k] = s[l] => k = l
  BY <1>1 DEF Finds
<1>3. Order(s) /\ Len(s) > 0
  BY <1>2 DEF Order, IsLeaf
<1>4. ToSet(s) = DOMAIN ix
  <2>1. ASSUME NEW p \in ToSet(s) PROVE p \in DOMAIN ix
    BY <1>2 DEF ToSet, Indexed
  <2>2. ASSUME NEW p \in DOMAIN ix PROVE p \in ToSet(s)
    <3>1. ix[p] \in Slot(ns) /\ ns[ix[p]].id = p /\ IsLeaf(ns[ix[p]])
      BY DEF Indexed, IsLeaf
    <3>2. \E k \in DOMAIN s : s[k] = p
      BY <1>2, <3>1
    <3> QED BY <3>2 DEF ToSet
  <2> QED BY <2>1, <2>2
<1>5. \A p \in ToSet(s) : p \in Nat \ {NoPane}
  BY <1>2, <1>3 DEF ToSet, Order
<1>6. DOMAIN ix # {}
  <2>1. 1 \in DOMAIN s
    BY <1>2
  <2> QED BY <1>4, <2>1 DEF ToSet
<1>7. Len(s) = Cardinality(DOMAIN ix)
  BY <1>2, <1>4, Counted
<1> QED BY <1>3, <1>4, <1>5, <1>6, <1>7 DEF s

-----------------------------------------------------------------------------
(* The inductive invariant.                                                *)

TreeInv ==
  /\ nodes \in Seq(Node) /\ root \in Slot(nodes) /\ FreeExact(nodes, free)
  /\ focus \in Nat \ {NoPane} /\ zoomed \in Nat /\ nextPane \in Nat
  /\ \A p \in DOMAIN index : p < nextPane
  /\ Empty => \A i \in Slot(nodes) : nodes[i] = Hole
  /\ ~Empty => /\ Tree(nodes, root) /\ Indexed(nodes, index)
               /\ focus \in DOMAIN index /\ zoomed \in DOMAIN index \cup {NoPane}

LEMMA TreeInit == Init => TreeInv /\ ~Empty /\ nextPane - 1 \in DOMAIN index /\ zoomed = NoPane
<1> SUFFICES ASSUME Init PROVE TreeInv /\ ~Empty /\ nextPane - 1 \in DOMAIN index /\ zoomed = NoPane
  OBVIOUS
<1>1. PICK n \in Definitions :
        /\ nodes \in Built(Base, Base + n - 1)
        /\ root = Len(nodes)
        /\ focus \in Base .. (Base + n - 1)
        /\ zoomed = NoPane
        /\ nextPane = Base + n
        /\ index = IndexOf(nodes)
        /\ free = <<>>
  BY DEF Init
<1> DEFINE last == Base + n - 1
<1>2. /\ Base \in Nat \ {0} /\ n \in Nat \ {0} /\ last \in Nat /\ Base <= last /\ nextPane = last + 1 /\ nextPane \in Nat
      /\ NoPane = 0 /\ NoPane \notin Base .. last /\ \A p \in Base .. last : p < nextPane /\ p \in Nat
      /\ nextPane - 1 \in Base .. last
  BY <1>1, ConstantsAssumption DEF NoPane
<1>3. nodes \in Built(Base, last) /\ focus \in Base .. last
  BY <1>1
<1> HIDE DEF last
<1>4. PICK s : Plan(nodes, Len(nodes), s) /\ Order(s) /\ ToSet(s) = Base .. last
  BY <1>2, <1>3, BuiltPlan
<1>5. /\ Tree(nodes, root) /\ LeavesFrom(nodes, root) = s
      /\ nodes \in Seq(Node) /\ root \in Slot(nodes) /\ \A i \in Slot(nodes) : nodes[i] # Hole
  BY <1>1, <1>4 DEF Plan, Tree, OneRoot
<1>6. Indexed(nodes, index)
  BY <1>1, <1>5, IndexOfTree
<1>7. DOMAIN index = Base .. last
  BY <1>4, <1>5, <1>6, PanesAre
<1>8. FreeExact(nodes, free)
  BY <1>1, <1>5 DEF FreeExact
<1>9. ~Empty
  BY <1>2, <1>7 DEF Empty
<1>10. zoomed \in DOMAIN index \cup {NoPane} /\ zoomed \in Nat /\ zoomed = NoPane
  BY <1>1, <1>2
<1> QED BY <1>2, <1>3, <1>5, <1>6, <1>7, <1>8, <1>9, <1>10 DEF TreeInv

(* What the walk finds in a state of the invariant.                        *)
LEMMA PanesKnown ==
  ASSUME TreeInv, ~Empty
  PROVE  /\ Panes = LeavesFrom(nodes, root) /\ Order(Panes) /\ Len(Panes) > 0 /\ Len(Panes) \in Nat
         /\ DOMAIN Panes = 1 .. Len(Panes)
         /\ ToSet(Panes) = DOMAIN index /\ DOMAIN index \subseteq Nat \ {NoPane}
         /\ Len(Panes) = Cardinality(DOMAIN index)
         /\ Place \in 1 .. Len(Panes) /\ Panes[Place] = focus
<1>1. Tree(nodes, root) /\ Indexed(nodes, index) /\ focus \in DOMAIN index
  BY DEF TreeInv
<1>2. Panes = LeavesFrom(nodes, root)
  BY DEF Panes
<1>3. /\ Order(Panes) /\ Len(Panes) > 0 /\ ToSet(Panes) = DOMAIN index /\ DOMAIN index \subseteq Nat \ {NoPane}
      /\ Len(Panes) = Cardinality(DOMAIN index)
  BY <1>1, <1>2, PanesAre
<1>4. Panes \in Seq(Nat) /\ Len(Panes) \in Nat /\ DOMAIN Panes = 1 .. Len(Panes)
  <2>1. Panes \in Seq(Nat)
    BY <1>3 DEF Order
  <2> HIDE DEF Panes
  <2> QED BY <2>1
<1>5. Place \in DOMAIN Panes /\ Panes[Place] = focus
  <2>1. \E i \in DOMAIN Panes : Panes[i] = focus
    BY <1>1, <1>3 DEF ToSet
  <2> HIDE DEF Panes
  <2> QED BY <2>1 DEF Place
<1> QED BY <1>2, <1>3, <1>4, <1>5

LEMMA RebuildKeeps ==
  ASSUME TreeInv, ~Empty, NEW plan, NEW s, Plan(plan, 1, s), ToSet(s) = DOMAIN index, Rebuild(plan)
  PROVE  TreeInv' /\ Seen' = Seen /\ ~Empty'
<1>1. nodes' = plan /\ index' = IndexOf(plan) /\ root' = 1 /\ free' = <<>> /\ focus' = focus /\ zoomed' = zoomed /\ nextPane' = nextPane
  BY DEF Rebuild
<1>2. Tree(plan, 1) /\ LeavesFrom(plan, 1) = s /\ plan \in Seq(Node) /\ 1 \in Slot(plan) /\ \A i \in Slot(plan) : plan[i] # Hole
  BY DEF Plan, Tree, OneRoot
<1>3. Indexed(plan, IndexOf(plan))
  BY <1>2, IndexOfTree
<1>4. DOMAIN IndexOf(plan) = DOMAIN index
  BY <1>2, <1>3, PanesAre
<1>5. FreeExact(plan, <<>>)
  BY <1>2 DEF FreeExact
<1>6. ~Empty'
  BY <1>1, <1>4 DEF Empty
<1>7. Seen' = Seen
  BY <1>1, <1>4 DEF Seen
<1> QED BY <1>1, <1>2, <1>3, <1>4, <1>5, <1>6, <1>7 DEF TreeInv

LEMMA RetilesKeep ==
  ASSUME TreeInv, RetileEven \/ RetileGrid \/ \E mainFirst \in BOOLEAN : RetileMain(mainFirst)
  PROVE  TreeInv' /\ Seen' = Seen
<1>1. ~Empty
  BY DEF RetileEven, RetileGrid, RetileMain
<1>2. /\ Order(Panes) /\ Len(Panes) > 0 /\ ToSet(Panes) = DOMAIN index
      /\ Place \in 1 .. Len(Panes) /\ Panes[Place] = focus
  BY <1>1, PanesKnown
<1>3. CASE RetileEven
  <2>1. Rebuild(EvenPlan(Panes))
    BY <1>3 DEF RetileEven
  <2> HIDE DEF Panes
  <2>2. Plan(EvenPlan(Panes), 1, Panes)
    BY <1>2, EvenSpells
  <2> QED BY <1>1, <1>2, <2>1, <2>2, RebuildKeeps
<1>4. CASE RetileGrid
  <2>1. Rebuild(GridPlan(Panes))
    BY <1>4 DEF RetileGrid
  <2>2. Plan(GridPlan(Panes), 1, Panes)
    BY <1>2, GridSpells
  <2> QED BY <1>1, <1>2, <2>1, <2>2, RebuildKeeps
<1>5. ASSUME NEW mainFirst \in BOOLEAN, RetileMain(mainFirst) PROVE TreeInv' /\ Seen' = Seen
  <2>1. Rebuild(MainPlan(FocusFirst, mainFirst))
    BY <1>5 DEF RetileMain
  <2>2. Order(FocusFirst) /\ Len(FocusFirst) > 0 /\ ToSet(FocusFirst) = ToSet(Panes)
    BY <1>2, FirstOrder DEF FocusFirst
  <2>3. PICK s : Plan(MainPlan(FocusFirst, mainFirst), 1, s) /\ Order(s) /\ ToSet(s) = ToSet(FocusFirst)
    BY <2>2, MainSpells
  <2> QED BY <1>1, <1>2, <2>1, <2>2, <2>3, RebuildKeeps
<1> QED BY <1>3, <1>4, <1>5

-----------------------------------------------------------------------------
(* The edits of the tree.                                                  *)

LEMMA LeafAt ==
  ASSUME TreeInv, NEW p \in DOMAIN index
  PROVE  /\ ~Empty /\ Tree(nodes, root) /\ Indexed(nodes, index) /\ p \in Nat \ {NoPane} /\ p < nextPane
         /\ index[p] \in Slot(nodes) /\ nodes[index[p]] \in Node /\ nodes[index[p]].id = p
         /\ IsLeaf(nodes[index[p]]) /\ nodes[index[p]] # Hole /\ ~IsSplit(nodes[index[p]])
<1>1. ~Empty
  BY DEF Empty
<1>2. Tree(nodes, root) /\ Indexed(nodes, index) /\ p < nextPane
  BY <1>1 DEF TreeInv
<1>3. p \in Nat \ {NoPane}
  BY <1>2, PanesAre
<1>4. index[p] \in Slot(nodes) /\ nodes[index[p]].id = p
  BY <1>2 DEF Indexed
<1>5. nodes[index[p]] \in Node
  BY <1>2, <1>4 DEF Tree, Slot
<1>6. IsLeaf(nodes[index[p]]) /\ nodes[index[p]] # Hole
  BY <1>3, <1>4 DEF IsLeaf, Hole, Branch
<1>7. ~IsSplit(nodes[index[p]])
  BY <1>2, <1>4, <1>6, Slots3 DEF Tree
<1> QED BY <1>1, <1>2, <1>3, <1>4, <1>5, <1>6, <1>7

LEMMA SplitKeeps ==
  ASSUME TreeInv, NEW p \in DOMAIN index, Split(p)
  PROVE  /\ TreeInv' /\ DOMAIN index' = DOMAIN index \cup {nextPane}
         /\ focus' = focus /\ zoomed' = zoomed /\ nextPane' = nextPane + 1
         /\ root' = root /\ \A i \in Slot(nodes) : nodes[i].id # nextPane
         /\ \E i, j, k : Grown(nodes, nodes', i, j, k, nextPane)
<1> DEFINE at == index[p]
           q == nextPane
           leaf == [Leaf(q) EXCEPT !.parent = at]
           kept == [Leaf(p) EXCEPT !.parent = at]
           new == SlotFor(nodes, free)
           ns1 == Placed(nodes, free, leaf)
           old == SlotFor(ns1, Rest(free))
           ns2 == Placed(ns1, Rest(free), kept)
           ms == [ns2 EXCEPT ![at] = Branch(nodes[at].parent, old, new)]
           ix == [r \in DOMAIN index \cup {q} |-> IF r = p THEN old ELSE IF r = q THEN new ELSE index[r]]
<1>1. /\ nodes' = ms /\ free' = Rest(Rest(free)) /\ index' = ix /\ nextPane' = q + 1
      /\ root' = root /\ focus' = focus /\ zoomed' = zoomed
  BY DEF Split
<1>2. /\ ~Empty /\ Tree(nodes, root) /\ Indexed(nodes, index) /\ p \in Nat \ {NoPane} /\ p < q
      /\ at \in Slot(nodes) /\ nodes[at] \in Node /\ nodes[at].id = p /\ IsLeaf(nodes[at]) /\ nodes[at] # Hole
  BY LeafAt
<1>3. /\ nodes \in Seq(Node) /\ FreeExact(nodes, free) /\ q \in Nat /\ root \in Slot(nodes) /\ \A r \in DOMAIN index : r < q
      /\ focus \in Nat \ {NoPane} /\ zoomed \in Nat /\ focus \in DOMAIN index /\ zoomed \in DOMAIN index \cup {NoPane}
  BY <1>2 DEF TreeInv
<1>4. q # NoPane /\ q \notin DOMAIN index /\ p # q
  BY <1>2, <1>3 DEF NoPane
<1>5. at \in Nat /\ leaf \in Node /\ leaf # Hole /\ kept \in Node /\ kept # Hole
  <2>1. at \in Nat
    BY <1>2 DEF Slot
  <2>2. leaf \in Node /\ kept \in Node /\ leaf.id = q /\ kept.id = p
    BY <1>2, <1>3, <2>1 DEF Leaf, Node, NoNode
  <2> HIDE DEF leaf, kept
  <2> QED BY <1>2, <1>4, <2>1, <2>2 DEF Hole, Branch
<1> HIDE DEF leaf, kept
<1>6. /\ ns1 \in Seq(Node) /\ Slot(ns1) = Slot(nodes) \cup {new} /\ ns1[new] = leaf
      /\ (new \in Slot(nodes) => nodes[new] = Hole)
      /\ \A i \in Slot(nodes) : i # new => ns1[i] = nodes[i]
      /\ FreeExact(ns1, Rest(free))
  BY <1>3, <1>5, Alloc
<1> HIDE DEF ns1, new
<1>7. /\ ns2 \in Seq(Node) /\ Slot(ns2) = Slot(ns1) \cup {old} /\ ns2[old] = kept
      /\ (old \in Slot(ns1) => ns1[old] = Hole)
      /\ \A i \in Slot(ns1) : i # old => ns2[i] = ns1[i]
      /\ FreeExact(ns2, Rest(Rest(free)))
  BY <1>5, <1>6, Alloc
<1> HIDE DEF ns2, old, at
<1>8. new # at /\ old # new /\ old # at
  <2>1. new # at
    BY <1>2, <1>6
  <2>2. old # new
    BY <1>5, <1>6, <1>7
  <2>3. ns1[at] = nodes[at] /\ at \in Slot(ns1)
    BY <1>2, <1>6, <2>1
  <2> QED BY <1>2, <1>7, <2>1, <2>2, <2>3
<1>9. Slot(ns2) = Slot(nodes) \cup {old, new} /\ (old \in Slot(nodes) => nodes[old] = Hole)
  BY <1>6, <1>7, <1>8
<1>10. ns2[new] = leaf /\ ns2[old] = kept /\ \A i \in Slot(nodes) : i \notin {old, new} => ns2[i] = nodes[i]
  BY <1>6, <1>7, <1>8
<1>11. /\ ms \in Seq(Node) /\ Slot(ms) = Slot(ns2) /\ ms[at] = Branch(nodes[at].parent, old, new)
       /\ \A i \in Slot(ns2) : i # at => ms[i] = ns2[i]
  <2> DEFINE b == Branch(nodes[at].parent, old, new)
  <2>1. old \in Nat /\ new \in Nat /\ at \in Slot(ns2)
    BY <1>2, <1>7, <1>9 DEF Slot
  <2>2. b \in Node
    BY <1>2, <2>1 DEF Node, Branch, NoPane
  <2> HIDE DEF b
  <2>3. ms = [ns2 EXCEPT ![at] = b]
    BY DEF b
  <2> HIDE DEF ms
  <2>4. ms \in Seq(Node) /\ Slot(ms) = Slot(ns2) /\ ms[at] = b /\ \A i \in Slot(ns2) : i # at => ms[i] = ns2[i]
    BY <1>7, <2>1, <2>2, <2>3 DEF Slot
  <2> QED BY <2>4 DEF b
<1> HIDE DEF ms
<1>12. Grown(nodes, ms, at, old, new, q)
  BY <1>2, <1>6, <1>8, <1>9, <1>10, <1>11 DEF Grown, leaf, kept
<1>13. \A i \in Slot(nodes) : nodes[i].id # q
  BY <1>2, <1>4 DEF Indexed, IsLeaf
<1>14. Tree(ms, root)
  BY <1>2, <1>3, <1>4, <1>12, <1>13, SplitTree
<1>15. /\ ms[old].id = p /\ ms[new].id = q /\ ms[at].id = NoPane
       /\ ms[at] # Hole /\ ms[old] # Hole /\ ms[new] # Hole
       /\ \A i \in Slot(nodes) : i \notin {at, old, new} => ms[i] = nodes[i]
  <2>1. ms[old] = kept /\ ms[new] = leaf /\ \A i \in Slot(nodes) : i \notin {at, old, new} => ms[i] = nodes[i]
    BY <1>8, <1>9, <1>10, <1>11
  <2>2. kept.id = p /\ leaf.id = q
    BY DEF kept, leaf, Leaf
  <2>3. ms[at].id = NoPane /\ ms[at].first = old /\ old # NoNode
    BY <1>9, <1>11 DEF Branch, Slot, NoNode
  <2> QED BY <1>5, <2>1, <2>2, <2>3 DEF Hole, Branch
<1>16. DOMAIN ix = DOMAIN index \cup {q} /\ ix \in [DOMAIN ix -> Slot(ms)] /\ ix[p] = old /\ ix[q] = new
       /\ \A r \in DOMAIN index : r # p => ix[r] = index[r]
  <2>1. \A r \in DOMAIN index : index[r] \in Slot(ms)
    BY <1>2, <1>9, <1>11 DEF Indexed
  <2>2. old \in Slot(ms) /\ new \in Slot(ms)
    BY <1>9, <1>11
  <2> QED BY <1>4, <2>1, <2>2
<1> HIDE DEF ix
<1>17. Indexed(ms, ix)
  <2>1. ASSUME NEW r \in DOMAIN index, r # p
        PROVE  r # NoPane /\ index[r] \in Slot(nodes) /\ index[r] \notin {at, old, new} /\ ms[index[r]].id = r
    <3>1. r # NoPane /\ index[r] \in Slot(nodes) /\ nodes[index[r]].id = r
      BY <1>2 DEF Indexed
    <3>2. index[r] # at
      BY <1>2, <2>1, <3>1
    <3>3. index[r] \notin {old, new}
      BY <1>6, <1>9, <3>1 DEF Hole, Branch
    <3> QED BY <1>15, <3>1, <3>2, <3>3
  <2>2. \A r \in DOMAIN ix : r # NoPane /\ ms[ix[r]].id = r
    BY <1>2, <1>4, <1>15, <1>16, <2>1
  <2>3. ASSUME NEW i \in Slot(ms), IsLeaf(ms[i]) PROVE ms[i].id \in DOMAIN ix /\ ix[ms[i].id] = i
    <3>1. i # at
      BY <1>15, <2>3 DEF IsLeaf
    <3>2. CASE i \in {old, new}
      BY <1>15, <1>16, <3>2
    <3>3. CASE i \in Slot(nodes) /\ i \notin {at, old, new}
      <4>1. ms[i] = nodes[i] /\ nodes[i].id \in DOMAIN index /\ index[nodes[i].id] = i
        BY <1>2, <1>15, <2>3, <3>3 DEF Indexed
      <4>2. nodes[i].id # p
        BY <3>3, <4>1 DEF at
      <4> QED BY <1>16, <4>1, <4>2
    <3> QED BY <1>9, <1>11, <3>1, <3>2, <3>3
  <2> QED BY <1>16, <2>2, <2>3 DEF Indexed
<1>18. FreeExact(ms, Rest(Rest(free)))
  <2>1. \A i \in Slot(ns2) : ms[i] = Hole <=> ns2[i] = Hole
    <3>1. ns2[at] # Hole
      BY <1>2, <1>8, <1>10
    <3> QED BY <1>11, <1>15, <3>1
  <2> QED BY <1>7, <1>11, <2>1 DEF FreeExact
<1>19. \A r \in DOMAIN ix : r < q + 1
  <2>1. \A r \in DOMAIN index : r \in Nat /\ r < q
    BY <1>2, <1>3, PanesAre
  <2> QED BY <1>3, <1>16, <2>1
<1>20. ~Empty'
  BY <1>1, <1>16 DEF Empty
<1>21. root \in Slot(ms) /\ q + 1 \in Nat
  BY <1>3, <1>9, <1>11
<1>22. TreeInv'
  BY <1>1, <1>3, <1>11, <1>14, <1>16, <1>17, <1>18, <1>19, <1>20, <1>21 DEF TreeInv
<1> QED BY <1>1, <1>12, <1>13, <1>16, <1>22

(* The slots of a close are apart from the children of the sibling.        *)
LEMMA Apart ==
  ASSUME NEW ns, NEW rt, Tree(ns, rt), NEW at \in Slot(ns), NEW up \in Slot(ns), NEW sib,
         IsLeaf(ns[at]), at \in {ns[up].first, ns[up].second},
         sib = IF ns[up].first = at THEN ns[up].second ELSE ns[up].first
  PROVE  /\ IsSplit(ns[up]) /\ {ns[up].first, ns[up].second} = {at, sib} /\ at # sib /\ sib \in Slot(ns)
         /\ up \notin {at, sib} /\ ns[sib] # Hole /\ ns[sib].parent = up /\ ns[at].parent = up
         /\ \A c \in {ns[sib].first, ns[sib].second} : c # NoNode => c \in Slot(ns) \ {at, sib, up}
<1>1. /\ ns \in Seq(Node) /\ Linked(ns) /\ Ranked(ns)
      /\ \A i \in Slot(ns) : i # NoNode /\ ns[i] \in Node
  BY DEF Tree, Slot, NoNode
<1>2. IsSplit(ns[up])
  <2>1. Shape(ns, up)
    BY <1>1 DEF Linked
  <2> QED BY <1>1, <2>1 DEF Shape, IsSplit, Hole, Branch
<1>a. PICK m \in Nat : \E r : IsRank(ns, m, r)
  BY <1>1 DEF Ranked
<1>3. PICK r : IsRank(ns, m, r)
  BY <1>a
<1>4. r \in [Slot(ns) -> 0 .. m] /\ \A i \in Slot(ns) : IsSplit(ns[i]) => r[ns[i].first] < r[i] /\ r[ns[i].second] < r[i]
  BY <1>3 DEF IsRank
<1>5. \A i \in Slot(ns) : r[i] \in Nat
  BY <1>4
<1>6. /\ ns[up].first \in Slot(ns) /\ ns[up].second \in Slot(ns) /\ ns[up].first # ns[up].second
      /\ ns[ns[up].first] # Hole /\ ns[ns[up].second] # Hole
      /\ ns[ns[up].first].parent = up /\ ns[ns[up].second].parent = up
      /\ r[ns[up].first] < r[up] /\ r[ns[up].second] < r[up]
  BY <1>1, <1>2, <1>4, Slots3
<1>7. /\ {ns[up].first, ns[up].second} = {at, sib} /\ at # sib /\ sib \in Slot(ns) /\ ns[sib] # Hole
      /\ ns[sib].parent = up /\ ns[at].parent = up /\ r[sib] < r[up] /\ r[at] < r[up]
  BY <1>6
<1>8. up \notin {at, sib}
  BY <1>5, <1>7
<1>9. ASSUME NEW c \in {ns[sib].first, ns[sib].second}, c # NoNode PROVE c \in Slot(ns) \ {at, sib, up}
  <2>1. IsSplit(ns[sib])
    <3>1. Shape(ns, sib)
      BY <1>1, <1>7 DEF Linked
    <3> QED BY <1>1, <1>7, <1>9, <3>1 DEF Shape, IsSplit
  <2>2. c \in Slot(ns) /\ ns[c].parent = sib /\ r[c] < r[sib]
    BY <1>1, <1>4, <1>7, <2>1, Slots3, SMTT(30)
  <2> QED BY <1>5, <1>7, <1>8, <2>2
<1> QED BY <1>2, <1>7, <1>8, <1>9

LEMMA FreedExact ==
  ASSUME NEW ns, ns \in Seq(Node), NEW fl, FreeExact(ns, fl), NEW ms, Slot(ms) = Slot(ns),
         NEW x \in Slot(ns), ns[x] # Hole, ms[x] = Hole,
         \A i \in Slot(ns) : i # x => (ms[i] = Hole <=> ns[i] = Hole)
  PROVE  FreeExact(ms, Append(fl, x))
<1>1. /\ fl \in Seq(Slot(ns)) /\ Len(fl) \in Nat
      /\ \A k, l \in 1 .. Len(fl) : fl[k] = fl[l] => k = l
      /\ \A i \in Slot(ns) : ns[i] = Hole <=> \E k \in 1 .. Len(fl) : fl[k] = i
  BY DEF FreeExact
<1> DEFINE f2 == Append(fl, x)
           m == Len(fl)
<1>2. f2 \in Seq(Slot(ns)) /\ Len(f2) = m + 1 /\ f2[m + 1] = x /\ \A k \in 1 .. m : f2[k] = fl[k]
  BY <1>1
<1>3. \A k \in 1 .. m : fl[k] # x
  BY <1>1
<1>4. m + 1 \in 1 .. (m + 1) /\ \A k \in 1 .. (m + 1) : k = m + 1 \/ k \in 1 .. m
  BY <1>1
<1>5. \A k \in 1 .. m : k \in 1 .. (m + 1)
  BY <1>1
<1>6. /\ \A k, l \in 1 .. m : fl[k] = fl[l] => k = l
      /\ \A i \in Slot(ns) : ns[i] = Hole <=> \E k \in 1 .. m : fl[k] = i
  BY <1>1
<1> HIDE DEF f2, m
<1>7. ASSUME NEW k \in 1 .. (m + 1), NEW l \in 1 .. (m + 1), f2[k] = f2[l] PROVE k = l
  BY <1>2, <1>3, <1>4, <1>6, <1>7
<1>8. ASSUME NEW i \in Slot(ns) PROVE ms[i] = Hole <=> \E k \in 1 .. (m + 1) : f2[k] = i
  <2>1. CASE i = x
    BY <1>2, <1>4, <2>1
  <2>2. CASE i # x
    <3>1. ms[i] = Hole <=> \E k \in 1 .. m : fl[k] = i
      BY <1>6, <2>2
    <3> QED BY <1>2, <1>4, <1>5, <2>2, <3>1
  <2> QED BY <2>1, <2>2
<1> QED BY <1>2, <1>7, <1>8 DEF FreeExact, f2

LEMMA CloseLastKeeps ==
  ASSUME TreeInv, NEW p \in DOMAIN index, CloseLast(p)
  PROVE  /\ TreeInv' /\ DOMAIN index = {p} /\ DOMAIN index' = {}
         /\ focus' = focus /\ zoomed' = ZoomAfterClose(p) /\ nextPane' = nextPane
<1> DEFINE at == index[p]
           ms == [nodes EXCEPT ![at] = Hole]
<1>1. /\ nodes[at].parent = NoNode /\ nodes' = ms /\ free' = Append(free, at) /\ index' = <<>>
      /\ zoomed' = ZoomAfterClose(p) /\ root' = root /\ focus' = focus /\ nextPane' = nextPane
  BY DEF CloseLast, ZoomAfterClose
<1>2. /\ ~Empty /\ Tree(nodes, root) /\ Indexed(nodes, index) /\ p \in Nat \ {NoPane}
      /\ at \in Slot(nodes) /\ nodes[at].id = p /\ nodes[at] # Hole /\ ~IsSplit(nodes[at])
  BY LeafAt
<1>3. /\ nodes \in Seq(Node) /\ FreeExact(nodes, free) /\ root \in Slot(nodes)
      /\ focus \in Nat \ {NoPane} /\ zoomed \in Nat /\ nextPane \in Nat
  BY DEF TreeInv
<1>4. at = root
  BY <1>1, <1>2 DEF Tree, OneRoot
<1>5. \A i \in Slot(nodes) : nodes[i] # Hole => i = at
  <2>1. Under(nodes, root) = {root}
    BY <1>2, <1>4, UnderLeaf DEF Tree
  <2> QED BY <1>2, <1>4, <2>1, UnderRoot
<1>6. DOMAIN index = {p}
  <2>1. ASSUME NEW r \in DOMAIN index PROVE r = p
    BY <1>2, <1>5, LeafAt
  <2> QED BY <2>1
<1> HIDE DEF at
<1>7. Hole \in Node
  BY DEF Hole, Branch, Node, NoPane, NoNode
<1>8. ms \in Seq(Node) /\ Slot(ms) = Slot(nodes) /\ ms[at] = Hole /\ \A i \in Slot(nodes) : i # at => ms[i] = nodes[i]
  <2> HIDE DEF Hole
  <2> QED BY <1>2, <1>3, <1>7 DEF Slot
<1> HIDE DEF ms
<1>9. FreeExact(ms, Append(free, at))
  BY <1>2, <1>3, <1>8, FreedExact
<1>10. \A i \in Slot(ms) : ms[i] = Hole
  BY <1>5, <1>8
<1>11. ZoomAfterClose(p) \in Nat
  BY <1>3 DEF ZoomAfterClose, NoPane
<1>12. DOMAIN index' = {} /\ Empty'
  BY <1>1 DEF Empty
<1> QED BY <1>1, <1>3, <1>6, <1>8, <1>9, <1>10, <1>11, <1>12 DEF TreeInv

LEMMA CloseKeeps ==
  ASSUME TreeInv, NEW p \in DOMAIN index, Close(p)
  PROVE  /\ TreeInv' /\ DOMAIN index' = DOMAIN index \ {p} /\ DOMAIN index # {p}
         /\ \E f \in DOMAIN index \ {p} : focus' = IF focus = p THEN f ELSE focus
         /\ zoomed' = ZoomAfterClose(p) /\ nextPane' = nextPane /\ root' = root
         /\ \E i, j, k : Bypassed(nodes, nodes', i, j, k) /\ nodes[i].id = p
<1> DEFINE at == index[p]
           up == nodes[at].parent
           sib == IF nodes[up].first = at THEN nodes[up].second ELSE nodes[up].first
           ms == Promoted(at, sib, up)
           ix == [q \in DOMAIN index \ {p} |-> IF index[q] = sib THEN up ELSE index[q]]
<1>1. /\ up # NoNode /\ nodes' = ms /\ free' = Freed(at, sib) /\ index' = ix
      /\ focus' = (IF focus = p THEN LeftmostPane(nodes', up) ELSE focus)
      /\ zoomed' = ZoomAfterClose(p) /\ root' = root /\ nextPane' = nextPane
  BY DEF Close
<1>2. /\ ~Empty /\ Tree(nodes, root) /\ Indexed(nodes, index) /\ p \in Nat \ {NoPane}
      /\ at \in Slot(nodes) /\ nodes[at].id = p /\ nodes[at] # Hole /\ IsLeaf(nodes[at])
  BY LeafAt
<1>3. /\ nodes \in Seq(Node) /\ FreeExact(nodes, free) /\ root \in Slot(nodes) /\ Linked(nodes)
      /\ focus \in Nat \ {NoPane} /\ zoomed \in Nat /\ nextPane \in Nat
      /\ focus \in DOMAIN index /\ zoomed \in DOMAIN index \cup {NoPane} /\ \A q \in DOMAIN index : q < nextPane
      /\ DOMAIN nodes = Slot(nodes) /\ \A i \in Slot(nodes) : nodes[i] \in Node /\ i # NoNode
  BY <1>2 DEF TreeInv, Tree, Slot, NoNode
<1>4. up \in Slot(nodes) /\ at \in {nodes[up].first, nodes[up].second}
  BY <1>1, <1>2, <1>3 DEF Linked, Hanging
<1>5. sib = IF nodes[up].first = at THEN nodes[up].second ELSE nodes[up].first
  OBVIOUS
<1> HIDE DEF sib, up, at
<1>6. /\ IsSplit(nodes[up]) /\ {nodes[up].first, nodes[up].second} = {at, sib} /\ at # sib /\ sib \in Slot(nodes)
      /\ up \notin {at, sib} /\ nodes[sib] # Hole
      /\ \A c \in {nodes[sib].first, nodes[sib].second} : c # NoNode => c \in Slot(nodes) \ {at, sib, up}
  BY <1>2, <1>4, <1>5, Apart
<1> DEFINE kids == {nodes[sib].first, nodes[sib].second}
           upper == [nodes[sib] EXCEPT !.parent = nodes[up].parent]
           Child(i) == [nodes[i] EXCEPT !.parent = up]
<1>7. /\ ms = [i \in Slot(nodes) |->
                 CASE i = up          -> upper
                   [] i \in {at, sib} -> Hole
                   [] i # NoNode /\ i \in kids -> Child(i)
                   [] OTHER           -> nodes[i]]
  BY <1>3 DEF Promoted
<1>8. ASSUME NEW i \in kids PROVE i \notin {at, sib, up}
  <2>1. at # NoNode /\ sib # NoNode /\ up # NoNode
    BY <1>2, <1>3, <1>4, <1>6
  <2>2. i # NoNode => i \notin {at, sib, up}
    BY <1>6
  <2> QED BY <2>1, <2>2
<1>9. /\ upper \in Node /\ upper.id = nodes[sib].id /\ upper.first = nodes[sib].first
  BY <1>3, <1>4, <1>6 DEF Node
<1>10. ASSUME NEW i \in Slot(nodes) PROVE Child(i) \in Node /\ Child(i).id = nodes[i].id /\ Child(i).parent = up
  <2>1. nodes[i] \in Node /\ up \in Nat
    BY <1>3, <1>4 DEF Slot
  <2> QED BY <2>1 DEF Node
<1>11. Hole \in Node /\ Hole.id = NoPane /\ Hole.parent = NoNode /\ Hole.first = NoNode
  BY DEF Hole, Branch, Node, NoPane, NoNode
<1> HIDE DEF ms, kids, upper, Child, Hole
<1>12. /\ ms[up] = upper /\ ms[at] = Hole /\ ms[sib] = Hole
       /\ \A i \in Slot(nodes) : i \notin {up, at, sib} => ms[i] = IF i \in kids THEN Child(i) ELSE nodes[i]
  BY <1>2, <1>3, <1>4, <1>6, <1>7, <1>8
<1>13. ms \in Seq(Node) /\ Slot(ms) = Slot(nodes)
  <2>1. \A i \in Slot(nodes) : ms[i] \in Node
    BY <1>3, <1>9, <1>10, <1>11, <1>12
  <2>2. ms = [i \in 1 .. Len(nodes) |-> ms[i]] /\ Len(nodes) \in Nat
    BY <1>3, <1>7 DEF Slot
  <2> QED BY <2>1, <2>2 DEF Slot
<1>14. Bypassed(nodes, ms, at, sib, up)
  BY <1>2, <1>4, <1>6, <1>12, <1>13 DEF Bypassed, kids, Child, upper
<1>15. Tree(ms, root)
  BY <1>2, <1>14, BypassTree
<1>16. ms[up].id = nodes[sib].id /\ ms[up] # Hole
  <2>1. IsLeaf(nodes[sib]) \/ IsSplit(nodes[sib])
    BY <1>3, <1>6, Slots3
  <2> QED BY <1>9, <1>11, <1>12, <2>1 DEF IsLeaf, IsSplit
<1>17. ASSUME NEW i \in Slot(nodes), i \notin {up, at, sib} PROVE ms[i].id = nodes[i].id /\ (ms[i] = Hole <=> nodes[i] = Hole)
  <2>1. CASE i \in kids
    <3>1. nodes[i] # Hole
      <4>1. IsSplit(nodes[sib])
        <5>1. Shape(nodes, sib)
          BY <1>3, <1>6 DEF Linked
        <5> QED BY <1>3, <1>6, <2>1, <5>1 DEF Shape, IsSplit, kids
      <4> QED BY <1>3, <1>6, <2>1, <4>1, Slots3 DEF kids
    <3>2. ms[i] = Child(i) /\ up # NoNode
      BY <1>3, <1>4, <1>12, <1>17, <2>1
    <3> QED BY <1>10, <1>11, <3>1, <3>2
  <2>2. CASE i \notin kids
    BY <1>12, <1>17, <2>2
  <2> QED BY <2>1, <2>2
<1>18. /\ DOMAIN ix = DOMAIN index \ {p}
       /\ \A q \in DOMAIN index \ {p} : ix[q] = IF index[q] = sib THEN up ELSE index[q]
       /\ ix \in [DOMAIN ix -> Slot(ms)]
  <2>1. \A q \in DOMAIN index : index[q] \in Slot(ms)
    BY <1>2, <1>13 DEF Indexed
  <2> QED BY <1>4, <1>13, <2>1
<1> HIDE DEF ix
<1>19. Indexed(ms, ix)
  <2>1. ASSUME NEW q \in DOMAIN index, q # p
        PROVE  q # NoPane /\ index[q] \in Slot(nodes) /\ nodes[index[q]].id = q /\ index[q] \notin {at, up}
    <3>1. q # NoPane /\ index[q] \in Slot(nodes) /\ nodes[index[q]].id = q
      BY <1>2 DEF Indexed
    <3>2. nodes[up].id = NoPane
      BY <1>3, <1>4, <1>6, Slots3
    <3> QED BY <1>2, <2>1, <3>1, <3>2
  <2>2. ASSUME NEW q \in DOMAIN ix PROVE q # NoPane /\ ms[ix[q]].id = q
    <3>1. CASE index[q] = sib
      BY <1>16, <1>18, <2>1, <3>1
    <3>2. CASE index[q] # sib
      BY <1>17, <1>18, <2>1, <3>2
    <3> QED BY <3>1, <3>2
  <2>3. ASSUME NEW i \in Slot(ms), IsLeaf(ms[i]) PROVE ms[i].id \in DOMAIN ix /\ ix[ms[i].id] = i
    <3>1. i \notin {at, sib}
      BY <1>11, <1>12, <2>3 DEF IsLeaf
    <3>2. CASE i = up
      <4>1. nodes[sib].id \in DOMAIN index /\ index[nodes[sib].id] = sib
        BY <1>2, <1>6, <1>16, <2>3, <3>2 DEF Indexed, IsLeaf
      <4>2. nodes[sib].id # p
        BY <1>6, <4>1 DEF at
      <4> QED BY <1>16, <1>18, <3>2, <4>1, <4>2
    <3>3. CASE i # up
      <4>1. nodes[i].id \in DOMAIN index /\ index[nodes[i].id] = i /\ ms[i].id = nodes[i].id
        BY <1>2, <1>13, <1>17, <2>3, <3>1, <3>3 DEF Indexed, IsLeaf
      <4>2. nodes[i].id # p
        BY <3>1, <4>1 DEF at
      <4> QED BY <1>18, <3>1, <4>1, <4>2
    <3> QED BY <3>2, <3>3
  <2> QED BY <1>18, <2>2, <2>3 DEF Indexed
<1>20. FreeExact(ms, Freed(at, sib))
  <2> DEFINE m1 == [nodes EXCEPT ![at] = Hole]
             f1 == Append(free, at)
  <2>1. m1 \in Seq(Node) /\ Slot(m1) = Slot(nodes) /\ m1[at] = Hole /\ \A i \in Slot(nodes) : i # at => m1[i] = nodes[i]
    BY <1>2, <1>3, <1>11 DEF Slot
  <2> HIDE DEF m1
  <2>2. FreeExact(m1, f1)
    BY <1>2, <1>3, <2>1, FreedExact
  <2>3. ASSUME NEW i \in Slot(nodes), i # sib PROVE ms[i] = Hole <=> m1[i] = Hole
    <3>1. CASE i = up
      <4>1. nodes[up] # Hole
        BY <1>6, <1>11 DEF IsSplit
      <4> QED BY <1>4, <1>6, <1>16, <2>1, <3>1, <4>1
    <3>2. CASE i = at
      BY <1>12, <2>1, <3>2
    <3>3. CASE i \notin {up, at, sib}
      BY <1>17, <2>1, <3>3
    <3> QED BY <2>3, <3>1, <3>2, <3>3
  <2>4. m1[sib] # Hole /\ sib \in Slot(m1) /\ Slot(ms) = Slot(m1)
    BY <1>6, <1>13, <2>1
  <2>5. FreeExact(ms, Append(f1, sib))
    BY <1>12, <2>1, <2>2, <2>3, <2>4, FreedExact
  <2>6. Append(f1, sib) = free \o <<at, sib>>
    <3>1. free \in Seq(Slot(nodes)) /\ at \in Slot(nodes) /\ sib \in Slot(nodes)
      BY <1>2, <1>3, <1>6 DEF FreeExact
    <3> QED BY <3>1
  <2> QED BY <2>5, <2>6 DEF Freed
<1>21. LeftmostPane(ms, up) \in DOMAIN ix
  <2> DEFINE s == LeavesFrom(ms, up)
  <2>1. Finds(ms, s, Under(ms, up))
    BY <1>4, <1>13, <1>15, <1>16, LeavesFound
  <2> HIDE DEF s
  <2>2. s \in Seq(Nat) /\ s # <<>> /\ Head(s) = s[1] /\ 1 \in DOMAIN s
    BY <2>1 DEF Finds
  <2>3. PICK x \in Under(ms, up) : IsLeaf(ms[x]) /\ ms[x].id = s[1]
    BY <2>1, <2>2 DEF Finds
  <2>4. x \in Slot(ms)
    BY DEF Under
  <2>5. Head(s) \in DOMAIN ix
    BY <1>19, <2>2, <2>3, <2>4 DEF Indexed
  <2> QED BY <2>5 DEF LeftmostPane, s
<1>22. \E f \in DOMAIN index \ {p} : focus' = IF focus = p THEN f ELSE focus
  BY <1>1, <1>18, <1>21
<1>23. focus' \in DOMAIN ix /\ focus' \in Nat \ {NoPane} /\ ~Empty' /\ DOMAIN index # {p}
  <2>1. focus' \in DOMAIN ix
    BY <1>3, <1>18, <1>22
  <2>2. DOMAIN index \subseteq Nat \ {NoPane}
    BY <1>2, PanesAre
  <2> QED BY <1>1, <1>18, <2>1, <2>2 DEF Empty
<1>24. zoomed' \in DOMAIN ix \cup {NoPane} /\ zoomed' \in Nat
  BY <1>1, <1>3, <1>18 DEF ZoomAfterClose, NoPane
<1>25. \A q \in DOMAIN ix : q < nextPane
  BY <1>3, <1>18
<1>26. TreeInv'
  BY <1>1, <1>3, <1>13, <1>15, <1>18, <1>19, <1>20, <1>23, <1>24, <1>25 DEF TreeInv
<1> QED BY <1>1, <1>2, <1>14, <1>18, <1>22, <1>23, <1>26

LEMMA SwapKeeps ==
  ASSUME TreeInv, NEW p \in DOMAIN index, NEW q \in DOMAIN index, Swap(p, q)
  PROVE  TreeInv' /\ Seen' = Seen
<1> DEFINE i == index[p]
           j == index[q]
           ms == [nodes EXCEPT ![i].id = q, ![j].id = p]
           ix == [index EXCEPT ![p] = j, ![q] = i]
<1>1. /\ p # q /\ nodes' = ms /\ index' = ix /\ root' = root /\ free' = free
      /\ focus' = focus /\ zoomed' = zoomed /\ nextPane' = nextPane
  BY DEF Swap, Neighbour
<1>2. /\ ~Empty /\ Tree(nodes, root) /\ Indexed(nodes, index)
      /\ i \in Slot(nodes) /\ nodes[i].id = p /\ IsLeaf(nodes[i])
      /\ j \in Slot(nodes) /\ nodes[j].id = q /\ IsLeaf(nodes[j])
  BY LeafAt
<1>3. /\ nodes \in Seq(Node) /\ FreeExact(nodes, free) /\ root \in Slot(nodes)
      /\ focus \in Nat \ {NoPane} /\ zoomed \in Nat /\ nextPane \in Nat
      /\ focus \in DOMAIN index /\ zoomed \in DOMAIN index \cup {NoPane} /\ \A r \in DOMAIN index : r < nextPane
  BY <1>2 DEF TreeInv
<1>4. i # j
  BY <1>1, <1>2
<1>5. Traded(nodes, ms, i, j)
  BY <1>2, <1>4 DEF Traded
<1>6. DOMAIN ix = DOMAIN index /\ ix[p] = j /\ ix[q] = i /\ \A r \in DOMAIN index : r \notin {p, q} => ix[r] = index[r]
  BY <1>1, <1>2 DEF Indexed
<1>a. ix = [r \in DOMAIN ix |-> ix[r]]
  BY <1>2 DEF Indexed
<1> HIDE DEF ms, ix
<1>7. /\ Tree(ms, root) /\ Slot(ms) = Slot(nodes) /\ \A k \in Slot(nodes) : ms[k] = Hole <=> nodes[k] = Hole
      /\ \A k \in Slot(nodes) : ms[k].id = IF k = i THEN q ELSE IF k = j THEN p ELSE nodes[k].id
  BY <1>2, <1>5, TradeTree
<1> HIDE DEF i, j
<1>8. \A r \in DOMAIN index : r # NoPane /\ index[r] \in Slot(nodes) /\ nodes[index[r]].id = r
  BY <1>2 DEF Indexed
<1>9. Indexed(ms, ix)
  <2>1. \A r \in DOMAIN ix : ix[r] \in Slot(ms)
    BY <1>2, <1>6, <1>7, <1>8
  <2>2. ASSUME NEW r \in DOMAIN ix PROVE r # NoPane /\ ms[ix[r]].id = r
    <3>1. CASE r \in {p, q}
      BY <1>2, <1>4, <1>6, <1>7, <1>8, <3>1
    <3>2. CASE r \notin {p, q}
      BY <1>2, <1>6, <1>7, <1>8, <3>2
    <3> QED BY <3>1, <3>2
  <2>3. ASSUME NEW k \in Slot(ms), IsLeaf(ms[k]) PROVE ms[k].id \in DOMAIN ix /\ ix[ms[k].id] = k
    <3>1. CASE k \in {i, j}
      BY <1>4, <1>6, <1>7, <3>1
    <3>2. CASE k \notin {i, j}
      <4>1. ms[k].id = nodes[k].id /\ IsLeaf(nodes[k]) /\ k \in Slot(nodes)
        BY <1>7, <2>3, <3>2 DEF IsLeaf
      <4>2. nodes[k].id \in DOMAIN index /\ index[nodes[k].id] = k
        BY <1>2, <4>1 DEF Indexed
      <4>3. nodes[k].id \notin {p, q}
        BY <3>2, <4>2 DEF i, j
      <4> QED BY <1>6, <4>1, <4>2, <4>3
    <3> QED BY <3>1, <3>2
  <2> QED BY <1>a, <2>1, <2>2, <2>3 DEF Indexed
<1>10. FreeExact(ms, free)
  BY <1>3, <1>7 DEF FreeExact
<1>11. ms \in Seq(Node)
  BY <1>7 DEF Tree
<1>12. ~Empty' /\ Seen' = Seen
  BY <1>1, <1>2, <1>6 DEF Empty, Seen
<1> QED BY <1>1, <1>3, <1>6, <1>7, <1>9, <1>10, <1>11, <1>12 DEF TreeInv

LEMMA FocusKeeps ==
  ASSUME TreeInv,
         \/ \E p \in DOMAIN index : SetFocus(p)
         \/ FocusNext
         \/ FocusPrev
         \/ \E q \in DOMAIN index : FocusDirection(q)
  PROVE  /\ TreeInv' /\ index' = index /\ zoomed' = zoomed /\ nextPane' = nextPane
         /\ focus' \in DOMAIN index
<1>1. /\ nodes' = nodes /\ root' = root /\ index' = index /\ zoomed' = zoomed /\ nextPane' = nextPane /\ free' = free
  BY DEF SetFocus, FocusNext, FocusPrev, FocusStep, FocusDirection
<1>2. ASSUME NEW by \in Nat, FocusStep(by) PROVE focus' \in DOMAIN index
  <2>1. ~Empty /\ focus' = Panes[((Place - 1 + by) % Len(Panes)) + 1]
    BY <1>2 DEF FocusStep
  <2>2. Place \in 1 .. Len(Panes) /\ DOMAIN Panes = 1 .. Len(Panes) /\ Len(Panes) \in Nat /\ Len(Panes) > 0 /\ ToSet(Panes) = DOMAIN index
    BY <2>1, PanesKnown
  <2> DEFINE n == Len(Panes)
             k == Place - 1 + by
  <2>3. k \in Nat /\ n \in Nat \ {0}
    BY <2>2
  <2> HIDE DEF k, n
  <2>4. (k % n) + 1 \in 1 .. n
    BY <2>3
  <2> QED BY <2>1, <2>2, <2>4 DEF k, n, ToSet
<1>3. focus' \in DOMAIN index
  <2>1. CASE \E p \in DOMAIN index : SetFocus(p)
    BY <2>1 DEF SetFocus
  <2>2. CASE FocusNext
    BY <1>2, <2>2 DEF FocusNext
  <2>3. CASE FocusPrev
    <3>1. ~Empty /\ FocusStep(Len(Panes) - 1)
      BY <2>3 DEF FocusPrev, FocusStep
    <3>2. Len(Panes) \in Nat /\ Len(Panes) > 0
      BY <3>1, PanesKnown
    <3>3. Len(Panes) - 1 \in Nat
      BY <3>2
    <3> QED BY <1>2, <3>1, <3>3
  <2>4. CASE \E q \in DOMAIN index : FocusDirection(q)
    BY <2>4 DEF FocusDirection
  <2> QED BY <2>1, <2>2, <2>3, <2>4
<1>4. ~Empty
  BY <1>3 DEF Empty
<1>5. focus' \in Nat \ {NoPane}
  <2>1. DOMAIN index \subseteq Nat \ {NoPane}
    BY <1>4, PanesKnown
  <2> QED BY <1>3, <2>1
<1>6. ~Empty'
  BY <1>1, <1>4 DEF Empty
<1> QED BY <1>1, <1>3, <1>4, <1>5, <1>6 DEF TreeInv

LEMMA ZoomKeeps ==
  ASSUME TreeInv, ToggleZoom
  PROVE  TreeInv'
<1>1. /\ nodes' = nodes /\ root' = root /\ index' = index /\ focus' = focus /\ nextPane' = nextPane /\ free' = free
      /\ zoomed' = IF zoomed = NoPane THEN focus ELSE NoPane
  BY DEF ToggleZoom
<1>2. Empty' <=> Empty
  BY <1>1 DEF Empty
<1> QED BY <1>1, <1>2 DEF TreeInv, NoPane

-----------------------------------------------------------------------------
(* The invariant says what the runs check.                                 *)

LEMMA TreeInvSound == TreeInv => TreeSound
<1> SUFFICES ASSUME TreeInv PROVE TreeSound
  OBVIOUS
<1>1. /\ nodes \in Seq(Node) /\ root \in Slot(nodes) /\ FreeExact(nodes, free)
      /\ focus \in Nat \ {NoPane} /\ zoomed \in Nat /\ nextPane \in Nat
      /\ Slots = Slot(nodes)
  BY DEF TreeInv, Slots, Slot
<1>2. Hole.id = NoPane /\ Hole.first = NoNode /\ Hole.parent = NoNode
  BY DEF Hole, Branch
<1>3. FreeListExact
  <2>1. /\ free \in Seq(Slot(nodes))
        /\ \A k, l \in 1 .. Len(free) : free[k] = free[l] => k = l
        /\ \A i \in Slot(nodes) : nodes[i] = Hole <=> \E k \in 1 .. Len(free) : free[k] = i
    BY <1>1 DEF FreeExact
  <2>2. Cardinality(ToSet(free)) = Len(free)
    BY <2>1, Counted
  <2>3. ToSet(free) = {i \in Slots : nodes[i] = Hole}
    BY <1>1, <2>1 DEF ToSet
  <2> QED BY <2>2, <2>3 DEF FreeListExact
<1>4. free \in Seq(Slots)
  BY <1>1 DEF FreeExact
<1>5. CASE Empty
  <2>1. DOMAIN index = {} /\ \A i \in Slots : nodes[i] = Hole
    BY <1>1, <1>5 DEF TreeInv, Empty
  <2>2. TypeOK
    BY <1>1, <1>4, <2>1 DEF TypeOK
  <2>3. LinksAgree
    BY <1>2, <1>5, <2>1 DEF LinksAgree, IsSplit
  <2>4. IndexExact
    <3>1. Panes = <<>> /\ ToSet(<<>>) = {} /\ Len(<<>>) = 0
      BY <1>5 DEF Panes, ToSet
    <3>2. Cardinality({}) = 0
      BY FS_EmptySet
    <3> QED BY <1>2, <2>1, <3>1, <3>2 DEF IndexExact, IsLeaf
  <2> QED BY <1>3, <1>5, <2>2, <2>3, <2>4 DEF TreeSound, FocusAndZoomInTree
<1>6. CASE ~Empty
  <2>1. /\ Tree(nodes, root) /\ Linked(nodes) /\ Indexed(nodes, index)
        /\ focus \in DOMAIN index /\ zoomed \in DOMAIN index \cup {NoPane}
    BY <1>6 DEF TreeInv, Tree
  <2>2. /\ ToSet(Panes) = DOMAIN index /\ Len(Panes) = Cardinality(DOMAIN index)
        /\ DOMAIN index \subseteq Nat \ {NoPane}
    BY <1>6, PanesKnown
  <2>3. TypeOK
    BY <1>1, <1>4, <2>1, <2>2 DEF TypeOK, Indexed
  <2>4. LinksAgree
    <3>1. nodes[root].parent = NoNode /\ nodes[root] # Hole
      BY <1>1, <2>1 DEF Tree, OneRoot
    <3>2. ASSUME NEW i \in Slots, IsSplit(nodes[i])
          PROVE  LET kids == {nodes[i].first, nodes[i].second}
                 IN  /\ ~IsLeaf(nodes[i]) /\ Cardinality(kids) = 2 /\ kids \subseteq Slots
                     /\ \A k \in kids : nodes[k] # Hole /\ nodes[k].parent = i
      <4> DEFINE a == nodes[i].first
                 b == nodes[i].second
      <4>1. /\ a \in Slots /\ b \in Slots /\ a # b /\ nodes[i].id = NoPane
            /\ nodes[a] # Hole /\ nodes[b] # Hole /\ nodes[a].parent = i /\ nodes[b].parent = i
        BY <1>1, <2>1, <3>2, Slots3
      <4> HIDE DEF a, b
      <4>2. Cardinality({a, b}) = 2
        <5>1. IsFiniteSet({a}) /\ Cardinality({a}) = 1 /\ b \notin {a} /\ {a, b} = {a} \cup {b}
          BY <4>1, FS_Singleton
        <5>2. Cardinality({a} \cup {b}) = Cardinality({a}) + 1
          BY <5>1, FS_AddElement
        <5> QED BY <5>1, <5>2
      <4> QED BY <4>1, <4>2 DEF a, b, IsLeaf
    <3>3. ASSUME NEW i \in Slots, nodes[i].parent # NoNode
          PROVE  i \in {nodes[nodes[i].parent].first, nodes[nodes[i].parent].second}
      BY <1>1, <2>1, <3>3 DEF Linked, Hanging
    <3> QED BY <3>1, <3>2, <3>3 DEF LinksAgree
  <2>5. IndexExact
    BY <1>1, <2>1, <2>2 DEF IndexExact, Indexed
  <2> QED BY <1>3, <2>1, <2>3, <2>4, <2>5 DEF TreeSound, FocusAndZoomInTree
<1> QED BY <1>5, <1>6

-----------------------------------------------------------------------------
(* Every step keeps the invariant and is a step, or none, of the layout    *)
(* the workspace sees.                                                     *)

View(P, f, z, n) == [panes |-> P, focus |-> f, zoomed |-> z, next |-> n]

LEMMA SeenFields ==
  /\ Seen.panes = DOMAIN index /\ Seen.focus = focus /\ Seen.zoomed = zoomed /\ Seen.next = nextPane
  /\ Seen = View(DOMAIN index, focus, zoomed, nextPane)
  /\ Seen' = View(DOMAIN index', focus', zoomed', nextPane')
BY DEF Seen, View

LEMMA SplitSeen ==
  ASSUME NEW P, NEW f, NEW z, NEW n
  PROVE  Layout!Split(View(P, f, z, n)) = View(P \cup {n}, f, z, n + 1)
<1> DEFINE t == View(P, f, z, n)
           R == P \cup {n}
           k == n + 1
<1>1. t.panes = P /\ t.next = n
  BY DEF View
<1>2. Layout!Split(t) = [[t EXCEPT !.panes = R] EXCEPT !.next = k]
  <2> HIDE DEF t
  <2> QED BY <1>1 DEF Layout!Split
<1> HIDE DEF R, k
<1>3. [t EXCEPT !.panes = R] = View(R, f, z, n)
  BY DEF View
<1>4. [View(R, f, z, n) EXCEPT !.next = k] = View(R, f, z, k)
  BY DEF View
<1>5. Layout!Split(t) = View(R, f, z, k)
  <2> HIDE DEF t
  <2> QED BY <1>2, <1>3, <1>4, Zenon
<1> QED BY <1>5 DEF R, k

LEMMA ClosedLastSeen ==
  ASSUME NEW P, NEW f, NEW z, NEW n, NEW p
  PROVE  Layout!ClosedLast(View(P, f, z, n), p) = View({}, f, IF z = p THEN NoPane ELSE z, n)
<1> DEFINE t == View(P, f, z, n)
           z2 == IF z = p THEN NoPane ELSE z
<1>1. t.zoomed = z
  BY DEF View
<1>2. Layout!ClosedLast(t, p) = [[t EXCEPT !.panes = {}] EXCEPT !.zoomed = z2]
  <2> HIDE DEF t
  <2> QED BY <1>1 DEF Layout!ClosedLast, NoPane, Layout!NoPane
<1> HIDE DEF z2
<1>3. [t EXCEPT !.panes = {}] = View({}, f, z, n)
  BY DEF View
<1>4. [View({}, f, z, n) EXCEPT !.zoomed = z2] = View({}, f, z2, n)
  BY DEF View
<1>5. Layout!ClosedLast(t, p) = View({}, f, z2, n)
  <2> HIDE DEF t
  <2> QED BY <1>2, <1>3, <1>4, Zenon
<1> QED BY <1>5 DEF z2

ClosesTo(P, f, z, n, p, g, f2, z2) ==
  Layout!Closed(View(P, f, z, n), p, g) = View(P \ {p}, f2, z2, n)

LEMMA ClosedSeen ==
  ASSUME NEW P, NEW f, NEW z, NEW n, NEW p, NEW g, NEW f2, NEW z2,
         f2 = IF f = p THEN g ELSE f, z2 = IF z = p THEN NoPane ELSE z
  PROVE  ClosesTo(P, f, z, n, p, g, f2, z2)
<1> DEFINE t == View(P, f, z, n)
           Q == P \ {p}
<1>1. t.panes = P /\ t.focus = f /\ t.zoomed = z
  BY DEF View
<1>2. Layout!Closed(t, p, g) = [[[t EXCEPT !.panes = Q] EXCEPT !.focus = f2] EXCEPT !.zoomed = z2]
  <2> HIDE DEF t
  <2> QED BY <1>1 DEF Layout!Closed, NoPane, Layout!NoPane
<1> HIDE DEF Q
<1>3. [t EXCEPT !.panes = Q] = View(Q, f, z, n)
  BY DEF View
<1>4. [View(Q, f, z, n) EXCEPT !.focus = f2] = View(Q, f2, z, n)
  BY DEF View
<1>5. [View(Q, f2, z, n) EXCEPT !.zoomed = z2] = View(Q, f2, z2, n)
  BY DEF View
<1>6. Layout!Closed(t, p, g) = View(Q, f2, z2, n)
  <2> HIDE DEF t
  <2> QED BY <1>2, <1>3, <1>4, <1>5, Zenon
<1> QED BY <1>6 DEF Q, ClosesTo

LEMMA TreeStep == TreeInv /\ [Next]_vars => TreeInv' /\ [Layout!Next]_Seen
<1> SUFFICES ASSUME TreeInv, [Next]_vars PROVE TreeInv' /\ [Layout!Next]_Seen
  OBVIOUS
<1>1. ASSUME NEW p \in DOMAIN index, Split(p) PROVE TreeInv' /\ Layout!Next
  <2>1. /\ TreeInv' /\ DOMAIN index' = DOMAIN index \cup {nextPane}
        /\ focus' = focus /\ zoomed' = zoomed /\ nextPane' = nextPane + 1
    BY <1>1, SplitKeeps
  <2>2. Seen' = Layout!Split(Seen)
    <3>1. Seen' = View(DOMAIN index \cup {nextPane}, focus, zoomed, nextPane + 1)
      BY <2>1, SeenFields, Zenon
    <3>2. Layout!Split(View(DOMAIN index, focus, zoomed, nextPane)) =
            View(DOMAIN index \cup {nextPane}, focus, zoomed, nextPane + 1)
      BY SplitSeen
    <3> QED BY <3>1, <3>2, SeenFields, Zenon
  <2>3. Seen.panes # {}
    BY SeenFields
  <2> QED BY <2>1, <2>2, <2>3 DEF Layout!Next, Layout!SplitStep
<1>2. ASSUME NEW p \in DOMAIN index, CloseLast(p) PROVE TreeInv' /\ Layout!Next
  <2>1. /\ TreeInv' /\ DOMAIN index = {p} /\ DOMAIN index' = {}
        /\ focus' = focus /\ zoomed' = ZoomAfterClose(p) /\ nextPane' = nextPane
    BY <1>2, CloseLastKeeps
  <2>2. Seen' = Layout!ClosedLast(Seen, p)
    <3>1. Seen' = View({}, focus, IF zoomed = p THEN NoPane ELSE zoomed, nextPane)
      BY <2>1, SeenFields, Zenon DEF ZoomAfterClose
    <3>2. Layout!ClosedLast(View(DOMAIN index, focus, zoomed, nextPane), p) =
            View({}, focus, IF zoomed = p THEN NoPane ELSE zoomed, nextPane)
      BY ClosedLastSeen
    <3> QED BY <3>1, <3>2, SeenFields, Zenon
  <2>3. Seen' \in Layout!CloseResults(Seen, p) /\ p \in Seen.panes
    BY <2>1, <2>2, SeenFields DEF Layout!CloseResults
  <2> QED BY <2>1, <2>3 DEF Layout!Next, Layout!CloseStep
<1>3. ASSUME NEW p \in DOMAIN index, Close(p) PROVE TreeInv' /\ Layout!Next
  <2>1. /\ TreeInv' /\ DOMAIN index' = DOMAIN index \ {p} /\ DOMAIN index # {p}
        /\ zoomed' = ZoomAfterClose(p) /\ nextPane' = nextPane
    BY <1>3, CloseKeeps
  <2>2. PICK f \in DOMAIN index \ {p} : focus' = IF focus = p THEN f ELSE focus
    BY <1>3, CloseKeeps
  <2>3. Seen' = Layout!Closed(Seen, p, f)
    <3>1. Seen' = View(DOMAIN index \ {p}, focus', zoomed', nextPane)
      BY <2>1, SeenFields, Zenon
    <3>2. zoomed' = IF zoomed = p THEN NoPane ELSE zoomed
      BY <2>1, Zenon DEF ZoomAfterClose
    <3>3. ClosesTo(DOMAIN index, focus, zoomed, nextPane, p, f, focus', zoomed')
      BY <2>2, <3>2, ClosedSeen, Zenon
    <3> QED BY <3>1, <3>3, SeenFields, Zenon DEF ClosesTo
  <2>4. Seen' \in Layout!CloseResults(Seen, p) /\ p \in Seen.panes
    BY <2>1, <2>2, <2>3, SeenFields DEF Layout!CloseResults
  <2> QED BY <2>1, <2>4 DEF Layout!Next, Layout!CloseStep
<1>4. ASSUME \/ \E p \in DOMAIN index : SetFocus(p)
             \/ FocusNext
             \/ FocusPrev
             \/ \E q \in DOMAIN index : FocusDirection(q)
      PROVE  TreeInv' /\ Layout!Next
  <2>1. TreeInv' /\ index' = index /\ zoomed' = zoomed /\ nextPane' = nextPane /\ focus' \in DOMAIN index
    BY <1>4, FocusKeeps
  <2>2. Seen' = Layout!Focused(Seen, focus')
    BY <2>1 DEF Layout!Focused, Seen
  <2>3. focus' \in Seen.panes
    BY <2>1, SeenFields
  <2> QED BY <2>1, <2>2, <2>3 DEF Layout!Next, Layout!FocusStep
<1>5. ASSUME NEW p \in DOMAIN index, NEW q \in DOMAIN index, Swap(p, q) PROVE TreeInv' /\ Seen' = Seen
  BY <1>5, SwapKeeps
<1>6. CASE ToggleZoom
  <2>1. Seen' = Layout!ZoomToggled(Seen)
    BY <1>6 DEF ToggleZoom, Layout!ZoomToggled, Seen, NoPane, Layout!NoPane
  <2> QED BY <1>6, <2>1, ZoomKeeps DEF Layout!Next, Layout!ZoomStep
<1>7. ASSUME RetileEven \/ RetileGrid \/ \E mainFirst \in BOOLEAN : RetileMain(mainFirst)
      PROVE  TreeInv' /\ Seen' = Seen
  BY <1>7, RetilesKeep
<1>8. CASE UNCHANGED vars
  <2>1. /\ nodes' = nodes /\ root' = root /\ focus' = focus /\ zoomed' = zoomed
        /\ nextPane' = nextPane /\ index' = index /\ free' = free
    BY <1>8 DEF vars
  <2> QED BY <2>1 DEF TreeInv, Empty, Seen
<1> QED BY <1>1, <1>2, <1>3, <1>4, <1>5, <1>6, <1>7, <1>8 DEF Next

-----------------------------------------------------------------------------
(* The order of the panes: s and t have the same members of X, in the same *)
(* order.                                                                  *)
Ordered(s, x, y) == \E i, j \in DOMAIN s : i < j /\ s[i] = x /\ s[j] = y

SameOrder(s, t, X) ==
  /\ ToSet(s) \cap X = ToSet(t) \cap X
  /\ \A x, y \in X : Ordered(s, x, y) <=> Ordered(t, x, y)

LEMMA SetJoined ==
  ASSUME NEW s \in Seq(Nat), NEW t \in Seq(Nat)
  PROVE  ToSet(s \o t) = ToSet(s) \cup ToSet(t)
<1> DEFINE q == s \o t
           m == Len(s)
           n == Len(t)
<1>0. m \in Nat /\ n \in Nat
  OBVIOUS
<1>1. /\ q \in Seq(Nat) /\ Len(q) = m + n
      /\ DOMAIN s = 1 .. m /\ DOMAIN t = 1 .. n /\ DOMAIN q = 1 .. (m + n)
      /\ \A k \in 1 .. m : q[k] = s[k]
      /\ \A k \in 1 .. n : q[m + k] = t[k]
      /\ \A k \in 1 .. (m + n) : k \in 1 .. m \/ \E l \in 1 .. n : k = m + l
  BY Joined
<1> HIDE DEF q, m, n
<1>2. (\A k \in 1 .. m : k \in 1 .. (m + n)) /\ \A k \in 1 .. n : m + k \in 1 .. (m + n)
  BY <1>0, <1>1
<1>3. ASSUME NEW x \in ToSet(q) PROVE x \in ToSet(s) \cup ToSet(t)
  <2>1. PICK k \in 1 .. (m + n) : q[k] = x
    BY <1>0, <1>1 DEF ToSet
  <2> QED BY <1>0, <1>1, <2>1 DEF ToSet
<1>4. ASSUME NEW x \in ToSet(s) PROVE x \in ToSet(q)
  BY <1>0, <1>1, <1>2 DEF ToSet
<1>5. ASSUME NEW x \in ToSet(t) PROVE x \in ToSet(q)
  BY <1>0, <1>1, <1>2 DEF ToSet
<1> QED BY <1>3, <1>4, <1>5 DEF q

LEMMA OrderJoined ==
  ASSUME NEW s \in Seq(Nat), NEW t \in Seq(Nat), NEW x, NEW y
  PROVE  Ordered(s \o t, x, y) <=>
           Ordered(s, x, y) \/ Ordered(t, x, y) \/ (x \in ToSet(s) /\ y \in ToSet(t))
<1> DEFINE q == s \o t
           m == Len(s)
           n == Len(t)
<1>0. m \in Nat /\ n \in Nat
  OBVIOUS
<1>1. /\ q \in Seq(Nat) /\ Len(q) = m + n
      /\ DOMAIN s = 1 .. m /\ DOMAIN t = 1 .. n /\ DOMAIN q = 1 .. (m + n)
      /\ \A k \in 1 .. m : q[k] = s[k]
      /\ \A k \in 1 .. n : q[m + k] = t[k]
      /\ \A k \in 1 .. (m + n) : k \in 1 .. m \/ \E l \in 1 .. n : k = m + l
  BY Joined
<1> HIDE DEF q, m, n
<1>2. (\A k \in 1 .. m : k \in 1 .. (m + n)) /\ \A k \in 1 .. n : m + k \in 1 .. (m + n)
  BY <1>0, <1>1
<1>3. ASSUME Ordered(s, x, y) PROVE Ordered(q, x, y)
  BY <1>0, <1>1, <1>2, <1>3 DEF Ordered
<1>4. ASSUME Ordered(t, x, y) PROVE Ordered(q, x, y)
  <2>1. PICK i, j \in 1 .. n : i < j /\ t[i] = x /\ t[j] = y
    BY <1>0, <1>1, <1>4 DEF Ordered
  <2>2. m + i < m + j /\ q[m + i] = x /\ q[m + j] = y /\ m + i \in DOMAIN q /\ m + j \in DOMAIN q
    BY <1>0, <1>1, <1>2, <2>1
  <2> QED BY <2>2 DEF Ordered
<1>5. ASSUME x \in ToSet(s), y \in ToSet(t) PROVE Ordered(q, x, y)
  <2>1. PICK i \in 1 .. m : s[i] = x
    BY <1>0, <1>1, <1>5 DEF ToSet
  <2>2. PICK j \in 1 .. n : t[j] = y
    BY <1>0, <1>1, <1>5 DEF ToSet
  <2>3. i < m + j /\ q[i] = x /\ q[m + j] = y /\ i \in DOMAIN q /\ m + j \in DOMAIN q
    BY <1>0, <1>1, <1>2, <2>1, <2>2
  <2> QED BY <2>3 DEF Ordered
<1>6. ASSUME Ordered(q, x, y)
      PROVE  Ordered(s, x, y) \/ Ordered(t, x, y) \/ (x \in ToSet(s) /\ y \in ToSet(t))
  <2>1. PICK i, j \in 1 .. (m + n) : i < j /\ q[i] = x /\ q[j] = y
    BY <1>0, <1>1, <1>6 DEF Ordered
  <2>2. CASE j \in 1 .. m
    <3>1. i \in 1 .. m
      BY <1>0, <1>1, <2>1, <2>2
    <3> QED BY <1>0, <1>1, <2>1, <2>2, <3>1 DEF Ordered
  <2>3. ASSUME NEW l \in 1 .. n, j = m + l PROVE Ordered(t, x, y) \/ (x \in ToSet(s) /\ y \in ToSet(t))
    <3>1. y = t[l] /\ l \in DOMAIN t
      BY <1>0, <1>1, <2>1, <2>3
    <3>2. CASE i \in 1 .. m
      BY <1>0, <1>1, <2>1, <3>1, <3>2 DEF ToSet
    <3>3. ASSUME NEW k \in 1 .. n, i = m + k PROVE Ordered(t, x, y)
      <4>1. k < l /\ t[k] = x
        BY <1>0, <1>1, <2>1, <2>3, <3>3
      <4> QED BY <1>0, <1>1, <3>1, <4>1 DEF Ordered
    <3> QED BY <1>0, <1>1, <2>1, <3>2, <3>3
  <2> QED BY <1>0, <1>1, <2>1, <2>2, <2>3
<1> QED BY <1>3, <1>4, <1>5, <1>6 DEF q

LEMMA SameTurned ==
  ASSUME NEW s, NEW t, NEW X, SameOrder(s, t, X)
  PROVE  SameOrder(t, s, X)
BY DEF SameOrder

LEMMA SameChained ==
  ASSUME NEW s, NEW t, NEW u, NEW X, SameOrder(s, t, X), SameOrder(t, u, X)
  PROVE  SameOrder(s, u, X)
BY DEF SameOrder

LEMMA SameJoined ==
  ASSUME NEW s \in Seq(Nat), NEW t \in Seq(Nat), NEW u \in Seq(Nat), NEW v \in Seq(Nat), NEW X,
         SameOrder(s, u, X), SameOrder(t, v, X)
  PROVE  SameOrder(s \o t, u \o v, X)
<1>1. ToSet(s \o t) = ToSet(s) \cup ToSet(t) /\ ToSet(u \o v) = ToSet(u) \cup ToSet(v)
  BY SetJoined
<1>2. \A x \in X : (x \in ToSet(s) <=> x \in ToSet(u)) /\ (x \in ToSet(t) <=> x \in ToSet(v))
  BY DEF SameOrder
<1>3. ASSUME NEW x \in X, NEW y \in X PROVE Ordered(s \o t, x, y) <=> Ordered(u \o v, x, y)
  <2>1. (Ordered(s, x, y) <=> Ordered(u, x, y)) /\ (Ordered(t, x, y) <=> Ordered(v, x, y))
    BY DEF SameOrder
  <2> QED BY <1>2, <2>1, OrderJoined
<1>4. ToSet(s \o t) \cap X = ToSet(u \o v) \cap X
  BY <1>1, <1>2
<1> QED BY <1>3, <1>4 DEF SameOrder

(* One more pane, on either side.                                          *)
LEMMA OneMore ==
  ASSUME NEW s \in Seq(Nat), NEW p \in Nat, NEW X, p \notin X
  PROVE  SameOrder(s \o <<p>>, s, X) /\ SameOrder(<<p>> \o s, s, X)
<1>1. <<p>> \in Seq(Nat) /\ ToSet(<<p>>) = {p}
  BY DEF ToSet
<1>2. \A x, y : ~Ordered(<<p>>, x, y)
  BY DEF Ordered
<1>3. ToSet(s \o <<p>>) = ToSet(s) \cup {p} /\ ToSet(<<p>> \o s) = {p} \cup ToSet(s)
  BY <1>1, SetJoined
<1>4. ASSUME NEW x \in X, NEW y \in X
      PROVE  (Ordered(s \o <<p>>, x, y) <=> Ordered(s, x, y)) /\ (Ordered(<<p>> \o s, x, y) <=> Ordered(s, x, y))
  BY <1>1, <1>2, OrderJoined
<1> QED BY <1>3, <1>4 DEF SameOrder

(* A split puts the new pane somewhere among the others.                   *)
LEMMA GrownOrder ==
  ASSUME NEW ns, NEW rt, Tree(ns, rt), NEW q \in Nat \ {NoPane}, \A i \in Slot(ns) : ns[i].id # q,
         NEW ms, NEW at, NEW old, NEW new, Grown(ns, ms, at, old, new, q)
  PROVE  SameOrder(LeavesFrom(ns, rt), LeavesFrom(ms, rt), Nat \ {q})
<1>1. Tree(ms, rt)
  BY SplitTree
<1>2. PICK w : IsWalk(ns, w)
  BY WalkExists DEF Tree
<1>3. PICK v : IsWalk(ms, v)
  BY <1>1, WalkExists DEF Tree
<1>4. /\ at \in Slot(ns) /\ IsLeaf(ns[at]) /\ old # new
      /\ (old \in Slot(ns) => ns[old] = Hole) /\ (new \in Slot(ns) => ns[new] = Hole)
      /\ Slot(ms) = Slot(ns) \cup {old, new}
      /\ \A i \in Slot(ns) : i \notin {at, old, new} => ms[i] = ns[i]
  BY DEF Grown
<1>5. ns[at] \in Node /\ ~IsSplit(ns[at]) /\ ns[at].id \in Nat
  BY <1>4, Slots3 DEF Tree, Node
<1>6. w[at] = <<ns[at].id>>
  BY <1>2, <1>4, <1>5 DEF IsWalk
<1>7. v[at] = <<ns[at].id>> \o <<q>>
  <2>1. old \in Slot(ms) /\ new \in Slot(ms) /\ at \in Slot(ms) /\ old # NoNode
    BY <1>4 DEF Slot, NoNode, Grown
  <2>2. ms[at].first = old /\ ms[at].second = new /\ IsSplit(ms[at])
    BY <2>1 DEF Grown, Branch, IsSplit
  <2>3. /\ ms[old].id = ns[at].id /\ ms[old].first = NoNode
        /\ ms[new].id = q /\ ms[new].first = NoNode
    BY DEF Grown, Leaf
  <2>4. v[old] = <<ns[at].id>> /\ v[new] = <<q>>
    BY <1>3, <2>1, <2>3 DEF IsWalk, IsSplit
  <2> QED BY <1>3, <2>1, <2>2, <2>4 DEF IsWalk
<1>0. PICK m \in Nat : \E r : IsRank(ns, m, r)
  BY DEF Tree, Ranked
<1>8. PICK r : IsRank(ns, m, r)
  BY <1>0
<1> DEFINE S == {j \in Slot(ns) : ns[j] # Hole => SameOrder(w[j], v[j], Nat \ {q})}
<1>9. ASSUME NEW j \in Slot(ns), \A k \in Slot(ns) : r[k] < r[j] => k \in S
      PROVE  j \in S
  <2> SUFFICES ASSUME ns[j] # Hole PROVE SameOrder(w[j], v[j], Nat \ {q})
    OBVIOUS
  <2>1. CASE j = at
    <3> DEFINE one == <<ns[at].id>>
    <3>0. one \in Seq(Nat)
      BY <1>5
    <3> HIDE DEF one
    <3>1. SameOrder(one \o <<q>>, one, Nat \ {q})
      BY <3>0, OneMore
    <3>2. SameOrder(one, one \o <<q>>, Nat \ {q})
      BY <3>1, SameTurned
    <3> QED BY <1>6, <1>7, <2>1, <3>2 DEF one
  <2>2. CASE j # at
    <3>1. j \notin {at, old, new} /\ ms[j] = ns[j] /\ j \in Slot(ms)
      BY <1>4, <2>2
    <3>2. CASE IsSplit(ns[j])
      <4> DEFINE a == ns[j].first
                 b == ns[j].second
      <4>1. /\ a \in Slot(ns) /\ b \in Slot(ns) /\ ns[a] # Hole /\ ns[b] # Hole /\ r[a] < r[j] /\ r[b] < r[j]
        BY <1>8, <3>2, Slots3 DEF Tree, IsRank
      <4>2. SameOrder(w[a], v[a], Nat \ {q}) /\ SameOrder(w[b], v[b], Nat \ {q})
        BY <1>9, <4>1
      <4>3. w[j] = w[a] \o w[b] /\ v[j] = v[a] \o v[b]
        BY <1>2, <1>3, <3>1, <3>2 DEF IsWalk
      <4>4. w[a] \in Seq(Nat) /\ w[b] \in Seq(Nat) /\ v[a] \in Seq(Nat) /\ v[b] \in Seq(Nat)
        BY <1>2, <1>3, <1>4, <4>1 DEF IsWalk
      <4> HIDE DEF a, b
      <4> QED BY <4>2, <4>3, <4>4, SameJoined
    <3>3. CASE ~IsSplit(ns[j])
      <4>1. w[j] = <<ns[j].id>> /\ v[j] = <<ns[j].id>>
        BY <1>2, <1>3, <3>1, <3>3 DEF IsWalk
      <4> QED BY <4>1 DEF SameOrder
    <3> QED BY <3>2, <3>3
  <2> QED BY <2>1, <2>2
<1>10. \A j \in Slot(ns) : j \in S
  <2> HIDE DEF S
  <2>1. r \in [Slot(ns) -> 0 .. m]
    BY <1>8 DEF IsRank
  <2>2. \A j \in Slot(ns) : (\A k \in Slot(ns) : r[k] < r[j] => k \in S) => j \in S
    BY <1>9
  <2> DEFINE D == Slot(ns)
  <2>3. r \in [D -> 0 .. m] /\ \A j \in D : (\A k \in D : r[k] < r[j] => k \in S) => j \in S
    BY <2>1, <2>2
  <2>4. \A j \in D : j \in S
    <3> HIDE DEF D
    <3> QED BY <2>3, RankInduction
  <2> QED BY <2>4
<1>11. rt \in Slot(ns) /\ ns[rt] # Hole /\ rt \in Slot(ms)
  BY <1>1 DEF Tree, OneRoot
<1>12. LeavesFrom(ns, rt) = w[rt] /\ LeavesFrom(ms, rt) = v[rt]
  BY <1>1, <1>2, <1>3, <1>11, WalkIs DEF Tree
<1> QED BY <1>10, <1>11, <1>12
(* A close leaves the others in their order.                               *)
LEMMA BypassedOrder ==
  ASSUME NEW ns, NEW rt, Tree(ns, rt), NEW ms, NEW at, NEW sib, NEW up, Bypassed(ns, ms, at, sib, up),
         NEW p, p = ns[at].id
  PROVE  SameOrder(LeavesFrom(ns, rt), LeavesFrom(ms, rt), Nat \ {p})
<1>1. Tree(ms, rt)
  BY BypassTree
<1>2. PICK w : IsWalk(ns, w)
  BY WalkExists DEF Tree
<1>3. PICK v : IsWalk(ms, v)
  BY <1>1, WalkExists DEF Tree
<1>4. /\ ns \in Seq(Node) /\ Linked(ns) /\ Slot(ms) = Slot(ns)
      /\ at \in Slot(ns) /\ sib \in Slot(ns) /\ up \in Slot(ns) /\ at # sib
      /\ IsLeaf(ns[at]) /\ IsSplit(ns[up]) /\ {ns[up].first, ns[up].second} = {at, sib}
      /\ ms[up] = [ns[sib] EXCEPT !.parent = ns[up].parent]
      /\ \A i \in Slot(ns) : i \notin {up, at, sib} =>
           ms[i] = IF i \in {ns[sib].first, ns[sib].second} THEN [ns[i] EXCEPT !.parent = up] ELSE ns[i]
  BY DEF Tree, Bypassed
<1>5. /\ ns[at] \in Node /\ ~IsSplit(ns[at]) /\ p \in Nat /\ ns[sib] \in Node
      /\ ns[at] # Hole /\ ns[sib] # Hole /\ ns[at].parent = up /\ ns[sib].parent = up
  <2>1. ns[at] \in Node /\ ~IsSplit(ns[at]) /\ p \in Nat /\ ns[sib] \in Node
    BY <1>4, Slots3 DEF Node
  <2>2. /\ ns[ns[up].first] # Hole /\ ns[ns[up].second] # Hole
        /\ ns[ns[up].first].parent = up /\ ns[ns[up].second].parent = up
    BY <1>4, Slots3
  <2>3. at \in {ns[up].first, ns[up].second} /\ sib \in {ns[up].first, ns[up].second}
    BY <1>4
  <2> QED BY <2>1, <2>2, <2>3
<1>6. w \in [Slot(ns) -> Seq(Nat)] /\ v \in [Slot(ns) -> Seq(Nat)]
  BY <1>2, <1>3, <1>4 DEF IsWalk
<1>7. SameOrder(w[up], w[sib], Nat \ {p})
  <2>1. w[at] = <<p>> /\ w[sib] \in Seq(Nat)
    BY <1>2, <1>4, <1>5 DEF IsWalk
  <2>2. w[up] = w[at] \o w[sib] \/ w[up] = w[sib] \o w[at]
    <3>1. w[up] = w[ns[up].first] \o w[ns[up].second]
      BY <1>2, <1>4 DEF IsWalk
    <3>2. (ns[up].first = at /\ ns[up].second = sib) \/ (ns[up].first = sib /\ ns[up].second = at)
      BY <1>4
    <3> QED BY <3>1, <3>2
  <2>3. SameOrder(w[sib] \o <<p>>, w[sib], Nat \ {p}) /\ SameOrder(<<p>> \o w[sib], w[sib], Nat \ {p})
    BY <1>5, <2>1, OneMore
  <2> QED BY <2>1, <2>2, <2>3
<1>8. /\ ms[up].id = ns[sib].id /\ ms[up].first = ns[sib].first /\ ms[up].second = ns[sib].second
      /\ \A i \in Slot(ns) : i \notin {up, at, sib} =>
           ms[i].id = ns[i].id /\ ms[i].first = ns[i].first /\ ms[i].second = ns[i].second
  <2>1. \A i \in Slot(ns) : ns[i] \in Node
    BY <1>4 DEF Slot
  <2> QED BY <1>4, <1>5, <2>1 DEF Node
<1>0. PICK m \in Nat : \E r : IsRank(ns, m, r)
  BY DEF Tree, Ranked
<1>9. PICK r : IsRank(ns, m, r)
  BY <1>0
<1>10. r \in [Slot(ns) -> 0 .. m] /\ \A i \in Slot(ns) : r[i] \in Nat
  BY <1>9 DEF IsRank
<1> DEFINE X == Nat \ {p}
           S == {j \in Slot(ns) : ns[j] # Hole /\ j \notin {at, sib} => SameOrder(w[j], v[j], X)}
<1>11. ASSUME NEW j \in Slot(ns), \A k \in Slot(ns) : r[k] < r[j] => k \in S
       PROVE  j \in S
  <2> SUFFICES ASSUME ns[j] # Hole, j \notin {at, sib} PROVE SameOrder(w[j], v[j], X)
    OBVIOUS
  <2>1. ASSUME NEW l \in Slot(ns), IsSplit(ns[l]), l # up, r[l] <= r[j],
               NEW i \in Slot(ns), ms[i].first = ns[l].first, ms[i].second = ns[l].second
        PROVE  SameOrder(w[l], v[i], X)
    <3> DEFINE a == ns[l].first
               b == ns[l].second
    <3>1. /\ a \in Slot(ns) /\ b \in Slot(ns) /\ ns[a] # Hole /\ ns[b] # Hole
          /\ ns[a].parent = l /\ ns[b].parent = l /\ r[a] < r[l] /\ r[b] < r[l]
      BY <1>4, <1>9, <2>1, Slots3 DEF IsRank
    <3>2. a \notin {at, sib} /\ b \notin {at, sib} /\ r[a] < r[j] /\ r[b] < r[j]
      BY <1>5, <1>10, <2>1, <3>1
    <3>3. SameOrder(w[a], v[a], X) /\ SameOrder(w[b], v[b], X)
      BY <1>11, <3>1, <3>2
    <3>4. w[l] = w[a] \o w[b] /\ v[i] = v[a] \o v[b]
      <4>1. IsSplit(ms[i]) /\ i \in Slot(ms) /\ ms[i].first = a /\ ms[i].second = b
        BY <1>4, <2>1 DEF IsSplit
      <4> QED BY <1>2, <1>3, <2>1, <4>1 DEF IsWalk
    <3>5. w[a] \in Seq(Nat) /\ w[b] \in Seq(Nat) /\ v[a] \in Seq(Nat) /\ v[b] \in Seq(Nat)
      BY <1>6, <3>1
    <3> HIDE DEF a, b, X
    <3> QED BY <3>3, <3>4, <3>5, SameJoined
  <2>2. ASSUME NEW l \in Slot(ns), ~IsSplit(ns[l]), NEW i \in Slot(ns), ms[i].first = ns[l].first, ms[i].id = ns[l].id
        PROVE  SameOrder(w[l], v[i], X)
    <3>1. ~IsSplit(ms[i]) /\ i \in Slot(ms)
      BY <1>4, <2>2 DEF IsSplit
    <3>2. w[l] = <<ns[l].id>> /\ v[i] = <<ns[l].id>>
      BY <1>2, <1>3, <2>2, <3>1 DEF IsWalk
    <3> QED BY <3>2 DEF SameOrder
  <2>3. CASE j = up
    <3>1. SameOrder(w[sib], v[up], X)
      <4>1. CASE IsSplit(ns[sib])
        <5>1. r[sib] < r[up] /\ sib # up
          <6>1. r[ns[up].first] < r[up] /\ r[ns[up].second] < r[up] /\ sib \in {ns[up].first, ns[up].second}
            BY <1>4, <1>9 DEF IsRank
          <6> QED BY <1>4, <1>10, <6>1
        <5>2. r[sib] <= r[j]
          BY <1>4, <1>10, <2>3, <5>1
        <5> QED BY <1>4, <1>8, <2>1, <4>1, <5>1, <5>2
      <4>2. CASE ~IsSplit(ns[sib])
        BY <1>4, <1>8, <2>2, <4>2
      <4> QED BY <4>1, <4>2
    <3> QED BY <1>7, <2>3, <3>1, SameChained
  <2>4. CASE j # up
    <3>1. r[j] <= r[j]
      BY <1>10
    <3> QED BY <1>8, <2>1, <2>2, <2>4, <3>1
  <2> QED BY <2>3, <2>4
<1>12. \A j \in Slot(ns) : j \in S
  <2> HIDE DEF S
  <2> QED BY <1>10, <1>11, RankInduction
<1>13. rt \in Slot(ns) /\ ns[rt] # Hole /\ rt \notin {at, sib}
  <2>1. rt \in Slot(ns) /\ ns[rt] # Hole /\ ns[rt].parent = NoNode
    BY DEF Tree, OneRoot
  <2>2. up # NoNode
    BY <1>4 DEF Slot, NoNode
  <2> QED BY <1>5, <2>1, <2>2
<1>14. LeavesFrom(ns, rt) = w[rt] /\ LeavesFrom(ms, rt) = v[rt]
  BY <1>1, <1>2, <1>3, <1>4, <1>13, WalkIs DEF Tree
<1> QED BY <1>12, <1>13, <1>14

(* Every step but a swap and retile-main keeps the order of the panes.     *)
OrderKept ==
  \A p, q \in DOMAIN index \cap DOMAIN index' : Before(p, q) <=> Before(p, q)'

LEMMA SameKept ==
  ASSUME NEW X, SameOrder(Panes, Panes', X), DOMAIN index \cap DOMAIN index' \subseteq X
  PROVE  OrderKept
<1> SUFFICES ASSUME NEW p \in X, NEW q \in X PROVE Before(p, q) <=> Before(p, q)'
  BY DEF OrderKept
<1>1. Ordered(Panes, p, q) <=> Ordered(Panes', p, q)
  BY DEF SameOrder
<1>2. Before(p, q) <=> Ordered(Panes, p, q)
  BY DEF Before, Ordered
<1>3. Before(p, q)' <=> Ordered(Panes', p, q)
  BY DEF Before, Ordered
<1> QED BY <1>1, <1>2, <1>3

LEMMA UnmovedKept ==
  ASSUME Panes' = Panes
  PROVE  OrderKept
BY SameKept DEF SameOrder

LEMMA OrderStep ==
  ASSUME TreeInv, Next
  PROVE  \/ OrderKept
         \/ \E p, q \in DOMAIN index : Swap(p, q)
         \/ \E mainFirst \in BOOLEAN : RetileMain(mainFirst)
<1>1. ASSUME NEW p \in DOMAIN index, Split(p) PROVE OrderKept
  <2>1. /\ TreeInv' /\ DOMAIN index' = DOMAIN index \cup {nextPane} /\ root' = root
        /\ \A i \in Slot(nodes) : nodes[i].id # nextPane
        /\ \E i, j, k : Grown(nodes, nodes', i, j, k, nextPane)
    BY <1>1, SplitKeeps
  <2>2. PICK i, j, k : Grown(nodes, nodes', i, j, k, nextPane)
    BY <2>1
  <2>3. /\ ~Empty /\ ~Empty' /\ Tree(nodes, root) /\ nextPane \in Nat \ {NoPane}
        /\ DOMAIN index \subseteq Nat /\ \A q \in DOMAIN index : q < nextPane
    <3>1. ~Empty /\ ~Empty'
      BY <2>1 DEF Empty
    <3>2. Tree(nodes, root) /\ nextPane \in Nat /\ \A q \in DOMAIN index : q < nextPane
      BY <3>1 DEF TreeInv
    <3>3. DOMAIN index \subseteq Nat \ {NoPane}
      BY <3>1, PanesKnown
    <3> QED BY <3>1, <3>2, <3>3 DEF NoPane
  <2>4. SameOrder(LeavesFrom(nodes, root), LeavesFrom(nodes', root), Nat \ {nextPane})
    BY <2>1, <2>2, <2>3, GrownOrder
  <2>5. Panes = LeavesFrom(nodes, root) /\ Panes' = LeavesFrom(nodes', root)
    BY <2>1, <2>3 DEF Panes
  <2>6. DOMAIN index \cap DOMAIN index' \subseteq Nat \ {nextPane}
    BY <2>3
  <2> QED BY <2>4, <2>5, <2>6, SameKept
<1>2. ASSUME NEW p \in DOMAIN index, CloseLast(p) PROVE OrderKept
  BY <1>2, CloseLastKeeps DEF OrderKept
<1>3. ASSUME NEW p \in DOMAIN index, Close(p) PROVE OrderKept
  <2>1. /\ DOMAIN index' = DOMAIN index \ {p} /\ DOMAIN index # {p} /\ root' = root
        /\ \E i, j, k : Bypassed(nodes, nodes', i, j, k) /\ nodes[i].id = p
    BY <1>3, CloseKeeps
  <2>2. PICK i, j, k : Bypassed(nodes, nodes', i, j, k) /\ nodes[i].id = p
    BY <2>1
  <2>3. ~Empty /\ ~Empty'
    BY <2>1 DEF Empty
  <2>4. Tree(nodes, root) /\ DOMAIN index \subseteq Nat \ {NoPane}
    BY <2>3, PanesKnown DEF TreeInv
  <2>5. SameOrder(LeavesFrom(nodes, root), LeavesFrom(nodes', root), Nat \ {p})
    BY <2>2, <2>4, BypassedOrder
  <2>6. Panes = LeavesFrom(nodes, root) /\ Panes' = LeavesFrom(nodes', root)
    BY <2>1, <2>3 DEF Panes
  <2>7. DOMAIN index \cap DOMAIN index' \subseteq Nat \ {p}
    BY <2>1, <2>4
  <2> QED BY <2>5, <2>6, <2>7, SameKept
<1>4. ASSUME NEW plan, Plan(plan, 1, Panes), ~Empty, Rebuild(plan) PROVE OrderKept
  <2>1. ToSet(Panes) = DOMAIN index
    BY <1>4, PanesKnown
  <2>2. ~Empty' /\ nodes' = plan /\ root' = 1
    BY <1>4, <2>1, RebuildKeeps DEF Rebuild
  <2>3. Panes' = Panes
    BY <1>4, <2>2 DEF Panes, Plan
  <2> QED BY <2>3, UnmovedKept
<1>5. CASE RetileEven \/ RetileGrid
  <2>1. ~Empty
    BY <1>5 DEF RetileEven, RetileGrid
  <2>2. Order(Panes) /\ Len(Panes) > 0
    BY <2>1, PanesKnown
  <2>3. Plan(EvenPlan(Panes), 1, Panes) /\ Plan(GridPlan(Panes), 1, Panes)
    BY <2>2, EvenSpells, GridSpells
  <2>4. Rebuild(EvenPlan(Panes)) \/ Rebuild(GridPlan(Panes))
    BY <1>5 DEF RetileEven, RetileGrid
  <2> QED BY <1>4, <2>1, <2>3, <2>4
<1>6. ASSUME nodes' = nodes, root' = root, index' = index PROVE OrderKept
  <2>1. Panes' = Panes
    BY <1>6 DEF Panes, Empty
  <2> QED BY <2>1, UnmovedKept
<1>7. CASE \/ \E p \in DOMAIN index : SetFocus(p)
           \/ FocusNext
           \/ FocusPrev
           \/ \E q \in DOMAIN index : FocusDirection(q)
           \/ ToggleZoom
  BY <1>6, <1>7 DEF SetFocus, FocusNext, FocusPrev, FocusStep, FocusDirection, ToggleZoom
<1> QED BY <1>1, <1>2, <1>3, <1>5, <1>7 DEF Next

-----------------------------------------------------------------------------
(* The theorems.                                                           *)

(* In every state the arena is a tree, or all free, with an exact index    *)
(* and free list.                                                          *)
THEOREM TreeInvariant == Spec => []TreeInv
<1>1. Init => TreeInv
  BY TreeInit
<1>2. TreeInv /\ [Next]_vars => TreeInv'
  BY TreeStep
<1> QED BY <1>1, <1>2, PTL DEF Spec

(* However often slots are reused and panes swapped, closed and retiled,   *)
(* links agree, the free list is the holes, each once, the index is what a *)
(* walk finds, and focus and zoom are on panes of the tree (layout.rs).    *)
THEOREM TreeSoundHolds == Spec => []TreeSound
<1>1. TreeInv => TreeSound
  BY TreeInvSound
<1> QED BY <1>1, TreeInvariant, PTL

(* The arena implements the record of module TabLayout by which module     *)
(* Workspace models the trees of its tabs (workspace_instance.rs).         *)
THEOREM LayoutImplemented == Spec => ImplementsTabLayout
<1>1. Init => Layout!Init
  <2> SUFFICES ASSUME Init PROVE Layout!Init
    OBVIOUS
  <2>1. TreeInv /\ ~Empty /\ nextPane - 1 \in DOMAIN index /\ zoomed = NoPane
    BY TreeInit
  <2>2. focus \in DOMAIN index /\ \A p \in DOMAIN index : p < nextPane
    BY <2>1 DEF TreeInv
  <2> QED BY <2>1, <2>2, SeenFields DEF Layout!Init, Empty, NoPane, Layout!NoPane
<1>2. TreeInv /\ [Next]_vars => [Layout!Next]_Seen
  BY TreeStep
<1> QED BY <1>1, <1>2, TreeInvariant, PTL DEF Spec, ImplementsTabLayout, Layout!Spec

(* However the tree is split, closed and retiled, only a swap and          *)
(* retile-main change the order of two panes (layout.rs).                  *)
THEOREM OrderHolds == Spec => OrderStable
<1>1. TreeInv /\ [Next]_vars =>
        [\/ OrderKept
         \/ \E p, q \in DOMAIN index : Swap(p, q)
         \/ \E mainFirst \in BOOLEAN : RetileMain(mainFirst)]_vars
  BY OrderStep
<1> QED BY <1>1, TreeInvariant, PTL DEF Spec, OrderStable, OrderKept

-----------------------------------------------------------------------------
(* The rectangles of the other trees.                                      *)

LEMMA Greatest ==
  ASSUME NEW S \in SUBSET Int, S # {}, NEW m \in Int, \A x \in S : x <= m
  PROVE  Tiles!Max(S) \in S /\ \A y \in S : y <= Tiles!Max(S)
<1> DEFINE T == {m - x : x \in S}
<1>0. ASSUME NEW x \in S PROVE m - x \in Nat /\ m - x \in T
  <2>1. x \in Int /\ x <= m
    OBVIOUS
  <2> QED BY <2>1
<1>1. T \in SUBSET Nat /\ T # {}
  BY <1>0
<1>2. PICK k \in T : \A y \in T : k <= y
  <2> HIDE DEF T
  <2> QED BY <1>1, Least
<1>3. PICK x \in S : k = m - x
  OBVIOUS
<1>4. ASSUME NEW y \in S PROVE x >= y
  <2>1. m - y \in T
    BY <1>0
  <2>2. x \in Int /\ y \in Int /\ m - x <= m - y
    BY <1>2, <1>3, <2>1
  <2> QED BY <2>2
<1>5. Tiles!Max(S) = CHOOSE z \in S : \A y \in S : z >= y
  BY DEF Tiles!Max
<1>6. Tiles!Max(S) \in S /\ \A y \in S : Tiles!Max(S) >= y
  BY <1>4, <1>5, Zenon
<1> QED BY <1>6

LEMMA GreaterOfTwo ==
  ASSUME NEW a \in Int, NEW b \in Int
  PROVE  Tiles!Max({a, b}) \in {a, b} /\ a <= Tiles!Max({a, b}) /\ b <= Tiles!Max({a, b})
<1> DEFINE m == IF a <= b THEN b ELSE a
<1>1. {a, b} \in SUBSET Int /\ {a, b} # {} /\ m \in Int /\ \A x \in {a, b} : x <= m
  OBVIOUS
<1> HIDE DEF m
<1> QED BY <1>1, Greatest

LEMMA FiniteBounded ==
  ASSUME NEW D, IsFiniteSet(D), NEW f, \A x \in D : f[x] \in Nat
  PROVE  \E m \in Nat : \A x \in D : f[x] <= m
<1>1. PICK n \in Nat : ExistsSurjection(1 .. n, D)
  BY FS_NatSurjection
<1>2. PICK g \in [1 .. n -> D] : \A x \in D : \E k \in 1 .. n : g[k] = x
  BY <1>1 DEF ExistsSurjection, Surjection
<1> DEFINE T == {k \in Nat : k <= n => \E m \in Nat : \A i \in 1 .. k : f[g[i]] <= m}
<1>3. 0 \in T
  OBVIOUS
<1>4. ASSUME NEW k \in T PROVE k + 1 \in T
  <2> SUFFICES ASSUME k + 1 <= n PROVE \E m \in Nat : \A i \in 1 .. (k + 1) : f[g[i]] <= m
    OBVIOUS
  <2>1. PICK m \in Nat : \A i \in 1 .. k : f[g[i]] <= m
    OBVIOUS
  <2>2. f[g[k + 1]] \in Nat /\ \A i \in 1 .. k : f[g[i]] \in Nat
    BY <1>2
  <2> DEFINE b == m + f[g[k + 1]]
  <2>3. b \in Nat /\ \A i \in 1 .. (k + 1) : f[g[i]] <= b
    BY <2>1, <2>2
  <2> QED BY <2>3
<1>5. n \in T
  <2> HIDE DEF T
  <2>1. T \in SUBSET Nat
    BY DEF T
  <2> QED BY <1>3, <1>4, <2>1, SetInduction
<1>6. PICK m \in Nat : \A i \in 1 .. n : f[g[i]] <= m
  BY <1>5
<1> QED BY <1>2, <1>6

-----------------------------------------------------------------------------
(* Fractions.                                                              *)
IsRatio(r) == r \in Nat \X (Nat \ {0}) /\ r[1] <= r[2]

LEMMA Quotient ==
  ASSUME NEW a \in Int, NEW b \in Nat \ {0}
  PROVE  a \div b \in Int /\ b * (a \div b) <= a /\ a < b * (a \div b) + b
OBVIOUS

LEMMA Fewer ==
  ASSUME NEW b \in Nat \ {0}, NEW q \in Int, NEW w \in Int, b * q < b * w + b
  PROVE  q <= w
<1>1. ASSUME q >= w + 1 PROVE FALSE
  <2>1. PICK k \in Nat : q = w + 1 + k
    <3>1. q - w - 1 \in Nat /\ q = w + 1 + (q - w - 1)
      BY <1>1
    <3> QED BY <3>1
  <2>2. b * q = b * w + b + b * k /\ b * k \in Nat
    BY <2>1
  <2> QED BY <2>2
<1> QED BY <1>1

(* A part of a whole, rounded, is not more than the whole.                 *)
LEMMA Cut ==
  ASSUME NEW r, IsRatio(r), NEW w \in Nat
  PROVE  Tiles!Rounded(r, w) \in 0 .. w
<1> DEFINE n == r[1]
           d == r[2]
           a == 2 * n * w + d
           b == 2 * d
           q == a \div b
<1>1. n \in Nat /\ d \in Nat \ {0} /\ n <= d
  BY DEF IsRatio
<1>2. Tiles!Rounded(r, w) = q
  BY DEF Tiles!Rounded
<1> HIDE DEF n, d
<1>3. n * w \in Nat /\ d * w \in Nat /\ n * w <= d * w
  BY <1>1
<1>4. a \in Nat /\ b \in Nat \ {0} /\ 2 * n * w = 2 * (n * w) /\ b * w = 2 * (d * w)
  BY <1>1, <1>3
<1>5. a < b * w + b
  BY <1>1, <1>3, <1>4
<1> HIDE DEF a, b
<1>6. q \in Int /\ b * q <= a /\ a < b * q + b
  BY <1>4, Quotient
<1> HIDE DEF q
<1>7. b * q < b * w + b /\ b * 0 < b * q + b
  BY <1>4, <1>5, <1>6
<1>8. q <= w
  BY <1>4, <1>6, <1>7, Fewer
<1>9. 0 <= q
  BY <1>4, <1>6, <1>7, Fewer
<1> QED BY <1>2, <1>6, <1>8, <1>9

LEMMA Positive ==
  ASSUME NEW a \in Int, NEW b \in Nat \ {0}, a * b >= 0
  PROVE  a >= 0
<1>1. ASSUME a < 0 PROVE FALSE
  <2>1. PICK k \in Nat : a = -1 - k
    <3>1. -1 - a \in Nat /\ a = -1 - (-1 - a)
      BY <1>1
    <3> QED BY <3>1
  <2>2. a * b = -b - k * b /\ k * b \in Nat
    BY <2>1
  <2> QED BY <2>2
<1> QED BY <1>1

(* Less than a fraction that is not more than one.                         *)
LEMMA NotMore ==
  ASSUME NEW a \in Int, NEW b \in Nat \ {0}, NEW c \in Int, NEW d \in Nat \ {0}, a * d <= c * b, c <= d
  PROVE  a <= b
<1>1. c * b <= d * b
  <2>1. PICK k \in Nat : d = c + k
    <3>1. d - c \in Nat /\ d = c + (d - c)
      OBVIOUS
    <3> QED BY <3>1
  <2>2. d * b = c * b + k * b /\ k * b \in Nat
    BY <2>1
  <2> QED BY <2>2
<1>2. d * a <= d * b + 0 /\ a * d = d * a
  BY <1>1
<1>3. d * a < d * b + d
  BY <1>1, <1>2
<1> QED BY <1>3, Fewer

(* A fraction is what it is whatever the common divisor.                   *)
LEMMA ReducedRatio ==
  ASSUME NEW r, IsRatio(r)
  PROVE  IsRatio(Tiles!Reduced(r))
<1> DEFINE a == r[1]
           b == r[2]
           S == {n \in 1 .. b : a % n = 0 /\ b % n = 0}
           c == Tiles!Max(S)
<1>1. a \in Nat /\ b \in Nat \ {0} /\ a <= b
  BY DEF IsRatio
<1>2. Tiles!Reduced(r) = <<a \div c, b \div c>>
  BY DEF Tiles!Reduced
<1> HIDE DEF a, b
<1>3. 1 \in S
  BY <1>1
<1>4. c \in S
  <2>1. S \in SUBSET Int /\ S # {} /\ b \in Int /\ \A x \in S : x <= b
    BY <1>1, <1>3
  <2> HIDE DEF S
  <2> QED BY <2>1, Greatest
<1> HIDE DEF c
<1>5. c \in Nat \ {0} /\ c <= b /\ a % c = 0 /\ b % c = 0
  BY <1>1, <1>4
<1> DEFINE k == a \div c
           l == b \div c
<1>6. a = c * k /\ b = c * l /\ k \in Int /\ l \in Int
  BY <1>1, <1>5
<1> HIDE DEF k, l
<1>7. k >= 0 /\ l >= 0
  <2>1. k * c >= 0 /\ l * c >= 0
    BY <1>1, <1>5, <1>6
  <2> QED BY <1>5, <1>6, <2>1, Positive
<1>8. l # 0
  BY <1>1, <1>5, <1>6
<1>9. k <= l
  <2>1. c * k < c * l + c
    BY <1>1, <1>5, <1>6
  <2> QED BY <1>5, <1>6, <2>1, Fewer
<1> QED BY <1>2, <1>6, <1>7, <1>8, <1>9 DEF k, l, IsRatio

-----------------------------------------------------------------------------
(* A rectangle and its halves.                                             *)
Rect == [x : Nat, y : Nat, w : Nat, h : Nat]

RectAt(x, y, w, h) == [x |-> x, y |-> y, w |-> w, h |-> h]

Covers(rect, a, b) == rect.x <= a /\ a < rect.x + rect.w /\ rect.y <= b /\ b < rect.y + rect.h

LEMMA CellsCovered ==
  ASSUME NEW rect \in Rect
  PROVE  /\ \A a, b \in Int : <<a, b>> \in Tiles!CellsOf(rect) <=> Covers(rect, a, b)
         /\ Tiles!CellsOf(rect) \subseteq Int \X Int
<1> DEFINE x == rect.x
           y == rect.y
           w == rect.w
           h == rect.h
<1>1. x \in Nat /\ y \in Nat /\ w \in Nat /\ h \in Nat
  BY DEF Rect
<1>2. Tiles!CellsOf(rect) = (x .. x + w - 1) \X (y .. y + h - 1)
  BY DEF Tiles!CellsOf
<1>3. \A a, b \in Int : Covers(rect, a, b) <=> x <= a /\ a < x + w /\ y <= b /\ b < y + h
  BY DEF Covers
<1> HIDE DEF x, y, w, h
<1>4. ASSUME NEW a \in Int, NEW b \in Int PROVE <<a, b>> \in Tiles!CellsOf(rect) <=> Covers(rect, a, b)
  <2>1. a \in x .. x + w - 1 <=> x <= a /\ a < x + w
    BY <1>1
  <2>2. b \in y .. y + h - 1 <=> y <= b /\ b < y + h
    BY <1>1
  <2> QED BY <1>2, <1>3, <2>1, <2>2
<1> QED BY <1>1, <1>2, <1>4

LEMMA WholeRect ==
  ASSUME NEW size \in Nat \X Nat
  PROVE  Tiles!Whole(size) \in Rect
BY DEF Tiles!Whole, Rect

Halvable(node) == node.split \in {"horizontal", "vertical"} /\ IsRatio(node.ratio)

LEMMA MovedRight ==
  ASSUME NEW rect \in Rect, NEW u, NEW v
  PROVE  [rect EXCEPT !.x = u, !.w = v] = RectAt(u, rect.y, v, rect.h)
<1> DEFINE a == [rect EXCEPT !.x = u]
<1>1. [rect EXCEPT !.x = u, !.w = v] = [a EXCEPT !.w = v]
  OBVIOUS
<1>2. a = RectAt(u, rect.y, rect.w, rect.h)
  BY DEF RectAt, Rect
<1> HIDE DEF a
<1>3. [a EXCEPT !.w = v] = RectAt(u, rect.y, v, rect.h)
  BY <1>2 DEF RectAt
<1> QED BY <1>1, <1>3

LEMMA MovedDown ==
  ASSUME NEW rect \in Rect, NEW u, NEW v
  PROVE  [rect EXCEPT !.y = u, !.h = v] = RectAt(rect.x, u, rect.w, v)
<1> DEFINE a == [rect EXCEPT !.y = u]
<1>1. [rect EXCEPT !.y = u, !.h = v] = [a EXCEPT !.h = v]
  OBVIOUS
<1>2. a = RectAt(rect.x, u, rect.w, rect.h)
  BY DEF RectAt, Rect
<1> HIDE DEF a
<1>3. [a EXCEPT !.h = v] = RectAt(rect.x, u, rect.w, v)
  BY <1>2 DEF RectAt
<1> QED BY <1>1, <1>3

LEMMA HalvesAre ==
  ASSUME NEW rect \in Rect, NEW node, Halvable(node)
  PROVE  \E cut \in Nat :
           /\ cut = Tiles!Rounded(node.ratio, Tiles!Extent(rect, node.split))
           /\ \/ /\ cut <= rect.w /\ node.split = "horizontal"
                 /\ Tiles!Half(rect, node, 1) = RectAt(rect.x, rect.y, cut, rect.h)
                 /\ Tiles!Half(rect, node, 2) = RectAt(rect.x + cut, rect.y, rect.w - cut, rect.h)
              \/ /\ cut <= rect.h /\ node.split = "vertical"
                 /\ Tiles!Half(rect, node, 1) = RectAt(rect.x, rect.y, rect.w, cut)
                 /\ Tiles!Half(rect, node, 2) = RectAt(rect.x, rect.y + cut, rect.w, rect.h - cut)
<1> DEFINE whole == Tiles!Extent(rect, node.split)
           cut == Tiles!Rounded(node.ratio, whole)
<1>1. /\ rect = RectAt(rect.x, rect.y, rect.w, rect.h)
      /\ rect.x \in Nat /\ rect.y \in Nat /\ rect.w \in Nat /\ rect.h \in Nat
  BY DEF Rect, RectAt
<1>2. whole = IF node.split = "horizontal" THEN rect.w ELSE rect.h
  BY DEF Tiles!Extent, Tiles!Across
<1>3. whole \in Nat
  BY <1>1, <1>2
<1> HIDE DEF whole
<1>4. cut \in 0 .. whole
  BY <1>3, Cut DEF Halvable
<1>5. CASE node.split = "horizontal"
  <2>1. Tiles!Half(rect, node, 1) = [rect EXCEPT !.w = cut]
    BY <1>5 DEF Tiles!Half, Tiles!Across, Tiles!Down, whole
  <2>2. Tiles!Half(rect, node, 2) = [rect EXCEPT !.x = rect.x + cut, !.w = rect.w - cut]
    BY <1>5, <1>1 DEF Tiles!Half, Tiles!Across, Tiles!Down, whole, Rect
  <2> HIDE DEF cut
  <2>3. [rect EXCEPT !.w = cut] = RectAt(rect.x, rect.y, cut, rect.h)
    BY DEF RectAt, Rect
  <2>4. [rect EXCEPT !.x = rect.x + cut, !.w = rect.w - cut] = RectAt(rect.x + cut, rect.y, rect.w - cut, rect.h)
    BY MovedRight
  <2> QED BY <1>2, <1>3, <1>4, <1>5, <2>1, <2>2, <2>3, <2>4 DEF cut, whole
<1>6. CASE node.split = "vertical"
  <2> DEFINE u == rect.y + cut
             v == rect.h - cut
  <2>1. Tiles!Half(rect, node, 1) = [rect EXCEPT !.h = cut]
    BY <1>6 DEF Tiles!Half, Tiles!Across, Tiles!Down, whole
  <2>2. Tiles!Half(rect, node, 2) = [rect EXCEPT !.y = u, !.h = v]
    BY <1>6, <1>1 DEF Tiles!Half, Tiles!Across, Tiles!Down, whole, Rect
  <2> HIDE DEF cut, u, v
  <2>3. [rect EXCEPT !.h = cut] = RectAt(rect.x, rect.y, rect.w, cut)
    BY DEF RectAt, Rect
  <2>6. [rect EXCEPT !.y = u, !.h = v] = RectAt(rect.x, u, rect.w, v)
    BY MovedDown
  <2>4. Tiles!Half(rect, node, 2) = RectAt(rect.x, u, rect.w, v)
    BY <2>2, <2>6
  <2>5. Tiles!Half(rect, node, 2) = RectAt(rect.x, rect.y + cut, rect.w, rect.h - cut)
    BY <2>4 DEF u, v
  <2> QED BY <1>2, <1>3, <1>4, <1>6, <2>1, <2>3, <2>5 DEF cut, whole
<1> QED BY <1>5, <1>6 DEF Halvable

(* The halves are rectangles, and share the cells of the whole.            *)
LEMMA HalvesShare ==
  ASSUME NEW rect \in Rect, NEW node, Halvable(node)
  PROVE  /\ Tiles!Half(rect, node, 1) \in Rect /\ Tiles!Half(rect, node, 2) \in Rect
         /\ \A a, b \in Int :
              /\ Covers(rect, a, b) <=> Covers(Tiles!Half(rect, node, 1), a, b) \/ Covers(Tiles!Half(rect, node, 2), a, b)
              /\ ~(Covers(Tiles!Half(rect, node, 1), a, b) /\ Covers(Tiles!Half(rect, node, 2), a, b))
<1> DEFINE one == Tiles!Half(rect, node, 1)
           two == Tiles!Half(rect, node, 2)
           x == rect.x
           y == rect.y
           w == rect.w
           h == rect.h
<1>1. x \in Nat /\ y \in Nat /\ w \in Nat /\ h \in Nat
  BY DEF Rect
<1>2. PICK cut \in Nat :
        \/ cut <= w /\ one = RectAt(x, y, cut, h) /\ two = RectAt(x + cut, y, w - cut, h)
        \/ cut <= h /\ one = RectAt(x, y, w, cut) /\ two = RectAt(x, y + cut, w, h - cut)
  BY HalvesAre
<1>3. \A a, b \in Int : Covers(rect, a, b) <=> x <= a /\ a < x + w /\ y <= b /\ b < y + h
  BY DEF Covers
<1> HIDE DEF one, two, x, y, w, h
<1>4. ASSUME NEW p, NEW q, NEW u, NEW v
      PROVE  /\ p \in Nat /\ q \in Nat /\ u \in Nat /\ v \in Nat => RectAt(p, q, u, v) \in Rect
             /\ \A a, b : Covers(RectAt(p, q, u, v), a, b) <=> p <= a /\ a < p + u /\ q <= b /\ b < q + v
  BY DEF RectAt, Rect, Covers
<1>5. CASE cut <= w /\ one = RectAt(x, y, cut, h) /\ two = RectAt(x + cut, y, w - cut, h)
  <2>1. x + cut \in Nat /\ w - cut \in Nat
    BY <1>1, <1>5
  <2>2. one \in Rect /\ two \in Rect
    BY <1>1, <1>4, <1>5, <2>1
  <2>3. ASSUME NEW a \in Int, NEW b \in Int
        PROVE  /\ Covers(rect, a, b) <=> Covers(one, a, b) \/ Covers(two, a, b)
               /\ ~(Covers(one, a, b) /\ Covers(two, a, b))
    <3>1. Covers(one, a, b) <=> x <= a /\ a < x + cut /\ y <= b /\ b < y + h
      BY <1>4, <1>5
    <3>2. Covers(two, a, b) <=> x + cut <= a /\ a < (x + cut) + (w - cut) /\ y <= b /\ b < y + h
      BY <1>4, <1>5
    <3> QED BY <1>1, <1>3, <1>5, <3>1, <3>2
  <2> QED BY <2>2, <2>3 DEF one, two
<1>6. CASE cut <= h /\ one = RectAt(x, y, w, cut) /\ two = RectAt(x, y + cut, w, h - cut)
  <2>1. y + cut \in Nat /\ h - cut \in Nat
    BY <1>1, <1>6
  <2>2. one \in Rect /\ two \in Rect
    BY <1>1, <1>4, <1>6, <2>1
  <2>3. ASSUME NEW a \in Int, NEW b \in Int
        PROVE  /\ Covers(rect, a, b) <=> Covers(one, a, b) \/ Covers(two, a, b)
               /\ ~(Covers(one, a, b) /\ Covers(two, a, b))
    <3>1. Covers(one, a, b) <=> x <= a /\ a < x + w /\ y <= b /\ b < y + cut
      BY <1>4, <1>6
    <3>2. Covers(two, a, b) <=> x <= a /\ a < x + w /\ y + cut <= b /\ b < (y + cut) + (h - cut)
      BY <1>4, <1>6
    <3> QED BY <1>1, <1>3, <1>6, <3>1, <3>2
  <2> QED BY <2>2, <2>3 DEF one, two
<1> QED BY <1>2, <1>5, <1>6

-----------------------------------------------------------------------------
(* Paths.                                                                  *)
Paths == Seq({1, 2})

LEMMA PathParts ==
  ASSUME NEW a \in Paths, a # <<>>
  PROVE  /\ Front(a) \in Paths /\ Len(Front(a)) = Len(a) - 1 /\ Last(a) \in {1, 2}
         /\ a = Append(Front(a), Last(a)) /\ Len(a) \in Nat /\ Len(a) > 0
<1>1. Len(a) \in Nat /\ Len(a) > 0 /\ \A i \in 1 .. Len(a) : a[i] \in {1, 2}
  BY DEF Paths
<1> DEFINE n == Len(a) - 1
           front == SubSeq(a, 1, n)
<1>2. n \in Nat /\ n + 1 = Len(a) /\ n <= Len(a)
  BY <1>1
<1> HIDE DEF n
<1>3. front \in Paths /\ Len(front) = n /\ \A i \in 1 .. n : front[i] = a[i]
  BY <1>1, <1>2, SubSeqProperties DEF Paths
<1> HIDE DEF front
<1>4. a = Append(front, a[Len(a)])
  <2>1. /\ Append(front, a[Len(a)]) \in Seq({1, 2}) /\ Len(Append(front, a[Len(a)])) = Len(a)
        /\ \A i \in 1 .. n : Append(front, a[Len(a)])[i] = front[i]
        /\ Append(front, a[Len(a)])[n + 1] = a[Len(a)]
    BY <1>1, <1>2, <1>3, AppendProperties DEF Paths
  <2>2. \A i \in 1 .. Len(a) : a[i] = Append(front, a[Len(a)])[i]
    BY <1>1, <1>2, <1>3, <2>1
  <2> QED BY <2>1, <2>2, SeqEqual DEF Paths
<1>5. Front(a) = front /\ Last(a) = a[Len(a)] /\ Len(front) = Len(a) - 1
  BY <1>2, <1>3 DEF front, n, Front, Last
<1>6. a[Len(a)] \in {1, 2}
  BY <1>1
<1>7. Front(a) \in Paths /\ Last(a) \in {1, 2} /\ a = Append(Front(a), Last(a))
  BY <1>3, <1>4, <1>5, <1>6
<1> QED BY <1>1, <1>5, <1>7

LEMMA PathGrown ==
  ASSUME NEW a \in Paths, NEW k \in {1, 2}
  PROVE  /\ Append(a, k) \in Paths /\ Append(a, k) # <<>> /\ Len(Append(a, k)) = Len(a) + 1 /\ Len(a) \in Nat
         /\ Front(Append(a, k)) = a /\ Last(Append(a, k)) = k
<1>1. Len(a) \in Nat /\ Append(a, k) \in Paths /\ Len(Append(a, k)) = Len(a) + 1 /\ Append(a, k)[Len(a) + 1] = k
  BY DEF Paths
<1>2. SubSeq(Append(a, k), 1, Len(a)) = a
  BY DEF Paths
<1> QED BY <1>1, <1>2 DEF Front, Last

-----------------------------------------------------------------------------
(* Trees of paths: well-formed ones, of nodes with a number for a pane.    *)
NodeOf(n) == \E p \in Nat : \E s, r : n = [pane |-> p, split |-> s, ratio |-> r]

TileTree(t) ==
  WellFormed(t) /\ IsFiniteSet(DOMAIN t) /\ \A a \in DOMAIN t : NodeOf(t[a])

LEMMA TreeParts ==
  ASSUME NEW t, TileTree(t)
  PROVE  /\ <<>> \in DOMAIN t /\ DOMAIN t \subseteq Paths
         /\ \A a \in DOMAIN t :
              /\ t[a].pane \in Nat
              /\ a # <<>> => /\ Front(a) \in DOMAIN t /\ t[Front(a)].pane = 0
                             /\ a = Append(Front(a), Last(a)) /\ Last(a) \in {1, 2}
                             /\ Len(a) \in Nat /\ Len(a) > 0 /\ Len(Front(a)) = Len(a) - 1
              /\ t[a].pane = 0 => /\ Append(a, 1) \in DOMAIN t /\ Append(a, 2) \in DOMAIN t
                                  /\ Halvable(t[a])
              /\ \A b \in DOMAIN t : t[a].pane # 0 /\ t[a].pane = t[b].pane => a = b
<1>1. <<>> \in DOMAIN t /\ DOMAIN t \subseteq Paths
  BY DEF TileTree, WellFormed, Paths
<1>2. ASSUME NEW a \in DOMAIN t PROVE t[a].pane \in Nat
  BY DEF TileTree, NodeOf
<1>3. ASSUME NEW a \in DOMAIN t, a # <<>>
      PROVE  /\ Front(a) \in DOMAIN t /\ t[Front(a)].pane = 0
             /\ a = Append(Front(a), Last(a)) /\ Last(a) \in {1, 2}
             /\ Len(a) \in Nat /\ Len(a) > 0 /\ Len(Front(a)) = Len(a) - 1
  <2>1. Front(a) \in DOMAIN t /\ t[Front(a)].pane = 0
    BY <1>3 DEF TileTree, WellFormed
  <2>2. a \in Paths
    BY <1>1
  <2> QED BY <1>3, <2>1, <2>2, PathParts
<1>4. ASSUME NEW a \in DOMAIN t, t[a].pane = 0
      PROVE  Append(a, 1) \in DOMAIN t /\ Append(a, 2) \in DOMAIN t /\ Halvable(t[a])
  BY <1>4 DEF TileTree, WellFormed, Halvable, IsRatio
<1>5. ASSUME NEW a \in DOMAIN t, NEW b \in DOMAIN t, t[a].pane # 0, t[a].pane = t[b].pane PROVE a = b
  BY <1>5 DEF TileTree, WellFormed
<1> QED BY <1>1, <1>2, <1>3, <1>4, <1>5

LEMMA Depth ==
  ASSUME NEW t, TileTree(t)
  PROVE  \E m \in Nat : \A a \in DOMAIN t : Len(a) \in 0 .. m
<1> DEFINE f == [a \in DOMAIN t |-> Len(a)]
<1>1. \A a \in DOMAIN t : Len(a) \in Nat /\ f[a] = Len(a)
  BY TreeParts DEF Paths
<1>2. IsFiniteSet(DOMAIN t)
  BY DEF TileTree
<1>3. PICK m \in Nat : \A a \in DOMAIN t : f[a] <= m
  <2>1. \A a \in DOMAIN t : f[a] \in Nat
    BY <1>1
  <2> HIDE DEF f
  <2> QED BY <1>2, <2>1, FiniteBounded
<1> QED BY <1>1, <1>3

(* The rectangle of the whole, or a half of the one above.                 *)
PlacedBy(t, total, f) ==
  f = [a \in DOMAIN t |-> IF a = <<>> THEN total ELSE Tiles!Half(f[Front(a)], t[Front(a)], Last(a))]

LEMMA PlacedThere ==
  ASSUME NEW t, TileTree(t), NEW total
  PROVE  \E f : PlacedBy(t, total, f)
<1>0. PICK m \in Nat : \A a \in DOMAIN t : Len(a) \in 0 .. m
  BY Depth
<1> DEFINE D == DOMAIN t
           Of(f, a) == IF a = <<>> THEN total ELSE Tiles!Half(f[Front(a)], t[Front(a)], Last(a))
           Upto(n, f) == \A a \in D : Len(a) <= n => f[a] = Of(f, a)
           T == {n \in Nat : \E f : Upto(n, f)}
<1>1. 0 \in T
  <2> DEFINE f == [a \in D |-> total]
  <2>1. Upto(0, f)
    <3> SUFFICES ASSUME NEW a \in D, Len(a) <= 0 PROVE f[a] = Of(f, a)
      OBVIOUS
    <3>1. a = <<>>
      BY TreeParts
    <3> QED BY <3>1
  <2> QED BY <2>1
<1>2. ASSUME NEW n \in T PROVE n + 1 \in T
  <2>1. PICK f : Upto(n, f)
    OBVIOUS
  <2> DEFINE g == [a \in D |-> IF Len(a) <= n THEN f[a] ELSE Of(f, a)]
  <2>2. Upto(n + 1, g)
    <3> SUFFICES ASSUME NEW a \in D, Len(a) <= n + 1 PROVE g[a] = Of(g, a)
      OBVIOUS
    <3>1. g[a] = Of(f, a)
      BY <2>1
    <3>2. CASE a = <<>>
      BY <3>1, <3>2
    <3>3. CASE a # <<>>
      <4>1. Front(a) \in D /\ Len(Front(a)) = Len(a) - 1 /\ Len(a) \in Nat
        BY <3>3, TreeParts
      <4>2. Len(Front(a)) <= n
        BY <4>1
      <4>3. g[Front(a)] = f[Front(a)]
        BY <4>1, <4>2
      <4> HIDE DEF g
      <4> QED BY <3>1, <3>3, <4>3
    <3> QED BY <3>2, <3>3
  <2> HIDE DEF Upto, g
  <2> QED BY <2>2
<1>3. m \in T
  <2> HIDE DEF T
  <2>1. T \in SUBSET Nat
    BY DEF T
  <2> QED BY <1>1, <1>2, <2>1, SetInduction
<1>4. PICK f : Upto(m, f)
  BY <1>3
<1> DEFINE g == [a \in D |-> Of(f, a)]
<1>5. \A a \in D : f[a] = Of(f, a) /\ g[a] = f[a]
  BY <1>0, <1>4
<1>6. ASSUME NEW a \in D PROVE Of(f, a) = Of(g, a)
  <2>1. CASE a # <<>>
    <3>1. g[Front(a)] = f[Front(a)]
      BY <1>5, <2>1, TreeParts
    <3> HIDE DEF g
    <3> QED BY <2>1, <3>1
  <2> QED BY <2>1
<1>7. g = [a \in D |-> Of(g, a)]
  <2>1. \A a \in D : g[a] = Of(g, a)
    BY <1>6
  <2>2. g = [a \in D |-> g[a]]
    OBVIOUS
  <2> HIDE DEF g, Of
  <2> QED BY <2>1, <2>2
<1> HIDE DEF g
<1> QED BY <1>7 DEF PlacedBy

LEMMA PlacedAs ==
  ASSUME NEW t, TileTree(t), NEW total
  PROVE  PlacedBy(t, total, Tiles!RectOf(t, total))
<1> DEFINE Is(f) == f = [path \in DOMAIN t |-> IF path = <<>> THEN total
                          ELSE Tiles!Half(f[Tiles!Front(path)], t[Tiles!Front(path)], Tiles!Last(path))]
           u == CHOOSE f : Is(f)
<1>1. Tiles!RectOf(t, total) = u
  BY DEF Tiles!RectOf
<1>2. \A a : Tiles!Front(a) = Front(a) /\ Tiles!Last(a) = Last(a)
  BY DEF Front, Last, Tiles!Front, Tiles!Last
<1>3. \A f : Is(f) <=> PlacedBy(t, total, f)
  BY <1>2 DEF PlacedBy
<1>4. \E f : Is(f)
  BY <1>3, PlacedThere
<1>5. Is(u)
  <2> HIDE DEF Is
  <2> QED BY <1>4
<1> HIDE DEF u, Is
<1> QED BY <1>1, <1>3, <1>5


(* The rectangle of a path lies in those above it, and those of the two    *)
(* halves share it.                                                        *)
LEMMA PlacedRects ==
  ASSUME NEW t, TileTree(t), NEW total \in Rect, NEW f, PlacedBy(t, total, f)
  PROVE  /\ f[<<>>] = total /\ \A a \in DOMAIN t : f[a] \in Rect
         /\ \A a \in DOMAIN t : t[a].pane = 0 =>
              \A i, j \in Int :
                /\ Covers(f[a], i, j) <=> Covers(f[Append(a, 1)], i, j) \/ Covers(f[Append(a, 2)], i, j)
                /\ ~(Covers(f[Append(a, 1)], i, j) /\ Covers(f[Append(a, 2)], i, j))
<1>1. f[<<>>] = total
  BY TreeParts DEF PlacedBy
<1>2. ASSUME NEW a \in DOMAIN t, t[a].pane = 0, NEW k \in {1, 2}
      PROVE  Append(a, k) \in DOMAIN t /\ f[Append(a, k)] = Tiles!Half(f[a], t[a], k)
  <2>1. Append(a, k) \in DOMAIN t /\ a \in Paths
    BY <1>2, TreeParts
  <2>2. Append(a, k) # <<>> /\ Front(Append(a, k)) = a /\ Last(Append(a, k)) = k
    BY <2>1, PathGrown
  <2> QED BY <2>1, <2>2 DEF PlacedBy
<1>3. PICK m \in Nat : \A a \in DOMAIN t : Len(a) \in 0 .. m
  BY Depth
<1> DEFINE T == {n \in Nat : \A a \in DOMAIN t : Len(a) <= n => f[a] \in Rect}
<1>4. 0 \in T
  <2>1. ASSUME NEW a \in DOMAIN t, Len(a) <= 0 PROVE f[a] \in Rect
    <3>1. a = <<>>
      BY <2>1, TreeParts
    <3> QED BY <1>1, <3>1
  <2> QED BY <2>1
<1>5. ASSUME NEW n \in T PROVE n + 1 \in T
  <2>1. ASSUME NEW a \in DOMAIN t, Len(a) <= n + 1 PROVE f[a] \in Rect
    <3>1. CASE a = <<>>
      BY <1>1, <3>1
    <3>2. CASE a # <<>>
      <4> DEFINE up == Front(a)
                 k == Last(a)
      <4>1. /\ up \in DOMAIN t /\ t[up].pane = 0 /\ a = Append(up, k) /\ k \in {1, 2}
            /\ Len(a) \in Nat /\ Len(up) = Len(a) - 1
        BY <3>2, TreeParts
      <4> HIDE DEF up, k
      <4>2. f[up] \in Rect
        <5>1. Len(up) <= n
          BY <2>1, <4>1
        <5> QED BY <4>1, <5>1
      <4>3. f[a] = Tiles!Half(f[up], t[up], k)
        BY <1>2, <4>1
      <4>4. Halvable(t[up])
        BY <4>1, TreeParts
      <4>5. Tiles!Half(f[up], t[up], 1) \in Rect /\ Tiles!Half(f[up], t[up], 2) \in Rect
        BY <4>2, <4>4, HalvesShare
      <4> QED BY <4>1, <4>3, <4>5
    <3> QED BY <3>1, <3>2
  <2> QED BY <2>1
<1>6. m \in T
  <2> HIDE DEF T
  <2>1. T \in SUBSET Nat
    BY DEF T
  <2> QED BY <1>4, <1>5, <2>1, SetInduction
<1>7. \A a \in DOMAIN t : f[a] \in Rect
  BY <1>3, <1>6
<1>8. ASSUME NEW a \in DOMAIN t, t[a].pane = 0, NEW i \in Int, NEW j \in Int
      PROVE  /\ Covers(f[a], i, j) <=> Covers(f[Append(a, 1)], i, j) \/ Covers(f[Append(a, 2)], i, j)
             /\ ~(Covers(f[Append(a, 1)], i, j) /\ Covers(f[Append(a, 2)], i, j))
  <2>1. f[Append(a, 1)] = Tiles!Half(f[a], t[a], 1) /\ f[Append(a, 2)] = Tiles!Half(f[a], t[a], 2)
    BY <1>2, <1>8
  <2>2. f[a] \in Rect /\ Halvable(t[a])
    BY <1>7, <1>8, TreeParts
  <2> DEFINE one == Tiles!Half(f[a], t[a], 1)
             two == Tiles!Half(f[a], t[a], 2)
             whole == f[a]
  <2>3. /\ Covers(whole, i, j) <=> Covers(one, i, j) \/ Covers(two, i, j)
        /\ ~(Covers(one, i, j) /\ Covers(two, i, j))
    BY <2>2, HalvesShare
  <2> QED BY <2>1, <2>3
<1> QED BY <1>1, <1>7, <1>8

(* So a cell of the whole is in one leaf, ...                              *)
LEMMA LeafThere ==
  ASSUME NEW t, TileTree(t), NEW total \in Rect, NEW f, PlacedBy(t, total, f),
         NEW i \in Int, NEW j \in Int, Covers(total, i, j)
  PROVE  \E a \in DOMAIN t : t[a].pane # 0 /\ Covers(f[a], i, j)
<1> SUFFICES ASSUME \A a \in DOMAIN t : Covers(f[a], i, j) => t[a].pane = 0 PROVE FALSE
  OBVIOUS
<1>1. PICK m \in Nat : \A a \in DOMAIN t : Len(a) \in 0 .. m
  BY Depth
<1> DEFINE T == {n \in Nat : \E a \in DOMAIN t : Len(a) = n /\ Covers(f[a], i, j)}
<1>2. 0 \in T
  <2>1. <<>> \in DOMAIN t /\ Len(<<>>) = 0 /\ f[<<>>] = total
    BY TreeParts, PlacedRects
  <2> QED BY <2>1
<1>3. ASSUME NEW n \in T PROVE n + 1 \in T
  <2>1. PICK a \in DOMAIN t : Len(a) = n /\ Covers(f[a], i, j)
    OBVIOUS
  <2>2. t[a].pane = 0
    BY <2>1
  <2>3. a \in Paths /\ Append(a, 1) \in DOMAIN t /\ Append(a, 2) \in DOMAIN t
    BY <2>2, TreeParts
  <2>4. Len(Append(a, 1)) = n + 1 /\ Len(Append(a, 2)) = n + 1
    BY <2>1, <2>3, PathGrown
  <2>5. Covers(f[Append(a, 1)], i, j) \/ Covers(f[Append(a, 2)], i, j)
    BY <2>1, <2>2, PlacedRects
  <2>6. \E p \in DOMAIN t : Len(p) = n + 1 /\ Covers(f[p], i, j)
    BY <2>3, <2>4, <2>5
  <2>7. n + 1 \in Nat
    OBVIOUS
  <2> QED BY <2>6, <2>7
<1>4. m + 1 \in T
  <2> HIDE DEF T
  <2>1. T \in SUBSET Nat
    BY DEF T
  <2> QED BY <1>2, <1>3, <2>1, SetInduction
<1> QED BY <1>1, <1>4

(* ... and in no other: of the paths of a length there is one that covers  *)
(* it, and above a path are no leaves.                                     *)
LEMMA LeafAlone ==
  ASSUME NEW t, TileTree(t), NEW total \in Rect, NEW f, PlacedBy(t, total, f),
         NEW i \in Int, NEW j \in Int,
         NEW a \in DOMAIN t, t[a].pane # 0, Covers(f[a], i, j),
         NEW b \in DOMAIN t, t[b].pane # 0, Covers(f[b], i, j)
  PROVE  a = b
<1> DEFINE On(p) == p \in DOMAIN t /\ Covers(f[p], i, j)
<1>1. ASSUME NEW p, On(p), p # <<>>
      PROVE  /\ On(Front(p)) /\ t[Front(p)].pane = 0 /\ p = Append(Front(p), Last(p)) /\ Last(p) \in {1, 2}
             /\ Len(p) \in Nat /\ Len(p) > 0 /\ Len(Front(p)) = Len(p) - 1
  <2> DEFINE up == Front(p)
             k == Last(p)
  <2>1. /\ up \in DOMAIN t /\ t[up].pane = 0 /\ p = Append(up, k) /\ k \in {1, 2}
        /\ Len(p) \in Nat /\ Len(p) > 0 /\ Len(up) = Len(p) - 1
    BY <1>1, TreeParts
  <2> HIDE DEF up, k
  <2>2. Covers(f[Append(up, 1)], i, j) \/ Covers(f[Append(up, 2)], i, j)
    BY <1>1, <2>1
  <2>3. Covers(f[up], i, j)
    BY <2>1, <2>2, PlacedRects
  <2> QED BY <2>1, <2>3 DEF up, k
<1>2. PICK m \in Nat : \A p \in DOMAIN t : Len(p) \in 0 .. m
  BY Depth
<1>3. ASSUME NEW n \in Nat PROVE \A p, q : On(p) /\ On(q) /\ Len(p) = n /\ Len(q) = n => p = q
  <2> DEFINE T == {x \in Nat : \A p, q : On(p) /\ On(q) /\ Len(p) = x /\ Len(q) = x => p = q}
  <2>1. 0 \in T
    <3>1. \A p : On(p) /\ Len(p) = 0 => p = <<>>
      BY <1>1
    <3> QED BY <3>1
  <2>2. ASSUME NEW x \in T PROVE x + 1 \in T
    <3> SUFFICES ASSUME NEW p, NEW q, On(p), On(q), Len(p) = x + 1, Len(q) = x + 1 PROVE p = q
      OBVIOUS
    <3>1. p # <<>> /\ q # <<>>
      OBVIOUS
    <3> DEFINE u == Front(p)
               v == Front(q)
    <3>2. /\ On(u) /\ t[u].pane = 0 /\ p = Append(u, Last(p)) /\ Last(p) \in {1, 2} /\ Len(u) = Len(p) - 1
          /\ On(v) /\ q = Append(v, Last(q)) /\ Last(q) \in {1, 2} /\ Len(v) = Len(q) - 1
      BY <1>1, <3>1
    <3> HIDE DEF u, v
    <3>3. u = v
      <4>1. Len(u) = x /\ Len(v) = x
        BY <3>2
      <4> QED BY <3>2, <4>1
    <3>4. ~(Covers(f[Append(u, 1)], i, j) /\ Covers(f[Append(u, 2)], i, j))
      BY <3>2, PlacedRects
    <3> DEFINE k == Last(p)
               l == Last(q)
    <3>6. /\ k \in {1, 2} /\ p = Append(u, k) /\ Covers(f[p], i, j)
          /\ l \in {1, 2} /\ q = Append(u, l) /\ Covers(f[q], i, j)
      BY <3>2, <3>3
    <3> HIDE DEF k, l, On
    <3>7. k = l
      <4>1. ~(k = 1 /\ l = 2) /\ ~(k = 2 /\ l = 1)
        BY <3>4, <3>6
      <4> QED BY <3>6, <4>1
    <3>5. Last(p) = Last(q)
      BY <3>7 DEF k, l
    <3> QED BY <3>2, <3>3, <3>5
  <2>3. n \in T
    <3> HIDE DEF T
    <3>1. T \in SUBSET Nat
      BY DEF T
    <3> QED BY <2>1, <2>2, <3>1, SetInduction
  <2> HIDE DEF On
  <2> QED BY <2>3
<1>4. ASSUME NEW n \in Nat, NEW k \in Nat
      PROVE  \A p : On(p) /\ Len(p) = n + k + 1 => \E q : On(q) /\ Len(q) = n /\ t[q].pane = 0
  <2> DEFINE T == {x \in Nat : \A p : On(p) /\ Len(p) = n + x + 1 => \E q : On(q) /\ Len(q) = n /\ t[q].pane = 0}
  <2>1. 0 \in T
    <3> SUFFICES ASSUME NEW p, On(p), Len(p) = n + 1
                 PROVE  \E q : On(q) /\ Len(q) = n /\ t[q].pane = 0
      OBVIOUS
    <3>1. p # <<>>
      OBVIOUS
    <3>2. On(Front(p)) /\ Len(Front(p)) = n /\ t[Front(p)].pane = 0
      BY <1>1, <3>1
    <3> HIDE DEF On
    <3> QED BY <3>2
  <2>2. ASSUME NEW x \in T PROVE x + 1 \in T
    <3> SUFFICES ASSUME NEW p, On(p), Len(p) = n + (x + 1) + 1
                 PROVE  \E q : On(q) /\ Len(q) = n /\ t[q].pane = 0
      OBVIOUS
    <3>1. p # <<>>
      OBVIOUS
    <3>2. On(Front(p)) /\ Len(Front(p)) = n + x + 1
      BY <1>1, <3>1
    <3> HIDE DEF On
    <3> QED BY <3>2
  <2>3. k \in T
    <3> HIDE DEF T
    <3>1. T \in SUBSET Nat
      BY DEF T
    <3> QED BY <2>1, <2>2, <3>1, SetInduction
  <2> HIDE DEF On
  <2> QED BY <2>3
<1>5. ASSUME NEW p, On(p), t[p].pane # 0, NEW q, On(q), t[q].pane # 0 PROVE Len(q) <= Len(p)
  <2>1. Len(p) \in Nat /\ Len(q) \in Nat
    BY <1>2, <1>5
  <2>2. ASSUME Len(q) > Len(p) PROVE FALSE
    <3> DEFINE k == Len(q) - Len(p) - 1
    <3>1. k \in Nat /\ Len(q) = Len(p) + k + 1
      BY <2>1, <2>2
    <3> HIDE DEF k
    <3>2. PICK r : On(r) /\ Len(r) = Len(p) /\ t[r].pane = 0
      BY <1>4, <1>5, <2>1, <3>1
    <3>3. r = p
      BY <1>3, <1>5, <2>1, <3>2
    <3> QED BY <1>5, <3>2, <3>3
  <2> QED BY <2>1, <2>2
<1>6. On(a) /\ On(b)
  OBVIOUS
<1> HIDE DEF On
<1>7. Len(a) <= Len(b) /\ Len(b) <= Len(a)
  BY <1>5, <1>6
<1>8. Len(a) \in Nat /\ Len(b) \in Nat
  BY <1>2
<1>9. Len(a) = Len(b)
  BY <1>7, <1>8
<1> QED BY <1>3, <1>6, <1>8, <1>9


LEMMA WithinWhole ==
  ASSUME NEW t, TileTree(t), NEW total \in Rect, NEW f, PlacedBy(t, total, f),
         NEW i \in Int, NEW j \in Int, NEW a \in DOMAIN t, Covers(f[a], i, j)
  PROVE  Covers(total, i, j)
<1> DEFINE On(p) == p \in DOMAIN t /\ Covers(f[p], i, j)
           T == {n \in Nat : \A p : On(p) /\ Len(p) = n => Covers(total, i, j)}
<1>1. 0 \in T
  <2>1. ASSUME NEW p, On(p), Len(p) = 0 PROVE Covers(total, i, j)
    <3>1. p = <<>>
      BY <2>1, TreeParts
    <3> QED BY <2>1, <3>1, PlacedRects
  <2> QED BY <2>1
<1>2. ASSUME NEW n \in T PROVE n + 1 \in T
  <2>1. ASSUME NEW p, On(p), Len(p) = n + 1 PROVE Covers(total, i, j)
    <3> DEFINE up == Front(p)
               k == Last(p)
    <3>1. p # <<>>
      BY <2>1
    <3>2. /\ up \in DOMAIN t /\ t[up].pane = 0 /\ p = Append(up, k) /\ k \in {1, 2} /\ Len(up) = Len(p) - 1
      BY <2>1, <3>1, TreeParts
    <3> HIDE DEF up, k
    <3>3. Covers(f[Append(up, 1)], i, j) \/ Covers(f[Append(up, 2)], i, j)
      BY <2>1, <3>2
    <3>4. Covers(f[up], i, j)
      BY <3>2, <3>3, PlacedRects
    <3>5. Len(up) = n
      BY <2>1, <3>2
    <3> QED BY <3>2, <3>4, <3>5
  <2>2. n + 1 \in Nat
    OBVIOUS
  <2> HIDE DEF On
  <2> QED BY <2>1, <2>2
<1>3. Len(a) \in T
  <2> HIDE DEF T
  <2>1. T \in SUBSET Nat /\ Len(a) \in Nat
    BY Depth DEF T
  <2> QED BY <1>1, <1>2, <2>1, SetInduction
<1> QED BY <1>3

LEMMA PanesAt ==
  ASSUME NEW t, TileTree(t)
  PROVE  /\ \A p \in Tiles!PanesIn(t) : /\ p \in Nat \ {0} /\ Tiles!PathOf(t, p) \in DOMAIN t
                                        /\ t[Tiles!PathOf(t, p)].pane = p
         /\ \A a \in DOMAIN t : t[a].pane # 0 =>
              t[a].pane \in Tiles!PanesIn(t) /\ Tiles!PathOf(t, t[a].pane) = a
<1>1. ASSUME NEW p \in Tiles!PanesIn(t)
      PROVE  p \in Nat \ {0} /\ Tiles!PathOf(t, p) \in DOMAIN t /\ t[Tiles!PathOf(t, p)].pane = p
  <2>1. PICK a \in DOMAIN t : t[a].pane = p /\ p # 0
    BY DEF Tiles!PanesIn
  <2>2. Tiles!PathOf(t, p) \in DOMAIN t /\ t[Tiles!PathOf(t, p)].pane = p
    BY <2>1 DEF Tiles!PathOf
  <2>3. t[a].pane \in Nat
    BY TreeParts
  <2> QED BY <2>1, <2>2, <2>3
<1>2. ASSUME NEW a \in DOMAIN t, t[a].pane # 0
      PROVE  t[a].pane \in Tiles!PanesIn(t) /\ Tiles!PathOf(t, t[a].pane) = a
  <2>1. t[a].pane \in Tiles!PanesIn(t)
    BY <1>2 DEF Tiles!PanesIn
  <2>2. Tiles!PathOf(t, t[a].pane) \in DOMAIN t /\ t[Tiles!PathOf(t, t[a].pane)].pane = t[a].pane
    BY <1>1, <2>1
  <2> QED BY <1>2, <2>1, <2>2, TreeParts
<1> QED BY <1>1, <1>2

(* Whatever the tree and its size.                                         *)
LEMMA TreeTiled ==
  ASSUME NEW t, TileTree(t), NEW size \in Nat \X Nat
  PROVE  LET rects == Tiles!Rects(t, 0, size)
             cells == Tiles!CellsOf(Tiles!Whole(size))
         IN  /\ \A p \in DOMAIN rects : Tiles!CellsOf(rects[p]) \subseteq cells
             /\ \A cell \in cells : Cardinality({p \in DOMAIN rects : cell \in Tiles!CellsOf(rects[p])}) = 1
<1> DEFINE rects == Tiles!Rects(t, 0, size)
           total == Tiles!Whole(size)
           f == Tiles!RectOf(t, total)
<1>1. total \in Rect /\ PlacedBy(t, total, f)
  BY WholeRect, PlacedAs
<1>2. rects = [p \in Tiles!PanesIn(t) |-> f[Tiles!PathOf(t, p)]]
  BY DEF Tiles!Rects
<1> HIDE DEF total, f, rects
<1>3. /\ DOMAIN rects = Tiles!PanesIn(t)
      /\ \A p \in DOMAIN rects : /\ Tiles!PathOf(t, p) \in DOMAIN t /\ rects[p] = f[Tiles!PathOf(t, p)]
                                /\ t[Tiles!PathOf(t, p)].pane = p /\ p # 0
      /\ \A a \in DOMAIN t : t[a].pane # 0 => t[a].pane \in DOMAIN rects /\ rects[t[a].pane] = f[a]
  BY <1>2, PanesAt
<1>4. \A p \in DOMAIN rects : rects[p] \in Rect
  BY <1>1, <1>3, PlacedRects
<1>5. ASSUME NEW p \in DOMAIN rects PROVE Tiles!CellsOf(rects[p]) \subseteq Tiles!CellsOf(total)
  <2> SUFFICES ASSUME NEW cell \in Tiles!CellsOf(rects[p]) PROVE cell \in Tiles!CellsOf(total)
    OBVIOUS
  <2>1. PICK i \in Int, j \in Int : cell = <<i, j>>
    BY <1>4, CellsCovered
  <2>2. Covers(rects[p], i, j)
    BY <1>4, <2>1, CellsCovered
  <2>3. Covers(total, i, j)
    BY <1>1, <1>3, <2>2, WithinWhole
  <2> QED BY <1>1, <2>1, <2>3, CellsCovered
<1>6. ASSUME NEW cell \in Tiles!CellsOf(total)
      PROVE  Cardinality({p \in DOMAIN rects : cell \in Tiles!CellsOf(rects[p])}) = 1
  <2>1. PICK i \in Int, j \in Int : cell = <<i, j>>
    BY <1>1, CellsCovered
  <2>2. Covers(total, i, j)
    BY <1>1, <2>1, CellsCovered
  <2>3. PICK a \in DOMAIN t : t[a].pane # 0 /\ Covers(f[a], i, j)
    BY <1>1, <2>2, LeafThere
  <2> DEFINE q == t[a].pane
  <2>4. q \in DOMAIN rects /\ cell \in Tiles!CellsOf(rects[q])
    <3>1. q \in DOMAIN rects /\ rects[q] = f[a]
      BY <1>3, <2>3
    <3>2. rects[q] \in Rect
      BY <1>4, <3>1
    <3> QED BY <2>1, <2>3, <3>1, <3>2, CellsCovered
  <2>5. ASSUME NEW p \in DOMAIN rects, cell \in Tiles!CellsOf(rects[p]) PROVE p = q
    <3> DEFINE b == Tiles!PathOf(t, p)
    <3>1. b \in DOMAIN t /\ t[b].pane = p /\ p # 0 /\ rects[p] = f[b]
      BY <1>3
    <3>2. rects[p] \in Rect
      BY <1>4
    <3> HIDE DEF b
    <3>3. Covers(f[b], i, j)
      BY <2>1, <2>5, <3>1, <3>2, CellsCovered
    <3>4. a = b
      BY <1>1, <2>3, <3>1, <3>3, LeafAlone
    <3> QED BY <3>1, <3>4
  <2> HIDE DEF q
  <2>6. {p \in DOMAIN rects : cell \in Tiles!CellsOf(rects[p])} = {q}
    BY <2>4, <2>5
  <2> QED BY <2>6, FS_Singleton
<1> QED BY <1>5, <1>6 DEF rects, total


LEMMA RectsFine ==
  ASSUME NEW t, TileTree(t), NEW z, NEW size \in Nat \X Nat
  PROVE  /\ DOMAIN Tiles!Rects(t, z, size) = IF z # 0 THEN {z} ELSE Tiles!PanesIn(t)
         /\ \A p \in DOMAIN Tiles!Rects(t, z, size) : Tiles!Rects(t, z, size)[p] \in Rect
<1> DEFINE total == Tiles!Whole(size)
           f == Tiles!RectOf(t, total)
<1>1. total \in Rect /\ PlacedBy(t, total, f)
  BY WholeRect, PlacedAs
<1>2. Tiles!Rects(t, z, size) = IF z # 0 THEN [p \in {z} |-> total] ELSE [p \in Tiles!PanesIn(t) |-> f[Tiles!PathOf(t, p)]]
  BY DEF Tiles!Rects
<1> HIDE DEF total, f
<1>3. \A p \in Tiles!PanesIn(t) : f[Tiles!PathOf(t, p)] \in Rect
  BY <1>1, PanesAt, PlacedRects
<1> QED BY <1>1, <1>2, <1>3

-----------------------------------------------------------------------------
(* The least extent of what is below a path.                               *)
LEMMA MinDimNat ==
  ASSUME NEW t, TileTree(t), NEW orient
  PROVE  \A a \in DOMAIN t : Tiles!MinDim(t, orient)[a] \in Nat
<1>0. PICK m \in Nat : \A a \in DOMAIN t : Len(a) \in 0 .. m
  BY Depth
<1> DEFINE D == DOMAIN t
           Of(f, a) == CASE t[a].pane # 0 -> IF orient = Tiles!Across THEN 2 ELSE 1
                         [] t[a].pane = 0 /\ t[a].split = orient -> f[Append(a, 1)] + f[Append(a, 2)]
                         [] OTHER -> Tiles!Max({f[Append(a, 1)], f[Append(a, 2)]})
           From(n, f) == \A a \in D : Len(a) + n > m => f[a] = Of(f, a)
           T == {n \in Nat : \E f : From(n, f)}
           Is(f) == f = [a \in D |-> Of(f, a)]
           u == CHOOSE f : Is(f)
<1>1. ASSUME NEW a \in D, t[a].pane = 0
      PROVE  /\ Append(a, 1) \in D /\ Append(a, 2) \in D /\ Len(a) \in Nat
             /\ Len(Append(a, 1)) = Len(a) + 1 /\ Len(Append(a, 2)) = Len(a) + 1
  <2>1. a \in Paths /\ Append(a, 1) \in D /\ Append(a, 2) \in D
    BY <1>1, TreeParts
  <2> QED BY <2>1, PathGrown
<1>2. ASSUME NEW a \in D, NEW f, NEW g, t[a].pane = 0 => f[Append(a, 1)] = g[Append(a, 1)] /\ f[Append(a, 2)] = g[Append(a, 2)]
      PROVE  Of(f, a) = Of(g, a)
  <2>1. CASE t[a].pane = 0
    BY <1>2, <2>1
  <2>2. CASE t[a].pane # 0
    BY <2>2
  <2> QED BY <2>1, <2>2
<1>3. ASSUME NEW a \in D, NEW f, t[a].pane = 0 => f[Append(a, 1)] \in Nat /\ f[Append(a, 2)] \in Nat
      PROVE  Of(f, a) \in Nat
  <2>1. CASE t[a].pane # 0
    BY <2>1
  <2>2. CASE t[a].pane = 0 /\ t[a].split = orient
    BY <1>3, <2>2
  <2>3. CASE t[a].pane = 0 /\ t[a].split # orient
    <3> DEFINE one == f[Append(a, 1)]
               two == f[Append(a, 2)]
    <3>1. one \in Nat /\ two \in Nat /\ Of(f, a) = Tiles!Max({one, two})
      BY <1>3, <2>3
    <3> HIDE DEF one, two
    <3>2. Tiles!Max({one, two}) \in {one, two}
      BY <3>1, GreaterOfTwo
    <3> QED BY <3>1, <3>2
  <2> QED BY <2>1, <2>2, <2>3
<1> HIDE DEF Of
<1>4. 0 \in T
  <2>1. \A a \in D : ~(Len(a) + 0 > m)
    BY <1>0
  <2> QED BY <2>1
<1>5. ASSUME NEW n \in T PROVE n + 1 \in T
  <2>1. PICK f : From(n, f)
    OBVIOUS
  <2> DEFINE g == [a \in D |-> IF Len(a) + n > m THEN f[a] ELSE Of(f, a)]
  <2>2. ASSUME NEW a \in D, Len(a) + (n + 1) > m PROVE g[a] = Of(g, a)
    <3>1. g[a] = Of(f, a)
      BY <2>1
    <3>2. t[a].pane = 0 => f[Append(a, 1)] = g[Append(a, 1)] /\ f[Append(a, 2)] = g[Append(a, 2)]
      <4> SUFFICES ASSUME t[a].pane = 0 PROVE f[Append(a, 1)] = g[Append(a, 1)] /\ f[Append(a, 2)] = g[Append(a, 2)]
        OBVIOUS
      <4>1. /\ Append(a, 1) \in D /\ Append(a, 2) \in D
            /\ Len(Append(a, 1)) + n > m /\ Len(Append(a, 2)) + n > m
        BY <1>1, <2>2
      <4> QED BY <4>1
    <3> HIDE DEF g
    <3> QED BY <1>2, <3>1, <3>2
  <2>3. n + 1 \in Nat
    OBVIOUS
  <2> HIDE DEF g
  <2> QED BY <2>2, <2>3
<1>6. m + 1 \in T
  <2> HIDE DEF T
  <2>1. T \in SUBSET Nat
    BY DEF T
  <2> QED BY <1>4, <1>5, <2>1, SetInduction
<1>7. \E f : Is(f)
  <2>1. PICK f : From(m + 1, f)
    BY <1>6
  <2> DEFINE g == [a \in D |-> Of(f, a)]
  <2>2. \A a \in D : f[a] = Of(f, a) /\ g[a] = f[a]
    BY <1>0, <2>1
  <2> HIDE DEF g
  <2>3. ASSUME NEW a \in D PROVE Of(f, a) = Of(g, a)
    BY <1>1, <1>2, <2>2
  <2>4. Is(g)
    BY <2>3 DEF g
  <2> HIDE DEF Is
  <2> QED BY <2>4
<1>8. Is(u)
  <2> HIDE DEF Is
  <2> QED BY <1>7
<1>9. Tiles!MinDim(t, orient) = u
  BY DEF Tiles!MinDim, Of
<1> HIDE DEF u
<1> DEFINE S == {n \in Nat : \A a \in D : Len(a) + n > m => u[a] \in Nat}
<1>10. 0 \in S
  BY <1>0
<1>11. ASSUME NEW n \in S PROVE n + 1 \in S
  <2>1. ASSUME NEW a \in D, Len(a) + (n + 1) > m PROVE u[a] \in Nat
    <3>1. u[a] = Of(u, a)
      BY <1>8
    <3>2. t[a].pane = 0 => u[Append(a, 1)] \in Nat /\ u[Append(a, 2)] \in Nat
      <4> SUFFICES ASSUME t[a].pane = 0 PROVE u[Append(a, 1)] \in Nat /\ u[Append(a, 2)] \in Nat
        OBVIOUS
      <4>1. /\ Append(a, 1) \in D /\ Append(a, 2) \in D
            /\ Len(Append(a, 1)) + n > m /\ Len(Append(a, 2)) + n > m
        BY <1>1, <2>1
      <4> QED BY <4>1
    <3> QED BY <1>3, <3>1, <3>2
  <2>2. n + 1 \in Nat
    OBVIOUS
  <2> QED BY <2>1, <2>2
<1>12. m + 1 \in S
  <2> HIDE DEF S
  <2>1. S \in SUBSET Nat
    BY DEF S
  <2> QED BY <1>10, <1>11, <2>1, SetInduction
<1>13. \A a \in D : u[a] \in Nat
  BY <1>0, <1>12
<1> QED BY <1>9, <1>13


-----------------------------------------------------------------------------
(* Other splits and ratios at the same paths.                              *)
LEMMA SameShape ==
  ASSUME NEW t, TileTree(t), NEW u, DOMAIN u = DOMAIN t,
         \A a \in DOMAIN t : /\ NodeOf(u[a]) /\ u[a].pane = t[a].pane
                             /\ t[a].pane = 0 => Halvable(u[a])
  PROVE  TileTree(u) /\ Tiles!PanesIn(u) = Tiles!PanesIn(t)
<1>1. WellFormed(u)
  <2>1. <<>> \in DOMAIN u /\ DOMAIN u \subseteq Seq({1, 2})
    BY DEF TileTree, WellFormed
  <2>2. ASSUME NEW a \in DOMAIN u
        PROVE  /\ a # <<>> => Front(a) \in DOMAIN u /\ u[Front(a)].pane = 0
               /\ u[a].pane = 0 =>
                    /\ Append(a, 1) \in DOMAIN u /\ Append(a, 2) \in DOMAIN u
                    /\ u[a].split \in {"horizontal", "vertical"}
                    /\ u[a].ratio \in Nat \X (Nat \ {0}) /\ u[a].ratio[1] <= u[a].ratio[2]
               /\ u[a].pane # 0 => \A b \in DOMAIN u : u[b].pane = u[a].pane => b = a
    <3>1. a # <<>> => Front(a) \in DOMAIN u /\ u[Front(a)].pane = 0
      BY TreeParts
    <3>2. u[a].pane = 0 => Append(a, 1) \in DOMAIN u /\ Append(a, 2) \in DOMAIN u /\ Halvable(u[a])
      BY TreeParts
    <3>3. u[a].pane # 0 => \A b \in DOMAIN u : u[b].pane = u[a].pane => b = a
      BY TreeParts
    <3> QED BY <3>1, <3>2, <3>3 DEF Halvable, IsRatio
  <2> QED BY <2>1, <2>2 DEF WellFormed
<1>2. TileTree(u)
  BY <1>1 DEF TileTree
<1>3. Tiles!PanesIn(u) = Tiles!PanesIn(t)
  BY DEF Tiles!PanesIn
<1> QED BY <1>2, <1>3

LEMMA RatioNode ==
  ASSUME NEW n, NodeOf(n), NEW x, NEW v, v = [n EXCEPT !.ratio = x]
  PROVE  NodeOf(v) /\ v.pane = n.pane /\ v.ratio = x /\ v.split = n.split
<1>1. PICK p \in Nat : \E s, r : n = [pane |-> p, split |-> s, ratio |-> r]
  BY DEF NodeOf
<1>2. PICK s, r : n = [pane |-> p, split |-> s, ratio |-> r]
  BY <1>1
<1>3. v = [pane |-> p, split |-> s, ratio |-> x]
  BY <1>2
<1>4. NodeOf(v)
  BY <1>3 DEF NodeOf
<1>5. v.pane = n.pane /\ v.ratio = x /\ v.split = n.split
  BY <1>2, <1>3
<1> QED BY <1>4, <1>5

LEMMA SplitNode ==
  ASSUME NEW n, NodeOf(n), NEW x, NEW v, v = [n EXCEPT !.split = x]
  PROVE  NodeOf(v) /\ v.pane = n.pane /\ v.split = x /\ v.ratio = n.ratio
<1>1. PICK p \in Nat : \E s, r : n = [pane |-> p, split |-> s, ratio |-> r]
  BY DEF NodeOf
<1>2. PICK s, r : n = [pane |-> p, split |-> s, ratio |-> r]
  BY <1>1
<1>3. v = [pane |-> p, split |-> x, ratio |-> r]
  BY <1>2
<1>4. NodeOf(v)
  BY <1>3 DEF NodeOf
<1>5. v.pane = n.pane /\ v.split = x /\ v.ratio = n.ratio
  BY <1>2, <1>3
<1> QED BY <1>4, <1>5

LEMMA RatioSet ==
  ASSUME NEW t, TileTree(t), NEW s, NEW r, s \in DOMAIN t /\ t[s].pane = 0 => IsRatio(r)
  PROVE  TileTree([t EXCEPT ![s].ratio = r]) /\ Tiles!PanesIn([t EXCEPT ![s].ratio = r]) = Tiles!PanesIn(t)
<1> DEFINE u == [t EXCEPT ![s].ratio = r]
<1>1. DOMAIN u = DOMAIN t
  OBVIOUS
<1>2. \A a \in DOMAIN t : u[a] = IF a = s THEN [t[a] EXCEPT !.ratio = r] ELSE t[a]
  OBVIOUS
<1> HIDE DEF u
<1>3. ASSUME NEW a \in DOMAIN t
      PROVE  NodeOf(u[a]) /\ u[a].pane = t[a].pane /\ (t[a].pane = 0 => Halvable(u[a]))
  <2>1. NodeOf(t[a]) /\ (t[a].pane = 0 => Halvable(t[a]))
    BY TreeParts DEF TileTree
  <2> DEFINE n == t[a]
  <2>4. NodeOf(n)
    BY <2>1
  <2> HIDE DEF n
  <2>2. CASE a = s
    <3>1. u[a] = [n EXCEPT !.ratio = r]
      BY <1>2, <2>2 DEF n
    <3>2. NodeOf(u[a]) /\ u[a].pane = n.pane /\ u[a].split = n.split /\ u[a].ratio = r
      BY <2>4, <3>1, RatioNode
    <3> QED BY <2>1, <2>2, <3>2 DEF n, Halvable
  <2>3. CASE a # s
    BY <1>2, <2>1, <2>3
  <2> QED BY <2>2, <2>3
<1>4. TileTree(u) /\ Tiles!PanesIn(u) = Tiles!PanesIn(t)
  BY <1>1, <1>3, SameShape
<1> QED BY <1>4 DEF u

LEMMA SplitTurned ==
  ASSUME NEW t, TileTree(t), NEW s \in DOMAIN t
  PROVE  /\ TileTree([t EXCEPT ![s].split = Tiles!Other(@)])
         /\ Tiles!PanesIn([t EXCEPT ![s].split = Tiles!Other(@)]) = Tiles!PanesIn(t)
<1> DEFINE to == Tiles!Other(t[s].split)
           u == [t EXCEPT ![s].split = Tiles!Other(@)]
<1>1. DOMAIN u = DOMAIN t
  OBVIOUS
<1>2. \A a \in DOMAIN t : u[a] = IF a = s THEN [t[a] EXCEPT !.split = to] ELSE t[a]
  OBVIOUS
<1>0. to \in {"horizontal", "vertical"}
  BY DEF Tiles!Other, Tiles!Across, Tiles!Down
<1> HIDE DEF u, to
<1>3. ASSUME NEW a \in DOMAIN t
      PROVE  NodeOf(u[a]) /\ u[a].pane = t[a].pane /\ (t[a].pane = 0 => Halvable(u[a]))
  <2>1. NodeOf(t[a]) /\ (t[a].pane = 0 => Halvable(t[a]))
    BY TreeParts DEF TileTree
  <2> DEFINE n == t[a]
  <2>4. NodeOf(n)
    BY <2>1
  <2> HIDE DEF n
  <2>2. CASE a = s
    <3>1. u[a] = [n EXCEPT !.split = to]
      BY <1>2, <2>2 DEF n
    <3>2. NodeOf(u[a]) /\ u[a].pane = n.pane /\ u[a].split = to /\ u[a].ratio = n.ratio
      BY <2>4, <3>1, SplitNode
    <3> QED BY <1>0, <2>1, <2>2, <3>2 DEF n, Halvable
  <2>3. CASE a # s
    BY <1>2, <2>1, <2>3
  <2> QED BY <2>2, <2>3
<1>4. TileTree(u) /\ Tiles!PanesIn(u) = Tiles!PanesIn(t)
  BY <1>1, <1>3, SameShape
<1> QED BY <1>4 DEF u

LEMMA HalfIsRatio == IsRatio(<<1, 2>>)
BY DEF IsRatio

LEMMA AllSet ==
  ASSUME NEW t, TileTree(t), NEW half, IsRatio(half), NEW u, DOMAIN u = DOMAIN t,
         \A a \in DOMAIN t : u[a] = IF t[a].pane = 0 THEN [t[a] EXCEPT !.ratio = half] ELSE t[a]
  PROVE  TileTree(u) /\ Tiles!PanesIn(u) = Tiles!PanesIn(t)
<1>1. ASSUME NEW a \in DOMAIN t
      PROVE  NodeOf(u[a]) /\ u[a].pane = t[a].pane /\ (t[a].pane = 0 => Halvable(u[a]))
  <2>1. NodeOf(t[a]) /\ (t[a].pane = 0 => Halvable(t[a]))
    BY TreeParts DEF TileTree
  <2> DEFINE n == t[a]
  <2>4. NodeOf(n)
    BY <2>1
  <2> HIDE DEF n
  <2>2. CASE t[a].pane = 0
    <3>1. u[a] = [n EXCEPT !.ratio = half]
      BY <2>2 DEF n
    <3>2. NodeOf(u[a]) /\ u[a].pane = n.pane /\ u[a].split = n.split /\ u[a].ratio = half
      BY <2>4, <3>1, RatioNode
    <3> QED BY <2>1, <2>2, <3>2 DEF n, Halvable
  <2>3. CASE t[a].pane # 0
    BY <2>1, <2>3
  <2> QED BY <2>2, <2>3
<1> QED BY <1>1, SameShape

LEMMA AllEven ==
  ASSUME NEW t, TileTree(t), NEW u,
         u = [a \in DOMAIN t |-> IF t[a].pane = 0 THEN [t[a] EXCEPT !.ratio = <<1, 2>>] ELSE t[a]]
  PROVE  TileTree(u) /\ Tiles!PanesIn(u) = Tiles!PanesIn(t)
<1> DEFINE half == <<1, 2>>
<1>1. /\ DOMAIN u = DOMAIN t
      /\ \A a \in DOMAIN t : u[a] = IF t[a].pane = 0 THEN [t[a] EXCEPT !.ratio = half] ELSE t[a]
  OBVIOUS
<1>2. IsRatio(half)
  BY HalfIsRatio
<1> HIDE DEF half
<1> QED BY <1>1, <1>2, AllSet

(* What a ratio is kept between leaves it one.                             *)
LEMMA Kept ==
  ASSUME NEW a \in Int \X (Nat \ {0}), NEW lo \in Nat \X (Nat \ {0}), NEW hi \in Int \X (Nat \ {0}),
         hi[1] <= hi[2], Tiles!AtMost(lo, hi)
  PROVE  IsRatio(Tiles!Smaller(Tiles!Greater(a, lo), hi))
<1> DEFINE a1 == a[1]
           a2 == a[2]
           l1 == lo[1]
           l2 == lo[2]
           h1 == hi[1]
           h2 == hi[2]
           x == Tiles!Greater(a, lo)
<1>1. /\ a = <<a1, a2>> /\ a1 \in Int /\ a2 \in Nat \ {0}
      /\ lo = <<l1, l2>> /\ l1 \in Nat /\ l2 \in Nat \ {0}
      /\ hi = <<h1, h2>> /\ h1 \in Int /\ h2 \in Nat \ {0} /\ h1 <= h2
  OBVIOUS
<1>2. l1 * h2 <= h1 * l2
  BY DEF Tiles!AtMost
<1>3. x = IF a1 * l2 <= l1 * a2 THEN lo ELSE a
  BY DEF Tiles!Greater, Tiles!AtMost
<1> HIDE DEF a1, a2, l1, l2, h1, h2, x
<1>4. h1 >= 0
  <2>1. l1 * h2 >= 0 /\ h1 * l2 \in Int /\ l1 * h2 \in Int
    BY <1>1
  <2>2. h1 * l2 >= 0
    BY <1>2, <2>1
  <2> QED BY <1>1, <2>2, Positive
<1>5. PICK x1 \in Nat, x2 \in Nat \ {0} : x = <<x1, x2>>
  <2>1. CASE a1 * l2 <= l1 * a2
    BY <1>1, <1>3, <2>1
  <2>2. CASE ~(a1 * l2 <= l1 * a2)
    <3>1. l1 * a2 >= 0 /\ l1 * a2 \in Int /\ a1 * l2 \in Int
      BY <1>1
    <3>2. a1 * l2 >= 0
      BY <2>2, <3>1
    <3>3. a1 >= 0
      BY <1>1, <3>2, Positive
    <3> QED BY <1>1, <1>3, <2>2, <3>3
  <2> QED BY <2>1, <2>2
<1>6. Tiles!Smaller(x, hi) = IF x1 * h2 <= h1 * x2 THEN x ELSE hi
  BY <1>1, <1>5 DEF Tiles!Smaller, Tiles!AtMost
<1>7. CASE x1 * h2 <= h1 * x2
  <2>1. x1 <= x2
    BY <1>1, <1>5, <1>7, NotMore
  <2> QED BY <1>5, <1>6, <1>7, <2>1 DEF x, IsRatio
<1>8. CASE ~(x1 * h2 <= h1 * x2)
  <2>1. IsRatio(hi)
    BY <1>1, <1>4 DEF IsRatio
  <2> QED BY <1>6, <1>8, <2>1 DEF x
<1> QED BY <1>7, <1>8


LEMMA ResizedTree ==
  ASSUME NEW t, TileTree(t), NEW p, NEW orient, NEW growing, NEW cells \in Int, NEW size \in Nat \X Nat
  PROVE  /\ TileTree(Tiles!Resized(t, p, orient, growing, cells, size))
         /\ Tiles!PanesIn(Tiles!Resized(t, p, orient, growing, cells, size)) = Tiles!PanesIn(t)
<1> DEFINE above == Tiles!SplitsAbove(t, p, orient)
           split == Tiles!Lowest(above)
           whole == Tiles!Extent(Tiles!RectOf(t, Tiles!Whole(size))[split], orient)
           delta == IF Tiles!InFirst(t, p, split) = growing THEN <<cells, whole>> ELSE <<-cells, whole>>
           lo == Tiles!Lo(t, split, whole)
           hi == Tiles!Hi(t, split, whole)
           ratio == Tiles!Reduced(Tiles!Smaller(Tiles!Greater(Tiles!Plus(t[split].ratio, delta), lo), hi))
           u == Tiles!Resized(t, p, orient, growing, cells, size)
<1>1. u = IF above = {} \/ (above # {} /\ (whole = 0 \/ (whole # 0 /\ ~Tiles!AtMost(lo, hi)))) THEN t
          ELSE [t EXCEPT ![split].ratio = ratio]
  BY DEF Tiles!Resized
<1>2. split \in DOMAIN t => whole \in Nat
  <2> DEFINE rect == Tiles!RectOf(t, Tiles!Whole(size))[split]
  <2>1. Tiles!Whole(size) \in Rect /\ PlacedBy(t, Tiles!Whole(size), Tiles!RectOf(t, Tiles!Whole(size)))
    BY WholeRect, PlacedAs
  <2>2. split \in DOMAIN t => rect \in Rect
    BY <2>1, PlacedRects
  <2>3. whole = IF orient = Tiles!Across THEN rect.w ELSE rect.h
    BY DEF Tiles!Extent
  <2> HIDE DEF rect, whole
  <2> QED BY <2>2, <2>3 DEF Rect
<1> HIDE DEF whole, split
<1>3. ASSUME split \in DOMAIN t, t[split].pane = 0, whole # 0, Tiles!AtMost(lo, hi)
      PROVE  IsRatio(ratio)
  <2>1. whole \in Nat \ {0}
    BY <1>2, <1>3
  <2> DEFINE d == IF Tiles!InFirst(t, p, split) = growing THEN cells ELSE -cells
             r == t[split].ratio
             one == Tiles!MinDim(t, t[split].split)[Append(split, 1)]
             two == Tiles!MinDim(t, t[split].split)[Append(split, 2)]
  <2>2. d \in Int /\ delta = <<d, whole>>
    OBVIOUS
  <2>3. r \in Nat \X (Nat \ {0})
    BY <1>3, TreeParts DEF Halvable, IsRatio
  <2>4. one \in Nat /\ two \in Nat
    BY <1>3, TreeParts, MinDimNat
  <2>5. lo = Tiles!Greater(<<one, whole>>, <<1, 10>>) /\ hi = Tiles!Smaller(<<whole - two, whole>>, <<9, 10>>)
    BY DEF Tiles!Lo, Tiles!Hi
  <2> HIDE DEF d, r, one, two, delta, lo, hi
  <2>6. Tiles!Plus(r, delta) \in Int \X (Nat \ {0})
    <3>1. Tiles!Plus(r, delta) = <<r[1] * whole + d * r[2], r[2] * whole>>
      BY <2>2 DEF Tiles!Plus
    <3>2. r[1] \in Nat /\ r[2] \in Nat \ {0}
      BY <2>3
    <3>3. r[1] * whole + d * r[2] \in Int /\ r[2] * whole \in Nat \ {0}
      BY <2>1, <2>2, <3>2
    <3> QED BY <3>1, <3>3
  <2>7. lo \in Nat \X (Nat \ {0})
    <3>1. lo \in {<<one, whole>>, <<1, 10>>}
      BY <2>5 DEF Tiles!Greater
    <3> QED BY <2>1, <2>4, <3>1
  <2>8. hi \in Int \X (Nat \ {0}) /\ hi[1] <= hi[2]
    <3>1. hi \in {<<whole - two, whole>>, <<9, 10>>}
      BY <2>5 DEF Tiles!Smaller
    <3>2. whole - two \in Int /\ whole - two <= whole
      BY <2>1, <2>4
    <3> QED BY <2>1, <3>1, <3>2
  <2>9. IsRatio(Tiles!Smaller(Tiles!Greater(Tiles!Plus(r, delta), lo), hi))
    BY <1>3, <2>6, <2>7, <2>8, Kept
  <2>10. IsRatio(Tiles!Reduced(Tiles!Smaller(Tiles!Greater(Tiles!Plus(r, delta), lo), hi)))
    BY <2>9, ReducedRatio
  <2> QED BY <2>10 DEF r
<1> HIDE DEF ratio, lo, hi, above, u
<1>4. CASE u = t
  BY <1>4 DEF u
<1>5. CASE u # t
  <2>1. whole # 0 /\ Tiles!AtMost(lo, hi) /\ u = [t EXCEPT ![split].ratio = ratio]
    BY <1>1, <1>5
  <2>2. split \in DOMAIN t /\ t[split].pane = 0 => IsRatio(ratio)
    BY <1>3, <2>1
  <2>3. TileTree(u) /\ Tiles!PanesIn(u) = Tiles!PanesIn(t)
    BY <2>1, <2>2, RatioSet
  <2> QED BY <2>3 DEF u
<1> QED BY <1>4, <1>5

LEMMA PaneNode ==
  ASSUME NEW n, NodeOf(n), NEW x \in Nat, NEW v, v = [n EXCEPT !.pane = x]
  PROVE  NodeOf(v) /\ v.pane = x /\ v.split = n.split /\ v.ratio = n.ratio
<1>1. PICK p \in Nat : \E s, r : n = [pane |-> p, split |-> s, ratio |-> r]
  BY DEF NodeOf
<1>2. PICK s, r : n = [pane |-> p, split |-> s, ratio |-> r]
  BY <1>1
<1>3. v = [pane |-> x, split |-> s, ratio |-> r]
  BY <1>2
<1>4. NodeOf(v)
  BY <1>3 DEF NodeOf
<1>5. v.pane = x /\ v.split = n.split /\ v.ratio = n.ratio
  BY <1>2, <1>3
<1> QED BY <1>4, <1>5

(* Two panes in each other's place.                                        *)
LEMMA NodesTraded ==
  ASSUME NEW t, TileTree(t), NEW a \in DOMAIN t, NEW b \in DOMAIN t, a # b, NEW p \in Nat, NEW q \in Nat
  PROVE  \A u : u = [t EXCEPT ![a].pane = q, ![b].pane = p] =>
           /\ DOMAIN u = DOMAIN t
           /\ \A x \in DOMAIN t : /\ NodeOf(u[x]) /\ u[x].split = t[x].split /\ u[x].ratio = t[x].ratio
                                 /\ u[x].pane = IF x = a THEN q ELSE IF x = b THEN p ELSE t[x].pane
<1> SUFFICES ASSUME NEW u, u = [t EXCEPT ![a].pane = q, ![b].pane = p]
             PROVE  /\ DOMAIN u = DOMAIN t
                    /\ \A x \in DOMAIN t :
                         /\ NodeOf(u[x]) /\ u[x].split = t[x].split /\ u[x].ratio = t[x].ratio
                         /\ u[x].pane = IF x = a THEN q ELSE IF x = b THEN p ELSE t[x].pane
  OBVIOUS
<1> DEFINE v == [t EXCEPT ![a].pane = q]
<1>1. DOMAIN u = DOMAIN t /\ u = [v EXCEPT ![b].pane = p]
  OBVIOUS
<1>2. DOMAIN v = DOMAIN t /\ \A x \in DOMAIN t : v[x] = IF x = a THEN [t[x] EXCEPT !.pane = q] ELSE t[x]
  OBVIOUS
<1> HIDE DEF v
<1>3. \A x \in DOMAIN t : u[x] = IF x = b THEN [v[x] EXCEPT !.pane = p] ELSE v[x]
  BY <1>1, <1>2
<1>4. \A x \in DOMAIN t : NodeOf(t[x])
  BY DEF TileTree
<1>5. ASSUME NEW x \in DOMAIN t
      PROVE  /\ NodeOf(u[x]) /\ u[x].split = t[x].split /\ u[x].ratio = t[x].ratio
             /\ u[x].pane = IF x = a THEN q ELSE IF x = b THEN p ELSE t[x].pane
  <2> DEFINE n == t[x]
             w == u[x]
  <2>1. NodeOf(n)
    BY <1>4
  <2>2. CASE x = a
    <3>1. w = [n EXCEPT !.pane = q]
      BY <1>2, <1>3, <2>2
    <3> HIDE DEF n, w
    <3>2. NodeOf(w) /\ w.pane = q /\ w.split = n.split /\ w.ratio = n.ratio
      BY <2>1, <3>1, PaneNode
    <3> QED BY <2>2, <3>2 DEF n, w
  <2>3. CASE x = b
    <3>1. w = [n EXCEPT !.pane = p]
      BY <1>2, <1>3, <2>3
    <3> HIDE DEF n, w
    <3>2. NodeOf(w) /\ w.pane = p /\ w.split = n.split /\ w.ratio = n.ratio
      BY <2>1, <3>1, PaneNode
    <3> QED BY <2>3, <3>2 DEF n, w
  <2>4. CASE x # a /\ x # b
    <3>1. w = n
      BY <1>2, <1>3, <2>4
    <3> HIDE DEF n, w
    <3>2. NodeOf(w) /\ w.pane = n.pane /\ w.split = n.split /\ w.ratio = n.ratio
      BY <2>1, <3>1
    <3> QED BY <2>4, <3>2 DEF n, w
  <2> QED BY <2>2, <2>3, <2>4
<1> QED BY <1>1, <1>5

LEMMA PanesTraded ==
  ASSUME NEW t, TileTree(t), NEW p \in Tiles!PanesIn(t), NEW q \in Tiles!PanesIn(t), p # q, NEW u,
         u = [t EXCEPT ![Tiles!PathOf(t, p)].pane = q, ![Tiles!PathOf(t, q)].pane = p]
  PROVE  TileTree(u) /\ Tiles!PanesIn(u) = Tiles!PanesIn(t)
<1> DEFINE a == Tiles!PathOf(t, p)
           b == Tiles!PathOf(t, q)
<1>1. /\ a \in DOMAIN t /\ t[a].pane = p /\ b \in DOMAIN t /\ t[b].pane = q /\ a # b
      /\ p \in Nat \ {0} /\ q \in Nat \ {0}
  BY PanesAt
<1> HIDE DEF a, b
<1>2. u = [t EXCEPT ![a].pane = q, ![b].pane = p]
  BY DEF a, b
<1>4. /\ DOMAIN u = DOMAIN t
      /\ \A x \in DOMAIN t : /\ NodeOf(u[x]) /\ u[x].split = t[x].split /\ u[x].ratio = t[x].ratio
                            /\ u[x].pane = IF x = a THEN q ELSE IF x = b THEN p ELSE t[x].pane
  BY <1>1, <1>2, NodesTraded
<1>8. WellFormed(u)
  <2>1. <<>> \in DOMAIN u /\ DOMAIN u \subseteq Seq({1, 2})
    BY <1>4 DEF TileTree, WellFormed
  <2>2. ASSUME NEW x \in DOMAIN u
        PROVE  /\ x # <<>> => Front(x) \in DOMAIN u /\ u[Front(x)].pane = 0
               /\ u[x].pane = 0 =>
                    /\ Append(x, 1) \in DOMAIN u /\ Append(x, 2) \in DOMAIN u
                    /\ u[x].split \in {"horizontal", "vertical"}
                    /\ u[x].ratio \in Nat \X (Nat \ {0}) /\ u[x].ratio[1] <= u[x].ratio[2]
               /\ u[x].pane # 0 => \A y \in DOMAIN u : u[y].pane = u[x].pane => y = x
    <3>1. \A y \in DOMAIN t : u[y].pane = 0 <=> t[y].pane = 0
      BY <1>1, <1>4
    <3>2. x # <<>> => Front(x) \in DOMAIN u /\ u[Front(x)].pane = 0
      BY <1>4, <3>1, TreeParts
    <3>3. u[x].pane = 0 => Append(x, 1) \in DOMAIN u /\ Append(x, 2) \in DOMAIN u /\ Halvable(t[x])
      BY <1>4, <3>1, TreeParts
    <3>4. u[x].pane # 0 => \A y \in DOMAIN u : u[y].pane = u[x].pane => y = x
      BY <1>1, <1>4, TreeParts
    <3>5. u[x].split = t[x].split /\ u[x].ratio = t[x].ratio
      BY <1>4
    <3> QED BY <3>2, <3>3, <3>4, <3>5 DEF Halvable, IsRatio
  <2> QED BY <2>1, <2>2 DEF WellFormed
<1>9. TileTree(u)
  BY <1>4, <1>8 DEF TileTree
<1>10. Tiles!PanesIn(u) = Tiles!PanesIn(t)
  <2>1. ASSUME NEW x \in Tiles!PanesIn(u) PROVE x \in Tiles!PanesIn(t)
    BY <1>1, <1>4 DEF Tiles!PanesIn
  <2>2. ASSUME NEW x \in Tiles!PanesIn(t) PROVE x \in Tiles!PanesIn(u)
    <3>1. PICK y \in DOMAIN t : t[y].pane = x /\ x # 0
      BY DEF Tiles!PanesIn
    <3>2. \E z \in DOMAIN u : u[z].pane = x
      <4>1. CASE y = a
        BY <1>1, <1>4, <3>1, <4>1
      <4>2. CASE y = b
        BY <1>1, <1>4, <3>1, <4>2
      <4>3. CASE y # a /\ y # b
        BY <1>1, <1>4, <3>1, <4>3
      <4> QED BY <4>1, <4>2, <4>3
    <3> QED BY <3>1, <3>2 DEF Tiles!PanesIn
  <2> QED BY <2>1, <2>2
<1> QED BY <1>9, <1>10


-----------------------------------------------------------------------------
LEMMA NodeMade ==
  ASSUME NEW p \in Nat, NEW s, NEW r, NEW n, n = [pane |-> p, split |-> s, ratio |-> r]
  PROVE  NodeOf(n) /\ n.pane = p /\ n.split = s /\ n.ratio = r
BY DEF NodeOf

(* A split where a leaf was.                                               *)
SplitFrom(t, u, at, one, two, node, leaf) ==
  /\ one = Append(at, 1) /\ two = Append(at, 2)
  /\ DOMAIN u = DOMAIN t \cup {one, two}
  /\ u[at] = node /\ u[one] = t[at] /\ u[two] = leaf
  /\ \A x \in DOMAIN t : x # at => u[x] = t[x]

LEMMA LeafSplit ==
  ASSUME NEW t, TileTree(t), NEW at \in DOMAIN t, t[at].pane # 0,
         NEW node, NodeOf(node), node.pane = 0, Halvable(node),
         NEW leaf, NodeOf(leaf), leaf.pane # 0, leaf.pane \notin Tiles!PanesIn(t),
         NEW one, NEW two, NEW u, SplitFrom(t, u, at, one, two, node, leaf)
  PROVE  TileTree(u) /\ Tiles!PanesIn(u) = Tiles!PanesIn(t) \cup {leaf.pane}
<1> DEFINE new == leaf.pane
<1>0. /\ one = Append(at, 1) /\ two = Append(at, 2) /\ DOMAIN u = DOMAIN t \cup {one, two}
      /\ u[at] = node /\ u[one] = t[at] /\ u[two] = leaf
      /\ \A x \in DOMAIN t : x # at => u[x] = t[x]
  BY DEF SplitFrom
<1>1. /\ at \in Paths /\ one \in Paths /\ two \in Paths /\ one # <<>> /\ two # <<>> /\ one # two
      /\ Front(one) = at /\ Front(two) = at
  <2>1. at \in Paths
    BY TreeParts
  <2> QED BY <1>0, <2>1, PathGrown
<1>2. one \notin DOMAIN t /\ two \notin DOMAIN t
  <2>1. ASSUME NEW x \in DOMAIN t, x # <<>>, Front(x) = at PROVE FALSE
    <3>1. t[Front(x)].pane = 0
      BY <2>1, TreeParts
    <3> QED BY <2>1, <3>1
  <2> QED BY <1>1, <2>1
<1>3. u[at].pane = 0 /\ Halvable(u[at]) /\ NodeOf(u[at])
  BY <1>0
<1>4. u[two].pane = new /\ NodeOf(u[two]) /\ new # 0 /\ new \notin Tiles!PanesIn(t)
  BY <1>0
<1> HIDE DEF new
<1>5. ASSUME NEW x \in DOMAIN t, x # at PROVE u[x] = t[x] /\ x # one /\ x # two
  BY <1>0, <1>2, <1>5
<1>6. u[one].pane = t[at].pane /\ t[at].pane \in Nat \ {0}
  BY <1>0, TreeParts
<1>7. ASSUME NEW x \in DOMAIN u PROVE NodeOf(u[x])
  <2>1. \A y \in DOMAIN t : NodeOf(t[y])
    BY DEF TileTree
  <2> QED BY <1>0, <1>3, <1>4, <1>5, <2>1
<1>8. ASSUME NEW x \in DOMAIN u, x # <<>> PROVE Front(x) \in DOMAIN u /\ u[Front(x)].pane = 0
  <2>1. CASE x \in DOMAIN t
    <3>1. Front(x) \in DOMAIN t /\ t[Front(x)].pane = 0
      BY <1>8, <2>1, TreeParts
    <3> QED BY <1>0, <1>3, <1>5, <3>1
  <2>2. CASE x \in {one, two}
    BY <1>0, <1>1, <1>3, <2>2
  <2> QED BY <1>0, <2>1, <2>2
<1>9. ASSUME NEW x \in DOMAIN u, u[x].pane = 0
      PROVE  Append(x, 1) \in DOMAIN u /\ Append(x, 2) \in DOMAIN u /\ Halvable(u[x])
  <2>1. CASE x = at
    BY <1>0, <1>3, <2>1
  <2>2. CASE x # at
    <3>1. x \in DOMAIN t /\ t[x].pane = 0 /\ u[x] = t[x]
      BY <1>0, <1>4, <1>5, <1>6, <1>9, <2>2
    <3> QED BY <1>0, <3>1, TreeParts
  <2> QED BY <2>1, <2>2
<1>10. ASSUME NEW x \in DOMAIN u, u[x].pane # 0, NEW y \in DOMAIN u, u[y].pane = u[x].pane PROVE x = y
  <2> DEFINE back(z) == IF z = one THEN at ELSE z
  <2>1. ASSUME NEW z \in DOMAIN u, u[z].pane # 0, z # two
        PROVE  back(z) \in DOMAIN t /\ u[z].pane = t[back(z)].pane /\ u[z].pane # new /\ z # at
    <3>1. back(z) \in DOMAIN t /\ u[z].pane = t[back(z)].pane /\ z # at
      BY <1>0, <1>3, <1>5, <1>6, <2>1
    <3>2. u[z].pane \in Tiles!PanesIn(t)
      BY <2>1, <3>1, PanesAt
    <3> QED BY <1>4, <3>1, <3>2
  <2>2. CASE x = two \/ y = two
    BY <1>4, <1>10, <2>1, <2>2
  <2>3. CASE x # two /\ y # two
    <3> DEFINE v == back(x)
               w == back(y)
    <3>1. /\ v \in DOMAIN t /\ u[x].pane = t[v].pane /\ x # at
          /\ w \in DOMAIN t /\ u[y].pane = t[w].pane /\ y # at
      BY <1>10, <2>1, <2>3
    <3>2. v = (IF x = one THEN at ELSE x) /\ w = (IF y = one THEN at ELSE y)
      OBVIOUS
    <3> HIDE DEF v, w, back
    <3>3. v = w
      BY <1>10, <3>1, TreeParts
    <3> QED BY <3>1, <3>2, <3>3
  <2> QED BY <2>2, <2>3
<1>11. WellFormed(u)
  <2>1. <<>> \in DOMAIN u /\ DOMAIN u \subseteq Seq({1, 2})
    BY <1>0, <1>1, TreeParts DEF Paths
  <2> QED BY <1>8, <1>9, <1>10, <2>1 DEF WellFormed, Halvable, IsRatio
<1>12. IsFiniteSet(DOMAIN u)
  <2>1. IsFiniteSet(DOMAIN t)
    BY DEF TileTree
  <2>2. IsFiniteSet(DOMAIN t \cup {one})
    BY <2>1, FS_AddElement
  <2>3. IsFiniteSet((DOMAIN t \cup {one}) \cup {two})
    BY <2>2, FS_AddElement
  <2>4. DOMAIN u = (DOMAIN t \cup {one}) \cup {two}
    BY <1>0
  <2> QED BY <2>3, <2>4
<1>13. Tiles!PanesIn(u) = Tiles!PanesIn(t) \cup {new}
  <2>1. ASSUME NEW p \in Tiles!PanesIn(u) PROVE p \in Tiles!PanesIn(t) \cup {new}
    <3>1. PICK x \in DOMAIN u : u[x].pane = p /\ p # 0
      BY DEF Tiles!PanesIn
    <3>2. x = two \/ x = one \/ (x \in DOMAIN t /\ u[x] = t[x])
      BY <1>0, <1>3, <1>5, <3>1
    <3> QED BY <1>4, <1>6, <3>1, <3>2, PanesAt
  <2>2. ASSUME NEW p \in Tiles!PanesIn(t) PROVE p \in Tiles!PanesIn(u)
    <3>1. PICK x \in DOMAIN t : t[x].pane = p /\ p # 0
      BY DEF Tiles!PanesIn
    <3>2. \E y \in DOMAIN u : u[y].pane = p
      <4>1. CASE x = at
        BY <1>0, <1>6, <3>1, <4>1
      <4>2. CASE x # at
        BY <1>0, <1>5, <3>1, <4>2
      <4> QED BY <4>1, <4>2
    <3> QED BY <3>1, <3>2 DEF Tiles!PanesIn
  <2>3. new \in Tiles!PanesIn(u)
    BY <1>0, <1>4 DEF Tiles!PanesIn
  <2> QED BY <2>1, <2>2, <2>3
<1> QED BY <1>7, <1>11, <1>12, <1>13 DEF TileTree, new

LEMMA NewNodes ==
  ASSUME NEW orient \in {"horizontal", "vertical"}, NEW new \in Nat, NEW node, NEW leaf,
         node = Tiles!SplitOf(orient, <<1, 2>>), leaf = Tiles!LeafOf(new)
  PROVE  NodeOf(node) /\ node.pane = 0 /\ Halvable(node) /\ NodeOf(leaf) /\ leaf.pane = new
<1>1. node = [pane |-> 0, split |-> orient, ratio |-> <<1, 2>>]
  BY DEF Tiles!SplitOf
<1>2. NodeOf(node)
  BY <1>1 DEF NodeOf
<1>3. node.pane = 0 /\ node.split = orient /\ node.ratio = <<1, 2>>
  BY <1>1
<1>4. Halvable(node)
  BY <1>3, HalfIsRatio DEF Halvable
<1>5. leaf = [pane |-> new, split |-> "none", ratio |-> <<0, 1>>]
  BY DEF Tiles!LeafOf
<1>6. NodeOf(leaf) /\ leaf.pane = new
  BY <1>5, NodeMade
<1> QED BY <1>2, <1>3, <1>4, <1>6

SplitOff(t, at, orient, new) ==
  [path \in DOMAIN t \cup {Append(at, 1), Append(at, 2)} |->
     CASE path = at            -> Tiles!SplitOf(orient, <<1, 2>>)
       [] path = Append(at, 1) -> t[at]
       [] path = Append(at, 2) -> Tiles!LeafOf(new)
       [] OTHER                -> t[path]]

LEMMA SplitTile ==
  ASSUME NEW t, TileTree(t), NEW p \in Tiles!PanesIn(t), NEW orient \in {"horizontal", "vertical"},
         NEW new \in Nat \ {0}, new \notin Tiles!PanesIn(t), NEW at, at = Tiles!PathOf(t, p), NEW u,
         u = SplitOff(t, at, orient, new)
  PROVE  TileTree(u) /\ Tiles!PanesIn(u) = Tiles!PanesIn(t) \cup {new}
<1> DEFINE one == Append(at, 1)
           two == Append(at, 2)
           half == <<1, 2>>
<1>1. at \in DOMAIN t /\ t[at].pane # 0
  BY PanesAt
<1>2. /\ one # <<>> /\ two # <<>> /\ Front(one) = at /\ Front(two) = at
      /\ Last(one) = 1 /\ Last(two) = 2
  <2>1. at \in Paths
    BY <1>1, TreeParts
  <2> QED BY <2>1, PathGrown
<1>3. IsRatio(half)
  BY HalfIsRatio
<1> HIDE DEF one, two, half
<1>4. u = [path \in DOMAIN t \cup {one, two} |->
             CASE path = at  -> Tiles!SplitOf(orient, half)
               [] path = one -> t[at]
               [] path = two -> Tiles!LeafOf(new)
               [] OTHER      -> t[path]]
  BY DEF one, two, half, SplitOff
<1>5. one # two /\ one \notin DOMAIN t /\ two \notin DOMAIN t
  <2>1. ASSUME NEW x \in DOMAIN t, x # <<>>, Front(x) = at PROVE FALSE
    <3>1. t[Front(x)].pane = 0
      BY <2>1, TreeParts
    <3> QED BY <1>1, <2>1, <3>1
  <2> QED BY <1>2, <2>1
<1>6. DOMAIN u = DOMAIN t \cup {one, two}
  BY <1>4
<1>7. u[at] = Tiles!SplitOf(orient, half)
  BY <1>1, <1>4, <1>5
<1>8. u[one] = t[at]
  BY <1>1, <1>4, <1>5
<1>9. u[two] = Tiles!LeafOf(new)
  BY <1>1, <1>4, <1>5
<1>10. \A x \in DOMAIN t : x # at => u[x] = t[x]
  BY <1>4, <1>5
<1>11. one = Append(at, 1) /\ two = Append(at, 2)
  BY DEF one, two
<1> DEFINE node == Tiles!SplitOf(orient, half)
           leaf == Tiles!LeafOf(new)
<1>12. SplitFrom(t, u, at, one, two, node, leaf)
  BY <1>6, <1>7, <1>8, <1>9, <1>10, <1>11 DEF SplitFrom
<1>13. node = Tiles!SplitOf(orient, <<1, 2>>)
  BY DEF half
<1>17. leaf = Tiles!LeafOf(new)
  OBVIOUS
<1> HIDE DEF node, leaf
<1>14. NodeOf(node) /\ node.pane = 0 /\ Halvable(node) /\ NodeOf(leaf) /\ leaf.pane = new
  BY <1>13, <1>17, NewNodes
<1>15. leaf.pane # 0 /\ leaf.pane \notin Tiles!PanesIn(t)
  BY <1>14
<1>16. TileTree(u) /\ Tiles!PanesIn(u) = Tiles!PanesIn(t) \cup {leaf.pane}
  BY <1>1, <1>12, <1>14, <1>15, LeafSplit
<1> QED BY <1>14, <1>16


-----------------------------------------------------------------------------
(* A sibling where its split was.                                          *)
LEMMA PathJoined ==
  ASSUME NEW a \in Paths, NEW b \in Paths
  PROVE  /\ a \o b \in Paths /\ Len(a \o b) = Len(a) + Len(b) /\ Len(a) \in Nat /\ Len(b) \in Nat
         /\ a \o <<>> = a /\ <<>> \o b = b
         /\ \A j \in {1, 2} : Append(a \o b, j) = a \o Append(b, j) /\ Append(b, j) \in Paths
         /\ \A c \in Paths : a \o b = a \o c => b = c
         /\ \A c \in Paths : (a \o b) \o c = a \o (b \o c)
<1>1. a \o b \in Paths /\ Len(a \o b) = Len(a) + Len(b) /\ Len(a) \in Nat /\ Len(b) \in Nat
  BY ConcatProperties DEF Paths
<1>2. a \o <<>> = a /\ <<>> \o b = b
  BY ConcatEmptySeq DEF Paths
<1>3. ASSUME NEW j \in {1, 2} PROVE Append(a \o b, j) = a \o Append(b, j) /\ Append(b, j) \in Paths
  <2>1. Append(a \o b, j) = (a \o b) \o <<j>> /\ Append(b, j) = b \o <<j>>
    BY <1>1, AppendIsConcat DEF Paths
  <2>2. <<j>> \in Seq({1, 2})
    OBVIOUS
  <2>3. (a \o b) \o <<j>> = a \o (b \o <<j>>)
    BY <2>2, ConcatAssociative DEF Paths
  <2>4. Append(b, j) \in Paths
    BY AppendProperties DEF Paths
  <2> QED BY <2>1, <2>3, <2>4
<1>4. \A c \in Paths : a \o b = a \o c => b = c
  BY ConcatSimplifications DEF Paths
<1>5. \A c \in Paths : (a \o b) \o c = a \o (b \o c)
  BY ConcatAssociative DEF Paths
<1> QED BY <1>1, <1>2, <1>3, <1>4, <1>5

LEMMA JoinedPath == \A a, b \in Paths : a \o b \in Paths
BY PathJoined

LEMMA JoinedNil == \A a \in Paths : a \o <<>> = a /\ <<>> \o a = a
BY PathJoined

LEMMA JoinedLen == \A a, b \in Paths : Len(a \o b) = Len(a) + Len(b) /\ Len(a) \in Nat /\ Len(b) \in Nat
BY PathJoined

LEMMA JoinedEnd ==
  \A a, b \in Paths, j \in {1, 2} : Append(a \o b, j) = a \o Append(b, j) /\ Append(b, j) \in Paths
BY PathJoined

LEMMA JoinedOnce == \A a, b, c \in Paths : a \o b = a \o c => b = c
BY ConcatSimplifications DEF Paths

LEMMA JoinedThree == \A a, b, c \in Paths : (a \o b) \o c = a \o (b \o c)
BY ConcatAssociative DEF Paths

LEMMA PathSplit ==
  ASSUME NEW a \in Paths, NEW b \in Paths, b # <<>>
  PROVE  a \o b # <<>> /\ Front(a \o b) = a \o Front(b) /\ Front(b) \in Paths /\ Last(a \o b) = Last(b)
<1> DEFINE c == Front(b)
           j == Last(b)
<1>1. c \in Paths /\ j \in {1, 2} /\ b = Append(c, j)
  BY PathParts
<1> HIDE DEF c, j
<1>2. a \o b = Append(a \o c, j) /\ a \o c \in Paths
  <2>1. a \o c \in Paths
    BY <1>1, PathJoined
  <2>2. Append(a \o c, j) = a \o Append(c, j)
    <3>1. \A i \in {1, 2} : Append(a \o c, i) = a \o Append(c, i) /\ Append(c, i) \in Paths
      BY <1>1, PathJoined
    <3> QED BY <1>1, <3>1
  <2> QED BY <1>1, <2>1, <2>2
<1>3. a \o b # <<>> /\ Front(a \o b) = a \o c /\ Last(a \o b) = j
  BY <1>1, <1>2, PathGrown
<1> QED BY <1>1, <1>3 DEF c, j

LEMMA PrefixIs ==
  ASSUME NEW a \in Paths, NEW x \in Paths
  PROVE  /\ Tiles!IsPrefix(a, x) <=> \E r \in Paths : x = a \o r
         /\ \A r \in Paths : x = a \o r => SubSeq(x, Len(a) + 1, Len(x)) = r
<1> DEFINE n == Len(a)
           m == Len(x)
<1>1. n \in Nat /\ m \in Nat
  BY DEF Paths
<1>2. ASSUME NEW r \in Paths, x = a \o r
      PROVE  SubSeq(x, n + 1, m) = r /\ SubSeq(x, 1, n) = a /\ n <= m
  <2>1. Len(r) \in Nat /\ m = n + Len(r)
    BY <1>2, PathJoined
  <2>2. \A i \in 1 .. m : x[i] \in {1, 2}
    BY DEF Paths
  <2>3. \A i \in 1 .. (n + Len(r)) : x[i] = IF i <= n THEN a[i] ELSE r[i - n]
    BY <1>2, ConcatProperties DEF Paths
  <2> HIDE DEF n, m
  <2>4. SubSeq(x, 1, n) = a
    <3>1. /\ SubSeq(x, 1, n) \in Seq({1, 2}) /\ Len(SubSeq(x, 1, n)) = n
          /\ \A i \in 1 .. n : SubSeq(x, 1, n)[i] = x[i]
      <4>1. \A i \in 1 .. n : x[i] \in {1, 2}
        BY <1>1, <2>1, <2>2
      <4>2. n - 1 + 1 = n /\ (1 <= n \/ n = 0) /\ \A i \in 1 .. n : 1 + i - 1 = i
        BY <1>1
      <4> QED BY <1>1, <4>1, <4>2, SubSeqProperties
    <3>2. \A i \in 1 .. n : SubSeq(x, 1, n)[i] = a[i]
      BY <1>1, <2>1, <2>3, <3>1
    <3> QED BY <3>1, <3>2, SeqEqual DEF Paths, n
  <2>5. SubSeq(x, n + 1, m) = r
    <3> DEFINE y == SubSeq(x, n + 1, m)
    <3>1. y \in Seq({1, 2}) /\ Len(y) = Len(r) /\ \A i \in 1 .. Len(r) : y[i] = x[n + i]
      <4>1. \A i \in n + 1 .. m : x[i] \in {1, 2}
        BY <1>1, <2>2
      <4>2. n + 1 \in Int /\ m \in Int /\ m - (n + 1) + 1 = Len(r)
        BY <1>1, <2>1
      <4>3. /\ y \in Seq({1, 2}) /\ Len(y) = (IF n + 1 <= m THEN m - (n + 1) + 1 ELSE 0)
            /\ \A i \in 1 .. m - (n + 1) + 1 : y[i] = x[n + 1 + i - 1]
        BY <4>1, <4>2, SubSeqProperties
      <4> HIDE DEF y
      <4>4. Len(y) = Len(r)
        BY <1>1, <2>1, <4>3
      <4>5. \A i \in 1 .. Len(r) : n + 1 + i - 1 = n + i
        BY <1>1, <2>1
      <4> QED BY <4>2, <4>3, <4>4, <4>5
    <3> HIDE DEF y
    <3>2. \A i \in 1 .. Len(r) : y[i] = r[i]
      <4> SUFFICES ASSUME NEW i \in 1 .. Len(r) PROVE y[i] = r[i]
        OBVIOUS
      <4> DEFINE k == n + i
      <4>1. k \in 1 .. (n + Len(r)) /\ ~(k <= n) /\ k - n = i
        BY <1>1, <2>1
      <4>2. y[i] = x[k]
        BY <3>1
      <4> HIDE DEF k
      <4>3. x[k] = r[k - n]
        BY <2>3, <4>1
      <4> QED BY <4>1, <4>2, <4>3
    <3>3. y = r
      BY <3>1, <3>2, SeqEqual DEF Paths
    <3> QED BY <3>3 DEF y
  <2> QED BY <1>1, <2>1, <2>4, <2>5
<1>3. ASSUME Tiles!IsPrefix(a, x) PROVE \E r \in Paths : x = a \o r
  <2>1. n <= m /\ SubSeq(a, 1, n) = SubSeq(x, 1, n)
    BY <1>3 DEF Tiles!IsPrefix
  <2>2. SubSeq(a, 1, n) = a
    BY SubSeqFull DEF Paths
  <2>3. SubSeq(x, 1, m) = x
    BY SubSeqFull DEF Paths
  <2> DEFINE r == SubSeq(x, n + 1, m)
  <2>4. SubSeq(x, 1, n) \o r = SubSeq(x, 1, m)
    <3>1. 1 \in 1 .. m + 1 /\ n \in 1 - 1 .. m /\ m \in n .. m
      BY <1>1, <2>1
    <3> QED BY <3>1, ConcatAdjacentSubSeq DEF Paths
  <2>5. r \in Paths
    <3>1. \A i \in n + 1 .. m : x[i] \in {1, 2}
      BY <1>1 DEF Paths
    <3> QED BY <1>1, <3>1, SubSeqProperties DEF Paths
  <2> HIDE DEF r
  <2> QED BY <2>1, <2>2, <2>3, <2>4, <2>5
<1>4. ASSUME NEW r \in Paths, x = a \o r PROVE Tiles!IsPrefix(a, x)
  <2>1. SubSeq(a, 1, n) = a
    BY SubSeqFull DEF Paths
  <2> QED BY <1>2, <1>4, <2>1 DEF Tiles!IsPrefix
<1> QED BY <1>2, <1>3, <1>4


(* Below a leaf is nothing.                                                *)
LEMMA BelowSplit ==
  ASSUME NEW t, TileTree(t), NEW a \in Paths, NEW r \in Paths, r # <<>>, a \o r \in DOMAIN t
  PROVE  a \in DOMAIN t /\ t[a].pane = 0
<1> DEFINE T == {n \in Nat : \A x \in Paths : Len(x) = n + 1 /\ a \o x \in DOMAIN t => a \in DOMAIN t /\ t[a].pane = 0}
<1>1. ASSUME NEW x \in Paths, x # <<>>, a \o x \in DOMAIN t
      PROVE  a \o Front(x) \in DOMAIN t /\ t[a \o Front(x)].pane = 0 /\ Front(x) \in Paths
  <2>1. a \o x # <<>> /\ Front(a \o x) = a \o Front(x) /\ Front(x) \in Paths
    BY <1>1, PathSplit
  <2>2. Front(a \o x) \in DOMAIN t /\ t[Front(a \o x)].pane = 0
    BY <1>1, <2>1, TreeParts
  <2> QED BY <2>1, <2>2
<1>2. 0 \in T
  <2>1. ASSUME NEW x \in Paths, Len(x) = 0 + 1, a \o x \in DOMAIN t PROVE a \in DOMAIN t /\ t[a].pane = 0
    <3>1. x # <<>>
      BY <2>1
    <3>2. Front(x) \in Paths /\ Len(Front(x)) = 0
      BY <2>1, <3>1, PathParts
    <3>3. Front(x) = <<>>
      BY <3>2 DEF Paths
    <3>4. a \o Front(x) = a
      BY <3>3, PathJoined
    <3> QED BY <1>1, <2>1, <3>1, <3>4
  <2> QED BY <2>1
<1>3. ASSUME NEW n \in T PROVE n + 1 \in T
  <2>1. ASSUME NEW x \in Paths, Len(x) = (n + 1) + 1, a \o x \in DOMAIN t PROVE a \in DOMAIN t /\ t[a].pane = 0
    <3>1. x # <<>>
      BY <2>1
    <3>2. Front(x) \in Paths /\ Len(Front(x)) = n + 1
      BY <2>1, <3>1, PathParts
    <3>3. a \o Front(x) \in DOMAIN t
      BY <1>1, <2>1, <3>1
    <3> QED BY <3>2, <3>3
  <2>2. n + 1 \in Nat
    OBVIOUS
  <2> QED BY <2>1, <2>2
<1>4. PICK n \in Nat : Len(r) = n + 1
  <2>1. Len(r) \in Nat /\ Len(r) > 0
    BY PathParts
  <2>2. Len(r) - 1 \in Nat /\ Len(r) = (Len(r) - 1) + 1
    BY <2>1
  <2> QED BY <2>2
<1>5. n \in T
  <2> HIDE DEF T
  <2>1. T \in SUBSET Nat
    BY DEF T
  <2> QED BY <1>2, <1>3, <2>1, SetInduction
<1> QED BY <1>4, <1>5

(* A tree after a close: what was below kept is below up.                  *)
ClosedUp(t, up, kept) ==
  LET from(path) == IF Tiles!IsPrefix(up, path) THEN kept \o SubSeq(path, Len(up) + 1, Len(path)) ELSE path
      moved == {up \o SubSeq(path, Len(kept) + 1, Len(path)) : path \in {q \in DOMAIN t : Tiles!IsPrefix(kept, q)}}
  IN  [path \in moved \cup {q \in DOMAIN t : ~Tiles!IsPrefix(up, q)} |-> t[from(path)]]

Beneath(up, x) == \E r \in Paths : x = up \o r
MovedFrom(t, up, kept, x) == \E r \in Paths : x = up \o r /\ kept \o r \in DOMAIN t

LEMMA ClosedUpIs ==
  ASSUME NEW t, TileTree(t), NEW up \in Paths, NEW kept \in Paths, NEW u, u = ClosedUp(t, up, kept)
  PROVE  /\ \A x \in DOMAIN u : MovedFrom(t, up, kept, x) \/ (x \in DOMAIN t /\ ~Beneath(up, x))
         /\ \A r \in Paths : kept \o r \in DOMAIN t => up \o r \in DOMAIN u /\ u[up \o r] = t[kept \o r]
         /\ \A x \in DOMAIN t : ~Beneath(up, x) => x \in DOMAIN u /\ u[x] = t[x]
<1> DEFINE from(path) == IF Tiles!IsPrefix(up, path) THEN kept \o SubSeq(path, Len(up) + 1, Len(path)) ELSE path
           below == {q \in DOMAIN t : Tiles!IsPrefix(kept, q)}
           to(path) == up \o SubSeq(path, Len(kept) + 1, Len(path))
           moved == {to(path) : path \in below}
           rest == {q \in DOMAIN t : ~Tiles!IsPrefix(up, q)}
<1>1. u = [path \in moved \cup rest |-> t[from(path)]]
  BY DEF ClosedUp
<1>2. \A x \in Paths : Tiles!IsPrefix(up, x) <=> \E r \in Paths : x = up \o r
  BY PrefixIs
<1>3. \A r \in Paths : up \o r \in Paths /\ SubSeq(up \o r, Len(up) + 1, Len(up \o r)) = r
  <2> SUFFICES ASSUME NEW r \in Paths
               PROVE  up \o r \in Paths /\ SubSeq(up \o r, Len(up) + 1, Len(up \o r)) = r
    OBVIOUS
  <2>1. up \o r \in Paths
    BY PathJoined
  <2> QED BY <2>1, PrefixIs
<1>4. \A r \in Paths : from(up \o r) = kept \o r
  BY <1>2, <1>3
<1>5. ASSUME NEW x PROVE x \in moved <=> \E r \in Paths : x = up \o r /\ kept \o r \in DOMAIN t
  <2>1. ASSUME NEW r \in Paths, x = up \o r, kept \o r \in DOMAIN t PROVE x \in moved
    <3> DEFINE y == kept \o r
    <3>1. y \in Paths
      BY PathJoined
    <3>2. Tiles!IsPrefix(kept, y) /\ SubSeq(y, Len(kept) + 1, Len(y)) = r
      BY <3>1, PrefixIs
    <3>3. y \in below /\ to(y) = x
      BY <2>1, <3>2
    <3> HIDE DEF below, to, y
    <3> QED BY <3>3
  <2>2. ASSUME x \in moved PROVE \E r \in Paths : x = up \o r /\ kept \o r \in DOMAIN t
    <3>1. PICK y \in below : x = to(y)
      BY <2>2
    <3>2. y \in Paths /\ y \in DOMAIN t /\ Tiles!IsPrefix(kept, y)
      BY TreeParts
    <3>3. PICK r \in Paths : y = kept \o r
      BY <3>2, PrefixIs
    <3>4. SubSeq(y, Len(kept) + 1, Len(y)) = r
      BY <3>2, <3>3, PrefixIs
    <3> QED BY <3>1, <3>2, <3>3, <3>4
  <2> HIDE DEF moved
  <2> QED BY <2>1, <2>2
<1>6. \A x : x \in rest <=> x \in DOMAIN t /\ \A r \in Paths : x # up \o r
  <2>1. \A x \in DOMAIN t : x \in Paths
    BY TreeParts
  <2> QED BY <1>2, <2>1
<1>7. \A x \in rest : from(x) = x
  OBVIOUS
<1> HIDE DEF from, moved, rest
<1>8. DOMAIN u = moved \cup rest /\ \A x \in moved \cup rest : u[x] = t[from(x)]
  BY <1>1
<1>9. ASSUME NEW r \in Paths, kept \o r \in DOMAIN t
      PROVE  up \o r \in DOMAIN u /\ u[up \o r] = t[kept \o r]
  <2>1. up \o r \in moved
    BY <1>5, <1>9
  <2> QED BY <1>4, <1>8, <2>1
<1>10. ASSUME NEW x \in DOMAIN t, ~Beneath(up, x) PROVE x \in DOMAIN u /\ u[x] = t[x]
  <2>1. x \in rest
    BY <1>6, <1>10 DEF Beneath
  <2> QED BY <1>7, <1>8, <2>1
<1>11. ASSUME NEW x \in DOMAIN u PROVE MovedFrom(t, up, kept, x) \/ (x \in DOMAIN t /\ ~Beneath(up, x))
  <2>1. CASE x \in moved
    BY <1>5, <2>1 DEF MovedFrom
  <2>2. CASE x \in rest
    BY <1>6, <2>2 DEF Beneath
  <2> QED BY <1>8, <2>1, <2>2
<1> QED BY <1>9, <1>10, <1>11

Beside(a) == Append(Front(a), 3 - Last(a))

LEMMA CloseTile ==
  ASSUME NEW t, TileTree(t), NEW at \in DOMAIN t, at # <<>>, NEW up, up = Front(at),
         NEW kept, kept = Beside(at), NEW u, u = ClosedUp(t, up, kept)
  PROVE  TileTree(u) /\ \A q \in Tiles!PanesIn(u) : q \in Tiles!PanesIn(t) /\ q # t[at].pane
<1> DEFINE k == Last(at)
           l == 3 - k
           Below(x) == Beneath(up, x)
           Back(x, y) == /\ y \in DOMAIN t /\ u[x] = t[y]
                         /\ (\E r \in Paths : x = up \o r /\ y = kept \o r) \/ (x = y /\ ~Below(x))
<1>1. /\ up \in DOMAIN t /\ t[up].pane = 0 /\ at = Append(up, k) /\ k \in {1, 2} /\ l \in {1, 2} /\ l # k
      /\ kept = Append(up, l) /\ Len(up) \in Nat
  <2>1. /\ up \in DOMAIN t /\ t[up].pane = 0 /\ at = Append(up, k) /\ k \in {1, 2}
    BY TreeParts
  <2>2. Len(up) \in Nat
    BY <2>1, TreeParts DEF Paths
  <2>3. l \in {1, 2} /\ l # k
    BY <2>1
  <2> QED BY <2>1, <2>2, <2>3 DEF Beside
<1> HIDE DEF k, l
<1>2. up \in Paths /\ kept \in Paths /\ kept \in DOMAIN t /\ at \in Paths
  <2>1. Append(up, 1) \in DOMAIN t /\ Append(up, 2) \in DOMAIN t
    BY <1>1, TreeParts
  <2>2. kept \in DOMAIN t
    BY <1>1, <2>1
  <2> QED BY <1>1, <2>2, TreeParts
<1>3. <<l>> \in Paths /\ <<k>> \in Paths /\ kept = up \o <<l>> /\ at = up \o <<k>>
  <2>1. <<l>> \in Paths /\ <<k>> \in Paths
    BY <1>1 DEF Paths
  <2> QED BY <1>1, <1>2, <2>1, AppendIsConcat DEF Paths
<1>4. ASSUME NEW r \in Paths
      PROVE  up \o r \in Paths /\ kept \o r \in Paths /\ Below(up \o r) /\ Below(kept \o r) /\ kept \o r # at
  <2>1. up \o r \in Paths /\ kept \o r \in Paths
    BY <1>2, JoinedPath
  <2> DEFINE s == <<l>> \o r
  <2>2. kept \o r = up \o s /\ s \in Paths
    <3>1. s \in Paths
      BY <1>3, JoinedPath
    <3>2. (up \o <<l>>) \o r = up \o s
      BY <1>2, <1>3, JoinedThree
    <3> HIDE DEF s
    <3> QED BY <1>3, <3>1, <3>2
  <2>3. s # <<k>>
    <3> DEFINE one == <<l>>
    <3>1. Len(one) = 1 /\ one[1] = l /\ one \in Seq({1, 2}) /\ r \in Seq({1, 2})
      BY <1>3 DEF Paths
    <3>2. s = one \o r
      OBVIOUS
    <3> HIDE DEF one, s
    <3>3. s[1] = l
      <4>1. \A i \in 1 .. Len(one) + Len(r) : (one \o r)[i] = IF i <= Len(one) THEN one[i] ELSE r[i - Len(one)]
        BY <3>1, ConcatProperties
      <4>2. 1 \in 1 .. Len(one) + Len(r)
        BY <3>1
      <4> QED BY <3>1, <3>2, <4>1, <4>2
    <3> QED BY <1>1, <3>3
  <2> HIDE DEF s
  <2>4. kept \o r # at
    BY <1>2, <1>3, <2>2, <2>3, JoinedOnce
  <2> QED BY <2>1, <2>2, <2>4 DEF Beneath
<1>0. /\ \A x \in DOMAIN u : MovedFrom(t, up, kept, x) \/ (x \in DOMAIN t /\ ~Beneath(up, x))
      /\ \A r \in Paths : kept \o r \in DOMAIN t => up \o r \in DOMAIN u /\ u[up \o r] = t[kept \o r]
      /\ \A x \in DOMAIN t : ~Beneath(up, x) => x \in DOMAIN u /\ u[x] = t[x]
  BY <1>2, ClosedUpIs
<1>a. ASSUME NEW r \in Paths, kept \o r \in DOMAIN t
      PROVE  up \o r \in DOMAIN u /\ u[up \o r] = t[kept \o r]
  BY <1>0, <1>a
<1>b. ASSUME NEW x \in DOMAIN t, ~Below(x) PROVE x \in DOMAIN u /\ u[x] = t[x]
  BY <1>0, <1>b
<1>c. ASSUME NEW x \in DOMAIN u
      PROVE  (\E r \in Paths : x = up \o r /\ kept \o r \in DOMAIN t) \/ (x \in DOMAIN t /\ ~Below(x))
  BY <1>0 DEF MovedFrom
<1>6. ASSUME NEW x PROVE x \in DOMAIN u <=> \E y : Back(x, y)
  <2>1. ASSUME NEW r \in Paths, x = up \o r, kept \o r \in DOMAIN t PROVE Back(x, kept \o r)
    BY <1>a, <2>1
  <2>2. ASSUME x \in DOMAIN t, ~Below(x) PROVE Back(x, x)
    BY <1>b, <2>2
  <2>3. ASSUME x \in DOMAIN u PROVE \E y : Back(x, y)
    <3>1. CASE \E r \in Paths : x = up \o r /\ kept \o r \in DOMAIN t
      <4>1. PICK r \in Paths : x = up \o r /\ kept \o r \in DOMAIN t
        BY <3>1
      <4>2. Back(x, kept \o r)
        BY <2>1, <4>1
      <4> HIDE DEF Back
      <4> QED BY <4>2
    <3>2. CASE x \in DOMAIN t /\ ~Below(x)
      <4>1. Back(x, x)
        BY <2>2, <3>2
      <4> HIDE DEF Back
      <4> QED BY <4>1
    <3> QED BY <1>c, <2>3, <3>1, <3>2
  <2>4. ASSUME NEW y, Back(x, y) PROVE x \in DOMAIN u
    <3>1. y \in DOMAIN t /\ ((\E r \in Paths : x = up \o r /\ y = kept \o r) \/ (x = y /\ ~Below(x)))
      BY <2>4
    <3>2. CASE \E r \in Paths : x = up \o r /\ y = kept \o r
      <4>1. PICK r \in Paths : x = up \o r /\ y = kept \o r
        BY <3>2
      <4>2. kept \o r \in DOMAIN t
        BY <3>1, <4>1
      <4> QED BY <1>a, <4>1, <4>2
    <3>3. CASE x = y /\ ~Below(x)
      BY <1>b, <3>1, <3>3
    <3> QED BY <3>1, <3>2, <3>3
  <2> HIDE DEF Back
  <2> QED BY <2>3, <2>4
<1>7. ASSUME NEW x, NEW y, NEW z, Back(x, z), Back(y, z) PROVE x = y
  <2>1. CASE \E r \in Paths : x = up \o r /\ z = kept \o r
    <3>1. PICK r \in Paths : x = up \o r /\ z = kept \o r
      BY <2>1
    <3>2. Below(z)
      BY <1>4, <3>1
    <3>3. PICK s \in Paths : y = up \o s /\ z = kept \o s
      BY <1>7, <3>2
    <3>4. r = s
      BY <1>2, <3>1, <3>3, JoinedOnce
    <3> QED BY <3>1, <3>3, <3>4
  <2>2. CASE x = z /\ ~Below(x)
    <3>1. ~(\E r \in Paths : y = up \o r /\ z = kept \o r)
      BY <1>4, <2>2
    <3>2. y = z
      BY <1>7, <3>1
    <3> QED BY <2>2, <3>2
  <2> QED BY <1>7, <2>1, <2>2
<1>8. ASSUME NEW x, NEW y, Back(x, y) PROVE y # at /\ x \in Paths
  <2>1. CASE \E r \in Paths : x = up \o r /\ y = kept \o r
    BY <1>4, <2>1
  <2>2. CASE x = y /\ ~Below(x)
    <3>1. Below(at)
      BY <1>3 DEF Beneath
    <3> QED BY <1>8, <2>2, <3>1, TreeParts
  <2> QED BY <1>8, <2>1, <2>2
<1>9. Back(up, kept)
  <2>1. up = up \o <<>> /\ kept = kept \o <<>> /\ <<>> \in Paths
    BY <1>2, JoinedNil DEF Paths
  <2>2. u[up \o <<>>] = t[kept \o <<>>]
    <3>1. <<>> \in Paths /\ kept \o <<>> \in DOMAIN t
      BY <1>2, <2>1
    <3> QED BY <1>a, <3>1
  <2> QED BY <1>2, <2>1, <2>2
<1>10. ASSUME NEW x, NEW y, Back(x, y), x # <<>>
       PROVE  \E z : Back(Front(x), z) /\ t[z].pane = 0
  <2>1. CASE \E r \in Paths : x = up \o r /\ y = kept \o r
    <3>1. PICK r \in Paths : x = up \o r /\ y = kept \o r
      BY <2>1
    <3>2. CASE r = <<>>
      <4>1. x = up
        BY <1>2, <3>1, <3>2, PathJoined
      <4> DEFINE z == Front(up)
      <4>2. z \in DOMAIN t /\ t[z].pane = 0 /\ Len(z) = Len(up) - 1
        BY <1>1, <1>10, <4>1, TreeParts
      <4>3. ~Below(z)
        <5>1. ASSUME NEW s \in Paths, z = up \o s PROVE FALSE
          <6>1. Len(z) = Len(up) + Len(s) /\ Len(s) \in Nat
            BY <1>2, <5>1, PathJoined
          <6> QED BY <1>1, <4>2, <6>1
        <5> QED BY <5>1 DEF Beneath
      <4>4. u[z] = t[z]
        BY <1>b, <4>2, <4>3
      <4>5. Front(x) = z
        BY <4>1
      <4> HIDE DEF z
      <4> QED BY <4>2, <4>3, <4>4, <4>5
    <3>3. CASE r # <<>>
      <4> DEFINE s == Front(r)
      <4>1. s \in Paths /\ Front(x) = up \o s /\ Front(y) = kept \o s /\ y # <<>>
        BY <1>2, <3>1, <3>3, PathSplit
      <4>2. Front(y) \in DOMAIN t /\ t[Front(y)].pane = 0
        BY <1>10, <4>1, TreeParts
      <4> HIDE DEF s
      <4>3. u[up \o s] = t[kept \o s]
        <5>1. kept \o s \in DOMAIN t
          BY <4>1, <4>2
        <5> QED BY <1>a, <4>1, <5>1
      <4>4. Back(up \o s, kept \o s)
        BY <4>1, <4>2, <4>3
      <4> HIDE DEF Back
      <4> QED BY <4>1, <4>2, <4>4
    <3> QED BY <3>2, <3>3
  <2>2. CASE x = y /\ ~Below(x)
    <3> DEFINE z == Front(x)
    <3>1. /\ z \in DOMAIN t /\ t[z].pane = 0 /\ x = Append(z, Last(x)) /\ Last(x) \in {1, 2}
      BY <1>10, <2>2, TreeParts
    <3>2. ~Below(z)
      <4>1. ASSUME NEW s \in Paths, z = up \o s PROVE FALSE
        <5> DEFINE j == Last(x)
        <5>1. j \in {1, 2} /\ x = Append(z, j)
          BY <3>1
        <5> HIDE DEF j, z
        <5>2. \A i \in {1, 2} : Append(up \o s, i) = up \o Append(s, i) /\ Append(s, i) \in Paths
          BY <1>2, JoinedEnd
        <5>3. x = up \o Append(s, j) /\ Append(s, j) \in Paths
          BY <4>1, <5>1, <5>2
        <5> QED BY <2>2, <5>3 DEF Beneath
      <4> QED BY <4>1 DEF Beneath
    <3>3. u[z] = t[z]
      BY <1>b, <3>1, <3>2
    <3> HIDE DEF z
    <3>4. Back(z, z)
      BY <3>1, <3>2, <3>3
    <3> HIDE DEF Back
    <3> QED BY <3>1, <3>4 DEF z
  <2> QED BY <1>10, <2>1, <2>2
<1>11. ASSUME NEW x, NEW y, Back(x, y), t[y].pane = 0, NEW j \in {1, 2}
       PROVE  Append(x, j) \in DOMAIN u
  <2>1. Append(y, j) \in DOMAIN t /\ y \in Paths
    BY <1>11, TreeParts
  <2>2. CASE \E r \in Paths : x = up \o r /\ y = kept \o r
    <3>1. PICK r \in Paths : x = up \o r /\ y = kept \o r
      BY <2>2
    <3>2. /\ \A i \in {1, 2} : Append(up \o r, i) = up \o Append(r, i) /\ Append(r, i) \in Paths
          /\ \A i \in {1, 2} : Append(kept \o r, i) = kept \o Append(r, i)
      BY <1>2, JoinedEnd
    <3>3. Append(x, j) = up \o Append(r, j) /\ Append(y, j) = kept \o Append(r, j) /\ Append(r, j) \in Paths
      BY <3>1, <3>2
    <3> DEFINE r2 == Append(r, j)
    <3>4. r2 \in Paths /\ kept \o r2 \in DOMAIN t
      BY <2>1, <3>3
    <3>5. up \o r2 \in DOMAIN u
      <4> HIDE DEF r2
      <4> QED BY <1>a, <3>4
    <3> QED BY <3>3, <3>5
  <2>3. CASE x = y /\ ~Below(x)
    <3>1. CASE ~Below(Append(x, j))
      BY <1>b, <2>1, <2>3, <3>1
    <3>2. CASE Below(Append(x, j))
      <4>1. PICK r \in Paths : Append(x, j) = up \o r
        BY <3>2 DEF Beneath
      <4>2. Front(Append(x, j)) = x
        BY <2>1, <2>3, PathGrown
      <4>3. r = <<>>
        <5>1. ASSUME r # <<>> PROVE FALSE
          <6>1. Front(up \o r) = up \o Front(r) /\ Front(r) \in Paths
            BY <1>2, <5>1, PathSplit
          <6> QED BY <2>3, <4>1, <4>2, <6>1 DEF Beneath
        <5> QED BY <5>1
      <4>4. Append(x, j) = up
        BY <1>2, <4>1, <4>3, PathJoined
      <4> HIDE DEF Back
      <4> QED BY <1>6, <1>9, <4>4
    <3> QED BY <3>1, <3>2
  <2> QED BY <1>11, <2>2, <2>3
<1>12. \E y : Back(<<>>, y)
  <2>1. CASE up = <<>>
    BY <1>9, <2>1
  <2>2. CASE up # <<>>
    <3>1. ~Below(<<>>)
      <4>1. ASSUME NEW s \in Paths, <<>> = up \o s PROVE FALSE
        <5>1. up = <<>>
          BY <1>2, <4>1, ConcatSimplifications DEF Paths
        <5> QED BY <2>2, <5>1
      <4> QED BY <4>1 DEF Beneath
    <3>2. <<>> \in DOMAIN t
      BY TreeParts
    <3>3. Back(<<>>, <<>>)
      BY <1>b, <3>1, <3>2
    <3> HIDE DEF Back
    <3> QED BY <3>3
  <2> QED BY <2>1, <2>2
<1>13. \A x, y : Back(x, y) => y \in DOMAIN t /\ u[x] = t[y]
  OBVIOUS
<1> HIDE DEF Back
<1>14. IsFiniteSet(DOMAIN u)
  <2> DEFINE g == [x \in DOMAIN u |-> CHOOSE y : Back(x, y)]
  <2>1. \A x \in DOMAIN u : Back(x, g[x])
    BY <1>6
  <2>2. g \in [DOMAIN u -> DOMAIN t]
    BY <1>13, <2>1
  <2> HIDE DEF g
  <2>3. g \in Injection(DOMAIN u, DOMAIN t)
    <3>1. ASSUME NEW x \in DOMAIN u, NEW y \in DOMAIN u, g[x] = g[y] PROVE x = y
      <4>1. Back(x, g[x]) /\ Back(y, g[x])
        BY <2>1, <3>1
      <4> QED BY <1>7, <4>1
    <3> QED BY <2>2, <3>1 DEF Injection, IsInjective
  <2>4. IsFiniteSet(DOMAIN t)
    BY DEF TileTree
  <2> QED BY <2>3, <2>4, FS_Injection
<1>15. WellFormed(u)
  <2>1. <<>> \in DOMAIN u /\ DOMAIN u \subseteq Seq({1, 2})
    BY <1>6, <1>8, <1>12 DEF Paths
  <2>2. ASSUME NEW x \in DOMAIN u
        PROVE  /\ x # <<>> => Front(x) \in DOMAIN u /\ u[Front(x)].pane = 0
               /\ u[x].pane = 0 =>
                    /\ Append(x, 1) \in DOMAIN u /\ Append(x, 2) \in DOMAIN u
                    /\ u[x].split \in {"horizontal", "vertical"}
                    /\ u[x].ratio \in Nat \X (Nat \ {0}) /\ u[x].ratio[1] <= u[x].ratio[2]
               /\ u[x].pane # 0 => \A y \in DOMAIN u : u[y].pane = u[x].pane => y = x
    <3>1. PICK z : Back(x, z)
      BY <1>6
    <3>2. z \in DOMAIN t /\ u[x] = t[z]
      BY <1>13, <3>1
    <3>3. x # <<>> => Front(x) \in DOMAIN u /\ u[Front(x)].pane = 0
      BY <1>6, <1>10, <1>13, <3>1
    <3>4. u[x].pane = 0 => Append(x, 1) \in DOMAIN u /\ Append(x, 2) \in DOMAIN u
      BY <1>11, <3>1, <3>2
    <3>5. u[x].pane = 0 => Halvable(u[x])
      BY <3>2, TreeParts
    <3>6. ASSUME u[x].pane # 0, NEW y \in DOMAIN u, u[y].pane = u[x].pane PROVE y = x
      <4>1. PICK w : Back(y, w)
        BY <1>6
      <4>2. w \in DOMAIN t /\ u[y] = t[w]
        BY <1>13, <4>1
      <4>3. w = z
        BY <3>2, <3>6, <4>2, TreeParts
      <4> QED BY <1>7, <3>1, <4>1, <4>3
    <3> QED BY <3>3, <3>4, <3>5, <3>6 DEF Halvable, IsRatio
  <2> QED BY <2>1, <2>2 DEF WellFormed
<1>16. ASSUME NEW x \in DOMAIN u PROVE NodeOf(u[x])
  <2>1. PICK z : Back(x, z)
    BY <1>6
  <2> QED BY <1>13, <2>1 DEF TileTree
<1>17. ASSUME NEW q \in Tiles!PanesIn(u) PROVE q \in Tiles!PanesIn(t) /\ q # t[at].pane
  <2>1. PICK x \in DOMAIN u : u[x].pane = q /\ q # 0
    BY DEF Tiles!PanesIn
  <2>2. PICK z : Back(x, z)
    BY <1>6
  <2>3. z \in DOMAIN t /\ t[z].pane = q /\ z # at
    BY <1>8, <1>13, <2>1, <2>2
  <2> QED BY <2>1, <2>3, PanesAt, TreeParts
<1> QED BY <1>14, <1>15, <1>16, <1>17 DEF TileTree

-----------------------------------------------------------------------------
(* The steps of the rectangles.                                            *)

SizesFine(s, t) ==
  /\ IsFiniteSet(DOMAIN s) /\ Tiles!PanesIn(t) \subseteq DOMAIN s
  /\ \A p \in DOMAIN s : s[p] \in Nat \X Nat

ShownFine(layout) == \E t, z : layout = [tree |-> t, zoomed |-> z] /\ TileTree(t)

DragFine(d) == \E n, s : \E r \in Int : d = [at |-> n, rest |-> r, splitters |-> s]

TilesInv ==
  /\ TileTree(tree) /\ ShownFine(shown) /\ area \in Nat \X Nat
  /\ SizesFine(sizes, tree) /\ DragFine(drag)

LEMMA GreatestOf ==
  ASSUME NEW D, IsFiniteSet(D), NEW f, \A x \in D : f[x] \in Nat, NEW S, S = {f[x] : x \in D}, S # {}
  PROVE  Tiles!Max(S) \in S /\ Tiles!Max(S) \in Nat /\ \A y \in S : y <= Tiles!Max(S)
<1>1. PICK m \in Nat : \A x \in D : f[x] <= m
  BY FiniteBounded
<1>2. S \in SUBSET Int /\ S \subseteq Nat /\ m \in Int /\ \A y \in S : y <= m
  BY <1>1
<1>3. Tiles!Max(S) \in S /\ \A y \in S : y <= Tiles!Max(S)
  BY <1>2, Greatest
<1> QED BY <1>2, <1>3

LEMMA ViewportFine ==
  ASSUME NEW t, SizesFine(sizes, t), Tiles!PanesIn(t) # {}
  PROVE  Tiles!Viewport \in Nat \X Nat
<1> DEFINE D == DOMAIN sizes
           f == [p \in D |-> sizes[p][1]]
           g == [p \in D |-> sizes[p][2]]
           S == {f[p] : p \in D}
           T == {g[p] : p \in D}
<1>1. IsFiniteSet(D) /\ D # {} /\ \A p \in D : sizes[p] \in Nat \X Nat
  BY DEF SizesFine
<1>2. (\A p \in D : f[p] \in Nat /\ g[p] \in Nat) /\ S # {} /\ T # {}
  BY <1>1
<1>3. {sizes[p][1] : p \in DOMAIN sizes} = S /\ {sizes[p][2] : p \in DOMAIN sizes} = T
  OBVIOUS
<1> HIDE DEF D, f, g
<1>4. Tiles!Max(S) \in Nat
  BY <1>1, <1>2, GreatestOf
<1>5. Tiles!Max(T) \in Nat
  BY <1>1, <1>2, GreatestOf
<1> HIDE DEF S, T
<1>6. Tiles!Viewport = <<Tiles!Max(S), Tiles!Max(T)>>
  BY <1>3 DEF Tiles!Viewport
<1> QED BY <1>4, <1>5, <1>6

(* What a session gets of a rectangle.                                     *)
LEMMA SessionSize ==
  ASSUME NEW rect \in Rect
  PROVE  <<Tiles!Max({rect.w - Inset, 1}), Tiles!Max({rect.h - Inset, 1})>> \in Nat \X Nat
<1>1. rect.w \in Nat /\ rect.h \in Nat /\ Inset \in Int
  BY TilesAssumption DEF Rect
<1>2. ASSUME NEW n \in Nat PROVE Tiles!Max({n - Inset, 1}) \in Nat
  <2> DEFINE k == n - Inset
             m == Tiles!Max({k, 1})
  <2>1. k \in Int /\ 1 \in Int
    BY <1>1
  <2> HIDE DEF k
  <2>2. m \in {k, 1} /\ 1 <= m
    BY <2>1, GreaterOfTwo
  <2> HIDE DEF m
  <2>3. m \in Nat
    BY <2>1, <2>2
  <2> QED BY <2>3 DEF m, k
<1> QED BY <1>1, <1>2

LEMMA LaidFine ==
  ASSUME NEW layout, ShownFine(layout), NEW size \in Nat \X Nat, NEW moved, DragFine(moved), DragFine(drag),
         NEW t, SizesFine(sizes, t), Tiles!Laid(layout, size, moved)
  PROVE  SizesFine(sizes', t) /\ DragFine(drag')
<1> DEFINE rects == Tiles!Rects(layout.tree, layout.zoomed, size)
<1>1. TileTree(layout.tree)
  BY DEF ShownFine
<1>2. \A p \in DOMAIN rects : rects[p] \in Rect
  BY <1>1, RectsFine
<1>3. sizes' = Tiles!SizesOf(rects)
  BY DEF Tiles!Laid
<1>4. drag' = drag \/ \E listed : drag' = [moved EXCEPT !.splitters = listed]
  BY DEF Tiles!Laid
<1>5. DragFine(drag')
  <2>1. ASSUME NEW listed, drag' = [moved EXCEPT !.splitters = listed] PROVE DragFine(drag')
    <3>1. PICK n, s : \E r \in Int : moved = [at |-> n, rest |-> r, splitters |-> s]
      BY DEF DragFine
    <3>2. PICK r \in Int : moved = [at |-> n, rest |-> r, splitters |-> s]
      BY <3>1
    <3>3. drag' = [at |-> n, rest |-> r, splitters |-> listed]
      BY <2>1, <3>2
    <3> QED BY <3>3 DEF DragFine
  <2> QED BY <1>4, <2>1
<1> HIDE DEF rects
<1>6. DOMAIN sizes' = DOMAIN sizes
  BY <1>3 DEF Tiles!SizesOf
<1>7. ASSUME NEW p \in DOMAIN sizes PROVE sizes'[p] \in Nat \X Nat
  <2>1. sizes'[p] = IF p \in DOMAIN rects
                    THEN <<Tiles!Max({rects[p].w - Inset, 1}), Tiles!Max({rects[p].h - Inset, 1})>> ELSE sizes[p]
    BY <1>3 DEF Tiles!SizesOf
  <2>2. CASE p \in DOMAIN rects
    BY <1>2, <2>1, <2>2, SessionSize
  <2>3. CASE p \notin DOMAIN rects
    BY <2>1, <2>3 DEF SizesFine
  <2> QED BY <2>2, <2>3
<1> QED BY <1>5, <1>6, <1>7 DEF SizesFine

LEMMA SplitFine ==
  ASSUME TilesInv, NEW p \in Tiles!PanesIn(tree), NEW orient \in {"horizontal", "vertical"},
         Tiles!SplitPane(p, orient)
  PROVE  TileTree(tree') /\ SizesFine(sizes', tree')
<1> DEFINE D == DOMAIN tree
           f == [a \in D |-> tree[a].pane]
           P == Tiles!PanesIn(tree)
           new == Tiles!Max(P) + 1
<1>1. TileTree(tree) /\ SizesFine(sizes, tree)
  BY DEF TilesInv
<1>2. new \in Nat \ {0} /\ new \notin P
  <2>1. IsFiniteSet(D) /\ \A a \in D : f[a] \in Nat
    BY <1>1, TreeParts DEF TileTree
  <2>2. PICK m \in Nat : \A a \in D : f[a] <= m
    <3> HIDE DEF D, f
    <3> QED BY <2>1, FiniteBounded
  <2>3. P \in SUBSET Int /\ P # {} /\ m \in Int /\ \A x \in P : x <= m
    BY <1>1, <2>2, PanesAt
  <2> HIDE DEF P
  <2>4. Tiles!Max(P) \in P /\ \A y \in P : y <= Tiles!Max(P)
    BY <2>2, <2>3, Greatest
  <2>5. P \subseteq Nat \ {0}
    BY <1>1, PanesAt DEF P
  <2> DEFINE k == Tiles!Max(P)
  <2>6. k \in Nat /\ \A y \in P : y <= k
    BY <2>4, <2>5
  <2> HIDE DEF k
  <2>7. k + 1 \in Nat \ {0} /\ k + 1 \notin P
    <3>1. k + 1 \in Nat \ {0} /\ ~(k + 1 <= k)
      BY <2>6
    <3> QED BY <2>6, <3>1
  <2> QED BY <2>7 DEF k
<1>3. /\ tree' = SplitOff(tree, Tiles!PathOf(tree, p), orient, new)
      /\ sizes' = [q \in DOMAIN sizes \cup {new} |-> IF q = new THEN <<1, 1>> ELSE sizes[q]]
  BY DEF Tiles!SplitPane, SplitOff
<1> HIDE DEF new
<1>4. TileTree(tree') /\ Tiles!PanesIn(tree') = P \cup {new}
  BY <1>1, <1>2, <1>3, SplitTile
<1>5. IsFiniteSet(DOMAIN sizes')
  <2>1. IsFiniteSet(DOMAIN sizes) /\ DOMAIN sizes' = DOMAIN sizes \cup {new}
    BY <1>1, <1>3 DEF SizesFine
  <2> QED BY <2>1, FS_AddElement
<1>6. \A q \in DOMAIN sizes' : sizes'[q] \in Nat \X Nat
  BY <1>1, <1>3 DEF SizesFine
<1>7. Tiles!PanesIn(tree') \subseteq DOMAIN sizes'
  BY <1>1, <1>3, <1>4 DEF SizesFine
<1> QED BY <1>4, <1>5, <1>6, <1>7 DEF SizesFine

LEMMA SameCount == \A S : Tiles!Cardinality(S) = Cardinality(S)
BY DEF Tiles!Cardinality, Cardinality

LEMMA NotAlone ==
  ASSUME NEW t, TileTree(t), NEW p \in Tiles!PanesIn(t), Cardinality(Tiles!PanesIn(t)) > 1
  PROVE  Tiles!PathOf(t, p) # <<>>
<1> SUFFICES ASSUME Tiles!PathOf(t, p) = <<>> PROVE FALSE
  OBVIOUS
<1>1. <<>> \in DOMAIN t /\ t[<<>>].pane = p /\ p # 0
  BY PanesAt
<1>2. ASSUME NEW q \in Tiles!PanesIn(t) PROVE q = p
  <2> DEFINE b == Tiles!PathOf(t, q)
  <2>1. b \in DOMAIN t /\ t[b].pane = q /\ b \in Paths
    BY PanesAt, TreeParts
  <2> HIDE DEF b
  <2>2. b = <<>>
    <3> SUFFICES ASSUME b # <<>> PROVE FALSE
      OBVIOUS
    <3>1. <<>> \in Paths /\ <<>> \o b = b
      BY <2>1, JoinedNil DEF Paths
    <3>2. <<>> \o b \in DOMAIN t
      BY <2>1, <3>1
    <3>3. t[<<>>].pane = 0
      BY <2>1, <3>1, <3>2, BelowSplit
    <3> QED BY <1>1, <3>3
  <2> QED BY <1>1, <2>1, <2>2
<1>3. Tiles!PanesIn(t) = {p}
  BY <1>2
<1>4. Cardinality({p}) = 1
  BY FS_Singleton
<1> QED BY <1>3, <1>4

LEMMA CloseFine ==
  ASSUME TilesInv, NEW p \in Tiles!PanesIn(tree), Tiles!ClosePane(p)
  PROVE  TileTree(tree') /\ SizesFine(sizes', tree')
<1> DEFINE at == Tiles!PathOf(tree, p)
           up == Front(at)
           kept == Append(up, 3 - Last(at))
<1>1. TileTree(tree) /\ SizesFine(sizes, tree)
  BY DEF TilesInv
<1>2. at \in DOMAIN tree /\ tree[at].pane = p
  BY <1>1, PanesAt
<1>3. at # <<>>
  <2>1. Cardinality(Tiles!PanesIn(tree)) > 1
    BY SameCount DEF Tiles!ClosePane
  <2> QED BY <1>1, <2>1, NotAlone
<1>4. /\ tree' = ClosedUp(tree, up, kept)
      /\ sizes' = [q \in DOMAIN sizes \ {p} |-> sizes[q]]
  BY DEF Tiles!ClosePane, ClosedUp, Tiles!Front, Tiles!Last, Front, Last
<1> HIDE DEF at
<1>5. TileTree(tree') /\ \A q \in Tiles!PanesIn(tree') : q \in Tiles!PanesIn(tree) /\ q # p
  <2>1. up = Front(at) /\ kept = Beside(at) /\ tree' = ClosedUp(tree, up, kept)
    BY <1>4 DEF Beside
  <2> HIDE DEF up, kept
  <2>2. TileTree(tree') /\ \A q \in Tiles!PanesIn(tree') : q \in Tiles!PanesIn(tree) /\ q # tree[at].pane
    BY <1>1, <1>2, <1>3, <2>1, CloseTile
  <2> QED BY <1>2, <2>2
<1>6. DOMAIN sizes' = DOMAIN sizes \ {p} /\ \A q \in DOMAIN sizes' : sizes'[q] = sizes[q]
  BY <1>4
<1>7. IsFiniteSet(DOMAIN sizes')
  <2>1. IsFiniteSet(DOMAIN sizes) /\ DOMAIN sizes' \subseteq DOMAIN sizes
    BY <1>1, <1>6 DEF SizesFine
  <2> QED BY <2>1, FS_Subset
<1>8. Tiles!PanesIn(tree') \subseteq DOMAIN sizes' /\ \A q \in DOMAIN sizes' : sizes'[q] \in Nat \X Nat
  BY <1>1, <1>5, <1>6 DEF SizesFine
<1> QED BY <1>5, <1>7, <1>8 DEF SizesFine

LEMMA SameFront == \A s : Tiles!Front(s) = Front(s)
BY DEF Tiles!Front, Front

LEMMA EditFine ==
  ASSUME TilesInv, NEW t, TileTree(t), Tiles!PanesIn(t) = Tiles!PanesIn(tree), Tiles!Edit(t)
  PROVE  TilesInv'
<1>1. tree' = t /\ UNCHANGED <<sizes, shown, area, drag>>
  BY DEF Tiles!Edit, Tiles!window
<1>2. SizesFine(sizes', tree')
  BY <1>1 DEF TilesInv, SizesFine
<1> QED BY <1>1, <1>2 DEF TilesInv

LEMMA ResizeFine ==
  ASSUME TilesInv, NEW p \in Tiles!PanesIn(tree), NEW orient, NEW growing, NEW cells \in Amounts,
         Tiles!Resize(p, orient, growing, cells)
  PROVE  TilesInv'
<1> DEFINE t == Tiles!Resized(tree, p, orient, growing, cells, Tiles!Viewport)
<1>1. TileTree(tree) /\ SizesFine(sizes, tree) /\ Tiles!PanesIn(tree) # {}
  BY DEF TilesInv
<1>2. Tiles!Viewport \in Nat \X Nat
  BY <1>1, ViewportFine
<1>3. cells \in Int
  BY TilesAssumption
<1>4. TileTree(t) /\ Tiles!PanesIn(t) = Tiles!PanesIn(tree)
  BY <1>1, <1>2, <1>3, ResizedTree
<1>5. Tiles!Edit(t)
  BY DEF Tiles!Resize
<1> HIDE DEF t
<1> QED BY <1>4, <1>5, EditFine

(* A pane does not lie ahead of itself, so that two are traded.            *)
LEMMA SwapFine ==
  ASSUME TilesInv, NEW p \in Tiles!PanesIn(tree), NEW dir \in {"left", "right", "up", "down"},
         Tiles!Swap(p, dir)
  PROVE  TilesInv'
<1> DEFINE rects == Tiles!Rects(tree, zoom, Tiles!Viewport)
<1>1. TileTree(tree) /\ SizesFine(sizes, tree) /\ Tiles!PanesIn(tree) # {}
  BY DEF TilesInv
<1>2. /\ DOMAIN rects = IF zoom # 0 THEN {zoom} ELSE Tiles!PanesIn(tree)
      /\ \A q \in DOMAIN rects : rects[q] \in Rect
  <2>1. Tiles!Viewport \in Nat \X Nat
    BY <1>1, ViewportFine
  <2> QED BY <1>1, <2>1, RectsFine
<1>3. PICK q \in Tiles!Nearest(rects, p, dir) :
        Tiles!Edit([tree EXCEPT ![Tiles!PathOf(tree, p)].pane = q, ![Tiles!PathOf(tree, q)].pane = p])
  BY DEF Tiles!Swap
<1> HIDE DEF rects
<1>4. p \in DOMAIN rects /\ q \in DOMAIN rects /\ Tiles!Ahead(dir, rects[p], rects[q])
  BY <1>3 DEF Tiles!Nearest
<1>5. q # p
  <2> SUFFICES ASSUME q = p PROVE FALSE
    OBVIOUS
  <2> DEFINE r == rects[p]
  <2>1. r \in Rect /\ Tiles!Ahead(dir, r, r)
    BY <1>2, <1>4
  <2> HIDE DEF r
  <2>2. r.x \in Int /\ r.y \in Int /\ r.w \in Int /\ r.h \in Int
    BY <2>1 DEF Rect
  <2>3. ~(2 * r.x + r.w < 2 * r.x + r.w) /\ ~(2 * r.y + r.h < 2 * r.y + r.h)
    BY <2>2
  <2>4. ~(2 * r.x + r.w > 2 * r.x + r.w) /\ ~(2 * r.y + r.h > 2 * r.y + r.h)
    BY <2>2
  <2> QED BY <2>1, <2>3, <2>4 DEF Tiles!Ahead
<1>6. q \in Tiles!PanesIn(tree)
  BY <1>2, <1>4, <1>5
<1> DEFINE t == [tree EXCEPT ![Tiles!PathOf(tree, p)].pane = q, ![Tiles!PathOf(tree, q)].pane = p]
<1>7. TileTree(t) /\ Tiles!PanesIn(t) = Tiles!PanesIn(tree)
  BY <1>1, <1>5, <1>6, PanesTraded
<1>8. Tiles!Edit(t)
  BY <1>3
<1> HIDE DEF t
<1> QED BY <1>7, <1>8, EditFine

LEMMA DragMoved ==
  ASSUME NEW d, DragFine(d), NEW rest \in Int
  PROVE  DragFine([d EXCEPT !.rest = rest])
<1>1. PICK n, s : \E r \in Int : d = [at |-> n, rest |-> r, splitters |-> s]
  BY DEF DragFine
<1>2. [d EXCEPT !.rest = rest] = [at |-> n, rest |-> rest, splitters |-> s]
  BY <1>1
<1> QED BY <1>2 DEF DragFine

LEMMA AtRest == \A d, n, s : d = [at |-> n, rest |-> 0, splitters |-> s] => DragFine(d)
<1> SUFFICES ASSUME NEW d, NEW n, NEW s, d = [at |-> n, rest |-> 0, splitters |-> s] PROVE DragFine(d)
  OBVIOUS
<1>1. 0 \in Int
  OBVIOUS
<1>2. \E r \in Int : d = [at |-> n, rest |-> r, splitters |-> s]
  BY <1>1
<1> QED BY <1>2 DEF DragFine

LEMMA MoveFine ==
  ASSUME TilesInv, NEW pixels \in Moves, Tiles!Move(pixels)
  PROVE  TilesInv'
<1> DEFINE bar   == drag.splitters[drag.at]
           left  == drag.rest + pixels
           cells == (IF left < 0 THEN -left ELSE left) \div Unit
           rest  == IF left > 0 THEN left - cells * Unit ELSE left + cells * Unit
           moved == [drag EXCEPT !.rest = rest]
           t     == Tiles!Resized(shown.tree, bar.before, bar.orient, left > 0, cells, area)
<1>1. /\ tree' = tree /\ area' = area
      /\ \/ drag' = moved /\ UNCHANGED <<shown, sizes>>
         \/ shown' = [shown EXCEPT !.tree = t] /\ Tiles!Laid(shown', area, moved)
  BY DEF Tiles!Move
<1>2. left \in Int /\ cells \in Int /\ rest \in Int
  <2>1. drag.rest \in Int
    BY DEF TilesInv, DragFine
  <2>2. pixels \in Int /\ Unit \in Nat \ {0}
    BY TilesAssumption
  <2>3. left \in Int
    BY <2>1, <2>2
  <2> HIDE DEF left
  <2>4. cells \in Int
    BY <2>2, <2>3
  <2> HIDE DEF cells
  <2>5. cells * Unit \in Int
    BY <2>2, <2>4
  <2>6. rest \in Int
    BY <2>3, <2>5
  <2> QED BY <2>3, <2>4, <2>6
<1> HIDE DEF left, cells, rest
<1>3. DragFine(moved)
  BY <1>2, DragMoved DEF TilesInv
<1> HIDE DEF moved, bar
<1>4. TileTree(t)
  <2>1. TileTree(shown.tree) /\ area \in Nat \X Nat
    BY DEF TilesInv, ShownFine
  <2> QED BY <1>2, <2>1, ResizedTree
<1> HIDE DEF t
<1>5. CASE drag' = moved /\ UNCHANGED <<shown, sizes>>
  BY <1>1, <1>3, <1>5 DEF TilesInv
<1>6. CASE shown' = [shown EXCEPT !.tree = t] /\ Tiles!Laid(shown', area, moved)
  <2>1. ShownFine(shown')
    <3>1. PICK u, z : shown = [tree |-> u, zoomed |-> z]
      BY DEF TilesInv, ShownFine
    <3>2. shown' = [tree |-> t, zoomed |-> z]
      BY <1>6, <3>1
    <3> QED BY <1>4, <3>2 DEF ShownFine
  <2>2. SizesFine(sizes', tree) /\ DragFine(drag')
    BY <1>3, <1>6, <2>1, LaidFine DEF TilesInv
  <2> QED BY <1>1, <2>1, <2>2 DEF TilesInv
<1> QED BY <1>1, <1>5, <1>6

LEMMA TilesInit == Tiles!Init => TilesInv
<1> SUFFICES ASSUME Tiles!Init PROVE TilesInv
  OBVIOUS
<1>1. /\ tree \in Trees /\ shown = [tree |-> tree, zoomed |-> 0] /\ area \in Areas
      /\ drag = [at |-> 0, rest |-> 0, splitters |-> <<>>]
  BY DEF Tiles!Init, Tiles!NoDrag
<1>2. TileTree(tree)
  <2>1. WellFormed(tree) /\ IsFiniteSet(DOMAIN tree)
    BY <1>1, TilesAssumption
  <2>2. ASSUME NEW a \in DOMAIN tree PROVE NodeOf(tree[a])
    <3>1. \E p \in Nat : tree[a] = [pane |-> p, split |-> tree[a].split, ratio |-> tree[a].ratio]
      BY <1>1, TilesAssumption
    <3> QED BY <3>1 DEF NodeOf
  <2> QED BY <2>1, <2>2 DEF TileTree
<1>3. area \in Nat \X Nat
  BY <1>1, TilesAssumption
<1>4. ShownFine(shown) /\ DragFine(drag)
  <2>1. ShownFine(shown)
    BY <1>1, <1>2 DEF ShownFine
  <2>2. DragFine(drag)
    BY <1>1, AtRest
  <2> QED BY <2>1, <2>2
<1>5. SizesFine(sizes, tree)
  <2> DEFINE P == Tiles!PanesIn(tree)
             rects == Tiles!Rects(tree, 0, area)
  <2>1. sizes = [p \in P |-> <<Tiles!Max({rects[p].w - Inset, 1}), Tiles!Max({rects[p].h - Inset, 1})>>]
    BY DEF Tiles!Init
  <2>2. \A p \in P : rects[p] \in Rect
    BY <1>2, <1>3, RectsFine
  <2>3. IsFiniteSet(P)
    <3> DEFINE D == DOMAIN tree
               f == [a \in D |-> tree[a].pane]
               S == {f[a] : a \in D}
    <3>1. IsFiniteSet(D)
      BY <1>2 DEF TileTree
    <3>2. IsFiniteSet(S)
      <4>1. f \in Surjection(D, S)
        BY DEF Surjection
      <4> HIDE DEF D, f, S
      <4> QED BY <3>1, <4>1, FS_Surjection
    <3>3. P \subseteq S
      BY DEF Tiles!PanesIn
    <3> HIDE DEF S, P
    <3> QED BY <3>2, <3>3, FS_Subset
  <2> HIDE DEF rects
  <2>4. ASSUME NEW p \in P PROVE sizes[p] \in Nat \X Nat
    <3>1. <<Tiles!Max({rects[p].w - Inset, 1}), Tiles!Max({rects[p].h - Inset, 1})>> \in Nat \X Nat
      BY <2>2, SessionSize
    <3> QED BY <2>1, <3>1
  <2> HIDE DEF P
  <2>5. DOMAIN sizes = P
    BY <2>1
  <2> QED BY <2>3, <2>4, <2>5 DEF SizesFine, P
<1> QED BY <1>2, <1>3, <1>4, <1>5 DEF TilesInv

LEMMA TilesStep == TilesInv /\ Tiles!Next => TilesInv'
<1> SUFFICES ASSUME TilesInv, Tiles!Next PROVE TilesInv'
  OBVIOUS
<1>0. TileTree(tree) /\ SizesFine(sizes, tree)
  BY DEF TilesInv
<1>1. ASSUME NEW p \in Tiles!PanesIn(tree), NEW orient \in {"horizontal", "vertical"}, Tiles!SplitPane(p, orient)
      PROVE  TilesInv'
  <2>1. UNCHANGED <<shown, area, drag>>
    BY <1>1 DEF Tiles!SplitPane, Tiles!window
  <2> QED BY <1>1, <2>1, SplitFine DEF TilesInv
<1>2. ASSUME NEW p \in Tiles!PanesIn(tree), Tiles!ClosePane(p) PROVE TilesInv'
  <2>1. UNCHANGED <<shown, area, drag>>
    BY <1>2 DEF Tiles!ClosePane, Tiles!window
  <2> QED BY <1>2, <2>1, CloseFine DEF TilesInv
<1>3. ASSUME NEW p \in Tiles!PanesIn(tree), Tiles!PathOf(tree, p) # <<>>
      PROVE  Front(Tiles!PathOf(tree, p)) \in DOMAIN tree
  BY <1>0, <1>3, PanesAt, TreeParts
<1>4. ASSUME NEW p \in Tiles!PanesIn(tree), Tiles!ToggleOrientation(p) PROVE TilesInv'
  <2> DEFINE s == Front(Tiles!PathOf(tree, p))
             t == [tree EXCEPT ![s].split = Tiles!Other(@)]
  <2>1. Tiles!PathOf(tree, p) # <<>> /\ Tiles!Edit(t)
    BY <1>4, SameFront DEF Tiles!ToggleOrientation
  <2>2. s \in DOMAIN tree
    BY <1>3, <2>1
  <2> HIDE DEF s
  <2>3. TileTree(t) /\ Tiles!PanesIn(t) = Tiles!PanesIn(tree)
    BY <1>0, <2>2, SplitTurned
  <2> HIDE DEF t
  <2> QED BY <2>1, <2>3, EditFine
<1>5. ASSUME NEW p \in Tiles!PanesIn(tree), Tiles!Equalize(p) PROVE TilesInv'
  <2> DEFINE s == Front(Tiles!PathOf(tree, p))
             half == <<1, 2>>
             t == [tree EXCEPT ![s].ratio = half]
  <2>1. Tiles!Edit(t)
    BY <1>5, SameFront DEF Tiles!Equalize
  <2>2. IsRatio(half)
    BY HalfIsRatio
  <2> HIDE DEF s, half
  <2>3. TileTree(t) /\ Tiles!PanesIn(t) = Tiles!PanesIn(tree)
    BY <1>0, <2>2, RatioSet
  <2> HIDE DEF t
  <2> QED BY <2>1, <2>3, EditFine
<1>6. ASSUME Tiles!EqualizeTab PROVE TilesInv'
  <2> DEFINE t == [a \in DOMAIN tree |->
                     IF tree[a].pane = 0 THEN [tree[a] EXCEPT !.ratio = <<1, 2>>] ELSE tree[a]]
  <2>1. Tiles!Edit(t)
    BY <1>6 DEF Tiles!EqualizeTab
  <2>2. TileTree(t) /\ Tiles!PanesIn(t) = Tiles!PanesIn(tree)
    BY <1>0, AllEven
  <2> HIDE DEF t
  <2> QED BY <2>1, <2>2, EditFine
<1>7. ASSUME NEW p \in Tiles!PanesIn(tree), NEW dir, NEW cells \in Amounts, Tiles!ResizeToward(p, dir, cells)
      PROVE  TilesInv'
  <2>1. \E orient, growing : Tiles!Resize(p, orient, growing, cells)
    BY <1>7 DEF Tiles!ResizeToward
  <2> QED BY <2>1, ResizeFine
<1>8. ASSUME NEW p \in Tiles!PanesIn(tree), Tiles!ToggleZoom(p) PROVE TilesInv'
  BY <1>8 DEF Tiles!ToggleZoom, Tiles!window, TilesInv
<1>9. ASSUME Tiles!Snapshot PROVE TilesInv'
  <2>1. /\ shown' = [tree |-> tree, zoomed |-> zoom] /\ Tiles!Laid(shown', area, drag)
        /\ UNCHANGED <<tree, area>>
    BY <1>9 DEF Tiles!Snapshot
  <2>2. ShownFine(shown')
    BY <1>0, <2>1 DEF ShownFine
  <2>3. SizesFine(sizes', tree) /\ DragFine(drag')
    BY <2>1, <2>2, LaidFine DEF TilesInv
  <2> QED BY <2>1, <2>2, <2>3 DEF TilesInv
<1>10. ASSUME NEW size \in Areas, Tiles!WindowSized(size) PROVE TilesInv'
  <2>1. area' = size /\ Tiles!Laid(shown, size, drag) /\ UNCHANGED <<tree, shown>>
    BY <1>10 DEF Tiles!WindowSized
  <2>2. size \in Nat \X Nat
    BY TilesAssumption
  <2>3. SizesFine(sizes', tree) /\ DragFine(drag')
    BY <2>1, <2>2, LaidFine DEF TilesInv
  <2> QED BY <2>1, <2>2, <2>3 DEF TilesInv
<1>11. CASE Tiles!Press \/ Tiles!Release
  <2>1. /\ UNCHANGED <<tree, sizes, shown, area>>
        /\ \E n, s : drag' = [at |-> n, rest |-> 0, splitters |-> s]
    BY <1>11 DEF Tiles!Press, Tiles!Release, Tiles!NoDrag, Tiles!host
  <2>2. DragFine(drag')
    BY <2>1, AtRest
  <2> QED BY <2>1, <2>2 DEF TilesInv
<1>12. ASSUME NEW p \in Tiles!PanesIn(tree), NEW dir \in Tiles!Directions, Tiles!Swap(p, dir) PROVE TilesInv'
  BY <1>12, SwapFine DEF Tiles!Directions
<1>13. CASE \E p \in Tiles!PanesIn(tree) :
              \/ \E orient \in {"horizontal", "vertical"} : Tiles!SplitPane(p, orient)
              \/ Tiles!ClosePane(p) \/ Tiles!ToggleOrientation(p) \/ Tiles!Equalize(p) \/ Tiles!ToggleZoom(p)
  BY <1>1, <1>2, <1>4, <1>5, <1>8, <1>13
<1>14. CASE \E p \in Tiles!PanesIn(tree) :
              \/ \E orient, growing : \E cells \in Amounts : Tiles!Resize(p, orient, growing, cells)
              \/ \E dir \in Tiles!Directions : Tiles!Swap(p, dir) \/ \E cells \in Amounts : Tiles!ResizeToward(p, dir, cells)
  BY <1>7, <1>12, <1>14, ResizeFine
<1>15. \/ \E p \in Tiles!PanesIn(tree) :
              \/ \E orient \in {"horizontal", "vertical"} : Tiles!SplitPane(p, orient)
              \/ Tiles!ClosePane(p) \/ Tiles!ToggleOrientation(p) \/ Tiles!Equalize(p) \/ Tiles!ToggleZoom(p)
       \/ \E p \in Tiles!PanesIn(tree) :
              \/ \E orient, growing : \E cells \in Amounts : Tiles!Resize(p, orient, growing, cells)
              \/ \E dir \in Tiles!Directions : Tiles!Swap(p, dir) \/ \E cells \in Amounts : Tiles!ResizeToward(p, dir, cells)
       \/ Tiles!EqualizeTab \/ Tiles!Snapshot \/ Tiles!Press \/ Tiles!Release
       \/ \E size \in Areas : Tiles!WindowSized(size)
       \/ \E pixels \in Moves : Tiles!Move(pixels)
  BY DEF Tiles!Next, Tiles!Across, Tiles!Down
<1> QED BY <1>6, <1>9, <1>10, <1>11, <1>13, <1>14, <1>15, MoveFine

LEMMA TilesInvTiled == TilesInv => Tiles!Tiled
<1> SUFFICES ASSUME TilesInv PROVE Tiles!Tiled
  OBVIOUS
<1>1. TileTree(shown.tree) /\ area \in Nat \X Nat
  BY DEF TilesInv, ShownFine
<1> DEFINE rects == Tiles!Rects(shown.tree, 0, area)
           cells == Tiles!CellsOf(Tiles!Whole(area))
<1>2. /\ \A p \in DOMAIN rects : Tiles!CellsOf(rects[p]) \subseteq cells
      /\ \A cell \in cells : Cardinality({p \in DOMAIN rects : cell \in Tiles!CellsOf(rects[p])}) = 1
  BY <1>1, TreeTiled
<1>3. \A cell \in cells : Tiles!Cardinality({p \in DOMAIN rects : cell \in Tiles!CellsOf(rects[p])}) = 1
  <2> HIDE DEF rects, cells
  <2> QED BY <1>2, SameCount
<1> QED BY <1>2, <1>3 DEF Tiles!Tiled

(* Of the rectangles alone: the panes the UI shows fill the tab, without   *)
(* gap or overlap (layout.rs, compute_rects).                              *)
THEOREM TilesTiled == Tiles!Spec => []Tiles!Tiled
<1>1. Tiles!Init => TilesInv
  BY TilesInit
<1>2. TilesInv /\ [Tiles!Next]_(Tiles!vars) => TilesInv'
  <2>1. TilesInv /\ UNCHANGED Tiles!vars => TilesInv'
    BY DEF Tiles!vars, Tiles!host, Tiles!window, TilesInv
  <2> QED BY <2>1, TilesStep
<1>3. TilesInv => Tiles!Tiled
  BY TilesInvTiled
<1> QED BY <1>1, <1>2, <1>3, PTL DEF Tiles!Spec

(* No split, close, trade, resize of the host or drag of a splitter, of    *)
(* whatever ratio and in a window of whatever size, leaves a cell of the   *)
(* tab to no pane or to two (pane_layout.rs, layout.rs).                   *)
THEOREM PanesTileHolds == BothSpec => []PanesTile
<1>1. BothInit => TilesInv
  BY TilesInit DEF BothInit
<1>2. TilesInv /\ [BothNext]_<<vars, part, rectangles>> => TilesInv'
  <2> SUFFICES ASSUME TilesInv, [BothNext]_<<vars, part, rectangles>> PROVE TilesInv'
    OBVIOUS
  <2>1. CASE UNCHANGED rectangles
    BY <2>1 DEF rectangles, TilesInv
  <2> QED BY <2>1, TilesStep DEF BothNext, Over
<1>3. TilesInv => PanesTile
  BY TilesInvTiled DEF PanesTile
<1> QED BY <1>1, <1>2, <1>3, PTL DEF BothSpec

-----------------------------------------------------------------------------
(* Fractions are ordered.                                                  *)
Fraction == Int \X (Nat \ {0})

LEMMA Times ==
  ASSUME NEW a \in Int, NEW b \in Int, NEW c \in Nat, a <= b
  PROVE  a * c <= b * c
<1>1. PICK k \in Nat : b = a + k
  <2>1. b - a \in Nat /\ b = a + (b - a)
    OBVIOUS
  <2> QED BY <2>1
<1>2. b * c = a * c + k * c /\ k * c \in Nat /\ a * c \in Int
  BY <1>1
<1> QED BY <1>2

LEMMA Untimes ==
  ASSUME NEW a \in Int, NEW b \in Int, NEW c \in Nat \ {0}, a * c <= b * c
  PROVE  a <= b
<1>1. a * c \in Int /\ b * c \in Int /\ c * a = a * c /\ c * b = b * c
  OBVIOUS
<1>2. c * a < c * b + c
  BY <1>1
<1> QED BY <1>2, Fewer

LEMMA AtMostIs ==
  ASSUME NEW f \in Fraction, NEW g \in Fraction
  PROVE  /\ Tiles!AtMost(f, g) <=> f[1] * g[2] <= g[1] * f[2]
         /\ f[1] \in Int /\ f[2] \in Nat \ {0} /\ g[1] \in Int /\ g[2] \in Nat \ {0}
         /\ f[1] * g[2] \in Int /\ g[1] * f[2] \in Int
<1>1. f[1] \in Int /\ f[2] \in Nat \ {0} /\ g[1] \in Int /\ g[2] \in Nat \ {0}
  BY DEF Fraction
<1> DEFINE a == f[1]
           b == f[2]
           c == g[1]
           d == g[2]
<1>2. Tiles!AtMost(f, g) <=> a * d <= c * b
  BY DEF Tiles!AtMost
<1> HIDE DEF a, b, c, d
<1>3. a * d \in Int /\ c * b \in Int
  BY <1>1 DEF a, b, c, d
<1> QED BY <1>1, <1>2, <1>3 DEF a, b, c, d

LEMMA FractionsOrdered ==
  /\ \A f, g \in Fraction : Tiles!AtMost(f, g) \/ Tiles!AtMost(g, f)
  /\ \A f, g, h \in Fraction : Tiles!AtMost(f, g) /\ Tiles!AtMost(g, h) => Tiles!AtMost(f, h)
<1>1. ASSUME NEW f \in Fraction, NEW g \in Fraction PROVE Tiles!AtMost(f, g) \/ Tiles!AtMost(g, f)
  <2> DEFINE m == f[1] * g[2]
             n == g[1] * f[2]
  <2>1. m \in Int /\ n \in Int /\ (Tiles!AtMost(f, g) <=> m <= n)
    BY AtMostIs
  <2>2. Tiles!AtMost(g, f) <=> n <= m
    BY AtMostIs
  <2> HIDE DEF m, n
  <2> QED BY <2>1, <2>2
<1>2. ASSUME NEW f \in Fraction, NEW g \in Fraction, NEW h \in Fraction, Tiles!AtMost(f, g), Tiles!AtMost(g, h)
      PROVE  Tiles!AtMost(f, h)
  <2> DEFINE a == f[1]
             b == f[2]
             c == g[1]
             d == g[2]
             k == h[1]
             l == h[2]
  <2>1. a * d <= c * b /\ a \in Int /\ b \in Nat \ {0} /\ c \in Int /\ d \in Nat \ {0}
    BY <1>2, AtMostIs
  <2>2. c * l <= k * d /\ k \in Int /\ l \in Nat \ {0}
    BY <1>2, AtMostIs
  <2>3. Tiles!AtMost(f, h) <=> a * l <= k * b
    BY AtMostIs
  <2> HIDE DEF a, b, c, d, k, l
  <2>4. (a * d) * l <= (c * b) * l
    BY <2>1, <2>2, Times
  <2>5. (c * l) * b <= (k * d) * b
    BY <2>1, <2>2, Times
  <2>6. (a * d) * l = (a * l) * d /\ (c * b) * l = (c * l) * b /\ (k * d) * b = (k * b) * d
    BY <2>1, <2>2
  <2>7. (a * l) * d \in Int /\ (c * l) * b \in Int /\ (k * b) * d \in Int /\ a * l \in Int /\ k * b \in Int
    BY <2>1, <2>2
  <2>8. (a * l) * d <= (k * b) * d
    BY <2>4, <2>5, <2>6, <2>7
  <2>9. a * l <= k * b
    BY <2>1, <2>7, <2>8, Untimes
  <2> QED BY <2>3, <2>9
<1> QED BY <1>1, <1>2

LEMMA Clamped ==
  ASSUME NEW r \in Fraction, NEW x \in Fraction, NEW lo \in Fraction, NEW hi \in Fraction,
         Tiles!AtMost(lo, r), Tiles!AtMost(r, hi), NEW v, v = Tiles!Smaller(Tiles!Greater(x, lo), hi)
  PROVE  /\ v \in Fraction
         /\ Tiles!AtMost(r, x) => Tiles!AtMost(r, v) /\ Tiles!AtMost(v, x)
         /\ Tiles!AtMost(x, r) => Tiles!AtMost(x, v) /\ Tiles!AtMost(v, r)
<1> DEFINE y == Tiles!Greater(x, lo)
<1>1. y = IF Tiles!AtMost(x, lo) THEN lo ELSE x
  BY DEF Tiles!Greater
<1>2. v = IF Tiles!AtMost(y, hi) THEN y ELSE hi
  BY DEF Tiles!Smaller
<1> HIDE DEF y
<1> QED BY <1>1, <1>2, FractionsOrdered

(* Rounding keeps the order, and a whole number of cells.                  *)
LEMMA RoundedMore ==
  ASSUME NEW f \in Fraction, NEW g \in Fraction, NEW w \in Nat, Tiles!AtMost(f, g)
  PROVE  Tiles!Rounded(f, w) \in Int /\ Tiles!Rounded(g, w) \in Int /\ Tiles!Rounded(f, w) <= Tiles!Rounded(g, w)
<1> DEFINE a == f[1]
           b == f[2]
           c == g[1]
           d == g[2]
           m == 2 * a * w + b
           n == 2 * c * w + d
           q == m \div (2 * b)
           s == n \div (2 * d)
<1>1. a * d <= c * b /\ a \in Int /\ b \in Nat \ {0} /\ c \in Int /\ d \in Nat \ {0}
  BY AtMostIs
<1>2. Tiles!Rounded(f, w) = q /\ Tiles!Rounded(g, w) = s
  BY DEF Tiles!Rounded
<1> HIDE DEF a, b, c, d
<1> DEFINE i == a * w
           j == c * w
<1>3. i \in Int /\ j \in Int /\ m = 2 * i + b /\ n = 2 * j + d
  BY <1>1
<1> HIDE DEF m, n
<1>4. m \in Int /\ n \in Int /\ 2 * b \in Nat \ {0} /\ 2 * d \in Nat \ {0}
  BY <1>1, <1>3
<1>5. q \in Int /\ (2 * b) * q <= m
  BY <1>4, Quotient
<1>6. s \in Int /\ n < (2 * d) * s + 2 * d
  BY <1>4, Quotient
<1> HIDE DEF q, s
<1> DEFINE z == 2 * q - 1
<1>7. z \in Int /\ z * b <= 2 * i
  <2>1. b * q \in Int /\ (2 * b) * q = 2 * (b * q) /\ z * b = 2 * (b * q) - b
    BY <1>1, <1>5
  <2> QED BY <1>1, <1>3, <1>5, <2>1
<1>8. z * d <= 2 * j
  <2> HIDE DEF z, i, j
  <2>1. (z * b) * d <= (2 * i) * d
    <3>1. z * b \in Int /\ 2 * i \in Int
      BY <1>1, <1>3, <1>7
    <3> QED BY <1>1, <1>7, <3>1, Times
  <2>2. (a * d) * (2 * w) <= (c * b) * (2 * w)
    <3>1. a * d \in Int /\ c * b \in Int /\ 2 * w \in Nat
      BY <1>1
    <3> QED BY <1>1, <3>1, Times
  <2>3. (2 * i) * d = (a * d) * (2 * w) /\ (2 * j) * b = (c * b) * (2 * w)
    BY <1>1 DEF i, j
  <2>4. (z * d) * b = (z * b) * d /\ z * d \in Int /\ 2 * j \in Int
    BY <1>1, <1>3, <1>7
  <2>5. (z * d) * b <= (2 * j) * b
    <3>1. (z * d) * b \in Int /\ (2 * i) * d \in Int /\ (2 * j) * b \in Int
      BY <1>1, <1>3, <2>4
    <3> QED BY <2>1, <2>2, <2>3, <2>4, <3>1
  <2> QED BY <1>1, <2>4, <2>5, Untimes
<1>9. (2 * d) * q < (2 * d) * s + 2 * d
  <2>1. d * q \in Int /\ (2 * d) * q = 2 * (d * q) /\ z * d = 2 * (d * q) - d
    BY <1>1, <1>5
  <2>2. (2 * d) * q <= n
    BY <1>1, <1>3, <1>8, <2>1
  <2>3. (2 * d) * s \in Int
    BY <1>4, <1>6
  <2> QED BY <1>4, <1>6, <2>1, <2>2, <2>3
<1>10. q <= s
  BY <1>4, <1>5, <1>6, <1>9, Fewer
<1> QED BY <1>2, <1>5, <1>6, <1>10

LEMMA RoundedShift ==
  ASSUME NEW r \in Fraction, NEW w \in Nat \ {0}, NEW cells \in Int
  PROVE  /\ Tiles!Plus(r, <<cells, w>>) \in Fraction
         /\ Tiles!Rounded(Tiles!Plus(r, <<cells, w>>), w) = Tiles!Rounded(r, w) + cells
         /\ cells >= 0 => Tiles!AtMost(r, Tiles!Plus(r, <<cells, w>>))
         /\ cells <= 0 => Tiles!AtMost(Tiles!Plus(r, <<cells, w>>), r)
<1> DEFINE a == r[1]
           b == r[2]
           x == Tiles!Plus(r, <<cells, w>>)
           m == a * w + cells * b
           n == b * w
           i == a * w
           k == cells * b
           q == (2 * a * w + b) \div (2 * b)
           s == (2 * m * w + n) \div (2 * n)
<1>1. a \in Int /\ b \in Nat \ {0} /\ r = <<a, b>>
  BY DEF Fraction
<1>2. x = <<m, n>>
  BY DEF Tiles!Plus
<1> HIDE DEF a, b
<1>3. i \in Int /\ k \in Int /\ m \in Int /\ n \in Nat \ {0}
  BY <1>1
<1>4. x \in Fraction
  BY <1>2, <1>3 DEF Fraction
<1>5. Tiles!Rounded(r, w) = q
  BY <1>1 DEF Tiles!Rounded
<1>6. Tiles!Rounded(x, w) = s
  BY <1>2 DEF Tiles!Rounded
<1>7. Tiles!AtMost(r, x) <=> a * n <= m * b
  BY <1>1, <1>2 DEF Tiles!AtMost
<1>8. Tiles!AtMost(x, r) <=> m * b <= a * n
  BY <1>1, <1>2 DEF Tiles!AtMost
<1>9. m * b = a * n + k * b /\ a * n \in Int
  BY <1>1, <1>3
<1>10. cells >= 0 => k * b >= 0
  BY <1>1, Times
<1>11. cells <= 0 => k * b <= 0
  BY <1>1, Times
<1>12. s = q + cells
  <2> DEFINE l == 2 * b
             y == 2 * i + b
             z == l * q
  <2>1. q \in Int /\ z <= y /\ y < z + l /\ l \in Nat \ {0} /\ y \in Int /\ z \in Int
    <3>1. y = 2 * a * w + b /\ y \in Int /\ l \in Nat \ {0}
      BY <1>1, <1>3
    <3>2. q = y \div l
      BY <3>1
    <3> HIDE DEF q, y, l
    <3>3. y \div l \in Int /\ l * (y \div l) <= y /\ y < l * (y \div l) + l
      BY <3>1, Quotient
    <3> QED BY <3>1, <3>2, <3>3
  <2> HIDE DEF q
  <2>2. 2 * m * w + n = w * (y + l * cells) /\ 2 * n = w * l
    BY <1>1, <1>3
  <2>3. 2 * n \in Nat \ {0} /\ 2 * m * w + n \in Int
    BY <1>1, <1>3
  <2>4. s \in Int /\ (2 * n) * s <= 2 * m * w + n /\ 2 * m * w + n < (2 * n) * s + 2 * n
    BY <2>3, Quotient
  <2> HIDE DEF s, m, n, l, y, z, i, k
  <2>5. l * cells \in Int /\ y + l * cells \in Int /\ l * s \in Int /\ w * (l * s) = (2 * n) * s
    BY <2>1, <2>2, <2>4
  <2>6. l * s <= y + l * cells
    <3>1. (l * s) * w <= (y + l * cells) * w
      BY <2>2, <2>4, <2>5
    <3> QED BY <2>5, <3>1, Untimes
  <2>7. y + l * cells < l * s + l
    <3>1. ASSUME l * s + l <= y + l * cells PROVE FALSE
      <4>1. l * s + l \in Int /\ w \in Nat
        BY <2>1, <2>5
      <4>2. (l * s + l) * w <= (y + l * cells) * w
        BY <2>5, <3>1, <4>1, Times
      <4>3. (l * s + l) * w = (2 * n) * s + 2 * n
        BY <2>1, <2>2, <2>5
      <4>4. (y + l * cells) * w = 2 * m * w + n
        BY <2>2, <2>5
      <4>5. (2 * n) * s + 2 * n \in Int
        BY <2>3, <2>4
      <4> QED BY <2>3, <2>4, <4>2, <4>3, <4>4, <4>5
    <3> QED BY <2>1, <2>5, <3>1
  <2>8. l * (s - cells) = l * s - l * cells /\ s - cells \in Int
    BY <2>1, <2>4
  <2>9. s - cells <= q
    <3>1. l * (s - cells) < l * q + l
      BY <2>1, <2>5, <2>6, <2>8 DEF z
    <3> QED BY <2>1, <2>8, <3>1, Fewer
  <2>10. q <= s - cells
    <3>1. l * q < l * (s - cells) + l
      BY <2>1, <2>5, <2>7, <2>8 DEF z
    <3> QED BY <2>1, <2>8, <3>1, Fewer
  <2> QED BY <2>1, <2>4, <2>9, <2>10
<1> HIDE DEF x, q, s, m, n, k
<1>13. (cells >= 0 => Tiles!AtMost(r, x)) /\ (cells <= 0 => Tiles!AtMost(x, r))
  <2> DEFINE c == a * n
             d == m * b
             e == k * b
  <2>1. c \in Int /\ e \in Int /\ d = c + e
    BY <1>1, <1>3, <1>9
  <2>2. (Tiles!AtMost(r, x) <=> c <= d) /\ (Tiles!AtMost(x, r) <=> d <= c)
    BY <1>7, <1>8
  <2>3. (cells >= 0 => e >= 0) /\ (cells <= 0 => e <= 0)
    BY <1>10, <1>11
  <2> HIDE DEF c, d, e
  <2> QED BY <2>1, <2>2, <2>3
<1>14. Tiles!Rounded(x, w) = Tiles!Rounded(r, w) + cells
  BY <1>5, <1>6, <1>12
<1> QED BY <1>4, <1>13, <1>14 DEF x

LEMMA ReducedSame ==
  ASSUME NEW r, IsRatio(r), NEW w \in Nat
  PROVE  Tiles!Reduced(r) \in Fraction /\ Tiles!Rounded(Tiles!Reduced(r), w) = Tiles!Rounded(r, w)
<1> DEFINE v == Tiles!Reduced(r)
<1>1. r \in Fraction /\ v \in Fraction
  BY ReducedRatio DEF IsRatio, Fraction
<1>2. v[1] * r[2] = r[1] * v[2]
  <2> DEFINE a == r[1]
             b == r[2]
             S == {n \in 1 .. b : a % n = 0 /\ b % n = 0}
             c == Tiles!Max(S)
  <2>1. a \in Nat /\ b \in Nat \ {0} /\ a <= b
    BY DEF IsRatio
  <2>2. v = <<a \div c, b \div c>>
    BY DEF Tiles!Reduced
  <2> HIDE DEF a, b, v
  <2>3. 1 \in S
    BY <2>1
  <2>4. c \in S
    <3>1. S \in SUBSET Int /\ S # {} /\ b \in Int /\ \A x \in S : x <= b
      BY <2>1, <2>3
    <3> HIDE DEF S
    <3> QED BY <3>1, Greatest
  <2> HIDE DEF c
  <2>5. c \in Nat \ {0} /\ a % c = 0 /\ b % c = 0
    BY <2>1, <2>4
  <2> DEFINE k == a \div c
             l == b \div c
  <2>6. a = c * k /\ b = c * l /\ k \in Int /\ l \in Int
    BY <2>1, <2>5
  <2> HIDE DEF k, l
  <2>7. k * b = a * l
    BY <2>1, <2>5, <2>6
  <2>8. v[1] = k /\ v[2] = l
    BY <2>2 DEF k, l
  <2> QED BY <2>7, <2>8 DEF a, b
<1> HIDE DEF v
<1>3. Tiles!AtMost(r, v) /\ Tiles!AtMost(v, r)
  <2> DEFINE m == v[1] * r[2]
             n == r[1] * v[2]
  <2>1. m \in Int /\ n \in Int /\ (Tiles!AtMost(v, r) <=> m <= n)
    BY <1>1, AtMostIs
  <2>2. Tiles!AtMost(r, v) <=> n <= m
    BY <1>1, AtMostIs
  <2>3. m = n
    BY <1>2
  <2> HIDE DEF m, n
  <2> QED BY <2>1, <2>2, <2>3
<1>4. Tiles!Rounded(r, w) \in Int /\ Tiles!Rounded(v, w) \in Int /\ Tiles!Rounded(r, w) <= Tiles!Rounded(v, w)
  BY <1>1, <1>3, RoundedMore
<1>5. Tiles!Rounded(v, w) <= Tiles!Rounded(r, w)
  BY <1>1, <1>3, RoundedMore
<1>6. Tiles!Rounded(v, w) = Tiles!Rounded(r, w)
  BY <1>4, <1>5
<1> QED BY <1>1, <1>6 DEF v

-----------------------------------------------------------------------------
(* How wide and how high what is below a split is.                         *)
LEMMA HalfExtents ==
  ASSUME NEW rect \in Rect, NEW node, Halvable(node), NEW orient \in {"horizontal", "vertical"}, NEW j \in {1, 2},
         NEW cut, cut = Tiles!Rounded(node.ratio, Tiles!Extent(rect, orient))
  PROVE  Tiles!Extent(Tiles!Half(rect, node, j), orient) =
           IF node.split # orient THEN Tiles!Extent(rect, orient)
           ELSE IF j = 1 THEN cut ELSE Tiles!Extent(rect, orient) - cut
<1>1. rect.x \in Nat /\ rect.y \in Nat /\ rect.w \in Nat /\ rect.h \in Nat
  BY DEF Rect
<1>2. Tiles!Extent(rect, "horizontal") = rect.w /\ Tiles!Extent(rect, "vertical") = rect.h
  BY DEF Tiles!Extent, Tiles!Across
<1>3. \A a, b, c, d : /\ Tiles!Extent(RectAt(a, b, c, d), "horizontal") = c
                      /\ Tiles!Extent(RectAt(a, b, c, d), "vertical") = d
  BY DEF Tiles!Extent, Tiles!Across, RectAt
<1>4. PICK c \in Nat :
        /\ c = Tiles!Rounded(node.ratio, Tiles!Extent(rect, node.split))
        /\ \/ /\ node.split = "horizontal"
              /\ Tiles!Half(rect, node, 1) = RectAt(rect.x, rect.y, c, rect.h)
              /\ Tiles!Half(rect, node, 2) = RectAt(rect.x + c, rect.y, rect.w - c, rect.h)
           \/ /\ node.split = "vertical"
              /\ Tiles!Half(rect, node, 1) = RectAt(rect.x, rect.y, rect.w, c)
              /\ Tiles!Half(rect, node, 2) = RectAt(rect.x, rect.y + c, rect.w, rect.h - c)
  BY HalvesAre
<1>5. CASE node.split = "horizontal"
  BY <1>2, <1>3, <1>4, <1>5
<1>6. CASE node.split = "vertical"
  BY <1>2, <1>3, <1>4, <1>6
<1> QED BY <1>5, <1>6 DEF Halvable

(* Below a half are no more splits of that orientation.                    *)
Plain(t, orient, s, r) ==
  \A q, e \in Paths : r = q \o e /\ q # <<>> /\ e # <<>> => t[s \o q].split # orient

LEMMA ExtentBelow ==
  ASSUME NEW t, TileTree(t), NEW total \in Rect, NEW f, PlacedBy(t, total, f),
         NEW orient \in {"horizontal", "vertical"}, NEW s \in Paths
  PROVE  \A r \in Paths : r # <<>> /\ s \o r \in DOMAIN t /\ Plain(t, orient, s, r) =>
           Tiles!Extent(f[s \o r], orient) = Tiles!Extent(Tiles!Half(f[s], t[s], r[1]), orient)
<1> DEFINE OK(r) == Tiles!Extent(f[s \o r], orient) = Tiles!Extent(Tiles!Half(f[s], t[s], r[1]), orient)
           T == {n \in Nat : \A r \in Paths : Len(r) = n + 1 /\ s \o r \in DOMAIN t /\ Plain(t, orient, s, r) => OK(r)}
<1>1. ASSUME NEW r \in Paths, r # <<>>, s \o r \in DOMAIN t
      PROVE  /\ Front(r) \in Paths /\ s \o Front(r) \in DOMAIN t /\ t[s \o Front(r)].pane = 0
             /\ f[s \o r] = Tiles!Half(f[s \o Front(r)], t[s \o Front(r)], Last(r))
  <2>1. s \o r # <<>> /\ Front(s \o r) = s \o Front(r) /\ Front(r) \in Paths /\ Last(s \o r) = Last(r)
    BY <1>1, PathSplit
  <2>2. Front(s \o r) \in DOMAIN t /\ t[Front(s \o r)].pane = 0
    BY <1>1, <2>1, TreeParts
  <2>3. f[s \o r] = Tiles!Half(f[Front(s \o r)], t[Front(s \o r)], Last(s \o r))
    BY <1>1, <2>1 DEF PlacedBy
  <2> QED BY <2>1, <2>2, <2>3
<1>2. 0 \in T
  <2>1. ASSUME NEW r \in Paths, Len(r) = 0 + 1, s \o r \in DOMAIN t PROVE OK(r)
    <3>0. Len(r) = 1
      <4> HIDE DEF OK
      <4> QED BY <2>1
    <3>1. r # <<>>
      BY <3>0
    <3>2. Front(r) \in Paths /\ Len(Front(r)) = 0
      BY <2>1, <3>1, PathParts
    <3>3. Front(r) = <<>>
      BY <3>2 DEF Paths
    <3>4. s \o Front(r) = s
      BY <3>3, JoinedNil
    <3>5. Last(r) = r[1]
      BY <3>0 DEF Last
    <3> QED BY <1>1, <2>1, <3>1, <3>4, <3>5
  <2> QED BY <2>1
<1>3. ASSUME NEW n \in T PROVE n + 1 \in T
  <2>1. ASSUME NEW r \in Paths, Len(r) = (n + 1) + 1, s \o r \in DOMAIN t, Plain(t, orient, s, r) PROVE OK(r)
    <3> DEFINE q == Front(r)
               k == Last(r)
               x == s \o q
    <3>1. r # <<>> /\ n \in Nat
      BY <2>1
    <3>2. q \in Paths /\ Len(q) = n + 1 /\ k \in {1, 2} /\ r = Append(q, k)
      BY <2>1, <3>1, PathParts
    <3>3. x \in DOMAIN t /\ t[x].pane = 0 /\ f[s \o r] = Tiles!Half(f[x], t[x], k)
      BY <1>1, <2>1, <3>1
    <3> HIDE DEF q, k
    <3>4. Plain(t, orient, s, q)
      <4>1. ASSUME NEW a \in Paths, NEW e \in Paths, q = a \o e, a # <<>>, e # <<>> PROVE t[s \o a].split # orient
        <5>1. Append(a \o e, k) = a \o Append(e, k) /\ Append(e, k) \in Paths
          BY <3>2, JoinedEnd
        <5>2. r = a \o Append(e, k)
          BY <3>2, <4>1, <5>1
        <5>3. Append(e, k) # <<>>
          BY <3>2, PathGrown
        <5> QED BY <2>1, <4>1, <5>1, <5>2, <5>3 DEF Plain
      <4> QED BY <4>1 DEF Plain
    <3>5. Tiles!Extent(f[x], orient) = Tiles!Extent(Tiles!Half(f[s], t[s], q[1]), orient)
      BY <3>2, <3>3, <3>4
    <3>6. t[x].split # orient
      <4>1. <<k>> \in Paths /\ <<k>> # <<>>
        BY <3>2 DEF Paths
      <4>2. r = q \o <<k>>
        BY <3>2, AppendIsConcat DEF Paths
      <4>3. q # <<>>
        BY <3>1, <3>2
      <4> QED BY <2>1, <3>2, <4>1, <4>2, <4>3 DEF Plain
    <3>7. f[x] \in Rect /\ Halvable(t[x])
      BY <3>3, TreeParts, PlacedRects
    <3> HIDE DEF x
    <3>8. Tiles!Extent(f[s \o r], orient) = Tiles!Extent(f[x], orient)
      BY <3>2, <3>3, <3>6, <3>7, HalfExtents
    <3>9. r[1] = q[1]
      BY <3>1, <3>2 DEF Paths
    <3> QED BY <3>5, <3>8, <3>9
  <2>2. n + 1 \in Nat
    OBVIOUS
  <2> HIDE DEF OK
  <2> QED BY <2>1, <2>2
<1>4. ASSUME NEW r \in Paths, r # <<>>, s \o r \in DOMAIN t, Plain(t, orient, s, r) PROVE OK(r)
  <2>1. PICK n \in Nat : Len(r) = n + 1
    <3>1. Len(r) \in Nat /\ Len(r) > 0
      BY <1>4, PathParts
    <3>2. Len(r) - 1 \in Nat /\ Len(r) = (Len(r) - 1) + 1
      BY <3>1
    <3> QED BY <3>2
  <2>2. n \in T
    <3> HIDE DEF T
    <3>1. T \in SUBSET Nat
      BY DEF T
    <3> QED BY <1>2, <1>3, <3>1, SetInduction
  <2> HIDE DEF OK
  <2> QED BY <1>4, <2>1, <2>2
<1> QED BY <1>4

(* What is not below a split does not feel its ratio.                      *)
LEMMA ExtentAbove ==
  ASSUME NEW t, TileTree(t), NEW total \in Rect, NEW f, PlacedBy(t, total, f),
         NEW u, DOMAIN u = DOMAIN t, NEW g, PlacedBy(u, total, g), NEW s \in DOMAIN t,
         \A a \in DOMAIN t : a # s => u[a] = t[a]
  PROVE  g[s] = f[s]
<1> DEFINE T == {n \in Nat : \A a \in DOMAIN t : Len(a) = n /\ n <= Len(s) => g[a] = f[a]}
<1>1. 0 \in T
  <2>1. ASSUME NEW a \in DOMAIN t, Len(a) = 0 PROVE g[a] = f[a]
    <3>1. a = <<>>
      BY <2>1, TreeParts DEF Paths
    <3> QED BY <3>1 DEF PlacedBy
  <2> QED BY <2>1
<1>2. ASSUME NEW n \in T PROVE n + 1 \in T
  <2>1. ASSUME NEW a \in DOMAIN t, Len(a) = n + 1, n + 1 <= Len(s) PROVE g[a] = f[a]
    <3> DEFINE b == Front(a)
    <3>1. n \in Nat /\ Len(s) \in Nat /\ a # <<>>
      <4>1. s \in Paths
        BY TreeParts
      <4> QED BY <2>1, <4>1 DEF Paths
    <3>2. b \in DOMAIN t /\ Len(b) = n
      BY <2>1, <3>1, TreeParts
    <3>3. f[a] = Tiles!Half(f[b], t[b], Last(a)) /\ g[a] = Tiles!Half(g[b], u[b], Last(a))
      BY <3>1 DEF PlacedBy
    <3> HIDE DEF b
    <3>4. n <= Len(s) /\ n # Len(s)
      BY <2>1, <3>1
    <3>5. g[b] = f[b]
      BY <3>2, <3>4
    <3>6. u[b] = t[b]
      BY <3>2, <3>4
    <3> QED BY <3>3, <3>5, <3>6
  <2>2. n + 1 \in Nat
    OBVIOUS
  <2> QED BY <2>1, <2>2
<1>3. Len(s) \in Nat
  <2>1. s \in Paths
    BY TreeParts
  <2> QED BY <2>1 DEF Paths
<1>4. Len(s) \in T
  <2> HIDE DEF T
  <2>1. T \in SUBSET Nat
    BY DEF T
  <2> QED BY <1>1, <1>2, <1>3, <2>1, SetInduction
<1> QED BY <1>3, <1>4

-----------------------------------------------------------------------------
(* The lowest split above a pane.                                          *)
LEMMA UpsAre ==
  ASSUME NEW a \in Paths
  PROVE  /\ \A x \in Tiles!Ups(a) : x \in Paths /\ Len(x) \in 0 .. Len(a) /\ \E r \in Paths : r # <<>> /\ a = x \o r
         /\ \A x, r \in Paths : r # <<>> /\ a = x \o r => x \in Tiles!Ups(a)
<1> DEFINE m == Len(a)
<1>1. m \in Nat /\ \A i \in 1 .. m : a[i] \in {1, 2}
  BY DEF Paths
<1>2. ASSUME NEW x \in Tiles!Ups(a)
      PROVE  x \in Paths /\ Len(x) \in 0 .. m /\ \E r \in Paths : r # <<>> /\ a = x \o r
  <2>1. PICK n \in 0 .. m - 1 : x = SubSeq(a, 1, n)
    BY DEF Tiles!Ups
  <2> DEFINE r == SubSeq(a, n + 1, m)
  <2>2. n \in Int /\ n >= 0 /\ n < m
    BY <1>1, <2>1
  <2> HIDE DEF m
  <2>3. x \in Seq({1, 2}) /\ Len(x) = n
    <3>1. \A i \in 1 .. n : a[i] \in {1, 2}
      BY <1>1, <2>2
    <3>2. 1 \in Int /\ n \in Int /\ (IF 1 <= n THEN n - 1 + 1 ELSE 0) = n
      BY <2>2
    <3> QED BY <2>1, <3>1, <3>2, SubSeqProperties
  <2>4. r \in Seq({1, 2}) /\ Len(r) = m - n
    <3>1. \A i \in n + 1 .. m : a[i] \in {1, 2}
      BY <1>1, <2>2
    <3>2. n + 1 \in Int /\ m \in Int /\ (IF n + 1 <= m THEN m - (n + 1) + 1 ELSE 0) = m - n
      BY <1>1, <2>2
    <3> QED BY <3>1, <3>2, SubSeqProperties
  <2>5. SubSeq(a, 1, n) \o r = SubSeq(a, 1, m)
    <3>1. 1 \in 1 .. m + 1 /\ n \in 1 - 1 .. m /\ m \in n .. m
      BY <1>1, <2>2
    <3> QED BY <3>1, ConcatAdjacentSubSeq DEF Paths, m
  <2>6. SubSeq(a, 1, m) = a
    BY SubSeqFull DEF Paths, m
  <2>7. r # <<>>
    <3> HIDE DEF r
    <3>1. Len(r) # 0
      BY <1>1, <2>2, <2>4
    <3> QED BY <3>1
  <2> HIDE DEF r
  <2>8. Len(x) \in 0 .. m
    BY <1>1, <2>2, <2>3
  <2> QED BY <2>1, <2>3, <2>4, <2>5, <2>6, <2>7, <2>8 DEF Paths
<1>3. ASSUME NEW x \in Paths, NEW r \in Paths, r # <<>>, a = x \o r PROVE x \in Tiles!Ups(a)
  <2>1. Tiles!IsPrefix(x, a)
    BY <1>3, PrefixIs
  <2>2. SubSeq(x, 1, Len(x)) = SubSeq(a, 1, Len(x))
    BY <2>1 DEF Tiles!IsPrefix
  <2>3. SubSeq(x, 1, Len(x)) = x
    BY SubSeqFull DEF Paths
  <2>4. Len(x) \in 0 .. m - 1
    <3>1. m = Len(x) + Len(r) /\ Len(x) \in Nat /\ Len(r) \in Nat
      BY <1>3, JoinedLen
    <3>2. Len(r) > 0
      BY <1>3, PathParts
    <3> HIDE DEF m
    <3> QED BY <3>1, <3>2
  <2>5. x = SubSeq(a, 1, Len(x))
    BY <2>2, <2>3
  <2> QED BY <2>4, <2>5 DEF Tiles!Ups
<1> QED BY <1>2, <1>3

LEMMA LowestIs ==
  ASSUME NEW a \in Paths, NEW above, above \subseteq Tiles!Ups(a), above # {}
  PROVE  Tiles!Lowest(above) \in above /\ \A x \in above : Len(x) <= Len(Tiles!Lowest(above))
<1> DEFINE L == {Len(x) : x \in above}
           m == Len(a)
<1>1. m \in Int /\ \A x \in above : Len(x) \in Int /\ Len(x) <= m
  BY UpsAre DEF Paths
<1>2. L \in SUBSET Int /\ L # {} /\ \A n \in L : n <= m
  BY <1>1
<1>3. PICK n \in L : \A k \in L : k <= n
  <2> HIDE DEF L, m
  <2> QED BY <1>1, <1>2, Greatest
<1>4. PICK x \in above : n = Len(x)
  OBVIOUS
<1>5. \A y \in above : Len(y) <= Len(x)
  BY <1>3, <1>4
<1> HIDE DEF L, m
<1>6. Tiles!Lowest(above) = CHOOSE path \in above : \A other \in above : Len(other) <= Len(path)
  BY DEF Tiles!Lowest
<1> QED BY <1>5, <1>6, Zenon

(* Where the pane is below that split.                                     *)
Above(t, p, orient, s) ==
  /\ s \in DOMAIN t /\ s \in Paths /\ t[s].pane = 0 /\ t[s].split = orient
  /\ \E r \in Paths : /\ r # <<>> /\ Tiles!PathOf(t, p) = s \o r /\ Plain(t, orient, s, r)
                      /\ r[1] \in {1, 2} /\ (Tiles!InFirst(t, p, s) <=> r[1] = 1)

LEMMA BelowLowest ==
  ASSUME NEW t, TileTree(t), NEW p \in Tiles!PanesIn(t), NEW orient \in {"horizontal", "vertical"},
         Tiles!SplitsAbove(t, p, orient) # {}
  PROVE  Above(t, p, orient, Tiles!Lowest(Tiles!SplitsAbove(t, p, orient)))
<1> DEFINE at == Tiles!PathOf(t, p)
           above == Tiles!SplitsAbove(t, p, orient)
           s == Tiles!Lowest(above)
<1>1. at \in DOMAIN t /\ at \in Paths
  BY PanesAt, TreeParts
<1>2. above = {path \in Tiles!Ups(at) : t[path].split = orient}
  BY DEF Tiles!SplitsAbove
<1>3. Tiles!InFirst(t, p, s) <=> at[Len(s) + 1] = 1
  BY DEF Tiles!InFirst
<1> HIDE DEF at, above, s
<1>4. s \in above /\ \A x \in above : Len(x) <= Len(s)
  <2>1. above \subseteq Tiles!Ups(at) /\ above # {} /\ s = Tiles!Lowest(above)
    BY <1>2 DEF above, s
  <2> QED BY <1>1, <2>1, LowestIs
<1>5. s \in Paths /\ t[s].split = orient /\ s \in Tiles!Ups(at)
  BY <1>1, <1>2, <1>4, UpsAre
<1>6. PICK r \in Paths : r # <<>> /\ at = s \o r
  BY <1>1, <1>5, UpsAre
<1>7. s \in DOMAIN t /\ t[s].pane = 0
  BY <1>1, <1>5, <1>6, BelowSplit
<1>8. Plain(t, orient, s, r)
  <2> SUFFICES ASSUME NEW q \in Paths, NEW e \in Paths, r = q \o e, q # <<>>, e # <<>>, t[s \o q].split = orient
               PROVE  FALSE
    BY DEF Plain
  <2> DEFINE x == s \o q
  <2>1. x \in Paths /\ Len(x) = Len(s) + Len(q) /\ Len(s) \in Nat /\ Len(q) \in Nat
    BY <1>5, JoinedPath, JoinedLen
  <2>2. x \o e = s \o (q \o e)
    BY <1>5, JoinedThree
  <2>3. at = x \o e
    BY <1>6, <2>2
  <2>4. Len(q) > 0
    BY PathParts
  <2>5. t[x].split = orient
    OBVIOUS
  <2> HIDE DEF x
  <2>6. x \in above
    <3>1. x \in Tiles!Ups(at)
      BY <1>1, <2>1, <2>3, UpsAre
    <3> QED BY <1>2, <2>5, <3>1
  <2>7. Len(x) <= Len(s)
    BY <1>4, <2>6
  <2> QED BY <2>1, <2>4, <2>7
<1>9. r[1] \in {1, 2} /\ at[Len(s) + 1] = r[1]
  <2>1. Len(r) \in Nat /\ Len(r) > 0 /\ Len(s) \in Nat
    BY <1>5, <1>6, PathParts, JoinedLen
  <2>2. \A i \in 1 .. Len(s) + Len(r) : (s \o r)[i] = IF i <= Len(s) THEN s[i] ELSE r[i - Len(s)]
    BY <1>5, ConcatProperties DEF Paths
  <2> DEFINE k == Len(s)
             n == k + 1
  <2>3. n \in 1 .. k + Len(r) /\ ~(n <= k) /\ n - k = 1
    BY <2>1
  <2> HIDE DEF n, k
  <2>4. (s \o r)[n] = r[n - k]
    BY <2>2, <2>3 DEF k
  <2>5. (s \o r)[n] = r[1]
    BY <2>3, <2>4
  <2>6. r[1] \in {1, 2}
    BY <2>1 DEF Paths
  <2> QED BY <1>6, <2>5, <2>6 DEF n, k
<1>10. at = Tiles!PathOf(t, p) /\ s = Tiles!Lowest(Tiles!SplitsAbove(t, p, orient))
  BY DEF at, above, s
<1>11. Above(t, p, orient, s)
  BY <1>3, <1>5, <1>6, <1>7, <1>8, <1>9, <1>10 DEF Above
<1> QED BY <1>10, <1>11

-----------------------------------------------------------------------------
(* A resize moves the border that far or less, the way it is asked to.     *)
LEMMA CutMoved ==
  ASSUME NEW r, IsRatio(r), NEW w \in Nat \ {0}, NEW d \in Int, NEW lo \in Nat \X (Nat \ {0}),
         NEW hi \in Fraction, hi[1] <= hi[2],
         Tiles!AtMost(lo, r), Tiles!AtMost(r, hi), Tiles!AtMost(lo, hi), NEW v,
         v = Tiles!Reduced(Tiles!Smaller(Tiles!Greater(Tiles!Plus(r, <<d, w>>), lo), hi))
  PROVE  /\ Tiles!Rounded(r, w) \in Int /\ Tiles!Rounded(v, w) \in Int
         /\ d >= 0 => Tiles!Rounded(v, w) - Tiles!Rounded(r, w) \in 0 .. d
         /\ d <= 0 => Tiles!Rounded(v, w) - Tiles!Rounded(r, w) \in d .. 0
<1> DEFINE x == Tiles!Plus(r, <<d, w>>)
           y == Tiles!Smaller(Tiles!Greater(x, lo), hi)
           before == Tiles!Rounded(r, w)
           after == Tiles!Rounded(v, w)
<1>1. r \in Fraction /\ lo \in Fraction
  BY DEF IsRatio, Fraction
<1>2. /\ x \in Fraction /\ Tiles!Rounded(x, w) = before + d
      /\ d >= 0 => Tiles!AtMost(r, x)
      /\ d <= 0 => Tiles!AtMost(x, r)
  BY <1>1, RoundedShift
<1> HIDE DEF x
<1>3. /\ y \in Fraction
      /\ Tiles!AtMost(r, x) => Tiles!AtMost(r, y) /\ Tiles!AtMost(y, x)
      /\ Tiles!AtMost(x, r) => Tiles!AtMost(x, y) /\ Tiles!AtMost(y, r)
  BY <1>1, <1>2, Clamped
<1>4. IsRatio(y)
  BY <1>2, Kept DEF Fraction
<1>5. v = Tiles!Reduced(y)
  BY DEF x
<1> HIDE DEF y
<1>6. after = Tiles!Rounded(y, w)
  BY <1>4, <1>5, ReducedSame
<1>7. before \in 0 .. w /\ Tiles!Rounded(y, w) \in 0 .. w
  BY <1>4, Cut
<1>8. CASE d >= 0
  <2>1. Tiles!Rounded(r, w) <= Tiles!Rounded(y, w)
    BY <1>1, <1>2, <1>3, <1>8, RoundedMore
  <2>2. Tiles!Rounded(y, w) <= Tiles!Rounded(x, w)
    BY <1>2, <1>3, <1>8, RoundedMore
  <2>3. before <= after /\ after <= before + d
    BY <1>2, <1>6, <2>1, <2>2
  <2> HIDE DEF before, after
  <2>4. before \in Int /\ after \in Int
    BY <1>6, <1>7
  <2>5. after - before \in 0 .. d /\ (d <= 0 => after - before \in d .. 0)
    BY <1>8, <2>3, <2>4
  <2> QED BY <1>8, <2>4, <2>5 DEF before, after
<1>9. CASE d <= 0
  <2>1. Tiles!Rounded(y, w) <= Tiles!Rounded(r, w)
    BY <1>1, <1>2, <1>3, <1>9, RoundedMore
  <2>2. Tiles!Rounded(x, w) <= Tiles!Rounded(y, w)
    BY <1>2, <1>3, <1>9, RoundedMore
  <2>3. after <= before /\ before + d <= after
    BY <1>2, <1>6, <2>1, <2>2
  <2> HIDE DEF before, after
  <2>4. before \in Int /\ after \in Int
    BY <1>6, <1>7
  <2>5. after - before \in d .. 0 /\ (d >= 0 => after - before \in 0 .. d)
    BY <1>9, <2>3, <2>4
  <2> QED BY <1>9, <2>4, <2>5 DEF before, after
<1> QED BY <1>8, <1>9

LEMMA BoundsFine ==
  ASSUME NEW t, TileTree(t), NEW s \in DOMAIN t, t[s].pane = 0, NEW w \in Nat \ {0}
  PROVE  /\ Tiles!Lo(t, s, w) \in Nat \X (Nat \ {0})
         /\ Tiles!Hi(t, s, w) \in Fraction /\ Tiles!Hi(t, s, w)[1] <= Tiles!Hi(t, s, w)[2]
<1> DEFINE one == Tiles!MinDim(t, t[s].split)[Append(s, 1)]
           two == Tiles!MinDim(t, t[s].split)[Append(s, 2)]
           lo == Tiles!Lo(t, s, w)
           hi == Tiles!Hi(t, s, w)
<1>1. one \in Nat /\ two \in Nat
  BY TreeParts, MinDimNat
<1>2. lo = Tiles!Greater(<<one, w>>, <<1, 10>>) /\ hi = Tiles!Smaller(<<w - two, w>>, <<9, 10>>)
  BY DEF Tiles!Lo, Tiles!Hi
<1> HIDE DEF one, two, lo, hi
<1>3. lo \in Nat \X (Nat \ {0})
  <2>1. lo \in {<<one, w>>, <<1, 10>>}
    BY <1>2 DEF Tiles!Greater
  <2> QED BY <1>1, <2>1
<1>4. hi \in Fraction /\ hi[1] <= hi[2]
  <2>1. hi \in {<<w - two, w>>, <<9, 10>>}
    BY <1>2 DEF Tiles!Smaller
  <2>2. w - two \in Int /\ w - two <= w
    BY <1>1
  <2> QED BY <2>1, <2>2 DEF Fraction
<1> QED BY <1>3, <1>4 DEF lo, hi

LEMMA ResizeMoves ==
  ASSUME NEW t, TileTree(t), NEW p \in Tiles!PanesIn(t), NEW orient \in {"horizontal", "vertical"},
         NEW growing \in BOOLEAN, NEW cells \in Nat, NEW size \in Nat \X Nat,
         Tiles!SplitsAbove(t, p, orient) # {}, NEW s, s = Tiles!Lowest(Tiles!SplitsAbove(t, p, orient)),
         NEW w, w = Tiles!Extent(Tiles!RectOf(t, Tiles!Whole(size))[s], orient), w # 0,
         Tiles!AtMost(Tiles!Lo(t, s, w), t[s].ratio), Tiles!AtMost(t[s].ratio, Tiles!Hi(t, s, w)),
         NEW u, u = Tiles!Resized(t, p, orient, growing, cells, size),
         NEW grown,
         grown = Tiles!Extent(Tiles!RectOf(u, Tiles!Whole(size))[Tiles!PathOf(u, p)], orient)
                 - Tiles!Extent(Tiles!RectOf(t, Tiles!Whole(size))[Tiles!PathOf(t, p)], orient)
  PROVE  IF growing THEN grown \in 0 .. cells ELSE grown \in -cells .. 0
<1> DEFINE total == Tiles!Whole(size)
           f == Tiles!RectOf(t, total)
           g == Tiles!RectOf(u, total)
           at == Tiles!PathOf(t, p)
           lo == Tiles!Lo(t, s, w)
           hi == Tiles!Hi(t, s, w)
           d == IF Tiles!InFirst(t, p, s) = growing THEN cells ELSE -cells
           v == Tiles!Reduced(Tiles!Smaller(Tiles!Greater(Tiles!Plus(t[s].ratio, <<d, w>>), lo), hi))
<1>1. total \in Rect /\ PlacedBy(t, total, f)
  BY WholeRect, PlacedAs
<1>2. /\ s \in DOMAIN t /\ s \in Paths /\ t[s].pane = 0 /\ t[s].split = orient
      /\ \E r \in Paths : /\ r # <<>> /\ at = s \o r /\ Plain(t, orient, s, r)
                          /\ r[1] \in {1, 2} /\ (Tiles!InFirst(t, p, s) <=> r[1] = 1)
  <2>1. at = Tiles!PathOf(t, p)
    OBVIOUS
  <2> HIDE DEF total, f, g, at, lo, hi, d, v
  <2>2. Above(t, p, orient, s)
    BY BelowLowest
  <2> QED BY <2>1, <2>2 DEF Above
<1>3. PICK r \in Paths : /\ r # <<>> /\ at = s \o r /\ Plain(t, orient, s, r)
                         /\ r[1] \in {1, 2} /\ (Tiles!InFirst(t, p, s) <=> r[1] = 1)
  BY <1>2
<1>4. TileTree(u)
  BY ResizedTree
<1>5. u = IF Tiles!AtMost(lo, hi) THEN [t EXCEPT ![s].ratio = v] ELSE t
  <2>1. \/ d = cells /\ Tiles!InFirst(t, p, s) = growing
        \/ d = -cells /\ Tiles!InFirst(t, p, s) # growing
    OBVIOUS
  <2>2. (IF Tiles!InFirst(t, p, s) = growing THEN <<cells, w>> ELSE <<-cells, w>>) = <<d, w>>
    BY <2>1
  <2> HIDE DEF d
  <2> QED BY <2>2 DEF Tiles!Resized
<1>6. at \in DOMAIN t /\ t[at].pane = p /\ p # 0
  BY PanesAt
<1>7. f[s] \in Rect /\ Halvable(t[s])
  BY <1>1, <1>2, PlacedRects, TreeParts
<1>8. w \in Nat \ {0}
  <2>1. w = Tiles!Extent(f[s], orient)
    OBVIOUS
  <2> HIDE DEF f
  <2> QED BY <1>7, <2>1 DEF Rect, Tiles!Extent
<1>9. Tiles!Extent(f[at], orient) = IF r[1] = 1 THEN Tiles!Rounded(t[s].ratio, w) ELSE w - Tiles!Rounded(t[s].ratio, w)
  <2>1. Tiles!Extent(f[s \o r], orient) = Tiles!Extent(Tiles!Half(f[s], t[s], r[1]), orient)
    BY <1>1, <1>2, <1>3, <1>6, ExtentBelow
  <2>2. w = Tiles!Extent(f[s], orient)
    OBVIOUS
  <2> HIDE DEF f
  <2> QED BY <1>2, <1>3, <1>7, <2>1, <2>2, HalfExtents
<1> HIDE DEF total, f, g, at, lo, hi, d, v
<1>10. grown = Tiles!Extent(g[Tiles!PathOf(u, p)], orient) - Tiles!Extent(f[at], orient)
  BY DEF f, g, at, total
<1>11. Tiles!Rounded(t[s].ratio, w) \in 0 .. w
  BY <1>7, <1>8, Cut DEF Halvable
<1>12. CASE ~Tiles!AtMost(lo, hi)
  <2>1. u = t
    BY <1>5, <1>12
  <2>2. grown = Tiles!Extent(f[at], orient) - Tiles!Extent(f[at], orient)
    BY <1>10, <2>1 DEF f, g, at
  <2>3. Tiles!Extent(f[at], orient) \in Int
    BY <1>8, <1>9, <1>11
  <2>4. grown = 0
    BY <2>2, <2>3
  <2> QED BY <2>4
<1>13. CASE Tiles!AtMost(lo, hi)
  <2>1. u = [t EXCEPT ![s].ratio = v]
    BY <1>5, <1>13
  <2>2. DOMAIN u = DOMAIN t /\ \A a \in DOMAIN t : a # s => u[a] = t[a]
    BY <2>1
  <2>3. u[s].pane = 0 /\ u[s].ratio = v /\ u[s].split = orient
    <3>1. NodeOf(t[s])
      BY <1>2 DEF TileTree
    <3>2. u[s] = [t[s] EXCEPT !.ratio = v]
      BY <1>2, <2>1
    <3> QED BY <1>2, <3>1, <3>2, RatioNode
  <2>4. PlacedBy(u, total, g)
    BY <1>4, PlacedAs DEF g
  <2>5. g[s] = f[s]
    BY <1>1, <1>2, <2>2, <2>4, ExtentAbove
  <2>6. Tiles!PathOf(u, p) = at
    <3>1. at # s
      BY <1>2, <1>6
    <3>2. at \in DOMAIN u /\ u[at].pane = p /\ p # 0
      BY <1>6, <2>2, <3>1
    <3> QED BY <1>4, <3>2, PanesAt
  <2>7. Plain(u, orient, s, r)
    <3> SUFFICES ASSUME NEW q \in Paths, NEW e \in Paths, r = q \o e, q # <<>>, e # <<>>
                 PROVE  u[s \o q].split # orient
      BY DEF Plain
    <3> DEFINE x == s \o q
    <3>1. t[x].split # orient
      BY <1>3 DEF Plain
    <3>2. x \in Paths /\ x \o e = at
      <4>1. x \in Paths
        BY <1>2, JoinedPath
      <4>2. (s \o q) \o e = s \o (q \o e)
        BY <1>2, JoinedThree
      <4>3. x \o e = s \o r
        BY <4>2
      <4> HIDE DEF x
      <4> QED BY <1>3, <4>1, <4>3
    <3>3. x # s
      <4>1. Len(x) = Len(s) + Len(q) /\ Len(s) \in Nat /\ Len(q) \in Nat /\ Len(q) > 0
        BY <1>2, JoinedLen, PathParts
      <4> HIDE DEF x
      <4> QED BY <4>1
    <3> HIDE DEF x
    <3>4. x \in DOMAIN t
      BY <1>6, <3>2, BelowSplit
    <3>5. u[x].split # orient
      BY <2>2, <3>1, <3>3, <3>4
    <3> QED BY <3>5 DEF x
  <2>8. Tiles!Extent(g[at], orient) = IF r[1] = 1 THEN Tiles!Rounded(v, w) ELSE w - Tiles!Rounded(v, w)
    <3>1. Tiles!Extent(g[s \o r], orient) = Tiles!Extent(Tiles!Half(g[s], u[s], r[1]), orient)
      <4>1. s \o r \in DOMAIN u
        BY <1>3, <1>6, <2>2
      <4> QED BY <1>1, <1>2, <1>3, <1>4, <2>4, <2>7, <4>1, ExtentBelow
    <3>2. w = Tiles!Extent(f[s], orient)
      BY DEF f, total
    <3>3. Halvable(u[s])
      BY <1>2, <1>4, <2>2, <2>3, TreeParts
    <3> QED BY <1>3, <1>7, <2>3, <2>5, <3>1, <3>2, <3>3, HalfExtents
  <2> DEFINE before == Tiles!Rounded(t[s].ratio, w)
             after == Tiles!Rounded(v, w)
  <2>9. /\ before \in Int /\ after \in Int
        /\ d >= 0 => after - before \in 0 .. d
        /\ d <= 0 => after - before \in d .. 0
    <3>1. lo \in Nat \X (Nat \ {0}) /\ hi \in Fraction /\ hi[1] <= hi[2]
      BY <1>2, <1>8, BoundsFine DEF lo, hi
    <3>2. IsRatio(t[s].ratio)
      BY <1>7 DEF Halvable
    <3>3. d \in Int
      BY DEF d
    <3>4. Tiles!AtMost(lo, t[s].ratio) /\ Tiles!AtMost(t[s].ratio, hi)
      BY DEF lo, hi
    <3> QED BY <1>8, <1>13, <3>1, <3>2, <3>3, <3>4, CutMoved DEF v
  <2>10. grown = (IF r[1] = 1 THEN after ELSE w - after) - (IF r[1] = 1 THEN before ELSE w - before)
    BY <1>9, <1>10, <2>6, <2>8
  <2>11. /\ r[1] = 1 => d = IF growing THEN cells ELSE -cells
         /\ r[1] # 1 => d = IF growing THEN -cells ELSE cells
    <3>1. Tiles!InFirst(t, p, s) \in BOOLEAN
      BY DEF Tiles!InFirst
    <3> QED BY <1>3, <3>1 DEF d
  <2> HIDE DEF before, after
  <2>12. CASE r[1] = 1
    <3>1. grown = after - before /\ d = IF growing THEN cells ELSE -cells
      BY <2>10, <2>11, <2>12
    <3> QED BY <2>9, <3>1
  <2>13. CASE r[1] # 1
    <3>1. grown = (w - after) - (w - before) /\ d = IF growing THEN -cells ELSE cells
      BY <2>10, <2>11, <2>13
    <3>2. grown = before - after
      BY <1>8, <2>9, <3>1
    <3> QED BY <2>9, <3>1, <3>2
  <2> QED BY <2>12, <2>13
<1> QED BY <1>12, <1>13

LEMMA HeedsIn ==
  ASSUME TilesInv, NEW p \in Tiles!PanesIn(tree), NEW orient \in {"horizontal", "vertical"}, NEW growing \in BOOLEAN,
         NEW cells \in Amounts, Tiles!Resize(p, orient, growing, cells), Tiles!SplitsAbove(tree, p, orient) # {},
         Tiles!Bounded(p, orient)
  PROVE  LET grown == Tiles!ExtentOf(tree', p, orient) - Tiles!ExtentOf(tree, p, orient)
         IN  IF growing THEN grown \in 0 .. cells ELSE grown \in -cells .. 0
<1> DEFINE size == Tiles!Viewport
           s == Tiles!Lowest(Tiles!SplitsAbove(tree, p, orient))
           w == Tiles!Extent(Tiles!RectOf(tree, Tiles!Whole(size))[s], orient)
           grown == Tiles!Extent(Tiles!RectOf(tree', Tiles!Whole(size))[Tiles!PathOf(tree', p)], orient)
                    - Tiles!Extent(Tiles!RectOf(tree, Tiles!Whole(size))[Tiles!PathOf(tree, p)], orient)
<1>1. TileTree(tree) /\ size \in Nat \X Nat
  <2>1. TileTree(tree) /\ SizesFine(sizes, tree) /\ Tiles!PanesIn(tree) # {}
    BY DEF TilesInv
  <2> QED BY <2>1, ViewportFine
<1>2. cells \in Nat
  BY TilesAssumption
<1>3. w # 0 /\ Tiles!AtMost(Tiles!Lo(tree, s, w), tree[s].ratio) /\ Tiles!AtMost(tree[s].ratio, Tiles!Hi(tree, s, w))
  BY DEF Tiles!Bounded
<1>4. tree' = Tiles!Resized(tree, p, orient, growing, cells, size)
  BY DEF Tiles!Resize, Tiles!Edit
<1>5. Tiles!ExtentOf(tree', p, orient) - Tiles!ExtentOf(tree, p, orient) = grown
  BY DEF Tiles!ExtentOf
<1>6. IF growing THEN grown \in 0 .. cells ELSE grown \in -cells .. 0
  <2> HIDE DEF size
  <2> QED BY <1>1, <1>2, <1>3, <1>4, ResizeMoves
<1> QED BY <1>5, <1>6

(* A pane that is asked to grow grows, one that is asked to shrink shrinks, *)
(* and neither by more than it was asked to, whatever splits are around it  *)
(* and whatever is rounded (layout.rs, resize_against_orientation).         *)
THEOREM ResizesHeed == BothSpec => ResizesHeeded
<1>1. BothInit => TilesInv
  BY TilesInit DEF BothInit
<1>2. TilesInv /\ [BothNext]_<<vars, part, rectangles>> => TilesInv'
  <2> SUFFICES ASSUME TilesInv, [BothNext]_<<vars, part, rectangles>> PROVE TilesInv'
    OBVIOUS
  <2>1. CASE UNCHANGED rectangles
    BY <2>1 DEF rectangles, TilesInv
  <2> QED BY <2>1, TilesStep DEF BothNext, Over
<1>3. TilesInv => [Tiles!ResizeHeeds]_rectangles
  BY HeedsIn DEF Tiles!ResizeHeeds, Tiles!Across, Tiles!Down
<1> QED BY <1>1, <1>2, <1>3, PTL DEF BothSpec, ResizesHeeded

=============================================================================
