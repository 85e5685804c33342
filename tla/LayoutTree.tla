------------------------------ MODULE LayoutTree ------------------------------
(***************************************************************************)
(* The layout tree of one tab: a binary tree of splits with panes for      *)
(* leaves, kept in an arena whose free slots are reused.                   *)
(*                                                                         *)
(* Orientations and ratios only matter for rectangles, so they are left    *)
(* out; with them go toggle-split-orientation, the equalize and the resize *)
(* actions, which change nothing else.  Slots are numbered from 1, and     *)
(* NoNode is Option::None where a slot is expected.                        *)
(*                                                                         *)
(* A tree whose last pane was closed has a root that is a free slot: every *)
(* operation that walks the tree panics there, so only zoom remains.       *)
(***************************************************************************)
EXTENDS Naturals, Sequences, SequencesExt, FiniteSets

CONSTANTS
  Base,           \* the first id the workspace's allocator gave the tree
  Definitions,    \* the pane counts of the definitions trees are built from
  MaxPaneId       \* bound: no pane id above this is handed out

ASSUME ConstantsAssumption ==
  /\ Base \in Nat \ {0} /\ MaxPaneId \in Nat
  /\ Definitions \subseteq Nat \ {0}

VARIABLES
  nodes,          \* the arena: a sequence of slots
  root,           \* the root's slot
  focus,
  zoomed,
  nextPane,       \* LayoutTree::next_pane_id
  index,          \* pane_index: pane id -> slot
  free            \* free_list, a stack

vars == <<nodes, root, focus, zoomed, nextPane, index, free>>

NoPane == 0
NoNode == 0

Node == [id : Nat, parent : Nat, first : Nat, second : Nat]

Leaf(p) ==
  [id |-> p, parent |-> NoNode, first |-> NoNode, second |-> NoNode]

Branch(parent, first, second) ==
  [id |-> NoPane, parent |-> parent, first |-> first, second |-> second]

Hole == Branch(NoNode, NoNode, NoNode)

IsLeaf(n) == n.id # NoPane
IsSplit(n) == n.first # NoNode

-----------------------------------------------------------------------------
(* Walking the tree.                                                       *)

(* panes(): depth first, left to right, from slot i of arena ns.           *)
LeavesFrom(ns, i) ==
  LET walk[j \in 1 .. Len(ns)] ==
        IF IsSplit(ns[j]) THEN walk[ns[j].first] \o walk[ns[j].second]
                          ELSE <<ns[j].id>>
  IN  walk[i]

Empty == DOMAIN index = {}

Panes == IF Empty THEN <<>> ELSE LeavesFrom(nodes, root)

(* Where the focus is in that order.                                       *)
Place == CHOOSE i \in DOMAIN Panes : Panes[i] = focus

LeftmostPane(ns, i) == Head(LeavesFrom(ns, i))

IndexOf(ns) ==
  LET leaves == {i \in 1 .. Len(ns) : IsLeaf(ns[i])}
  IN  [p \in {ns[i].id : i \in leaves} |->
         CHOOSE i \in leaves : ns[i].id = p]

-----------------------------------------------------------------------------
(* Building arenas.                                                        *)

(* A subtree's arena, moved by k slots under the given parent; its own     *)
(* root is the slot r.                                                     *)
Moved(ns, k, r, parent) ==
  LET to(i) == IF i = NoNode THEN NoNode ELSE i + k
  IN  [i \in 1 .. Len(ns) |->
         [id |-> ns[i].id,
          parent |-> IF i = r THEN parent ELSE to(ns[i].parent),
          first |-> to(ns[i].first), second |-> to(ns[i].second)]]

(* build_from_node: children before their split, the root comes last.      *)
JoinAfter(a, b) ==
  LET top == Len(a) + Len(b) + 1
  IN  Moved(a, 0, Len(a), top) \o Moved(b, Len(a), Len(b), top)
        \o <<Branch(NoNode, Len(a), Len(a) + Len(b))>>

Splits(as, bs) == {JoinAfter(a, b) : a \in as, b \in bs}

(* Every tree a definition can spell with the panes first..last.           *)
Built(first, last) ==
  LET ids == first .. last
      trees[r \in ids \X ids] ==
        IF r[1] = r[2] THEN {<<Leaf(r[1])>>}
        ELSE UNION {Splits(trees[<<r[1], m>>], trees[<<m + 1, r[2]>>]) : m \in r[1] .. (r[2] - 1)}
  IN  trees[<<first, last>>]

(* build_from_plan: a split before its children, the root comes first.     *)
JoinBefore(a, b) ==
  <<Branch(NoNode, 2, 2 + Len(a))>>
    \o Moved(a, 1, 1, 1) \o Moved(b, 1 + Len(a), 1, 1)

(* build_plan_from_nodes: the plans are joined half by half.               *)
Halved(plans) ==
  LET places == 1 .. Len(plans)
      mid(r) == r[1] + (r[2] - r[1] + 1) \div 2
      join[r \in places \X places] ==
        IF r[1] < r[2] THEN JoinBefore(join[<<r[1], mid(r) - 1>>], join[<<mid(r), r[2]>>])
                       ELSE plans[r[1]]
  IN  join[<<1, Len(plans)>>]

EvenPlan(ps) == Halved([i \in 1 .. Len(ps) |-> <<Leaf(ps[i])>>])

(* Rows of ceil(sqrt(n)) panes, the last one possibly shorter.             *)
GridPlan(ps) ==
  LET n == Len(ps)
      cols == CHOOSE c \in 1 .. n : c * c >= n /\ (c - 1) * (c - 1) < n
      rows == (n + cols - 1) \div cols
      last(r) == IF r * cols < n THEN r * cols ELSE n
  IN  Halved([r \in 1 .. rows |-> EvenPlan(SubSeq(ps, last(r - 1) + 1, last(r)))])

MainPlan(ps, mainFirst) ==
  IF Len(ps) = 1 THEN <<Leaf(ps[1])>>
  ELSE LET stack == EvenPlan(Tail(ps))
       IN  IF mainFirst THEN JoinBefore(<<Leaf(ps[1])>>, stack)
                        ELSE JoinBefore(stack, <<Leaf(ps[1])>>)

(* panes_with_focus_first                                                  *)
FocusFirst == <<focus>> \o RemoveAt(Panes, Place)

-----------------------------------------------------------------------------
(* alloc_node: the slot the next node goes to, and the free list after it. *)
SlotFor(ns, fl) == IF fl = <<>> THEN Len(ns) + 1 ELSE Last(fl)

Placed(ns, fl, n) ==
  IF fl = <<>> THEN Append(ns, n) ELSE [ns EXCEPT ![Last(fl)] = n]

Rest(fl) == IF fl = <<>> THEN <<>> ELSE Front(fl)

-----------------------------------------------------------------------------
(* split(): the new pane and then the original one get fresh slots, and    *)
(* the split takes over the original's slot, so its parent is not touched. *)
Split(p) ==
  /\ p \in DOMAIN index /\ nextPane <= MaxPaneId
  /\ LET at == index[p]
         new == SlotFor(nodes, free)
         ns1 == Placed(nodes, free, [Leaf(nextPane) EXCEPT !.parent = at])
         old == SlotFor(ns1, Rest(free))
         ns2 == Placed(ns1, Rest(free), [Leaf(p) EXCEPT !.parent = at])
     IN  /\ nodes' = [ns2 EXCEPT ![at] = Branch(nodes[at].parent, old, new)]
         /\ free' = Rest(Rest(free))
         /\ index' = [q \in DOMAIN index \cup {nextPane} |->
                        IF q = p THEN old
                        ELSE IF q = nextPane THEN new ELSE index[q]]
  /\ nextPane' = nextPane + 1
  /\ UNCHANGED <<root, focus, zoomed>>

(* close_pane() of the last pane: root and focus stay where they were.     *)
CloseLast(p) ==
  /\ p \in DOMAIN index /\ nodes[index[p]].parent = NoNode
  /\ nodes' = [nodes EXCEPT ![index[p]] = Hole]
  /\ free' = Append(free, index[p])
  /\ index' = <<>>
  /\ zoomed' = IF zoomed = p THEN NoPane ELSE zoomed
  /\ UNCHANGED <<root, focus, nextPane>>

(* The arena once the sibling sib took the place of its parent up, and the *)
(* slots of the closed pane and of the sibling are free.                   *)
Bug_ChildrenNotAdopted(at, sib, up) ==
  [i \in DOMAIN nodes |->
     CASE i = up         -> [nodes[sib] EXCEPT !.parent = nodes[up].parent]
       [] i \in {at, sib} -> Hole
       [] OTHER           -> nodes[i]]

Promoted(at, sib, up) ==
  [i \in DOMAIN nodes |->
     CASE i = up         -> [nodes[sib] EXCEPT !.parent = nodes[up].parent]
       [] i \in {at, sib} -> Hole
       [] i # NoNode /\ i \in {nodes[sib].first, nodes[sib].second}
                          -> [nodes[i] EXCEPT !.parent = up]
       [] OTHER           -> nodes[i]]

Freed(at, sib) == free \o <<at, sib>>

ZoomAfterClose(p) == IF zoomed = p THEN NoPane ELSE zoomed

(* close_pane() of any other pane.                                         *)
Close(p) ==
  /\ p \in DOMAIN index /\ nodes[index[p]].parent # NoNode
  /\ LET at == index[p]
         up == nodes[at].parent
         sib == IF nodes[up].first = at THEN nodes[up].second
                                        ELSE nodes[up].first
     IN  /\ nodes' = Promoted(at, sib, up)
         /\ free' = Freed(at, sib)
         /\ index' = [q \in DOMAIN index \ {p} |->
                        IF index[q] = sib THEN up ELSE index[q]]
         /\ focus' = IF focus = p THEN LeftmostPane(nodes', up) ELSE focus
  /\ zoomed' = ZoomAfterClose(p)
  /\ UNCHANGED <<root, nextPane>>

(* set_focus                                                               *)
SetFocus(p) ==
  /\ p \in DOMAIN index
  /\ focus' = p
  /\ UNCHANGED <<nodes, root, zoomed, nextPane, index, free>>

(* focus_next and focus_prev wrap around the depth-first order.            *)
FocusStep(by) ==
  /\ ~Empty
  /\ focus' = Panes[((Place - 1 + by) % Len(Panes)) + 1]
  /\ UNCHANGED <<nodes, root, zoomed, nextPane, index, free>>

FocusNext == FocusStep(1)
FocusPrev == FocusStep(Len(Panes) - 1)

(* nearest_pane_in_direction: with rectangles left out, any other pane;    *)
(* while a pane is zoomed it is the only one with a rectangle.             *)
Neighbour(p, q) ==
  zoomed = NoPane /\ {p, q} \subseteq DOMAIN index /\ p # q

FocusDirection(q) ==
  /\ Neighbour(focus, q)
  /\ focus' = q
  /\ UNCHANGED <<nodes, root, zoomed, nextPane, index, free>>

(* swap_pane_with_neighbor: the ids trade places, the nodes stay.          *)
Swap(p, q) ==
  /\ Neighbour(p, q)
  /\ nodes' = [nodes EXCEPT ![index[p]].id = q, ![index[q]].id = p]
  /\ index' = [index EXCEPT ![p] = index[q], ![q] = index[p]]
  /\ UNCHANGED <<root, focus, zoomed, nextPane, free>>

ToggleZoom ==
  /\ zoomed' = IF zoomed = NoPane THEN focus ELSE NoPane
  /\ UNCHANGED <<nodes, root, focus, nextPane, index, free>>

Bug_CounterRestarted(plan) ==
  /\ nodes' = plan /\ index' = IndexOf(plan) /\ root' = 1 /\ free' = <<>>
  /\ nextPane' = Len(Panes) + 1
  /\ UNCHANGED <<focus, zoomed>>

(* rebuild_from_plan: a fresh arena with the same panes.                   *)
Rebuild(plan) ==
  /\ nodes' = plan
  /\ index' = IndexOf(plan)
  /\ root' = 1 /\ free' = <<>>
  /\ UNCHANGED <<focus, zoomed, nextPane>>

Bug_RetileFocusFirst == ~Empty /\ Rebuild(EvenPlan(FocusFirst))

RetileEven == ~Empty /\ Rebuild(EvenPlan(Panes))

RetileGrid == ~Empty /\ Rebuild(GridPlan(Panes))

RetileMain(mainFirst) == ~Empty /\ Rebuild(MainPlan(FocusFirst, mainFirst))

-----------------------------------------------------------------------------
(* new() and from_pane_node(), after reassign_pane_ids().                  *)
Init ==
  \E n \in Definitions :
    /\ nodes \in Built(Base, Base + n - 1)
    /\ root = Len(nodes)
    /\ focus \in Base .. (Base + n - 1)
    /\ zoomed = NoPane
    /\ nextPane = Base + n
    /\ index = IndexOf(nodes)
    /\ free = <<>>

Next ==
  \/ \E p \in DOMAIN index : Split(p)
  \/ \E p \in DOMAIN index : CloseLast(p)
  \/ \E p \in DOMAIN index : Close(p)
  \/ \E p \in DOMAIN index : SetFocus(p)
  \/ FocusNext
  \/ FocusPrev
  \/ \E q \in DOMAIN index : FocusDirection(q)
  \/ \E p, q \in DOMAIN index : Swap(p, q)
  \/ ToggleZoom
  \/ RetileEven
  \/ RetileGrid
  \/ \E mainFirst \in BOOLEAN : RetileMain(mainFirst)

Spec == Init /\ [][Next]_vars

-----------------------------------------------------------------------------
(* Properties.                                                             *)

Slots == DOMAIN nodes

TypeOK ==
  /\ nodes \in Seq(Node) /\ root \in Slots
  /\ focus \in Nat \ {NoPane} /\ zoomed \in Nat /\ nextPane \in Nat
  /\ DOMAIN index \subseteq Nat \ {NoPane}
  /\ \A p \in DOMAIN index : index[p] \in Slots
  /\ free \in Seq(Slots)

(* Parents and children agree, however slots were reused, so that walks up *)
(* (node_rect, nearest_ancestor_split) and down (panes, compute_rects)     *)
(* never meet a slot that is free or belongs to another subtree.           *)
LinksAgree ==
  /\ ~Empty => nodes[root].parent = NoNode /\ nodes[root] # Hole
  /\ \A i \in Slots : IsSplit(nodes[i]) =>
       LET kids == {nodes[i].first, nodes[i].second}
       IN  /\ ~IsLeaf(nodes[i]) /\ Cardinality(kids) = 2 /\ kids \subseteq Slots
           /\ \A k \in kids : nodes[k] # Hole /\ nodes[k].parent = i
  /\ \A i \in Slots : nodes[i].parent # NoNode =>
       i \in {nodes[nodes[i].parent].first, nodes[nodes[i].parent].second}

(* The free list is exactly the holes of the arena, each once: a slot on   *)
(* it twice would be given to two nodes.                                   *)
FreeListExact ==
  /\ ToSet(free) = {i \in Slots : nodes[i] = Hole}
  /\ Cardinality(ToSet(free)) = Len(free)

(* pane_index is exactly what a walk from the root finds, each pane once:  *)
(* no pane is lost in a part of the arena that is no longer reachable.     *)
IndexExact ==
  /\ ToSet(Panes) = DOMAIN index /\ Len(Panes) = Cardinality(DOMAIN index)
  /\ \A p \in DOMAIN index : nodes[index[p]].id = p
  /\ \A i \in Slots : IsLeaf(nodes[i]) =>
       nodes[i].id \in DOMAIN index /\ index[nodes[i].id] = i

(* Focus and zoom stay on panes of the tree, as long as it has any: close  *)
(* moves both away from the pane that goes.                                *)
FocusAndZoomInTree ==
  ~Empty => focus \in DOMAIN index /\ zoomed \in DOMAIN index \cup {NoPane}

(* The arena is a tree with an exact index and free list, and focus and    *)
(* zoom are on it.                                                         *)
TreeSound == TypeOK /\ LinksAgree /\ FreeListExact /\ IndexExact /\ FocusAndZoomInTree

(* The stable pane order of retile, focus-next and the saved definition:   *)
(* only a swap and retile-main may change the order of two panes.          *)
Before(p, q) ==
  \E i, j \in DOMAIN Panes : i < j /\ Panes[i] = p /\ Panes[j] = q

OrderStable ==
  [][\/ \A p, q \in DOMAIN index \cap DOMAIN index' :
          Before(p, q) <=> Before(p, q)'
     \/ \E p, q \in DOMAIN index : Swap(p, q)
     \/ \E mainFirst \in BOOLEAN : RetileMain(mainFirst)]_vars

(* What the workspace relies on: seen from outside, the arena is a record  *)
(* of module TabLayout, and moves as TabLayoutSpec says.                   *)
Seen == [panes |-> DOMAIN index, focus |-> focus, zoomed |-> zoomed, next |-> nextPane]

Layout == INSTANCE TabLayoutSpec WITH layout <- Seen

ImplementsTabLayout == Layout!Spec

=============================================================================
