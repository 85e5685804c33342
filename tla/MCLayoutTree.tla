------------------------------ MODULE MCLayoutTree ------------------------------
(* Either the arena of a tree or the rectangles of one.  The run builds     *)
(* arenas of one to three panes whose ids start at 2, as those of a second  *)
(* tab do, and rectangles of a tree that is a pane, or two columns of two   *)
(* panes each.                                                              *)
EXTENDS LayoutTree, Integers

MCDefinitions == 1 .. 3

CONSTANTS Trees, Areas, Inset, Unit, Moves, Amounts, MaxPanes, MaxSteps
VARIABLES part, tree, zoom, sizes, shown, area, drag, steps

Columns ==
  [path \in {<<>>, <<1>>, <<2>>, <<1, 1>>, <<1, 2>>, <<2, 1>>, <<2, 2>>} |->
     CASE path = <<>>  -> [pane |-> 0, split |-> "horizontal", ratio |-> <<1, 2>>]
       [] path = <<1>> -> [pane |-> 0, split |-> "vertical", ratio |-> <<1, 2>>]
       [] path = <<2>> -> [pane |-> 0, split |-> "vertical", ratio |-> <<1, 4>>]
       [] OTHER        -> [pane |-> 2 * path[1] + path[2] - 2, split |-> "none", ratio |-> <<0, 1>>]]

One == [path \in {<<>>} |-> [pane |-> 1, split |-> "none", ratio |-> <<0, 1>>]]

MCTrees == {One, Columns}
MCAreas == {<<12, 8>>, <<7, 4>>}
MCMoves == {-4, 3}

(* What PaneNode spells: below a split are its two halves, below a pane is  *)
(* nothing, each pane is there once, and a half is not more than the whole. *)
WellFormed(t) ==
  /\ <<>> \in DOMAIN t /\ DOMAIN t \subseteq Seq({1, 2})
  /\ \A path \in DOMAIN t :
       /\ path # <<>> => Front(path) \in DOMAIN t /\ t[Front(path)].pane = 0
       /\ t[path].pane = 0 =>
            /\ Append(path, 1) \in DOMAIN t /\ Append(path, 2) \in DOMAIN t
            /\ t[path].split \in {"horizontal", "vertical"}
            /\ t[path].ratio \in Nat \X (Nat \ {0}) /\ t[path].ratio[1] <= t[path].ratio[2]
       /\ t[path].pane # 0 => \A other \in DOMAIN t : t[other].pane = t[path].pane => other = path

ASSUME TilesAssumption ==
  /\ \A t \in Trees :
       /\ WellFormed(t) /\ IsFiniteSet(DOMAIN t)
       /\ \A path \in DOMAIN t :
            t[path].pane \in Nat /\ t[path] = [pane |-> t[path].pane, split |-> t[path].split, ratio |-> t[path].ratio]
  /\ Areas \subseteq Nat \X Nat /\ Unit \in Nat \ {0}
  /\ Inset \in Int /\ Moves \subseteq Int /\ Amounts \subseteq Nat

rectangles == <<tree, zoom, sizes, shown, area, drag, steps>>

Tiles == INSTANCE Tiling WITH Definitions <- Trees, zoomed <- zoom

BothInit ==
  /\ Init /\ Tiles!Init
  /\ \/ part = "arena" /\ tree = One /\ area = <<7, 4>>
     \/ part = "rectangles" /\ Len(nodes) = 1

Over == part = "rectangles" /\ steps = MaxSteps /\ UNCHANGED <<vars, part, rectangles>>

BothNext ==
  \/ part = "arena" /\ Next /\ UNCHANGED <<part, rectangles>>
  \/ part = "rectangles" /\ Tiles!Next /\ UNCHANGED <<part, vars>>
  \/ Over

BothSpec == BothInit /\ [][BothNext]_<<vars, part, rectangles>>

(* The panes of what the UI shows fill their tab without overlap or gap,   *)
(* after every rounding.                                                   *)
PanesTile == part = "rectangles" => Tiles!Tiled

(* Every pane is reached from every other by the arrow keys' directions.   *)
DirectionsLink == part = "rectangles" => Tiles!DirectionsReach

(* A resize of the host moves the border it was asked to move, the way it  *)
(* was asked to and by no more.                                            *)
ResizesHeeded == [][Tiles!ResizeHeeds]_rectangles

=============================================================================
