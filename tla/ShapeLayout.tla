------------------------------ MODULE ShapeLayout ------------------------------
(***************************************************************************)
(* Where the nodes of a linked structure are drawn: the chains of a list   *)
(* in rows, a tree or a trie from its roots down.                          *)
(***************************************************************************)
EXTENDS Shapes

CONSTANTS
    BoxWidth,    \* BoxWidth[a]: width of the box of the node at a
    BoxGap       \* S_H_GAP

Slot(links, m) == Cardinality({k \in links : k < m})

-----------------------------------------------------------------------------
(* layoutShape.  A node is laid out under one parent: for a tree the first *)
(* in pre-order, for a trie the one of the lowest slot, then address.      *)

Before(s, a, b) ==
    (CHOOSE i \in DOMAIN s : s[i] = a) < (CHOOSE i \in DOMAIN s : s[i] = b)

FirstOf(into, flat) ==
    LET First(e, f) ==
          IF array THEN e.member < f.member \/ (e.member = f.member /\ e.from <= f.from)
          ELSE e.from = f.from \/ Before(flat, e.from, f.from)
    IN  {e \in into : \A f \in into : First(e, f)}
Adopting(a) == FirstOf(Into(heap, TheLinks, a), FlattenSeq(ShapeGroups))

TargetOf(edges) == IF edges = {} THEN Null ELSE (CHOOSE e \in edges : TRUE).to
ChildAt(a, slot) ==
    TargetOf({e \in Edges(heap, TheLinks) :
                e.from = a /\ Slot(TheLinks, e.member) = slot /\ e \in Adopting(e.to)})

(* What follows lays out the forest kid[a][s], the child of a at slot s.   *)
ChildNodes == [a \in Live(heap) |-> [s \in 0..arity - 1 |-> ChildAt(a, s)]]
ChildSlots(kid, a) == SelectSeq([k \in 1..arity |-> k - 1], LAMBDA s : kid[a][s] # Null)
IsLone(kid, a) == Kind(TheLinks) = "tree" /\ Len(ChildSlots(kid, a)) = 1
Half(a) == (BoxWidth[a] + BoxGap) \div 2
Between(low, x, high) == IF x < low THEN low ELSE IF x > high THEN high ELSE x

RECURSIVE Below(_, _, _)
Below(kid, S, n) ==      \* what place() reaches from S in n calls
    IF n = 0 THEN S
    ELSE Below(kid, UNION {Range(kid[a]) \ {Null} : a \in S}, n - 1)

PlaceEnds == Kind(TheLinks) # "list" =>
    Below(ChildNodes, {g[1] : g \in Range(ShapeGroups)}, Nodes[arity]) = {}

RECURSIVE Band(_, _), BandsBefore(_, _, _)
BandsBefore(kid, a, slot) ==      \* of a's children left of a slot
    FoldLeft(LAMBDA sum, s : IF s < slot THEN sum + Band(kid, kid[a][s]) + BoxGap ELSE sum,
             0, ChildSlots(kid, a))
Band(kid, a) ==
    LET row == BandsBefore(kid, a, arity) - BoxGap + IF IsLone(kid, a) THEN Half(a) ELSE 0
    IN  IF row > BoxWidth[a] THEN row ELSE BoxWidth[a]

(* a itself, above its children that have been placed.                     *)
PlaceAbove(kid, a, row, left, below) ==
    LET At(s) == below[kid[a][s]].center
        slots == ChildSlots(kid, a)
        mid == IF slots = <<>> THEN left + BoxWidth[a] \div 2
               ELSE IF ~IsLone(kid, a) THEN (At(Head(slots)) + At(Last(slots))) \div 2
               ELSE IF slots = <<1>> THEN At(1) - Half(a) ELSE At(0) + Half(a)
    IN  (a :> [row |-> row, center |-> Between(left + BoxWidth[a] \div 2, mid,
                                               left + Band(kid, a) - BoxWidth[a] \div 2)]) @@ below

RECURSIVE Place(_, _, _, _)
Place(kid, a, row, left) ==      \* [node |-> [row, center]], placed from a on
    LET start == IF IsLone(kid, a) /\ kid[a][1] # Null THEN left + Half(a) ELSE left
    IN  PlaceAbove(kid, a, row, left,
          FoldLeft(LAMBDA f, s : Place(kid, kid[a][s], row + 1, start + BandsBefore(kid, a, s)) @@ f,
                   <<>>, ChildSlots(kid, a)))

PlaceChain(g, n) ==
    LET start[k \in 1..Len(g)] == IF k = 1 THEN 0 ELSE start[k - 1] + BoxWidth[g[k - 1]] + BoxGap
    IN  [a \in Range(g) |->
           LET k == CHOOSE i \in DOMAIN g : g[i] = a
           IN  [row |-> n, center |-> start[k] + BoxWidth[a] \div 2]]

LayoutShape(gs, kid) ==
    LET left[n \in DOMAIN gs] == IF n = 1 THEN 0 ELSE left[n - 1] + Band(kid, gs[n - 1][1]) + BoxGap
    IN  FoldLeft(LAMBDA f, n : (IF Kind(TheLinks) = "list" THEN PlaceChain(gs[n], n)
                                ELSE Place(kid, gs[n][1], 0, left[n])) @@ f,
                 <<>>, [n \in DOMAIN gs |-> n])
NodePlaces == LayoutShape(ShapeGroups, ChildNodes)

-----------------------------------------------------------------------------
(* Properties.                                                             *)

Acyclic == \A e \in Edges(heap, TheLinks) : e.from \notin Reachable(heap, TheLinks, e.to)

IsClear(places, kid) ==
    LET LeftOf(a, b) == places[a].center + BoxWidth[a] \div 2 + BoxGap
                          <= places[b].center - BoxWidth[b] \div 2
    IN  /\ DOMAIN places = Live(heap)
        /\ \A a, b \in DOMAIN places :
             places[a].row = places[b].row /\ a # b => LeftOf(a, b) \/ LeftOf(b, a)
        /\ Kind(TheLinks) = "tree" =>
             \A a, b \in DOMAIN places : \A s \in {0, 1} :
                kid[a][s] = b /\ kid[a][1 - s] # b =>
                  (s = 0 <=> places[b].center < places[a].center)

(* Every node of a drawn type is drawn, in one group and at one place,     *)
(* clear of its row's other boxes and, in a tree, on its side of its       *)
(* parent (shapes.ts:302, 364; shapeLayout.ts:45).                         *)
(* Trees whose layout does not end, and tries with a cycle, are left aside.*)
DrawnOnce ==
    /\ GroupedOnce
    /\ HasShape /\ PlaceEnds /\ (array => Acyclic) => IsClear(NodePlaces, ChildNodes)

(* "leftover = cycle component; still shown" (shapes.ts:364).              *)
CyclesAreShown == HasShape => PlaceEnds /\ DOMAIN NodePlaces = Live(heap)

=============================================================================
