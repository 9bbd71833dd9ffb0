-------------------------------- MODULE Shapes --------------------------------
(***************************************************************************)
(* Linked structures: which struct types are lists, trees and tries, how   *)
(* their nodes are grouped and marked, for a program that links nodes of   *)
(* one type through two pointer locals, of an outer and an inner frame,    *)
(* and a queue of pointers.  ShapeLayout places the groups.                *)
(*                                                                         *)
(* A node is named by its heap address; its id in the view is that of the  *)
(* one-element array that the tracer wraps it in.  A type has the pointer  *)
(* members 1..arity in order of declaration, or one array of that many     *)
(* pointers; the tracer tells no pointee types.  What the passes over the  *)
(* whole trace find is kept as the program runs, so that a state shows the *)
(* last point of a trace that ends there.                                  *)
(***************************************************************************)
EXTENDS Integers, Sequences, FiniteSets, SequencesExt, Filter

CONSTANTS
    Nodes,           \* Nodes[n]: how many nodes a type with n pointers gets
    MaxStatements,   \* bound: statements that the program runs
    Null, NoNode

ASSUME NodesAssumption == Nodes \in Seq(Nat) /\ 2 \in DOMAIN Nodes

VARIABLES
    arity, array,
    heap,        \* heap[a]: the members of the node at a, NoNode when free
    local,       \* local[f]: the pointer of frame f
    queued,      \* the nodes that the queue holds pointers to
    nodeSteps,
    selfNames,   \* members that pointed to a node at some point
    cleanFor,    \* sets of members under which some point was clean
    stood,       \* addresses that a local held, in order of the first time
    been, reused \* ghosts: nodes a local has been at; addresses used twice

shapeVars ==
    <<arity, array, heap, local, queued, nodeSteps, selfNames, cleanFor, stood, been, reused>>

Address == 1..Nodes[arity]
Member == 1..arity
Live(h) == {a \in DOMAIN h : h[a] # NoNode}

Cells(h) == Keep([a \in DOMAIN h |-> a], Live(h))

-----------------------------------------------------------------------------
(* collectGroups: the members that link nodes, proved by the whole trace   *)
(* where that leaves one or two, else by this point alone.                 *)

SelfPointerMemberNames(h) == {m \in Member : \E a \in Live(h) : h[a][m] \in Live(h)}

\* Over the whole trace the nodes that are gone count too (shapes.ts:442).
PointingMembers(h) == {m \in Member : \E a \in Live(h) : h[a][m] # Null}

Links(h, proved) ==
    LET now == SelfPointerMemberNames(h)
    IN  IF array THEN IF now = {} THEN {} ELSE Member
        ELSE IF Cardinality(proved) \in {1, 2} THEN proved
        ELSE IF Cardinality(now) \in {1, 2} THEN now ELSE {}

Kind(links) == IF array THEN "trie" ELSE IF Cardinality(links) = 1 THEN "list" ELSE "tree"

(* An edge for each member that leads from a node to one of S.             *)
EdgesTo(h, links, S) ==
    {e \in {[from |-> a, member |-> m, to |-> h[a][m]] : a \in Live(h), m \in links} : e.to \in S}
Edges(h, links) == EdgesTo(h, links, Live(h))
Into(h, links, a) == EdgesTo(h, links, {a})

(* The targets of a node, in the order of their slots.                     *)
Targets(h, links, a) ==
    LET slots == Keep([m \in Member |-> m], {m \in links : h[a][m] \in Live(h)})
    IN  [i \in DOMAIN slots |-> h[a][slots[i]]]

-----------------------------------------------------------------------------
(* Walks.  Each visits what no walk before it has visited.                 *)

(* One turn of the loop over the stack of nodes still to be seen.          *)
Turn(h, links, visited, walk) ==
    IF walk.pending = <<>> THEN walk
    ELSE LET a == Head(walk.pending)
         IN  IF a \in visited \cup Range(walk.order)
             THEN [pending |-> Tail(walk.pending), order |-> walk.order]
             ELSE [pending |-> Targets(h, links, a) \o Tail(walk.pending),
                   order |-> Append(walk.order, a)]

(* No walk takes more turns than there are members to follow.              *)
PreOrder(h, links, start, visited) ==
    LET turns == Cardinality(Live(h)) * arity + 1
        walk[n \in 0..turns] ==
          IF n = 0 THEN [pending |-> <<start>>, order |-> <<>>]
          ELSE Turn(h, links, visited, walk[n - 1])
    IN  walk[turns].order

InGroups(groups) == UNION {Range(g) : g \in Range(groups)}

(* One group for each start that is left, without the empty ones.          *)
Walked(h, links, groups, a) ==
    LET group == PreOrder(h, links, a, InGroups(groups))
    IN  IF group = <<>> THEN groups ELSE Append(groups, group)
Groups(h, links, starts) ==
    FoldLeft(LAMBDA groups, a : Walked(h, links, groups, a), <<>>, starts)

Heads(h, links) == Keep(Cells(h), {a \in Live(h) : Into(h, links, a) = {}})

StartsAtHeads(h, links, fingers) ==      \* mutant: a cycle has no head
    Keep(Heads(h, links), fingers) \o Heads(h, links)
Starts(h, links, fingers) ==
    Keep(Heads(h, links), fingers) \o Heads(h, links) \o Cells(h)

(* confirmGroup.                                                           *)
IsForest(h, links) ==
    /\ \A a \in Live(h) : Cardinality(Into(h, links, a)) <= 1
    /\ Live(h) = InGroups(Groups(h, links, Heads(h, links)))

ConvergentGroup(h, links) ==      \* mutant: two chains may meet
    Kind(links) = "list" \/ IsForest(h, links)
ConfirmGroup(h, links) ==
    IF Kind(links) = "list"
    THEN \A g \in Range(Groups(h, links, Starts(h, links, {}))) :
            Range(Targets(h, links, g[Len(g)])) \subseteq Range(g)
    ELSE IsForest(h, links)

IsClean(h, proved) ==
    LET links == Links(h, proved) IN links # {} /\ Live(h) # {} /\ ConfirmGroup(h, links)

-----------------------------------------------------------------------------
(* applyShapes: the shape drawn, at the current point.                     *)

TheLinks == Links(heap, selfNames)
Confirmed == selfNames \in cleanFor
HasShape == Confirmed /\ TheLinks # {} /\ Live(heap) # {}

(* fingerTargets: what locals and containers point to.                     *)
FingerTargets == (Range(local) \cup queued) \cap Live(heap)
ShapeGroups == Groups(heap, TheLinks, Starts(heap, TheLinks, FingerTargets))
Detached ==
    {a \in Live(heap) : \E g \in Range(ShapeGroups) : a \in Range(g) /\ Range(g) \cap FingerTargets = {}}

(* treeScene.ts: fingerLinks are the locals; what a container holds is     *)
(* queued, not current.                                                    *)
FingersQueued(l, q) == l \o SetToSeq(q)      \* mutant
FingerLinks(l, q) == l

Current == Keep(Reverse(local), Live(heap))
OnPath ==
    {e \in Edges(heap, TheLinks) :
        Len(Current) = 2 /\ {e.from, e.to} = Range(Current) /\ Current[1] # Current[2]}
Order == Keep(stood, Live(heap))
Frontier == queued \cap Live(heap)

-----------------------------------------------------------------------------
(* The program.  A pointer to a freed node is left dangling.               *)

(* bindTreeOrder: the addresses that are new at a point.                   *)
Stand(s, a) == IF Contains(s, a) THEN s ELSE Append(s, a)
Trail(s, fingers) == FoldLeft(Stand, s, fingers)

(* A statement has run: the next point, as the passes of the trace see it. *)
NodePoint(h, l, q, used) ==
    /\ nodeSteps < MaxStatements
    /\ heap' = h /\ local' = l /\ queued' = q /\ nodeSteps' = nodeSteps + 1
    /\ selfNames' = selfNames \cup PointingMembers(h)
    /\ cleanFor' = cleanFor \cup {N \in (SUBSET Member) \ cleanFor : IsClean(h, N)}
    /\ stood' = Trail(stood, Keep(FingerLinks(l, q), Live(h)))
    /\ been' = (been \ used) \cup Range(Keep(l, Live(h)))
    /\ reused' = reused \cup (used \cap Range(stood))
    /\ UNCHANGED <<arity, array>>

ShapeInit ==
    /\ array \in BOOLEAN
    /\ arity \in IF array THEN {2} ELSE DOMAIN Nodes
    /\ heap = [a \in Address |-> NoNode]
    /\ local = <<Null, Null>>
    /\ queued = {}
    /\ nodeSteps = 0
    /\ selfNames = {} /\ cleanFor = {} /\ stood = <<>> /\ been = {} /\ reused = {}

Free == {a \in Address : heap[a] = NoNode /\ \A b \in Address : b < a => heap[b] # NoNode}
Made(a) == [heap EXCEPT ![a] = [m \in Member |-> Null]]

NewNode(f) ==      \* p = new Node
    \E a \in Free : NodePoint(Made(a), [local EXCEPT ![f] = a], queued, {a})

NewBelow(f, m) ==      \* p->m = new Node
    /\ local[f] \in Live(heap)
    /\ \E a \in Free : NodePoint([Made(a) EXCEPT ![local[f]][m] = a], local, queued, {a})

AssignMember(f, m, q) ==      \* p->m = q, p->m = nullptr
    /\ local[f] \in Live(heap) /\ heap[local[f]][m] # q
    /\ NodePoint([heap EXCEPT ![local[f]][m] = q], local, queued, {})

Advance(f, q) ==      \* p = p->m, p = q, p = queue.front()
    /\ q # local[f]
    /\ NodePoint(heap, [local EXCEPT ![f] = q], queued, {})

Delete(f) ==      \* delete p
    /\ local[f] \in Live(heap)
    /\ NodePoint([heap EXCEPT ![local[f]] = NoNode], local, queued \ {local[f]}, {})

Push(f, m) ==      \* queue.push(p->m)
    /\ local[f] \in Live(heap) /\ heap[local[f]][m] \in Live(heap) \ queued
    /\ NodePoint(heap, local, queued \cup {heap[local[f]][m]}, {})

ShapeNext ==
    \E f \in 1..2 :
       \/ NewNode(f) \/ Delete(f)
       \/ \E m \in Member :
             \/ NewBelow(f, m) \/ Push(f, m)
             \/ \E q \in Range(local) \cup {Null} : AssignMember(f, m, q)
       \/ \E q \in (UNION {Range(heap[a]) : a \in Range(local) \cap Live(heap)}) \cup Range(local) \cup queued :
             Advance(f, q)

ShapeSpec == ShapeInit /\ [][ShapeNext]_shapeVars

-----------------------------------------------------------------------------
(* Properties.                                                             *)

ShapeTypeOK ==
    /\ array \in BOOLEAN /\ arity \in DOMAIN Nodes
    /\ heap \in [Address -> {NoNode} \cup [Member -> Address \cup {Null}]]
    /\ local \in [1..2 -> Address \cup {Null}]
    /\ queued \subseteq Address /\ nodeSteps \in Nat
    /\ selfNames \subseteq Member /\ cleanFor \subseteq SUBSET Member
    /\ stood \in Seq(Address) /\ been \subseteq Address /\ reused \subseteq Address

(* The nodes that are in every set that has a and that no link leaves.     *)
Closed(h, links) ==
    LET edges == Edges(h, links)
    IN  {S \in SUBSET Live(h) : \A e \in edges : e.from \in S => e.to \in S}
Reachable(h, links, a) ==
    LET closed == Closed(h, links) IN {b \in Live(h) : \A S \in closed : a \in S => b \in S}

IsStructure(h, links) ==
    LET heads == {a \in Live(h) : Into(h, links, a) = {}}
    IN  IF Kind(links) = "list"
        THEN \A a, b \in heads : a # b => Reachable(h, links, a) \cap Reachable(h, links, b) = {}
        ELSE /\ \A e, f \in Edges(h, links) : e.to = f.to => e = f
             /\ Live(h) \subseteq UNION {Reachable(h, links, a) : a \in heads}

(* A type is taken for a list, tree or trie only once its nodes made one:  *)
(* chains that do not meet, though they may loop; a forest.  The check is  *)
(* exact, whatever order the nodes are walked in (shapes.ts:377-381).      *)
ConfirmedIsClean ==
    \A N \in SUBSET Member :
       LET links == Links(heap, N)
       IN  IsClean(heap, N) <=> (links # {} /\ Live(heap) # {} /\ IsStructure(heap, links))

(* A node is marked visited if and only if a local has pointed to it, be   *)
(* it queued or not, unless its address had been used before; those that   *)
(* locals point to now always are (treeScene.ts:60-64, 130-132).           *)
TrailIsTrue ==
    /\ \A a \in Live(heap) \ reused : a \in Range(Order) <=> a \in been
    /\ Range(Current) \subseteq Range(Order)

(* The trail is where the locals have been, but for addresses used again.  *)
TrailInv ==
    /\ been \subseteq Range(stood) /\ Range(stood) \ reused \subseteq been
    /\ Range(local) \cap Live(heap) \subseteq Range(stood)

(* Every node of a drawn type leaves the raw heap (shapes.ts:302), so each *)
(* must be in a group, and in one only (364).                              *)
IsPartition(flat) == Range(flat) = Live(heap) /\ Len(flat) = Cardinality(Live(heap))
GroupedOnce == HasShape => IsPartition(FlattenSeq(ShapeGroups))

=============================================================================
