--------------------------------- MODULE Graph ---------------------------------
(***************************************************************************)
(* The Graph tab over programs that keep a graph in vectors, or walk a     *)
(* grid: which container is read as the graph, what its edges are, and     *)
(* what is marked on it.  Scenes of linked nodes are those of Shapes.      *)
(*                                                                         *)
(* The program builds its graph one edge at a time, and then walks it with *)
(* a queue or a stack, by recursion, or by distance with a priority queue. *)
(* A container is a record of its name, what kind of std container it is,  *)
(* what it holds, its address and its elements; the regular expressions    *)
(* for names are the names that this program uses.                         *)
(***************************************************************************)
EXTENDS Integers, Sequences, FiniteSets, SequencesExt, Filter

CONSTANTS
    N,            \* nodes of the graph, 0..N-1
    Arc,          \* the edges it may have, in the order they are added
    Weight,       \* Weight[e]: the weight of edge e
    MaxEdges,     \* bound: edges that the program adds
    Row, Col,     \* the grid is 0..Row-1 by 0..Col-1
    Inf,          \* INT_MAX
    Nil

Vertex == 0..N - 1
Square == (0..Row - 1) \X (0..Col - 1)

\* Dijkstra's algorithm wants weights that are not negative; a weight of zero
\* stands for no edge in a matrix.
ASSUME GraphAssumption ==
    /\ {N, Row, Col, Inf} \subseteq Nat \ {0} /\ N <= Inf
    /\ Arc \in Seq({e \in Vertex \X Vertex : e[1] # e[2]})
    /\ Weight \in [Range(Arc) -> 1..Inf - 1]
    /\ Nil \notin Vertex \cup Square

VARIABLES
    form,         \* what the graph is kept in
    mode,         \* what the walk keeps the nodes it has still to see in
    place,        \* where the marks or the distances are
    edges,        \* the edges added, in order
    land,         \* the cells of the grid that can be walked
    phase,        \* of the program
    marked,       \* the nodes marked, in order
    todo,         \* the queue, stack or priority queue; or the calls
    at,           \* the node just taken from it
    dist,         \* the distances
    seen          \* the trace up to here: the memory at each point before

graphVars == <<form, mode, place, edges, land, phase, marked, todo, at, dist, seen>>

-----------------------------------------------------------------------------
(* findContainers.                                                         *)

Container(kind, name, elem, address, of) ==
    [kind |-> kind, name |-> name, elem |-> elem, address |-> address, of |-> of]
Vector(name, elem, address, of) == Container("vector", name, elem, address, of)

ElementKind == [rows |-> "vector", pairrows |-> "vector", pairs |-> "pair"]
ElementElem == [rows |-> "ints", pairrows |-> "pairs", pairs |-> "ints"]

Elements(c) ==
    IF c.elem = "ints" THEN <<>>
    ELSE [i \in DOMAIN c.of |->
            Container(ElementKind[c.elem], "", ElementElem[c.elem], 16 * c.address + i, c.of[i])]

WithInner(c) == <<c>> \o Elements(c)
WithElements(c) ==
    LET inner == Elements(c) IN <<c>> \o FlattenSeq([i \in DOMAIN inner |-> WithInner(inner[i])])
OfFrame(f) == FlattenSeq([i \in DOMAIN f.containers |-> WithElements(f.containers[i])])

(* The containers of frames, outermost first.  They are kept with the      *)
(* memory they were found in, as the source caches them.                   *)
FindContainers(frames) == FlattenSeq([i \in DOMAIN frames |-> OfFrame(frames[i])])

Found(mem) == Range(mem.containers)
First(mem, S) == mem.containers[Min({i \in DOMAIN mem.containers : mem.containers[i] \in S})]

-----------------------------------------------------------------------------
(* What a container can be read as.                                        *)

\* Rows of pairs that are all empty cannot be told from rows of numbers.
IsMatrix(c) ==
    /\ c.elem \in {"rows", "pairrows"} /\ c.of # <<>>
    /\ c.elem = "pairrows" => \A i \in DOMAIN c.of : c.of[i] = <<>>
IsWeightedAdjList(c) == c.elem = "pairrows" /\ \E i \in DOMAIN c.of : c.of[i] # <<>>
IsEdgeList(c) ==
    /\ c.kind = "vector" /\ c.of # <<>>
    /\ \/ c.elem = "pairs"
       \/ c.elem = "rows" /\ c.name = "edges" /\ \A i \in DOMAIN c.of : Len(c.of[i]) \in {2, 3}
    /\ \A i \in DOMAIN c.of : c.of[i][1] >= 0 /\ c.of[i][2] >= 0
IsHeap(c) == c.kind = "priority_queue" /\ c.of # <<>>
IsFrontier(c) == c.kind \in {"queue", "stack", "priority_queue"}

Values(m) == UNION {Range(m[i]) : i \in DOMAIN m}
IsRectangular(m) == Len(m[1]) > 0 /\ \A i \in DOMAIN m : Len(m[i]) = Len(m[1])
IsSquare(m) == \A i \in DOMAIN m : Len(m[i]) = Len(m)
IsBinarySquare(m) == IsSquare(m) /\ Values(m) \subseteq {0, 1}

IsAdjacencyMatrix(m) ==
    /\ IsSquare(m)
    /\ \/ IsBinarySquare(m)
       \/ \E v \in Values(m) : v >= Len(m)
       \/ \A i \in DOMAIN m : m[i][i] = 0

\* Only a queue or a stack that holds pairs now counts.
HasPairQueue(mem) ==
    \E c \in Found(mem) : c.kind \in {"queue", "stack"} /\ c.elem = "pairs" /\ c.of # <<>>

LooksLikeGrid(m, mem, name) ==
    \/ HasPairQueue(mem)
    \/ /\ ~IsBinarySquare(m)
       /\ \/ name = "grid"
          \/ IsRectangular(m) /\ Len(m) # Len(m[1]) /\ Values(m) \subseteq 0..2

-----------------------------------------------------------------------------
(* The scenes.  Edges are a set, each with its place in the data; a weight *)
(* that is not drawn is Nil.                                               *)

Edge(pos, u, v, directed, weight) ==
    [pos |-> pos, from |-> u, to |-> v, directed |-> directed, weight |-> weight]
Scene(kind, nodes, drawn) == [kind |-> kind, nodes |-> nodes, edges |-> drawn]
NoScene == Scene("none", <<>>, {})
Ids(n) == [i \in 1..n |-> i - 1]

Entries(m) == UNION {{i} \X DOMAIN m[i] : i \in DOMAIN m}

WeightedAdjListScene(m) ==
    Scene("adjlist", Ids(Len(m)),
          {Edge(p, p[1] - 1, m[p[1]][p[2]][1], TRUE, m[p[1]][p[2]][2]) : p \in Entries(m)})

AdjListScene(m) ==
    Scene("adjlist", Ids(Len(m)), {Edge(p, p[1] - 1, m[p[1]][p[2]], TRUE, Nil) : p \in Entries(m)})

\* The number of nodes is read from n, and else from the largest endpoint.
EdgeListScene(m, mem) ==
    LET ends == UNION {{m[i][1], m[i][2]} : i \in DOMAIN m}
        declared == {f.scalars.n : f \in {g \in Range(mem.frames) : "n" \in DOMAIN g.scalars}}
    IN  Scene("adjlist", Ids(Max(declared \cup {Max(ends) + 1})),
              {Edge(i, m[i][1], m[i][2], TRUE, IF Len(m[i]) = 3 THEN m[i][3] ELSE Nil) : i \in DOMAIN m})

EitherWayIsBoth(m, weighted) ==      \* mutant: an edge back makes the pair undirected
    LET At(i, j) == m[i][j]
        drawn == {p \in Entries(m) : At(p[1], p[2]) # 0 /\ (At(p[2], p[1]) # 0 => p[1] <= p[2])}
    IN  Scene("matrix", Ids(Len(m)),
              {Edge(p, p[1] - 1, p[2] - 1, At(p[2], p[1]) = 0,
                    IF weighted THEN At(p[1], p[2]) ELSE Nil) : p \in drawn})

\* An entry equal to its mirror image is drawn once, without a direction.
MatrixScene(m, weighted) ==
    LET At(i, j) == m[i][j]
        drawn == {p \in Entries(m) :
                    At(p[1], p[2]) # 0 /\ (At(p[2], p[1]) = At(p[1], p[2]) => p[1] <= p[2])}
    IN  Scene("matrix", Ids(Len(m)),
              {Edge(p, p[1] - 1, p[2] - 1, At(p[2], p[1]) # At(p[1], p[2]),
                    IF weighted THEN At(p[1], p[2]) ELSE Nil) : p \in drawn})

GridScene(m) ==
    LET Cells(r) == [c \in DOMAIN m[1] |-> <<r - 1, c - 1>>]
    IN  Scene("grid", FlattenSeq([r \in DOMAIN m |-> Cells(r)]), {})

HeapScene(h) ==
    Scene("tree", Ids(Len(h)), {Edge(i, (i - 1) \div 2, i, FALSE, Nil) : i \in 1..Len(h) - 1})

MatrixLikeScene(c, mem, viewAs) ==
    IF viewAs = "grid" \/ (viewAs = "auto" /\ LooksLikeGrid(c.of, mem, c.name)) THEN GridScene(c.of)
    ELSE IF IsAdjacencyMatrix(c.of) THEN MatrixScene(c.of, ~(Values(c.of) \subseteq {0, 1}))
    ELSE AdjListScene(c.of)

(* buildGraphScene, for programs without linked nodes.                     *)
BuildGraphScene(mem, viewAs) ==
    LET asGraph == IF viewAs = "grid" THEN {} ELSE Found(mem)
        weighted == {c \in asGraph : IsWeightedAdjList(c)}
        lists == {c \in asGraph : IsEdgeList(c)}
        matrices == {c \in Found(mem) : IsMatrix(c)}
        heaps == {c \in asGraph : IsHeap(c)}
    IN  IF weighted # {} THEN WeightedAdjListScene(First(mem, weighted).of)
        ELSE IF lists # {} THEN EdgeListScene(First(mem, lists).of, mem)
        ELSE IF matrices # {} THEN MatrixLikeScene(First(mem, matrices), mem, viewAs)
        ELSE IF heaps # {} THEN HeapScene(First(mem, heaps).of)
        ELSE NoScene

\* Whether some step has anything for the tab to show.
HasGraphContent(mem) == \E c \in Found(mem) : IsMatrix(c) \/ IsEdgeList(c) \/ IsHeap(c)

-----------------------------------------------------------------------------
(* What is marked on a scene.                                              *)

HasShapeOf(m, scene) ==
    {<<i - 1, j - 1>> : i \in DOMAIN m, j \in DOMAIN m[1]} = Range(scene.nodes)

(* readGridMatrix.                                                         *)
Grids(mem, scene) == {c \in Found(mem) : IsMatrix(c) /\ HasShapeOf(c.of, scene)}

GridBaseline(trace, scene) ==
    LET first == Min({s \in DOMAIN trace : Grids(trace[s], scene) # {}})
    IN  First(trace[first], Grids(trace[first], scene)).of

(* What differs from the first grid, and what another matrix says is true. *)
BindGridVisited(mem, trace, scene) ==
    LET now == Grids(mem, scene)
        start == GridBaseline(trace, scene)
        Value(m, x) == m[x[1] + 1][x[2] + 1]
    IN  {x \in Range(scene.nodes) :
           \/ now # {} /\ Value(First(mem, now).of, x) # Value(start, x)
           \/ \E c \in now : c.name = "visited" /\ Value(c.of, x) # 0}

IsFlat(c, n) == c.elem = "ints" /\ Len(c.of) = n

BindVisited(mem, trace, scene) ==
    IF scene.kind = "grid" THEN BindGridVisited(mem, trace, scene)
    ELSE LET marks == {c \in Found(mem) : c.name = "visited" /\ IsFlat(c, Len(scene.nodes))}
             flags == First(mem, marks).of
         IN  {v \in Range(scene.nodes) : marks # {} /\ flags[v + 1] # 0}

\* The nodes in the order in which they were first seen visited; order numbers them.
BindOrder(trace, index, scene) ==
    LET order[s \in 0..index] ==
          IF s = 0 THEN <<>>
          ELSE LET before == order[s - 1]
               IN  before \o Keep(scene.nodes, BindVisited(trace[s], trace, scene) \ Range(before))
    IN  order[index]

BindFrontier(mem, scene) ==
    LET NodesOf(c) == IF scene.kind = "grid" THEN IF c.elem = "pairs" THEN Range(c.of) ELSE {}
                      ELSE IF c.elem = "pairs" THEN {p[2] : p \in Range(c.of)} ELSE Range(c.of)
        filled == {c \in Found(mem) : IsFrontier(c) /\ NodesOf(c) # {}}
    IN  IF filled = {} THEN {} ELSE NodesOf(First(mem, filled))

FrameNodeId(f, kind) ==
    IF kind = "grid"
    THEN IF {"r", "c"} \subseteq DOMAIN f.scalars THEN <<f.scalars.r, f.scalars.c>> ELSE Nil
    ELSE IF "u" \in DOMAIN f.scalars THEN f.scalars.u
    ELSE IF "n" \in DOMAIN f.scalars THEN f.scalars.n ELSE Nil

\* One node for each frame, innermost first.
BindCurrent(mem, scene) ==
    Keep(Reverse([i \in DOMAIN mem.frames |-> FrameNodeId(mem.frames[i], scene.kind)]),
         Range(scene.nodes))

IdentifyDist(mem, n) ==
    LET flat == {c \in Found(mem) : IsFlat(c, n)}
        named == {c \in flat : c.name = "dist"}
    IN  IF named # {} THEN named ELSE {c \in flat : Inf \in Range(c.of)}

(* What is now at the address where step s has the distances.              *)
DistSeen(trace, s, index, n) ==
    LET dists == IdentifyDist(trace[s], n)
        here == {c \in Found(trace[index]) :
                   dists # {} /\ c.address = First(trace[s], dists).address}
    IN  IF here = {} \/ ~IsFlat(First(trace[index], here), n) THEN <<>> ELSE First(trace[index], here).of

PreviousOnly(trace, index, scene) ==      \* mutant: only the step before is looked at
    LET n == Len(scene.nodes)
        known == {s \in {index - 1, index} \cap DOMAIN trace : DistSeen(trace, s, index, n) # <<>>}
    IN  IF scene.kind = "grid" \/ known = {} THEN <<>> ELSE DistSeen(trace, Max(known), index, n)

\* The latest step that could tell the distances from other vectors decides.
BindDist(trace, index, scene) ==
    LET n == Len(scene.nodes)
        known == {s \in 1..index : DistSeen(trace, s, index, n) # <<>>}
    IN  IF scene.kind = "grid" \/ known = {} THEN <<>> ELSE DistSeen(trace, Max(known), index, n)

-----------------------------------------------------------------------------
(* The program.                                                            *)

IsWalk == mode # "priority_queue"

(* What the graph, or the grid, looks like in the forms it is kept in.     *)
Out(u) == Keep(edges, {e \in Range(edges) : e[1] = u})
Bool(b) == IF b THEN 1 ELSE 0
GridOf(cell) == [r \in 1..Row |-> [c \in 1..Col |-> cell[<<r - 1, c - 1>>]]]

Rows ==
    LET Heads(out) == [i \in DOMAIN out |-> out[i][2]]
        Weighted(out) == [i \in DOMAIN out |-> <<out[i][2], Weight[out[i]]>>]
    IN  [i \in 1..N |-> IF form = "adjlist" THEN Heads(Out(i - 1)) ELSE Weighted(Out(i - 1))]
Ground ==
    [x \in Square |-> IF x \in Range(marked) /\ place = "in place" THEN 2 ELSE Bool(x \in land)]

Structure ==
    CASE form = "adjlist" -> Vector("adj", "rows", 1, Rows)
      [] form = "weighted" -> Vector("adj", "pairrows", 1, Rows)
      [] form = "matrix" ->
           Vector("adj", "rows", 1,
                  [i \in 1..N |-> [j \in 1..N |->
                     IF <<i - 1, j - 1>> \in Range(edges) THEN Weight[<<i - 1, j - 1>>] ELSE 0]])
      [] form = "edges" ->
           Vector("edges", "rows", 1,
                  [i \in DOMAIN edges |-> <<edges[i][1], edges[i][2], Weight[edges[i]]>>])
      [] form = "grid" -> Vector("grid", "rows", 1, GridOf(Ground))

Marks ==
    IF form = "grid"
    THEN Vector("visited", "rows", 2, GridOf([x \in Square |-> Bool(x \in Range(marked))]))
    ELSE Vector("visited", "ints", 2, [i \in 1..N |-> Bool((i - 1) \in Range(marked))])
Waiting ==
    Container(mode, "q", IF form = "grid" \/ ~IsWalk THEN "pairs" ELSE "ints", 3, todo)
Distances(address) == Vector("res", "ints", address, [i \in 1..N |-> dist[i - 1]])

NoScalars == [name \in {} |-> Nil]
ScalarsAt(x) ==
    IF x = Nil THEN NoScalars ELSE IF form = "grid" THEN [r |-> x[1], c |-> x[2]] ELSE [u |-> x]

(* A function's own vectors end with its frame.  The distances that it     *)
(* returns by value stand in its caller's frame from the start.            *)
Walking == phase \in {"entered", "walking"}
FrameWith(scalars, containers) == [scalars |-> scalars, containers |-> containers]
MainFrame ==
    FrameWith(IF form = "grid" THEN NoScalars ELSE [n |-> N],
          IF phase = "building" THEN <<Structure>>
          ELSE IF mode = "recursion" /\ place = "own" THEN <<Structure, Marks>>
          ELSE IF place = "returned" THEN <<Structure, Distances(4)>>
          ELSE <<Structure>>)
WalkFrame ==
    FrameWith(ScalarsAt(at),
          IF place # "own" THEN <<Waiting>>
          ELSE IF IsWalk THEN <<Marks, Waiting>> ELSE <<Distances(2), Waiting>>)
OtherFrame ==      \* another function's vector, where the distances were
    FrameWith(NoScalars, <<Vector("count", "ints", 2, [i \in 1..N |-> 0])>>)
FrameStack ==
    IF mode = "recursion" THEN [i \in DOMAIN todo |-> FrameWith(ScalarsAt(todo[i]), <<>>)]
    ELSE IF Walking THEN <<WalkFrame>> ELSE IF phase = "after" THEN <<OtherFrame>> ELSE <<>>
Memory ==
    LET frames == <<MainFrame>> \o FrameStack
    IN  [frames |-> frames, containers |-> FindContainers(frames)]

Observed == seen' = Append(seen, Memory)

GraphInit ==
    /\ form \in {"adjlist", "weighted", "matrix", "edges", "grid"}
    /\ mode \in {"queue", "stack", "recursion"} \cup (IF form = "grid" THEN {} ELSE {"priority_queue"})
    /\ place \in {"own"} \cup (IF form = "grid" THEN {"in place"} ELSE {})
                          \cup (IF IsWalk THEN {} ELSE {"returned"})
    /\ land \in IF form = "grid" THEN (SUBSET Square) \ {{}} ELSE {{}}
    /\ edges = <<>> /\ marked = <<>> /\ todo = <<>> /\ at = Nil
    /\ dist = [v \in Vertex |-> Inf]
    /\ phase = "building"
    /\ seen = <<>>

AddEdge ==
    /\ phase = "building" /\ form # "grid" /\ Len(edges) < MaxEdges
    /\ \E i \in DOMAIN Arc :
         /\ \A j \in i..Len(Arc) : Arc[j] \notin Range(edges)
         /\ edges' = Append(edges, Arc[i])
    /\ UNCHANGED <<form, mode, place, land, phase, marked, todo, at, dist>>
    /\ Observed

CallWalk ==
    /\ phase = "building" /\ phase' = "entered"
    /\ UNCHANGED <<form, mode, place, edges, land, marked, todo, at, dist>>
    /\ Observed

Begin ==
    /\ phase = "entered" /\ phase' = "walking"
    /\ IF IsWalk
       THEN \E x \in IF form = "grid" THEN land ELSE {0} :
              marked' = <<x>> /\ todo' = <<x>> /\ UNCHANGED dist
       ELSE todo' = <<<<0, 0>>>> /\ dist' = [dist EXCEPT ![0] = 0] /\ UNCHANGED marked
    /\ UNCHANGED <<form, mode, place, edges, land, at>>
    /\ Observed

Here == IF mode = "recursion" /\ todo # <<>> THEN Last(todo) ELSE at
Beside(x) ==
    IF x = Nil THEN {}
    ELSE IF form = "grid"
    THEN {y \in land : (x[1] - y[1]) * (x[1] - y[1]) + (x[2] - y[2]) * (x[2] - y[2]) = 1}
    ELSE {e[2] : e \in Range(Out(x))}
Unmarked == IF IsWalk THEN Beside(Here) \ Range(marked) ELSE {}
Nearer ==
    IF IsWalk THEN {} ELSE {v \in Beside(at) : dist[at] + Weight[<<at, v>>] < dist[v]}

Visit ==
    /\ phase = "walking"
    /\ \E x \in Unmarked : marked' = Append(marked, x) /\ todo' = Append(todo, x)
    /\ UNCHANGED <<form, mode, place, edges, land, phase, at, dist>>
    /\ Observed

Relax ==
    /\ phase = "walking"
    /\ \E v \in Nearer :
         LET d == dist[at] + Weight[<<at, v>>]
         IN  dist' = [dist EXCEPT ![v] = d] /\ todo' = Append(todo, <<d, v>>)
    /\ UNCHANGED <<form, mode, place, edges, land, phase, marked, at>>
    /\ Observed

Take ==
    /\ phase = "walking" /\ Unmarked \cup Nearer = {} /\ todo # <<>>
    /\ CASE mode = "queue" -> at' = Head(todo) /\ todo' = Tail(todo)
         [] mode = "stack" -> at' = Last(todo) /\ todo' = Front(todo)
         [] mode = "recursion" -> at' = Nil /\ todo' = Front(todo)
         [] mode = "priority_queue" ->
              \E i \in DOMAIN todo :
                 /\ \A j \in DOMAIN todo : todo[i][1] < todo[j][1] \/ (todo[i][1] = todo[j][1] /\ i <= j)
                 /\ at' = todo[i][2] /\ todo' = RemoveAt(todo, i)
    /\ UNCHANGED <<form, mode, place, edges, land, phase, marked, dist>>
    /\ Observed

ReturnWalk ==
    /\ phase = "walking" /\ Unmarked \cup Nearer = {} /\ todo = <<>>
    /\ phase' = "returned" /\ at' = Nil
    /\ UNCHANGED <<form, mode, place, edges, land, marked, todo, dist>>
    /\ Observed

CallAnother ==
    /\ phase = "returned" /\ ~IsWalk /\ phase' = "after"
    /\ UNCHANGED <<form, mode, place, edges, land, marked, todo, at, dist>>
    /\ Observed

GraphNext ==
    AddEdge \/ CallWalk \/ Begin \/ Visit \/ Relax \/ Take \/ ReturnWalk \/ CallAnother

GraphSpec == GraphInit /\ [][GraphNext]_graphVars

-----------------------------------------------------------------------------
(* Properties.                                                             *)

IsInjectiveIn(s, S) == s \in Seq(S) /\ IsInjective(s)
Walkable == IF form = "grid" THEN land ELSE Vertex

GraphTypeOK ==
    /\ form \in {"adjlist", "weighted", "matrix", "edges", "grid"}
    /\ mode \in {"queue", "stack", "recursion", "priority_queue"}
    /\ place \in {"own", "in place", "returned"}
    /\ (place = "in place" => form = "grid") /\ (place = "returned" => ~IsWalk)
    /\ (form = "grid" => IsWalk /\ land # {} /\ edges = <<>>) /\ land \subseteq Square
    /\ phase \in {"building", "entered", "walking", "returned", "after"}
    /\ IsInjectiveIn(edges, Range(Arc)) /\ IsInjectiveIn(marked, Walkable)
    /\ todo \in Seq(IF IsWalk THEN Walkable ELSE (0..Inf - 1) \X Vertex)
    /\ at \in Walkable \cup {Nil}
    /\ dist \in [Vertex -> 0..Inf]
    /\ IsWalk => dist = [v \in Vertex |-> Inf]
    /\ ~IsWalk => marked = <<>>
    /\ phase \in {"building", "entered"} =>
         marked = <<>> /\ todo = <<>> /\ at = Nil /\ dist = [v \in Vertex |-> Inf]
    /\ phase \in {"returned", "after"} => todo = <<>> /\ at = Nil

\* An adjacency list drawn as a grid: its rows are all of one length, which is not
\* the number of nodes, and name no node above 2.
LooksLikeTable ==
    /\ form = "adjlist"
    /\ \E k \in 1..N : k # N /\ \A u \in Vertex : Len(Out(u)) = k
    /\ \A e \in Range(edges) : e[2] <= 2

(* The views under which the scene is that of the program's graph.  A grid *)
(* with as many rows as columns may be taken for an adjacency matrix.      *)
Views == IF form = "grid" THEN IF Row = Col THEN {"grid"} ELSE {"auto", "grid"}
         ELSE IF LooksLikeTable THEN {"graph"} ELSE {"auto", "graph"}
Scenes(mem) == {BuildGraphScene(mem, view) : view \in Views}

Arrows(e) == IF e.directed THEN {<<e.from, e.to>>} ELSE {<<e.from, e.to>>, <<e.to, e.from>>}

(* Each edge of the program once and in its direction, with its weight     *)
(* where the data has one, and no other.                                   *)
EdgesAreDrawn(scene) ==
    /\ \A e \in scene.edges : Arrows(e) \subseteq Range(edges)
    /\ \A a \in Range(edges) :
         \E e \in scene.edges :
            /\ a \in Arrows(e) /\ \A f \in scene.edges : a \in Arrows(f) => f = e
            /\ e.weight = IF form = "adjlist"
                             \/ (form = "matrix" /\ \A b \in Range(edges) : Weight[b] = 1)
                          THEN Nil ELSE Weight[a]

\* The scene is the program's graph: its nodes, and its edges; the grid, when it
\* walks a grid.  The tab is offered whenever there is a scene (graphModel.ts:482-515,
\* 585-675).
SceneIsGraph ==
    LET memory == Memory
    IN /\ HasGraphContent(memory) <=> BuildGraphScene(memory, "auto") # NoScene
       /\ \A scene \in Scenes(memory) :
            IF form = "grid" THEN scene.kind = "grid" /\ Range(scene.nodes) = Square
            ELSE IF form = "edges" /\ edges = <<>> THEN scene.kind \in {"none", "tree"}
            ELSE Range(scene.nodes) = Vertex /\ EdgesAreDrawn(scene)

(* The overlays of the scene at the last point; a heap drawn for want of a *)
(* graph has none.                                                         *)
Overlaid(scene) == scene.kind \notin {"none", "tree"}
MarksAlive == mode = "recursion" \/ place = "in place" \/ Walking
DistAlive == Walking \/ (place = "returned" /\ phase # "building")

VisitedIsTrue(trace, scene) ==
    BindVisited(Last(trace), trace, scene) = IF IsWalk /\ MarksAlive THEN Range(marked) ELSE {}

OrderIsTrue(trace, scene) == BindOrder(trace, Len(trace), scene) = marked

FrontierIsWaiting(mem, scene) ==
    BindFrontier(mem, scene) =
      IF mode = "recursion" THEN {}
      ELSE IF IsWalk THEN Range(todo) ELSE {p[2] : p \in Range(todo)}

CurrentIsPath(mem, scene) ==
    BindCurrent(mem, scene) =
      IF mode = "recursion" THEN Reverse(todo) ELSE IF at = Nil THEN <<>> ELSE <<at>>

DistStays(trace, scene) ==
    ~IsWalk /\ DistAlive => BindDist(trace, Len(trace), scene) = [i \in 1..N |-> dist[i - 1]]

\* At every point the scene shows what the walk has done so far: the nodes that
\* are marked, numbered in the order they were first marked even where the marks
\* are gone, the nodes still waiting and the node or calls under way; and the
\* distances for as long as they exist, although once all are known nothing tells
\* their vector from any other (graphModel.ts:227-245, 368-376, 408-480, 558-583).
MarksAreTrue ==
    LET trace == Append(seen, Memory)
    IN  \A scene \in Scenes(Last(trace)) :
          Overlaid(scene) =>
             /\ VisitedIsTrue(trace, scene) /\ OrderIsTrue(trace, scene)
             /\ FrontierIsWaiting(Last(trace), scene) /\ CurrentIsPath(Last(trace), scene)
             /\ DistStays(trace, scene)

=============================================================================
