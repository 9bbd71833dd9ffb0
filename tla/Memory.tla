-------------------------------- MODULE Memory --------------------------------
(***************************************************************************)
(* The memory view: how a trace point's encoded locals and heap become the *)
(* cells, containers and pointer links that are drawn, and which of them   *)
(* are flagged as changed by a step.  The program being traced has a       *)
(* container v, a local p that points into it or at a block of its own,    *)
(* and at the end destroys v node by node.                                 *)
(*                                                                         *)
(* A cell's id is the sequence of names that the code joins with dashes.   *)
(* What a cell displays is a tuple whose first member tells its kind.      *)
(***************************************************************************)
EXTENDS StdContainers

CONSTANTS
    Types,       \* the types that v may have
    MaxSteps     \* bound: statements that the program runs

VARIABLES
    x,           \* the term that v holds
    p,           \* the address that p holds, 0 when null
    block,       \* an integer the program allocated, 0 when none
    gone,        \* nodes of v that its destructor has freed
    lost,        \* the tracer has lost the type of the nodes that are left
    steps,
    point,       \* the current point of the trace
    memory       \* its view

vars == <<x, p, block, gone, lost, steps, point, memory>>

V == 100         \* where v lies
P == 300         \* where p lies
Unknown == -2    \* a number that could not be recovered

-----------------------------------------------------------------------------
(* The point that the tracer records.                                      *)

\* Lists and tables free their nodes from the front, a tree's erasing
\* recursion from the last one down.
Dead(t, g) == {NodeAt(t, i) : i \in IF t.ty.con \in ATree THEN Len(t.els) - g + 1 .. Len(t.els)
                                    ELSE 1..g}
DeadBlocks(t, g) ==
    Dead(t, g) \cup UNION {Blocks(t.els[i]) : i \in {j \in DOMAIN t.els : NodeAt(t, j) \in Dead(t, g)}}

\* A node whose type is lost is an array of which nothing is known.
Untyped(t, l) == IF l THEN {NodeAt(t, i) : i \in DOMAIN t.els} ELSE {}

Left(all, t, g, l) ==
    [a \in DOMAIN all \ (IF g = 0 THEN {} ELSE DeadBlocks(t, g)) |->
       IF a \in Untyped(t, l) THEN Array(a, <<>>) ELSE all[a]] @@ <<>>

RawHeap(t, b, g, l) ==
    (IF b = 0 THEN <<>> ELSE b :> Array(b, <<Data(RawIndex[1], "int", b, 0)>>))
    @@ Left(HeapOf(t, V), t, g, l)

\* Into a vector or a deque p is an iterator, elsewhere a plain pointer.
RawPointer(t, a) ==
    LET Wrapped(type, member) == Struct("p", type, P, <<Ptr(member, P, a)>>)
    IN IF t.ty.con = "vector" /\ ~IsBits(t.ty)
       THEN Wrapped(Type("__normal_iterator", <<t.ty.args[1], t.ty>>), "_M_current")
       ELSE IF t.ty.con = "deque" THEN Wrapped(Type("_Deque_iterator", t.ty.args), "_M_cur")
       ELSE Ptr("p", P, a)

Point(t, a, b, g, l) ==
    [locals |-> <<Encode(t, "v", V), RawPointer(t, a)>>, heap |-> RawHeap(t, b, g, l)]

-----------------------------------------------------------------------------
(* Cells.                                                                  *)

\* op of every member.  (The concatenation makes TLC evaluate each of them
\* once; so does @@ <<>> for a function.)
Each(s, op(_)) == <<>> \o [i \in DOMAIN s |-> op(s[i])]

\* The rows of a matrix, which have no address of their own.
Rows(cells, width) ==
    <<>> \o [i \in 1..Len(cells) \div width |->
               [Array(0, [j \in 1..width |-> [cells[(i - 1) * width + j] EXCEPT !.name = RawIndex[j]]])
                  EXCEPT !.name = RawIndex[i]]]

RECURSIVE DecodeMemoryValue(_, _)
DecodeMemoryValue(raw, prefix) ==
    LET id == Append(prefix, raw.name)
        points == raw.tag = "C_DATA" /\ raw.type.con = "pointer" /\ raw.v # 0
        kind == CASE points -> "reference"
                  [] raw.tag = "C_DATA" /\ ~points -> "scalar"
                  [] raw.tag \in {"C_ARRAY", "C_MULTIDIMENSIONAL_ARRAY"} -> "array"
                  [] raw.tag = "C_STRUCT" -> "struct"
        members == IF raw.tag = "C_MULTIDIMENSIONAL_ARRAY" THEN Rows(raw.kids, raw.v) ELSE raw.kids
        show == CASE points -> <<"->", raw.v>>
                  [] raw.tag = "C_DATA" /\ ~points -> <<"data", raw.v>>
                  [] OTHER -> <<raw.type.con, Len(members)>>
    IN [id |-> id, name |-> raw.name, kind |-> kind, type |-> raw.type, addr |-> raw.addr,
        target |-> IF points THEN raw.v ELSE 0, targetId |-> <<>>, show |-> show,
        kids |-> Each(members, LAMBDA k : DecodeMemoryValue(k, id))]

NormalizeHeap(heap) ==
    [a \in DOMAIN heap |-> [DecodeMemoryValue(heap[a], <<"heap", a>>) EXCEPT !.id = <<"heap", a>>]]
    @@ <<>>

RECURSIVE FlattenCells(_)
FlattenCells(cells) == FlattenSeq(Each(cells, LAMBDA k : <<k>> \o FlattenCells(k.kids)))

\* The first member of that name, depth first, as a sequence of at most one.
RECURSIVE FindMember(_, _), FindAmong(_, _)
FindAmong(cells, name) ==
    LET Else(found) == IF found = <<>> THEN FindAmong(Tail(cells), name) ELSE found
    IN IF cells = <<>> THEN <<>> ELSE Else(FindMember(Head(cells), name))
FindMember(cell, name) == IF cell.name = name THEN <<cell>> ELSE FindAmong(cell.kids, name)

TargetOf(m) == IF m # <<>> /\ m[1].kind = "reference" THEN m[1].target ELSE 0
FindPointer(cell, name) == TargetOf(FindMember(cell, name))

IntOf(m) == IF m # <<>> /\ m[1].show[1] = "data" THEN m[1].show[2] ELSE Unknown
FindInt(cell, name) == IntOf(FindMember(cell, name))

IdSegment(name) == LET i == SelectInSeq(RawIndex, LAMBDA r : r = name)
                   IN IF i = 0 THEN name ELSE Index[i]

RECURSIVE RebaseCell(_, _, _)
RebaseCell(cell, id, name) ==
    [cell EXCEPT !.id = id, !.name = name,
                 !.kids = Each(@, LAMBDA k : RebaseCell(k, Append(id, IdSegment(k.name)), k.name))]

RenamedChild(parent, child, name) ==      \* mutant: the ids stay the buffer's
    [child EXCEPT !.name = name]
ContainerChild(parent, child, name) ==
    RebaseCell(child, Append(parent.id, IdSegment(name)), name)

ContainerChildren(parent, children) ==
    <<>> \o [i \in DOMAIN children |-> ContainerChild(parent, children[i], RawIndex[i])]

-----------------------------------------------------------------------------
(* Decoders.  Each gives the cell it makes of a struct, if any, and the    *)
(* heap blocks that it takes out of the Heap section.                      *)

\* A pattern that is not anchored matches anywhere in the type's string.
RECURSIVE Mentions(_, _)
Mentions(type, cons) == type.con \in cons \/ \E i \in DOMAIN type.args : Mentions(type.args[i], cons)

\* The first node container that a type's string names.
RECURSIVE NodeKind(_)
NodeKind(type) ==
    LET kinds == {"list", "forward_list"} \cup ATree \cup AHash
        i == SelectInSeq(type.args, LAMBDA t : Mentions(t, kinds))
    IN IF type.con \in kinds THEN type.con ELSE IF i = 0 THEN "container" ELSE NodeKind(type.args[i])

Result(out, uses) == [out |-> out, uses |-> uses]
Fail == Result(<<>>, {})
Container(cell, con, kids) == [cell EXCEPT !.kind = "container", !.kids = kids, !.show = <<con, Len(kids)>>]

\* A container of which only the size is known, or not even that.
NodeContainer(cell, con, count) ==
    LET unread(i) == [cell EXCEPT !.id = Append(cell.id, IF i <= Len(Index) THEN Index[i] ELSE "many"),
                                  !.kind = "scalar", !.addr = 0, !.show = <<"?", 0>>, !.kids = <<>>]
    IN [Container(cell, con, IF count = Unknown THEN <<>> ELSE [i \in 1..count |-> unread(i)])
          EXCEPT !.show = <<con, count>>]

RECURSIVE WalkChain(_, _, _, _, _)
WalkChain(cur, ptr, heap, stop, nodes) ==
    IF cur \in {0, stop} THEN [nodes |-> nodes, complete |-> cur = stop]
    ELSE IF cur \notin DOMAIN heap THEN [nodes |-> nodes, complete |-> FALSE]
    ELSE WalkChain(FindPointer(heap[cur], ptr), ptr, heap, stop, Append(nodes, cur))

JoinWalks(l, a, r) == [nodes |-> l.nodes \o <<a>> \o r.nodes, complete |-> l.complete /\ r.complete]

RECURSIVE WalkTree(_, _)
WalkTree(a, heap) ==
    IF a = 0 THEN [nodes |-> <<>>, complete |-> TRUE]
    ELSE IF a \notin DOMAIN heap THEN [nodes |-> <<>>, complete |-> FALSE]
    ELSE JoinWalks(WalkTree(FindPointer(heap[a], "_M_left"), heap), a,
                   WalkTree(FindPointer(heap[a], "_M_right"), heap))

\* A walk is trusted if it found as many nodes as the container counts.
Counted(walk, count) == [walk EXCEPT !.complete = @ /\ count \in {Unknown, Len(walk.nodes)}]

TrustedTreeWalk(root, heap, count) ==
    LET Trusted(walk) == [Counted(walk, count) EXCEPT !.complete = @ /\ IsInjective(walk.nodes)]
    IN Trusted(WalkTree(root, heap))

\* What a walk takes out of the Heap section: all it visited, or nothing.
Visited(walk) == ToSet(walk.nodes)      \* mutant: also of a walk that is cut off
Consumed(walk) == IF walk.complete THEN ToSet(walk.nodes) ELSE {}

RelabelEntry(entry) ==
    LET named(k) == [k EXCEPT !.name = CASE @ = "first" -> "key" [] @ = "second" -> "value"
                                         [] OTHER -> @]
    IN [entry EXCEPT !.kids = Each(@, named)]

\* The elements in the nodes of a walk, if every node has one.
NodePayloads(walk, names, heap) ==
    Each(walk.nodes, LAMBDA a : FlattenSeq([k \in DOMAIN names |-> FindMember(heap[a], names[k])]))

Entries(con, kids) == IF con \in AMap THEN Each(kids, RelabelEntry) ELSE kids

WithPayloads(cell, con, walk, payloads, count) ==
    IF walk.complete /\ \A i \in DOMAIN payloads : payloads[i] # <<>>
    THEN Container(cell, con, Entries(con, ContainerChildren(cell, Each(payloads, Head))))
    ELSE NodeContainer(cell, con, count)

Chained(cell, con, walk, names, heap, count, uses) ==
    Result(<<WithPayloads(cell, con, walk, NodePayloads(walk, names, heap),
                          IF walk.complete THEN Len(walk.nodes) ELSE count)>>, uses)

RootAt(header) == IF header = <<>> THEN 0 ELSE FindPointer(header[1], "_M_parent")

TreeOf(cell, heap, walk, count) ==
    Result(<<WithPayloads(cell, NodeKind(cell.type), walk,
                          NodePayloads(walk, <<"_M_value_field">>, heap), count)>>, Consumed(walk))
TreeCounting(cell, heap, count) ==
    TreeOf(cell, heap, TrustedTreeWalk(RootAt(FindMember(cell, "_M_header")), heap, count), count)
Tree(cell, heap) == TreeCounting(cell, heap, FindInt(cell, "_M_node_count"))

Hash(cell, heap) ==
    LET Made(walk, count) ==
          Chained(cell, NodeKind(cell.type), Counted(walk, count), <<"_M_v", "_M_value", "_M_value_field">>,
                  heap, count, Consumed(walk) \cup ({FindPointer(cell, "_M_buckets")} \ {0}))
    IN Made(WalkChain(FindPointer(cell, "_M_nxt"), "_M_nxt", heap, 0, <<>>),
            FindInt(cell, "_M_element_count"))

WalkFrom(sentinel, heap) ==
    IF sentinel = <<>> THEN [nodes |-> <<>>, complete |-> TRUE]
    ELSE WalkChain(FindPointer(sentinel[1], "_M_next"), "_M_next", heap, sentinel[1].addr, <<>>)

List(cell, heap) ==
    LET Made(walk) == Chained(cell, "list", walk, <<"_M_data">>, heap, Unknown, Consumed(walk))
    IN Made(WalkFrom(FindMember(cell, "_M_node"), heap))

ForwardList(cell, heap) ==
    LET Made(walk) == Chained(cell, "forward_list", walk, <<"_M_value", "_M_storage", "_M_data">>,
                              heap, Unknown, Consumed(walk))
    IN Made(WalkChain(FindPointer(cell, "_M_next"), "_M_next", heap, 0, <<>>))

\* An iterator of a deque, as a sequence of at most one.
FindIterator(cell, name) ==
    Each(FindMember(cell, name),
         LAMBDA m : [cur |-> FindPointer(m, "_M_cur"), first |-> FindPointer(m, "_M_first"),
                     last |-> FindPointer(m, "_M_last"), node |-> FindPointer(m, "_M_node")])

KidsAt(a, heap) == IF a \in DOMAIN heap THEN heap[a].kids ELSE <<>>
Between(cells, low, high) == SelectSeq(cells, LAMBDA k : low <= k.addr /\ k.addr < high)

\* The chunks that the map names strictly between those of s and f.
Middle(s, f, map, heap) ==
    Each(SelectSeq(KidsAt(map, heap), LAMBDA k : s.node < k.addr /\ k.addr < f.node),
         LAMBDA slot : slot.target)

DequeElements(s, f, middle, heap) ==
    IF s.node = f.node THEN Between(KidsAt(s.first, heap), s.cur, f.cur)
    ELSE Between(KidsAt(s.first, heap), s.cur, s.last)
         \o FlattenSeq(Each(middle, LAMBDA a : KidsAt(a, heap)))
         \o Between(KidsAt(f.first, heap), f.first, f.cur)

DequeResult(cell, elements, empty, uses) ==
    IF elements = <<>> /\ ~empty THEN Result(<<>>, uses)
    ELSE Result(<<Container(cell, "deque", ContainerChildren(cell, elements))>>, uses)

DequeThrough(cell, heap, s, f, map, middle) ==
    DequeResult(cell, DequeElements(s, f, middle, heap), s.node = f.node /\ s.cur = f.cur,
                {map} \cup (({s.first, f.first} \cup ToSet(middle)) \cap DOMAIN heap))

DequeBetween(cell, heap, s, f, map) ==
    IF 0 \in {s.cur, s.first, s.last, s.node, f.cur, f.first, f.node} THEN Fail
    ELSE IF s.node = f.node /\ s.cur # f.cur /\ s.first \notin DOMAIN heap THEN Fail
    ELSE DequeThrough(cell, heap, s, f, map, Middle(s, f, map, heap))

DequeOf(cell, heap, start, finish) ==
    IF start = <<>> \/ finish = <<>> THEN Fail
    ELSE DequeBetween(cell, heap, start[1], finish[1], FindPointer(cell, "_M_map"))
Deque(cell, heap) == DequeOf(cell, heap, FindIterator(cell, "_M_start"), FindIterator(cell, "_M_finish"))

VectorSize(start, finish, buffer) ==
    LET stride == buffer[2].addr - buffer[1].addr
        size == (finish - start) \div stride
    IN IF Len(buffer) >= 2 /\ stride > 0 /\ size \in 0..Len(buffer) THEN size
       ELSE IF finish = start THEN 0 ELSE Len(buffer)

VectorIn(cell, start, finish, buffer) ==
    Result(<<Container(cell, "vector",
                       ContainerChildren(cell, SubSeq(buffer, 1, VectorSize(start, finish, buffer))))>>, {start})

Vector(cell, heap) ==
    LET Made(m, start) ==
          IF m = <<>> THEN Fail
          ELSE IF start \notin DOMAIN heap THEN Result(<<Container(cell, "vector", <<>>)>>, {})
          ELSE VectorIn(cell, start, FindPointer(cell, "_M_finish"), heap[start].kids)
    IN Made(FindMember(cell, "_M_start"), FindPointer(cell, "_M_start"))

ArrayOf(cell, elems) ==
    IF elems = <<>> THEN Fail ELSE Result(<<Container(cell, "array", ContainerChildren(cell, elems))>>, {})
FixedArray(cell, heap) ==
    LET Made(member) == IF member = <<>> THEN Fail ELSE ArrayOf(cell, member[1].kids)
    IN Made(FindMember(cell, "_M_elems"))

\* The i-th element of a vector of bool, cut out of the words.
BitOf(cell, words, bit, i) ==
    LET w == bit \div Bits + 1
    IN [cell EXCEPT !.id = Append(cell.id, Index[i]), !.name = RawIndex[i], !.kind = "scalar",
                    !.type = BoolType, !.addr = 0, !.kids = <<>>,
                    !.show = IF w \notin DOMAIN words THEN <<"?", 0>>
                             ELSE <<"data", (words[w].show[2] \div 2^(bit % Bits)) % 2>>]

\* An emptied one leaves its block of words in the Heap section.
BitsIn(cell, heap, start, offset, size) ==
    IF size = 0 THEN Result(<<Container(cell, "vector", <<>>)>>, {})
    ELSE IF size < 0 \/ start \notin DOMAIN heap THEN Fail
    ELSE Result(<<Container(cell, "vector",
                            [i \in 1..size |-> BitOf(cell, heap[start].kids, offset + i - 1, i)])>>, {start})

BitsBetween(cell, heap, s, f) ==
    IF Unknown \in {s.offset, f.offset} THEN Fail
    ELSE IF 0 \notin {s.word, f.word}
    THEN BitsIn(cell, heap, s.word, s.offset, (f.word - s.word) * Bits + f.offset - s.offset)
    ELSE IF {s.offset, f.offset} = {0} THEN BitsIn(cell, heap, 0, 0, 0) ELSE Fail

VectorBool(cell, heap) ==
    LET at(m) == [word |-> FindPointer(m, "_M_p"), offset |-> FindInt(m, "_M_offset")]
        Made(start, finish) ==
          IF <<>> \in {start, finish} THEN Fail ELSE BitsBetween(cell, heap, at(start[1]), at(finish[1]))
    IN Made(FindMember(cell, "_M_start"), FindMember(cell, "_M_finish"))

\* Where a cell lies among those of a block: <<block, index>>.
CellsAt(heap, a) ==
    {<<b, i>> \in (DOMAIN heap) \X DOMAIN RawIndex :
       i \in DOMAIN heap[b].kids /\ heap[b].kids[i].addr = a}

\* Up to the terminator.
Characters(cells) == SubSeq(cells, 1, SelectInSeq(cells, LAMBDA k : k.show = <<"data", 0>>) - 1)

StringAt(cell, heap, found) ==
    LET at == CHOOSE f \in found : TRUE
        kids == heap[at[1]].kids
    IN IF found = {} THEN Result(<<Container(cell, "string", <<>>)>>, {})
       ELSE Result(<<Container(cell, "string",
                               ContainerChildren(cell, Characters(SubSeq(kids, at[2], Len(kids)))))>>, {at[1]})

String(cell, heap) ==
    LET Made(member) ==
          IF member = <<>> THEN Fail
          ELSE IF member[1].kind # "reference" THEN Result(<<NodeContainer(cell, "string", Unknown)>>, {})
          ELSE StringAt(cell, heap, CellsAt(heap, member[1].target))
    IN Made(FindMember(cell, "_M_p"))

Pair(cell, heap) ==
    LET Made(first, second) ==
          IF first = <<>> \/ second = <<>> THEN Fail
          ELSE Result(<<Container(cell, "pair", <<ContainerChild(cell, first[1], "first"),
                                                  ContainerChild(cell, second[1], "second")>>)>>, {})
    IN Made(FindMember(cell, "first"), FindMember(cell, "second"))

\* The member c has been decoded before; what was not then is not now.
Adaptor(cell, heap) ==
    LET Made(inner) ==
          IF inner \in {<<>>, <<cell>>} THEN Fail
          ELSE IF inner[1].kind # "container" THEN Fail
          ELSE Result(<<Container(cell, cell.type.con, ContainerChildren(cell, inner[1].kids))>>, {})
    IN Made(FindMember(cell, "c"))

\* An iterator or an owning pointer is drawn as a reference.
Pointing(cell, target) ==
    IF target = 0 THEN Fail
    ELSE Result(<<[cell EXCEPT !.kind = "reference", !.target = target, !.kids = <<>>,
                               !.show = <<"->", target>>]>>, {})

FirstPointer(cell) ==
    LET Target(refs) == IF refs = <<>> THEN 0 ELSE refs[1].target
    IN Target(SelectSeq(FlattenCells(cell.kids), LAMBDA k : k.kind = "reference"))

OneOf(a, b) == IF a # 0 THEN a ELSE b

-----------------------------------------------------------------------------
(* The registry: the first decoder that matches the type and succeeds.     *)

\* Anchored at the head: a base class of a vector is not one.
NamesVector(type) ==      \* mutant: not anchored
    type.con # "__normal_iterator" /\ Mentions(type, {"vector"})
IsVector(type) == type.con = "vector" /\ ~IsBits(type)

Registry ==
    <<"adaptor", "hash", "tree", "forward_list", "list", "deque", "array", "vector_bool", "vector", "string",
      "iterator", "unique_ptr", "pair">>

Matches(d, type) ==
    CASE d = "adaptor" -> Mentions(type, AnAdaptor)
      [] d = "hash" -> Mentions(type, AHash)
      [] d = "tree" -> Mentions(type, ATree)
      [] d = "forward_list" -> Mentions(type, {"forward_list"})
      [] d = "list" -> Mentions(type, {"list"}) /\ ~Mentions(type, {"forward_list"})
      [] d = "deque" -> Mentions(type, {"deque"})
      [] d = "array" -> Mentions(type, {"array"})
      [] d = "vector_bool" -> IsBits(type)
      [] d = "vector" -> IsVector(type)
      [] d = "string" -> Mentions(type, {"string"})
      [] d = "iterator" -> Mentions(type, {"__normal_iterator", "_Deque_iterator"})
      [] d = "unique_ptr" -> Mentions(type, {"unique_ptr"})
      [] d = "pair" -> type.con = "pair"

Decoded(d, cell, heap) ==
    CASE d = "adaptor" -> Adaptor(cell, heap)
      [] d = "hash" -> Hash(cell, heap)
      [] d = "tree" -> Tree(cell, heap)
      [] d = "forward_list" -> ForwardList(cell, heap)
      [] d = "list" -> List(cell, heap)
      [] d = "deque" -> Deque(cell, heap)
      [] d = "array" -> FixedArray(cell, heap)
      [] d = "vector_bool" -> VectorBool(cell, heap)
      [] d = "vector" -> Vector(cell, heap)
      [] d = "string" -> String(cell, heap)
      [] d = "iterator" -> Pointing(cell, OneOf(FindPointer(cell, "_M_current"), FindPointer(cell, "_M_cur")))
      [] d = "unique_ptr" -> Pointing(cell, OneOf(FindPointer(cell, "_M_head_impl"), FirstPointer(cell)))
      [] d = "pair" -> Pair(cell, heap)

\* Blocks that a decoder took before it failed stay taken.
DecodeContainer(cell, heap) ==
    LET Then(r, s) == Result(s.out, r.uses \cup s.uses)
    IN FoldLeft(LAMBDA r, d : IF r.out # <<>> THEN r ELSE Then(r, Decoded(d, cell, heap)),
                Fail, SelectSeq(Registry, LAMBDA d : Matches(d, cell.type)))

\* Bottom up: members first, then the struct they are members of.
Outs(results) == Each(results, LAMBDA r : r.out[1])
Uses(results) == UNION {results[i].uses : i \in DOMAIN results}

Settled(self, r, uses) == Result(IF r.out = <<>> THEN <<self>> ELSE r.out, uses \cup r.uses)
ResolveSelf(self, uses, heap) ==
    Settled(self, IF self.kind = "struct" THEN DecodeContainer(self, heap) ELSE Fail, uses)
ResolveAbove(cell, below, heap) ==
    ResolveSelf([cell EXCEPT !.kids = Outs(below)], Uses(below), heap)

RECURSIVE ResolveContainers(_, _)
ResolveContainers(cell, heap) ==
    ResolveAbove(cell, Each(cell.kids, LAMBDA k : ResolveContainers(k, heap)), heap)

-----------------------------------------------------------------------------
(* The whole point.                                                        *)

\* The first cell, of several at one address, in display order.
Owner(cells, a) == LET i == SelectInSeq(cells, LAMBDA k : k.addr = a)
                   IN IF i = 0 THEN <<>> ELSE cells[i].id

RECURSIVE ResolveReferences(_, _)
ResolveReferences(cell, among) ==
    LET Pointed(id) == [cell EXCEPT !.kids = Each(@, LAMBDA k : ResolveReferences(k, among)),
                                    !.targetId = IF cell.kind = "reference" /\ id # <<>> THEN id ELSE @]
    IN Pointed(Owner(among, cell.target))

InOrder(heap) == LET as == SetToSortSeq(DOMAIN heap, LAMBDA a, b : a < b)
                 IN Each(as, LAMBDA a : heap[a])

\* What stays of the heap once the containers have taken their blocks.
Visible(heap, consumed) ==
    [a \in {b \in DOMAIN heap : /\ b \notin consumed
                                /\ ~(heap[b].kind = "array" /\ heap[b].kids = <<>>)} |-> heap[a]]

\* Links are resolved among the cells as encoded, then containers decoded.
ResolveAll(cells, among, heap) ==
    Each(cells, LAMBDA k : ResolveContainers(ResolveReferences(k, among), heap))

\* And in the end again, among the cells that are left to draw.
Relinked(frame, heap) ==
    LET Linked(forest, among) == Each(forest, LAMBDA k : ResolveReferences(k, among))
        Among(final) == [frame |-> Linked(frame, final), heap |-> Linked(heap, final)]
    IN Among(FlattenCells(frame \o heap))

Shown(heap, cells, uses) == Relinked(Outs(cells), InOrder(Visible(heap, uses \cup Uses(cells))))

\* The results are those of the heap's blocks, in order of address.
ByAddress(heap, results) ==
    [a \in DOMAIN heap |-> results[Cardinality({b \in DOMAIN heap : b <= a})].out[1]] @@ <<>>

\* The heap is decoded over the raw heap, the frame over the decoded one.
DecodeFrame(frame, initial, heap, uses) == Shown(heap, ResolveAll(frame, initial, heap), uses)
DecodeOver(frame, initial, raw, results) ==
    DecodeFrame(frame, initial, ByAddress(raw, results), Uses(results))
Decode(frame, raw, initial) ==
    DecodeOver(frame, initial, raw, ResolveAll(InOrder(raw), initial, raw))

NormalizeCells(frame, raw) == Decode(frame, raw, FlattenCells(frame \o InOrder(raw)))
NormalizeMemory(pt) ==
    NormalizeCells(Each(pt.locals, LAMBDA r : DecodeMemoryValue(r, <<"stack">>)), NormalizeHeap(pt.heap))

Links(m) == {[from |-> k.id, to |-> k.targetId, target |-> k.target] :
               k \in {c \in ToSet(FlattenCells(m.frame \o m.heap)) : c.kind = "reference" /\ c.targetId # <<>>}}

\* What the cells without children display.
CollectValues(m) == {<<k.id, k.show>> : k \in {c \in ToSet(FlattenCells(m.frame \o m.heap)) : c.kids = <<>>}}

ChangedCellIds(prev, curr) == {v[1] : v \in CollectValues(curr) \ CollectValues(prev)}

-----------------------------------------------------------------------------
(* The program.                                                            *)

Init ==
    /\ x \in {New(ty) : ty \in Types}
    /\ p = 0 /\ block = 0 /\ gone = 0 /\ lost = FALSE /\ steps = 0
    /\ point = Point(x, p, block, gone, lost)
    /\ memory = NormalizeMemory(point)

Records ==
    /\ steps' = steps + 1
    /\ point' = Point(x', p', block', gone', lost')
    /\ memory' = NormalizeMemory(point')

\* The allocator hands out the lowest free block, often one freed before.
FreeBlock == Block * CHOOSE k \in 1..9 : /\ Block * k \notin Blocks(x) \cup {block}
                                         /\ \A j \in 1..k - 1 : Block * j \in Blocks(x) \cup {block}

Change ==
    /\ gone = 0 /\ ~lost /\ steps < MaxSteps
    /\ x' \in Changed(x, FreeBlock)
    /\ UNCHANGED <<p, block, gone, lost>>
    /\ Records

\* Where the integers of the term t at a lie.
RECURSIVE IntegersAt(_, _)
IntegersAt(t, a) == IF t.ty = IntType THEN {a} ELSE IF IsBits(t.ty) THEN {}
                  ELSE UNION {IntegersAt(t.els[i], Place(t, a, i)) : i \in DOMAIN t.els}

Aim ==
    /\ gone = 0 /\ ~lost /\ steps < MaxSteps
    /\ p' \in IntegersAt(x, V) \cup {block}
    /\ p' # p
    /\ UNCHANGED <<x, block, gone, lost>>
    /\ Records

Allocate ==
    /\ gone = 0 /\ ~lost /\ steps < MaxSteps
    /\ block' = IF block = 0 THEN FreeBlock ELSE 0
    /\ UNCHANGED <<x, p, gone, lost>>
    /\ Records

Destroy ==
    /\ IsNodes(x) /\ gone < Len(x.els)
    /\ gone' = gone + 1
    /\ lost' \in {lost, TRUE}
    /\ UNCHANGED <<x, p, block>>
    /\ Records

Next == Change \/ Aim \/ Allocate \/ Destroy

Spec == Init /\ [][Next]_vars

-----------------------------------------------------------------------------
(* Properties.                                                             *)

\* What a term holds, and what a cell displays.
RECURSIVE Truth(_)
Truth(t) ==
    CASE t.ty \in {IntType, BoolType} -> <<"data", t.n>>
      [] t.ty.con = "unique_ptr" -> <<"->", t.at[1]>>
      [] t.ty.con \in AnAdaptor -> Truth(t.els[1])
      [] OTHER -> <<"all", [i \in DOMAIN t.els |-> Truth(t.els[i])]>>

RECURSIVE Displayed(_)
Displayed(cell) ==
    IF cell.kind \in {"scalar", "reference"} THEN cell.show
    ELSE <<"all", [i \in DOMAIN cell.kids |-> Displayed(cell.kids[i])]>>

Addresses(cells) == {k.addr : k \in ToSet(FlattenCells(cells))} \ {0}
InHeap == {k.addr : k \in ToSet(memory.heap)}

\* The container is drawn with the elements that it holds, in their order,
\* through nested containers, whatever blocks they lie in.
ValuesAreShown == gone = 0 => Displayed(memory.frame[1]) = Truth(x)

\* Of an intact container, the Heap section repeats nothing; of one that is
\* being destroyed it shows each node left, unless its type is lost.
RECURSIVE Held(_)
Held(t) == (IF t.ty.con = "unique_ptr" \/ (IsBits(t.ty) /\ t.els = <<>>) THEN ToSet(t.at) ELSE {})
           \cup UNION {Held(t.els[i]) : i \in DOMAIN t.els}

HeapIsTheRest ==
    LET left == {NodeAt(x, i) : i \in DOMAIN x.els} \ Dead(x, gone)
    IN /\ gone = 0 => InHeap = Held(x) \cup ({block} \ {0})
       /\ gone > 0 /\ ~lost => left \subseteq InHeap

\* A pointer to something alive is linked to a cell that is drawn at that
\* address.
LinksLead ==
    gone = 0 /\ p \in (IntegersAt(x, V) \cup {block}) \ {0} =>
        \E l \in Links(memory), k \in ToSet(FlattenCells(memory.frame \o memory.heap)) :
            l.from = <<"stack", "p">> /\ l.to = k.id /\ k.addr = p

\* The view is the program's memory: the three parts above.
ViewIsTruth == ValuesAreShown /\ HeapIsTheRest /\ LinksLead

\* The values in a term, each with its logical path.
RECURSIVE Values(_, _)
Values(t, path) ==
    LET step(i) == CASE t.ty.con = "pair" -> <<<<"first", "second">>[i]>>
                     [] t.ty.con \in AnAdaptor -> <<>>
                     [] t.ty.con = "c_array" -> <<RawIndex[i]>>
                     [] OTHER -> <<Index[i]>>
    IN IF t.ty \in {IntType, BoolType} \/ t.ty.con = "unique_ptr" THEN {<<path, Truth(t)>>}
       ELSE IF t.els = <<>> THEN {<<path, <<"empty">>>>}
       ELSE UNION {Values(t.els[i], path \o step(i)) : i \in DOMAIN t.els}

\* What a step flags in the container are the places whose value is new,
\* though the step may have moved every element to another block.
DiffStep ==
    gone' = 0 =>
        {id \in ChangedCellIds(memory, memory') : SubSeq(id, 1, 2) = <<"stack", "v">>}
          = {v[1] : v \in Values(x', <<"stack", "v">>) \ Values(x, <<"stack", "v">>)}
DiffIsTrue == [][DiffStep]_vars
=============================================================================
