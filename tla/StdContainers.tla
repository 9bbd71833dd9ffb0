---------------------------- MODULE StdContainers ----------------------------
(***************************************************************************)
(* What the memory view is given: the containers of the traced program's   *)
(* standard library (the libstdc++ of the tracer image) and the layout in  *)
(* which the tracer encodes them.  All of it is outside the repository;    *)
(* the layouts are those of the traces that its decoders are tested with.  *)
(*                                                                         *)
(* A value is a term [ty, at, els, n]: its type, the heap blocks it owns   *)
(* in order, its elements and a number (the value of an integer or a bool, *)
(* a vector's capacity, the slot of a deque's first element).              *)
(***************************************************************************)
EXTENDS Integers, Sequences, FiniteSets, SequencesExt, Functions, TLC

CONSTANTS
    Val, Key,    \* values of integers; of the keys of sets and maps
    MaxLen       \* bound: elements of one container, at most 4 (3 in a tree)

Block == 1000    \* heap blocks lie at multiples of this
Pointer == 8     \* bytes of a pointer; the slots of a deque's map
Chunk == 2       \* elements in a chunk of a deque
Header == 24     \* bytes before the characters of a copy-on-write string
EmptyString == 500  \* the static representation all empty strings share
Junk == -1       \* what was never written
Bits == 2        \* bits in a byte, which is a word of a vector of bool here
Fixed == 2       \* elements of an array

\* The names of the elements of an array, and the ids made of them.
RawIndex == <<"[0]", "[1]", "[2]", "[3]", "[4]", "[5]">>
Index == <<"0", "1", "2", "3", "4", "5">>

Type(con, args) == [con |-> con, args |-> args]
IntType == Type("int", <<>>)
BoolType == Type("bool", <<>>)
IsBits(ty) == ty.con = "vector" /\ ty.args[1] = BoolType
AnArray == {"array", "c_array"}
IsGrid(ty) == ty.con = "c_array" /\ ty.args[1].con = "c_array"
ATree == {"set", "map"}
AHash == {"unordered_set", "unordered_map"}
AMap == {"map", "unordered_map"}
AnAdaptor == {"stack", "queue"}

ElementType(ty) == IF ty.con \in AMap THEN Type("pair", ty.args)
                   ELSE IF ty.con = "string" THEN IntType ELSE ty.args[1]

RECURSIVE SizeOf(_)
SizeOf(ty) ==
    CASE ty.con = "int" -> 4
      [] ty.con = "pair" -> SizeOf(ty.args[1]) + SizeOf(ty.args[2])
      [] ty.con \in {"string", "unique_ptr", "forward_list"} -> Pointer
      [] ty.con = "list" -> 2 * Pointer
      [] ty.con = "vector" -> IF IsBits(ty) THEN 5 * Pointer ELSE 3 * Pointer
      [] ty.con \in AnArray -> Fixed * SizeOf(ty.args[1])
      [] OTHER -> 10 * Pointer

-----------------------------------------------------------------------------
(* Terms and what a statement of the program may do to one.                *)

Term(ty, at, els, n) == [ty |-> ty, at |-> at, els |-> els, n |-> n]

\* Empty, as constructed.  What owns blocks even when empty (a hash table
\* its buckets, a deque its map and a chunk) is only ever the outermost.
RECURSIVE New(_)
New(ty) ==
    CASE ty.con = "pair" -> Term(ty, <<>>, <<New(ty.args[1]), New(ty.args[2])>>, 0)
      [] ty.con \in AnAdaptor -> Term(ty, <<>>, <<New(ty.args[2])>>, 0)
      [] ty.con \in AnArray -> Term(ty, <<>>, <<>> \o [i \in 1..Fixed |-> New(ty.args[1])], 0)
      [] ty.con = "unique_ptr" -> Term(ty, <<Block>>, <<New(ty.args[1])>>, 0)
      [] ty.con \in AHash -> Term(ty, <<Block>>, <<>>, 0)
      [] ty.con = "deque" -> Term(ty, <<Block, 2 * Block>>, <<>>, 0)
      [] OTHER -> Term(ty, <<>>, <<>>, 0)

RECURSIVE Blocks(_)
Blocks(t) == Range(t.at) \cup UNION {Blocks(t.els[i]) : i \in DOMAIN t.els}

KeyOf(e) == IF e.ty.con = "pair" THEN e.els[1].n ELSE e.n
Keys(t) == {KeyOf(t.els[i]) : i \in DOMAIN t.els}

\* Elements to insert: numbers of any value, the rest newly constructed.
Fresh(ty, vals) ==
    CASE ty = IntType -> {[New(ty) EXCEPT !.n = v] : v \in vals}
      [] ty = BoolType -> {[New(ty) EXCEPT !.n = v] : v \in {0, 1}}
      [] ty.con = "pair" /\ ty.args[1] = IntType ->
             {[New(ty) EXCEPT !.els[1].n = v] : v \in vals}
      [] OTHER -> {New(ty)}

\* Inserting e with a free block at hand.
Inserted(t, e, free) ==
    LET n == Len(t.els)
        sorted == Cardinality({k \in Keys(t) : k < KeyOf(e)}) + 1
        place(i, skip) == [t EXCEPT !.els = InsertAt(t.els, i, e),
                                    !.at = InsertAt(t.at, i + skip, free)]
    IN CASE t.ty.con \in {"vector", "string"} ->
              {IF n < (IF IsBits(t.ty) THEN Bits * t.n ELSE t.n)
               THEN [t EXCEPT !.els = Append(t.els, e)]
               ELSE [t EXCEPT !.els = Append(t.els, e), !.at = <<free>>,
                              !.n = IF t.n = 0 THEN 1 ELSE 2 * t.n]}
         [] t.ty.con = "list" -> {place(i, 0) : i \in 1..n + 1}
         [] t.ty.con = "forward_list" -> {place(1, 0)}
         [] t.ty.con \in ATree -> IF KeyOf(e) \in Keys(t) THEN {} ELSE {place(sorted, 0)}
         [] t.ty.con \in AHash ->
              IF KeyOf(e) \in Keys(t) THEN {} ELSE {place(i, 1) : i \in 1..n + 1}
         [] t.ty.con = "deque" ->
              {[t EXCEPT !.els = Append(t.els, e),
                         !.at = IF (t.n + n + 1) % Chunk = 0 THEN Append(t.at, free) ELSE t.at]}
         [] OTHER -> {}

Grown(t, free) ==
    IF \/ Len(t.els) >= MaxLen
       \/ t.ty.con \in {"int", "bool", "pair", "unique_ptr"} \cup AnArray \cup AnAdaptor
    THEN {}
    ELSE UNION {Inserted(t, e, free) :
                  e \in Fresh(ElementType(t.ty), IF t.ty.con \in ATree \cup AHash THEN Key ELSE Val)}

Shrunk(t) ==
    LET n == Len(t.els)
        without(i, skip) == [t EXCEPT !.els = RemoveAt(t.els, i), !.at = RemoveAt(t.at, i + skip)]
    IN IF n = 0 THEN {}
       ELSE CASE t.ty.con \in {"vector", "string"} -> {[t EXCEPT !.els = RemoveAt(t.els, n)]}
              [] t.ty.con \in {"list"} \cup ATree -> {without(i, 0) : i \in 1..n}
              [] t.ty.con = "forward_list" -> {without(1, 0)}
              [] t.ty.con \in AHash -> {without(i, 1) : i \in 1..n}
              [] t.ty.con = "deque" ->
                    {[t EXCEPT !.els = Tail(t.els), !.n = (t.n + 1) % Chunk,
                               !.at = IF t.n + 1 = Chunk THEN RemoveAt(t.at, 2) ELSE t.at]}
              [] OTHER -> {}

\* What one statement makes of a term: something is inserted in it or in one
\* of its elements, removed, or assigned; keys stay as they are.
RECURSIVE Changed(_, _)
Changed(t, free) ==
    Grown(t, free) \cup Shrunk(t)
    \cup {[t EXCEPT !.n = v] : v \in CASE t.ty = IntType -> Val \ {t.n}
                                        [] t.ty = BoolType -> {1 - t.n}
                                        [] OTHER -> {}}
    \cup UNION {{[t EXCEPT !.els[i] = e] :
                   e \in {d \in Changed(t.els[i], free) :
                            t.ty.con \in ATree \cup AHash => KeyOf(d) = KeyOf(t.els[i])}} :
                 i \in DOMAIN t.els}

-----------------------------------------------------------------------------
(* The encoding: [tag, name, type, addr, v, kids].                         *)

Data(name, con, a, v) == [tag |-> "C_DATA", name |-> name, type |-> Type(con, <<>>),
                          addr |-> a, v |-> v, kids |-> <<>>]
Ptr(name, a, v) == Data(name, "pointer", a, v)
Array(a, kids) == [tag |-> "C_ARRAY", name |-> "chunk", type |-> Type("array", <<>>),
                   addr |-> a, v |-> 0, kids |-> kids]
Struct(name, type, a, kids) == [tag |-> "C_STRUCT", name |-> name, type |-> type,
                                addr |-> a, v |-> 0, kids |-> kids]
\* The layers of base classes and members around what matters.
Within(name, type, a, kids) == <<Struct(name, type, a, kids)>>
Layered(base, impl, a, kids) ==
    Within("<anon_field>", base, a, Within("_M_impl", Type(impl, <<>>), a, kids))

At(s, i) == IF i \in DOMAIN s THEN s[i] ELSE 0
IsNodes(t) == t.ty.con \in {"list", "forward_list"} \cup ATree \cup AHash
NodeAt(t, i) == At(t.at, IF t.ty.con \in AHash THEN i + 1 ELSE i)

\* Where the i-th element of a container at a lies.
Place(t, a, i) ==
    LET size == SizeOf(ElementType(t.ty))
        slot == t.n + i - 1
    IN CASE t.ty.con = "vector" -> t.at[1] + (i - 1) * size
         [] t.ty.con = "string" -> t.at[1] + Header + i - 1
         [] t.ty.con = "deque" -> t.at[slot \div Chunk + 2] + (slot % Chunk) * size
         [] t.ty.con = "pair" -> IF i = 1 THEN a ELSE a + SizeOf(t.ty.args[1])
         [] t.ty.con \in AnArray -> a + (i - 1) * size
         [] t.ty.con = "unique_ptr" -> t.at[1]
         [] IsNodes(t) -> NodeAt(t, i) + 4 * Pointer
         [] OTHER -> a

\* A balanced tree of n nodes, numbered in order.
RootOf(n) == (n + 1) \div 2
LeftOf(n, i) == IF n = 3 /\ i = 2 THEN 1 ELSE 0
RightOf(n, i) == IF RootOf(n) = i /\ i < n THEN i + 1 ELSE 0

\* The k-th slot of a deque, counted from the start of its first chunk.
Iterator(name, t, a, k) ==
    LET c == k \div Chunk
        chunk == t.at[c + 2]
        size == SizeOf(t.ty.args[1])
    IN Struct(name, Type("iterator", <<>>), a,
              <<Ptr("_M_cur", a, chunk + (k % Chunk) * size), Ptr("_M_first", a + 8, chunk),
                Ptr("_M_last", a + 16, chunk + Chunk * size),
                Ptr("_M_node", a + 24, t.at[1] + c * Pointer)>>)

BitIterator(name, a, word, offset) ==
    Struct(name, Type("_Bit_iterator", <<>>), a,
           Within("<anon_field>", Type("_Bit_iterator_base", <<>>), a,
                  <<Ptr("_M_p", a, word), Data("_M_offset", "unsigned int", a + 8, offset)>>))

\* A word of a vector of bool; the bits after the last one are left over.
Word(t, w) == LET bit(j) == LET i == (w - 1) * Bits + j
                            IN IF i \in DOMAIN t.els THEN t.els[i].n ELSE 1
              IN SumFunction([j \in 1..Bits |-> bit(j) * 2^(j - 1)])

\* The members of the object of t at a.
RECURSIVE Encode(_, _, _)
Elements(t, a) == <<>> \o [i \in DOMAIN t.els |-> Encode(t.els[i], RawIndex[i], Place(t, a, i))]

Members(ty, T, n, t, a) ==
    LET node(i) == At(t.at, i)
    IN CASE ty.con = "string" ->
              Within("_M_dataplus", Type("_Alloc_hider", <<>>), a,
                     <<Ptr("_M_p", a, IF t.at = <<>> THEN EmptyString ELSE t.at[1] + Header)>>)
         [] IsBits(ty) ->
              Layered(Type("_Bvector_base", <<>>), "_Bvector_impl", a,
                      <<BitIterator("_M_start", a, node(1), 0),
                        BitIterator("_M_finish", a + 16, node(1) + n \div Bits, n % Bits)>>)
         [] ty.con = "vector" /\ ~IsBits(ty) ->
              Layered(Type("_Vector_base", T), "_Vector_impl", a,
                      <<Ptr("_M_start", a, node(1)),
                        Ptr("_M_finish", a + 8, node(1) + n * SizeOf(T[1])),
                        Ptr("_M_end_of_storage", a + 16, node(1) + t.n * SizeOf(T[1]))>>)
         [] ty.con = "list" ->
              Layered(Type("_List_base", T), "_List_impl", a,
                      Within("_M_node", Type("_List_node_base", <<>>), a,
                             <<Ptr("_M_next", a, IF n = 0 THEN a ELSE node(1)),
                               Ptr("_M_prev", a + 8, IF n = 0 THEN a ELSE node(n))>>))
         [] ty.con = "forward_list" ->
              Layered(Type("_Fwd_list_base", T), "_Fwd_list_impl", a,
                      Within("_M_head", Type("_Fwd_list_node_base", <<>>), a,
                             <<Ptr("_M_next", a, node(1))>>))
         [] ty.con \in ATree ->
              Within("_M_t", Type("_Rep_type", <<>>), a,
                     Within("_M_impl", Type("_Rb_tree_impl", <<Type("less", <<T[1]>>)>>), a,
                            <<Struct("_M_header", Type("_Rb_tree_node_base", <<>>), a,
                                     <<Ptr("_M_parent", a + 8, node(RootOf(n))),
                                       Ptr("_M_left", a + 16, node(1)),
                                       Ptr("_M_right", a + 24, node(n))>>),
                              Data("_M_node_count", "size_t", a + 40, n)>>))
         [] ty.con \in AHash ->
              Within("_M_h", Type("_Hashtable", <<>>), a,
                     <<Ptr("_M_buckets", a, node(1)),
                       Struct("_M_node", Type("_Hash_node_base", <<>>), a + 16,
                              <<Ptr("_M_nxt", a + 16, node(2))>>),
                       Data("_M_element_count", "size_t", a + 24, n)>>)
         [] ty.con = "deque" ->
              Layered(Type("_Deque_base", T), "_Deque_impl", a,
                      <<Ptr("_M_map", a, t.at[1]), Iterator("_M_start", t, a + 16, t.n),
                        Iterator("_M_finish", t, a + 48, t.n + n)>>)
         [] ty.con \in AnAdaptor -> <<Encode(t.els[1], "c", a)>>
         [] ty.con = "pair" -> <<Encode(t.els[1], "first", a), Encode(t.els[2], "second", Place(t, a, 2))>>
         [] ty.con = "array" ->
              <<[Array(a, Elements(t, a)) EXCEPT !.name = "_M_elems"]>>
         [] ty.con = "unique_ptr" ->
              Within("_M_t", Type("__tuple_type", <<>>), a, <<Ptr("_M_head_impl", a, node(1))>>)

Encode(t, name, a) ==
    IF t.ty \in {IntType, BoolType} THEN Data(name, t.ty.con, a, t.n)
    ELSE IF IsGrid(t.ty)      \* flat, with its last dimension
         THEN [tag |-> "C_MULTIDIMENSIONAL_ARRAY", name |-> name, type |-> Type("array", <<>>),
               addr |-> a, v |-> Fixed,
               kids |-> FlattenSeq([i \in DOMAIN t.els |-> Elements(t.els[i], Place(t, a, i))])]
    ELSE IF t.ty.con = "c_array" THEN [Array(a, Elements(t, a)) EXCEPT !.name = name]
    ELSE Struct(name, t.ty, a, Members(t.ty, t.ty.args, Len(t.els), t, a))

\* The i-th node of a container at home: its type, its links, its payload.
NodeNames(con) ==
    CASE con = "list" -> <<"_List_node", "_List_node_base", "_M_data">>
      [] con = "forward_list" -> <<"_Fwd_list_node", "_Fwd_list_node_base", "_M_value">>
      [] con \in ATree -> <<"_Rb_tree_node", "_Rb_tree_node_base", "_M_value_field">>
      [] OTHER -> <<"_Hash_node", "_Hash_node_base", "_M_v">>

NodeLinks(t, home, i, n, a) ==
    CASE t.ty.con = "list" ->
           <<Ptr("_M_next", a, IF i = n THEN home ELSE NodeAt(t, i + 1)),
             Ptr("_M_prev", a + 8, IF i = 1 THEN home ELSE NodeAt(t, i - 1))>>
      [] t.ty.con = "forward_list" -> <<Ptr("_M_next", a, NodeAt(t, i + 1))>>
      [] t.ty.con \in ATree -> <<Ptr("_M_left", a + 16, At(t.at, LeftOf(n, i))),
                                 Ptr("_M_right", a + 24, At(t.at, RightOf(n, i)))>>
      [] OTHER -> <<Ptr("_M_nxt", a, NodeAt(t, i + 1))>>

Node(t, home, i) ==
    LET a == NodeAt(t, i)
        names == NodeNames(t.ty.con)
    IN Array(a, Within(RawIndex[1], Type(names[1], <<ElementType(t.ty)>>), a,
                       Within("<anon_field>", Type(names[2], <<>>), a, NodeLinks(t, home, i, Len(t.els), a))
                       \o <<Encode(t.els[i], names[3], Place(t, home, i))>>))

\* An array of count slots, of which the k-th holds element k + skip, if
\* there is one.
SlotOf(t, home, a, k, i) ==
    IF i \in DOMAIN t.els THEN Encode(t.els[i], RawIndex[k], Place(t, home, i))
    ELSE Encode([New(ElementType(t.ty)) EXCEPT !.n = Junk], RawIndex[k],
                a + (k - 1) * SizeOf(ElementType(t.ty)))
Slots(t, home, a, count, skip) ==
    Array(a, <<>> \o [k \in 1..count |-> SlotOf(t, home, a, k, k + skip)])

\* The block of t that begins at a, and every block of t and its elements.
OwnBlock(t, home, a, b, n) ==
    CASE IsBits(t.ty) ->
           Array(a, <<>> \o [w \in 1..t.n |-> Data(RawIndex[w], "_Bit_type", a + w - 1, Word(t, w))])
      [] t.ty.con = "vector" /\ ~IsBits(t.ty) -> Slots(t, home, a, t.n, 0)
      [] t.ty.con = "string" ->
           Array(a, <<Data(RawIndex[1], "char", a, Junk)>>
                    \o [k \in 1..n |-> Encode(t.els[k], RawIndex[k + 1], Place(t, home, k))]
                    \o <<Data(RawIndex[n + 2], "char", a + Header + n, 0)>>)
      [] t.ty.con = "deque" ->
           IF b = 1
           THEN Array(a, <<>> \o [k \in 1..Len(t.at) - 1 |->
                            Ptr(RawIndex[k], a + (k - 1) * Pointer, t.at[k + 1])])
           ELSE Slots(t, home, a, Chunk, (b - 2) * Chunk - t.n)
      [] t.ty.con = "unique_ptr" -> Array(a, <<Encode(t.els[1], RawIndex[1], a)>>)
      [] t.ty.con \in AHash /\ b = 1 -> Array(a, <<Ptr(RawIndex[1], a, 0)>>)
      [] OTHER -> Node(t, home, IF t.ty.con \in AHash THEN b - 1 ELSE b)

RECURSIVE HeapOf(_, _)
HeapOf(t, home) ==
    FoldLeft(LAMBDA h, i : HeapOf(t.els[i], Place(t, home, i)) @@ h,
             [a \in Range(t.at) |-> OwnBlock(t, home, a, SelectInSeq(t.at, LAMBDA c : c = a), Len(t.els))]
                 @@ <<>>, [i \in DOMAIN t.els |-> i])
=============================================================================
