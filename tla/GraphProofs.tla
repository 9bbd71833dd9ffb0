----------------------------- MODULE GraphProofs -----------------------------
(***************************************************************************)
(* Proofs about Graph, for every graph, grid and order of the edges: the   *)
(* scene is the graph of the program, and its marks are those of the walk. *)
(* What memory holds is told first, container by container; then what the  *)
(* tab reads it as, form by form; then what it draws; and last the marks,  *)
(* for which the trace must be known to keep what is gone from memory.     *)
(***************************************************************************)
EXTENDS Graph, TLAPS, CommonLemmas, FiniteSetTheorems

Todo == IF IsWalk THEN Walkable ELSE (0..Inf - 1) \X Vertex

\* What the assumption says, constant by constant.
LEMMA GraphConstants ==
    /\ N \in Nat /\ N > 0 /\ Row \in Nat /\ Row > 0 /\ Col \in Nat /\ Col > 0
    /\ Inf \in Nat /\ Inf > 0 /\ N <= Inf
    /\ 0 \in Vertex /\ Vertex \subseteq Nat /\ \A v \in Vertex : v < N /\ v < Inf
    /\ Range(Arc) \subseteq Vertex \X Vertex
    /\ \A e \in Range(Arc) : /\ e = <<e[1], e[2]>> /\ e[1] \in Vertex /\ e[2] \in Vertex
                             /\ e[1] # e[2]
                             /\ Weight[e] \in Nat /\ Weight[e] > 0 /\ Weight[e] < Inf
    /\ Nil \notin Vertex /\ Nil \notin Square
<1>1. N \in Nat /\ N > 0 /\ Row \in Nat /\ Row > 0 /\ Col \in Nat /\ Col > 0
      /\ Inf \in Nat /\ Inf > 0 /\ N <= Inf
  BY GraphAssumption
<1>2. 0 \in Vertex /\ Vertex \subseteq Nat /\ \A v \in Vertex : v < N /\ v < Inf
  BY <1>1 DEF Vertex
<1>3. Range(Arc) \subseteq {e \in Vertex \X Vertex : e[1] # e[2]}
  <2>1. Arc \in Seq({e \in Vertex \X Vertex : e[1] # e[2]})
    BY GraphAssumption
  <2>. QED BY <2>1, LenProperties DEF Range
<1>4. \A e \in Range(Arc) : Weight[e] \in 1..Inf - 1
  BY GraphAssumption
<1>5. \A e \in Range(Arc) : /\ e = <<e[1], e[2]>> /\ e[1] \in Vertex /\ e[2] \in Vertex
                             /\ e[1] # e[2]
  BY <1>3
<1>6. \A e \in Range(Arc) : Weight[e] \in Nat /\ Weight[e] > 0 /\ Weight[e] < Inf
  BY <1>1, <1>4
<1>7. Nil \notin Vertex /\ Nil \notin Square
  BY GraphAssumption
<1>. QED BY <1>1, <1>2, <1>3, <1>5, <1>6, <1>7

\* The edges, and those out of a node.
LEMMA EdgesAre ==
    ASSUME GraphTypeOK
    PROVE  /\ Range(edges) \subseteq Range(Arc)
           /\ edges \in Seq(Range(edges)) /\ Len(edges) \in Nat /\ DOMAIN edges = 1..Len(edges)
           /\ \A i, j \in 1..Len(edges) : edges[i] = edges[j] => i = j
           /\ \A e : e \in Range(edges) <=> \E i \in 1..Len(edges) : edges[i] = e
<1>1. edges \in Seq(Range(Arc)) /\ IsInjective(edges)
  BY DEF GraphTypeOK, IsInjectiveIn
<1>2. Len(edges) \in Nat /\ DOMAIN edges = 1..Len(edges)
      /\ \A i \in 1..Len(edges) : edges[i] \in Range(Arc)
  BY <1>1, LenProperties
<1>3. \A e : e \in Range(edges) <=> \E i \in 1..Len(edges) : edges[i] = e
  BY <1>2 DEF Range
<1>4. Range(edges) \subseteq Range(Arc)
  BY <1>2, <1>3
<1>5. edges = [i \in 1..Len(edges) |-> edges[i]]
  BY <1>1, LenProperties
<1>6. edges \in Seq(Range(edges))
  BY <1>2, <1>5, IsSequence
<1>7. \A i, j \in 1..Len(edges) : edges[i] = edges[j] => i = j
  BY <1>1, <1>2 DEF IsInjective
<1>. QED BY <1>2, <1>3, <1>4, <1>6, <1>7

LEMMA OutIs ==
    ASSUME GraphTypeOK, NEW u
    PROVE  /\ Out(u) \in Seq(Range(Arc)) /\ Len(Out(u)) \in Nat /\ DOMAIN Out(u) = 1..Len(Out(u))
           /\ Range(Out(u)) = {e \in Range(edges) : e[1] = u}
           /\ \A i \in 1..Len(Out(u)) : Out(u)[i] \in Range(edges) /\ Out(u)[i][1] = u
           /\ \A i, j \in 1..Len(Out(u)) : Out(u)[i] = Out(u)[j] => i = j
<1> DEFINE S == {e \in Range(edges) : e[1] = u}
           out == Keep(edges, S)
<1>1. edges \in Seq(Range(edges)) /\ Range(edges) \subseteq Range(Arc) /\ IsInjective(edges)
  BY EdgesAre DEF GraphTypeOK, IsInjectiveIn
<1>2. out \in Seq(Range(edges) \cap S) /\ Range(out) = Range(edges) \cap S
  BY <1>1, KeepIs
<1>3. IsInjective(out)
  BY <1>1, KeepIsInjective
<1>. HIDE DEF out
<1>4. Range(edges) \cap S = S
  OBVIOUS
<1>5. Len(out) \in Nat /\ DOMAIN out = 1..Len(out) /\ \A i \in 1..Len(out) : out[i] \in S
  BY <1>2, <1>4, LenProperties
<1>6. out \in Seq(Range(Arc))
  <2>1. S \subseteq Range(Arc)
    BY <1>1
  <2>2. out \in Seq(S)
    BY <1>2, <1>4
  <2>. HIDE DEF S
  <2>. QED BY <2>1, <2>2, SeqMonotonic
<1>7. \A i, j \in 1..Len(out) : out[i] = out[j] => i = j
  BY <1>3, <1>5 DEF IsInjective
<1>8. out = Out(u)
  BY DEF out, Out
<1>. QED BY <1>2, <1>4, <1>5, <1>6, <1>7, <1>8

\* What can be reached in one step.
LEMMA BesideIs ==
    ASSUME GraphTypeOK, NEW x \in Walkable \cup {Nil}
    PROVE  /\ Beside(x) \subseteq Walkable
           /\ (form # "grid" /\ x # Nil) =>
                 \A v \in Beside(x) : x \in Vertex /\ <<x, v>> \in Range(Arc)
<1>1. CASE x = Nil
  BY <1>1 DEF Beside
<1>2. CASE x # Nil /\ form = "grid"
  BY <1>2 DEF Beside, Walkable
<1>3. CASE x # Nil /\ form # "grid"
  <2>1. Range(Out(x)) = {e \in Range(edges) : e[1] = x} /\ Range(edges) \subseteq Range(Arc)
    BY OutIs, EdgesAre
  <2>2. Beside(x) = {e[2] : e \in Range(Out(x))}
    BY <1>3 DEF Beside
  <2>3. \A e \in Range(Out(x)) : e \in Range(Arc) /\ e = <<x, e[2]>> /\ e[2] \in Vertex
    BY <2>1, GraphConstants
  <2>. QED BY <1>3, <2>2, <2>3 DEF Walkable
<1>. QED BY <1>1, <1>2, <1>3

LEMMA GraphInitType == GraphInit => GraphTypeOK
<1> SUFFICES ASSUME GraphInit PROVE GraphTypeOK
  OBVIOUS
<1>1. \A S : IsInjectiveIn(<<>>, S)
  BY DEF IsInjectiveIn, IsInjective
<1>2. <<>> \in Seq(Todo)
  OBVIOUS
<1>3. dist \in [Vertex -> 0..Inf]
  <2>1. Inf \in 0..Inf
    BY GraphConstants
  <2>. QED BY <2>1 DEF GraphInit
<1>4. mode \in {"queue", "stack", "recursion", "priority_queue"} /\ (form = "grid" => IsWalk)
  BY DEF GraphInit, IsWalk
<1>5. land \subseteq Square /\ (form = "grid" => land # {})
  BY DEF GraphInit
<1>6. place \in {"own", "in place", "returned"} /\ (place = "in place" => form = "grid")
      /\ (place = "returned" => ~IsWalk)
  BY DEF GraphInit
<1>. QED BY <1>1, <1>2, <1>3, <1>4, <1>5, <1>6 DEF GraphInit, GraphTypeOK, Todo

\* One more edge, or one more node marked.
LEMMA OneMore ==
    ASSUME NEW S, NEW s, IsInjectiveIn(s, S), NEW e \in S, e \notin Range(s)
    PROVE  IsInjectiveIn(Append(s, e), S)
<1>1. s \in Seq(S) /\ IsInjective(s)
  BY DEF IsInjectiveIn
<1>2. Append(s, e) \in Seq(S) /\ IsInjective(Append(s, e))
  BY <1>1, AppendProperties, AppendIsInjective
<1>. QED BY <1>2 DEF IsInjectiveIn

(* What no step changes, and the sets that depend on it.                   *)
Fixed == UNCHANGED <<form, mode, place, land>>

LEMMA FixedKeeps ==
    ASSUME Fixed
    PROVE  Walkable' = Walkable /\ Todo' = Todo /\ IsWalk' = IsWalk
BY DEF Fixed, Walkable, Todo, IsWalk

LEMMA AddEdgeType ==
    ASSUME GraphTypeOK, AddEdge
    PROVE  GraphTypeOK'
<1>1. PICK i \in DOMAIN Arc : /\ \A j \in i..Len(Arc) : Arc[j] \notin Range(edges)
                              /\ edges' = Append(edges, Arc[i])
  BY DEF AddEdge
<1>2. IsInjectiveIn(edges, Range(Arc))'
  <2>1. Arc \in Seq(Range(Arc)) /\ DOMAIN Arc = 1..Len(Arc) /\ Len(Arc) \in Nat
    BY GraphAssumption, LenProperties DEF Range
  <2>2. i \in i..Len(Arc) /\ Arc[i] \in Range(Arc)
    BY <2>1 DEF Range
  <2>3. IsInjectiveIn(edges, Range(Arc))
    BY DEF GraphTypeOK
  <2>. QED BY <1>1, <2>2, <2>3, OneMore DEF IsInjectiveIn
<1>3. Fixed /\ UNCHANGED <<phase, marked, todo, at, dist>> /\ phase = "building" /\ form # "grid"
  BY DEF AddEdge, Fixed
<1>4. Walkable' = Walkable /\ Todo' = Todo /\ IsWalk' = IsWalk
  BY <1>3, FixedKeeps
<1>. QED BY <1>2, <1>3, <1>4 DEF GraphTypeOK, Todo, Fixed, IsInjectiveIn

LEMMA PhaseType ==
    ASSUME GraphTypeOK, CallWalk \/ ReturnWalk \/ CallAnother
    PROVE  GraphTypeOK'
<1>1. Fixed /\ UNCHANGED <<edges, marked, todo, dist>>
  BY DEF CallWalk, ReturnWalk, CallAnother, Fixed
<1>2. Walkable' = Walkable /\ Todo' = Todo /\ IsWalk' = IsWalk
  BY <1>1, FixedKeeps
<1>3. /\ phase' \in {"entered", "returned", "after"} /\ at' \in Walkable \cup {Nil}
      /\ phase' = "entered" => phase = "building" /\ at' = at
      /\ phase' # "entered" => todo = <<>> /\ at' = Nil
  BY DEF CallWalk, ReturnWalk, CallAnother, GraphTypeOK
<1>. QED BY <1>1, <1>2, <1>3 DEF GraphTypeOK, Todo, Fixed, IsInjectiveIn

LEMMA BeginType ==
    ASSUME GraphTypeOK, Begin
    PROVE  GraphTypeOK'
<1>1. Fixed /\ UNCHANGED <<edges, at>> /\ phase' = "walking"
  BY DEF Begin, Fixed
<1>2. Walkable' = Walkable /\ Todo' = Todo /\ IsWalk' = IsWalk
  BY <1>1, FixedKeeps
<1>3. IsInjectiveIn(marked', Walkable) /\ todo' \in Seq(Todo) /\ dist' \in [Vertex -> 0..Inf]
      /\ (IsWalk => dist' = dist) /\ (~IsWalk => marked' = marked)
  <2>1. CASE IsWalk
    <3>1. PICK x \in IF form = "grid" THEN land ELSE {0} : marked' = <<x>> /\ todo' = <<x>> /\ dist' = dist
      BY <2>1 DEF Begin
    <3>2. x \in Walkable
      BY GraphConstants DEF Walkable
    <3> DEFINE one == <<x>>
    <3>3. one \in Seq(Walkable) /\ IsInjective(one)
      BY <3>2, SingletonProperties DEF IsInjective
    <3>. QED BY <2>1, <3>1, <3>3 DEF IsInjectiveIn, Todo, GraphTypeOK
  <2>2. CASE ~IsWalk
    <3>1. todo' = <<<<0, 0>>>> /\ dist' = [dist EXCEPT ![0] = 0] /\ marked' = marked
      BY <2>2 DEF Begin
    <3>2. <<0, 0>> \in (0..Inf - 1) \X Vertex
      BY GraphConstants
    <3>3. 0 \in 0..Inf
      BY GraphConstants
    <3>4. todo' \in Seq(Todo)
      <4> DEFINE o == <<0, 0>>
      <4>1. o \in Todo /\ todo' = <<o>>
        BY <2>2, <3>1, <3>2 DEF Todo
      <4>. HIDE DEF o
      <4>. QED BY <4>1
    <3>5. dist' \in [Vertex -> 0..Inf]
      BY <3>1, <3>3 DEF GraphTypeOK
    <3>. QED BY <2>2, <3>1, <3>4, <3>5 DEF GraphTypeOK
  <2>. QED BY <2>1, <2>2
<1>. QED BY <1>1, <1>2, <1>3 DEF GraphTypeOK, Todo, Fixed, IsInjectiveIn

LEMMA VisitType ==
    ASSUME GraphTypeOK, Visit
    PROVE  GraphTypeOK'
<1>1. Fixed /\ UNCHANGED <<edges, phase, at, dist>> /\ phase = "walking"
  BY DEF Visit, Fixed
<1>2. Walkable' = Walkable /\ Todo' = Todo /\ IsWalk' = IsWalk
  BY <1>1, FixedKeeps
<1>3. PICK x \in Unmarked : marked' = Append(marked, x) /\ todo' = Append(todo, x)
  BY DEF Visit
<1>4. IsWalk /\ x \in Beside(Here) /\ x \notin Range(marked)
  BY DEF Unmarked
<1>5. Here \in Walkable \cup {Nil}
  <2>1. CASE mode = "recursion" /\ todo # <<>>
    <3>1. todo \in Seq(Walkable)
      BY <1>4 DEF GraphTypeOK
    <3>2. Len(todo) \in 1..Len(todo)
      BY <2>1, <3>1, EmptySeq, LenProperties
    <3>. QED BY <2>1, <3>1, <3>2 DEF Here, Last
  <2>2. CASE ~(mode = "recursion" /\ todo # <<>>)
    BY <2>2 DEF Here, GraphTypeOK
  <2>. QED BY <2>1, <2>2
<1>6. x \in Walkable
  BY <1>4, <1>5, BesideIs
<1>7. IsInjectiveIn(marked', Walkable)
  BY <1>3, <1>4, <1>6, OneMore DEF GraphTypeOK
<1>8. todo' \in Seq(Todo)
  <2>1. todo \in Seq(Todo) /\ x \in Todo
    BY <1>4, <1>6 DEF GraphTypeOK, Todo
  <2>. QED BY <1>3, <2>1, AppendProperties
<1>. QED BY <1>1, <1>2, <1>4, <1>7, <1>8 DEF GraphTypeOK, Todo, Fixed, IsInjectiveIn

LEMMA RelaxType ==
    ASSUME GraphTypeOK, Relax
    PROVE  GraphTypeOK'
<1>1. Fixed /\ UNCHANGED <<edges, phase, marked, at>> /\ phase = "walking"
  BY DEF Relax, Fixed
<1>2. Walkable' = Walkable /\ Todo' = Todo /\ IsWalk' = IsWalk
  BY <1>1, FixedKeeps
<1>3. PICK v \in Nearer : LET d == dist[at] + Weight[<<at, v>>]
                          IN  dist' = [dist EXCEPT ![v] = d] /\ todo' = Append(todo, <<d, v>>)
  BY DEF Relax
<1>4. ~IsWalk /\ v \in Beside(at) /\ dist[at] + Weight[<<at, v>>] < dist[v]
  BY DEF Nearer
<1>5. at \in Walkable \cup {Nil} /\ form # "grid" /\ at # Nil /\ Walkable = Vertex
  BY <1>4 DEF GraphTypeOK, Beside, Walkable
<1>6. v \in Vertex /\ at \in Vertex /\ <<at, v>> \in Range(Arc)
  BY <1>4, <1>5, BesideIs
<1> DEFINE d == dist[at] + Weight[<<at, v>>]
<1>7. d \in 0..Inf - 1 /\ d \in 0..Inf
  <2>1. dist[at] \in 0..Inf /\ dist[v] \in 0..Inf
    BY <1>6 DEF GraphTypeOK
  <2>2. Weight[<<at, v>>] \in Nat /\ Inf \in Nat
    BY <1>6, GraphConstants
  <2>. QED BY <1>4, <2>1, <2>2
<1>8. dist' = [dist EXCEPT ![v] = d] /\ todo' = Append(todo, <<d, v>>)
  BY <1>3
<1>. HIDE DEF d
<1>9. dist' \in [Vertex -> 0..Inf]
  BY <1>7, <1>8 DEF GraphTypeOK
<1>10. todo' \in Seq(Todo)
  <2>1. todo \in Seq(Todo) /\ <<d, v>> \in Todo
    BY <1>4, <1>6, <1>7 DEF GraphTypeOK, Todo
  <2>. QED BY <1>8, <2>1, AppendProperties
<1>. QED BY <1>1, <1>2, <1>4, <1>9, <1>10 DEF GraphTypeOK, Todo, Fixed, IsInjectiveIn

LEMMA TakeType ==
    ASSUME GraphTypeOK, Take
    PROVE  GraphTypeOK'
<1>1. Fixed /\ UNCHANGED <<edges, phase, marked, dist>> /\ phase = "walking" /\ todo # <<>>
  BY DEF Take, Fixed
<1>2. Walkable' = Walkable /\ Todo' = Todo /\ IsWalk' = IsWalk
  BY <1>1, FixedKeeps
<1>3. todo \in Seq(Todo) /\ Len(todo) \in Nat /\ Len(todo) # 0 /\ DOMAIN todo = 1..Len(todo)
  <2>1. todo \in Seq(Todo)
    BY DEF GraphTypeOK, Todo
  <2>. QED BY <1>1, <2>1, EmptySeq, LenProperties
<1>4. /\ todo[1] \in Todo /\ todo[Len(todo)] \in Todo /\ \A i \in 1..Len(todo) : todo[i] \in Todo
      /\ SubSeq(todo, 1, Len(todo) - 1) \in Seq(Todo)
      /\ \A i \in 1..Len(todo) : SubSeq(todo, 1, i - 1) \o SubSeq(todo, i + 1, Len(todo)) \in Seq(Todo)
      /\ Tail(todo) \in Seq(Todo)
  <2>1. \A i \in 1..Len(todo) : todo[i] \in Todo
    BY <1>3, LenProperties
  <2>2. 1 \in 1..Len(todo) /\ Len(todo) \in 1..Len(todo)
    BY <1>3
  <2>3. SubSeq(todo, 1, Len(todo) - 1) \in Seq(Todo)
    <3>1. \A i \in 1..Len(todo) - 1 : todo[i] \in Todo
      BY <1>3, <2>1
    <3>. QED BY <1>3, <3>1, SubSeqProperties
  <2>4. ASSUME NEW i \in 1..Len(todo)
        PROVE  SubSeq(todo, 1, i - 1) \o SubSeq(todo, i + 1, Len(todo)) \in Seq(Todo)
    <3>1. SubSeq(todo, 1, i - 1) \in Seq(Todo) /\ SubSeq(todo, i + 1, Len(todo)) \in Seq(Todo)
      <4>1. \A j \in 1..i - 1 : todo[j] \in Todo
        BY <1>3, <2>1
      <4>2. \A j \in i + 1..Len(todo) : todo[j] \in Todo
        BY <1>3, <2>1
      <4>. QED BY <1>3, <4>1, <4>2, SubSeqProperties
    <3>. QED BY <3>1, ConcatProperties
  <2>5. Tail(todo) \in Seq(Todo)
    BY <1>1, <1>3, HeadTailProperties
  <2>. QED BY <2>1, <2>2, <2>3, <2>4, <2>5
<1>5. at' \in Walkable \cup {Nil} /\ todo' \in Seq(Todo)
  <2>1. CASE mode \in {"queue", "stack"}
    <3>1. IsWalk /\ Todo = Walkable
      BY <2>1 DEF IsWalk, Todo
    <3>2. (mode = "queue" /\ at' = Head(todo) /\ todo' = Tail(todo))
           \/ (mode = "stack" /\ at' = Last(todo) /\ todo' = Front(todo))
      BY <2>1 DEF Take
    <3>3. Head(todo) = todo[1]
      BY <1>1, <1>3, HeadTailProperties
    <3>. QED BY <1>4, <3>1, <3>2, <3>3 DEF Last, Front
  <2>2. CASE mode = "recursion"
    <3>1. at' = Nil /\ todo' = Front(todo)
      BY <2>2 DEF Take
    <3>. QED BY <1>4, <3>1 DEF Front
  <2>3. CASE mode = "priority_queue"
    <3>1. PICK i \in DOMAIN todo : at' = todo[i][2] /\ todo' = RemoveAt(todo, i)
      BY <2>3 DEF Take
    <3>2. todo[i] \in (0..Inf - 1) \X Vertex /\ Walkable = Vertex
      BY <1>3, <1>4, <2>3 DEF Todo, IsWalk, GraphTypeOK, Walkable
    <3>. QED BY <1>3, <1>4, <3>1, <3>2 DEF RemoveAt
  <2>. QED BY <2>1, <2>2, <2>3 DEF GraphTypeOK
<1>. QED BY <1>1, <1>2, <1>5 DEF GraphTypeOK, Todo, Fixed, IsInjectiveIn

LEMMA GraphStepType ==
    ASSUME GraphTypeOK, [GraphNext]_graphVars
    PROVE  GraphTypeOK'
<1>1. CASE UNCHANGED graphVars
  BY <1>1 DEF graphVars, GraphTypeOK, IsInjectiveIn, Walkable, IsWalk
<1>2. CASE GraphNext
  BY <1>2, AddEdgeType, PhaseType, BeginType, VisitType, RelaxType, TakeType DEF GraphNext
<1>. QED BY <1>1, <1>2

(* Whatever the program builds and however it walks, its state is well     *)
(* typed: no edge is added twice and no node marked twice, and distances   *)
(* stay below INT_MAX.                                                     *)
THEOREM GraphTypeCorrect == GraphSpec => []GraphTypeOK
<1>1. GraphInit => GraphTypeOK
  BY GraphInitType
<1>2. GraphTypeOK /\ [GraphNext]_graphVars => GraphTypeOK'
  BY GraphStepType
<1>. QED BY <1>1, <1>2, PTL DEF GraphSpec

(* What is in a container, and that it is made of sequences.               *)
Inner(c) == Range(Elements(c))
Parts(c) == {c} \cup Inner(c) \cup UNION {Inner(d) : d \in Inner(c)}
IsLaidOut(c) ==
    /\ c.elem \in {"ints", "pairs", "rows", "pairrows"}
    /\ c.elem # "ints" => c.of \in Seq(Range(c.of))
    /\ c.elem = "pairrows" => \A i \in DOMAIN c.of : c.of[i] \in Seq(Range(c.of[i]))

\* The elements of a container.
LEMMA ElementsAre ==
    ASSUME NEW c, IsLaidOut(c)
    PROVE  /\ Elements(c) \in Seq(Range(Elements(c)))
           /\ c.elem = "ints" => Inner(c) = {}
           /\ c.elem # "ints" =>
                Inner(c) = {Container(ElementKind[c.elem], "", ElementElem[c.elem],
                                      16 * c.address + i, c.of[i]) : i \in 1..Len(c.of)}
           /\ \A d \in Inner(c) : IsLaidOut(d)
<1>1. CASE c.elem = "ints"
  <2>1. Elements(c) = <<>>
    BY <1>1 DEF Elements
  <2>2. Range(<<>>) = {} /\ <<>> \in Seq({})
    BY DEF Range
  <2>. QED BY <1>1, <2>1, <2>2 DEF Inner
<1>2. CASE c.elem # "ints"
  <2> DEFINE At(i) == Container(ElementKind[c.elem], "", ElementElem[c.elem], 16 * c.address + i, c.of[i])
             n == Len(c.of)
             r == Elements(c)
  <2>1. n \in Nat /\ DOMAIN c.of = 1..n
    BY <1>2, SequenceShape DEF IsLaidOut
  <2>2. r = [i \in 1..n |-> At(i)]
    BY <1>2, <2>1 DEF Elements
  <2>3. \A d \in {At(i) : i \in 1..n} : IsLaidOut(d)
    <3> SUFFICES ASSUME NEW i \in 1..n PROVE IsLaidOut(At(i))
      OBVIOUS
    <3>1. At(i).elem = ElementElem[c.elem] /\ At(i).of = c.of[i]
      BY DEF Container
    <3>2. At(i).elem = (IF c.elem = "pairrows" THEN "pairs" ELSE "ints")
      <4>1. c.elem \in {"pairs", "rows", "pairrows"}
        BY <1>2 DEF IsLaidOut
      <4>2. /\ ElementElem["rows"] = "ints" /\ ElementElem["pairrows"] = "pairs"
            /\ ElementElem["pairs"] = "ints"
        BY DEF ElementElem
      <4>. HIDE DEF At
      <4>. QED BY <3>1, <4>1, <4>2
    <3>3. c.elem = "pairrows" => c.of[i] \in Seq(Range(c.of[i]))
      BY <2>1 DEF IsLaidOut
    <3>. HIDE DEF At
    <3>. QED BY <3>1, <3>2, <3>3 DEF IsLaidOut
  <2>. HIDE DEF At, n, r
  <2>4. r = [i \in 1..n |-> r[i]] /\ Range(r) = {At(i) : i \in 1..n}
    BY <2>2 DEF Range
  <2>5. r \in Seq(Range(r))
    BY <2>1, <2>4, IsSequence
  <2>. QED BY <1>2, <2>3, <2>4, <2>5 DEF Inner, At, n, r
<1>. QED BY <1>1, <1>2

\* A container and what is in it, itself first.
LEMMA PutBefore ==
    ASSUME NEW c, NEW s, s \in Seq(Range(s))
    PROVE  /\ <<c>> \o s \in Seq({c} \cup Range(s)) /\ Range(<<c>> \o s) = {c} \cup Range(s)
           /\ <<c>> \o s # <<>> /\ (<<c>> \o s)[1] = c
<1> DEFINE o == <<c>>
           S == {c} \cup Range(s)
<1>1. o \in Seq(S) /\ Len(o) = 1 /\ o[1] = c /\ Range(o) = {c}
  BY SingletonProperties DEF Range
<1>2. s \in Seq(S) /\ Len(s) \in Nat
  BY SeqMonotonic, LenProperties
<1>3. S = Range(o) \cup Range(s)
  BY <1>1
<1>. HIDE DEF o, S
<1>4. o \o s \in Seq(S) /\ Range(o \o s) = S
  BY <1>1, <1>2, <1>3, ConcatProperties, RangeOfConcat
<1>5. Len(o \o s) = Len(o) + Len(s) /\ (o \o s)[1] = o[1]
  <2>1. 1 \in 1..Len(o) + Len(s) /\ 1 <= Len(o)
    BY <1>1, <1>2
  <2>2. Len(o \o s) = Len(o) + Len(s)
        /\ \A i \in 1..Len(o) + Len(s) : (o \o s)[i] = IF i <= Len(o) THEN o[i] ELSE s[i - Len(o)]
    BY <1>1, <1>2, ConcatProperties
  <2>. QED BY <2>1, <2>2
<1>6. o \o s # <<>>
  <2>1. Len(o \o s) # 0
    BY <1>1, <1>2, <1>5
  <2>. QED BY <1>4, <2>1, EmptySeq
<1>. QED BY <1>1, <1>4, <1>5, <1>6 DEF o, S

LEMMA PartsAreFound ==
    ASSUME NEW c, IsLaidOut(c)
    PROVE  /\ WithElements(c) \in Seq(Parts(c)) /\ Range(WithElements(c)) = Parts(c)
           /\ WithElements(c) # <<>> /\ WithElements(c)[1] = c
<1> DEFINE inner == Elements(c)
           G == [i \in DOMAIN inner |-> WithInner(inner[i])]
           n == Len(inner)
           below == FlattenSeq(G)
<1>1. inner \in Seq(Range(inner)) /\ n \in Nat /\ DOMAIN inner = 1..n /\ Range(inner) = Inner(c)
  BY ElementsAre, SequenceShape DEF Inner
<1>2. \A d \in Inner(c) : IsLaidOut(d)
  BY ElementsAre
<1>. HIDE DEF inner, n
<1> DEFINE S == Inner(c) \cup UNION {Inner(d) : d \in Inner(c)}
<1>3. ASSUME NEW i \in 1..n PROVE G[i] \in Seq(S) /\ Range(G[i]) = {inner[i]} \cup Inner(inner[i])
  <2>1. inner[i] \in Inner(c)
    BY <1>1 DEF Range
  <2>2. Elements(inner[i]) \in Seq(Inner(inner[i]))
    BY <1>2, <2>1, ElementsAre DEF Inner
  <2>3. /\ WithInner(inner[i]) \in Seq({inner[i]} \cup Inner(inner[i]))
        /\ Range(WithInner(inner[i])) = {inner[i]} \cup Inner(inner[i])
    BY <2>2, PutBefore DEF WithInner, Inner
  <2>4. {inner[i]} \cup Inner(inner[i]) \subseteq S
    BY <2>1
  <2>5. G[i] = WithInner(inner[i])
    BY <1>1
  <2>. HIDE DEF S, G
  <2>. QED BY <2>3, <2>4, <2>5, SeqMonotonic
<1>4. G \in Seq(Seq(S)) /\ Len(G) = n
  <2>1. G = [i \in 1..n |-> G[i]]
    BY <1>1
  <2>. HIDE DEF G, S
  <2>2. G \in [1..n -> Seq(S)]
    BY <1>3, <2>1
  <2>. QED BY <1>1, <2>2, FunctionIsSequence
<1>5. UNION {Range(G[i]) : i \in 1..n} = S
  <2>1. \A i \in 1..n : Range(G[i]) = {inner[i]} \cup Inner(inner[i])
    BY <1>3
  <2>. HIDE DEF G
  <2>2. Inner(c) = {inner[i] : i \in 1..n}
    BY <1>1 DEF Range
  <2>. QED BY <2>1, <2>2
<1>6. below \in Seq(S) /\ Range(below) = S
  <2>. HIDE DEF G, S
  <2>. QED BY <1>4, <1>5, FlattenHas
<1>7. WithElements(c) = <<c>> \o below
  BY DEF WithElements, inner
<1>8. Parts(c) = {c} \cup S
  BY DEF Parts
<1>. HIDE DEF S, below
<1>. QED BY <1>6, <1>7, <1>8, PutBefore

(* The containers on the frames.                                           *)
OnFrame(f) == UNION {Parts(c) : c \in Range(f.containers)}
IsSoundFrame(f) == f.containers \in Seq(Range(f.containers)) /\ \A c \in Range(f.containers) : IsLaidOut(c)

LEMMA OfFrameHas ==
    ASSUME NEW f, IsSoundFrame(f)
    PROVE  /\ OfFrame(f) \in Seq(OnFrame(f)) /\ Range(OfFrame(f)) = OnFrame(f)
           /\ f.containers # <<>> => OfFrame(f) # <<>> /\ OfFrame(f)[1] = f.containers[1]
<1> DEFINE s == f.containers
           n == Len(s)
           G == [i \in DOMAIN s |-> WithElements(s[i])]
           S == OnFrame(f)
<1>1. s \in Seq(Range(s)) /\ n \in Nat /\ DOMAIN s = 1..n /\ (s # <<>> => n > 0)
      /\ \A i \in 1..n : IsLaidOut(s[i])
  <2>1. s \in Seq(Range(s))
    BY DEF IsSoundFrame
  <2>2. n \in Nat /\ DOMAIN s = 1..n /\ (s # <<>> => n > 0)
    BY <2>1, SequenceShape
  <2>. QED BY <2>1, <2>2 DEF IsSoundFrame, Range
<1>2. S = UNION {Parts(s[i]) : i \in 1..n}
  BY <1>1 DEF OnFrame, Range
<1>3. ASSUME NEW i \in 1..n
      PROVE  /\ G[i] \in Seq(S) /\ Range(G[i]) = Parts(s[i]) /\ G[i] # <<>> /\ G[i][1] = s[i]
  <2>1. /\ WithElements(s[i]) \in Seq(Parts(s[i])) /\ Range(WithElements(s[i])) = Parts(s[i])
        /\ WithElements(s[i]) # <<>> /\ WithElements(s[i])[1] = s[i]
    BY <1>1, PartsAreFound
  <2>2. Parts(s[i]) \subseteq S
    BY <1>2
  <2>3. G[i] = WithElements(s[i])
    BY <1>1
  <2>. HIDE DEF S, G, s, n
  <2>. QED BY <2>1, <2>2, <2>3, SeqMonotonic
<1>4. OfFrame(f) = FlattenSeq(G)
  BY DEF OfFrame
<1>5. G = [i \in 1..n |-> G[i]]
  BY <1>1
<1>. HIDE DEF S, G, s, n
<1>6. G \in Seq(Seq(S)) /\ Len(G) = n
  <2>1. G \in [1..n -> Seq(S)]
    BY <1>3, <1>5
  <2>. QED BY <1>1, <2>1, FunctionIsSequence
<1>7. UNION {Range(G[i]) : i \in 1..n} = S
  <2>1. \A i \in 1..n : Range(G[i]) = Parts(s[i])
    BY <1>3
  <2>. QED BY <1>2, <2>1
<1>8. FlattenSeq(G) \in Seq(S) /\ Range(FlattenSeq(G)) = S
      /\ ((G # <<>> /\ G[1] # <<>>) => FlattenSeq(G) # <<>> /\ FlattenSeq(G)[1] = G[1][1])
  BY <1>6, <1>7, FlattenHas
<1>9. s # <<>> => G # <<>> /\ G[1] # <<>> /\ G[1][1] = s[1]
  <2>1. n > 0 => 1 \in 1..n /\ G # <<>>
    BY <1>1, <1>6, EmptySeq
  <2>. QED BY <1>1, <1>3, <2>1
<1>. QED BY <1>4, <1>8, <1>9 DEF S, s

LEMMA FramesHave ==
    ASSUME NEW fs, fs \in Seq(Range(fs)), \A f \in Range(fs) : IsSoundFrame(f)
    PROVE  LET found == FindContainers(fs)
           IN  /\ found \in Seq(Range(found))
               /\ Range(found) = UNION {OnFrame(f) : f \in Range(fs)}
               /\ (fs # <<>> /\ fs[1].containers # <<>>) => found # <<>> /\ found[1] = fs[1].containers[1]
<1> DEFINE n == Len(fs)
           G == [i \in DOMAIN fs |-> OfFrame(fs[i])]
           S == UNION {OnFrame(f) : f \in Range(fs)}
<1>1. n \in Nat /\ DOMAIN fs = 1..n /\ (fs # <<>> => n > 0)
      /\ \A i \in 1..n : IsSoundFrame(fs[i])
  <2>1. n \in Nat /\ DOMAIN fs = 1..n /\ (fs # <<>> => n > 0)
    BY SequenceShape
  <2>. QED BY <2>1 DEF Range
<1>2. S = UNION {OnFrame(fs[i]) : i \in 1..n}
  BY <1>1 DEF Range
<1>3. ASSUME NEW i \in 1..n
      PROVE  /\ G[i] \in Seq(S) /\ Range(G[i]) = OnFrame(fs[i])
             /\ fs[i].containers # <<>> => G[i] # <<>> /\ G[i][1] = fs[i].containers[1]
  <2>1. /\ OfFrame(fs[i]) \in Seq(OnFrame(fs[i])) /\ Range(OfFrame(fs[i])) = OnFrame(fs[i])
        /\ fs[i].containers # <<>> => OfFrame(fs[i]) # <<>> /\ OfFrame(fs[i])[1] = fs[i].containers[1]
    BY <1>1, OfFrameHas
  <2>2. OnFrame(fs[i]) \subseteq S
    BY <1>2
  <2>3. G[i] = OfFrame(fs[i])
    BY <1>1
  <2>. HIDE DEF S, G, n
  <2>. QED BY <2>1, <2>2, <2>3, SeqMonotonic
<1>4. FindContainers(fs) = FlattenSeq(G)
  BY DEF FindContainers
<1>5. G = [i \in 1..n |-> G[i]]
  BY <1>1
<1>. HIDE DEF S, G, n
<1>6. G \in Seq(Seq(S)) /\ Len(G) = n
  <2>1. G \in [1..n -> Seq(S)]
    BY <1>3, <1>5
  <2>. QED BY <1>1, <2>1, FunctionIsSequence
<1>7. UNION {Range(G[i]) : i \in 1..n} = S
  <2>1. \A i \in 1..n : Range(G[i]) = OnFrame(fs[i])
    BY <1>3
  <2>. QED BY <1>2, <2>1
<1>8. FlattenSeq(G) \in Seq(S) /\ Range(FlattenSeq(G)) = S
      /\ ((G # <<>> /\ G[1] # <<>>) => FlattenSeq(G) # <<>> /\ FlattenSeq(G)[1] = G[1][1])
  BY <1>6, <1>7, FlattenHas
<1>9. (fs # <<>> /\ fs[1].containers # <<>>) => G # <<>> /\ G[1] # <<>> /\ G[1][1] = fs[1].containers[1]
  <2>1. n > 0 => 1 \in 1..n /\ G # <<>>
    BY <1>1, <1>6, EmptySeq
  <2>. QED BY <1>1, <1>3, <2>1
<1>. QED BY <1>4, <1>8, <1>9 DEF S

(* The containers that the program's variables hold.                       *)
Count == Vector("count", "ints", 2, [i \in 1..N |-> 0])
HasMarks == place = "own" /\ IsWalk /\ IF mode = "recursion" THEN phase # "building" ELSE Walking
HasWaiting == Walking /\ mode # "recursion"
HasOwn == Walking /\ place = "own" /\ ~IsWalk
HasReturned == phase # "building" /\ place = "returned"
HasCount == phase = "after" /\ mode # "recursion"
Held ==
    {Structure} \cup (IF HasMarks THEN {Marks} ELSE {}) \cup (IF HasWaiting THEN {Waiting} ELSE {})
      \cup (IF HasOwn THEN {Distances(2)} ELSE {}) \cup (IF HasReturned THEN {Distances(4)} ELSE {})
      \cup (IF HasCount THEN {Count} ELSE {})

\* What the graph is kept in, form by form.
LEMMA StructureIs ==
    ASSUME GraphTypeOK
    PROVE  /\ Structure.kind = "vector" /\ Structure.address = 1
           /\ form \in {"adjlist", "weighted", "matrix"} => Structure.name = "adj"
           /\ form = "edges" => Structure.name = "edges"
           /\ form = "grid" => Structure.name = "grid"
           /\ form \in {"adjlist", "matrix", "edges", "grid"} => Structure.elem = "rows"
           /\ form = "weighted" => Structure.elem = "pairrows"
           /\ form \in {"adjlist", "weighted"} => Structure.of = Rows
           /\ form = "matrix" =>
                Structure.of = [i \in 1..N |-> [j \in 1..N |->
                                 IF <<i - 1, j - 1>> \in Range(edges) THEN Weight[<<i - 1, j - 1>>] ELSE 0]]
           /\ form = "edges" =>
                Structure.of = [i \in DOMAIN edges |-> <<edges[i][1], edges[i][2], Weight[edges[i]]>>]
           /\ form = "grid" => Structure.of = GridOf(Ground)
<1>0. form \in {"adjlist", "weighted", "matrix", "edges", "grid"}
  BY DEF GraphTypeOK
<1> DEFINE matrix == [i \in 1..N |-> [j \in 1..N |->
                       IF <<i - 1, j - 1>> \in Range(edges) THEN Weight[<<i - 1, j - 1>>] ELSE 0]]
           list == [i \in DOMAIN edges |-> <<edges[i][1], edges[i][2], Weight[edges[i]]>>]
           grid == GridOf(Ground)
<1>1. Structure = CASE form = "adjlist" -> Vector("adj", "rows", 1, Rows)
                    [] form = "weighted" -> Vector("adj", "pairrows", 1, Rows)
                    [] form = "matrix" -> Vector("adj", "rows", 1, matrix)
                    [] form = "edges" -> Vector("edges", "rows", 1, list)
                    [] form = "grid" -> Vector("grid", "rows", 1, grid)
  BY DEF Structure
<1>. HIDE DEF matrix, list, grid
<1>2. CASE form = "adjlist"
  BY <1>1, <1>2 DEF Vector, Container
<1>3. CASE form = "weighted"
  BY <1>1, <1>3 DEF Vector, Container
<1>4. CASE form = "matrix"
  BY <1>1, <1>4 DEF Vector, Container, matrix
<1>5. CASE form = "edges"
  BY <1>1, <1>5 DEF Vector, Container, list
<1>6. CASE form = "grid"
  BY <1>1, <1>6 DEF Vector, Container, grid
<1>. QED BY <1>0, <1>2, <1>3, <1>4, <1>5, <1>6

\* The names, kinds and addresses of the rest.
LEMMA OthersAre ==
    /\ Marks.kind = "vector" /\ Marks.name = "visited" /\ Marks.address = 2
    /\ Marks.elem = (IF form = "grid" THEN "rows" ELSE "ints")
    /\ Marks.of = IF form = "grid" THEN GridOf([x \in Square |-> Bool(x \in Range(marked))])
                  ELSE [i \in 1..N |-> Bool((i - 1) \in Range(marked))]
    /\ Waiting.kind = mode /\ Waiting.name = "q" /\ Waiting.address = 3 /\ Waiting.of = todo
    /\ Waiting.elem = (IF form = "grid" \/ ~IsWalk THEN "pairs" ELSE "ints")
    /\ \A a : /\ Distances(a).kind = "vector" /\ Distances(a).name = "res" /\ Distances(a).address = a
              /\ Distances(a).elem = "ints" /\ Distances(a).of = [i \in 1..N |-> dist[i - 1]]
    /\ Count.kind = "vector" /\ Count.name = "count" /\ Count.address = 2
    /\ Count.elem = "ints" /\ Count.of = [i \in 1..N |-> 0]
<1>1. /\ Marks.kind = "vector" /\ Marks.name = "visited" /\ Marks.address = 2
      /\ Marks.elem = (IF form = "grid" THEN "rows" ELSE "ints")
      /\ Marks.of = IF form = "grid" THEN GridOf([x \in Square |-> Bool(x \in Range(marked))])
                    ELSE [i \in 1..N |-> Bool((i - 1) \in Range(marked))]
  <2> DEFINE grid == GridOf([x \in Square |-> Bool(x \in Range(marked))])
             flags == [i \in 1..N |-> Bool((i - 1) \in Range(marked))]
  <2>1. Marks = IF form = "grid" THEN Vector("visited", "rows", 2, grid)
                ELSE Vector("visited", "ints", 2, flags)
    BY DEF Marks
  <2>. HIDE DEF grid, flags
  <2>2. CASE form = "grid"
    BY <2>1, <2>2 DEF Vector, Container, grid
  <2>3. CASE form # "grid"
    BY <2>1, <2>3 DEF Vector, Container, flags
  <2>. QED BY <2>2, <2>3
<1>2. /\ Waiting.kind = mode /\ Waiting.name = "q" /\ Waiting.address = 3 /\ Waiting.of = todo
      /\ Waiting.elem = (IF form = "grid" \/ ~IsWalk THEN "pairs" ELSE "ints")
  BY DEF Waiting, Container
<1>3. \A a : /\ Distances(a).kind = "vector" /\ Distances(a).name = "res" /\ Distances(a).address = a
             /\ Distances(a).elem = "ints" /\ Distances(a).of = [i \in 1..N |-> dist[i - 1]]
  BY DEF Distances, Vector, Container
<1>4. /\ Count.kind = "vector" /\ Count.name = "count" /\ Count.address = 2
      /\ Count.elem = "ints" /\ Count.of = [i \in 1..N |-> 0]
  BY DEF Count, Vector, Container
<1>. QED BY <1>1, <1>2, <1>3, <1>4

\* What a grid of cells is in memory.
LEMMA GridOfIs ==
    ASSUME NEW cell
    PROVE  /\ GridOf(cell) \in Seq(Range(GridOf(cell))) /\ Len(GridOf(cell)) = Row
           /\ DOMAIN GridOf(cell) = 1..Row /\ GridOf(cell) # <<>>
           /\ \A r \in 1..Row : /\ DOMAIN GridOf(cell)[r] = 1..Col /\ Len(GridOf(cell)[r]) = Col
                                /\ \A c \in 1..Col : GridOf(cell)[r][c] = cell[<<r - 1, c - 1>>]
<1> DEFINE g == GridOf(cell)
           At(r) == [c \in 1..Col |-> cell[<<r - 1, c - 1>>]]
<1>1. g = [r \in 1..Row |-> At(r)]
  BY DEF GridOf
<1>2. \A r \in 1..Row : DOMAIN At(r) = 1..Col /\ \A c \in 1..Col : At(r)[c] = cell[<<r - 1, c - 1>>]
  OBVIOUS
<1>3. ASSUME NEW r \in 1..Row PROVE Len(At(r)) = Col
  <2>1. At(r) = [c \in 1..Col |-> At(r)[c]]
    OBVIOUS
  <2>. HIDE DEF At
  <2>. QED BY <2>1, GraphConstants, IsSequence
<1>. HIDE DEF g, At
<1>4. g = [r \in 1..Row |-> g[r]] /\ DOMAIN g = 1..Row /\ \A r \in 1..Row : g[r] = At(r)
  BY <1>1
<1>5. g \in Seq(Range(g)) /\ Len(g) = Row /\ g # <<>>
  <2>1. Row \in Nat /\ Row > 0
    BY GraphConstants
  <2>2. g = [r \in 1..Row |-> g[r]]
    BY <1>4
  <2>. QED BY <2>1, <2>2, IsSequence
<1>6. ASSUME NEW r \in 1..Row
      PROVE  /\ DOMAIN g[r] = 1..Col /\ Len(g[r]) = Col
             /\ \A c \in 1..Col : g[r][c] = cell[<<r - 1, c - 1>>]
  <2>1. g[r] = At(r)
    BY <1>4
  <2>. QED BY <1>2, <1>3, <2>1
<1>. QED BY <1>4, <1>5, <1>6 DEF g

\* The rows of an adjacency list.
LEMMA RowsAre ==
    ASSUME GraphTypeOK
    PROVE  /\ Rows \in Seq(Range(Rows)) /\ Len(Rows) = N /\ DOMAIN Rows = 1..N
           /\ \A i \in 1..N :
                 /\ Rows[i] \in Seq(Range(Rows[i])) /\ Len(Rows[i]) = Len(Out(i - 1))
                 /\ DOMAIN Rows[i] = 1..Len(Out(i - 1))
                 /\ form = "adjlist" => \A j \in 1..Len(Out(i - 1)) : Rows[i][j] = Out(i - 1)[j][2]
                 /\ form # "adjlist" => \A j \in 1..Len(Out(i - 1)) :
                                          Rows[i][j] = <<Out(i - 1)[j][2], Weight[Out(i - 1)[j]]>>
<1> DEFINE Heads(out) == [i \in DOMAIN out |-> out[i][2]]
           Weighted(out) == [i \in DOMAIN out |-> <<out[i][2], Weight[out[i]]>>]
<1>1. Rows = [i \in 1..N |-> IF form = "adjlist" THEN Heads(Out(i - 1)) ELSE Weighted(Out(i - 1))]
  BY DEF Rows
<1>2. ASSUME NEW i \in 1..N
      PROVE  /\ Len(Out(i - 1)) \in Nat /\ DOMAIN Out(i - 1) = 1..Len(Out(i - 1))
  BY OutIs
<1>3. ASSUME NEW i \in 1..N
      PROVE  /\ Heads(Out(i - 1)) = [j \in 1..Len(Out(i - 1)) |-> Heads(Out(i - 1))[j]]
             /\ \A j \in 1..Len(Out(i - 1)) : Heads(Out(i - 1))[j] = Out(i - 1)[j][2]
             /\ Weighted(Out(i - 1)) = [j \in 1..Len(Out(i - 1)) |-> Weighted(Out(i - 1))[j]]
             /\ \A j \in 1..Len(Out(i - 1)) :
                  Weighted(Out(i - 1))[j] = <<Out(i - 1)[j][2], Weight[Out(i - 1)[j]]>>
  BY <1>2
<1>. HIDE DEF Heads, Weighted
<1>4. Rows = [i \in 1..N |-> Rows[i]] /\ DOMAIN Rows = 1..N
      /\ \A i \in 1..N : Rows[i] = IF form = "adjlist" THEN Heads(Out(i - 1)) ELSE Weighted(Out(i - 1))
  BY <1>1
<1>5. Rows \in Seq(Range(Rows)) /\ Len(Rows) = N
  BY <1>4, GraphConstants, IsSequence
<1>6. ASSUME NEW i \in 1..N
      PROVE  /\ Rows[i] \in Seq(Range(Rows[i])) /\ Len(Rows[i]) = Len(Out(i - 1))
             /\ DOMAIN Rows[i] = 1..Len(Out(i - 1))
  <2> DEFINE r == Rows[i]
             n == Len(Out(i - 1))
  <2>1. r = [j \in 1..n |-> r[j]] /\ n \in Nat
    BY <1>2, <1>3, <1>4
  <2>2. DOMAIN r = 1..n
    BY <2>1
  <2>. HIDE DEF r, n
  <2>3. r \in Seq(Range(r)) /\ Len(r) = n
    BY <2>1, IsSequence
  <2>. QED BY <2>2, <2>3 DEF r, n
<1>7. ASSUME NEW i \in 1..N
      PROVE  /\ form = "adjlist" => \A j \in 1..Len(Out(i - 1)) : Rows[i][j] = Out(i - 1)[j][2]
             /\ form # "adjlist" => \A j \in 1..Len(Out(i - 1)) :
                                      Rows[i][j] = <<Out(i - 1)[j][2], Weight[Out(i - 1)[j]]>>
  <2>1. CASE form = "adjlist"
    <3>1. Rows[i] = Heads(Out(i - 1))
      BY <1>4, <2>1
    <3>. QED BY <1>3, <2>1, <3>1
  <2>2. CASE form # "adjlist"
    <3>1. Rows[i] = Weighted(Out(i - 1))
      BY <1>4, <2>2
    <3>. QED BY <1>3, <2>2, <3>1
  <2>. QED BY <2>1, <2>2
<1>. QED BY <1>4, <1>5, <1>6, <1>7

LEMMA StructureIsLaidOut ==
    ASSUME GraphTypeOK
    PROVE  IsLaidOut(Structure)
<1>1. CASE form \in {"adjlist", "weighted"}
  <2>1. Structure.elem \in {"rows", "pairrows"} /\ Structure.of = Rows
    BY <1>1, StructureIs
  <2>. QED BY <2>1, RowsAre DEF IsLaidOut
<1>2. CASE form = "grid"
  <2>1. Structure.elem = "rows" /\ Structure.of = GridOf(Ground)
    BY <1>2, StructureIs
  <2>. QED BY <2>1, GridOfIs DEF IsLaidOut
<1>3. CASE form = "matrix"
  <2> DEFINE m == Structure.of
  <2>1. Structure.elem = "rows" /\ m = [i \in 1..N |-> m[i]]
    BY <1>3, StructureIs
  <2>2. Structure.of \in Seq(Range(Structure.of))
    <3>. HIDE DEF m
    <3>1. m \in Seq(Range(m))
      BY <2>1, GraphConstants, IsSequence
    <3>. QED BY <3>1 DEF m
  <2>. QED BY <2>1, <2>2 DEF IsLaidOut
<1>4. CASE form = "edges"
  <2> DEFINE m == Structure.of
  <2>0. Len(edges) \in Nat /\ DOMAIN edges = 1..Len(edges)
    BY EdgesAre
  <2>1. Structure.elem = "rows" /\ m = [i \in 1..Len(edges) |-> m[i]]
    BY <1>4, <2>0, StructureIs
  <2>2. Structure.of \in Seq(Range(Structure.of))
    <3>. HIDE DEF m
    <3>1. m \in Seq(Range(m))
      BY <2>0, <2>1, IsSequence
    <3>. QED BY <3>1 DEF m
  <2>. QED BY <2>1, <2>2 DEF IsLaidOut
<1>. QED BY <1>1, <1>2, <1>3, <1>4 DEF GraphTypeOK

LEMMA HeldAreLaidOut ==
    ASSUME GraphTypeOK, NEW c \in Held
    PROVE  IsLaidOut(c)
<1>1. IsLaidOut(Marks)
  <2>1. CASE form = "grid"
    BY <2>1, OthersAre, GridOfIs DEF IsLaidOut
  <2>2. CASE form # "grid"
    BY <2>2, OthersAre DEF IsLaidOut
  <2>. QED BY <2>1, <2>2
<1>2. IsLaidOut(Waiting)
  <2>1. todo \in Seq(Range(todo))
    <3>1. todo = [i \in 1..Len(todo) |-> todo[i]] /\ Len(todo) \in Nat
      BY LenProperties DEF GraphTypeOK
    <3>. QED BY <3>1, IsSequence
  <2>2. Waiting.of = todo /\ Waiting.elem \in {"pairs", "ints"}
    BY OthersAre
  <2>. QED BY <2>1, <2>2 DEF IsLaidOut
<1>3. \A a : IsLaidOut(Distances(a))
  BY OthersAre DEF IsLaidOut
<1>4. IsLaidOut(Count)
  BY OthersAre DEF IsLaidOut
<1>. QED BY <1>1, <1>2, <1>3, <1>4, StructureIsLaidOut DEF Held

\* What memory has.
LEMMA MemoryHas ==
    ASSUME GraphTypeOK
    PROVE  /\ Found(Memory) = UNION {Parts(c) : c \in Held}
           /\ Memory.containers \in Seq(Found(Memory)) /\ Memory.containers # <<>>
           /\ Memory.containers[1] = Structure
           /\ Range(Memory.frames) = {MainFrame} \cup Range(FrameStack)
           /\ Memory.frames = <<MainFrame>> \o FrameStack
           /\ FrameStack \in Seq(Range(FrameStack))
<1> DEFINE Top == Range(MainFrame.containers)
           Rest == UNION {Range(f.containers) : f \in Range(FrameStack)}
<1>1. /\ MainFrame.containers \in Seq(Top)
      /\ MainFrame.containers # <<>> /\ MainFrame.containers[1] = Structure
      /\ Top = {Structure} \cup (IF HasMarks /\ mode = "recursion" THEN {Marks} ELSE {})
                 \cup (IF HasReturned THEN {Distances(4)} ELSE {})
  <2> DEFINE a == Structure
             b == Marks
             d == Distances(4)
             s == MainFrame.containers
  <2>1. s = IF phase = "building" THEN <<a>>
            ELSE IF mode = "recursion" /\ place = "own" THEN <<a, b>>
            ELSE IF place = "returned" THEN <<a, d>> ELSE <<a>>
    BY DEF MainFrame, FrameWith
  <2>2. place = "returned" => mode = "priority_queue"
    BY DEF GraphTypeOK, IsWalk
  <2>. HIDE DEF a, b, d, s
  <2>3. /\ s \in Seq(Range(s)) /\ s # <<>> /\ s[1] = a
        /\ Range(s) = {a} \cup (IF HasMarks /\ mode = "recursion" THEN {b} ELSE {})
                 \cup (IF HasReturned THEN {d} ELSE {})
    <3>1. <<a>> \in Seq(Range(<<a>>)) /\ <<a>> # <<>> /\ <<a>>[1] = a /\ Range(<<a>>) = {a}
      BY SingletonProperties DEF Range
    <3>2. \A x : <<a, x>> \in Seq({a, x}) /\ <<a, x>> # <<>> /\ <<a, x>>[1] = a /\ Range(<<a, x>>) = {a, x}
      BY DEF Range
    <3>3. HasMarks /\ mode = "recursion" <=> mode = "recursion" /\ place = "own" /\ phase # "building"
      BY DEF HasMarks, IsWalk
    <3>4. CASE phase = "building" \/ place = "in place" \/ (place = "own" /\ mode # "recursion")
      <4>1. s = <<a>> /\ ~(HasMarks /\ mode = "recursion") /\ ~HasReturned
        BY <2>1, <3>3, <3>4 DEF HasReturned
      <4>. QED BY <3>1, <4>1
    <3>5. CASE phase # "building" /\ mode = "recursion" /\ place = "own"
      <4>1. s = <<a, b>> /\ (HasMarks /\ mode = "recursion") /\ ~HasReturned
        BY <2>1, <3>3, <3>5 DEF HasReturned
      <4>. QED BY <3>2, <4>1
    <3>6. CASE phase # "building" /\ place = "returned"
      <4>1. s = <<a, d>> /\ ~(HasMarks /\ mode = "recursion") /\ HasReturned
        BY <2>1, <2>2, <3>3, <3>6 DEF HasReturned
      <4>. QED BY <3>2, <4>1
    <3>. QED BY <3>4, <3>5, <3>6 DEF GraphTypeOK
  <2>. QED BY <2>3 DEF a, b, d, s
<1>2. /\ FrameStack \in Seq(Range(FrameStack))
      /\ \A f \in Range(FrameStack) : f.containers \in Seq(Range(f.containers))
      /\ Rest = (IF HasMarks /\ mode # "recursion" THEN {Marks} ELSE {})
                 \cup (IF HasWaiting THEN {Waiting} ELSE {})
                 \cup (IF HasOwn THEN {Distances(2)} ELSE {})
                 \cup (IF HasCount THEN {Count} ELSE {})
  <2>1. CASE mode = "recursion"
    <3> DEFINE F(i) == FrameWith(ScalarsAt(todo[i]), <<>>)
    <3>1. FrameStack = [i \in 1..Len(todo) |-> F(i)] /\ Len(todo) \in Nat
      BY <2>1, LenProperties DEF FrameStack, GraphTypeOK
    <3>2. \A i : F(i).containers = <<>>
      BY DEF FrameWith
    <3>. HIDE DEF F
    <3>3. FrameStack = [i \in 1..Len(todo) |-> FrameStack[i]] /\ Range(FrameStack) = {F(i) : i \in 1..Len(todo)}
      BY <3>1 DEF Range
    <3>4. FrameStack \in Seq(Range(FrameStack))
      BY <3>1, <3>3, IsSequence
    <3>5. \A f \in Range(FrameStack) : f.containers = <<>>
      BY <3>2, <3>3
    <3>6. <<>> \in Seq(Range(<<>>)) /\ Range(<<>>) = {}
      BY DEF Range
    <3>7. ~HasWaiting /\ ~HasOwn /\ ~HasCount
      BY <2>1 DEF HasWaiting, HasOwn, HasCount, IsWalk
    <3>8. Rest = {}
      BY <3>5, <3>6
    <3>. QED BY <2>1, <3>4, <3>5, <3>6, <3>7, <3>8
  <2>2. CASE mode # "recursion" /\ Walking
    <3> DEFINE m == Marks
               w == Waiting
               d == Distances(2)
               s == WalkFrame.containers
    <3>1. s = IF place # "own" THEN <<w>> ELSE IF IsWalk THEN <<m, w>> ELSE <<d, w>>
      BY DEF WalkFrame, FrameWith
    <3>2. FrameStack = <<WalkFrame>>
      BY <2>2 DEF FrameStack
    <3>3. HasWaiting /\ ~HasCount /\ (HasMarks <=> place = "own" /\ IsWalk) /\ (HasOwn <=> place = "own" /\ ~IsWalk)
      BY <2>2 DEF HasWaiting, HasCount, HasMarks, HasOwn, Walking
    <3>4. FrameStack \in Seq(Range(FrameStack)) /\ Range(FrameStack) = {WalkFrame}
      BY <3>2, SingletonProperties DEF Range
    <3>. HIDE DEF m, w, d, s
    <3>5. s \in Seq(Range(s)) /\ Range(s) = (IF place = "own" /\ IsWalk THEN {m} ELSE {}) \cup {w}
                                             \cup (IF place = "own" /\ ~IsWalk THEN {d} ELSE {})
      <4>1. <<w>> \in Seq(Range(<<w>>)) /\ Range(<<w>>) = {w}
        BY SingletonProperties DEF Range
      <4>2. \A x : <<x, w>> \in Seq({x, w}) /\ Range(<<x, w>>) = {x, w}
        BY DEF Range
      <4>. QED BY <3>1, <4>1, <4>2
    <3>6. Rest = Range(s)
      BY <3>4 DEF s
    <3>. QED BY <2>2, <3>3, <3>4, <3>5, <3>6 DEF m, w, d, s
  <2>3. CASE mode # "recursion" /\ ~Walking /\ phase = "after"
    <3> DEFINE c == Count
               f == OtherFrame
    <3>1. f.containers = <<c>> /\ FrameStack = <<f>>
      BY <2>3 DEF OtherFrame, FrameWith, Count, FrameStack
    <3>. HIDE DEF c, f
    <3>2. FrameStack \in Seq(Range(FrameStack)) /\ Range(FrameStack) = {f}
      BY <3>1, SingletonProperties DEF Range
    <3>3. <<c>> \in Seq(Range(<<c>>)) /\ Range(<<c>>) = {c}
      BY SingletonProperties DEF Range
    <3>4. ~HasWaiting /\ ~HasMarks /\ ~HasOwn /\ HasCount
      BY <2>3 DEF HasWaiting, HasMarks, HasOwn, HasCount
    <3>5. Rest = {c}
      BY <3>1, <3>2, <3>3
    <3>. QED BY <3>1, <3>2, <3>3, <3>4, <3>5 DEF c
  <2>4. CASE mode # "recursion" /\ ~Walking /\ phase # "after"
    <3>1. FrameStack = <<>>
      BY <2>4 DEF FrameStack
    <3>2. ~HasWaiting /\ ~HasMarks /\ ~HasOwn /\ ~HasCount
      BY <2>4 DEF HasWaiting, HasMarks, HasOwn, HasCount
    <3>3. Range(<<>>) = {} /\ <<>> \in Seq({})
      BY DEF Range
    <3>. QED BY <3>1, <3>2, <3>3
  <2>. QED BY <2>1, <2>2, <2>3, <2>4
<1>3. Held = Top \cup Rest
  <2>. HIDE DEF Top, Rest
  <2>. QED BY <1>1, <1>2 DEF Held
<1> DEFINE frames == <<MainFrame>> \o FrameStack
<1>4. frames \in Seq(Range(frames)) /\ Range(frames) = {MainFrame} \cup Range(FrameStack)
      /\ frames # <<>> /\ frames[1] = MainFrame
  BY <1>2, PutBefore
<1>5. Memory.frames = frames /\ Memory.containers = FindContainers(frames)
  BY DEF Memory
<1>. HIDE DEF frames
<1>6. \A f \in Range(frames) : IsSoundFrame(f)
  <2>1. \A f \in Range(frames) : Range(f.containers) \subseteq Held
    BY <1>3, <1>4
  <2>2. \A f \in Range(frames) : f.containers \in Seq(Range(f.containers))
    BY <1>1, <1>2, <1>4
  <2>. QED BY <2>1, <2>2, HeldAreLaidOut DEF IsSoundFrame
<1> DEFINE found == FindContainers(frames)
<1>7. /\ found \in Seq(Range(found))
      /\ Range(found) = UNION {OnFrame(f) : f \in Range(frames)}
      /\ (frames # <<>> /\ frames[1].containers # <<>>) => found # <<>> /\ found[1] = frames[1].containers[1]
  BY <1>4, <1>6, FramesHave
<1>. HIDE DEF found
<1>8. UNION {OnFrame(f) : f \in Range(frames)} = UNION {Parts(c) : c \in Held}
  <2>1. Held = UNION {Range(f.containers) : f \in Range(frames)}
    BY <1>3, <1>4
  <2>. QED BY <2>1 DEF OnFrame
<1>9. Found(Memory) = Range(found) /\ Memory.containers = found
  BY <1>5 DEF Found, found
<1>. QED BY <1>1, <1>2, <1>4, <1>5, <1>7, <1>8, <1>9 DEF frames

-----------------------------------------------------------------------------
(* What the containers can be read as.                                     *)

\* What is in a container is that container, one of its elements, or, for rows of
\* pairs, an element of an element.
IsPart(d, c) ==
    /\ d.name = ""
    /\ \/ /\ c.elem = "rows" /\ d.kind = "vector" /\ d.elem = "ints"
          /\ \E i \in 1..Len(c.of) : d.address = 16 * c.address + i /\ d.of = c.of[i]
       \/ /\ c.elem = "pairs" /\ d.kind = "pair" /\ d.elem = "ints"
          /\ \E i \in 1..Len(c.of) : d.address = 16 * c.address + i /\ d.of = c.of[i]
       \/ /\ c.elem = "pairrows" /\ d.kind = "vector" /\ d.elem = "pairs"
          /\ \E i \in 1..Len(c.of) : d.address = 16 * c.address + i /\ d.of = c.of[i]
       \/ /\ c.elem = "pairrows" /\ d.kind = "pair" /\ d.elem = "ints"
          /\ \E i \in 1..Len(c.of) : \E j \in 1..Len(c.of[i]) :
               d.address = 16 * (16 * c.address + i) + j /\ d.of = c.of[i][j]

LEMMA PartIs ==
    ASSUME NEW c, IsLaidOut(c), NEW d \in Parts(c), d # c
    PROVE  IsPart(d, c)
<1>0. /\ ElementElem["rows"] = "ints" /\ ElementElem["pairrows"] = "pairs" /\ ElementElem["pairs"] = "ints"
      /\ ElementKind["rows"] = "vector" /\ ElementKind["pairrows"] = "vector" /\ ElementKind["pairs"] = "pair"
  BY DEF ElementElem, ElementKind
<1>1. ASSUME NEW b, IsLaidOut(b), NEW e \in Inner(b)
      PROVE  /\ b.elem \in {"rows", "pairs", "pairrows"} /\ IsLaidOut(e)
             /\ e.name = "" /\ e.kind = ElementKind[b.elem] /\ e.elem = ElementElem[b.elem]
             /\ \E i \in 1..Len(b.of) : e.address = 16 * b.address + i /\ e.of = b.of[i]
  <2>1. b.elem \in {"rows", "pairs", "pairrows"} /\ IsLaidOut(e)
    <3>1. b.elem = "ints" => Inner(b) = {}
      BY <1>1, ElementsAre
    <3>2. IsLaidOut(e)
      BY <1>1, ElementsAre
    <3>. QED BY <1>1, <3>1, <3>2 DEF IsLaidOut
  <2>2. PICK i \in 1..Len(b.of) :
          e = Container(ElementKind[b.elem], "", ElementElem[b.elem], 16 * b.address + i, b.of[i])
    BY <1>1, <2>1, ElementsAre
  <2>. QED BY <2>1, <2>2 DEF Container
<1>2. CASE d \in Inner(c)
  BY <1>0, <1>1, <1>2 DEF IsPart
<1>3. CASE \E e \in Inner(c) : d \in Inner(e)
  <2>1. PICK e \in Inner(c) : d \in Inner(e)
    BY <1>3
  <2>2. /\ c.elem \in {"rows", "pairs", "pairrows"} /\ IsLaidOut(e) /\ e.elem = ElementElem[c.elem]
        /\ \E i \in 1..Len(c.of) : e.address = 16 * c.address + i /\ e.of = c.of[i]
    BY <1>1
  <2>3. /\ e.elem \in {"rows", "pairs", "pairrows"} /\ d.name = ""
        /\ d.kind = ElementKind[e.elem] /\ d.elem = ElementElem[e.elem]
        /\ \E j \in 1..Len(e.of) : d.address = 16 * e.address + j /\ d.of = e.of[j]
    BY <1>1, <2>1, <2>2
  <2>4. c.elem = "pairrows" /\ e.elem = "pairs"
    BY <1>0, <2>2, <2>3
  <2>. QED BY <1>0, <2>2, <2>3, <2>4 DEF IsPart
<1>. QED BY <1>2, <1>3 DEF Parts, IsPart

\* The same of all that is found in memory.
LEMMA FoundIs ==
    ASSUME GraphTypeOK, NEW d \in Found(Memory)
    PROVE  \/ d \in Held
           \/ d.name = "" /\ d.elem = "ints" /\ d.kind \in {"vector", "pair"}
           \/ /\ form = "weighted" /\ d.name = "" /\ d.kind = "vector" /\ d.elem = "pairs"
              /\ \E i \in 1..N : d.of = Rows[i]
<1>1. PICK c \in Held : d \in Parts(c)
  BY MemoryHas
<1>2. IsLaidOut(c)
  BY HeldAreLaidOut
<1>3. c.elem = "pairrows" => c = Structure /\ form = "weighted" /\ c.of = Rows /\ Len(Rows) = N
  <2>1. \A a : Distances(a).elem = "ints" /\ Count.elem = "ints"
    BY OthersAre
  <2>2. Marks.elem # "pairrows" /\ Waiting.elem # "pairrows"
    BY OthersAre
  <2>3. Structure.elem = "pairrows" => form = "weighted" /\ Structure.of = Rows
    BY StructureIs DEF GraphTypeOK
  <2>. QED BY <1>1, <2>1, <2>2, <2>3, RowsAre DEF Held
<1>4. CASE d # c
  <2>1. IsPart(d, c)
    BY <1>1, <1>2, <1>4, PartIs
  <2>2. \/ d.elem = "ints" /\ d.kind \in {"vector", "pair"}
        \/ /\ c.elem = "pairrows" /\ d.kind = "vector" /\ d.elem = "pairs"
           /\ \E i \in 1..Len(c.of) : d.of = c.of[i]
    BY <2>1 DEF IsPart
  <2>3. d.name = ""
    BY <2>1 DEF IsPart
  <2>. QED BY <1>3, <2>2, <2>3
<1>. QED BY <1>1, <1>4

LEMMA HeldAreFound ==
    ASSUME GraphTypeOK
    PROVE  /\ Held \subseteq Found(Memory)
           /\ form = "weighted" => \A i \in 1..N : \E d \in Found(Memory) :
                                     d.kind = "vector" /\ d.elem = "pairs" /\ d.of = Rows[i]
<1>1. \A c \in Held : Parts(c) \subseteq Found(Memory) /\ c \in Parts(c)
  BY MemoryHas DEF Parts
<1>2. ASSUME form = "weighted", NEW i \in 1..N
      PROVE  \E d \in Found(Memory) : d.kind = "vector" /\ d.elem = "pairs" /\ d.of = Rows[i]
  <2> DEFINE d == Container(ElementKind[Structure.elem], "", ElementElem[Structure.elem],
                            16 * Structure.address + i, Structure.of[i])
  <2>1. Structure.elem = "pairrows" /\ Structure.of = Rows /\ Len(Rows) = N
    BY <1>2, StructureIs, RowsAre
  <2>2. d \in Inner(Structure)
    BY <2>1, StructureIsLaidOut, ElementsAre
  <2>3. d \in Found(Memory)
    BY <1>1, <2>2 DEF Held, Parts
  <2>4. d.kind = "vector" /\ d.elem = "pairs" /\ d.of = Rows[i]
    BY <2>1 DEF Container, ElementKind, ElementElem
  <2>. QED BY <2>3, <2>4
<1>. QED BY <1>1, <1>2

\* The first of those looked for.
LEMMA FirstHas ==
    ASSUME NEW mem, mem.containers \in Seq(Found(mem)), NEW S, Found(mem) \cap S # {}
    PROVE  /\ First(mem, S) \in Found(mem) \cap S
           /\ mem.containers[1] \in S => First(mem, S) = mem.containers[1]
<1> DEFINE s == mem.containers
           T == {i \in DOMAIN s : s[i] \in S}
<1>1. Len(s) \in Nat /\ DOMAIN s = 1..Len(s) /\ Found(mem) = {s[i] : i \in 1..Len(s)}
  BY LenProperties DEF Found, Range
<1>2. T \subseteq Nat /\ T # {}
  BY <1>1
<1>. HIDE DEF T
<1>3. Min(T) \in T /\ \A x \in T : Min(T) <= x
  BY <1>2, MinProperties
<1>4. First(mem, S) = s[Min(T)]
  BY DEF First, T
<1>5. First(mem, S) \in Found(mem) \cap S
  BY <1>1, <1>3, <1>4 DEF T
<1>6. ASSUME s[1] \in S PROVE Min(T) = 1
  <2>1. 1 \in T
    BY <1>1, <1>2, <1>6 DEF T
  <2>2. Min(T) <= 1 /\ Min(T) \in 1..Len(s)
    BY <1>1, <1>3, <2>1 DEF T
  <2>. QED BY <1>1, <2>2
<1>. QED BY <1>4, <1>5, <1>6

LEMMA FirstIsStructure ==
    ASSUME GraphTypeOK, NEW S, Structure \in S
    PROVE  First(Memory, S) = Structure
<1>1. Structure \in Found(Memory)
  BY HeldAreFound DEF Held
<1>. QED BY <1>1, MemoryHas, FirstHas

\* Some row of an adjacency list is not empty when there is an edge.
LEMMA RowsAreEmpty ==
    ASSUME GraphTypeOK
    PROVE  (\E i \in 1..N : Rows[i] # <<>>) <=> edges # <<>>
<1>1. \A i \in 1..N : Rows[i] # <<>> <=> Len(Out(i - 1)) # 0
  <2> TAKE i \in 1..N
  <2>1. Rows[i] \in Seq(Range(Rows[i])) /\ Len(Rows[i]) = Len(Out(i - 1))
    BY RowsAre
  <2>. QED BY <2>1, EmptySeq
<1>2. edges # <<>> <=> Len(edges) # 0
  BY EdgesAre, EmptySeq
<1>3. ASSUME Len(edges) # 0 PROVE \E i \in 1..N : Len(Out(i - 1)) # 0
  <2>1. edges[1] \in Range(edges) /\ edges[1] \in Range(Arc)
    BY <1>3, EdgesAre
  <2> DEFINE u == edges[1][1]
  <2>2. u \in 0..N - 1
    BY <2>1, GraphConstants DEF Vertex
  <2>3. edges[1] \in Range(Out(u)) /\ DOMAIN Out(u) = 1..Len(Out(u)) /\ Len(Out(u)) \in Nat
    BY <2>1, OutIs
  <2>4. Len(Out(u)) # 0
    BY <2>3 DEF Range
  <2>5. u + 1 \in 1..N /\ (u + 1) - 1 = u
    BY <2>2, GraphConstants
  <2>. QED BY <2>4, <2>5
<1>4. ASSUME NEW i \in 1..N, Len(Out(i - 1)) # 0 PROVE Len(edges) # 0
  <2>1. 1 \in 1..Len(Out(i - 1))
    BY <1>4, OutIs
  <2>2. Out(i - 1)[1] \in Range(edges)
    BY <2>1, OutIs
  <2>. QED BY <2>2, EdgesAre
<1>. QED BY <1>1, <1>2, <1>3, <1>4

WeightedLists == {c \in Found(Memory) : IsWeightedAdjList(c)}
EdgeLists == {c \in Found(Memory) : IsEdgeList(c)}
Matrices == {c \in Found(Memory) : IsMatrix(c)}
Heaps == {c \in Found(Memory) : IsHeap(c)}

LEMMA ElemIs ==
    ASSUME GraphTypeOK, NEW d \in Found(Memory)
    PROVE  /\ d.elem = "pairrows" => d = Structure /\ form = "weighted"
           /\ d.elem = "rows" => \/ d = Structure /\ form # "weighted"
                                 \/ d = Marks /\ form = "grid" /\ HasMarks
           /\ d.elem = "pairs" => \/ d = Waiting /\ HasWaiting /\ (form = "grid" \/ ~IsWalk)
                                  \/ form = "weighted" /\ d.kind = "vector" /\ \E i \in 1..N : d.of = Rows[i]
           /\ d.kind \in {"queue", "stack", "priority_queue"} => d = Waiting /\ HasWaiting
<1>1. CASE d \in Held
  <2>1. CASE d = Structure
    BY <2>1, StructureIs DEF GraphTypeOK
  <2>2. CASE d = Marks /\ HasMarks
    <3>1. d.kind = "vector" /\ d.elem = (IF form = "grid" THEN "rows" ELSE "ints")
      BY <2>2, OthersAre
    <3>. QED BY <2>2, <3>1
  <2>3. CASE d = Waiting /\ HasWaiting
    <3>1. d.elem = (IF form = "grid" \/ ~IsWalk THEN "pairs" ELSE "ints")
      BY <2>3, OthersAre
    <3>. QED BY <2>3, <3>1
  <2>4. CASE d \in {Distances(2), Distances(4), Count}
    BY <2>4, OthersAre
  <2>. QED BY <1>1, <2>1, <2>2, <2>3, <2>4 DEF Held
<1>2. CASE d.elem = "ints" /\ d.kind \in {"vector", "pair"}
  BY <1>2
<1>3. CASE /\ form = "weighted" /\ d.kind = "vector" /\ d.elem = "pairs"
           /\ \E i \in 1..N : d.of = Rows[i]
  BY <1>3
<1>. QED BY <1>1, <1>2, <1>3, FoundIs

\* Only rows of pairs are a weighted adjacency list.
LEMMA WeightedListsAre ==
    ASSUME GraphTypeOK
    PROVE  /\ form = "weighted" /\ edges # <<>> => WeightedLists = {Structure}
           /\ ~(form = "weighted" /\ edges # <<>>) => WeightedLists = {}
<1>1. \A d \in WeightedLists : d = Structure /\ form = "weighted" /\ IsWeightedAdjList(Structure)
  BY ElemIs DEF WeightedLists, IsWeightedAdjList
<1>2. form = "weighted" => (IsWeightedAdjList(Structure) <=> edges # <<>>)
  <2>1. form = "weighted" => Structure.elem = "pairrows" /\ Structure.of = Rows
    BY StructureIs
  <2>. QED BY <2>1, RowsAre, RowsAreEmpty DEF IsWeightedAdjList
<1>3. Structure \in Found(Memory)
  BY HeldAreFound DEF Held
<1>. QED BY <1>1, <1>2, <1>3 DEF WeightedLists

\* And a list of edges is one, unless rows of pairs come before it.
LEMMA EdgeListsAre ==
    ASSUME GraphTypeOK
    PROVE  /\ form = "edges" /\ edges # <<>> => Structure \in EdgeLists
           /\ form = "weighted" /\ edges # <<>> => EdgeLists # {}
           /\ form \notin {"edges", "weighted"} \/ edges = <<>> => EdgeLists = {}
<1>1. ASSUME form = "edges", edges # <<>> PROVE Structure \in EdgeLists
  <2>1. /\ Structure.kind = "vector" /\ Structure.elem = "rows" /\ Structure.name = "edges"
        /\ Structure.of = [i \in DOMAIN edges |-> <<edges[i][1], edges[i][2], Weight[edges[i]]>>]
    BY <1>1, StructureIs
  <2>2. Len(edges) > 0 /\ DOMAIN edges = 1..Len(edges) /\ Len(edges) \in Nat
    BY <1>1, EdgesAre, EmptySeq
  <2>3. ASSUME NEW i \in 1..Len(edges)
        PROVE  /\ Structure.of[i] = <<edges[i][1], edges[i][2], Weight[edges[i]]>>
               /\ Len(Structure.of[i]) \in {2, 3} /\ Structure.of[i][1] >= 0 /\ Structure.of[i][2] >= 0
    <3>1. edges[i] \in Range(Arc)
      BY <2>2, EdgesAre
    <3>2. edges[i][1] \in Nat /\ edges[i][2] \in Nat
      BY <3>1, GraphConstants
    <3>3. Structure.of[i] = <<edges[i][1], edges[i][2], Weight[edges[i]]>>
      BY <2>1, <2>2
    <3>. QED BY <3>2, <3>3
  <2>4. DOMAIN Structure.of = 1..Len(edges) /\ Structure.of # <<>>
    <3> DEFINE o == Structure.of
    <3>1. DOMAIN o = 1..Len(edges)
      BY <2>1, <2>2
    <3>2. 1 \in DOMAIN o
      BY <2>2, <3>1
    <3>. HIDE DEF o
    <3>3. o # <<>>
      BY <3>2
    <3>. QED BY <3>1, <3>3 DEF o
  <2>5. IsEdgeList(Structure)
    BY <2>1, <2>3, <2>4 DEF IsEdgeList
  <2>6. Structure \in Found(Memory)
    BY HeldAreFound DEF Held
  <2>. QED BY <2>5, <2>6 DEF EdgeLists
<1>2. ASSUME form = "weighted", edges # <<>> PROVE EdgeLists # {}
  <2>1. PICK i \in 1..N : Rows[i] # <<>>
    BY <1>2, RowsAreEmpty
  <2>2. PICK d \in Found(Memory) : d.kind = "vector" /\ d.elem = "pairs" /\ d.of = Rows[i]
    BY <1>2, HeldAreFound
  <2>3. \A j \in DOMAIN Rows[i] : Rows[i][j][1] >= 0 /\ Rows[i][j][2] >= 0
    <3>1. DOMAIN Rows[i] = 1..Len(Out(i - 1))
      BY RowsAre
    <3>2. ASSUME NEW j \in 1..Len(Out(i - 1)) PROVE Rows[i][j][1] >= 0 /\ Rows[i][j][2] >= 0
      <4>1. Out(i - 1)[j] \in Range(Arc)
        BY OutIs, EdgesAre
      <4>2. Out(i - 1)[j][2] \in Nat /\ Weight[Out(i - 1)[j]] \in Nat
        BY <4>1, GraphConstants
      <4>3. Rows[i][j] = <<Out(i - 1)[j][2], Weight[Out(i - 1)[j]]>>
        BY <1>2, RowsAre
      <4>. QED BY <4>2, <4>3
    <3>. QED BY <3>1, <3>2
  <2>4. IsEdgeList(d)
    BY <2>1, <2>2, <2>3 DEF IsEdgeList
  <2>. QED BY <2>2, <2>4 DEF EdgeLists
<1>3. ASSUME form \notin {"edges", "weighted"} \/ edges = <<>>, NEW d \in Found(Memory), IsEdgeList(d)
      PROVE  FALSE
  <2>1. d.kind = "vector" /\ d.of # <<>> /\ (d.elem = "pairs" \/ (d.elem = "rows" /\ d.name = "edges"))
    BY <1>3 DEF IsEdgeList
  <2>2. CASE d.elem = "pairs"
    <3>1. d # Waiting
      BY <2>1, OthersAre DEF GraphTypeOK
    <3>2. form = "weighted" /\ \E i \in 1..N : d.of = Rows[i]
      BY <2>2, <3>1, ElemIs
    <3>3. edges = <<>>
      BY <1>3, <3>2
    <3>. QED BY <2>1, <3>2, <3>3, RowsAreEmpty
  <2>3. CASE d.elem = "rows" /\ d.name = "edges"
    <3>1. d = Structure
      BY <2>3, ElemIs, OthersAre
    <3>2. form = "edges"
      BY <2>3, <3>1, StructureIs DEF GraphTypeOK
    <3>3. edges = <<>>
      BY <1>3, <3>2
    <3>4. d.of = [i \in DOMAIN edges |-> <<edges[i][1], edges[i][2], Weight[edges[i]]>>]
      BY <3>1, <3>2, StructureIs
    <3>5. d.of = <<>>
      <4>1. DOMAIN edges = {}
        BY <3>3
      <4>. QED BY <3>4, <4>1
    <3>. QED BY <2>1, <3>5
  <2>. QED BY <2>1, <2>2, <2>3
<1>. QED BY <1>1, <1>2, <1>3 DEF EdgeLists

\* The rest is read as a matrix, once it has rows.
LEMMA MatricesAre ==
    ASSUME GraphTypeOK
    PROVE  /\ form \in {"adjlist", "matrix", "grid"} => Structure \in Matrices
           /\ form = "weighted" /\ edges = <<>> => Structure \in Matrices
           /\ form = "edges" /\ edges = <<>> => Matrices = {}
<1>1. Structure \in Found(Memory)
  BY HeldAreFound DEF Held
<1>2. ASSUME form \in {"adjlist", "weighted"} PROVE Structure.of = Rows /\ Rows # <<>>
  <2>1. Rows # <<>>
    <3>1. Rows \in Seq(Range(Rows)) /\ Len(Rows) = N /\ N > 0
      BY RowsAre, GraphConstants
    <3>. QED BY <3>1, EmptySeq
  <2>. QED BY <1>2, <2>1, StructureIs
<1>3. CASE form = "adjlist"
  BY <1>1, <1>2, <1>3, StructureIs DEF Matrices, IsMatrix
<1>4. CASE form = "weighted" /\ edges = <<>>
  <2>1. \A i \in DOMAIN Rows : Rows[i] = <<>>
    BY <1>4, RowsAre, RowsAreEmpty
  <2>2. Structure.elem = "pairrows"
    BY <1>4, StructureIs
  <2>. QED BY <1>1, <1>2, <1>4, <2>1, <2>2 DEF Matrices, IsMatrix
<1>5. CASE form = "matrix"
  <2> DEFINE o == Structure.of
  <2>1. DOMAIN o = 1..N
    BY <1>5, StructureIs
  <2>2. 1 \in DOMAIN o
    BY <2>1, GraphConstants
  <2>3. o # <<>>
    <3>. HIDE DEF o
    <3>. QED BY <2>2
  <2>4. Structure.elem = "rows"
    BY <1>5, StructureIs
  <2>. QED BY <1>1, <1>5, <2>3, <2>4 DEF Matrices, IsMatrix
<1>6. CASE form = "grid"
  BY <1>1, <1>6, StructureIs, GridOfIs DEF Matrices, IsMatrix
<1>7. ASSUME form = "edges", edges = <<>>, NEW d \in Found(Memory), IsMatrix(d) PROVE FALSE
  <2>1. d = Structure /\ d.of # <<>>
    BY <1>7, ElemIs DEF IsMatrix
  <2>2. d.of = [i \in DOMAIN edges |-> <<edges[i][1], edges[i][2], Weight[edges[i]]>>]
    BY <1>7, <2>1, StructureIs
  <2>3. d.of = <<>>
    <3>1. DOMAIN edges = {}
      BY <1>7
    <3>. QED BY <2>2, <3>1
  <2>. QED BY <2>1, <2>3
<1>. QED BY <1>3, <1>4, <1>5, <1>6, <1>7 DEF Matrices, GraphTypeOK

\* The tab is offered whenever there is a scene.
LEMMA ContentIsScene ==
    ASSUME GraphTypeOK
    PROVE  HasGraphContent(Memory) <=> BuildGraphScene(Memory, "auto") # NoScene
<1>1. HasGraphContent(Memory) <=> Matrices # {} \/ EdgeLists # {} \/ Heaps # {}
  BY DEF HasGraphContent, Matrices, EdgeLists, Heaps
<1>2. WeightedLists # {} => EdgeLists # {}
  BY WeightedListsAre, EdgeListsAre
<1> DEFINE scene == BuildGraphScene(Memory, "auto")
<1>3. scene = IF WeightedLists # {} THEN WeightedAdjListScene(First(Memory, WeightedLists).of)
              ELSE IF EdgeLists # {} THEN EdgeListScene(First(Memory, EdgeLists).of, Memory)
              ELSE IF Matrices # {} THEN MatrixLikeScene(First(Memory, Matrices), Memory, "auto")
              ELSE IF Heaps # {} THEN HeapScene(First(Memory, Heaps).of) ELSE NoScene
  BY DEF BuildGraphScene, WeightedLists, EdgeLists, Matrices, Heaps
<1>4. \A m : WeightedAdjListScene(m).kind = "adjlist"
  BY DEF WeightedAdjListScene, Scene
<1>5. \A m : EdgeListScene(m, Memory).kind = "adjlist"
  BY DEF EdgeListScene, Scene
<1>6. \A c : MatrixLikeScene(c, Memory, "auto").kind \in {"grid", "matrix", "adjlist"}
  <2>1. \A m : /\ GridScene(m).kind = "grid" /\ AdjListScene(m).kind = "adjlist"
               /\ \A w : MatrixScene(m, w).kind = "matrix"
    BY DEF GridScene, AdjListScene, MatrixScene, Scene
  <2>. QED BY <2>1 DEF MatrixLikeScene
<1>7. \A h : HeapScene(h).kind = "tree"
  BY DEF HeapScene, Scene
<1>8. NoScene.kind = "none"
  BY DEF NoScene, Scene
<1>. HIDE DEF scene
<1>. QED BY <1>1, <1>2, <1>3, <1>4, <1>5, <1>6, <1>7, <1>8 DEF scene

-----------------------------------------------------------------------------
(* The scene of each form.                                                 *)

LEMMA NotAGrid ==
    ASSUME GraphTypeOK, form # "grid"
    PROVE  ~HasPairQueue(Memory)
<1> SUFFICES ASSUME NEW c \in Found(Memory), c.kind \in {"queue", "stack"}, c.elem = "pairs"
             PROVE  FALSE
  BY DEF HasPairQueue
<1>1. c = Waiting
  BY ElemIs
<1>2. mode \in {"queue", "stack"} /\ Waiting.elem = "pairs"
  BY <1>1, OthersAre
<1>. QED BY <1>2, OthersAre DEF IsWalk

\* No node has an edge to every node.
LEMMA FewOut ==
    ASSUME GraphTypeOK, NEW u \in Vertex
    PROVE  Len(Out(u)) < N
<1> DEFINE n == Len(Out(u))
           T == Vertex \ {u}
           f == [j \in 1..n |-> Out(u)[j][2]]
<1>1. /\ n \in Nat /\ \A j \in 1..n : Out(u)[j] \in Range(edges) /\ Out(u)[j][1] = u
      /\ \A i, j \in 1..n : Out(u)[i] = Out(u)[j] => i = j
  BY OutIs
<1>2. ASSUME NEW j \in 1..n PROVE Out(u)[j] = <<u, Out(u)[j][2]>> /\ Out(u)[j][2] \in T
  <2>1. Out(u)[j] \in Range(Arc) /\ Out(u)[j][1] = u
    BY <1>1, EdgesAre
  <2>. QED BY <2>1, GraphConstants
<1>3. f \in Seq(T) /\ Len(f) = n /\ IsInjective(f)
  <2>1. f \in [1..n -> T]
    BY <1>2
  <2>2. \A i, j \in 1..n : f[i] = f[j] => i = j
    <3>1. \A i, j \in 1..n : Out(u)[i][2] = Out(u)[j][2] => Out(u)[i] = Out(u)[j]
      BY <1>2
    <3>. QED BY <1>1, <3>1
  <2>. HIDE DEF f, T, n
  <2>3. f \in Seq(T) /\ Len(f) = n /\ DOMAIN f = 1..n
    BY <1>1, <2>1, FunctionIsSequence
  <2>. QED BY <2>2, <2>3 DEF IsInjective
<1>4. IsFiniteSet(T) /\ Cardinality(T) = N - 1
  <2>1. N \in Nat /\ N > 0
    BY GraphConstants
  <2>2. IsFiniteSet(Vertex) /\ Cardinality(Vertex) = N
    BY <2>1, FS_Interval DEF Vertex
  <2>. QED BY <2>2, FS_RemoveElement
<1>5. n <= N - 1
  <2>. HIDE DEF f, T, n
  <2>. QED BY <1>3, <1>4, InjectiveIsShort
<1>. QED BY <1>1, <1>5, GraphConstants

LEMMA ScenesAre ==
    ASSUME NEW view
    PROVE  /\ view # "grid" =>
                BuildGraphScene(Memory, view) =
                   IF WeightedLists # {} THEN WeightedAdjListScene(First(Memory, WeightedLists).of)
                   ELSE IF EdgeLists # {} THEN EdgeListScene(First(Memory, EdgeLists).of, Memory)
                   ELSE IF Matrices # {} THEN MatrixLikeScene(First(Memory, Matrices), Memory, view)
                   ELSE IF Heaps # {} THEN HeapScene(First(Memory, Heaps).of) ELSE NoScene
           /\ view = "grid" /\ Matrices # {} =>
                BuildGraphScene(Memory, view) = GridScene(First(Memory, Matrices).of)
<1>1. CASE view # "grid"
  BY <1>1 DEF BuildGraphScene, WeightedLists, EdgeLists, Matrices, Heaps
<1>2. CASE view = "grid"
  BY <1>2 DEF BuildGraphScene, Matrices, MatrixLikeScene
<1>. QED BY <1>1, <1>2

LEMMA AdjListIs ==
    ASSUME GraphTypeOK, form = "adjlist", NEW view \in Views
    PROVE  BuildGraphScene(Memory, view) = AdjListScene(Rows)
<1>1. view \in {"auto", "graph"} /\ (view = "auto" => ~LooksLikeTable)
  BY DEF Views
<1>2. WeightedLists = {} /\ EdgeLists = {} /\ Structure \in Matrices
  BY WeightedListsAre, EdgeListsAre, MatricesAre
<1>3. First(Memory, Matrices) = Structure
  BY <1>2, FirstIsStructure
<1>4. BuildGraphScene(Memory, view) = MatrixLikeScene(Structure, Memory, view)
  BY <1>1, <1>2, <1>3, ScenesAre
<1>5. Structure.of = Rows /\ Structure.name = "adj"
  BY StructureIs
<1>6. N \in Nat /\ N > 0 /\ 1 \in 1..N /\ 1 - 1 \in Vertex /\ \A i \in 1..N : i - 1 \in Vertex
  BY GraphConstants DEF Vertex
<1>7. \A i \in 1..N : Len(Rows[i]) = Len(Out(i - 1)) /\ Len(Rows[i]) < N /\ Len(Rows[i]) \in Nat
  BY <1>6, RowsAre, FewOut, OutIs
<1>8. ~IsSquare(Rows)
  <2>1. Len(Rows) = N /\ DOMAIN Rows = 1..N
    BY RowsAre
  <2>2. Len(Rows[1]) # N
    BY <1>6, <1>7
  <2>. QED BY <1>6, <2>1, <2>2 DEF IsSquare
<1>9. ASSUME view = "auto", LooksLikeGrid(Rows, Memory, "adj") PROVE LooksLikeTable
  <2>1. IsRectangular(Rows) /\ Len(Rows) # Len(Rows[1]) /\ Values(Rows) \subseteq 0..2
    BY <1>9, NotAGrid DEF LooksLikeGrid
  <2> DEFINE k == Len(Rows[1])
  <2>2. k \in 1..N /\ k # N
    BY <1>6, <1>7, <2>1 DEF IsRectangular
  <2>3. \A u \in Vertex : Len(Out(u)) = k
    <3> TAKE u \in Vertex
    <3>1. u + 1 \in 1..N /\ (u + 1) - 1 = u
      BY <1>6 DEF Vertex
    <3>2. Len(Rows[u + 1]) = k
      BY <2>1, <3>1, RowsAre DEF IsRectangular
    <3>. QED BY <1>7, <3>1, <3>2
  <2>4. \A e \in Range(edges) : e[2] <= 2
    <3> TAKE e \in Range(edges)
    <3> DEFINE u == e[1]
    <3>1. u \in Vertex /\ u + 1 \in 1..N /\ (u + 1) - 1 = u
      BY <1>6, EdgesAre, GraphConstants DEF Vertex
    <3>2. PICK j \in 1..Len(Out(u)) : Out(u)[j] = e
      <4>1. Range(Out(u)) = {f \in Range(edges) : f[1] = u} /\ DOMAIN Out(u) = 1..Len(Out(u))
        BY OutIs
      <4>2. e \in Range(Out(u))
        BY <4>1
      <4>. QED BY <4>1, <4>2 DEF Range
    <3>3. Rows[u + 1][j] = e[2] /\ j \in DOMAIN Rows[u + 1] /\ u + 1 \in DOMAIN Rows
      BY <3>1, <3>2, RowsAre
    <3>4. e[2] \in Values(Rows)
      BY <3>3 DEF Values, Range
    <3>. QED BY <2>1, <3>4
  <2>. QED BY <2>2, <2>3, <2>4 DEF LooksLikeTable
<1>10. ~(view = "auto" /\ LooksLikeGrid(Structure.of, Memory, Structure.name))
  BY <1>1, <1>5, <1>9
<1>11. ~IsAdjacencyMatrix(Structure.of)
  BY <1>5, <1>8 DEF IsAdjacencyMatrix
<1>12. MatrixLikeScene(Structure, Memory, view) = AdjListScene(Structure.of)
  BY <1>1, <1>10, <1>11 DEF MatrixLikeScene
<1>. QED BY <1>4, <1>5, <1>12

LEMMA WeightedIs ==
    ASSUME GraphTypeOK, form = "weighted", NEW view \in Views
    PROVE  BuildGraphScene(Memory, view) =
             IF edges = <<>> THEN AdjListScene(Rows) ELSE WeightedAdjListScene(Rows)
<1>1. view \in {"auto", "graph"}
  BY DEF Views
<1>2. Structure.of = Rows /\ Structure.name = "adj"
  BY StructureIs
<1>3. CASE edges # <<>>
  <2>1. WeightedLists = {Structure}
    BY <1>3, WeightedListsAre
  <2>2. First(Memory, WeightedLists) = Structure
    BY <2>1, FirstIsStructure
  <2>. QED BY <1>1, <1>2, <1>3, <2>1, <2>2, ScenesAre
<1>4. CASE edges = <<>>
  <2>1. WeightedLists = {} /\ EdgeLists = {} /\ Structure \in Matrices
    BY <1>4, WeightedListsAre, EdgeListsAre, MatricesAre
  <2>2. First(Memory, Matrices) = Structure
    BY <2>1, FirstIsStructure
  <2>3. BuildGraphScene(Memory, view) = MatrixLikeScene(Structure, Memory, view)
    BY <1>1, <2>1, <2>2, ScenesAre
  <2>4. N > 0 /\ N \in Nat /\ 1 \in 1..N /\ DOMAIN Rows = 1..N /\ Len(Rows) = N /\ Rows[1] = <<>> /\ Len(Rows[1]) = 0
    <3>1. N > 0 /\ N \in Nat /\ 1 \in 1..N /\ DOMAIN Rows = 1..N /\ Len(Rows) = N
      BY GraphConstants, RowsAre
    <3>2. Rows[1] = <<>>
      BY <1>4, <3>1, RowsAreEmpty
    <3>. QED BY <3>1, <3>2
  <2>5. ~IsSquare(Rows) /\ ~IsRectangular(Rows)
    BY <2>4 DEF IsSquare, IsRectangular
  <2>6. ~LooksLikeGrid(Rows, Memory, "adj") /\ ~IsAdjacencyMatrix(Rows)
    BY <2>5, NotAGrid DEF LooksLikeGrid, IsAdjacencyMatrix
  <2>. QED BY <1>1, <1>2, <1>4, <2>3, <2>6 DEF MatrixLikeScene
<1>. QED BY <1>3, <1>4

\* The adjacency matrix.
LEMMA MatrixIs ==
    ASSUME GraphTypeOK, form = "matrix"
    PROVE  LET m == Structure.of
           IN  /\ m \in Seq(Range(m)) /\ Len(m) = N /\ DOMAIN m = 1..N
               /\ \A i \in 1..N : DOMAIN m[i] = 1..N /\ Len(m[i]) = N
               /\ \A i, j \in 1..N :
                     /\ <<i - 1, j - 1>> \in Range(edges) => m[i][j] = Weight[<<i - 1, j - 1>>]
                     /\ <<i - 1, j - 1>> \notin Range(edges) => m[i][j] = 0
                     /\ m[i][j] \in Nat /\ (m[i][j] # 0 <=> <<i - 1, j - 1>> \in Range(edges))
<1> DEFINE m == Structure.of
           W(i, j) == IF <<i - 1, j - 1>> \in Range(edges) THEN Weight[<<i - 1, j - 1>>] ELSE 0
           Line(i) == [j \in 1..N |-> W(i, j)]
<1>0. N \in Nat
  BY GraphConstants
<1>1. m = [i \in 1..N |-> Line(i)]
  BY StructureIs
<1>2. \A i : DOMAIN Line(i) = 1..N /\ \A j \in 1..N : Line(i)[j] = W(i, j)
  OBVIOUS
<1>3. ASSUME NEW i PROVE Len(Line(i)) = N
  <2>1. Line(i) = [j \in 1..N |-> Line(i)[j]]
    OBVIOUS
  <2>. HIDE DEF Line
  <2>. QED BY <1>0, <2>1, IsSequence
<1>. HIDE DEF Line, m
<1>4. m = [i \in 1..N |-> m[i]] /\ DOMAIN m = 1..N /\ \A i \in 1..N : m[i] = Line(i)
  BY <1>1
<1>5. m \in Seq(Range(m)) /\ Len(m) = N
  BY <1>0, <1>4, IsSequence
<1>6. \A i \in 1..N : DOMAIN m[i] = 1..N /\ Len(m[i]) = N
  <2> TAKE i \in 1..N
  <2>1. m[i] = Line(i)
    BY <1>4
  <2>. QED BY <1>2, <1>3, <2>1
<1>7. ASSUME NEW i \in 1..N, NEW j \in 1..N
      PROVE  /\ <<i - 1, j - 1>> \in Range(edges) => m[i][j] = Weight[<<i - 1, j - 1>>]
             /\ <<i - 1, j - 1>> \notin Range(edges) => m[i][j] = 0
             /\ m[i][j] \in Nat /\ (m[i][j] # 0 <=> <<i - 1, j - 1>> \in Range(edges))
  <2>1. m[i][j] = W(i, j)
    <3>1. m[i] = Line(i)
      BY <1>4
    <3>. QED BY <1>2, <3>1
  <2>2. \A e \in Range(edges) : Weight[e] \in Nat /\ Weight[e] > 0
    BY EdgesAre, GraphConstants
  <2>. QED BY <2>1, <2>2
<1>. QED BY <1>4, <1>5, <1>6, <1>7 DEF m

LEMMA MatrixSceneIs ==
    ASSUME GraphTypeOK, form = "matrix", NEW view \in Views
    PROVE  BuildGraphScene(Memory, view) =
             MatrixScene(Structure.of, ~(Values(Structure.of) \subseteq {0, 1}))
<1> DEFINE m == Structure.of
<1>1. view \in {"auto", "graph"}
  BY DEF Views
<1>2. WeightedLists = {} /\ EdgeLists = {} /\ Structure \in Matrices
  BY WeightedListsAre, EdgeListsAre, MatricesAre
<1>3. First(Memory, Matrices) = Structure
  BY <1>2, FirstIsStructure
<1>4. BuildGraphScene(Memory, view) = MatrixLikeScene(Structure, Memory, view)
  BY <1>1, <1>2, <1>3, ScenesAre
<1>5. Structure.name = "adj"
  BY StructureIs
<1>6. Len(m) = N /\ DOMAIN m = 1..N /\ \A i \in 1..N : Len(m[i]) = N
  BY MatrixIs
<1>7. IsSquare(m) /\ Len(m) = Len(m[1])
  <2>1. 1 \in 1..N
    BY GraphConstants
  <2>. QED BY <1>6, <2>1 DEF IsSquare
<1>8. \A i \in DOMAIN m : m[i][i] = 0
  <2> TAKE i \in DOMAIN m
  <2>1. <<i - 1, i - 1>> \notin Range(Arc)
    BY GraphConstants
  <2>. QED BY <1>6, <2>1, EdgesAre, MatrixIs
<1>9. ~LooksLikeGrid(m, Memory, "adj") /\ IsAdjacencyMatrix(m)
  BY <1>7, <1>8, NotAGrid DEF LooksLikeGrid, IsAdjacencyMatrix
<1>. QED BY <1>1, <1>4, <1>5, <1>9 DEF MatrixLikeScene

LEMMA EdgesIs ==
    ASSUME GraphTypeOK, form = "edges", NEW view \in Views
    PROVE  /\ edges # <<>> => BuildGraphScene(Memory, view) = EdgeListScene(Structure.of, Memory)
           /\ edges = <<>> => BuildGraphScene(Memory, view).kind \in {"none", "tree"}
<1>1. view \in {"auto", "graph"}
  BY DEF Views
<1>2. WeightedLists = {}
  BY WeightedListsAre
<1>3. CASE edges # <<>>
  <2>1. Structure \in EdgeLists
    BY <1>3, EdgeListsAre
  <2>2. First(Memory, EdgeLists) = Structure
    BY <2>1, FirstIsStructure
  <2>. QED BY <1>1, <1>2, <1>3, <2>1, <2>2, ScenesAre
<1>4. CASE edges = <<>>
  <2>1. EdgeLists = {} /\ Matrices = {}
    BY <1>4, EdgeListsAre, MatricesAre
  <2>2. BuildGraphScene(Memory, view) = IF Heaps # {} THEN HeapScene(First(Memory, Heaps).of) ELSE NoScene
    BY <1>1, <1>2, <2>1, ScenesAre
  <2>3. NoScene.kind = "none" /\ \A h : HeapScene(h).kind = "tree"
    BY DEF NoScene, HeapScene, Scene
  <2>. QED BY <1>4, <2>2, <2>3
<1>. QED BY <1>3, <1>4

LEMMA GridIs ==
    ASSUME GraphTypeOK, form = "grid", NEW view \in Views
    PROVE  BuildGraphScene(Memory, view) = GridScene(GridOf(Ground))
<1>1. WeightedLists = {} /\ EdgeLists = {} /\ Structure \in Matrices
  BY WeightedListsAre, EdgeListsAre, MatricesAre
<1>2. First(Memory, Matrices) = Structure
  BY <1>1, FirstIsStructure
<1>3. Structure.of = GridOf(Ground) /\ Structure.name = "grid"
  BY StructureIs
<1>4. CASE view = "grid"
  BY <1>1, <1>2, <1>3, <1>4, ScenesAre
<1>5. CASE view # "grid"
  <2>1. view = "auto" /\ Row # Col
    BY <1>5 DEF Views
  <2>2. BuildGraphScene(Memory, view) = MatrixLikeScene(Structure, Memory, view)
    BY <1>1, <1>2, <1>5, ScenesAre
  <2> DEFINE g == GridOf(Ground)
  <2>3. Len(g) = Row /\ DOMAIN g = 1..Row /\ \A r \in 1..Row : Len(g[r]) = Col
    BY GridOfIs
  <2>. HIDE DEF g
  <2>4. ~IsSquare(g)
    <3>1. 1 \in 1..Row
      BY GraphConstants
    <3>. QED BY <2>1, <2>3, <3>1 DEF IsSquare
  <2>5. LooksLikeGrid(g, Memory, "grid")
    BY <2>4 DEF LooksLikeGrid, IsBinarySquare
  <2>. QED BY <1>3, <2>1, <2>2, <2>5 DEF MatrixLikeScene, g
<1>. QED BY <1>4, <1>5

-----------------------------------------------------------------------------
(* What is drawn.                                                          *)

\* Scenes show the nodes 0..N-1.
LEMMA IdsAre == Range(Ids(N)) = Vertex /\ Ids(N) \in Seq(Vertex) /\ Len(Ids(N)) = N
                /\ DOMAIN Ids(N) = 1..N /\ IsInjective(Ids(N)) /\ \A i \in 1..N : Ids(N)[i] = i - 1
<1> DEFINE s == Ids(N)
<1>0. N \in Nat
  BY GraphConstants
<1>1. s = [i \in 1..N |-> i - 1]
  BY DEF Ids
<1>2. s \in [1..N -> Vertex]
  BY <1>0, <1>1 DEF Vertex
<1>3. \A i \in 1..N : s[i] = i - 1 /\ DOMAIN s = 1..N
  BY <1>1
<1>. HIDE DEF s
<1>4. s \in Seq(Vertex) /\ Len(s) = N
  BY <1>0, <1>2, FunctionIsSequence
<1>5. DOMAIN s = 1..N
  BY <1>1
<1>6. IsInjective(s)
  BY <1>3, <1>5 DEF IsInjective
<1>7. ASSUME NEW v \in Vertex PROVE v \in Range(s)
  <2>1. v + 1 \in 1..N /\ (v + 1) - 1 = v
    BY <1>0 DEF Vertex
  <2>2. s[v + 1] = v
    BY <1>3, <2>1
  <2>. QED BY <1>5, <2>1, <2>2 DEF Range
<1>8. Range(s) = Vertex
  BY <1>2, <1>5, <1>7 DEF Range
<1>. QED BY <1>3, <1>4, <1>5, <1>6, <1>8 DEF s

(* The weight that is drawn with an edge of the program.                   *)
WeightDrawn(a) ==
    IF form = "adjlist" \/ (form = "matrix" /\ \A b \in Range(edges) : Weight[b] = 1)
    THEN Nil ELSE Weight[a]

(* Each place of P has an edge of the program, and each edge one place;    *)
(* and the scene has the edges of the places.                              *)
IsDrawing(scene, P, arc, weight) ==
    /\ \A e \in scene.edges : \E p \in P : e = Edge(p, arc[p][1], arc[p][2], TRUE, weight[p])
    /\ \A p \in P : Edge(p, arc[p][1], arc[p][2], TRUE, weight[p]) \in scene.edges
    /\ \A p \in P : arc[p] \in Range(edges) /\ arc[p] = <<arc[p][1], arc[p][2]>>
    /\ \A p \in P : weight[p] = WeightDrawn(arc[p])
    /\ \A p, q \in P : arc[p] = arc[q] => p = q
    /\ \A a \in Range(edges) : \E p \in P : arc[p] = a

\* Then these are the program's.
LEMMA DrawnByPlace ==
    ASSUME NEW scene, NEW P, NEW arc, NEW weight, IsDrawing(scene, P, arc, weight)
    PROVE  EdgesAreDrawn(scene)
<1> DEFINE At(p) == Edge(p, arc[p][1], arc[p][2], TRUE, weight[p])
<1>0. /\ \A p \in P : arc[p] \in Range(edges) /\ arc[p] = <<arc[p][1], arc[p][2]>>
      /\ \A p \in P : weight[p] = WeightDrawn(arc[p])
      /\ \A a \in Range(edges) : \E p \in P : arc[p] = a
      /\ \A p, q \in P : arc[p] = arc[q] => p = q
  BY DEF IsDrawing
<1>1. ASSUME NEW p \in P PROVE Arrows(At(p)) = {arc[p]} /\ At(p).weight = weight[p]
  BY <1>0 DEF Edge, Arrows
<1>2. (\A e \in scene.edges : \E p \in P : e = At(p)) /\ \A p \in P : At(p) \in scene.edges
  BY DEF IsDrawing
<1>. HIDE DEF At
<1>3. \A e \in scene.edges : Arrows(e) \subseteq Range(edges)
  BY <1>0, <1>1, <1>2
<1>4. ASSUME NEW a \in Range(edges)
      PROVE  \E e \in scene.edges :
                /\ a \in Arrows(e) /\ \A f \in scene.edges : a \in Arrows(f) => f = e
                /\ e.weight = WeightDrawn(a)
  <2>1. PICK p \in P : arc[p] = a
    BY <1>0
  <2>2. \A q \in P : a \in Arrows(At(q)) => q = p
    BY <1>0, <1>1, <2>1
  <2>. QED BY <1>0, <1>1, <1>2, <2>1, <2>2
<1>. QED BY <1>3, <1>4 DEF EdgesAreDrawn, WeightDrawn

(* The places of an adjacency list.                                        *)
LEMMA PlacesAre ==
    ASSUME GraphTypeOK
    PROVE  LET arc == [p \in Entries(Rows) |-> Out(p[1] - 1)[p[2]]]
           IN  /\ \A p \in Entries(Rows) :
                     /\ p[1] \in 1..N /\ p[2] \in 1..Len(Out(p[1] - 1))
                     /\ arc[p] \in Range(edges) /\ arc[p] = <<arc[p][1], arc[p][2]>>
                     /\ arc[p][1] = p[1] - 1
               /\ \A p, q \in Entries(Rows) : arc[p] = arc[q] => p = q
               /\ \A a \in Range(edges) : \E p \in Entries(Rows) : arc[p] = a
<1> DEFINE P == Entries(Rows)
           arc == [p \in P |-> Out(p[1] - 1)[p[2]]]
<1>0. DOMAIN Rows = 1..N /\ N \in Nat /\ \A i \in 1..N : DOMAIN Rows[i] = 1..Len(Out(i - 1))
  BY RowsAre, GraphConstants
<1>1. P = UNION {{i} \X (1..Len(Out(i - 1))) : i \in 1..N}
  <2>1. P = UNION {{i} \X DOMAIN Rows[i] : i \in DOMAIN Rows}
    BY DEF Entries
  <2>. QED BY <1>0, <2>1
<1>2. \A p \in P : arc[p] = Out(p[1] - 1)[p[2]]
  OBVIOUS
<1>. HIDE DEF P, arc
<1>3. ASSUME NEW p \in P
      PROVE  /\ p[1] \in 1..N /\ p[2] \in 1..Len(Out(p[1] - 1)) /\ p = <<p[1], p[2]>>
             /\ arc[p] \in Range(edges) /\ arc[p] = <<arc[p][1], arc[p][2]>> /\ arc[p][1] = p[1] - 1
  <2>1. p[1] \in 1..N /\ p[2] \in 1..Len(Out(p[1] - 1)) /\ p = <<p[1], p[2]>>
    BY <1>1
  <2>2. arc[p] \in Range(edges) /\ arc[p][1] = p[1] - 1
    BY <1>2, <2>1, OutIs
  <2>. QED BY <2>1, <2>2, EdgesAre, GraphConstants
<1>4. ASSUME NEW p \in P, NEW q \in P, arc[p] = arc[q] PROVE p = q
  <2>1. p[1] - 1 = q[1] - 1 /\ p[1] \in Int /\ q[1] \in Int
    BY <1>3, <1>4
  <2>2. p[1] = q[1]
    BY <2>1
  <2>3. p[2] \in 1..Len(Out(p[1] - 1)) /\ q[2] \in 1..Len(Out(p[1] - 1))
        /\ Out(p[1] - 1)[p[2]] = Out(p[1] - 1)[q[2]]
    BY <1>2, <1>3, <1>4, <2>2
  <2>4. p[2] = q[2]
    BY <2>3, OutIs
  <2>. QED BY <1>3, <2>2, <2>4
<1>5. ASSUME NEW a \in Range(edges) PROVE \E p \in P : arc[p] = a
  <2>1. a[1] \in 0..N - 1
    BY EdgesAre, GraphConstants DEF Vertex
  <2> DEFINE i == a[1] + 1
  <2>2. i \in 1..N /\ i - 1 = a[1]
    BY <1>0, <2>1
  <2>3. PICK j \in 1..Len(Out(a[1])) : Out(a[1])[j] = a
    <3>1. Range(Out(a[1])) = {f \in Range(edges) : f[1] = a[1]} /\ DOMAIN Out(a[1]) = 1..Len(Out(a[1]))
      BY OutIs
    <3>2. a \in Range(Out(a[1]))
      BY <3>1
    <3>. QED BY <3>1, <3>2 DEF Range
  <2>. HIDE DEF i
  <2>4. <<i, j>> \in P
    BY <1>1, <2>2, <2>3
  <2>5. arc[<<i, j>>] = a
    BY <1>2, <2>2, <2>3, <2>4
  <2>. QED BY <2>4, <2>5
<1>. QED BY <1>3, <1>4, <1>5 DEF P, arc

LEMMA AdjListDrawn ==
    ASSUME GraphTypeOK, form = "adjlist" \/ (form = "weighted" /\ edges = <<>>)
    PROVE  /\ Range(AdjListScene(Rows).nodes) = Vertex /\ AdjListScene(Rows).nodes = Ids(N)
           /\ EdgesAreDrawn(AdjListScene(Rows))
<1> DEFINE scene == AdjListScene(Rows)
           arc == [p \in Entries(Rows) |-> Out(p[1] - 1)[p[2]]]
           weight == [p \in Entries(Rows) |-> Nil]
<1>0. Len(Rows) = N
  BY RowsAre
<1>1. scene.nodes = Ids(N)
      /\ scene.edges = {Edge(p, p[1] - 1, Rows[p[1]][p[2]], TRUE, Nil) : p \in Entries(Rows)}
  BY <1>0 DEF AdjListScene, Scene
<1>2. CASE form = "adjlist"
  <2>1. ASSUME NEW p \in Entries(Rows)
        PROVE  /\ p[1] - 1 = arc[p][1] /\ Rows[p[1]][p[2]] = arc[p][2] /\ weight[p] = Nil
    <3>1. p[1] \in 1..N /\ p[2] \in 1..Len(Out(p[1] - 1)) /\ arc[p][1] = p[1] - 1
      BY PlacesAre
    <3>. QED BY <1>2, <3>1, RowsAre
  <2>2. /\ \A e \in scene.edges : \E p \in Entries(Rows) :
               e = Edge(p, arc[p][1], arc[p][2], TRUE, weight[p])
        /\ \A p \in Entries(Rows) : Edge(p, arc[p][1], arc[p][2], TRUE, weight[p]) \in scene.edges
    <3>. HIDE DEF arc, weight, scene
    <3>1. \A p \in Entries(Rows) : Edge(p, p[1] - 1, Rows[p[1]][p[2]], TRUE, Nil)
                                     = Edge(p, arc[p][1], arc[p][2], TRUE, weight[p])
      BY <2>1
    <3>. QED BY <1>1, <3>1
  <2>3. \A a : WeightDrawn(a) = Nil
    BY <1>2 DEF WeightDrawn
  <2>4. \A p \in Entries(Rows) : weight[p] = WeightDrawn(arc[p])
    BY <2>3
  <2>5. /\ \A p \in Entries(Rows) : arc[p] \in Range(edges) /\ arc[p] = <<arc[p][1], arc[p][2]>>
        /\ \A p, q \in Entries(Rows) : arc[p] = arc[q] => p = q
        /\ \A a \in Range(edges) : \E p \in Entries(Rows) : arc[p] = a
    BY PlacesAre
  <2>. HIDE DEF scene, arc, weight
  <2>6. EdgesAreDrawn(scene)
    <3>1. IsDrawing(scene, Entries(Rows), arc, weight)
      BY <2>2, <2>4, <2>5 DEF IsDrawing
    <3>. QED BY <3>1, DrawnByPlace
  <2>. QED BY <1>1, <2>6, IdsAre DEF scene
<1>3. CASE form = "weighted" /\ edges = <<>>
  <2>1. Range(edges) = {}
    BY <1>3 DEF Range
  <2>2. Entries(Rows) = {}
    BY <2>1, PlacesAre
  <2>3. scene.edges = {}
    BY <1>1, <2>2
  <2>4. EdgesAreDrawn(scene)
    BY <2>1, <2>3 DEF EdgesAreDrawn
  <2>. QED BY <1>1, <2>4, IdsAre
<1>. QED BY <1>2, <1>3

LEMMA WeightedDrawn ==
    ASSUME GraphTypeOK, form = "weighted"
    PROVE  /\ Range(WeightedAdjListScene(Rows).nodes) = Vertex
           /\ WeightedAdjListScene(Rows).nodes = Ids(N)
           /\ EdgesAreDrawn(WeightedAdjListScene(Rows))
<1> DEFINE scene == WeightedAdjListScene(Rows)
           arc == [p \in Entries(Rows) |-> Out(p[1] - 1)[p[2]]]
           weight == [p \in Entries(Rows) |-> Weight[arc[p]]]
<1>0. Len(Rows) = N
  BY RowsAre
<1>1. scene.nodes = Ids(N)
      /\ scene.edges = {Edge(p, p[1] - 1, Rows[p[1]][p[2]][1], TRUE, Rows[p[1]][p[2]][2]) : p \in Entries(Rows)}
  BY <1>0 DEF WeightedAdjListScene, Scene
<1>2. ASSUME NEW p \in Entries(Rows)
      PROVE  p[1] - 1 = arc[p][1] /\ Rows[p[1]][p[2]][1] = arc[p][2] /\ Rows[p[1]][p[2]][2] = weight[p]
  <2>1. p[1] \in 1..N /\ p[2] \in 1..Len(Out(p[1] - 1)) /\ arc[p][1] = p[1] - 1
    BY PlacesAre
  <2>2. Rows[p[1]][p[2]] = <<Out(p[1] - 1)[p[2]][2], Weight[Out(p[1] - 1)[p[2]]]>>
    BY <2>1, RowsAre
  <2>. QED BY <2>1, <2>2
<1>3. /\ \A e \in scene.edges : \E p \in Entries(Rows) :
             e = Edge(p, arc[p][1], arc[p][2], TRUE, weight[p])
      /\ \A p \in Entries(Rows) : Edge(p, arc[p][1], arc[p][2], TRUE, weight[p]) \in scene.edges
  <2>. HIDE DEF arc, weight, scene
  <2>1. \A p \in Entries(Rows) : Edge(p, p[1] - 1, Rows[p[1]][p[2]][1], TRUE, Rows[p[1]][p[2]][2])
                                   = Edge(p, arc[p][1], arc[p][2], TRUE, weight[p])
    BY <1>2
  <2>. QED BY <1>1, <2>1
<1>4. \A a : WeightDrawn(a) = Weight[a]
  BY DEF WeightDrawn
<1>5. \A p \in Entries(Rows) : weight[p] = WeightDrawn(arc[p])
  BY <1>4
<1>6. /\ \A p \in Entries(Rows) : arc[p] \in Range(edges) /\ arc[p] = <<arc[p][1], arc[p][2]>>
      /\ \A p, q \in Entries(Rows) : arc[p] = arc[q] => p = q
      /\ \A a \in Range(edges) : \E p \in Entries(Rows) : arc[p] = a
  BY PlacesAre
<1>. HIDE DEF scene, arc, weight
<1>7. EdgesAreDrawn(scene)
  <2>1. IsDrawing(scene, Entries(Rows), arc, weight)
    BY <1>3, <1>5, <1>6 DEF IsDrawing
  <2>. QED BY <2>1, DrawnByPlace
<1>. QED BY <1>1, <1>7, IdsAre DEF scene

LEMMA EdgeListDrawn ==
    ASSUME GraphTypeOK, form = "edges", edges # <<>>
    PROVE  LET scene == EdgeListScene(Structure.of, Memory)
           IN  Range(scene.nodes) = Vertex /\ scene.nodes = Ids(N) /\ EdgesAreDrawn(scene)
<1> DEFINE m == Structure.of
           ends == UNION {{m[i][1], m[i][2]} : i \in DOMAIN m}
           declared == {f.scalars.n : f \in {g \in Range(Memory.frames) : "n" \in DOMAIN g.scalars}}
           scene == EdgeListScene(m, Memory)
<1>1. Len(edges) \in Nat /\ DOMAIN edges = 1..Len(edges) /\ Len(edges) > 0
  BY EdgesAre, EmptySeq
<1>2. DOMAIN m = 1..Len(edges)
      /\ \A i \in 1..Len(edges) : m[i] = <<edges[i][1], edges[i][2], Weight[edges[i]]>>
  BY <1>1, StructureIs
<1>3. ASSUME NEW i \in 1..Len(edges)
      PROVE  /\ edges[i] \in Range(edges) /\ edges[i] = <<edges[i][1], edges[i][2]>>
             /\ edges[i][1] \in Vertex /\ edges[i][2] \in Vertex
             /\ m[i][1] = edges[i][1] /\ m[i][2] = edges[i][2] /\ Len(m[i]) = 3
             /\ m[i][3] = Weight[edges[i]]
  <2>1. edges[i] \in Range(edges) /\ edges[i] \in Range(Arc)
    BY EdgesAre
  <2>2. m[i] = <<edges[i][1], edges[i][2], Weight[edges[i]]>>
    BY <1>2
  <2>3. Len(m[i]) = 3 /\ m[i][1] = edges[i][1] /\ m[i][2] = edges[i][2] /\ m[i][3] = Weight[edges[i]]
    BY <2>2
  <2>. QED BY <2>1, <2>3, GraphConstants
<1>4. declared = {N}
  <2>1. Range(Memory.frames) = {MainFrame} \cup Range(FrameStack)
    BY MemoryHas
  <2>2. MainFrame.scalars = [n |-> N]
    BY DEF MainFrame, FrameWith
  <2>3. \A x : "n" \notin DOMAIN ScalarsAt(x)
    BY DEF ScalarsAt, NoScalars
  <2>4. \A f \in Range(FrameStack) : "n" \notin DOMAIN f.scalars
    <3>1. CASE mode = "recursion"
      <4>1. FrameStack = [i \in DOMAIN todo |-> FrameWith(ScalarsAt(todo[i]), <<>>)]
        BY <3>1 DEF FrameStack
      <4>2. \A f \in Range(FrameStack) : \E x : f.scalars = ScalarsAt(x)
        BY <4>1 DEF Range, FrameWith
      <4>. QED BY <2>3, <4>2
    <3>2. CASE mode # "recursion" /\ Walking
      <4>1. FrameStack = <<WalkFrame>> /\ WalkFrame.scalars = ScalarsAt(at)
        BY <3>2 DEF FrameStack, WalkFrame, FrameWith
      <4>2. Range(FrameStack) = {WalkFrame}
        BY <4>1, SingletonProperties DEF Range
      <4>. QED BY <2>3, <4>1, <4>2
    <3>3. CASE mode # "recursion" /\ ~Walking /\ phase = "after"
      <4>1. FrameStack = <<OtherFrame>> /\ OtherFrame.scalars = NoScalars
        BY <3>3 DEF FrameStack, OtherFrame, FrameWith
      <4>2. Range(FrameStack) = {OtherFrame}
        BY <4>1, SingletonProperties DEF Range
      <4>. QED BY <4>1, <4>2 DEF NoScalars
    <3>4. CASE mode # "recursion" /\ ~Walking /\ phase # "after"
      <4>1. FrameStack = <<>>
        BY <3>4 DEF FrameStack
      <4>. QED BY <4>1 DEF Range
    <3>. QED BY <3>1, <3>2, <3>3, <3>4
  <2>5. {g \in Range(Memory.frames) : "n" \in DOMAIN g.scalars} = {MainFrame}
    BY <2>1, <2>2, <2>4
  <2>. QED BY <2>2, <2>5
<1>5. Max(declared \cup {Max(ends) + 1}) = N
  <2>1. ends \subseteq Vertex /\ ends # {}
    <3>1. \A i \in DOMAIN m : {m[i][1], m[i][2]} \subseteq Vertex
      BY <1>2, <1>3
    <3>2. 1 \in DOMAIN m
      BY <1>1, <1>2
    <3>. HIDE DEF m
    <3>3. m[1][1] \in ends
      BY <3>2
    <3>4. \A x \in ends : x \in Vertex
      BY <3>1
    <3>. QED BY <3>3, <3>4
  <2>. HIDE DEF ends, declared
  <2>2. Vertex \subseteq Int /\ N \in Int /\ N - 1 \in Int /\ \A v \in Vertex : v <= N - 1
    BY GraphConstants DEF Vertex
  <2>3. Max(ends) \in Vertex
    BY <2>1, <2>2, MaxProperties
  <2> DEFINE T == declared \cup {Max(ends) + 1}
  <2>4. T \subseteq Int /\ N \in T /\ \A x \in T : x <= N
    <3> DEFINE x == Max(ends)
    <3>1. x \in Int /\ x <= N - 1
      BY <2>2, <2>3
    <3>. HIDE DEF x
    <3>2. x + 1 \in Int /\ x + 1 <= N
      BY <2>2, <3>1
    <3>. QED BY <1>4, <2>2, <3>2 DEF x
  <2>. HIDE DEF T
  <2>5. Max(T) = N
    BY <2>4, MaxIs
  <2>. QED BY <2>5 DEF T
<1>6. scene = Scene("adjlist", Ids(Max(declared \cup {Max(ends) + 1})),
                    {Edge(i, m[i][1], m[i][2], TRUE, IF Len(m[i]) = 3 THEN m[i][3] ELSE Nil) : i \in DOMAIN m})
  BY DEF EdgeListScene
<1> DEFINE P == 1..Len(edges)
           weight == [i \in P |-> Weight[edges[i]]]
<1>. HIDE DEF declared, ends, m
<1>7. scene.nodes = Ids(N)
      /\ scene.edges = {Edge(i, m[i][1], m[i][2], TRUE, IF Len(m[i]) = 3 THEN m[i][3] ELSE Nil) : i \in P}
  BY <1>2, <1>5, <1>6 DEF Scene
<1>. HIDE DEF scene
<1>8. /\ \A e \in scene.edges : \E p \in P : e = Edge(p, edges[p][1], edges[p][2], TRUE, weight[p])
      /\ \A p \in P : Edge(p, edges[p][1], edges[p][2], TRUE, weight[p]) \in scene.edges
  <2>1. \A p \in P : Edge(p, m[p][1], m[p][2], TRUE, IF Len(m[p]) = 3 THEN m[p][3] ELSE Nil)
                       = Edge(p, edges[p][1], edges[p][2], TRUE, weight[p])
    BY <1>3
  <2>. HIDE DEF P, weight
  <2>. QED BY <1>7, <2>1
<1>9. \A p \in P : weight[p] = WeightDrawn(edges[p])
  BY DEF WeightDrawn
<1>10. /\ \A p \in P : edges[p] \in Range(edges) /\ edges[p] = <<edges[p][1], edges[p][2]>>
       /\ \A p, q \in P : edges[p] = edges[q] => p = q
       /\ \A a \in Range(edges) : \E p \in P : edges[p] = a
  <2>1. \A p \in P : edges[p] \in Range(edges) /\ edges[p] = <<edges[p][1], edges[p][2]>>
    BY <1>3
  <2>. QED BY <2>1, EdgesAre
<1>. HIDE DEF P, weight
<1>11. EdgesAreDrawn(scene)
  <2>1. IsDrawing(scene, P, edges, weight)
    BY <1>8, <1>9, <1>10 DEF IsDrawing
  <2>. QED BY <2>1, DrawnByPlace
<1>. QED BY <1>7, <1>11, IdsAre DEF scene, m

LEMMA MatrixDrawn ==
    ASSUME GraphTypeOK, form = "matrix"
    PROVE  LET scene == MatrixScene(Structure.of, ~(Values(Structure.of) \subseteq {0, 1}))
           IN  Range(scene.nodes) = Vertex /\ scene.nodes = Ids(N) /\ EdgesAreDrawn(scene)
<1> DEFINE m == Structure.of
           weighted == ~(Values(m) \subseteq {0, 1})
           At(i, j) == m[i][j]
           drawn == {p \in Entries(m) :
                       At(p[1], p[2]) # 0 /\ (At(p[2], p[1]) = At(p[1], p[2]) => p[1] <= p[2])}
           Ed(p) == Edge(p, p[1] - 1, p[2] - 1, At(p[2], p[1]) # At(p[1], p[2]),
                         IF weighted THEN At(p[1], p[2]) ELSE Nil)
           scene == MatrixScene(m, weighted)
<1>1. /\ m \in Seq(Range(m)) /\ Len(m) = N /\ DOMAIN m = 1..N
      /\ \A i \in 1..N : DOMAIN m[i] = 1..N /\ Len(m[i]) = N
      /\ \A i, j \in 1..N :
            /\ <<i - 1, j - 1>> \in Range(edges) => m[i][j] = Weight[<<i - 1, j - 1>>]
            /\ <<i - 1, j - 1>> \notin Range(edges) => m[i][j] = 0
            /\ m[i][j] \in Nat /\ (m[i][j] # 0 <=> <<i - 1, j - 1>> \in Range(edges))
  BY MatrixIs
<1>2. scene.nodes = Ids(N) /\ scene.edges = {Ed(p) : p \in drawn}
  BY <1>1 DEF MatrixScene, Scene
<1>3. Entries(m) = UNION {{i} \X (1..N) : i \in 1..N}
  <2>1. Entries(m) = UNION {{i} \X DOMAIN m[i] : i \in DOMAIN m}
    BY DEF Entries
  <2>. HIDE DEF m
  <2>. QED BY <1>1, <2>1
<1>4. \A p \in Entries(m) : p[1] \in 1..N /\ p[2] \in 1..N /\ p = <<p[1], p[2]>>
  BY <1>3
<1>5. ~weighted <=> \A b \in Range(edges) : Weight[b] = 1
  <2>1. ASSUME NEW b \in Range(edges)
        PROVE  /\ b[1] + 1 \in 1..N /\ b[2] + 1 \in 1..N /\ b = <<(b[1] + 1) - 1, (b[2] + 1) - 1>>
               /\ Weight[b] \in Values(m) /\ Weight[b] > 0
    <3>1. b[1] \in 0..N - 1 /\ b[2] \in 0..N - 1 /\ b = <<b[1], b[2]>> /\ Weight[b] > 0 /\ N \in Nat
      BY EdgesAre, GraphConstants DEF Vertex
    <3>2. b[1] + 1 \in 1..N /\ b[2] + 1 \in 1..N /\ (b[1] + 1) - 1 = b[1] /\ (b[2] + 1) - 1 = b[2]
      BY <3>1
    <3>3. m[b[1] + 1][b[2] + 1] = Weight[b]
      BY <1>1, <3>1, <3>2
    <3>. HIDE DEF m
    <3>4. m[b[1] + 1][b[2] + 1] \in Values(m)
      BY <1>1, <3>2 DEF Values, Range
    <3>. QED BY <3>1, <3>2, <3>3, <3>4
  <2>2. ASSUME NEW v \in Values(m) PROVE v = 0 \/ \E b \in Range(edges) : v = Weight[b]
    <3>. HIDE DEF m
    <3>1. PICK i \in 1..N : v \in Range(m[i])
      BY <1>1 DEF Values
    <3>2. PICK j \in 1..N : v = m[i][j]
      BY <1>1, <3>1 DEF Range
    <3> DEFINE b == <<i - 1, j - 1>>
    <3>3. (b \in Range(edges) => v = Weight[b]) /\ (b \notin Range(edges) => v = 0)
      BY <1>1, <3>2
    <3>. HIDE DEF b
    <3>. QED BY <3>3
  <2>3. \A b \in Range(edges) : Weight[b] \in Nat
    BY EdgesAre, GraphConstants
  <2>. HIDE DEF m
  <2>. QED BY <2>1, <2>2, <2>3
<1>. HIDE DEF m, weighted, scene
<1>6. ASSUME NEW p \in drawn
      PROVE  /\ p[1] \in 1..N /\ p[2] \in 1..N /\ p = <<p[1], p[2]>>
             /\ m[p[1]][p[2]] # 0 /\ (m[p[2]][p[1]] = m[p[1]][p[2]] => p[1] <= p[2])
             /\ Ed(p).weight = IF weighted THEN m[p[1]][p[2]] ELSE Nil
             /\ Arrows(Ed(p)) = {<<p[1] - 1, p[2] - 1>>}
                   \cup (IF m[p[2]][p[1]] = m[p[1]][p[2]] THEN {<<p[2] - 1, p[1] - 1>>} ELSE {})
             /\ Arrows(Ed(p)) \subseteq Range(edges)
  <2>1. p[1] \in 1..N /\ p[2] \in 1..N /\ p = <<p[1], p[2]>>
        /\ m[p[1]][p[2]] # 0 /\ (m[p[2]][p[1]] = m[p[1]][p[2]] => p[1] <= p[2])
    BY <1>4
  <2> DEFINE e == Ed(p)
  <2>2. e.weight = (IF weighted THEN m[p[1]][p[2]] ELSE Nil) /\ e.from = p[1] - 1 /\ e.to = p[2] - 1
        /\ e.directed = (m[p[2]][p[1]] # m[p[1]][p[2]])
    BY DEF Edge
  <2>. HIDE DEF e
  <2>3. Arrows(e) = {<<p[1] - 1, p[2] - 1>>}
                   \cup (IF m[p[2]][p[1]] = m[p[1]][p[2]] THEN {<<p[2] - 1, p[1] - 1>>} ELSE {})
    BY <2>2 DEF Arrows
  <2>4. Arrows(e) \subseteq Range(edges)
    BY <1>1, <2>1, <2>3
  <2>. QED BY <2>1, <2>2, <2>3, <2>4 DEF e
<1>7. \A e \in scene.edges : Arrows(e) \subseteq Range(edges)
  BY <1>2, <1>6
<1>8. ASSUME NEW a \in Range(edges)
      PROVE  \E e \in scene.edges :
                /\ a \in Arrows(e) /\ \A f \in scene.edges : a \in Arrows(f) => f = e
                /\ e.weight = WeightDrawn(a)
  <2> DEFINE i == a[1] + 1
             j == a[2] + 1
  <2>1. i \in 1..N /\ j \in 1..N /\ i - 1 = a[1] /\ j - 1 = a[2] /\ i # j /\ a = <<i - 1, j - 1>>
    <3>1. a[1] \in 0..N - 1 /\ a[2] \in 0..N - 1 /\ a = <<a[1], a[2]>> /\ a[1] # a[2] /\ N \in Nat
      BY EdgesAre, GraphConstants DEF Vertex
    <3>. QED BY <3>1
  <2>. HIDE DEF i, j
  <2>2. m[i][j] = Weight[a] /\ m[i][j] # 0 /\ m[i][j] \in Nat /\ m[j][i] \in Nat
    BY <1>1, <2>1
  <2>3. <<i, j>> \in Entries(m) /\ <<j, i>> \in Entries(m)
    BY <1>3, <2>1
  <2>4. WeightDrawn(a) = IF weighted THEN Weight[a] ELSE Nil
    BY <1>5 DEF WeightDrawn
  <2> DEFINE p == IF m[j][i] = m[i][j] /\ ~(i <= j) THEN <<j, i>> ELSE <<i, j>>
  <2>5. p \in drawn
    BY <2>1, <2>2, <2>3
  <2>6. a \in Arrows(Ed(p)) /\ Ed(p).weight = WeightDrawn(a)
    <3>1. CASE m[j][i] = m[i][j] /\ ~(i <= j)
      <4>1. p = <<j, i>> /\ p[1] = j /\ p[2] = i
        BY <3>1
      <4>. HIDE DEF p, drawn, Ed
      <4>. QED BY <1>6, <2>1, <2>2, <2>4, <2>5, <3>1, <4>1
    <3>2. CASE ~(m[j][i] = m[i][j] /\ ~(i <= j))
      <4>1. p = <<i, j>> /\ p[1] = i /\ p[2] = j
        BY <3>2
      <4>. HIDE DEF p, drawn, Ed
      <4>. QED BY <1>6, <2>1, <2>2, <2>4, <2>5, <4>1
    <3>. QED BY <3>1, <3>2
  <2>7. ASSUME NEW q \in drawn, a \in Arrows(Ed(q)) PROVE q = p
    <3>1. /\ q[1] \in 1..N /\ q[2] \in 1..N /\ q = <<q[1], q[2]>>
          /\ m[q[1]][q[2]] # 0 /\ (m[q[2]][q[1]] = m[q[1]][q[2]] => q[1] <= q[2])
          /\ \/ a = <<q[1] - 1, q[2] - 1>>
             \/ m[q[2]][q[1]] = m[q[1]][q[2]] /\ a = <<q[2] - 1, q[1] - 1>>
      <4>. HIDE DEF drawn, Ed, p
      <4>. QED BY <1>6, <2>7
    <3>2. \/ q[1] = i /\ q[2] = j
          \/ m[q[2]][q[1]] = m[q[1]][q[2]] /\ q[2] = i /\ q[1] = j
      <4>. HIDE DEF drawn, Ed, p
      <4>1. CASE a = <<q[1] - 1, q[2] - 1>>
        <5>1. q[1] - 1 = i - 1 /\ q[2] - 1 = j - 1
          BY <2>1, <4>1
        <5>2. q[1] = i /\ q[2] = j
          BY <2>1, <3>1, <5>1
        <5>. QED BY <5>2
      <4>2. CASE m[q[2]][q[1]] = m[q[1]][q[2]] /\ a = <<q[2] - 1, q[1] - 1>>
        <5>1. q[2] - 1 = i - 1 /\ q[1] - 1 = j - 1
          BY <2>1, <4>2
        <5>2. q[2] = i /\ q[1] = j
          BY <2>1, <3>1, <5>1
        <5>. QED BY <4>2, <5>2
      <4>. QED BY <3>1, <4>1, <4>2
    <3>. HIDE DEF drawn, Ed
    <3>3. CASE q[1] = i /\ q[2] = j
      <4>1. q = <<i, j>>
        BY <3>1, <3>3
      <4>2. ~(m[j][i] = m[i][j] /\ ~(i <= j))
        BY <3>1, <3>3
      <4>. QED BY <4>1, <4>2
    <3>4. CASE m[q[2]][q[1]] = m[q[1]][q[2]] /\ q[2] = i /\ q[1] = j
      <4>1. q = <<j, i>>
        BY <3>1, <3>4
      <4>2. m[i][j] = m[j][i] /\ j <= i /\ ~(i <= j)
        BY <2>1, <3>1, <3>4
      <4>. QED BY <4>1, <4>2
    <3>. QED BY <3>2, <3>3, <3>4
  <2>. HIDE DEF p, drawn, Ed
  <2>. QED BY <1>2, <2>5, <2>6, <2>7
<1>9. EdgesAreDrawn(scene)
  <2>. HIDE DEF drawn, Ed
  <2>. QED BY <1>7, <1>8 DEF EdgesAreDrawn, WeightDrawn
<1>. QED BY <1>2, <1>9, IdsAre DEF scene, weighted, m

\* The cells of a grid are its nodes.
LEMMA GridDrawn ==
    ASSUME NEW cell
    PROVE  LET scene == GridScene(GridOf(cell))
           IN  /\ scene.kind = "grid" /\ Range(scene.nodes) = Square
               /\ scene.nodes \in Seq(Square) /\ IsInjective(scene.nodes)
<1> DEFINE g == GridOf(cell)
           Cells(r) == [c \in DOMAIN g[1] |-> <<r - 1, c - 1>>]
           G == [r \in DOMAIN g |-> Cells(r)]
           scene == GridScene(g)
<1>0. Row \in Nat /\ Col \in Nat /\ 1 \in 1..Row
  BY GraphConstants
<1>1. DOMAIN g = 1..Row /\ DOMAIN g[1] = 1..Col
  BY <1>0, GridOfIs
<1>2. scene.kind = "grid" /\ scene.nodes = FlattenSeq(G)
  BY DEF GridScene, Scene
<1>3. \A r : Cells(r) = [c \in 1..Col |-> <<r - 1, c - 1>>]
  BY <1>1
<1>4. ASSUME NEW r \in 1..Row
      PROVE  /\ Cells(r) \in Seq(Square) /\ Range(Cells(r)) = {r - 1} \X (0..Col - 1)
             /\ IsInjective(Cells(r))
  <2> DEFINE line == [c \in 1..Col |-> <<r - 1, c - 1>>]
  <2>1. \A c \in 1..Col : <<r - 1, c - 1>> \in Square
    BY <1>0 DEF Square
  <2>2. line \in Seq(Square)
    <3>1. line \in [1..Col -> Square]
      BY <2>1
    <3>. HIDE DEF line
    <3>. QED BY <1>0, <3>1, FunctionIsSequence
  <2>3. Range(line) = {<<r - 1, c - 1>> : c \in 1..Col}
    BY DEF Range
  <2>4. {<<r - 1, c - 1>> : c \in 1..Col} = {r - 1} \X (0..Col - 1)
    <3>1. ASSUME NEW x \in {r - 1} \X (0..Col - 1) PROVE x \in {<<r - 1, c - 1>> : c \in 1..Col}
      <4>1. x[2] + 1 \in 1..Col /\ x = <<r - 1, (x[2] + 1) - 1>>
        BY <1>0
      <4>. QED BY <4>1
    <3>2. \A c \in 1..Col : <<r - 1, c - 1>> \in {r - 1} \X (0..Col - 1)
      BY <1>0
    <3>. QED BY <3>1, <3>2
  <2>5. IsInjective(line)
    <3>1. DOMAIN line = 1..Col /\ \A c \in 1..Col : line[c] = <<r - 1, c - 1>>
      OBVIOUS
    <3>. HIDE DEF line
    <3>2. \A c, d \in 1..Col : line[c] = line[d] => c - 1 = d - 1
      BY <3>1
    <3>. QED BY <3>1, <3>2 DEF IsInjective
  <2>. QED BY <1>3, <2>2, <2>3, <2>4, <2>5
<1>5. G = [r \in 1..Row |-> Cells(r)]
  BY <1>1
<1>. HIDE DEF Cells
<1>6. G \in [1..Row -> Seq(Square)]
  BY <1>4, <1>5
<1>. HIDE DEF G
<1>7. G \in Seq(Seq(Square)) /\ Len(G) = Row
  BY <1>0, <1>6, FunctionIsSequence
<1>8. UNION {Range(G[r]) : r \in 1..Row} = Square
  <2>1. \A r \in 1..Row : Range(G[r]) = {r - 1} \X (0..Col - 1)
    BY <1>4, <1>5
  <2>2. ASSUME NEW x \in Square PROVE x \in UNION {Range(G[r]) : r \in 1..Row}
    <3> DEFINE r == x[1] + 1
    <3>1. r \in 1..Row /\ r - 1 = x[1] /\ x[2] \in 0..Col - 1 /\ x = <<x[1], x[2]>>
      BY <1>0 DEF Square
    <3>. HIDE DEF r
    <3>2. x \in {r - 1} \X (0..Col - 1)
      BY <3>1
    <3>. QED BY <2>1, <3>1, <3>2
  <2>3. ASSUME NEW r \in 1..Row PROVE Range(G[r]) \subseteq Square
    <3>1. r - 1 \in 0..Row - 1
      BY <1>0
    <3>. QED BY <2>1, <3>1 DEF Square
  <2>. QED BY <2>2, <2>3
<1>9. FlattenSeq(G) \in Seq(Square) /\ Range(FlattenSeq(G)) = Square
  BY <1>7, <1>8, FlattenHas
<1>10. AreApart(G)
  <2>1. \A r \in 1..Row : IsInjective(G[r]) /\ Range(G[r]) = {r - 1} \X (0..Col - 1)
    BY <1>4, <1>5
  <2>2. ASSUME NEW q \in 1..Row, NEW r \in 1..Row, q # r
        PROVE  ({q - 1} \X (0..Col - 1)) \cap ({r - 1} \X (0..Col - 1)) = {}
    <3>1. q - 1 # r - 1
      BY <2>2
    <3>. QED BY <3>1
  <2>. QED BY <1>7, <2>1, <2>2 DEF AreApart
<1>11. IsInjective(FlattenSeq(G))
  BY <1>7, <1>10, FlattenHas
<1>. QED BY <1>2, <1>9, <1>11

LEMMA SceneOfState ==
    ASSUME GraphTypeOK
    PROVE  SceneIsGraph
<1>1. ASSUME NEW view \in Views
      PROVE  LET scene == BuildGraphScene(Memory, view)
             IN  IF form = "grid" THEN scene.kind = "grid" /\ Range(scene.nodes) = Square
                 ELSE IF form = "edges" /\ edges = <<>> THEN scene.kind \in {"none", "tree"}
                 ELSE Range(scene.nodes) = Vertex /\ EdgesAreDrawn(scene)
  <2>1. CASE form = "grid"
    BY <2>1, GridIs, GridDrawn
  <2>2. CASE form = "adjlist"
    BY <2>2, AdjListIs, AdjListDrawn
  <2>3. CASE form = "weighted"
    BY <2>3, WeightedIs, AdjListDrawn, WeightedDrawn
  <2>4. CASE form = "matrix"
    BY <2>4, MatrixSceneIs, MatrixDrawn
  <2>5. CASE form = "edges"
    BY <2>5, EdgesIs, EdgeListDrawn
  <2>. QED BY <2>1, <2>2, <2>3, <2>4, <2>5 DEF GraphTypeOK
<1>. QED BY <1>1, ContentIsScene DEF SceneIsGraph, Scenes

(* Whatever graph the program builds, in whichever form and however it     *)
(* walks it, the scene has its nodes and its edges, each once, in its      *)
(* direction and with its weight, and no other; of a grid, its cells       *)
(* (buildGraphScene, graphModel.ts:585-675).                               *)
THEOREM SceneCorrect == GraphSpec => []SceneIsGraph
<1>1. GraphTypeOK => SceneIsGraph
  BY SceneOfState
<1>. QED BY <1>1, GraphTypeCorrect, PTL

-----------------------------------------------------------------------------
(* The overlays of the last point.                                         *)

(* What the overlays need to know of a scene.                              *)
Where == IF form = "grid" THEN Square ELSE Vertex
IsGraphScene(scene) ==
    /\ scene.kind = "grid" <=> form = "grid"
    /\ scene.nodes \in Seq(Where) /\ Range(scene.nodes) = Where /\ IsInjective(scene.nodes)
    /\ form # "grid" => Len(scene.nodes) = N

LEMMA OverlaidIs ==
    ASSUME GraphTypeOK, NEW view \in Views, Overlaid(BuildGraphScene(Memory, view))
    PROVE  IsGraphScene(BuildGraphScene(Memory, view))
<1> DEFINE scene == BuildGraphScene(Memory, view)
<1>1. /\ \A m : AdjListScene(m).kind = "adjlist" /\ WeightedAdjListScene(m).kind = "adjlist"
      /\ \A m, w : MatrixScene(m, w).kind = "matrix" /\ EdgeListScene(m, w).kind = "adjlist"
  BY DEF AdjListScene, WeightedAdjListScene, MatrixScene, EdgeListScene, Scene
<1>2. ASSUME form # "grid", scene.kind # "grid", scene.nodes = Ids(N) PROVE IsGraphScene(scene)
  <2>. HIDE DEF scene
  <2>. QED BY <1>2, IdsAre DEF IsGraphScene, Where
<1>3. CASE form = "grid"
  <2>1. scene = GridScene(GridOf(Ground))
    BY <1>3, GridIs
  <2>2. /\ scene.kind = "grid" /\ Range(scene.nodes) = Square
        /\ scene.nodes \in Seq(Square) /\ IsInjective(scene.nodes)
    BY <2>1, GridDrawn
  <2>. HIDE DEF scene
  <2>3. IsGraphScene(scene)
    BY <1>3, <2>2 DEF IsGraphScene, Where
  <2>. QED BY <2>3 DEF scene
<1>4. CASE form = "adjlist"
  BY <1>1, <1>2, <1>4, AdjListIs, AdjListDrawn
<1>5. CASE form = "weighted"
  BY <1>1, <1>2, <1>5, WeightedIs, AdjListDrawn, WeightedDrawn
<1>6. CASE form = "matrix"
  BY <1>1, <1>2, <1>6, MatrixSceneIs, MatrixDrawn
<1>7. CASE form = "edges"
  <2>1. edges # <<>>
    BY <1>7, EdgesIs DEF Overlaid
  <2>. QED BY <1>1, <1>2, <1>7, <2>1, EdgesIs, EdgeListDrawn
<1>. QED BY <1>3, <1>4, <1>5, <1>6, <1>7 DEF GraphTypeOK

\* Where the elements in S come last, they are what is kept of the reverse.
LEMMA KeepOfReverse ==
    ASSUME NEW s, s \in Seq(Range(s)), NEW S, NEW k \in 0..Len(s),
           \A i \in 1..Len(s) - k : s[i] \notin S, \A i \in Len(s) - k + 1..Len(s) : s[i] \in S
    PROVE  Keep(Reverse(s), S) = [j \in 1..k |-> s[(Len(s) - j) + 1]]
<1> DEFINE n == Len(s)
           t == Reverse(s)
<1>1. n \in Nat /\ DOMAIN s = 1..n /\ k \in 0..n
  BY SequenceShape
<1>2. t = [i \in 1..n |-> s[(n - i) + 1]]
  BY DEF Reverse
<1>3. DOMAIN t = 1..n /\ \A i \in 1..n : t[i] = s[(n - i) + 1]
  BY <1>2
<1>. HIDE DEF n, t
<1>4. t = [i \in 1..n |-> t[i]]
  BY <1>2
<1>5. t \in Seq(Range(t)) /\ Len(t) = n
  BY <1>1, <1>4, IsSequence
<1>6. \A j \in 1..k : t[j] \in S
  <2> TAKE j \in 1..k
  <2>1. j \in 1..n /\ (n - j) + 1 \in n - k + 1..n
    BY <1>1
  <2>. QED BY <1>3, <2>1 DEF n
<1>7. \A j \in k + 1..Len(t) : t[j] \notin S
  <2> TAKE j \in k + 1..Len(t)
  <2>1. j \in 1..n /\ (n - j) + 1 \in 1..n - k
    BY <1>1, <1>5
  <2>. QED BY <1>3, <2>1 DEF n
<1>8. Keep(t, S) = [j \in 1..k |-> t[j]]
  BY <1>1, <1>5, <1>6, <1>7, KeepBeginning
<1>9. \A j \in 1..k : t[j] = s[(n - j) + 1]
  BY <1>1, <1>3
<1>. QED BY <1>8, <1>9 DEF n, t

LEMMA WalkableIs ==
    ASSUME GraphTypeOK
    PROVE  /\ Walkable \subseteq Where /\ Nil \notin Where
           /\ \A x \in Where : x # Nil /\ (form = "grid" => x = <<x[1], x[2]>>)
           /\ N \notin Vertex
<1>1. Walkable \subseteq Where
  BY DEF Walkable, Where, GraphTypeOK
<1>2. Nil \notin Where
  BY GraphConstants DEF Where
<1>3. N \notin Vertex
  BY GraphConstants DEF Vertex
<1>. QED BY <1>1, <1>2, <1>3 DEF Where, Square

\* The nodes of the frames.
LEMMA NodeIdIs ==
    ASSUME GraphTypeOK, NEW kind, kind = "grid" <=> form = "grid"
    PROVE  /\ FrameNodeId(MainFrame, kind) \notin Where
           /\ \A cs : \A x \in Where \cup {Nil} : FrameNodeId(FrameWith(ScalarsAt(x), cs), kind) = x
           /\ \A cs : FrameNodeId(FrameWith(NoScalars, cs), kind) = Nil
<1>1. MainFrame.scalars = IF form = "grid" THEN NoScalars ELSE [n |-> N]
  BY DEF MainFrame, FrameWith
<1>2. DOMAIN NoScalars = {} /\ DOMAIN [n |-> N] = {"n"} /\ [n |-> N].n = N
  BY DEF NoScalars
<1>3. FrameNodeId(MainFrame, kind) = IF form = "grid" THEN Nil ELSE N
  BY <1>1, <1>2 DEF FrameNodeId
<1>4. FrameNodeId(MainFrame, kind) \notin Where
  BY <1>3, WalkableIs DEF Where
<1>5. ASSUME NEW cs PROVE FrameNodeId(FrameWith(NoScalars, cs), kind) = Nil
  BY <1>2 DEF FrameNodeId, FrameWith
<1>6. ASSUME NEW cs, NEW x \in Where \cup {Nil} PROVE FrameNodeId(FrameWith(ScalarsAt(x), cs), kind) = x
  <2>1. CASE x = Nil
    BY <1>5, <2>1 DEF ScalarsAt
  <2>2. CASE x # Nil /\ form = "grid"
    <3>1. FrameWith(ScalarsAt(x), cs).scalars = [r |-> x[1], c |-> x[2]]
      BY <2>2 DEF FrameWith, ScalarsAt
    <3>2. x = <<x[1], x[2]>>
      BY <2>2, WalkableIs
    <3>3. kind = "grid"
      BY <2>2
    <3>. QED BY <3>1, <3>2, <3>3 DEF FrameNodeId
  <2>3. CASE x # Nil /\ form # "grid"
    <3>1. FrameWith(ScalarsAt(x), cs).scalars = [u |-> x]
      BY <2>3 DEF FrameWith, ScalarsAt
    <3>. QED BY <2>3, <3>1 DEF FrameNodeId
  <2>. QED BY <2>1, <2>2, <2>3
<1>. QED BY <1>4, <1>5, <1>6

LEMMA CurrentOfState ==
    ASSUME GraphTypeOK, NEW scene, IsGraphScene(scene)
    PROVE  CurrentIsPath(Memory, scene)
<1> DEFINE frames == Memory.frames
           kind == scene.kind
           ids == [i \in DOMAIN frames |-> FrameNodeId(frames[i], kind)]
           L == Len(FrameStack)
<1>0. Range(scene.nodes) = Where /\ (kind = "grid" <=> form = "grid")
  BY DEF IsGraphScene
<1>nodes. /\ \A cs : \A x \in Where \cup {Nil} : FrameNodeId(FrameWith(ScalarsAt(x), cs), kind) = x
          /\ \A cs : FrameNodeId(FrameWith(NoScalars, cs), kind) = Nil
  <2>. HIDE DEF kind
  <2>. QED BY <1>0, NodeIdIs
<1>1. BindCurrent(Memory, scene) = Keep(Reverse(ids), Where)
  BY <1>0 DEF BindCurrent
<1>2. /\ L \in Nat /\ DOMAIN frames = 1..L + 1 /\ frames[1] = MainFrame
      /\ \A i \in 1..L : frames[i + 1] = FrameStack[i]
  <2> DEFINE o == <<MainFrame>>
             st == FrameStack
             S == {MainFrame} \cup Range(st)
  <2>1. o \in Seq(S) /\ Len(o) = 1 /\ o[1] = MainFrame
    BY SingletonProperties
  <2>2. st \in Seq(S) /\ L \in Nat /\ frames = o \o st
    <3>1. st \in Seq(Range(st)) /\ frames = o \o st
      BY MemoryHas
    <3>. QED BY <3>1, SeqMonotonic, LenProperties
  <2>. HIDE DEF o, S
  <2> DEFINE t == o \o st
  <2>3. /\ t \in Seq(S) /\ Len(t) = 1 + L
        /\ \A i \in 1..Len(o) + Len(st) : t[i] = IF i <= Len(o) THEN o[i] ELSE st[i - Len(o)]
    BY <2>1, <2>2, ConcatProperties
  <2>. HIDE DEF t
  <2>4. DOMAIN t = 1..L + 1
    BY <2>2, <2>3, LenProperties
  <2>5. t[1] = MainFrame
    <3>1. 1 \in 1..Len(o) + Len(st) /\ 1 <= Len(o)
      BY <2>1, <2>2
    <3>. QED BY <2>1, <2>3, <3>1
  <2>6. \A i \in 1..L : t[i + 1] = st[i]
    <3> TAKE i \in 1..L
    <3>1. i + 1 \in 1..Len(o) + Len(st) /\ ~(i + 1 <= Len(o)) /\ (i + 1) - Len(o) = i
      BY <2>1, <2>2
    <3>. QED BY <2>3, <3>1
  <2>. QED BY <2>2, <2>4, <2>5, <2>6 DEF t
<1>3. /\ ids = [i \in 1..L + 1 |-> ids[i]]
      /\ ids[1] \notin Where
      /\ \A i \in 1..L : ids[i + 1] = FrameNodeId(FrameStack[i], kind)
  <2>1. ids[1] = FrameNodeId(MainFrame, kind)
    BY <1>2
  <2>2. \A i \in 1..L : i + 1 \in 1..L + 1
    BY <1>2
  <2>3. \A i \in 1..L : ids[i + 1] = FrameNodeId(FrameStack[i], kind)
    BY <1>2, <2>2
  <2>4. FrameNodeId(MainFrame, kind) \notin Where
    BY <1>0, NodeIdIs
  <2>. QED BY <1>2, <2>1, <2>3, <2>4
<1>. HIDE DEF frames, ids, L, kind
<1>4. ids \in Seq(Range(ids)) /\ Len(ids) = L + 1
  BY <1>2, <1>3, IsSequence
<1>5. CASE mode = "recursion"
  <2>1. todo \in Seq(Where) /\ Len(todo) \in Nat /\ DOMAIN todo = 1..Len(todo)
        /\ \A i \in 1..Len(todo) : todo[i] \in Where
    <3>1. todo \in Seq(Walkable) /\ Walkable \subseteq Where
      BY <1>5, WalkableIs DEF GraphTypeOK, IsWalk
    <3>2. todo \in Seq(Where)
      BY <3>1, SeqMonotonic
    <3>. QED BY <3>2, LenProperties
  <2>2. FrameStack = [i \in 1..Len(todo) |-> FrameWith(ScalarsAt(todo[i]), <<>>)]
    BY <1>5, <2>1 DEF FrameStack
  <2>3. L = Len(todo)
    <3> DEFINE st == FrameStack
    <3>1. st = [i \in 1..Len(todo) |-> st[i]]
      BY <2>2
    <3>. HIDE DEF st
    <3>2. Len(st) = Len(todo)
      BY <2>1, <3>1, IsSequence
    <3>. QED BY <3>2 DEF st, L
  <2>4. \A i \in 1..L : ids[i + 1] = todo[i]
    <3> TAKE i \in 1..L
    <3>1. FrameStack[i] = FrameWith(ScalarsAt(todo[i]), <<>>) /\ todo[i] \in Where
      BY <2>1, <2>2, <2>3
    <3>. QED BY <1>nodes, <1>3, <3>1
  <2>5. L \in 0..Len(ids) /\ \A i \in 1..Len(ids) - L : ids[i] \notin Where
    <3>1. \A i \in 1..Len(ids) - L : i = 1
      BY <1>2, <1>4
    <3>. QED BY <1>2, <1>3, <1>4, <3>1
  <2>6. \A i \in Len(ids) - L + 1..Len(ids) : ids[i] \in Where
    <3> TAKE i \in Len(ids) - L + 1..Len(ids)
    <3>1. i - 1 \in 1..L /\ (i - 1) + 1 = i
      BY <1>2, <1>4
    <3>. QED BY <2>1, <2>3, <2>4, <3>1
  <2>7. Keep(Reverse(ids), Where) = [j \in 1..L |-> ids[(Len(ids) - j) + 1]]
    BY <1>4, <2>5, <2>6, KeepOfReverse
  <2>8. \A j \in 1..L : ids[(Len(ids) - j) + 1] = todo[(Len(todo) - j) + 1]
    <3> TAKE j \in 1..L
    <3>1. (L - j) + 1 \in 1..L /\ (Len(ids) - j) + 1 = ((L - j) + 1) + 1
      BY <1>2, <1>4
    <3>. QED BY <2>3, <2>4, <3>1
  <2>9. Keep(Reverse(ids), Where) = Reverse(todo)
    BY <2>3, <2>7, <2>8 DEF Reverse
  <2>. QED BY <1>1, <1>5, <2>9 DEF CurrentIsPath
<1>6. CASE mode # "recursion" /\ Walking
  <2>1. FrameStack = <<WalkFrame>> /\ \E cs : WalkFrame = FrameWith(ScalarsAt(at), cs)
    BY <1>6 DEF FrameStack, WalkFrame
  <2>2. at \in Where \cup {Nil}
    BY WalkableIs DEF GraphTypeOK
  <2>3. L = 1 /\ FrameStack[1] = WalkFrame
    BY <2>1 DEF L
  <2>4. ids[2] = at /\ Len(ids) = 2
    <3>1. ids[1 + 1] = FrameNodeId(FrameStack[1], kind)
      BY <1>3, <2>3
    <3>2. FrameNodeId(WalkFrame, kind) = at
      BY <1>0, <2>1, <2>2, NodeIdIs
    <3>. QED BY <1>4, <2>3, <3>1, <3>2
  <2>5. CASE at = Nil
    <3>1. at \notin Where
      BY <2>5, WalkableIs
    <3>2. \A i \in 1..Len(ids) : ids[i] \notin Where
      <4>1. \A i \in 1..Len(ids) : i = 1 \/ i = 2
        BY <2>4
      <4>. QED BY <1>3, <2>4, <3>1, <4>1
    <3>3. 0 \in 0..Len(ids) /\ Len(ids) - 0 = Len(ids)
      BY <2>4
    <3>4. \A i \in 1..Len(ids) - 0 : ids[i] \notin Where
      BY <3>2, <3>3
    <3>5. \A i \in Len(ids) - 0 + 1..Len(ids) : ids[i] \in Where
      BY <2>4
    <3>6. Keep(Reverse(ids), Where) = [j \in 1..0 |-> ids[(Len(ids) - j) + 1]]
      BY <1>4, <3>3, <3>4, <3>5, KeepOfReverse
    <3>7. Keep(Reverse(ids), Where) = <<>>
      BY <3>6
    <3>. QED BY <1>1, <1>6, <2>5, <3>7 DEF CurrentIsPath
  <2>6. CASE at # Nil
    <3>1. at \in Where
      BY <2>2, <2>6
    <3>2. 1 \in 0..Len(ids) /\ Len(ids) - 1 = 1
      BY <2>4
    <3>3. \A i \in 1..Len(ids) - 1 : ids[i] \notin Where
      <4>1. \A i \in 1..Len(ids) - 1 : i = 1
        BY <2>4
      <4>. QED BY <1>3, <4>1
    <3>4. \A i \in Len(ids) - 1 + 1..Len(ids) : ids[i] \in Where
      <4>1. \A i \in Len(ids) - 1 + 1..Len(ids) : i = 2
        BY <2>4
      <4>. QED BY <2>4, <3>1, <4>1
    <3>5. Keep(Reverse(ids), Where) = [j \in 1..1 |-> ids[(Len(ids) - j) + 1]]
      BY <1>4, <3>2, <3>3, <3>4, KeepOfReverse
    <3>6. \A j \in 1..1 : ids[(Len(ids) - j) + 1] = at
      <4>1. \A j \in 1..1 : (Len(ids) - j) + 1 = 2
        BY <2>4
      <4>. QED BY <2>4, <4>1
    <3>7. Keep(Reverse(ids), Where) = [j \in 1..1 |-> at]
      BY <3>5, <3>6
    <3>8. Keep(Reverse(ids), Where) = <<at>>
      BY <3>7
    <3>. QED BY <1>1, <1>6, <2>6, <3>8 DEF CurrentIsPath
  <2>. QED BY <2>5, <2>6
<1>7. CASE mode # "recursion" /\ ~Walking
  <2>1. at = Nil
    BY <1>7 DEF GraphTypeOK, Walking
  <2>2. \A i \in 1..L : \E cs : FrameStack[i] = FrameWith(NoScalars, cs)
    <3>1. FrameStack = IF phase = "after" THEN <<OtherFrame>> ELSE <<>>
      BY <1>7 DEF FrameStack
    <3>2. OtherFrame = FrameWith(NoScalars, OtherFrame.containers)
      BY DEF OtherFrame, FrameWith
    <3>3. CASE phase = "after"
      <4>1. L = 1 /\ FrameStack[1] = OtherFrame
        BY <3>1, <3>3 DEF L
      <4>. QED BY <3>2, <4>1
    <3>4. CASE phase # "after"
      <4>1. L = 0
        BY <3>1, <3>4 DEF L
      <4>. QED BY <4>1
    <3>. QED BY <3>3, <3>4
  <2>3. \A i \in 1..L : ids[i + 1] \notin Where
    BY <1>nodes, <1>3, <2>2, WalkableIs
  <2>4. \A i \in 1..Len(ids) : ids[i] \notin Where
    <3> TAKE i \in 1..Len(ids)
    <3>1. i = 1 \/ (i - 1 \in 1..L /\ (i - 1) + 1 = i)
      BY <1>2, <1>4
    <3>. QED BY <1>3, <2>3, <3>1
  <2>5. 0 \in 0..Len(ids) /\ Len(ids) - 0 = Len(ids)
    BY <1>2, <1>4
  <2>6. \A i \in 1..Len(ids) - 0 : ids[i] \notin Where
    BY <2>4, <2>5
  <2>7. \A i \in Len(ids) - 0 + 1..Len(ids) : ids[i] \in Where
    BY <1>2, <1>4
  <2>8. Keep(Reverse(ids), Where) = [j \in 1..0 |-> ids[(Len(ids) - j) + 1]]
    BY <1>4, <2>5, <2>6, <2>7, KeepOfReverse
  <2>9. Keep(Reverse(ids), Where) = <<>>
    BY <2>8
  <2>. QED BY <1>1, <1>7, <2>1, <2>9 DEF CurrentIsPath
<1>. QED BY <1>5, <1>6, <1>7

LEMMA FrontierOfState ==
    ASSUME GraphTypeOK, NEW scene, IsGraphScene(scene)
    PROVE  FrontierIsWaiting(Memory, scene)
<1> DEFINE NodesOf(c) == IF scene.kind = "grid" THEN IF c.elem = "pairs" THEN Range(c.of) ELSE {}
                         ELSE IF c.elem = "pairs" THEN {p[2] : p \in Range(c.of)} ELSE Range(c.of)
           filled == {c \in Found(Memory) : IsFrontier(c) /\ NodesOf(c) # {}}
           expected == IF IsWalk THEN Range(todo) ELSE {p[2] : p \in Range(todo)}
<1>0. scene.kind = "grid" <=> form = "grid"
  BY DEF IsGraphScene
<1>1. BindFrontier(Memory, scene) = IF filled = {} THEN {} ELSE NodesOf(First(Memory, filled))
  BY DEF BindFrontier
<1>2. NodesOf(Waiting) = expected
  <2>1. Waiting.of = todo /\ Waiting.elem = (IF form = "grid" \/ ~IsWalk THEN "pairs" ELSE "ints")
    BY OthersAre
  <2>2. form = "grid" => IsWalk
    BY DEF GraphTypeOK
  <2>. QED BY <1>0, <2>1, <2>2
<1>. HIDE DEF NodesOf
<1>3. \A c \in filled : c = Waiting /\ HasWaiting
  BY ElemIs DEF IsFrontier
<1>4. CASE HasWaiting
  <2>1. Waiting \in Found(Memory) /\ IsFrontier(Waiting) /\ mode # "recursion"
    <3>1. Waiting \in Held
      BY <1>4 DEF Held
    <3>2. mode # "recursion"
      BY <1>4 DEF HasWaiting
    <3>. QED BY <3>1, <3>2, HeldAreFound, OthersAre DEF IsFrontier, GraphTypeOK
  <2>2. CASE expected = {}
    <3>1. filled = {}
      BY <1>2, <1>3, <2>2
    <3>. QED BY <1>1, <2>1, <2>2, <3>1 DEF FrontierIsWaiting
  <2>3. CASE expected # {}
    <3>1. filled = {Waiting}
      BY <1>2, <1>3, <2>1, <2>3
    <3>2. Memory.containers \in Seq(Found(Memory)) /\ Found(Memory) \cap filled # {}
      BY <2>1, <3>1, MemoryHas
    <3>. HIDE DEF filled
    <3>3. First(Memory, filled) = Waiting
      BY <3>1, <3>2, FirstHas
    <3>. HIDE DEF expected
    <3>4. BindFrontier(Memory, scene) = expected
      BY <1>1, <1>2, <3>1, <3>3
    <3>. QED BY <2>1, <3>4 DEF FrontierIsWaiting, expected
  <2>. QED BY <2>2, <2>3
<1>5. CASE ~HasWaiting
  <2>1. filled = {}
    BY <1>3, <1>5
  <2>2. mode # "recursion" => todo = <<>>
    BY <1>5 DEF HasWaiting, Walking, GraphTypeOK
  <2>3. Range(<<>>) = {}
    BY DEF Range
  <2>4. mode # "recursion" => expected = {}
    BY <2>2, <2>3
  <2>. QED BY <1>1, <2>1, <2>4 DEF FrontierIsWaiting
<1>. QED BY <1>4, <1>5

-----------------------------------------------------------------------------
(* The marks.                                                              *)

Land == GridOf([x \in Square |-> Bool(x \in land)])

\* A trace of a program on a grid begins with the grid before the walk.
StartsAtLand(trace) ==
    /\ trace \in Seq(Range(trace)) /\ trace # <<>>
    /\ trace[1].containers \in Seq(Found(trace[1])) /\ trace[1].containers # <<>>
    /\ trace[1].containers[1] = Vector("grid", "rows", 1, Land)

Started(trace) == form = "grid" => StartsAtLand(trace)

LEMMA GridFits ==
    ASSUME NEW scene, Range(scene.nodes) = Square, NEW cell, NEW c,
           c.elem = "rows", c.of = GridOf(cell)
    PROVE  IsMatrix(c) /\ HasShapeOf(c.of, scene)
<1> DEFINE m == GridOf(cell)
<1>1. m # <<>> /\ DOMAIN m = 1..Row /\ DOMAIN m[1] = 1..Col
  <2>1. 1 \in 1..Row
    BY GraphConstants
  <2>. QED BY <2>1, GridOfIs
<1>. HIDE DEF m
<1>2. {<<i - 1, j - 1>> : i \in DOMAIN m, j \in DOMAIN m[1]} = Square
  <2>1. \A i \in 1..Row, j \in 1..Col : <<i - 1, j - 1>> \in Square
    BY GraphConstants DEF Square
  <2>2. \A x \in Square : x[1] + 1 \in 1..Row /\ x[2] + 1 \in 1..Col /\ x = <<(x[1] + 1) - 1, (x[2] + 1) - 1>>
    BY GraphConstants DEF Square
  <2>. QED BY <1>1, <2>1, <2>2
<1>. QED BY <1>1, <1>2 DEF IsMatrix, HasShapeOf, m

LEMMA BaselineIs ==
    ASSUME NEW scene, Range(scene.nodes) = Square, NEW trace, StartsAtLand(trace)
    PROVE  GridBaseline(trace, scene) = Land
<1> DEFINE Having == {s \in DOMAIN trace : Grids(trace[s], scene) # {}}
           g == Vector("grid", "rows", 1, Land)
<1>1. Len(trace) \in Nat /\ DOMAIN trace = 1..Len(trace) /\ 1 \in 1..Len(trace)
  BY SequenceShape DEF StartsAtLand
<1>2. g.elem = "rows" /\ g.of = Land
  BY DEF Vector, Container
<1>3. trace[1].containers[1] = g /\ trace[1].containers \in Seq(Found(trace[1]))
      /\ trace[1].containers # <<>>
  BY DEF StartsAtLand
<1>. HIDE DEF g
<1>4. g \in Found(trace[1])
  BY <1>3 DEF Found, Range
<1>5. g \in Grids(trace[1], scene)
  BY <1>2, <1>4, GridFits DEF Grids, Land
<1>6. First(trace[1], Grids(trace[1], scene)) = g
  <2>1. Found(trace[1]) \cap Grids(trace[1], scene) # {}
    BY <1>4, <1>5
  <2>. QED BY <1>3, <1>5, <2>1, FirstHas
<1>7. Min(Having) = 1
  <2>1. Having \subseteq Nat /\ 1 \in Having /\ \A s \in Having : 1 <= s
    BY <1>1, <1>5
  <2>. HIDE DEF Having
  <2>2. Min(Having) \in Having /\ \A s \in Having : Min(Having) <= s
    BY <2>1, MinProperties
  <2>3. Min(Having) \in Nat /\ Min(Having) <= 1 /\ 1 <= Min(Having)
    BY <2>1, <2>2
  <2>. QED BY <2>3
<1>. QED BY <1>2, <1>6, <1>7 DEF GridBaseline

\* Only the grids of the trace matter to the marks, and of those the first.
LEMMA AnyTrace ==
    ASSUME NEW scene, IsGraphScene(scene), NEW mem, NEW s, NEW t, Started(s), Started(t)
    PROVE  BindVisited(mem, s, scene) = BindVisited(mem, t, scene)
<1>1. CASE form = "grid"
  <2>1. GridBaseline(s, scene) = GridBaseline(t, scene)
    BY <1>1, BaselineIs DEF IsGraphScene, Where, Started
  <2>. QED BY <1>1, <2>1 DEF IsGraphScene, BindVisited, BindGridVisited
<1>2. CASE form # "grid"
  BY <1>2 DEF IsGraphScene, BindVisited
<1>. QED BY <1>1, <1>2

LEMMA MarkedIn ==
    ASSUME GraphTypeOK
    PROVE  /\ Range(marked) \subseteq Walkable /\ Range(marked) \subseteq Where
           /\ marked \in Seq(Where) /\ IsInjective(marked) /\ marked \in Seq(Range(marked))
           /\ marked = <<>> => Range(marked) = {}
<1>1. marked \in Seq(Walkable) /\ IsInjective(marked)
  BY DEF GraphTypeOK, IsInjectiveIn
<1>2. Range(marked) \subseteq Walkable
  BY <1>1 DEF Range
<1>3. marked \in Seq(Where)
  BY <1>1, WalkableIs, SeqMonotonic
<1>4. marked \in Seq(Range(marked))
  BY <1>1 DEF Range
<1>5. marked = <<>> => Range(marked) = {}
  BY DEF Range
<1>. QED BY <1>1, <1>2, <1>3, <1>4, <1>5, WalkableIs

\* Where there are no marks in memory, none are alive or nothing is marked.
LEMMA MarksHeld ==
    ASSUME GraphTypeOK
    PROVE  /\ HasMarks => IsWalk /\ (mode # "recursion" => Walking) /\ MarksAlive
           /\ (~HasMarks /\ place # "in place" /\ IsWalk /\ MarksAlive) => Range(marked) = {}
           /\ form # "grid" => place # "in place"
<1>1. (mode = "recursion" /\ phase = "building") => marked = <<>>
  BY DEF GraphTypeOK
<1>. QED BY <1>1, MarkedIn DEF HasMarks, MarksAlive, GraphTypeOK

LEMMA GridVisited ==
    ASSUME GraphTypeOK, NEW scene, IsGraphScene(scene), form = "grid",
           NEW trace, StartsAtLand(trace)
    PROVE  BindVisited(Memory, trace, scene) = IF IsWalk /\ MarksAlive THEN Range(marked) ELSE {}
<1> DEFINE now == Grids(Memory, scene)
           start == GridBaseline(trace, scene)
           Value(m, x) == m[x[1] + 1][x[2] + 1]
           visited == {x \in Square :
                         \/ now # {} /\ Value(First(Memory, now).of, x) # Value(start, x)
                         \/ \E c \in now : c.name = "visited" /\ Value(c.of, x) # 0}
<1>0. scene.kind = "grid" /\ Range(scene.nodes) = Square
  BY DEF IsGraphScene, Where
<1>1. BindVisited(Memory, trace, scene) = visited
  BY <1>0 DEF BindVisited, BindGridVisited
<1>2. start = Land
  BY <1>0, BaselineIs
<1>3. Structure.elem = "rows" /\ Structure.of = GridOf(Ground) /\ Structure.name = "grid"
  BY StructureIs
<1>4. Structure \in now
  <2>1. Structure \in Found(Memory)
    BY HeldAreFound DEF Held
  <2>. QED BY <1>0, <1>3, <2>1, GridFits DEF Grids
<1>5. \A c \in now : c = Structure \/ (c = Marks /\ HasMarks)
  <2> TAKE c \in now
  <2>1. c \in Found(Memory) /\ IsMatrix(c)
    BY DEF Grids
  <2>2. c.elem \in {"rows", "pairrows"}
    BY <2>1 DEF IsMatrix
  <2>. QED BY <2>1, <2>2, ElemIs
<1>6. HasMarks => Marks \in now
  <2>1. Marks.elem = "rows" /\ Marks.of = GridOf([x \in Square |-> Bool(x \in Range(marked))])
    BY OthersAre
  <2>2. HasMarks => Marks \in Found(Memory)
    BY HeldAreFound DEF Held
  <2>. QED BY <1>0, <2>1, <2>2, GridFits DEF Grids
<1>7. First(Memory, now).of = GridOf(Ground)
  <2>. HIDE DEF now
  <2>1. First(Memory, now) = Structure
    BY <1>4, FirstIsStructure
  <2>. QED BY <1>3, <2>1
<1>. HIDE DEF now, start
<1>8. ASSUME NEW cell, NEW x \in Square PROVE Value(GridOf(cell), x) = cell[x]
  <2>1. x[1] + 1 \in 1..Row /\ x[2] + 1 \in 1..Col /\ x = <<(x[1] + 1) - 1, (x[2] + 1) - 1>>
    BY GraphConstants DEF Square
  <2>. QED BY <2>1, GridOfIs
<1>. HIDE DEF Value
<1>9. \A x \in Square : Value(First(Memory, now).of, x) # Value(start, x)
                          <=> x \in Range(marked) /\ place = "in place"
  <2> TAKE x \in Square
  <2>1. Value(First(Memory, now).of, x) = Ground[x]
    BY <1>7, <1>8
  <2>2. Value(start, x) = Bool(x \in land)
    BY <1>2, <1>8 DEF Land
  <2>3. x \in Range(marked) => x \in land
    BY MarkedIn DEF Walkable
  <2>4. Ground[x] = IF x \in Range(marked) /\ place = "in place" THEN 2 ELSE Bool(x \in land)
    BY DEF Ground
  <2>5. Ground[x] = Bool(x \in land) => ~(x \in Range(marked) /\ place = "in place")
    <3>1. Bool(x \in land) # 2
      BY DEF Bool
    <3>. QED BY <2>4, <3>1
  <2>6. ~(x \in Range(marked) /\ place = "in place") => Ground[x] = Bool(x \in land)
    BY <2>4
  <2>. QED BY <2>1, <2>2, <2>5, <2>6
<1>10. \A x \in Square : (\E c \in now : c.name = "visited" /\ Value(c.of, x) # 0)
                           <=> HasMarks /\ x \in Range(marked)
  <2> TAKE x \in Square
  <2>1. Marks.name = "visited" /\ Value(Marks.of, x) = Bool(x \in Range(marked))
    BY <1>8, OthersAre
  <2>. QED BY <1>3, <1>5, <1>6, <2>1 DEF Bool
<1>11. visited = {x \in Square : x \in Range(marked) /\ (place = "in place" \/ HasMarks)}
  BY <1>4, <1>9, <1>10
<1>. HIDE DEF visited
<1>12. IsWalk /\ Range(marked) \subseteq Square /\ (place = "in place" => MarksAlive)
  BY MarkedIn DEF Where, GraphTypeOK, MarksAlive
<1>13. CASE place = "in place" \/ HasMarks
  <2>1. visited = Range(marked)
    BY <1>11, <1>12, <1>13
  <2>. QED BY <1>1, <1>12, <1>13, <2>1, MarksHeld
<1>14. CASE ~(place = "in place" \/ HasMarks)
  <2>1. visited = {}
    BY <1>11, <1>14
  <2>. QED BY <1>1, <1>14, <2>1, MarksHeld
<1>. QED BY <1>13, <1>14

LEMMA VectorVisited ==
    ASSUME GraphTypeOK, NEW scene, IsGraphScene(scene), form # "grid", NEW trace
    PROVE  BindVisited(Memory, trace, scene) = IF IsWalk /\ MarksAlive THEN Range(marked) ELSE {}
<1> DEFINE marks == {c \in Found(Memory) : c.name = "visited" /\ IsFlat(c, N)}
           visited == {v \in Vertex : marks # {} /\ First(Memory, marks).of[v + 1] # 0}
<1>0. scene.kind # "grid" /\ Range(scene.nodes) = Vertex /\ Len(scene.nodes) = N
  BY DEF IsGraphScene, Where
<1>1. BindVisited(Memory, trace, scene) = visited
  BY <1>0 DEF BindVisited
<1>2. \A c \in marks : c = Marks /\ HasMarks
  <2> TAKE c \in marks
  <2>1. c \in Held
    BY FoundIs
  <2>2. Structure.name # "visited"
    BY StructureIs DEF GraphTypeOK
  <2>. QED BY <2>1, <2>2, OthersAre DEF Held
<1>3. CASE HasMarks
  <2>1. Marks.name = "visited" /\ Marks.elem = "ints"
        /\ Marks.of = [i \in 1..N |-> Bool((i - 1) \in Range(marked))]
    BY OthersAre
  <2>2. Marks \in Found(Memory)
    BY <1>3, HeldAreFound DEF Held
  <2>3. Len(Marks.of) = N
    <3>1. N \in Nat
      BY GraphConstants
    <3>. QED BY <2>1, <3>1, IsSequence
  <2>4. Marks \in marks
    BY <2>1, <2>2, <2>3 DEF IsFlat
  <2>5. First(Memory, marks) = Marks
    <3>1. Memory.containers \in Seq(Found(Memory)) /\ Found(Memory) \cap marks # {}
      BY <2>2, <2>4, MemoryHas
    <3>. HIDE DEF marks
    <3>2. First(Memory, marks) \in marks
      BY <3>1, FirstHas
    <3>. QED BY <1>2, <3>2
  <2>6. \A v \in Vertex : Marks.of[v + 1] # 0 <=> v \in Range(marked)
    <3> TAKE v \in Vertex
    <3>1. v + 1 \in 1..N /\ (v + 1) - 1 = v
      BY GraphConstants DEF Vertex
    <3>. QED BY <2>1, <3>1 DEF Bool
  <2>7. Range(marked) \subseteq Vertex
    BY MarkedIn DEF Where
  <2>. HIDE DEF marks
  <2>8. visited = Range(marked)
    BY <2>4, <2>5, <2>6, <2>7
  <2>. QED BY <1>1, <1>3, <2>8, MarksHeld
<1>4. CASE ~HasMarks
  <2>1. visited = {}
    BY <1>2, <1>4
  <2>. QED BY <1>1, <1>4, <2>1, MarksHeld
<1>. QED BY <1>3, <1>4

LEMMA VisitedOfState ==
    ASSUME GraphTypeOK, NEW scene, IsGraphScene(scene),
           NEW trace, Started(trace)
    PROVE  BindVisited(Memory, trace, scene) = IF IsWalk /\ MarksAlive THEN Range(marked) ELSE {}
BY GridVisited, VectorVisited DEF Started

-----------------------------------------------------------------------------
(* The order in which nodes were first marked.                             *)

\* What bindOrder adds at a step, and a numbering that it builds.
Added(trace, scene, s, before) ==
    before \o Keep(scene.nodes, BindVisited(trace[s], trace, scene) \ Range(before))
IsOrder(ord, trace, n, scene) ==
    /\ ord = [s \in 0..n |-> ord[s]]
    /\ ord[0] = <<>> /\ \A s \in 1..n : ord[s] = Added(trace, scene, s, ord[s - 1])

LEMMA OrderIs ==
    ASSUME NEW ord, NEW trace, NEW n \in Nat, NEW scene, IsOrder(ord, trace, n, scene)
    PROVE  BindOrder(trace, n, scene) = ord[n]
<1> DEFINE Next(f, s) == IF s = 0 THEN <<>> ELSE Added(trace, scene, s, f[s - 1])
           f0 == CHOOSE f : f = [s \in 0..n |-> Next(f, s)]
<1>1. BindOrder(trace, n, scene) = f0[n]
  BY DEF BindOrder, Added
<1>2. ord = [s \in 0..n |-> Next(ord, s)]
  <2>1. \A s \in 0..n : ord[s] = Next(ord, s)
    <3> TAKE s \in 0..n
    <3>1. s = 0 \/ s \in 1..n
      OBVIOUS
    <3>. QED BY <3>1 DEF IsOrder
  <2>. HIDE DEF Next
  <2>. QED BY <2>1 DEF IsOrder
<1>3. f0 = [s \in 0..n |-> Next(f0, s)]
  <2>. HIDE DEF Next
  <2>. QED BY <1>2
<1>. HIDE DEF f0
<1>4. \A s \in 0..n : f0[s] = Next(f0, s) /\ ord[s] = Next(ord, s)
  <2>. HIDE DEF Next
  <2>. QED BY <1>2, <1>3
<1> DEFINE Bad == {s \in 0..n : f0[s] # ord[s]}
<1>5. Bad = {}
  <2> SUFFICES ASSUME Bad # {} PROVE FALSE
    OBVIOUS
  <2>1. Bad \subseteq Nat
    OBVIOUS
  <2>2. PICK s \in Bad : \A r \in Bad : s <= r
    <3>. HIDE DEF Bad
    <3>. QED BY <2>1, LeastNatural
  <2>3. s # 0
    BY <1>4
  <2>4. s - 1 \in 0..n /\ s - 1 \notin Bad
    <3>1. s \in 0..n
      OBVIOUS
    <3>2. s - 1 \in 0..n /\ ~(s <= s - 1)
      BY <2>3, <3>1
    <3>. HIDE DEF Bad
    <3>. QED BY <2>2, <3>2
  <2>5. f0[s - 1] = ord[s - 1]
    BY <2>4
  <2>. QED BY <1>4, <2>3, <2>5
<1>6. n \in 0..n
  OBVIOUS
<1>. QED BY <1>1, <1>5, <1>6

\* Of a set with one element, that element is kept.
LEMMA KeepOfSingleton ==
    ASSUME NEW s, s \in Seq(Range(s)), IsInjective(s), NEW x \in Range(s)
    PROVE  Keep(s, {x}) = <<x>>
<1> DEFINE k == Keep(s, {x})
<1>1. k \in Seq({x}) /\ Range(k) = {x} /\ IsInjective(k)
  <2>1. Range(s) \cap {x} = {x}
    OBVIOUS
  <2>. QED BY <2>1, KeepIs, KeepIsInjective
<1>. HIDE DEF k
<1>2. Len(k) \in Nat /\ DOMAIN k = 1..Len(k) /\ k = [i \in 1..Len(k) |-> k[i]]
      /\ \A i \in 1..Len(k) : k[i] = x
  BY <1>1, LenProperties
<1>3. Len(k) = 1
  <2>1. \E i \in 1..Len(k) : k[i] = x
    BY <1>1, <1>2 DEF Range
  <2>2. \A i, j \in 1..Len(k) : i = j
    BY <1>1, <1>2 DEF IsInjective
  <2>3. Len(k) > 1 => 1 \in 1..Len(k) /\ 2 \in 1..Len(k) /\ 1 # 2
    BY <1>2
  <2>. QED BY <1>2, <2>1, <2>2, <2>3
<1>4. k = [i \in 1..1 |-> x]
  BY <1>2, <1>3
<1>5. k = <<x>>
  BY <1>4
<1>. QED BY <1>5 DEF k

LEMMA KeepOfNone ==
    ASSUME NEW s, s \in Seq(Range(s))
    PROVE  Keep(s, {}) = <<>>
<1>1. Keep(s, {}) \in Seq({})
  <2>1. Range(s) \cap {} = {}
    OBVIOUS
  <2>. QED BY <2>1, KeepIs
<1>. QED BY <1>1, LenProperties

LEMMA InRange ==
    ASSUME NEW S, NEW s \in Seq(S)
    PROVE  s \in Seq(Range(s))
BY DEF Range

LEMMA LastIsNew ==
    ASSUME NEW S, NEW s \in Seq(S), NEW x, Append(s, x) \in Seq(S), IsInjective(Append(s, x))
    PROVE  x \in S /\ x \notin Range(s)
<1> DEFINE t == Append(s, x)
<1>1. /\ Len(s) \in Nat /\ DOMAIN s = 1..Len(s) /\ s \in Seq(Range(s))
  BY InRange, LenProperties
<1>2. /\ t[Len(s) + 1] = x /\ DOMAIN t = 1..Len(s) + 1 /\ \A i \in 1..Len(s) : t[i] = s[i]
  BY <1>1, GrowProperties
<1>. HIDE DEF t
<1>3. \A i, j \in 1..Len(s) + 1 : t[i] = t[j] => i = j
  BY <1>2 DEF IsInjective, t
<1>4. x \in S
  <2>1. t[Len(s) + 1] \in S
    BY <1>1, <1>2, ElementOfSeq DEF t
  <2>. QED BY <1>2, <2>1
<1>5. ASSUME x \in Range(s) PROVE FALSE
  <2>1. PICK i \in 1..Len(s) : s[i] = x
    BY <1>1, <1>5 DEF Range
  <2>2. i \in 1..Len(s) + 1 /\ Len(s) + 1 \in 1..Len(s) + 1 /\ i # Len(s) + 1
    BY <1>1
  <2>. QED BY <1>2, <1>3, <2>1, <2>2
<1>. QED BY <1>4, <1>5

-----------------------------------------------------------------------------
(* What the trace keeps of the walk.  The order in which the nodes of the  *)
(* trace were first seen marked is that in which they were marked; the     *)
(* last node marked may not be in it yet.                                  *)
IsOrderOf(ord, scene) ==
    /\ IsOrder(ord, seen, Len(seen), scene) /\ ord[Len(seen)] \in Seq(Where)
    /\ \/ marked = ord[Len(seen)]
       \/ /\ IsWalk /\ MarksAlive
          /\ \E x : marked = Append(ord[Len(seen)], x)
TraceOrder ==
    /\ seen \in Seq(Range(seen))
    /\ form = "grid" => \/ StartsAtLand(seen)
                        \/ seen = <<>> /\ phase = "building"
    /\ \A scene : IsGraphScene(scene) => \E ord : IsOrderOf(ord, scene)

LEMMA MemoryStarts ==
    ASSUME GraphTypeOK, form = "grid", phase = "building"
    PROVE  /\ Memory.containers \in Seq(Found(Memory)) /\ Memory.containers # <<>>
           /\ Memory.containers[1] = Vector("grid", "rows", 1, Land)
<1>1. marked = <<>>
  BY DEF GraphTypeOK
<1>2. Range(marked) = {}
  BY <1>1, MarkedIn
<1>3. Ground = [x \in Square |-> Bool(x \in land)]
  BY <1>2 DEF Ground
<1>4. Structure = Vector("grid", "rows", 1, Land)
  BY <1>3 DEF Structure, Land
<1>. QED BY <1>4, MemoryHas

\* The trace with the memory of now.
LEMMA LongerTrace ==
    ASSUME GraphTypeOK, TraceOrder
    PROVE  LET trace == Append(seen, Memory)
           IN  /\ trace \in Seq(Range(trace)) /\ Len(seen) \in Nat /\ Len(trace) = Len(seen) + 1
               /\ trace # <<>> /\ DOMAIN trace = 1..Len(seen) + 1 /\ DOMAIN seen = 1..Len(seen)
               /\ \A s \in 1..Len(seen) : trace[s] = seen[s]
               /\ trace[Len(seen) + 1] = Memory /\ Last(trace) = Memory
               /\ Started(trace)
<1> DEFINE trace == Append(seen, Memory)
<1>1. seen \in Seq(Range(seen))
  BY DEF TraceOrder
<1>2. /\ trace \in Seq(Range(trace)) /\ trace # <<>>
      /\ Len(seen) \in Nat /\ DOMAIN seen = 1..Len(seen)
      /\ Len(trace) = Len(seen) + 1 /\ DOMAIN trace = 1..Len(seen) + 1
      /\ \A s \in 1..Len(seen) : trace[s] = seen[s]
      /\ trace[Len(seen) + 1] = Memory
  BY <1>1, GrowProperties
<1>. HIDE DEF trace
<1>3. Last(trace) = Memory
  BY <1>2 DEF Last
<1>4. ASSUME form = "grid" PROVE StartsAtLand(trace)
  <2>1. CASE StartsAtLand(seen)
    <3>1. Len(seen) > 0
      BY <1>1, <2>1, SequenceShape DEF StartsAtLand
    <3>2. 1 \in 1..Len(seen)
      BY <1>2, <3>1
    <3>3. trace[1] = seen[1]
      BY <1>2, <3>2
    <3>. QED BY <1>2, <2>1, <3>3 DEF StartsAtLand
  <2>2. CASE seen = <<>> /\ phase = "building"
    <3>1. Len(seen) + 1 = 1
      BY <2>2
    <3>2. trace[1] = Memory
      BY <1>2, <3>1
    <3>. QED BY <1>2, <1>4, <2>2, <3>2, MemoryStarts DEF StartsAtLand
  <2>. QED BY <1>4, <2>1, <2>2 DEF TraceOrder
<1>. QED BY <1>2, <1>3, <1>4 DEF trace, Started

\* One point more in the trace, and its order is that of the marks.
LEMMA OrderGrows ==
    ASSUME GraphTypeOK, TraceOrder, NEW scene, IsGraphScene(scene)
    PROVE  \E ord : /\ IsOrder(ord, Append(seen, Memory), Len(seen) + 1, scene)
                    /\ ord[Len(seen) + 1] = marked
<1> DEFINE trace == Append(seen, Memory)
           L == Len(seen)
<1>1. PICK old : IsOrderOf(old, scene)
  BY DEF TraceOrder
<1>2. /\ L \in Nat /\ \A s \in 1..L : trace[s] = seen[s]
      /\ trace[L + 1] = Memory /\ Started(trace)
  BY LongerTrace
<1> DEFINE ord == [s \in 0..L + 1 |-> IF s = L + 1 THEN marked ELSE old[s]]
<1>3. /\ DOMAIN ord = 0..L + 1 /\ ord = [s \in 0..L + 1 |-> ord[s]]
      /\ ord[L + 1] = marked /\ \A s \in 0..L : ord[s] = old[s]
  BY <1>2
<1>4. /\ old[0] = <<>> /\ \A s \in 1..L : old[s] = Added(seen, scene, s, old[s - 1])
      /\ \/ marked = old[L]
         \/ IsWalk /\ MarksAlive /\ \E x : marked = Append(old[L], x)
      /\ old[L] \in Seq(Where)
  BY <1>1 DEF IsOrderOf, IsOrder
<1>. HIDE DEF trace, ord
<1>5. ASSUME NEW s \in 1..L PROVE Added(trace, scene, s, old[s - 1]) = Added(seen, scene, s, old[s - 1])
  <2>1. Started(seen)
    <3>1. seen # <<>>
      BY <1>2
    <3>. QED BY <3>1 DEF TraceOrder, Started
  <2>2. BindVisited(trace[s], trace, scene) = BindVisited(seen[s], seen, scene)
    <3>1. trace[s] = seen[s]
      BY <1>2
    <3>2. BindVisited(seen[s], trace, scene) = BindVisited(seen[s], seen, scene)
      BY <1>2, <2>1, AnyTrace
    <3>. QED BY <3>1, <3>2
  <2>. QED BY <2>2 DEF Added
<1>6. Added(trace, scene, L + 1, old[L]) = marked
  <2> DEFINE now == IF IsWalk /\ MarksAlive THEN Range(marked) ELSE {}
  <2>1. BindVisited(trace[L + 1], trace, scene) = now
    BY <1>2, VisitedOfState
  <2>2. scene.nodes \in Seq(Range(scene.nodes)) /\ Range(scene.nodes) = Where /\ IsInjective(scene.nodes)
    BY DEF IsGraphScene
  <2>3. marked \in Seq(Where) /\ IsInjective(marked) /\ Range(marked) \subseteq Where
        /\ marked \in Seq(Range(marked))
    BY MarkedIn
  <2>4. CASE marked = old[L]
    <3>1. now \ Range(marked) = {}
      OBVIOUS
    <3>2. Keep(scene.nodes, {}) = <<>>
      BY <2>2, KeepOfNone
    <3>3. marked \o <<>> = marked
      BY <2>3, ConcatEmptySeq
    <3>. QED BY <2>1, <2>4, <3>1, <3>2, <3>3 DEF Added
  <2>5. CASE IsWalk /\ MarksAlive /\ \E x : marked = Append(old[L], x)
    <3>. HIDE DEF L
    <3>1. PICK x : marked = Append(old[L], x)
      BY <2>5
    <3> DEFINE before == old[L]
    <3>2. before \in Seq(Range(before)) /\ x \in Where /\ x \notin Range(before)
          /\ Range(marked) = Range(before) \cup {x} /\ before \o <<x>> = marked
      <4>1. before \in Seq(Where) /\ before \in Seq(Range(before))
        BY <1>4, InRange
      <4>. HIDE DEF before
      <4>2. x \in Where /\ x \notin Range(before)
        BY <2>3, <3>1, <4>1, LastIsNew DEF before
      <4>. QED BY <3>1, <4>1, <4>2, RangeOfAppend, AppendIsConcat DEF before
    <3>3. now \ Range(before) = {x}
      BY <2>5, <3>2
    <3>4. Keep(scene.nodes, {x}) = <<x>>
      BY <2>2, <3>2, KeepOfSingleton
    <3>. QED BY <2>1, <3>2, <3>3, <3>4 DEF Added
  <2>. QED BY <1>4, <2>4, <2>5
<1>7. \A s \in 1..L + 1 : ord[s] = Added(trace, scene, s, ord[s - 1])
  <2> TAKE s \in 1..L + 1
  <2>1. CASE s = L + 1
    <3>1. s - 1 = L /\ L \in 0..L
      BY <1>2, <2>1
    <3>. QED BY <1>3, <1>6, <2>1, <3>1
  <2>2. CASE s # L + 1
    <3>1. s \in 1..L /\ s \in 0..L /\ s - 1 \in 0..L
      BY <1>2, <2>2
    <3>. QED BY <1>3, <1>4, <1>5, <3>1
  <2>. QED BY <2>1, <2>2
<1>8. ord[0] = <<>>
  <2>1. 0 \in 0..L
    BY <1>2
  <2>. QED BY <1>3, <1>4, <2>1
<1>9. IsOrder(ord, trace, L + 1, scene)
  BY <1>3, <1>7, <1>8 DEF IsOrder
<1>. QED BY <1>3, <1>9 DEF trace

LEMMA OrderStarts == GraphInit => TraceOrder
<1> SUFFICES ASSUME GraphInit PROVE TraceOrder
  OBVIOUS
<1>1. seen = <<>> /\ marked = <<>> /\ phase = "building"
  BY DEF GraphInit
<1>2. <<>> \in Seq(Range(<<>>)) /\ Len(<<>>) = 0
  OBVIOUS
<1>3. ASSUME NEW scene PROVE \E ord : IsOrderOf(ord, scene)
  <2> DEFINE ord == [s \in 0..0 |-> <<>>]
  <2>1. ord[0] = <<>> /\ ord = [s \in 0..0 |-> ord[s]] /\ <<>> \in Seq(Where)
    OBVIOUS
  <2>. HIDE DEF ord
  <2>2. IsOrder(ord, <<>>, 0, scene)
    BY <2>1 DEF IsOrder
  <2>3. IsOrderOf(ord, scene)
    BY <1>1, <1>2, <2>1, <2>2 DEF IsOrderOf
  <2>. QED BY <2>3
<1>. QED BY <1>1, <1>2, <1>3 DEF TraceOrder

\* What a step does to the marks and to the trace.
LEMMA StepIs ==
    ASSUME GraphNext
    PROVE  /\ seen' = Append(seen, Memory)
           /\ Fixed
           /\ \/ marked' = marked
              \/ IsWalk /\ phase' = "walking" /\ \E x : marked' = Append(marked, x)
              \/ IsWalk /\ phase' = "walking" /\ phase = "entered" /\ \E x : marked' = <<x>>
           /\ phase' = "building" => form # "grid"
           /\ phase' \in {"walking", "returned", "after"} =>
                phase \in {"entered", "walking", "returned"}
           /\ phase = "entered" => phase' = "walking"
<1>1. CASE AddEdge
  BY <1>1 DEF AddEdge, Observed, Fixed
<1>2. CASE CallWalk \/ ReturnWalk \/ CallAnother
  BY <1>2 DEF CallWalk, ReturnWalk, CallAnother, Observed, Fixed
<1>3. CASE Begin
  BY <1>3 DEF Begin, Observed, Fixed
<1>4. CASE Visit
  BY <1>4 DEF Visit, Observed, Fixed, Unmarked
<1>5. CASE Relax \/ Take
  BY <1>5 DEF Relax, Take, Observed, Fixed
<1>. QED BY <1>1, <1>2, <1>3, <1>4, <1>5 DEF GraphNext

LEMMA OrderStep ==
    ASSUME GraphTypeOK, TraceOrder, [GraphNext]_graphVars
    PROVE  TraceOrder'
<1>1. CASE UNCHANGED graphVars
  <2>1. /\ Where' = Where /\ form' = form /\ land' = land /\ IsWalk' = IsWalk /\ MarksAlive' = MarksAlive
        /\ seen' = seen /\ marked' = marked /\ phase' = phase
    BY <1>1 DEF graphVars, Where, IsWalk, MarksAlive, Walking
  <2>2. StartsAtLand(seen)' <=> StartsAtLand(seen)
    BY <2>1 DEF StartsAtLand, Land
  <2>3. ASSUME NEW scene, IsGraphScene(scene)' PROVE \E ord : IsOrderOf(ord, scene)'
    <3>1. IsGraphScene(scene)
      BY <2>1, <2>3 DEF IsGraphScene
    <3>2. PICK ord : IsOrderOf(ord, scene)
      BY <3>1 DEF TraceOrder
    <3>3. IsOrderOf(ord, scene)'
      BY <2>1, <3>2 DEF IsOrderOf
    <3>. QED BY <3>3
  <2>. QED BY <2>1, <2>2, <2>3 DEF TraceOrder
<1>2. CASE GraphNext
  <2> DEFINE trace == Append(seen, Memory)
             L == Len(seen)
  <2>1. seen' = trace /\ Fixed
    BY <1>2, StepIs
  <2>2. /\ trace \in Seq(Range(trace)) /\ L \in Nat /\ Len(trace) = L + 1 /\ Started(trace)
    BY LongerTrace
  <2>3. IsWalk' = IsWalk /\ Where' = Where /\ form' = form /\ land' = land
    BY <2>1, FixedKeeps DEF Fixed, Where
  <2>4. \/ marked' = marked
        \/ IsWalk' /\ MarksAlive' /\ \E x : marked' = Append(marked, x)
    <3>1. phase = "entered" => marked = <<>>
      BY DEF GraphTypeOK
    <3>2. \A x : Append(<<>>, x) = <<x>>
      OBVIOUS
    <3>. QED BY <1>2, <2>3, <3>1, <3>2, StepIs DEF MarksAlive, Walking
  <2>5. form' = "grid" => StartsAtLand(seen)'
    BY <2>1, <2>2, <2>3 DEF Started, StartsAtLand, Land
  <2>6. ASSUME NEW scene, IsGraphScene(scene)' PROVE \E ord : IsOrderOf(ord, scene)'
    <3>1. IsGraphScene(scene)
      BY <2>3, <2>6 DEF IsGraphScene
    <3>2. PICK ord : IsOrder(ord, trace, L + 1, scene) /\ ord[L + 1] = marked
      BY <3>1, OrderGrows
    <3>3. marked \in Seq(Where)
      BY MarkedIn
    <3>. HIDE DEF trace, L
    <3>4. Len(seen') = L + 1
      BY <2>1, <2>2
    <3>5. IsOrder(ord, seen', Len(seen'), scene)
      BY <2>1, <3>2, <3>4
    <3>6. ord[Len(seen')] = marked /\ marked \in Seq(Where')
      BY <2>3, <3>2, <3>3, <3>4
    <3>7. IsOrderOf(ord, scene)'
      BY <2>4, <3>5, <3>6 DEF IsOrderOf
    <3>. QED BY <3>7
  <2>7. seen' \in Seq(Range(seen'))
    BY <2>1, <2>2
  <2>. QED BY <2>5, <2>6, <2>7 DEF TraceOrder
<1>. QED BY <1>1, <1>2

LEMMA OrderOfState ==
    ASSUME GraphTypeOK, TraceOrder, NEW scene, IsGraphScene(scene)
    PROVE  OrderIsTrue(Append(seen, Memory), scene)
<1>1. Len(seen) \in Nat /\ Len(Append(seen, Memory)) = Len(seen) + 1
  BY LongerTrace
<1>2. PICK ord : /\ IsOrder(ord, Append(seen, Memory), Len(seen) + 1, scene)
                 /\ ord[Len(seen) + 1] = marked
  BY OrderGrows
<1>3. BindOrder(Append(seen, Memory), Len(seen) + 1, scene) = marked
  BY <1>1, <1>2, OrderIs
<1>. QED BY <1>1, <1>3 DEF OrderIsTrue

-----------------------------------------------------------------------------
(* The distances.                                                          *)

\* Where the distances are kept, and that a point of the trace would look there.
Home == IF place = "own" THEN 2 ELSE 4
KnowsDist(mem) ==
    mem.containers \in Seq(Found(mem)) /\ \A c \in IdentifyDist(mem, N) : c.address = Home
\* Every point of the trace looks for the distances where they are, if at all; and
\* once the walk has begun, one of them has told them from other vectors.
TraceDist ==
    ~IsWalk =>
       /\ \A s \in DOMAIN seen : KnowsDist(seen[s])
       /\ phase \in {"walking", "returned", "after"} =>
            \E s \in DOMAIN seen : IdentifyDist(seen[s], N) # {}

\* Nothing but the distances holds INT_MAX.
LEMMA OnlyDistances ==
    ASSUME GraphTypeOK, ~IsWalk, NEW d \in Found(Memory), d.elem = "ints", Inf \in Range(d.of)
    PROVE  (HasOwn /\ d = Distances(2)) \/ (HasReturned /\ d = Distances(4))
<1>0. form # "grid" /\ ~HasMarks
  BY DEF GraphTypeOK, HasMarks
<1>1. PICK c \in Held : d \in Parts(c)
  BY MemoryHas
<1>2. CASE d = c
  <2>1. Structure.elem # "ints" /\ Waiting.elem # "ints"
    BY StructureIs, OthersAre DEF GraphTypeOK
  <2>2. Inf \notin Range(Count.of)
    <3>1. Count.of = [i \in 1..N |-> 0] /\ Inf # 0
      BY OthersAre, GraphConstants
    <3>. QED BY <3>1 DEF Range
  <2>. QED BY <1>0, <1>2, <2>1, <2>2 DEF Held
<1>3. CASE d # c
  <2>1. IsLaidOut(c)
    BY HeldAreLaidOut
  <2>2. PICK i \in 1..Len(c.of) :
           \/ c.elem \in {"rows", "pairs"} /\ d.of = c.of[i]
           \/ c.elem = "pairrows" /\ \E j \in 1..Len(c.of[i]) : d.of = c.of[i][j]
    <3>1. IsPart(d, c)
      BY <1>1, <1>3, <2>1, PartIs
    <3>. QED BY <3>1 DEF IsPart
  <2>3. c = Structure \/ c = Waiting
    <3>1. c.elem # "ints"
      BY <2>2
    <3>. QED BY <1>0, <3>1, OthersAre DEF Held
  <2>4. \A x : x \in Range(d.of) <=> \E k \in DOMAIN d.of : d.of[k] = x
    BY DEF Range
  <2>5. \A v \in Vertex : v # Inf
    BY GraphConstants
  <2>6. \A e \in Range(Arc) : e[1] # Inf /\ e[2] # Inf /\ Weight[e] # Inf
    BY <2>5, GraphConstants
  <2>7. Range(edges) \subseteq Range(Arc) /\ Inf # 0
    BY EdgesAre, GraphConstants
  <2>8. CASE c = Waiting
    <3>1. c.of = todo /\ c.elem = "pairs"
      BY <2>8, OthersAre
    <3>2. d.of = todo[i] /\ i \in 1..Len(todo)
      BY <2>2, <3>1
    <3>3. todo[i] \in (0..Inf - 1) \X Vertex
      <4>1. todo \in Seq((0..Inf - 1) \X Vertex)
        BY DEF GraphTypeOK
      <4>. QED BY <3>2, <4>1
    <3>4. Inf \notin 0..Inf - 1
      BY GraphConstants
    <3>. QED BY <2>4, <2>5, <3>2, <3>3, <3>4
  <2>9. CASE c = Structure /\ form = "adjlist"
    <3>1. c.of = Rows /\ c.elem = "rows" /\ Len(Rows) = N
      BY <2>9, StructureIs, RowsAre
    <3>2. d.of = Rows[i] /\ i \in 1..N
      BY <2>2, <3>1
    <3>3. PICK k \in DOMAIN Rows[i] : Rows[i][k] = Inf
      BY <2>4, <3>2
    <3>4. k \in 1..Len(Out(i - 1)) /\ Rows[i][k] = Out(i - 1)[k][2]
      BY <2>9, <3>2, <3>3, RowsAre
    <3>5. Out(i - 1)[k] \in Range(edges)
      BY <3>4, OutIs
    <3>. QED BY <2>6, <2>7, <3>3, <3>4, <3>5
  <2>10. CASE c = Structure /\ form = "weighted"
    <3>1. c.of = Rows /\ c.elem = "pairrows" /\ Len(Rows) = N
      BY <2>10, StructureIs, RowsAre
    <3>2. i \in 1..N /\ \E j \in 1..Len(Rows[i]) : d.of = Rows[i][j]
      BY <2>2, <3>1
    <3>3. PICK j \in 1..Len(Rows[i]) : d.of = Rows[i][j]
      BY <3>2
    <3>4. j \in 1..Len(Out(i - 1)) /\ d.of = <<Out(i - 1)[j][2], Weight[Out(i - 1)[j]]>>
      BY <2>10, <3>2, <3>3, RowsAre
    <3>5. Out(i - 1)[j] \in Range(edges)
      BY <3>4, OutIs
    <3>. QED BY <2>4, <2>6, <2>7, <3>4, <3>5
  <2>11. CASE c = Structure /\ form = "matrix"
    <3>1. c.of = Structure.of /\ c.elem = "rows" /\ Len(Structure.of) = N
      BY <2>11, StructureIs, MatrixIs
    <3>2. d.of = Structure.of[i] /\ i \in 1..N
      BY <2>2, <3>1
    <3>3. PICK k \in 1..N : Structure.of[i][k] = Inf
      BY <2>4, <2>11, <3>2, MatrixIs
    <3>4. Structure.of[i][k] = 0 \/
          (<<i - 1, k - 1>> \in Range(edges) /\ Structure.of[i][k] = Weight[<<i - 1, k - 1>>])
      BY <2>11, <3>2, MatrixIs
    <3>. QED BY <2>6, <2>7, <3>3, <3>4
  <2>12. CASE c = Structure /\ form = "edges"
    <3>1. c.of = [k \in DOMAIN edges |-> <<edges[k][1], edges[k][2], Weight[edges[k]]>>]
          /\ c.elem = "rows" /\ DOMAIN edges = 1..Len(edges) /\ Len(edges) \in Nat
      BY <2>12, StructureIs, EdgesAre
    <3>2. Len(c.of) = Len(edges)
      <4> DEFINE r == c.of
      <4>1. r = [k \in 1..Len(edges) |-> r[k]]
        BY <3>1
      <4>. HIDE DEF r
      <4>2. Len(r) = Len(edges)
        BY <3>1, <4>1, IsSequence
      <4>. QED BY <4>2 DEF r
    <3>3. i \in DOMAIN edges /\ d.of = <<edges[i][1], edges[i][2], Weight[edges[i]]>>
      BY <2>2, <3>1, <3>2
    <3>4. edges[i] \in Range(edges)
      BY <3>3 DEF Range
    <3>. QED BY <2>4, <2>6, <2>7, <3>3, <3>4
  <2>. QED BY <1>0, <2>3, <2>8, <2>9, <2>10, <2>11, <2>12 DEF GraphTypeOK
<1>. QED BY <1>2, <1>3

LEMMA MemoryKnows ==
    ASSUME GraphTypeOK, ~IsWalk
    PROVE  KnowsDist(Memory)
<1>1. \A c \in Found(Memory) : c.name # "dist"
  <2> TAKE c \in Found(Memory)
  <2>1. c \in Held \/ c.name = ""
    BY FoundIs
  <2>2. Structure.name # "dist"
    BY StructureIs DEF GraphTypeOK
  <2>. QED BY <2>1, <2>2, OthersAre DEF Held
<1>2. \A c \in IdentifyDist(Memory, N) : c \in Found(Memory) /\ c.elem = "ints" /\ Inf \in Range(c.of)
  BY <1>1 DEF IdentifyDist, IsFlat
<1>3. \A c \in IdentifyDist(Memory, N) : c.address = Home
  BY <1>2, OnlyDistances, OthersAre DEF Home, HasOwn, HasReturned
<1>. QED BY <1>3, MemoryHas DEF KnowsDist

\* As long as they exist, the distances are what is at their address.
LEMMA DistAtHome ==
    ASSUME GraphTypeOK, ~IsWalk, DistAlive
    PROVE  /\ Distances(Home) \in Found(Memory)
           /\ \A d \in Found(Memory) : d.address = Home => d = Distances(Home)
<1>0. form # "grid" /\ ~HasMarks /\ place \in {"own", "returned"}
  BY DEF GraphTypeOK, HasMarks
<1>1. /\ place = "own" => Home = 2 /\ HasOwn /\ ~HasReturned /\ ~HasCount
      /\ place = "returned" => Home = 4 /\ ~HasOwn /\ HasReturned
  BY DEF Home, HasOwn, HasReturned, HasCount, DistAlive, Walking
<1>2. Distances(Home) \in Held
  BY <1>0, <1>1 DEF Held
<1>3. ASSUME NEW c \in Held PROVE c.address \in Nat /\ c.address > 0
                                  /\ (c.address = Home => c = Distances(Home))
  BY <1>0, <1>1, <1>3, StructureIs, OthersAre DEF Held
<1>4. ASSUME NEW d \in Found(Memory), d.address = Home PROVE d = Distances(Home)
  <2>1. PICK c \in Held : d \in Parts(c)
    BY MemoryHas
  <2>2. CASE d # c
    <3>1. IsLaidOut(c)
      BY HeldAreLaidOut
    <3>2. \/ \E i \in 1..Len(c.of) : d.address = 16 * c.address + i
          \/ \E i \in 1..Len(c.of) : \E j \in 1..Len(c.of[i]) :
               d.address = 16 * (16 * c.address + i) + j
      <4>1. IsPart(d, c)
        BY <2>1, <2>2, <3>1, PartIs
      <4>. QED BY <4>1 DEF IsPart
    <3>3. \A i \in Nat : i > 0 => 16 * c.address + i > 4
      BY <1>3
    <3>4. \A i, j \in Nat : i > 0 /\ j > 0 => 16 * (16 * c.address + i) + j > 4
      BY <1>3
    <3>5. d.address > 4
      BY <3>2, <3>3, <3>4
    <3>. QED BY <1>0, <1>1, <1>4, <3>5
  <2>. QED BY <1>3, <1>4, <2>1, <2>2
<1>. QED BY <1>2, <1>4, HeldAreFound

LEMMA FirstIsOnly ==
    ASSUME GraphTypeOK, NEW c \in Found(Memory), NEW S, S = {c}
    PROVE  First(Memory, S) = c
<1>1. Memory.containers \in Seq(Found(Memory)) /\ Found(Memory) \cap S # {}
  BY MemoryHas
<1>2. First(Memory, S) \in S
  BY <1>1, FirstHas
<1>. QED BY <1>2

DistNow == [i \in 1..N |-> dist[i - 1]]

LEMMA DistVector ==
    /\ \A a : Distances(a).of = DistNow /\ IsFlat(Distances(a), N)
    /\ DistNow # <<>> /\ DOMAIN DistNow = 1..N
<1>1. N \in Nat /\ N > 0
  BY GraphConstants
<1>2. Len(DistNow) = N /\ DistNow # <<>> /\ DOMAIN DistNow = 1..N
  BY <1>1, IsSequence DEF DistNow
<1>3. \A a : Distances(a).of = DistNow /\ Distances(a).elem = "ints"
  BY OthersAre DEF DistNow
<1>. QED BY <1>2, <1>3 DEF IsFlat

\* What a point of the trace makes of the memory of now.
LEMMA SeenFrom ==
    ASSUME GraphTypeOK, ~IsWalk, DistAlive, NEW trace, NEW n, trace[n] = Memory,
           NEW s, KnowsDist(trace[s])
    PROVE  DistSeen(trace, s, n, N) = IF IdentifyDist(trace[s], N) = {} THEN <<>> ELSE DistNow
<1> DEFINE dists == IdentifyDist(trace[s], N)
           here == {c \in Found(trace[n]) : dists # {} /\ c.address = First(trace[s], dists).address}
<1>1. DistSeen(trace, s, n, N) =
        IF here = {} \/ ~IsFlat(First(trace[n], here), N) THEN <<>> ELSE First(trace[n], here).of
  BY DEF DistSeen
<1>2. CASE dists = {}
  BY <1>1, <1>2
<1>3. CASE dists # {}
  <2>1. First(trace[s], dists).address = Home
    <3>1. dists \subseteq Found(trace[s])
      BY DEF IdentifyDist
    <3>2. trace[s].containers \in Seq(Found(trace[s])) /\ \A c \in dists : c.address = Home
      BY DEF KnowsDist
    <3>3. Found(trace[s]) \cap dists # {}
      BY <1>3, <3>1
    <3>. HIDE DEF dists
    <3>4. First(trace[s], dists) \in dists
      BY <3>2, <3>3, FirstHas
    <3>. QED BY <3>2, <3>4
  <2>2. here = {Distances(Home)}
    <3>1. here = {c \in Found(Memory) : c.address = Home}
      BY <1>3, <2>1
    <3>2. \A a : Distances(a).address = a
      BY OthersAre
    <3>. QED BY <3>1, <3>2, DistAtHome
  <2>. HIDE DEF here
  <2>3. First(trace[n], here) = Distances(Home)
    BY <2>2, DistAtHome, FirstIsOnly
  <2>. QED BY <1>1, <1>3, <2>2, <2>3, DistVector
<1>. QED BY <1>2, <1>3

\* When the walk begins, its distances are told by INT_MAX.
LEMMA KnownAtFirst ==
    ASSUME GraphTypeOK, ~IsWalk, phase = "entered"
    PROVE  IdentifyDist(Memory, N) # {}
<1>1. DistAlive /\ dist = [v \in Vertex |-> Inf]
  BY DEF DistAlive, Walking, GraphTypeOK
<1>2. Distances(Home) \in Found(Memory) /\ IsFlat(Distances(Home), N)
  BY <1>1, DistAtHome, DistVector
<1>3. Inf \in Range(Distances(Home).of)
  <2>1. 1 \in 1..N /\ 1 - 1 \in Vertex
    BY GraphConstants
  <2>2. DistNow[1] = Inf
    BY <1>1, <2>1 DEF DistNow
  <2>. QED BY <2>1, <2>2, DistVector DEF Range
<1>. QED BY <1>2, <1>3 DEF IdentifyDist

\* The last point of the trace.
LEMMA TraceKnows ==
    ASSUME GraphTypeOK, TraceOrder, TraceDist, ~IsWalk
    PROVE  LET trace == Append(seen, Memory)
           IN  /\ \A s \in DOMAIN trace : KnowsDist(trace[s])
               /\ phase # "building" => \E s \in DOMAIN trace : IdentifyDist(trace[s], N) # {}
<1> DEFINE trace == Append(seen, Memory)
<1>1. /\ Len(seen) \in Nat /\ DOMAIN trace = 1..Len(seen) + 1 /\ DOMAIN seen = 1..Len(seen)
      /\ trace[Len(seen) + 1] = Memory /\ \A s \in 1..Len(seen) : trace[s] = seen[s]
  BY LongerTrace
<1>. HIDE DEF trace
<1>2. ASSUME NEW s \in DOMAIN trace PROVE KnowsDist(trace[s])
  <2>1. CASE s = Len(seen) + 1
    BY <1>1, <2>1, MemoryKnows
  <2>2. CASE s # Len(seen) + 1
    <3>1. s \in 1..Len(seen)
      BY <1>1, <1>2, <2>2
    <3>. QED BY <1>1, <3>1 DEF TraceDist
  <2>. QED BY <2>1, <2>2
<1>3. ASSUME phase # "building" PROVE \E s \in DOMAIN trace : IdentifyDist(trace[s], N) # {}
  <2>1. CASE phase = "entered"
    <3>1. Len(seen) + 1 \in DOMAIN trace
      BY <1>1
    <3>. QED BY <1>1, <2>1, <3>1, KnownAtFirst
  <2>2. CASE phase # "entered"
    <3>1. PICK s \in DOMAIN seen : IdentifyDist(seen[s], N) # {}
      BY <1>3, <2>2 DEF TraceDist, GraphTypeOK
    <3>2. s \in DOMAIN trace /\ trace[s] = seen[s]
      BY <1>1
    <3>. QED BY <3>1, <3>2
  <2>. QED BY <2>1, <2>2
<1>. QED BY <1>2, <1>3 DEF trace

LEMMA DistStarts == GraphInit => TraceDist
<1>1. DOMAIN <<>> = {}
  OBVIOUS
<1>. QED BY <1>1 DEF GraphInit, TraceDist

LEMMA DistStep ==
    ASSUME GraphTypeOK, TraceOrder, TraceDist, [GraphNext]_graphVars
    PROVE  TraceDist'
<1>1. CASE UNCHANGED graphVars
  <2>1. seen' = seen /\ phase' = phase /\ IsWalk' = IsWalk /\ Home' = Home
    BY <1>1 DEF graphVars, IsWalk, Home
  <2>. QED BY <2>1 DEF TraceDist, KnowsDist
<1>2. CASE GraphNext
  <2> DEFINE trace == Append(seen, Memory)
  <2>1. seen' = trace /\ IsWalk' = IsWalk /\ Home' = Home
    BY <1>2, StepIs, FixedKeeps DEF Fixed, Home
  <2>2. ASSUME ~IsWalk
        PROVE  /\ \A s \in DOMAIN trace : KnowsDist(trace[s])
               /\ phase # "building" => \E s \in DOMAIN trace : IdentifyDist(trace[s], N) # {}
    BY <2>2, TraceKnows
  <2>3. phase' \in {"walking", "returned", "after"} => phase # "building"
    BY <1>2, StepIs
  <2>. HIDE DEF trace
  <2>. QED BY <2>1, <2>2, <2>3 DEF TraceDist, KnowsDist
<1>. QED BY <1>1, <1>2

LEMMA DistOfState ==
    ASSUME GraphTypeOK, TraceOrder, TraceDist, NEW scene, IsGraphScene(scene)
    PROVE  DistStays(Append(seen, Memory), scene)
<1> SUFFICES ASSUME ~IsWalk, DistAlive
             PROVE  BindDist(Append(seen, Memory), Len(Append(seen, Memory)), scene) = DistNow
  BY DEF DistStays, DistNow
<1> DEFINE trace == Append(seen, Memory)
           n == Len(seen) + 1
           known == {s \in 1..n : DistSeen(trace, s, n, N) # <<>>}
<1>0. scene.kind # "grid" /\ Len(scene.nodes) = N
  BY DEF IsGraphScene, GraphTypeOK
<1>1. Len(trace) = n /\ n \in Nat /\ DOMAIN trace = 1..n /\ trace[n] = Memory
  BY LongerTrace
<1>2. BindDist(trace, Len(trace), scene) =
        IF known = {} THEN <<>> ELSE DistSeen(trace, Max(known), n, N)
  BY <1>0, <1>1 DEF BindDist
<1>3. phase # "building"
  BY DEF DistAlive, Walking
<1>4. \A s \in 1..n : KnowsDist(trace[s])
  BY <1>1, TraceKnows
<1>5. PICK r \in 1..n : IdentifyDist(trace[r], N) # {}
  BY <1>1, <1>3, TraceKnows
<1>. HIDE DEF trace
<1>6. \A s \in 1..n : DistSeen(trace, s, n, N) =
                        IF IdentifyDist(trace[s], N) = {} THEN <<>> ELSE DistNow
  BY <1>1, <1>4, SeenFrom
<1>7. r \in known
  BY <1>5, <1>6, DistVector
<1>8. Max(known) \in known
  <2>1. known \subseteq Int /\ known # {} /\ n \in Int /\ \A s \in known : s <= n
    BY <1>1, <1>7
  <2>. HIDE DEF known, n
  <2>. QED BY <2>1, MaxProperties
<1>9. DistSeen(trace, Max(known), n, N) = DistNow
  <2>1. Max(known) \in 1..n /\ DistSeen(trace, Max(known), n, N) # <<>>
    BY <1>8
  <2>. HIDE DEF known
  <2>. QED BY <1>6, <2>1
<1>. QED BY <1>2, <1>7, <1>9 DEF trace

-----------------------------------------------------------------------------
GraphInductive == GraphTypeOK /\ TraceOrder /\ TraceDist

(* The trace keeps the order of the marks and where the distances are, at  *)
(* every point of every program: what bindOrder and bindDist look for in   *)
(* it (graphModel.ts:360-376, 572-583) is there.                           *)
THEOREM TraceFollows == GraphSpec => []GraphInductive
<1>1. GraphInit => GraphInductive
  BY GraphInitType, OrderStarts, DistStarts DEF GraphInductive
<1>2. GraphInductive /\ [GraphNext]_graphVars => GraphInductive'
  BY GraphStepType, OrderStep, DistStep DEF GraphInductive
<1>. QED BY <1>1, <1>2, PTL DEF GraphSpec

LEMMA MarksOfState == GraphInductive => MarksAreTrue
<1> SUFFICES ASSUME GraphTypeOK, TraceOrder, TraceDist PROVE MarksAreTrue
  BY DEF GraphInductive
<1> DEFINE trace == Append(seen, Memory)
<1>1. Last(trace) = Memory /\ Started(trace)
  BY LongerTrace
<1>. HIDE DEF trace
<1>2. ASSUME NEW view \in Views, Overlaid(BuildGraphScene(Last(trace), view))
      PROVE  /\ VisitedIsTrue(trace, BuildGraphScene(Last(trace), view))
             /\ OrderIsTrue(trace, BuildGraphScene(Last(trace), view))
             /\ FrontierIsWaiting(Last(trace), BuildGraphScene(Last(trace), view))
             /\ CurrentIsPath(Last(trace), BuildGraphScene(Last(trace), view))
             /\ DistStays(trace, BuildGraphScene(Last(trace), view))
  <2> DEFINE scene == BuildGraphScene(Memory, view)
  <2>1. IsGraphScene(scene)
    BY <1>1, <1>2, OverlaidIs
  <2>. HIDE DEF scene
  <2>2. VisitedIsTrue(trace, scene)
    BY <1>1, <2>1, VisitedOfState DEF VisitedIsTrue
  <2>3. OrderIsTrue(trace, scene) /\ DistStays(trace, scene)
    BY <2>1, OrderOfState, DistOfState DEF trace
  <2>4. FrontierIsWaiting(Memory, scene) /\ CurrentIsPath(Memory, scene)
    BY <2>1, FrontierOfState, CurrentOfState
  <2>. QED BY <1>1, <2>2, <2>3, <2>4 DEF scene
<1>. QED BY <1>2 DEF MarksAreTrue, Scenes, trace

(* At every point of every program the scene shows what the walk has done  *)
(* so far: the marks, their order, the nodes waiting, the path, and the    *)
(* distances (graphModel.ts:227-245, 360-480, 558-583).                    *)
THEOREM MarksCorrect == GraphSpec => []MarksAreTrue
BY TraceFollows, MarksOfState, PTL

===============================================================================
