----------------------------- MODULE ShapesProofs -----------------------------
(***************************************************************************)
(* What holds of linked structures for every number of nodes, of members   *)
(* and of statements: a type is confirmed exactly when its nodes make a    *)
(* structure, the groups take each node once, and the trail is where the   *)
(* locals have been.                                                       *)
(***************************************************************************)
EXTENDS Shapes, TLAPS, CommonLemmas, FiniteSetTheorems

-----------------------------------------------------------------------------
(* The trail.                                                              *)

(* How Trail goes through the fingers.                                     *)
Trailing(trail, s, fingers) ==
    \A t \in SUBSET DOMAIN fingers :
       trail[t] = IF t = {} THEN s ELSE Stand(trail[t \ {Max(t)}], fingers[Max(t)])

\* The fold of Trail is defined.
LEMMA TrailUnfolds ==
    ASSUME NEW s, s \in Seq(Range(s)), NEW q, q \in Seq(Range(q))
    PROVE  \E trail : Trail(s, q) = trail[DOMAIN q] /\ Trailing(trail, s, q)
<1> DEFINE n == Len(q)
           X == Seq(Range(s) \cup Range(q))
           step == [i \in 1..n |-> [x \in X |-> Stand(x, q[i])]]
<1>1. n \in Nat /\ DOMAIN q = 1..n /\ s \in X
  BY SequenceShape, SeqMonotonic
<1>2. \A i \in 1..n : q[i] \in Range(q)
  BY <1>1 DEF Range
<1>3. \A i \in 1..n : \A x \in X : step[i][x] \in X /\ step[i][x] = Stand(x, q[i])
  BY <1>2 DEF Stand
<1>. HIDE DEF step, n, X
<1>4. PICK fold \in [SUBSET (1..n) -> X] : IsFold(fold, n, s, step)
  BY <1>1, <1>3, FoldExists
<1>5. \A t \in SUBSET (1..n) : t # {} => Max(t) \in 1..n /\ fold[t \ {Max(t)}] \in X
  BY <1>1, MaxOfPart
<1> DEFINE Is(f) == f = [t \in SUBSET DOMAIN q |->
                IF t = {} THEN s ELSE Stand(f[t \ {Max(t)}], q[Max(t)])]
<1>6. Is(fold)
  <2>1. ASSUME NEW t \in SUBSET (1..n)
        PROVE  fold[t] = IF t = {} THEN s ELSE Stand(fold[t \ {Max(t)}], q[Max(t)])
    <3>1. fold[t] = IF t = {} THEN s ELSE step[Max(t)][fold[t \ {Max(t)}]]
      BY <1>4 DEF IsFold
    <3>. QED BY <1>3, <1>5, <3>1
  <2>. QED BY <1>1, <2>1
<1> DEFINE trail == CHOOSE f : Is(f)
<1>7. Trail(s, q) = trail[DOMAIN q]
  BY DEF Trail, FoldLeft, MapThenFoldSet
<1>8. Is(trail)
  <2>. HIDE DEF Is
  <2>. QED BY <1>6
<1>. HIDE DEF trail
<1>9. Trailing(trail, s, q)
  <2>1. ASSUME NEW t \in SUBSET DOMAIN q
        PROVE  trail[t] = IF t = {} THEN s ELSE Stand(trail[t \ {Max(t)}], q[Max(t)])
    BY <1>8
  <2>. QED BY <2>1 DEF Trailing
<1>. QED BY <1>7, <1>9

\* The trail goes on to what was not on it.
LEMMA TrailIs ==
    ASSUME NEW S, NEW s \in Seq(S), NEW q \in Seq(S)
    PROVE  Trail(s, q) \in Seq(S) /\ Range(Trail(s, q)) = Range(s) \cup Range(q)
<1>1. /\ s \in Seq(Range(s)) /\ q \in Seq(Range(q)) /\ Len(q) \in Nat /\ DOMAIN q = 1..Len(q)
      /\ \A i \in 1..Len(q) : q[i] \in S
  BY SeqDef, LenProperties DEF Range
<1>2. PICK trail : Trail(s, q) = trail[DOMAIN q] /\ Trailing(trail, s, q)
  BY <1>1, TrailUnfolds
<1> DEFINE Upto(i) == {q[j] : j \in 1..i}
           Trailed(i) == trail[1..i] \in Seq(S) /\ Range(trail[1..i]) = Range(s) \cup Upto(i)
           Failing == {i \in 0..Len(q) : ~Trailed(i)}
<1>3. ASSUME Failing # {} PROVE FALSE
  <2>1. PICK i \in Failing : \A k \in Failing : i <= k
    <3>1. Failing \subseteq Nat
      OBVIOUS
    <3>. HIDE DEF Failing
    <3>. QED BY <1>3, <3>1, LeastNatural
  <2>2. i \in 0..Len(q) /\ ~Trailed(i)
    OBVIOUS
  <2>3. Trailed(0)
    <3>1. {} \in SUBSET DOMAIN q /\ 1..0 = {} /\ Upto(0) = {}
      OBVIOUS
    <3>2. trail[1..0] = s
      BY <1>2, <3>1 DEF Trailing
    <3>. QED BY <3>1, <3>2
  <2>4. CASE i # 0
    <3>1. i - 1 \in 0..Len(q) /\ ~(i <= i - 1) /\ i \in 1..Len(q)
      BY <1>1, <2>2, <2>4
    <3>2. Trailed(i - 1)
      <4>. HIDE DEF Trailed
      <4>. QED BY <2>1, <3>1
    <3> DEFINE r == trail[1..i - 1]
    <3>3. trail[1..i] = Stand(r, q[i])
      <4>1. Max(1..i) = i /\ (1..i) \ {i} = 1..i - 1 /\ 1..i # {} /\ 1..i \in SUBSET (1..Len(q))
        BY <1>1, <3>1, MaxOfBeginning
      <4>. QED BY <1>1, <1>2, <4>1 DEF Trailing
    <3>4. Upto(i) = Upto(i - 1) \cup {q[i]}
      <4>1. 1..i = (1..i - 1) \cup {i}
        BY <1>1, <3>1
      <4>. QED BY <4>1
    <3>5. r \in Seq(S) /\ Range(r) = Range(s) \cup Upto(i - 1) /\ q[i] \in S
      BY <1>1, <3>1, <3>2
    <3>. HIDE DEF r, Upto
    <3>6. Stand(r, q[i]) \in Seq(S) /\ Range(Stand(r, q[i])) = Range(r) \cup {q[i]}
      <4>1. CASE Contains(r, q[i])
        <5>1. q[i] \in Range(r)
          BY <3>5, <4>1, LenProperties DEF Contains, Range
        <5>. QED BY <3>5, <4>1, <5>1 DEF Stand
      <4>2. CASE ~Contains(r, q[i])
        <5>1. Stand(r, q[i]) = Append(r, q[i])
          BY <4>2 DEF Stand
        <5>2. Append(r, q[i]) \in Seq(S)
          BY <3>5, AppendProperties
        <5>. QED BY <3>5, <5>1, <5>2, RangeOfAppend
      <4>. QED BY <4>1, <4>2
    <3>. QED BY <2>2, <3>3, <3>4, <3>5, <3>6
  <2>. HIDE DEF Trailed
  <2>. QED BY <2>2, <2>3, <2>4
<1>4. Trailed(Len(q))
  <2>1. Len(q) \in 0..Len(q)
    BY <1>1
  <2>. HIDE DEF Trailed
  <2>. QED BY <1>3, <2>1
<1>5. Upto(Len(q)) = Range(q)
  BY <1>1 DEF Range
<1>. QED BY <1>1, <1>2, <1>4, <1>5

-----------------------------------------------------------------------------
(* Steps.                                                                  *)

HeapType == [Address -> {NoNode} \cup [Member -> Address \cup {Null}]]
LocalType == [1..2 -> Address \cup {Null}]

\* There are members, and a number of nodes.
LEMMA ConstantTypes ==
    ASSUME ShapeTypeOK
    PROVE  arity \in Nat \ {0} /\ Nodes[arity] \in Nat
<1>1. DOMAIN Nodes = 1..Len(Nodes) /\ Len(Nodes) \in Nat /\ \A i \in 1..Len(Nodes) : Nodes[i] \in Nat
  BY NodesAssumption, LenProperties, SeqDef
<1>. QED BY <1>1 DEF ShapeTypeOK

\* What is live is at an address, and has members.
LEMMA LiveIs ==
    ASSUME ShapeTypeOK
    PROVE  /\ Live(heap) \subseteq Address
           /\ \A a \in Live(heap) : heap[a] \in [Member -> Address \cup {Null}]
BY DEF ShapeTypeOK, Live

\* A node is made.
LEMMA MadeIs ==
    ASSUME ShapeTypeOK, NEW a \in Address
    PROVE  Made(a) \in HeapType /\ (\A b \in Address : b # a => Made(a)[b] = heap[b])
<1>1. [m \in Member |-> Null] \in [Member -> Address \cup {Null}]
  OBVIOUS
<1>. QED BY <1>1 DEF ShapeTypeOK, HeapType, Made

\* A live node gets another member.
LEMMA LinkIs ==
    ASSUME NEW h \in HeapType, NEW b \in Address, h[b] \in [Member -> Address \cup {Null}],
           NEW m, NEW v \in Address \cup {Null}
    PROVE  [h EXCEPT ![b][m] = v] \in HeapType
<1> DEFINE node == [h[b] EXCEPT ![m] = v]
<1>1. node \in [Member -> Address \cup {Null}]
  OBVIOUS
<1>2. [h EXCEPT ![b][m] = v] = [h EXCEPT ![b] = node]
  OBVIOUS
<1>. HIDE DEF node
<1>. QED BY <1>1, <1>2 DEF HeapType

\* Every statement makes a point, with a heap, locals and a queue of their types.
LEMMA StepIsPoint ==
    ASSUME ShapeTypeOK, ShapeNext
    PROVE  \E h \in HeapType, l \in LocalType, q \in SUBSET Address, used \in SUBSET Address :
              NodePoint(h, l, q, used)
<1>1. PICK f \in 1..2 :
        \/ NewNode(f) \/ Delete(f)
        \/ \E m \in Member :
              \/ NewBelow(f, m) \/ Push(f, m)
              \/ \E q \in Range(local) \cup {Null} : AssignMember(f, m, q)
        \/ \E q \in (UNION {Range(heap[a]) : a \in Range(local) \cap Live(heap)}) \cup Range(local) \cup queued :
              Advance(f, q)
  BY DEF ShapeNext
<1>2. /\ heap \in HeapType /\ local \in LocalType /\ queued \in SUBSET Address
      /\ {} \in SUBSET Address /\ \A a \in Address : {a} \in SUBSET Address
      /\ Free \subseteq Address
  BY DEF ShapeTypeOK, HeapType, LocalType, Free
<1>3. /\ Range(local) \subseteq Address \cup {Null}
      /\ local[f] \in Live(heap) =>
           local[f] \in Address /\ heap[local[f]] \in [Member -> Address \cup {Null}]
  BY <1>2, LiveIs DEF Range, LocalType
<1>4. CASE NewNode(f)
  <2>1. PICK a \in Free : NodePoint(Made(a), [local EXCEPT ![f] = a], queued, {a})
    BY <1>4 DEF NewNode
  <2>2. Made(a) \in HeapType /\ [local EXCEPT ![f] = a] \in LocalType
    BY <1>2, MadeIs DEF LocalType
  <2>. QED BY <1>2, <2>1, <2>2
<1>5. CASE Delete(f)
  <2>1. NodePoint([heap EXCEPT ![local[f]] = NoNode], local, queued \ {local[f]}, {})
    BY <1>5 DEF Delete
  <2>2. [heap EXCEPT ![local[f]] = NoNode] \in HeapType /\ queued \ {local[f]} \in SUBSET Address
    BY <1>2 DEF HeapType
  <2>. QED BY <1>2, <2>1, <2>2
<1>6. ASSUME NEW m \in Member, NewBelow(f, m)
      PROVE  \E h \in HeapType, l \in LocalType, q \in SUBSET Address, used \in SUBSET Address :
                NodePoint(h, l, q, used)
  <2>1. /\ local[f] \in Live(heap)
        /\ \E a \in Free : NodePoint([Made(a) EXCEPT ![local[f]][m] = a], local, queued, {a})
    BY <1>6 DEF NewBelow
  <2>2. PICK a \in Free : NodePoint([Made(a) EXCEPT ![local[f]][m] = a], local, queued, {a})
    BY <2>1
  <2>3. Made(a) \in HeapType /\ a \in Address
    BY <1>2, MadeIs
  <2>4. Made(a)[local[f]] \in [Member -> Address \cup {Null}]
    <3>1. local[f] # a
      BY <2>1 DEF Free, Live
    <3>. QED BY <1>2, <1>3, <2>1, <3>1, MadeIs
  <2>5. [Made(a) EXCEPT ![local[f]][m] = a] \in HeapType
    BY <1>3, <2>1, <2>3, <2>4, LinkIs
  <2>. QED BY <1>2, <2>2, <2>3, <2>5
<1>7. ASSUME NEW m \in Member, Push(f, m)
      PROVE  \E h \in HeapType, l \in LocalType, q \in SUBSET Address, used \in SUBSET Address :
                NodePoint(h, l, q, used)
  <2>1. /\ heap[local[f]][m] \in Live(heap)
        /\ NodePoint(heap, local, queued \cup {heap[local[f]][m]}, {})
    BY <1>7 DEF Push
  <2>2. queued \cup {heap[local[f]][m]} \in SUBSET Address
    BY <1>2, <2>1, LiveIs
  <2>. QED BY <1>2, <2>1, <2>2
<1>8. ASSUME NEW m \in Member, NEW q \in Range(local) \cup {Null}, AssignMember(f, m, q)
      PROVE  \E h \in HeapType, l \in LocalType, r \in SUBSET Address, used \in SUBSET Address :
                NodePoint(h, l, r, used)
  <2>1. /\ local[f] \in Live(heap)
        /\ NodePoint([heap EXCEPT ![local[f]][m] = q], local, queued, {})
    BY <1>8 DEF AssignMember
  <2>2. q \in Address \cup {Null}
    BY <1>3
  <2>3. [heap EXCEPT ![local[f]][m] = q] \in HeapType
    BY <1>2, <1>3, <2>1, <2>2, LinkIs
  <2>. QED BY <1>2, <2>1, <2>3
<1>9. ASSUME NEW q \in (UNION {Range(heap[a]) : a \in Range(local) \cap Live(heap)}) \cup Range(local) \cup queued,
             Advance(f, q)
      PROVE  \E h \in HeapType, l \in LocalType, r \in SUBSET Address, used \in SUBSET Address :
                NodePoint(h, l, r, used)
  <2>1. NodePoint(heap, [local EXCEPT ![f] = q], queued, {})
    BY <1>9 DEF Advance
  <2>2. q \in Address \cup {Null}
    <3>1. CASE q \in UNION {Range(heap[a]) : a \in Range(local) \cap Live(heap)}
      <4>1. PICK a \in Live(heap) : q \in Range(heap[a])
        BY <3>1
      <4>2. heap[a] \in [Member -> Address \cup {Null}]
        BY LiveIs
      <4>. QED BY <4>1, <4>2 DEF Range
    <3>2. CASE q \in Range(local) \cup queued
      BY <1>2, <1>3, <3>2
    <3>. QED BY <3>1, <3>2
  <2>3. [local EXCEPT ![f] = q] \in LocalType
    BY <1>2, <2>2 DEF LocalType
  <2>. QED BY <1>2, <2>1, <2>3
<1>. QED BY <1>1, <1>4, <1>5, <1>6, <1>7, <1>8, <1>9

\* What of the locals is live at a point.
LEMMA FingersAre ==
    ASSUME NEW h \in HeapType, NEW l \in LocalType
    PROVE  /\ Live(h) \subseteq Address
           /\ Keep(l, Live(h)) \in Seq(Address)
           /\ Range(Keep(l, Live(h))) = Range(l) \cap Live(h)
<1>1. Live(h) \subseteq Address
  BY DEF HeapType, Live
<1>2. l \in Seq(Range(l))
  <2>1. l = [i \in 1..2 |-> l[i]]
    BY DEF LocalType
  <2>. QED BY <2>1, IsSequence
<1>3. /\ Keep(l, Live(h)) \in Seq(Range(l) \cap Live(h))
      /\ Range(Keep(l, Live(h))) = Range(l) \cap Live(h)
  BY <1>2, KeepIs
<1>4. Keep(l, Live(h)) \in Seq(Address)
  <2>1. Range(l) \cap Live(h) \subseteq Address
    BY <1>1
  <2>. QED BY <1>3, <2>1, SeqMonotonic
<1>. QED BY <1>1, <1>3, <1>4

\* What a point adds to the trail: the live nodes that locals are at.
LEMMA PointTrail ==
    ASSUME ShapeTypeOK, NEW h \in HeapType, NEW l \in LocalType, NEW q, NEW used,
           NodePoint(h, l, q, used)
    PROVE  stood' \in Seq(Address) /\ Range(stood') = Range(stood) \cup (Range(l) \cap Live(h))
<1>1. stood' = Trail(stood, Keep(l, Live(h)))
  BY DEF NodePoint, FingerLinks
<1>2. stood \in Seq(Address)
  BY DEF ShapeTypeOK
<1>. QED BY <1>1, <1>2, FingersAre, TrailIs

\* No node yet.
LEMMA ShapeInitType == ShapeInit => ShapeTypeOK /\ TrailInv
<1> SUFFICES ASSUME ShapeInit PROVE ShapeTypeOK /\ TrailInv
  OBVIOUS
<1>1. arity \in DOMAIN Nodes /\ array \in BOOLEAN
  BY NodesAssumption DEF ShapeInit
<1>2. /\ heap \in [Address -> {NoNode} \cup [Member -> Address \cup {Null}]]
      /\ Live(heap) = {}
  BY DEF ShapeInit, Live
<1>3. local \in [1..2 -> Address \cup {Null}]
  BY DEF ShapeInit
<1>4. /\ queued = {} /\ nodeSteps = 0 /\ selfNames = {} /\ cleanFor = {} /\ stood = <<>>
      /\ been = {} /\ reused = {}
  BY DEF ShapeInit
<1>5. stood \in Seq(Address) /\ Range(stood) = {}
  BY <1>4 DEF Range
<1>6. ShapeTypeOK
  BY <1>1, <1>2, <1>3, <1>4, <1>5 DEF ShapeTypeOK
<1>7. TrailInv
  BY <1>2, <1>4, <1>5 DEF TrailInv
<1>. QED BY <1>6, <1>7

\* A point keeps the types.
LEMMA PointType ==
    ASSUME ShapeTypeOK, NEW h \in HeapType, NEW l \in LocalType, NEW q \in SUBSET Address,
           NEW used \in SUBSET Address, NodePoint(h, l, q, used)
    PROVE  ShapeTypeOK'
<1>1. /\ heap' = h /\ local' = l /\ queued' = q /\ nodeSteps' = nodeSteps + 1
      /\ selfNames' = selfNames \cup PointingMembers(h)
      /\ cleanFor' = cleanFor \cup {N \in (SUBSET Member) \ cleanFor : IsClean(h, N)}
      /\ been' = (been \ used) \cup Range(Keep(l, Live(h)))
      /\ reused' = reused \cup (used \cap Range(stood))
      /\ arity' = arity /\ array' = array
  BY DEF NodePoint
<1>2. Address' = Address /\ Member' = Member
  BY <1>1 DEF Address, Member
<1>3. /\ array \in BOOLEAN /\ arity \in DOMAIN Nodes /\ nodeSteps \in Nat
      /\ selfNames \subseteq Member /\ cleanFor \subseteq SUBSET Member
      /\ been \subseteq Address /\ reused \subseteq Address
  BY DEF ShapeTypeOK
<1>4. PointingMembers(h) \subseteq Member
  BY DEF PointingMembers
<1>5. Range(Keep(l, Live(h))) \subseteq Address
  BY FingersAre
<1>6. stood' \in Seq(Address)
  BY PointTrail
<1>7. heap' \in [Address -> {NoNode} \cup [Member -> Address \cup {Null}]]
  BY <1>1 DEF HeapType
<1>8. local' \in [1..2 -> Address \cup {Null}]
  BY <1>1 DEF LocalType
<1>9. been' \subseteq Address /\ reused' \subseteq Address
  BY <1>1, <1>3, <1>5
<1>10. selfNames' \subseteq Member /\ cleanFor' \subseteq SUBSET Member /\ nodeSteps' \in Nat
  BY <1>1, <1>3, <1>4
<1>. QED BY <1>1, <1>2, <1>3, <1>6, <1>7, <1>8, <1>9, <1>10 DEF ShapeTypeOK

\* A point keeps the trail true, whichever addresses it uses again.
LEMMA PointKeepsTrail ==
    ASSUME ShapeTypeOK, TrailInv, NEW h \in HeapType, NEW l \in LocalType, NEW q, NEW used,
           NodePoint(h, l, q, used)
    PROVE  TrailInv'
<1>1. /\ heap' = h /\ local' = l
      /\ been' = (been \ used) \cup Range(Keep(l, Live(h)))
      /\ reused' = reused \cup (used \cap Range(stood))
  BY DEF NodePoint
<1>2. Range(Keep(l, Live(h))) = Range(l) \cap Live(h)
  BY FingersAre
<1>3. Range(stood') = Range(stood) \cup (Range(l) \cap Live(h))
  BY PointTrail
<1>4. been \subseteq Range(stood) /\ Range(stood) \ reused \subseteq been
  BY DEF TrailInv
<1>5. been' \subseteq Range(stood') /\ Range(stood') \ reused' \subseteq been'
  BY <1>1, <1>2, <1>3, <1>4
<1>6. Range(local') \cap Live(heap') \subseteq Range(stood')
  BY <1>1, <1>3
<1>. QED BY <1>5, <1>6 DEF TrailInv

(* Every state is well typed, and the trail that bindTreeOrder gathers is  *)
(* where the locals have been, but for addresses that the allocator used   *)
(* again (treeScene.ts:146-165).                                           *)
THEOREM ShapeInductive == ShapeSpec => [](ShapeTypeOK /\ TrailInv)
<1>1. ShapeInit => ShapeTypeOK /\ TrailInv
  BY ShapeInitType
<1>2. ASSUME ShapeTypeOK, TrailInv, [ShapeNext]_shapeVars PROVE (ShapeTypeOK /\ TrailInv)'
  <2>1. CASE ShapeNext
    BY <1>2, <2>1, StepIsPoint, PointType, PointKeepsTrail
  <2>2. CASE UNCHANGED shapeVars
    BY <1>2, <2>2 DEF shapeVars, ShapeTypeOK, TrailInv, Address, Member, Live
  <2>. QED BY <1>2, <2>1, <2>2
<1>. QED BY <1>1, <1>2, PTL DEF ShapeSpec

(* A live node is marked visited exactly when a local has pointed to it,   *)
(* whatever the program frees and allocates, and the current ones always   *)
(* are (treeScene.ts:60-64, 130-132).                                      *)
THEOREM TrailFollows == ShapeSpec => []TrailIsTrue
<1>1. ASSUME ShapeTypeOK, TrailInv PROVE TrailIsTrue
  <2>1. stood \in Seq(Range(stood)) /\ local \in LocalType
    BY <1>1, SeqDef DEF ShapeTypeOK, LocalType, Range
  <2>2. Range(Order) = Range(stood) \cap Live(heap)
    BY <2>1, KeepIs DEF Order
  <2>3. Range(Current) \subseteq Range(local) \cap Live(heap)
    <3>1. local = [i \in 1..2 |-> local[i]]
      BY <2>1 DEF LocalType
    <3>2. Len(local) = 2
      BY <3>1, IsSequence
    <3> DEFINE r == Reverse(local)
    <3>3. r = [i \in 1..2 |-> local[2 - i + 1]]
      BY <3>2 DEF Reverse
    <3>4. r \in Seq(Range(r)) /\ Range(r) \subseteq Range(local)
      <4>1. r = [i \in 1..2 |-> r[i]]
        BY <3>3
      <4>2. \A i \in 1..2 : 2 - i + 1 \in 1..2
        OBVIOUS
      <4>3. DOMAIN local = 1..2 /\ DOMAIN r = 1..2
        BY <3>1, <3>3
      <4>4. \A i \in 1..2 : r[i] \in Range(local)
        BY <3>3, <4>2, <4>3 DEF Range
      <4>. HIDE DEF r
      <4>5. r \in Seq(Range(r))
        BY <4>1, IsSequence
      <4>. QED BY <4>3, <4>4, <4>5 DEF Range
    <3>. HIDE DEF r
    <3>5. Range(Keep(r, Live(heap))) = Range(r) \cap Live(heap)
      BY <3>4, KeepIs
    <3>. QED BY <3>4, <3>5 DEF Current, r
  <2>. QED BY <1>1, <2>2, <2>3 DEF TrailInv, TrailIsTrue
<1>. QED BY <1>1, ShapeInductive, PTL

-----------------------------------------------------------------------------
(* The nodes that a node links to.                                         *)

Succ(h, links, a) == {b \in Live(h) : \E m \in links : h[a][m] = b}

\* There are finitely many nodes.
LEMMA LiveIsFinite ==
    ASSUME ShapeTypeOK, NEW h \in HeapType
    PROVE  /\ Live(h) \subseteq Address
           /\ IsFiniteSet(Live(h)) /\ Cardinality(Live(h)) \in Nat
<1>1. Live(h) \subseteq Address /\ Nodes[arity] \in Nat
  BY ConstantTypes DEF HeapType, Live
<1>2. IsFiniteSet(Address)
  BY <1>1, FS_Interval DEF Address
<1>. QED BY <1>1, <1>2, FS_Subset, FS_CardinalityType

\* The targets of a node are what it links to, at most one for each member.
LEMMA TargetsAre ==
    ASSUME ShapeTypeOK, NEW h, NEW links \in SUBSET Member, NEW a
    PROVE  /\ Targets(h, links, a) \in Seq(Live(h))
           /\ Len(Targets(h, links, a)) <= arity
           /\ Range(Targets(h, links, a)) = Succ(h, links, a)
<1> DEFINE all == [m \in Member |-> m]
           set == {m \in links : h[a][m] \in Live(h)}
           slots == Keep(all, set)
           r == [i \in DOMAIN slots |-> h[a][slots[i]]]
<1>1. arity \in Nat
  BY ConstantTypes
<1>2. all \in Seq(Range(all)) /\ Len(all) = arity /\ Range(all) = Member
  <2>1. all = [i \in 1..arity |-> all[i]]
    BY DEF Member
  <2>2. Range(all) = Member
    BY DEF Range
  <2>. HIDE DEF all
  <2>. QED BY <1>1, <2>1, <2>2, IsSequence
<1>3. slots \in Seq(Member \cap set) /\ Len(slots) <= arity /\ Range(slots) = Member \cap set
  <2>. HIDE DEF all, set
  <2>. QED BY <1>2, KeepIs
<1>4. Member \cap set = set
  OBVIOUS
<1>. HIDE DEF slots
<1>5. Len(slots) \in Nat /\ DOMAIN slots = 1..Len(slots) /\ \A i \in 1..Len(slots) : slots[i] \in set
  BY <1>3, <1>4, LenProperties
<1>6. r \in [1..Len(slots) -> Live(h)]
  BY <1>5
<1>7. r \in Seq(Live(h)) /\ Len(r) = Len(slots) /\ DOMAIN r = 1..Len(slots)
  BY <1>5, <1>6, FunctionIsSequence
<1>8. Range(r) = Succ(h, links, a)
  <2>1. ASSUME NEW v \in Range(r) PROVE v \in Succ(h, links, a)
    <3>1. PICK i \in 1..Len(slots) : v = r[i]
      BY <1>7 DEF Range
    <3>2. v = h[a][slots[i]]
      BY <1>5, <3>1
    <3>. QED BY <1>5, <3>2 DEF Succ
  <2>2. ASSUME NEW v \in Succ(h, links, a) PROVE v \in Range(r)
    <3>1. PICK m \in links : h[a][m] = v /\ v \in Live(h)
      BY DEF Succ
    <3>2. m \in Range(slots)
      BY <1>3, <1>4, <3>1
    <3>3. PICK i \in 1..Len(slots) : slots[i] = m
      BY <1>5, <3>2 DEF Range
    <3>4. r[i] = v
      BY <1>5, <3>1, <3>3
    <3>. QED BY <1>7, <3>4 DEF Range
  <2>. QED BY <2>1, <2>2
<1>. HIDE DEF r
<1>9. Targets(h, links, a) = r
  BY DEF Targets, slots, r
<1>. QED BY <1>3, <1>7, <1>8, <1>9

\* An edge is a link of a node to one of S.
LEMMA EdgesToAre ==
    ASSUME NEW h, NEW links, NEW S
    PROVE  EdgesTo(h, links, S) =
             {e \in [from : Live(h), member : links, to : S] : h[e.from][e.member] = e.to}
<1>1. ASSUME NEW e \in EdgesTo(h, links, S)
      PROVE  e \in [from : Live(h), member : links, to : S] /\ h[e.from][e.member] = e.to
  <2>1. PICK a \in Live(h), m \in links : e = [from |-> a, member |-> m, to |-> h[a][m]]
    BY DEF EdgesTo
  <2>2. e.to \in S
    BY DEF EdgesTo
  <2>. QED BY <2>1, <2>2
<1>2. ASSUME NEW e \in [from : Live(h), member : links, to : S], h[e.from][e.member] = e.to
      PROVE  e \in EdgesTo(h, links, S)
  <2>1. e = [from |-> e.from, member |-> e.member, to |-> h[e.from][e.member]]
    BY <1>2
  <2>. QED BY <2>1 DEF EdgesTo
<1>. QED BY <1>1, <1>2

\* The edges and what is closed, as links.
LEMMA EdgesAre ==
    ASSUME NEW h, NEW links, NEW a \in Live(h), NEW b
    PROVE  b \in Succ(h, links, a) <=> \E e \in Edges(h, links) : e.from = a /\ e.to = b
<1>1. ASSUME b \in Succ(h, links, a)
      PROVE  \E e \in Edges(h, links) : e.from = a /\ e.to = b
  <2>1. PICK m \in links : h[a][m] = b /\ b \in Live(h)
    BY <1>1 DEF Succ
  <2> DEFINE e == [from |-> a, member |-> m, to |-> b]
  <2>2. e \in [from : Live(h), member : links, to : Live(h)] /\ e.from = a /\ e.to = b /\ e.member = m
    BY <2>1
  <2>. HIDE DEF e
  <2>. QED BY <2>1, <2>2, EdgesToAre DEF Edges
<1>2. ASSUME NEW e \in Edges(h, links), e.from = a, e.to = b
      PROVE  b \in Succ(h, links, a)
  BY <1>2, EdgesToAre DEF Edges, Succ
<1>. QED BY <1>1, <1>2

\* The edges into a node are those of all that end there.
LEMMA IntoIs ==
    ASSUME NEW h, NEW links, NEW a \in Live(h)
    PROVE  /\ Into(h, links, a) \subseteq [from : Live(h), member : links, to : {a}]
           /\ \A e : e \in Into(h, links, a) <=> e \in Edges(h, links) /\ e.to = a
<1>1. ASSUME NEW e \in Into(h, links, a)
      PROVE  e \in Edges(h, links) /\ e.to = a /\ e \in [from : Live(h), member : links, to : {a}]
  <2>1. e \in [from : Live(h), member : links, to : {a}] /\ h[e.from][e.member] = e.to
    BY EdgesToAre DEF Into
  <2>2. e \in [from : Live(h), member : links, to : Live(h)] /\ e.to = a
    BY <2>1
  <2>. QED BY <2>1, <2>2, EdgesToAre DEF Edges
<1>2. ASSUME NEW e \in Edges(h, links), e.to = a PROVE e \in Into(h, links, a)
  <2>1. e \in [from : Live(h), member : links, to : Live(h)] /\ h[e.from][e.member] = e.to
    BY EdgesToAre DEF Edges
  <2>2. e \in [from : Live(h), member : links, to : {a}]
    BY <1>2, <2>1
  <2>. QED BY <2>1, <2>2, EdgesToAre DEF Into
<1>. QED BY <1>1, <1>2

\* A set is closed when no link leaves it.
LEMMA ClosedIs ==
    ASSUME NEW h, NEW links, NEW S \in SUBSET Live(h)
    PROVE  S \in Closed(h, links) <=> \A a \in S : Succ(h, links, a) \subseteq S
<1>1. ASSUME S \in Closed(h, links), NEW a \in S, NEW b \in Succ(h, links, a) PROVE b \in S
  <2>1. PICK e \in Edges(h, links) : e.from = a /\ e.to = b
    BY EdgesAre
  <2>. QED BY <1>1, <2>1 DEF Closed
<1>2. ASSUME \A a \in S : Succ(h, links, a) \subseteq S PROVE S \in Closed(h, links)
  <2>1. ASSUME NEW e \in Edges(h, links), e.from \in S PROVE e.to \in S
    BY <1>2, <2>1, EdgesAre
  <2>. QED BY <2>1 DEF Closed
<1>. QED BY <1>1, <1>2

-----------------------------------------------------------------------------
(* Pre-order walks.                                                        *)

\* A sequence that is not empty.
LEMMA HeadAndTail ==
    ASSUME NEW S, NEW s \in Seq(S), s # <<>>
    PROVE  /\ Head(s) \in S /\ Tail(s) \in Seq(S) /\ Len(Tail(s)) = Len(s) - 1 /\ Len(s) \in Nat \ {0}
           /\ Range(s) = {Head(s)} \cup Range(Tail(s))
<1>1. /\ Head(s) = s[1] /\ Head(s) \in S /\ Tail(s) \in Seq(S) /\ Len(Tail(s)) = Len(s) - 1
      /\ Len(s) \in Nat \ {0} /\ DOMAIN s = 1..Len(s)
      /\ \A i \in 1..Len(s) - 1 : Tail(s)[i] = s[i + 1]
  BY HeadTailProperties, LenProperties, EmptySeq
<1> DEFINE r == Tail(s)
<1>. HIDE DEF r
<1>2. DOMAIN r = 1..Len(s) - 1
  BY <1>1, LenProperties DEF r
<1>3. ASSUME NEW v \in Range(s) PROVE v \in {Head(s)} \cup Range(r)
  <2>1. PICK i \in 1..Len(s) : v = s[i]
    BY <1>1 DEF Range
  <2>2. CASE i = 1
    BY <1>1, <2>1, <2>2
  <2>3. CASE i # 1
    <3>1. i - 1 \in 1..Len(s) - 1 /\ i - 1 + 1 = i
      BY <1>1, <2>3
    <3>2. r[i - 1] = v
      BY <1>1, <2>1, <3>1 DEF r
    <3>. QED BY <1>2, <3>1, <3>2 DEF Range
  <2>. QED BY <2>2, <2>3
<1>4. ASSUME NEW v \in Range(r) PROVE v \in Range(s)
  <2>1. PICK i \in 1..Len(s) - 1 : v = r[i]
    BY <1>2 DEF Range
  <2>2. i + 1 \in 1..Len(s) /\ v = s[i + 1]
    BY <1>1, <2>1 DEF r
  <2>. QED BY <1>1, <2>2 DEF Range
<1>5. Head(s) \in Range(s)
  <2>1. 1 \in 1..Len(s)
    BY <1>1
  <2>. QED BY <1>1, <2>1 DEF Range
<1>. QED BY <1>1, <1>3, <1>4, <1>5 DEF r

(* No node links to two.                                                   *)
Single(h, links) == \A a \in Live(h) : \A b, c \in Succ(h, links, a) : b = c

(* Of the nodes before the last each one's links are in the group; those   *)
(* of the last are, or are still to be followed.                           *)
ChainInv(h, links, pending, order) ==
    /\ \A i \in 1..Len(order) - 1 : Succ(h, links, order[i]) \subseteq Range(order)
    /\ order # <<>> => Range(pending) \subseteq Succ(h, links, order[Len(order)]) \cup Range(order)

WalkInv(h, links, start, visited, pending, order) ==
    /\ pending \in Seq(Live(h)) /\ order \in Seq(Live(h))
    /\ IsInjective(order) /\ Range(order) \cap visited = {}
    /\ start \in visited \cup Range(order) \cup Range(pending)
    /\ \A a \in Range(order) :
          Succ(h, links, a) \subseteq visited \cup Range(order) \cup Range(pending)
    /\ \A S \in Closed(h, links) : start \in S => Range(order) \cup Range(pending) \subseteq S
    /\ order = <<>> => Range(pending) \subseteq {start}
    /\ order # <<>> => order[1] = start /\ start \notin visited
    /\ Single(h, links) => ChainInv(h, links, pending, order)

\* The top of the stack has been seen.
LEMMA SkipKeeps ==
    ASSUME NEW h, NEW links, NEW start, NEW visited, NEW pending, NEW order,
           WalkInv(h, links, start, visited, pending, order), pending # <<>>,
           Head(pending) \in visited \cup Range(order)
    PROVE  WalkInv(h, links, start, visited, Tail(pending), order)
<1> DEFINE rest == Tail(pending)
<1>1. rest \in Seq(Live(h)) /\ Range(pending) = {Head(pending)} \cup Range(rest)
  BY HeadAndTail DEF WalkInv
<1>. HIDE DEF rest
<1>2. /\ order \in Seq(Live(h)) /\ IsInjective(order) /\ Range(order) \cap visited = {}
      /\ start \in visited \cup Range(order) \cup Range(rest)
      /\ \A a \in Range(order) :
          Succ(h, links, a) \subseteq visited \cup Range(order) \cup Range(rest)
  BY <1>1 DEF WalkInv
<1>3. /\ \A S \in Closed(h, links) : start \in S => Range(order) \cup Range(rest) \subseteq S
      /\ order = <<>> => Range(rest) \subseteq {start}
      /\ order # <<>> => order[1] = start /\ start \notin visited
  BY <1>1 DEF WalkInv
<1>4. Single(h, links) => ChainInv(h, links, rest, order)
  BY <1>1 DEF WalkInv, ChainInv
<1>5. WalkInv(h, links, start, visited, rest, order)
  BY <1>1, <1>2, <1>3, <1>4 DEF WalkInv
<1>. QED BY <1>5 DEF rest

\* The top of the stack is visited.
LEMMA VisitKeeps ==
    ASSUME ShapeTypeOK, NEW h, NEW links \in SUBSET Member, NEW start, NEW visited,
           NEW pending, NEW order,
           WalkInv(h, links, start, visited, pending, order), pending # <<>>,
           Head(pending) \notin visited \cup Range(order)
    PROVE  WalkInv(h, links, start, visited,
                   Targets(h, links, Head(pending)) \o Tail(pending), Append(order, Head(pending)))
<1> DEFINE a == Head(pending)
           rest == Tail(pending)
           targets == Targets(h, links, a)
           more == targets \o rest
           after == Append(order, a)
<1>1. a \in Live(h) /\ rest \in Seq(Live(h)) /\ Range(pending) = {a} \cup Range(rest)
  BY HeadAndTail DEF WalkInv
<1>2. targets \in Seq(Live(h)) /\ Range(targets) = Succ(h, links, a)
  BY TargetsAre
<1>. HIDE DEF a, rest, targets
<1>3. more \in Seq(Live(h)) /\ Range(more) = Succ(h, links, a) \cup Range(rest)
  BY <1>1, <1>2, ConcatProperties, RangeOfConcat
<1>4. /\ order \in Seq(Live(h)) /\ IsInjective(order) /\ Range(order) \cap visited = {}
      /\ a \notin visited /\ a \notin Range(order)
  BY DEF WalkInv, a
<1>5. /\ after \in Seq(Live(h)) /\ IsInjective(after) /\ Range(after) = Range(order) \cup {a}
      /\ Len(after) = Len(order) + 1 /\ after[Len(order) + 1] = a /\ Len(order) \in Nat
      /\ \A i \in 1..Len(order) : after[i] = order[i]
  BY <1>1, <1>4, AppendProperties, LenProperties, AppendIsInjective, RangeOfAppend
<1>6. after # <<>>
  BY <1>5, EmptySeq
<1>. HIDE DEF more, after
<1>7. Range(after) \cap visited = {} /\ start \in visited \cup Range(after) \cup Range(more)
  BY <1>1, <1>3, <1>4, <1>5 DEF WalkInv
<1>8. \A b \in Range(after) :
          Succ(h, links, b) \subseteq visited \cup Range(after) \cup Range(more)
  BY <1>1, <1>3, <1>5 DEF WalkInv
<1>9. ASSUME NEW S \in Closed(h, links), start \in S
      PROVE  Range(after) \cup Range(more) \subseteq S
  <2>1. Range(order) \cup Range(pending) \subseteq S
    BY <1>9 DEF WalkInv
  <2>2. S \in SUBSET Live(h)
    BY <1>9 DEF Closed
  <2>3. Succ(h, links, a) \subseteq S
    BY <1>1, <1>9, <2>1, <2>2, ClosedIs
  <2>. QED BY <1>1, <1>3, <1>5, <2>1, <2>3
<1>10. after[1] = start /\ start \notin visited
  <2>1. CASE order = <<>>
    <3>1. a = start
      BY <1>1, <2>1 DEF WalkInv
    <3>2. Len(order) = 0
      BY <2>1
    <3>. QED BY <1>4, <1>5, <3>1, <3>2
  <2>2. CASE order # <<>>
    <3>1. 1 \in 1..Len(order)
      BY <1>4, <1>5, <2>2, EmptySeq
    <3>. QED BY <1>5, <2>2, <3>1 DEF WalkInv
  <2>. QED BY <2>1, <2>2
<1>11. ASSUME Single(h, links) PROVE ChainInv(h, links, more, after)
  <2>1. ChainInv(h, links, pending, order)
    BY <1>11 DEF WalkInv
  <2>2. order = <<>> => Range(pending) \subseteq {start}
    BY DEF WalkInv
  <2>3. ASSUME NEW i \in 1..Len(order) PROVE Succ(h, links, after[i]) \subseteq Range(after)
    <3>1. after[i] = order[i]
      BY <1>5
    <3>2. CASE i # Len(order)
      <4>1. i \in 1..Len(order) - 1
        BY <1>5, <3>2
      <4>. QED BY <1>5, <2>1, <3>1, <4>1 DEF ChainInv
    <3>3. CASE i = Len(order)
      <4>1. order # <<>>
        BY <1>5, <3>3
      <4>2. a \in Succ(h, links, order[Len(order)])
        BY <1>1, <1>4, <2>1, <4>1 DEF ChainInv
      <4>3. order[i] \in Live(h)
        BY <1>4, LenProperties
      <4>4. \A b \in Succ(h, links, order[i]) : b = a
        BY <1>11, <3>3, <4>2, <4>3 DEF Single
      <4>. QED BY <1>5, <3>1, <4>4
    <3>. QED BY <3>2, <3>3
  <2>4. Range(rest) \subseteq Range(after)
    <3>1. CASE order = <<>>
      BY <1>1, <1>5, <2>2, <3>1
    <3>2. CASE order # <<>>
      <4>1. Len(order) \in 1..Len(order)
        BY <1>4, <1>5, <3>2, EmptySeq
      <4>2. Succ(h, links, order[Len(order)]) \subseteq Range(after)
        BY <1>5, <2>3, <4>1
      <4>. QED BY <1>1, <1>5, <2>1, <3>2, <4>2 DEF ChainInv
    <3>. QED BY <3>1, <3>2
  <2>5. Len(after) - 1 = Len(order) /\ after[Len(after)] = a
    BY <1>5
  <2>. QED BY <1>3, <2>3, <2>4, <2>5 DEF ChainInv
<1>12. WalkInv(h, links, start, visited, more, after)
  BY <1>3, <1>5, <1>6, <1>7, <1>8, <1>9, <1>10, <1>11 DEF WalkInv
<1>. QED BY <1>12 DEF more, after, targets, a, rest

(* How the loop of PreOrder goes.                                          *)
Turns(h) == Cardinality(Live(h)) * arity + 1
WalkStart(start) == [pending |-> <<start>>, order |-> <<>>]
Walking(walk, h, links, start, visited) ==
    \A n \in 0..Turns(h) :
       walk[n] = IF n = 0 THEN WalkStart(start) ELSE Turn(h, links, visited, walk[n - 1])

\* The loop of PreOrder is defined.
LEMMA WalkUnfolds ==
    ASSUME ShapeTypeOK, NEW h \in HeapType, NEW links \in SUBSET Member,
           NEW start \in Live(h), NEW visited
    PROVE  \E walk : /\ PreOrder(h, links, start, visited) = walk[Turns(h)].order
                     /\ Walking(walk, h, links, start, visited)
<1> DEFINE turns == Cardinality(Live(h)) * arity + 1
           X == [pending : Seq(Live(h)), order : Seq(Live(h))]
           step == [x \in X |-> Turn(h, links, visited, x)]
           Is(w) == w = [n \in 0..turns |-> IF n = 0 THEN [pending |-> <<start>>, order |-> <<>>]
                                            ELSE Turn(h, links, visited, w[n - 1])]
<1>1. turns \in Nat
  BY LiveIsFinite, ConstantTypes
<1>2. ASSUME NEW x \in X PROVE Turn(h, links, visited, x) \in X
  <2>1. x.pending \in Seq(Live(h)) /\ x.order \in Seq(Live(h))
    OBVIOUS
  <2>2. CASE x.pending = <<>>
    BY <2>2 DEF Turn
  <2>3. CASE x.pending # <<>>
    <3>1. Head(x.pending) \in Live(h) /\ Tail(x.pending) \in Seq(Live(h))
      BY <2>1, <2>3, HeadAndTail
    <3>2. Targets(h, links, Head(x.pending)) \in Seq(Live(h))
      BY TargetsAre
    <3>3. Targets(h, links, Head(x.pending)) \o Tail(x.pending) \in Seq(Live(h))
      BY <3>1, <3>2, ConcatProperties
    <3>4. Append(x.order, Head(x.pending)) \in Seq(Live(h))
      BY <2>1, <3>1, AppendProperties
    <3>. QED BY <2>1, <2>3, <3>1, <3>3, <3>4 DEF Turn
  <2>. QED BY <2>2, <2>3
<1>3. WalkStart(start) \in X
  <2>1. <<start>> \in Seq(Live(h)) /\ <<>> \in Seq(Live(h))
    OBVIOUS
  <2>. QED BY <2>1 DEF WalkStart
<1>4. \A x \in X : step[x] \in X /\ step[x] = Turn(h, links, visited, x)
  BY <1>2
<1>. HIDE DEF X, step, turns
<1>5. PICK f \in [0..turns -> X] : IsIteration(f, turns, WalkStart(start), step)
  BY <1>1, <1>3, <1>4, IterationExists
<1>6. Is(f)
  <2>1. ASSUME NEW n \in 0..turns
        PROVE  f[n] = IF n = 0 THEN WalkStart(start) ELSE Turn(h, links, visited, f[n - 1])
    <3>1. n # 0 => n - 1 \in 0..turns
      BY <1>1
    <3>2. n # 0 => f[n - 1] \in X
      BY <3>1
    <3>3. f[n] = IF n = 0 THEN WalkStart(start) ELSE step[f[n - 1]]
      BY <1>5 DEF IsIteration
    <3>. QED BY <1>4, <3>2, <3>3
  <2>. QED BY <2>1 DEF WalkStart
<1> DEFINE walk == CHOOSE w : Is(w)
<1>7. PreOrder(h, links, start, visited) = walk[turns].order
  BY DEF PreOrder, turns
<1>. HIDE DEF Is
<1>8. Is(walk)
  BY <1>6
<1>. HIDE DEF walk
<1>9. Walking(walk, h, links, start, visited)
  <2>1. walk = [n \in 0..turns |-> IF n = 0 THEN [pending |-> <<start>>, order |-> <<>>]
                                   ELSE Turn(h, links, visited, walk[n - 1])]
    BY <1>8 DEF Is
  <2>2. \A n \in 0..turns : walk[n] = IF n = 0 THEN WalkStart(start)
                                      ELSE Turn(h, links, visited, walk[n - 1])
    BY <2>1 DEF WalkStart
  <2>. QED BY <2>2 DEF Walking, Turns, turns
<1>10. turns = Turns(h)
  BY DEF turns, Turns
<1>. QED BY <1>7, <1>9, <1>10

\* After n turns.
WalkedFor(w, n, h, links, start, visited) ==
    /\ WalkInv(h, links, start, visited, w.pending, w.order)
    /\ w.pending # <<>> => n + Len(w.pending) <= 1 + arity * Len(w.order)

\* A walk has its start before it, and has seen nothing.
LEMMA WalkStartIs ==
    ASSUME ShapeTypeOK, NEW h \in HeapType, NEW links, NEW start \in Live(h), NEW visited
    PROVE  WalkedFor(WalkStart(start), 0, h, links, start, visited)
<1> DEFINE p == <<start>>
           o == <<>>
<1>1. p \in Seq(Live(h)) /\ Len(p) = 1 /\ Range(p) = {start}
  BY DEF Range
<1>2. o \in Seq(Live(h)) /\ Len(o) = 0 /\ DOMAIN o = {} /\ Range(o) = {}
  BY DEF Range
<1>3. arity * 0 = 0
  BY ConstantTypes
<1>4. WalkStart(start).pending = p /\ WalkStart(start).order = o /\ o = <<>>
  BY DEF WalkStart
<1>5. \A i \in 1..0 - 1 : FALSE
  OBVIOUS
<1>. HIDE DEF p
<1>6. ChainInv(h, links, p, o)
  BY <1>2, <1>5 DEF ChainInv
<1>7. IsInjective(o)
  BY <1>2 DEF IsInjective
<1>8. WalkInv(h, links, start, visited, p, o)
  BY <1>1, <1>2, <1>6, <1>7 DEF WalkInv
<1>9. 0 + Len(p) <= 1 + arity * Len(o)
  BY <1>1, <1>2, <1>3
<1>. QED BY <1>4, <1>8, <1>9 DEF WalkedFor

\* A turn skips the top of the stack or visits it.
LEMMA TurnKeeps ==
    ASSUME ShapeTypeOK, NEW h \in HeapType, NEW links \in SUBSET Member, NEW start, NEW visited,
           NEW n \in Nat, NEW w, WalkedFor(w, n, h, links, start, visited)
    PROVE  WalkedFor(Turn(h, links, visited, w), n + 1, h, links, start, visited)
<1> DEFINE p == w.pending
           o == w.order
           next == Turn(h, links, visited, w)
<1>1. WalkInv(h, links, start, visited, p, o) /\ (p # <<>> => n + Len(p) <= 1 + arity * Len(o))
  BY DEF WalkedFor
<1>2. p \in Seq(Live(h)) /\ o \in Seq(Live(h)) /\ Len(o) \in Nat /\ arity \in Nat
  BY <1>1, ConstantTypes, LenProperties DEF WalkInv
<1>3. CASE p = <<>>
  <2>1. next = w
    BY <1>3 DEF Turn
  <2>. QED BY <1>1, <1>3, <2>1 DEF WalkedFor
<1>4. CASE p # <<>> /\ Head(p) \in visited \cup Range(o)
  <2>1. next = [pending |-> Tail(p), order |-> o]
    BY <1>4 DEF Turn
  <2>2. next.pending = Tail(p) /\ next.order = o
    BY <2>1
  <2>3. WalkInv(h, links, start, visited, Tail(p), o)
    BY <1>1, <1>4, SkipKeeps
  <2>4. Len(Tail(p)) = Len(p) - 1 /\ Len(p) \in Nat
    BY <1>2, <1>4, HeadAndTail
  <2> DEFINE k == arity * Len(o)
  <2>5. k \in Nat
    BY <1>2
  <2>6. n + Len(p) <= 1 + k
    BY <1>1, <1>4
  <2>. HIDE DEF k, p, o, next
  <2>7. n + 1 + Len(Tail(p)) <= 1 + k
    <3> DEFINE left == Len(Tail(p))
    <3>. HIDE DEF left
    <3>1. left = Len(p) - 1
      BY <2>4 DEF left
    <3>2. n + 1 + left <= 1 + k
      BY <2>4, <2>5, <2>6, <3>1
    <3>. QED BY <3>2 DEF left
  <2>8. WalkedFor(next, n + 1, h, links, start, visited)
    BY <2>2, <2>3, <2>7 DEF WalkedFor, k
  <2>. QED BY <2>8 DEF next
<1>5. CASE p # <<>> /\ Head(p) \notin visited \cup Range(o)
  <2> DEFINE t == Targets(h, links, Head(p))
             q == t \o Tail(p)
             r == Append(o, Head(p))
  <2>1. next = [pending |-> q, order |-> r]
    BY <1>5 DEF Turn
  <2>. HIDE DEF q, r
  <2>2. next.pending = q /\ next.order = r
    BY <2>1
  <2>3. WalkInv(h, links, start, visited, q, r)
    BY <1>1, <1>5, VisitKeeps DEF q, r
  <2>4. Head(p) \in Live(h) /\ Tail(p) \in Seq(Live(h)) /\ Len(Tail(p)) = Len(p) - 1 /\ Len(p) \in Nat
    BY <1>2, <1>5, HeadAndTail
  <2>5. t \in Seq(Live(h)) /\ Len(t) <= arity /\ Len(t) \in Nat
    BY TargetsAre, LenProperties
  <2>6. Len(q) = Len(t) + Len(Tail(p))
    BY <2>4, <2>5, ConcatProperties DEF q
  <2>7. Len(r) = Len(o) + 1
    BY <1>2, <2>4, AppendProperties DEF r
  <2> DEFINE k == arity * Len(o)
             m == arity * Len(r)
  <2>8. k \in Nat /\ m = k + arity
    <3>1. arity * (Len(o) + 1) = arity * Len(o) + arity
      BY <1>2
    <3>. QED BY <1>2, <2>7, <3>1
  <2>9. n + Len(p) <= 1 + k
    BY <1>1, <1>5
  <2>. HIDE DEF k, m, t, next, p, o
  <2>10. n + 1 + Len(q) <= 1 + m
    <3> DEFINE left == Len(Tail(p))
    <3>. HIDE DEF left
    <3>1. left = Len(p) - 1 /\ Len(q) = Len(t) + left
      BY <2>4, <2>6 DEF left
    <3>. QED BY <1>2, <2>4, <2>5, <2>8, <2>9, <3>1
  <2>11. WalkedFor(next, n + 1, h, links, start, visited)
    BY <2>2, <2>3, <2>10 DEF WalkedFor, m
  <2>. QED BY <2>11 DEF next
<1>. QED BY <1>3, <1>4, <1>5

(* What a walk from start finds.                                           *)
WalkIs(g, h, links, start, visited) ==
    /\ g \in Seq(Live(h)) /\ IsInjective(g) /\ Range(g) \cap visited = {}
    /\ start \in visited \cup Range(g)
    /\ \A a \in Range(g) : Succ(h, links, a) \subseteq visited \cup Range(g)
    /\ \A S \in Closed(h, links) : start \in S => Range(g) \subseteq S
    /\ g # <<>> => g[1] = start /\ start \notin visited
    /\ Single(h, links) =>
         \A i \in 1..Len(g) - 1 : Succ(h, links, g[i]) \subseteq Range(g)

\* No walk runs out of turns: each is spent on a member of a node seen.
LEMMA PreOrderIs ==
    ASSUME ShapeTypeOK, NEW h \in HeapType, NEW links \in SUBSET Member,
           NEW start \in Live(h), NEW visited
    PROVE  WalkIs(PreOrder(h, links, start, visited), h, links, start, visited)
<1>1. PICK walk : /\ PreOrder(h, links, start, visited) = walk[Turns(h)].order
                  /\ Walking(walk, h, links, start, visited)
  BY WalkUnfolds
<1> DEFINE turns == Turns(h)
           Good(n) == WalkedFor(walk[n], n, h, links, start, visited)
           Failing == {n \in 0..turns : ~Good(n)}
<1>2. turns \in Nat
  BY LiveIsFinite, ConstantTypes DEF Turns
<1>3. \A n \in 0..turns :
        walk[n] = IF n = 0 THEN WalkStart(start) ELSE Turn(h, links, visited, walk[n - 1])
  BY <1>1 DEF Walking
<1>. HIDE DEF turns
<1>4. ASSUME Failing # {} PROVE FALSE
  <2>1. PICK n \in Failing : \A k \in Failing : n <= k
    <3>1. Failing \subseteq Nat
      OBVIOUS
    <3>. HIDE DEF Failing
    <3>. QED BY <1>4, <3>1, LeastNatural
  <2>2. n \in 0..turns /\ ~Good(n)
    OBVIOUS
  <2>3. n # 0
    <3>1. Good(0)
      BY <1>2, <1>3, WalkStartIs
    <3>. QED BY <2>2, <3>1
  <2>4. n - 1 \in 0..turns /\ ~(n <= n - 1) /\ n - 1 \in Nat /\ n - 1 + 1 = n
    BY <1>2, <2>2, <2>3
  <2>5. Good(n - 1)
    <3>. HIDE DEF Good
    <3>. QED BY <2>1, <2>4
  <2>6. walk[n] = Turn(h, links, visited, walk[n - 1])
    BY <1>3, <2>2, <2>3
  <2>7. WalkedFor(walk[n], n - 1 + 1, h, links, start, visited)
    BY <2>4, <2>5, <2>6, TurnKeeps
  <2>. QED BY <2>2, <2>4, <2>7
<1>5. Good(turns)
  <2>1. turns \in 0..turns
    BY <1>2
  <2>. HIDE DEF Good
  <2>. QED BY <1>4, <2>1
<1> DEFINE p == walk[turns].pending
           g == walk[turns].order
<1>6. WalkInv(h, links, start, visited, p, g) /\ (p # <<>> => turns + Len(p) <= 1 + arity * Len(g))
  BY <1>5 DEF WalkedFor
<1>. HIDE DEF p, g
<1>7. p = <<>>
  <2>1. g \in Seq(Live(h)) /\ IsInjective(g) /\ p \in Seq(Live(h))
    BY <1>6 DEF WalkInv
  <2> DEFINE C == Cardinality(Live(h))
             L == Len(g)
  <2>2. L <= C /\ L \in Nat /\ C \in Nat /\ arity \in Nat /\ turns = C * arity + 1
    BY <2>1, InjectiveIsShort, LiveIsFinite, LenProperties, ConstantTypes DEF turns, Turns
  <2>. HIDE DEF C, L
  <2>3. arity * L <= C * arity
    <3>1. (C - L) * arity \in Nat
      BY <2>2
    <3>2. (C - L) * arity = C * arity - arity * L
      BY <2>2
    <3>3. C * arity \in Nat /\ arity * L \in Nat
      BY <2>2
    <3>. QED BY <3>1, <3>2, <3>3
  <2> DEFINE k == arity * L
             m == C * arity
  <2>4. k \in Nat /\ m \in Nat /\ k <= m /\ turns = m + 1
    BY <2>2, <2>3
  <2>5. ASSUME p # <<>> PROVE turns + Len(p) <= 1 + k /\ Len(p) \in Nat \ {0}
    BY <1>6, <2>1, <2>5, HeadAndTail DEF L
  <2>. HIDE DEF k, m
  <2>. QED BY <2>4, <2>5
<1>8. Range(p) = {}
  BY <1>7 DEF Range
<1>9. WalkIs(g, h, links, start, visited)
  BY <1>6, <1>8 DEF WalkInv, WalkIs, ChainInv
<1>. QED BY <1>1, <1>9 DEF g, turns

-----------------------------------------------------------------------------
(* Closed sets, and the least ones.                                        *)

\* What a node reaches is the least closed set that has it.
LEMMA ReachableIs ==
    ASSUME NEW h, NEW links, NEW a \in Live(h)
    PROVE  /\ Reachable(h, links, a) \in Closed(h, links) /\ a \in Reachable(h, links, a)
           /\ \A S \in Closed(h, links) : a \in S => Reachable(h, links, a) \subseteq S
<1> DEFINE R == Reachable(h, links, a)
<1>1. R = {b \in Live(h) : \A S \in Closed(h, links) : a \in S => b \in S}
  BY DEF Reachable
<1>. HIDE DEF R
<1>2. R \in SUBSET Live(h) /\ a \in R
  BY <1>1
<1>3. \A S \in Closed(h, links) : a \in S => R \subseteq S
  BY <1>1
<1>4. ASSUME NEW b \in R PROVE Succ(h, links, b) \subseteq R
  <2>1. ASSUME NEW c \in Succ(h, links, b), NEW S \in Closed(h, links), a \in S PROVE c \in S
    <3>1. b \in S
      BY <1>3, <2>1
    <3>2. S \in SUBSET Live(h)
      BY DEF Closed
    <3>. QED BY <3>1, <3>2, ClosedIs
  <2>2. Succ(h, links, b) \subseteq Live(h)
    BY DEF Succ
  <2>. QED BY <1>1, <2>1, <2>2
<1>5. R \in Closed(h, links)
  BY <1>2, <1>4, ClosedIs
<1>. QED BY <1>2, <1>3, <1>5 DEF R

\* What some nodes reach together.
ReachedFrom(h, links, A) == UNION {Reachable(h, links, a) : a \in A}

\* So it is for several nodes.
LEMMA ReachedFromIs ==
    ASSUME NEW h, NEW links, NEW A \in SUBSET Live(h)
    PROVE  /\ ReachedFrom(h, links, A) \in Closed(h, links) /\ A \subseteq ReachedFrom(h, links, A)
           /\ \A S \in Closed(h, links) : A \subseteq S => ReachedFrom(h, links, A) \subseteq S
<1> DEFINE R == ReachedFrom(h, links, A)
<1>1. \A b : b \in R <=> \E a \in A : b \in Reachable(h, links, a)
  BY DEF ReachedFrom
<1>. HIDE DEF R
<1>2. \A a \in A : /\ Reachable(h, links, a) \in SUBSET Live(h)
                   /\ \A b \in Reachable(h, links, a) :
                         Succ(h, links, b) \subseteq Reachable(h, links, a)
  <2> TAKE a \in A
  <2>1. Reachable(h, links, a) \in SUBSET Live(h)
    BY DEF Reachable
  <2>2. Reachable(h, links, a) \in Closed(h, links)
    BY ReachableIs
  <2>. QED BY <2>1, <2>2, ClosedIs
<1>3. R \in SUBSET Live(h)
  BY <1>1, <1>2
<1>4. ASSUME NEW b \in R PROVE Succ(h, links, b) \subseteq R
  BY <1>1, <1>2
<1>5. R \in Closed(h, links)
  BY <1>3, <1>4, ClosedIs
<1>6. A \subseteq R
  BY <1>1, ReachableIs
<1>7. ASSUME NEW S \in Closed(h, links), A \subseteq S PROVE R \subseteq S
  <2>1. \A a \in A : Reachable(h, links, a) \subseteq S
    BY <1>7, ReachableIs
  <2>. QED BY <1>1, <2>1
<1>. QED BY <1>5, <1>6, <1>7 DEF R

\* Nothing links to a head, so nothing else is needed for the rest to be closed.
LEMMA WithoutHead ==
    ASSUME NEW h, NEW links, NEW a \in Live(h), Into(h, links, a) = {}
    PROVE  /\ \A b \in Live(h) : a \notin Succ(h, links, b)
           /\ Live(h) \ {a} \in Closed(h, links)
<1>1. ASSUME NEW b \in Live(h) PROVE a \notin Succ(h, links, b)
  <2>1. \A e \in Edges(h, links) : e.to # a
    BY IntoIs
  <2>. QED BY <2>1, EdgesAre
<1>2. \A b \in Live(h) : Succ(h, links, b) \subseteq Live(h)
  BY DEF Succ
<1>3. \A b \in Live(h) \ {a} : Succ(h, links, b) \subseteq Live(h) \ {a}
  BY <1>1, <1>2
<1>4. Live(h) \ {a} \in SUBSET Live(h)
  OBVIOUS
<1>. QED BY <1>1, <1>3, <1>4, ClosedIs

\* A node that is not one is linked to.
LEMMA NotAHead ==
    ASSUME NEW h, NEW links, NEW a \in Live(h), Into(h, links, a) # {}
    PROVE  \E b \in Live(h) : a \in Succ(h, links, b)
<1>1. PICK e \in Edges(h, links) : e.to = a
  BY IntoIs
<1>2. e.from \in Live(h)
  BY <1>1, EdgesToAre DEF Edges
<1>. QED BY <1>1, <1>2, EdgesAre

-----------------------------------------------------------------------------
(* Groups, one start after the other.                                      *)

Grouping(made, h, links, starts) ==
    \A i \in 0..Len(starts) :
       made[i] = IF i = 0 THEN <<>> ELSE Walked(h, links, made[i - 1], starts[i])

\* A start adds a group or nothing.
LEMMA WalkedType ==
    ASSUME ShapeTypeOK, NEW h \in HeapType, NEW links \in SUBSET Member,
           NEW groups \in Seq(Seq(Live(h))), NEW a \in Live(h)
    PROVE  Walked(h, links, groups, a) \in Seq(Seq(Live(h)))
<1> DEFINE g == PreOrder(h, links, a, InGroups(groups))
<1>1. g \in Seq(Live(h))
  <2>1. WalkIs(g, h, links, a, InGroups(groups))
    BY PreOrderIs
  <2>. HIDE DEF g
  <2>. QED BY <2>1 DEF WalkIs
<1>2. Walked(h, links, groups, a) = IF g = <<>> THEN groups ELSE Append(groups, g)
  BY DEF Walked
<1>. HIDE DEF g
<1>. QED BY <1>1, <1>2

\* The fold of Groups is defined.
LEMMA GroupsUnfold ==
    ASSUME ShapeTypeOK, NEW h \in HeapType, NEW links \in SUBSET Member,
           NEW starts \in Seq(Live(h))
    PROVE  \E made : /\ Groups(h, links, starts) = made[Len(starts)]
                     /\ Grouping(made, h, links, starts)
<1> DEFINE n == Len(starts)
           X == Seq(Seq(Live(h)))
           step == [i \in 1..n |-> [x \in X |-> Walked(h, links, x, starts[i])]]
           Is(f) == f = [t \in SUBSET DOMAIN starts |->
                           IF t = {} THEN <<>>
                           ELSE Walked(h, links, f[t \ {Max(t)}], starts[Max(t)])]
<1>1. n \in Nat /\ DOMAIN starts = 1..n /\ <<>> \in X /\ \A i \in 1..n : starts[i] \in Live(h)
  BY LenProperties
<1>2. \A i \in 1..n : \A x \in X :
         step[i][x] \in X /\ step[i][x] = Walked(h, links, x, starts[i])
  BY <1>1, WalkedType
<1>. HIDE DEF step, n, X
<1>3. PICK fold \in [SUBSET (1..n) -> X] : IsFold(fold, n, <<>>, step)
  BY <1>1, <1>2, FoldExists
<1>4. \A t \in SUBSET (1..n) : t # {} => Max(t) \in 1..n /\ fold[t \ {Max(t)}] \in X
  BY <1>1, MaxOfPart
<1>5. Is(fold)
  <2>1. ASSUME NEW t \in SUBSET (1..n)
        PROVE  fold[t] = IF t = {} THEN <<>>
                         ELSE Walked(h, links, fold[t \ {Max(t)}], starts[Max(t)])
    <3>1. fold[t] = IF t = {} THEN <<>> ELSE step[Max(t)][fold[t \ {Max(t)}]]
      BY <1>3 DEF IsFold
    <3>. QED BY <1>2, <1>4, <3>1
  <2>. QED BY <1>1, <2>1
<1> DEFINE folded == CHOOSE f : Is(f)
<1>6. Groups(h, links, starts) = folded[DOMAIN starts]
  BY DEF Groups, FoldLeft, MapThenFoldSet
<1>. HIDE DEF Is
<1>7. Is(folded)
  BY <1>5
<1>. HIDE DEF folded
<1>8. \A t \in SUBSET (1..n) :
         folded[t] = IF t = {} THEN <<>>
                     ELSE Walked(h, links, folded[t \ {Max(t)}], starts[Max(t)])
  BY <1>1, <1>7 DEF Is
<1> DEFINE made == [i \in 0..n |-> folded[1..i]]
<1>9. ASSUME NEW i \in 0..n
      PROVE  made[i] = IF i = 0 THEN <<>> ELSE Walked(h, links, made[i - 1], starts[i])
  <2>1. CASE i = 0
    <3>1. 1..i = {} /\ {} \in SUBSET (1..n)
      BY <2>1
    <3>2. folded[1..i] = <<>>
      BY <1>8, <3>1
    <3>. QED BY <2>1, <3>2
  <2>2. CASE i # 0
    <3>1. i \in 1..n /\ i - 1 \in 0..n
      BY <1>1, <2>2
    <3>2. Max(1..i) = i /\ (1..i) \ {i} = 1..i - 1 /\ 1..i # {} /\ 1..i \in SUBSET (1..n)
      BY <1>1, <3>1, MaxOfBeginning
    <3>3. folded[1..i] = Walked(h, links, folded[1..i - 1], starts[i])
      BY <1>8, <3>2
    <3>4. made[i] = folded[1..i] /\ made[i - 1] = folded[1..i - 1]
      BY <3>1
    <3>. HIDE DEF made
    <3>. QED BY <2>2, <3>3, <3>4
  <2>. QED BY <2>1, <2>2
<1>10. n \in 0..n /\ made[n] = folded[1..n]
  BY <1>1
<1>. HIDE DEF made
<1>11. Grouping(made, h, links, starts)
  BY <1>9 DEF Grouping, n
<1>. QED BY <1>1, <1>6, <1>10, <1>11 DEF n

\* The nodes in groups are those of some group.
LEMMA InGroupsIs ==
    ASSUME NEW S, NEW G \in Seq(Seq(S))
    PROVE  /\ Len(G) \in Nat /\ \A k \in 1..Len(G) : G[k] \in Seq(S) /\ Range(G[k]) \subseteq S
           /\ \A a : a \in InGroups(G) <=> \E k \in 1..Len(G) : a \in Range(G[k])
           /\ InGroups(G) \subseteq S
<1>1. Len(G) \in Nat /\ DOMAIN G = 1..Len(G) /\ \A k \in 1..Len(G) : G[k] \in Seq(S)
  BY LenProperties
<1>2. ASSUME NEW k \in 1..Len(G) PROVE Range(G[k]) \subseteq S
  <2>1. G[k] \in Seq(S)
    BY <1>1
  <2> DEFINE g == G[k]
  <2>. HIDE DEF g
  <2>2. g \in Seq(S)
    BY <2>1 DEF g
  <2>3. \A i \in DOMAIN g : g[i] \in S
    BY <2>2, LenProperties
  <2>4. Range(g) \subseteq S
    BY <2>3 DEF Range
  <2>. QED BY <2>4 DEF g
<1>3. ASSUME NEW a PROVE a \in InGroups(G) <=> \E k \in 1..Len(G) : a \in Range(G[k])
  <2>1. a \in InGroups(G) <=> \E g \in Range(G) : a \in Range(g)
    BY DEF InGroups
  <2>2. \A g : g \in Range(G) <=> \E k \in 1..Len(G) : g = G[k]
    BY <1>1 DEF Range
  <2>. QED BY <2>1, <2>2
<1>. QED BY <1>1, <1>2, <1>3

\* One more group.
LEMMA InGroupsOfAppend ==
    ASSUME NEW S, NEW G \in Seq(Seq(S)), NEW g \in Seq(S)
    PROVE  InGroups(Append(G, g)) = InGroups(G) \cup Range(g)
<1> DEFINE R == Append(G, g)
<1>1. Range(R) = Range(G) \cup {g}
  BY RangeOfAppend
<1>. HIDE DEF R
<1>2. InGroups(R) = InGroups(G) \cup Range(g)
  BY <1>1 DEF InGroups
<1>. QED BY <1>2 DEF R

(* How g came about: from the j-th start, when the groups before it had    *)
(* just what the starts before it reach.                                   *)
EarlierIn(S, starts, j) == \A m \in 1..j - 1 : starts[m] \in S
GroupFrom(g, h, links, starts, j) ==
    \E U \in Closed(h, links) :
       /\ WalkIs(g, h, links, starts[j], U)
       /\ EarlierIn(U, starts, j)
       /\ \A S \in Closed(h, links) : EarlierIn(S, starts, j) => U \subseteq S

(* The groups that the first i starts make.                                *)
GroupsInv(G, i, h, links, starts) ==
    /\ G \in Seq(Seq(Live(h)))
    /\ \A k \in 1..Len(G) : G[k] # <<>> /\ \E j \in 1..i : GroupFrom(G[k], h, links, starts, j)
    /\ \A k, l \in 1..Len(G) : k # l => Range(G[k]) \cap Range(G[l]) = {}
    /\ InGroups(G) \in Closed(h, links) /\ EarlierIn(InGroups(G), starts, i + 1)
    /\ \A S \in Closed(h, links) : EarlierIn(S, starts, i + 1) => InGroups(G) \subseteq S

\* No group yet.
LEMMA NoGroupYet ==
    ASSUME NEW h, NEW links, NEW starts
    PROVE  GroupsInv(<<>>, 0, h, links, starts)
<1> DEFINE none == <<>>
<1>1. /\ none \in Seq(Seq(Live(h))) /\ Len(none) = 0 /\ 1..0 = {} /\ InGroups(none) = {}
      /\ 0 + 1 = 1 /\ 1 - 1 = 0
  BY DEF InGroups, Range
<1>2. {} \in Closed(h, links)
  BY DEF Closed
<1>. HIDE DEF none
<1>3. GroupsInv(none, 0, h, links, starts)
  BY <1>1, <1>2 DEF GroupsInv, EarlierIn
<1>. QED BY <1>3 DEF none

\* The next start.
LEMMA WalkedKeeps ==
    ASSUME ShapeTypeOK, NEW h \in HeapType, NEW links \in SUBSET Member,
           NEW starts \in Seq(Live(h)), NEW i \in 1..Len(starts), NEW G,
           GroupsInv(G, i - 1, h, links, starts)
    PROVE  GroupsInv(Walked(h, links, G, starts[i]), i, h, links, starts)
<1> DEFINE a == starts[i]
           U == InGroups(G)
           g == PreOrder(h, links, a, U)
           R == IF g = <<>> THEN G ELSE Append(G, g)
<1>1. a \in Live(h) /\ Len(starts) \in Nat /\ i \in Nat /\ i - 1 + 1 = i
  BY LenProperties
<1>2. /\ G \in Seq(Seq(Live(h)))
      /\ \A k \in 1..Len(G) : G[k] # <<>> /\ \E j \in 1..i - 1 : GroupFrom(G[k], h, links, starts, j)
      /\ \A k, l \in 1..Len(G) : k # l => Range(G[k]) \cap Range(G[l]) = {}
      /\ U \in Closed(h, links) /\ EarlierIn(U, starts, i)
      /\ \A S \in Closed(h, links) : EarlierIn(S, starts, i) => U \subseteq S
  BY <1>1 DEF GroupsInv
<1>3. WalkIs(g, h, links, a, U)
  BY <1>1, PreOrderIs
<1>4. Walked(h, links, G, a) = R
  BY DEF Walked
<1>. HIDE DEF g
<1>5. g \in Seq(Live(h)) /\ a \in U \cup Range(g)
  BY <1>3 DEF WalkIs
<1>6. ASSUME NEW k \in 1..Len(G)
      PROVE  G[k] # <<>> /\ \E j \in 1..i : GroupFrom(G[k], h, links, starts, j)
  <2>1. PICK j \in 1..i - 1 : GroupFrom(G[k], h, links, starts, j)
    BY <1>2
  <2>2. j \in 1..i
    BY <1>1
  <2>. QED BY <1>2, <2>1, <2>2
<1>7. GroupFrom(g, h, links, starts, i)
  BY <1>2, <1>3 DEF GroupFrom, a
<1>. HIDE DEF U
<1>8. \A S : EarlierIn(S, starts, i + 1) <=> EarlierIn(S, starts, i) /\ a \in S
  <2>1. \A m : m \in 1..i + 1 - 1 <=> m \in 1..i - 1 \/ m = i
    BY <1>1
  <2>. QED BY <2>1 DEF EarlierIn, a
<1>. HIDE DEF a
<1>9. CASE g = <<>>
  <2>1. R = G /\ a \in U
    <3>1. Range(g) = {}
      BY <1>9 DEF Range
    <3>. QED BY <1>5, <1>9, <3>1
  <2>2. EarlierIn(U, starts, i + 1)
    BY <1>2, <1>8, <2>1
  <2>3. \A S \in Closed(h, links) : EarlierIn(S, starts, i + 1) => U \subseteq S
    BY <1>2, <1>8
  <2>. HIDE DEF R
  <2>4. GroupsInv(R, i, h, links, starts)
    BY <1>2, <1>6, <2>1, <2>2, <2>3 DEF GroupsInv, U
  <2>. QED BY <1>4, <2>4 DEF a
<1>10. CASE g # <<>>
  <2>1. R = Append(G, g)
    BY <1>10
  <2>. HIDE DEF R
  <2>2. g \in Seq(Live(h)) /\ Range(g) \subseteq Live(h)
    <3>1. \A k \in DOMAIN g : g[k] \in Live(h)
      BY <1>5, LenProperties
    <3>. QED BY <1>5, <3>1 DEF Range
  <2>3. /\ R \in Seq(Seq(Live(h))) /\ Len(R) = Len(G) + 1 /\ Len(G) \in Nat
        /\ R[Len(G) + 1] = g /\ \A k \in 1..Len(G) : R[k] = G[k]
    BY <1>2, <2>1, <2>2, AppendProperties, LenProperties
  <2>4. InGroups(R) = U \cup Range(g)
    BY <1>2, <2>1, <2>2, InGroupsOfAppend DEF U
  <2>5. \A k \in 1..Len(R) : k \in 1..Len(G) \/ k = Len(G) + 1
    BY <2>3
  <2>6. \A k \in 1..Len(R) : R[k] # <<>> /\ \E j \in 1..i : GroupFrom(R[k], h, links, starts, j)
    <3>1. i \in 1..i
      BY <1>1
    <3>. QED BY <1>6, <1>7, <1>10, <2>3, <2>5, <3>1
  <2>7. \A k, l \in 1..Len(R) : k # l => Range(R[k]) \cap Range(R[l]) = {}
    <3>1. ASSUME NEW k \in 1..Len(G) PROVE Range(G[k]) \cap Range(g) = {}
      <4>1. Range(G[k]) \subseteq U
        BY <1>2, InGroupsIs DEF U
      <4>2. Range(g) \cap U = {}
        BY <1>3 DEF WalkIs
      <4>. QED BY <4>1, <4>2
    <3>2. ASSUME NEW k \in 1..Len(R), NEW l \in 1..Len(R), k # l
          PROVE  Range(R[k]) \cap Range(R[l]) = {}
      <4>1. CASE k \in 1..Len(G) /\ l \in 1..Len(G)
        <5>1. R[k] = G[k] /\ R[l] = G[l] /\ Range(G[k]) \cap Range(G[l]) = {}
          BY <1>2, <2>3, <3>2, <4>1
        <5>. QED BY <5>1
      <4>2. CASE k \in 1..Len(G) /\ l = Len(G) + 1
        BY <2>3, <3>1, <4>2
      <4>3. CASE k = Len(G) + 1 /\ l \in 1..Len(G)
        <5>1. Range(R[l]) \cap Range(R[k]) = {}
          BY <2>3, <3>1, <4>3
        <5>. QED BY <5>1
      <4>. QED BY <2>5, <3>2, <4>1, <4>2, <4>3
    <3>. QED BY <3>2
  <2>8. U \cup Range(g) \in Closed(h, links)
    <3>1. U \in SUBSET Live(h)
      BY <1>2 DEF Closed
    <3>2. \A b \in U : Succ(h, links, b) \subseteq U
      BY <1>2, <3>1, ClosedIs
    <3>3. \A b \in Range(g) : Succ(h, links, b) \subseteq U \cup Range(g)
      BY <1>3 DEF WalkIs
    <3>4. \A b \in U \cup Range(g) : Succ(h, links, b) \subseteq U \cup Range(g)
      BY <3>2, <3>3
    <3>5. U \cup Range(g) \in SUBSET Live(h)
      BY <2>2, <3>1
    <3>. QED BY <3>4, <3>5, ClosedIs
  <2>9. EarlierIn(U \cup Range(g), starts, i + 1)
    <3>1. EarlierIn(U \cup Range(g), starts, i)
      BY <1>2 DEF EarlierIn
    <3>. QED BY <1>5, <1>8, <3>1
  <2>10. ASSUME NEW S \in Closed(h, links), EarlierIn(S, starts, i + 1)
         PROVE  U \cup Range(g) \subseteq S
    <3>1. U \subseteq S /\ a \in S
      BY <1>2, <1>8, <2>10
    <3>2. Range(g) \subseteq S
      BY <1>3, <3>1 DEF WalkIs
    <3>. QED BY <3>1, <3>2
  <2>11. GroupsInv(R, i, h, links, starts)
    BY <2>3, <2>4, <2>6, <2>7, <2>8, <2>9, <2>10 DEF GroupsInv
  <2>. QED BY <1>4, <2>11 DEF a
<1>. QED BY <1>9, <1>10

\* What the groups of all the starts are.
LEMMA GroupsAre ==
    ASSUME ShapeTypeOK, NEW h \in HeapType, NEW links \in SUBSET Member,
           NEW starts \in Seq(Live(h))
    PROVE  GroupsInv(Groups(h, links, starts), Len(starts), h, links, starts)
<1>1. PICK made : /\ Groups(h, links, starts) = made[Len(starts)]
                  /\ Grouping(made, h, links, starts)
  BY GroupsUnfold
<1> DEFINE Good(i) == GroupsInv(made[i], i, h, links, starts)
           Failing == {i \in 0..Len(starts) : ~Good(i)}
<1>2. Len(starts) \in Nat
  BY LenProperties
<1>3. ASSUME Failing # {} PROVE FALSE
  <2>1. PICK i \in Failing : \A k \in Failing : i <= k
    <3>1. Failing \subseteq Nat
      OBVIOUS
    <3>. HIDE DEF Failing
    <3>. QED BY <1>3, <3>1, LeastNatural
  <2>2. i \in 0..Len(starts) /\ ~Good(i)
    OBVIOUS
  <2>3. i # 0
    <3>1. 0 \in 0..Len(starts)
      BY <1>2
    <3>2. made[0] = <<>>
      BY <1>1, <3>1 DEF Grouping
    <3>3. Good(0)
      BY <3>2, NoGroupYet
    <3>. HIDE DEF Good
    <3>. QED BY <2>2, <3>3
  <2>4. i - 1 \in 0..Len(starts) /\ ~(i <= i - 1) /\ i \in 1..Len(starts)
    BY <1>2, <2>2, <2>3
  <2>5. Good(i - 1)
    <3>. HIDE DEF Good
    <3>. QED BY <2>1, <2>4
  <2>6. made[i] = Walked(h, links, made[i - 1], starts[i])
    BY <1>1, <2>2, <2>3 DEF Grouping
  <2>7. GroupsInv(made[i], i, h, links, starts)
    BY <2>4, <2>5, <2>6, WalkedKeeps
  <2>. QED BY <2>2, <2>7
<1>4. Good(Len(starts))
  <2>1. Len(starts) \in 0..Len(starts)
    BY <1>2
  <2>. HIDE DEF Good
  <2>. QED BY <1>3, <2>1
<1>. QED BY <1>1, <1>4

-----------------------------------------------------------------------------
(* confirmGroup, for trees and tries.                                      *)

\* One edge into a node.
LEMMA OneInto ==
    ASSUME ShapeTypeOK, NEW h \in HeapType, NEW links \in SUBSET Member, NEW a \in Live(h)
    PROVE  Cardinality(Into(h, links, a)) <= 1 <=>
              \A e, f \in Edges(h, links) : e.to = a /\ f.to = a => e = f
<1> DEFINE I == Into(h, links, a)
           f == [e \in I |-> <<e.from, e.member>>]
<1>1. \A e \in I : e \in [from : Live(h), member : links, to : {a}] /\ e.to = a
  BY IntoIs
<1>2. IsFiniteSet(I)
  <2>1. f \in Injection(I, Live(h) \X links)
    <3>1. f \in [I -> Live(h) \X links]
      BY <1>1
    <3>2. ASSUME NEW e \in I, NEW d \in I, f[e] = f[d] PROVE e = d
      <4>1. e.from = d.from /\ e.member = d.member /\ e.to = d.to
        BY <1>1, <3>2
      <4>. QED BY <1>1, <4>1
    <3>. QED BY <3>1, <3>2 DEF Injection, IsInjective
  <2>2. IsFiniteSet(Live(h))
    BY LiveIsFinite
  <2>3. IsFiniteSet(links)
    <3>1. arity \in Int /\ 1 \in Int
      BY ConstantTypes
    <3>2. IsFiniteSet(Member)
      BY <3>1, FS_Interval DEF Member
    <3>. QED BY <3>2, FS_Subset
  <2>4. IsFiniteSet(Live(h) \X links)
    BY <2>2, <2>3, FS_Product
  <2>. HIDE DEF f
  <2>. QED BY <2>1, <2>4, FS_Injection
<1>3. \A e : e \in I <=> e \in Edges(h, links) /\ e.to = a
  BY IntoIs
<1>. HIDE DEF I
<1>4. Cardinality(I) \in Nat
  BY <1>2, FS_CardinalityType
<1>5. ASSUME Cardinality(I) <= 1, NEW e \in I, NEW d \in I PROVE e = d
  <2>1. Cardinality(I) # 0
    BY <1>2, <1>5, FS_EmptySet
  <2>2. Cardinality(I) = 1
    BY <1>4, <1>5, <2>1
  <2>3. PICK c : I = {c}
    BY <1>2, <2>2, FS_Singleton
  <2>. QED BY <1>5, <2>3
<1>6. ASSUME \A e, d \in I : e = d PROVE Cardinality(I) <= 1
  <2>1. CASE I = {}
    BY <1>2, <2>1, FS_EmptySet
  <2>2. CASE I # {}
    <3>1. PICK e : e \in I
      BY <2>2
    <3>2. I = {e}
      BY <1>6, <3>1
    <3>. QED BY <3>2, FS_Singleton
  <2>. QED BY <2>1, <2>2
<1>. QED BY <1>3, <1>5, <1>6 DEF I

\* The cells and the heads, in order.
LEMMA CellsAre ==
    ASSUME ShapeTypeOK, NEW h \in HeapType
    PROVE  Cells(h) \in Seq(Live(h)) /\ Range(Cells(h)) = Live(h)
<1> DEFINE all == [a \in DOMAIN h |-> a]
<1>1. DOMAIN h = 1..Nodes[arity] /\ Nodes[arity] \in Nat
  BY ConstantTypes DEF HeapType, Address
<1>2. Range(all) = 1..Nodes[arity] /\ all \in [1..Nodes[arity] -> 1..Nodes[arity]]
  BY <1>1 DEF Range
<1>3. Live(h) \subseteq 1..Nodes[arity]
  BY <1>1 DEF Live
<1>4. Cells(h) = Keep(all, Live(h))
  BY DEF Cells
<1>. HIDE DEF all
<1>5. all \in Seq(Range(all))
  BY <1>1, <1>2, FunctionIsSequence
<1>6. Keep(all, Live(h)) \in Seq(Range(all) \cap Live(h)) /\ Range(Keep(all, Live(h))) = Range(all) \cap Live(h)
  BY <1>5, KeepIs
<1>7. Range(all) \cap Live(h) = Live(h)
  BY <1>2, <1>3
<1>. QED BY <1>4, <1>6, <1>7

HeadsOf(h, links) == {a \in Live(h) : Into(h, links, a) = {}}

\* Heads has the heads.
LEMMA HeadsAre ==
    ASSUME ShapeTypeOK, NEW h \in HeapType, NEW links
    PROVE  Heads(h, links) \in Seq(HeadsOf(h, links)) /\ Range(Heads(h, links)) = HeadsOf(h, links)
<1>1. Cells(h) \in Seq(Live(h)) /\ Range(Cells(h)) = Live(h)
  BY CellsAre
<1>2. Heads(h, links) = Keep(Cells(h), HeadsOf(h, links))
  BY DEF Heads, HeadsOf
<1>3. HeadsOf(h, links) \subseteq Live(h)
  BY DEF HeadsOf
<1> DEFINE c == Cells(h)
           A == HeadsOf(h, links)
<1>. HIDE DEF c, A
<1>4. Keep(c, A) \in Seq(Range(c) \cap A) /\ Range(Keep(c, A)) = Range(c) \cap A
  BY <1>1, KeepIs DEF c
<1>5. Range(c) \cap A = A
  BY <1>1, <1>3 DEF c, A
<1>. QED BY <1>2, <1>4, <1>5 DEF c, A

\* All the starts are before the one after the last.
LEMMA EarlierThanAll ==
    ASSUME NEW T, NEW starts \in Seq(T), NEW S
    PROVE  EarlierIn(S, starts, Len(starts) + 1) <=> Range(starts) \subseteq S
<1>1. Len(starts) \in Nat /\ DOMAIN starts = 1..Len(starts) /\ Len(starts) + 1 - 1 = Len(starts)
  BY LenProperties
<1>. QED BY <1>1 DEF EarlierIn, Range

\* The groups of some starts are what the starts reach.
LEMMA GroupsReach ==
    ASSUME ShapeTypeOK, NEW h \in HeapType, NEW links \in SUBSET Member,
           NEW starts \in Seq(Live(h))
    PROVE  InGroups(Groups(h, links, starts)) = ReachedFrom(h, links, Range(starts))
<1> DEFINE U == InGroups(Groups(h, links, starts))
           A == Range(starts)
           R == ReachedFrom(h, links, A)
<1>1. GroupsInv(Groups(h, links, starts), Len(starts), h, links, starts)
  BY GroupsAre
<1>2. /\ U \in Closed(h, links) /\ EarlierIn(U, starts, Len(starts) + 1)
      /\ \A S \in Closed(h, links) : EarlierIn(S, starts, Len(starts) + 1) => U \subseteq S
  BY <1>1 DEF GroupsInv
<1>3. A \in SUBSET Live(h)
  BY LenProperties DEF Range
<1>. HIDE DEF U, A
<1>4. A \subseteq U /\ \A S \in Closed(h, links) : A \subseteq S => U \subseteq S
  BY <1>2, EarlierThanAll DEF A
<1>5. R \in Closed(h, links) /\ A \subseteq R /\ \A S \in Closed(h, links) : A \subseteq S => R \subseteq S
  BY <1>3, ReachedFromIs
<1>. HIDE DEF R
<1>6. U = R
  BY <1>2, <1>4, <1>5
<1>. QED BY <1>6 DEF U, R, A

\* A forest has one edge at most into each node, and a head above each.
LEMMA ForestIsExact ==
    ASSUME ShapeTypeOK, NEW h \in HeapType, NEW links \in SUBSET Member
    PROVE  IsForest(h, links) <=>
             /\ \A e, f \in Edges(h, links) : e.to = f.to => e = f
             /\ Live(h) \subseteq UNION {Reachable(h, links, a) : a \in HeadsOf(h, links)}
<1> DEFINE A == HeadsOf(h, links)
           R == ReachedFrom(h, links, A)
<1>1. A \in SUBSET Live(h)
  BY DEF HeadsOf
<1>2. Heads(h, links) \in Seq(Live(h)) /\ Range(Heads(h, links)) = A
  <2>. HIDE DEF A
  <2>1. Heads(h, links) \in Seq(A) /\ Range(Heads(h, links)) = A
    BY HeadsAre DEF A
  <2>. QED BY <1>1, <2>1, SeqMonotonic
<1>3. InGroups(Groups(h, links, Heads(h, links))) = R
  BY <1>2, GroupsReach
<1>4. R \subseteq Live(h)
  BY <1>1, ReachedFromIs DEF Closed
<1>5. R = UNION {Reachable(h, links, a) : a \in HeadsOf(h, links)}
  BY DEF ReachedFrom
<1>. HIDE DEF R, A
<1>6. (\A a \in Live(h) : Cardinality(Into(h, links, a)) <= 1) <=>
         \A e, f \in Edges(h, links) : e.to = f.to => e = f
  <2>1. \A e \in Edges(h, links) : e.to \in Live(h)
    BY EdgesToAre DEF Edges
  <2>2. \A a \in Live(h) : Cardinality(Into(h, links, a)) <= 1 <=>
              \A e, f \in Edges(h, links) : e.to = a /\ f.to = a => e = f
    BY OneInto
  <2>. QED BY <2>1, <2>2
<1>. QED BY <1>3, <1>4, <1>5, <1>6 DEF IsForest

-----------------------------------------------------------------------------
(* confirmGroup, for lists.                                                *)

HeadsFirst(starts, A) ==
    \E n \in 0..Len(starts) :
       /\ \A i \in 1..n : starts[i] \in A
       /\ \A a \in A : \E i \in 1..n : starts[i] = a

\* A group may start at each node; the heads are tried before the others.
LEMMA StartsAre ==
    ASSUME ShapeTypeOK, NEW h \in HeapType, NEW links, NEW fingers
    PROVE  /\ Starts(h, links, fingers) \in Seq(Live(h))
           /\ Range(Starts(h, links, fingers)) = Live(h)
           /\ HeadsFirst(Starts(h, links, fingers), HeadsOf(h, links))
<1> DEFINE A == HeadsOf(h, links)
           b == Heads(h, links)
           t == Keep(b, fingers)
           H == t \o b
           c == Cells(h)
           s == H \o c
<1>1. b \in Seq(A) /\ Range(b) = A /\ A \subseteq Live(h)
  BY HeadsAre DEF HeadsOf
<1>2. c \in Seq(Live(h)) /\ Range(c) = Live(h)
  BY CellsAre
<1>. HIDE DEF A, b, c
<1>3. t \in Seq(A) /\ Range(t) \subseteq A
  <2>1. t \in Seq(A \cap fingers) /\ Range(t) = A \cap fingers
    BY <1>1, KeepIs
  <2>. HIDE DEF t
  <2>. QED BY <2>1, SeqMonotonic
<1>. HIDE DEF t
<1>4. H \in Seq(A) /\ Range(H) = A
  <2>1. Range(H) = Range(t) \cup Range(b)
    BY <1>1, <1>3, RangeOfConcat
  <2>. QED BY <1>1, <1>3, <2>1, ConcatProperties
<1>. HIDE DEF H
<1>5. H \in Seq(Live(h))
  BY <1>1, <1>4, SeqMonotonic
<1>6. /\ s \in Seq(Live(h)) /\ Len(s) = Len(H) + Len(c)
      /\ \A i \in 1..Len(H) + Len(c) : s[i] = IF i <= Len(H) THEN H[i] ELSE c[i - Len(H)]
      /\ Range(s) = Live(h)
  <2>1. Range(s) = Range(H) \cup Range(c)
    BY <1>2, <1>5, RangeOfConcat
  <2>. QED BY <1>1, <1>2, <1>4, <1>5, <2>1, ConcatProperties
<1>7. Len(H) \in Nat /\ Len(c) \in Nat /\ DOMAIN H = 1..Len(H) /\ \A i \in 1..Len(H) : H[i] \in A
  BY <1>2, <1>4, LenProperties
<1>8. s = Starts(h, links, fingers)
  BY DEF Starts, H, t, b, c
<1>. HIDE DEF s
<1>9. \A i \in 1..Len(H) : s[i] = H[i]
  <2>1. \A i \in 1..Len(H) : i \in 1..Len(H) + Len(c) /\ i <= Len(H)
    BY <1>7
  <2>. QED BY <1>6, <2>1
<1>10. ASSUME NEW a \in A PROVE \E i \in 1..Len(H) : s[i] = a
  <2>1. a \in Range(H)
    BY <1>4
  <2>2. PICK i \in 1..Len(H) : H[i] = a
    BY <1>7, <2>1 DEF Range
  <2>. QED BY <1>9, <2>2
<1>11. Len(H) \in 0..Len(s)
  BY <1>6, <1>7
<1>12. \A i \in 1..Len(H) : s[i] \in A
  BY <1>7, <1>9
<1>13. HeadsFirst(s, A)
  BY <1>10, <1>11, <1>12 DEF HeadsFirst
<1>. QED BY <1>6, <1>8, <1>13 DEF A

(* Every group of a list ends within itself.                               *)
EndsWithin(G, h, links) ==
    \A k \in 1..Len(G) : Succ(h, links, G[k][Len(G[k])]) \subseteq Range(G[k])

\* Then each is closed, and chains that meet are one.
LEMMA ApartIfEndsWithin ==
    ASSUME ShapeTypeOK, NEW h \in HeapType, NEW links \in SUBSET Member, Single(h, links),
           NEW starts \in Seq(Live(h)), Range(starts) = Live(h),
           EndsWithin(Groups(h, links, starts), h, links),
           NEW a \in HeadsOf(h, links), NEW b \in HeadsOf(h, links), a # b
    PROVE  Reachable(h, links, a) \cap Reachable(h, links, b) = {}
<1> DEFINE G == Groups(h, links, starts)
<1>1. GroupsInv(G, Len(starts), h, links, starts)
  BY GroupsAre
<1>2. EndsWithin(G, h, links)
  OBVIOUS
<1>. HIDE DEF G
<1>3. /\ G \in Seq(Seq(Live(h)))
      /\ \A k \in 1..Len(G) : G[k] # <<>> /\ \E j \in 1..Len(starts) : GroupFrom(G[k], h, links, starts, j)
      /\ \A k, l \in 1..Len(G) : k # l => Range(G[k]) \cap Range(G[l]) = {}
      /\ EarlierIn(InGroups(G), starts, Len(starts) + 1)
  BY <1>1 DEF GroupsInv
<1>4. Live(h) \subseteq InGroups(G)
  BY <1>3, EarlierThanAll
<1>5. ASSUME NEW k \in 1..Len(G) PROVE Range(G[k]) \in Closed(h, links)
  <2> DEFINE g == G[k]
  <2>1. PICK j \in 1..Len(starts) : GroupFrom(g, h, links, starts, j)
    BY <1>3
  <2>2. g \in Seq(Live(h)) /\ Succ(h, links, g[Len(g)]) \subseteq Range(g)
    BY <1>2, <1>3, InGroupsIs DEF EndsWithin
  <2>. HIDE DEF g
  <2>3. \A i \in 1..Len(g) - 1 : Succ(h, links, g[i]) \subseteq Range(g)
    BY <2>1 DEF GroupFrom, WalkIs
  <2>4. Len(g) \in Nat /\ DOMAIN g = 1..Len(g)
    BY <2>2, LenProperties
  <2>5. \A i \in 1..Len(g) : i \in 1..Len(g) - 1 \/ i = Len(g)
    <3> DEFINE n == Len(g)
    <3>1. n \in Nat
      BY <2>4
    <3>. HIDE DEF n
    <3>2. \A i \in 1..n : i \in 1..n - 1 \/ i = n
      BY <3>1
    <3>. QED BY <3>2 DEF n
  <2>6. \A i \in 1..Len(g) : Succ(h, links, g[i]) \subseteq Range(g)
    BY <2>2, <2>3, <2>5
  <2>7. \A c \in Range(g) : Succ(h, links, c) \subseteq Range(g)
    BY <2>4, <2>6 DEF Range
  <2>8. Range(g) \in SUBSET Live(h)
    BY <2>2, LenProperties DEF Range
  <2>9. Range(g) \in Closed(h, links)
    BY <2>7, <2>8, ClosedIs
  <2>. QED BY <2>9 DEF g
<1>6. a \in Live(h) /\ Into(h, links, a) = {} /\ b \in Live(h) /\ Into(h, links, b) = {}
  BY DEF HeadsOf
<1>7. PICK k \in 1..Len(G) : a \in Range(G[k])
  BY <1>3, <1>4, <1>6, InGroupsIs
<1>8. PICK l \in 1..Len(G) : b \in Range(G[l])
  BY <1>3, <1>4, <1>6, InGroupsIs
<1>9. Reachable(h, links, a) \subseteq Range(G[k])
  BY <1>5, <1>6, <1>7, ReachableIs
<1>10. Reachable(h, links, b) \subseteq Range(G[l])
  BY <1>5, <1>6, <1>8, ReachableIs
<1>11. k # l
  <2>1. PICK j \in 1..Len(starts) : GroupFrom(G[k], h, links, starts, j)
    BY <1>3
  <2>2. \A S \in Closed(h, links) : starts[j] \in S => Range(G[k]) \subseteq S
    BY <2>1 DEF GroupFrom, WalkIs
  <2>3. starts[j] \in Live(h)
    BY LenProperties
  <2>4. Live(h) \ {a} \in Closed(h, links) /\ Live(h) \ {b} \in Closed(h, links)
    BY <1>6, WithoutHead
  <2>5. starts[j] = a
    BY <1>7, <2>2, <2>3, <2>4
  <2>6. starts[j] # b
    BY <2>5
  <2>7. b \notin Range(G[k])
    BY <2>2, <2>3, <2>4, <2>6
  <2>. QED BY <1>8, <2>7
<1>12. Range(G[k]) \cap Range(G[l]) = {}
  BY <1>3, <1>11
<1>. QED BY <1>9, <1>10, <1>12

\* Of the nodes that no head reaches each is linked to by one of them only.
LEMMA CyclesAreApart ==
    ASSUME ShapeTypeOK, NEW h \in HeapType, NEW links \in SUBSET Member, Single(h, links),
           NEW U \in Closed(h, links), HeadsOf(h, links) \subseteq U,
           NEW x \in Live(h) \ U
    PROVE  Succ(h, links, x) \cap U = {}
<1> DEFINE D == Live(h) \ U
           from == [a \in D |-> CHOOSE b \in D : a \in Succ(h, links, b)]
<1>1. \A b \in U : Succ(h, links, b) \subseteq U
  BY ClosedIs DEF Closed
<1>2. ASSUME NEW a \in D PROVE \E b \in D : a \in Succ(h, links, b)
  <2>1. Into(h, links, a) # {}
    BY DEF HeadsOf
  <2>2. PICK b \in Live(h) : a \in Succ(h, links, b)
    BY <2>1, NotAHead
  <2>. QED BY <1>1, <2>2
<1>3. \A a \in D : from[a] \in D /\ a \in Succ(h, links, from[a])
  BY <1>2
<1>4. from \in [D -> D]
  BY <1>2
<1>5. D \subseteq Live(h) /\ IsFiniteSet(D)
  BY LiveIsFinite, FS_Subset
<1>. HIDE DEF from, D
<1>6. from \in Injection(D, D)
  <2>1. ASSUME NEW a \in D, NEW b \in D, from[a] = from[b] PROVE a = b
    <3>1. a \in Succ(h, links, from[a]) /\ b \in Succ(h, links, from[a]) /\ from[a] \in Live(h)
      BY <1>3, <1>5, <2>1
    <3>. QED BY <3>1 DEF Single
  <2>2. DOMAIN from = D
    BY <1>4
  <2>. QED BY <1>4, <2>1, <2>2 DEF Injection, IsInjective
<1>7. from \in Surjection(D, D)
  BY <1>5, <1>6, FS_Injection
<1>8. x \in D
  BY DEF D
<1>9. PICK a \in D : from[a] = x
  BY <1>7, <1>8 DEF Surjection
<1>10. a \in Succ(h, links, x) /\ a \notin U
  BY <1>3, <1>9 DEF D
<1>11. \A b \in Succ(h, links, x) : b = a
  BY <1>10 DEF Single
<1>. QED BY <1>10, <1>11

\* Chains that never meet: each group ends within itself, a cycle as well.
LEMMA EndsWithinIfApart ==
    ASSUME ShapeTypeOK, NEW h \in HeapType, NEW links \in SUBSET Member, Single(h, links),
           \A a, b \in HeadsOf(h, links) :
              a # b => Reachable(h, links, a) \cap Reachable(h, links, b) = {}
    PROVE  EndsWithin(Groups(h, links, Starts(h, links, {})), h, links)
<1> DEFINE starts == Starts(h, links, {})
           G == Groups(h, links, starts)
           A == HeadsOf(h, links)
<1>1. starts \in Seq(Live(h))
  BY StartsAre
<1>2. PICK n \in 0..Len(starts) :
         /\ \A i \in 1..n : starts[i] \in A
         /\ \A a \in A : \E i \in 1..n : starts[i] = a
  <2>1. HeadsFirst(starts, A)
    BY StartsAre
  <2>. HIDE DEF starts, A
  <2>. QED BY <2>1 DEF HeadsFirst
<1>. HIDE DEF starts
<1>3. GroupsInv(G, Len(starts), h, links, starts)
  BY <1>1, GroupsAre
<1>. HIDE DEF G
<1>4. ASSUME NEW k \in 1..Len(G)
      PROVE  Succ(h, links, G[k][Len(G[k])]) \subseteq Range(G[k])
  <2> DEFINE g == G[k]
             x == g[Len(g)]
  <2>1. g \in Seq(Live(h)) /\ g # <<>>
    BY <1>3, InGroupsIs DEF GroupsInv
  <2>2. PICK j \in 1..Len(starts) : GroupFrom(g, h, links, starts, j)
    BY <1>3 DEF GroupsInv
  <2>. HIDE DEF g
  <2>3. PICK U \in Closed(h, links) :
          /\ WalkIs(g, h, links, starts[j], U)
          /\ EarlierIn(U, starts, j)
          /\ \A S \in Closed(h, links) : EarlierIn(S, starts, j) => U \subseteq S
    BY <2>2 DEF GroupFrom
  <2>4. x \in Range(g) /\ x \in Live(h)
    <3>1. Len(g) \in 1..Len(g) /\ DOMAIN g = 1..Len(g) /\ \A i \in 1..Len(g) : g[i] \in Live(h)
      BY <2>1, EmptySeq, LenProperties
    <3>. QED BY <3>1 DEF Range
  <2>. HIDE DEF x
  <2>5. /\ Range(g) \cap U = {} /\ Succ(h, links, x) \subseteq U \cup Range(g)
        /\ \A S \in Closed(h, links) : starts[j] \in S => Range(g) \subseteq S
        /\ starts[j] \notin U
    BY <2>1, <2>3, <2>4 DEF WalkIs
  <2>6. Succ(h, links, x) \cap U = {}
    <3>1. CASE j \in 1..n
      <4> DEFINE s == starts[j]
                 B == A \ {s}
                 R == ReachedFrom(h, links, B)
      <4>1. s \in A /\ s \in Live(h) /\ B \in SUBSET Live(h)
        BY <1>2, <3>1 DEF HeadsOf
      <4>2. \A m \in 1..j - 1 : starts[m] \in B
        <5>1. \A m \in 1..j - 1 : m \in 1..n
          BY <3>1
        <5>2. \A m \in 1..j - 1 : starts[m] \in U
          BY <2>3 DEF EarlierIn
        <5>. QED BY <1>2, <2>5, <5>1, <5>2
      <4>. HIDE DEF B, s
      <4>3. R \in Closed(h, links) /\ B \subseteq R
        BY <4>1, ReachedFromIs
      <4>4. U \subseteq R
        BY <2>3, <4>2, <4>3 DEF EarlierIn
      <4>5. Succ(h, links, x) \subseteq Reachable(h, links, s)
        <5>1. Reachable(h, links, s) \in Closed(h, links) /\ s \in Reachable(h, links, s)
          BY <4>1, ReachableIs
        <5>2. x \in Reachable(h, links, s)
          BY <2>4, <2>5, <5>1 DEF s
        <5>3. Reachable(h, links, s) \in SUBSET Live(h)
          BY DEF Reachable
        <5>. QED BY <5>1, <5>2, <5>3, ClosedIs
      <4>6. R \cap Reachable(h, links, s) = {}
        <5>1. \A a \in B : Reachable(h, links, a) \cap Reachable(h, links, s) = {}
          BY <4>1 DEF B
        <5>. QED BY <5>1 DEF ReachedFrom
      <4>. QED BY <4>4, <4>5, <4>6
    <3>2. CASE j \notin 1..n
      <4>1. \A i \in 1..n : i \in 1..j - 1
        BY <1>1, <3>2
      <4>2. A \subseteq U
        BY <1>2, <2>3, <4>1 DEF EarlierIn
      <4>3. x \in Live(h) \ U
        BY <2>4, <2>5
      <4>. QED BY <4>2, <4>3, CyclesAreApart
    <3>. QED BY <3>1, <3>2
  <2>7. Succ(h, links, x) \subseteq Range(g)
    BY <2>5, <2>6
  <2>. QED BY <2>7 DEF g, x
<1>5. EndsWithin(G, h, links)
  BY <1>4 DEF EndsWithin
<1>. QED BY <1>5 DEF G, starts

\* With one linking member no node has two successors.
LEMMA ListIsSingle ==
    ASSUME ShapeTypeOK, NEW h, NEW links \in SUBSET Member, Kind(links) = "list"
    PROVE  Single(h, links)
<1>1. Cardinality(links) = 1
  BY DEF Kind
<1>2. IsFiniteSet(links)
  <2>1. arity \in Int /\ 1 \in Int
    BY ConstantTypes
  <2>2. IsFiniteSet(Member)
    BY <2>1, FS_Interval DEF Member
  <2>. QED BY <2>2, FS_Subset
<1>3. PICK m : links = {m}
  BY <1>1, <1>2, FS_Singleton
<1>. QED BY <1>3 DEF Single, Succ

\* confirmGroup looks at the last node of each group.
LEMMA ConfirmedListIs ==
    ASSUME ShapeTypeOK, NEW h \in HeapType, NEW links \in SUBSET Member, Kind(links) = "list"
    PROVE  ConfirmGroup(h, links) <=> EndsWithin(Groups(h, links, Starts(h, links, {})), h, links)
<1> DEFINE G == Groups(h, links, Starts(h, links, {}))
<1>1. ConfirmGroup(h, links) <=>
        \A g \in Range(G) : Range(Targets(h, links, g[Len(g)])) \subseteq Range(g)
  BY DEF ConfirmGroup
<1>2. G \in Seq(Seq(Live(h)))
  BY StartsAre, GroupsAre DEF GroupsInv
<1>. HIDE DEF G
<1>3. \A g : g \in Range(G) <=> \E k \in 1..Len(G) : g = G[k]
  BY <1>2, LenProperties DEF Range
<1>4. \A k \in 1..Len(G) :
         Range(Targets(h, links, G[k][Len(G[k])])) = Succ(h, links, G[k][Len(G[k])])
  BY TargetsAre
<1>5. ConfirmGroup(h, links) <=>
         \A k \in 1..Len(G) : Range(Targets(h, links, G[k][Len(G[k])])) \subseteq Range(G[k])
  <2>. HIDE DEF ConfirmGroup
  <2>. QED BY <1>1, <1>3, Zenon
<1>6. ConfirmGroup(h, links) <=> EndsWithin(G, h, links)
  BY <1>4, <1>5 DEF EndsWithin
<1>. QED BY <1>6 DEF G

\* The check finds out whether the nodes make a structure.
LEMMA ConfirmIsExact ==
    ASSUME ShapeTypeOK, NEW h \in HeapType, NEW links \in SUBSET Member
    PROVE  ConfirmGroup(h, links) <=> IsStructure(h, links)
<1>1. CASE Kind(links) = "list"
  <2> DEFINE starts == Starts(h, links, {})
             Apart == \A a, b \in HeadsOf(h, links) :
                        a # b => Reachable(h, links, a) \cap Reachable(h, links, b) = {}
  <2>1. IsStructure(h, links) <=> Apart
    BY <1>1 DEF IsStructure, HeadsOf
  <2>2. starts \in Seq(Live(h)) /\ Range(starts) = Live(h)
    BY StartsAre
  <2>3. Single(h, links)
    BY <1>1, ListIsSingle
  <2>4. ConfirmGroup(h, links) <=> EndsWithin(Groups(h, links, starts), h, links)
    BY <1>1, ConfirmedListIs
  <2>5. ASSUME Apart PROVE EndsWithin(Groups(h, links, starts), h, links)
    BY <2>3, <2>5, EndsWithinIfApart
  <2>. HIDE DEF starts
  <2>6. ASSUME EndsWithin(Groups(h, links, starts), h, links) PROVE Apart
    BY <2>2, <2>3, <2>6, ApartIfEndsWithin
  <2>. HIDE DEF Apart
  <2>. QED BY <2>1, <2>4, <2>5, <2>6
<1>2. CASE Kind(links) # "list"
  <2>1. ConfirmGroup(h, links) <=> IsForest(h, links)
    BY <1>2 DEF ConfirmGroup
  <2>2. IsStructure(h, links) <=>
             /\ \A e, f \in Edges(h, links) : e.to = f.to => e = f
             /\ Live(h) \subseteq UNION {Reachable(h, links, a) : a \in HeadsOf(h, links)}
    BY <1>2 DEF IsStructure, HeadsOf
  <2>. QED BY <2>1, <2>2, ForestIsExact
<1>. QED BY <1>1, <1>2

\* So it does of the heap at hand.
LEMMA CleanIsExact ==
    ASSUME ShapeTypeOK
    PROVE  ConfirmedIsClean
<1>1. heap \in HeapType
  BY DEF ShapeTypeOK, HeapType
<1>2. ASSUME NEW N \in SUBSET Member PROVE Links(heap, N) \in SUBSET Member
  BY DEF Links, SelfPointerMemberNames
<1>3. ASSUME NEW N \in SUBSET Member
      PROVE  ConfirmGroup(heap, Links(heap, N)) <=> IsStructure(heap, Links(heap, N))
  BY <1>1, <1>2, ConfirmIsExact
<1>. QED BY <1>3 DEF ConfirmedIsClean, IsClean

(* Whatever the program links, confirmGroup takes the nodes of a point for *)
(* a structure exactly when they make one: chains that do not meet, though *)
(* they may loop, or a forest (shapes.ts:376-421).                         *)
THEOREM ConfirmationIsExact == ShapeSpec => []ConfirmedIsClean
<1>1. ShapeSpec => [](ShapeTypeOK /\ TrailInv)
  BY ShapeInductive
<1>2. ShapeTypeOK /\ TrailInv => ConfirmedIsClean
  BY CleanIsExact
<1>. QED BY <1>1, <1>2, PTL

-----------------------------------------------------------------------------
(* What is drawn.                                                          *)

\* Groups that share nothing, laid one after the other.
LEMMA FlattenIs ==
    ASSUME NEW S, NEW G \in Seq(Seq(S)), \A k \in 1..Len(G) : IsInjective(G[k]),
           \A k, l \in 1..Len(G) : k # l => Range(G[k]) \cap Range(G[l]) = {}
    PROVE  /\ FlattenSeq(G) \in Seq(S) /\ IsInjective(FlattenSeq(G))
           /\ Range(FlattenSeq(G)) = InGroups(G)
<1>1. AreApart(G)
  BY DEF AreApart
<1>2. \A a : a \in InGroups(G) <=> \E k \in 1..Len(G) : a \in Range(G[k])
  BY InGroupsIs
<1>3. /\ FlattenSeq(G) \in Seq(S) /\ IsInjective(FlattenSeq(G))
      /\ Range(FlattenSeq(G)) = UNION {Range(G[k]) : k \in 1..Len(G)}
  BY <1>1, FlattenHas
<1>4. \A a : a \in Range(FlattenSeq(G)) <=> a \in InGroups(G)
  BY <1>2, <1>3
<1>. QED BY <1>3, <1>4

\* The groups of the shape drawn.
LEMMA OnceIs ==
    ASSUME ShapeTypeOK
    PROVE  GroupedOnce
<1> DEFINE starts == Starts(heap, TheLinks, FingerTargets)
           G == ShapeGroups
<1>1. heap \in HeapType /\ TheLinks \in SUBSET Member
  BY DEF ShapeTypeOK, HeapType, TheLinks, Links, SelfPointerMemberNames
<1>2. starts \in Seq(Live(heap)) /\ Range(starts) = Live(heap)
  BY <1>1, StartsAre
<1>3. G = Groups(heap, TheLinks, starts)
  BY DEF ShapeGroups
<1>. HIDE DEF starts, G
<1>4. GroupsInv(G, Len(starts), heap, TheLinks, starts)
  BY <1>1, <1>2, <1>3, GroupsAre
<1>5. /\ G \in Seq(Seq(Live(heap)))
      /\ \A k \in 1..Len(G) : \E j \in 1..Len(starts) : GroupFrom(G[k], heap, TheLinks, starts, j)
      /\ \A k, l \in 1..Len(G) : k # l => Range(G[k]) \cap Range(G[l]) = {}
      /\ EarlierIn(InGroups(G), starts, Len(starts) + 1)
  BY <1>4 DEF GroupsInv
<1>6. InGroups(G) = Live(heap)
  <2>1. Range(starts) \subseteq InGroups(G)
    BY <1>2, <1>5, EarlierThanAll
  <2>2. InGroups(G) \subseteq Live(heap)
    BY <1>5, InGroupsIs
  <2>. HIDE DEF starts
  <2>. QED BY <1>2, <2>1, <2>2
<1>7. \A k \in 1..Len(G) : IsInjective(G[k])
  BY <1>5 DEF GroupFrom, WalkIs
<1> DEFINE flat == FlattenSeq(G)
<1>8. flat \in Seq(Live(heap)) /\ IsInjective(flat) /\ Range(flat) = Live(heap)
  BY <1>5, <1>6, <1>7, FlattenIs
<1>. HIDE DEF flat
<1>9. Len(flat) = Cardinality(Live(heap))
  <2>1. Len(flat) = Cardinality(Range(flat))
    BY <1>8, LengthOfInjective
  <2>. QED BY <1>8, <2>1
<1>10. IsPartition(flat)
  BY <1>8, <1>9 DEF IsPartition
<1>11. IsPartition(FlattenSeq(ShapeGroups))
  BY <1>10 DEF flat, G
<1>. QED BY <1>11 DEF GroupedOnce

(* Whatever is linked to what, and whatever locals point to, the groups of *)
(* buildTreeModel take each live node once, as they must when the raw heap *)
(* gives up all of them (shapes.ts:302, 330-368).                          *)
THEOREM NodesAreGroupedOnce == ShapeSpec => []GroupedOnce
<1>1. ShapeSpec => [](ShapeTypeOK /\ TrailInv)
  BY ShapeInductive
<1>2. ShapeTypeOK /\ TrailInv => GroupedOnce
  BY OnceIs
<1>. QED BY <1>1, <1>2, PTL

=============================================================================
