---------------------------- MODULE CallTreeProofs ----------------------------
(***************************************************************************)
(* The call tree is the tree of the calls that the program made, for any   *)
(* functions, addresses and length of the trace.                           *)
(***************************************************************************)
EXTENDS CallTree, TLAPS, SequenceTheorems, FiniteSetTheorems, CommonLemmas

-----------------------------------------------------------------------------
(* One step of buildCallTree.                                              *)

\* The frames matched are the longest prefix of frames that are the same.
LEMMA MatchedIs ==
    ASSUME NEW t, NEW fs, NEW step, Len(fs) \in Nat, Len(t.live) \in Nat,
           NEW k \in 0..Len(fs), k <= Len(t.live),
           \A i \in 1..k : SameFrame(t, fs, i, step),
           \/ k = Len(fs) \/ k = Len(t.live)
           \/ ~SameFrame(t, fs, k + 1, step)
    PROVE  Matched(t, fs, step) = k
<1> DEFINE S == {j \in 0..Len(fs) : j <= Len(t.live) /\ \A i \in 1..j : SameFrame(t, fs, i, step)}
<1>1. k \in S /\ S \subseteq Nat
  OBVIOUS
<1>2. ASSUME NEW j \in S PROVE j <= k
  <2>1. j \in 0..Len(fs) /\ j <= Len(t.live) /\ \A i \in 1..j : SameFrame(t, fs, i, step)
    OBVIOUS
  <2>2. CASE j > k
    <3>1. k + 1 \in 1..j
      BY <2>1, <2>2
    <3>2. SameFrame(t, fs, k + 1, step)
      BY <2>1, <3>1
    <3>. QED BY <2>1, <2>2, <3>2
  <2>. QED BY <2>1, <2>2
<1>. HIDE DEF S
<1>3. \A j \in S : (\A i \in S : j >= i) => j = k
  <2> SUFFICES ASSUME NEW j \in S, \A i \in S : j >= i PROVE j = k
    OBVIOUS
  <2>1. j >= k /\ j <= k
    BY <1>1, <1>2
  <2>. QED BY <1>1, <2>1
<1>4. \A i \in S : k >= i
  BY <1>1, <1>2
<1>5. Max(S) = k
  BY <1>1, <1>3, <1>4 DEF Max
<1>. QED BY <1>5 DEF Matched, S

(* The tree u that a point makes of t, having matched m of its frames and  *)
(* kept k: the other live nodes are closed, a frame more makes a node more. *)
Fed(t, point, step, m, k, u) ==
    LET fs == point.frames
        N == Len(t.nodes)
        top == IF Len(fs) = k THEN t.live[k].node ELSE N + 1
        Closed(n) == \E i \in k + 1..Len(t.live) : t.live[i].node = n
        shown == point.event # "return" /\ ~(k = Len(fs) /\ k > m)
    IN  /\ u \in Tree /\ u.prev = point.event
        /\ Len(u.live) = Len(fs)
        /\ \A j \in 1..Len(fs) :
              u.live[j] = IF j <= k /\ j > m THEN t.live[j]
                          ELSE [node |-> IF j <= k THEN t.live[j].node ELSE N + 1,
                                hash |-> FrameHash(fs[j]), addr |-> fs[j].addr]
        /\ Len(u.nodes) = N + (Len(fs) - k)
        /\ \A n \in 1..N :
              /\ u.nodes[n].func = t.nodes[n].func
              /\ u.nodes[n].parent = t.nodes[n].parent
              /\ u.nodes[n].enter = t.nodes[n].enter
              /\ u.nodes[n].exit = IF Closed(n) THEN step - 1 ELSE t.nodes[n].exit
              /\ u.nodes[n].ret = IF point.event = "return" /\ n = top THEN Last(fs).ret
                                  ELSE t.nodes[n].ret
              /\ u.nodes[n].label = IF shown /\ n = top THEN Last(fs).arg ELSE t.nodes[n].label
        /\ Len(fs) = k + 1 =>
              /\ u.nodes[N + 1].func = fs[k + 1].func
              /\ u.nodes[N + 1].label = Last(fs).arg
              /\ u.nodes[N + 1].parent = IF k = 0 THEN None ELSE t.live[k].node
              /\ u.nodes[N + 1].enter = step /\ u.nodes[N + 1].exit = None
              /\ point.event # "return" => u.nodes[N + 1].ret = None
        /\ u.hasRecursion <=>
              t.hasRecursion \/ (Len(fs) = k + 1 /\
                 \E i \in 1..k : t.nodes[t.live[i].node].func = fs[k + 1].func)

\* Where each frame but the last is kept, buildCallTree does to the tree what Fed says.
LEMMA FeedProperties ==
    ASSUME NEW t \in Tree, NEW point \in Point, NEW step \in Nat \ {0},
           point.frames # <<>>,
           NEW m, m = Matched(t, point.frames, step), m \in Nat,
           NEW k, k = Kept(t, point, step), k \in Nat,
           k <= Len(t.live), Len(point.frames) = k \/ Len(point.frames) = k + 1,
           \A i \in 1..Len(t.live) : t.live[i].node \in DOMAIN t.nodes,
           \A i, j \in 1..Len(t.live) : t.live[i].node = t.live[j].node => i = j
    PROVE  Fed(t, point, step, m, k, Feed(t, point, step))
<1> DEFINE fs == point.frames
           N == Len(t.nodes)
           glitch == k = Len(fs) /\ k > m
           new == Len(fs) - k
           ID(j) == IF j = 0 THEN None ELSE IF j <= k THEN t.live[j].node
                    ELSE Len(t.nodes) + j - k
           At(n) == {i \in DOMAIN t.live : t.live[i].node = n}
           settled == [n \in DOMAIN t.nodes |->
             LET at == {i \in DOMAIN t.live : t.live[i].node = n}
                 i == CHOOSE i \in at : TRUE
             IN  IF at = {} THEN t.nodes[n]
                 ELSE IF i > k THEN [t.nodes[n] EXCEPT !.exit = step - 1]
                 ELSE IF i > m THEN t.nodes[n]
                 ELSE [t.nodes[n] EXCEPT !.addr = fs[i].addr]]
           added == [j \in 1..new |-> Node(fs[k + j], step, ID(k + j - 1))]
           pushed == settled \o added
           live == [j \in 1..Len(fs) |->
             IF j <= k /\ j > m THEN t.live[j]
             ELSE [node |-> ID(j), hash |-> FrameHash(fs[j]), addr |-> fs[j].addr]]
           top == ID(Len(fs))
           nodes == IF fs = <<>> THEN pushed
                   ELSE IF point.event = "return" THEN [pushed EXCEPT ![top].ret = Last(fs).ret]
                   ELSE IF RefreshesLabel(point.event, glitch)
                        THEN [pushed EXCEPT ![top].label = Last(fs).arg]
                   ELSE pushed
           hasRecursion == t.hasRecursion \/
            \E j \in k + 1 .. Len(fs) : \E i \in 1..j - 1 :
               pushed[live[i].node].func = fs[j].func
           Closed(n) == \E i \in k + 1..Len(t.live) : t.live[i].node = n
           shown == point.event # "return" /\ ~glitch
<1>1. Feed(t, point, step) =
        [nodes |-> nodes, live |-> live, prev |-> point.event, hasRecursion |-> hasRecursion]
  BY DEF Feed
<1>2. /\ fs \in Seq(PointFrame) /\ point.event \in Event
      /\ t.nodes \in Seq(TreeNode) /\ t.live \in Seq(LiveNode)
      /\ t.hasRecursion \in BOOLEAN
  BY DEF Tree, Point
<1>3. /\ Len(fs) \in Nat \ {0} /\ N \in Nat /\ Len(t.live) \in Nat /\ new \in {0, 1}
      /\ DOMAIN t.nodes = 1..N /\ DOMAIN t.live = 1..Len(t.live) /\ DOMAIN fs = 1..Len(fs)
  BY <1>2, LenProperties, EmptySeq
<1>4. \A n \in 1..N : t.nodes[n] \in TreeNode
  BY <1>2, <1>3, ElementOfSeq
<1>5. \A i \in 1..Len(t.live) : t.live[i] \in LiveNode /\ t.live[i].node \in 1..N
  BY <1>2, <1>3, ElementOfSeq
<1>6. \A i \in 1..Len(fs) : fs[i] \in PointFrame
  BY <1>2, <1>3, ElementOfSeq
<1>. HIDE DEF fs, N, new
<1>7. ASSUME NEW n \in 1..N
      PROVE  /\ settled[n] \in TreeNode
             /\ settled[n].func = t.nodes[n].func /\ settled[n].parent = t.nodes[n].parent
             /\ settled[n].enter = t.nodes[n].enter /\ settled[n].ret = t.nodes[n].ret
             /\ settled[n].label = t.nodes[n].label
             /\ settled[n].exit = IF Closed(n) THEN step - 1 ELSE t.nodes[n].exit
  <2> DEFINE i == CHOOSE i \in At(n) : TRUE
             node == t.nodes[n]
  <2>1. settled[n] = IF At(n) = {} THEN node
                     ELSE IF i > k THEN [node EXCEPT !.exit = step - 1]
                     ELSE IF i > m THEN node ELSE [node EXCEPT !.addr = fs[i].addr]
    BY <1>3
  <2>2. node \in TreeNode
    BY <1>4
  <2>3. CASE At(n) = {}
    <3>1. ~Closed(n)
      BY <1>3, <2>3
    <3>2. settled[n] = node
      BY <2>1, <2>3
    <3>. HIDE DEF settled, Closed
    <3>. QED BY <2>2, <3>1, <3>2
  <2>4. CASE At(n) # {}
    <3>1. i \in At(n)
      BY <2>4
    <3>2. i \in 1..Len(t.live) /\ t.live[i].node = n
      BY <1>3, <3>1
    <3>. HIDE DEF i, node
    <3>3. Closed(n) <=> i > k
      <4>1. \A j \in k + 1..Len(t.live) : j \in 1..Len(t.live)
        BY <1>3
      <4>2. \A j \in k + 1..Len(t.live) : t.live[j].node = n => j = i
        BY <3>2, <4>1
      <4>3. i > k => i \in k + 1..Len(t.live)
        BY <1>3, <3>2
      <4>4. \A j \in k + 1..Len(t.live) : j > k
        BY <1>3
      <4>. QED BY <3>2, <4>2, <4>3, <4>4
    <3>4. CASE i > k
      <4>1. settled[n] = [node EXCEPT !.exit = step - 1] /\ step - 1 \in Id
        BY <2>1, <2>4, <3>4 DEF Id
      <4>. HIDE DEF settled
      <4>. QED BY <2>2, <3>3, <3>4, <4>1 DEF TreeNode, node
    <3>5. CASE ~(i > k) /\ i > m
      <4>1. settled[n] = node
        BY <2>1, <2>4, <3>5
      <4>. HIDE DEF settled
      <4>. QED BY <2>2, <3>3, <3>5, <4>1 DEF node
    <3>6. CASE ~(i > k) /\ ~(i > m)
      <4>1. i \in 1..Len(fs)
        BY <1>3, <3>2, <3>6 DEF fs
      <4>2. settled[n] = [node EXCEPT !.addr = fs[i].addr] /\ fs[i].addr \in Addr
        BY <1>6, <2>1, <2>4, <3>6, <4>1 DEF PointFrame
      <4>. HIDE DEF settled
      <4>. QED BY <2>2, <3>3, <3>6, <4>2 DEF TreeNode, node
    <3>. QED BY <3>4, <3>5, <3>6
  <2>. QED BY <2>3, <2>4
<1>8. settled \in Seq(TreeNode) /\ Len(settled) = N
  <2>1. settled = [n \in 1..N |-> settled[n]]
    BY <1>3
  <2>. HIDE DEF settled
  <2>2. settled \in [1..N -> TreeNode]
    BY <1>7, <2>1
  <2>. QED BY <1>3, <2>2, FunctionIsSequence
<1>. DEFINE node == Node(fs[k + 1], step, IF k = 0 THEN None ELSE t.live[k].node)
<1>9. ASSUME new = 1
      PROVE  /\ added = <<node>> /\ node \in TreeNode
             /\ node.func = fs[k + 1].func /\ node.enter = step
             /\ node.parent = IF k = 0 THEN None ELSE t.live[k].node
             /\ node.exit = None /\ node.ret = None /\ node.label = fs[k + 1].arg
  <2>1. fs[k + 1] \in PointFrame
    BY <1>3, <1>6, <1>9 DEF new
  <2>2. k # 0 => t.live[k].node \in Nat
    BY <1>3, <1>5
  <2>3. ID(k + 1 - 1) = IF k = 0 THEN None ELSE t.live[k].node
    OBVIOUS
  <2>4. added = [j \in 1..1 |-> Node(fs[k + j], step, ID(k + j - 1))]
    BY <1>9
  <2>5. added = <<Node(fs[k + 1], step, ID(k + 1 - 1))>>
    BY <2>4
  <2>6. added = <<node>>
    BY <2>3, <2>5
  <2>. HIDE DEF added
  <2>. QED BY <2>1, <2>2, <2>6 DEF Node, TreeNode, PointFrame, Id, Arg
<1>10. ASSUME new = 0 PROVE added = <<>>
  BY <1>10
<1>. HIDE DEF node, settled, added
<1>11. /\ pushed \in Seq(TreeNode) /\ Len(pushed) = N + new
       /\ \A n \in 1..N : pushed[n] = settled[n]
       /\ new = 1 => pushed[N + 1] = node
  <2>1. CASE new = 0
    <3>1. pushed = settled
      BY <1>8, <1>10, <2>1, ConcatEmptySeq
    <3>. QED BY <1>3, <1>8, <2>1, <3>1
  <2>2. CASE new = 1
    <3>1. <<node>> \in Seq(TreeNode) /\ Len(<<node>>) = 1 /\ <<node>>[1] = node
      BY <1>9, <2>2
    <3>2. pushed = settled \o <<node>>
      BY <1>9, <2>2
    <3>. HIDE DEF pushed
    <3>3. /\ pushed \in Seq(TreeNode) /\ Len(pushed) = N + 1
          /\ \A n \in 1..N + 1 : pushed[n] = IF n <= N THEN settled[n] ELSE <<node>>[n - N]
      BY <1>8, <3>1, <3>2, ConcatProperties
    <3>4. ASSUME NEW n \in 1..N PROVE pushed[n] = settled[n]
      <4>1. n \in 1..N + 1 /\ n <= N
        BY <1>3
      <4>. QED BY <3>3, <4>1
    <3>5. pushed[N + 1] = node
      BY <1>3, <3>1, <3>3
    <3>. QED BY <2>2, <3>3, <3>4, <3>5
  <2>. QED BY <1>3, <2>1, <2>2
<1>12. top = (IF Len(fs) = k THEN t.live[k].node ELSE N + 1) /\ top \in 1..Len(pushed)
  <2>1. CASE Len(fs) = k
    <3>1. k \in 1..Len(t.live)
      BY <1>3, <2>1
    <3>2. top = t.live[k].node
      BY <2>1, <3>1
    <3>. QED BY <1>3, <1>5, <1>11, <2>1, <3>1, <3>2
  <2>2. CASE Len(fs) = k + 1
    <3>1. top = Len(t.nodes) + (k + 1) - k
      BY <2>2
    <3>2. new = 1
      BY <2>2 DEF new
    <3>. HIDE DEF top, pushed
    <3>3. N \in Nat /\ Len(pushed) = N + 1
      BY <1>3, <1>11, <3>2
    <3>4. top = N + (k + 1) - k
      BY <3>1 DEF N
    <3>5. top = N + 1 /\ Len(fs) # k
      BY <2>2, <3>3, <3>4
    <3>. QED BY <3>3, <3>5
  <2>. QED BY <2>1, <2>2 DEF fs
<1>. HIDE DEF pushed, top
<1>13. /\ nodes \in Seq(TreeNode) /\ Len(nodes) = Len(pushed)
       /\ \A n \in 1..Len(pushed) :
            /\ nodes[n].func = pushed[n].func /\ nodes[n].parent = pushed[n].parent
            /\ nodes[n].enter = pushed[n].enter /\ nodes[n].exit = pushed[n].exit
            /\ nodes[n].ret = IF point.event = "return" /\ n = top THEN Last(fs).ret
                              ELSE pushed[n].ret
            /\ nodes[n].label = IF shown /\ n = top THEN Last(fs).arg ELSE pushed[n].label
  <2>1. Last(fs) \in PointFrame /\ fs # <<>>
    BY <1>3, <1>6 DEF Last, fs
  <2>2. /\ pushed[top] \in TreeNode /\ pushed \in Seq(TreeNode) /\ Len(pushed) \in Nat
        /\ DOMAIN pushed = 1..Len(pushed) /\ top \in 1..Len(pushed)
    BY <1>11, <1>12, ElementOfSeq, LenProperties
  <2>3. CASE point.event = "return"
    <3> DEFINE e == [pushed[top] EXCEPT !.ret = Last(fs).ret]
    <3>1. nodes = [pushed EXCEPT ![top] = e]
      BY <2>1, <2>3
    <3>2. /\ e \in TreeNode /\ e.func = pushed[top].func /\ e.parent = pushed[top].parent
          /\ e.enter = pushed[top].enter /\ e.exit = pushed[top].exit /\ e.ret = Last(fs).ret
          /\ e.label = pushed[top].label
      BY <2>1, <2>2 DEF TreeNode, PointFrame
    <3>. HIDE DEF e, nodes
    <3>3. /\ nodes \in Seq(TreeNode) /\ Len(nodes) = Len(pushed)
          /\ \A n \in 1..Len(pushed) : nodes[n] = IF n = top THEN e ELSE pushed[n]
      BY <2>2, <3>1, <3>2, ExceptSeq
    <3>. QED BY <2>3, <3>2, <3>3
  <2>4. CASE shown
    <3> DEFINE e == [pushed[top] EXCEPT !.label = Last(fs).arg]
    <3>1. nodes = [pushed EXCEPT ![top] = e]
      BY <2>1, <2>4 DEF RefreshesLabel
    <3>2. /\ e \in TreeNode /\ e.func = pushed[top].func /\ e.parent = pushed[top].parent
          /\ e.enter = pushed[top].enter /\ e.exit = pushed[top].exit /\ e.ret = pushed[top].ret
          /\ e.label = Last(fs).arg
      BY <2>1, <2>2 DEF TreeNode, PointFrame
    <3>. HIDE DEF e, nodes
    <3>3. /\ nodes \in Seq(TreeNode) /\ Len(nodes) = Len(pushed)
          /\ \A n \in 1..Len(pushed) : nodes[n] = IF n = top THEN e ELSE pushed[n]
      BY <2>2, <3>1, <3>2, ExceptSeq
    <3>. QED BY <2>4, <3>2, <3>3
  <2>5. CASE point.event # "return" /\ ~shown
    <3>1. ~RefreshesLabel(point.event, glitch)
      BY <2>5 DEF RefreshesLabel
    <3>2. nodes = pushed
      BY <2>1, <2>5, <3>1
    <3>. HIDE DEF nodes, shown
    <3>. QED BY <2>2, <2>5, <3>2
  <2>. QED BY <2>3, <2>4, <2>5
<1>. HIDE DEF nodes
<1>14. /\ live \in Seq(LiveNode) /\ Len(live) = Len(fs)
       /\ \A j \in 1..Len(fs) :
            live[j] = IF j <= k /\ j > m THEN t.live[j]
                      ELSE [node |-> IF j <= k THEN t.live[j].node ELSE N + 1,
                            hash |-> FrameHash(fs[j]), addr |-> fs[j].addr]
  <2>1. ASSUME NEW j \in 1..Len(fs)
        PROVE  /\ ID(j) = (IF j <= k THEN t.live[j].node ELSE N + 1) /\ ID(j) \in Nat
               /\ j <= k => t.live[j] \in LiveNode
    <3>1. CASE j <= k
      BY <1>3, <1>5, <3>1
    <3>2. CASE ~(j <= k)
      <4>1. j = k + 1
        BY <1>3, <3>2 DEF new
      <4>. QED BY <1>3, <3>2, <4>1 DEF N
    <3>. QED BY <3>1, <3>2
  <2>. HIDE DEF ID
  <2>2. ASSUME NEW j \in 1..Len(fs)
        PROVE  live[j] \in LiveNode
    <3>1. fs[j] \in PointFrame
      BY <1>6
    <3>2. [node |-> ID(j), hash |-> FrameHash(fs[j]), addr |-> fs[j].addr] \in LiveNode
      BY <2>1, <3>1 DEF LiveNode, FrameHash, PointFrame
    <3>3. live[j] = IF j <= k /\ j > m THEN t.live[j]
                    ELSE [node |-> ID(j), hash |-> FrameHash(fs[j]), addr |-> fs[j].addr]
      OBVIOUS
    <3>. HIDE DEF live
    <3>. QED BY <2>1, <3>2, <3>3
  <2>3. live = [j \in 1..Len(fs) |-> live[j]]
    OBVIOUS
  <2>4. \A j \in 1..Len(fs) :
            live[j] = IF j <= k /\ j > m THEN t.live[j]
                      ELSE [node |-> IF j <= k THEN t.live[j].node ELSE N + 1,
                            hash |-> FrameHash(fs[j]), addr |-> fs[j].addr]
    BY <2>1
  <2>. HIDE DEF live
  <2>5. live \in [1..Len(fs) -> LiveNode]
    BY <2>2, <2>3
  <2>6. live \in Seq(LiveNode) /\ Len(live) = Len(fs)
    BY <1>3, <2>5, FunctionIsSequence
  <2>. QED BY <2>4, <2>6
<1>15. hasRecursion <=>
         t.hasRecursion \/ (Len(fs) = k + 1 /\
            \E i \in 1..k : t.nodes[t.live[i].node].func = fs[k + 1].func)
  <2>1. ASSUME NEW i \in 1..k, Len(fs) = k + 1
        PROVE  pushed[live[i].node].func = t.nodes[t.live[i].node].func
    <3>1. live[i].node = t.live[i].node
      BY <1>14, <2>1 DEF fs
    <3>2. t.live[i].node \in 1..N
      BY <1>3, <1>5
    <3>. HIDE DEF live
    <3>3. pushed[t.live[i].node] = settled[t.live[i].node]
      BY <1>11, <3>2
    <3>4. settled[t.live[i].node].func = t.nodes[t.live[i].node].func
      BY <1>7, <3>2
    <3>. QED BY <3>1, <3>3, <3>4
  <2>. HIDE DEF live
  <2>2. CASE Len(fs) = k
    <3>1. k + 1 .. Len(fs) = {}
      BY <2>2
    <3>. QED BY <2>2, <3>1
  <2>3. CASE Len(fs) = k + 1
    <3>1. k + 1 .. Len(fs) = {k + 1} /\ 1..(k + 1) - 1 = 1..k
      BY <2>3
    <3>. QED BY <2>1, <2>3, <3>1
  <2>. QED BY <2>2, <2>3 DEF fs
<1>. HIDE DEF live, hasRecursion
<1>. DEFINE u == Feed(t, point, step)
<1>16. /\ u.nodes = nodes /\ u.live = live /\ u.prev = point.event
       /\ u.hasRecursion = hasRecursion
  BY <1>1
<1>17. u \in Tree
  <2>1. hasRecursion \in BOOLEAN
    BY <1>2 DEF hasRecursion
  <2>. QED BY <1>1, <1>2, <1>13, <1>14, <2>1 DEF Tree
<1>18. Len(u.nodes) = N + (Len(fs) - k)
  BY <1>11, <1>13, <1>16 DEF new
<1>19. ASSUME NEW n \in 1..N
       PROVE  /\ u.nodes[n].func = t.nodes[n].func
              /\ u.nodes[n].parent = t.nodes[n].parent
              /\ u.nodes[n].enter = t.nodes[n].enter
              /\ u.nodes[n].exit = IF Closed(n) THEN step - 1 ELSE t.nodes[n].exit
              /\ u.nodes[n].ret = IF point.event = "return" /\ n = top THEN Last(fs).ret
                                  ELSE t.nodes[n].ret
              /\ u.nodes[n].label = IF shown /\ n = top THEN Last(fs).arg ELSE t.nodes[n].label
  <2>1. n \in 1..Len(pushed)
    BY <1>3, <1>11
  <2>. HIDE DEF Closed
  <2>. QED BY <1>7, <1>11, <1>13, <1>16, <2>1
<1>20. Len(fs) = k + 1 =>
         /\ u.nodes[N + 1].func = fs[k + 1].func
         /\ u.nodes[N + 1].label = Last(fs).arg
         /\ u.nodes[N + 1].parent = IF k = 0 THEN None ELSE t.live[k].node
         /\ u.nodes[N + 1].enter = step /\ u.nodes[N + 1].exit = None
         /\ point.event # "return" => u.nodes[N + 1].ret = None
  <2> SUFFICES ASSUME Len(fs) = k + 1
               PROVE  /\ u.nodes[N + 1].func = fs[k + 1].func
                      /\ u.nodes[N + 1].label = Last(fs).arg
                      /\ u.nodes[N + 1].parent = IF k = 0 THEN None ELSE t.live[k].node
                      /\ u.nodes[N + 1].enter = step /\ u.nodes[N + 1].exit = None
                      /\ point.event # "return" => u.nodes[N + 1].ret = None
    OBVIOUS
  <2>1. new = 1
    BY DEF new
  <2>2. N + 1 \in 1..Len(pushed) /\ pushed[N + 1] = node
    BY <1>3, <1>11, <2>1
  <2>3. Last(fs) = fs[k + 1]
    BY DEF Last
  <2>. QED BY <1>9, <1>13, <1>16, <2>1, <2>2, <2>3
<1>. HIDE DEF u, Closed
<1>21. /\ u.live = live /\ u.hasRecursion = hasRecursion /\ u.prev = point.event
  BY <1>16
<1>. QED BY <1>12, <1>14, <1>15, <1>17, <1>18, <1>19, <1>20, <1>21 DEF u, fs, N, Closed, Fed

-----------------------------------------------------------------------------
(* The ancestors of each of the calls c, as the function that Ancestors reads. *)
Up(c) == CHOOSE up : up = [m \in 1..Len(c) |->
            IF c[m].parent = None THEN {} ELSE {c[m].parent} \cup up[c[m].parent]]

\* Where a caller comes before its callees, there is such a function.
LEMMA UpIsDefined ==
    ASSUME NEW c, Len(c) \in Nat,
           \A n \in 1..Len(c) : c[n].parent \in {None} \cup 1..n - 1
    PROVE  \A n \in 1..Len(c) :
              Up(c)[n] = IF c[n].parent = None THEN {} ELSE {c[n].parent} \cup Up(c)[c[n].parent]
<1> DEFINE From(up, n) == IF c[n].parent = None THEN {} ELSE {c[n].parent} \cup up[c[n].parent]
           Is(up, n) == \A m \in 1..n : up[m] = From(up, m)
           Failing == {n \in 0..Len(c) : ~\E up : Is(up, n)}
<1>1. Failing = {}
  <2> SUFFICES ASSUME Failing # {} PROVE FALSE
    OBVIOUS
  <2>1. PICK n \in Failing : \A i \in Failing : n <= i
    <3>1. Failing \subseteq Nat
      OBVIOUS
    <3>. HIDE DEF Failing
    <3>. QED BY <3>1, LeastNatural
  <2>2. n \in 0..Len(c) /\ ~\E up : Is(up, n)
    OBVIOUS
  <2>3. n # 0
    <3>1. \A up : Is(up, 0)
      OBVIOUS
    <3>. QED BY <2>2, <3>1
  <2>4. n - 1 \in 0..Len(c) /\ ~(n <= n - 1)
    BY <2>2, <2>3
  <2>5. PICK up : Is(up, n - 1)
    BY <2>1, <2>4
  <2>6. c[n].parent \in {None} \cup 1..n - 1
    BY <2>2, <2>3
  <2> DEFINE more == [m \in 1..n |-> IF m = n THEN From(up, n) ELSE up[m]]
  <2>7. ASSUME NEW m \in 1..n PROVE more[m] = From(more, m)
    <3>1. c[m].parent \in {None} \cup 1..m - 1
      BY <2>2
    <3>2. From(more, m) = From(up, m)
      <4>1. CASE c[m].parent = None
        BY <4>1
      <4>2. CASE c[m].parent # None
        <5>1. c[m].parent \in 1..n /\ c[m].parent # n
          BY <2>2, <3>1, <4>2
        <5>2. more[c[m].parent] = up[c[m].parent]
          BY <5>1
        <5>. QED BY <5>2
      <4>. QED BY <4>1, <4>2
    <3>3. m # n => m \in 1..n - 1
      BY <2>2
    <3>4. more[m] = IF m = n THEN From(up, n) ELSE up[m]
      OBVIOUS
    <3>. HIDE DEF more, From
    <3>. QED BY <2>5, <3>2, <3>3, <3>4
  <2>. QED BY <2>2, <2>7
<1>2. Len(c) \notin Failing
  BY <1>1
<1>3. PICK up : Is(up, Len(c))
  <2>1. Len(c) \in 0..Len(c)
    OBVIOUS
  <2>. HIDE DEF Is
  <2>. QED BY <1>2, <2>1
<1> DEFINE f == [m \in 1..Len(c) |-> up[m]]
<1>4. \A m \in 1..Len(c) : From(f, m) = From(up, m)
  <2> TAKE m \in 1..Len(c)
  <2>1. c[m].parent # None => c[m].parent \in 1..Len(c)
    OBVIOUS
  <2>. QED BY <2>1
<1>5. f = [m \in 1..Len(c) |-> From(f, m)]
  BY <1>3, <1>4
<1>. HIDE DEF f
<1>6. Up(c) = [m \in 1..Len(c) |->
            IF c[m].parent = None THEN {} ELSE {c[m].parent} \cup Up(c)[c[m].parent]]
  BY <1>5 DEF Up
<1>. QED BY <1>6

\* Later calls have no part in the ancestors of the earlier ones.
LEMMA UpIsKept ==
    ASSUME NEW c, Len(c) \in Nat, NEW d, Len(d) \in Nat, Len(c) <= Len(d),
           \A n \in 1..Len(c) : c[n].parent = d[n].parent,
           \A n \in 1..Len(d) : d[n].parent \in {None} \cup 1..n - 1
    PROVE  \A n \in 1..Len(c) : Up(d)[n] = Up(c)[n]
<1> DEFINE Failing == {n \in 1..Len(c) : Up(d)[n] # Up(c)[n]}
<1> SUFFICES ASSUME Failing # {} PROVE FALSE
  OBVIOUS
<1>1. PICK n \in Failing : \A i \in Failing : n <= i
  <2>1. Failing \subseteq Nat
    OBVIOUS
  <2>. HIDE DEF Failing
  <2>. QED BY <2>1, LeastNatural
<1>2. n \in 1..Len(c) /\ n \in 1..Len(d) /\ 1..Len(c) \subseteq 1..Len(d)
  OBVIOUS
<1>3. c[n].parent = d[n].parent /\ c[n].parent \in {None} \cup 1..n - 1
  BY <1>2
<1>4. Up(d)[n] = IF d[n].parent = None THEN {} ELSE {d[n].parent} \cup Up(d)[d[n].parent]
  BY <1>2, UpIsDefined
<1>5. \A i \in 1..Len(c) : c[i].parent \in {None} \cup 1..i - 1
  BY <1>2
<1>6. Up(c)[n] = IF c[n].parent = None THEN {} ELSE {c[n].parent} \cup Up(c)[c[n].parent]
  BY <1>2, <1>5, UpIsDefined
<1>7. c[n].parent # None => Up(d)[c[n].parent] = Up(c)[c[n].parent]
  <2> HAVE c[n].parent # None
  <2>1. c[n].parent \in 1..Len(c) /\ ~(n <= c[n].parent)
    BY <1>2, <1>3
  <2>. QED BY <1>1, <2>1
<1>8. Up(d)[n] # Up(c)[n]
  OBVIOUS
<1>. QED BY <1>3, <1>4, <1>6, <1>7, <1>8

\* A call's ancestors were made before it.
LEMMA UpIsEarlier ==
    ASSUME NEW c, Len(c) \in Nat,
           \A n \in 1..Len(c) : c[n].parent \in {None} \cup 1..n - 1
    PROVE  \A n \in 1..Len(c) : Up(c)[n] \subseteq 1..n - 1
<1> DEFINE Failing == {n \in 1..Len(c) : ~(Up(c)[n] \subseteq 1..n - 1)}
<1> SUFFICES ASSUME Failing # {} PROVE FALSE
  OBVIOUS
<1>1. PICK n \in Failing : \A i \in Failing : n <= i
  <2>1. Failing \subseteq Nat
    OBVIOUS
  <2>. HIDE DEF Failing
  <2>. QED BY <2>1, LeastNatural
<1>2. n \in 1..Len(c) /\ ~(Up(c)[n] \subseteq 1..n - 1)
  OBVIOUS
<1>3. Up(c)[n] = IF c[n].parent = None THEN {} ELSE {c[n].parent} \cup Up(c)[c[n].parent]
  BY <1>2, UpIsDefined
<1>4. CASE c[n].parent = None
  BY <1>2, <1>3, <1>4
<1>5. CASE c[n].parent # None
  <2> DEFINE p == c[n].parent
  <2>1. p \in 1..n - 1 /\ p \in 1..Len(c) /\ ~(n <= p)
    BY <1>2, <1>5
  <2>2. Up(c)[p] \subseteq 1..p - 1
    BY <1>1, <2>1
  <2>3. 1..p - 1 \subseteq 1..n - 1
    BY <1>2, <2>1
  <2>. QED BY <1>2, <1>3, <1>5, <2>1, <2>2, <2>3
<1>. QED BY <1>4, <1>5

(* A chain of so many calls, or nodes, c: each is the caller of the next.   *)
Chained(c, q, chain) ==
    \A j \in 1..q : /\ chain[j] \in 1..Len(c)
                    /\ c[chain[j]].parent = IF j = 1 THEN None ELSE chain[j - 1]

Before(chain, j) == {chain[i] : i \in 1..j - 1}

\* The ancestors of a call in a chain of callers and callees are those before it.
LEMMA UpOfChain ==
    ASSUME NEW c, Len(c) \in Nat,
           \A n \in 1..Len(c) : c[n].parent \in {None} \cup 1..n - 1,
           NEW q \in Nat, NEW chain, None \notin Nat, Chained(c, q, chain)
    PROVE  \A j \in 1..q : Up(c)[chain[j]] = Before(chain, j)
<1> DEFINE Failing == {j \in 1..q : Up(c)[chain[j]] # Before(chain, j)}
<1> SUFFICES ASSUME Failing # {} PROVE FALSE
  OBVIOUS
<1>1. PICK j \in Failing : \A i \in Failing : j <= i
  <2>1. Failing \subseteq Nat
    OBVIOUS
  <2>. HIDE DEF Failing
  <2>. QED BY <2>1, LeastNatural
<1>2. j \in 1..q /\ Up(c)[chain[j]] # {chain[i] : i \in 1..j - 1}
  BY DEF Before
<1>3. chain[j] \in 1..Len(c) /\ c[chain[j]].parent = IF j = 1 THEN None ELSE chain[j - 1]
  BY <1>2 DEF Chained
<1> DEFINE n == chain[j]
<1>4. Up(c)[n] = IF c[n].parent = None THEN {} ELSE {c[n].parent} \cup Up(c)[c[n].parent]
  BY <1>3, UpIsDefined
<1>5. CASE j = 1
  <2>1. Up(c)[n] = {} /\ {chain[i] : i \in 1..1 - 1} = {}
    BY <1>3, <1>4, <1>5
  <2>. QED BY <1>2, <1>5, <2>1
<1>6. CASE j # 1
  <2>1. j - 1 \in 1..q /\ ~(j <= j - 1)
    BY <1>2, <1>6
  <2>2. chain[j - 1] # None
    BY <2>1 DEF Chained
  <2>3. Up(c)[chain[j - 1]] = {chain[i] : i \in 1..(j - 1) - 1}
    BY <1>1, <2>1 DEF Before
  <2>4. Up(c)[n] = {chain[j - 1]} \cup {chain[i] : i \in 1..(j - 1) - 1}
    BY <1>3, <1>4, <1>6, <2>2, <2>3
  <2>5. {chain[j - 1]} \cup {chain[i] : i \in 1..(j - 1) - 1} = {chain[i] : i \in 1..j - 1}
    <3>1. \A i : i \in 1..j - 1 <=> i = j - 1 \/ i \in 1..(j - 1) - 1
      BY <1>2, <1>6
    <3>. QED BY <3>1
  <2>. QED BY <1>2, <2>4, <2>5
<1>. QED BY <1>5, <1>6

LEMMA AncestorsIsUp ==
    ASSUME NEW n
    PROVE  Ancestors(n) = Up(calls)[n] /\ Ancestors(n)' = Up(calls')[n]
BY DEF Ancestors, Up

-----------------------------------------------------------------------------
(* What is shown as current.                                               *)

CurrentNodes(t, step) == {n \in DOMAIN t.nodes : NodeState(t, n, step) = "current"}

(* At a step with no node to come, the nodes that are live are a chain.     *)
LiveAtEnd(u, step, q, chain) ==
    /\ Chained(u.nodes, q, chain)
    /\ \A i, j \in 1..q : chain[i] = chain[j] => i = j
    /\ \A n \in 1..Len(u.nodes) :
          /\ u.nodes[n].enter \in Nat /\ u.nodes[n].enter <= step
          /\ IsLive(u, n, step) <=> \E j \in 1..q : chain[j] = n

\* Where the nodes that are live at a step are a chain, its last one is current and
\* no other one is.
LEMMA LastIsCurrent ==
    ASSUME NEW u, Len(u.nodes) \in Nat, DOMAIN u.nodes = 1..Len(u.nodes), NEW step \in Nat,
           NEW q \in Nat \ {0}, NEW chain, None \notin Nat, LiveAtEnd(u, step, q, chain)
    PROVE  CurrentNodes(u, step) = {chain[q]}
<1>0. /\ Chained(u.nodes, q, chain)
      /\ \A i, j \in 1..q : chain[i] = chain[j] => i = j
      /\ \A n \in 1..Len(u.nodes) :
            /\ u.nodes[n].enter \in Nat /\ u.nodes[n].enter <= step
            /\ IsLive(u, n, step) <=> \E j \in 1..q : chain[j] = n
  BY DEF LiveAtEnd
<1>1. ASSUME NEW n \in 1..Len(u.nodes)
      PROVE  NodeState(u, n, step) = "current" <=>
                IsLive(u, n, step) /\ \A d \in 1..Len(u.nodes) :
                    u.nodes[d].parent = n => ~IsLive(u, d, step)
  <2>1. ~(u.nodes[n].enter > step)
    <3>1. u.nodes[n].enter \in Nat /\ u.nodes[n].enter <= step
      BY <1>0
    <3>. QED BY <3>1
  <2>. QED BY <2>1 DEF NodeState, Children
<1>2. q \in 1..q /\ chain[q] \in 1..Len(u.nodes)
  BY <1>0 DEF Chained
<1>3. IsLive(u, chain[q], step)
  BY <1>0, <1>2
<1>4. ASSUME NEW d \in 1..Len(u.nodes), u.nodes[d].parent = chain[q], IsLive(u, d, step)
      PROVE  FALSE
  <2>1. PICK j \in 1..q : chain[j] = d
    BY <1>0, <1>4
  <2>2. u.nodes[d].parent = IF j = 1 THEN None ELSE chain[j - 1]
    BY <1>0, <2>1 DEF Chained
  <2>3. chain[q] # None
    BY <1>2
  <2>4. j # 1 /\ chain[j - 1] = chain[q]
    BY <1>4, <2>2, <2>3
  <2>5. j - 1 \in 1..q
    BY <2>4
  <2>6. j - 1 = q
    BY <1>0, <1>2, <2>4, <2>5
  <2>. QED BY <2>6
<1>5. NodeState(u, chain[q], step) = "current"
  BY <1>1, <1>2, <1>3, <1>4
<1>6. ASSUME NEW n \in 1..Len(u.nodes), NodeState(u, n, step) = "current"
      PROVE  n = chain[q]
  <2>1. IsLive(u, n, step)
    BY <1>1, <1>6
  <2>2. PICK j \in 1..q : chain[j] = n
    BY <1>0, <2>1
  <2>3. CASE j = q
    BY <2>2, <2>3
  <2>4. CASE j # q
    <3>1. j + 1 \in 1..q /\ j + 1 # 1 /\ (j + 1) - 1 = j
      BY <2>4
    <3>2. chain[j + 1] \in 1..Len(u.nodes) /\ u.nodes[chain[j + 1]].parent = n
      BY <1>0, <2>2, <3>1 DEF Chained
    <3>3. IsLive(u, chain[j + 1], step)
      BY <1>0, <3>1, <3>2
    <3>. QED BY <1>1, <1>6, <3>2, <3>3
  <2>. QED BY <2>3, <2>4
<1>. QED BY <1>2, <1>5, <1>6 DEF CurrentNodes

\* A later point leaves what is current at an earlier step.
LEMMA EarlierStepsStay ==
    ASSUME NEW t, NEW u, Len(t.nodes) \in Nat, DOMAIN t.nodes = 1..Len(t.nodes),
           Len(u.nodes) \in Nat, DOMAIN u.nodes = 1..Len(u.nodes), Len(t.nodes) <= Len(u.nodes),
           NEW last \in Nat, NEW step \in 1..last, None \notin Nat,
           \A n \in 1..Len(t.nodes) :
              /\ u.nodes[n].enter = t.nodes[n].enter /\ u.nodes[n].parent = t.nodes[n].parent
              /\ \/ u.nodes[n].exit = t.nodes[n].exit
                 \/ t.nodes[n].exit = None /\ u.nodes[n].exit = last,
           \A n \in 1..Len(u.nodes) : n > Len(t.nodes) =>
              /\ u.nodes[n].enter \in Nat /\ u.nodes[n].enter > last
              /\ u.nodes[n].exit = None
              /\ u.nodes[n].parent \in 1..Len(t.nodes) => u.nodes[u.nodes[n].parent].exit = None
    PROVE  /\ CurrentNodes(u, step) = CurrentNodes(t, step)
           /\ \A n \in 1..Len(t.nodes) : IsCollapsed(u, n, step) => IsCollapsed(t, n, step)
<1>1. ASSUME NEW n \in 1..Len(t.nodes) PROVE IsLive(u, n, step) <=> IsLive(t, n, step)
  <2>1. step <= last
    OBVIOUS
  <2>. QED BY <2>1 DEF IsLive
<1>2. ASSUME NEW n \in 1..Len(u.nodes), n > Len(t.nodes)
      PROVE  u.nodes[n].enter > step /\ ~(u.nodes[n].enter <= step)
  <2>1. u.nodes[n].enter \in Nat /\ u.nodes[n].enter > last
    BY <1>2
  <2>. QED BY <2>1
<1>3. ASSUME NEW n \in 1..Len(u.nodes), n > Len(t.nodes)
      PROVE  ~IsLive(u, n, step) /\ NodeState(u, n, step) # "current"
  BY <1>2, <1>3 DEF IsLive, NodeState
<1>4. ASSUME NEW n \in 1..Len(t.nodes)
      PROVE  (\E d \in Children(u, n) : IsLive(u, d, step)) <=>
             (\E d \in Children(t, n) : IsLive(t, d, step))
  <2>1. 1..Len(t.nodes) \subseteq 1..Len(u.nodes)
    OBVIOUS
  <2>2. \A d \in 1..Len(u.nodes) : d > Len(t.nodes) \/ d \in 1..Len(t.nodes)
    OBVIOUS
  <2>. QED BY <1>1, <1>3, <2>1, <2>2 DEF Children
<1>5. ASSUME NEW n \in 1..Len(t.nodes) PROVE NodeState(u, n, step) = NodeState(t, n, step)
  BY <1>1, <1>4 DEF NodeState
<1>6. \A n : n \in 1..Len(u.nodes) <=>
                n \in 1..Len(t.nodes) \/ (n \in 1..Len(u.nodes) /\ n > Len(t.nodes))
  OBVIOUS
<1>7. CurrentNodes(u, step) = CurrentNodes(t, step)
  BY <1>3, <1>5, <1>6 DEF CurrentNodes
<1>8. ASSUME NEW n \in 1..Len(t.nodes), IsCollapsed(u, n, step)
      PROVE  IsCollapsed(t, n, step)
  <2>1. PICK d \in Children(u, n) : TRUE
    BY <1>8 DEF IsCollapsed
  <2>2. /\ u.nodes[n].exit # None /\ u.nodes[n].exit < step
        /\ d \in 1..Len(u.nodes) /\ u.nodes[d].parent = n
    BY <1>8, <2>1 DEF IsCollapsed, Children
  <2>3. ~(last < step)
    OBVIOUS
  <2>4. u.nodes[n].exit = t.nodes[n].exit
    BY <2>2, <2>3
  <2>5. d \in 1..Len(t.nodes)
    BY <2>2
  <2>6. d \in Children(t, n)
    BY <2>2, <2>5 DEF Children
  <2>. QED BY <2>2, <2>4, <2>6 DEF IsCollapsed
<1>. QED BY <1>7, <1>8

-----------------------------------------------------------------------------
(* One point of the trace.                                                 *)

(* TreeInv, but for what is current: what a step of the tree rests on.     *)
Related == TreeTypeOK /\ CallsNest /\ StackIsCalls /\ LiveIsStack /\ TreeIsTruth

LEMMA ShapeOfState ==
    ASSUME NamesDiffer, TreeTypeOK, StackIsCalls
    PROVE  /\ None \notin Nat /\ None \notin Name
           /\ Len(stack) \in Nat /\ DOMAIN stack = 1..Len(stack)
           /\ Len(calls) \in Nat /\ DOMAIN calls = 1..Len(calls)
           /\ Len(trace) \in Nat
           /\ tree.nodes \in Seq(TreeNode) /\ tree.live \in Seq(LiveNode)
           /\ Len(tree.nodes) \in Nat /\ DOMAIN tree.nodes = 1..Len(tree.nodes)
           /\ Len(tree.live) \in Nat
           /\ stack # <<>> => Len(stack) # 0
           /\ \A k \in 1..Len(stack) : stack[k] \in StackFrame /\ stack[k].call \in 1..Len(calls)
           /\ \A n \in 1..Len(calls) : calls[n] \in CallRecord
<1>1. /\ stack \in Seq(StackFrame) /\ calls \in Seq(CallRecord) /\ trace \in Seq(Point)
      /\ tree.nodes \in Seq(TreeNode) /\ tree.live \in Seq(LiveNode)
  BY DEF TreeTypeOK, Tree
<1>2. None \notin Nat /\ None \notin Name
  BY DEF NamesDiffer, Name
<1>3. /\ Len(stack) \in Nat /\ DOMAIN stack = 1..Len(stack)
      /\ Len(calls) \in Nat /\ DOMAIN calls = 1..Len(calls)
      /\ Len(trace) \in Nat
      /\ Len(tree.nodes) \in Nat /\ DOMAIN tree.nodes = 1..Len(tree.nodes)
      /\ Len(tree.live) \in Nat
      /\ stack # <<>> => Len(stack) # 0
  BY <1>1, LenProperties, EmptySeq
<1>4. \A k \in 1..Len(stack) : stack[k] \in StackFrame
  BY <1>1, <1>3, ElementOfSeq
<1>5. \A n \in 1..Len(calls) : calls[n] \in CallRecord
  BY <1>1, <1>3, ElementOfSeq
<1>6. \A k \in 1..Len(stack) : stack[k].call \in 1..Len(calls)
  BY <1>3 DEF StackIsCalls
<1>. QED BY <1>1, <1>2, <1>3, <1>4, <1>5, <1>6

(* The tree u that a point with so many frames more makes of the tree of    *)
(* the calls, having matched m of its frames and kept the others: the call *)
(* that had just returned has its exit, and a frame more has a node.       *)
Grown(point, more, m, u) ==
    LET fs == point.frames
        K == Len(stack)
        N == Len(calls)
    IN  /\ u \in Tree /\ u.prev = point.event
        /\ Len(u.live) = Len(fs)
        /\ \A j \in 1..K :
              u.live[j] = IF j > m THEN tree.live[j]
                          ELSE [node |-> stack[j].call,
                                hash |-> FrameHash(fs[j]), addr |-> fs[j].addr]
        /\ \A j \in 1..K : u.live[j].node = stack[j].call
        /\ more = 1 => u.live[K + 1] =
              [node |-> N + 1, hash |-> FrameHash(fs[K + 1]), addr |-> fs[K + 1].addr]
        /\ Len(u.nodes) = N + more
        /\ \A n \in 1..N :
              /\ u.nodes[n].func = calls[n].func
              /\ u.nodes[n].parent = calls[n].parent
              /\ u.nodes[n].enter = calls[n].enter
              /\ u.nodes[n].exit = calls[n].exit
              /\ u.nodes[n].ret =
                    IF point.event = "return" /\ more = 0 /\ n = stack[K].call
                    THEN Last(fs).ret
                    ELSE IF calls[n].exit = None THEN None ELSE n
              /\ u.nodes[n].label =
                    IF point.event # "return" /\ more = 0 /\ ~(K > m) /\ n = stack[K].call
                    THEN Last(fs).arg ELSE tree.nodes[n].label
        /\ more = 1 =>
              /\ u.nodes[N + 1].func = fs[K + 1].func
              /\ u.nodes[N + 1].label = Last(fs).arg
              /\ u.nodes[N + 1].parent = stack[K].call
              /\ u.nodes[N + 1].enter = Len(trace) + 1 /\ u.nodes[N + 1].exit = None
              /\ point.event # "return" => u.nodes[N + 1].ret = None
        /\ u.hasRecursion <=>
              tree.hasRecursion \/ (more = 1 /\
                 \E i \in 1..K : calls[stack[i].call].func = fs[K + 1].func)

\* Where the frames kept are those of the stack, that is what buildCallTree makes.
LEMMA TreeStep ==
    ASSUME NamesDiffer, Related, stack # <<>>,
           NEW point \in Point, NEW more \in {0, 1}, Len(point.frames) = Len(stack) + more,
           NEW m, m = Matched(tree, point.frames, Len(trace) + 1), m \in Nat,
           Kept(tree, point, Len(trace) + 1) = Len(stack)
    PROVE  Grown(point, more, m, Feed(tree, point, Len(trace) + 1))
<1> DEFINE fs == point.frames
           K == Len(stack)
           N == Len(tree.nodes)
           L == Len(trace)
           step == L + 1
           u == Feed(tree, point, step)
           Closed(n) == \E i \in K + 1..Len(tree.live) : tree.live[i].node = n
           top == IF Len(fs) = K THEN tree.live[K].node ELSE N + 1
           shown == point.event # "return" /\ ~(K = Len(fs) /\ K > m)
<1>1. /\ TreeTypeOK /\ CallsNest /\ StackIsCalls /\ LiveIsStack /\ TreeIsTruth
  BY DEF Related
<1>2. /\ None \notin Nat /\ None \notin Name
      /\ K \in Nat /\ DOMAIN stack = 1..K
      /\ N \in Nat /\ DOMAIN calls = 1..N
      /\ L \in Nat
      /\ DOMAIN tree.nodes = 1..N
      /\ Len(tree.live) \in Nat
      /\ K # 0
  <2>1. N = Len(calls)
    BY <1>1 DEF TreeIsTruth
  <2>. HIDE DEF N
  <2>2. DOMAIN tree.nodes = 1..N
    BY <1>1, <2>1, ShapeOfState DEF N
  <2>. QED BY <1>1, <2>1, <2>2, ShapeOfState
<1>3. /\ \A k \in 1..K : stack[k] \in StackFrame /\ stack[k].call \in 1..N
      /\ \A n \in 1..N : calls[n] \in CallRecord
  <2>1. N = Len(calls)
    BY <1>1 DEF TreeIsTruth
  <2>. HIDE DEF N
  <2>. QED BY <1>1, <2>1, ShapeOfState
<1>4. Len(calls) = N
  BY <1>1 DEF TreeIsTruth
<1>5. \A n \in 1..N :
         /\ tree.nodes[n].func = calls[n].func
         /\ tree.nodes[n].parent = calls[n].parent
         /\ tree.nodes[n].enter = calls[n].enter
         /\ tree.nodes[n].exit = IF calls[n].exit = L THEN None ELSE calls[n].exit
         /\ tree.nodes[n].ret = IF calls[n].exit = None THEN None ELSE n
  BY <1>1, <1>2 DEF TreeIsTruth
<1>6. \A k \in 1..K : /\ tree.live[k].node = stack[k].call
                      /\ calls[stack[k].call].exit = None
  <2> TAKE k \in 1..K
  <2>1. k \in DOMAIN stack
    BY <1>2
  <2>2. tree.live[k] = [node |-> stack[k].call, addr |-> stack[k].addr,
                        hash |-> <<stack[k].func, stack[k].addr>>]
    BY <1>1, <2>1 DEF LiveIsStack
  <2>3. calls[stack[k].call].exit = None
    BY <1>1, <2>1 DEF StackIsCalls
  <2>. QED BY <2>2, <2>3
<1>7. Len(tree.live) = IF returned = None THEN K ELSE K + 1
  BY <1>1 DEF LiveIsStack
<1>8. /\ returned # None => tree.live[K + 1].node \in 1..N
                            /\ calls[tree.live[K + 1].node].exit = L
      /\ \A n \in 1..N : calls[n].exit = L => returned # None /\ n = tree.live[K + 1].node
  BY <1>1, <1>2 DEF LiveIsStack
<1>9. \A i, j \in 1..K : stack[i].call = stack[j].call => i = j
  BY <1>1, <1>2 DEF StackIsCalls
<1>10. \A i \in 1..Len(tree.live) : i \in 1..K \/ (returned # None /\ i = K + 1)
  BY <1>2, <1>7
<1>. HIDE DEF K, N, L
<1>11. \A i \in 1..Len(tree.live) : tree.live[i].node \in DOMAIN tree.nodes
  BY <1>2, <1>3, <1>4, <1>6, <1>8, <1>10
<1>12. \A i, j \in 1..Len(tree.live) : tree.live[i].node = tree.live[j].node => i = j
  <2> SUFFICES ASSUME NEW i \in 1..Len(tree.live), NEW j \in 1..Len(tree.live),
                      tree.live[i].node = tree.live[j].node
               PROVE  i = j
    OBVIOUS
  <2>1. None # L
    BY <1>2
  <2>2. ASSUME NEW k \in 1..K, returned # None
        PROVE  tree.live[k].node # tree.live[K + 1].node
    BY <1>6, <1>8, <2>1, <2>2
  <2>3. CASE i \in 1..K /\ j \in 1..K
    BY <1>6, <1>9, <2>3
  <2>4. CASE ~(i \in 1..K /\ j \in 1..K)
    <3>1. \/ i = K + 1 /\ j = K + 1
          \/ returned # None /\ i = K + 1 /\ j \in 1..K
          \/ returned # None /\ j = K + 1 /\ i \in 1..K
      BY <1>10, <2>4
    <3>. QED BY <2>2, <3>1
  <2>. QED BY <2>3, <2>4
<1>13. ASSUME NEW n \in 1..N PROVE Closed(n) <=> calls[n].exit = L
  <2>1. CASE returned = None
    <3>1. K + 1..Len(tree.live) = {}
      BY <1>2, <1>7, <2>1
    <3>. QED BY <1>8, <2>1, <3>1
  <2>2. CASE returned # None
    <3>1. K + 1..Len(tree.live) = {K + 1}
      BY <1>2, <1>7, <2>2
    <3>2. Closed(n) <=> tree.live[K + 1].node = n
      BY <3>1
    <3>. QED BY <1>8, <2>2, <3>2
  <2>. QED BY <2>1, <2>2
<1>14. /\ step \in Nat \ {0} /\ K <= Len(tree.live)
       /\ Len(fs) = K \/ Len(fs) = K + 1
       /\ Len(fs) = K + more
       /\ fs # <<>> /\ tree \in Tree
  <2>1. Len(fs) = K + more
    BY DEF K
  <2>2. fs # <<>>
    BY <1>2, <2>1
  <2>3. tree \in Tree
    BY <1>1 DEF TreeTypeOK
  <2>. QED BY <1>2, <1>7, <2>1, <2>2, <2>3
<1>15. /\ Kept(tree, point, step) = K /\ Matched(tree, point.frames, step) = m
  BY DEF K, L
<1>. HIDE DEF u, step
<1>16. /\ u \in Tree /\ u.prev = point.event
       /\ Len(u.live) = Len(fs)
       /\ \A j \in 1..Len(fs) :
             u.live[j] = IF j <= K /\ j > m THEN tree.live[j]
                         ELSE [node |-> IF j <= K THEN tree.live[j].node ELSE N + 1,
                               hash |-> FrameHash(fs[j]), addr |-> fs[j].addr]
       /\ Len(u.nodes) = N + (Len(fs) - K)
       /\ \A n \in 1..N :
             /\ u.nodes[n].func = tree.nodes[n].func
             /\ u.nodes[n].parent = tree.nodes[n].parent
             /\ u.nodes[n].enter = tree.nodes[n].enter
             /\ u.nodes[n].exit = IF Closed(n) THEN step - 1 ELSE tree.nodes[n].exit
             /\ u.nodes[n].ret = IF point.event = "return" /\ n = top THEN Last(fs).ret
                                 ELSE tree.nodes[n].ret
             /\ u.nodes[n].label = IF shown /\ n = top THEN Last(fs).arg ELSE tree.nodes[n].label
       /\ Len(fs) = K + 1 =>
             /\ u.nodes[N + 1].func = fs[K + 1].func
             /\ u.nodes[N + 1].label = Last(fs).arg
             /\ u.nodes[N + 1].parent = IF K = 0 THEN None ELSE tree.live[K].node
             /\ u.nodes[N + 1].enter = step /\ u.nodes[N + 1].exit = None
             /\ point.event # "return" => u.nodes[N + 1].ret = None
       /\ u.hasRecursion <=>
             tree.hasRecursion \/ (Len(fs) = K + 1 /\
                \E i \in 1..K : tree.nodes[tree.live[i].node].func = fs[K + 1].func)
  <2>1. Fed(tree, point, step, m, K, u)
    BY <1>2, <1>11, <1>12, <1>14, <1>15, FeedProperties DEF u
  <2>. QED BY <2>1 DEF Fed, N
<1>17. K \in 1..K /\ step - 1 = L /\ (Len(fs) = K + 1 <=> more = 1) /\ (Len(fs) = K <=> more = 0)
  BY <1>2, <1>14 DEF step
<1>18. ASSUME NEW j \in 1..K
       PROVE  /\ u.live[j] = IF j > m THEN tree.live[j]
                             ELSE [node |-> stack[j].call,
                                   hash |-> FrameHash(fs[j]), addr |-> fs[j].addr]
              /\ u.live[j].node = stack[j].call
  <2>1. j \in 1..Len(fs) /\ j <= K
    BY <1>2, <1>14
  <2>2. u.live[j] = IF j > m THEN tree.live[j]
                    ELSE [node |-> stack[j].call,
                          hash |-> FrameHash(fs[j]), addr |-> fs[j].addr]
    BY <1>6, <1>16, <2>1
  <2>. HIDE DEF fs
  <2>. QED BY <1>6, <2>2
<1>19. more = 1 => u.live[K + 1] =
          [node |-> N + 1, hash |-> FrameHash(fs[K + 1]), addr |-> fs[K + 1].addr]
  <2> HAVE more = 1
  <2>1. K + 1 \in 1..Len(fs) /\ ~(K + 1 <= K)
    BY <1>2, <1>17
  <2>. QED BY <1>16, <2>1
<1>20. Len(u.nodes) = N + more
  <2>1. Len(u.nodes) = N + (Len(fs) - K)
    BY <1>16
  <2>2. Len(fs) - K = more
    BY <1>2, <1>14
  <2>. QED BY <2>1, <2>2
<1>21. ASSUME NEW n \in 1..N
       PROVE  /\ u.nodes[n].func = calls[n].func
              /\ u.nodes[n].parent = calls[n].parent
              /\ u.nodes[n].enter = calls[n].enter
              /\ u.nodes[n].exit = calls[n].exit
              /\ u.nodes[n].ret =
                    IF point.event = "return" /\ more = 0 /\ n = stack[K].call
                    THEN Last(fs).ret
                    ELSE IF calls[n].exit = None THEN None ELSE n
              /\ u.nodes[n].label =
                    IF point.event # "return" /\ more = 0 /\ ~(K > m) /\ n = stack[K].call
                    THEN Last(fs).arg ELSE tree.nodes[n].label
  <2>1. n = top <=> more = 0 /\ n = stack[K].call
    <3>1. n # N + 1
      BY <1>2
    <3>2. tree.live[K].node = stack[K].call
      BY <1>6, <1>17
    <3>. QED BY <1>17, <3>1, <3>2
  <2>2. u.nodes[n].exit = IF Closed(n) THEN L ELSE tree.nodes[n].exit
    <3>1. u.nodes[n].exit = IF Closed(n) THEN step - 1 ELSE tree.nodes[n].exit
      BY <1>16
    <3>. HIDE DEF Closed
    <3>. QED BY <1>17, <3>1
  <2>3. u.nodes[n].ret = IF point.event = "return" /\ n = top THEN Last(fs).ret
                                 ELSE tree.nodes[n].ret
    BY <1>16
  <2>4. /\ u.nodes[n].func = calls[n].func
        /\ u.nodes[n].parent = calls[n].parent
        /\ u.nodes[n].enter = calls[n].enter
    BY <1>5, <1>16
  <2>5. u.nodes[n].label = IF shown /\ n = top THEN Last(fs).arg ELSE tree.nodes[n].label
    BY <1>16
  <2>6. shown /\ n = top <=>
          point.event # "return" /\ more = 0 /\ ~(K > m) /\ n = stack[K].call
    <3>. HIDE DEF top
    <3>. QED BY <1>17, <2>1
  <2>. HIDE DEF top, Closed, fs, shown
  <2>. QED BY <1>5, <1>13, <2>1, <2>2, <2>3, <2>4, <2>5, <2>6
<1>22. more = 1 =>
         /\ u.nodes[N + 1].func = fs[K + 1].func
         /\ u.nodes[N + 1].label = Last(fs).arg
         /\ u.nodes[N + 1].parent = stack[K].call
         /\ u.nodes[N + 1].enter = L + 1 /\ u.nodes[N + 1].exit = None
         /\ point.event # "return" => u.nodes[N + 1].ret = None
  BY <1>2, <1>6, <1>16, <1>17 DEF step
<1>23. u.hasRecursion <=>
         tree.hasRecursion \/ (more = 1 /\
            \E i \in 1..K : calls[stack[i].call].func = fs[K + 1].func)
  <2>1. \A i \in 1..K : tree.nodes[tree.live[i].node].func = calls[stack[i].call].func
    BY <1>3, <1>5, <1>6
  <2>2. u.hasRecursion <=>
          tree.hasRecursion \/ (Len(fs) = K + 1 /\
             \E i \in 1..K : tree.nodes[tree.live[i].node].func = fs[K + 1].func)
    BY <1>16
  <2>3. (\E i \in 1..K : tree.nodes[tree.live[i].node].func = fs[K + 1].func) <=>
          \E i \in 1..K : calls[stack[i].call].func = fs[K + 1].func
    BY <2>1
  <2>4. Len(fs) = K + 1 <=> more = 1
    BY <1>17
  <2>. HIDE DEF u, fs
  <2>. QED BY <2>2, <2>3, <2>4
<1>24. /\ u \in Tree /\ u.prev = point.event /\ Len(u.live) = Len(fs)
  BY <1>16
<1>. QED BY <1>18, <1>19, <1>20, <1>21, <1>22, <1>4, <1>23, <1>24 DEF u, step, K, L, Grown

-----------------------------------------------------------------------------
(* The calls after that point: one more, or one that returned.             *)
Lengthened(point, more) ==
    LET top == stack[Len(stack)].call
        N == Len(calls)
    IN  /\ Len(calls') = N + more /\ Len(trace') = Len(trace) + 1
        /\ \A n \in 1..N :
              /\ calls'[n].func = calls[n].func
              /\ calls'[n].parent = calls[n].parent
              /\ calls'[n].enter = calls[n].enter
              /\ calls'[n].exit = IF point.event = "return" /\ n = top THEN Len(trace) + 1
                                  ELSE calls[n].exit
        /\ more = 1 =>
              /\ point.event = "call"
              /\ calls'[N + 1].func = point.frames[Len(stack) + 1].func
              /\ calls'[N + 1].parent = top
              /\ calls'[N + 1].enter = Len(trace) + 1 /\ calls'[N + 1].exit = None
        /\ point.event = "return" => more = 0 /\ Last(point.frames).ret = top

(* The nodes that are live after a point, from main's on.                  *)
LiveChain(more, chain) ==
    LET q == Len(stack) + more
    IN  /\ \A j \in 1..Len(stack) : chain[j] = stack[j].call
        /\ more = 1 => chain[Len(stack) + 1] = Len(calls) + 1
        /\ Chained(calls', q, chain) /\ Chained(tree'.nodes, q, chain)
        /\ \A j \in 1..q : tree'.nodes[chain[j]].exit = None
        /\ \A i, j \in 1..q : chain[i] = chain[j] => i = j
        /\ \A n \in 1..Len(calls') : tree'.nodes[n].exit = None => \E j \in 1..q : chain[j] = n

\* The nodes that are live after the point are a chain of callers and callees.
LEMMA LiveIsChain ==
    ASSUME NamesDiffer, Related, stack # <<>>,
           NEW point, NEW more \in {0, 1}, Len(point.frames) = Len(stack) + more,
           NEW m, Grown(point, more, m, tree'), Lengthened(point, more)
    PROVE  LiveChain(more, [j \in 1..Len(stack) + more |-> tree'.live[j].node])
<1> DEFINE K == Len(stack)
           N == Len(calls)
           q == K + more
           chain == [j \in 1..q |-> tree'.live[j].node]
<1>1. TreeTypeOK /\ CallsNest /\ StackIsCalls
  BY DEF Related
<1>2. /\ None \notin Nat /\ N \in Nat /\ K \in Nat \ {0}
      /\ DOMAIN stack = 1..K /\ DOMAIN calls = 1..N
      /\ \A k \in 1..K : stack[k].call \in 1..N
  BY <1>1, ShapeOfState
<1>3. \A k \in 1..K :
         /\ calls[stack[k].call].exit = None
         /\ calls[stack[k].call].parent = IF k = 1 THEN None ELSE stack[k - 1].call
  BY <1>1, <1>2 DEF StackIsCalls
<1>4. \A i, j \in 1..K : stack[i].call = stack[j].call => i = j
  BY <1>1, <1>2 DEF StackIsCalls
<1>5. \A n \in 1..N : calls[n].exit = None => \E k \in 1..K : stack[k].call = n
  BY <1>1, <1>2 DEF CallsNest
<1>6. /\ Len(calls') = N + more
      /\ \A n \in 1..N : calls'[n].parent = calls[n].parent
      /\ more = 1 => calls'[N + 1].parent = stack[K].call
  BY DEF Lengthened
<1>7. /\ \A j \in 1..K : tree'.live[j].node = stack[j].call
      /\ more = 1 => tree'.live[K + 1].node = N + 1
      /\ \A n \in 1..N : /\ tree'.nodes[n].parent = calls[n].parent
                         /\ tree'.nodes[n].exit = calls[n].exit
      /\ more = 1 => /\ tree'.nodes[N + 1].parent = stack[K].call
                     /\ tree'.nodes[N + 1].exit = None
  BY DEF Grown
<1>. HIDE DEF K, N
<1>8. /\ \A j \in 1..K : j \in 1..q /\ chain[j] = stack[j].call
      /\ more = 1 => K + 1 \in 1..q /\ chain[K + 1] = N + 1
  BY <1>2, <1>7
<1>9. \A j \in 1..q : j \in 1..K \/ (more = 1 /\ j = K + 1)
  BY <1>2
<1>10. \A n \in 1..Len(calls') : n \in 1..N \/ (more = 1 /\ n = N + 1)
  BY <1>2, <1>6
<1>11. 1..N \subseteq 1..Len(calls') /\ (more = 1 => N + 1 \in 1..Len(calls'))
  BY <1>2, <1>6
<1>. HIDE DEF chain, q
<1>12. ASSUME NEW j \in 1..q
       PROVE  /\ chain[j] \in 1..Len(calls')
              /\ calls'[chain[j]].parent = IF j = 1 THEN None ELSE chain[j - 1]
              /\ tree'.nodes[chain[j]].parent = IF j = 1 THEN None ELSE chain[j - 1]
              /\ tree'.nodes[chain[j]].exit = None
  <2>1. CASE j \in 1..K
    <3>1. chain[j] = stack[j].call /\ stack[j].call \in 1..N
      BY <1>2, <1>8, <2>1
    <3>2. j # 1 => chain[j - 1] = stack[j - 1].call
      <4>1. j # 1 => j - 1 \in 1..K
        BY <2>1, <1>2
      <4>. QED BY <1>8, <4>1
    <3>. QED BY <1>3, <1>6, <1>7, <1>11, <2>1, <3>1, <3>2
  <2>2. CASE more = 1 /\ j = K + 1
    <3>1. chain[j] = N + 1 /\ j # 1 /\ j - 1 = K /\ K \in 1..K
      BY <1>2, <1>8, <2>2
    <3>2. chain[j - 1] = stack[K].call
      BY <1>8, <3>1
    <3>. QED BY <1>6, <1>7, <1>11, <2>2, <3>1, <3>2
  <2>. QED BY <1>9, <2>1, <2>2
<1>13. ASSUME NEW i \in 1..q, NEW j \in 1..q, chain[i] = chain[j]
       PROVE  i = j
  <2>1. N + 1 \notin 1..N
    BY <1>2
  <2>2. \A k \in 1..K : chain[k] \in 1..N /\ chain[k] = stack[k].call
    BY <1>2, <1>8
  <2>3. CASE i \in 1..K /\ j \in 1..K
    BY <1>4, <1>13, <2>2, <2>3
  <2>4. CASE ~(i \in 1..K /\ j \in 1..K)
    BY <1>8, <1>9, <1>13, <2>1, <2>2, <2>4
  <2>. QED BY <2>3, <2>4
<1>14. ASSUME NEW n \in 1..Len(calls'), tree'.nodes[n].exit = None
       PROVE  \E j \in 1..q : chain[j] = n
  <2>1. CASE n \in 1..N
    BY <1>5, <1>7, <1>8, <1>14, <2>1
  <2>2. CASE more = 1 /\ n = N + 1
    BY <1>8, <2>2
  <2>. QED BY <1>10, <2>1, <2>2
<1>15. Len(tree'.nodes) = Len(calls')
  BY <1>6 DEF Grown, N
<1>16. Chained(calls', q, chain) /\ Chained(tree'.nodes, q, chain)
  BY <1>12, <1>15 DEF Chained
<1>. QED BY <1>8, <1>12, <1>13, <1>14, <1>16 DEF LiveChain, chain, q, K, N

\* A point leaves the tree the tree of the calls.
LEMMA TruthStep ==
    ASSUME NamesDiffer, Related, stack # <<>>,
           NEW point, NEW more \in {0, 1}, Len(point.frames) = Len(stack) + more,
           NEW m, Grown(point, more, m, tree'), Lengthened(point, more),
           TreeTypeOK', CallsNest'
    PROVE  TreeIsTruth'
<1> DEFINE K == Len(stack)
           N == Len(calls)
           L == Len(trace)
           q == K + more
           chain == [j \in 1..q |-> tree'.live[j].node]
<1>1. TreeTypeOK /\ CallsNest /\ StackIsCalls /\ TreeIsTruth
  BY DEF Related
<1>2. /\ None \notin Nat /\ N \in Nat /\ K \in Nat \ {0} /\ L \in Nat
      /\ DOMAIN stack = 1..K /\ DOMAIN calls = 1..N
      /\ \A k \in 1..K : stack[k].call \in 1..N
  BY <1>1, ShapeOfState
<1>3. calls' \in Seq(CallRecord)
  BY DEF TreeTypeOK
<1>4. /\ Len(calls') = N + more /\ DOMAIN calls' = 1..N + more
      /\ 1..N \subseteq 1..N + more
      /\ \A n \in 1..N + more : n \in 1..N \/ (more = 1 /\ n = N + 1)
  <2>1. Len(calls') = N + more
    BY DEF Lengthened
  <2>2. DOMAIN calls' = 1..Len(calls')
    BY <1>3, LenProperties
  <2>. QED BY <1>2, <2>1, <2>2
<1>5. /\ \A j \in 1..K : chain[j] = stack[j].call
      /\ more = 1 => chain[K + 1] = N + 1
      /\ Chained(calls', q, chain)
  <2>1. LiveChain(more, chain)
    BY LiveIsChain
  <2>. HIDE DEF chain
  <2>. QED BY <2>1 DEF LiveChain
<1>6. /\ \A n \in 1..N : calls[n].parent \in {None} \cup 1..n - 1
      /\ \A n \in 1..N : calls[n].exit \in {None} \cup calls[n].enter + 1..L
  BY <1>1, <1>2 DEF CallsNest
<1>7. \A n \in 1..N + more : calls'[n].parent \in {None} \cup 1..n - 1
  BY <1>4 DEF CallsNest
<1>8. \A n \in 1..N :
         /\ calls'[n].func = calls[n].func /\ calls'[n].parent = calls[n].parent
         /\ calls'[n].enter = calls[n].enter
         /\ calls'[n].exit = IF point.event = "return" /\ n = stack[K].call THEN L + 1
                             ELSE calls[n].exit
  BY DEF Lengthened
<1>9. more = 1 =>
        /\ point.event = "call" /\ calls'[N + 1].func = point.frames[K + 1].func
        /\ calls'[N + 1].parent = stack[K].call
        /\ calls'[N + 1].enter = L + 1 /\ calls'[N + 1].exit = None
  BY DEF Lengthened
<1>10. /\ point.event = "return" => more = 0 /\ Last(point.frames).ret = stack[K].call
       /\ Len(trace') = L + 1
  BY DEF Lengthened
<1>11. /\ Len(tree'.nodes) = N + more
       /\ \A n \in 1..N :
            /\ tree'.nodes[n].func = calls[n].func
            /\ tree'.nodes[n].parent = calls[n].parent
            /\ tree'.nodes[n].enter = calls[n].enter
            /\ tree'.nodes[n].exit = calls[n].exit
            /\ tree'.nodes[n].ret =
                 IF point.event = "return" /\ more = 0 /\ n = stack[K].call
                 THEN Last(point.frames).ret
                 ELSE IF calls[n].exit = None THEN None ELSE n
  BY DEF Grown
<1>12. more = 1 =>
         /\ tree'.nodes[N + 1].func = point.frames[K + 1].func
         /\ tree'.nodes[N + 1].parent = stack[K].call
         /\ tree'.nodes[N + 1].enter = L + 1 /\ tree'.nodes[N + 1].exit = None
         /\ point.event # "return" => tree'.nodes[N + 1].ret = None
  BY DEF Grown
<1>13. tree'.hasRecursion <=>
         tree.hasRecursion \/ (more = 1 /\
            \E i \in 1..K : calls[stack[i].call].func = point.frames[K + 1].func)
  BY DEF Grown
<1>14. calls[stack[K].call].exit = None
  <2>1. K \in DOMAIN stack
    BY <1>2
  <2>. QED BY <1>1, <2>1 DEF StackIsCalls
<1>15. tree.hasRecursion <=>
          \E n \in 1..N : \E d \in Up(calls)[n] : calls[d].func = calls[n].func
  BY <1>1, <1>2, AncestorsIsUp DEF TreeIsTruth
<1>. HIDE DEF K, N, L
<1>16. ASSUME NEW n \in 1..N + more
       PROVE  /\ tree'.nodes[n].func = calls'[n].func
              /\ tree'.nodes[n].parent = calls'[n].parent
              /\ tree'.nodes[n].enter = calls'[n].enter
              /\ tree'.nodes[n].exit = IF calls'[n].exit = L + 1 THEN None ELSE calls'[n].exit
              /\ tree'.nodes[n].ret = IF calls'[n].exit = None THEN None ELSE n
  <2>1. L + 1 \in Nat /\ L + 1 # None
    BY <1>2
  <2>2. CASE n \in 1..N /\ point.event = "return" /\ n = stack[K].call
    BY <1>8, <1>10, <1>11, <1>14, <2>1, <2>2
  <2>3. CASE n \in 1..N /\ ~(point.event = "return" /\ n = stack[K].call)
    <3>1. calls[n].exit # L + 1
      <4>1. calls[n].exit = None \/ calls[n].exit \in calls[n].enter + 1..L
        BY <1>6, <2>3
      <4>2. calls[n].exit \in calls[n].enter + 1..L => calls[n].exit # L + 1
        BY <1>2
      <4>. QED BY <2>1, <4>1, <4>2
    <3>. QED BY <1>8, <1>11, <2>3, <3>1
  <2>4. CASE more = 1 /\ n = N + 1
    <3>1. point.event # "return"
      BY <1>9, <2>4
    <3>. QED BY <1>9, <1>12, <2>1, <2>4, <3>1
  <2>. QED BY <1>4, <2>2, <2>3, <2>4
<1>17. \A n \in 1..N : Up(calls')[n] = Up(calls)[n] /\ Up(calls)[n] \subseteq 1..n - 1
  <2>1. /\ Len(calls) = N /\ Len(calls) \in Nat /\ Len(calls') \in Nat
        /\ Len(calls) <= Len(calls')
    BY <1>2, <1>4 DEF N
  <2>2. \A n \in 1..Len(calls) : calls[n].parent = calls'[n].parent
    BY <1>8, <2>1
  <2>3. \A n \in 1..Len(calls') : calls'[n].parent \in {None} \cup 1..n - 1
    BY <1>4, <1>7
  <2>4. \A n \in 1..Len(calls) : Up(calls')[n] = Up(calls)[n]
    BY <2>1, <2>2, <2>3, UpIsKept
  <2>5. \A n \in 1..Len(calls) : Up(calls)[n] \subseteq 1..n - 1
    BY <1>6, <2>1, UpIsEarlier
  <2>. QED BY <2>1, <2>4, <2>5
<1>18. more = 1 => Up(calls')[N + 1] = {stack[i].call : i \in 1..K}
  <2> HAVE more = 1
  <2>1. /\ Len(calls') \in Nat /\ q \in Nat /\ K + 1 \in 1..q /\ (K + 1) - 1 = K
        /\ \A n \in 1..Len(calls') : calls'[n].parent \in {None} \cup 1..n - 1
    BY <1>2, <1>4, <1>7
  <2>. HIDE DEF chain, q
  <2>2. \A j \in 1..q : Up(calls')[chain[j]] = Before(chain, j)
    BY <1>2, <1>5, <2>1, UpOfChain
  <2>3. Up(calls')[N + 1] = {chain[i] : i \in 1..K}
    BY <1>5, <2>1, <2>2 DEF Before
  <2>. QED BY <1>5, <2>3
<1>19. (\E n \in 1..N + more : \E d \in Up(calls')[n] : calls'[d].func = calls'[n].func) <=>
          \/ \E n \in 1..N : \E d \in Up(calls)[n] : calls[d].func = calls[n].func
          \/ more = 1 /\ \E i \in 1..K : calls[stack[i].call].func = point.frames[K + 1].func
  <2>1. ASSUME NEW n \in 1..N
        PROVE  (\E d \in Up(calls')[n] : calls'[d].func = calls'[n].func) <=>
               (\E d \in Up(calls)[n] : calls[d].func = calls[n].func)
    <3>1. 1..n - 1 \subseteq 1..N
      BY <1>2
    <3>. QED BY <1>8, <1>17, <3>1
  <2>2. more = 1 =>
          ((\E d \in Up(calls')[N + 1] : calls'[d].func = calls'[N + 1].func) <=>
             \E i \in 1..K : calls[stack[i].call].func = point.frames[K + 1].func)
    <3> HAVE more = 1
    <3>1. \A i \in 1..K : calls'[stack[i].call].func = calls[stack[i].call].func
      BY <1>2, <1>8
    <3>2. calls'[N + 1].func = point.frames[K + 1].func
      BY <1>9
    <3>3. \A d : d \in Up(calls')[N + 1] <=> \E i \in 1..K : d = stack[i].call
      BY <1>18
    <3>. QED BY <3>1, <3>2, <3>3
  <2>3. more = 1 => N + 1 \in 1..N + more
    BY <1>2
  <2>. QED BY <1>4, <2>1, <2>2, <2>3
<1>20. tree'.hasRecursion <=>
          \E n \in 1..N + more : \E d \in Up(calls')[n] : calls'[d].func = calls'[n].func
  BY <1>13, <1>15, <1>19
<1>21. \A n : Ancestors(n)' = Up(calls')[n]
  BY AncestorsIsUp
<1>22. TreeIsTruth' <=>
         /\ Len(tree'.nodes) = Len(calls')
         /\ \A n \in DOMAIN calls' :
              /\ <<tree'.nodes[n].func, tree'.nodes[n].parent, tree'.nodes[n].enter>>
                   = <<calls'[n].func, calls'[n].parent, calls'[n].enter>>
              /\ tree'.nodes[n].exit = IF calls'[n].exit = Len(trace') THEN None ELSE calls'[n].exit
              /\ tree'.nodes[n].ret = IF calls'[n].exit = None THEN None ELSE n
         /\ tree'.hasRecursion <=>
              \E n \in DOMAIN calls' : \E d \in Up(calls')[n] : calls'[d].func = calls'[n].func
  BY <1>21 DEF TreeIsTruth
<1>. QED BY <1>4, <1>10, <1>11, <1>16, <1>20, <1>22

\* And it keeps in sight what is current.
LEMMA CurrentStep ==
    ASSUME NamesDiffer, Related, CurrentIsShown, stack # <<>>,
           NEW point, NEW more \in {0, 1}, Len(point.frames) = Len(stack) + more,
           NEW m, Grown(point, more, m, tree'), Lengthened(point, more),
           TreeTypeOK', CallsNest'
    PROVE  CurrentIsShown'
<1> DEFINE K == Len(stack)
           N == Len(calls)
           L == Len(trace)
           q == K + more
           chain == [j \in 1..q |-> tree'.live[j].node]
<1>1. TreeTypeOK /\ CallsNest /\ StackIsCalls /\ TreeIsTruth
  BY DEF Related
<1>2. /\ None \notin Nat /\ N \in Nat /\ K \in Nat \ {0} /\ L \in Nat
      /\ Len(tree.nodes) \in Nat /\ DOMAIN tree.nodes = 1..Len(tree.nodes)
      /\ \A k \in 1..K : stack[k].call \in 1..N
      /\ DOMAIN calls = 1..N
  BY <1>1, ShapeOfState
<1>3. Len(tree.nodes) = N
  BY <1>1 DEF TreeIsTruth
<1>4. /\ Len(tree'.nodes) = N + more /\ DOMAIN tree'.nodes = 1..N + more
      /\ Len(calls') = N + more /\ Len(trace') = L + 1
  <2>1. Len(tree'.nodes) = N + more /\ Len(calls') = N + more /\ Len(trace') = L + 1
    BY DEF Grown, Lengthened
  <2>2. tree'.nodes \in Seq(TreeNode)
    BY DEF TreeTypeOK, Tree
  <2>3. DOMAIN tree'.nodes = 1..Len(tree'.nodes)
    BY <2>2, LenProperties
  <2>. QED BY <2>1, <2>3
<1>5. /\ \A j \in 1..K : chain[j] = stack[j].call
      /\ more = 1 => chain[K + 1] = N + 1
      /\ Chained(calls', q, chain) /\ Chained(tree'.nodes, q, chain)
      /\ \A j \in 1..q : tree'.nodes[chain[j]].exit = None
      /\ \A i, j \in 1..q : chain[i] = chain[j] => i = j
      /\ \A n \in 1..Len(calls') : tree'.nodes[n].exit = None => \E j \in 1..q : chain[j] = n
  <2>1. LiveChain(more, chain)
    BY LiveIsChain
  <2>. HIDE DEF chain
  <2>. QED BY <2>1 DEF LiveChain
<1>6. \A n \in 1..N :
         /\ calls[n].parent \in {None} \cup 1..n - 1
         /\ calls[n].enter \in 1..L
         /\ calls[n].exit \in {None} \cup calls[n].enter + 1..L
  BY <1>1, <1>2 DEF CallsNest
<1>7. \A n \in 1..N :
         /\ tree.nodes[n].parent = calls[n].parent /\ tree.nodes[n].enter = calls[n].enter
         /\ tree.nodes[n].exit = IF calls[n].exit = L THEN None ELSE calls[n].exit
  BY <1>1, <1>2 DEF TreeIsTruth
<1>8. \A n \in 1..N :
         /\ tree'.nodes[n].parent = calls[n].parent /\ tree'.nodes[n].enter = calls[n].enter
         /\ tree'.nodes[n].exit = calls[n].exit
  BY DEF Grown
<1>9. more = 1 =>
         /\ tree'.nodes[N + 1].enter = L + 1 /\ tree'.nodes[N + 1].exit = None
         /\ tree'.nodes[N + 1].parent = stack[K].call
  BY DEF Grown
<1>10. calls[stack[K].call].exit = None
  <2>1. K \in DOMAIN stack
    BY <1>1, <1>2, ShapeOfState
  <2>. QED BY <1>1, <2>1 DEF StackIsCalls
<1>11. \A n \in 1..N : calls'[n].parent = calls[n].parent
  BY DEF Lengthened
<1>12. /\ \A n : Ancestors(n)' = Up(calls')[n] /\ Ancestors(n) = Up(calls)[n]
  BY AncestorsIsUp
<1>13. ASSUME NEW step \in 1..L
       PROVE  /\ Cardinality(CurrentNodes(tree, step)) = 1
              /\ \A n \in CurrentNodes(tree, step) :
                    \A d \in Up(calls)[n] : ~IsCollapsed(tree, d, step)
  BY <1>12 DEF CurrentIsShown, CurrentNodes
<1>. HIDE DEF K, N, L
<1>14. /\ q \in Nat \ {0} /\ q \in 1..q
       /\ \A n \in 1..N + more : n \in 1..N \/ (more = 1 /\ n = N + 1)
       /\ \A n \in 1..N : ~(n > N)
       /\ more = 1 => N + 1 \in 1..N + more /\ N + 1 > N
  BY <1>2
<1>15. ASSUME NEW step \in 1..L
       PROVE  /\ CurrentNodes(tree', step) = CurrentNodes(tree, step)
              /\ \A n \in 1..N : IsCollapsed(tree', n, step) => IsCollapsed(tree, n, step)
  <2>1. \A n \in 1..Len(tree.nodes) :
          /\ tree'.nodes[n].enter = tree.nodes[n].enter
          /\ tree'.nodes[n].parent = tree.nodes[n].parent
          /\ \/ tree'.nodes[n].exit = tree.nodes[n].exit
             \/ tree.nodes[n].exit = None /\ tree'.nodes[n].exit = L
    BY <1>3, <1>7, <1>8
  <2>2. \A n \in 1..Len(tree'.nodes) : n > Len(tree.nodes) =>
          /\ tree'.nodes[n].enter \in Nat /\ tree'.nodes[n].enter > L
          /\ tree'.nodes[n].exit = None
          /\ tree'.nodes[n].parent \in 1..Len(tree.nodes) =>
               tree'.nodes[tree'.nodes[n].parent].exit = None
    <3> SUFFICES ASSUME NEW n \in 1..N + more, n > N
                 PROVE  /\ tree'.nodes[n].enter \in Nat /\ tree'.nodes[n].enter > L
                        /\ tree'.nodes[n].exit = None
                        /\ tree'.nodes[tree'.nodes[n].parent].exit = None
      BY <1>3, <1>4
    <3>1. more = 1 /\ n = N + 1
      BY <1>14
    <3>2. stack[K].call \in 1..N
      BY <1>2
    <3>3. tree'.nodes[stack[K].call].exit = None
      BY <1>8, <1>10, <3>2
    <3>4. L + 1 \in Nat /\ L + 1 > L
      BY <1>2
    <3>. QED BY <1>9, <3>1, <3>3, <3>4
  <2>3. /\ Len(tree'.nodes) \in Nat /\ DOMAIN tree'.nodes = 1..Len(tree'.nodes)
        /\ Len(tree.nodes) <= Len(tree'.nodes)
    BY <1>2, <1>3, <1>4
  <2>4. /\ CurrentNodes(tree', step) = CurrentNodes(tree, step)
        /\ \A n \in 1..Len(tree.nodes) :
             IsCollapsed(tree', n, step) => IsCollapsed(tree, n, step)
    BY <1>2, <2>1, <2>2, <2>3, EarlierStepsStay
  <2>. QED BY <1>3, <2>4
<1>16. CurrentNodes(tree', L + 1) = {chain[q]}
  <2>1. ASSUME NEW n \in 1..Len(tree'.nodes)
        PROVE  /\ tree'.nodes[n].enter \in Nat /\ tree'.nodes[n].enter <= L + 1
               /\ tree'.nodes[n].exit # None => ~(L + 1 <= tree'.nodes[n].exit)
    <3>1. CASE n \in 1..N
      <4>1. tree'.nodes[n].enter \in 1..L
        BY <1>6, <1>8, <3>1
      <4>2. tree'.nodes[n].exit = None \/ tree'.nodes[n].exit \in tree'.nodes[n].enter + 1..L
        BY <1>6, <1>8, <3>1
      <4>. QED BY <1>2, <4>1, <4>2
    <3>2. CASE more = 1 /\ n = N + 1
      BY <1>2, <1>9, <3>2
    <3>. QED BY <1>4, <1>14, <3>1, <3>2
  <2>2. \A n \in 1..Len(tree'.nodes) : IsLive(tree', n, L + 1) <=> tree'.nodes[n].exit = None
    BY <2>1 DEF IsLive
  <2>3. Len(calls') = Len(tree'.nodes)
    BY <1>4
  <2>. HIDE DEF chain, q
  <2>4. \A n \in 1..Len(tree'.nodes) :
           IsLive(tree', n, L + 1) <=> \E j \in 1..q : chain[j] = n
    BY <1>5, <2>2, <2>3
  <2>6. /\ Len(tree'.nodes) \in Nat /\ DOMAIN tree'.nodes = 1..Len(tree'.nodes)
        /\ L + 1 \in Nat
    BY <1>2, <1>4
  <2>7. \A n \in 1..Len(tree'.nodes) :
           tree'.nodes[n].enter \in Nat /\ tree'.nodes[n].enter <= L + 1
    BY <2>1
  <2>8. Chained(tree'.nodes, q, chain) /\ \A i, j \in 1..q : chain[i] = chain[j] => i = j
    BY <1>5
  <2>9. LiveAtEnd(tree', L + 1, q, chain)
    BY <2>4, <2>7, <2>8 DEF LiveAtEnd
  <2>. QED BY <1>2, <1>14, <2>6, <2>9, LastIsCurrent
<1>17. /\ \A n \in 1..N : Up(calls')[n] = Up(calls)[n] /\ Up(calls)[n] \subseteq 1..n - 1
       /\ \A j \in 1..q : Up(calls')[chain[j]] = Before(chain, j)
  <2>1. /\ Len(calls) = N /\ Len(calls) \in Nat /\ Len(calls') \in Nat
        /\ Len(calls) <= Len(calls')
    BY <1>2, <1>4 DEF N
  <2>2. \A n \in 1..Len(calls) : calls[n].parent = calls'[n].parent
    BY <1>11, <2>1
  <2>3. DOMAIN calls' = 1..Len(calls')
    <3>1. calls' \in Seq(CallRecord)
      BY DEF TreeTypeOK
    <3>. QED BY <3>1, LenProperties
  <2>4. \A n \in 1..Len(calls') : calls'[n].parent \in {None} \cup 1..n - 1
    BY <2>3 DEF CallsNest
  <2>5. \A n \in 1..Len(calls) : Up(calls')[n] = Up(calls)[n]
    BY <2>1, <2>2, <2>4, UpIsKept
  <2>6. \A n \in 1..Len(calls) : Up(calls)[n] \subseteq 1..n - 1
    BY <1>6, <2>1, UpIsEarlier
  <2>. HIDE DEF chain, q
  <2>7. \A j \in 1..q : Up(calls')[chain[j]] = Before(chain, j)
    BY <1>2, <1>5, <1>14, <2>1, <2>4, UpOfChain
  <2>. QED BY <2>1, <2>5, <2>6, <2>7
<1>. HIDE DEF chain
<1>18. ASSUME NEW step \in 1..L + 1
       PROVE  /\ Cardinality(CurrentNodes(tree', step)) = 1
              /\ \A n \in CurrentNodes(tree', step) :
                    \A d \in Up(calls')[n] : ~IsCollapsed(tree', d, step)
  <2>1. CASE step \in 1..L
    <3>1. Cardinality(CurrentNodes(tree', step)) = 1
      <4>1. CurrentNodes(tree', step) = CurrentNodes(tree, step)
        BY <1>15, <2>1
      <4>2. Cardinality(CurrentNodes(tree, step)) = 1
        BY <1>13, <2>1
      <4>. QED BY <4>1, <4>2
    <3>2. ASSUME NEW n \in CurrentNodes(tree', step), NEW d \in Up(calls')[n]
          PROVE  ~IsCollapsed(tree', d, step)
      <4>1. n \in CurrentNodes(tree, step)
        BY <1>15, <2>1
      <4>2. n \in 1..N
        BY <1>2, <1>3, <4>1 DEF CurrentNodes
      <4>3. d \in Up(calls)[n] /\ d \in 1..N
        <5>1. 1..n - 1 \subseteq 1..N
          BY <1>2, <4>2
        <5>. QED BY <1>17, <4>2, <5>1
      <4>. QED BY <1>13, <1>15, <2>1, <4>1, <4>3
    <3>. QED BY <3>1, <3>2
  <2>2. CASE step = L + 1
    <3>1. Cardinality(CurrentNodes(tree', step)) = 1
      <4>1. CurrentNodes(tree', step) = {chain[q]}
        BY <1>16, <2>2
      <4>. QED BY <4>1, FS_Singleton
    <3>2. ASSUME NEW n \in CurrentNodes(tree', step), NEW d \in Up(calls')[n]
          PROVE  ~IsCollapsed(tree', d, step)
      <4>1. n = chain[q]
        BY <1>16, <2>2
      <4>2. d \in {chain[i] : i \in 1..q - 1}
        BY <1>14, <1>17, <4>1 DEF Before
      <4>3. PICK i \in 1..q - 1 : d = chain[i]
        BY <4>2
      <4>4. i \in 1..q
        BY <1>14
      <4>5. tree'.nodes[d].exit = None
        BY <1>5, <4>3, <4>4
      <4>. QED BY <4>5 DEF IsCollapsed
    <3>. QED BY <3>1, <3>2
  <2>3. step \in 1..L \/ step = L + 1
    BY <1>2
  <2>. QED BY <2>1, <2>2, <2>3
<1>19. CurrentIsShown' <=>
         \A step \in 1..Len(trace') :
            /\ Cardinality(CurrentNodes(tree', step)) = 1
            /\ \A n \in DOMAIN tree'.nodes : NodeState(tree', n, step) = "current" =>
                  \A d \in Up(calls')[n] : ~IsCollapsed(tree', d, step)
  BY <1>12 DEF CurrentIsShown, CurrentNodes, NodeState, IsCollapsed, IsLive, Children
<1>20. \A n \in DOMAIN tree'.nodes : \A step :
          NodeState(tree', n, step) = "current" <=> n \in CurrentNodes(tree', step)
  BY DEF CurrentNodes
<1>. QED BY <1>4, <1>18, <1>19, <1>20

-----------------------------------------------------------------------------
(* The frames that the points show.                                        *)

\* The last element of a sequence, and what is left without it.
LEMMA LastProperties ==
    ASSUME NEW S, NEW s \in Seq(S), s # <<>>
    PROVE  /\ Len(s) \in Nat \ {0} /\ DOMAIN s = 1..Len(s)
           /\ Last(s) = s[Len(s)] /\ Last(s) \in S
           /\ Front(s) \in Seq(S) /\ Len(Front(s)) = Len(s) - 1
           /\ DOMAIN Front(s) = 1..Len(s) - 1
           /\ \A i \in 1..Len(s) - 1 : Front(s)[i] = s[i]
<1>1. Len(s) \in Nat \ {0} /\ DOMAIN s = 1..Len(s)
  BY LenProperties, EmptySeq
<1>2. \A i \in 1..Len(s) : s[i] \in S
  BY <1>1, ElementOfSeq
<1>3. Last(s) = s[Len(s)] /\ Last(s) \in S
  BY <1>1, <1>2 DEF Last
<1> DEFINE r == SubSeq(s, 1, Len(s) - 1)
<1>4. /\ r \in Seq(S) /\ Len(r) = Len(s) - 1
      /\ \A i \in 1..Len(s) - 1 : r[i] = s[i]
  BY <1>1, <1>2, SubSeqProperties
<1>. HIDE DEF r
<1>5. DOMAIN r = 1..Len(s) - 1
  BY <1>4, LenProperties
<1>. QED BY <1>1, <1>3, <1>4, <1>5 DEF r, Front

\* Another last element.
LEMMA SwapLastProperties ==
    ASSUME NEW S, NEW s \in Seq(S), s # <<>>, NEW e \in S
    PROVE  LET r == Append(Front(s), e)
           IN  /\ r \in Seq(S) /\ Len(r) = Len(s) /\ DOMAIN r = 1..Len(s)
               /\ \A i \in 1..Len(s) - 1 : r[i] = s[i]
               /\ r[Len(s)] = e
<1> DEFINE b == Front(s)
           r == Append(b, e)
<1>1. /\ Len(s) \in Nat \ {0}
      /\ b \in Seq(S) /\ Len(b) = Len(s) - 1
      /\ \A i \in 1..Len(s) - 1 : b[i] = s[i]
  BY LastProperties
<1>. HIDE DEF b
<1>2. /\ r \in Seq(S) /\ Len(r) = Len(b) + 1
      /\ \A i \in 1..Len(b) : r[i] = b[i]
      /\ r[Len(b) + 1] = e
  BY <1>1
<1>. HIDE DEF r
<1>3. Len(r) = Len(s) /\ Len(b) + 1 = Len(s)
  BY <1>1, <1>2
<1>4. DOMAIN r = 1..Len(s)
  BY <1>2, <1>3, LenProperties
<1>. QED BY <1>1, <1>2, <1>3, <1>4 DEF r, b

\* A frame is shown by its function and address, with its argument once that is set.
LEMMA FrameProperties ==
    ASSUME NEW f \in StackFrame
    PROVE  /\ Frame(f) \in PointFrame
           /\ Frame(f).func = f.func /\ Frame(f).addr = f.addr
           /\ Frame(f).arg = IF f.set THEN f.call ELSE None
BY DEF Frame, StackFrame, PointFrame, Arg, Id

LEMMA FramesProperties ==
    ASSUME NEW s \in Seq(StackFrame)
    PROVE  /\ Frames(s) \in Seq(PointFrame) /\ Len(Frames(s)) = Len(s)
           /\ \A i \in 1..Len(s) : /\ Frames(s)[i].func = s[i].func
                                   /\ Frames(s)[i].addr = s[i].addr
                                   /\ Frames(s)[i].arg = IF s[i].set THEN s[i].call ELSE None
<1>1. Len(s) \in Nat /\ DOMAIN s = 1..Len(s) /\ \A i \in 1..Len(s) : s[i] \in StackFrame
  BY LenProperties, ElementOfSeq
<1>2. \A i \in 1..Len(s) : /\ Frame(s[i]) \in PointFrame
                           /\ Frame(s[i]).func = s[i].func /\ Frame(s[i]).addr = s[i].addr
                           /\ Frame(s[i]).arg = IF s[i].set THEN s[i].call ELSE None
  BY <1>1, FrameProperties
<1>3. Frames(s) = [i \in 1..Len(s) |-> Frame(s[i])]
  BY <1>1 DEF Frames
<1>4. Frames(s) \in [1..Len(s) -> PointFrame]
  BY <1>2, <1>3
<1>5. Frames(s) \in Seq(PointFrame) /\ Len(Frames(s)) = Len(s)
  BY <1>1, <1>4, FunctionIsSequence
<1>. QED BY <1>2, <1>3, <1>5

\* A frame settles at its own address, or at another if it was just pushed.
LEMMA SettledProperties ==
    ASSUME NEW f \in StackFrame, NEW a \in Addr
    PROVE  /\ Settled(f, a) \in StackFrame
           /\ Settled(f, a).func = f.func /\ Settled(f, a).call = f.call
           /\ Settled(f, a).fresh = FALSE /\ Settled(f, a).set = f.set
           /\ Settled(f, a).addr = f.addr \/ f.fresh
BY DEF Settled, StackFrame

-----------------------------------------------------------------------------
(* The frames that go on.                                                  *)

\* A frame of the stack is recognized, at its own address or just after its push.
LEMMA StackFrameIsSame ==
    ASSUME NamesDiffer, Related, NEW fs, NEW i \in 1..Len(stack),
           fs[i].func = stack[i].func, fs[i].addr = stack[i].addr \/ stack[i].fresh
    PROVE  SameFrame(tree, fs, i, Len(trace) + 1)
<1>1. TreeTypeOK /\ StackIsCalls /\ LiveIsStack /\ TreeIsTruth
  BY DEF Related
<1>2. /\ Len(trace) \in Nat /\ i \in DOMAIN stack
      /\ stack[i].call \in DOMAIN calls
  BY <1>1, ShapeOfState
<1>3. tree.live[i] = [node |-> stack[i].call, addr |-> stack[i].addr,
                      hash |-> <<stack[i].func, stack[i].addr>>]
  BY <1>1, <1>2 DEF LiveIsStack
<1>4. CASE fs[i].addr = stack[i].addr
  BY <1>3, <1>4 DEF SameFrame, FrameHash
<1>5. CASE stack[i].fresh
  <2>1. /\ calls[stack[i].call].func = stack[i].func
        /\ calls[stack[i].call].enter = Len(trace)
    BY <1>1, <1>2, <1>5 DEF StackIsCalls
  <2>2. /\ tree.nodes[stack[i].call].func = calls[stack[i].call].func
        /\ tree.nodes[stack[i].call].enter = calls[stack[i].call].enter
    BY <1>1, <1>2 DEF TreeIsTruth
  <2>3. tree.live[i].node = stack[i].call /\ (Len(trace) + 1) - 1 = Len(trace)
    BY <1>2, <1>3
  <2>. QED BY <2>1, <2>2, <2>3 DEF SameFrame
<1>. QED BY <1>4, <1>5

\* The frames of a point that are those of the stack are kept, whether or not the
\* frame that a call has pushed looks like the one that has just returned.
LEMMA StackIsKept ==
    ASSUME NamesDiffer, Related, stack # <<>>,
           NEW point, NEW more \in {0, 1}, Len(point.frames) = Len(stack) + more,
           more = 1 <=> point.event = "call",
           \A i \in 1..Len(stack) :
              /\ point.frames[i].func = stack[i].func
              /\ point.frames[i].addr = stack[i].addr \/ stack[i].fresh
    PROVE  /\ Matched(tree, point.frames, Len(trace) + 1) \in Nat
           /\ Matched(tree, point.frames, Len(trace) + 1) >= Len(stack)
           /\ Kept(tree, point, Len(trace) + 1) = Len(stack)
<1> DEFINE fs == point.frames
           K == Len(stack)
           step == Len(trace) + 1
           m == Matched(tree, fs, step)
<1>1. TreeTypeOK /\ StackIsCalls /\ LiveIsStack
  BY DEF Related
<1>2. K \in Nat \ {0} /\ Len(tree.live) \in Nat
  BY <1>1, ShapeOfState
<1>3. Len(tree.live) = K \/ Len(tree.live) = K + 1
  BY <1>1 DEF LiveIsStack
<1>4. \A i \in 1..K : SameFrame(tree, fs, i, step)
  BY StackFrameIsSame
<1>5. Len(fs) = K + more
  OBVIOUS
<1>. HIDE DEF K, fs, step
<1>6. Len(fs) \in Nat /\ K \in 0..Len(fs) /\ K <= Len(tree.live)
  BY <1>2, <1>3, <1>5
<1>7. CASE m = K
  <2>1. ~LagsReturn(tree, point, m)
    <3>1. more = 0 => ~(K = Len(fs) - 1)
      BY <1>2, <1>5
    <3>2. more = 1 => point.event = "call"
      OBVIOUS
    <3>3. LagsReturn(tree, point, m) => point.event # "call" /\ m = Len(fs) - 1
      BY DEF LagsReturn, fs
    <3>. HIDE DEF m
    <3>. QED BY <1>7, <3>1, <3>2, <3>3
  <2>2. ~(point.event = "call" /\ K = Len(fs))
    BY <1>2, <1>5
  <2>. QED BY <1>2, <1>7, <2>1, <2>2 DEF Kept, K, fs, step
<1>8. CASE m = K + 1 /\ more = 1 /\ Len(tree.live) = K + 1
  <2>1. /\ m = Len(fs) /\ m = Len(tree.live) /\ m > 0 /\ m - 1 = K
        /\ m \in Nat /\ m >= K
    <3>. HIDE DEF m
    <3>. QED BY <1>2, <1>5, <1>8
  <2>2. point.event = "call"
    BY <1>8
  <2>. QED BY <2>1, <2>2 DEF Kept, K, fs, step
<1>9. m = K \/ (m = K + 1 /\ more = 1 /\ Len(tree.live) = K + 1)
  <2>1. CASE more = 0 \/ Len(tree.live) = K \/ ~SameFrame(tree, fs, K + 1, step)
    <3>1. K = Len(fs) \/ K = Len(tree.live) \/ ~SameFrame(tree, fs, K + 1, step)
      BY <1>2, <1>5, <2>1
    <3>2. m = K
      BY <1>2, <1>4, <1>6, <3>1, MatchedIs
    <3>. QED BY <3>2
  <2>2. CASE more = 1 /\ Len(tree.live) = K + 1 /\ SameFrame(tree, fs, K + 1, step)
    <3>1. K + 1 = Len(fs) /\ K + 1 \in 0..Len(fs) /\ K + 1 <= Len(tree.live)
      BY <1>2, <1>5, <2>2
    <3>2. \A i \in 1..K + 1 : SameFrame(tree, fs, i, step)
      <4>1. \A i \in 1..K + 1 : i \in 1..K \/ i = K + 1
        BY <1>2
      <4>. QED BY <1>4, <2>2, <4>1
    <3>3. m = K + 1
      BY <1>2, <1>6, <3>1, <3>2, MatchedIs
    <3>. QED BY <2>2, <3>3
  <2>. QED BY <1>3, <2>1, <2>2
<1>. QED BY <1>7, <1>8, <1>9

\* So are they at the point after a return, where the last one has another name.
LEMMA LagIsKept ==
    ASSUME NamesDiffer, Related, stack # <<>>, returned # None,
           NEW point, point.event = "step_line", Len(point.frames) = Len(stack),
           \A i \in 1..Len(stack) - 1 :
              point.frames[i].func = stack[i].func /\ point.frames[i].addr = stack[i].addr,
           point.frames[Len(stack)].func # stack[Len(stack)].func,
           point.frames[Len(stack)].addr = stack[Len(stack)].addr
    PROVE  /\ Matched(tree, point.frames, Len(trace) + 1) = Len(stack) - 1
           /\ Kept(tree, point, Len(trace) + 1) = Len(stack)
<1> DEFINE fs == point.frames
           K == Len(stack)
           step == Len(trace) + 1
           m == Matched(tree, fs, step)
<1>1. TreeTypeOK /\ StackIsCalls /\ LiveIsStack /\ TreeIsTruth
  BY DEF Related
<1>2. /\ K \in Nat \ {0} /\ Len(tree.live) \in Nat /\ K \in DOMAIN stack
      /\ stack[K].call \in DOMAIN calls
  BY <1>1, ShapeOfState
<1>3. Len(tree.live) = K + 1 /\ tree.prev = "return"
  BY <1>1 DEF LiveIsStack
<1>4. \A i \in 1..K - 1 : SameFrame(tree, fs, i, step)
  <2> TAKE i \in 1..K - 1
  <2>1. i \in 1..Len(stack)
    BY <1>2
  <2>. QED BY <2>1, StackFrameIsSame
<1>5. tree.live[K] = [node |-> stack[K].call, addr |-> stack[K].addr,
                      hash |-> <<stack[K].func, stack[K].addr>>]
  BY <1>1, <1>2 DEF LiveIsStack
<1>6. ~SameFrame(tree, fs, K, step)
  <2>1. calls[stack[K].call].func = stack[K].func
    BY <1>1, <1>2 DEF StackIsCalls
  <2>2. tree.nodes[stack[K].call].func = calls[stack[K].call].func
    BY <1>1, <1>2 DEF TreeIsTruth
  <2>. QED BY <1>5, <2>1, <2>2 DEF SameFrame, FrameHash
<1>7. Len(fs) = K /\ fs[K].addr = tree.live[K].addr /\ point.event = "step_line"
  BY <1>5
<1>. HIDE DEF K, fs, step
<1>8. m = K - 1
  <2>1. /\ Len(fs) \in Nat /\ K - 1 \in 0..Len(fs) /\ K - 1 <= Len(tree.live)
        /\ ~SameFrame(tree, fs, (K - 1) + 1, step)
    BY <1>2, <1>3, <1>6, <1>7
  <2>. QED BY <1>2, <1>4, <2>1, MatchedIs
<1>9. LagsReturn(tree, point, m)
  <2>1. m = Len(fs) - 1 /\ m + 1 = K /\ Len(fs) = Len(tree.live) - 1
    BY <1>2, <1>3, <1>7, <1>8
  <2>2. point.event # "call"
    BY <1>7
  <2>. QED BY <1>3, <1>7, <2>1, <2>2 DEF LagsReturn, fs
<1>10. ~(point.event = "call")
  BY <1>7
<1>11. Kept(tree, point, step) = Len(fs)
  BY <1>9, <1>10 DEF Kept, fs
<1>. QED BY <1>7, <1>8, <1>11 DEF K, fs, step

\* The parts of the invariant after a point.
LEMMA InvStep ==
    ASSUME NamesDiffer, TreeInv, stack # <<>>,
           NEW point, NEW more \in {0, 1}, Len(point.frames) = Len(stack) + more,
           NEW m, Grown(point, more, m, tree'), Lengthened(point, more),
           TreeTypeOK', CallsNest', StackIsCalls', LiveIsStack'
    PROVE  TreeInv'
<1>1. Related /\ CurrentIsShown
  BY DEF TreeInv, Related
<1>2. TreeIsTruth'
  BY <1>1, TruthStep
<1>3. CurrentIsShown'
  BY <1>1, CurrentStep
<1>. QED BY <1>2, <1>3 DEF TreeInv

-----------------------------------------------------------------------------
(* The steps of the program.                                               *)

(* The arguments that the frames fs show are those of the stack s.         *)
ArgsOf(fs, s) ==
    \A k \in DOMAIN fs :
       /\ fs[k].arg \in Nat => k \in DOMAIN s /\ fs[k].arg = s[k].call /\ fs[k].func = s[k].func
       /\ k \in DOMAIN s /\ fs[k].func = s[k].func => fs[k].arg \in {s[k].call, None}

(* What a point with so many frames more shows, having matched m of its    *)
(* frames, and makes of the calls and of their tree.                       *)
Shows(point, more, m) ==
    LET K == Len(stack)
    IN  /\ more \in {0, 1} /\ trace' = Append(trace, point)
        /\ Grown(point, more, m, tree') /\ Lengthened(point, more)
        /\ ArgsOf(point.frames, stack')
        /\ more = 1 => K \in DOMAIN point.frames /\ point.frames[K].arg = stack[K].call
        /\ point.event # "return" /\ (more = 1 \/ ~(K > m)) =>
              Last(point.frames).arg \in {IF more = 1 THEN Len(calls) + 1 ELSE stack[K].call, None}

\* The frames of a stack show its arguments.
LEMMA FramesShow ==
    ASSUME NamesDiffer, NEW s \in Seq(StackFrame), s # <<>>
    PROVE  /\ ArgsOf(Frames(s), s) /\ DOMAIN Frames(s) = 1..Len(s)
           /\ Last(Frames(s)).arg \in {s[Len(s)].call, None}
<1>1. /\ Len(s) \in Nat \ {0} /\ DOMAIN s = 1..Len(s)
      /\ Frames(s) \in Seq(PointFrame) /\ Len(Frames(s)) = Len(s)
  BY LastProperties, FramesProperties
<1>2. DOMAIN Frames(s) = 1..Len(s)
  BY <1>1, LenProperties
<1>3. ASSUME NEW k \in 1..Len(s)
      PROVE  /\ Frames(s)[k].func = s[k].func
             /\ Frames(s)[k].arg \in {s[k].call, None}
             /\ Frames(s)[k].arg \in Nat => Frames(s)[k].arg = s[k].call
  BY FramesProperties DEF NamesDiffer
<1>4. Last(Frames(s)).arg \in {s[Len(s)].call, None}
  BY <1>1, <1>3 DEF Last
<1>. QED BY <1>1, <1>2, <1>3, <1>4 DEF ArgsOf

\* What the invariant says, place by place.
LEMMA InvParts ==
    ASSUME NamesDiffer, TreeInv
    PROVE  /\ Related /\ None \notin Nat /\ None \notin Name
           /\ Len(stack) \in Nat /\ DOMAIN stack = 1..Len(stack)
           /\ Len(calls) \in Nat /\ DOMAIN calls = 1..Len(calls) /\ Len(trace) \in Nat
           /\ \A n \in 1..Len(calls) :
                 /\ calls[n] \in CallRecord
                 /\ calls[n].parent \in {None} \cup 1..n - 1
                 /\ calls[n].enter \in 1..Len(trace)
                 /\ calls[n].exit \in {None} \cup calls[n].enter + 1..Len(trace)
                 /\ calls[n].exit = None => \E k \in 1..Len(stack) : stack[k].call = n
           /\ \A k \in 1..Len(stack) :
                 /\ stack[k] \in StackFrame
                 /\ stack[k].call \in 1..Len(calls)
                 /\ calls[stack[k].call].func = stack[k].func
                 /\ calls[stack[k].call].exit = None
                 /\ calls[stack[k].call].parent = IF k = 1 THEN None ELSE stack[k - 1].call
                 /\ stack[k].fresh =>
                       k = Len(stack) /\ returned = None /\ calls[stack[k].call].enter = Len(trace)
           /\ \A i, j \in 1..Len(stack) : stack[i].call = stack[j].call => i = j
<1>1. TreeTypeOK /\ CallsNest /\ StackIsCalls
  BY DEF TreeInv
<1>2. /\ None \notin Nat /\ None \notin Name
      /\ Len(stack) \in Nat /\ DOMAIN stack = 1..Len(stack)
      /\ Len(calls) \in Nat /\ DOMAIN calls = 1..Len(calls) /\ Len(trace) \in Nat
      /\ \A k \in 1..Len(stack) : stack[k] \in StackFrame /\ stack[k].call \in 1..Len(calls)
      /\ \A n \in 1..Len(calls) : calls[n] \in CallRecord
  BY <1>1, ShapeOfState
<1>3. \A n \in 1..Len(calls) :
         /\ calls[n].parent \in {None} \cup 1..n - 1
         /\ calls[n].enter \in 1..Len(trace)
         /\ calls[n].exit \in {None} \cup calls[n].enter + 1..Len(trace)
         /\ calls[n].exit = None => \E k \in 1..Len(stack) : stack[k].call = n
  BY <1>1, <1>2 DEF CallsNest
<1>4. /\ \A k \in 1..Len(stack) :
            /\ calls[stack[k].call].func = stack[k].func
            /\ calls[stack[k].call].exit = None
            /\ calls[stack[k].call].parent = IF k = 1 THEN None ELSE stack[k - 1].call
            /\ stack[k].fresh =>
                  k = Len(stack) /\ returned = None /\ calls[stack[k].call].enter = Len(trace)
      /\ \A i, j \in 1..Len(stack) : stack[i].call = stack[j].call => i = j
  BY <1>1, <1>2 DEF StackIsCalls
<1>5. Related
  BY DEF TreeInv, Related
<1>. QED BY <1>2, <1>3, <1>4, <1>5

\* A line runs: the calls are as they were, and no frame is fresh any more.
LEMMA LineStep ==
    ASSUME NamesDiffer, TreeInv, stack # <<>>,
           stack' \in Seq(StackFrame), Len(stack') = Len(stack),
           \A k \in 1..Len(stack) :
              /\ stack'[k].call = stack[k].call /\ stack'[k].func = stack[k].func
              /\ ~stack'[k].fresh,
           returned' = None, calls' = calls,
           NEW point \in Point, point.event = "step_line", Len(point.frames) = Len(stack),
           trace' = Append(trace, point),
           NEW m, Grown(point, 0, m, tree'),
           \A k \in 1..Len(stack) :
              tree'.live[k] = [node |-> stack[k].call, addr |-> stack'[k].addr,
                               hash |-> <<stack[k].func, stack'[k].addr>>]
    PROVE  TreeInv' /\ Lengthened(point, 0)
<1> DEFINE K == Len(stack)
           N == Len(calls)
           L == Len(trace)
<1>1. /\ None \notin Nat /\ None \notin Name
      /\ K \in Nat /\ DOMAIN stack = 1..K
      /\ N \in Nat /\ DOMAIN calls = 1..N /\ L \in Nat
  BY InvParts
<1>2. \A n \in 1..N :
         /\ calls[n].parent \in {None} \cup 1..n - 1
         /\ calls[n].enter \in 1..L
         /\ calls[n].exit \in {None} \cup calls[n].enter + 1..L
         /\ calls[n].exit = None => \E k \in 1..K : stack[k].call = n
  BY InvParts
<1>3. /\ \A k \in 1..K :
            /\ stack[k].call \in 1..N
            /\ calls[stack[k].call].func = stack[k].func
            /\ calls[stack[k].call].exit = None
            /\ calls[stack[k].call].parent = IF k = 1 THEN None ELSE stack[k - 1].call
      /\ \A i, j \in 1..K : stack[i].call = stack[j].call => i = j
  BY InvParts
<1>4. TreeTypeOK
  BY DEF TreeInv
<1>5. trace' \in Seq(Point) /\ Len(trace') = L + 1
  BY <1>4 DEF TreeTypeOK
<1>6. tree' \in Tree /\ Len(tree'.live) = K
  BY DEF Grown
<1>7. DOMAIN stack' = 1..K /\ DOMAIN calls' = 1..N
  <2>1. DOMAIN stack' = 1..Len(stack')
    BY LenProperties
  <2>. QED BY <1>1, <2>1
<1>8. TreeTypeOK'
  BY <1>4, <1>5, <1>6 DEF TreeTypeOK
<1>. HIDE DEF K, N, L
<1>9. \A n \in 1..N : calls[n].exit # L + 1 /\ 1..L \subseteq 1..L + 1
                      /\ calls[n].enter + 1..L \subseteq calls[n].enter + 1..L + 1
  <2> TAKE n \in 1..N
  <2>1. calls[n].enter \in Nat
    BY <1>1, <1>2
  <2>2. calls[n].exit = None \/ calls[n].exit \in calls[n].enter + 1..L
    BY <1>2
  <2>3. \A e \in calls[n].enter + 1..L : e # L + 1
    BY <1>1, <2>1
  <2>4. None # L + 1
    BY <1>1
  <2>5. 1..L \subseteq 1..L + 1 /\ calls[n].enter + 1..L \subseteq calls[n].enter + 1..L + 1
    BY <1>1, <2>1
  <2>. QED BY <2>2, <2>3, <2>4, <2>5
<1>10. CallsNest'
  <2> SUFFICES ASSUME NEW n \in 1..N
               PROVE  /\ calls[n].parent \in {None} \cup 1..n - 1
                      /\ calls[n].enter \in 1..L + 1
                      /\ calls[n].exit \in {None} \cup calls[n].enter + 1..L + 1
                      /\ calls[n].exit = None => \E k \in 1..K : stack'[k].call = n
    BY <1>5, <1>7 DEF CallsNest
  <2>1. calls[n].exit = None => \E k \in 1..K : stack'[k].call = n
    BY <1>2 DEF K
  <2>. QED BY <1>2, <1>9, <2>1
<1>11. StackIsCalls'
  <2>1. ASSUME NEW k \in 1..K
        PROVE  /\ stack'[k].call \in 1..N
               /\ calls[stack'[k].call].func = stack'[k].func
               /\ calls[stack'[k].call].exit = None
               /\ calls[stack'[k].call].parent = IF k = 1 THEN None ELSE stack'[k - 1].call
               /\ ~stack'[k].fresh
    <3>1. k # 1 => k - 1 \in 1..K
      BY <1>1
    <3>2. /\ stack'[k].call = stack[k].call /\ stack'[k].func = stack[k].func
          /\ ~stack'[k].fresh
          /\ k # 1 => stack'[k - 1].call = stack[k - 1].call
      BY <3>1 DEF K
    <3>. QED BY <1>3, <3>2
  <2>2. \A i, j \in 1..K : stack'[i].call = stack'[j].call => i = j
    BY <1>3 DEF K
  <2>. QED BY <1>7, <2>1, <2>2 DEF StackIsCalls
<1>12. LiveIsStack'
  <2>1. \A k \in 1..K : tree'.live[k] = [node |-> stack'[k].call, addr |-> stack'[k].addr,
                              hash |-> <<stack'[k].func, stack'[k].addr>>]
    BY DEF K
  <2>2. \A n \in 1..N : calls'[n].exit # Len(trace')
    BY <1>5, <1>9
  <2>3. Len(stack') = K
    BY DEF K
  <2>. QED BY <1>6, <1>7, <2>1, <2>2, <2>3 DEF LiveIsStack
<1>13. Lengthened(point, 0)
  BY <1>1, <1>5 DEF Lengthened, N, L
<1>. QED BY <1>8, <1>10, <1>11, <1>12, <1>13, <1>1, InvStep

\* The frame on top, once it has settled.
LEMMA TopSettles ==
    ASSUME stack \in Seq(StackFrame), stack # <<>>, NEW settle \in Addr
    PROVE  LET s == Settled(Last(stack), settle)
               top == stack[Len(stack)]
           IN  /\ s \in StackFrame /\ s.call = top.call /\ s.func = top.func
               /\ s.fresh = FALSE /\ s.set = top.set
               /\ s.addr = top.addr \/ top.fresh
<1> DEFINE top == Last(stack)
<1>1. top \in StackFrame /\ top = stack[Len(stack)]
  BY LastProperties
<1>. HIDE DEF top
<1>2. /\ Settled(top, settle) \in StackFrame
      /\ Settled(top, settle).func = top.func /\ Settled(top, settle).call = top.call
      /\ Settled(top, settle).fresh = FALSE /\ Settled(top, settle).set = top.set
      /\ Settled(top, settle).addr = top.addr \/ top.fresh
  BY <1>1, SettledProperties
<1>. QED BY <1>1, <1>2 DEF top

\* A line of the function on top.
LEMMA StepLineStep ==
    ASSUME NamesDiffer, TreeInv, stack # <<>>,
           NEW settle \in Addr, NEW set \in BOOLEAN, StepLine(settle, set)
    PROVE  TreeInv' /\ \E point, more, m : Shows(point, more, m)
<1> DEFINE K == Len(stack)
           new == [Settled(Last(stack), settle) EXCEPT !.set = set]
           fs == Frames(stack')
           point == [event |-> "step_line", frames |-> fs]
           m == Matched(tree, fs, Len(trace) + 1)
<1>1. Related
  BY InvParts
<1>2. stack \in Seq(StackFrame)
  BY DEF TreeInv, TreeTypeOK
<1>3. /\ K \in Nat \ {0} /\ Last(stack) = stack[K] /\ Last(stack) \in StackFrame
  BY <1>2, LastProperties
<1>4. /\ new \in StackFrame /\ new.call = stack[K].call /\ new.func = stack[K].func
      /\ new.fresh = FALSE
      /\ new.addr = stack[K].addr \/ stack[K].fresh
  <2> DEFINE s == Settled(Last(stack), settle)
  <2>1. /\ s \in StackFrame /\ s.call = stack[K].call /\ s.func = stack[K].func
        /\ s.fresh = FALSE
        /\ s.addr = stack[K].addr \/ stack[K].fresh
    BY <1>2, TopSettles
  <2>2. new = [s EXCEPT !.set = set]
    OBVIOUS
  <2>. HIDE DEF new, s
  <2>3. /\ new \in StackFrame /\ new.call = s.call /\ new.func = s.func
        /\ new.fresh = s.fresh /\ new.addr = s.addr
    BY <2>1, <2>2 DEF StackFrame
  <2>. QED BY <2>1, <2>3
<1>5. stack' = Append(Front(stack), new)
  BY DEF StepLine
<1>. HIDE DEF new
<1>6. /\ stack' \in Seq(StackFrame) /\ Len(stack') = K
      /\ \A i \in 1..K - 1 : stack'[i] = stack[i]
      /\ stack'[K] = new
  BY <1>2, <1>4, <1>5, SwapLastProperties
<1>7. \A k \in 1..K : stack[k].fresh => k = K
  BY InvParts
<1>8. \A k \in 1..K : /\ stack'[k].call = stack[k].call /\ stack'[k].func = stack[k].func
                      /\ ~stack'[k].fresh
                      /\ stack'[k].addr = stack[k].addr \/ stack[k].fresh
  <2> TAKE k \in 1..K
  <2>1. CASE k = K
    BY <1>4, <1>6, <2>1
  <2>2. CASE k # K
    <3>1. k \in 1..K - 1
      BY <1>3, <2>2
    <3>2. ~stack[k].fresh
      BY <1>7, <2>2
    <3>. QED BY <1>6, <3>1, <3>2
  <2>. QED BY <2>1, <2>2
<1>9. /\ fs \in Seq(PointFrame) /\ Len(fs) = K
      /\ \A k \in 1..K : fs[k].func = stack'[k].func /\ fs[k].addr = stack'[k].addr
  BY <1>6, FramesProperties
<1>. HIDE DEF fs
<1>10. point \in Point /\ point.event = "step_line" /\ point.frames = fs
  BY <1>9 DEF Point, Event
<1>11. /\ returned' = None /\ calls' = calls /\ trace' = Append(trace, point)
       /\ tree' = Feed(tree, point, Len(trace) + 1)
  BY DEF StepLine, Emit, fs
<1>. HIDE DEF point
<1>12. /\ m \in Nat /\ m >= K /\ Kept(tree, point, Len(trace) + 1) = K
  <2>1. \A i \in 1..Len(stack) :
           /\ point.frames[i].func = stack[i].func
           /\ point.frames[i].addr = stack[i].addr \/ stack[i].fresh
    BY <1>8, <1>9, <1>10
  <2>2. Len(point.frames) = Len(stack) + 0 /\ ~(point.event = "call")
    BY <1>3, <1>9, <1>10
  <2>3. 0 \in {0, 1} /\ (0 = 1 <=> point.event = "call")
    BY <2>2
  <2>. QED BY <1>1, <1>10, <2>1, <2>2, <2>3, StackIsKept
<1>13. Grown(point, 0, m, tree')
  <2>1. Len(point.frames) = Len(stack) + 0 /\ 0 \in {0, 1}
    BY <1>3, <1>9, <1>10
  <2>2. m = Matched(tree, point.frames, Len(trace) + 1)
    BY <1>10
  <2>. HIDE DEF m
  <2>. QED BY <1>1, <1>10, <1>11, <1>12, <2>1, <2>2, TreeStep
<1>. HIDE DEF m
<1>14. ASSUME NEW k \in 1..K
       PROVE  tree'.live[k] = [node |-> stack[k].call, addr |-> stack'[k].addr,
                               hash |-> <<stack[k].func, stack'[k].addr>>]
  <2>1. ~(k > m)
    BY <1>3, <1>12
  <2>2. tree'.live[k] = [node |-> stack[k].call,
                         hash |-> FrameHash(point.frames[k]), addr |-> point.frames[k].addr]
    BY <1>13, <2>1 DEF Grown
  <2>3. FrameHash(point.frames[k]) = <<stack[k].func, stack'[k].addr>>
    BY <1>8, <1>9, <1>10 DEF FrameHash
  <2>. QED BY <1>9, <1>10, <2>2, <2>3
<1>15. \A k \in 1..Len(stack) :
          /\ stack'[k].call = stack[k].call /\ stack'[k].func = stack[k].func
          /\ ~stack'[k].fresh
  BY <1>8
<1>16. Len(point.frames) = Len(stack) /\ Len(stack') = Len(stack)
  BY <1>6, <1>9, <1>10
<1>17. TreeInv' /\ Lengthened(point, 0)
  BY <1>6, <1>10, <1>11, <1>13, <1>14, <1>15, <1>16, LineStep
<1>18. Shows(point, 0, m)
  <2>1. stack' # <<>>
    BY <1>3, <1>6, EmptySeq
  <2>2. /\ ArgsOf(point.frames, stack')
        /\ Last(point.frames).arg \in {stack'[K].call, None}
    BY <1>6, <1>10, <2>1, FramesShow DEF fs
  <2>3. stack'[K].call = stack[K].call
    BY <1>3, <1>8
  <2>. QED BY <1>11, <1>13, <1>17, <2>2, <2>3 DEF Shows
<1>. QED BY <1>17, <1>18

\* The first line after a return, whose point names the caller after its callee.
LEMMA LagLineStep ==
    ASSUME NamesDiffer, TreeInv, stack # <<>>, LagLine
    PROVE  TreeInv' /\ \E point, more, m : Shows(point, more, m)
<1> DEFINE K == Len(stack)
           own == Frame(Last(stack))
           seen == IF returned = own.func THEN own
                   ELSE [own EXCEPT !.func = returned, !.arg = Garbage]
           below == Frames(Front(stack))
           fs == Append(below, seen)
           point == [event |-> "step_line", frames |-> fs]
           m == Matched(tree, fs, Len(trace) + 1)
<1>1. Related
  BY InvParts
<1>2. stack \in Seq(StackFrame) /\ returned \in Name /\ returned # None
  BY DEF TreeInv, TreeTypeOK, LagLine
<1>3. /\ K \in Nat \ {0} /\ Last(stack) = stack[K] /\ Last(stack) \in StackFrame
      /\ Front(stack) \in Seq(StackFrame) /\ Len(Front(stack)) = K - 1
      /\ \A i \in 1..K - 1 : Front(stack)[i] = stack[i]
  BY <1>2, LastProperties
<1>4. /\ own \in PointFrame /\ own.func = stack[K].func /\ own.addr = stack[K].addr
      /\ own.arg \in {stack[K].call, None}
  BY <1>3, FrameProperties
<1>. HIDE DEF own
<1>5. /\ seen \in PointFrame /\ seen.func = returned /\ seen.addr = stack[K].addr
      /\ IF returned = stack[K].func THEN seen.arg \in {stack[K].call, None}
         ELSE seen.arg = Garbage
  BY <1>2, <1>4 DEF PointFrame, Arg
<1>6. /\ below \in Seq(PointFrame) /\ Len(below) = K - 1
      /\ \A k \in 1..K - 1 : /\ below[k].func = stack[k].func /\ below[k].addr = stack[k].addr
                             /\ below[k].arg \in {stack[k].call, None}
  BY <1>3, FramesProperties
<1>. HIDE DEF seen, below
<1>7. /\ fs \in Seq(PointFrame) /\ Len(fs) = K
      /\ \A k \in 1..K - 1 : /\ fs[k].func = stack[k].func /\ fs[k].addr = stack[k].addr
                             /\ fs[k].arg \in {stack[k].call, None}
      /\ fs[K] = seen
  BY <1>3, <1>5, <1>6
<1>. HIDE DEF fs
<1>8. point \in Point /\ point.event = "step_line" /\ point.frames = fs
  BY <1>7 DEF Point, Event
<1>9. /\ returned' = None /\ calls' = calls /\ stack' = stack /\ trace' = Append(trace, point)
      /\ tree' = Feed(tree, point, Len(trace) + 1)
  BY DEF LagLine, Emit, fs, below, seen, own
<1>. HIDE DEF point
<1>10. /\ m \in Nat /\ Kept(tree, point, Len(trace) + 1) = K
       /\ (m >= K /\ returned = stack[K].func) \/ m = K - 1
  <2>1. CASE returned = stack[K].func
    <3>1. \A i \in 1..Len(stack) :
             /\ point.frames[i].func = stack[i].func
             /\ point.frames[i].addr = stack[i].addr
      <4>1. \A i \in 1..K : i \in 1..K - 1 \/ i = K
        BY <1>3
      <4>. QED BY <1>5, <1>7, <1>8, <2>1, <4>1
    <3>2. Len(point.frames) = Len(stack) + 0 /\ ~(point.event = "call")
      BY <1>3, <1>7, <1>8
    <3>3. 0 \in {0, 1} /\ (0 = 1 <=> point.event = "call")
      BY <3>2
    <3>4. m \in Nat /\ m >= K /\ Kept(tree, point, Len(trace) + 1) = K
      BY <1>1, <1>8, <3>1, <3>2, <3>3, StackIsKept
    <3>. QED BY <2>1, <3>4
  <2>2. CASE returned # stack[K].func
    <3>1. /\ point.event = "step_line" /\ Len(point.frames) = Len(stack)
          /\ \A i \in 1..Len(stack) - 1 :
               point.frames[i].func = stack[i].func /\ point.frames[i].addr = stack[i].addr
          /\ point.frames[Len(stack)].func # stack[Len(stack)].func
          /\ point.frames[Len(stack)].addr = stack[Len(stack)].addr
      BY <1>5, <1>7, <1>8, <2>2
    <3>2. m = K - 1 /\ Kept(tree, point, Len(trace) + 1) = K
      BY <1>1, <1>2, <1>8, <3>1, LagIsKept
    <3>. HIDE DEF m
    <3>. QED BY <1>3, <3>2
  <2>. QED BY <2>1, <2>2
<1>11. Grown(point, 0, m, tree')
  <2>1. Len(point.frames) = Len(stack) + 0 /\ 0 \in {0, 1}
    BY <1>3, <1>7, <1>8
  <2>2. m = Matched(tree, point.frames, Len(trace) + 1)
    BY <1>8
  <2>. HIDE DEF m
  <2>. QED BY <1>1, <1>8, <1>9, <1>10, <2>1, <2>2, TreeStep
<1>. HIDE DEF m
<1>12. ASSUME NEW k \in 1..K
       PROVE  tree'.live[k] = [node |-> stack[k].call, addr |-> stack[k].addr,
                               hash |-> <<stack[k].func, stack[k].addr>>]
  <2>1. tree.live[k] = [node |-> stack[k].call, addr |-> stack[k].addr,
                        hash |-> <<stack[k].func, stack[k].addr>>]
    <3>1. LiveIsStack /\ k \in DOMAIN stack
      BY InvParts DEF TreeInv
    <3>. QED BY <3>1 DEF LiveIsStack
  <2>2. tree'.live[k] = IF k > m THEN tree.live[k]
                        ELSE [node |-> stack[k].call,
                              hash |-> FrameHash(point.frames[k]), addr |-> point.frames[k].addr]
    BY <1>11 DEF Grown
  <2>3. CASE k > m
    BY <2>1, <2>2, <2>3
  <2>4. CASE ~(k > m) /\ k \in 1..K - 1
    <3>1. FrameHash(point.frames[k]) = <<stack[k].func, stack[k].addr>>
      BY <1>7, <1>8, <2>4 DEF FrameHash
    <3>. QED BY <1>7, <1>8, <2>2, <2>4, <3>1
  <2>5. CASE ~(k > m) /\ k = K
    <3>1. m # K - 1
      BY <1>3, <2>5
    <3>2. point.frames[k].func = stack[k].func /\ point.frames[k].addr = stack[k].addr
      BY <1>5, <1>7, <1>8, <1>10, <2>5, <3>1
    <3>. QED BY <2>2, <2>5, <3>2 DEF FrameHash
  <2>6. k \in 1..K - 1 \/ k = K
    BY <1>3
  <2>. QED BY <2>3, <2>4, <2>5, <2>6
<1>13. \A k \in 1..Len(stack) : ~stack[k].fresh
  BY <1>2, InvParts
<1>14. Len(point.frames) = Len(stack)
  BY <1>7, <1>8
<1>15. TreeInv' /\ Lengthened(point, 0)
  BY <1>2, <1>8, <1>9, <1>11, <1>12, <1>13, <1>14, LineStep
<1>16. Shows(point, 0, m)
  <2>1. /\ DOMAIN stack = 1..K /\ DOMAIN fs = 1..K /\ K \in 1..K
        /\ \A k \in 1..K : k \in 1..K - 1 \/ k = K
    <3>1. DOMAIN stack = 1..K /\ DOMAIN fs = 1..K
      BY <1>2, <1>7, LenProperties
    <3>. QED BY <1>3, <3>1
  <2>2. Garbage \notin Nat /\ None \notin Nat
    BY DEF NamesDiffer
  <2>3. ASSUME NEW k \in 1..K
        PROVE  /\ fs[k].arg \in Nat => fs[k].arg = stack[k].call /\ fs[k].func = stack[k].func
               /\ fs[k].func = stack[k].func => fs[k].arg \in {stack[k].call, None}
    <3>1. CASE k = K
      BY <1>5, <1>7, <2>2, <3>1
    <3>2. CASE k \in 1..K - 1
      BY <1>7, <2>2, <3>2
    <3>. QED BY <2>1, <3>1, <3>2
  <2>4. ArgsOf(point.frames, stack')
    BY <1>8, <1>9, <2>1, <2>3 DEF ArgsOf
  <2>5. ~(K > m) => Last(point.frames).arg \in {stack[K].call, None}
    <3>1. ~(K > m) => returned = stack[K].func
      BY <1>3, <1>10
    <3>2. Last(point.frames) = seen
      BY <1>7, <1>8 DEF Last
    <3>. QED BY <1>5, <3>1, <3>2
  <2>. QED BY <1>9, <1>11, <1>15, <2>4, <2>5 DEF Shows
<1>. QED BY <1>15, <1>16

\* A return: the frame on top goes, and stays live in the tree for a point more.
LEMMA ReturnStep ==
    ASSUME NamesDiffer, TreeInv, stack # <<>>, NEW settle \in Addr, Return(settle)
    PROVE  TreeInv' /\ \E point, more, m : Shows(point, more, m)
<1> DEFINE K == Len(stack)
           N == Len(calls)
           L == Len(trace)
           top == Settled(Last(stack), settle)
           seen == [Frame(top) EXCEPT !.ret = top.call, !.arg = Garbage]
           below == Frames(Front(stack))
           fs == Append(below, seen)
           point == [event |-> "return", frames |-> fs]
           m == Matched(tree, fs, Len(trace) + 1)
           id == stack[K].call
<1>1. Related /\ TreeTypeOK
  BY InvParts DEF TreeInv
<1>2. stack \in Seq(StackFrame) /\ returned = None
  BY <1>1 DEF TreeTypeOK, Return
<1>3. /\ K \in Nat \ {0} /\ Last(stack) = stack[K] /\ Last(stack) \in StackFrame
      /\ Front(stack) \in Seq(StackFrame) /\ Len(Front(stack)) = K - 1
      /\ DOMAIN Front(stack) = 1..K - 1
      /\ \A i \in 1..K - 1 : Front(stack)[i] = stack[i]
  BY <1>2, LastProperties
<1>4. /\ top \in StackFrame /\ top.call = stack[K].call /\ top.func = stack[K].func
      /\ top.addr = stack[K].addr \/ stack[K].fresh
  BY <1>2, TopSettles
<1>. HIDE DEF top
<1>5. /\ seen \in PointFrame /\ seen.func = stack[K].func /\ seen.ret = id
      /\ seen.addr = stack[K].addr \/ stack[K].fresh
      /\ seen.arg = Garbage
  <2>1. Frame(top) \in PointFrame /\ Frame(top).func = top.func /\ Frame(top).addr = top.addr
    BY <1>4, FrameProperties
  <2>2. top.call \in Id /\ Garbage \in Arg
    BY <1>4 DEF StackFrame, Id, Arg
  <2> DEFINE f == Frame(top)
  <2>3. seen = [f EXCEPT !.ret = top.call, !.arg = Garbage]
    OBVIOUS
  <2>. HIDE DEF seen, f
  <2>4. f \in PointFrame /\ f.func = stack[K].func
        /\ (f.addr = stack[K].addr \/ stack[K].fresh)
    BY <1>4, <2>1 DEF f
  <2>5. seen \in PointFrame /\ seen.func = f.func /\ seen.ret = top.call /\ seen.addr = f.addr
        /\ seen.arg = Garbage
    BY <2>2, <2>3, <2>4 DEF PointFrame
  <2>. QED BY <1>4, <2>4, <2>5
<1>6. /\ below \in Seq(PointFrame) /\ Len(below) = K - 1
      /\ \A k \in 1..K - 1 : /\ below[k].func = stack[k].func /\ below[k].addr = stack[k].addr
                             /\ below[k].arg \in {stack[k].call, None}
  BY <1>3, FramesProperties
<1>. HIDE DEF seen, below
<1>7. /\ fs \in Seq(PointFrame) /\ Len(fs) = K
      /\ \A k \in 1..K - 1 : /\ fs[k].func = stack[k].func /\ fs[k].addr = stack[k].addr
                             /\ fs[k].arg \in {stack[k].call, None}
      /\ fs[K] = seen
  BY <1>3, <1>5, <1>6
<1>8. \A k \in 1..K : k \in 1..K - 1 \/ k = K
  BY <1>3
<1>. HIDE DEF fs
<1>9. point \in Point /\ point.event = "return" /\ point.frames = fs
  BY <1>7 DEF Point, Event
<1>10. /\ returned' = stack[K].func /\ stack' = Front(stack)
       /\ calls' = [calls EXCEPT ![id].exit = L + 1]
       /\ trace' = Append(trace, point)
       /\ tree' = Feed(tree, point, Len(trace) + 1)
  BY <1>4 DEF Return, Emit, fs, below, seen, top
<1>. HIDE DEF point
<1>11. m \in Nat /\ m >= K /\ Kept(tree, point, Len(trace) + 1) = K
  <2>1. \A i \in 1..Len(stack) :
           /\ point.frames[i].func = stack[i].func
           /\ point.frames[i].addr = stack[i].addr \/ stack[i].fresh
    BY <1>5, <1>7, <1>8, <1>9
  <2>2. Len(point.frames) = Len(stack) + 0 /\ ~(point.event = "call")
    BY <1>3, <1>7, <1>9
  <2>3. 0 \in {0, 1} /\ (0 = 1 <=> point.event = "call")
    BY <2>2
  <2>. QED BY <1>1, <1>9, <2>1, <2>2, <2>3, StackIsKept
<1>12. Grown(point, 0, m, tree')
  <2>1. Len(point.frames) = Len(stack) + 0 /\ 0 \in {0, 1}
    BY <1>3, <1>7, <1>9
  <2>2. m = Matched(tree, point.frames, Len(trace) + 1)
    BY <1>9
  <2>. HIDE DEF m
  <2>. QED BY <1>1, <1>9, <1>10, <1>11, <2>1, <2>2, TreeStep
<1>. HIDE DEF m
<1>13. /\ None \notin Nat /\ None \notin Name
       /\ N \in Nat /\ DOMAIN calls = 1..N /\ L \in Nat
       /\ \A n \in 1..N :
            /\ calls[n] \in CallRecord
            /\ calls[n].parent \in {None} \cup 1..n - 1
            /\ calls[n].enter \in 1..L
            /\ calls[n].exit \in {None} \cup calls[n].enter + 1..L
            /\ calls[n].exit = None => \E k \in 1..K : stack[k].call = n
  BY InvParts
<1>14. /\ \A k \in 1..K :
            /\ stack[k] \in StackFrame
            /\ stack[k].call \in 1..N
            /\ calls[stack[k].call].func = stack[k].func
            /\ calls[stack[k].call].exit = None
            /\ calls[stack[k].call].parent = IF k = 1 THEN None ELSE stack[k - 1].call
            /\ stack[k].fresh => k = K
       /\ \A i, j \in 1..K : stack[i].call = stack[j].call => i = j
  BY InvParts
<1>15. id \in 1..N /\ K \in 1..K
  BY <1>3, <1>14
<1>16. /\ tree' \in Tree /\ Len(tree'.live) = K /\ tree'.prev = "return"
       /\ \A k \in 1..K :
            tree'.live[k] = [node |-> stack[k].call,
                             hash |-> FrameHash(fs[k]), addr |-> fs[k].addr]
  <2>1. /\ tree' \in Tree /\ Len(tree'.live) = Len(fs) /\ tree'.prev = "return"
        /\ \A k \in 1..K :
             tree'.live[k] = IF k > m THEN tree.live[k]
                             ELSE [node |-> stack[k].call,
                                   hash |-> FrameHash(fs[k]), addr |-> fs[k].addr]
    BY <1>9, <1>12 DEF Grown
  <2>2. \A k \in 1..K : ~(k > m)
    BY <1>3, <1>11
  <2>. QED BY <1>7, <2>1, <2>2
<1>. HIDE DEF id, K, N, L
<1>17. /\ Len(calls') = N /\ DOMAIN calls' = 1..N /\ calls' \in Seq(CallRecord)
       /\ \A n \in 1..N :
            /\ calls'[n].func = calls[n].func /\ calls'[n].parent = calls[n].parent
            /\ calls'[n].enter = calls[n].enter
            /\ calls'[n].exit = IF n = id THEN L + 1 ELSE calls[n].exit
  <2> DEFINE e == [calls[id] EXCEPT !.exit = L + 1]
  <2>1. calls' = [calls EXCEPT ![id] = e]
    BY <1>10
  <2>2. /\ e \in CallRecord /\ e.func = calls[id].func /\ e.parent = calls[id].parent
        /\ e.enter = calls[id].enter /\ e.exit = L + 1
    BY <1>13, <1>15 DEF CallRecord, Id
  <2>. HIDE DEF e
  <2>3. calls \in Seq(CallRecord) /\ N = Len(calls)
    BY <1>1 DEF TreeTypeOK, N
  <2>4. /\ calls' \in Seq(CallRecord) /\ Len(calls') = N
        /\ \A n \in 1..N : calls'[n] = IF n = id THEN e ELSE calls[n]
    BY <1>15, <2>1, <2>2, <2>3, ExceptSeq
  <2>5. DOMAIN calls' = 1..N
    BY <2>4, LenProperties
  <2>. QED BY <2>2, <2>4, <2>5
<1>18. trace' \in Seq(Point) /\ Len(trace') = L + 1
  BY <1>1, <1>9, <1>10 DEF TreeTypeOK, L
<1>19. /\ stack' \in Seq(StackFrame) /\ Len(stack') = K - 1 /\ DOMAIN stack' = 1..K - 1
       /\ \A k \in 1..K - 1 : stack'[k] = stack[k] /\ k \in 1..K
  BY <1>3, <1>10
<1>20. returned' \in Name
  BY <1>10, <1>14, <1>15 DEF StackFrame
<1>21. TreeTypeOK'
  BY <1>16, <1>17, <1>18, <1>19, <1>20 DEF TreeTypeOK
<1>22. CallsNest'
  <2>1. ASSUME NEW n \in 1..N
        PROVE  /\ calls'[n].parent \in {None} \cup 1..n - 1
               /\ calls'[n].enter \in 1..L + 1
               /\ calls'[n].exit \in {None} \cup calls'[n].enter + 1..L + 1
               /\ calls'[n].exit = None => \E k \in 1..K - 1 : stack'[k].call = n
    <3>1. calls[n].enter \in 1..L
      BY <1>13
    <3>2. /\ calls[n].enter \in 1..L + 1 /\ L + 1 \in calls[n].enter + 1..L + 1
          /\ calls[n].enter + 1..L \subseteq calls[n].enter + 1..L + 1
      BY <1>13, <3>1
    <3>3. calls'[n].exit = None => \E k \in 1..K - 1 : stack'[k].call = n
      <4> HAVE calls'[n].exit = None
      <4>1. L + 1 # None
        BY <1>13
      <4>2. n # id /\ calls[n].exit = None
        BY <1>17, <4>1
      <4>3. PICK k \in 1..K : stack[k].call = n
        BY <1>13, <4>2
      <4>4. k \in 1..K - 1
        BY <1>8, <4>2, <4>3 DEF id
      <4>. QED BY <1>19, <4>3, <4>4
    <3>. QED BY <1>13, <1>17, <3>2, <3>3
  <2>. QED BY <1>17, <1>18, <1>19, <2>1 DEF CallsNest
<1>23. StackIsCalls'
  <2>1. ASSUME NEW k \in 1..K - 1
        PROVE  /\ stack'[k].call \in 1..N
               /\ calls'[stack'[k].call].func = stack'[k].func
               /\ calls'[stack'[k].call].exit = None
               /\ calls'[stack'[k].call].parent = IF k = 1 THEN None ELSE stack'[k - 1].call
               /\ ~stack'[k].fresh
    <3>1. k \in 1..K /\ k # K /\ (k # 1 => k - 1 \in 1..K - 1)
      BY <1>3
    <3>2. stack[k].call # id
      BY <1>14, <1>15, <3>1 DEF id
    <3>3. stack'[k] = stack[k] /\ (k # 1 => stack'[k - 1] = stack[k - 1])
      BY <1>19, <3>1
    <3>. QED BY <1>14, <1>17, <3>1, <3>2, <3>3
  <2>2. \A i, j \in 1..K - 1 : stack'[i].call = stack'[j].call => i = j
    BY <1>14, <1>19
  <2>. QED BY <1>17, <1>19, <2>1, <2>2 DEF StackIsCalls
<1>24. LiveIsStack'
  <2>1. \A k \in 1..K - 1 : tree'.live[k] = [node |-> stack'[k].call, addr |-> stack'[k].addr,
                              hash |-> <<stack'[k].func, stack'[k].addr>>]
    <3> TAKE k \in 1..K - 1
    <3>1. FrameHash(fs[k]) = <<stack[k].func, stack[k].addr>> /\ fs[k].addr = stack[k].addr
      BY <1>7 DEF FrameHash
    <3>. QED BY <1>16, <1>19, <3>1
  <2>2. tree'.live[K].node = id
    <3>1. tree'.live[K] = [node |-> stack[K].call,
                           hash |-> FrameHash(fs[K]), addr |-> fs[K].addr]
      BY <1>15, <1>16
    <3>. QED BY <3>1 DEF id
  <2>3. returned' # None
    BY <1>13, <1>20
  <2>4. calls'[id].func = returned' /\ calls'[id].exit = Len(trace')
    BY <1>10, <1>14, <1>15, <1>17, <1>18 DEF id
  <2>5. calls'[id].parent = IF stack' = <<>> THEN None ELSE Last(stack').call
    <3>1. calls'[id].parent = IF K = 1 THEN None ELSE stack[K - 1].call
      BY <1>14, <1>15, <1>17 DEF id
    <3>2. CASE K = 1
      <4>1. stack' = <<>>
        BY <1>19, <3>2, EmptySeq
      <4>. QED BY <3>1, <3>2, <4>1
    <3>3. CASE K # 1
      <4>1. K - 1 \in 1..K - 1
        BY <1>3, <3>3
      <4>2. stack' # <<>> /\ Last(stack') = stack[K - 1]
        BY <1>19, <4>1 DEF Last
      <4>. QED BY <3>1, <3>3, <4>2
    <3>. QED BY <3>2, <3>3
  <2>6. \A n \in 1..N : calls'[n].exit = Len(trace') => n = id
    <3> TAKE n \in 1..N
    <3>1. calls[n].enter \in Nat /\ calls[n].exit \in {None} \cup calls[n].enter + 1..L
      BY <1>13
    <3>2. calls[n].exit # L + 1
      BY <1>13, <3>1
    <3>. QED BY <1>17, <1>18, <3>2
  <2>7. Len(stack') + 1 = K
    BY <1>3, <1>19
  <2>. QED BY <1>15, <1>16, <1>17, <1>19, <2>1, <2>2, <2>3, <2>4, <2>5, <2>6, <2>7 DEF LiveIsStack
<1>25. Lengthened(point, 0)
  <2>1. Last(point.frames).ret = id
    <3>1. Last(fs) = seen
      BY <1>7 DEF Last
    <3>. QED BY <1>5, <1>9, <3>1
  <2>2. Len(calls') = N + 0
    BY <1>13, <1>17
  <2>. QED BY <1>9, <1>17, <1>18, <2>1, <2>2 DEF Lengthened, N, L, id, K
<1>26. Len(point.frames) = Len(stack) + 0 /\ 0 \in {0, 1}
  BY <1>3, <1>7, <1>9 DEF K
<1>27. TreeInv'
  BY <1>12, <1>21, <1>22, <1>23, <1>24, <1>25, <1>26, InvStep
<1>28. Shows(point, 0, m)
  <2>1. /\ DOMAIN stack' = 1..K - 1 /\ DOMAIN fs = 1..K /\ K \notin 1..K - 1
        /\ \A k \in 1..K - 1 : stack'[k] = stack[k]
    BY <1>3, <1>7, <1>10, LenProperties
  <2>2. Garbage \notin Nat /\ None \notin Nat
    BY DEF NamesDiffer
  <2>3. ASSUME NEW k \in 1..K
        PROVE  /\ fs[k].arg \in Nat =>
                     k \in 1..K - 1 /\ fs[k].arg = stack'[k].call /\ fs[k].func = stack'[k].func
               /\ k \in 1..K - 1 /\ fs[k].func = stack'[k].func =>
                     fs[k].arg \in {stack'[k].call, None}
    <3>1. CASE k = K
      BY <1>5, <1>7, <2>1, <2>2, <3>1
    <3>2. CASE k \in 1..K - 1
      BY <1>7, <2>1, <2>2, <3>2
    <3>. QED BY <1>8, <3>1, <3>2
  <2>4. ArgsOf(point.frames, stack')
    BY <1>9, <2>1, <2>3 DEF ArgsOf
  <2>. QED BY <1>9, <1>10, <1>12, <1>25, <2>4 DEF Shows
<1>. QED BY <1>27, <1>28

\* A call: a frame more, seen at its caller's address.
LEMMA CallStep ==
    ASSUME NamesDiffer, TreeInv, stack # <<>>, NEW f \in Func, NEW settle \in Addr,
           Call(f, settle)
    PROVE  TreeInv' /\ \E point, more, m : Shows(point, more, m)
<1> DEFINE K == Len(stack)
           N == Len(calls)
           L == Len(trace)
           caller == Settled(Last(stack), settle)
           callee == Fresh(N + 1, f, caller.addr)
           fs == Frames(stack')
           point == [event |-> "call", frames |-> fs]
           m == Matched(tree, fs, Len(trace) + 1)
           call == [func |-> f, parent |-> Last(stack).call, enter |-> L + 1, exit |-> None]
<1>1. Related /\ TreeTypeOK
  BY InvParts DEF TreeInv
<1>2. stack \in Seq(StackFrame)
  BY <1>1 DEF TreeTypeOK
<1>3. /\ K \in Nat \ {0} /\ Last(stack) = stack[K] /\ Last(stack) \in StackFrame
      /\ Front(stack) \in Seq(StackFrame) /\ Len(Front(stack)) = K - 1
      /\ \A i \in 1..K - 1 : Front(stack)[i] = stack[i]
  BY <1>2, LastProperties
<1>4. /\ None \notin Nat /\ None \notin Name
      /\ N \in Nat /\ DOMAIN calls = 1..N /\ L \in Nat
      /\ \A n \in 1..N :
           /\ calls[n] \in CallRecord
           /\ calls[n].parent \in {None} \cup 1..n - 1
           /\ calls[n].enter \in 1..L
           /\ calls[n].exit \in {None} \cup calls[n].enter + 1..L
           /\ calls[n].exit = None => \E k \in 1..K : stack[k].call = n
  BY InvParts
<1>5. /\ \A k \in 1..K :
           /\ stack[k] \in StackFrame
           /\ stack[k].call \in 1..N
           /\ calls[stack[k].call].func = stack[k].func
           /\ calls[stack[k].call].exit = None
           /\ calls[stack[k].call].parent = IF k = 1 THEN None ELSE stack[k - 1].call
           /\ stack[k].fresh => k = K
      /\ \A i, j \in 1..K : stack[i].call = stack[j].call => i = j
  BY InvParts
<1>6. /\ caller \in StackFrame /\ caller.call = stack[K].call /\ caller.func = stack[K].func
      /\ caller.fresh = FALSE /\ caller.set = stack[K].set
      /\ caller.addr = stack[K].addr \/ stack[K].fresh
  BY <1>2, TopSettles
<1>. HIDE DEF caller
<1>7. /\ callee \in StackFrame /\ callee.call = N + 1 /\ callee.func = f /\ callee.fresh = TRUE
  <2>1. caller.addr \in Addr /\ f \in Name /\ N + 1 \in Nat
    BY <1>4, <1>6 DEF StackFrame, Name
  <2>. HIDE DEF N
  <2>. QED BY <2>1 DEF Fresh, StackFrame
<1>. HIDE DEF callee
<1>8. /\ returned' = None /\ stack' = Front(stack) \o <<caller, callee>>
      /\ calls' = Append(calls, call)
      /\ trace' = Append(trace, point)
      /\ tree' = Feed(tree, point, Len(trace) + 1)
  BY DEF Call, Emit, caller, callee
<1>9. /\ stack' \in Seq(StackFrame) /\ Len(stack') = K + 1 /\ DOMAIN stack' = 1..K + 1
      /\ \A i \in 1..K - 1 : stack'[i] = stack[i]
      /\ stack'[K] = caller /\ stack'[K + 1] = callee
  <2> DEFINE two == <<caller, callee>>
             below == Front(stack)
  <2>1. two \in Seq(StackFrame) /\ Len(two) = 2 /\ two[1] = caller /\ two[2] = callee
    BY <1>6, <1>7
  <2>2. /\ stack' = below \o two /\ below \in Seq(StackFrame) /\ Len(below) = K - 1
        /\ \A i \in 1..K - 1 : below[i] = stack[i]
    BY <1>3, <1>8
  <2>. HIDE DEF two, below, K
  <2>3. /\ stack' \in Seq(StackFrame) /\ Len(stack') = Len(below) + Len(two)
        /\ \A i \in 1..Len(below) + Len(two) :
             stack'[i] = IF i <= Len(below) THEN below[i] ELSE two[i - Len(below)]
    BY <2>1, <2>2, ConcatProperties
  <2>4. Len(below) + Len(two) = K + 1 /\ K - (K - 1) = 1 /\ (K + 1) - (K - 1) = 2
    BY <1>3, <2>1, <2>2
  <2>5. stack'[K] = caller
    <3>1. K \in 1..K + 1 /\ ~(K <= K - 1)
      BY <1>3
    <3>. QED BY <2>1, <2>2, <2>3, <2>4, <3>1
  <2>6. stack'[K + 1] = callee
    <3>1. K + 1 \in 1..K + 1 /\ ~(K + 1 <= K - 1)
      BY <1>3
    <3>. QED BY <2>1, <2>2, <2>3, <2>4, <3>1
  <2>7. ASSUME NEW i \in 1..K - 1 PROVE stack'[i] = stack[i]
    <3>1. i \in 1..K + 1 /\ i <= K - 1
      BY <1>3
    <3>. QED BY <2>2, <2>3, <2>4, <3>1
  <2>8. DOMAIN stack' = 1..Len(stack')
    BY <2>3, LenProperties
  <2>. QED BY <2>3, <2>4, <2>5, <2>6, <2>7, <2>8
<1>10. \A k \in 1..K + 1 : k \in 1..K - 1 \/ k = K \/ k = K + 1
  BY <1>3
<1>11. \A k \in 1..K : k \in 1..K - 1 \/ k = K
  BY <1>3
<1>. HIDE DEF K
<1>12. \A k \in 1..K : /\ stack'[k].call = stack[k].call /\ stack'[k].func = stack[k].func
                       /\ ~stack'[k].fresh
                       /\ stack'[k].addr = stack[k].addr \/ stack[k].fresh
  <2> TAKE k \in 1..K
  <2>1. CASE k = K
    BY <1>6, <1>9, <2>1
  <2>2. CASE k \in 1..K - 1
    <3>1. k # K
      BY <1>3, <2>2
    <3>2. ~stack[k].fresh
      BY <1>5, <3>1
    <3>. QED BY <1>9, <2>2, <3>2
  <2>. QED BY <1>11, <2>1, <2>2
<1>13. /\ fs \in Seq(PointFrame) /\ Len(fs) = K + 1
       /\ \A k \in 1..K + 1 : fs[k].func = stack'[k].func /\ fs[k].addr = stack'[k].addr
  BY <1>9, FramesProperties
<1>. HIDE DEF fs
<1>14. point \in Point /\ point.event = "call" /\ point.frames = fs
  BY <1>13 DEF Point, Event
<1>. HIDE DEF point
<1>15. Len(point.frames) = Len(stack) + 1 /\ 1 \in {0, 1}
  BY <1>13, <1>14 DEF K
<1>16. m \in Nat /\ m >= K /\ Kept(tree, point, Len(trace) + 1) = K
  <2>1. \A i \in 1..Len(stack) :
           /\ point.frames[i].func = stack[i].func
           /\ point.frames[i].addr = stack[i].addr \/ stack[i].fresh
    <3>1. \A i \in 1..K : i \in 1..K + 1
      BY <1>3
    <3>. QED BY <1>12, <1>13, <1>14, <3>1 DEF K
  <2>2. 1 = 1 <=> point.event = "call"
    BY <1>14
  <2>. QED BY <1>1, <1>14, <1>15, <2>1, <2>2, StackIsKept DEF K
<1>17. Grown(point, 1, m, tree')
  <2>1. m = Matched(tree, point.frames, Len(trace) + 1)
    BY <1>14
  <2>. HIDE DEF m
  <2>. QED BY <1>1, <1>8, <1>14, <1>15, <1>16, <2>1, TreeStep DEF K
<1>. HIDE DEF m
<1>18. /\ tree' \in Tree /\ Len(tree'.live) = K + 1
       /\ \A k \in 1..K :
            tree'.live[k] = [node |-> stack[k].call,
                             hash |-> FrameHash(fs[k]), addr |-> fs[k].addr]
       /\ tree'.live[K + 1] = [node |-> N + 1,
                               hash |-> FrameHash(fs[K + 1]), addr |-> fs[K + 1].addr]
  <2>1. /\ tree' \in Tree /\ Len(tree'.live) = Len(fs)
        /\ \A k \in 1..K :
             tree'.live[k] = IF k > m THEN tree.live[k]
                             ELSE [node |-> stack[k].call,
                                   hash |-> FrameHash(fs[k]), addr |-> fs[k].addr]
        /\ tree'.live[K + 1] = [node |-> N + 1,
                                hash |-> FrameHash(fs[K + 1]), addr |-> fs[K + 1].addr]
    BY <1>14, <1>17 DEF Grown, K
  <2>2. \A k \in 1..K : ~(k > m)
    BY <1>3, <1>16
  <2>. QED BY <1>13, <2>1, <2>2
<1>. HIDE DEF N, L
<1>19. call \in CallRecord
  <2>1. f \in Name /\ Last(stack).call \in Id /\ L + 1 \in Nat
    BY <1>3, <1>4 DEF Name, StackFrame, Id
  <2>. QED BY <2>1 DEF CallRecord, Id
<1>20. /\ call.func = f /\ call.parent = stack[K].call /\ call.enter = L + 1 /\ call.exit = None
  BY <1>3
<1>. HIDE DEF call
<1>21. /\ Len(calls') = N + 1 /\ DOMAIN calls' = 1..N + 1 /\ calls' \in Seq(CallRecord)
       /\ \A n \in 1..N : calls'[n] = calls[n]
       /\ calls'[N + 1] = call
  <2>1. calls \in Seq(CallRecord) /\ N = Len(calls)
    BY <1>1 DEF TreeTypeOK, N
  <2>2. /\ calls' \in Seq(CallRecord) /\ Len(calls') = N + 1
        /\ \A n \in 1..N : calls'[n] = calls[n]
        /\ calls'[N + 1] = call
    BY <1>8, <1>19, <2>1
  <2>. QED BY <2>2, LenProperties
<1>22. /\ \A n \in 1..N + 1 : n \in 1..N \/ n = N + 1
       /\ N + 1 \in 1..N + 1 /\ 1..N \subseteq 1..N + 1 /\ N + 1 \notin 1..N
       /\ K \in 1..K /\ K + 1 \in 1..K + 1 /\ 1..K \subseteq 1..K + 1 /\ K + 1 # 1
       /\ (K + 1) - 1 = K
  BY <1>3, <1>4
<1>23. trace' \in Seq(Point) /\ Len(trace') = L + 1
  BY <1>1, <1>8, <1>14 DEF TreeTypeOK, L
<1>24. TreeTypeOK'
  BY <1>8, <1>9, <1>18, <1>21, <1>23 DEF TreeTypeOK
<1>25. \A n \in 1..N : /\ calls[n].enter \in 1..L + 1 /\ calls[n].exit # L + 1
                       /\ calls[n].enter + 1..L \subseteq calls[n].enter + 1..L + 1
  <2> TAKE n \in 1..N
  <2>1. calls[n].enter \in 1..L /\ calls[n].exit \in {None} \cup calls[n].enter + 1..L
    BY <1>4
  <2>2. \A e \in calls[n].enter + 1..L : e # L + 1
    BY <1>4, <2>1
  <2>3. None # L + 1
    BY <1>4
  <2>. QED BY <1>4, <2>1, <2>2, <2>3
<1>26. CallsNest'
  <2>1. ASSUME NEW n \in 1..N
        PROVE  /\ calls'[n].parent \in {None} \cup 1..n - 1
               /\ calls'[n].enter \in 1..L + 1
               /\ calls'[n].exit \in {None} \cup calls'[n].enter + 1..L + 1
               /\ calls'[n].exit = None => \E k \in 1..K + 1 : stack'[k].call = n
    <3>1. calls'[n].exit = None => \E k \in 1..K + 1 : stack'[k].call = n
      <4> HAVE calls'[n].exit = None
      <4>1. PICK k \in 1..K : stack[k].call = n
        BY <1>4, <1>21
      <4>2. k \in 1..K + 1 /\ stack'[k].call = n
        BY <1>12, <1>22, <4>1
      <4>. QED BY <4>2
    <3>. QED BY <1>4, <1>21, <1>25, <3>1
  <2>2. /\ call.parent \in {None} \cup 1..(N + 1) - 1
        /\ call.enter \in 1..L + 1
        /\ call.exit \in {None} \cup call.enter + 1..L + 1
        /\ \E k \in 1..K + 1 : stack'[k].call = N + 1
    <3>1. stack[K].call \in 1..(N + 1) - 1
      BY <1>4, <1>5, <1>22
    <3>2. L + 1 \in 1..L + 1
      BY <1>4
    <3>. QED BY <1>7, <1>9, <1>20, <1>22, <3>1, <3>2
  <2>3. ASSUME NEW n \in 1..N + 1
        PROVE  /\ calls'[n].parent \in {None} \cup 1..n - 1
               /\ calls'[n].enter \in 1..L + 1
               /\ calls'[n].exit \in {None} \cup calls'[n].enter + 1..L + 1
               /\ calls'[n].exit = None => \E k \in 1..K + 1 : stack'[k].call = n
    <3>1. CASE n \in 1..N
      BY <2>1, <3>1
    <3>2. CASE n = N + 1
      BY <1>21, <2>2, <3>2
    <3>. QED BY <1>22, <3>1, <3>2
  <2>. QED BY <1>9, <1>21, <1>23, <2>3 DEF CallsNest
<1>27. StackIsCalls'
  <2>1. ASSUME NEW k \in 1..K + 1
        PROVE  /\ stack'[k].call \in 1..N + 1
               /\ calls'[stack'[k].call].func = stack'[k].func
               /\ calls'[stack'[k].call].exit = None
               /\ calls'[stack'[k].call].parent = IF k = 1 THEN None ELSE stack'[k - 1].call
               /\ stack'[k].fresh => k = K + 1 /\ calls'[stack'[k].call].enter = L + 1
    <3>1. CASE k \in 1..K
      <4>1. k # 1 => k - 1 \in 1..K
        BY <1>3, <3>1
      <4>2. /\ stack'[k].call = stack[k].call /\ stack'[k].func = stack[k].func
            /\ ~stack'[k].fresh
            /\ k # 1 => stack'[k - 1].call = stack[k - 1].call
        BY <1>12, <3>1, <4>1
      <4>3. stack[k].call \in 1..N /\ calls'[stack[k].call] = calls[stack[k].call]
        BY <1>5, <1>21, <3>1
      <4>. QED BY <1>5, <1>22, <3>1, <4>2, <4>3
    <3>2. CASE k = K + 1
      <4>1. stack'[k].call = N + 1 /\ stack'[k].func = f
        BY <1>7, <1>9, <3>2
      <4>2. stack'[k - 1].call = stack[K].call /\ k # 1
        BY <1>12, <1>22, <3>2
      <4>. QED BY <1>20, <1>21, <1>22, <3>2, <4>1, <4>2
    <3>3. k \in 1..K \/ k = K + 1
      BY <1>3
    <3>. QED BY <3>1, <3>2, <3>3
  <2>2. ASSUME NEW i \in 1..K + 1, NEW j \in 1..K + 1, stack'[i].call = stack'[j].call
        PROVE  i = j
    <3>1. \A k \in 1..K : stack'[k].call = stack[k].call /\ stack'[k].call # N + 1
      BY <1>5, <1>12, <1>22
    <3>2. stack'[K + 1].call = N + 1
      BY <1>7, <1>9
    <3>3. (i \in 1..K \/ i = K + 1) /\ (j \in 1..K \/ j = K + 1)
      BY <1>3
    <3>4. CASE i \in 1..K /\ j \in 1..K
      BY <1>5, <2>2, <3>1, <3>4
    <3>5. CASE ~(i \in 1..K /\ j \in 1..K)
      BY <2>2, <3>1, <3>2, <3>3, <3>5
    <3>. QED BY <3>4, <3>5
  <2>. QED BY <1>8, <1>9, <1>21, <1>23, <2>1, <2>2 DEF StackIsCalls
<1>28. LiveIsStack'
  <2>1. ASSUME NEW k \in 1..K + 1
        PROVE  tree'.live[k] = [node |-> stack'[k].call, addr |-> stack'[k].addr,
                                hash |-> <<stack'[k].func, stack'[k].addr>>]
    <3>1. FrameHash(fs[k]) = <<stack'[k].func, stack'[k].addr>> /\ fs[k].addr = stack'[k].addr
      BY <1>13 DEF FrameHash
    <3>2. CASE k \in 1..K
      BY <1>12, <1>18, <3>1, <3>2
    <3>3. CASE k = K + 1
      <4>1. stack'[k].call = N + 1
        BY <1>7, <1>9, <3>3
      <4>. QED BY <1>18, <3>1, <3>3, <4>1
    <3>4. k \in 1..K \/ k = K + 1
      BY <1>3
    <3>. QED BY <3>2, <3>3, <3>4
  <2>2. \A n \in 1..N + 1 : calls'[n].exit # Len(trace')
    <3> TAKE n \in 1..N + 1
    <3>1. None # L + 1
      BY <1>4
    <3>. QED BY <1>20, <1>21, <1>22, <1>23, <1>25, <3>1
  <2>. QED BY <1>8, <1>9, <1>18, <1>21, <2>1, <2>2 DEF LiveIsStack
<1>29. Lengthened(point, 1)
  <2>1. point.frames[K + 1].func = f
    BY <1>7, <1>9, <1>13, <1>14, <1>22
  <2>2. ~(point.event = "return")
    BY <1>14
  <2>. QED BY <1>14, <1>20, <1>21, <1>23, <2>1, <2>2 DEF Lengthened, N, L, K
<1>30. TreeInv'
  BY <1>15, <1>17, <1>24, <1>26, <1>27, <1>28, <1>29, InvStep
<1>31. Shows(point, 1, m)
  <2>1. stack' # <<>>
    BY <1>9, <1>22, EmptySeq
  <2>2. /\ ArgsOf(point.frames, stack') /\ DOMAIN point.frames = 1..K + 1
        /\ Last(point.frames).arg \in {stack'[K + 1].call, None}
    BY <1>9, <1>14, <2>1, FramesShow DEF fs
  <2>3. stack'[K + 1].call = N + 1
    BY <1>7, <1>9
  <2>4. point.frames[K].arg = stack[K].call /\ K \in DOMAIN point.frames
    <3>1. stack[K].set
      BY <1>3 DEF Call
    <3>2. point.frames[K].arg = IF stack'[K].set THEN stack'[K].call ELSE None
      BY <1>9, <1>14, <1>22, FramesProperties DEF fs
    <3>. QED BY <1>6, <1>9, <1>22, <2>2, <3>1, <3>2
  <2>. QED BY <1>8, <1>14, <1>17, <1>29, <2>2, <2>3, <2>4 DEF Shows, N, K
<1>. QED BY <1>30, <1>31

-----------------------------------------------------------------------------
(* The arguments that the frames and the labels show.                      *)

(* How deep a call lies, as the function that Depth reads.                 *)
Deep(c) == CHOOSE depth : depth = [m \in DOMAIN c |->
              IF c[m].parent = None THEN 1 ELSE 1 + depth[c[m].parent]]

\* Where a caller comes before its callees, there is such a function.
LEMMA DeepIsDefined ==
    ASSUME NEW c, Len(c) \in Nat, DOMAIN c = 1..Len(c),
           \A n \in 1..Len(c) : c[n].parent \in {None} \cup 1..n - 1
    PROVE  \A n \in 1..Len(c) :
              Deep(c)[n] = IF c[n].parent = None THEN 1 ELSE 1 + Deep(c)[c[n].parent]
<1> DEFINE From(up, n) == IF c[n].parent = None THEN 1 ELSE 1 + up[c[n].parent]
           Is(up, n) == \A m \in 1..n : up[m] = From(up, m)
           Failing == {n \in 0..Len(c) : ~\E up : Is(up, n)}
<1>1. Failing = {}
  <2> SUFFICES ASSUME Failing # {} PROVE FALSE
    OBVIOUS
  <2>1. PICK n \in Failing : \A i \in Failing : n <= i
    <3>1. Failing \subseteq Nat
      OBVIOUS
    <3>. HIDE DEF Failing
    <3>. QED BY <3>1, LeastNatural
  <2>2. n \in 0..Len(c) /\ ~\E up : Is(up, n)
    OBVIOUS
  <2>3. n # 0
    <3>1. \A up : Is(up, 0)
      OBVIOUS
    <3>. QED BY <2>2, <3>1
  <2>4. n - 1 \in 0..Len(c) /\ ~(n <= n - 1)
    BY <2>2, <2>3
  <2>5. PICK up : Is(up, n - 1)
    BY <2>1, <2>4
  <2> DEFINE more == [m \in 1..n |-> IF m = n THEN From(up, n) ELSE up[m]]
  <2>6. ASSUME NEW m \in 1..n PROVE more[m] = From(more, m)
    <3>1. c[m].parent \in {None} \cup 1..m - 1
      BY <2>2
    <3>2. From(more, m) = From(up, m)
      <4>1. CASE c[m].parent = None
        BY <4>1
      <4>2. CASE c[m].parent # None
        <5>1. c[m].parent \in 1..n /\ c[m].parent # n
          <6>1. n \in Nat
            BY <2>2
          <6>. HIDE DEF From, Is, Failing, more
          <6>2. c[m].parent \in 1..m - 1
            BY <3>1, <4>2
          <6>. QED BY <6>1, <6>2
        <5>2. more[c[m].parent] = up[c[m].parent]
          BY <5>1
        <5>. HIDE DEF Is, Failing, more
        <5>. QED BY <5>2
      <4>. QED BY <4>1, <4>2
    <3>3. m # n => m \in 1..n - 1
      BY <2>2
    <3>4. more[m] = IF m = n THEN From(up, n) ELSE up[m]
      OBVIOUS
    <3>. HIDE DEF more, From
    <3>. QED BY <2>5, <3>2, <3>3, <3>4
  <2>. QED BY <2>2, <2>6
<1>2. Len(c) \notin Failing
  BY <1>1
<1>3. PICK up : Is(up, Len(c))
  <2>1. Len(c) \in 0..Len(c)
    OBVIOUS
  <2>. HIDE DEF Is
  <2>. QED BY <1>2, <2>1
<1> DEFINE f == [m \in 1..Len(c) |-> up[m]]
<1>4. \A m \in 1..Len(c) : From(f, m) = From(up, m)
  <2> TAKE m \in 1..Len(c)
  <2>1. c[m].parent # None => c[m].parent \in 1..Len(c)
    OBVIOUS
  <2>. QED BY <2>1
<1>5. f = [m \in 1..Len(c) |-> From(f, m)]
  BY <1>3, <1>4
<1>. HIDE DEF f
<1>6. Deep(c) = [m \in 1..Len(c) |->
            IF c[m].parent = None THEN 1 ELSE 1 + Deep(c)[c[m].parent]]
  BY <1>5 DEF Deep
<1>. QED BY <1>6

LEMMA DepthIsDeep ==
    ASSUME NEW t, NEW n
    PROVE  Depth(t, n) = Deep(t.nodes)[n]
BY DEF Depth, Deep

\* Later calls do not change how deep the earlier ones lie.
LEMMA DeepIsKept ==
    ASSUME NEW c, Len(c) \in Nat, DOMAIN c = 1..Len(c),
           NEW d, Len(d) \in Nat, DOMAIN d = 1..Len(d), Len(c) <= Len(d),
           \A n \in 1..Len(c) : c[n].parent = d[n].parent,
           \A n \in 1..Len(d) : d[n].parent \in {None} \cup 1..n - 1
    PROVE  \A n \in 1..Len(c) : Deep(d)[n] = Deep(c)[n]
<1> DEFINE Failing == {n \in 1..Len(c) : Deep(d)[n] # Deep(c)[n]}
<1> SUFFICES ASSUME Failing # {} PROVE FALSE
  OBVIOUS
<1>1. PICK n \in Failing : \A i \in Failing : n <= i
  <2>1. Failing \subseteq Nat
    OBVIOUS
  <2>. HIDE DEF Failing
  <2>. QED BY <2>1, LeastNatural
<1>2. n \in 1..Len(c) /\ n \in 1..Len(d) /\ 1..Len(c) \subseteq 1..Len(d)
  OBVIOUS
<1>3. c[n].parent = d[n].parent /\ c[n].parent \in {None} \cup 1..n - 1
  BY <1>2
<1>4. Deep(d)[n] = IF d[n].parent = None THEN 1 ELSE 1 + Deep(d)[d[n].parent]
  BY <1>2, DeepIsDefined
<1>5. \A i \in 1..Len(c) : c[i].parent \in {None} \cup 1..i - 1
  BY <1>2
<1>6. Deep(c)[n] = IF c[n].parent = None THEN 1 ELSE 1 + Deep(c)[c[n].parent]
  BY <1>2, <1>5, DeepIsDefined
<1>7. c[n].parent # None => Deep(d)[c[n].parent] = Deep(c)[c[n].parent]
  <2> HAVE c[n].parent # None
  <2>1. c[n].parent \in 1..Len(c) /\ ~(n <= c[n].parent)
    BY <1>2, <1>3
  <2>. QED BY <1>1, <2>1
<1>8. Deep(d)[n] # Deep(c)[n]
  OBVIOUS
<1>. QED BY <1>3, <1>4, <1>6, <1>7, <1>8

\* A call in a chain of callers and callees lies as deep as its place.
LEMMA DeepOfChain ==
    ASSUME NEW c, Len(c) \in Nat, DOMAIN c = 1..Len(c),
           \A n \in 1..Len(c) : c[n].parent \in {None} \cup 1..n - 1,
           NEW q \in Nat, NEW chain, None \notin Nat, Chained(c, q, chain)
    PROVE  \A j \in 1..q : Deep(c)[chain[j]] = j
<1> DEFINE Failing == {j \in 1..q : Deep(c)[chain[j]] # j}
<1> SUFFICES ASSUME Failing # {} PROVE FALSE
  OBVIOUS
<1>1. PICK j \in Failing : \A i \in Failing : j <= i
  <2>1. Failing \subseteq Nat
    OBVIOUS
  <2>. HIDE DEF Failing
  <2>. QED BY <2>1, LeastNatural
<1>2. j \in 1..q /\ Deep(c)[chain[j]] # j
  OBVIOUS
<1>3. chain[j] \in 1..Len(c) /\ c[chain[j]].parent = IF j = 1 THEN None ELSE chain[j - 1]
  BY <1>2 DEF Chained
<1> DEFINE n == chain[j]
<1>4. Deep(c)[n] = IF c[n].parent = None THEN 1 ELSE 1 + Deep(c)[c[n].parent]
  BY <1>3, DeepIsDefined
<1>5. CASE j = 1
  BY <1>2, <1>3, <1>4, <1>5
<1>6. CASE j # 1
  <2>1. j - 1 \in 1..q /\ ~(j <= j - 1)
    BY <1>2, <1>6
  <2>2. chain[j - 1] # None
    BY <2>1 DEF Chained
  <2>3. Deep(c)[chain[j - 1]] = j - 1
    BY <1>1, <2>1
  <2>4. Deep(c)[n] = 1 + (j - 1)
    BY <1>3, <1>4, <1>6, <2>2, <2>3
  <2>. QED BY <1>2, <2>4
<1>. QED BY <1>5, <1>6

(* The parts of ArgumentInv for the calls c, as deep as d says, and the    *)
(* points w.                                                               *)
OwnIn(c, d, w) ==
    /\ \A s \in DOMAIN w : \A k \in DOMAIN w[s].frames :
          w[s].frames[k].arg \in Nat => w[s].frames[k].arg \in DOMAIN c
    /\ \A n \in DOMAIN c, s \in DOMAIN w : \A k \in DOMAIN w[s].frames :
          w[s].frames[k].arg = n =>
             /\ d[n] = k /\ c[n].func = w[s].frames[k].func
             /\ c[n].enter <= s /\ (c[n].exit = None \/ s < c[n].exit)
NamedIn(c, d, w, n, s) ==
    d[n] \in DOMAIN w[s].frames /\ w[s].frames[d[n]].func = c[n].func
HeldIn(c, d, w) ==
    \A n \in DOMAIN c, s \in DOMAIN w :
       c[n].enter <= s /\ (c[n].exit = None \/ s < c[n].exit) /\ NamedIn(c, d, w, n, s)
       => w[s].frames[d[n]].arg \in {n, None}
SetIn(c, d, w) ==
    \A n, p \in DOMAIN c, s \in DOMAIN w :
       c[n].parent = p /\ c[n].enter = s =>
          NamedIn(c, d, w, p, s) /\ w[s].frames[d[p]].arg = p
ArgumentsIn(c, d, w) == OwnIn(c, d, w) /\ HeldIn(c, d, w) /\ SetIn(c, d, w)

LEMMA ArgumentsAre ==
    /\ ArgumentInv <=> ArgumentsIn(calls, Deep(tree.nodes), trace) /\ LabelsAreOwn
    /\ ArgumentInv' <=> ArgumentsIn(calls', Deep(tree'.nodes), trace') /\ LabelsAreOwn'
<1>1. /\ FramesAreOwn <=> OwnIn(calls, Deep(tree.nodes), trace)
      /\ FramesAreOwn' <=> OwnIn(calls', Deep(tree'.nodes), trace')
  BY DEF FramesAreOwn, OwnIn, Depth, Deep
<1>2. /\ ArgumentsHold <=> HeldIn(calls, Deep(tree.nodes), trace)
      /\ ArgumentsHold' <=> HeldIn(calls', Deep(tree'.nodes), trace')
  BY DEF ArgumentsHold, HeldIn, NamedIn, IsNamed, FrameOf, Depth, Deep
<1>3. /\ CallersAreSet <=> SetIn(calls, Deep(tree.nodes), trace)
      /\ CallersAreSet' <=> SetIn(calls', Deep(tree'.nodes), trace')
  BY DEF CallersAreSet, SetIn, NamedIn, IsNamed, FrameOf, Depth, Deep
<1>. QED BY <1>1, <1>2, <1>3 DEF ArgumentInv, ArgumentsIn

\* What such a point leaves of the calls, the stack and the tree, and adds to them:
\* the calls lie as deep as before, and the frames' calls where their frames are.
LEMMA StepParts ==
    ASSUME NamesDiffer, TreeInv, TreeInv', stack # <<>>,
           NEW point, NEW more, NEW m, Shows(point, more, m)
    PROVE  /\ /\ None \notin Nat
              /\ Len(stack) \in Nat /\ Len(stack) # 0 /\ DOMAIN stack = 1..Len(stack)
              /\ Len(calls) \in Nat /\ DOMAIN calls = 1..Len(calls) /\ Len(trace) \in Nat
              /\ trace \in Seq(Point) /\ DOMAIN trace = 1..Len(trace)
              /\ Len(tree.nodes) = Len(calls) /\ DOMAIN tree.nodes = 1..Len(calls)
              /\ \A n \in 1..Len(calls) :
                    /\ tree.nodes[n].parent = calls[n].parent
                    /\ calls[n].parent \in {None} \cup 1..n - 1
                    /\ calls[n].enter \in 1..Len(trace)
                    /\ calls[n].exit \in {None} \cup calls[n].enter + 1..Len(trace)
              /\ \A k \in 1..Len(stack) : stack[k].call \in 1..Len(calls)
           /\ /\ DOMAIN stack' = 1..Len(stack') /\ Len(stack') \in Nat
              /\ Len(calls') \in Nat /\ DOMAIN calls' = 1..Len(calls')
              /\ Len(tree'.nodes) = Len(calls') /\ DOMAIN tree'.nodes = 1..Len(calls')
              /\ \A n \in 1..Len(calls') :
                    /\ tree'.nodes[n].parent = calls'[n].parent
                    /\ calls'[n].parent \in {None} \cup 1..n - 1
                    /\ calls'[n].enter \in 1..Len(trace')
                    /\ calls'[n].exit \in {None} \cup calls'[n].enter + 1..Len(trace')
                    /\ calls'[n].exit = None => \E k \in 1..Len(stack') : stack'[k].call = n
              /\ \A k \in 1..Len(stack') :
                    /\ stack'[k].call \in 1..Len(calls')
                    /\ calls'[stack'[k].call].func = stack'[k].func
                    /\ calls'[stack'[k].call].exit = None
                    /\ calls'[stack'[k].call].parent = IF k = 1 THEN None ELSE stack'[k - 1].call
           /\ /\ Len(trace') = Len(trace) + 1 /\ DOMAIN trace' = 1..Len(trace) + 1
              /\ trace'[Len(trace) + 1] = point /\ \A s \in 1..Len(trace) : trace'[s] = trace[s]
           /\ /\ more \in {0, 1} /\ Len(calls') = Len(calls) + more
              /\ \A n \in 1..Len(calls) :
                    /\ calls'[n].func = calls[n].func /\ calls'[n].parent = calls[n].parent
                    /\ calls'[n].enter = calls[n].enter
                    /\ \/ calls'[n].exit = calls[n].exit
                       \/ calls[n].exit = None /\ calls'[n].exit = Len(trace) + 1
              /\ more = 1 => /\ calls'[Len(calls) + 1].parent = stack[Len(stack)].call
                            /\ calls'[Len(calls) + 1].enter = Len(trace) + 1
           /\ \A n \in 1..Len(calls) : Deep(tree'.nodes)[n] = Deep(tree.nodes)[n]
           /\ \A k \in 1..Len(stack') : Deep(tree'.nodes)[stack'[k].call] = k
<1> DEFINE K == Len(stack)
           N == Len(calls)
           L == Len(trace)
           d == Deep(tree.nodes)
           e == Deep(tree'.nodes)
<1>1. /\ None \notin Nat /\ K \in Nat /\ K # 0 /\ DOMAIN stack = 1..K
      /\ N \in Nat /\ DOMAIN calls = 1..N /\ L \in Nat
      /\ trace \in Seq(Point) /\ DOMAIN trace = 1..L
      /\ Len(tree.nodes) = N /\ DOMAIN tree.nodes = 1..N
      /\ \A n \in 1..N : tree.nodes[n].parent = calls[n].parent
                         /\ calls[n].parent \in {None} \cup 1..n - 1
                         /\ calls[n].enter \in 1..L
                         /\ calls[n].exit \in {None} \cup calls[n].enter + 1..L
      /\ \A k \in 1..K : stack[k].call \in 1..N
  <2>1. /\ None \notin Nat /\ K \in Nat /\ DOMAIN stack = 1..K
        /\ N \in Nat /\ DOMAIN calls = 1..N /\ L \in Nat
        /\ \A n \in 1..N : /\ calls[n].parent \in {None} \cup 1..n - 1
                           /\ calls[n].enter \in 1..L
                           /\ calls[n].exit \in {None} \cup calls[n].enter + 1..L
        /\ \A k \in 1..K : stack[k].call \in 1..N
    BY InvParts
  <2>2. trace \in Seq(Point) /\ stack \in Seq(StackFrame) /\ tree.nodes \in Seq(TreeNode)
    BY DEF TreeInv, TreeTypeOK, Tree
  <2>3. K # 0 /\ DOMAIN trace = 1..L /\ DOMAIN tree.nodes = 1..Len(tree.nodes)
    BY <2>2, EmptySeq, LenProperties
  <2>4. Len(tree.nodes) = N /\ \A n \in 1..N : tree.nodes[n].parent = calls[n].parent
    BY <2>1 DEF TreeInv, TreeIsTruth
  <2>. QED BY <2>1, <2>2, <2>3, <2>4
<1>2. /\ DOMAIN stack' = 1..Len(stack') /\ Len(stack') \in Nat
      /\ Len(calls') \in Nat /\ DOMAIN calls' = 1..Len(calls')
      /\ Len(tree'.nodes) = Len(calls') /\ DOMAIN tree'.nodes = 1..Len(calls')
      /\ \A n \in 1..Len(calls') :
            /\ tree'.nodes[n].parent = calls'[n].parent
            /\ calls'[n].parent \in {None} \cup 1..n - 1
            /\ calls'[n].enter \in 1..Len(trace')
            /\ calls'[n].exit \in {None} \cup calls'[n].enter + 1..Len(trace')
            /\ calls'[n].exit = None => \E k \in 1..Len(stack') : stack'[k].call = n
      /\ \A k \in 1..Len(stack') :
            /\ stack'[k].call \in 1..Len(calls') /\ calls'[stack'[k].call].func = stack'[k].func
            /\ calls'[stack'[k].call].exit = None
            /\ calls'[stack'[k].call].parent = IF k = 1 THEN None ELSE stack'[k - 1].call
  <2>1. /\ stack' \in Seq(StackFrame) /\ tree'.nodes \in Seq(TreeNode)
        /\ calls' \in Seq(CallRecord)
    BY DEF TreeInv, TreeTypeOK, Tree
  <2>2. /\ DOMAIN stack' = 1..Len(stack') /\ Len(stack') \in Nat
        /\ Len(calls') \in Nat /\ DOMAIN calls' = 1..Len(calls')
        /\ DOMAIN tree'.nodes = 1..Len(tree'.nodes)
    BY <2>1, LenProperties
  <2>3. /\ Len(tree'.nodes) = Len(calls')
        /\ \A n \in 1..Len(calls') : tree'.nodes[n].parent = calls'[n].parent
    BY <2>2 DEF TreeInv, TreeIsTruth
  <2>4. \A n \in 1..Len(calls') :
            /\ calls'[n].parent \in {None} \cup 1..n - 1
            /\ calls'[n].enter \in 1..Len(trace')
            /\ calls'[n].exit \in {None} \cup calls'[n].enter + 1..Len(trace')
            /\ calls'[n].exit = None => \E k \in 1..Len(stack') : stack'[k].call = n
    BY <2>2 DEF TreeInv, CallsNest
  <2>5. \A k \in 1..Len(stack') :
            /\ stack'[k].call \in 1..Len(calls') /\ calls'[stack'[k].call].func = stack'[k].func
            /\ calls'[stack'[k].call].exit = None
            /\ calls'[stack'[k].call].parent = IF k = 1 THEN None ELSE stack'[k - 1].call
    BY <2>2 DEF TreeInv, StackIsCalls
  <2>. QED BY <2>2, <2>3, <2>4, <2>5
<1>3. /\ Len(trace') = L + 1 /\ DOMAIN trace' = 1..L + 1
      /\ trace'[L + 1] = point /\ \A s \in 1..L : trace'[s] = trace[s]
  <2>1. trace' = Append(trace, point)
    BY DEF Shows
  <2>2. trace \in Seq(Range(trace))
    BY <1>1, SeqDef DEF Range
  <2>. QED BY <2>1, <2>2, GrowProperties
<1>4. /\ more \in {0, 1} /\ Len(calls') = N + more
      /\ \A n \in 1..N :
            /\ calls'[n].func = calls[n].func /\ calls'[n].parent = calls[n].parent
            /\ calls'[n].enter = calls[n].enter
            /\ calls'[n].exit = calls[n].exit \/ (calls[n].exit = None /\ calls'[n].exit = L + 1)
      /\ more = 1 => calls'[N + 1].parent = stack[K].call /\ calls'[N + 1].enter = L + 1
  <2>1. more \in {0, 1} /\ Lengthened(point, more)
    BY DEF Shows
  <2>2. calls[stack[K].call].exit = None
    <3>1. K \in 1..Len(stack)
      BY <1>1
    <3>. QED BY <3>1, InvParts
  <2>. QED BY <2>1, <2>2 DEF Lengthened
<1>5. \A n \in 1..N : e[n] = d[n]
  <2>1. Len(tree.nodes) <= Len(tree'.nodes)
    BY <1>1, <1>2, <1>4
  <2>2. \A n \in 1..Len(tree.nodes) : tree.nodes[n].parent = tree'.nodes[n].parent
    <3> TAKE n \in 1..Len(tree.nodes)
    <3>1. n \in 1..N /\ n \in 1..Len(calls')
      BY <1>1, <1>4
    <3>. QED BY <1>1, <1>2, <1>4, <3>1
  <2>3. \A n \in 1..Len(tree'.nodes) : tree'.nodes[n].parent \in {None} \cup 1..n - 1
    BY <1>2
  <2>4. /\ Len(tree.nodes) \in Nat /\ DOMAIN tree.nodes = 1..Len(tree.nodes)
        /\ Len(tree'.nodes) \in Nat /\ DOMAIN tree'.nodes = 1..Len(tree'.nodes)
        /\ 1..N = 1..Len(tree.nodes)
    BY <1>1, <1>2
  <2>5. \A n \in 1..Len(tree'.nodes) : tree'.nodes[n].parent \in {None} \cup 1..n - 1
    BY <1>2, <2>3
  <2>6. \A n \in 1..Len(tree.nodes) : Deep(tree'.nodes)[n] = Deep(tree.nodes)[n]
    BY <2>1, <2>2, <2>4, <2>5, DeepIsKept
  <2>. QED BY <2>4, <2>6
<1>6. \A k \in 1..Len(stack') : e[stack'[k].call] = k
  <2> DEFINE chain == [k \in 1..Len(stack') |-> stack'[k].call]
  <2>1. Chained(tree'.nodes, Len(stack'), chain)
    <3>1. ASSUME NEW k \in 1..Len(stack')
          PROVE  /\ chain[k] \in 1..Len(tree'.nodes)
                 /\ tree'.nodes[chain[k]].parent = IF k = 1 THEN None ELSE chain[k - 1]
      <4>1. k # 1 => k - 1 \in 1..Len(stack')
        BY <1>2
      <4>2. chain[k] = stack'[k].call /\ (k # 1 => chain[k - 1] = stack'[k - 1].call)
        BY <4>1
      <4>. HIDE DEF chain
      <4>3. /\ stack'[k].call \in 1..Len(tree'.nodes)
            /\ tree'.nodes[stack'[k].call].parent =
                  IF k = 1 THEN None ELSE stack'[k - 1].call
        BY <1>2
      <4>. QED BY <4>2, <4>3
    <3>. HIDE DEF chain
    <3>. QED BY <3>1 DEF Chained
  <2>2. \A k \in 1..Len(stack') : chain[k] = stack'[k].call
    OBVIOUS
  <2>. HIDE DEF chain
  <2>3. \A k \in 1..Len(stack') : e[chain[k]] = k
    <3>1. /\ Len(tree'.nodes) \in Nat /\ DOMAIN tree'.nodes = 1..Len(tree'.nodes)
          /\ \A n \in 1..Len(tree'.nodes) : tree'.nodes[n].parent \in {None} \cup 1..n - 1
          /\ Len(stack') \in Nat /\ None \notin Nat
      BY <1>1, <1>2
    <3>. QED BY <2>1, <3>1, DeepOfChain
  <2>. QED BY <2>2, <2>3
<1>. QED BY <1>1, <1>2, <1>3, <1>4, <1>5, <1>6

\* Such a point keeps ArgumentInv.
LEMMA ArgumentStep ==
    ASSUME NamesDiffer, TreeInv, TreeInv', ArgumentInv, stack # <<>>,
           NEW point, NEW more, NEW m, Shows(point, more, m)
    PROVE  ArgumentInv'
<1> DEFINE K == Len(stack)
           N == Len(calls)
           L == Len(trace)
           d == Deep(tree.nodes)
           e == Deep(tree'.nodes)
<1>1. /\ None \notin Nat /\ K \in Nat /\ K # 0 /\ DOMAIN stack = 1..K
      /\ N \in Nat /\ DOMAIN calls = 1..N /\ L \in Nat
      /\ trace \in Seq(Point) /\ DOMAIN trace = 1..L
      /\ Len(tree.nodes) = N /\ DOMAIN tree.nodes = 1..N
      /\ \A n \in 1..N : tree.nodes[n].parent = calls[n].parent
                         /\ calls[n].parent \in {None} \cup 1..n - 1
                         /\ calls[n].enter \in 1..L
                         /\ calls[n].exit \in {None} \cup calls[n].enter + 1..L
      /\ \A k \in 1..K : stack[k].call \in 1..N
  BY StepParts
<1>2. /\ DOMAIN stack' = 1..Len(stack') /\ Len(stack') \in Nat
      /\ Len(calls') \in Nat /\ DOMAIN calls' = 1..Len(calls')
      /\ Len(tree'.nodes) = Len(calls') /\ DOMAIN tree'.nodes = 1..Len(calls')
      /\ \A n \in 1..Len(calls') :
            /\ tree'.nodes[n].parent = calls'[n].parent
            /\ calls'[n].parent \in {None} \cup 1..n - 1
            /\ calls'[n].enter \in 1..Len(trace')
            /\ calls'[n].exit \in {None} \cup calls'[n].enter + 1..Len(trace')
            /\ calls'[n].exit = None => \E k \in 1..Len(stack') : stack'[k].call = n
      /\ \A k \in 1..Len(stack') :
            /\ stack'[k].call \in 1..Len(calls') /\ calls'[stack'[k].call].func = stack'[k].func
            /\ calls'[stack'[k].call].exit = None
            /\ calls'[stack'[k].call].parent = IF k = 1 THEN None ELSE stack'[k - 1].call
  BY StepParts
<1>3. /\ Len(trace') = L + 1 /\ DOMAIN trace' = 1..L + 1
      /\ trace'[L + 1] = point /\ \A s \in 1..L : trace'[s] = trace[s]
  BY StepParts
<1>4. /\ more \in {0, 1} /\ Len(calls') = N + more
      /\ \A n \in 1..N :
            /\ calls'[n].func = calls[n].func /\ calls'[n].parent = calls[n].parent
            /\ calls'[n].enter = calls[n].enter
            /\ calls'[n].exit = calls[n].exit \/ (calls[n].exit = None /\ calls'[n].exit = L + 1)
      /\ more = 1 => calls'[N + 1].parent = stack[K].call /\ calls'[N + 1].enter = L + 1
  BY StepParts
<1>5. \A n \in 1..N : e[n] = d[n]
  BY StepParts
<1>6. \A k \in 1..Len(stack') : e[stack'[k].call] = k
  BY StepParts
<1>. HIDE DEF d, e, K, N, L
<1>7. /\ OwnIn(calls, d, trace) /\ HeldIn(calls, d, trace) /\ SetIn(calls, d, trace)
      /\ \A n \in 1..N : tree.nodes[n].label \in {n, None}
  BY <1>1, ArgumentsAre DEF ArgumentsIn, LabelsAreOwn, d
<1>8. /\ \A k \in DOMAIN point.frames :
              /\ point.frames[k].arg \in Nat =>
                    /\ k \in DOMAIN stack' /\ point.frames[k].arg = stack'[k].call
                    /\ point.frames[k].func = stack'[k].func
              /\ k \in DOMAIN stack' /\ point.frames[k].func = stack'[k].func =>
                    point.frames[k].arg \in {stack'[k].call, None}
      /\ more = 1 => K \in DOMAIN point.frames /\ point.frames[K].arg = stack[K].call
      /\ point.event # "return" /\ (more = 1 \/ ~(K > m)) =>
              Last(point.frames).arg \in {IF more = 1 THEN N + 1 ELSE stack[K].call, None}
  BY DEF Shows, ArgsOf, K, N
<1>9. ASSUME NEW n \in DOMAIN calls', NEW k \in DOMAIN point.frames, point.frames[k].arg = n
      PROVE  /\ e[n] = k /\ calls'[n].func = point.frames[k].func
             /\ calls'[n].enter <= L + 1 /\ calls'[n].exit = None
  <2>1. n \in Nat
    BY <1>2
  <2>2. k \in 1..Len(stack') /\ n = stack'[k].call /\ point.frames[k].func = stack'[k].func
    BY <1>2, <1>8, <1>9, <2>1
  <2>3. calls'[n].enter <= L + 1
    BY <1>1, <1>2, <1>3
  <2>. QED BY <1>2, <1>6, <2>2, <2>3
<1>10. \A n \in DOMAIN calls' : n \in 1..N \/ (more = 1 /\ n = N + 1)
  BY <1>1, <1>2, <1>4
<1>11. \A s \in DOMAIN trace' : s \in 1..L \/ s = L + 1
  BY <1>1, <1>3
<1>12. OwnIn(calls', e, trace')
  <2>1. ASSUME NEW s \in DOMAIN trace', NEW k \in DOMAIN trace'[s].frames,
               trace'[s].frames[k].arg \in Nat
        PROVE  trace'[s].frames[k].arg \in DOMAIN calls'
    <3>1. CASE s \in 1..L
      <4>1. trace'[s].frames[k].arg \in 1..N
        BY <1>1, <1>3, <1>7, <2>1, <3>1 DEF OwnIn
      <4>. QED BY <1>1, <1>2, <1>4, <4>1
    <3>2. CASE s = L + 1
      BY <1>2, <1>3, <1>8, <2>1, <3>2
    <3>. QED BY <1>11, <3>1, <3>2
  <2>2. ASSUME NEW n \in DOMAIN calls', NEW s \in DOMAIN trace',
               NEW k \in DOMAIN trace'[s].frames, trace'[s].frames[k].arg = n
        PROVE  /\ e[n] = k /\ calls'[n].func = trace'[s].frames[k].func
               /\ calls'[n].enter <= s /\ (calls'[n].exit = None \/ s < calls'[n].exit)
    <3>1. CASE s \in 1..L
      <4>1. trace'[s] = trace[s] /\ s \in DOMAIN trace /\ n \in Nat
        BY <1>1, <1>2, <1>3, <3>1
      <4>2. n \in DOMAIN calls
        BY <1>7, <2>2, <4>1 DEF OwnIn
      <4>3. /\ d[n] = k /\ calls[n].func = trace[s].frames[k].func
            /\ calls[n].enter <= s /\ (calls[n].exit = None \/ s < calls[n].exit)
        BY <1>7, <2>2, <4>1, <4>2 DEF OwnIn
      <4>4. calls[n].exit = None => calls'[n].exit = None \/ s < calls'[n].exit
        <5>1. s < L + 1
          BY <1>1, <3>1
        <5>. QED BY <1>1, <1>4, <4>2, <5>1
      <4>. QED BY <1>1, <1>4, <1>5, <4>1, <4>2, <4>3, <4>4
    <3>2. CASE s = L + 1
      BY <1>3, <1>9, <2>2, <3>2
    <3>. QED BY <1>11, <3>1, <3>2
  <2>. QED BY <2>1, <2>2 DEF OwnIn
<1>13. HeldIn(calls', e, trace')
  <2>1. ASSUME NEW n \in DOMAIN calls', NEW s \in DOMAIN trace',
               calls'[n].enter <= s, calls'[n].exit = None \/ s < calls'[n].exit,
               NamedIn(calls', e, trace', n, s)
        PROVE  trace'[s].frames[e[n]].arg \in {n, None}
    <3>1. CASE s \in 1..L
      <4>1. trace'[s] = trace[s] /\ s \in DOMAIN trace
        BY <1>1, <1>3, <3>1
      <4>2. n \in DOMAIN calls
        <5>1. more = 1 => ~(calls'[N + 1].enter <= s)
          BY <1>1, <1>4, <3>1
        <5>. QED BY <1>1, <1>10, <2>1, <5>1
      <4>3. calls[n].exit = None \/ s < calls[n].exit
        BY <1>1, <1>4, <2>1, <4>2
      <4>4. NamedIn(calls, d, trace, n, s) /\ e[n] = d[n] /\ calls[n].enter <= s
        BY <1>1, <1>4, <1>5, <2>1, <4>1, <4>2 DEF NamedIn
      <4>. QED BY <1>7, <4>1, <4>2, <4>3, <4>4 DEF HeldIn
    <3>2. CASE s = L + 1
      <4>1. calls'[n].exit = None
        <5>1. calls'[n].exit \in {None} \cup 1..L + 1
          <6>1. /\ n \in 1..Len(calls') /\ calls'[n].enter \in 1..L + 1
                /\ calls'[n].exit \in {None} \cup calls'[n].enter + 1..L + 1
            BY <1>2, <1>3
          <6>. QED BY <1>1, <6>1
        <5>. QED BY <1>1, <2>1, <3>2, <5>1
      <4>2. PICK k \in 1..Len(stack') : stack'[k].call = n
        BY <1>2, <4>1
      <4>3. e[n] = k /\ calls'[n].func = stack'[k].func
        BY <1>2, <1>6, <4>2
      <4>4. k \in DOMAIN point.frames /\ point.frames[k].func = calls'[n].func
        BY <1>3, <2>1, <3>2, <4>3 DEF NamedIn
      <4>. QED BY <1>2, <1>3, <1>8, <3>2, <4>2, <4>3, <4>4
    <3>. QED BY <1>11, <3>1, <3>2
  <2>. QED BY <2>1 DEF HeldIn
<1>14. SetIn(calls', e, trace')
  <2>1. ASSUME NEW n \in DOMAIN calls', NEW p \in DOMAIN calls', NEW s \in DOMAIN trace',
               calls'[n].parent = p, calls'[n].enter = s
        PROVE  NamedIn(calls', e, trace', p, s) /\ trace'[s].frames[e[p]].arg = p
    <3>1. CASE n \in 1..N
      <4>1. p \in 1..N /\ calls[n].parent = p /\ calls[n].enter = s
        BY <1>1, <1>2, <1>4, <2>1, <3>1
      <4>2. s \in 1..L
        BY <1>1, <3>1, <4>1
      <4>3. NamedIn(calls, d, trace, p, s) /\ trace[s].frames[d[p]].arg = p
        <5>1. n \in DOMAIN calls /\ p \in DOMAIN calls /\ s \in DOMAIN trace
          BY <1>1, <3>1, <4>1, <4>2
        <5>. QED BY <1>7, <4>1, <5>1 DEF SetIn
      <4>. QED BY <1>3, <1>4, <1>5, <4>1, <4>2, <4>3 DEF NamedIn
    <3>2. CASE more = 1 /\ n = N + 1
      <4>1. p = stack[K].call /\ s = L + 1
        BY <1>4, <2>1, <3>2
      <4>2. K \in DOMAIN point.frames /\ point.frames[K].arg = p
        BY <1>8, <3>2, <4>1
      <4>3. e[p] = K /\ calls'[p].func = point.frames[K].func
        BY <1>9, <4>2
      <4>. QED BY <1>3, <4>1, <4>2, <4>3 DEF NamedIn
    <3>. QED BY <1>10, <3>1, <3>2
  <2>. QED BY <2>1 DEF SetIn
<1>15. LabelsAreOwn'
  <2>1. /\ \A n \in 1..N : tree'.nodes[n].label =
              IF point.event # "return" /\ more = 0 /\ ~(K > m) /\ n = stack[K].call
              THEN Last(point.frames).arg ELSE tree.nodes[n].label
        /\ more = 1 => tree'.nodes[N + 1].label = Last(point.frames).arg
    BY DEF Shows, Grown, K, N
  <2>2. more = 1 => point.event # "return"
    BY DEF Shows, Lengthened
  <2>3. ASSUME NEW n \in DOMAIN calls' PROVE tree'.nodes[n].label \in {n, None}
    <3>1. CASE n \in 1..N
      BY <1>4, <1>7, <1>8, <2>1, <3>1
    <3>2. CASE more = 1 /\ n = N + 1
      BY <1>8, <2>1, <2>2, <3>2
    <3>. QED BY <1>10, <3>1, <3>2
  <2>. QED BY <1>2, <2>3 DEF LabelsAreOwn
<1>. QED BY <1>12, <1>13, <1>14, <1>15, ArgumentsAre DEF ArgumentsIn, e

\* A call without a caller lies at depth 1, and no call lies higher.
LEMMA DeepIsPositive ==
    ASSUME NEW c, Len(c) \in Nat, DOMAIN c = 1..Len(c), None \notin Nat,
           \A n \in 1..Len(c) : c[n].parent \in {None} \cup 1..n - 1
    PROVE  \A n \in 1..Len(c) : Deep(c)[n] \in Nat \ {0}
<1> DEFINE Failing == {n \in 1..Len(c) : Deep(c)[n] \notin Nat \ {0}}
<1> SUFFICES ASSUME Failing # {} PROVE FALSE
  OBVIOUS
<1>1. PICK n \in Failing : \A i \in Failing : n <= i
  <2>1. Failing \subseteq Nat
    OBVIOUS
  <2>. HIDE DEF Failing
  <2>. QED BY <2>1, LeastNatural
<1>2. n \in 1..Len(c) /\ Deep(c)[n] \notin Nat \ {0}
  OBVIOUS
<1>3. Deep(c)[n] = IF c[n].parent = None THEN 1 ELSE 1 + Deep(c)[c[n].parent]
  BY <1>2, DeepIsDefined
<1>4. c[n].parent # None => Deep(c)[c[n].parent] \in Nat \ {0}
  <2> HAVE c[n].parent # None
  <2>1. c[n].parent \in 1..Len(c) /\ ~(n <= c[n].parent)
    BY <1>2
  <2>. QED BY <1>1, <2>1
<1>. QED BY <1>2, <1>3, <1>4

\* Where ArgumentInv holds, the panel shows the argument of a call that some point
\* before its return held.
LEMMA ArgumentsFollow ==
    ASSUME NamesDiffer, TreeInv, ArgumentInv
    PROVE  ArgumentsAreOwn
<1> DEFINE N == Len(calls)
           L == Len(trace)
           d == Deep(tree.nodes)
<1>1. /\ None \notin Nat /\ N \in Nat /\ DOMAIN calls = 1..N /\ L \in Nat
      /\ DOMAIN trace = 1..L
      /\ Len(tree.nodes) = N /\ DOMAIN tree.nodes = 1..N
      /\ \A n \in 1..N : /\ calls[n].parent \in {None} \cup 1..n - 1
                         /\ calls[n].enter \in 1..L
                         /\ calls[n].exit \in {None} \cup calls[n].enter + 1..L
                         /\ tree.nodes[n].parent = calls[n].parent
                         /\ tree.nodes[n].func = calls[n].func
                         /\ tree.nodes[n].enter = calls[n].enter
                         /\ tree.nodes[n].exit \in {None, calls[n].exit}
  <2>1. /\ None \notin Nat /\ N \in Nat /\ DOMAIN calls = 1..N /\ L \in Nat
        /\ \A n \in 1..N : /\ calls[n].parent \in {None} \cup 1..n - 1
                           /\ calls[n].enter \in 1..L
                           /\ calls[n].exit \in {None} \cup calls[n].enter + 1..L
    BY InvParts
  <2>2. trace \in Seq(Point) /\ tree.nodes \in Seq(TreeNode)
    BY DEF TreeInv, TreeTypeOK, Tree
  <2>3. DOMAIN trace = 1..L /\ DOMAIN tree.nodes = 1..Len(tree.nodes)
    BY <2>2, LenProperties
  <2>4. /\ Len(tree.nodes) = N
        /\ \A n \in 1..N : /\ tree.nodes[n].parent = calls[n].parent
                           /\ tree.nodes[n].func = calls[n].func
                           /\ tree.nodes[n].enter = calls[n].enter
                           /\ tree.nodes[n].exit \in {None, calls[n].exit}
    BY <2>1 DEF TreeInv, TreeIsTruth
  <2>. QED BY <2>1, <2>3, <2>4
<1>2. \A s \in 1..L : /\ Len(trace[s].frames) \in Nat
                       /\ DOMAIN trace[s].frames = 1..Len(trace[s].frames)
  <2> TAKE s \in 1..L
  <2>1. trace \in Seq(Point)
    BY DEF TreeInv, TreeTypeOK
  <2>2. trace[s] \in Point
    BY <2>1, ElementOfSeq
  <2>3. trace[s].frames \in Seq(PointFrame)
    BY <2>2 DEF Point
  <2>. QED BY <2>3, LenProperties
<1>3. \A n \in 1..N : d[n] \in Nat \ {0}
  <2>1. \A n \in 1..Len(tree.nodes) : tree.nodes[n].parent \in {None} \cup 1..n - 1
    BY <1>1
  <2>. QED BY <1>1, <2>1, DeepIsPositive
<1>4. \A t, n : Depth(t, n) = Deep(t.nodes)[n]
  BY DepthIsDeep
<1>. HIDE DEF N, L, d
<1>5. OwnIn(calls, d, trace) /\ HeldIn(calls, d, trace) /\ SetIn(calls, d, trace)
  BY ArgumentsAre DEF ArgumentsIn, d
<1>6. ASSUME NEW n \in 1..N, NEW s \in 1..L
      PROVE  /\ HasFrame(tree, trace[s], n) <=> NamedIn(calls, d, trace, n, s)
             /\ trace[s].frames[Depth(tree, n)] = trace[s].frames[d[n]]
  <2>1. d[n] \in 1..Len(trace[s].frames) <=> d[n] <= Len(trace[s].frames)
    BY <1>2, <1>3
  <2>. QED BY <1>1, <1>2, <1>4, <2>1 DEF HasFrame, NamedIn, d
<1>7. ASSUME NEW n \in 1..N,
             NEW s \in calls[n].enter..L, Len(trace[s].frames) >= Depth(tree, n),
             trace[s].frames[Depth(tree, n)].arg = n
      PROVE  Inspected(tree, trace, n) = n
  <2> DEFINE U == {Len(trace)} \cup {tree.nodes[c].enter : c \in Children(tree, n)}
                    \cup ({tree.nodes[n].exit} \ {None})
             upper == Min(U)
             set == {p \in tree.nodes[n].enter..upper :
                       /\ HasFrame(tree, trace[p], n)
                       /\ IsInitialized(trace[p].frames[Depth(tree, n)].arg)}
             first == Min(set)
             Own(p) == /\ p \in 1..L /\ NamedIn(calls, d, trace, n, p)
                       /\ trace[p].frames[d[n]].arg = n
                       /\ calls[n].enter <= p /\ (calls[n].exit = None \/ p < calls[n].exit)
  <2>1. Children(tree, n) \subseteq 1..N
        /\ \A c \in Children(tree, n) : calls[c].parent = n
    BY <1>1 DEF Children
  <2>2. U \subseteq Nat /\ U # {} /\ L \in U
    <3>1. \A c \in Children(tree, n) : tree.nodes[c].enter \in Nat
      BY <1>1, <2>1
    <3>2. tree.nodes[n].exit # None => tree.nodes[n].exit \in Nat
      BY <1>1
    <3>. QED BY <1>1, <3>1, <3>2 DEF L
  <2>3. upper \in U /\ upper <= L
    <3>. HIDE DEF U
    <3>. QED BY <2>2, MinProperties
  <2>4. ASSUME NEW p \in 1..L, d[n] \in DOMAIN trace[p].frames,
               trace[p].frames[d[n]].arg = n
        PROVE  Own(p)
    <3>1. /\ calls[n].func = trace[p].frames[d[n]].func
          /\ calls[n].enter <= p /\ (calls[n].exit = None \/ p < calls[n].exit)
      <4>1. n \in DOMAIN calls /\ p \in DOMAIN trace
        BY <1>1
      <4>. HIDE DEF U, upper, set, first, Own
      <4>. QED BY <1>5, <2>4, <4>1 DEF OwnIn
    <3>. QED BY <2>4, <3>1 DEF NamedIn
  <2>. HIDE DEF Own
  <2>5. s \in 1..L /\ d[n] \in DOMAIN trace[s].frames /\ trace[s].frames[d[n]].arg = n
    <3>1. s \in 1..L
      BY <1>1, <1>7
    <3>2. d[n] \in 1..Len(trace[s].frames)
      <4>1. Len(trace[s].frames) \in Nat
        BY <1>2, <3>1
      <4>2. Len(trace[s].frames) >= d[n]
        BY <1>4, <1>7 DEF d
      <4>. QED BY <1>3, <4>1, <4>2
    <3>. QED BY <1>2, <1>4, <1>7, <3>1, <3>2 DEF d
  <2>6. \E w : Own(w) /\ w <= upper
    <3>1. CASE upper = L \/ upper = tree.nodes[n].exit
      <4>1. Own(s)
        BY <2>4, <2>5
      <4>2. s <= upper
        <5>1. s <= L
          BY <1>1, <2>5
        <5>2. upper = tree.nodes[n].exit /\ upper # L => upper = calls[n].exit /\ calls[n].exit # None
          BY <1>1, <2>2, <2>3
        <5>3. calls[n].exit # None => s < calls[n].exit
          BY <4>1 DEF Own
        <5>. HIDE DEF upper
        <5>4. calls[n].exit # None => calls[n].exit \in Nat
          BY <1>1
        <5>. QED BY <1>1, <2>5, <3>1, <5>1, <5>2, <5>3, <5>4
      <4>. QED BY <4>1, <4>2
    <3>2. CASE \E c \in Children(tree, n) : upper = tree.nodes[c].enter
      <4>1. PICK c \in Children(tree, n) : upper = tree.nodes[c].enter
        BY <3>2
      <4>. HIDE DEF upper
      <4>2. c \in 1..N /\ calls[c].parent = n /\ calls[c].enter = upper /\ upper \in 1..L
        BY <1>1, <2>1, <4>1
      <4>3. NamedIn(calls, d, trace, n, upper) /\ trace[upper].frames[d[n]].arg = n
        BY <1>1, <1>5, <4>2 DEF SetIn
      <4>4. Own(upper)
        BY <2>4, <4>2, <4>3 DEF NamedIn
      <4>. QED BY <4>2, <4>4
    <3>. QED BY <2>3, <3>1, <3>2 DEF L
  <2>7. PICK w : Own(w) /\ w <= upper
    BY <2>6
  <2>8. upper \in Nat
    BY <2>2, <2>3
  <2>. HIDE DEF upper
  <2>9. tree.nodes[n].enter = calls[n].enter /\ calls[n].enter \in 1..L
    BY <1>1
  <2>10. w \in set
    <3>1. w \in tree.nodes[n].enter..upper
      BY <2>7, <2>8, <2>9 DEF Own
    <3>2. w \in 1..L /\ NamedIn(calls, d, trace, n, w) /\ trace[w].frames[d[n]].arg = n
      BY <2>7 DEF Own
    <3>3. HasFrame(tree, trace[w], n) /\ trace[w].frames[Depth(tree, n)].arg = n
      BY <1>6, <3>2
    <3>4. n # None
      BY <1>1
    <3>. QED BY <3>1, <3>3, <3>4 DEF IsInitialized
  <2>11. set \subseteq Nat
    BY <2>8, <2>9
  <2>12. first \in set /\ first <= w
    <3>. HIDE DEF set
    <3>. QED BY <2>10, <2>11, MinProperties
  <2>13. /\ first \in tree.nodes[n].enter..upper /\ HasFrame(tree, trace[first], n)
         /\ trace[first].frames[Depth(tree, n)].arg # None
    BY <2>12 DEF IsInitialized
  <2>14. SettledEntryStep(tree, trace, n) = first
    BY <2>10 DEF SettledEntryStep, upper
  <2>. HIDE DEF first, set
  <2>15. first \in 1..L /\ calls[n].enter <= first
    BY <1>1, <2>3, <2>8, <2>9, <2>13
  <2>16. calls[n].exit = None \/ first < calls[n].exit
    <3>1. w \in Nat /\ (calls[n].exit = None \/ w < calls[n].exit)
      BY <2>7 DEF Own
    <3>2. calls[n].exit # None => calls[n].exit \in Nat
      BY <1>1
    <3>. QED BY <2>12, <2>15, <3>1, <3>2
  <2>17. NamedIn(calls, d, trace, n, first)
    BY <1>6, <2>13, <2>15
  <2>18. trace[first].frames[d[n]].arg \in {n, None}
    BY <1>1, <1>5, <2>15, <2>16, <2>17 DEF HeldIn
  <2>19. trace[first].frames[Depth(tree, n)].arg = n
    BY <1>6, <2>13, <2>15, <2>18
  <2>. QED BY <2>13, <2>14, <2>19 DEF Inspected
<1>8. \A n \in 1..N : tree.nodes[n].label \in {n, None}
  BY <1>1 DEF ArgumentInv, LabelsAreOwn
<1>9. ASSUME NEW n \in 1..N,
             \E s \in calls[n].enter .. L :
                 /\ trace[s].event # "return"
                 /\ Len(trace[s].frames) >= Depth(tree, n)
                 /\ trace[s].frames[Depth(tree, n)].arg = n
      PROVE  Inspected(tree, trace, n) = n
  BY <1>7, <1>9
<1>. QED BY <1>1, <1>8, <1>9 DEF ArgumentsAreOwn, L

-----------------------------------------------------------------------------
(* SumOver, as the function that it reads: the least of the set first.     *)
Total(f, S) == CHOOSE total : total = [T \in SUBSET S |->
                  IF T = {} THEN 0 ELSE LET s == Min(T) IN f[s] + total[T \ {s}]]

SumFrom(total, f, T) == IF T = {} THEN 0 ELSE f[Min(T)] + total[T \ {Min(T)}]
Sums(total, f, S) == \A T \in SUBSET S : total[T] = SumFrom(total, f, T)
Among(S, N) == N \in Nat /\ S \subseteq 1..N

\* There is such a function.
LEMMA TotalIsDefined ==
    ASSUME NEW f, NEW N, NEW S, Among(S, N)
    PROVE  Sums(Total(f, S), f, S)
<1> DEFINE From(up, T) == IF T = {} THEN 0 ELSE f[Min(T)] + up[T \ {Min(T)}]
           Is(up, i) == \A T \in SUBSET S : T \subseteq N + 1 - i..N => up[T] = From(up, T)
           Failing == {i \in 0..N : ~\E up : Is(up, i)}
<1>0. N \in Nat /\ S \subseteq 1..N
  BY DEF Among
<1>. USE <1>0
<1>1. ASSUME NEW i \in 0..N, NEW T \in SUBSET S, T \subseteq N + 1 - i..N, T # {}
      PROVE  /\ i # 0 /\ T \ {Min(T)} \in SUBSET S
             /\ T \ {Min(T)} \subseteq N + 1 - (i - 1)..N
  <2>1. T \subseteq Nat
    BY <1>1
  <2>2. Min(T) \in T /\ \A s \in T : Min(T) <= s
    BY <1>1, <2>1, MinProperties
  <2>3. i # 0
    <3>1. Min(T) \in N + 1 - i..N
      BY <1>1, <2>2
    <3>. HIDE DEF Failing, Is, From
    <3>. QED BY <3>1
  <2>4. ASSUME NEW s \in T, s # Min(T) PROVE s \in N + 1 - (i - 1)..N
    <3>1. s \in N + 1 - i..N /\ Min(T) \in N + 1 - i..N /\ Min(T) <= s
      BY <1>1, <2>2
    <3>. QED BY <2>4, <3>1
  <2>. QED BY <2>3, <2>4
<1>2. Failing = {}
  <2> SUFFICES ASSUME Failing # {} PROVE FALSE
    OBVIOUS
  <2>1. PICK i \in Failing : \A j \in Failing : i <= j
    <3>1. Failing \subseteq Nat
      OBVIOUS
    <3>. HIDE DEF Failing
    <3>. QED BY <3>1, LeastNatural
  <2>2. i \in 0..N /\ ~\E up : Is(up, i)
    OBVIOUS
  <2>3. i # 0
    <3>1. ASSUME i = 0, NEW T \in SUBSET S, T \subseteq N + 1 - i..N PROVE T = {}
      BY <1>1, <3>1
    <3>2. i = 0 => Is([T \in SUBSET S |-> 0], i)
      BY <3>1
    <3>. QED BY <2>2, <3>2
  <2>4. i - 1 \in 0..N /\ ~(i <= i - 1)
    BY <2>2, <2>3
  <2>5. PICK up : Is(up, i - 1)
    BY <2>1, <2>4
  <2> DEFINE more == [T \in SUBSET S |-> From(up, T)]
  <2>6. ASSUME NEW T \in SUBSET S, T \subseteq N + 1 - i..N PROVE more[T] = From(more, T)
    <3>1. CASE T = {}
      BY <3>1
    <3>2. CASE T # {}
      <4> DEFINE R == T \ {Min(T)}
      <4>1. R \in SUBSET S /\ R \subseteq N + 1 - (i - 1)..N
        BY <1>1, <2>2, <2>6, <3>2
      <4>2. more[R] = up[R]
        BY <2>5, <4>1
      <4>3. more[T] = f[Min(T)] + up[R]
        BY <3>2
      <4>. HIDE DEF more, R
      <4>. QED BY <3>2, <4>2, <4>3 DEF R
    <3>. QED BY <3>1, <3>2
  <2>. QED BY <2>2, <2>6
<1>3. N \notin Failing /\ N \in 0..N
  <2>. HIDE DEF Failing
  <2>. QED BY <1>2
<1>4. PICK up : Is(up, N)
  BY <1>3
<1>5. \A T \in SUBSET S : T \subseteq N + 1 - N..N
  OBVIOUS
<1> DEFINE g == [T \in SUBSET S |-> up[T]]
<1>6. \A T \in SUBSET S : From(g, T) = From(up, T)
  OBVIOUS
<1>7. g = [T \in SUBSET S |-> From(g, T)]
  BY <1>4, <1>5, <1>6
<1>. HIDE DEF g
<1>8. Total(f, S) = [T \in SUBSET S |->
         IF T = {} THEN 0 ELSE LET s == Min(T) IN f[s] + Total(f, S)[T \ {s}]]
  BY <1>7 DEF Total
<1>. HIDE DEF Failing, Is
<1>. QED BY <1>8 DEF SumFrom, Sums

LEMMA SumIsTotal ==
    ASSUME NEW f, NEW S
    PROVE  SumOver(f, S) = Total(f, S)[S]
BY DEF SumOver, Total


\* The terms of a sum after the least.
LEMMA SumRest ==
    ASSUME NEW N, NEW S, Among(S, N), NEW T, T \in SUBSET S, T # {}
    PROVE  /\ Min(T) \in T /\ Min(T) \in 1..N
           /\ \A s \in T : Min(T) <= s
           /\ T \ {Min(T)} \in SUBSET S
           /\ T \ {Min(T)} # {} => Min(T) < Min(T \ {Min(T)})
<1>1. N \in Nat /\ T \subseteq 1..N /\ T \subseteq Nat
  BY DEF Among
<1>2. Min(T) \in T /\ \A s \in T : Min(T) <= s
  BY <1>1, MinProperties
<1>3. ASSUME T \ {Min(T)} # {} PROVE Min(T) < Min(T \ {Min(T)})
  <2> DEFINE R == T \ {Min(T)}
  <2>1. R \subseteq Nat
    BY <1>1
  <2>2. R # {}
    BY <1>3
  <2>. HIDE DEF R
  <2>3. Min(R) \in R
    BY <2>1, <2>2, MinProperties
  <2>4. Min(R) \in T /\ Min(R) # Min(T)
    BY <2>3 DEF R
  <2>5. Min(T) <= Min(R) /\ Min(T) \in Nat /\ Min(R) \in Nat
    BY <1>1, <1>2, <2>4
  <2>6. Min(T) < Min(R)
    BY <2>4, <2>5
  <2>. QED BY <2>6 DEF R
<1>. QED BY <1>1, <1>2, <1>3

\* A sum of naturals is one.
LEMMA TotalIsNatural ==
    ASSUME NEW N, NEW S, Among(S, N), NEW g, NEW G, Sums(G, g, S),
           \A s \in S : g[s] \in Nat,
           NEW T, T \in SUBSET S
    PROVE  G[T] \in Nat
<1> DEFINE Bad == {U \in SUBSET S : U # {} /\ G[U] \notin Nat}
           Least == {Min(U) : U \in Bad}
<1>1. ASSUME Bad # {} PROVE FALSE
  <2>1. Least \subseteq 1..N /\ Least # {} /\ N \in Nat
    <3>1. \A U \in Bad : Min(U) \in 1..N
      BY SumRest
    <3>. QED BY <1>1, <3>1 DEF Among
  <2>2. Least \subseteq Int /\ N \in Int /\ \A x \in Least : x <= N
    <3>. HIDE DEF Least
    <3>. QED BY <2>1
  <2>3. PICK x \in Least : \A y \in Least : y <= x
    <3>. HIDE DEF Least
    <3>. QED BY <2>1, <2>2, GreatestInteger
  <2>4. PICK U \in Bad : x = Min(U)
    BY <2>3
  <2>5. U \in SUBSET S /\ U # {} /\ G[U] \notin Nat
    BY <2>4
  <2> DEFINE R == U \ {Min(U)}
  <2>6. /\ Min(U) \in U /\ Min(U) \in 1..N
        /\ R \in SUBSET S /\ (R # {} => Min(U) < Min(R))
    BY <2>5, SumRest
  <2>7. G[U] = g[Min(U)] + G[R]
    BY <2>5 DEF Sums, SumFrom
  <2>8. G[R] \notin Nat
    BY <2>5, <2>6, <2>7
  <2>9. R # {}
    <3>1. R = {} => G[R] = 0
      BY <2>6 DEF Sums, SumFrom
    <3>. QED BY <2>8, <3>1
  <2>10. R \in Bad
    BY <2>6, <2>8, <2>9
  <2>11. Min(R) \in Least
    BY <2>10
  <2>12. Min(R) <= Min(U)
    BY <2>3, <2>4, <2>11
  <2>13. Min(R) \in 1..N
    <3>. HIDE DEF Bad, Least, R
    <3>. QED BY <2>6, <2>9, SumRest
  <2>. HIDE DEF Bad, Least, R
  <2>. QED BY <2>1, <2>6, <2>9, <2>12, <2>13
<1>2. T = {} => G[T] = 0
  BY DEF Sums, SumFrom
<1>. QED BY <1>1, <1>2

\* The terms before one of them, and that one, are no more than the sum.
LEMMA TotalOfEarlier ==
    ASSUME NEW N, NEW S, Among(S, N), NEW g, NEW G, Sums(G, g, S),
           \A s \in S : g[s] \in Nat,
           NEW c \in S, NEW T, T = {s \in S : s < c},
           NEW f, NEW F, Sums(F, f, T), \A s \in T : f[s] = g[s]
    PROVE  F[T] + g[c] <= G[S]
<1> DEFINE Early(U) == {s \in U : s < c}
           Bad == {U \in SUBSET S : c \in U /\ ~(F[Early(U)] + g[c] <= G[U])}
           Least == {Min(U) : U \in Bad}
<1>0. \A s \in S : s \in Nat
  BY DEF Among
<1>4. Among(T, N)
  BY DEF Among
<1>5. \A V \in SUBSET T : F[V] \in Nat
  BY <1>4, TotalIsNatural
<1>6. \A U \in SUBSET S : Early(U) \in SUBSET T
  OBVIOUS
<1>1. ASSUME Bad # {} PROVE FALSE
  <2>1. Least \subseteq 1..N /\ Least # {} /\ N \in Nat
    <3>1. \A U \in Bad : Min(U) \in 1..N
      BY SumRest
    <3>. QED BY <1>1, <3>1 DEF Among
  <2>2. Least \subseteq Int /\ N \in Int /\ \A x \in Least : x <= N
    <3>. HIDE DEF Least
    <3>. QED BY <2>1
  <2>3. PICK x \in Least : \A y \in Least : y <= x
    <3>. HIDE DEF Least
    <3>. QED BY <2>1, <2>2, GreatestInteger
  <2>4. PICK U \in Bad : x = Min(U)
    BY <2>3
  <2>5. U \in SUBSET S /\ c \in U /\ ~(F[Early(U)] + g[c] <= G[U])
    BY <2>4
  <2> DEFINE m == Min(U)
             R == U \ {m}
  <2>6. /\ m \in U /\ m \in 1..N /\ \A s \in U : m <= s
        /\ R \in SUBSET S /\ (R # {} => m < Min(R))
    BY <2>5, SumRest
  <2>7. G[U] = g[m] + G[R]
    BY <2>5 DEF Sums, SumFrom
  <2>8. G[R] \in Nat /\ g[m] \in Nat /\ g[c] \in Nat /\ G[U] \in Nat
    BY <2>5, <2>6, TotalIsNatural
  <2>9. CASE c = m
    <3>1. Early(U) = {}
      <4>1. \A s \in U : ~(s < c)
        BY <1>0, <2>5, <2>6, <2>9
      <4>. QED BY <4>1
    <3>2. F[Early(U)] = 0
      BY <3>1 DEF Sums, SumFrom
    <3>. HIDE DEF Bad, Least, R, m, Early
    <3>. QED BY <2>5, <2>7, <2>8, <2>9, <3>2
  <2>10. CASE c # m
    <3>1. m < c
      BY <1>0, <2>5, <2>6, <2>10
    <3>2. m \in Early(U) /\ \A s \in Early(U) : m <= s
      BY <2>6, <3>1
    <3>3. Early(U) \in SUBSET T /\ Early(U) # {} /\ m \in T
      BY <2>5, <3>2
    <3>4. Min(Early(U)) = m
      <4>1. /\ Min(Early(U)) \in Early(U)
            /\ \A s \in Early(U) : Min(Early(U)) <= s
        <5>. HIDE DEF Early
        <5>. QED BY <1>4, <3>3, SumRest
      <4>2. Min(Early(U)) <= m /\ m <= Min(Early(U)) /\ Min(Early(U)) \in Nat /\ m \in Nat
        BY <1>0, <2>5, <3>2, <4>1
      <4>. HIDE DEF Early, m
      <4>. QED BY <4>2
    <3>5. Early(U) \ {m} = Early(R)
      OBVIOUS
    <3>6. F[Early(U)] = f[m] + F[Early(R)] /\ f[m] = g[m]
      <4>1. F[Early(U)] = SumFrom(F, f, Early(U))
        BY <3>3 DEF Sums
      <4>. HIDE DEF Early, m, R
      <4>. QED BY <3>3, <3>4, <3>5, <4>1 DEF SumFrom
    <3>7. R \in SUBSET S /\ c \in R
      BY <2>5, <2>6, <2>10
    <3>8. F[Early(R)] \in Nat
      BY <1>5, <1>6, <3>7
    <3>9. ~(F[Early(R)] + g[c] <= G[R])
      <4>. HIDE DEF Bad, Least, R, m, Early
      <4>. QED BY <2>5, <2>7, <2>8, <3>6, <3>8
    <3>10. Min(R) \in Least
      BY <3>7, <3>9
    <3>11. Min(R) <= m
      BY <2>3, <2>4, <3>10
    <3>12. Min(R) \in 1..N /\ m < Min(R)
      <4>1. R # {}
        BY <3>7
      <4>. HIDE DEF Bad, Least, R, m, Early
      <4>. QED BY <2>6, <4>1, SumRest
    <3>. HIDE DEF Bad, Least, R, m, Early
    <3>. QED BY <2>1, <2>6, <3>11, <3>12
  <2>. QED BY <2>9, <2>10
<1>2. T = Early(S) /\ S \in SUBSET S /\ S \notin Bad
  BY <1>1
<1>. QED BY <1>2

SumTerms(g, S) == \A s \in S : g[s] \in Nat

\* What holds of sums.
LEMMA SumIsNatural ==
    ASSUME NEW N, NEW S, Among(S, N), NEW g, SumTerms(g, S)
    PROVE  SumOver(g, S) \in Nat
<1>1. Sums(Total(g, S), g, S)
  BY TotalIsDefined
<1>2. S \in SUBSET S /\ \A s \in S : g[s] \in Nat
  BY DEF SumTerms
<1>3. Total(g, S)[S] \in Nat
  BY <1>1, <1>2, TotalIsNatural
<1>. QED BY <1>3, SumIsTotal

LEMMA SumOfEarlier ==
    ASSUME NEW N, NEW S, Among(S, N), NEW g, SumTerms(g, S),
           NEW c \in S, NEW T, T = {s \in S : s < c},
           NEW f, \A s \in T : f[s] = g[s]
    PROVE  SumOver(f, T) + g[c] <= SumOver(g, S)
<1>1. Sums(Total(g, S), g, S)
  BY TotalIsDefined
<1>2. Among(T, N)
  BY DEF Among
<1>3. Sums(Total(f, T), f, T)
  BY <1>2, TotalIsDefined
<1>4. \A s \in S : g[s] \in Nat
  BY DEF SumTerms
<1>5. Total(f, T)[T] + g[c] <= Total(g, S)[S]
  BY <1>1, <1>3, <1>4, TotalOfEarlier
<1>6. SumOver(f, T) = Total(f, T)[T] /\ SumOver(g, S) = Total(g, S)[S]
  BY SumIsTotal
<1>. QED BY <1>5, <1>6

(* What layoutTree computes, as the functions that Layout is made of.      *)
Nested(t) == /\ Len(t.nodes) \in Nat /\ DOMAIN t.nodes = 1..Len(t.nodes)
             /\ None \notin Nat
             /\ \A n \in 1..Len(t.nodes) : t.nodes[n].parent \in {None} \cup 1..n - 1
Wide(t, n) == Width[t.nodes[n].func]
Sized(t) == Gap \in Nat /\ \A n \in 1..Len(t.nodes) : Wide(t, n) \in Nat

Row(band, S) == SumOver([k \in S |-> band[k] + Gap], S)
BandOf(t, band, n) == Max({Wide(t, n), Row(band, Children(t, n)) - Gap})
Elder(t, n) == {c \in Children(t, t.nodes[n].parent) : c < n}
LeftOf(t, band, left, n) ==
    (IF t.nodes[n].parent = None THEN 0 ELSE left[t.nodes[n].parent]) + Row(band, Elder(t, n))
MidOf(t, left, x, n) ==
    IF Children(t, n) = {} THEN left[n] + Wide(t, n) \div 2
    ELSE (x[Min(Children(t, n))] + x[Max(Children(t, n))]) \div 2
XOf(t, band, left, x, n) ==
    Clamped(MidOf(t, left, x, n), left[n] + Wide(t, n) \div 2,
            left[n] + band[n] - Wide(t, n) \div 2)

Bands(t) == CHOOSE band : band = [n \in DOMAIN t.nodes |-> BandOf(t, band, n)]
Lefts(t, band) ==
    CHOOSE left : left = [n \in DOMAIN t.nodes |-> LeftOf(t, band, left, n)]
Xs(t, band, left) ==
    CHOOSE x : x = [n \in DOMAIN t.nodes |-> XOf(t, band, left, x, n)]

LEMMA BandWidthsAre ==
    ASSUME NEW t
    PROVE  BandWidths(t) = Bands(t)
BY DEF BandWidths, Bands, BandOf, Row, Wide

LEMMA LayoutIs ==
    ASSUME NEW t
    PROVE  Layout(t) = Xs(t, BandWidths(t), Lefts(t, BandWidths(t)))
BY DEF Layout, Xs, Lefts, XOf, MidOf, LeftOf, Elder, Row, Wide

\* Callees come after their caller.
LEMMA ChildrenFollow ==
    ASSUME NEW t, Nested(t), NEW n
    PROVE  /\ Children(t, n) \subseteq 1..Len(t.nodes)
           /\ n \in Nat => \A c \in Children(t, n) : n < c
<1>1. Children(t, n) \subseteq 1..Len(t.nodes)
  BY DEF Nested, Children
<1>2. ASSUME n \in Nat, NEW c \in Children(t, n) PROVE n < c
  <2>1. c \in 1..Len(t.nodes) /\ t.nodes[c].parent = n
    BY <1>1 DEF Children
  <2>2. n \in 1..c - 1 /\ c \in Nat
    BY <1>2, <2>1 DEF Nested
  <2>. QED BY <1>2, <2>2
<1>. QED BY <1>1, <1>2

LEMMA BandRests ==
    ASSUME NEW t, NEW n, NEW a, NEW b, \A c \in Children(t, n) : a[c] = b[c]
    PROVE  BandOf(t, a, n) = BandOf(t, b, n)
<1>1. [k \in Children(t, n) |-> a[k] + Gap] = [k \in Children(t, n) |-> b[k] + Gap]
  OBVIOUS
<1>. QED BY <1>1 DEF BandOf, Row

\* There are such functions.
LEMMA BandsAreDefined ==
    ASSUME NEW t, Nested(t)
    PROVE  \A n \in 1..Len(t.nodes) : Bands(t)[n] = BandOf(t, Bands(t), n)
<1> DEFINE N == Len(t.nodes)
           Is(up, i) == \A n \in N + 1 - i..N : n \in 1..N => up[n] = BandOf(t, up, n)
           Failing == {i \in 0..N : ~\E up : Is(up, i)}
<1>0. N \in Nat /\ DOMAIN t.nodes = 1..N
  BY DEF Nested
<1>. HIDE DEF N
<1>1. ASSUME Failing # {} PROVE FALSE
  <2>1. PICK i \in Failing : \A j \in Failing : i <= j
    <3>1. Failing \subseteq Nat
      OBVIOUS
    <3>. HIDE DEF Failing
    <3>. QED BY <1>1, <3>1, LeastNatural
  <2>2. i \in 0..N /\ ~\E up : Is(up, i)
    OBVIOUS
  <2>3. i # 0
    <3>1. \A n \in N + 1 - 0..N : n \notin 1..N
      BY <1>0
    <3>2. \A up : Is(up, 0)
      BY <3>1
    <3>. QED BY <2>2, <3>2
  <2>4. i - 1 \in 0..N /\ ~(i <= i - 1)
    BY <1>0, <2>2, <2>3
  <2>5. PICK up : Is(up, i - 1)
    BY <2>1, <2>4
  <2> DEFINE more == [n \in 1..N |-> BandOf(t, up, n)]
  <2>6. ASSUME NEW n \in N + 1 - i..N, n \in 1..N PROVE more[n] = BandOf(t, more, n)
    <3>1. ASSUME NEW c \in Children(t, n) PROVE up[c] = more[c]
      <4>1. c \in 1..N /\ n < c
        BY <2>6, ChildrenFollow DEF N
      <4>2. c \in N + 1 - (i - 1)..N
        BY <1>0, <2>2, <2>6, <4>1
      <4>3. up[c] = BandOf(t, up, c)
        BY <2>5, <4>1, <4>2
      <4>. QED BY <4>1, <4>3
    <3>2. more[n] = BandOf(t, up, n)
      BY <2>6
    <3>. HIDE DEF more
    <3>. QED BY <3>1, <3>2, BandRests
  <2>7. Is(more, i)
    <3>. HIDE DEF more
    <3>. QED BY <2>6
  <2>. QED BY <2>2, <2>7
<1>2. N \in 0..N /\ N \notin Failing
  <2>. HIDE DEF Failing
  <2>. QED BY <1>0, <1>1
<1>3. PICK up : Is(up, N)
  BY <1>2
<1>4. \A n \in 1..N : up[n] = BandOf(t, up, n)
  <2>1. \A n \in 1..N : n \in N + 1 - N..N
    BY <1>0
  <2>. QED BY <1>3, <2>1
<1> DEFINE g == [n \in 1..N |-> up[n]]
<1>5. \A n \in 1..N : BandOf(t, g, n) = BandOf(t, up, n)
  <2> TAKE n \in 1..N
  <2>1. Children(t, n) \subseteq 1..N
    BY ChildrenFollow DEF N
  <2>2. \A c \in Children(t, n) : g[c] = up[c]
    BY <2>1
  <2>. HIDE DEF g
  <2>. QED BY <2>2, BandRests
<1>6. g = [n \in 1..N |-> BandOf(t, g, n)]
  <2> DEFINE h == [n \in 1..N |-> BandOf(t, g, n)]
  <2>1. \A n \in 1..N : h[n] = up[n]
    BY <1>4, <1>5
  <2>2. h = [n \in 1..N |-> h[n]]
    OBVIOUS
  <2>3. h = g
    <3>. HIDE DEF h
    <3>. QED BY <2>1, <2>2
  <2>. QED BY <2>3
<1>. HIDE DEF g
<1>7. \E band : band = [n \in DOMAIN t.nodes |-> BandOf(t, band, n)]
  BY <1>0, <1>6
<1>8. Bands(t) = [n \in DOMAIN t.nodes |-> BandOf(t, Bands(t), n)]
  BY <1>7 DEF Bands
<1>. QED BY <1>0, <1>8 DEF N

LEMMA LeftsAreDefined ==
    ASSUME NEW t, Nested(t), NEW band
    PROVE  \A n \in 1..Len(t.nodes) :
              Lefts(t, band)[n] = LeftOf(t, band, Lefts(t, band), n)
<1> DEFINE N == Len(t.nodes)
           Is(up, i) == \A n \in 1..i : up[n] = LeftOf(t, band, up, n)
           Failing == {i \in 0..N : ~\E up : Is(up, i)}
<1>0. /\ N \in Nat /\ DOMAIN t.nodes = 1..N
      /\ \A n \in 1..N : t.nodes[n].parent \in {None} \cup 1..n - 1
  BY DEF Nested
<1>. HIDE DEF N
<1>8. ASSUME NEW n, NEW a, NEW b,
             t.nodes[n].parent # None => a[t.nodes[n].parent] = b[t.nodes[n].parent]
      PROVE  LeftOf(t, band, a, n) = LeftOf(t, band, b, n)
  BY <1>8 DEF LeftOf
<1>1. ASSUME Failing # {} PROVE FALSE
  <2>1. PICK i \in Failing : \A j \in Failing : i <= j
    <3>1. Failing \subseteq Nat
      OBVIOUS
    <3>. HIDE DEF Failing
    <3>. QED BY <1>1, <3>1, LeastNatural
  <2>2. i \in 0..N /\ ~\E up : Is(up, i)
    OBVIOUS
  <2>3. i # 0
    <3>1. \A up : Is(up, 0)
      OBVIOUS
    <3>. QED BY <2>2, <3>1
  <2>4. i - 1 \in 0..N /\ ~(i <= i - 1)
    BY <1>0, <2>2, <2>3
  <2>5. PICK up : Is(up, i - 1)
    BY <2>1, <2>4
  <2> DEFINE more == [n \in 1..i |-> IF n = i THEN LeftOf(t, band, up, i) ELSE up[n]]
  <2>6. ASSUME NEW n \in 1..i PROVE more[n] = LeftOf(t, band, more, n)
    <3> DEFINE p == t.nodes[n].parent
    <3>1. p # None => p \in 1..i /\ p # i
      <4>1. n \in 1..N /\ i \in Nat
        BY <1>0, <2>2
      <4>2. p \in {None} \cup 1..n - 1
        BY <1>0, <4>1
      <4>. HIDE DEF p, more, Failing, Is
      <4>. QED BY <4>1, <4>2
    <3>2. p # None => more[p] = up[p]
      BY <3>1
    <3>3. more[n] = IF n = i THEN LeftOf(t, band, up, i) ELSE up[n]
      OBVIOUS
    <3>4. n # i => n \in 1..i - 1
      BY <2>2
    <3>. HIDE DEF more
    <3>5. LeftOf(t, band, more, n) = LeftOf(t, band, up, n)
      BY <1>8, <3>2
    <3>. QED BY <2>5, <3>3, <3>4, <3>5
  <2>7. Is(more, i)
    <3>. HIDE DEF more
    <3>. QED BY <2>6
  <2>. QED BY <2>2, <2>7
<1>2. N \in 0..N /\ N \notin Failing
  <2>. HIDE DEF Failing
  <2>. QED BY <1>0, <1>1
<1>3. PICK up : Is(up, N)
  BY <1>2
<1>4. \A n \in 1..N : up[n] = LeftOf(t, band, up, n)
  BY <1>3
<1> DEFINE g == [n \in 1..N |-> up[n]]
<1>5. \A n \in 1..N : LeftOf(t, band, g, n) = LeftOf(t, band, up, n)
  <2> TAKE n \in 1..N
  <2>1. t.nodes[n].parent # None => t.nodes[n].parent \in 1..N
    BY <1>0
  <2>2. t.nodes[n].parent # None => g[t.nodes[n].parent] = up[t.nodes[n].parent]
    BY <2>1
  <2>. HIDE DEF g
  <2>. QED BY <1>8, <2>2
<1>6. g = [n \in 1..N |-> LeftOf(t, band, g, n)]
  <2> DEFINE h == [n \in 1..N |-> LeftOf(t, band, g, n)]
  <2>1. \A n \in 1..N : h[n] = up[n]
    BY <1>4, <1>5
  <2>2. h = [n \in 1..N |-> h[n]]
    OBVIOUS
  <2>3. h = g
    <3>. HIDE DEF h
    <3>. QED BY <2>1, <2>2
  <2>. QED BY <2>3
<1>. HIDE DEF g
<1>7. \E left : left = [n \in DOMAIN t.nodes |-> LeftOf(t, band, left, n)]
  BY <1>0, <1>6
<1>9. Lefts(t, band) = [n \in DOMAIN t.nodes |-> LeftOf(t, band, Lefts(t, band), n)]
  BY <1>7 DEF Lefts
<1>. QED BY <1>0, <1>9 DEF N

LEMMA EndsOfChildren ==
    ASSUME NEW t, Nested(t), NEW n, Children(t, n) # {}
    PROVE  Min(Children(t, n)) \in Children(t, n) /\ Max(Children(t, n)) \in Children(t, n)
<1>1. /\ Children(t, n) \subseteq Nat /\ Children(t, n) \subseteq Int
      /\ Len(t.nodes) \in Int /\ \A c \in Children(t, n) : c <= Len(t.nodes)
  <2>1. Children(t, n) \subseteq 1..Len(t.nodes) /\ Len(t.nodes) \in Nat
    BY ChildrenFollow DEF Nested
  <2>. QED BY <2>1
<1>. QED BY <1>1, MinProperties, MaxProperties

LEMMA XRests ==
    ASSUME NEW t, Nested(t), NEW band, NEW left, NEW n \in 1..Len(t.nodes), NEW a, NEW b,
           \A c \in Children(t, n) : a[c] = b[c]
    PROVE  XOf(t, band, left, a, n) = XOf(t, band, left, b, n)
<1>1. MidOf(t, left, a, n) = MidOf(t, left, b, n)
  BY EndsOfChildren DEF MidOf
<1>. QED BY <1>1 DEF XOf

LEMMA XsAreDefined ==
    ASSUME NEW t, Nested(t), NEW band, NEW left
    PROVE  \A n \in 1..Len(t.nodes) :
              Xs(t, band, left)[n] = XOf(t, band, left, Xs(t, band, left), n)
<1> DEFINE N == Len(t.nodes)
           Is(up, i) == \A n \in N + 1 - i..N : n \in 1..N => up[n] = XOf(t, band, left, up, n)
           Failing == {i \in 0..N : ~\E up : Is(up, i)}
<1>0. N \in Nat /\ DOMAIN t.nodes = 1..N
  BY DEF Nested
<1>. HIDE DEF N
<1>1. ASSUME Failing # {} PROVE FALSE
  <2>1. PICK i \in Failing : \A j \in Failing : i <= j
    <3>1. Failing \subseteq Nat
      OBVIOUS
    <3>. HIDE DEF Failing
    <3>. QED BY <1>1, <3>1, LeastNatural
  <2>2. i \in 0..N /\ ~\E up : Is(up, i)
    OBVIOUS
  <2>3. i # 0
    <3>1. \A n \in N + 1 - 0..N : n \notin 1..N
      BY <1>0
    <3>2. \A up : Is(up, 0)
      BY <3>1
    <3>. QED BY <2>2, <3>2
  <2>4. i - 1 \in 0..N /\ ~(i <= i - 1)
    BY <1>0, <2>2, <2>3
  <2>5. PICK up : Is(up, i - 1)
    BY <2>1, <2>4
  <2> DEFINE more == [n \in 1..N |-> XOf(t, band, left, up, n)]
  <2>6. ASSUME NEW n \in N + 1 - i..N, n \in 1..N PROVE more[n] = XOf(t, band, left, more, n)
    <3>1. ASSUME NEW c \in Children(t, n) PROVE up[c] = more[c]
      <4>1. c \in 1..N /\ n < c
        BY <2>6, ChildrenFollow DEF N
      <4>2. c \in N + 1 - (i - 1)..N
        BY <1>0, <2>2, <2>6, <4>1
      <4>3. up[c] = XOf(t, band, left, up, c)
        BY <2>5, <4>1, <4>2
      <4>. QED BY <4>1, <4>3
    <3>2. more[n] = XOf(t, band, left, up, n)
      BY <2>6
    <3>. HIDE DEF more
    <3>3. n \in 1..Len(t.nodes)
      BY <2>6 DEF N
    <3>. QED BY <3>1, <3>2, <3>3, XRests
  <2>7. Is(more, i)
    <3>. HIDE DEF more
    <3>. QED BY <2>6
  <2>. QED BY <2>2, <2>7
<1>2. N \in 0..N /\ N \notin Failing
  <2>. HIDE DEF Failing
  <2>. QED BY <1>0, <1>1
<1>3. PICK up : Is(up, N)
  BY <1>2
<1>4. \A n \in 1..N : up[n] = XOf(t, band, left, up, n)
  <2>1. \A n \in 1..N : n \in N + 1 - N..N
    BY <1>0
  <2>. QED BY <1>3, <2>1
<1> DEFINE g == [n \in 1..N |-> up[n]]
<1>5. \A n \in 1..N : XOf(t, band, left, g, n) = XOf(t, band, left, up, n)
  <2> TAKE n \in 1..N
  <2>1. Children(t, n) \subseteq 1..N
    BY ChildrenFollow DEF N
  <2>2. \A c \in Children(t, n) : g[c] = up[c]
    BY <2>1
  <2>. HIDE DEF g
  <2>3. n \in 1..Len(t.nodes)
    BY DEF N
  <2>. QED BY <2>2, <2>3, XRests
<1>6. g = [n \in 1..N |-> XOf(t, band, left, g, n)]
  <2> DEFINE h == [n \in 1..N |-> XOf(t, band, left, g, n)]
  <2>1. \A n \in 1..N : h[n] = up[n]
    BY <1>4, <1>5
  <2>2. h = [n \in 1..N |-> h[n]]
    OBVIOUS
  <2>3. h = g
    <3>. HIDE DEF h
    <3>. QED BY <2>1, <2>2
  <2>. QED BY <2>3
<1>. HIDE DEF g
<1>7. \E x : x = [n \in DOMAIN t.nodes |-> XOf(t, band, left, x, n)]
  BY <1>0, <1>6
<1>8. Xs(t, band, left) = [n \in DOMAIN t.nodes |-> XOf(t, band, left, Xs(t, band, left), n)]
  BY <1>7 DEF Xs
<1>. QED BY <1>0, <1>8 DEF N

\* The larger and the smaller of two.
LEMMA PairProperties ==
    ASSUME NEW a \in Int, NEW b \in Int
    PROVE  /\ Max({a, b}) \in {a, b} /\ Max({a, b}) >= a /\ Max({a, b}) >= b
           /\ Min({a, b}) \in {a, b} /\ Min({a, b}) <= a /\ Min({a, b}) <= b
<1>1. \E m \in {a, b} : \A y \in {a, b} : m >= y
  OBVIOUS
<1>2. \E m \in {a, b} : \A y \in {a, b} : m <= y
  OBVIOUS
<1>. QED BY <1>1, <1>2 DEF Max, Min

\* The row of the children has the place that the band of their parent gives it.
LEMMA BandsHold ==
    ASSUME NEW t, Nested(t), Sized(t), NEW band, band = Bands(t)
    PROVE  \A n \in 1..Len(t.nodes) :
              /\ band[n] \in Nat /\ Wide(t, n) <= band[n]
              /\ Row(band, Children(t, n)) <= band[n] + Gap
<1> DEFINE N == Len(t.nodes)
           Holds(n) == /\ band[n] \in Nat /\ Wide(t, n) <= band[n]
                       /\ Row(band, Children(t, n)) <= band[n] + Gap
           Failing == {n \in 1..N : ~Holds(n)}
<1>1. N \in Nat /\ Gap \in Nat /\ \A n \in 1..N : Wide(t, n) \in Nat
  BY DEF Nested, Sized
<1>2. \A n \in 1..N : band[n] = BandOf(t, band, n)
  BY BandsAreDefined
<1>3. \A n \in 1..N : Children(t, n) \subseteq 1..N /\ \A c \in Children(t, n) : n < c
  BY <1>1, ChildrenFollow
<1>. HIDE DEF N
<1>4. ASSUME NEW n \in 1..N, \A c \in Children(t, n) : band[c] \in Nat
      PROVE  Holds(n)
  <2> DEFINE B == Children(t, n)
             g == [k \in B |-> band[k] + Gap]
  <2>1. Among(B, N)
    BY <1>1, <1>3 DEF Among
  <2>2. SumTerms(g, B)
    BY <1>1, <1>4 DEF SumTerms
  <2>3. Row(band, B) = SumOver(g, B)
    BY DEF Row
  <2>. HIDE DEF g, B
  <2>4. Row(band, B) \in Nat
    BY <2>1, <2>2, <2>3, SumIsNatural
  <2>5. band[n] = Max({Wide(t, n), Row(band, B) - Gap})
    BY <1>2 DEF BandOf, B
  <2>6. Wide(t, n) \in Nat /\ Row(band, B) - Gap \in Int
    BY <1>1, <2>4
  <2>7. /\ band[n] \in {Wide(t, n), Row(band, B) - Gap}
        /\ band[n] >= Wide(t, n) /\ band[n] >= Row(band, B) - Gap
    <3> DEFINE w == Wide(t, n)
               r == Row(band, B) - Gap
    <3>1. w \in Int /\ r \in Int /\ band[n] = Max({w, r})
      BY <2>5, <2>6
    <3>. HIDE DEF w, r
    <3>2. Max({w, r}) \in {w, r} /\ Max({w, r}) >= w /\ Max({w, r}) >= r
      BY <3>1, PairProperties
    <3>3. band[n] \in {w, r} /\ band[n] >= w /\ band[n] >= r
      BY <3>1, <3>2
    <3>. QED BY <3>3 DEF w, r
  <2>. QED BY <1>1, <2>4, <2>6, <2>7 DEF B
<1>5. ASSUME Failing # {} PROVE FALSE
  <2>1. PICK n \in Failing : \A i \in Failing : i <= n
    <3>1. Failing \subseteq Int /\ N \in Int /\ \A i \in Failing : i <= N
      BY <1>1
    <3>. HIDE DEF Failing
    <3>. QED BY <1>5, <3>1, GreatestInteger
  <2>2. n \in 1..N /\ ~Holds(n)
    OBVIOUS
  <2>3. ASSUME NEW c \in Children(t, n) PROVE band[c] \in Nat
    <3>1. c \in 1..N /\ n < c
      BY <1>3, <2>2
    <3>2. c \notin Failing
      BY <1>1, <2>1, <2>2, <3>1
    <3>. QED BY <3>1, <3>2
  <2>. HIDE DEF Holds
  <2>. QED BY <1>4, <2>2, <2>3
<1>. QED BY <1>5 DEF N

\* The terms of a row are naturals.
LEMMA RowTerms ==
    ASSUME NEW t, Nested(t), Sized(t), NEW band, band = Bands(t), NEW n
    PROVE  /\ Among(Children(t, n), Len(t.nodes))
           /\ SumTerms([k \in Children(t, n) |-> band[k] + Gap], Children(t, n))
<1> DEFINE B == Children(t, n)
<1>1. B \subseteq 1..Len(t.nodes)
  BY ChildrenFollow
<1>2. \A c \in 1..Len(t.nodes) : band[c] \in Nat
  BY BandsHold
<1>3. Among(B, Len(t.nodes))
  BY <1>1 DEF Among, Nested
<1>. HIDE DEF B
<1>4. \A c \in B : band[c] + Gap \in Nat
  BY <1>1, <1>2 DEF Sized
<1>5. SumTerms([k \in B |-> band[k] + Gap], B)
  BY <1>4 DEF SumTerms
<1>. QED BY <1>3, <1>5 DEF B

\* The row of what comes before one of a set ends before that one's.
LEMMA RowOfElder ==
    ASSUME NEW N, NEW S, Among(S, N), NEW band,
           SumTerms([k \in S |-> band[k] + Gap], S),
           NEW c \in S, NEW T, T = {s \in S : s < c}
    PROVE  /\ Row(band, T) \in Nat /\ Row(band, S) \in Nat
           /\ Row(band, T) + (band[c] + Gap) <= Row(band, S)
<1> DEFINE g == [k \in S |-> band[k] + Gap]
           f == [k \in T |-> band[k] + Gap]
<1>1. SumTerms(g, S) /\ g[c] = band[c] + Gap /\ \A s \in T : f[s] = g[s]
  OBVIOUS
<1>2. SumTerms(f, T) /\ Among(T, N)
  BY <1>1 DEF SumTerms, Among
<1>3. Row(band, T) = SumOver(f, T) /\ Row(band, S) = SumOver(g, S)
  BY DEF Row
<1>. HIDE DEF f, g
<1>4. SumOver(f, T) \in Nat /\ SumOver(g, S) \in Nat
  BY <1>1, <1>2, SumIsNatural
<1>5. SumOver(f, T) + g[c] <= SumOver(g, S)
  BY <1>1, SumOfEarlier
<1>. QED BY <1>1, <1>3, <1>4, <1>5

\* Where the left ends of the bands are, and that boxes stay within their bands.
LEMMA LayoutHolds ==
    ASSUME NEW t, Nested(t), Sized(t),
           NEW band, band = Bands(t), NEW left, left = Lefts(t, band),
           NEW x, x = Xs(t, band, left)
    PROVE  \A n \in 1..Len(t.nodes) :
              /\ left[n] \in Nat /\ x[n] \in Int
              /\ left[n] + Wide(t, n) \div 2 <= x[n]
              /\ x[n] + Wide(t, n) \div 2 <= left[n] + band[n]
              /\ t.nodes[n].parent # None =>
                    LET p == t.nodes[n].parent
                    IN  left[p] <= left[n] /\ left[n] + band[n] <= left[p] + band[p]
<1> DEFINE N == Len(t.nodes)
           Inside(n) == /\ x[n] \in Int /\ left[n] + Wide(t, n) \div 2 <= x[n]
                        /\ x[n] + Wide(t, n) \div 2 <= left[n] + band[n]
           Failing == {n \in 1..N : ~Inside(n)}
           Negative == {n \in 1..N : left[n] \notin Nat}
<1>1. /\ N \in Nat /\ Gap \in Nat /\ None \notin Nat
      /\ \A n \in 1..N : Wide(t, n) \in Nat /\ t.nodes[n].parent \in {None} \cup 1..n - 1
  BY DEF Nested, Sized
<1>2. \A n \in 1..N : /\ band[n] \in Nat /\ Wide(t, n) <= band[n]
                       /\ Row(band, Children(t, n)) <= band[n] + Gap
  BY BandsHold
<1>3. \A n \in 1..N : left[n] = LeftOf(t, band, left, n)
  BY LeftsAreDefined
<1>4. \A n \in 1..N : x[n] = XOf(t, band, left, x, n)
  BY XsAreDefined
<1>5. \A n \in 1..N : Children(t, n) \subseteq 1..N /\ \A c \in Children(t, n) : n < c
  BY <1>1, ChildrenFollow
<1>6. \A n \in 1..N :
         LET p == t.nodes[n].parent
             row == Row(band, Elder(t, n))
         IN  /\ row \in Nat /\ row + (band[n] + Gap) <= Row(band, Children(t, p))
             /\ Row(band, Children(t, p)) \in Nat
  <2> TAKE n \in 1..N
  <2> DEFINE S == Children(t, t.nodes[n].parent)
             T == {s \in S : s < n}
  <2>1. Among(S, N) /\ SumTerms([k \in S |-> band[k] + Gap], S)
    BY RowTerms
  <2>2. n \in S
    BY DEF Children, Nested
  <2>. HIDE DEF S, N
  <2>3. /\ Row(band, T) \in Nat /\ Row(band, S) \in Nat
        /\ Row(band, T) + (band[n] + Gap) <= Row(band, S)
    BY <2>1, <2>2, RowOfElder
  <2>. QED BY <2>3 DEF Elder, S
<1>. HIDE DEF N
<1>7. ASSUME NEW n \in 1..N
      PROVE  left[n] = (IF t.nodes[n].parent = None THEN 0 ELSE left[t.nodes[n].parent])
                          + Row(band, Elder(t, n))
  BY <1>3 DEF LeftOf
<1>8. ASSUME Negative # {} PROVE FALSE
  <2>1. PICK n \in Negative : \A i \in Negative : n <= i
    <3>1. Negative \subseteq Nat
      OBVIOUS
    <3>. HIDE DEF Negative
    <3>. QED BY <1>8, <3>1, LeastNatural
  <2>2. n \in 1..N /\ left[n] \notin Nat
    OBVIOUS
  <2> DEFINE p == t.nodes[n].parent
             row == Row(band, Elder(t, n))
  <2>3. row \in Nat
    BY <1>6, <2>2
  <2>4. p # None => left[p] \in Nat
    <3> HAVE p # None
    <3>1. p \in 1..N /\ ~(n <= p)
      BY <1>1, <2>2
    <3>2. p \notin Negative
      BY <2>1, <3>1
    <3>. QED BY <3>1, <3>2
  <2>5. left[n] = (IF p = None THEN 0 ELSE left[p]) + row
    BY <1>7, <2>2
  <2>. HIDE DEF p, row, Negative
  <2>. QED BY <2>2, <2>3, <2>4, <2>5
<1>9. \A n \in 1..N : left[n] \in Nat
  BY <1>8
<1>10. ASSUME NEW n \in 1..N, t.nodes[n].parent # None
       PROVE  LET p == t.nodes[n].parent
              IN  left[p] <= left[n] /\ left[n] + band[n] <= left[p] + band[p]
  <2> DEFINE p == t.nodes[n].parent
             row == Row(band, Elder(t, n))
             all == Row(band, Children(t, p))
  <2>1. p \in 1..N
    BY <1>1, <1>10
  <2>2. left[n] = left[p] + row
    BY <1>7, <1>10
  <2>3. row \in Nat /\ row + (band[n] + Gap) <= all /\ all \in Nat
    BY <1>6
  <2>4. all <= band[p] + Gap
    BY <1>2, <2>1
  <2>5. left[n] \in Nat /\ left[p] \in Nat /\ band[n] \in Nat /\ band[p] \in Nat
    BY <1>2, <1>9, <2>1
  <2>. HIDE DEF p, row, all
  <2>6. left[p] <= left[n] /\ left[n] + band[n] <= left[p] + band[p]
    BY <1>1, <2>2, <2>3, <2>4, <2>5
  <2>. QED BY <2>6 DEF p
<1>11. ASSUME NEW n \in 1..N, \A c \in Children(t, n) : x[c] \in Int
       PROVE  Inside(n)
  <2> DEFINE mid == MidOf(t, left, x, n)
             half == Wide(t, n) \div 2
             lo == left[n] + half
             hi == left[n] + band[n] - half
             high == Max({mid, lo})
  <2>1. x[n] = Min({high, hi})
    BY <1>4 DEF XOf, Clamped
  <2>2. /\ half \in Nat /\ half + half <= Wide(t, n) /\ Wide(t, n) <= band[n]
        /\ band[n] \in Nat /\ left[n] \in Nat
    <3>1. Wide(t, n) \in Nat
      BY <1>1
    <3>2. half \in Nat /\ half + half <= Wide(t, n)
      BY <3>1
    <3>. QED BY <1>2, <1>9, <3>2
  <2>3. mid \in Int
    <3>1. CASE Children(t, n) = {}
      BY <2>2, <3>1 DEF MidOf
    <3>2. CASE Children(t, n) # {}
      <4>1. x[Min(Children(t, n))] \in Int /\ x[Max(Children(t, n))] \in Int
        BY <1>11, <3>2, EndsOfChildren
      <4>2. mid = (x[Min(Children(t, n))] + x[Max(Children(t, n))]) \div 2
        BY <3>2 DEF MidOf
      <4>. HIDE DEF mid
      <4>. QED BY <4>1, <4>2
    <3>. QED BY <3>1, <3>2
  <2>. HIDE DEF mid, half
  <2>4. lo \in Int /\ hi \in Int /\ lo <= hi
    <3> DEFINE l == left[n]
               b == band[n]
               w == Wide(t, n)
    <3>1. /\ half \in Nat /\ l \in Nat /\ b \in Nat /\ w \in Nat
          /\ half + half <= w /\ w <= b
      BY <1>1, <2>2
    <3>. HIDE DEF l, b, w
    <3>2. l + half \in Int /\ l + b - half \in Int /\ l + half <= l + b - half
      BY <3>1
    <3>. QED BY <3>2 DEF l, b
  <2>5. lo = left[n] + half /\ hi = left[n] + band[n] - half
    OBVIOUS
  <2>. HIDE DEF lo, hi
  <2>6. high \in Int /\ lo <= high
    <3>1. high \in {mid, lo} /\ high >= lo
      BY <2>3, <2>4, PairProperties
    <3>. HIDE DEF high
    <3>. QED BY <2>3, <2>4, <3>1
  <2>. HIDE DEF high
  <2>7. x[n] \in {high, hi} /\ x[n] <= hi
    <3>1. Min({high, hi}) \in {high, hi} /\ Min({high, hi}) <= hi
      BY <2>4, <2>6, PairProperties
    <3>. QED BY <2>1, <3>1
  <2>8. x[n] \in Int /\ lo <= x[n]
    BY <2>4, <2>6, <2>7
  <2>9. left[n] + half <= x[n] /\ x[n] + half <= left[n] + band[n]
    BY <2>2, <2>5, <2>7, <2>8
  <2>. QED BY <2>8, <2>9 DEF half
<1>12. ASSUME Failing # {} PROVE FALSE
  <2>1. PICK n \in Failing : \A i \in Failing : i <= n
    <3>1. Failing \subseteq Int /\ N \in Int /\ \A i \in Failing : i <= N
      BY <1>1
    <3>. HIDE DEF Failing
    <3>. QED BY <1>12, <3>1, GreatestInteger
  <2>2. n \in 1..N /\ ~Inside(n)
    OBVIOUS
  <2>3. ASSUME NEW c \in Children(t, n) PROVE x[c] \in Int
    <3>1. c \in 1..N /\ n < c
      BY <1>5, <2>2
    <3>2. c \notin Failing
      BY <1>1, <2>1, <2>2, <3>1
    <3>. QED BY <3>1, <3>2
  <2>. HIDE DEF Inside
  <2>. QED BY <1>11, <2>2, <2>3
<1>13. \A n \in 1..N : Inside(n)
  BY <1>12
<1>. QED BY <1>9, <1>10, <1>13 DEF N

\* Of two callees of one caller the band of the elder ends, with its gap, before the
\* band of the other.
LEMMA SiblingsKeepApart ==
    ASSUME NEW t, Nested(t), Sized(t),
           NEW band, band = Bands(t), NEW left, left = Lefts(t, band),
           NEW m \in 1..Len(t.nodes), NEW n \in 1..Len(t.nodes), m < n,
           t.nodes[m].parent = t.nodes[n].parent
    PROVE  left[m] + band[m] + Gap <= left[n]
<1> DEFINE p == t.nodes[n].parent
           S == Elder(t, n)
           T == Elder(t, m)
           start == IF p = None THEN 0 ELSE left[p]
<1>1. left[m] = start + Row(band, T) /\ left[n] = start + Row(band, S)
  BY LeftsAreDefined DEF LeftOf
<1>2. m \in Nat /\ n \in Nat /\ DOMAIN t.nodes = 1..Len(t.nodes)
  BY DEF Nested
<1>3. Children(t, p) \subseteq Nat
  <2>1. Children(t, p) \subseteq 1..Len(t.nodes)
    BY ChildrenFollow
  <2>. QED BY <2>1
<1>4. m \in S /\ S \subseteq Children(t, p)
  BY <1>2 DEF Elder, Children
<1>5. T = {s \in S : s < m}
  <2>1. T = {s \in Children(t, p) : s < m} /\ S = {s \in Children(t, p) : s < n}
    BY DEF Elder
  <2>2. \A s \in Children(t, p) : s < m => s < n
    BY <1>2, <1>3
  <2>. HIDE DEF S, T, p
  <2>. QED BY <2>1, <2>2
<1>6. Among(S, Len(t.nodes)) /\ SumTerms([k \in S |-> band[k] + Gap], S)
  <2>1. /\ Among(Children(t, p), Len(t.nodes))
        /\ SumTerms([k \in Children(t, p) |-> band[k] + Gap], Children(t, p))
    BY RowTerms
  <2>. HIDE DEF S
  <2>. QED BY <1>4, <2>1 DEF Among, SumTerms
<1>7. /\ Row(band, T) \in Nat /\ Row(band, S) \in Nat
      /\ Row(band, T) + (band[m] + Gap) <= Row(band, S)
  <2>. HIDE DEF S, T
  <2>. QED BY <1>4, <1>5, <1>6, RowOfElder
<1>8. start \in Nat
  <2>1. p # None => p \in 1..Len(t.nodes)
    BY <1>2 DEF Nested
  <2>2. p # None => left[p] \in Nat
    BY <2>1, LayoutHolds
  <2>. QED BY <2>2
<1>9. band[m] \in Nat /\ Gap \in Nat
  BY BandsHold DEF Sized
<1>. HIDE DEF start, S, T
<1>. QED BY <1>1, <1>7, <1>8, <1>9

-----------------------------------------------------------------------------
(* Of two calls of one depth the later has the later caller, or the same.  *)
InOrder(t) ==
    \A m, n \in 1..Len(t.nodes) :
       m < n /\ Deep(t.nodes)[m] = Deep(t.nodes)[n]
       => \/ t.nodes[m].parent = t.nodes[n].parent
          \/ t.nodes[m].parent < t.nodes[n].parent

\* Where that is so, the bands of calls of one depth keep their gap.
LEMMA BandsKeepApart ==
    ASSUME NEW t, Nested(t), Sized(t), InOrder(t),
           NEW band, band = Bands(t), NEW left, left = Lefts(t, band)
    PROVE  \A m, n \in 1..Len(t.nodes) :
              m < n /\ Deep(t.nodes)[m] = Deep(t.nodes)[n] => left[m] + band[m] + Gap <= left[n]
<1> DEFINE N == Len(t.nodes)
           d == Deep(t.nodes)
           Apart(m, n) == left[m] + band[m] + Gap <= left[n]
           Failing == {n \in 1..N : \E m \in 1..N : m < n /\ d[m] = d[n] /\ ~Apart(m, n)}
<1>1. /\ N \in Nat /\ Gap \in Nat /\ None \notin Nat
      /\ \A n \in 1..N : t.nodes[n].parent \in {None} \cup 1..n - 1
  BY DEF Nested, Sized
<1>2. \A n \in 1..N : d[n] = IF t.nodes[n].parent = None THEN 1 ELSE 1 + d[t.nodes[n].parent]
  BY DeepIsDefined DEF Nested
<1>3. \A n \in 1..N : d[n] \in Nat \ {0}
  BY DeepIsPositive DEF Nested
<1>4. \A n \in 1..N : band[n] \in Nat
  BY BandsHold
<1>5. \A n \in 1..N :
         /\ left[n] \in Nat
         /\ t.nodes[n].parent # None =>
               LET p == t.nodes[n].parent
               IN  left[p] <= left[n] /\ left[n] + band[n] <= left[p] + band[p]
  BY LayoutHolds
<1>6. \A m, n \in 1..N : m < n /\ t.nodes[m].parent = t.nodes[n].parent => Apart(m, n)
  BY SiblingsKeepApart
<1>7. \A m, n \in 1..N : m < n /\ d[m] = d[n] =>
         \/ t.nodes[m].parent = t.nodes[n].parent
         \/ t.nodes[m].parent < t.nodes[n].parent
  BY DEF InOrder
<1>. HIDE DEF N, d
<1>8. ASSUME Failing # {} PROVE FALSE
  <2>1. PICK n \in Failing : \A i \in Failing : n <= i
    <3>1. Failing \subseteq Nat
      OBVIOUS
    <3>. HIDE DEF Failing
    <3>. QED BY <1>8, <3>1, LeastNatural
  <2>2. PICK m \in 1..N : m < n /\ d[m] = d[n] /\ ~Apart(m, n)
    OBVIOUS
  <2>3. n \in 1..N
    OBVIOUS
  <2> DEFINE p == t.nodes[m].parent
             q == t.nodes[n].parent
  <2>4. p # q
    BY <1>6, <2>2, <2>3
  <2>5. p < q
    BY <1>7, <2>2, <2>3, <2>4
  <2>6. d[m] = (IF p = None THEN 1 ELSE 1 + d[p]) /\ d[n] = (IF q = None THEN 1 ELSE 1 + d[q])
    BY <1>2, <2>2, <2>3
  <2>7. p \in {None} \cup 1..N /\ q \in {None} \cup 1..N /\ (q # None => ~(n <= q))
    BY <1>1, <2>2, <2>3
  <2>8. p # None /\ q # None /\ d[p] = d[q]
    <3>1. (p # None => d[p] \in Nat \ {0}) /\ (q # None => d[q] \in Nat \ {0})
      BY <1>3, <2>7
    <3>2. d[m] = d[n]
      BY <2>2
    <3>. HIDE DEF p, q, Failing
    <3>. QED BY <2>4, <2>6, <3>1, <3>2
  <2>9. p \in 1..N /\ q \in 1..N /\ q \notin Failing
    BY <2>1, <2>7, <2>8
  <2>10. Apart(p, q)
    <3>. HIDE DEF Apart, p, q
    <3>. QED BY <2>5, <2>8, <2>9
  <2>11. left[m] + band[m] <= left[p] + band[p] /\ left[q] <= left[n]
    BY <1>5, <2>2, <2>3, <2>8
  <2>12. /\ left[m] \in Nat /\ left[n] \in Nat /\ left[p] \in Nat /\ left[q] \in Nat
         /\ band[m] \in Nat /\ band[p] \in Nat
    BY <1>4, <1>5, <2>2, <2>3, <2>9
  <2>13. Apart(m, n)
    <3>. HIDE DEF p, q, Failing
    <3>. QED BY <1>1, <2>10, <2>11, <2>12
  <2>. QED BY <2>2, <2>13
<1>. QED BY <1>8 DEF N, d

\* And so do their boxes.
LEMMA BoxesFollow ==
    ASSUME NamesDiffer, SizesAreNatural, TreeInv, LayoutInv
    PROVE  NoOverlap
<1> DEFINE t == tree
           N == Len(tree.nodes)
           band == Bands(tree)
           left == Lefts(tree, band)
           x == Xs(tree, band, left)
           d == Deep(tree.nodes)
<1>1. /\ None \notin Nat /\ None \notin Name /\ N \in Nat /\ DOMAIN tree.nodes = 1..N
      /\ \A n \in 1..N : /\ tree.nodes[n].parent \in {None} \cup 1..n - 1
                         /\ tree.nodes[n].func \in Name
  <2>1. tree.nodes \in Seq(TreeNode)
    BY DEF TreeInv, TreeTypeOK, Tree
  <2>2. N \in Nat /\ DOMAIN tree.nodes = 1..N
    BY <2>1, LenProperties
  <2>3. \A n \in 1..N : tree.nodes[n].func \in Name
    <3> TAKE n \in 1..N
    <3>1. tree.nodes[n] \in TreeNode
      BY <2>1, <2>2, ElementOfSeq
    <3>. QED BY <3>1 DEF TreeNode
  <2>4. N = Len(calls) /\ \A n \in 1..Len(calls) : tree.nodes[n].parent = calls[n].parent
    BY InvParts DEF TreeInv, TreeIsTruth
  <2>5. \A n \in 1..N : tree.nodes[n].parent \in {None} \cup 1..n - 1
    BY <2>4, InvParts
  <2>6. None \notin Nat /\ None \notin Name
    BY InvParts
  <2>. QED BY <2>2, <2>3, <2>5, <2>6
<1>2. Nested(tree) /\ Sized(tree)
  BY <1>1 DEF Nested, Sized, Wide, SizesAreNatural
<1>3. InOrder(tree)
  BY <1>1, DepthIsDeep DEF InOrder, LayoutInv, CallersInOrder
<1>4. \A m, n \in 1..N : m < n /\ d[m] = d[n] => left[m] + band[m] + Gap <= left[n]
  BY <1>2, <1>3, BandsKeepApart
<1>5. \A n \in 1..N : /\ left[n] \in Nat /\ x[n] \in Int
                       /\ left[n] + Wide(tree, n) \div 2 <= x[n]
                       /\ x[n] + Wide(tree, n) \div 2 <= left[n] + band[n]
  BY <1>2, LayoutHolds
<1>6. \A n \in 1..N : band[n] \in Nat /\ Wide(tree, n) \in Nat
  BY <1>2, BandsHold DEF Sized
<1>7. Layout(tree) = x
  BY LayoutIs, BandWidthsAre
<1>8. \A n : Depth(tree, n) = d[n]
  BY DepthIsDeep
<1>9. Gap \in Nat
  BY DEF SizesAreNatural
<1>. HIDE DEF band, left, x, d, N
<1>10. ASSUME NEW m \in 1..N, NEW n \in 1..N, m < n, Depth(tree, m) = Depth(tree, n)
       PROVE  x[m] + Wide(tree, m) \div 2 + Gap <= x[n] - Wide(tree, n) \div 2
  <2> DEFINE a == Wide(tree, m) \div 2
             b == Wide(tree, n) \div 2
  <2>1. left[m] + band[m] + Gap <= left[n]
    BY <1>4, <1>8, <1>10
  <2>2. a \in Nat /\ b \in Nat
    BY <1>6
  <2>3. /\ x[m] \in Int /\ x[n] \in Int /\ left[m] \in Nat /\ left[n] \in Nat /\ band[m] \in Nat
        /\ x[m] + a <= left[m] + band[m] /\ left[n] + b <= x[n]
    BY <1>5, <1>6
  <2>. HIDE DEF a, b
  <2>4. x[m] + a + Gap <= x[n] - b
    <3> DEFINE u == x[m]
               v == x[n]
               l == left[m] + band[m]
               r == left[n]
    <3>1. /\ u \in Int /\ v \in Int /\ l \in Int /\ r \in Int
          /\ u + a <= l /\ r + b <= v /\ l + Gap <= r
      BY <2>1, <2>3
    <3>. HIDE DEF u, v, l, r
    <3>2. u + a + Gap <= v - b
      BY <1>9, <2>2, <3>1
    <3>. QED BY <3>2 DEF u, v
  <2>. QED BY <2>4 DEF a, b
<1>. QED BY <1>1, <1>7, <1>10 DEF NoOverlap, Wide

\* A call on the stack lies as deep as its frame.
LEMMA StackIsDeep ==
    ASSUME NamesDiffer, TreeInv
    PROVE  \A k \in 1..Len(stack) : Deep(tree.nodes)[stack[k].call] = k
<1> DEFINE chain == [k \in 1..Len(stack) |-> stack[k].call]
<1>1. /\ None \notin Nat /\ Len(stack) \in Nat
      /\ \A n \in 1..Len(calls) : calls[n].parent \in {None} \cup 1..n - 1
      /\ \A k \in 1..Len(stack) :
            /\ stack[k].call \in 1..Len(calls)
            /\ calls[stack[k].call].parent = IF k = 1 THEN None ELSE stack[k - 1].call
  BY InvParts
<1>2. Len(tree.nodes) \in Nat /\ DOMAIN tree.nodes = 1..Len(tree.nodes)
  <2>1. tree.nodes \in Seq(TreeNode)
    BY DEF TreeInv, TreeTypeOK, Tree
  <2>. QED BY <2>1, LenProperties
<1>3. /\ Len(tree.nodes) = Len(calls)
      /\ \A n \in 1..Len(calls) : tree.nodes[n].parent = calls[n].parent
  BY InvParts DEF TreeInv, TreeIsTruth
<1>4. Chained(tree.nodes, Len(stack), chain)
  <2>1. ASSUME NEW k \in 1..Len(stack)
        PROVE  /\ chain[k] \in 1..Len(tree.nodes)
               /\ tree.nodes[chain[k]].parent = IF k = 1 THEN None ELSE chain[k - 1]
    <3>1. k # 1 => k - 1 \in 1..Len(stack)
      BY <1>1
    <3>2. chain[k] = stack[k].call /\ (k # 1 => chain[k - 1] = stack[k - 1].call)
      BY <3>1
    <3>. HIDE DEF chain
    <3>. QED BY <1>1, <1>3, <3>2
  <2>. HIDE DEF chain
  <2>. QED BY <2>1 DEF Chained
<1>5. \A n \in 1..Len(tree.nodes) : tree.nodes[n].parent \in {None} \cup 1..n - 1
  BY <1>1, <1>3
<1>6. \A k \in 1..Len(stack) : chain[k] = stack[k].call
  OBVIOUS
<1>. HIDE DEF chain
<1>7. \A k \in 1..Len(stack) : Deep(tree.nodes)[chain[k]] = k
  BY <1>1, <1>2, <1>4, <1>5, DeepOfChain
<1>. QED BY <1>6, <1>7

(* The parts of LayoutInv for the stack s and the nodes c, as deep as d.   *)
LastIn(s, c, d) == \A k \in DOMAIN s, n \in DOMAIN c : d[n] = k => n <= s[k].call
OrderIn(c, d) ==
    \A m, n \in DOMAIN c :
       m < n /\ d[m] = d[n] => c[m].parent = c[n].parent \/ c[m].parent < c[n].parent

LEMMA LayoutInvIs ==
    /\ LayoutInv <=> /\ LastIn(stack, tree.nodes, Deep(tree.nodes))
                     /\ OrderIn(tree.nodes, Deep(tree.nodes))
    /\ LayoutInv' <=> /\ LastIn(stack', tree'.nodes, Deep(tree'.nodes))
                      /\ OrderIn(tree'.nodes, Deep(tree'.nodes))
<1>1. /\ StackIsLast <=> LastIn(stack, tree.nodes, Deep(tree.nodes))
      /\ StackIsLast' <=> LastIn(stack', tree'.nodes, Deep(tree'.nodes))
  BY DEF StackIsLast, LastIn, Depth, Deep
<1>2. /\ CallersInOrder <=> OrderIn(tree.nodes, Deep(tree.nodes))
      /\ CallersInOrder' <=> OrderIn(tree'.nodes, Deep(tree'.nodes))
  BY DEF CallersInOrder, OrderIn, Depth, Deep
<1>. QED BY <1>1, <1>2 DEF LayoutInv

\* A point keeps LayoutInv.
LEMMA LayoutStep ==
    ASSUME NamesDiffer, TreeInv, TreeInv', LayoutInv, stack # <<>>,
           NEW point, NEW more, NEW m, Shows(point, more, m)
    PROVE  LayoutInv'
<1> DEFINE K == Len(stack)
           N == Len(calls)
           L == Len(trace)
           d == Deep(tree.nodes)
           e == Deep(tree'.nodes)
<1>1. /\ None \notin Nat /\ K \in Nat /\ K # 0 /\ DOMAIN stack = 1..K
      /\ N \in Nat /\ L \in Nat
      /\ Len(tree.nodes) = N /\ DOMAIN tree.nodes = 1..N
      /\ \A n \in 1..N : /\ tree.nodes[n].parent = calls[n].parent
                         /\ calls[n].parent \in {None} \cup 1..n - 1
      /\ \A k \in 1..K : stack[k].call \in 1..N
  BY StepParts
<1>2. /\ DOMAIN stack' = 1..Len(stack') /\ Len(stack') \in Nat
      /\ Len(tree'.nodes) = Len(calls') /\ DOMAIN tree'.nodes = 1..Len(calls')
      /\ \A n \in 1..Len(calls') :
            /\ tree'.nodes[n].parent = calls'[n].parent
            /\ calls'[n].parent \in {None} \cup 1..n - 1
      /\ \A k \in 1..Len(stack') :
            /\ stack'[k].call \in 1..Len(calls')
            /\ calls'[stack'[k].call].exit = None
  BY StepParts
<1>3. /\ more \in {0, 1} /\ Len(calls') = N + more
      /\ \A n \in 1..N :
            /\ calls'[n].parent = calls[n].parent
            /\ calls'[n].exit = None => calls[n].exit = None
      /\ more = 1 => calls'[N + 1].parent = stack[K].call
  <2>1. /\ more \in {0, 1} /\ Len(calls') = N + more
        /\ \A n \in 1..N :
              /\ calls'[n].parent = calls[n].parent
              /\ \/ calls'[n].exit = calls[n].exit
                 \/ calls[n].exit = None /\ calls'[n].exit = L + 1
        /\ more = 1 => calls'[N + 1].parent = stack[K].call
    BY StepParts
  <2>. QED BY <2>1
<1>4. /\ \A n \in 1..N : e[n] = d[n]
      /\ \A k \in 1..Len(stack') : e[stack'[k].call] = k
  BY StepParts
<1>5. \A k \in 1..K : d[stack[k].call] = k
  BY StackIsDeep
<1>6. \A n \in 1..N : calls[n].exit = None => \E k \in 1..K : stack[k].call = n
  BY InvParts
<1>7. \A n \in 1..N : d[n] = IF tree.nodes[n].parent = None THEN 1 ELSE 1 + d[tree.nodes[n].parent]
  <2>1. \A n \in 1..Len(tree.nodes) : tree.nodes[n].parent \in {None} \cup 1..n - 1
    BY <1>1
  <2>. QED BY <1>1, <2>1, DeepIsDefined
<1>8. \A n \in 1..N : d[n] \in Nat \ {0}
  <2>1. \A n \in 1..Len(tree.nodes) : tree.nodes[n].parent \in {None} \cup 1..n - 1
    BY <1>1
  <2>. QED BY <1>1, <2>1, DeepIsPositive
<1>9. \A n \in 1..Len(calls') :
         e[n] = IF tree'.nodes[n].parent = None THEN 1 ELSE 1 + e[tree'.nodes[n].parent]
  <2>1. \A n \in 1..Len(tree'.nodes) : tree'.nodes[n].parent \in {None} \cup 1..n - 1
    BY <1>2
  <2>2. Len(tree'.nodes) \in Nat /\ DOMAIN tree'.nodes = 1..Len(tree'.nodes)
    BY <1>1, <1>2, <1>3
  <2>. QED BY <1>2, <2>1, <2>2, DeepIsDefined
<1>10. /\ \A k \in 1..K, n \in 1..N : d[n] = k => n <= stack[k].call
       /\ \A i, n \in 1..N : i < n /\ d[i] = d[n] =>
             \/ tree.nodes[i].parent = tree.nodes[n].parent
             \/ tree.nodes[i].parent < tree.nodes[n].parent
  BY <1>1, LayoutInvIs DEF LastIn, OrderIn
<1>. HIDE DEF d, e, K, N, L
<1>11. \A n \in 1..Len(calls') : n \in 1..N \/ (more = 1 /\ n = N + 1)
  BY <1>1, <1>3
<1>12. \A n \in 1..N : tree'.nodes[n].parent = tree.nodes[n].parent /\ n \in 1..Len(calls')
  BY <1>1, <1>2, <1>3
<1>13. more = 1 => /\ tree'.nodes[N + 1].parent = stack[K].call /\ stack[K].call \in 1..N
                   /\ e[N + 1] = K + 1
  <2> HAVE more = 1
  <2>1. N + 1 \in 1..Len(calls') /\ K \in 1..K
    BY <1>1, <1>3
  <2>2. tree'.nodes[N + 1].parent = stack[K].call /\ stack[K].call \in 1..N
    BY <1>1, <1>2, <1>3, <2>1
  <2>3. stack[K].call # None
    BY <1>1, <2>2
  <2>4. e[stack[K].call] = K
    BY <1>4, <1>5, <2>1, <2>2
  <2>5. e[N + 1] = 1 + K
    BY <1>9, <2>1, <2>2, <2>3, <2>4
  <2>. QED BY <1>1, <2>2, <2>5
<1>14. ASSUME NEW k \in 1..Len(stack'), NEW n \in 1..Len(calls'), e[n] = k
       PROVE  n <= stack'[k].call
  <2> DEFINE c == stack'[k].call
  <2>1. c \in 1..Len(calls') /\ calls'[c].exit = None /\ e[c] = k
    BY <1>2, <1>4
  <2>. HIDE DEF c
  <2>2. CASE c \in 1..N
    <3>1. calls[c].exit = None
      BY <1>3, <2>1, <2>2
    <3>2. PICK j \in 1..K : stack[j].call = c
      BY <1>6, <2>2, <3>1
    <3>3. j = k
      BY <1>4, <1>5, <2>1, <2>2, <3>2
    <3>4. n \in 1..N
      <4>1. ~(more = 1 /\ n = N + 1)
        BY <1>1, <1>13, <1>14, <3>2, <3>3
      <4>. QED BY <1>11, <4>1
    <3>5. d[n] = k
      BY <1>4, <1>14, <3>4
    <3>. QED BY <1>10, <3>2, <3>3, <3>4, <3>5 DEF c
  <2>3. CASE c = N + 1
    <3>1. n <= N + 1
      BY <1>1, <1>11
    <3>. QED BY <2>3, <3>1 DEF c
  <2>. QED BY <1>11, <2>1, <2>2, <2>3
<1>15. ASSUME NEW i \in 1..Len(calls'), NEW n \in 1..Len(calls'), i < n, e[i] = e[n]
       PROVE  \/ tree'.nodes[i].parent = tree'.nodes[n].parent
              \/ tree'.nodes[i].parent < tree'.nodes[n].parent
  <2>1. CASE n \in 1..N
    <3>1. i \in 1..N
      BY <1>1, <1>11, <1>15, <2>1
    <3>2. d[i] = d[n]
      BY <1>4, <1>15, <2>1, <3>1
    <3>. QED BY <1>10, <1>12, <1>15, <2>1, <3>1, <3>2
  <2>2. CASE more = 1 /\ n = N + 1
    <3> DEFINE p == tree.nodes[i].parent
               q == stack[K].call
    <3>1. i \in 1..N
      BY <1>1, <1>11, <1>15, <2>2
    <3>2. d[i] = K + 1
      BY <1>4, <1>13, <1>15, <2>2, <3>1
    <3>3. d[i] = IF p = None THEN 1 ELSE 1 + d[p]
      BY <1>7, <3>1
    <3>4. p \in {None} \cup 1..N
      <4>1. p \in {None} \cup 1..i - 1
        BY <1>1, <3>1
      <4>. HIDE DEF p
      <4>. QED BY <1>1, <3>1, <4>1
    <3>. HIDE DEF p
    <3>5. p # None
      BY <1>1, <3>2, <3>3
    <3>6. p \in 1..N /\ d[p] \in Nat
      BY <1>8, <3>4, <3>5
    <3>7. d[p] = K
      BY <1>1, <3>2, <3>3, <3>5, <3>6
    <3>8. p <= q /\ q \in 1..N
      <4>1. K \in 1..K
        BY <1>1
      <4>. QED BY <1>1, <1>10, <3>6, <3>7, <4>1
    <3>9. p = q \/ p < q
      <4>. HIDE DEF q
      <4>. QED BY <1>1, <3>6, <3>8
    <3>. QED BY <1>12, <1>13, <2>2, <3>1, <3>9 DEF p
  <2>. QED BY <1>11, <2>1, <2>2
<1>16. LastIn(stack', tree'.nodes, e) /\ OrderIn(tree'.nodes, e)
  BY <1>2, <1>14, <1>15 DEF LastIn, OrderIn
<1>. QED BY <1>16, LayoutInvIs DEF e

-----------------------------------------------------------------------------
(* The first point.                                                        *)

\* The first point is of main alone.
LEMMA FirstPoint ==
    ASSUME NamesDiffer, Init
    PROVE  TreeInv /\ ArgumentInv /\ LayoutInv
<1>1. PICK a \in Addr :
         LET point == [event |-> "step_line", frames |-> Frames(stack)]
         IN  /\ stack = <<Fresh(1, Main, a)>>
             /\ returned = None
             /\ calls = <<[func |-> Main, parent |-> None, enter |-> 1, exit |-> None]>>
             /\ trace = <<point>>
             /\ tree = Feed(NewTree, point, 1)
  BY DEF Init
<1> DEFINE main == Fresh(1, Main, a)
           call == [func |-> Main, parent |-> None, enter |-> 1, exit |-> None]
           fs == Frames(stack)
           point == [event |-> "step_line", frames |-> fs]
<1>2. None \notin Nat /\ None \notin Name
  BY DEF NamesDiffer, Name
<1>3. /\ main \in StackFrame /\ main.call = 1 /\ main.func = Main /\ main.addr = a
      /\ main.set /\ call \in CallRecord
      /\ call.func = Main /\ call.parent = None /\ call.enter = 1 /\ call.exit = None
  BY DEF Fresh, StackFrame, CallRecord, Name, Id
<1>4. /\ stack = <<main>> /\ calls = <<call>> /\ trace = <<point>> /\ returned = None
      /\ tree = Feed(NewTree, point, 1)
  BY <1>1
<1>. HIDE DEF main, call
<1>5. /\ stack \in Seq(StackFrame) /\ Len(stack) = 1 /\ DOMAIN stack = {1} /\ stack[1] = main
      /\ calls \in Seq(CallRecord) /\ Len(calls) = 1 /\ DOMAIN calls = {1} /\ calls[1] = call
  BY <1>3, <1>4
<1>6. /\ fs \in Seq(PointFrame) /\ Len(fs) = 1 /\ DOMAIN fs = {1}
      /\ fs[1].func = Main /\ fs[1].addr = a /\ fs[1].arg = 1
  <2>1. 1 \in 1..1
    OBVIOUS
  <2>2. /\ fs \in Seq(PointFrame) /\ Len(fs) = 1
        /\ fs[1].func = Main /\ fs[1].addr = a /\ fs[1].arg = 1
    BY <1>3, <1>5, <2>1, FramesProperties
  <2>3. DOMAIN fs = 1..1
    BY <2>2, LenProperties
  <2>. QED BY <2>2, <2>3
<1>. HIDE DEF fs
<1>7. point \in Point /\ point.event = "step_line" /\ point.frames = fs
  BY <1>6 DEF Point, Event
<1>. HIDE DEF point
<1>8. trace \in Seq(Point) /\ Len(trace) = 1
  BY <1>4, <1>7
<1>9. /\ NewTree.nodes = <<>> /\ NewTree.live = <<>> /\ NewTree.hasRecursion = FALSE
      /\ NewTree \in Tree
  BY DEF NewTree, Tree
<1>10. Len(NewTree.nodes) = 0 /\ Len(NewTree.live) = 0 /\ DOMAIN NewTree.nodes = {}
  BY <1>9
<1>11. Matched(NewTree, fs, 1) = 0
  <2>1. /\ Len(fs) \in Nat /\ Len(NewTree.live) \in Nat /\ 0 \in 0..Len(fs)
        /\ 0 <= Len(NewTree.live) /\ 0 = Len(NewTree.live) /\ 1..0 = {}
    BY <1>6, <1>10
  <2>. QED BY <2>1, MatchedIs
<1>12. Kept(NewTree, point, 1) = 0
  <2>1. ~LagsReturn(NewTree, point, 0)
    <3>1. ~(Len(fs) = Len(NewTree.live) - 1)
      BY <1>6, <1>10
    <3>. QED BY <1>7, <3>1 DEF LagsReturn
  <2>2. ~(point.event = "call")
    BY <1>7
  <2>. QED BY <1>7, <1>11, <2>1, <2>2 DEF Kept
<1>13. Fed(NewTree, point, 1, 0, 0, tree)
  <2>1. /\ point.frames # <<>> /\ 1 \in Nat \ {0} /\ 0 \in Nat /\ 0 <= Len(NewTree.live)
        /\ Len(point.frames) = 0 + 1
    <3>1. fs # <<>>
      <4>1. Len(<<>>) = 0
        OBVIOUS
      <4>2. Len(fs) # Len(<<>>)
        BY <1>6, <4>1
      <4>. QED BY <4>2
    <3>. QED BY <1>6, <1>7, <1>10, <3>1
  <2>2. \A i : i \notin 1..Len(NewTree.live)
    BY <1>10
  <2>3. 0 = Matched(NewTree, point.frames, 1) /\ 0 = Kept(NewTree, point, 1)
    BY <1>7, <1>11, <1>12
  <2>. QED BY <1>4, <1>7, <1>9, <2>1, <2>2, <2>3, FeedProperties
<1>14. /\ tree \in Tree /\ Len(tree.live) = 1
       /\ tree.live[1] = [node |-> 1, hash |-> FrameHash(fs[1]), addr |-> fs[1].addr]
       /\ Len(tree.nodes) = 1
       /\ tree.nodes[1].func = Main /\ tree.nodes[1].parent = None
       /\ tree.nodes[1].enter = 1 /\ tree.nodes[1].exit = None /\ tree.nodes[1].ret = None
       /\ tree.nodes[1].label = 1
       /\ ~tree.hasRecursion
  <2>1. /\ tree \in Tree /\ Len(tree.live) = Len(fs)
        /\ \A j \in 1..Len(fs) :
              tree.live[j] = IF j <= 0 /\ j > 0 THEN NewTree.live[j]
                             ELSE [node |-> IF j <= 0 THEN NewTree.live[j].node
                                            ELSE Len(NewTree.nodes) + 1,
                                   hash |-> FrameHash(fs[j]), addr |-> fs[j].addr]
        /\ Len(tree.nodes) = Len(NewTree.nodes) + (Len(fs) - 0)
    BY <1>7, <1>13 DEF Fed
  <2>2. Len(fs) = 0 + 1 =>
          /\ tree.nodes[Len(NewTree.nodes) + 1].func = fs[0 + 1].func
          /\ tree.nodes[Len(NewTree.nodes) + 1].label = Last(fs).arg
          /\ tree.nodes[Len(NewTree.nodes) + 1].parent =
               IF 0 = 0 THEN None ELSE NewTree.live[0].node
          /\ tree.nodes[Len(NewTree.nodes) + 1].enter = 1
          /\ tree.nodes[Len(NewTree.nodes) + 1].exit = None
          /\ point.event # "return" => tree.nodes[Len(NewTree.nodes) + 1].ret = None
    BY <1>7, <1>13 DEF Fed
  <2>3. tree.hasRecursion <=>
          NewTree.hasRecursion \/ (Len(fs) = 0 + 1 /\
             \E i \in 1..0 : NewTree.nodes[NewTree.live[i].node].func = fs[0 + 1].func)
    BY <1>7, <1>13 DEF Fed
  <2>4. ~tree.hasRecursion
    <3>1. 1..0 = {}
      OBVIOUS
    <3>. QED BY <1>9, <2>3, <3>1
  <2>5. /\ Len(tree.live) = 1 /\ Len(tree.nodes) = 1
        /\ tree.live[1] = [node |-> 1, hash |-> FrameHash(fs[1]), addr |-> fs[1].addr]
    <3>1. 1 \in 1..1 /\ ~(1 <= 0) /\ 0 + 1 = 1 /\ 0 + (1 - 0) = 1
      OBVIOUS
    <3>. QED BY <1>6, <1>10, <2>1, <3>1
  <2>6. /\ tree.nodes[1].func = Main /\ tree.nodes[1].parent = None
        /\ tree.nodes[1].enter = 1 /\ tree.nodes[1].exit = None /\ tree.nodes[1].ret = None
        /\ tree.nodes[1].label = 1
    <3>1. 0 + 1 = 1 /\ point.event # "return"
      BY <1>7
    <3>2. Last(fs).arg = 1
      BY <1>6 DEF Last
    <3>. QED BY <1>6, <1>10, <2>2, <3>1, <3>2
  <2>. QED BY <2>1, <2>4, <2>5, <2>6
<1>15. DOMAIN tree.nodes = {1} /\ 1..1 = {1}
  <2>1. tree.nodes \in Seq(TreeNode)
    BY <1>14 DEF Tree
  <2>. QED BY <1>14, <2>1, LenProperties
<1>16. TreeTypeOK
  BY <1>4, <1>5, <1>8, <1>14 DEF TreeTypeOK
<1>17. CallsNest
  <2>1. calls[1].exit = None /\ calls[1].parent = None /\ calls[1].enter = 1 /\ stack[1].call = 1
    BY <1>3, <1>5
  <2>2. 1 \in 1..1
    OBVIOUS
  <2>. QED BY <1>5, <1>8, <2>1, <2>2 DEF CallsNest
<1>18. StackIsCalls
  BY <1>3, <1>4, <1>5, <1>8 DEF StackIsCalls
<1>19. LiveIsStack
  <2>1. FrameHash(fs[1]) = <<Main, a>>
    BY <1>6 DEF FrameHash
  <2>2. tree.live[1] = [node |-> stack[1].call, addr |-> stack[1].addr,
                        hash |-> <<stack[1].func, stack[1].addr>>]
    BY <1>3, <1>5, <1>6, <1>14, <2>1
  <2>3. calls[1].exit # Len(trace)
    BY <1>2, <1>3, <1>5, <1>8
  <2>. QED BY <1>4, <1>5, <1>14, <2>2, <2>3 DEF LiveIsStack
<1>20. Up(calls)[1] = {} /\ \A n : Ancestors(n) = Up(calls)[n]
  <2>1. Len(calls) \in Nat /\ 1 \in 1..Len(calls)
        /\ \A n \in 1..Len(calls) : calls[n].parent \in {None} \cup 1..n - 1
    BY <1>3, <1>5, <1>15
  <2>2. Up(calls)[1] = IF calls[1].parent = None THEN {}
                       ELSE {calls[1].parent} \cup Up(calls)[calls[1].parent]
    BY <2>1, UpIsDefined
  <2>. QED BY <1>3, <1>5, <2>2, AncestorsIsUp
<1>21. TreeIsTruth
  <2>1. 1 # None
    BY <1>2
  <2>2. ~\E n \in DOMAIN calls : \E m \in Ancestors(n) : calls[m].func = calls[n].func
    BY <1>5, <1>20
  <2>. QED BY <1>3, <1>5, <1>8, <1>14, <2>1, <2>2 DEF TreeIsTruth
<1>22. CurrentIsShown
  <2>1. LiveAtEnd(tree, 1, 1, <<1>>)
    <3>1. Chained(tree.nodes, 1, <<1>>)
      BY <1>14, <1>15 DEF Chained
    <3>2. IsLive(tree, 1, 1)
      BY <1>14 DEF IsLive
    <3>3. \A i, j \in 1..1 : i = j
      BY <1>15
    <3>. QED BY <1>14, <1>15, <3>1, <3>2, <3>3 DEF LiveAtEnd
  <2>2. CurrentNodes(tree, 1) = {<<1>>[1]}
    <3>1. Len(tree.nodes) \in Nat /\ DOMAIN tree.nodes = 1..Len(tree.nodes) /\ 1 \in Nat \ {0}
      BY <1>14, <1>15
    <3>. QED BY <1>2, <2>1, <3>1, LastIsCurrent
  <2>3. {n \in DOMAIN tree.nodes : NodeState(tree, n, 1) = "current"} = {1}
    BY <2>2 DEF CurrentNodes
  <2>4. Cardinality({n \in DOMAIN tree.nodes : NodeState(tree, n, 1) = "current"}) = 1
    BY <2>3, FS_Singleton
  <2>5. \A n \in DOMAIN tree.nodes : Ancestors(n) = {}
    BY <1>15, <1>20
  <2>. QED BY <1>8, <1>15, <2>4, <2>5 DEF CurrentIsShown
<1>23. ArgumentInv
  <2> DEFINE d == Deep(tree.nodes)
  <2>1. d[1] = 1
    <3>1. /\ Len(tree.nodes) \in Nat /\ DOMAIN tree.nodes = 1..Len(tree.nodes)
          /\ 1 \in 1..Len(tree.nodes)
          /\ \A n \in 1..Len(tree.nodes) : tree.nodes[n].parent \in {None} \cup 1..n - 1
      BY <1>14, <1>15
    <3>2. d[1] = IF tree.nodes[1].parent = None THEN 1 ELSE 1 + d[tree.nodes[1].parent]
      BY <3>1, DeepIsDefined
    <3>. QED BY <1>14, <3>2
  <2>2. DOMAIN trace = {1} /\ trace[1].frames = fs
    BY <1>4, <1>7
  <2>. HIDE DEF d
  <2>3. /\ calls[1].func = Main /\ calls[1].parent = None /\ calls[1].enter = 1
        /\ calls[1].exit = None /\ 1 # None
    BY <1>2, <1>3, <1>5
  <2>4. OwnIn(calls, d, trace)
    BY <1>5, <1>6, <2>1, <2>2, <2>3 DEF OwnIn
  <2>5. HeldIn(calls, d, trace)
    BY <1>5, <1>6, <2>1, <2>2, <2>3 DEF HeldIn
  <2>6. SetIn(calls, d, trace)
    BY <1>5, <2>2, <2>3 DEF SetIn
  <2>7. LabelsAreOwn
    BY <1>14, <1>15 DEF LabelsAreOwn
  <2>. QED BY <2>4, <2>5, <2>6, <2>7, ArgumentsAre DEF ArgumentsIn, d
<1>24. LayoutInv
  <2>1. stack[1].call = 1 /\ ~(1 < 1)
    BY <1>3, <1>5
  <2>2. 1 <= 1
    OBVIOUS
  <2>. QED BY <1>5, <1>15, <2>1, <2>2 DEF LayoutInv, StackIsLast, CallersInOrder
<1>. QED BY <1>16, <1>17, <1>18, <1>19, <1>21, <1>22, <1>23, <1>24 DEF TreeInv

\* Every step of the program keeps TreeInv, and its point shows what Shows says.
LEMMA NextStep ==
    ASSUME NamesDiffer, TreeInv, Next
    PROVE  TreeInv' /\ stack # <<>> /\ \E point, more, m : Shows(point, more, m)
<1>1. stack # <<>> /\ stack \in Seq(StackFrame)
  BY DEF Next, TreeInv, TreeTypeOK
<1>2. PICK settle \in IF Last(stack).fresh THEN Addr ELSE {Last(stack).addr} :
         \/ \E f \in Func : Call(f, settle)
         \/ \E set \in BOOLEAN : StepLine(settle, set)
         \/ LagLine
         \/ Return(settle)
  BY DEF Next
<1>3. settle \in Addr
  <2>1. Last(stack) \in StackFrame
    BY <1>1, LastProperties
  <2>2. Last(stack).addr \in Addr
    BY <2>1 DEF StackFrame
  <2>. QED BY <1>2, <2>2
<1>4. CASE \E f \in Func : Call(f, settle)
  BY <1>1, <1>3, <1>4, CallStep
<1>5. CASE \E set \in BOOLEAN : StepLine(settle, set)
  BY <1>1, <1>3, <1>5, StepLineStep
<1>6. CASE LagLine
  BY <1>1, <1>6, LagLineStep
<1>7. CASE Return(settle)
  BY <1>1, <1>3, <1>7, ReturnStep
<1>. QED BY <1>1, <1>2, <1>4, <1>5, <1>6, <1>7

-----------------------------------------------------------------------------
(* The theorems.                                                           *)

\* TreeInv holds of the first point and every point after it keeps it, so that what
\* buildCallTree holds is at each point the tree of the calls made so far.
THEOREM TreeInductive ==
    ASSUME NamesDiffer
    PROVE  Spec => []TreeInv
<1>1. Init => TreeInv
  BY FirstPoint
<1>2. TreeInv /\ [Next]_vars => TreeInv'
  <2> SUFFICES ASSUME TreeInv, [Next]_vars PROVE TreeInv'
    OBVIOUS
  <2>1. CASE Next
    BY <2>1, NextStep
  <2>2. CASE UNCHANGED vars
    <3>1. /\ stack' = stack /\ returned' = returned /\ calls' = calls
          /\ trace' = trace /\ tree' = tree
      BY <2>2 DEF vars
    <3>2. TreeTypeOK' /\ CallsNest' /\ StackIsCalls' /\ LiveIsStack'
      BY <3>1 DEF TreeInv, TreeTypeOK, CallsNest, StackIsCalls, LiveIsStack
    <3>3. \A n : Ancestors(n)' = Ancestors(n)
      BY <3>1, AncestorsIsUp
    <3>4. TreeIsTruth'
      BY <3>1, <3>3 DEF TreeInv, TreeIsTruth
    <3>5. CurrentIsShown'
      BY <3>1, <3>3 DEF TreeInv, CurrentIsShown
    <3>. QED BY <3>2, <3>4, <3>5 DEF TreeInv
  <2>. QED BY <2>1, <2>2
<1>. QED BY <1>1, <1>2, PTL DEF Spec

\* The tree has one node for each call made, where it was made, entered and left and
\* with what it returned, whatever names and addresses the tracer gives the frames:
\* the matching of buildCallTree (callTree.ts) never merges two calls, splits one or
\* hangs one under the wrong caller, and hasRecursion is set exactly when a function
\* has called itself.
THEOREM TreeIsOfCalls ==
    ASSUME NamesDiffer
    PROVE  Spec => []TreeIsTruth
<1>1. TreeInv => TreeIsTruth
  BY DEF TreeInv
<1>. QED BY <1>1, TreeInductive, PTL

\* At every step of every trace one call is the one that runs, and nothing above it
\* in the call log is folded.
THEOREM RunningIsSeen ==
    ASSUME NamesDiffer
    PROVE  Spec => []CurrentIsShown
<1>1. TreeInv => CurrentIsShown
  BY DEF TreeInv
<1>. QED BY <1>1, TreeInductive, PTL

\* ArgumentInv holds with TreeInv: a frame that shows a call's argument is that call's
\* own, of a time when it had not returned, and until it returns no frame in its place
\* that bears its name shows another's.
THEOREM ArgumentsInductive ==
    ASSUME NamesDiffer
    PROVE  Spec => []ArgumentInv
<1>1. Init => ArgumentInv
  BY FirstPoint
<1>2. TreeInv /\ TreeInv' /\ ArgumentInv /\ [Next]_vars => ArgumentInv'
  <2> SUFFICES ASSUME TreeInv, TreeInv', ArgumentInv, [Next]_vars PROVE ArgumentInv'
    OBVIOUS
  <2>1. CASE Next
    <3>1. PICK point, more, m : Shows(point, more, m)
      BY <2>1, NextStep
    <3>2. stack # <<>>
      BY <2>1, NextStep
    <3>. QED BY <3>1, <3>2, ArgumentStep
  <2>2. CASE UNCHANGED vars
    <3>1. calls' = calls /\ trace' = trace /\ tree' = tree
      BY <2>2 DEF vars
    <3>2. LabelsAreOwn'
      BY <3>1 DEF ArgumentInv, LabelsAreOwn
    <3>3. ArgumentsIn(calls', Deep(tree'.nodes), trace')
      BY <3>1, ArgumentsAre
    <3>. QED BY <3>2, <3>3, ArgumentsAre
  <2>. QED BY <2>1, <2>2
<1>. QED BY <1>1, <1>2, TreeInductive, PTL DEF Spec

\* A label is the call's own argument or none, never the garbage of its return nor a
\* callee's locals (the refresh in callTree.ts leaves those points out), and what
\* inspectVariable shows at settledEntryStep (frameInspector.ts) is the argument the
\* call received, whenever some point before its return held it.
THEOREM ArgumentsAreTheCalls ==
    ASSUME NamesDiffer
    PROVE  Spec => []ArgumentsAreOwn
<1>1. TreeInv /\ ArgumentInv => ArgumentsAreOwn
  BY ArgumentsFollow
<1>. QED BY <1>1, TreeInductive, ArgumentsInductive, PTL

\* LayoutInv holds with TreeInv: the calls of one depth are made in the order of their
\* callers, since a frame of the stack is of the last call of its depth.
THEOREM LayoutInductive ==
    ASSUME NamesDiffer
    PROVE  Spec => []LayoutInv
<1>1. Init => LayoutInv
  BY FirstPoint
<1>2. TreeInv /\ TreeInv' /\ LayoutInv /\ [Next]_vars => LayoutInv'
  <2> SUFFICES ASSUME TreeInv, TreeInv', LayoutInv, [Next]_vars PROVE LayoutInv'
    OBVIOUS
  <2>1. CASE Next
    <3>1. PICK point, more, m : Shows(point, more, m)
      BY <2>1, NextStep
    <3>2. stack # <<>>
      BY <2>1, NextStep
    <3>. QED BY <3>1, <3>2, LayoutStep
  <2>2. CASE UNCHANGED vars
    <3>1. stack' = stack /\ tree' = tree
      BY <2>2 DEF vars
    <3>. QED BY <3>1, LayoutInvIs
  <2>. QED BY <2>1, <2>2
<1>. QED BY <1>1, <1>2, TreeInductive, PTL DEF Spec

\* Two boxes of one depth keep their gap whatever their widths (treeLayout.ts "no
\* overlap"): layoutTree gives each subtree a band as wide as its row of children, and
\* the clamping keeps a parent within its band.
THEOREM BoxesKeepApart ==
    ASSUME NamesDiffer, SizesAreNatural
    PROVE  Spec => []NoOverlap
<1>1. TreeInv /\ LayoutInv => NoOverlap
  BY BoxesFollow
<1>. QED BY <1>1, TreeInductive, LayoutInductive, PTL

=============================================================================
