----------------------------- MODULE CommonLemmas -----------------------------
(***************************************************************************)
(* Facts about numbers and sequences that the proofs of several components *)
(* need.                                                                   *)
(***************************************************************************)
EXTENDS Integers, Sequences, FiniteSetsExt, Filter, TLAPS, SequenceTheorems,
        FiniteSetTheorems, WellFoundedInduction

-----------------------------------------------------------------------------
(* Numbers.                                                                *)

\* A set of naturals has a least element.
LEMMA LeastNatural ==
    ASSUME NEW T, T \subseteq Nat, T # {}
    PROVE  \E x \in T : \A y \in T : x <= y
<1> DEFINE R == OpToRel(<, Nat)
<1>1. IsWellFoundedOn(R, Nat)
  BY NatLessThanWellFounded
<1>2. \A x, y \in Nat : <<y, x>> \in R <=> y < x
  BY DEF OpToRel
<1>. HIDE DEF R
<1>3. PICK x \in T : \A y \in T : ~(<<y, x>> \in R)
  BY <1>1, WFMin
<1>4. ASSUME NEW y \in T PROVE x <= y
  <2>1. x \in Nat /\ y \in Nat /\ ~(y < x)
    BY <1>2, <1>3
  <2>. QED BY <2>1
<1>. QED BY <1>4

\* A set of integers with an upper bound has a greatest element.
LEMMA GreatestInteger ==
    ASSUME NEW T, T \subseteq Int, T # {}, NEW b \in Int, \A x \in T : x <= b
    PROVE  \E x \in T : \A y \in T : y <= x
<1> DEFINE D == {b - x : x \in T}
<1>1. D \subseteq Nat /\ D # {}
  <2>1. \A x \in T : b - x \in Nat
    OBVIOUS
  <2>. QED BY <2>1
<1>. HIDE DEF D
<1>2. PICK d \in D : \A e \in D : d <= e
  BY <1>1, LeastNatural
<1>3. PICK x \in T : d = b - x
  BY <1>2 DEF D
<1>4. ASSUME NEW y \in T PROVE y <= x
  <2>1. b - y \in D
    BY DEF D
  <2>2. d <= b - y
    BY <1>2, <2>1
  <2>. QED BY <1>3, <2>2
<1>. QED BY <1>4

\* The last of the numbers that are as asked.
LEMMA MaxIs ==
    ASSUME NEW S, S \subseteq Int, NEW m \in S, \A x \in S : x <= m
    PROVE  Max(S) = m
<1>1. \A y \in S : m >= y
  OBVIOUS
<1>2. ASSUME NEW n \in S, \A y \in S : n >= y PROVE n = m
  <2>1. n >= m /\ m >= n
    BY <1>1, <1>2
  <2>. QED BY <2>1
<1>. QED BY <1>1, <1>2 DEF Max

\* And it is one of them.
LEMMA MaxProperties ==
    ASSUME NEW S, S \subseteq Int, S # {}, NEW b \in Int, \A x \in S : x <= b
    PROVE  Max(S) \in S /\ \A x \in S : x <= Max(S)
<1>1. PICK m \in S : \A x \in S : x <= m
  BY GreatestInteger
<1>2. Max(S) = m
  BY <1>1, MaxIs
<1>. QED BY <1>1, <1>2

\* A set of naturals has a least element, which Min is.
LEMMA MinProperties ==
    ASSUME NEW S, S \subseteq Nat, S # {}
    PROVE  Min(S) \in S /\ \A x \in S : Min(S) <= x
<1>1. \E m \in S : \A x \in S : m <= x
  BY LeastNatural
<1>. QED BY <1>1 DEF Min

-----------------------------------------------------------------------------
(* Sequences: one that grows, changes or shrinks at its end.               *)

\* A function on 1..n is a sequence.
LEMMA FunctionIsSequence ==
    ASSUME NEW S, NEW n \in Nat, NEW f \in [1..n -> S]
    PROVE  f \in Seq(S) /\ Len(f) = n
<1>1. f \in Seq(S)
  BY SeqDef
<1>. QED BY <1>1, LenProperties

\* What has the elements of a sequence at its places is one.
LEMMA IsSequence ==
    ASSUME NEW n \in Nat, NEW r, r = [i \in 1..n |-> r[i]]
    PROVE  r \in Seq(Range(r)) /\ Len(r) = n /\ (n > 0 => r # <<>>)
<1>1. DOMAIN r = 1..n
  OBVIOUS
<1>2. r \in [1..n -> Range(r)]
  BY <1>1 DEF Range
<1>3. r \in Seq(Range(r))
  BY <1>2, SeqDef
<1>4. Len(r) = n
  BY <1>1, <1>3, LenProperties
<1>5. n > 0 => r # <<>>
  BY <1>3, <1>4, EmptySeq
<1>. QED BY <1>3, <1>4, <1>5

LEMMA SingletonProperties ==
    ASSUME NEW e
    PROVE  /\ <<e>> \in Seq(Range(<<e>>)) /\ <<e>> # <<>>
           /\ Len(<<e>>) = 1 /\ DOMAIN <<e>> = {1} /\ <<e>>[1] = e
<1> DEFINE r == <<e>>
<1>1. r \in Seq({e}) /\ Len(r) = 1 /\ r[1] = e /\ DOMAIN r = {1}
  OBVIOUS
<1>. HIDE DEF r
<1>2. r = [i \in 1..1 |-> r[i]]
  BY <1>1, LenProperties
<1>3. r \in Seq(Range(r)) /\ r # <<>>
  BY <1>2, IsSequence
<1>. QED BY <1>1, <1>3 DEF r

LEMMA SequenceShape ==
    ASSUME NEW s, s \in Seq(Range(s))
    PROVE  /\ Len(s) \in Nat /\ DOMAIN s = 1..Len(s)
           /\ s = [i \in 1..Len(s) |-> s[i]]
           /\ s # <<>> => Len(s) > 0
BY LenProperties, EmptySeq

\* An element more.
LEMMA GrowProperties ==
    ASSUME NEW s, s \in Seq(Range(s)), NEW e
    PROVE  /\ Append(s, e) \in Seq(Range(Append(s, e)))
           /\ Append(s, e) # <<>>
           /\ Len(s) \in Nat /\ DOMAIN s = 1..Len(s)
           /\ Len(Append(s, e)) = Len(s) + 1
           /\ DOMAIN Append(s, e) = 1..Len(s) + 1
           /\ \A i \in 1..Len(s) : Append(s, e)[i] = s[i]
           /\ Append(s, e)[Len(s) + 1] = e
<1>1. Len(s) \in Nat /\ DOMAIN s = 1..Len(s)
  BY SequenceShape
<1>. DEFINE r == Append(s, e)
<1>2. s \in Seq(Range(s) \cup {e})
  BY SeqMonotonic
<1>4. /\ r \in Seq(Range(s) \cup {e}) /\ Len(r) = Len(s) + 1
      /\ r[Len(s) + 1] = e
      /\ \A i \in 1..Len(s) : r[i] = s[i]
  BY <1>2
<1>. HIDE DEF r
<1>3. r = [i \in 1..Len(s) + 1 |-> r[i]]
  BY <1>4, LenProperties
<1>5. Len(s) + 1 \in Nat /\ Len(s) + 1 > 0
  BY <1>1
<1>6. r \in Seq(Range(r)) /\ Len(r) = Len(s) + 1 /\ r # <<>>
  BY <1>3, <1>5, IsSequence
<1>7. DOMAIN r = 1..Len(s) + 1
  BY <1>3
<1>. QED BY <1>1, <1>4, <1>6, <1>7 DEF r

\* The last element is replaced.
LEMMA ReplaceProperties ==
    ASSUME NEW s, s \in Seq(Range(s)), s # <<>>, NEW e
    PROVE  LET r == [s EXCEPT ![Len(s)] = e]
           IN  /\ r \in Seq(Range(r)) /\ r # <<>>
               /\ Len(s) \in Nat \ {0} /\ Len(r) = Len(s)
               /\ \A i \in 1..Len(s) - 1 : r[i] = s[i]
               /\ r[Len(s)] = e
<1> DEFINE r == [s EXCEPT ![Len(s)] = e]
<1>1. Len(s) \in Nat \ {0} /\ DOMAIN s = 1..Len(s)
  BY SequenceShape
<1>2. r = [i \in 1..Len(s) |-> IF i = Len(s) THEN e ELSE s[i]]
  BY <1>1
<1>3. r = [i \in 1..Len(s) |-> r[i]]
  BY <1>2
<1>4. /\ \A i \in 1..Len(s) - 1 : r[i] = s[i]
      /\ r[Len(s)] = e
  BY <1>1, <1>2
<1>. HIDE DEF r
<1>5. Len(s) \in Nat /\ Len(s) > 0
  BY <1>1
<1>6. r \in Seq(Range(r)) /\ r # <<>> /\ Len(r) = Len(s)
  BY <1>3, <1>5, IsSequence
<1>. QED BY <1>1, <1>4, <1>6 DEF r

\* The last element is dropped.
LEMMA DropProperties ==
    ASSUME NEW s, s \in Seq(Range(s)), Len(s) > 1
    PROVE  LET r == SubSeq(s, 1, Len(s) - 1)
           IN  /\ r \in Seq(Range(r)) /\ r # <<>>
               /\ Len(s) \in Nat \ {0, 1} /\ Len(r) = Len(s) - 1
               /\ \A i \in 1..Len(s) - 1 : r[i] = s[i]
<1> DEFINE r == SubSeq(s, 1, Len(s) - 1)
<1>1. Len(s) \in Nat \ {0, 1} /\ DOMAIN s = 1..Len(s)
  BY SequenceShape
<1>2. \A i \in 1..Len(s) - 1 : s[i] \in Range(s)
  BY <1>1 DEF Range
<1>4. /\ r \in Seq(Range(s)) /\ Len(r) = Len(s) - 1
      /\ \A i \in 1..Len(s) - 1 : r[i] = s[i]
  BY <1>1, <1>2, SubSeqProperties
<1>. HIDE DEF r
<1>3. r = [i \in 1..Len(s) - 1 |-> r[i]]
  BY <1>4, LenProperties
<1>5. Len(s) - 1 \in Nat /\ Len(s) - 1 > 0
  BY <1>1
<1>6. r \in Seq(Range(r)) /\ r # <<>> /\ Len(r) = Len(s) - 1
  BY <1>3, <1>5, IsSequence
<1>. QED BY <1>1, <1>4, <1>6 DEF r

-----------------------------------------------------------------------------
(* What recursion over a sequence defines.                                 *)

(* A fold of the steps over the subsets of 1..n, from b on; and what n     *)
(* times the same step makes of b.                                         *)
IsFold(fold, n, b, step) ==
    \A s \in SUBSET (1..n) : fold[s] = IF s = {} THEN b ELSE step[Max(s)][fold[s \ {Max(s)}]]
IsIteration(f, n, b, step) ==
    \A i \in 0..n : f[i] = IF i = 0 THEN b ELSE step[f[i - 1]]

\* There is a fold over 1..n.
LEMMA FoldExists ==
    ASSUME NEW n \in Nat, NEW X, NEW b \in X, NEW step,
           \A i \in 1..n : \A x \in X : step[i][x] \in X
    PROVE  \E fold \in [SUBSET (1..n) -> X] : IsFold(fold, n, b, step)
<1> DEFINE Is(fold, s) == fold[s] = IF s = {} THEN b ELSE step[Max(s)][fold[s \ {Max(s)}]]
           Folds(k) == \E fold \in [SUBSET (1..k) -> X] : \A s \in SUBSET (1..k) : Is(fold, s)
           Failing == {k \in 0..n : ~Folds(k)}
<1>1. ASSUME Failing # {} PROVE FALSE
  <2>1. PICK k \in Failing : \A i \in Failing : k <= i
    <3>1. Failing \subseteq Nat
      OBVIOUS
    <3>. HIDE DEF Failing
    <3>. QED BY <1>1, <3>1, LeastNatural
  <2>2. k \in 0..n /\ ~Folds(k)
    OBVIOUS
  <2>3. k # 0
    <3>1. SUBSET (1..0) = {{}}
      OBVIOUS
    <3> DEFINE none == [s \in {{}} |-> b]
    <3>2. none \in [{{}} -> X] /\ none[{}] = b
      OBVIOUS
    <3>3. none \in [SUBSET (1..0) -> X] /\ \A s \in SUBSET (1..0) : Is(none, s)
      BY <3>1, <3>2
    <3>4. Folds(0)
      <4>. HIDE DEF none, Is
      <4>. QED BY <3>3
    <3>. HIDE DEF Folds
    <3>. QED BY <2>2, <3>4
  <2>4. k - 1 \in 0..n /\ ~(k <= k - 1)
    BY <2>2, <2>3
  <2>5. Folds(k - 1)
    <3>. HIDE DEF Folds
    <3>. QED BY <2>1, <2>4
  <2>6. PICK less \in [SUBSET (1..k - 1) -> X] : \A s \in SUBSET (1..k - 1) : Is(less, s)
    <3>. HIDE DEF Is
    <3>. QED BY <2>5
  <2> DEFINE more == [s \in SUBSET (1..k) |-> IF k \in s THEN step[k][less[s \ {k}]] ELSE less[s]]
  <2>7. ASSUME NEW s \in SUBSET (1..k) PROVE more[s] \in X /\ Is(more, s)
    <3>1. CASE k \in s
      <4>1. s \subseteq Int /\ \A x \in s : x <= k
        BY <2>2
      <4>2. Max(s) = k
        BY <3>1, <4>1, MaxIs
      <4>3. s \ {k} \in SUBSET (1..k - 1) /\ s \ {k} \in SUBSET (1..k) /\ k \in 1..n
        BY <2>2, <2>3
      <4>4. less[s \ {k}] \in X
        BY <2>6, <4>3
      <4>5. more[s \ {k}] = less[s \ {k}]
        BY <4>3
      <4>6. more[s] = step[k][less[s \ {k}]]
        BY <3>1
      <4>7. more[s] \in X
        BY <4>3, <4>4, <4>6
      <4>. HIDE DEF more
      <4>. QED BY <3>1, <4>2, <4>5, <4>6, <4>7
    <3>2. CASE k \notin s
      <4>1. s \in SUBSET (1..k - 1)
        BY <2>2, <3>2
      <4>2. more[s] = less[s] /\ less[s] \in X
        BY <2>6, <3>2, <4>1
      <4>3. CASE s = {}
        <5>1. less[s] = b
          BY <2>6, <4>1, <4>3
        <5>. HIDE DEF more
        <5>. QED BY <4>2, <4>3, <5>1
      <4>4. CASE s # {}
        <5> DEFINE m == Max(s)
        <5>1. s \subseteq Int /\ \A x \in s : x <= k
          BY <2>2, <4>1
        <5>2. m \in s
          <6>1. k \in Int
            BY <2>2
          <6>. QED BY <4>4, <5>1, <6>1, MaxProperties
        <5>3. s \ {m} \in SUBSET (1..k) /\ k \notin s \ {m}
          BY <3>2
        <5>4. more[s \ {m}] = less[s \ {m}]
          BY <5>3
        <5>5. less[s] = step[m][less[s \ {m}]]
          BY <2>6, <4>1, <4>4
        <5>. HIDE DEF more, m
        <5>. QED BY <4>2, <4>4, <5>4, <5>5 DEF m
      <4>. QED BY <4>3, <4>4
    <3>. QED BY <3>1, <3>2
  <2>8. more \in [SUBSET (1..k) -> X]
    <3>1. \A s \in SUBSET (1..k) : more[s] \in X
      BY <2>7
    <3>. QED BY <3>1
  <2>9. Folds(k)
    <3>. HIDE DEF more, Is
    <3>. QED BY <2>7, <2>8
  <2>. QED BY <2>2, <2>9
<1>2. Folds(n)
  <2>1. n \in 0..n
    OBVIOUS
  <2>. HIDE DEF Folds
  <2>. QED BY <1>1, <2>1
<1>. QED BY <1>2 DEF IsFold

\* So is what a step does a number of times over.
LEMMA IterationExists ==
    ASSUME NEW n \in Nat, NEW X, NEW b \in X, NEW step, \A x \in X : step[x] \in X
    PROVE  \E f \in [0..n -> X] : IsIteration(f, n, b, step)
<1> DEFINE steps == [i \in 1..n |-> step]
<1>1. \A i \in 1..n : steps[i] = step
  OBVIOUS
<1>. HIDE DEF steps
<1>2. \A i \in 1..n : \A x \in X : steps[i][x] \in X
  BY <1>1
<1>3. PICK fold \in [SUBSET (1..n) -> X] : IsFold(fold, n, b, steps)
  BY <1>2, FoldExists
<1> DEFINE f == [i \in 0..n |-> fold[1..i]]
<1>4. \A i \in 0..n : 1..i \in SUBSET (1..n)
  OBVIOUS
<1>5. f \in [0..n -> X]
  BY <1>4
<1>6. ASSUME NEW i \in 0..n PROVE f[i] = IF i = 0 THEN b ELSE step[f[i - 1]]
  <2>1. CASE i = 0
    <3>1. 1..i = {}
      BY <2>1
    <3>2. fold[1..i] = b
      BY <1>3, <1>4, <3>1 DEF IsFold
    <3>. QED BY <2>1, <3>2
  <2>2. CASE i # 0
    <3>1. i \in 1..i /\ 1..i \subseteq Int /\ \A x \in 1..i : x <= i
      BY <2>2
    <3>2. Max(1..i) = i
      BY <3>1, MaxIs
    <3>3. (1..i) \ {i} = 1..i - 1 /\ i - 1 \in 0..n /\ i \in 1..n /\ 1..i # {}
      BY <2>2
    <3>4. fold[1..i] = steps[i][fold[1..i - 1]]
      BY <1>3, <1>4, <3>2, <3>3 DEF IsFold
    <3>5. f[i] = fold[1..i] /\ f[i - 1] = fold[1..i - 1]
      BY <3>3
    <3>. HIDE DEF f
    <3>. QED BY <1>1, <2>2, <3>3, <3>4, <3>5
  <2>. QED BY <2>1, <2>2
<1>. HIDE DEF f
<1>. QED BY <1>5, <1>6 DEF IsIteration

\* A part of 1..n without its last number, and a beginning of 1..n.
LEMMA MaxOfPart ==
    ASSUME NEW n \in Nat, NEW t \in SUBSET (1..n), t # {}
    PROVE  Max(t) \in t /\ t \ {Max(t)} \in SUBSET (1..n)
<1>1. t \subseteq Int /\ n \in Int /\ \A x \in t : x <= n
  OBVIOUS
<1>. QED BY <1>1, MaxProperties

LEMMA MaxOfBeginning ==
    ASSUME NEW n \in Nat, NEW i \in 1..n
    PROVE  /\ Max(1..i) = i /\ (1..i) \ {i} = 1..i - 1 /\ 1..i # {}
           /\ 1..i \in SUBSET (1..n) /\ 1..i - 1 \in SUBSET (1..n)
<1>1. i \in 1..i /\ 1..i \subseteq Int /\ \A x \in 1..i : x <= i
  OBVIOUS
<1>2. Max(1..i) = i
  BY <1>1, MaxIs
<1>. QED BY <1>2

\* What Append adds to a sequence.
LEMMA RangeOfAppend ==
    ASSUME NEW S, NEW s \in Seq(S), NEW e
    PROVE  Range(Append(s, e)) = Range(s) \cup {e}
<1> DEFINE r == Append(s, e)
<1>1. /\ Len(s) \in Nat /\ DOMAIN s = 1..Len(s) /\ Len(r) = Len(s) + 1
      /\ \A i \in 1..Len(s) : r[i] = s[i]
      /\ r[Len(s) + 1] = e
  <2>1. s \in Seq(S \cup {e})
    BY SeqMonotonic
  <2>. QED BY <2>1, AppendProperties, LenProperties
<1>2. DOMAIN r = 1..Len(s) + 1
  <2>1. s \in Seq(S \cup {e}) /\ e \in S \cup {e}
    BY SeqMonotonic
  <2>2. r \in Seq(S \cup {e})
    BY <2>1, AppendProperties
  <2>. HIDE DEF r
  <2>. QED BY <1>1, <2>2, LenProperties
<1>. HIDE DEF r
<1>3. \A v \in Range(r) : v \in Range(s) \cup {e}
  <2> TAKE v \in Range(r)
  <2>1. PICK i \in 1..Len(s) + 1 : v = r[i]
    BY <1>2 DEF Range
  <2>2. i \in 1..Len(s) \/ i = Len(s) + 1
    BY <1>1
  <2>. QED BY <1>1, <2>1, <2>2 DEF Range
<1>4. \A v \in Range(s) : v \in Range(r)
  <2> TAKE v \in Range(s)
  <2>1. PICK i \in 1..Len(s) : v = s[i]
    BY <1>1 DEF Range
  <2>2. i \in 1..Len(s) + 1 /\ r[i] = v
    BY <1>1, <2>1
  <2>. QED BY <1>2, <2>2 DEF Range
<1>5. e \in Range(r)
  <2>1. Len(s) + 1 \in 1..Len(s) + 1
    BY <1>1
  <2>. QED BY <1>1, <1>2, <2>1 DEF Range
<1>6. Range(r) = Range(s) \cup {e}
  BY <1>3, <1>4, <1>5
<1>. QED BY <1>6 DEF r

\* What one sequence adds to another.
LEMMA RangeOfConcat ==
    ASSUME NEW S, NEW s \in Seq(S), NEW t \in Seq(S)
    PROVE  Range(s \o t) = Range(s) \cup Range(t)
<1> DEFINE r == s \o t
<1>1. /\ r \in Seq(S) /\ Len(r) = Len(s) + Len(t)
      /\ \A i \in 1..Len(s) + Len(t) : r[i] = IF i <= Len(s) THEN s[i] ELSE t[i - Len(s)]
  BY ConcatProperties
<1>. HIDE DEF r
<1>2. /\ Len(s) \in Nat /\ Len(t) \in Nat /\ DOMAIN s = 1..Len(s) /\ DOMAIN t = 1..Len(t)
      /\ DOMAIN r = 1..Len(s) + Len(t)
  BY <1>1, LenProperties
<1>3. ASSUME NEW v \in Range(r) PROVE v \in Range(s) \cup Range(t)
  <2>1. PICK i \in 1..Len(s) + Len(t) : v = r[i]
    BY <1>2 DEF Range
  <2>2. i \in 1..Len(s) \/ (~(i <= Len(s)) /\ i - Len(s) \in 1..Len(t))
    BY <1>2
  <2>3. v = IF i <= Len(s) THEN s[i] ELSE t[i - Len(s)]
    BY <1>1, <2>1
  <2>4. i \in 1..Len(s) => i <= Len(s)
    BY <1>2
  <2>. QED BY <1>2, <2>2, <2>3, <2>4 DEF Range
<1>4. ASSUME NEW v \in Range(s) PROVE v \in Range(r)
  <2>1. PICK i \in 1..Len(s) : v = s[i]
    BY <1>2 DEF Range
  <2>2. i \in 1..Len(s) + Len(t) /\ i <= Len(s)
    BY <1>2
  <2>3. r[i] = v
    BY <1>1, <2>1, <2>2
  <2>. QED BY <1>2, <2>2, <2>3 DEF Range
<1>5. ASSUME NEW v \in Range(t) PROVE v \in Range(r)
  <2>1. PICK i \in 1..Len(t) : v = t[i]
    BY <1>2 DEF Range
  <2> DEFINE k == Len(s) + i
  <2>2. k \in 1..Len(s) + Len(t) /\ ~(k <= Len(s)) /\ k - Len(s) = i
    BY <1>2
  <2>. HIDE DEF k
  <2>3. r[k] = v
    BY <1>1, <2>1, <2>2
  <2>. QED BY <1>2, <2>2, <2>3 DEF Range
<1>6. Range(r) = Range(s) \cup Range(t)
  BY <1>3, <1>4, <1>5
<1>. QED BY <1>6 DEF r

\* Two sequences that share nothing.
LEMMA ConcatIsInjective ==
    ASSUME NEW S, NEW s \in Seq(S), NEW t \in Seq(S), IsInjective(s), IsInjective(t),
           Range(s) \cap Range(t) = {}
    PROVE  IsInjective(s \o t)
<1> DEFINE r == s \o t
           m == Len(s)
           n == Len(t)
<1>1. /\ r \in Seq(S) /\ Len(r) = m + n
      /\ \A i \in 1..m + n : r[i] = IF i <= m THEN s[i] ELSE t[i - m]
  BY ConcatProperties
<1>. HIDE DEF r
<1>2. m \in Nat /\ n \in Nat /\ DOMAIN s = 1..m /\ DOMAIN t = 1..n /\ DOMAIN r = 1..m + n
  BY <1>1, LenProperties
<1>. HIDE DEF m, n
<1>3. ASSUME NEW i \in 1..m + n, NEW j \in 1..m + n, r[i] = r[j] PROVE i = j
  <2>1. \A k \in 1..m + n : (k \in 1..m /\ k <= m) \/ (~(k <= m) /\ k - m \in 1..n)
    BY <1>2
  <2>2. \A k \in 1..m + n : k <= m => r[k] = s[k] /\ k \in DOMAIN s /\ s[k] \in Range(s)
    BY <1>1, <1>2, <2>1 DEF Range
  <2>3. \A k \in 1..m + n : ~(k <= m) => r[k] = t[k - m] /\ k - m \in DOMAIN t /\ t[k - m] \in Range(t)
    BY <1>1, <1>2, <2>1 DEF Range
  <2>4. CASE i <= m /\ j <= m
    BY <1>3, <2>2, <2>4 DEF IsInjective
  <2>5. CASE ~(i <= m) /\ ~(j <= m)
    <3>1. i - m = j - m
      BY <1>3, <2>3, <2>5 DEF IsInjective
    <3>. QED BY <1>2, <3>1
  <2>6. CASE ~(i <= m <=> j <= m)
    BY <1>3, <2>2, <2>3, <2>6
  <2>. QED BY <2>4, <2>5, <2>6
<1>4. IsInjective(r)
  BY <1>2, <1>3 DEF IsInjective
<1>. QED BY <1>4 DEF r

\* A sequence without repetitions gets an element that it does not have.
LEMMA AppendIsInjective ==
    ASSUME NEW S, NEW s \in Seq(S), NEW e \in S, IsInjective(s), e \notin Range(s)
    PROVE  IsInjective(Append(s, e))
<1>1. /\ Len(s) \in Nat /\ DOMAIN s = 1..Len(s) /\ Append(s, e) \in Seq(S)
      /\ Len(Append(s, e)) = Len(s) + 1 /\ Append(s, e)[Len(s) + 1] = e
      /\ \A i \in 1..Len(s) : Append(s, e)[i] = s[i]
  BY AppendProperties, LenProperties
<1> DEFINE r == Append(s, e)
<1>. HIDE DEF r
<1>2. DOMAIN r = 1..Len(s) + 1
  BY <1>1, LenProperties DEF r
<1>3. ASSUME NEW i \in 1..Len(s) + 1, NEW j \in 1..Len(s) + 1, r[i] = r[j] PROVE i = j
  <2>1. \A k \in 1..Len(s) + 1 : k # Len(s) + 1 => k \in 1..Len(s)
    BY <1>1
  <2>2. \A k \in 1..Len(s) : r[k] = s[k] /\ r[k] # e
    BY <1>1 DEF Range, r
  <2>3. r[Len(s) + 1] = e
    BY <1>1 DEF r
  <2>4. CASE i = Len(s) + 1 \/ j = Len(s) + 1
    BY <1>3, <2>1, <2>2, <2>3, <2>4
  <2>5. CASE i # Len(s) + 1 /\ j # Len(s) + 1
    <3>1. i \in 1..Len(s) /\ j \in 1..Len(s) /\ s[i] = s[j]
      BY <1>3, <2>1, <2>2, <2>5
    <3>. QED BY <1>1, <3>1 DEF IsInjective
  <2>. QED BY <2>4, <2>5
<1>4. IsInjective(r)
  BY <1>2, <1>3 DEF IsInjective
<1>. QED BY <1>4 DEF r

\* A sequence without repetitions is no longer than there are values for it.
LEMMA InjectiveIsShort ==
    ASSUME NEW S, IsFiniteSet(S), NEW s \in Seq(S), IsInjective(s)
    PROVE  Len(s) <= Cardinality(S)
<1>1. Len(s) \in Nat /\ DOMAIN s = 1..Len(s) /\ s \in [1..Len(s) -> S]
  BY LenProperties
<1>2. s \in Injection(1..Len(s), S)
  BY <1>1 DEF Injection, IsInjective
<1>3. Cardinality(1..Len(s)) <= Cardinality(S)
  BY <1>2, FS_Injection
<1>4. Cardinality(1..Len(s)) = Len(s)
  BY <1>1, FS_Interval
<1>. QED BY <1>3, <1>4

\* A sequence without repetitions is as long as it has elements.
LEMMA LengthOfInjective ==
    ASSUME NEW S, NEW s \in Seq(S), IsInjective(s)
    PROVE  Len(s) = Cardinality(Range(s))
<1>1. Len(s) \in Nat /\ DOMAIN s = 1..Len(s)
  BY LenProperties
<1>2. s \in [1..Len(s) -> Range(s)] /\ \A v \in Range(s) : \E i \in 1..Len(s) : s[i] = v
  <2>1. s = [i \in 1..Len(s) |-> s[i]]
    BY <1>1, LenProperties
  <2>2. \A i \in 1..Len(s) : s[i] \in Range(s)
    BY <1>1 DEF Range
  <2>. QED BY <1>1, <2>1, <2>2 DEF Range
<1>3. s \in Bijection(1..Len(s), Range(s))
  BY <1>1, <1>2 DEF Bijection, Injection, Surjection, IsInjective
<1>4. ExistsBijection(1..Len(s), Range(s))
  BY <1>3 DEF ExistsBijection
<1>. QED BY <1>1, <1>4, FS_CountingElements

-----------------------------------------------------------------------------
(* The elements of a sequence that are in a set.                           *)

(* How Keep goes through s.                                                *)
Keeping(kept, s, S) ==
    \A t \in SUBSET DOMAIN s :
       kept[t] = IF t = {} THEN <<>>
                 ELSE IF s[Max(t)] \in S THEN Append(kept[t \ {Max(t)}], s[Max(t)])
                      ELSE kept[t \ {Max(t)}]

\* The fold of Keep is defined.
LEMMA KeepUnfolds ==
    ASSUME NEW s, s \in Seq(Range(s)), NEW S
    PROVE  \E kept : Keep(s, S) = kept[DOMAIN s] /\ Keeping(kept, s, S)
<1> DEFINE n == Len(s)
           X == Seq(Range(s))
           step == [i \in 1..n |-> [x \in X |-> IF s[i] \in S THEN Append(x, s[i]) ELSE x]]
<1>1. n \in Nat /\ DOMAIN s = 1..n /\ <<>> \in X
  BY SequenceShape
<1>2. \A i \in 1..n : s[i] \in Range(s)
  BY <1>1 DEF Range
<1>3. \A i \in 1..n : \A x \in X :
         step[i][x] \in X /\ step[i][x] = IF s[i] \in S THEN Append(x, s[i]) ELSE x
  BY <1>2
<1>. HIDE DEF step, n, X
<1>4. PICK fold \in [SUBSET (1..n) -> X] : IsFold(fold, n, <<>>, step)
  BY <1>1, <1>3, FoldExists
<1>5. \A t \in SUBSET (1..n) : t # {} => Max(t) \in 1..n /\ fold[t \ {Max(t)}] \in X
  BY <1>1, MaxOfPart
<1>6. fold = [t \in SUBSET DOMAIN s |->
                IF t = {} THEN <<>>
                ELSE IF s[Max(t)] \in S THEN Append(fold[t \ {Max(t)}], s[Max(t)])
                     ELSE fold[t \ {Max(t)}]]
  <2>1. ASSUME NEW t \in SUBSET (1..n)
        PROVE  fold[t] = IF t = {} THEN <<>>
                         ELSE IF s[Max(t)] \in S THEN Append(fold[t \ {Max(t)}], s[Max(t)])
                              ELSE fold[t \ {Max(t)}]
    <3>1. fold[t] = IF t = {} THEN <<>> ELSE step[Max(t)][fold[t \ {Max(t)}]]
      BY <1>4 DEF IsFold
    <3>. QED BY <1>3, <1>5, <3>1
  <2>. QED BY <1>1, <2>1
<1> DEFINE keep == CHOOSE kept : kept = [t \in SUBSET DOMAIN s |->
                IF t = {} THEN <<>>
                ELSE IF s[Max(t)] \in S THEN Append(kept[t \ {Max(t)}], s[Max(t)])
                     ELSE kept[t \ {Max(t)}]]
<1>7. Keep(s, S) = keep[DOMAIN s]
  BY DEF Keep, FoldLeft, MapThenFoldSet
<1>8. keep = [t \in SUBSET DOMAIN s |->
                IF t = {} THEN <<>>
                ELSE IF s[Max(t)] \in S THEN Append(keep[t \ {Max(t)}], s[Max(t)])
                     ELSE keep[t \ {Max(t)}]]
  BY <1>6
<1>. HIDE DEF keep
<1>9. Keeping(keep, s, S)
  <2>1. ASSUME NEW t \in SUBSET DOMAIN s
        PROVE  keep[t] = IF t = {} THEN <<>>
                 ELSE IF s[Max(t)] \in S THEN Append(keep[t \ {Max(t)}], s[Max(t)])
                      ELSE keep[t \ {Max(t)}]
    BY <1>8
  <2>. QED BY <2>1 DEF Keeping
<1>. QED BY <1>7, <1>9

\* What Keep keeps, and that it adds nothing.
LEMMA KeepIs ==
    ASSUME NEW s, s \in Seq(Range(s)), NEW S
    PROVE  /\ Keep(s, S) \in Seq(Range(s) \cap S)
           /\ Len(Keep(s, S)) <= Len(s)
           /\ Range(Keep(s, S)) = Range(s) \cap S
<1>1. PICK kept : Keep(s, S) = kept[DOMAIN s] /\ Keeping(kept, s, S)
  BY KeepUnfolds
<1>2. Len(s) \in Nat /\ DOMAIN s = 1..Len(s)
  BY SequenceShape
<1> DEFINE Upto(i) == {s[j] : j \in 1..i}
           Kept(i) == /\ kept[1..i] \in Seq(Range(s) \cap S) /\ Len(kept[1..i]) <= i
                      /\ Range(kept[1..i]) = Upto(i) \cap S
           Failing == {i \in 0..Len(s) : ~Kept(i)}
<1>3. ASSUME Failing # {} PROVE FALSE
  <2>1. PICK i \in Failing : \A k \in Failing : i <= k
    <3>1. Failing \subseteq Nat
      OBVIOUS
    <3>. HIDE DEF Failing
    <3>. QED BY <1>3, <3>1, LeastNatural
  <2>2. i \in 0..Len(s) /\ ~Kept(i)
    OBVIOUS
  <2>3. Kept(0)
    <3>1. {} \in SUBSET DOMAIN s /\ 1..0 = {} /\ Upto(0) = {}
      OBVIOUS
    <3>2. kept[1..0] = <<>>
      BY <1>1, <3>1 DEF Keeping
    <3>3. <<>> \in Seq(Range(s) \cap S) /\ Len(<<>>) = 0 /\ Range(<<>>) = {}
      BY DEF Range
    <3>. QED BY <3>1, <3>2, <3>3
  <2>4. CASE i # 0
    <3>1. i - 1 \in 0..Len(s) /\ ~(i <= i - 1) /\ i \in 1..Len(s)
      BY <1>2, <2>2, <2>4
    <3>2. Kept(i - 1)
      <4>. HIDE DEF Kept
      <4>. QED BY <2>1, <3>1
    <3>3. kept[1..i] = IF s[i] \in S THEN Append(kept[1..i - 1], s[i]) ELSE kept[1..i - 1]
      <4>1. Max(1..i) = i /\ (1..i) \ {i} = 1..i - 1 /\ 1..i # {} /\ 1..i \in SUBSET (1..Len(s))
        BY <1>2, <3>1, MaxOfBeginning
      <4>. QED BY <1>1, <1>2, <4>1 DEF Keeping
    <3>4. Upto(i) = Upto(i - 1) \cup {s[i]}
      <4>1. 1..i = (1..i - 1) \cup {i}
        BY <1>2, <3>1
      <4>. QED BY <4>1
    <3>5. s[i] \in Range(s)
      BY <1>2, <3>1 DEF Range
    <3> DEFINE r == kept[1..i - 1]
    <3>. HIDE DEF Upto
    <3>6. CASE s[i] \in S
      <4>1. r \in Seq(Range(s) \cap S) /\ s[i] \in Range(s) \cap S
        BY <3>2, <3>5, <3>6
      <4>. HIDE DEF r
      <4>2. /\ Append(r, s[i]) \in Seq(Range(s) \cap S) /\ Len(Append(r, s[i])) = Len(r) + 1
            /\ Len(r) \in Nat
        BY <4>1, AppendProperties, LenProperties
      <4>3. Range(Append(r, s[i])) = Range(r) \cup {s[i]}
        BY <4>1, RangeOfAppend
      <4>4. kept[1..i] = Append(r, s[i])
        BY <3>3, <3>6 DEF r
      <4>5. Len(r) <= i - 1 /\ Range(r) = Upto(i - 1) \cap S
        BY <3>2 DEF r
      <4>6. Len(kept[1..i]) <= i
        BY <3>1, <4>2, <4>4, <4>5
      <4>7. Range(kept[1..i]) = Upto(i) \cap S
        BY <3>4, <3>6, <4>3, <4>4, <4>5
      <4>. QED BY <2>2, <4>2, <4>4, <4>6, <4>7
    <3>7. CASE s[i] \notin S
      <4>1. kept[1..i] = r /\ Len(r) \in Nat
        BY <3>2, <3>3, <3>7, LenProperties
      <4>2. r \in Seq(Range(s) \cap S) /\ Len(r) <= i - 1 /\ Range(r) = Upto(i - 1) \cap S
        BY <3>2
      <4>. HIDE DEF r
      <4>3. Len(r) <= i
        BY <3>1, <4>1, <4>2
      <4>. QED BY <2>2, <3>4, <3>7, <4>1, <4>2, <4>3
    <3>. QED BY <3>6, <3>7
  <2>. HIDE DEF Kept
  <2>. QED BY <2>2, <2>3, <2>4
<1>4. Kept(Len(s))
  <2>1. Len(s) \in 0..Len(s)
    BY <1>2
  <2>. HIDE DEF Kept
  <2>. QED BY <1>3, <2>1
<1>5. Upto(Len(s)) = Range(s)
  BY <1>2 DEF Range
<1>. QED BY <1>1, <1>2, <1>4, <1>5

\* What is kept of a sequence without repetitions has none.
LEMMA KeepIsInjective ==
    ASSUME NEW s, s \in Seq(Range(s)), NEW S, IsInjective(s)
    PROVE  IsInjective(Keep(s, S))
<1>1. PICK kept : Keep(s, S) = kept[DOMAIN s] /\ Keeping(kept, s, S)
  BY KeepUnfolds
<1>2. Len(s) \in Nat /\ DOMAIN s = 1..Len(s)
  BY SequenceShape
<1> DEFINE Upto(i) == {s[j] : j \in 1..i}
           Kept(i) == /\ kept[1..i] \in Seq(Range(s)) /\ IsInjective(kept[1..i])
                      /\ Range(kept[1..i]) \subseteq Upto(i)
           Failing == {i \in 0..Len(s) : ~Kept(i)}
<1>3. ASSUME Failing # {} PROVE FALSE
  <2>1. PICK i \in Failing : \A k \in Failing : i <= k
    <3>1. Failing \subseteq Nat
      OBVIOUS
    <3>. HIDE DEF Failing
    <3>. QED BY <1>3, <3>1, LeastNatural
  <2>2. i \in 0..Len(s) /\ ~Kept(i)
    OBVIOUS
  <2>3. Kept(0)
    <3>1. {} \in SUBSET DOMAIN s /\ 1..0 = {}
      OBVIOUS
    <3>2. kept[1..0] = <<>>
      BY <1>1, <3>1 DEF Keeping
    <3>3. <<>> \in Seq(Range(s)) /\ IsInjective(<<>>) /\ Range(<<>>) = {}
      BY DEF Range, IsInjective
    <3>. QED BY <3>2, <3>3
  <2>4. CASE i # 0
    <3>1. i - 1 \in 0..Len(s) /\ ~(i <= i - 1) /\ i \in 1..Len(s)
      BY <1>2, <2>2, <2>4
    <3>2. Kept(i - 1)
      <4>. HIDE DEF Kept
      <4>. QED BY <2>1, <3>1
    <3>3. kept[1..i] = IF s[i] \in S THEN Append(kept[1..i - 1], s[i]) ELSE kept[1..i - 1]
      <4>1. Max(1..i) = i /\ (1..i) \ {i} = 1..i - 1 /\ 1..i # {} /\ 1..i \in SUBSET (1..Len(s))
        BY <1>2, <3>1, MaxOfBeginning
      <4>. QED BY <1>1, <1>2, <4>1 DEF Keeping
    <3>4. Upto(i) = Upto(i - 1) \cup {s[i]} /\ s[i] \notin Upto(i - 1)
      <4>1. 1..i = (1..i - 1) \cup {i}
        BY <1>2, <3>1
      <4>2. \A j \in 1..i - 1 : j \in DOMAIN s /\ i \in DOMAIN s /\ j # i
        BY <1>2, <3>1
      <4>3. \A j \in 1..i - 1 : s[j] # s[i]
        BY <4>2 DEF IsInjective
      <4>. QED BY <4>1, <4>3
    <3>5. s[i] \in Range(s)
      BY <1>2, <3>1 DEF Range
    <3> DEFINE r == kept[1..i - 1]
    <3>. HIDE DEF Upto
    <3>6. r \in Seq(Range(s)) /\ IsInjective(r) /\ s[i] \notin Range(r)
      BY <3>2, <3>4
    <3>. HIDE DEF r
    <3>7. /\ Append(r, s[i]) \in Seq(Range(s)) /\ IsInjective(Append(r, s[i]))
          /\ Range(Append(r, s[i])) = Range(r) \cup {s[i]}
      <4> DEFINE e == <<s[i]>>
      <4>1. e \in Seq(Range(s)) /\ IsInjective(e) /\ Range(e) = {s[i]}
        BY <3>5, SingletonProperties DEF IsInjective, Range
      <4>2. Append(r, s[i]) = r \o e
        BY <3>5, <3>6, AppendIsConcat
      <4>. HIDE DEF e
      <4>3. Range(r) \cap Range(e) = {}
        BY <3>6, <4>1
      <4>4. r \o e \in Seq(Range(s))
        BY <3>6, <4>1, ConcatProperties
      <4>5. IsInjective(r \o e) /\ Range(r \o e) = Range(r) \cup Range(e)
        BY <3>6, <4>1, <4>3, ConcatIsInjective, RangeOfConcat
      <4>. QED BY <4>1, <4>2, <4>4, <4>5
    <3>8. Kept(i)
      BY <3>2, <3>3, <3>4, <3>6, <3>7 DEF r
    <3>. HIDE DEF Kept
    <3>. QED BY <2>2, <3>8
  <2>. HIDE DEF Kept
  <2>. QED BY <2>2, <2>3, <2>4
<1>4. Kept(Len(s))
  <2>1. Len(s) \in 0..Len(s)
    BY <1>2
  <2>. HIDE DEF Kept
  <2>. QED BY <1>3, <2>1
<1>. QED BY <1>1, <1>2, <1>4

\* Where the elements in S come first, they are what is kept.
LEMMA KeepBeginning ==
    ASSUME NEW s, s \in Seq(Range(s)), NEW S, NEW k \in 0..Len(s),
           \A j \in 1..k : s[j] \in S, \A j \in k + 1..Len(s) : s[j] \notin S
    PROVE  Keep(s, S) = [j \in 1..k |-> s[j]]
<1>1. PICK kept : Keep(s, S) = kept[DOMAIN s] /\ Keeping(kept, s, S)
  BY KeepUnfolds
<1>2. Len(s) \in Nat /\ DOMAIN s = 1..Len(s)
  BY SequenceShape
<1> DEFINE Kept(i) == kept[1..i] = [j \in 1..(IF i <= k THEN i ELSE k) |-> s[j]]
           Failing == {i \in 0..Len(s) : ~Kept(i)}
<1>3. ASSUME Failing # {} PROVE FALSE
  <2>1. PICK i \in Failing : \A l \in Failing : i <= l
    <3>1. Failing \subseteq Nat
      OBVIOUS
    <3>. HIDE DEF Failing
    <3>. QED BY <1>3, <3>1, LeastNatural
  <2>2. i \in 0..Len(s) /\ ~Kept(i)
    OBVIOUS
  <2>3. Kept(0)
    <3>1. {} \in SUBSET DOMAIN s /\ 1..0 = {} /\ 0 <= k
      BY <1>2
    <3>2. kept[1..0] = <<>>
      BY <1>1, <3>1 DEF Keeping
    <3>. QED BY <3>1, <3>2
  <2>4. CASE i # 0
    <3>1. i - 1 \in 0..Len(s) /\ ~(i <= i - 1) /\ i \in 1..Len(s)
      BY <1>2, <2>2, <2>4
    <3>2. Kept(i - 1)
      <4>. HIDE DEF Kept
      <4>. QED BY <2>1, <3>1
    <3>3. kept[1..i] = IF s[i] \in S THEN Append(kept[1..i - 1], s[i]) ELSE kept[1..i - 1]
      <4>1. Max(1..i) = i /\ (1..i) \ {i} = 1..i - 1 /\ 1..i # {} /\ 1..i \in SUBSET (1..Len(s))
        BY <1>2, <3>1, MaxOfBeginning
      <4>. QED BY <1>1, <1>2, <4>1 DEF Keeping
    <3>4. CASE i <= k
      <4>1. s[i] \in S /\ i - 1 <= k
        BY <3>1, <3>4
      <4> DEFINE r == [j \in 1..i - 1 |-> s[j]]
      <4>2. kept[1..i] = Append(r, s[i])
        BY <3>2, <3>3, <4>1
      <4>3. r \in Seq(Range(s)) /\ Len(r) = i - 1 /\ s[i] \in Range(s)
        <5>1. r \in [1..i - 1 -> Range(s)]
          BY <1>2, <3>1 DEF Range
        <5>2. i - 1 \in Nat
          BY <3>1
        <5>. HIDE DEF r
        <5>. QED BY <1>2, <3>1, <5>1, <5>2, FunctionIsSequence DEF Range
      <4>4. \A j \in 1..i - 1 : r[j] = s[j]
        OBVIOUS
      <4>. HIDE DEF r
      <4> DEFINE q == Append(r, s[i])
      <4>5. /\ q \in Seq(Range(s)) /\ Len(q) = Len(r) + 1 /\ q[Len(r) + 1] = s[i]
            /\ \A j \in 1..Len(r) : q[j] = r[j]
        BY <4>3, AppendProperties
      <4>. HIDE DEF q
      <4>6. Len(q) = i
        BY <3>1, <4>3, <4>5
      <4>7. q = [j \in 1..i |-> q[j]]
        BY <4>5, <4>6, LenProperties
      <4>8. \A j \in 1..i : q[j] = s[j]
        <5> TAKE j \in 1..i
        <5>1. j \in 1..i - 1 \/ j = i
          BY <3>1
        <5>. QED BY <3>1, <4>3, <4>4, <4>5, <5>1
      <4>9. q = [j \in 1..i |-> s[j]]
        BY <4>7, <4>8
      <4>. QED BY <2>2, <3>4, <4>2, <4>9 DEF q
    <3>5. CASE ~(i <= k)
      <4>1. s[i] \notin S
        BY <1>2, <3>1, <3>5
      <4>2. (IF i - 1 <= k THEN i - 1 ELSE k) = k
        BY <3>1, <3>5
      <4>. QED BY <2>2, <3>2, <3>3, <3>5, <4>1, <4>2
    <3>. QED BY <3>4, <3>5
  <2>. HIDE DEF Kept
  <2>. QED BY <2>2, <2>3, <2>4
<1>4. Kept(Len(s))
  <2>1. Len(s) \in 0..Len(s)
    BY <1>2
  <2>. HIDE DEF Kept
  <2>. QED BY <1>3, <2>1
<1>5. (IF Len(s) <= k THEN Len(s) ELSE k) = k
  <2> DEFINE n == Len(s)
  <2>1. n \in Nat /\ k \in 0..n
    BY <1>2
  <2>. HIDE DEF n
  <2>2. (IF n <= k THEN n ELSE k) = k
    BY <2>1
  <2>. QED BY <2>2 DEF n
<1>. QED BY <1>1, <1>2, <1>4, <1>5

-----------------------------------------------------------------------------
(* Sequences laid one after the other.                                     *)

(* How the groups are laid one after the other.                            *)
Laying(laid, G) ==
    \A i \in 1..Len(G) : laid[i] = IF i = 1 THEN G[i] ELSE laid[i - 1] \o G[i]

\* The recursion of FlattenSeq is defined.
LEMMA FlattenUnfolds ==
    ASSUME NEW S, NEW G \in Seq(Seq(S)), Len(G) # 0
    PROVE  \E laid : FlattenSeq(G) = laid[Len(G)] /\ Laying(laid, G)
<1> DEFINE n == Len(G)
           X == Seq(S)
           step == [i \in 1..n |-> [x \in X |-> IF i = 1 THEN G[i] ELSE x \o G[i]]]
           Is(f) == f = [i \in 1..n |-> IF i = 1 THEN G[i] ELSE f[i - 1] \o G[i]]
<1>1. n \in Nat /\ <<>> \in X /\ \A i \in 1..n : G[i] \in X
  BY LenProperties
<1>2. \A i \in 1..n : \A x \in X :
         step[i][x] \in X /\ step[i][x] = IF i = 1 THEN G[i] ELSE x \o G[i]
  BY <1>1, ConcatProperties
<1>. HIDE DEF step, n, X
<1>3. PICK fold \in [SUBSET (1..n) -> X] : IsFold(fold, n, <<>>, step)
  BY <1>1, <1>2, FoldExists
<1> DEFINE laid == [i \in 1..n |-> fold[1..i]]
<1>4. ASSUME NEW i \in 1..n
      PROVE  laid[i] = IF i = 1 THEN G[i] ELSE laid[i - 1] \o G[i]
  <2>1. Max(1..i) = i /\ (1..i) \ {i} = 1..i - 1 /\ 1..i # {} /\ 1..i \in SUBSET (1..n)
        /\ 1..i - 1 \in SUBSET (1..n)
    BY <1>1, MaxOfBeginning
  <2>2. fold[1..i] = step[i][fold[1..i - 1]] /\ fold[1..i - 1] \in X
    BY <1>3, <2>1 DEF IsFold
  <2>3. fold[1..i] = IF i = 1 THEN G[i] ELSE fold[1..i - 1] \o G[i]
    BY <1>2, <2>2
  <2>4. i # 1 => i - 1 \in 1..n
    BY <1>1
  <2>. QED BY <2>3, <2>4
<1>5. Is(laid)
  <2>1. laid = [i \in 1..n |-> laid[i]]
    OBVIOUS
  <2>. HIDE DEF laid
  <2>. QED BY <1>4, <2>1
<1> DEFINE flatten == CHOOSE f : Is(f)
<1>6. FlattenSeq(G) = flatten[n]
  BY DEF FlattenSeq, n
<1>. HIDE DEF Is
<1>7. Is(flatten)
  BY <1>5
<1>. HIDE DEF flatten
<1>8. \A i \in 1..n : flatten[i] = IF i = 1 THEN G[i] ELSE flatten[i - 1] \o G[i]
  BY <1>7 DEF Is
<1>9. Laying(flatten, G)
  BY <1>8 DEF Laying, n
<1>. QED BY <1>6, <1>9 DEF n

(* The groups have no repetitions and share nothing.                       *)
AreApart(G) ==
    /\ \A k \in 1..Len(G) : IsInjective(G[k])
    /\ \A k, l \in 1..Len(G) : k # l => Range(G[k]) \cap Range(G[l]) = {}

\* What is in groups laid one after the other.
LEMMA FlattenHas ==
    ASSUME NEW S, NEW G \in Seq(Seq(S))
    PROVE  /\ FlattenSeq(G) \in Seq(S)
           /\ Range(FlattenSeq(G)) = UNION {Range(G[k]) : k \in 1..Len(G)}
           /\ (G # <<>> /\ G[1] # <<>>) => /\ FlattenSeq(G) # <<>>
                                           /\ FlattenSeq(G)[1] = G[1][1]
           /\ AreApart(G) => IsInjective(FlattenSeq(G))
<1>1. Len(G) \in Nat /\ DOMAIN G = 1..Len(G) /\ \A k \in 1..Len(G) : G[k] \in Seq(S)
  BY LenProperties
<1>2. CASE Len(G) = 0
  <2>1. FlattenSeq(G) = G /\ G = <<>>
    BY <1>2, EmptySeq DEF FlattenSeq
  <2>2. <<>> \in Seq(S) /\ Range(<<>>) = {} /\ IsInjective(<<>>)
    BY DEF Range, IsInjective
  <2>3. UNION {Range(G[k]) : k \in 1..Len(G)} = {}
    BY <1>2
  <2>. QED BY <2>1, <2>2, <2>3
<1>3. CASE Len(G) # 0
  <2>1. PICK laid : FlattenSeq(G) = laid[Len(G)] /\ Laying(laid, G)
    BY <1>3, FlattenUnfolds
  <2> DEFINE In(i) == UNION {Range(G[k]) : k \in 1..i}
             Good(i) == /\ laid[i] \in Seq(S) /\ Range(laid[i]) = In(i)
                        /\ G[1] # <<>> => laid[i] # <<>> /\ laid[i][1] = G[1][1]
                        /\ AreApart(G) => IsInjective(laid[i])
             Failing == {i \in 1..Len(G) : ~Good(i)}
  <2>2. ASSUME Failing # {} PROVE FALSE
    <3>1. PICK i \in Failing : \A k \in Failing : i <= k
      <4>1. Failing \subseteq Nat
        OBVIOUS
      <4>. HIDE DEF Failing
      <4>. QED BY <2>2, <4>1, LeastNatural
    <3>2. i \in 1..Len(G) /\ ~Good(i)
      OBVIOUS
    <3>3. laid[i] = IF i = 1 THEN G[i] ELSE laid[i - 1] \o G[i]
      BY <2>1, <3>2 DEF Laying
    <3>4. G[i] \in Seq(S) /\ (AreApart(G) => IsInjective(G[i]))
      BY <1>1, <3>2 DEF AreApart
    <3>5. i # 1
      <4>1. ASSUME i = 1 PROVE Good(i)
        <5>1. In(i) = Range(G[i])
          <6>1. 1..i = {i}
            BY <4>1
          <6>. QED BY <6>1
        <5>. HIDE DEF In
        <5>. QED BY <3>3, <3>4, <4>1, <5>1
      <4>. HIDE DEF Good
      <4>. QED BY <3>2, <4>1
    <3>6. i - 1 \in 1..Len(G) /\ ~(i <= i - 1)
      BY <1>1, <3>2, <3>5
    <3>7. Good(i - 1)
      <4>. HIDE DEF Good
      <4>. QED BY <3>1, <3>6
    <3>8. In(i) = In(i - 1) \cup Range(G[i])
      <4>1. 1..i = (1..i - 1) \cup {i}
        BY <1>1, <3>2
      <4>. QED BY <4>1
    <3>9. AreApart(G) => In(i - 1) \cap Range(G[i]) = {}
      <4>1. \A k \in 1..i - 1 : k \in 1..Len(G) /\ k # i
        BY <1>1, <3>2
      <4>2. AreApart(G) => \A k \in 1..i - 1 : Range(G[k]) \cap Range(G[i]) = {}
        BY <3>2, <4>1 DEF AreApart
      <4>. QED BY <4>2
    <3>. HIDE DEF In
    <3> DEFINE l == laid[i - 1]
               g == G[i]
    <3>10. l \in Seq(S) /\ Range(l) = In(i - 1) /\ (G[1] # <<>> => l # <<>> /\ l[1] = G[1][1])
          /\ (AreApart(G) => IsInjective(l))
      BY <3>7
    <3>11. g \in Seq(S) /\ (AreApart(G) => IsInjective(g) /\ Range(l) \cap Range(g) = {})
      BY <3>4, <3>10, <3>9
    <3>12. laid[i] = l \o g
      BY <3>3, <3>5
    <3>13. In(i) = Range(l) \cup Range(g)
      BY <3>8, <3>10
    <3>. HIDE DEF l, g
    <3>14. l \o g \in Seq(S) /\ Range(l \o g) = Range(l) \cup Range(g)
      BY <3>10, <3>11, ConcatProperties, RangeOfConcat
    <3>15. ASSUME G[1] # <<>> PROVE l \o g # <<>> /\ (l \o g)[1] = G[1][1]
      <4>1. Len(l) \in Nat \ {0} /\ Len(g) \in Nat
        BY <3>10, <3>11, <3>15, EmptySeq, LenProperties
      <4>2. 1 \in 1..Len(l) + Len(g) /\ 1 <= Len(l)
        BY <4>1
      <4>3. (l \o g)[1] = l[1] /\ Len(l \o g) = Len(l) + Len(g)
        BY <3>10, <3>11, <4>2, ConcatProperties
      <4>4. Len(l \o g) # 0
        BY <4>1, <4>3
      <4>. QED BY <3>10, <3>15, <4>3, <4>4, EmptySeq
    <3>16. AreApart(G) => IsInjective(l \o g)
      BY <3>10, <3>11, ConcatIsInjective
    <3>. QED BY <3>2, <3>12, <3>13, <3>14, <3>15, <3>16
  <2>3. Good(Len(G))
    <3>1. Len(G) \in 1..Len(G)
      BY <1>1, <1>3
    <3>. HIDE DEF Good
    <3>. QED BY <2>2, <3>1
  <2>. HIDE DEF In
  <2>4. In(Len(G)) = UNION {Range(G[k]) : k \in 1..Len(G)}
    BY DEF In
  <2>. QED BY <2>1, <2>3, <2>4
<1>. QED BY <1>2, <1>3

=============================================================================
