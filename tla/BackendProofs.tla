----------------------------- MODULE BackendProofs -----------------------------
(***************************************************************************)
(* What the backend guarantees for every number of requests in progress,   *)
(* of programs, of timers, of cache entries and of docker faults.          *)
(* TracerPool runs one tracer at a time and leaves nothing behind;         *)
(* TraceCache holds what was answered last; under the request handler both *)
(* stay right, and the backend implements TraceOracle.                     *)
(***************************************************************************)
EXTENDS Backend, TLAPS, SequenceTheorems

-----------------------------------------------------------------------------
(* The trace cache: taking the one occurrence of an element out.           *)

\* What comes after the removed element moves up.
LEMMA RemoveAtProperties ==
    ASSUME NEW S, NEW s \in Seq(S), NEW i \in 1..Len(s)
    PROVE  /\ RemoveAt(s, i) \in Seq(S)
           /\ Len(RemoveAt(s, i)) = Len(s) - 1
           /\ \A j \in 1..Len(s) - 1 : RemoveAt(s, i)[j] = IF j < i THEN s[j] ELSE s[j + 1]
<1> DEFINE a == SubSeq(s, 1, i - 1)
           b == SubSeq(s, i + 1, Len(s))
<1>0. Len(s) \in Nat /\ \A j \in 1..Len(s) : s[j] \in S
  BY ElementOfSeq
<1>1. /\ a \in Seq(S) /\ Len(a) = i - 1
      /\ \A j \in 1..i - 1 : a[j] = s[j]
  BY <1>0, SubSeqProperties
<1>2. /\ b \in Seq(S) /\ Len(b) = Len(s) - i
      /\ \A j \in 1..Len(s) - i : b[j] = s[i + j]
  <2>1. \A j \in i + 1..Len(s) : s[j] \in S
    BY <1>0
  <2>2. /\ b \in Seq(S)
        /\ Len(b) = IF i + 1 <= Len(s) THEN Len(s) - (i + 1) + 1 ELSE 0
        /\ \A j \in 1..Len(s) - (i + 1) + 1 : b[j] = s[(i + 1) + j - 1]
    BY <1>0, <2>1, SubSeqProperties
  <2>. HIDE DEF b
  <2>. QED BY <1>0, <2>2
<1>3. RemoveAt(s, i) = a \o b
  BY DEF RemoveAt
<1>. HIDE DEF a, b
<1> DEFINE c == a \o b
<1>4. /\ c \in Seq(S)
      /\ Len(c) = Len(a) + Len(b)
      /\ \A j \in 1..Len(a) + Len(b) : c[j] = IF j <= Len(a) THEN a[j] ELSE b[j - Len(a)]
  BY <1>1, <1>2, ConcatProperties
<1>. HIDE DEF c
<1>5. ASSUME NEW j \in 1..Len(s) - 1
      PROVE  c[j] = IF j < i THEN s[j] ELSE s[j + 1]
  <2>1. CASE j < i
    <3>1. /\ j \in 1..i - 1 /\ j \in 1..Len(a) + Len(b) /\ j <= Len(a)
      BY <1>0, <1>1, <1>2, <2>1
    <3>2. c[j] = a[j]
      BY <1>4, <3>1
    <3>. QED BY <1>1, <2>1, <3>1, <3>2
  <2>2. CASE j >= i
    <3>1. /\ j \in 1..Len(a) + Len(b) /\ ~(j <= Len(a)) /\ ~(j < i)
          /\ j - Len(a) \in 1..Len(s) - i /\ i + (j - Len(a)) = j + 1
      BY <1>0, <1>1, <1>2, <2>2
    <3>2. c[j] = b[j - Len(a)]
      BY <1>4, <3>1
    <3>3. b[j - Len(a)] = s[i + (j - Len(a))]
      BY <1>2, <3>1
    <3>. QED BY <3>1, <3>2, <3>3
  <2>. QED BY <2>1, <2>2
<1>. QED BY <1>0, <1>1, <1>2, <1>3, <1>4, <1>5 DEF c

\* The last m elements of a sequence.
LEMMA SuffixProperties ==
    ASSUME NEW S, NEW s \in Seq(S), NEW m \in 0..Len(s)
    PROVE  /\ SubSeq(s, Len(s) - m + 1, Len(s)) \in Seq(S)
           /\ Len(SubSeq(s, Len(s) - m + 1, Len(s))) = m
           /\ \A i \in 1..m : SubSeq(s, Len(s) - m + 1, Len(s))[i] = s[Len(s) - m + i]
<1> DEFINE from == Len(s) - m + 1
           to == Len(s)
           tail == SubSeq(s, from, to)
<1>1. /\ to \in Nat /\ from \in Int /\ m \in Nat
      /\ from = to - m + 1
      /\ \A i \in from..to : s[i] \in S
  BY ElementOfSeq
<1>. HIDE DEF from, to
<1>2. /\ tail \in Seq(S)
      /\ Len(tail) = IF from <= to THEN to - from + 1 ELSE 0
      /\ \A i \in 1..to - from + 1 : tail[i] = s[from + i - 1]
  BY <1>1, SubSeqProperties
<1>. HIDE DEF tail
<1>3. /\ Len(tail) = m /\ to - from + 1 = m
      /\ \A i \in 1..m : from + i - 1 = to - m + i
  BY <1>1, <1>2
<1>4. \A i \in 1..m : tail[i] = s[to - m + i]
  <2>. SUFFICES ASSUME NEW i \in 1..m PROVE tail[i] = s[to - m + i]
    OBVIOUS
  <2>1. tail[i] = s[from + i - 1] /\ from + i - 1 = to - m + i
    BY <1>2, <1>3
  <2>. QED BY <2>1
<1>. QED BY <1>2, <1>3, <1>4 DEF tail, from, to

\* The first of one position.
LEMMA OnlyIndex ==
    ASSUME NEW n \in Nat, NEW i \in 1..n, NEW I, I = {i}
    PROVE  Min(I) = i
BY DEF Min

\* Where an element occurs once, that is where it is taken out.
LEMMA RemoveFirstOnly ==
    ASSUME NEW S, NEW s \in Seq(S), NEW i \in 1..Len(s),
           \A j \in 1..Len(s) : s[j] = s[i] => j = i
    PROVE  RemoveFirst(s, s[i]) = RemoveAt(s, i)
<1> DEFINE I == {j \in 1..Len(s) : s[j] = s[i]}
<1>1. Len(s) \in Nat /\ I = {i}
  OBVIOUS
<1>2. Min(I) = i
  BY <1>1, OnlyIndex
<1>3. RemoveFirst(s, s[i]) = RemoveAt(s, Min(I))
  BY <1>1 DEF RemoveFirst, SelectInSeq
<1>. QED BY <1>2, <1>3

\* The same of the entry of a key.
LEMMA WithoutOnly ==
    ASSUME cache \in Seq(Entry), NEW i \in 1..Len(cache),
           \A j \in 1..Len(cache) : cache[j].key = cache[i].key => j = i
    PROVE  Without(cache[i].key) = RemoveAt(cache, i)
<1> DEFINE I == {j \in 1..Len(cache) : cache[j].key = cache[i].key}
<1>1. Len(cache) \in Nat /\ I = {i}
  OBVIOUS
<1>2. Min(I) = i
  BY <1>1, OnlyIndex
<1>3. Without(cache[i].key) = RemoveAt(cache, Min(I))
  BY <1>1 DEF Without, RemoveFirstMatch, SelectInSeq
<1>. QED BY <1>2, <1>3

-----------------------------------------------------------------------------
(* HoldsMostRecent, position by position.                                  *)

Distinct(s) == \A i, j \in 1..Len(s) : s[i] = s[j] => i = j

\* The entries are those of the last keys of r, in the same order.
AreLastOf(entries, r) ==
    /\ Len(entries) <= Len(r)
    /\ \A i \in 1..Len(entries) : entries[i].key = r[Len(r) - Len(entries) + i]

\* As many entries as fit.
Filled(entries, r) == Len(entries) = IF Len(r) <= MaxEntries THEN Len(r) ELSE MaxEntries

Aligned(entries, r) == Distinct(r) /\ AreLastOf(entries, r) /\ Filled(entries, r)

\* HoldsMostRecent of any cache and any history.
MostRecent(entries, r) ==
    /\ Distinct(r)
    /\ [i \in DOMAIN entries |-> entries[i].key] =
         IF Len(r) <= MaxEntries THEN r
         ELSE SubSeq(r, Len(r) - MaxEntries + 1, Len(r))

\* The two ways to say what the cache holds.
LEMMA AlignedIsMostRecent ==
    ASSUME NEW c \in Seq(Entry), NEW r \in Seq(Key)
    PROVE  MostRecent(c, r) <=> Aligned(c, r)
<1> DEFINE L == Len(r)
           n == IF L <= MaxEntries THEN L ELSE MaxEntries
           held == IF L <= MaxEntries THEN r ELSE SubSeq(r, L - MaxEntries + 1, L)
           keys == [i \in DOMAIN c |-> c[i].key]
<1>0. /\ L <= MaxEntries => n = L /\ held = r
      /\ ~(L <= MaxEntries) => n = MaxEntries /\ held = SubSeq(r, L - MaxEntries + 1, L)
  BY Zenon
<1>1. L \in Nat /\ MaxEntries \in Nat
  BY MaxEntriesAssumption
<1>. HIDE DEF n, held
<1>2. /\ n \in 0..L /\ held \in Seq(Key) /\ Len(held) = n
      /\ \A i \in 1..n : held[i] = r[L - n + i]
  <2>1. CASE L <= MaxEntries
    BY <1>0, <1>1, <2>1
  <2>2. CASE ~(L <= MaxEntries)
    <3>1. n \in 0..Len(r) /\ held = SubSeq(r, Len(r) - n + 1, Len(r))
      BY <1>0, <1>1, <2>2
    <3>. QED BY <3>1, SuffixProperties
  <2>. QED BY <2>1, <2>2
<1>3. /\ Len(c) \in Nat /\ keys \in Seq(Key) /\ Len(keys) = Len(c)
      /\ \A i \in 1..Len(c) : keys[i] = c[i].key
  <2>1. /\ Len(c) \in Nat /\ DOMAIN c = 1..Len(c)
        /\ \A i \in 1..Len(c) : c[i].key \in Key
    <3>1. \A i \in 1..Len(c) : c[i] \in Entry
      BY ElementOfSeq
    <3>. QED BY <3>1, LenProperties DEF Entry
  <2>. QED BY <2>1
<1>4. MostRecent(c, r) <=> Distinct(r) /\ keys = held
  BY Zenon DEF MostRecent, Distinct, held
<1>5. keys = held <=> /\ Len(c) = n
                      /\ \A i \in 1..n : c[i].key = r[L - n + i]
  <2>. HIDE DEF keys, L
  <2>1. ASSUME keys = held
        PROVE  /\ Len(c) = n
               /\ \A i \in 1..n : c[i].key = r[L - n + i]
    <3>1. Len(c) = n
      BY <1>2, <1>3, <2>1
    <3>. QED BY <1>2, <1>3, <2>1, <3>1
  <2>2. ASSUME Len(c) = n, \A i \in 1..n : c[i].key = r[L - n + i]
        PROVE  keys = held
    <3>1. Len(keys) = Len(held) /\ \A i \in 1..Len(keys) : keys[i] = held[i]
      BY <1>2, <1>3, <2>2
    <3>. QED BY <1>2, <1>3, <3>1, SeqEqual
  <2>. QED BY <2>1, <2>2
<1>6. Aligned(c, r) <=>
        Distinct(r) /\ Len(c) = n /\ \A i \in 1..n : c[i].key = r[L - n + i]
  <2>1. n = IF L <= MaxEntries THEN L ELSE MaxEntries
    BY DEF n
  <2>2. Filled(c, r) <=> Len(c) = n
    BY <2>1, Zenon DEF Filled
  <2>3. Len(c) = n =>
          (AreLastOf(c, r) <=> \A i \in 1..n : c[i].key = r[L - n + i])
    BY <1>1, <1>2 DEF AreLastOf
  <2>. QED BY <2>2, <2>3 DEF Aligned
<1>. QED BY <1>4, <1>5, <1>6

\* No key has two entries.
LEMMA OneEntry ==
    ASSUME NEW c \in Seq(Entry), NEW r \in Seq(Key), Aligned(c, r),
           NEW i \in 1..Len(c), NEW j \in 1..Len(c), c[i].key = c[j].key
    PROVE  i = j
<1> DEFINE d == Len(r) - Len(c)
<1>1. Len(c) \in Nat /\ Len(r) \in Nat /\ Len(c) <= Len(r)
  BY DEF Aligned, AreLastOf
<1>2. d + i \in 1..Len(r) /\ d + j \in 1..Len(r)
  BY <1>1
<1>3. r[d + i] = r[d + j]
  BY DEF Aligned, AreLastOf
<1>4. d + i = d + j
  BY <1>2, <1>3 DEF Aligned, Distinct
<1>. QED BY <1>1, <1>4

\* A key that is not in use is no longer in the way of those that are.
LEMMA RemoveFirstDistinct ==
    ASSUME NEW r \in Seq(Key), Distinct(r), NEW k \in Key
    PROVE  /\ RemoveFirst(r, k) \in Seq(Key)
           /\ Distinct(RemoveFirst(r, k))
           /\ \A j \in 1..Len(RemoveFirst(r, k)) : RemoveFirst(r, k)[j] # k
<1>1. CASE \A i \in 1..Len(r) : r[i] # k
  <2>1. RemoveFirst(r, k) = r
    BY <1>1 DEF RemoveFirst
  <2>. QED BY <1>1, <2>1
<1>2. CASE \E i \in 1..Len(r) : r[i] = k
  <2>1. PICK i \in 1..Len(r) : r[i] = k
    BY <1>2
  <2> DEFINE q == RemoveAt(r, i)
  <2>2. RemoveFirst(r, k) = q
    <3>1. \A j \in 1..Len(r) : r[j] = r[i] => j = i
      BY DEF Distinct
    <3>. QED BY <2>1, <3>1, RemoveFirstOnly
  <2>3. /\ q \in Seq(Key) /\ Len(q) = Len(r) - 1
        /\ \A j \in 1..Len(r) - 1 : q[j] = IF j < i THEN r[j] ELSE r[j + 1]
    BY RemoveAtProperties
  <2>. HIDE DEF q
  <2>4. Distinct(q)
    BY <2>3, SMTT(30) DEF Distinct
  <2>5. \A j \in 1..Len(q) : q[j] # k
    BY <2>1, <2>3, SMTT(30) DEF Distinct
  <2>. QED BY <2>2, <2>3, <2>4, <2>5
<1>. QED BY <1>1, <1>2

\* Without the entry of k and without k the cache still holds the last keys, and
\* is short of the one that is put back at most.
LEMMA WithoutAligned ==
    ASSUME cache \in Seq(Entry), recent \in Seq(Key), Aligned(cache, recent), NEW k \in Key
    PROVE  /\ Without(k) \in Seq(Entry)
           /\ AreLastOf(Without(k), RemoveFirst(recent, k))
           /\ Len(Without(k)) <= MaxEntries
           /\ \/ Len(Without(k)) = Len(RemoveFirst(recent, k))
              \/ Len(Without(k)) >= MaxEntries - 1
<1> DEFINE L == Len(recent)
           n == Len(cache)
<1>1. /\ L \in Nat /\ n \in Nat /\ MaxEntries \in Nat
      /\ n <= L /\ n <= MaxEntries
      /\ n = L \/ n = MaxEntries
      /\ \A i \in 1..n : cache[i].key = recent[L - n + i]
      /\ \A i, j \in 1..L : recent[i] = recent[j] => i = j
  <2>1. L \in Nat /\ n \in Nat /\ MaxEntries \in Nat
    BY MaxEntriesAssumption
  <2>2. n = IF L <= MaxEntries THEN L ELSE MaxEntries
    BY DEF Aligned, Filled
  <2>3. n <= L /\ \A i \in 1..n : cache[i].key = recent[L - n + i]
    BY DEF Aligned, AreLastOf
  <2>4. \A i, j \in 1..L : recent[i] = recent[j] => i = j
    BY DEF Aligned, Distinct
  <2>5. n <= MaxEntries /\ (n = L \/ n = MaxEntries)
    <3>. HIDE DEF n, L
    <3>. QED BY <2>1, <2>2
  <2>. QED BY <2>1, <2>3, <2>4, <2>5
<1>2. CASE \E i \in 1..n : cache[i].key = k
  <2>1. PICK i \in 1..n : cache[i].key = k
    BY <1>2
  <2> DEFINE m == L - n + i
             c == RemoveAt(cache, i)
             r == RemoveAt(recent, m)
  <2>2. m \in 1..L /\ recent[m] = k
    BY <1>1, <2>1
  <2>3. Without(k) = c
    <3>1. \A j \in 1..n : cache[j].key = cache[i].key => j = i
      BY OneEntry
    <3>. QED BY <2>1, <3>1, WithoutOnly
  <2>4. RemoveFirst(recent, k) = r
    BY <1>1, <2>2, RemoveFirstOnly
  <2>5. /\ c \in Seq(Entry) /\ Len(c) = n - 1
        /\ \A j \in 1..n - 1 : c[j] = IF j < i THEN cache[j] ELSE cache[j + 1]
    BY RemoveAtProperties
  <2>6. /\ r \in Seq(Key) /\ Len(r) = L - 1
        /\ \A j \in 1..L - 1 : r[j] = IF j < m THEN recent[j] ELSE recent[j + 1]
    BY <2>2, RemoveAtProperties
  <2>. HIDE DEF c, r
  <2>7. AreLastOf(c, r)
    <3>. SUFFICES ASSUME NEW j \in 1..n - 1 PROVE c[j].key = r[L - n + j]
      BY <1>1, <2>5, <2>6 DEF AreLastOf
    <3>1. L - n + j \in 1..L - 1 /\ j \in 1..n /\ j + 1 \in 1..n /\ (j < i <=> L - n + j < m)
      BY <1>1
    <3>2. CASE j < i
      BY <1>1, <2>5, <2>6, <3>1, <3>2
    <3>3. CASE ~(j < i)
      <4>1. c[j] = cache[j + 1] /\ r[L - n + j] = recent[(L - n + j) + 1]
        BY <2>5, <2>6, <3>1, <3>3
      <4>2. cache[j + 1].key = recent[L - n + (j + 1)]
        BY <1>1, <3>1
      <4>. QED BY <1>1, <4>1, <4>2
    <3>. QED BY <3>2, <3>3
  <2>. QED BY <1>1, <2>3, <2>4, <2>5, <2>6, <2>7
<1>3. CASE \A i \in 1..n : cache[i].key # k
  <2>1. Without(k) = cache
    BY <1>3 DEF Without, RemoveFirstMatch
  <2>2. CASE \A i \in 1..L : recent[i] # k
    <3>1. RemoveFirst(recent, k) = recent
      BY <2>2 DEF RemoveFirst
    <3>. QED BY <1>1, <2>1, <3>1 DEF Aligned
  <2>3. CASE \E m \in 1..L : recent[m] = k
    <3>1. PICK m \in 1..L : recent[m] = k
      BY <2>3
    <3>2. m <= L - n
      <4>. SUFFICES ASSUME ~(m <= L - n) PROVE FALSE
        BY <1>1
      <4>1. m - (L - n) \in 1..n /\ L - n + (m - (L - n)) = m
        BY <1>1
      <4>. QED BY <1>1, <1>3, <3>1, <4>1
    <3> DEFINE r == RemoveAt(recent, m)
    <3>3. RemoveFirst(recent, k) = r
      BY <1>1, <3>1, RemoveFirstOnly
    <3>4. /\ r \in Seq(Key) /\ Len(r) = L - 1
          /\ \A j \in 1..L - 1 : r[j] = IF j < m THEN recent[j] ELSE recent[j + 1]
      BY RemoveAtProperties
    <3>. HIDE DEF r
    <3>5. n <= L - 1 /\ n = MaxEntries
      BY <1>1, <3>2
    <3>6. AreLastOf(cache, r)
      <4>. SUFFICES ASSUME NEW j \in 1..n PROVE cache[j].key = r[(L - 1) - n + j]
        BY <1>1, <3>4, <3>5 DEF AreLastOf
      <4>1. (L - 1) - n + j \in 1..L - 1 /\ ~((L - 1) - n + j < m) /\ (L - 1) - n + j + 1 = L - n + j
        BY <1>1, <3>2, <3>5
      <4>. QED BY <1>1, <3>4, <4>1
    <3>. QED BY <1>1, <2>1, <3>3, <3>4, <3>5, <3>6
  <2>. QED BY <2>2, <2>3
<1>. QED BY <1>2, <1>3

\* popitem(last=False) leaves the last entries.
LEMMA EvictedProperties ==
    ASSUME NEW e \in Seq(Entry)
    PROVE  /\ Evicted(e) \in Seq(Entry)
           /\ Len(Evicted(e)) = IF Len(e) <= MaxEntries THEN Len(e) ELSE MaxEntries
           /\ \A i \in 1..Len(Evicted(e)) : Evicted(e)[i] = e[Len(e) - Len(Evicted(e)) + i]
<1>1. Len(e) \in Nat /\ MaxEntries \in Nat
  BY MaxEntriesAssumption
<1>2. CASE Len(e) <= MaxEntries
  <2>1. Evicted(e) = e
    BY <1>2 DEF Evicted
  <2>. QED BY <1>1, <1>2, <2>1
<1>3. CASE ~(Len(e) <= MaxEntries)
  <2>1. Evicted(e) = SubSeq(e, Len(e) - MaxEntries + 1, Len(e))
    BY <1>3 DEF Evicted
  <2>2. MaxEntries \in 0..Len(e)
    BY <1>1, <1>3
  <2>. QED BY <1>3, <2>1, <2>2, SuffixProperties
<1>. QED BY <1>2, <1>3

\* An answer is put at the end and what is too much is dropped at the front.
LEMMA StoredAligned ==
    ASSUME NEW c \in Seq(Entry), NEW r \in Seq(Key), NEW k \in Key, NEW e \in Entry,
           e.key = k, AreLastOf(c, r), Distinct(r), \A j \in 1..Len(r) : r[j] # k,
           Len(c) <= MaxEntries, Len(c) = Len(r) \/ Len(c) >= MaxEntries - 1
    PROVE  Aligned(Evicted(Append(c, e)), Append(r, k))
<1> DEFINE d == Append(c, e)
           v == Evicted(d)
           q == Append(r, k)
<1>1. /\ d \in Seq(Entry) /\ Len(d) = Len(c) + 1
      /\ \A i \in 1..Len(c) : d[i] = c[i]
      /\ d[Len(c) + 1] = e
  BY AppendProperties
<1>2. /\ q \in Seq(Key) /\ Len(q) = Len(r) + 1
      /\ \A i \in 1..Len(r) : q[i] = r[i]
      /\ q[Len(r) + 1] = k
  BY AppendProperties
<1>3. Len(c) \in Nat /\ Len(r) \in Nat /\ Len(c) <= Len(r) /\ MaxEntries \in Nat
  BY MaxEntriesAssumption DEF AreLastOf
<1>. HIDE DEF d, q
<1>4. /\ v \in Seq(Entry)
      /\ Len(v) = IF Len(d) <= MaxEntries THEN Len(d) ELSE MaxEntries
      /\ \A i \in 1..Len(v) : v[i] = d[Len(d) - Len(v) + i]
  BY <1>1, EvictedProperties
<1>. HIDE DEF v
<1>5. Distinct(q)
  <2>. SUFFICES ASSUME NEW i \in 1..Len(r) + 1, NEW j \in 1..Len(r) + 1, q[i] = q[j]
                PROVE  i = j
    BY <1>2 DEF Distinct
  <2>1. CASE i \in 1..Len(r) /\ j \in 1..Len(r)
    BY <1>2, <2>1 DEF Distinct
  <2>2. CASE i = Len(r) + 1 \/ j = Len(r) + 1
    BY <1>2, <1>3, <2>2
  <2>. QED BY <1>3, <2>1, <2>2
<1>6. Filled(v, q)
  <2>1. CASE Len(c) = Len(r)
    <3>1. Len(d) = Len(q)
      BY <1>1, <1>2, <2>1
    <3>. QED BY <1>4, <3>1 DEF Filled
  <2>2. CASE ~(Len(c) = Len(r))
    <3>1. Len(d) >= MaxEntries /\ ~(Len(q) <= MaxEntries)
      BY <1>1, <1>2, <1>3, <2>2
    <3>2. Len(v) = MaxEntries
      BY <1>1, <1>3, <1>4, <3>1
    <3>. QED BY <3>1, <3>2 DEF Filled
  <2>. QED BY <2>1, <2>2
<1>7. Len(v) \in Nat /\ Len(v) <= Len(d) /\ Len(v) <= Len(q)
  BY <1>1, <1>2, <1>3, <1>4
<1>8. ASSUME NEW i \in 1..Len(v) PROVE v[i].key = q[Len(q) - Len(v) + i]
  <2> DEFINE j == Len(d) - Len(v) + i
  <2>1. v[i] = d[j] /\ j \in 1..Len(c) + 1
    <3>1. v[i] = d[Len(d) - Len(v) + i]
      BY <1>4
    <3>2. Len(d) - Len(v) + i \in 1..Len(c) + 1
      BY <1>1, <1>3, <1>7
    <3>. QED BY <3>1, <3>2
  <2>2. Len(q) - Len(v) + i = Len(r) - Len(c) + j
    BY <1>1, <1>2, <1>3, <1>7
  <2>. HIDE DEF j
  <2>3. CASE j \in 1..Len(c)
    <3>1. c[j].key = r[Len(r) - Len(c) + j]
      BY <2>3 DEF AreLastOf
    <3>2. Len(r) - Len(c) + j \in 1..Len(r)
      BY <1>3, <2>3
    <3>. QED BY <1>1, <1>2, <2>1, <2>2, <2>3, <3>1, <3>2
  <2>4. CASE j = Len(c) + 1
    <3>1. Len(r) - Len(c) + j = Len(r) + 1
      BY <1>3, <2>4
    <3>. QED BY <1>1, <1>2, <2>1, <2>2, <2>4, <3>1
  <2>. QED BY <1>3, <2>1, <2>3, <2>4
<1>. QED BY <1>5, <1>6, <1>7, <1>8 DEF Aligned, AreLastOf, v, d, q

-----------------------------------------------------------------------------
(* The inductive invariant of the cache.                                   *)

\* An entry is looked up or stored under the lock: whatever was stored, evicted
\* or cleared since the request missed, the cache still holds the latest keys
\* (trace_cache.py:18-21, 25-29).
LEMMA AnswerIsMostRecent ==
    ASSUME CacheTypeOK, HoldsMostRecent, NEW k \in Key, NEW e \in Entry, e.key = k,
           cache' = Evicted(Append(Without(k), e)), Used(k)
    PROVE  cache' \in Seq(Entry) /\ recent' \in Seq(Key) /\ HoldsMostRecent'
<1> DEFINE c == Without(k)
           r == RemoveFirst(recent, k)
<1>1. cache \in Seq(Entry) /\ recent \in Seq(Key) /\ Aligned(cache, recent)
  <2>1. MostRecent(cache, recent)
    BY DEF HoldsMostRecent, MostRecent, Distinct
  <2>. QED BY <2>1, AlignedIsMostRecent DEF CacheTypeOK
<1>2. r \in Seq(Key) /\ Distinct(r) /\ \A j \in 1..Len(r) : r[j] # k
  BY <1>1, RemoveFirstDistinct DEF Aligned
<1>3. /\ c \in Seq(Entry) /\ AreLastOf(c, r) /\ Len(c) <= MaxEntries
      /\ Len(c) = Len(r) \/ Len(c) >= MaxEntries - 1
  BY <1>1, WithoutAligned
<1>. HIDE DEF c, r
<1>4. Aligned(Evicted(Append(c, e)), Append(r, k))
  BY <1>2, <1>3, StoredAligned
<1>5. cache' = Evicted(Append(c, e)) /\ recent' = Append(r, k)
  BY DEF Used, c, r
<1>6. cache' \in Seq(Entry) /\ recent' \in Seq(Key)
  BY <1>2, <1>3, <1>5, AppendProperties, EvictedProperties
<1>7. Aligned(cache', recent')
  BY <1>4, <1>5
<1>8. MostRecent(cache', recent')
  BY <1>6, <1>7, AlignedIsMostRecent
<1>9. HoldsMostRecent'
  BY <1>8 DEF HoldsMostRecent, MostRecent, Distinct
<1>. QED BY <1>6, <1>9

\* What is left of the cache was there before.
LEMMA WithoutKeeps ==
    ASSUME CacheTypeOK, HoldsMostRecent, NEW k \in Key
    PROVE  /\ Without(k) \in Seq(Entry)
           /\ \A j \in 1..Len(Without(k)) :
                \E m \in 1..Len(cache) : Without(k)[j] = cache[m]
<1>1. cache \in Seq(Entry) /\ recent \in Seq(Key) /\ Aligned(cache, recent)
  BY AlignedIsMostRecent DEF CacheTypeOK, HoldsMostRecent, MostRecent, Distinct
<1>2. CASE \E i \in 1..Len(cache) : cache[i].key = k
  <2>1. PICK i \in 1..Len(cache) : cache[i].key = k
    BY <1>2
  <2>2. ASSUME NEW j \in 1..Len(cache), cache[j].key = cache[i].key PROVE j = i
    BY <1>1, <2>2, OneEntry
  <2>3. Without(k) = RemoveAt(cache, i)
    BY <1>1, <2>1, <2>2, WithoutOnly
  <2>4. /\ Without(k) \in Seq(Entry) /\ Len(Without(k)) = Len(cache) - 1
        /\ \A j \in 1..Len(cache) - 1 :
             Without(k)[j] = IF j < i THEN cache[j] ELSE cache[j + 1]
    BY <1>1, <2>3, RemoveAtProperties
  <2>5. ASSUME NEW j \in 1..Len(Without(k))
        PROVE  \E m \in 1..Len(cache) : Without(k)[j] = cache[m]
    <3>1. j \in 1..Len(cache) /\ j + 1 \in 1..Len(cache) /\ j \in 1..Len(cache) - 1
      BY <1>1, <2>4
    <3>. QED BY <2>4, <3>1
  <2>. QED BY <2>4, <2>5
<1>3. CASE \A i \in 1..Len(cache) : cache[i].key # k
  <2>1. Without(k) = cache
    BY <1>3 DEF Without, RemoveFirstMatch
  <2>. QED BY <1>1, <2>1
<1>. QED BY <1>2, <1>3

USE RequestAssumption DEF Output

\* One thread moves on to a request that is well formed.
LEMMA CallTypes ==
    ASSUME call \in [Worker -> Request], CallsInHand, NEW w \in Worker, NEW q \in Request,
           q.stage = "idle" <=> q.key = Nobody,
           q.stage = "store" => q.out \in Key,
           q.stage = "reply" => q.out \in Output,
           call' = [call EXCEPT ![w] = q]
    PROVE  call' \in [Worker -> Request] /\ CallsInHand'
BY DEF CallsInHand, InHand

\* A request arrives (api.py:50).
LEMMA ReceivePreserves ==
    ASSUME CacheInv, NEW w \in Worker, NEW k \in Key, Receive(w, k)
    PROVE  CacheInv'
<1> DEFINE q == [stage |-> "lookup", key |-> k, out |-> Nobody]
<1>1. q \in Request /\ call' = [call EXCEPT ![w] = q] /\ UNCHANGED <<cache, recent>>
  BY DEF Receive, Request, Stage
<1>2. call' \in [Worker -> Request] /\ CallsInHand'
  BY <1>1, CallTypes DEF CacheInv, CacheTypeOK
<1>. QED BY <1>1, <1>2 DEF CacheInv, CacheTypeOK, HoldsMostRecent

\* An entry is found and becomes the last one (trace_cache.py:19-21).
LEMMA HitPreserves ==
    ASSUME CacheInv, NEW w \in Worker, Hit(w)
    PROVE  CacheInv'
<1> DEFINE k == call[w].key
<1>1. PICK i \in DOMAIN cache :
        /\ cache[i].key = k
        /\ cache' = Append(Without(k), cache[i])
        /\ call' = [call EXCEPT ![w].stage = "reply", ![w].out = cache[i].value]
  BY DEF Hit, CachedAt
<1> DEFINE e == cache[i]
           q == [call[w] EXCEPT !.stage = "reply", !.out = e.value]
<1>2. e \in Entry /\ call[w] \in Request /\ k \in Key
  BY ElementOfSeq DEF CacheInv, CacheTypeOK, CallsInHand, InHand, Request, Hit
<1>3. call' \in [Worker -> Request] /\ CallsInHand'
  <2>1. q \in Request /\ q.stage = "reply" /\ q.out \in Output /\ q.key \in Key
    BY <1>2 DEF Request, Stage, Entry, Output
  <2>2. call' = [call EXCEPT ![w] = q]
    BY <1>1
  <2>. HIDE DEF q
  <2>. QED BY <2>1, <2>2, CallTypes DEF CacheInv, CacheTypeOK
<1>4. cache' = Evicted(Append(Without(k), e))
  <2>1. cache \in Seq(Entry) /\ recent \in Seq(Key) /\ Aligned(cache, recent)
    BY AlignedIsMostRecent
       DEF CacheInv, CacheTypeOK, HoldsMostRecent, MostRecent, Distinct
  <2>2. Without(k) = RemoveAt(cache, i)
    <3>0. i \in 1..Len(cache)
      BY <2>1
    <3>1. ASSUME NEW j \in 1..Len(cache), cache[j].key = cache[i].key PROVE j = i
      BY <2>1, <3>0, <3>1, OneEntry
    <3>. QED BY <3>0, <1>1, <2>1, <3>1, WithoutOnly
  <2>3. Without(k) \in Seq(Entry) /\ Len(Without(k)) = Len(cache) - 1
    BY <2>1, <2>2, RemoveAtProperties
  <2>4. Len(Append(Without(k), e)) = Len(cache) /\ Len(cache) <= MaxEntries
    BY <1>2, <2>1, <2>3, AppendProperties, MaxEntriesAssumption
       DEF Aligned, Filled
  <2>. QED BY <1>1, <2>4 DEF Evicted
<1>5. cache' \in Seq(Entry) /\ recent' \in Seq(Key) /\ HoldsMostRecent'
  BY <1>1, <1>2, <1>4, AnswerIsMostRecent DEF CacheInv, Hit
<1>. QED BY <1>3, <1>5 DEF CacheInv, CacheTypeOK

\* A request finds nothing and lets go of the lock.
LEMMA MissPreserves ==
    ASSUME CacheInv, NEW w \in Worker, Miss(w)
    PROVE  CacheInv'
<1> DEFINE q == [call[w] EXCEPT !.stage = "tracing"]
<1>1. call[w] \in Request /\ call[w].key \in Key
  BY DEF CacheInv, CacheTypeOK, CallsInHand, InHand, Request, Miss
<1>2. q \in Request /\ q.stage = "tracing" /\ q.key \in Key
  BY <1>1 DEF Request, Stage
<1>3. call' = [call EXCEPT ![w] = q] /\ UNCHANGED <<cache, recent>>
  BY DEF Miss
<1>. HIDE DEF q
<1>4. call' \in [Worker -> Request] /\ CallsInHand'
  BY <1>2, <1>3, CallTypes DEF CacheInv, CacheTypeOK
<1>. QED BY <1>3, <1>4 DEF CacheInv, CacheTypeOK, HoldsMostRecent

\* The tracer is over: a failure is answered and not kept.
LEMMA TracedPreserves ==
    ASSUME CacheInv, NEW w \in Worker, NEW o \in Output, Traced(w, o)
    PROVE  CacheInv'
<1> DEFINE q == [call[w] EXCEPT !.stage = IF o \in Failure THEN "reply" ELSE "store", !.out = o]
<1>1. call[w] \in Request /\ call[w].key \in Key
  BY DEF CacheInv, CacheTypeOK, CallsInHand, InHand, Request, Traced
<1>2. /\ q \in Request /\ q.key \in Key /\ q.out = o
      /\ (q.stage = "store" /\ o \in Key) \/ q.stage = "reply"
  BY <1>1 DEF Request, Stage, Output
<1>3. call' = [call EXCEPT ![w] = q] /\ UNCHANGED <<cache, recent>>
  BY DEF Traced
<1>. HIDE DEF q
<1>4. call' \in [Worker -> Request] /\ CallsInHand'
  BY <1>2, <1>3, CallTypes DEF CacheInv, CacheTypeOK
<1>. QED BY <1>3, <1>4 DEF CacheInv, CacheTypeOK, HoldsMostRecent

\* The trace is stored, by now perhaps not for the first time
\* (trace_cache.py:25-29).
LEMMA StorePreserves ==
    ASSUME CacheInv, NEW w \in Worker, Store(w)
    PROVE  CacheInv'
<1> DEFINE k == call[w].key
           e == [key |-> k, value |-> call[w].out]
           q == [call[w] EXCEPT !.stage = "reply"]
<1>1. call[w] \in Request /\ k \in Key /\ call[w].out \in Key
  BY DEF CacheInv, CacheTypeOK, CallsInHand, InHand, Request, Store
<1>2. e \in Entry /\ e.key = k
  BY <1>1 DEF Entry
<1>3. call' \in [Worker -> Request] /\ CallsInHand'
  <2>1. q \in Request /\ q.stage = "reply" /\ q.out \in Output /\ q.key \in Key
    BY <1>1 DEF Request, Stage, Output
  <2>2. call' = [call EXCEPT ![w] = q]
    BY DEF Store
  <2>. HIDE DEF q
  <2>. QED BY <2>1, <2>2, CallTypes DEF CacheInv, CacheTypeOK
<1>4. cache' \in Seq(Entry) /\ recent' \in Seq(Key) /\ HoldsMostRecent'
  BY <1>1, <1>2, AnswerIsMostRecent DEF CacheInv, Store
<1>. QED BY <1>3, <1>4 DEF CacheInv, CacheTypeOK

\* The answer is sent.
LEMMA ReplyPreserves ==
    ASSUME CacheInv, NEW w \in Worker, Reply(w)
    PROVE  CacheInv'
<1>1. NoRequest \in Request /\ NoRequest.stage = "idle" /\ NoRequest.key = Nobody
  BY DEF NoRequest, Request, Stage
<1>2. call' = [call EXCEPT ![w] = NoRequest] /\ UNCHANGED <<cache, recent>>
  BY DEF Reply
<1>3. call' \in [Worker -> Request] /\ CallsInHand'
  BY <1>1, <1>2, CallTypes DEF CacheInv, CacheTypeOK
<1>. QED BY <1>2, <1>3 DEF CacheInv, CacheTypeOK, HoldsMostRecent

\* An empty cache holds all that was stored since it was emptied.
LEMMA EmptyIsMostRecent == MostRecent(<<>>, <<>>)
<1>1. Len(<<>>) = 0 /\ <<>> \in Seq(Entry) /\ <<>> \in Seq(Key)
  BY EmptySeq
<1>2. Distinct(<<>>) /\ AreLastOf(<<>>, <<>>) /\ Filled(<<>>, <<>>)
  <2>1. 1..0 = {}
    OBVIOUS
  <2>. QED BY <1>1, <2>1, MaxEntriesAssumption DEF Distinct, AreLastOf, Filled
<1>. QED BY <1>1, <1>2, AlignedIsMostRecent DEF Aligned

\* clear(), and a server that starts anew.
LEMMA EmptiedIsMostRecent ==
    ASSUME cache' = <<>>, recent' = <<>>
    PROVE  cache' \in Seq(Entry) /\ recent' \in Seq(Key) /\ HoldsMostRecent'
<1>1. MostRecent(cache', recent')
  BY EmptyIsMostRecent
<1>2. HoldsMostRecent'
  BY <1>1 DEF HoldsMostRecent, MostRecent, Distinct
<1>. QED BY <1>2, EmptySeq

\* A server starts with an empty cache.
LEMMA CacheInitEstablishes == CacheInit => CacheInv
<1>. SUFFICES ASSUME CacheInit PROVE CacheInv
  OBVIOUS
<1>1. HoldsMostRecent
  BY EmptyIsMostRecent DEF CacheInit, HoldsMostRecent, MostRecent, Distinct
<1>2. NoRequest \in Request /\ NoRequest.stage = "idle" /\ NoRequest.key = Nobody
  BY DEF NoRequest, Request, Stage
<1>. QED
  BY <1>1, <1>2, EmptySeq DEF CacheInit, CacheInv, CacheTypeOK, CallsInHand, InHand

\* Every step of the cache preserves the invariant.
LEMMA CachePreserves == CacheInv /\ [CacheNext]_cacheVars => CacheInv'
<1>. SUFFICES ASSUME CacheInv, [CacheNext]_cacheVars PROVE CacheInv'
  OBVIOUS
<1>1. ASSUME NEW w \in Worker, NEW k \in Key, Receive(w, k) PROVE CacheInv'
  BY <1>1, ReceivePreserves
<1>2. ASSUME NEW w \in Worker, Hit(w) \/ Miss(w) \/ Store(w) \/ Reply(w) PROVE CacheInv'
  BY <1>2, HitPreserves, MissPreserves, StorePreserves, ReplyPreserves
<1>3. ASSUME NEW w \in Worker, NEW o \in {call[w].key} \cup Failure, Traced(w, o)
      PROVE  CacheInv'
  <2>1. o \in Output
    BY <1>3 DEF Traced, CacheInv, CacheTypeOK, CallsInHand, InHand, Request
  <2>. QED BY <1>3, <2>1, TracedPreserves
<1>4. CASE Clear
  BY <1>4, EmptiedIsMostRecent DEF Clear, CacheInv, CacheTypeOK, CallsInHand, InHand
<1>5. CASE UNCHANGED cacheVars
  BY <1>5 DEF cacheVars, CacheInv, CacheTypeOK, CallsInHand, InHand, Request, HoldsMostRecent
<1>. QED BY <1>1, <1>2, <1>3, <1>4, <1>5 DEF CacheNext

\* The inductive invariant: what follows rests on it.
THEOREM CacheInductive == CacheSpec => []CacheInv
BY CacheInitEstablishes, CachePreserves, PTL DEF CacheSpec

\* Type correctness of the cache and of the requests that ask it.
THEOREM CacheTypeCorrect == CacheSpec => []CacheTypeOK
<1>1. CacheInv => CacheTypeOK
  BY DEF CacheInv
<1>. QED BY <1>1, CacheInductive, PTL

\* The cache holds the MAX_ENTRIES keys that were answered last, in order, for
\* any number of threads and any MAX_ENTRIES (trace_cache.py:1-4, 25-29).
THEOREM CacheHoldsMostRecent == CacheSpec => []HoldsMostRecent
<1>1. CacheInv => HoldsMostRecent
  BY DEF CacheInv
<1>. QED BY <1>1, CacheInductive, PTL

HIDE DEF Output

-----------------------------------------------------------------------------
(* The tracer pool: typing.                                                *)

ThreadsTyped == worker \in [Worker -> Thread] /\ \A w \in Worker : Carries(worker[w])

\* One thread moves on.
LEMMA MoveTypes ==
    ASSUME ThreadsTyped, NEW w \in Worker, NEW r \in Thread, Carries(r),
           worker' = [worker EXCEPT ![w] = r]
    PROVE  ThreadsTyped'
BY DEF ThreadsTyped

\* The output of a tracer is taken.
LEMMA AnswerTypes ==
    ASSUME ThreadsTyped, NEW w \in Worker, worker[w].pc # "off",
           NEW l \in WorkerPc, NEW o \in Output,
           worker' = [worker EXCEPT ![w].pc = l, ![w].out = o]
    PROVE  ThreadsTyped'
<1> DEFINE r == [worker[w] EXCEPT !.pc = l, !.out = o]
<1>1. worker[w] \in Thread /\ Carries(worker[w])
  BY DEF ThreadsTyped
<1>2. r \in Thread /\ Carries(r)
  BY <1>1 DEF Thread, Carries
<1>3. worker' = [worker EXCEPT ![w] = r]
  OBVIOUS
<1>. HIDE DEF r
<1>. QED BY <1>2, <1>3, MoveTypes

\* A thread leaves the `with` block, for the end or for a cold run.
LEMMA LeaveBlockTypes ==
    ASSUME ThreadsTyped, NEW w \in Worker, worker[w].pc # "off",
           NEW l \in {"done", "cold"}, NEW o \in Output \cup {Nobody},
           l = "done" => o \in Output, LeaveBlock(w, l, o)
    PROVE  ThreadsTyped'
<1> DEFINE r == [worker[w] EXCEPT !.pc = l, !.out = o, !.timer = Nobody]
<1>1. worker[w] \in Thread /\ Carries(worker[w])
  BY DEF ThreadsTyped
<1>2. r \in Thread /\ Carries(r)
  BY <1>1 DEF Thread, Carries, WorkerPc
<1>3. worker' = [worker EXCEPT ![w] = r]
  BY DEF LeaveBlock
<1>. HIDE DEF r
<1>. QED BY <1>2, <1>3, MoveTypes

\* A thread has made its timer.
LEMMA TimerTypes ==
    ASSUME ThreadsTyped, NEW w \in Worker, worker[w].pc = "arm", NEW t \in Timer,
           worker' = [worker EXCEPT ![w].pc = "link", ![w].timer = t]
    PROVE  ThreadsTyped'
<1> DEFINE r == [worker[w] EXCEPT !.pc = "link", !.timer = t]
<1>1. worker[w] \in Thread /\ Carries(worker[w])
  BY DEF ThreadsTyped
<1>2. r \in Thread /\ Carries(r)
  BY <1>1 DEF Thread, Carries, WorkerPc, HoldPc
<1>3. worker' = [worker EXCEPT ![w] = r]
  OBVIOUS
<1>. HIDE DEF r
<1>. QED BY <1>2, <1>3, MoveTypes

\* A request that has been called brings a guest with its own source.
LEMMA SpawnTypes ==
    ASSUME ThreadsTyped, guests \subseteq Guest, NEW w \in Worker, worker[w].pc # "off"
    PROVE  guests \cup {Spawned(w)} \subseteq Guest
<1>1. worker[w].key \in Key
  BY DEF ThreadsTyped, Carries
<1>2. Spawned(w) \in Guest
  BY <1>1 DEF Spawned, Guest
<1>. QED BY <1>2

USE RequestAssumption, ActorAssumption, BoundAssumption
    DEF PoolInv, ThreadInv, GuestInv, WarmInv, At, Goto, LeaveBlock, Quiet, KeepReap,
        KeepServer, Calm, HoldPc, Off, threadVars, warmVars

-----------------------------------------------------------------------------
(* One step of each kind.                                                 *)

\* run_trace() is called (tracer_service.py:105).
LEMMA EnterPreserves ==
    ASSUME NEW w \in Worker, NEW k \in Key, PoolInv, server # "down", Enter(w, k)
    PROVE  PoolInv'
<1>1. PoolTypeOK'
  <2>. ThreadsTyped
    BY DEF PoolTypeOK, ThreadsTyped
  <2> DEFINE r == [Off EXCEPT !.pc = IF mode = "local" THEN "localLock" ELSE "lock",
                              !.key = k]
  <2>a. r \in Thread /\ Carries(r)
    BY DEF Thread, Carries, WorkerPc
  <2>b. worker' = [worker EXCEPT ![w] = r]
    BY DEF Enter
  <2>1. ThreadsTyped'
    <3>. HIDE DEF r
    <3>. QED BY <2>a, <2>b, MoveTypes
  <2>. QED
    BY <2>1, SMTT(30) DEF Enter, PoolTypeOK, ThreadsTyped
<1>2. ThreadInv'
  BY SMTT(30) DEF Enter, PoolTypeOK, HolderInside, ModesApart, LinkIsArmed,
      DownIsQuiet
<1>3. GuestInv'
  BY SMTT(30) DEF Enter, PoolTypeOK, Thread, Guest, WorkerPc, ReaperPc,
      Reaper, Carries, Output, Failure, HolderInside, ModesApart, LinkIsArmed,
      DownIsQuiet, GuestsInWarm, GuestIsHolders, OneGuest, OwnOutput
<1>4. WarmInv'
  BY SMTT(30) DEF Enter, PoolTypeOK, RunIsAfterRemove, WarmIsTimed, StopsClean
<1>. QED BY <1>1, <1>2, <1>3, <1>4 DEF PoolInv

\* run_trace() returns or raises.
LEMMA LeavePreserves ==
    ASSUME NEW w \in Worker, PoolInv, Leave(w)
    PROVE  PoolInv'
<1>1. PoolTypeOK'
  BY SMTT(30) DEF Leave, PoolTypeOK, Thread, WorkerPc, ReaperPc, Reaper,
      Carries
<1>2. ThreadInv'
  BY SMTT(30) DEF Leave, PoolTypeOK, HolderInside, ModesApart, LinkIsArmed,
      DownIsQuiet
<1>3. GuestInv'
  BY SMTT(30) DEF Leave, PoolTypeOK, GuestsInWarm, GuestIsHolders, OneGuest,
      OwnOutput
<1>4. WarmInv'
  BY SMTT(30) DEF Leave, PoolTypeOK, RunIsAfterRemove, WarmIsTimed, StopsClean
<1>. QED BY <1>1, <1>2, <1>3, <1>4 DEF PoolInv

\* A request gets _warm_lock, or _local_lock (local_tracer.py:38).
LEMMA LockPreserves ==
    ASSUME NEW w \in Worker, PoolInv, WaitForLock(w)
    PROVE  PoolInv'
<1>1. CASE Acquire(w)
  <2>1. PoolTypeOK'
    BY <1>1, SMTT(30) DEF Acquire, SpareTimer, PoolTypeOK, Thread, WorkerPc, ReaperPc,
        Reaper, Carries
  <2>2. ThreadInv'
    BY <1>1, SMTT(30) DEF Acquire, SpareTimer, PoolTypeOK, HolderInside, ModesApart,
        LinkIsArmed, DownIsQuiet
  <2>3. GuestInv'
    BY <1>1, SMTT(30) DEF Acquire, SpareTimer, PoolTypeOK, GuestsInWarm,
        GuestIsHolders, OneGuest, OwnOutput
  <2>4. WarmInv'
    BY <1>1, SMTT(30) DEF Acquire, SpareTimer, PoolTypeOK, RunIsAfterRemove,
        WarmIsTimed, StopsClean
  <2>. QED BY <2>1, <2>2, <2>3, <2>4 DEF PoolInv
<1>2. CASE LocalStarts(w)
  <2>1. PoolTypeOK'
    <3>. ThreadsTyped
      BY DEF PoolTypeOK, ThreadsTyped
    <3>1. ThreadsTyped'
      BY <1>2, SMTT(30) DEF LocalStarts, ThreadsTyped, Thread, Carries, WorkerPc
    <3>2. guests \cup {Spawned(w)} \subseteq Guest
      BY <1>2, SpawnTypes DEF LocalStarts, PoolTypeOK
    <3>. QED
      BY <1>2, <3>1, <3>2, SMTT(30) DEF LocalStarts, Spawned, PoolTypeOK, ThreadsTyped
  <2>2. ThreadInv'
    BY <1>2, SMTT(30) DEF LocalStarts, Spawned, PoolTypeOK, HolderInside, ModesApart,
        LinkIsArmed, DownIsQuiet
  <2>3. GuestInv'
    <3>1. Calm => guests = {}
      BY <1>2, SMTT(30) DEF LocalStarts, GuestIsHolders, HolderInside, PoolTypeOK
    <3>2. GuestsInWarm'
      BY <1>2, SMTT(30) DEF LocalStarts, GuestsInWarm, ModesApart, PoolTypeOK
    <3>3. Calm' => guests' \subseteq {Spawned(w)}
      BY <1>2, <3>1 DEF LocalStarts
    <3>4. GuestIsHolders'
      <4>. SUFFICES ASSUME Calm', NEW g \in guests'
                    PROVE  /\ lock' \in Worker
                           /\ \/ worker'[lock'].pc \in {"running", "local"} /\ g.owner = lock'
                              \/ worker'[lock'].pc = "purge" /\ g.owner = Nobody
                           /\ g.key = worker'[lock'].key
                           /\ g.wrote => scratch' = g.key
        BY DEF GuestIsHolders
      <4>1. g = Spawned(w)
        BY <3>3
      <4>2. g.owner = w /\ g.key = worker[w].key /\ ~g.wrote
        BY <4>1 DEF Spawned
      <4>3. lock' = w /\ worker'[w].pc \in {"running", "local"} /\ worker'[w].key = worker[w].key
        BY <1>2, <3>1, SMTT(30) DEF LocalStarts, HolderInside, PoolTypeOK, Thread
      <4>. QED BY <4>2, <4>3
    <3>5. OneGuest'
      BY <3>3 DEF OneGuest
    <3>6. OwnOutput'
      BY <1>2, SMTT(30) DEF LocalStarts, OwnOutput, PoolTypeOK, Thread, Output, Failure
    <3>. QED BY <3>2, <3>4, <3>5, <3>6
  <2>4. WarmInv'
    BY <1>2, SMTT(30) DEF LocalStarts, Spawned, PoolTypeOK, RunIsAfterRemove,
        WarmIsTimed, StopsClean
  <2>. QED BY <2>1, <2>2, <2>3, <2>4 DEF PoolInv
<1>. QED BY <1>1, <1>2 DEF WaitForLock

\* What _run_tracer(), _arm_reap_timer() and run_local() do with the lock held,
\* and the cold run after it.
LEMMA ServePreserves ==
    ASSUME NEW w \in Worker, PoolInv, Serve(w)
    PROVE  PoolInv'
<1>1. CASE Inspect(w)
  <2>1. PoolTypeOK'
    BY <1>1, SMTT(30) DEF Inspect, SeesRunning, SeesNothing, Fault, PoolTypeOK,
        Thread, WorkerPc, ReaperPc, Reaper, Carries
  <2>2. ThreadInv'
    BY <1>1, SMTT(30) DEF Inspect, SeesRunning, SeesNothing, Fault, PoolTypeOK,
        Thread, Guest, WorkerPc, ReaperPc, Reaper, Carries, HolderInside, ModesApart,
        LinkIsArmed, DownIsQuiet
  <2>3. GuestInv'
    BY <1>1, SMTT(30) DEF Inspect, SeesRunning, SeesNothing, Fault, PoolTypeOK,
        Thread, Guest, WorkerPc, ReaperPc, Reaper, Carries, HolderInside, ModesApart,
        LinkIsArmed, DownIsQuiet, GuestsInWarm, GuestIsHolders, OneGuest, OwnOutput
  <2>4. WarmInv'
    BY <1>1, SMTT(30) DEF Inspect, SeesRunning, SeesNothing, Fault, PoolTypeOK,
        Thread, Guest, WorkerPc, ReaperPc, Reaper, Carries, HolderInside, ModesApart,
        LinkIsArmed, DownIsQuiet, GuestsInWarm, GuestIsHolders, OneGuest, OwnOutput,
        RunIsAfterRemove, WarmIsTimed, StopsClean
  <2>. QED BY <2>1, <2>2, <2>3, <2>4 DEF PoolInv
<1>2. CASE StartWarmRemove(w)
  <2>1. PoolTypeOK'
    BY <1>2, SMTT(30) DEF StartWarmRemove, RemoveWarm, Fault, PoolTypeOK, Thread,
        WorkerPc, ReaperPc, Reaper, Carries
  <2>2. ThreadInv'
    BY <1>2, SMTT(30) DEF StartWarmRemove, RemoveWarm, Fault, PoolTypeOK,
        HolderInside, ModesApart, LinkIsArmed, DownIsQuiet
  <2>3. GuestInv'
    BY <1>2, SMTT(30) DEF StartWarmRemove, RemoveWarm, Fault, PoolTypeOK,
        GuestsInWarm, GuestIsHolders, OneGuest, OwnOutput
  <2>4. WarmInv'
    BY <1>2, SMTT(30) DEF StartWarmRemove, RemoveWarm, Fault, PoolTypeOK,
        RunIsAfterRemove, WarmIsTimed, StopsClean
  <2>. QED BY <2>1, <2>2, <2>3, <2>4 DEF PoolInv
<1>3. CASE StartWarmRun(w)
  <2>1. PoolTypeOK'
    BY <1>3, SMTT(30) DEF StartWarmRun, PoolTypeOK, Thread, WorkerPc, ReaperPc,
        Reaper, Carries
  <2>2. ThreadInv'
    BY <1>3, SMTT(30) DEF StartWarmRun, PoolTypeOK, Thread, Guest, WorkerPc, ReaperPc,
        Reaper, Carries, HolderInside, ModesApart, LinkIsArmed, DownIsQuiet
  <2>3. GuestInv'
    BY <1>3, SMTT(30) DEF StartWarmRun, PoolTypeOK, Thread, Guest, WorkerPc, ReaperPc,
        Reaper, Carries, HolderInside, ModesApart, LinkIsArmed, DownIsQuiet,
        GuestsInWarm, GuestIsHolders, OneGuest, OwnOutput
  <2>4. WarmInv'
    BY <1>3, SMTT(30) DEF StartWarmRun, PoolTypeOK, Thread, Guest, WorkerPc, ReaperPc,
        Reaper, Carries, HolderInside, ModesApart, LinkIsArmed, DownIsQuiet,
        GuestsInWarm, GuestIsHolders, OneGuest, OwnOutput, RunIsAfterRemove,
        WarmIsTimed, StopsClean
  <2>. QED BY <2>1, <2>2, <2>3, <2>4 DEF PoolInv
<1>4. CASE ExecStarts(w)
  <2>1. PoolTypeOK'
    <3>. ThreadsTyped
      BY DEF PoolTypeOK, ThreadsTyped
    <3>1. ThreadsTyped'
      <4>1. CASE warm = "up"
        BY <1>4, <4>1, SMTT(30) DEF ExecStarts, ThreadsTyped, Thread, Carries, WorkerPc
      <4>2. CASE warm # "up"
        BY <1>4, <4>2, AnswerTypes DEF ExecStarts, WorkerPc, Output, Failure
      <4>. QED BY <4>1, <4>2
    <3>2. guests \cup {Spawned(w)} \subseteq Guest
      BY <1>4, SpawnTypes DEF ExecStarts, PoolTypeOK
    <3>. QED
      BY <1>4, <3>1, <3>2, SMTT(30) DEF ExecStarts, Spawned, PoolTypeOK, ThreadsTyped
  <2>2. ThreadInv'
    BY <1>4, SMTT(30) DEF ExecStarts, Spawned, PoolTypeOK, Thread, Guest, WorkerPc,
        ReaperPc, Reaper, Carries, HolderInside, ModesApart, LinkIsArmed, DownIsQuiet
  <2>3. GuestInv'
    <3>1. Calm => guests = {}
      BY <1>4, SMTT(30) DEF ExecStarts, GuestIsHolders, HolderInside, PoolTypeOK
    <3>2. GuestsInWarm'
      BY <1>4, SMTT(30) DEF ExecStarts, GuestsInWarm, ModesApart, PoolTypeOK
    <3>3. Calm' => guests' \subseteq {Spawned(w)}
      BY <1>4, <3>1 DEF ExecStarts
    <3>4. GuestIsHolders'
      <4>. SUFFICES ASSUME Calm', NEW g \in guests'
                    PROVE  /\ lock' \in Worker
                           /\ \/ worker'[lock'].pc \in {"running", "local"} /\ g.owner = lock'
                              \/ worker'[lock'].pc = "purge" /\ g.owner = Nobody
                           /\ g.key = worker'[lock'].key
                           /\ g.wrote => scratch' = g.key
        BY DEF GuestIsHolders
      <4>1. g = Spawned(w)
        BY <3>3
      <4>2. g.owner = w /\ g.key = worker[w].key /\ ~g.wrote
        BY <4>1 DEF Spawned
      <4>3. lock' = w /\ worker'[w].pc \in {"running", "local"} /\ worker'[w].key = worker[w].key
        BY <1>4, <3>1, SMTT(30) DEF ExecStarts, HolderInside, PoolTypeOK, Thread
      <4>. QED BY <4>2, <4>3
    <3>5. OneGuest'
      BY <3>3 DEF OneGuest
    <3>6. OwnOutput'
      BY <1>4, SMTT(30) DEF ExecStarts, OwnOutput, PoolTypeOK, Thread, Output, Failure
    <3>. QED BY <3>2, <3>4, <3>5, <3>6
  <2>4. WarmInv'
    BY <1>4, SMTT(30) DEF ExecStarts, Spawned, PoolTypeOK, Thread, Guest, WorkerPc,
        ReaperPc, Reaper, Carries, HolderInside, ModesApart, LinkIsArmed, DownIsQuiet,
        GuestsInWarm, GuestIsHolders, OneGuest, OwnOutput, RunIsAfterRemove,
        WarmIsTimed, StopsClean
  <2>. QED BY <2>1, <2>2, <2>3, <2>4 DEF PoolInv
<1>5. CASE ExecEnds(w)
  <2>1. PoolTypeOK'
    <3>. ThreadsTyped
      BY DEF PoolTypeOK, ThreadsTyped
    <3>1. ThreadsTyped'
      <4>1. PICK o \in Output, l \in {"cancel", "recheck"} :
               worker' = [worker EXCEPT ![w].pc = l, ![w].out = o]
        BY <1>5 DEF ExecEnds
      <4>. QED BY <1>5, <4>1, AnswerTypes DEF ExecEnds, WorkerPc
    <3>. QED
      BY <1>5, <3>1, SMTT(30) DEF ExecEnds, GuestsOf, Printed, PoolTypeOK,
          ThreadsTyped
  <2>2. ThreadInv'
    BY <1>5, SMTT(30) DEF ExecEnds, GuestsOf, Printed, PoolTypeOK, HolderInside,
        ModesApart, LinkIsArmed, DownIsQuiet
  <2>3. GuestInv'
    BY <1>5, SMTT(30) DEF ExecEnds, GuestsOf, Printed, PoolTypeOK, Thread, Guest,
        WorkerPc, ReaperPc, Reaper, Carries, HolderInside, ModesApart, LinkIsArmed,
        DownIsQuiet, GuestsInWarm, GuestIsHolders, OneGuest, OwnOutput
  <2>4. WarmInv'
    BY <1>5, SMTT(30) DEF ExecEnds, GuestsOf, Printed, PoolTypeOK, RunIsAfterRemove,
        WarmIsTimed, StopsClean
  <2>. QED BY <2>1, <2>2, <2>3, <2>4 DEF PoolInv
<1>6. CASE ExecBreaks(w)
  <2>1. PoolTypeOK'
    <3>. ThreadsTyped
      BY DEF PoolTypeOK, ThreadsTyped
    <3>1. ThreadsTyped'
      BY <1>6, AnswerTypes DEF ExecBreaks, WorkerPc, Output, Failure
    <3>. QED
      BY <1>6, <3>1, SMTT(30) DEF ExecBreaks, GuestsOf, PoolTypeOK, ThreadsTyped
  <2>2. ThreadInv'
    BY <1>6, SMTT(30) DEF ExecBreaks, GuestsOf, PoolTypeOK, HolderInside, ModesApart,
        LinkIsArmed, DownIsQuiet
  <2>3. GuestInv'
    BY <1>6, SMTT(30) DEF ExecBreaks, GuestsOf, PoolTypeOK, Thread, Guest, WorkerPc,
        ReaperPc, Reaper, Carries, HolderInside, ModesApart, LinkIsArmed, DownIsQuiet,
        GuestsInWarm, GuestIsHolders, OneGuest, OwnOutput
  <2>4. WarmInv'
    BY <1>6, SMTT(30) DEF ExecBreaks, GuestsOf, PoolTypeOK, RunIsAfterRemove,
        WarmIsTimed, StopsClean
  <2>. QED BY <2>1, <2>2, <2>3, <2>4 DEF PoolInv
<1>7. CASE ExecTimesOut(w)
  <2>1. PoolTypeOK'
    BY <1>7, SMTT(30) DEF ExecTimesOut, Orphaned, PoolTypeOK, Thread, Guest, WorkerPc,
        ReaperPc, Reaper, Carries
  <2>2. ThreadInv'
    BY <1>7, SMTT(30) DEF ExecTimesOut, Orphaned, PoolTypeOK, HolderInside,
        ModesApart, LinkIsArmed, DownIsQuiet
  <2>3. GuestInv'
    BY <1>7, SMTT(30) DEF ExecTimesOut, Orphaned, PoolTypeOK, Carries, Guest,
        HolderInside, ModesApart, LinkIsArmed, DownIsQuiet, GuestsInWarm,
        GuestIsHolders, OneGuest, OwnOutput
  <2>4. WarmInv'
    BY <1>7, SMTT(30) DEF ExecTimesOut, Orphaned, PoolTypeOK, RunIsAfterRemove,
        WarmIsTimed, StopsClean
  <2>. QED BY <2>1, <2>2, <2>3, <2>4 DEF PoolInv
<1>8. CASE Purge(w)
  <2>1. PoolTypeOK'
    <3>. ThreadsTyped
      BY DEF PoolTypeOK, ThreadsTyped
    <3>1. ThreadsTyped'
      BY <1>8, LeaveBlockTypes DEF Purge, Output, Failure
    <3>. QED
      BY <1>8, <3>1, SMTT(30) DEF Purge, RemoveWarm, Fault, PoolTypeOK, ThreadsTyped
  <2>2. ThreadInv'
    BY <1>8, SMTT(30) DEF Purge, RemoveWarm, Fault, PoolTypeOK, HolderInside,
        ModesApart, LinkIsArmed, DownIsQuiet
  <2>3. GuestInv'
    BY <1>8, SMTT(30) DEF Purge, RemoveWarm, Fault, PoolTypeOK, Thread, Guest,
        WorkerPc, ReaperPc, Reaper, Carries, HolderInside, ModesApart, LinkIsArmed,
        DownIsQuiet, GuestsInWarm, GuestIsHolders, OneGuest, OwnOutput
  <2>4. WarmInv'
    BY <1>8, SMTT(30) DEF Purge, RemoveWarm, Fault, PoolTypeOK, RunIsAfterRemove,
        WarmIsTimed, StopsClean
  <2>. QED BY <2>1, <2>2, <2>3, <2>4 DEF PoolInv
<1>9. CASE Recheck(w)
  <2>1. PoolTypeOK'
    BY <1>9, SMTT(30) DEF Recheck, SeesRunning, SeesNothing, Fault, PoolTypeOK,
        Thread, WorkerPc, ReaperPc, Reaper, Carries
  <2>2. ThreadInv'
    BY <1>9, SMTT(30) DEF Recheck, SeesRunning, SeesNothing, Fault, PoolTypeOK,
        Thread, Guest, WorkerPc, ReaperPc, Reaper, Carries, HolderInside, ModesApart,
        LinkIsArmed, DownIsQuiet
  <2>3. GuestInv'
    BY <1>9, SMTT(30) DEF Recheck, SeesRunning, SeesNothing, Fault, PoolTypeOK,
        Thread, Guest, WorkerPc, ReaperPc, Reaper, Carries, HolderInside, ModesApart,
        LinkIsArmed, DownIsQuiet, GuestsInWarm, GuestIsHolders, OneGuest, OwnOutput
  <2>4. WarmInv'
    BY <1>9, SMTT(30) DEF Recheck, SeesRunning, SeesNothing, Fault, PoolTypeOK,
        Thread, Guest, WorkerPc, ReaperPc, Reaper, Carries, HolderInside, ModesApart,
        LinkIsArmed, DownIsQuiet, GuestsInWarm, GuestIsHolders, OneGuest, OwnOutput,
        RunIsAfterRemove, WarmIsTimed, StopsClean
  <2>. QED BY <2>1, <2>2, <2>3, <2>4 DEF PoolInv
<1>10. CASE ColdRun(w)
  <2>1. PoolTypeOK'
    <3>. ThreadsTyped
      BY DEF PoolTypeOK, ThreadsTyped
    <3>1. ThreadsTyped'
      <4>1. PICK o \in {worker[w].key, Garbled, TimedOut} :
               worker' = [worker EXCEPT ![w].pc = "done", ![w].out = o]
        BY <1>10 DEF ColdRun
      <4>2. o \in Output
        BY <1>10 DEF ColdRun, ThreadsTyped, Carries, Output, Failure
      <4>. QED BY <1>10, <4>1, <4>2, AnswerTypes DEF ColdRun, WorkerPc
    <3>. QED
      BY <1>10, <3>1, SMTT(30) DEF ColdRun, PoolTypeOK, ThreadsTyped
  <2>2. ThreadInv'
    BY <1>10, SMTT(30) DEF ColdRun, PoolTypeOK, HolderInside, ModesApart, LinkIsArmed,
        DownIsQuiet
  <2>3. GuestInv'
    BY <1>10, SMTT(30) DEF ColdRun, PoolTypeOK, Thread, Guest, WorkerPc, ReaperPc,
        Reaper, Carries, HolderInside, ModesApart, LinkIsArmed, DownIsQuiet,
        GuestsInWarm, GuestIsHolders, OneGuest, OwnOutput
  <2>4. WarmInv'
    BY <1>10, SMTT(30) DEF ColdRun, PoolTypeOK, RunIsAfterRemove, WarmIsTimed,
        StopsClean
  <2>. QED BY <2>1, <2>2, <2>3, <2>4 DEF PoolInv
<1>11. CASE CancelOld(w)
  <2>1. PoolTypeOK'
    BY <1>11, SMTT(30) DEF CancelOld, Cancelled, PoolTypeOK, Thread, WorkerPc,
        ReaperPc, Reaper, Carries
  <2>2. ThreadInv'
    BY <1>11, SMTT(30) DEF CancelOld, Cancelled, PoolTypeOK, HolderInside, ModesApart,
        LinkIsArmed, DownIsQuiet
  <2>3. GuestInv'
    BY <1>11, SMTT(30) DEF CancelOld, Cancelled, PoolTypeOK, GuestsInWarm,
        GuestIsHolders, OneGuest, OwnOutput
  <2>4. WarmInv'
    BY <1>11, SMTT(30) DEF CancelOld, Cancelled, PoolTypeOK, Reaper, HolderInside,
        ModesApart, LinkIsArmed, DownIsQuiet, RunIsAfterRemove, WarmIsTimed,
        StopsClean
  <2>. QED BY <2>1, <2>2, <2>3, <2>4 DEF PoolInv
<1>12. CASE ArmNew(w)
  <2>1. PoolTypeOK'
    <3>. ThreadsTyped
      BY DEF PoolTypeOK, ThreadsTyped
    <3>1. ThreadsTyped'
      BY <1>12, TimerTypes DEF ArmNew
    <3>. QED
      BY <1>12, <3>1, SMTT(30) DEF ArmNew, PoolTypeOK, ThreadsTyped, Reaper, ReaperPc
  <2>2. ThreadInv'
    BY <1>12, SMTT(30) DEF ArmNew, PoolTypeOK, Reaper, HolderInside, ModesApart,
        LinkIsArmed, DownIsQuiet
  <2>3. GuestInv'
    BY <1>12, SMTT(30) DEF ArmNew, PoolTypeOK, GuestsInWarm, GuestIsHolders, OneGuest,
        OwnOutput
  <2>4. WarmInv'
    BY <1>12, SMTT(30) DEF ArmNew, PoolTypeOK, RunIsAfterRemove, WarmIsTimed,
        StopsClean
  <2>. QED BY <2>1, <2>2, <2>3, <2>4 DEF PoolInv
<1>13. CASE LinkNew(w)
  <2>1. PoolTypeOK'
    <3>. ThreadsTyped
      BY DEF PoolTypeOK, ThreadsTyped
    <3>1. ThreadsTyped'
      <4>1. worker[w].out \in Output
        BY <1>13 DEF LinkNew, ThreadsTyped, Carries
      <4>. QED BY <1>13, <4>1, LeaveBlockTypes DEF LinkNew
    <3>2. worker[w].timer \in Timer \cup {Nobody}
      BY DEF ThreadsTyped, Thread
    <3>. QED
      BY <1>13, <3>1, <3>2, SMTT(30) DEF LinkNew, PoolTypeOK, ThreadsTyped
  <2>2. ThreadInv'
    BY <1>13, SMTT(30) DEF LinkNew, PoolTypeOK, HolderInside, ModesApart, LinkIsArmed,
        DownIsQuiet
  <2>3. GuestInv'
    BY <1>13, SMTT(30) DEF LinkNew, PoolTypeOK, HolderInside, ModesApart, LinkIsArmed,
        DownIsQuiet, GuestsInWarm, GuestIsHolders, OneGuest, OwnOutput
  <2>4. WarmInv'
    BY <1>13, SMTT(30) DEF LinkNew, PoolTypeOK, Reaper, HolderInside, ModesApart,
        LinkIsArmed, DownIsQuiet, RunIsAfterRemove, WarmIsTimed, StopsClean
  <2>. QED BY <2>1, <2>2, <2>3, <2>4 DEF PoolInv
<1>14. CASE LocalEnds(w)
  <2>1. PoolTypeOK'
    <3>. ThreadsTyped
      BY DEF PoolTypeOK, ThreadsTyped
    <3>1. ThreadsTyped'
      <4>1. PICK o \in Output : LeaveBlock(w, "done", o)
        BY <1>14 DEF LocalEnds
      <4>. QED BY <1>14, <4>1, LeaveBlockTypes DEF LocalEnds
    <3>. QED
      BY <1>14, <3>1, SMTT(30) DEF LocalEnds, GuestsOf, Printed, PoolTypeOK,
          ThreadsTyped
  <2>2. ThreadInv'
    BY <1>14, SMTT(30) DEF LocalEnds, GuestsOf, Printed, PoolTypeOK, HolderInside,
        ModesApart, LinkIsArmed, DownIsQuiet
  <2>3. GuestInv'
    BY <1>14, SMTT(30) DEF LocalEnds, GuestsOf, Printed, PoolTypeOK, Thread, Guest,
        WorkerPc, ReaperPc, Reaper, Carries, HolderInside, ModesApart, LinkIsArmed,
        DownIsQuiet, GuestsInWarm, GuestIsHolders, OneGuest, OwnOutput
  <2>4. WarmInv'
    BY <1>14, SMTT(30) DEF LocalEnds, GuestsOf, Printed, PoolTypeOK, Reaper,
        HolderInside, ModesApart, LinkIsArmed, DownIsQuiet, RunIsAfterRemove,
        WarmIsTimed, StopsClean
  <2>. QED BY <2>1, <2>2, <2>3, <2>4 DEF PoolInv
<1>15. CASE LocalTimesOut(w)
  <2>1. PoolTypeOK'
    <3>. ThreadsTyped
      BY DEF PoolTypeOK, ThreadsTyped
    <3>1. ThreadsTyped'
      BY <1>15, LeaveBlockTypes DEF LocalTimesOut, Output, Failure
    <3>. QED
      BY <1>15, <3>1, SMTT(30) DEF LocalTimesOut, GuestsOf, PoolTypeOK, ThreadsTyped
  <2>2. ThreadInv'
    BY <1>15, SMTT(30) DEF LocalTimesOut, GuestsOf, PoolTypeOK, HolderInside,
        ModesApart, LinkIsArmed, DownIsQuiet
  <2>3. GuestInv'
    BY <1>15, SMTT(30) DEF LocalTimesOut, GuestsOf, PoolTypeOK, Thread, Guest,
        WorkerPc, ReaperPc, Reaper, Carries, HolderInside, ModesApart, LinkIsArmed,
        DownIsQuiet, GuestsInWarm, GuestIsHolders, OneGuest, OwnOutput
  <2>4. WarmInv'
    BY <1>15, SMTT(30) DEF LocalTimesOut, GuestsOf, PoolTypeOK, Reaper, HolderInside,
        ModesApart, LinkIsArmed, DownIsQuiet, RunIsAfterRemove, WarmIsTimed,
        StopsClean
  <2>. QED BY <2>1, <2>2, <2>3, <2>4 DEF PoolInv
<1>. QED BY <1>1, <1>2, <1>3, <1>4, <1>5, <1>6, <1>7, <1>8, <1>9,
            <1>10, <1>11, <1>12, <1>13, <1>14, <1>15
     DEF Serve

\* shutdown_pool() up to the lock (tracer_service.py:71-76), in any thread.
LEMMA ReaperPreserves ==
    ASSUME NEW a \in Reaper, PoolInv, ReapCheck(a) \/ ReapClear(a)
    PROVE  PoolInv'
<1>1. CASE ReapCheck(a)
  <2>1. PoolTypeOK'
    BY <1>1, SMTT(30) DEF ReapCheck, Cancelled, PoolTypeOK, Thread, WorkerPc,
        ReaperPc, Reaper, Carries
  <2>2. ThreadInv'
    BY <1>1, SMTT(30) DEF ReapCheck, Cancelled, PoolTypeOK, Reaper, HolderInside,
        ModesApart, LinkIsArmed, DownIsQuiet
  <2>3. GuestInv'
    BY <1>1, SMTT(30) DEF ReapCheck, Cancelled, PoolTypeOK, GuestsInWarm,
        GuestIsHolders, OneGuest, OwnOutput
  <2>4. WarmInv'
    BY <1>1, SMTT(30) DEF ReapCheck, Cancelled, PoolTypeOK, RunIsAfterRemove,
        WarmIsTimed, StopsClean
  <2>. QED BY <2>1, <2>2, <2>3, <2>4 DEF PoolInv
<1>2. CASE ReapClear(a)
  <2>1. PoolTypeOK'
    BY <1>2, SMTT(30) DEF ReapClear, PoolTypeOK, Thread, WorkerPc, ReaperPc, Reaper,
        Carries
  <2>2. ThreadInv'
    BY <1>2, SMTT(30) DEF ReapClear, PoolTypeOK, HolderInside, ModesApart,
        LinkIsArmed, DownIsQuiet
  <2>3. GuestInv'
    BY <1>2, SMTT(30) DEF ReapClear, PoolTypeOK, GuestsInWarm, GuestIsHolders,
        OneGuest, OwnOutput
  <2>4. WarmInv'
    BY <1>2, SMTT(30) DEF ReapClear, PoolTypeOK, RunIsAfterRemove, WarmIsTimed,
        StopsClean
  <2>. QED BY <2>1, <2>2, <2>3, <2>4 DEF PoolInv
<1>. QED BY <1>1, <1>2

\* A timer fires, and removes the container once it has the lock.
LEMMA TimerPreserves ==
    ASSUME NEW t \in Timer, PoolInv, Fires(t) \/ ReapRemove(t)
    PROVE  PoolInv'
<1>1. CASE Fires(t)
  <2>1. PoolTypeOK'
    BY <1>1, SMTT(30) DEF Fires, PoolTypeOK, Thread, WorkerPc, ReaperPc, Reaper,
        Carries
  <2>2. ThreadInv'
    BY <1>1, SMTT(30) DEF Fires, PoolTypeOK, HolderInside, ModesApart, LinkIsArmed,
        DownIsQuiet
  <2>3. GuestInv'
    BY <1>1, SMTT(30) DEF Fires, PoolTypeOK, GuestsInWarm, GuestIsHolders, OneGuest,
        OwnOutput
  <2>4. WarmInv'
    BY <1>1, SMTT(30) DEF Fires, PoolTypeOK, RunIsAfterRemove, WarmIsTimed, StopsClean
  <2>. QED BY <2>1, <2>2, <2>3, <2>4 DEF PoolInv
<1>2. CASE ReapRemove(t)
  <2>1. PoolTypeOK'
    BY <1>2, SMTT(30) DEF ReapRemove, RemoveWarm, Fault, PoolTypeOK, Thread, WorkerPc,
        ReaperPc, Reaper, Carries
  <2>2. ThreadInv'
    BY <1>2, SMTT(30) DEF ReapRemove, RemoveWarm, Fault, PoolTypeOK, HolderInside,
        ModesApart, LinkIsArmed, DownIsQuiet
  <2>3. GuestInv'
    BY <1>2, SMTT(30) DEF ReapRemove, RemoveWarm, Fault, PoolTypeOK, GuestsInWarm,
        GuestIsHolders, OneGuest, OwnOutput
  <2>4. WarmInv'
    BY <1>2, SMTT(30) DEF ReapRemove, RemoveWarm, Fault, PoolTypeOK, RunIsAfterRemove,
        WarmIsTimed, StopsClean
  <2>. QED BY <2>1, <2>2, <2>3, <2>4 DEF PoolInv
<1>. QED BY <1>1, <1>2

\* The server is told to stop, shuts down, is killed or started (api.py:15-18).
LEMMA ServerPreserves ==
    ASSUME PoolInv, Terminate \/ Shutdown \/ Exit \/ Kill \/ Start
    PROVE  PoolInv'
<1>1. CASE Terminate
  <2>1. PoolTypeOK'
    BY <1>1, SMTT(30) DEF Terminate, PoolTypeOK, Thread, WorkerPc, ReaperPc, Reaper,
        Carries
  <2>2. ThreadInv'
    BY <1>1, SMTT(30) DEF Terminate, PoolTypeOK, HolderInside, ModesApart,
        LinkIsArmed, DownIsQuiet
  <2>3. GuestInv'
    BY <1>1, SMTT(30) DEF Terminate, PoolTypeOK, GuestsInWarm, GuestIsHolders,
        OneGuest, OwnOutput
  <2>4. WarmInv'
    BY <1>1, SMTT(30) DEF Terminate, PoolTypeOK, RunIsAfterRemove, WarmIsTimed,
        StopsClean
  <2>. QED BY <2>1, <2>2, <2>3, <2>4 DEF PoolInv
<1>2. CASE Shutdown
  <2>1. PoolTypeOK'
    BY <1>2, SMTT(30) DEF Shutdown, PoolTypeOK, Thread, WorkerPc, ReaperPc, Reaper,
        Carries
  <2>2. ThreadInv'
    BY <1>2, SMTT(30) DEF Shutdown, PoolTypeOK, HolderInside, ModesApart, LinkIsArmed,
        DownIsQuiet
  <2>3. GuestInv'
    BY <1>2, SMTT(30) DEF Shutdown, PoolTypeOK, GuestsInWarm, GuestIsHolders,
        OneGuest, OwnOutput
  <2>4. WarmInv'
    BY <1>2, SMTT(30) DEF Shutdown, PoolTypeOK, RunIsAfterRemove, WarmIsTimed,
        StopsClean
  <2>. QED BY <2>1, <2>2, <2>3, <2>4 DEF PoolInv
<1>3. CASE Exit
  <2>1. PoolTypeOK'
    BY <1>3, SMTT(30) DEF Exit, RemoveWarm, Fault, ThreadsEnd, PoolTypeOK, Thread,
        WorkerPc, ReaperPc, Reaper, Carries
  <2>2. ThreadInv'
    BY <1>3, SMTT(30) DEF Exit, RemoveWarm, Fault, ThreadsEnd, PoolTypeOK,
        HolderInside, ModesApart, LinkIsArmed, DownIsQuiet
  <2>3. GuestInv'
    BY <1>3, SMTT(30) DEF Exit, RemoveWarm, Fault, ThreadsEnd, PoolTypeOK,
        GuestsInWarm, GuestIsHolders, OneGuest, OwnOutput
  <2>4. WarmInv'
    BY <1>3, SMTT(30) DEF Exit, RemoveWarm, Fault, ThreadsEnd, PoolTypeOK,
        RunIsAfterRemove, WarmIsTimed, StopsClean
  <2>. QED BY <2>1, <2>2, <2>3, <2>4 DEF PoolInv
<1>4. CASE Kill
  <2>1. PoolTypeOK'
    BY <1>4, SMTT(30) DEF Kill, Orphaned, ThreadsEnd, PoolTypeOK, Thread, Guest,
        WorkerPc, ReaperPc, Reaper, Carries
  <2>2. ThreadInv'
    BY <1>4, SMTT(30) DEF Kill, Orphaned, ThreadsEnd, PoolTypeOK, HolderInside,
        ModesApart, LinkIsArmed, DownIsQuiet
  <2>3. GuestInv'
    BY <1>4, SMTT(30) DEF Kill, Orphaned, ThreadsEnd, PoolTypeOK, GuestsInWarm,
        GuestIsHolders, OneGuest, OwnOutput
  <2>4. WarmInv'
    BY <1>4, SMTT(30) DEF Kill, Orphaned, ThreadsEnd, PoolTypeOK, RunIsAfterRemove,
        WarmIsTimed, StopsClean
  <2>. QED BY <2>1, <2>2, <2>3, <2>4 DEF PoolInv
<1>5. CASE Start
  <2>1. PoolTypeOK'
    BY <1>5, SMTT(30) DEF Start, PoolTypeOK, Thread, WorkerPc, ReaperPc, Reaper,
        Carries
  <2>2. ThreadInv'
    BY <1>5, SMTT(30) DEF Start, PoolTypeOK, HolderInside, ModesApart, LinkIsArmed,
        DownIsQuiet
  <2>3. GuestInv'
    BY <1>5, SMTT(30) DEF Start, PoolTypeOK, GuestsInWarm, GuestIsHolders, OneGuest,
        OwnOutput
  <2>4. WarmInv'
    BY <1>5, SMTT(30) DEF Start, PoolTypeOK, RunIsAfterRemove, WarmIsTimed, StopsClean
  <2>. QED BY <2>1, <2>2, <2>3, <2>4 DEF PoolInv
<1>. QED BY <1>1, <1>2, <1>3, <1>4, <1>5

\* What happens in the container by itself.
LEMMA ContainerPreserves ==
    ASSUME PoolInv, GuestWrites \/ OrphanEnds \/ WarmDies
    PROVE  PoolInv'
<1>1. CASE GuestWrites
  <2>1. PoolTypeOK'
    <3>. ThreadsTyped
      BY DEF PoolTypeOK, ThreadsTyped
    <3>1. PICK g \in guests : /\ guests' = (guests \ {g}) \cup {[g EXCEPT !.wrote = TRUE]}
                              /\ scratch' = g.key
      BY <1>1 DEF GuestWrites
    <3>. g \in Guest /\ [g EXCEPT !.wrote = TRUE] \in Guest /\ g.key \in Key
      BY DEF PoolTypeOK, Guest
    <3>2. guests' \subseteq Guest /\ scratch' \in Key
      BY <3>1 DEF PoolTypeOK
    <3>. QED
      BY <1>1, <3>1, <3>2, SMTT(30) DEF GuestWrites, PoolTypeOK, ThreadsTyped
  <2>2. ThreadInv'
    BY <1>1, SMTT(30) DEF GuestWrites, PoolTypeOK, HolderInside, ModesApart,
        LinkIsArmed, DownIsQuiet
  <2>3. GuestInv'
    <3>1. PICK g \in guests : /\ guests' = (guests \ {g}) \cup {[g EXCEPT !.wrote = TRUE]}
                              /\ scratch' = g.key
      BY <1>1 DEF GuestWrites
    <3> DEFINE h == [g EXCEPT !.wrote = TRUE]
    <3>2. h.owner = g.owner /\ h.key = g.key
      BY DEF PoolTypeOK, Guest
    <3>3. Calm' => guests' = {h}
      BY <1>1, <3>1 DEF GuestWrites, OneGuest
    <3>4. GuestsInWarm'
      BY <1>1, <3>1 DEF GuestWrites, GuestsInWarm
    <3>5. GuestIsHolders'
      BY <1>1, <3>1, <3>2, <3>3 DEF GuestWrites, GuestIsHolders
    <3>6. OneGuest'
      BY <3>3 DEF OneGuest
    <3>7. OwnOutput'
      BY <1>1 DEF GuestWrites, OwnOutput
    <3>. QED BY <3>4, <3>5, <3>6, <3>7
  <2>4. WarmInv'
    BY <1>1, SMTT(30) DEF GuestWrites, PoolTypeOK, RunIsAfterRemove, WarmIsTimed,
        StopsClean
  <2>. QED BY <2>1, <2>2, <2>3, <2>4 DEF PoolInv
<1>2. CASE OrphanEnds
  <2>1. PoolTypeOK'
    BY <1>2, SMTT(30) DEF OrphanEnds, PoolTypeOK, Thread, WorkerPc, ReaperPc, Reaper,
        Carries
  <2>2. ThreadInv'
    BY <1>2, SMTT(30) DEF OrphanEnds, PoolTypeOK, HolderInside, ModesApart,
        LinkIsArmed, DownIsQuiet
  <2>3. GuestInv'
    BY <1>2, SMTT(30) DEF OrphanEnds, PoolTypeOK, GuestsInWarm, GuestIsHolders,
        OneGuest, OwnOutput
  <2>4. WarmInv'
    BY <1>2, SMTT(30) DEF OrphanEnds, PoolTypeOK, RunIsAfterRemove, WarmIsTimed,
        StopsClean
  <2>. QED BY <2>1, <2>2, <2>3, <2>4 DEF PoolInv
<1>3. CASE WarmDies
  <2>1. PoolTypeOK'
    BY <1>3, SMTT(30) DEF WarmDies, PoolTypeOK, Thread, WorkerPc, ReaperPc, Reaper,
        Carries
  <2>2. ThreadInv'
    BY <1>3, SMTT(30) DEF WarmDies, PoolTypeOK, HolderInside, ModesApart, LinkIsArmed,
        DownIsQuiet
  <2>3. GuestInv'
    BY <1>3, SMTT(30) DEF WarmDies, PoolTypeOK, GuestsInWarm, GuestIsHolders,
        OneGuest, OwnOutput
  <2>4. WarmInv'
    BY <1>3, SMTT(30) DEF WarmDies, PoolTypeOK, RunIsAfterRemove, WarmIsTimed,
        StopsClean
  <2>. QED BY <2>1, <2>2, <2>3, <2>4 DEF PoolInv
<1>. QED BY <1>1, <1>2, <1>3

-----------------------------------------------------------------------------
(* The invariant and what follows from it.                                 *)

\* The pool of a server that has just started is empty.
LEMMA InitEstablishes == PoolInit => PoolInv
<1>. SUFFICES ASSUME PoolInit PROVE PoolInv
  OBVIOUS
<1>1. PoolTypeOK
  BY DEF PoolInit, PoolTypeOK, Thread, WorkerPc, Reaper, ReaperPc, Carries
<1>2. ThreadInv
  BY DEF PoolInit, HolderInside, ModesApart, LinkIsArmed, DownIsQuiet
<1>3. GuestInv
  BY DEF PoolInit, GuestsInWarm, GuestIsHolders, OneGuest, OwnOutput, Output
<1>4. WarmInv
  BY DEF PoolInit, RunIsAfterRemove, WarmIsTimed, StopsClean
<1>. QED BY <1>1, <1>2, <1>3, <1>4

\* Nothing that is said of the pool is about anything but its variables.
LEMMA StutterPreserves == ASSUME PoolInv, UNCHANGED poolVars PROVE PoolInv'
<1>1. PoolTypeOK'
  BY DEF poolVars, PoolTypeOK
<1>2. ThreadInv'
  BY DEF poolVars, HolderInside, ModesApart, LinkIsArmed, DownIsQuiet
<1>3. GuestInv'
  BY DEF poolVars, GuestsInWarm, GuestIsHolders, OneGuest, OwnOutput
<1>4. WarmInv'
  BY DEF poolVars, RunIsAfterRemove, WarmIsTimed, StopsClean
<1>. QED BY <1>1, <1>2, <1>3, <1>4

\* Every step preserves it.
LEMMA NextPreserves == PoolInv /\ [PoolNext]_poolVars => PoolInv'
<1>. SUFFICES ASSUME PoolInv, [PoolNext]_poolVars PROVE PoolInv'
  OBVIOUS
<1>. HIDE DEF PoolInv, ThreadInv, GuestInv, WarmInv
<1>1. CASE PoolStep
  <2>1. ASSUME NEW w \in Worker, WaitForLock(w) \/ Serve(w) PROVE PoolInv'
    BY <2>1, LockPreserves, ServePreserves
  <2>2. ASSUME NEW t \in Timer, Fires(t) \/ Reap(t) PROVE PoolInv'
    <3>1. t \in Reaper
      BY DEF Reaper
    <3>. QED BY <2>2, <3>1, ReaperPreserves, TimerPreserves DEF Reap
  <2>3. CASE GuestWrites \/ OrphanEnds \/ WarmDies
    BY <2>3, ContainerPreserves
  <2>. QED BY <1>1, <2>1, <2>2, <2>3 DEF PoolStep
<1>2. ASSUME NEW w \in Worker,
             (server = "up" /\ \E k \in Key : Enter(w, k)) \/ Leave(w)
      PROVE  PoolInv'
  BY <1>2, EnterPreserves, LeavePreserves
<1>3. CASE MainStep
  <2>1. Main \in Reaper
    BY DEF Reaper
  <2>. QED BY <1>3, <2>1, ReaperPreserves, ServerPreserves DEF MainStep
<1>4. CASE Terminate \/ Kill \/ Start
  BY <1>4, ServerPreserves
<1>5. CASE UNCHANGED poolVars
  BY <1>5, StutterPreserves
<1>. QED BY <1>1, <1>2, <1>3, <1>4, <1>5 DEF PoolNext

\* The inductive invariant: everything below rests on it.
THEOREM PoolInductive == PoolSpec => []PoolInv
BY InitEstablishes, NextPreserves, PTL DEF PoolSpec

\* Type correctness of the threads, the timers and the container.
THEOREM PoolTypeCorrect == PoolSpec => []PoolTypeOK
<1>1. PoolInv => PoolTypeOK
  OBVIOUS
<1>. QED BY <1>1, PoolInductive, PTL

\* One tracer at a time: the scratch files are never shared
\* (tracer_service.py:26-28, 93-94).
THEOREM OneTracerAtATime == PoolSpec => []OneGuest
<1>1. PoolInv => OneGuest
  OBVIOUS
<1>. QED BY <1>1, PoolInductive, PTL

\* A request gets the trace of its own source or none.
THEOREM OutputIsOwn == PoolSpec => []OwnOutput
<1>1. PoolInv => OwnOutput
  OBVIOUS
<1>. QED BY <1>1, PoolInductive, PTL

\* A warm container that nobody uses has a reaper on its way to it
\* (tracer_service.py:30-32).
THEOREM ContainerIsTimed == PoolSpec => []WarmIsTimed
<1>1. PoolInv => WarmIsTimed
  OBVIOUS
<1>. QED BY <1>1, PoolInductive, PTL

\* A server that was asked to stop leaves no container behind (api.py:15-18).
THEOREM ShutdownIsClean == PoolSpec => []StopsClean
<1>1. PoolInv => StopsClean
  OBVIOUS
<1>. QED BY <1>1, PoolInductive, PTL

\* The container is never taken away under an exec whose tracer is alive
\* (tracer_service.py:76).
LEMMA LiveStep ==
    ASSUME PoolInv, [PoolNext]_poolVars, NEW w \in Worker, At(w, "running"),
           GuestsOf(w) # {}, warm' = "absent"
    PROVE  worker'[w].pc # "running"
<1>1. lock = w
  BY DEF HolderInside
<1>2. mode = "docker" /\ warm = "up"
  <2>1. guests # {}
    BY DEF GuestsOf
  <2>2. mode \in {"docker", "local"} /\ w \in Worker /\ worker[w].pc = "running"
    BY DEF PoolTypeOK
  <2>3. mode = "docker"
    BY <2>2 DEF ModesApart
  <2>. QED BY <2>1, <2>3 DEF GuestsInWarm
<1>3. warm' # warm /\ lock # Nobody /\ \A v \in Worker : worker[v].pc \in HoldPc => v = w
  BY <1>1, <1>2 DEF HolderInside
<1>. SUFFICES ASSUME PoolNext PROVE FALSE
  BY <1>3 DEF poolVars
<1>4. ASSUME NEW v \in Worker, StartWarmRemove(v) \/ Purge(v) PROVE FALSE
  BY <1>3, <1>4 DEF StartWarmRemove, Purge
<1>5. ASSUME NEW v \in Worker, StartWarmRun(v) PROVE FALSE
  BY <1>2, <1>3, <1>5 DEF StartWarmRun
<1>6. ASSUME NEW v \in Worker,
             \/ Inspect(v) \/ ExecStarts(v) \/ ExecEnds(v) \/ ExecBreaks(v) \/ ExecTimesOut(v)
             \/ Recheck(v) \/ ColdRun(v) \/ CancelOld(v) \/ ArmNew(v) \/ LinkNew(v)
             \/ LocalEnds(v) \/ LocalTimesOut(v) \/ WaitForLock(v)
             \/ Leave(v) \/ \E k \in Key : Enter(v, k)
      PROVE  FALSE
  BY <1>3, <1>6
     DEF Inspect, ExecStarts, ExecEnds, ExecBreaks, ExecTimesOut, Recheck, ColdRun,
         CancelOld, ArmNew, LinkNew, LocalEnds, LocalTimesOut, WaitForLock, Acquire,
         LocalStarts, Leave, Enter
<1>7. ASSUME NEW t \in Timer, ReapRemove(t) PROVE FALSE
  BY <1>3, <1>7 DEF ReapRemove
<1>8. ASSUME NEW a \in Reaper, ReapCheck(a) \/ ReapClear(a) \/ Fires(a) PROVE FALSE
  BY <1>3, <1>8 DEF ReapCheck, ReapClear, Fires
<1>9. CASE Shutdown \/ Exit \/ Terminate \/ Kill \/ Start
  BY <1>3, <1>9 DEF Shutdown, Exit, Terminate, Kill, Start
<1>10. CASE GuestWrites \/ OrphanEnds \/ WarmDies
  BY <1>3, <1>10 DEF GuestWrites, OrphanEnds, WarmDies
<1>. QED
  BY <1>4, <1>5, <1>6, <1>7, <1>8, <1>9, <1>10
     DEF PoolNext, PoolStep, Serve, Reap, MainStep, Reaper

\* shutdown_pool() and a new warm container keep away from a live exec.
THEOREM ExecNeverYanked == PoolSpec => NeverYanked
<1>1. PoolInv /\ [PoolNext]_poolVars =>
        [\A w \in Worker :
           At(w, "running") /\ GuestsOf(w) # {} /\ warm' = "absent"
           => worker'[w].pc # "running"]_poolVars
  BY LiveStep
<1>. QED BY <1>1, PoolInductive, PTL DEF PoolSpec, NeverYanked

-----------------------------------------------------------------------------
(* From here on the cache and the pool together.                           *)

USE DEF Output, At, Goto, LeaveBlock, Quiet, KeepReap, KeepServer, KeepPool, KeepCache,
        threadVars, warmVars

-----------------------------------------------------------------------------
(* What the steps of the pool mean to the requests.                        *)

\* The threads of the pool stay inside or outside run_trace(), with the source
\* they were given.
ThreadsStay ==
    \A w \in Worker : /\ worker'[w].pc = "off" <=> worker[w].pc = "off"
                      /\ worker'[w].key = worker[w].key

\* What no step of the pool does but Enter, Leave and the end of the server.
Undisturbed ==
    /\ ThreadsStay
    /\ Calm' => Calm

\* The main thread is left where it is, and so is the server.
MainStays == server' = server /\ (reaper'[Main] # "off" => reaper[Main] # "off")

\* Docker fails once more or not.
LEMMA CalmOnlyEnds ==
    ASSUME PoolTypeOK, kills' = kills \/ kills' = kills + 1,
           faults' = faults \/ faults' = faults + 1
    PROVE  Calm' => Calm
BY DEF PoolTypeOK, Calm

LEMMA ServeStays ==
    ASSUME PoolTypeOK, NEW w \in Worker, WaitForLock(w) \/ Serve(w)
    PROVE  Undisturbed /\ MainStays
<1>. USE ActorAssumption DEF Undisturbed, MainStays, ThreadsStay, Thread
<1>. worker \in [Worker -> Thread] /\ reaper \in [Reaper -> ReaperPc]
  BY DEF PoolTypeOK
<1>1. CASE Acquire(w)
  BY <1>1, CalmOnlyEnds DEF Acquire
<1>2. CASE LocalStarts(w)
  BY <1>2, CalmOnlyEnds DEF LocalStarts
<1>3. CASE Inspect(w)
  <2>1. CASE SeesRunning /\ Goto(w, "exec")
    BY <1>3, <2>1, CalmOnlyEnds DEF Inspect, SeesRunning, SeesNothing, Fault
  <2>2. CASE SeesNothing /\ Goto(w, "rm")
    BY <1>3, <2>2, CalmOnlyEnds DEF Inspect, SeesRunning, SeesNothing, Fault
  <2>. QED BY <1>3, <2>1, <2>2 DEF Inspect
<1>4. CASE StartWarmRemove(w)
  BY <1>4, CalmOnlyEnds DEF StartWarmRemove, RemoveWarm, Fault
<1>5. CASE StartWarmRun(w)
  <2>1. CASE Goto(w, "exec")
    BY <1>5, <2>1, CalmOnlyEnds DEF StartWarmRun
  <2>2. CASE LeaveBlock(w, "cold", Nobody)
    BY <1>5, <2>2, CalmOnlyEnds DEF StartWarmRun
  <2>. QED BY <1>5, <2>1, <2>2 DEF StartWarmRun
<1>6. CASE ExecStarts(w)
  <2>1. CASE warm = "up"
    BY <1>6, <2>1, CalmOnlyEnds DEF ExecStarts
  <2>2. CASE warm # "up"
    BY <1>6, <2>2, CalmOnlyEnds DEF ExecStarts
  <2>. QED BY <1>6, <2>1, <2>2 DEF ExecStarts
<1>7. CASE ExecEnds(w)
  BY <1>7, CalmOnlyEnds DEF ExecEnds
<1>8. CASE ExecBreaks(w)
  BY <1>8, CalmOnlyEnds DEF ExecBreaks
<1>9. CASE ExecTimesOut(w)
  BY <1>9, CalmOnlyEnds DEF ExecTimesOut
<1>10. CASE Purge(w)
  BY <1>10, CalmOnlyEnds DEF Purge, RemoveWarm, Fault
<1>11. CASE Recheck(w)
  <2>1. CASE SeesRunning /\ Goto(w, "cancel")
    BY <1>11, <2>1, CalmOnlyEnds DEF Recheck, SeesRunning, SeesNothing, Fault
  <2>2. CASE SeesNothing /\ LeaveBlock(w, "cold", Nobody)
    BY <1>11, <2>2, CalmOnlyEnds DEF Recheck, SeesRunning, SeesNothing, Fault
  <2>. QED BY <1>11, <2>1, <2>2 DEF Recheck
<1>12. CASE ColdRun(w)
  BY <1>12, CalmOnlyEnds DEF ColdRun
<1>13. CASE CancelOld(w)
  BY <1>13, CalmOnlyEnds DEF CancelOld, Cancelled, Reaper
<1>14. CASE ArmNew(w)
  BY <1>14, CalmOnlyEnds DEF ArmNew
<1>15. CASE LinkNew(w)
  BY <1>15, CalmOnlyEnds DEF LinkNew
<1>16. CASE LocalEnds(w)
  BY <1>16, CalmOnlyEnds DEF LocalEnds
<1>17. CASE LocalTimesOut(w)
  BY <1>17, CalmOnlyEnds DEF LocalTimesOut
<1>. QED
  BY <1>1, <1>2, <1>3, <1>4, <1>5, <1>6, <1>7, <1>8, <1>9, <1>10, <1>11, <1>12, <1>13, <1>14, <1>15, <1>16, <1>17
     DEF WaitForLock, Serve

\* A timer stops nobody.
LEMMA ReapStays ==
    ASSUME PoolTypeOK, NEW t \in Timer, Fires(t) \/ Reap(t)
    PROVE  Undisturbed /\ MainStays
<1>. USE ActorAssumption DEF Undisturbed, MainStays, ThreadsStay
<1>. t \in Reaper /\ t # Main /\ reaper \in [Reaper -> ReaperPc]
  BY DEF PoolTypeOK, Reaper
<1>1. CASE Fires(t)
  BY <1>1, CalmOnlyEnds DEF Fires
<1>2. CASE ReapCheck(t)
  BY <1>2, CalmOnlyEnds DEF ReapCheck, Cancelled, Reaper
<1>3. CASE ReapClear(t)
  BY <1>3, CalmOnlyEnds DEF ReapClear
<1>4. CASE ReapRemove(t)
  BY <1>4, CalmOnlyEnds DEF ReapRemove, RemoveWarm, Fault
<1>. QED BY <1>1, <1>2, <1>3, <1>4 DEF Reap

\* run_trace() is not called and does not return.
LEMMA PoolStepStays ==
    ASSUME PoolTypeOK, PoolStep
    PROVE  Undisturbed /\ MainStays
<1>1. CASE GuestWrites \/ OrphanEnds \/ WarmDies
  BY <1>1, CalmOnlyEnds
     DEF GuestWrites, OrphanEnds, WarmDies, Undisturbed, MainStays, ThreadsStay
<1>. QED BY <1>1, ServeStays, ReapStays DEF PoolStep

\* The server stops and starts around its threads.
LEMMA ServerStays ==
    ASSUME PoolTypeOK,
           Terminate \/ Start \/ Shutdown \/ ReapCheck(Main) \/ ReapClear(Main)
    PROVE  Undisturbed
BY CalmOnlyEnds
   DEF Terminate, Start, Shutdown, ReapCheck, ReapClear, Undisturbed, ThreadsStay

-----------------------------------------------------------------------------
(* One step of each kind.                                                  *)

\* What the invariants of the parts say of types.
LEMMA PartsTyped ==
    ASSUME BackendInv
    PROVE  /\ PoolTypeOK /\ CacheTypeOK /\ CallsInHand
           /\ \A w \in Worker :
                /\ call[w] \in Request
                /\ call[w].stage # "idle" => call[w].key \in Key
                /\ worker[w].pc = "done" => worker[w].out \in Output
<1>1. PoolTypeOK /\ CacheTypeOK /\ CallsInHand
  BY DEF BackendInv, PoolInv, CacheInv
<1>. QED
  BY <1>1 DEF PoolTypeOK, Carries, CacheTypeOK, CallsInHand, InHand, Request

\* While a request is in progress, the server neither rests nor shuts down.
LEMMA BusyIsUp ==
    ASSUME BackendInv, NEW w \in Worker, call[w].stage # "idle"
    PROVE  server # "down" /\ reaper[Main] = "off"
BY DEF BackendInv, RestsWhenStopped, Drained

\* What becomes of the requests when the pool is left alone.
LEMMA PoolKept ==
    ASSUME PoolInv, KeepPool
    PROVE  PoolInv' /\ Calm' = Calm
BY StutterPreserves DEF poolVars, Calm

\* A request arrives.
LEMMA ArrivalPreserves ==
    ASSUME BackendInv, server = "up", KeepPool, NEW w \in Worker, NEW k \in Key,
           Receive(w, k)
    PROVE  BackendInv'
<1> DEFINE q == [stage |-> "lookup", key |-> k, out |-> Nobody]
<1>1. PoolInv' /\ Calm' = Calm
  BY PoolKept DEF BackendInv
<1>2. CacheInv'
  BY ReceivePreserves DEF BackendInv
<1>3. /\ call \in [Worker -> Request] /\ call' = [call EXCEPT ![w] = q]
      /\ call[w].stage = "idle" /\ cache' = cache
  BY PartsTyped DEF Receive, CacheTypeOK
<1>4. q.stage = "lookup" /\ q.out = Nobody /\ Nobody \notin Key
  BY RequestAssumption DEF Output
<1>. HIDE DEF q
<1>5. CallIsTraced'
  BY <1>3, <1>4 DEF BackendInv, CallIsTraced, poolVars
<1>6. RestsWhenStopped'
  <2>1. server' = "up" /\ reaper'[Main] = "off"
    BY DEF BackendInv, RestsWhenStopped, poolVars
  <2>. QED BY <2>1 DEF RestsWhenStopped
<1>7. CacheIsRight' /\ CarriesOwn'
  BY <1>1, <1>3, <1>4 DEF BackendInv, CacheIsRight, CarriesOwn
<1>. QED BY <1>1, <1>2, <1>5, <1>6, <1>7 DEF BackendInv

\* A thread that goes on with its request, inside run_trace() or outside it.
LEMMA SameRequest ==
    ASSUME BackendInv, NEW w \in Worker, call[w].stage # "idle", KeepPool,
           NEW q \in Request, q.key = call[w].key, q.stage # "idle",
           q.stage = "tracing" <=> call[w].stage = "tracing",
           call' = [call EXCEPT ![w] = q],
           Calm /\ q.out \in Key => q.out = call[w].key
    PROVE  CallIsTraced' /\ RestsWhenStopped' /\ CarriesOwn'
<1>1. call \in [Worker -> Request] /\ Calm' = Calm
  BY PartsTyped DEF CacheTypeOK, poolVars, Calm
<1>2. CallIsTraced'
  BY <1>1 DEF BackendInv, CallIsTraced, poolVars
<1>3. RestsWhenStopped'
  <2>1. server' # "down" /\ reaper'[Main] = "off"
    BY BusyIsUp DEF poolVars
  <2>. QED BY <2>1 DEF RestsWhenStopped
<1>4. CarriesOwn'
  BY <1>1 DEF BackendInv, CarriesOwn
<1>. QED BY <1>2, <1>3, <1>4

\* A request is answered from the cache.
LEMMA FoundPreserves ==
    ASSUME BackendInv, KeepPool, NEW w \in Worker, Hit(w)
    PROVE  BackendInv'
<1>1. PoolInv' /\ Calm' = Calm
  BY PoolKept DEF BackendInv
<1>2. CacheInv'
  BY HitPreserves DEF BackendInv
<1>3. PICK i \in DOMAIN cache :
        /\ cache[i].key = call[w].key
        /\ cache' = Append(Without(call[w].key), cache[i])
        /\ call' = [call EXCEPT ![w].stage = "reply", ![w].out = cache[i].value]
  BY DEF Hit, CachedAt
<1> DEFINE q == [call[w] EXCEPT !.stage = "reply", !.out = cache[i].value]
           c == Without(call[w].key)
<1>4. /\ call[w] \in Request /\ call[w].stage = "lookup" /\ call[w].key \in Key
      /\ cache \in Seq(Entry) /\ CacheTypeOK /\ HoldsMostRecent
  BY PartsTyped DEF Hit, CacheTypeOK, BackendInv, CacheInv
<1>5. cache[i] \in Entry /\ (Calm => cache[i].value = cache[i].key)
  BY <1>4, ElementOfSeq DEF BackendInv, CacheIsRight
<1>6. CallIsTraced' /\ RestsWhenStopped' /\ CarriesOwn'
  <2>1. /\ q \in Request /\ q.key = call[w].key /\ q.stage = "reply"
        /\ q.out = cache[i].value
    BY <1>4, <1>5 DEF Request, Stage, Entry, Output
  <2>2. call' = [call EXCEPT ![w] = q]
    BY <1>3
  <2>. HIDE DEF q, c
  <2>3. Calm => q.out = q.key
    BY <1>3, <1>5, <2>1
  <2>4. /\ call[w].stage # "idle" /\ q.stage # "idle"
        /\ q.stage = "tracing" <=> call[w].stage = "tracing"
        /\ Calm /\ q.out \in Key => q.out = call[w].key
    BY <1>4, <2>1, <2>3
  <2>5. q \in Request /\ q.key = call[w].key
    BY <2>1
  <2>. QED BY <2>2, <2>4, <2>5, SameRequest
<1>7. CacheIsRight'
  <2>1. c \in Seq(Entry) /\ \A j \in 1..Len(c) : \E m \in 1..Len(cache) : c[j] = cache[m]
    BY <1>4, WithoutKeeps
  <2>2. cache' = Append(c, cache[i])
    BY <1>3
  <2>. HIDE DEF c
  <2>3. /\ Len(cache') = Len(c) + 1 /\ DOMAIN cache' = 1..Len(cache')
        /\ cache'[Len(c) + 1] = cache[i]
        /\ \A j \in 1..Len(c) : cache'[j] = c[j]
    BY <1>5, <2>1, <2>2, AppendProperties
  <2>4. ASSUME Calm, NEW j \in DOMAIN cache' PROVE cache'[j].value = cache'[j].key
    <3>1. j = Len(c) + 1 \/ j \in 1..Len(c)
      BY <2>1, <2>3
    <3>2. \A m \in 1..Len(cache) : cache[m].value = cache[m].key
      BY <1>4, <2>4 DEF BackendInv, CacheIsRight
    <3>. QED BY <1>5, <2>1, <2>3, <2>4, <3>1, <3>2
  <2>. QED BY <1>1, <2>4 DEF CacheIsRight
<1>. QED BY <1>1, <1>2, <1>6, <1>7 DEF BackendInv

\* A trace is stored.
LEMMA StoredPreserves ==
    ASSUME BackendInv, KeepPool, NEW w \in Worker, Store(w)
    PROVE  BackendInv'
<1>1. PoolInv' /\ Calm' = Calm
  BY PoolKept DEF BackendInv
<1>2. CacheInv'
  BY StorePreserves DEF BackendInv
<1> DEFINE q == [call[w] EXCEPT !.stage = "reply"]
           c == Without(call[w].key)
           e == [key |-> call[w].key, value |-> call[w].out]
<1>3. /\ call[w] \in Request /\ call[w].stage = "store" /\ call[w].key \in Key
      /\ call[w].out \in Key
      /\ cache \in Seq(Entry) /\ CacheTypeOK /\ HoldsMostRecent
  BY PartsTyped DEF Store, CacheTypeOK, BackendInv, CacheInv, CallsInHand, InHand
<1>4. e \in Entry /\ e.key = call[w].key /\ e.value = call[w].out
  BY <1>3 DEF Entry
<1>5. Calm => e.value = e.key
  BY <1>3, <1>4 DEF BackendInv, CarriesOwn
<1>6. CallIsTraced' /\ RestsWhenStopped' /\ CarriesOwn'
  <2>1. /\ q \in Request /\ q.key = call[w].key /\ q.stage = "reply"
        /\ q.out = call[w].out
    BY <1>3 DEF Request, Stage
  <2>2. call' = [call EXCEPT ![w] = q]
    BY DEF Store
  <2>. HIDE DEF q
  <2>. QED BY <1>3, <1>4, <1>5, <2>1, <2>2, SameRequest
<1>7. CacheIsRight'
  <2>1. c \in Seq(Entry) /\ \A j \in 1..Len(c) : \E m \in 1..Len(cache) : c[j] = cache[m]
    BY <1>3, WithoutKeeps
  <2> DEFINE d == Append(c, e)
  <2>2. cache' = Evicted(d)
    BY DEF Store
  <2>. HIDE DEF c, e
  <2>3. /\ d \in Seq(Entry) /\ Len(d) = Len(c) + 1 /\ Len(c) \in Nat
        /\ d[Len(c) + 1] = e
        /\ \A j \in 1..Len(c) : d[j] = c[j]
    BY <1>4, <2>1, AppendProperties
  <2>4. ASSUME Calm, NEW j \in 1..Len(d) PROVE d[j].value = d[j].key
    <3>1. j = Len(c) + 1 \/ j \in 1..Len(c)
      BY <2>3
    <3>2. \A m \in 1..Len(cache) : cache[m].value = cache[m].key
      BY <1>3, <2>4 DEF BackendInv, CacheIsRight
    <3>. QED BY <1>5, <2>1, <2>3, <2>4, <3>1, <3>2
  <2>. HIDE DEF d
  <2>5. /\ Evicted(d) \in Seq(Entry) /\ Len(d) \in Nat /\ Len(Evicted(d)) \in Nat
        /\ Len(Evicted(d)) <= Len(d)
        /\ \A j \in 1..Len(Evicted(d)) : Evicted(d)[j] = d[Len(d) - Len(Evicted(d)) + j]
    <3>1. /\ Evicted(d) \in Seq(Entry)
          /\ Len(Evicted(d)) = IF Len(d) <= MaxEntries THEN Len(d) ELSE MaxEntries
          /\ \A j \in 1..Len(Evicted(d)) :
               Evicted(d)[j] = d[Len(d) - Len(Evicted(d)) + j]
      BY <2>3, EvictedProperties
    <3>2. Len(d) \in Nat /\ MaxEntries \in Nat
      BY <2>3, MaxEntriesAssumption
    <3>3. Len(Evicted(d)) \in Nat /\ Len(Evicted(d)) <= Len(d)
      BY <3>1, <3>2
    <3>. QED BY <3>1, <3>2, <3>3
  <2>6. ASSUME Calm, NEW j \in DOMAIN cache' PROVE cache'[j].value = cache'[j].key
    <3>1. j \in 1..Len(Evicted(d)) /\ Len(d) - Len(Evicted(d)) + j \in 1..Len(d)
      BY <2>2, <2>5
    <3>. QED BY <2>2, <2>4, <2>5, <2>6, <3>1
  <2>. QED BY <1>1, <2>6 DEF CacheIsRight
<1>. QED BY <1>1, <1>2, <1>6, <1>7 DEF BackendInv

\* A request that is over makes room for the next.
LEMMA RepliedPreserves ==
    ASSUME BackendInv, KeepPool, NEW w \in Worker, Reply(w)
    PROVE  BackendInv'
<1>1. PoolInv' /\ Calm' = Calm
  BY PoolKept DEF BackendInv
<1>2. CacheInv'
  BY ReplyPreserves DEF BackendInv
<1>3. /\ call \in [Worker -> Request] /\ call[w].stage = "reply" /\ cache' = cache
      /\ call' = [call EXCEPT ![w] = NoRequest]
      /\ NoRequest.stage = "idle" /\ NoRequest.out = Nobody /\ Nobody \notin Key
  BY PartsTyped, RequestAssumption DEF Reply, CacheTypeOK, NoRequest, Output
<1>4. CallIsTraced'
  BY <1>3 DEF BackendInv, CallIsTraced, poolVars
<1>5. RestsWhenStopped'
  <2>1. server' # "down" /\ reaper'[Main] = "off"
    BY <1>3, BusyIsUp DEF poolVars
  <2>. QED BY <2>1 DEF RestsWhenStopped
<1>6. CacheIsRight' /\ CarriesOwn'
  BY <1>1, <1>3 DEF BackendInv, CacheIsRight, CarriesOwn
<1>. QED BY <1>1, <1>2, <1>4, <1>5, <1>6 DEF BackendInv

\* A request that the cache cannot answer goes to the tracer.
LEMMA AskedPreserves ==
    ASSUME BackendInv, NEW w \in Worker, AskTracer(w)
    PROVE  BackendInv'
<1>1. /\ call \in [Worker -> Request] /\ worker \in [Worker -> Thread]
      /\ call[w].stage = "lookup" /\ call[w].key \in Key /\ cache' = cache
      /\ call' = [call EXCEPT ![w].stage = "tracing"]
  BY PartsTyped DEF AskTracer, Miss, CacheTypeOK, PoolTypeOK
<1>2. server # "down" /\ reaper[Main] = "off"
  BY <1>1, BusyIsUp
<1>3. PoolInv' /\ CacheInv'
  BY <1>1, <1>2, EnterPreserves, MissPreserves DEF AskTracer, BackendInv
<1>4. Calm' = Calm
  BY DEF AskTracer, Enter, Calm
<1>5. CallIsTraced'
  <2> DEFINE r == [Off EXCEPT !.pc = IF mode = "local" THEN "localLock" ELSE "lock",
                              !.key = call[w].key]
  <2>1. worker' = [worker EXCEPT ![w] = r] /\ r.pc # "off" /\ r.key = call[w].key
    BY DEF AskTracer, Enter, Off
  <2>2. /\ call'[w].stage = "tracing" /\ call'[w].key = call[w].key
        /\ \A v \in Worker \ {w} : call'[v] = call[v]
    BY <1>1 DEF Request
  <2>. HIDE DEF r
  <2>3. worker'[w] = r /\ \A v \in Worker \ {w} : worker'[v] = worker[v]
    BY <1>1, <2>1
  <2>. QED BY <2>1, <2>2, <2>3 DEF BackendInv, CallIsTraced
<1>6. RestsWhenStopped'
  BY <1>2 DEF RestsWhenStopped, AskTracer, Enter
<1>7. CacheIsRight' /\ CarriesOwn'
  BY <1>1, <1>4 DEF BackendInv, CacheIsRight, CarriesOwn, Request
<1>. QED BY <1>3, <1>5, <1>6, <1>7 DEF BackendInv

\* The tracer's answer: a trace of the source of the request, or a failure.
LEMMA AnsweredPreserves ==
    ASSUME BackendInv, NEW w \in Worker, TracerAnswers(w)
    PROVE  BackendInv'
<1> DEFINE o == worker[w].out
           l == IF o \in Failure THEN "reply" ELSE "store"
<1>1. /\ call \in [Worker -> Request] /\ worker \in [Worker -> Thread]
      /\ call[w].stage = "tracing" /\ o \in Output /\ cache' = cache
      /\ call' = [call EXCEPT ![w].stage = l, ![w].out = o]
      /\ worker' = [worker EXCEPT ![w] = Off]
  BY PartsTyped DEF TracerAnswers, Traced, Leave, CacheTypeOK, PoolTypeOK
<1>2. server # "down" /\ reaper[Main] = "off"
  BY <1>1, BusyIsUp
<1>3. PoolInv' /\ CacheInv'
  BY <1>1, LeavePreserves, TracedPreserves DEF TracerAnswers, BackendInv
<1>4. Calm' = Calm
  BY DEF TracerAnswers, Leave, Calm
<1>5. Calm /\ o \in Key => o = call[w].key
  BY <1>1 DEF BackendInv, PoolInv, GuestInv, OwnOutput, CallIsTraced
<1>6. /\ call'[w].stage = l /\ call'[w].key = call[w].key /\ call'[w].out = o
      /\ \A v \in Worker \ {w} : call'[v] = call[v]
  BY <1>1 DEF Request
<1>7. l \in {"reply", "store"} /\ Off.pc = "off"
  BY DEF Off
<1>. HIDE DEF o, l
<1>8. CallIsTraced'
  <2>1. worker'[w].pc = "off" /\ \A v \in Worker \ {w} : worker'[v] = worker[v]
    BY <1>1, <1>7
  <2>. QED BY <1>6, <1>7, <2>1 DEF BackendInv, CallIsTraced
<1>9. RestsWhenStopped'
  BY <1>2 DEF RestsWhenStopped, TracerAnswers, Leave
<1>10. CacheIsRight' /\ CarriesOwn'
  BY <1>1, <1>4, <1>5, <1>6 DEF BackendInv, CacheIsRight, CarriesOwn
<1>. QED BY <1>3, <1>8, <1>9, <1>10 DEF BackendInv

\* The cache is emptied under the requests in progress.
LEMMA ClearedPreserves ==
    ASSUME BackendInv, KeepPool, Clear
    PROVE  BackendInv'
<1>1. PoolInv' /\ Calm' = Calm
  BY PoolKept DEF BackendInv
<1>2. CacheInv'
  BY CachePreserves DEF BackendInv, CacheNext
<1>3. CallIsTraced' /\ RestsWhenStopped'
  BY DEF BackendInv, CallIsTraced, RestsWhenStopped, Drained, Clear, poolVars
<1>4. CacheIsRight' /\ CarriesOwn'
  BY <1>1, EmptySeq DEF BackendInv, CacheIsRight, CarriesOwn, Clear
<1>. QED BY <1>1, <1>2, <1>3, <1>4 DEF BackendInv

\* What holds of requests and cache is kept by every step of the pool in which
\* no call begins or ends.
LEMMA CacheKept ==
    ASSUME BackendInv, KeepCache, Undisturbed
    PROVE  CacheInv' /\ CallIsTraced' /\ CacheIsRight' /\ CarriesOwn'
<1>1. CacheInv'
  BY CachePreserves DEF BackendInv
<1>2. CallIsTraced'
  BY DEF BackendInv, CallIsTraced, Undisturbed, ThreadsStay, cacheVars
<1>3. CacheIsRight' /\ CarriesOwn'
  BY DEF BackendInv, CacheIsRight, CarriesOwn, Undisturbed, cacheVars
<1>. QED BY <1>1, <1>2, <1>3

\* The threads of the requests and of the timers, and the container.
LEMMA PoolStepPreserves ==
    ASSUME BackendInv, KeepCache, PoolStep
    PROVE  BackendInv'
<1>1. PoolInv'
  BY NextPreserves DEF BackendInv, PoolNext
<1>2. Undisturbed /\ MainStays
  BY PoolStepStays, PartsTyped
<1>3. RestsWhenStopped'
  BY <1>2 DEF BackendInv, RestsWhenStopped, MainStays, Drained, cacheVars
<1>. QED BY <1>1, <1>2, <1>3, CacheKept DEF BackendInv

\* The server is told to stop, shuts down and starts.
LEMMA ServerStepPreserves ==
    ASSUME BackendInv, KeepCache,
           \/ Terminate \/ Start
           \/ Drained /\ Shutdown
           \/ ReapCheck(Main) \/ ReapClear(Main)
    PROVE  BackendInv'
<1>1. PoolInv'
  BY NextPreserves DEF BackendInv, PoolNext, MainStep
<1>2. Undisturbed
  BY ServerStays, PartsTyped
<1>3. RestsWhenStopped'
  <2>1. Drained' <=> Drained
    BY DEF Drained, cacheVars
  <2>2. CASE Terminate \/ Start
    BY <2>2 DEF BackendInv, RestsWhenStopped, Terminate, Start
  <2>3. CASE Drained /\ Shutdown
    BY <2>1, <2>3 DEF RestsWhenStopped, Shutdown
  <2>4. CASE ReapCheck(Main) \/ ReapClear(Main)
    <3>1. server = "stopping" /\ Drained
      BY <2>4 DEF BackendInv, RestsWhenStopped, ReapCheck, ReapClear
    <3>. QED BY <2>1, <2>4, <3>1 DEF RestsWhenStopped, ReapCheck, ReapClear
  <2>. QED BY <2>2, <2>3, <2>4
<1>. QED BY <1>1, <1>2, <1>3, CacheKept DEF BackendInv

\* The process ends, and the cache with it.
LEMMA EndPreserves ==
    ASSUME BackendInv, Kill \/ Exit, Forget
    PROVE  BackendInv'
<1>1. PoolInv'
  BY NextPreserves DEF BackendInv, PoolNext, MainStep
<1>2. /\ NoRequest \in Request /\ NoRequest.stage = "idle" /\ NoRequest.key = Nobody
      /\ NoRequest.out = Nobody /\ Nobody \notin Key
  BY RequestAssumption DEF NoRequest, Request, Stage, Output
<1>3. cache' = <<>> /\ recent' = <<>> /\ call' = [w \in Worker |-> NoRequest]
  BY DEF Forget
<1>4. CacheInv'
  BY <1>2, <1>3, EmptiedIsMostRecent DEF CacheInv, CacheTypeOK, CallsInHand, InHand
<1>5. ThreadsEnd
  BY DEF Kill, Exit
<1>6. CallIsTraced'
  BY <1>2, <1>3, <1>5 DEF CallIsTraced, ThreadsEnd, Off
<1>7. RestsWhenStopped'
  BY <1>2, <1>3, <1>5 DEF RestsWhenStopped, Drained, ThreadsEnd, Reaper
<1>8. CacheIsRight' /\ CarriesOwn'
  BY <1>2, <1>3, EmptySeq DEF CacheIsRight, CarriesOwn
<1>. QED BY <1>1, <1>4, <1>6, <1>7, <1>8 DEF BackendInv

-----------------------------------------------------------------------------
(* The invariant and what follows from it.                                 *)

\* A server that has just started has cached nothing and traces nothing.
LEMMA BackendInitEstablishes == Init => BackendInv
<1>. SUFFICES ASSUME Init PROVE BackendInv
  OBVIOUS
<1>1. PoolInv /\ CacheInv
  BY InitEstablishes, CacheInitEstablishes DEF Init
<1>2. /\ NoRequest.stage = "idle" /\ NoRequest.out = Nobody /\ Nobody \notin Key
      /\ Off.pc = "off"
  BY RequestAssumption DEF NoRequest, Output, Off
<1>3. CallIsTraced /\ RestsWhenStopped
  BY <1>2
     DEF Init, PoolInit, CacheInit, CallIsTraced, RestsWhenStopped, Drained, Reaper
<1>4. CacheIsRight /\ CarriesOwn
  BY <1>2, EmptySeq DEF Init, CacheInit, CacheIsRight, CarriesOwn
<1>. QED BY <1>1, <1>3, <1>4 DEF BackendInv

\* Every step preserves the invariant.
LEMMA BackendPreserves == BackendInv /\ [Next]_vars => BackendInv'
<1>. SUFFICES ASSUME BackendInv, [Next]_vars PROVE BackendInv'
  OBVIOUS
<1>. HIDE DEF KeepPool, KeepCache
<1>1. ASSUME server = "up", KeepPool, NEW w \in Worker, NEW k \in Key, Receive(w, k)
      PROVE  BackendInv'
  BY <1>1, ArrivalPreserves
<1>2. ASSUME NEW w \in Worker, RequestStep(w) PROVE BackendInv'
  BY <1>2, FoundPreserves, StoredPreserves, RepliedPreserves, AskedPreserves,
     AnsweredPreserves DEF RequestStep
<1>3. CASE KeepPool /\ Clear
  BY <1>3, ClearedPreserves
<1>4. CASE KeepCache /\ PoolStep
  BY <1>4, PoolStepPreserves
<1>5. CASE /\ KeepCache
           /\ \/ Terminate \/ Start
              \/ Drained /\ Shutdown
              \/ ReapCheck(Main) \/ ReapClear(Main)
  BY <1>5, ServerStepPreserves
<1>6. CASE (Kill \/ Exit) /\ Forget
  BY <1>6, EndPreserves
<1>7. CASE UNCHANGED vars
  <2>1. KeepPool /\ KeepCache
    BY <1>7 DEF vars, KeepPool, KeepCache
  <2>2. PoolInv' /\ Calm' = Calm
    BY <2>1, PoolKept DEF BackendInv
  <2>3. Undisturbed /\ RestsWhenStopped'
    BY <2>1, <2>2
       DEF KeepPool, KeepCache, Undisturbed, ThreadsStay, BackendInv, RestsWhenStopped,
           Drained, poolVars, cacheVars
  <2>. QED BY <2>1, <2>2, <2>3, CacheKept DEF BackendInv
<1>8. CASE Next
  <2>1. CASE server = "up" /\ KeepPool /\ \E w \in Worker, k \in Key : Receive(w, k)
    BY <1>1, <2>1
  <2>2. CASE \E w \in Worker : RequestStep(w)
    BY <1>2, <2>2
  <2>. QED BY <1>3, <1>4, <1>5, <1>6, <1>8, <2>1, <2>2 DEF Next
<1>. QED BY <1>7, <1>8

\* The inductive invariant of the backend: both parts keep theirs under the
\* steps of the other, and the threads of the two agree.
THEOREM BackendInductive == Spec => []BackendInv
BY BackendInitEstablishes, BackendPreserves, PTL DEF Spec

\* Type correctness of the backend as a whole.
THEOREM BackendTypeCorrect == Spec => []TypeOK
<1>1. BackendInv => TypeOK
  BY PartsTyped DEF TypeOK
<1>. QED BY <1>1, BackendInductive, PTL

\* The cache never serves the trace of other code than it was asked for, whatever
\* requests, evictions, timeouts and restarts went before (trace_cache.py:1-4).
THEOREM CacheStaysRight == Spec => []CacheIsRight
<1>1. BackendInv => CacheIsRight
  BY DEF BackendInv
<1>. QED BY <1>1, BackendInductive, PTL

\* What the tracer hands to the request handler is the trace of the source of the
\* request, with the cache in front of it too.
THEOREM BackendOutputIsOwn == Spec => []OwnOutput
<1>1. BackendInv => OwnOutput
  BY DEF BackendInv, PoolInv, GuestInv
<1>. QED BY <1>1, BackendInductive, PTL

\* With the tracer behind it, the cache still holds the keys answered last.
THEOREM BackendHoldsMostRecent == Spec => []HoldsMostRecent
<1>1. BackendInv => HoldsMostRecent
  BY DEF BackendInv, CacheInv
<1>. QED BY <1>1, BackendInductive, PTL

-----------------------------------------------------------------------------
(* The backend implements TraceOracle.                                     *)

\* What TraceOracle sees as asked and answered.
AskedOf(c) == [w \in Worker |-> c[w].key]
AnswerOf(c) == [w \in Worker |-> IF c[w].stage = "reply" THEN c[w].out ELSE Nobody]

\* Nothing is asked or answered.
LEMMA Unseen ==
    ASSUME AskedOf(call') = AskedOf(call), AnswerOf(call') = AnswerOf(call), Calm' => Calm
    PROVE  [Oracle!Next]_(Oracle!oracleVars)
<1>1. CASE Calm' = Calm
  BY <1>1 DEF Oracle!oracleVars, AskedOf, AnswerOf
<1>2. CASE Calm' # Calm
  <2>1. Oracle!Disturbed
    BY <1>2 DEF Oracle!Disturbed, AskedOf, AnswerOf, Calm
  <2>. QED BY <2>1 DEF Oracle!Next
<1>. QED BY <1>1, <1>2

\* A request arrives.
LEMMA ArrivalAsks ==
    ASSUME BackendInv, KeepPool, NEW w \in Worker, NEW k \in Key, Receive(w, k)
    PROVE  Oracle!Ask(w, k)
<1> DEFINE q == [stage |-> "lookup", key |-> k, out |-> Nobody]
<1>1. /\ call \in [Worker -> Request] /\ call' = [call EXCEPT ![w] = q]
      /\ call[w].stage = "idle" /\ call[w].key = Nobody
  BY DEF Receive, BackendInv, CacheInv, CacheTypeOK, CallsInHand, InHand
<1>2. q.key = k /\ q.stage # "reply"
  OBVIOUS
<1>. HIDE DEF q
<1>3. AskedOf(call)[w] = Nobody /\ AskedOf(call') = [AskedOf(call) EXCEPT ![w] = k]
  BY <1>1, <1>2 DEF AskedOf
<1>4. AnswerOf(call') = AnswerOf(call)
  BY <1>1, <1>2 DEF AnswerOf
<1>5. Calm' = Calm
  BY DEF Calm, poolVars
<1>. QED BY <1>3, <1>4, <1>5 DEF Oracle!Ask, AskedOf, AnswerOf

\* A request is answered with the trace of its own source or with a failure.
LEMMA MoveAnswers ==
    ASSUME BackendInv, NEW w \in Worker, NEW q, call' = [call EXCEPT ![w] = q],
           call[w].stage \notin {"idle", "reply"},
           q.stage = "reply", q.key = call[w].key, q.out \in Output,
           Calm /\ q.out \in Key => q.out = call[w].key, Calm' = Calm
    PROVE  Oracle!Answer(w)
<1>1. call \in [Worker -> Request] /\ call[w].key \in Key /\ Nobody \notin Key
  BY PartsTyped, RequestAssumption DEF CacheTypeOK, Output
<1>2. /\ AskedOf(call') = [AskedOf(call) EXCEPT ![w] = q.key]
      /\ AnswerOf(call') = [AnswerOf(call) EXCEPT ![w] = q.out]
      /\ AskedOf(call)[w] = call[w].key /\ AnswerOf(call)[w] = Nobody
  BY <1>1 DEF AskedOf, AnswerOf
<1>3. AskedOf(call') = AskedOf(call)
  BY <1>1, <1>2 DEF AskedOf
<1>4. q.out \in (IF Calm THEN {call[w].key} ELSE Key) \cup Failure
  BY DEF Output
<1>. QED
  BY <1>1, <1>2, <1>3, <1>4 DEF Oracle!Answer, Oracle!Right, AskedOf, AnswerOf

\* The answer is on its way.
LEMMA ReplyIsDone ==
    ASSUME BackendInv, KeepPool, NEW w \in Worker, Reply(w)
    PROVE  Oracle!Done(w)
<1>1. /\ call \in [Worker -> Request] /\ call[w].stage = "reply"
      /\ call[w].out \in Output /\ Nobody \notin Output
      /\ call' = [call EXCEPT ![w] = NoRequest]
  BY RequestAssumption
     DEF Reply, BackendInv, CacheInv, CacheTypeOK, CallsInHand, InHand
<1>2. NoRequest.key = Nobody /\ NoRequest.stage = "idle"
  BY DEF NoRequest
<1>3. /\ AskedOf(call') = [AskedOf(call) EXCEPT ![w] = Nobody]
      /\ AnswerOf(call') = [AnswerOf(call) EXCEPT ![w] = Nobody]
      /\ AnswerOf(call)[w] # Nobody
  BY <1>1, <1>2 DEF AskedOf, AnswerOf
<1>4. Calm' = Calm
  BY DEF Calm, poolVars
<1>. QED BY <1>3, <1>4 DEF Oracle!Done, AskedOf, AnswerOf

\* A request moves on, and its client has not heard of it yet.
LEMMA MoveUnseen ==
    ASSUME BackendInv, NEW w \in Worker, NEW q, call' = [call EXCEPT ![w] = q],
           call[w].stage # "reply", q.stage # "reply", q.key = call[w].key, Calm' = Calm
    PROVE  [Oracle!Next]_(Oracle!oracleVars)
<1>1. call \in [Worker -> Request]
  BY PartsTyped DEF CacheTypeOK
<1>2. AskedOf(call') = AskedOf(call) /\ AnswerOf(call') = AnswerOf(call)
  BY <1>1 DEF AskedOf, AnswerOf
<1>. QED BY <1>2, Unseen

\* A step that leaves the requests alone.
LEMMA CallsKept ==
    ASSUME call' = call, Calm' => Calm
    PROVE  [Oracle!Next]_(Oracle!oracleVars)
BY Unseen DEF AskedOf, AnswerOf

\* What a request in progress does is what TraceOracle allows.
LEMMA RequestImplements ==
    ASSUME BackendInv, NEW w \in Worker, RequestStep(w)
    PROVE  [Oracle!Next]_(Oracle!oracleVars)
<1>0. /\ call \in [Worker -> Request] /\ CacheInv
      /\ call[w] \in Request /\ (call[w].stage # "idle" => call[w].key \in Key)
  BY PartsTyped DEF CacheTypeOK, BackendInv
<1>1. CASE KeepPool /\ Hit(w)
  <2>1. PICK i \in DOMAIN cache :
          /\ cache[i].key = call[w].key
          /\ call' = [call EXCEPT ![w].stage = "reply", ![w].out = cache[i].value]
    BY <1>1 DEF Hit, CachedAt
  <2> DEFINE q == [call[w] EXCEPT !.stage = "reply", !.out = cache[i].value]
  <2>2. cache[i] \in Entry /\ (Calm => cache[i].value = cache[i].key)
    BY <1>0, ElementOfSeq DEF CacheInv, CacheTypeOK, BackendInv, CacheIsRight
  <2>3. /\ call' = [call EXCEPT ![w] = q] /\ q.stage = "reply" /\ q.key = call[w].key
        /\ q.out = cache[i].value /\ q.out \in Output /\ call[w].stage = "lookup"
    BY <1>0, <1>1, <2>1, <2>2 DEF Request, Entry, Output, Hit
  <2>4. Calm' = Calm
    BY <1>1 DEF Calm, poolVars
  <2>. HIDE DEF q
  <2>5. Oracle!Answer(w)
    BY <2>1, <2>2, <2>3, <2>4, MoveAnswers
  <2>. QED BY <2>5 DEF Oracle!Next
<1>2. CASE KeepPool /\ Store(w)
  <2> DEFINE q == [call[w] EXCEPT !.stage = "reply"]
  <2>1. /\ call' = [call EXCEPT ![w] = q] /\ q.stage = "reply" /\ q.key = call[w].key
        /\ q.out = call[w].out /\ q.out \in Output /\ call[w].stage = "store"
    BY <1>0, <1>2 DEF Request, Output, Store, CacheInv, CallsInHand, InHand
  <2>2. Calm /\ call[w].out \in Key => call[w].out = call[w].key
    BY DEF BackendInv, CarriesOwn
  <2>3. Calm' = Calm
    BY <1>2 DEF Calm, poolVars
  <2>. HIDE DEF q
  <2>4. Oracle!Answer(w)
    BY <2>1, <2>2, <2>3, MoveAnswers
  <2>. QED BY <2>4 DEF Oracle!Next
<1>3. CASE KeepPool /\ Reply(w)
  BY <1>3, ReplyIsDone DEF Oracle!Next
<1>4. CASE AskTracer(w)
  <2> DEFINE q == [call[w] EXCEPT !.stage = "tracing"]
  <2>1. /\ call' = [call EXCEPT ![w] = q] /\ q.stage = "tracing"
        /\ q.key = call[w].key /\ call[w].stage = "lookup"
    BY <1>0, <1>4 DEF AskTracer, Miss, Request
  <2>2. Calm' = Calm
    BY <1>4 DEF AskTracer, Enter, Calm
  <2>. HIDE DEF q
  <2>. QED BY <2>1, <2>2, MoveUnseen
<1>5. CASE TracerAnswers(w)
  <2> DEFINE o == worker[w].out
             q == [call[w] EXCEPT !.stage = IF o \in Failure THEN "reply" ELSE "store",
                                  !.out = o]
  <2>1. /\ call' = [call EXCEPT ![w] = q] /\ q.out = o /\ q.key = call[w].key
        /\ q.stage = (IF o \in Failure THEN "reply" ELSE "store")
        /\ call[w].stage = "tracing"
    BY <1>0, <1>5 DEF TracerAnswers, Traced, Request
  <2>2. o \in Output
    BY <1>5, PartsTyped DEF TracerAnswers, Leave
  <2>3. Calm' = Calm
    BY <1>5 DEF TracerAnswers, Leave, Calm
  <2>4. Failure \cap Key = {}
    BY RequestAssumption
  <2>. HIDE DEF o, q
  <2>5. CASE o \in Failure
    <3>1. Oracle!Answer(w)
      BY <2>1, <2>2, <2>3, <2>4, <2>5, MoveAnswers
    <3>. QED BY <3>1 DEF Oracle!Next
  <2>6. CASE o \notin Failure
    BY <2>1, <2>3, <2>6, MoveUnseen
  <2>. QED BY <2>5, <2>6
<1>. QED BY <1>1, <1>2, <1>3, <1>4, <1>5 DEF RequestStep

\* When the process ends, nobody is answered any more: in the middle of
\* requests it ends only when it is killed.
LEMMA EndImplements ==
    ASSUME BackendInv, Kill \/ Exit, Forget
    PROVE  [Oracle!Next]_(Oracle!oracleVars)
<1>1. NoRequest.key = Nobody /\ NoRequest.stage = "idle"
  BY DEF NoRequest
<1>2. /\ AskedOf(call') = [w \in Worker |-> Nobody]
      /\ AnswerOf(call') = [w \in Worker |-> Nobody]
  BY <1>1 DEF Forget, AskedOf, AnswerOf
<1>3. CASE ~Calm'
  <2>1. Calm' = FALSE
    BY <1>3 DEF Calm
  <2>2. Oracle!Dropped
    BY <1>2, <2>1 DEF Oracle!Dropped, AskedOf, AnswerOf
  <2>. QED BY <2>2 DEF Oracle!Next
<1>4. CASE Calm'
  <2>1. Exit /\ Calm
    BY <1>4, PartsTyped DEF Kill, Exit, RemoveWarm, Fault, Calm, PoolTypeOK
  <2>2. Drained
    BY <2>1 DEF BackendInv, RestsWhenStopped, Exit
  <2>3. \A w \in Worker : call[w].stage = "idle" /\ call[w].key = Nobody
    BY <2>2 DEF Drained, BackendInv, CacheInv, CallsInHand, InHand
  <2>4. AskedOf(call') = AskedOf(call) /\ AnswerOf(call') = AnswerOf(call)
    BY <1>2, <2>3 DEF AskedOf, AnswerOf
  <2>. QED BY <2>1, <2>4, Unseen
<1>. QED BY <1>3, <1>4

\* Every step of the backend is one of TraceOracle or none at all.
LEMMA StepImplements ==
    BackendInv /\ [Next]_vars => [Oracle!Next]_(Oracle!oracleVars)
<1>. SUFFICES ASSUME BackendInv, [Next]_vars PROVE [Oracle!Next]_(Oracle!oracleVars)
  OBVIOUS
<1>1. ASSUME KeepPool, NEW w \in Worker, NEW k \in Key, Receive(w, k)
      PROVE  [Oracle!Next]_(Oracle!oracleVars)
  <2>1. Oracle!Ask(w, k)
    BY <1>1, ArrivalAsks
  <2>. QED BY <2>1 DEF Oracle!Next
<1>2. CASE \E w \in Worker : RequestStep(w)
  BY <1>2, RequestImplements
<1>3. CASE KeepPool /\ Clear
  BY <1>3, CallsKept DEF Clear, Calm, poolVars
<1>4. CASE KeepCache /\ PoolStep
  <2>1. Undisturbed
    BY <1>4, PoolStepStays, PartsTyped
  <2>. QED BY <1>4, <2>1, CallsKept DEF Undisturbed, cacheVars
<1>5. CASE /\ KeepCache
           /\ Terminate \/ Start \/ Shutdown \/ ReapCheck(Main) \/ ReapClear(Main)
  <2>1. Undisturbed
    BY <1>5, ServerStays, PartsTyped
  <2>. QED BY <1>5, <2>1, CallsKept DEF Undisturbed, cacheVars
<1>6. CASE (Kill \/ Exit) /\ Forget
  BY <1>6, EndImplements
<1>7. CASE UNCHANGED vars
  BY <1>7, CallsKept DEF vars, cacheVars, Calm, poolVars
<1>8. CASE Next
  <2>. HIDE DEF KeepPool, KeepCache
  <2>1. CASE server = "up" /\ KeepPool /\ \E w \in Worker, k \in Key : Receive(w, k)
    BY <1>1, <2>1
  <2>. QED BY <1>2, <1>3, <1>4, <1>5, <1>6, <1>8, <2>1 DEF Next
<1>. QED BY <1>7, <1>8

\* The backend as a whole keeps the promise of POST /api/trace: whatever the
\* cache, the pool and docker do, each request gets the trace of the code it
\* sent or a failure (api.py:50-58).
THEOREM BackendImplementsOracle == Spec => AnswersAreRight
<1>1. Init => Oracle!Init
  BY DEF Init, PoolInit, CacheInit, NoRequest, Calm, Oracle!Init
<1>. QED
  BY <1>1, StepImplements, BackendInductive, PTL DEF Spec, AnswersAreRight, Oracle!Spec

=============================================================================
