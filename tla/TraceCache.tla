------------------------------ MODULE TraceCache ------------------------------
(***************************************************************************)
(* The LRU cache in front of the tracer, backend/app/trace_cache.py, and   *)
(* the request handler of backend/app/api.py that calls it.                *)
(*                                                                         *)
(* The lock is held for the lookup and for the store, not for the tracer   *)
(* run between them, so that requests with the same key may both miss, and *)
(* a store may follow other stores, evictions or a clear().                *)
(***************************************************************************)
EXTENDS TraceRequests, Naturals, Sequences, SequencesExt

CONSTANT MaxEntries    \* MAX_ENTRIES

ASSUME MaxEntriesAssumption == MaxEntries \in Nat

VARIABLES
    cache,        \* _cache, least recently used entry first
    call,         \* call[w]: the request that thread w serves
    recent        \* history: keys stored since the cache was last emptied, in
                  \* the order of their latest use

cacheVars == <<cache, call, recent>>

Stage == {"idle", "lookup", "tracing", "store", "reply"}

\* The trace (or compile error) of a key is named by the key.
Entry == [key : Key, value : Key]
Request == [stage : Stage, key : Key \cup {Nobody}, out : Output \cup {Nobody}]

NoRequest == [stage |-> "idle", key |-> Nobody, out |-> Nobody]

CacheTypeOK ==
    /\ cache \in Seq(Entry)
    /\ call \in [Worker -> Request]
    /\ recent \in Seq(Key)

CacheInit ==
    /\ cache = <<>>
    /\ call = [w \in Worker |-> NoRequest]
    /\ recent = <<>>

-----------------------------------------------------------------------------

CachedAt(k) == {i \in DOMAIN cache : cache[i].key = k}

\* _cache without the entry of k.
Without(k) == RemoveFirstMatch(cache, LAMBDA e : e.key = k)

\* popitem(last=False) while the cache is too long.
Evicted(entries) ==
    IF Len(entries) <= MaxEntries THEN entries
    ELSE SubSeq(entries, Len(entries) - MaxEntries + 1, Len(entries))

Used(k) == recent' = Append(RemoveFirst(recent, k), k)

\* POST /api/trace reaches a worker thread.
Receive(w, k) ==
    /\ call[w].stage = "idle"
    /\ call' = [call EXCEPT ![w] = [stage |-> "lookup", key |-> k, out |-> Nobody]]
    /\ UNCHANGED <<cache, recent>>

Hit(w) ==
    /\ call[w].stage = "lookup"
    /\ \E i \in CachedAt(call[w].key) :
         /\ cache' = Append(Without(call[w].key), cache[i])
         /\ call' = [call EXCEPT ![w].stage = "reply", ![w].out = cache[i].value]
    /\ Used(call[w].key)

Miss(w) ==
    /\ call[w].stage = "lookup"
    /\ CachedAt(call[w].key) = {}
    /\ call' = [call EXCEPT ![w].stage = "tracing"]
    /\ UNCHANGED <<cache, recent>>

\* tracer_service.run_trace() returns o, or raises it and the handler answers
\* 503 or 500 with nothing stored.
Traced(w, o) ==
    /\ call[w].stage = "tracing"
    /\ call' = [call EXCEPT ![w].stage = IF o \in Failure THEN "reply" ELSE "store",
                            ![w].out = o]
    /\ UNCHANGED <<cache, recent>>

\* Mutant: without move_to_end(), an entry somebody else has stored meanwhile
\* keeps its place.
StoreInPlace(w) ==
    /\ call[w].stage = "store"
    /\ LET entry == [key |-> call[w].key, value |-> call[w].out]
       IN cache' = IF CachedAt(call[w].key) = {} THEN Evicted(Append(cache, entry))
                   ELSE [i \in DOMAIN cache |->
                           IF i \in CachedAt(call[w].key) THEN entry ELSE cache[i]]
    /\ call' = [call EXCEPT ![w].stage = "reply"]
    /\ Used(call[w].key)

Store(w) ==
    /\ call[w].stage = "store"
    /\ cache' = Evicted(Append(Without(call[w].key),
                               [key |-> call[w].key, value |-> call[w].out]))
    /\ call' = [call EXCEPT ![w].stage = "reply"]
    /\ Used(call[w].key)

Reply(w) ==
    /\ call[w].stage = "reply"
    /\ call' = [call EXCEPT ![w] = NoRequest]
    /\ UNCHANGED <<cache, recent>>

\* clear(), under requests in progress.
Clear ==
    /\ cache' = <<>>
    /\ recent' = <<>>
    /\ UNCHANGED call

-----------------------------------------------------------------------------
(* The specification, with any tracer: it traces the code it is given or fails. *)

CacheNext ==
    \/ \E w \in Worker :
         \/ \E k \in Key : Receive(w, k)
         \/ \E o \in {call[w].key} \cup Failure : Traced(w, o)
         \/ Hit(w) \/ Miss(w) \/ Store(w) \/ Reply(w)
    \/ Clear

CacheSpec == CacheInit /\ [][CacheNext]_cacheVars

-----------------------------------------------------------------------------
(* Properties.                                                             *)

\* However lookups, stores and evictions of concurrent requests interleave,
\* what is cached is the MAX_ENTRIES keys most recently answered, once each and
\* in that order (trace_cache.py:1-4, 25-29).
HoldsMostRecent ==
    /\ \A i, j \in 1..Len(recent) : recent[i] = recent[j] => i = j
    /\ [i \in DOMAIN cache |-> cache[i].key] =
         IF Len(recent) <= MaxEntries THEN recent
         ELSE SubSeq(recent, Len(recent) - MaxEntries + 1, Len(recent))

-----------------------------------------------------------------------------
(* The inductive invariant behind it.                                      *)

\* What thread w has in hand: every request goes with its key, an answer with
\* its output.
InHand(w) ==
    /\ call[w].stage = "idle" <=> call[w].key = Nobody
    /\ call[w].stage = "store" => call[w].out \in Key
    /\ call[w].stage = "reply" => call[w].out \in Output

CallsInHand == \A w \in Worker : InHand(w)

CacheInv == CacheTypeOK /\ CallsInHand /\ HoldsMostRecent

=============================================================================
