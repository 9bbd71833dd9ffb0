-------------------------------- MODULE Backend --------------------------------
(***************************************************************************)
(* The backend as a whole: requests of backend/app/api.py pass through the *)
(* cache (TraceCache), and its misses through the tracer (TracerPool).     *)
(* One worker thread serves a request from its arrival to its answer.      *)
(***************************************************************************)
EXTENDS TracerPool, TraceCache

vars == <<poolVars, cacheVars>>

KeepPool == UNCHANGED poolVars
KeepCache == UNCHANGED cacheVars

Init == PoolInit /\ CacheInit

\* A request that the cache cannot answer goes to the tracer.
AskTracer(w) == Miss(w) /\ Enter(w, call[w].key)

TracerAnswers(w) == Traced(w, worker[w].out) /\ Leave(w)

\* A new process starts with an empty cache and no requests.
Forget ==
    /\ cache' = <<>>
    /\ call' = [w \in Worker |-> NoRequest]
    /\ recent' = <<>>

\* uvicorn waits for the requests in progress before _lifespan() resumes.
Drained == \A w \in Worker : call[w].stage = "idle"

RequestStep(w) ==
    \/ KeepPool /\ (Hit(w) \/ Store(w) \/ Reply(w))
    \/ AskTracer(w)
    \/ TracerAnswers(w)

Next ==
    \/ server = "up" /\ KeepPool /\ \E w \in Worker, k \in Key : Receive(w, k)
    \/ \E w \in Worker : RequestStep(w)
    \/ KeepPool /\ Clear
    \/ KeepCache /\ (PoolStep \/ Terminate \/ Start)
    \/ KeepCache /\ Drained /\ Shutdown
    \/ KeepCache /\ (ReapCheck(Main) \/ ReapClear(Main))
    \/ (Kill \/ Exit) /\ Forget

Spec == Init /\ [][Next]_vars

-----------------------------------------------------------------------------
(* Properties.                                                             *)

TypeOK == PoolTypeOK /\ CacheTypeOK

\* The cache never serves, and keeps on serving, the trace of other code than
\* it was asked for (trace_cache.py:1-4).
CacheIsRight == Calm => \A i \in DOMAIN cache : cache[i].value = cache[i].key

\* The backend does what TraceOracle promises: every answer, from the cache or
\* from a container, is that of the code sent, or a failure.
Oracle == INSTANCE TraceOracle WITH
    asked <- [w \in Worker |-> call[w].key],
    answer <- [w \in Worker |-> IF call[w].stage = "reply" THEN call[w].out ELSE Nobody],
    calm <- Calm

AnswersAreRight == Oracle!Spec

-----------------------------------------------------------------------------
(* The inductive invariant behind them.                                    *)

\* A thread is inside tracer_service.run_trace() exactly while its request is
\* being traced, and with the code of that request.
CallIsTraced ==
    \A w \in Worker :
        /\ call[w].stage = "tracing" <=> worker[w].pc # "off"
        /\ call[w].stage = "tracing" => worker[w].key = call[w].key

\* shutdown_pool() runs in Main, and the process ends, without requests.
RestsWhenStopped ==
    /\ reaper[Main] # "off" => server = "stopping" /\ Drained
    /\ server = "down" => reaper[Main] = "off" /\ Drained

\* A trace on its way to a client or to the cache is that of the code it sent.
CarriesOwn == Calm => \A w \in Worker : call[w].out \in Key => call[w].out = call[w].key

BackendInv ==
    PoolInv /\ CacheInv /\ CallIsTraced /\ RestsWhenStopped /\ CacheIsRight /\ CarriesOwn

=============================================================================
