------------------------------ MODULE TraceOracle ------------------------------
(***************************************************************************)
(* What POST /api/trace promises its callers: each request gets one answer, *)
(* which is the trace of the code that was sent or a failure.  It says      *)
(* nothing of containers, locks, timers or caches.                          *)
(*                                                                          *)
(* The promise is off once the world is no longer calm, that is, once the   *)
(* server was killed or docker failed to do as it was told.                 *)
(***************************************************************************)
CONSTANTS Worker, Key, Failure, Nobody

VARIABLES
    asked,    \* asked[w]: the key of the request that w serves
    answer,   \* answer[w]: its answer
    calm      \* nothing out of the ordinary has happened yet

oracleVars == <<asked, answer, calm>>

Init ==
    /\ asked = [w \in Worker |-> Nobody]
    /\ answer = [w \in Worker |-> Nobody]
    /\ calm = TRUE

Ask(w, k) ==
    /\ asked[w] = Nobody
    /\ asked' = [asked EXCEPT ![w] = k]
    /\ UNCHANGED <<answer, calm>>

Right(w) == IF calm THEN {asked[w]} ELSE Key

Answer(w) ==
    /\ asked[w] # Nobody
    /\ answer[w] = Nobody
    /\ \E o \in Right(w) \cup Failure : answer' = [answer EXCEPT ![w] = o]
    /\ UNCHANGED <<asked, calm>>

Done(w) ==
    /\ answer[w] # Nobody
    /\ asked' = [asked EXCEPT ![w] = Nobody]
    /\ answer' = [answer EXCEPT ![w] = Nobody]
    /\ UNCHANGED calm

\* Docker fails, perhaps while it serves w.
Disturbed ==
    /\ calm' = FALSE
    /\ UNCHANGED <<asked, answer>>

\* The server is killed: nobody gets an answer.
Dropped ==
    /\ calm' = FALSE
    /\ asked' = [w \in Worker |-> Nobody]
    /\ answer' = [w \in Worker |-> Nobody]

Next ==
    \/ \E w \in Worker : (\E k \in Key : Ask(w, k)) \/ Answer(w) \/ Done(w)
    \/ Disturbed \/ Dropped

Spec == Init /\ [][Next]_oracleVars

=============================================================================
