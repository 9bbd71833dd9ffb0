----------------------------- MODULE MCTracerPool -----------------------------
(***************************************************************************)
(* Instances of TracerPool for TLC.                                        *)
(***************************************************************************)
EXTENDS TracerPool, TLC

CONSTANTS w1, w2, t1, t2, k1

TwoWorkers == {w1, w2}
TwoTimers == {t1, t2}
OneKey == {k1}

\* The pool when 35 minutes do not pass between t.start() and the assignment that
\* follows it (tracer_service.py:43-44): some of the behaviours of PoolSpec.
LinkedBeforeFiring ==
    \A t \in Timer :
        reaper[t] = "armed" /\ reaper'[t] = "check" => \A w \in Worker : worker[w].timer # t
PromptSpec == PoolInit /\ [][PoolNext /\ LinkedBeforeFiring]_poolVars

=============================================================================
