------------------------------- MODULE MCBackend -------------------------------
(***************************************************************************)
(* Instances of Backend for TLC.                                           *)
(***************************************************************************)
EXTENDS Backend, TLC

CONSTANTS w1, w2, t1, t2, k1, k2

TwoWorkers == {w1, w2}
TwoTimers == {t1, t2}
TwoKeys == {k1, k2}

Alike == Permutations(Worker) \cup Permutations(Timer) \cup Permutations(Key)

=============================================================================
