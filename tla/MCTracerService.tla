--------------------------- MODULE MCTracerService ---------------------------
(***************************************************************************)
(* Instances of TracerService for TLC.                                     *)
(***************************************************************************)
EXTENDS TracerService, TLC

CONSTANTS a, b, a1, a2, a3, b1, b2, p1, p2

\* One window with three calls in progress at once.
OneWindow == {a}
ThreeCalls == {a1, a2, a3}
TwoCalls == {a1, a2}

\* Two windows with two calls each.
TwoWindows == {a, b}
TwoCallsEach == {a1, a2, b1, b2}

Home == [t \in Task |-> IF t \in {a1, a2, a3} THEN a ELSE b]

CallsAndPorts == {f @@ g : f \in Permutations(Task), g \in Permutations(Port)}
CallsOfBoth == Permutations(Task \cap {a1, a2, a3}) \cup Permutations(Task \cap {b1, b2})

=============================================================================
