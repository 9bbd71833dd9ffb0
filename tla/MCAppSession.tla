---------------------------- MODULE MCAppSession ----------------------------
(* A small page: two programs, one whose traces differ in length from run  *)
(* to run, three lines, and two requests in flight at most.                *)
EXTENDS AppSession

CONSTANTS c1, c2

MCCode == {c1, c2}
MCLine == 1..3
MCSlot == {1, 2}
MCRuns == [c \in MCCode |-> IF c = c1 THEN {<<1, 2, 1, 3>>, <<1>>} ELSE {<<2, 1>>}]

=============================================================================
