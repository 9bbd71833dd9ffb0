---------------------------- MODULE TracedProgram ----------------------------
(***************************************************************************)
(* What the programs behind CallTree and DpTable have in common: functions *)
(* that call each other, traced point by point.                            *)
(***************************************************************************)
CONSTANTS
    Main,        \* the outermost function
    MaxSteps,    \* bound: points of a trace
    MaxDepth,    \* bound: frames of a stack
    None

=============================================================================
