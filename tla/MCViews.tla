-------------------------------- MODULE MCViews --------------------------------
(***************************************************************************)
(* The five views of a trace, model-checked side by side: the call tree,   *)
(* the table of a dynamic program, the linked structures, the graph and    *)
(* the memory view.  Each reads the points of the trace and none reads     *)
(* another's state, so a behaviour shows the program of one of them and    *)
(* the others keep still: calls, table and links stand at a beginning of   *)
(* their program, and so does the graph; the memory is not there.          *)
(***************************************************************************)
EXTENDS CallTree, DpTable, ShapeLayout, Graph, TLC

CONSTANTS Checked    \* the views that are checked

VARIABLES
    active,                                       \* the view that is shown
    x, p, block, gone, lost, steps, point, memory        \* Memory

memVars == <<x, p, block, gone, lost, steps, point, memory>>
viewVars == <<active, vars, dpVars, shapeVars, graphVars, memVars>>

-----------------------------------------------------------------------------
MCFunc == {"f", "g"}
MCAddr == {1, 2}
MCWidth == [main |-> 48, f |-> 32, g |-> 112]

\* A bottom-up table in main, lines 1 and 2; a memoized function, lines 3 to 5.
Line(func, next) ==
    [func |-> func, lhs |-> None, reads |-> <<>>, op |-> None, control |-> FALSE,
     returns |-> FALSE, own |-> FALSE, lookup |-> FALSE, calls |-> FALSE, next |-> next]
MCStmt ==
    <<[Line("main", {1, 2}) EXCEPT !.lhs = 0, !.reads = <<1, 0>>, !.op = "max"],
      [Line("main", {2}) EXCEPT !.lhs = 0, !.calls = TRUE],
      [Line("solve", {5, 0}) EXCEPT !.reads = <<0>>, !.control = TRUE, !.returns = TRUE, !.own = TRUE],
      [Line("solve", {5}) EXCEPT !.control = TRUE, !.lookup = TRUE],
      [Line("solve", {0}) EXCEPT !.lhs = 0, !.returns = TRUE, !.calls = TRUE]>>
MCVal == {0, 1}      \* the values that cells hold

\* More nodes where there are fewer links.
MCNodes == <<4, 3, 2>>
MCBoxWidth == <<44, 60, 44, 52>>

\* Every edge between three nodes; in a pair that goes both ways the weights
\* are alike, differ, or are all one.
Arcs == <<<<0, 1>>, <<0, 2>>, <<1, 0>>, <<1, 2>>, <<2, 0>>, <<2, 1>>>>
MCArc == <<<<0, 1>>, <<0, 2>>, <<1, 0>>, <<1, 2>>, <<2, 0>>, <<2, 1>>>>
MCWeight ==
    [e \in {<<0, 1>>, <<1, 0>>, <<1, 2>>, <<2, 1>>} |-> 1] @@ <<0, 2>> :> 2 @@ <<2, 0>> :> 4

\* The containers whose nesting the decoders follow.
T(con, args) == [con |-> con, args |-> args]
int == T("int", <<>>)
string == T("string", <<>>)
bool == T("bool", <<>>)
vector(t) == T("vector", <<t>>)
std_array(t) == T("array", <<t>>)
c_array(t) == T("c_array", <<t>>)
deque == T("deque", <<int>>)
Containers ==
    {vector(int), vector(vector(int)), string, vector(string), vector(T("pair", <<int, int>>)),
     T("list", <<int>>), T("list", <<vector(int)>>), T("forward_list", <<int>>),
     T("set", <<int>>), T("map", <<int, vector(int)>>),
     T("unordered_set", <<int>>), T("unordered_map", <<int, int>>),
     deque, T("stack", <<int, deque>>), T("queue", <<int, deque>>),
     T("pair", <<int, vector(int)>>), T("unique_ptr", <<int>>),
     vector(bool), vector(vector(bool)), std_array(int), std_array(vector(int)),
     c_array(vector(int)), c_array(c_array(int))}
Mem == INSTANCE Memory WITH
    Types <- Containers, Val <- {1, 2}, Key <- {1, 2, 3}, MaxLen <- 4, MaxSteps <- 4

\* What the proofs about CallTree and DpTable take for granted of the constants.
ASSUME CallAssumption == NamesDiffer /\ SizesAreNatural
ASSUME DpAssumption == ValuesDiffer /\ TextIsPlain

-----------------------------------------------------------------------------
\* The driver of the table counts up from cell 0; with the table in its own frame
\* it starts at its brace, with a global one at a line.
ViewsInit ==
    /\ active \in Checked
    /\ Init /\ (active # "calls" => Last(stack).addr = 1)
    /\ DpInit /\ Running.i = 0 /\ (home = "global" <=> Running.line # Header)
    /\ (active # "dp" => home = Main /\ keyed)
    /\ ShapeInit /\ (active # "linked" => ~array /\ arity = 1)
    /\ GraphInit /\ (active # "graph" => form = "edges" /\ mode = "queue")
    /\ IF active = "memory" THEN Mem!Init
       ELSE /\ x = None /\ p = None /\ block = None /\ gone = None /\ lost = None
            /\ steps = None /\ point = None /\ memory = None

ViewsNext ==
    \/ active = "calls" /\ Next /\ UNCHANGED <<active, dpVars, shapeVars, graphVars, memVars>>
    \/ active = "dp" /\ DpNext /\ UNCHANGED <<active, vars, shapeVars, graphVars, memVars>>
    \/ active = "linked" /\ ShapeNext /\ UNCHANGED <<active, vars, dpVars, graphVars, memVars>>
    \/ active = "graph" /\ GraphNext /\ UNCHANGED <<active, vars, dpVars, shapeVars, memVars>>
    \/ active = "memory" /\ Mem!Next /\ UNCHANGED <<active, vars, dpVars, shapeVars, graphVars>>

ViewsSpec == ViewsInit /\ [][ViewsNext]_viewVars

-----------------------------------------------------------------------------
\* The memory view is the program's memory (Memory).
ViewIsTruth == active = "memory" => Mem!ViewIsTruth

\* A step flags as changed the elements that changed (Memory).
DiffIsTrue == [][active = "memory" => Mem!DiffStep]_viewVars
=============================================================================
