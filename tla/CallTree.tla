------------------------------ MODULE CallTree ------------------------------
(***************************************************************************)
(* The call tree that the visualizer reads off a trace, against the calls  *)
(* that the traced program really made.                                    *)
(*                                                                         *)
(* A point of a trace names each frame by function and stack address, and  *)
(* the tracer errs in the ways the header of callTree.ts lists: a frame    *)
(* has another address at the point that follows its push, addresses are   *)
(* used again, the caller carries the callee's name and locals at the      *)
(* point that follows a return, parameters are unset at first, and the     *)
(* locals of a returning frame are garbage.                                *)
(***************************************************************************)
EXTENDS TracedProgram, Integers, Sequences, FiniteSets, SequencesExt

CONSTANTS
    Func,        \* the functions but Main
    Addr,        \* the addresses a frame of a given depth may have
    Width,       \* Width[f]: the width of the box of a call of f
    Gap,         \* H_GAP
    Garbage      \* a value that is nobody's

VARIABLES
    stack,       \* the program's stack: [call, func, addr, fresh, set]
    returned,    \* the function that returned at the last point, or None
    calls,       \* ghost: every call made, in order
    trace,       \* the points so far
    tree         \* what buildCallTree holds after them

vars == <<stack, returned, calls, trace, tree>>

SumOver(f, S) ==     \* of f[s] over s \in S, a set of numbers
    LET total[T \in SUBSET S] ==
          IF T = {} THEN 0 ELSE LET s == Min(T) IN f[s] + total[T \ {s}]
    IN  total[S]

-----------------------------------------------------------------------------
(* buildCallTree: one step of its loop over the points.                    *)

NewTree == [nodes |-> <<>>, live |-> <<>>, prev |-> None, hasRecursion |-> FALSE]

FrameHash(f) == <<f.func, f.addr>>      \* unique_hash

SameFrame(t, fs, k, step) ==
    \/ t.live[k].hash = FrameHash(fs[k])
    \/ /\ t.nodes[t.live[k].node].func = fs[k].func    \* address-settle
       /\ t.nodes[t.live[k].node].enter = step - 1

Matched(t, fs, step) ==
    Max({k \in 0..Len(fs) :
                k <= Len(t.live) /\ \A i \in 1..k : SameFrame(t, fs, i, step)})

(* The point after a return names the surviving frame after its callee.    *)
LagsReturn(t, point, k) ==
    LET fs == point.frames
    IN  /\ point.event # "call" /\ t.prev = "return"
        /\ Len(fs) = Len(t.live) - 1 /\ k = Len(fs) - 1
        /\ fs[k + 1].addr = t.live[k + 1].addr

KeptByHash(t, point, step) ==      \* mutant: a call event is not looked at
    LET k == Matched(t, point.frames, step)
    IN  IF LagsReturn(t, point, k) THEN Len(point.frames) ELSE k

(* The frames that go on; a call pushes one even where all of them match.  *)
Kept(t, point, step) ==
    LET fs == point.frames
        k == Matched(t, fs, step)
    IN  IF point.event = "call" /\ k = Len(fs) /\ k = Len(t.live) /\ k > 0 THEN k - 1
        ELSE IF LagsReturn(t, point, k) THEN Len(fs)
        ELSE k

RefreshesAlways(event, glitch) == event # "return"      \* mutant
RefreshesLabel(event, glitch) == event # "return" /\ ~glitch

Node(f, step, parent) ==
    [func |-> f.func, label |-> f.arg, addr |-> f.addr, enter |-> step,
     exit |-> None, ret |-> None, parent |-> parent]

Feed(t, point, step) ==
    LET fs == point.frames
        matched == Matched(t, fs, step)
        kept == Kept(t, point, step)
        glitch == kept = Len(fs) /\ kept > matched
        new == Len(fs) - kept
        Id(j) == IF j = 0 THEN None ELSE IF j <= kept THEN t.live[j].node
                 ELSE Len(t.nodes) + j - kept
        settled == [n \in DOMAIN t.nodes |->
            LET at == {i \in DOMAIN t.live : t.live[i].node = n}
                i == CHOOSE i \in at : TRUE
            IN  IF at = {} THEN t.nodes[n]
                ELSE IF i > kept THEN [t.nodes[n] EXCEPT !.exit = step - 1]
                ELSE IF i > matched THEN t.nodes[n]
                ELSE [t.nodes[n] EXCEPT !.addr = fs[i].addr]]
        pushed == settled \o [j \in 1..new |-> Node(fs[kept + j], step, Id(kept + j - 1))]
        live == [j \in 1..Len(fs) |->
            IF j <= kept /\ j > matched THEN t.live[j]
            ELSE [node |-> Id(j), hash |-> FrameHash(fs[j]), addr |-> fs[j].addr]]
        top == Id(Len(fs))
    IN  [nodes |-> IF fs = <<>> THEN pushed
                   ELSE IF point.event = "return" THEN [pushed EXCEPT ![top].ret = Last(fs).ret]
                   ELSE IF RefreshesLabel(point.event, glitch)
                        THEN [pushed EXCEPT ![top].label = Last(fs).arg]
                   ELSE pushed,
         live |-> live,
         prev |-> point.event,
         hasRecursion |-> t.hasRecursion \/
            \E j \in kept + 1 .. Len(fs) : \E i \in 1..j - 1 :
               pushed[live[i].node].func = fs[j].func]

Children(t, n) == {c \in DOMAIN t.nodes : t.nodes[c].parent = n}
IsLive(t, n, step) ==
    t.nodes[n].enter <= step /\ (t.nodes[n].exit = None \/ step <= t.nodes[n].exit)

NodeState(t, n, step) ==
    IF t.nodes[n].enter > step THEN "future"
    ELSE IF ~IsLive(t, n, step) THEN "returned"
    ELSE IF \E c \in Children(t, n) : IsLive(t, c, step) THEN "on-stack"
    ELSE "current"

IsCollapsedEager(t, n, step) ==      \* mutant: it will have returned
    Children(t, n) # {} /\ t.nodes[n].exit # None

(* The call log folds what has returned, unless the user says otherwise.   *)
IsCollapsed(t, n, step) ==
    Children(t, n) # {} /\ t.nodes[n].exit # None /\ t.nodes[n].exit < step

-----------------------------------------------------------------------------
(* settledEntryStep and inspectVariable: the argument the panel shows.     *)

Depth(t, n) ==
    LET depth[m \in DOMAIN t.nodes] ==
          IF t.nodes[m].parent = None THEN 1 ELSE 1 + depth[t.nodes[m].parent]
    IN  depth[n]

HasFrame(t, point, n) ==
    Depth(t, n) <= Len(point.frames) /\ point.frames[Depth(t, n)].func = t.nodes[n].func

IsAlwaysInitialized(arg) == TRUE      \* mutant
IsInitialized(arg) == arg # None

SettledEntryStep(t, points, n) ==
    LET upper == Min({Len(points)} \cup {t.nodes[c].enter : c \in Children(t, n)}
                       \cup ({t.nodes[n].exit} \ {None}))
        settled == {s \in t.nodes[n].enter .. upper :
                      /\ HasFrame(t, points[s], n)
                      /\ IsInitialized(points[s].frames[Depth(t, n)].arg)}
    IN  IF settled = {} THEN upper ELSE Min(settled)

Inspected(t, points, n) ==
    LET point == points[SettledEntryStep(t, points, n)]
    IN  IF HasFrame(t, point, n) THEN point.frames[Depth(t, n)].arg ELSE None

-----------------------------------------------------------------------------
(* layoutTree: each subtree has a band of its own; a parent is centered    *)
(* over its children and clamped to its band.                              *)

Unclamped(mid, lo, hi) == mid      \* mutant
Clamped(mid, lo, hi) == Min({Max({mid, lo}), hi})

BandWidths(t) ==
    LET band[n \in DOMAIN t.nodes] ==
          LET kids == Children(t, n)
              row == SumOver([k \in kids |-> band[k] + Gap], kids) - Gap
          IN  Max({Width[t.nodes[n].func], row})
    IN  band

Layout(t) ==
    LET band == BandWidths(t)
        left[n \in DOMAIN t.nodes] ==
          LET before == {c \in Children(t, t.nodes[n].parent) : c < n}
              start == IF t.nodes[n].parent = None THEN 0 ELSE left[t.nodes[n].parent]
          IN  start + SumOver([c \in before |-> band[c] + Gap], before)
        x[n \in DOMAIN t.nodes] ==
          LET kids == Children(t, n)
              half == Width[t.nodes[n].func] \div 2
              mid == IF kids = {} THEN left[n] + half
                     ELSE (x[Min(kids)] + x[Max(kids)]) \div 2
          IN  Clamped(mid, left[n] + half, left[n] + band[n] - half)
    IN  x

-----------------------------------------------------------------------------
(* The program and its tracer.                                             *)

Fresh(call, f, a) == [call |-> call, func |-> f, addr |-> a, fresh |-> TRUE,
                      set |-> f = Main]
Settled(f, a) == [f EXCEPT !.addr = IF f.fresh THEN a ELSE @, !.fresh = FALSE]
Frame(f) == [func |-> f.func, addr |-> f.addr,
             arg |-> IF f.set THEN f.call ELSE None, ret |-> None]
Frames(s) == [i \in DOMAIN s |-> Frame(s[i])]

Emit(event, frames) ==
    LET point == [event |-> event, frames |-> frames]
    IN  /\ trace' = Append(trace, point)
        /\ tree' = Feed(tree, point, Len(trace) + 1)

Init ==
    \E a \in Addr :
       LET point == [event |-> "step_line", frames |-> Frames(stack)]
       IN  /\ stack = <<Fresh(1, Main, a)>>
           /\ returned = None
           /\ calls = <<[func |-> Main, parent |-> None, enter |-> 1, exit |-> None]>>
           /\ trace = <<point>>
           /\ tree = Feed(NewTree, point, 1)

(* At its call event a frame is seen at its caller's address.              *)
Call(f, settle) ==
    /\ Last(stack).set /\ Len(stack) < MaxDepth
    /\ LET id == Len(calls) + 1
           caller == Settled(Last(stack), settle)
       IN  /\ stack' = Front(stack) \o <<caller, Fresh(id, f, caller.addr)>>
           /\ calls' = Append(calls, [func |-> f, parent |-> Last(stack).call,
                                      enter |-> Len(trace) + 1, exit |-> None])
    /\ returned' = None
    /\ Emit("call", Frames(stack'))

(* A line is executed; the parameters are in place from some line on.  A   *)
(* line after which the point is the one before it again is left out.      *)
StepLine(settle, set) ==
    /\ returned = None
    /\ Last(stack).set => set
    /\ stack' = Append(Front(stack), [Settled(Last(stack), settle) EXCEPT !.set = set])
    /\ Frames(stack') # Last(trace).frames
    /\ UNCHANGED <<returned, calls>>
    /\ Emit("step_line", Frames(stack'))

(* The caller is named after the callee, and its locals read as the        *)
(* callee's: garbage, unless the two are the same function.                *)
LagLine ==
    /\ returned # None
    /\ LET own == Frame(Last(stack))
           seen == IF returned = own.func THEN own
                   ELSE [own EXCEPT !.func = returned, !.arg = Garbage]
       IN  Emit("step_line", Append(Frames(Front(stack)), seen))
    /\ returned' = None
    /\ UNCHANGED <<stack, calls>>

Return(settle) ==
    /\ returned = None
    /\ LET top == Settled(Last(stack), settle)
           seen == [Frame(top) EXCEPT !.ret = top.call,
                                      !.arg = Garbage]
       IN  /\ Emit("return", Append(Frames(Front(stack)), seen))
           /\ calls' = [calls EXCEPT ![top.call].exit = Len(trace) + 1]
           /\ returned' = top.func
    /\ stack' = Front(stack)

Next ==
    /\ stack # <<>> /\ Len(trace) < MaxSteps
    /\ \E settle \in IF Last(stack).fresh THEN Addr ELSE {Last(stack).addr} :
          \/ \E f \in Func : Call(f, settle)
          \/ \E set \in BOOLEAN : StepLine(settle, set)
          \/ LagLine
          \/ Return(settle)

Spec == Init /\ [][Next]_vars

-----------------------------------------------------------------------------
(* The tree has one node for each call the program made, under the call    *)
(* that made it, from the step it was entered to the step it returned at,  *)
(* with the value it returned, whatever names and addresses the tracer     *)
(* gave its frames; a recursion is announced exactly when there is one     *)
(* (the five subtleties of callTree.ts:2-50).                              *)
Ancestors(n) ==
    LET up[m \in 1..Len(calls)] ==
          IF calls[m].parent = None THEN {} ELSE {calls[m].parent} \cup up[calls[m].parent]
    IN  up[n]

TreeIsTruth ==
    /\ Len(tree.nodes) = Len(calls)
    /\ \A n \in DOMAIN calls :
          LET node == tree.nodes[n]
              call == calls[n]
          IN  /\ <<node.func, node.parent, node.enter>> = <<call.func, call.parent, call.enter>>
              /\ node.exit = IF call.exit = Len(trace) THEN None ELSE call.exit
              /\ node.ret = IF call.exit = None THEN None ELSE n
    /\ tree.hasRecursion <=>
          \E n \in DOMAIN calls : \E m \in Ancestors(n) : calls[m].func = calls[n].func

(* A label shows the call's own argument or none: never the garbage of its *)
(* return, nor a callee's locals (callTree.ts:42-50, 192-203); and the     *)
(* panel shows the argument the call received as soon as some point before *)
(* its return held it (frameInspector.ts:56-57).                           *)
ArgumentsAreOwn ==
    \A n \in DOMAIN tree.nodes :
       LET held == \E s \in calls[n].enter .. Len(trace) :
                     /\ trace[s].event # "return"
                     /\ Len(trace[s].frames) >= Depth(tree, n)
                     /\ trace[s].frames[Depth(tree, n)].arg = n
       IN  /\ tree.nodes[n].label \in {n, None}
           /\ held => Inspected(tree, trace, n) = n

(* At every step shown, the call that is running can be seen in the log.   *)
CurrentIsShown ==
    \A step \in 1..Len(trace) :
       Cardinality({n \in DOMAIN tree.nodes : NodeState(tree, n, step) = "current"}) = 1
       /\ \A n \in DOMAIN tree.nodes : NodeState(tree, n, step) = "current" =>
             \A m \in Ancestors(n) : ~IsCollapsed(tree, m, step)

(* Boxes of one depth keep their gap (treeLayout.ts:1-3 "no overlap").     *)
NoOverlap ==
    LET x == Layout(tree)
        W(n) == Width[tree.nodes[n].func]
    IN  \A m, n \in DOMAIN tree.nodes :
           m < n /\ Depth(tree, m) = Depth(tree, n)
             => x[m] + W(m) \div 2 + Gap <= x[n] - W(n) \div 2

-----------------------------------------------------------------------------
(* The inductive invariant behind TreeIsTruth and CurrentIsShown.          *)

(* "None" is neither a number nor a function, and garbage is no argument.  *)
NamesDiffer == None \notin Nat \cup {Main} \cup Func /\ Garbage \notin Nat

Name == {Main} \cup Func
Id == Nat \cup {None}
Arg == Nat \cup {None, Garbage}
Event == {"step_line", "call", "return"}

StackFrame == [call : Nat, func : Name, addr : Addr, fresh : BOOLEAN, set : BOOLEAN]
CallRecord == [func : Name, parent : Id, enter : Nat, exit : Id]
PointFrame == [func : Name, addr : Addr, arg : Arg, ret : Id]
Point == [event : Event, frames : Seq(PointFrame)]
TreeNode == [func : Name, label : Arg, addr : Addr, enter : Nat, exit : Id, ret : Id,
             parent : Id]
LiveNode == [node : Nat, hash : Name \X Addr, addr : Addr]
Tree == [nodes : Seq(TreeNode), live : Seq(LiveNode), prev : Event \cup {None},
         hasRecursion : BOOLEAN]

TreeTypeOK ==
    /\ stack \in Seq(StackFrame)
    /\ returned \in Name \cup {None}
    /\ calls \in Seq(CallRecord)
    /\ trace \in Seq(Point)
    /\ tree \in Tree

(* Calls nest, and the frames are those that have not returned.            *)
CallsNest ==
    \A n \in DOMAIN calls :
       /\ calls[n].parent \in {None} \cup 1..n - 1
       /\ calls[n].enter \in 1..Len(trace)
       /\ calls[n].exit \in {None} \cup calls[n].enter + 1..Len(trace)
       /\ calls[n].exit = None => \E k \in DOMAIN stack : stack[k].call = n

StackIsCalls ==
    /\ \A k \in DOMAIN stack :
          LET call == calls[stack[k].call]
          IN  /\ stack[k].call \in DOMAIN calls
              /\ call.func = stack[k].func /\ call.exit = None
              /\ call.parent = IF k = 1 THEN None ELSE stack[k - 1].call
              /\ stack[k].fresh =>
                    k = Len(stack) /\ returned = None /\ call.enter = Len(trace)
    /\ \A i, j \in DOMAIN stack : stack[i].call = stack[j].call => i = j

(* What buildCallTree holds to be live are the frames, and for one point   *)
(* more the frame that has just returned.                                  *)
LiveIsStack ==
    LET top == Len(stack) + 1
        gone == tree.live[top].node
    IN  /\ Len(tree.live) = IF returned = None THEN Len(stack) ELSE top
        /\ \A k \in DOMAIN stack :
              tree.live[k] = [node |-> stack[k].call, addr |-> stack[k].addr,
                              hash |-> <<stack[k].func, stack[k].addr>>]
        /\ returned # None =>
              /\ tree.prev = "return"
              /\ gone \in DOMAIN calls
              /\ calls[gone].func = returned /\ calls[gone].exit = Len(trace)
              /\ calls[gone].parent = IF stack = <<>> THEN None ELSE Last(stack).call
        /\ \A n \in DOMAIN calls : calls[n].exit = Len(trace) => returned # None /\ n = gone

TreeInv ==
    /\ TreeTypeOK
    /\ CallsNest /\ StackIsCalls /\ LiveIsStack
    /\ TreeIsTruth /\ CurrentIsShown

(* The inductive invariant behind ArgumentsAreOwn.  A frame that shows the *)
(* argument of a call is the frame of that call, which has not returned.   *)
FramesAreOwn ==
    /\ \A s \in DOMAIN trace : \A k \in DOMAIN trace[s].frames :
          trace[s].frames[k].arg \in Nat => trace[s].frames[k].arg \in DOMAIN calls
    /\ \A n \in DOMAIN calls, s \in DOMAIN trace : \A k \in DOMAIN trace[s].frames :
          trace[s].frames[k].arg = n =>
             /\ Depth(tree, n) = k /\ calls[n].func = trace[s].frames[k].func
             /\ calls[n].enter <= s /\ (calls[n].exit = None \/ s < calls[n].exit)

(* The frame that a call has at a point, and whether it bears its name.    *)
FrameOf(n, s) == trace[s].frames[Depth(tree, n)]
IsNamed(n, s) ==
    Depth(tree, n) \in DOMAIN trace[s].frames /\ FrameOf(n, s).func = calls[n].func

(* As long as a call runs, a frame in its place that bears its name shows  *)
(* its argument or none; and a caller has its argument when it calls.      *)
ArgumentsHold ==
    \A n \in DOMAIN calls, s \in DOMAIN trace :
       /\ calls[n].enter <= s /\ (calls[n].exit = None \/ s < calls[n].exit)
       /\ IsNamed(n, s)
       => FrameOf(n, s).arg \in {n, None}
CallersAreSet ==
    \A n, p \in DOMAIN calls, s \in DOMAIN trace :
       calls[n].parent = p /\ calls[n].enter = s => IsNamed(p, s) /\ FrameOf(p, s).arg = p

LabelsAreOwn == \A n \in DOMAIN tree.nodes : tree.nodes[n].label \in {n, None}

ArgumentInv == FramesAreOwn /\ ArgumentsHold /\ CallersAreSet /\ LabelsAreOwn

-----------------------------------------------------------------------------
(* The inductive invariant behind NoOverlap.  A frame of the stack is of   *)
(* the last call of its depth, so that of two calls of one depth the later *)
(* has the later caller, or the same.                                      *)
SizesAreNatural == Gap \in Nat /\ \A f \in Name : Width[f] \in Nat

StackIsLast ==
    \A k \in DOMAIN stack, n \in DOMAIN tree.nodes :
       Depth(tree, n) = k => n <= stack[k].call
CallersInOrder ==
    \A m, n \in DOMAIN tree.nodes :
       m < n /\ Depth(tree, m) = Depth(tree, n)
       => \/ tree.nodes[m].parent = tree.nodes[n].parent
          \/ tree.nodes[m].parent < tree.nodes[n].parent

LayoutInv == StackIsLast /\ CallersInOrder

=============================================================================
