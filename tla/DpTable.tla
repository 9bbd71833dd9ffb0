------------------------------- MODULE DpTable -------------------------------
(***************************************************************************)
(* The table a dynamic-programming solution fills, as the visualizer       *)
(* gathers it from a trace: which cells were written when, whether the     *)
(* writes make a recurrence, and what each of them was computed from.      *)
(*                                                                         *)
(* The program is a driver, Main, and a function, Solve, that may call     *)
(* itself.  A line is what the analysis reads of its text, Stmt[l] = [func, *)
(* lhs, reads, op, control, returns, own, lookup, calls, next]: an index   *)
(* is an offset below the frame's i, and next the lines that may follow.   *)
(* A line's effect shows at the next point.  The point after a return to   *)
(* a function of another name bears the callee's name and locals, so a     *)
(* table that lives in Main's frame is not seen there.                     *)
(***************************************************************************)
EXTENDS TracedProgram, Integers, Sequences, FiniteSets, SequencesExt

CONSTANTS
    Solve,       \* the function that Main may call
    Stmt,        \* line number |-> statement
    Size,        \* cells 0 .. Size - 1
    Val,         \* values, numbers
    Unset        \* "<UNINITIALIZED>"

VARIABLES
    home,           \* the frame, or "global", that holds the table
    keyed,          \* the table is a map
    dpStack,        \* frames: [func, i, line, fresh, guarded]
    dpReturned,     \* the function that returned at the last point, or None
    table,          \* the table's values; None where a map has no key
    dpTrace,        \* the points so far
    wrote           \* ghost: the assignments that ran: step, cell, line, evidence

dpVars == <<home, keyed, dpStack, dpReturned, table, dpTrace, wrote>>

Cell == 0..Size - 1
Header == 0                                  \* a function's own line
Blank == [func |-> None, lhs |-> None, reads |-> <<>>, op |-> None,
          control |-> FALSE, returns |-> FALSE, own |-> FALSE,
          lookup |-> FALSE, calls |-> FALSE]
Text(l) == IF l = Header THEN Blank ELSE Stmt[l]
LinesOf(f) == {l \in DOMAIN Stmt : Stmt[l].func = f}
After(f, l) == IF l = Header THEN LinesOf(f) ELSE Stmt[l].next
Top(point) == point.frames[Len(point.frames)]

-----------------------------------------------------------------------------
(* collectWrites and collectKeyedWrites: a cell is written where its value *)
(* is not the last one seen, at whatever step that was.                    *)

StepBefore(c, s, t) == s > t      \* mutant: the step before only
OutOfSight(c, s, t) == \A u \in s..t : dpTrace[u].table[c] = None

WrittenAt(s) ==
    {c \in Cell :
        LET now == dpTrace[s].table[c]
        IN  /\ now # None /\ (now = Unset => keyed)
            /\ \E t \in 1..s - 1 :
                  dpTrace[t].table[c] \notin {None, now} /\ OutOfSight(c, t + 1, s - 1)}
WriteSteps == {s \in DOMAIN dpTrace : WrittenAt(s) # {}}

CountSubscripts(l) == Len(Text(l).reads) + IF Text(l).lhs = None THEN 0 ELSE 1
IsRead(l) == CountSubscripts(l) >= 1 \/ (keyed /\ Text(l).lookup)

IsWitness(l) ==      \* control dependence on the table's own values
    /\ Text(l).control /\ Text(l).lhs = None
    /\ IF Text(l).returns THEN Text(l).own ELSE IsRead(l)

Keys(point) == {point.frames[i].key : i \in DOMAIN point.frames}

EverSeen(w, key) == 1..w - 1      \* mutant: other invocations too
Invocation(w, key) == {j \in 1..w - 1 : \A k \in j..w - 1 : key \in Keys(dpTrace[k])}

SelfRefBeforeWrite(w) ==
    LET key == Top(dpTrace[w]).key
        own == {j \in 1..w - 1 : Top(dpTrace[j]).key = key /\ IsWitness(dpTrace[j].line)}
    IN  own # {} /\ own \cap Invocation(w, key) # {}

SelfRefs(steps) ==
    {s \in steps : \/ CountSubscripts(dpTrace[s - 1].line) >= 2
                   \/ SelfRefBeforeWrite(s - 1)}

(* scoreCandidate and classify.                                            *)
Candidate(steps, selfRefs) ==
    LET funcs == {Top(dpTrace[s - 1]).func : s \in selfRefs}
        depths == {Len(dpTrace[s - 1].frames) : s \in steps}
    IN  IF Cardinality(steps) < 2 \/ Cardinality(funcs) # 1 THEN None
        ELSE IF Cardinality(depths) = 1 THEN "bottom-up" ELSE "top-down"

-----------------------------------------------------------------------------
(* What a write was computed from.  The statement, the locals and the      *)
(* operands' values are those of the point before the write shows.         *)

At(point, offset) == Top(point).i - offset

Occurrences(point) ==      \* resolveOccurrences, the target first
    LET st == Text(point.line)
        offsets == IF st.lhs = None THEN st.reads ELSE <<st.lhs>> \o st.reads
    IN  [k \in DOMAIN offsets |-> At(point, offsets[k])]

RightHand(point) ==
    LET occ == Occurrences(point)
    IN  IF Text(point.line).lhs # None THEN Tail(occ) ELSE occ

(* buildDpView: the arrows drawn at the step of a write; buildCone: the    *)
(* edges into the cell.                                                    *)
ViewPointNow(s) == dpTrace[s]      \* mutant: the statement that runs next
ViewPoint(s) == IF WrittenAt(s) # {} THEN dpTrace[s - 1] ELSE dpTrace[s]
ViewReads(s, c) == Range(RemoveFirst(RightHand(ViewPoint(s)), c))
ConeOperands(s, c) == {o \in Range(RightHand(dpTrace[s - 1])) : o # c}

(* explainWrite and pickWinner: the branch that max or min returned.       *)
Operands(s) ==
    LET point == dpTrace[s - 1]
        reads == Text(point.line).reads
    IN  [k \in DOMAIN reads |-> point.table[At(point, reads[k])]]

Winner(s) ==
    LET st == Text(dpTrace[s - 1].line)
        operand == Operands(s)
        live == {k \in DOMAIN operand : operand[k] \notin {None, Unset}}
        Beats(k, m) == IF st.op = "max" THEN operand[k] > operand[m] ELSE operand[k] < operand[m]
    IN  IF st.op = None \/ Cardinality(live) < 2 THEN None
        ELSE CHOOSE k \in live : \A m \in live \ {k} :
                Beats(k, m) \/ (~Beats(m, k) /\ k < m)

-----------------------------------------------------------------------------
(* The program and its tracer.                                             *)

FrameAt(s, n) ==      \* siblings of one depth have one address, once settled
    [func |-> s[n].func, key |-> <<s[n].func, n, s[n].fresh>>, i |-> s[n].i]
KeyedFrames(s) == [n \in DOMAIN s |-> FrameAt(s, n)]

EmitPoint(event, frames, line, values) ==
    LET hidden == home = Main /\ frames[1].func # Main
    IN  dpTrace' = Append(dpTrace, [event |-> event, frames |-> frames, line |-> line,
                                    table |-> IF hidden THEN [c \in Cell |-> None] ELSE values])

NewFrame(f, i) == [func |-> f, i |-> i, line |-> Header, fresh |-> TRUE,
                   guarded |-> FALSE]

(* The table starts empty, unset or filled; main's first line may stand on *)
(* the line of its brace.                                                  *)
DpInit ==
    /\ home \in {Main, "global"}
    /\ keyed \in BOOLEAN
    /\ table \in IF keyed THEN {[c \in Cell |-> None]}
                ELSE {[c \in Cell |-> Unset], [c \in Cell |-> Size - 1 - c]}
    /\ \E i \in Cell, l \in {Header} \cup LinesOf(Main) :
          dpStack = <<[NewFrame(Main, i) EXCEPT !.line = l]>>
    /\ dpTrace = <<[event |-> "step_line", frames |-> KeyedFrames(dpStack),
                    line |-> dpStack[1].line, table |-> table]>>
    /\ dpReturned = None
    /\ wrote = {}

Running == dpStack[Len(dpStack)]
Pending == Text(Running.line)

(* The value a line assigns: what max or min finds, or any.                *)
Results ==
    LET operand == [k \in DOMAIN Pending.reads |-> table[Running.i - Pending.reads[k]]]
    IN  IF Pending.op = None THEN Val
        ELSE {v \in Range(operand) : \A u \in Range(operand) :
                IF Pending.op = "max" THEN v >= u ELSE v <= u}

InRange ==
    /\ \A k \in DOMAIN Pending.reads : Running.i - Pending.reads[k] \in Cell
    /\ Pending.op # None =>
          \A k \in DOMAIN Pending.reads : table[Running.i - Pending.reads[k]] \in Val
    /\ Pending.lhs # None => Running.i - Pending.lhs \in Cell

(* The pending line runs to its end; then another line, or the return,     *)
(* which next lists as the header.                                         *)
Run(next, i, event) ==
    /\ dpReturned = None
    /\ InRange
    /\ IF Pending.lhs = None THEN UNCHANGED <<table, wrote>>
       ELSE \E v \in Results :
              LET c == Running.i - Pending.lhs
              IN  /\ table' = [table EXCEPT ![c] = v]
                  /\ wrote' = wrote \cup
                       {[step |-> Len(dpTrace) + 1, cell |-> c, line |-> Running.line,
                         reads |-> {Running.i - Pending.reads[k] : k \in DOMAIN Pending.reads},
                         depth |-> Len(dpStack), changed |-> table[c] \notin {None, v},
                         evidence |-> Pending.reads # <<>> \/ Running.guarded]}
    /\ dpStack' = [dpStack EXCEPT ![Len(dpStack)] =
          [Running EXCEPT !.line = next, !.i = i, !.fresh = FALSE,
                          !.guarded = Running.guarded \/ IsWitness(Running.line)]]
    /\ EmitPoint(event, KeyedFrames(dpStack'), next, table')
    /\ UNCHANGED <<home, keyed>>

NextLine ==
    /\ \E next \in After(Running.func, Running.line) \ {Header} :
       \E i \in IF Running.func = Main THEN {Running.i, Running.i + 1} \cap Cell ELSE {Running.i} :
          Run(next, i, "step_line")
    /\ dpReturned' = None

ReturnSolve ==
    /\ Len(dpStack) > 1 /\ Header \in After(Running.func, Running.line)
    /\ Run(Running.line, Running.i, "return")
    /\ dpReturned' = Running.func

(* The line calls; a map's operator[] has made the key before that.        *)
CallSolve(i) ==
    /\ dpReturned = None /\ Pending.calls /\ InRange
    /\ Len(dpStack) < MaxDepth
    /\ table' = IF keyed /\ Pending.lhs # None /\ table[Running.i - Pending.lhs] = None
                THEN [table EXCEPT ![Running.i - Pending.lhs] = 0] ELSE table
    /\ dpStack' = Append(dpStack, NewFrame(Solve, i))
    /\ EmitPoint("call", KeyedFrames(dpStack'), Header, table')
    /\ UNCHANGED <<home, keyed, dpReturned, wrote>>

LagSolve ==
    /\ dpReturned # None
    /\ dpStack' = SubSeq(dpStack, 1, Len(dpStack) - 1)
    /\ LET n == Len(dpStack) - 1
           own == FrameAt(dpStack', n)
           seen == IF own.func = dpReturned THEN own
                   ELSE [func |-> dpReturned, key |-> <<dpReturned, n, FALSE>>, i |-> Running.i]
       IN  EmitPoint("step_line", [KeyedFrames(dpStack') EXCEPT ![n] = seen], dpStack[n].line, table)
    /\ dpReturned' = None
    /\ UNCHANGED <<home, keyed, table, wrote>>

DpNext ==
    /\ Len(dpTrace) < MaxSteps
    /\ \/ NextLine
       \/ ReturnSolve
       \/ LagSolve \/ \E i \in Cell : CallSolve(i)

DpSpec == DpInit /\ [][DpNext]_dpVars

-----------------------------------------------------------------------------
(* A write is recorded only where an assignment ran, at the step its       *)
(* effect shows, and every assignment that changed a value is recorded: a  *)
(* frame that drops out of the trace for a step, or a key that a map makes *)
(* for itself, is not a write (writes.ts:60-68, keyedWrites.ts:53-66).     *)
WritesAreReal ==
    /\ \A s \in DOMAIN dpTrace : \A c \in WrittenAt(s) :
          \E e \in wrote : e.step = s /\ e.cell = c
    /\ \A e \in wrote : e.changed => e.cell \in WrittenAt(e.step)

(* A write counts as a recurrence only if its own line reads the table, or *)
(* the very invocation that wrote has branched on the table or handed its  *)
(* value back: never by another invocation's reads (writes.ts:135-160);    *)
(* and a table filled at one depth is one that only one depth wrote.       *)
NeverLies ==
    LET steps == WriteSteps
        selfRefs == SelfRefs(steps)
    IN  /\ \A s \in selfRefs : \E e \in wrote : e.step = s /\ e.evidence
        /\ Candidate(steps, selfRefs) = "bottom-up" =>
             \A d, e \in wrote : {d.step, e.step} \subseteq steps => d.depth = e.depth

(* Where no callee of another name has just returned, the arrows of the    *)
(* view and the edges of the cone are the cells that the assignment read,  *)
(* but for its target, and the winning branch holds the value written      *)
(* (provenance.ts:28-44, cone.ts:18-35).                                   *)
OperandsAreRead ==
    \A e \in wrote :
       LET point == dpTrace[e.step - 1]
           winner == Winner(e.step)
       IN  /\ Top(point).func = Text(e.line).func
           /\ e.cell \in WrittenAt(e.step)
           => /\ ViewReads(e.step, e.cell) = e.reads \ {e.cell}
              /\ ConeOperands(e.step, e.cell) = e.reads \ {e.cell}
              /\ winner # None => Operands(e.step)[winner] = dpTrace[e.step].table[e.cell]

-----------------------------------------------------------------------------
(* The inductive invariant behind WritesAreReal and NeverLies.             *)

(* A trace tells a number from "<UNINITIALIZED>" and from no cell at all,  *)
(* and "None" is neither a function nor a verdict.                         *)
ValuesDiffer ==
    /\ Val \subseteq Int
    /\ None \notin Int /\ Unset \notin Int /\ Unset # None
    /\ None \notin {Solve, "bottom-up"}

(* What a cell was last seen to hold is what it holds: the frame of the    *)
(* table may be out of sight, but nothing is assigned meanwhile; and a key *)
(* that a map does not have was never seen.                                *)
LastSeen(c) ==
    IF table[c] = None THEN \A t \in DOMAIN dpTrace : dpTrace[t].table[c] = None
    ELSE \E t \in DOMAIN dpTrace :
            /\ dpTrace[t].table[c] = table[c]
            /\ \A u \in t + 1 .. Len(dpTrace) : dpTrace[u].table[c] = None

(* Main never returns, and only a callee has just returned.                *)
MainIsBelow ==
    /\ dpStack[1].func = Main
    /\ dpReturned # None => Len(dpStack) > 1

DpInv ==
    /\ dpStack \in Seq(Range(dpStack)) /\ dpStack # <<>>
    /\ dpTrace \in Seq(Range(dpTrace)) /\ dpTrace # <<>>
    /\ DOMAIN table = Cell
    /\ MainIsBelow
    /\ \A c \in Cell : LastSeen(c)
    /\ \A e \in wrote : e.step \in DOMAIN dpTrace /\ e.cell \in Cell
    /\ WritesAreReal

(* Main has only Solve above it, and so only Solve returns.                *)
IsFrame(f) == DOMAIN f = {"func", "i", "line", "fresh", "guarded"}
SolveIsAbove ==
    /\ \A n \in DOMAIN dpStack :
          IsFrame(dpStack[n]) /\ (n > 1 => dpStack[n].func = Solve)
    /\ dpReturned \in {None, Solve}

(* The key of a frame of the stack; the key that Main bears instead at the *)
(* point after Solve has returned to it.                                   *)
KeyAt(n) == <<dpStack[n].func, n, dpStack[n].fresh>>
Misnamed(key) == Len(dpStack) = 1 /\ Main # Solve /\ key = <<Solve, 1, FALSE>>

(* The last point shows the frame that runs, and the line it is about to   *)
(* run.                                                                    *)
PointIsTop ==
    LET point == dpTrace[Len(dpTrace)]
    IN  /\ Len(point.frames) = Len(dpStack) /\ DOMAIN point.frames = 1..Len(dpStack)
        /\ Top(point).key = KeyAt(Len(dpStack)) \/ Misnamed(Top(point).key)
        /\ point.line = Running.line

(* A frame that has been in sight since it was about to run a witness has  *)
(* run it, or still is about to.                                           *)
InSight(j) == \A k \in j..Len(dpTrace) : Top(dpTrace[j]).key \in Keys(dpTrace[k])
HasRun(j) ==
    \E n \in DOMAIN dpStack :
       /\ KeyAt(n) = Top(dpTrace[j]).key
       /\ dpStack[n].guarded \/ dpStack[n].line = dpTrace[j].line
WitnessesRun ==
    \A j \in DOMAIN dpTrace :
       IsWitness(dpTrace[j].line) /\ InSight(j) =>
          HasRun(j) \/ (j = Len(dpTrace) /\ Misnamed(Top(dpTrace[j]).key))

(* What counts as evidence at the point before a write was noted as such.  *)
EvidenceIsNoted ==
    \A e \in wrote :
       /\ e.step - 1 \in DOMAIN dpTrace
       /\ e.depth = Len(dpTrace[e.step - 1].frames)
       /\ \/ CountSubscripts(dpTrace[e.step - 1].line) >= 2
          \/ SelfRefBeforeWrite(e.step - 1)
          => e.evidence

EvidenceInv == SolveIsAbove /\ PointIsTop /\ WitnessesRun /\ EvidenceIsNoted

-----------------------------------------------------------------------------
(* The inductive invariant behind OperandsAreRead.                         *)

(* Offsets are numbers, a line leads to lines of its own function, and a   *)
(* statement reads the cell that it assigns at most once: of two, RightHand *)
(* would leave one.                                                        *)
TextIsPlain ==
    /\ Size \in Nat
    /\ \A l \in DOMAIN Stmt :
          /\ Stmt[l].reads \in Seq(Int) /\ Stmt[l].lhs \in Int \cup {None}
          /\ Stmt[l].next \ {Header} \subseteq LinesOf(Stmt[l].func)
          /\ \A j, k \in DOMAIN Stmt[l].reads :
                Stmt[l].reads[j] = Stmt[l].lhs /\ Stmt[l].reads[k] = Stmt[l].lhs => j = k

(* A frame stands at a line of its function.                               *)
FramesAreAtLines ==
    \A n \in DOMAIN dpStack :
       /\ dpStack[n].i \in Cell
       /\ dpStack[n].line \in {Header} \cup LinesOf(dpStack[n].func)

(* The last point shows the locals of the frame that runs, if it bears its *)
(* name, and the table, if it is in sight.                                 *)
LocalsAreShown ==
    LET point == dpTrace[Len(dpTrace)]
    IN  /\ Top(point).func = Running.func => Top(point).i = Running.i
        /\ point.table \in {table, [c \in Cell |-> None]}

(* What max or min is of these values.                                     *)
IsBest(op, v, values) ==
    /\ Range(values) \subseteq Val /\ v \in Range(values)
    /\ \A u \in Range(values) : IF op = "max" THEN v >= u ELSE v <= u

(* What a write has read is what the point before it shows: the locals     *)
(* that its line counts from, and the values that it chose the best of.    *)
IsNoted(e, point, result, values) ==
    LET st == Text(point.line)
    IN  /\ point.line = e.line /\ e.line \in DOMAIN Stmt \ {Header} /\ st.lhs # None
        /\ Top(point).func = st.func =>
              /\ Top(point).i \in Int /\ e.cell = At(point, st.lhs)
              /\ e.reads = {At(point, st.reads[k]) : k \in DOMAIN st.reads}
              /\ st.op # None => Range(values) \subseteq {None} \/ IsBest(st.op, result, values)
OperandsAreNoted ==
    \A e \in wrote :
       /\ e.step - 1 \in DOMAIN dpTrace /\ e.step \in DOMAIN dpTrace
       /\ IsNoted(e, dpTrace[e.step - 1], dpTrace[e.step].table[e.cell], Operands(e.step))

OperandInv == FramesAreAtLines /\ LocalsAreShown /\ OperandsAreNoted

=============================================================================
