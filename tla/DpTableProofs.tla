---------------------------- MODULE DpTableProofs ----------------------------
(***************************************************************************)
(* The writes that the table of a dynamic program reports are the          *)
(* assignments that ran, what it calls a recurrence has its evidence, and  *)
(* the arrows that it draws are what was read, for any program text,       *)
(* table, values and bounds.                                               *)
(***************************************************************************)
EXTENDS DpTable, TLAPS, CommonLemmas, FiniteSetTheorems

-----------------------------------------------------------------------------
(* What is read off a trace that grows.                                    *)

\* A point that follows says nothing of the writes before it.
LEMMA PastStays ==
    ASSUME dpTrace \in Seq(Range(dpTrace)), NEW point, dpTrace' = Append(dpTrace, point),
           UNCHANGED keyed, NEW s \in DOMAIN dpTrace
    PROVE  WrittenAt(s)' = WrittenAt(s)
<1>1. /\ Len(dpTrace) \in Nat /\ DOMAIN dpTrace = 1..Len(dpTrace)
      /\ \A i \in 1..Len(dpTrace) : dpTrace'[i] = dpTrace[i]
  BY GrowProperties
<1>2. s \in 1..Len(dpTrace) /\ dpTrace'[s] = dpTrace[s]
  BY <1>1
<1>3. \A t \in 1..s - 1 : t \in 1..Len(dpTrace) /\ dpTrace'[t] = dpTrace[t]
  BY <1>1, <1>2
<1>4. ASSUME NEW c, NEW t \in 1..s - 1
      PROVE  OutOfSight(c, t + 1, s - 1)' <=> OutOfSight(c, t + 1, s - 1)
  <2>1. \A u \in t + 1..s - 1 : u \in 1..s - 1
    BY <1>1, <1>2
  <2>. QED BY <1>3, <2>1 DEF OutOfSight
<1>5. ASSUME NEW c \in Cell
      PROVE  (c \in WrittenAt(s))' <=> c \in WrittenAt(s)
  <2>1. (c \in WrittenAt(s))' <=>
          /\ dpTrace'[s].table[c] # None /\ (dpTrace'[s].table[c] = Unset => keyed')
          /\ \E t \in 1..s - 1 :
                /\ dpTrace'[t].table[c] \notin {None, dpTrace'[s].table[c]}
                /\ OutOfSight(c, t + 1, s - 1)'
    BY DEF WrittenAt, Cell
  <2>2. c \in WrittenAt(s) <=>
          /\ dpTrace[s].table[c] # None /\ (dpTrace[s].table[c] = Unset => keyed)
          /\ \E t \in 1..s - 1 :
                /\ dpTrace[t].table[c] \notin {None, dpTrace[s].table[c]}
                /\ OutOfSight(c, t + 1, s - 1)
    BY DEF WrittenAt
  <2>. QED BY <1>2, <1>3, <1>4, <2>1, <2>2
<1>. QED BY <1>5 DEF WrittenAt

\* The point that follows shows a write of the cells that were seen to hold
\* something else.
LEMMA NowWritten ==
    ASSUME dpTrace \in Seq(Range(dpTrace)), NEW point, dpTrace' = Append(dpTrace, point),
           UNCHANGED keyed, NEW c \in Cell, LastSeen(c),
           NEW new, new = Len(dpTrace) + 1
    PROVE  (c \in WrittenAt(new)') <=>
              /\ point.table[c] # None /\ table[c] # None
              /\ table[c] # point.table[c]
              /\ point.table[c] = Unset => keyed
<1> DEFINE Shows(t) == dpTrace[t].table[c]
           Hidden(t) == \A u \in t + 1..Len(dpTrace) : Shows(u) = None
<1>1. /\ Len(dpTrace) \in Nat /\ DOMAIN dpTrace = 1..Len(dpTrace)
      /\ \A i \in 1..Len(dpTrace) : dpTrace'[i] = dpTrace[i]
      /\ dpTrace'[new] = point /\ new - 1 = Len(dpTrace)
  BY GrowProperties
<1>2. (c \in WrittenAt(new)') <=>
        /\ point.table[c] # None /\ (point.table[c] = Unset => keyed)
        /\ \E t \in 1..Len(dpTrace) : Shows(t) \notin {None, point.table[c]} /\ Hidden(t)
  <2>1. (c \in WrittenAt(new)') <=>
          /\ dpTrace'[new].table[c] # None /\ (dpTrace'[new].table[c] = Unset => keyed')
          /\ \E t \in 1..new - 1 :
                /\ dpTrace'[t].table[c] \notin {None, dpTrace'[new].table[c]}
                /\ \A u \in t + 1..new - 1 : dpTrace'[u].table[c] = None
    BY DEF WrittenAt, OutOfSight
  <2>2. \A t \in 1..Len(dpTrace) : \A u \in t + 1..Len(dpTrace) : u \in 1..Len(dpTrace)
    BY <1>1
  <2>. QED BY <1>1, <2>1, <2>2
<1>3. CASE table[c] = None
  <2>1. \A t \in 1..Len(dpTrace) : Shows(t) = None
    BY <1>1, <1>3 DEF LastSeen
  <2>. QED BY <1>2, <1>3, <2>1
<1>4. CASE table[c] # None
  <2>1. PICK t \in 1..Len(dpTrace) : Shows(t) = table[c] /\ Hidden(t)
    BY <1>1, <1>4 DEF LastSeen
  <2>2. ASSUME NEW u \in 1..Len(dpTrace), Shows(u) # None, Hidden(u) PROVE u = t
    <3>1. ~(u > t) /\ ~(t > u)
      BY <1>1, <1>4, <2>1, <2>2
    <3>. QED BY <3>1
  <2>. QED BY <1>2, <1>4, <2>1, <2>2
<1>. QED BY <1>3, <1>4

\* What was seen last stays so: the new point shows the table, or it shows
\* nothing and nothing has changed.
LEMMA LastSeenKept ==
    ASSUME dpTrace \in Seq(Range(dpTrace)), NEW point, dpTrace' = Append(dpTrace, point),
           NEW c \in Cell, LastSeen(c),
           \/ point.table[c] = table'[c] /\ (table'[c] = None => table[c] = None)
           \/ point.table[c] = None /\ table'[c] = table[c]
    PROVE  LastSeen(c)'
<1> DEFINE new == Len(dpTrace) + 1
<1>1. /\ Len(dpTrace) \in Nat /\ DOMAIN dpTrace = 1..Len(dpTrace)
      /\ \A i \in 1..Len(dpTrace) : dpTrace'[i] = dpTrace[i]
      /\ dpTrace'[new] = point /\ Len(dpTrace') = new /\ DOMAIN dpTrace' = 1..new
  BY GrowProperties
<1>2. CASE table'[c] = None
  <2>1. table[c] = None /\ point.table[c] = None
    BY <1>2
  <2>2. \A t \in 1..Len(dpTrace) : dpTrace'[t].table[c] = None
    BY <1>1, <2>1 DEF LastSeen
  <2>3. \A t \in DOMAIN dpTrace' : t \in 1..Len(dpTrace) \/ t = new
    BY <1>1
  <2>. QED BY <1>1, <1>2, <2>1, <2>2, <2>3 DEF LastSeen
<1>3. CASE table'[c] # None /\ point.table[c] = table'[c]
  <2>1. new \in DOMAIN dpTrace' /\ dpTrace'[new].table[c] = table'[c]
    BY <1>1, <1>3
  <2>2. \A u \in new + 1 .. Len(dpTrace') : dpTrace'[u].table[c] = None
    BY <1>1
  <2>. QED BY <1>3, <2>1, <2>2 DEF LastSeen
<1>4. CASE table'[c] # None /\ point.table[c] = None /\ table'[c] = table[c]
  <2>1. PICK t \in 1..Len(dpTrace) :
          /\ dpTrace[t].table[c] = table[c]
          /\ \A u \in t + 1 .. Len(dpTrace) : dpTrace[u].table[c] = None
    BY <1>1, <1>4 DEF LastSeen
  <2>2. t \in DOMAIN dpTrace' /\ dpTrace'[t].table[c] = table'[c]
    BY <1>1, <1>4, <2>1
  <2>3. ASSUME NEW u \in t + 1 .. Len(dpTrace') PROVE dpTrace'[u].table[c] = None
    <3>1. u = new \/ (u \in t + 1 .. Len(dpTrace) /\ u \in 1..Len(dpTrace))
      BY <1>1
    <3>. QED BY <1>1, <1>4, <2>1, <3>1
  <2>. QED BY <1>4, <2>2, <2>3 DEF LastSeen
<1>. QED BY <1>2, <1>3, <1>4

-----------------------------------------------------------------------------
(* The steps.                                                              *)

\* A step keeps the invariant if what it changes of a cell that has a value is an
\* assignment, noted at the new point, and what it notes is an assignment.
LEMMA StepKeeps ==
    ASSUME DpInv, NEW point, dpTrace' = Append(dpTrace, point), UNCHANGED keyed,
           dpStack' \in Seq(Range(dpStack')), dpStack' # <<>>, MainIsBelow', DOMAIN table' = Cell,
           \A c \in Cell :
              \/ point.table[c] = table'[c] /\ (table'[c] = None => table[c] = None)
              \/ point.table[c] = None /\ table'[c] = table[c],
           wrote \subseteq wrote',
           \A c \in Cell : table[c] # None /\ table'[c] # table[c] =>
              \E e \in wrote' : e.step = Len(dpTrace) + 1 /\ e.cell = c,
           \A e \in wrote' \ wrote :
              /\ e.step = Len(dpTrace) + 1 /\ e.cell \in Cell
              /\ e.changed => /\ table[e.cell] # None
                              /\ point.table[e.cell] \notin {None, Unset, table[e.cell]}
    PROVE  DpInv'
<1> DEFINE new == Len(dpTrace) + 1
<1>1. /\ dpTrace \in Seq(Range(dpTrace)) /\ dpTrace # <<>> /\ WritesAreReal
      /\ \A c \in Cell : LastSeen(c)
      /\ \A e \in wrote : e.step \in DOMAIN dpTrace /\ e.cell \in Cell
  BY DEF DpInv
<1>2. /\ Len(dpTrace) \in Nat /\ DOMAIN dpTrace = 1..Len(dpTrace) /\ DOMAIN dpTrace' = 1..new
      /\ dpTrace' \in Seq(Range(dpTrace')) /\ dpTrace' # <<>>
  BY <1>1, GrowProperties
<1>3. \A c \in Cell : LastSeen(c)'
  BY <1>1, LastSeenKept
<1>4. \A e \in wrote' : e.step \in DOMAIN dpTrace' /\ e.cell \in Cell
  BY <1>1, <1>2
<1>5. \A s \in DOMAIN dpTrace : WrittenAt(s)' = WrittenAt(s)
  BY <1>1, PastStays
<1>6. ASSUME NEW s \in DOMAIN dpTrace', NEW c \in WrittenAt(s)'
      PROVE  \E e \in wrote' : e.step = s /\ e.cell = c
  <2>1. CASE s \in DOMAIN dpTrace
    <3>1. c \in WrittenAt(s)
      BY <1>5, <2>1
    <3>. QED BY <1>1, <2>1, <3>1 DEF WritesAreReal
  <2>2. CASE s = new
    <3>1. c \in Cell
      BY DEF WrittenAt, Cell
    <3>2. /\ point.table[c] # None /\ table[c] # None
          /\ table[c] # point.table[c]
      BY <1>1, <2>2, <3>1, NowWritten
    <3>3. table'[c] # table[c]
      BY <3>1, <3>2
    <3>. QED BY <2>2, <3>1, <3>2, <3>3
  <2>. QED BY <1>2, <2>1, <2>2
<1>7. ASSUME NEW e \in wrote', e.changed PROVE e.cell \in WrittenAt(e.step)'
  <2>1. CASE e \in wrote
    <3>1. e.cell \in WrittenAt(e.step) /\ e.step \in DOMAIN dpTrace
      BY <1>1, <1>7, <2>1 DEF WritesAreReal
    <3>. QED BY <1>5, <3>1
  <2>2. CASE e \notin wrote
    <3>1. /\ e.step = new /\ e.cell \in Cell /\ table[e.cell] # None
          /\ point.table[e.cell] \notin {None, Unset, table[e.cell]}
      BY <1>7, <2>2
    <3>2. ASSUME NEW c, c = e.cell PROVE c \in WrittenAt(e.step)'
      BY <1>1, <3>1, <3>2, NowWritten
    <3>. QED BY <3>2
  <2>. QED BY <2>1, <2>2
<1>8. WritesAreReal'
  BY <1>6, <1>7 DEF WritesAreReal
<1>. QED BY <1>2, <1>3, <1>4, <1>8 DEF DpInv

\* What a point shows: the table, where Main is outermost; at least nothing else.
LEMMA EmitShows ==
    ASSUME NEW event, NEW frames, NEW line, NEW values, EmitPoint(event, frames, line, values)
    PROVE  \E point :
              /\ dpTrace' = Append(dpTrace, point)
              /\ point.frames = frames /\ point.line = line
              /\ \/ point.table = values
                 \/ point.table = [c \in Cell |-> None] /\ frames[1].func # Main
<1> DEFINE hidden == home = Main /\ frames[1].func # Main
           point == [event |-> event, frames |-> frames, line |-> line,
                     table |-> IF hidden THEN [c \in Cell |-> None] ELSE values]
<1>1. dpTrace' = Append(dpTrace, point)
  BY DEF EmitPoint
<1>2. /\ point.frames = frames /\ point.line = line
      /\ point.table = IF hidden THEN [c \in Cell |-> None] ELSE values
  OBVIOUS
<1>. HIDE DEF point
<1>. QED BY <1>1, <1>2

LEMMA StackShape ==
    ASSUME DpInv
    PROVE  /\ dpStack \in Seq(Range(dpStack)) /\ dpStack # <<>>
           /\ Len(dpStack) \in Nat \ {0} /\ dpStack[1].func = Main
           /\ DOMAIN dpStack = 1..Len(dpStack)
BY SequenceShape DEF DpInv, MainIsBelow

\* The value a line assigns is one of the program's.
LEMMA ResultsAreValues ==
    ASSUME InRange
    PROVE  Results \subseteq Val
<1> DEFINE operand == [k \in DOMAIN Pending.reads |-> table[Running.i - Pending.reads[k]]]
<1>1. CASE Pending.op = None
  BY <1>1 DEF Results
<1>2. CASE Pending.op # None
  <2>1. \A k \in DOMAIN operand : operand[k] \in Val
    BY <1>2 DEF InRange
  <2>2. Range(operand) \subseteq Val
    BY <2>1 DEF Range
  <2>3. Results \subseteq Range(operand)
    BY <1>2 DEF Results
  <2>. QED BY <2>2, <2>3
<1>. QED BY <1>1, <1>2

\* A line that runs to its end.
LEMMA RunKeeps ==
    ASSUME ValuesDiffer, DpInv, NEW next, NEW i, NEW event, Run(next, i, event),
           dpReturned' # None => Len(dpStack) > 1
    PROVE  DpInv'
<1> DEFINE top == Len(dpStack)
           frame == [Running EXCEPT !.line = next, !.i = i, !.fresh = FALSE,
                        !.guarded = Running.guarded \/ IsWitness(Running.line)]
<1>1. /\ dpStack \in Seq(Range(dpStack)) /\ dpStack # <<>>
      /\ top \in Nat \ {0} /\ DOMAIN dpStack = 1..top /\ dpStack[1].func = Main
  BY StackShape
<1>2. dpStack' = [dpStack EXCEPT ![top] = frame]
  BY <1>1 DEF Run
<1>3. frame.func = dpStack[top].func
  BY DEF Running
<1>. HIDE DEF frame
<1>4. /\ dpStack' \in Seq(Range(dpStack')) /\ dpStack' # <<>> /\ Len(dpStack') = top
      /\ \A n \in 1..top - 1 : dpStack'[n] = dpStack[n]
      /\ dpStack'[top] = frame
  <2>. DEFINE r == [dpStack EXCEPT ![Len(dpStack)] = frame]
  <2>1. /\ r \in Seq(Range(r)) /\ r # <<>>
        /\ Len(dpStack) \in Nat \ {0} /\ Len(r) = Len(dpStack)
        /\ \A n \in 1..Len(dpStack) - 1 : r[n] = dpStack[n]
        /\ r[Len(dpStack)] = frame
    BY <1>1, ReplaceProperties
  <2>. QED BY <1>2, <2>1
<1>5. dpStack'[1].func = Main
  BY <1>1, <1>3, <1>4
<1>6. MainIsBelow'
  BY <1>4, <1>5 DEF MainIsBelow
<1>7. KeyedFrames(dpStack')[1].func = Main
  <2>1. 1 \in DOMAIN dpStack'
    BY <1>1, <1>4, SequenceShape
  <2>. QED BY <1>5, <2>1 DEF KeyedFrames, FrameAt
<1>8. EmitPoint(event, KeyedFrames(dpStack'), next, table')
  BY DEF Run
<1>9. PICK point : dpTrace' = Append(dpTrace, point) /\ point.table = table'
  BY <1>7, <1>8, EmitShows
<1>10. UNCHANGED keyed /\ DOMAIN table = Cell
  BY DEF Run, DpInv
<1>11. CASE Pending.lhs = None
  <2>1. UNCHANGED <<table, wrote>>
    BY <1>11 DEF Run
  <2>. QED BY <1>4, <1>6, <1>9, <1>10, <2>1, StepKeeps
<1>12. CASE Pending.lhs # None
  <2> DEFINE c == Running.i - Pending.lhs
  <2>1. c \in Cell /\ InRange
    BY <1>12 DEF Run, InRange
  <2>2. PICK v \in Results :
           /\ table' = [table EXCEPT ![c] = v]
           /\ wrote' = wrote \cup
                {[step |-> Len(dpTrace) + 1, cell |-> c, line |-> Running.line,
                  reads |-> {Running.i - Pending.reads[k] : k \in DOMAIN Pending.reads},
                  depth |-> Len(dpStack), changed |-> table[c] \notin {None, v},
                  evidence |-> Pending.reads # <<>> \/ Running.guarded]}
    BY <1>12 DEF Run
  <2>3. v \notin {None, Unset}
    BY <2>1, ResultsAreValues DEF ValuesDiffer
  <2>. HIDE DEF c
  <2>4. PICK e : /\ wrote' = wrote \cup {e}
                 /\ e.step = Len(dpTrace) + 1 /\ e.cell = c
                 /\ e.changed = (table[c] \notin {None, v})
    <3> DEFINE note == [step |-> Len(dpTrace) + 1, cell |-> c, line |-> Running.line,
                  reads |-> {Running.i - Pending.reads[k] : k \in DOMAIN Pending.reads},
                  depth |-> Len(dpStack), changed |-> table[c] \notin {None, v},
                  evidence |-> Pending.reads # <<>> \/ Running.guarded]
    <3>1. /\ note.step = Len(dpTrace) + 1 /\ note.cell = c
          /\ note.changed = (table[c] \notin {None, v})
      OBVIOUS
    <3>2. wrote' = wrote \cup {note}
      BY <2>2
    <3>. HIDE DEF note
    <3>. QED BY <3>1, <3>2
  <2>5. DOMAIN table' = Cell /\ table'[c] = v /\ \A d \in Cell \ {c} : table'[d] = table[d]
    BY <1>10, <2>1, <2>2
  <2>6. \A d \in Cell : table'[d] = None => table[d] = None
    BY <2>3, <2>5
  <2>7. \A d \in Cell : table'[d] # table[d] => d = c
    BY <2>5
  <2>. QED BY <1>4, <1>6, <1>9, <1>10, <2>1, <2>3, <2>4, <2>5, <2>6, <2>7, StepKeeps
<1>. QED BY <1>11, <1>12

LEMMA NextLineKeeps ==
    ASSUME ValuesDiffer, DpInv, NextLine
    PROVE  DpInv'
<1>1. PICK next, i : Run(next, i, "step_line") /\ dpReturned' = None
  BY DEF NextLine
<1>. QED BY <1>1, RunKeeps

LEMMA ReturnKeeps ==
    ASSUME ValuesDiffer, DpInv, ReturnSolve
    PROVE  DpInv'
<1>1. Run(Running.line, Running.i, "return") /\ Len(dpStack) > 1
  BY DEF ReturnSolve
<1>. QED BY <1>1, RunKeeps

\* A map's operator[] gives a value only to a cell that had none.
LEMMA CallKeeps ==
    ASSUME ValuesDiffer, DpInv, NEW i, CallSolve(i)
    PROVE  DpInv'
<1> DEFINE c == Running.i - Pending.lhs
           frame == NewFrame(Solve, i)
<1>1. /\ dpStack \in Seq(Range(dpStack)) /\ dpStack # <<>>
      /\ Len(dpStack) \in Nat \ {0} /\ dpStack[1].func = Main
  BY StackShape
<1>2. dpStack' = Append(dpStack, frame) /\ dpReturned' = None /\ UNCHANGED <<keyed, wrote>>
  BY DEF CallSolve
<1>. HIDE DEF frame
<1>3. /\ dpStack' \in Seq(Range(dpStack')) /\ dpStack' # <<>> /\ DOMAIN dpStack' = 1..Len(dpStack) + 1
      /\ \A n \in 1..Len(dpStack) : dpStack'[n] = dpStack[n]
  BY <1>1, <1>2, GrowProperties
<1>4. dpStack'[1].func = Main /\ 1 \in DOMAIN dpStack'
  BY <1>1, <1>3
<1>5. MainIsBelow'
  BY <1>2, <1>4 DEF MainIsBelow
<1>6. KeyedFrames(dpStack')[1].func = Main
  BY <1>4 DEF KeyedFrames, FrameAt
<1>7. EmitPoint("call", KeyedFrames(dpStack'), Header, table')
  BY DEF CallSolve
<1>8. PICK point : dpTrace' = Append(dpTrace, point) /\ point.table = table'
  BY <1>6, <1>7, EmitShows
<1>9. /\ DOMAIN table = Cell
      /\ \/ table' = table
         \/ table' = [table EXCEPT ![c] = 0] /\ table[c] = None
  BY DEF CallSolve, DpInv
<1>. HIDE DEF c
<1>10. DOMAIN table' = Cell /\ \A d \in Cell : table'[d] = table[d] \/ (table'[d] = 0 /\ table[d] = None)
  BY <1>9
<1>11. 0 # None
  BY DEF ValuesDiffer
<1>12. \A d \in Cell : /\ table'[d] = None => table[d] = None
                       /\ table[d] # None => table'[d] = table[d]
  BY <1>10, <1>11
<1>. QED BY <1>2, <1>3, <1>5, <1>8, <1>10, <1>12, StepKeeps

\* The point after a return may hide the table, but nothing changes at it.
LEMMA LagLineKeeps ==
    ASSUME DpInv, LagSolve
    PROVE  DpInv'
<1>1. /\ dpStack \in Seq(Range(dpStack)) /\ dpStack # <<>> /\ dpStack[1].func = Main
      /\ Len(dpStack) > 1
  BY StackShape DEF DpInv, MainIsBelow, LagSolve
<1>2. dpStack' = SubSeq(dpStack, 1, Len(dpStack) - 1) /\ dpReturned' = None
      /\ UNCHANGED <<keyed, table, wrote>>
  BY DEF LagSolve
<1>3. /\ dpStack' \in Seq(Range(dpStack')) /\ dpStack' # <<>> /\ Len(dpStack) \in Nat \ {0, 1}
      /\ \A n \in 1..Len(dpStack) - 1 : dpStack'[n] = dpStack[n]
  BY <1>1, <1>2, DropProperties
<1>4. dpStack'[1].func = Main
  BY <1>1, <1>3
<1>5. MainIsBelow'
  BY <1>2, <1>4 DEF MainIsBelow
<1>6. \E frames, line : EmitPoint("step_line", frames, line, table)
  BY DEF LagSolve
<1>7. PICK point : /\ dpTrace' = Append(dpTrace, point)
                   /\ point.table = table \/ point.table = [c \in Cell |-> None]
  BY <1>6, EmitShows
<1>8. \A c \in Cell : point.table[c] = table[c] \/ point.table[c] = None
  BY <1>7
<1>9. DOMAIN table' = Cell
  BY <1>2 DEF DpInv
<1>. QED BY <1>2, <1>3, <1>5, <1>7, <1>8, <1>9, StepKeeps

LEMMA DpInitEstablishes ==
    ASSUME DpInit
    PROVE  DpInv
<1>1. PICK frame : dpStack = <<frame>> /\ frame.func = Main
  <2>1. PICK i, l : dpStack = <<[NewFrame(Main, i) EXCEPT !.line = l]>>
    BY DEF DpInit
  <2>2. [NewFrame(Main, i) EXCEPT !.line = l].func = Main
    BY DEF NewFrame
  <2>. QED BY <2>1, <2>2
<1>2. dpStack \in Seq(Range(dpStack)) /\ dpStack # <<>> /\ dpStack[1].func = Main
  BY <1>1, SingletonProperties
<1>3. PICK point : dpTrace = <<point>> /\ point.table = table
  BY DEF DpInit
<1>4. dpTrace \in Seq(Range(dpTrace)) /\ dpTrace # <<>>
  BY <1>3, SingletonProperties
<1>5. DOMAIN dpTrace = {1} /\ dpTrace[1].table = table /\ Len(dpTrace) = 1
  BY <1>3
<1>6. \A c \in Cell : LastSeen(c)
  BY <1>5 DEF LastSeen
<1>7. DOMAIN table = Cell /\ dpReturned = None /\ wrote = {}
  BY DEF DpInit
<1>8. WrittenAt(1) = {}
  BY DEF WrittenAt
<1>9. WritesAreReal
  BY <1>5, <1>7, <1>8 DEF WritesAreReal
<1>. QED BY <1>2, <1>4, <1>6, <1>7, <1>9 DEF DpInv, MainIsBelow

LEMMA DpPreserves ==
    ASSUME ValuesDiffer, DpInv, [DpNext]_dpVars
    PROVE  DpInv'
<1>1. CASE UNCHANGED dpVars
  <2>1. /\ keyed' = keyed /\ dpStack' = dpStack /\ dpReturned' = dpReturned /\ table' = table
        /\ dpTrace' = dpTrace /\ wrote' = wrote
    BY <1>1 DEF dpVars
  <2>2. ASSUME NEW s PROVE WrittenAt(s)' = WrittenAt(s)
    BY <2>1 DEF WrittenAt, OutOfSight
  <2>3. WritesAreReal'
    BY <2>1, <2>2 DEF WritesAreReal, DpInv
  <2>4. ASSUME NEW c \in Cell PROVE LastSeen(c)'
    BY <2>1 DEF LastSeen, DpInv
  <2>. QED BY <2>1, <2>3, <2>4 DEF DpInv, MainIsBelow
<1>2. CASE NextLine
  BY <1>2, NextLineKeeps
<1>3. CASE ReturnSolve
  BY <1>3, ReturnKeeps
<1>4. CASE LagSolve \/ \E i \in Cell : CallSolve(i)
  BY <1>4, CallKeeps, LagLineKeeps
<1>. QED BY <1>1, <1>2, <1>3, <1>4 DEF DpNext

-----------------------------------------------------------------------------
(* The evidence that a write is noted with.                                *)

\* The keys that a point shows are those of its frames.
LEMMA TopIsAKey ==
    ASSUME NEW point, Len(point.frames) \in DOMAIN point.frames
    PROVE  Top(point).key \in Keys(point)
BY DEF Top, Keys

\* Two keys agree in their parts.
LEMMA KeysDiffer ==
    ASSUME NEW n, NEW m, KeyAt(n)' = KeyAt(m)
    PROVE  /\ n = m /\ dpStack'[n].func = dpStack[n].func
           /\ dpStack'[n].fresh = dpStack[n].fresh
BY DEF KeyAt

\* What was in sight up to the last point, and is in sight at the next one.
LEMMA InSightEarlier ==
    ASSUME dpTrace \in Seq(Range(dpTrace)), NEW point, dpTrace' = Append(dpTrace, point),
           NEW j \in DOMAIN dpTrace, InSight(j)'
    PROVE  InSight(j) /\ Top(dpTrace[j]).key \in Keys(point)
<1>1. /\ Len(dpTrace) \in Nat /\ DOMAIN dpTrace = 1..Len(dpTrace)
      /\ \A i \in 1..Len(dpTrace) : dpTrace'[i] = dpTrace[i]
      /\ dpTrace'[Len(dpTrace) + 1] = point /\ Len(dpTrace') = Len(dpTrace) + 1
  BY GrowProperties
<1>2. j \in 1..Len(dpTrace) /\ dpTrace'[j] = dpTrace[j]
  BY <1>1
<1>3. \A k \in j..Len(dpTrace) + 1 : Top(dpTrace[j]).key \in Keys(dpTrace'[k])
  BY <1>1, <1>2 DEF InSight, Keys
<1>4. ASSUME NEW k \in j..Len(dpTrace) PROVE Top(dpTrace[j]).key \in Keys(dpTrace[k])
  <2>1. k \in 1..Len(dpTrace) /\ k \in j..Len(dpTrace) + 1
    BY <1>1, <1>2
  <2>. QED BY <1>1, <1>3, <2>1
<1>5. Len(dpTrace) + 1 \in j..Len(dpTrace) + 1
  BY <1>1, <1>2
<1>6. Top(dpTrace[j]).key \in Keys(point)
  BY <1>1, <1>3, <1>5
<1>. QED BY <1>4, <1>6 DEF InSight

\* Whether a frame referred to the table itself is settled by the points up to then.
LEMMA SelfRefStays ==
    ASSUME dpTrace \in Seq(Range(dpTrace)), NEW point, dpTrace' = Append(dpTrace, point),
           UNCHANGED keyed, NEW w \in DOMAIN dpTrace
    PROVE  SelfRefBeforeWrite(w)' <=> SelfRefBeforeWrite(w)
<1>1. /\ Len(dpTrace) \in Nat /\ DOMAIN dpTrace = 1..Len(dpTrace)
      /\ \A i \in 1..Len(dpTrace) : dpTrace'[i] = dpTrace[i]
  BY GrowProperties
<1>2. w \in 1..Len(dpTrace) /\ \A j \in 1..w - 1 : j \in 1..Len(dpTrace)
  BY <1>1
<1>3. dpTrace'[w] = dpTrace[w] /\ \A j \in 1..w - 1 : dpTrace'[j] = dpTrace[j]
  BY <1>1, <1>2
<1> DEFINE key == Top(dpTrace[w]).key
           own == {j \in 1..w - 1 : Top(dpTrace[j]).key = key /\ IsWitness(dpTrace[j].line)}
           ownNew == {j \in 1..w - 1 :
                        Top(dpTrace'[j]).key = key /\ IsWitness(dpTrace[j].line)'}
           inv == {j \in 1..w - 1 : \A k \in j..w - 1 : key \in Keys(dpTrace[k])}
           invNew == {j \in 1..w - 1 : \A k \in j..w - 1 : key \in Keys(dpTrace'[k])}
<1>4. own = ownNew
  <2>1. ASSUME NEW j \in 1..w - 1
        PROVE  IsWitness(dpTrace[j].line)' <=> IsWitness(dpTrace[j].line)
    <3>1. dpTrace'[j] = dpTrace[j]
      BY <1>3
    <3>. QED BY <3>1 DEF IsWitness, IsRead, Text, CountSubscripts
  <2>. QED BY <1>3, <2>1
<1>5. inv = invNew
  <2>1. ASSUME NEW j \in 1..w - 1, NEW k \in j..w - 1 PROVE dpTrace'[k] = dpTrace[k]
    <3>1. k \in 1..w - 1
      BY <1>2
    <3>. QED BY <1>3, <3>1
  <2>. QED BY <2>1
<1>6. SelfRefBeforeWrite(w) <=> own # {} /\ own \cap inv # {}
  BY DEF SelfRefBeforeWrite, Invocation
<1>7. SelfRefBeforeWrite(w)' <=> ownNew # {} /\ ownNew \cap invNew # {}
  BY <1>3 DEF SelfRefBeforeWrite, Invocation, Keys
<1>. QED BY <1>4, <1>5, <1>6, <1>7

\* What is shown next is the stack, where only Main may bear Solve's key.
ShowsStack(point) ==
    \A key \in Keys(point) : (\E m \in DOMAIN dpStack' : key = KeyAt(m)') \/ Misnamed(key)'

\* A frame that stays keeps what it has run, and what it was about to run.
StaysGuarded ==
    \A n \in DOMAIN dpStack \cap DOMAIN dpStack' : KeyAt(n)' = KeyAt(n) =>
       /\ dpStack[n].guarded => dpStack'[n].guarded
       /\ IsWitness(dpStack[n].line) =>
             dpStack'[n].guarded \/ dpStack'[n].line = dpStack[n].line

\* No frame is taken for another: Main's false key is not shown twice in a row, and is
\* not the key of a frame.
NoMistake(point) ==
    \A key : /\ Misnamed(key) => key \notin Keys(point)
             /\ \A n \in DOMAIN dpStack : key = KeyAt(n) => ~Misnamed(key)'

LEMMA WitnessesStep ==
    ASSUME dpTrace \in Seq(Range(dpTrace)), WitnessesRun, NEW point,
           dpTrace' = Append(dpTrace, point), UNCHANGED keyed,
           Len(dpStack') \in DOMAIN dpStack', PointIsTop',
           ShowsStack(point), StaysGuarded, NoMistake(point)
    PROVE  WitnessesRun'
<1>1. /\ Len(dpTrace) \in Nat /\ DOMAIN dpTrace = 1..Len(dpTrace)
      /\ \A i \in 1..Len(dpTrace) : dpTrace'[i] = dpTrace[i]
      /\ dpTrace'[Len(dpTrace) + 1] = point /\ Len(dpTrace') = Len(dpTrace) + 1
      /\ DOMAIN dpTrace' = 1..Len(dpTrace) + 1
  BY GrowProperties
<1>2. ASSUME NEW j \in DOMAIN dpTrace, IsWitness(dpTrace[j].line)', InSight(j)'
      PROVE  HasRun(j)'
  <2>1. dpTrace'[j] = dpTrace[j]
    BY <1>1
  <2>2. IsWitness(dpTrace[j].line)
    BY <1>2, <2>1 DEF IsWitness, IsRead, Text, CountSubscripts
  <2>3. InSight(j) /\ Top(dpTrace[j]).key \in Keys(point)
    BY <1>2, InSightEarlier
  <2>4. HasRun(j)
    <3>1. ~Misnamed(Top(dpTrace[j]).key)
      BY <2>3 DEF NoMistake
    <3>. QED BY <2>2, <2>3, <3>1 DEF WitnessesRun
  <2>5. PICK n \in DOMAIN dpStack :
          /\ KeyAt(n) = Top(dpTrace[j]).key
          /\ dpStack[n].guarded \/ dpStack[n].line = dpTrace[j].line
    BY <2>4 DEF HasRun
  <2>6. ~Misnamed(Top(dpTrace[j]).key)'
    <3>1. ASSUME NEW key, key = Top(dpTrace[j]).key PROVE ~Misnamed(key)'
      BY <2>5, <3>1 DEF NoMistake
    <3>. QED BY <2>1, <3>1 DEF Misnamed
  <2>7. PICK m \in DOMAIN dpStack' : Top(dpTrace[j]).key = KeyAt(m)'
    <3>1. ASSUME NEW key, key = Top(dpTrace[j]).key
          PROVE  \E m \in DOMAIN dpStack' : key = KeyAt(m)'
      <4>1. ~Misnamed(key)'
        BY <2>1, <2>6, <3>1 DEF Misnamed
      <4>. QED BY <2>3, <3>1, <4>1 DEF ShowsStack
    <3>. QED BY <3>1
  <2>8. n = m /\ KeyAt(n)' = KeyAt(n)
    <3>1. KeyAt(m)' = KeyAt(n)
      BY <2>5, <2>7
    <3>2. m = n
      BY <3>1, KeysDiffer
    <3>. QED BY <3>1, <3>2
  <2>9. /\ dpStack[n].guarded => dpStack'[n].guarded
        /\ IsWitness(dpStack[n].line) =>
             dpStack'[n].guarded \/ dpStack'[n].line = dpStack[n].line
    BY <2>5, <2>7, <2>8 DEF StaysGuarded
  <2>10. dpStack'[n].guarded \/ dpStack'[n].line = dpTrace[j].line
    <3>1. CASE dpStack[n].guarded
      BY <2>9, <3>1
    <3>2. CASE dpStack[n].line = dpTrace[j].line
      <4>1. IsWitness(dpStack[n].line)
        BY <2>2, <3>2
      <4>. QED BY <2>9, <3>2, <4>1
    <3>. QED BY <2>5, <3>1, <3>2
  <2>11. KeyAt(n)' = Top(dpTrace'[j]).key
    BY <2>1, <2>5, <2>8
  <2>12. n \in DOMAIN dpStack'
    BY <2>7, <2>8
  <2>. QED BY <2>1, <2>10, <2>11, <2>12 DEF HasRun, Top
<1>3. ASSUME NEW j, j = Len(dpTrace'), NEW n, n = Len(dpStack'),
             ~Misnamed(Top(dpTrace[j]).key)'
      PROVE  HasRun(j)'
  <2>1. dpTrace'[j] = point /\ j = Len(dpTrace) + 1
    BY <1>1, <1>3
  <2>2. dpTrace'[Len(dpTrace')] = point
    BY <1>3, <2>1
  <2>3. /\ Top(point).key = <<dpStack'[n].func, n, dpStack'[n].fresh>>
        /\ point.line = dpStack'[n].line
    BY <1>3, <2>1, <2>2 DEF PointIsTop, Running, KeyAt, Top, Misnamed
  <2>4. KeyAt(n)' = Top(dpTrace'[j]).key /\ dpStack'[n].line = dpTrace'[j].line
    BY <2>1, <2>3 DEF KeyAt
  <2>5. n \in DOMAIN dpStack'
    BY <1>3
  <2>. QED BY <2>4, <2>5 DEF HasRun, Top
<1>4. \A j \in DOMAIN dpTrace' : j \in DOMAIN dpTrace \/ j = Len(dpTrace')
  BY <1>1
<1>. QED BY <1>2, <1>3, <1>4 DEF WitnessesRun

\* What counts as evidence at the last point is the line's own reading, or a witness
\* that the frame has run.
LEMMA EvidenceIsOwn ==
    ASSUME dpTrace \in Seq(Range(dpTrace)), dpTrace # <<>>, WitnessesRun, PointIsTop,
           Len(dpStack) \in DOMAIN dpStack, Len(dpStack) \in Nat \ {0},
           Pending.lhs # None, NEW w, w = Len(dpTrace),
           CountSubscripts(dpTrace[w].line) >= 2 \/ SelfRefBeforeWrite(w)
    PROVE  Pending.reads # <<>> \/ Running.guarded
<1>1. /\ Len(dpTrace) \in Nat \ {0} /\ DOMAIN dpTrace = 1..Len(dpTrace)
  BY SequenceShape
<1>2. dpTrace[w].line = Running.line /\ Len(dpTrace[w].frames) = Len(dpStack)
  BY DEF PointIsTop
<1>3. CASE CountSubscripts(dpTrace[w].line) >= 2
  <2>1. Len(Pending.reads) + (IF Pending.lhs = None THEN 0 ELSE 1) >= 2
    BY <1>2, <1>3 DEF CountSubscripts, Pending
  <2>2. Len(Pending.reads) + 1 >= 2
    BY <2>1
  <2>3. ASSUME Pending.reads = <<>> PROVE FALSE
    <3>1. Len(Pending.reads) = 0
      BY <2>3
    <3>. QED BY <2>2, <3>1
  <2>. QED BY <2>3
<1>4. CASE SelfRefBeforeWrite(w)
  <2> DEFINE key == Top(dpTrace[w]).key
  <2>1. PICK j \in 1..w - 1 :
          /\ Top(dpTrace[j]).key = key /\ IsWitness(dpTrace[j].line)
          /\ \A k \in j..w - 1 : key \in Keys(dpTrace[k])
    BY <1>4 DEF SelfRefBeforeWrite, Invocation
  <2>2. key \in Keys(dpTrace[w])
    <3>1. Len(dpTrace[w].frames) \in DOMAIN dpTrace[w].frames
      BY <1>2 DEF PointIsTop
    <3>. QED BY <3>1, TopIsAKey
  <2>3. \A k \in j..Len(dpTrace) : k \in j..w - 1 \/ k = w
    BY <1>1, <2>1
  <2>4. InSight(j) /\ j \in DOMAIN dpTrace /\ j # Len(dpTrace)
    BY <1>1, <2>1, <2>2, <2>3 DEF InSight
  <2>5. HasRun(j)
    BY <2>1, <2>4 DEF WitnessesRun
  <2>6. PICK n \in DOMAIN dpStack :
          /\ KeyAt(n) = key
          /\ dpStack[n].guarded \/ dpStack[n].line = dpTrace[j].line
    BY <2>1, <2>5 DEF HasRun
  <2>7. key = KeyAt(Len(dpStack)) \/ Misnamed(key)
    BY DEF PointIsTop
  <2>. HIDE DEF key
  <2>8. n = Len(dpStack)
    BY <2>6, <2>7 DEF KeyAt, Misnamed
  <2>9. CASE dpStack[n].guarded
    BY <2>8, <2>9 DEF Running
  <2>10. CASE dpStack[n].line = dpTrace[j].line
    <3>1. IsWitness(Running.line)
      BY <2>1, <2>8, <2>10 DEF Running
    <3>. QED BY <3>1 DEF IsWitness, Pending
  <2>. QED BY <2>6, <2>9, <2>10
<1>. QED BY <1>3, <1>4

\* A write as it is noted when its line runs.
NotedNow(e) ==
    /\ e.step = Len(dpTrace) + 1 /\ e.depth = Len(dpStack)
    /\ Pending.lhs # None
    /\ Pending.reads # <<>> \/ Running.guarded => e.evidence

LEMMA EvidenceStep ==
    ASSUME dpTrace \in Seq(Range(dpTrace)), dpTrace # <<>>,
           WitnessesRun, PointIsTop, EvidenceIsNoted,
           Len(dpStack) \in DOMAIN dpStack, Len(dpStack) \in Nat \ {0},
           NEW point, dpTrace' = Append(dpTrace, point), UNCHANGED keyed,
           \A e \in wrote' \ wrote : NotedNow(e)
    PROVE  EvidenceIsNoted'
<1>1. /\ Len(dpTrace) \in Nat \ {0} /\ DOMAIN dpTrace = 1..Len(dpTrace)
      /\ \A i \in 1..Len(dpTrace) : dpTrace'[i] = dpTrace[i]
      /\ DOMAIN dpTrace' = 1..Len(dpTrace) + 1
  BY GrowProperties, SequenceShape
<1>2. ASSUME NEW e \in wrote'
      PROVE  /\ e.step - 1 \in DOMAIN dpTrace
             /\ e.depth = Len(dpTrace[e.step - 1].frames)
             /\ \/ CountSubscripts(dpTrace[e.step - 1].line) >= 2
                \/ SelfRefBeforeWrite(e.step - 1)
                => e.evidence
  <2>1. CASE e \in wrote
    BY <2>1 DEF EvidenceIsNoted
  <2>2. CASE e \notin wrote
    <3>1. NotedNow(e)
      BY <2>2
    <3>2. e.step = Len(dpTrace) + 1 /\ e.depth = Len(dpStack)
      BY <3>1 DEF NotedNow
    <3>3. e.step - 1 = Len(dpTrace) /\ e.step - 1 \in DOMAIN dpTrace
      BY <1>1, <3>2
    <3>4. e.depth = Len(dpTrace[e.step - 1].frames)
      BY <3>2, <3>3 DEF PointIsTop
    <3>5. ASSUME \/ CountSubscripts(dpTrace[e.step - 1].line) >= 2
                 \/ SelfRefBeforeWrite(e.step - 1)
          PROVE  e.evidence
      <4>1. Pending.reads # <<>> \/ Running.guarded
        BY <3>1, <3>3, <3>5, EvidenceIsOwn DEF NotedNow
      <4>. QED BY <3>1, <4>1 DEF NotedNow
    <3>. QED BY <3>3, <3>4, <3>5
  <2>. QED BY <2>1, <2>2
<1>3. ASSUME NEW e \in wrote', NEW w, w = e.step - 1
      PROVE  /\ w \in DOMAIN dpTrace' /\ dpTrace'[w] = dpTrace[w]
             /\ CountSubscripts(dpTrace[w].line)' = CountSubscripts(dpTrace[w].line)
             /\ SelfRefBeforeWrite(w)' <=> SelfRefBeforeWrite(w)
  <2>1. w \in DOMAIN dpTrace
    BY <1>2, <1>3
  <2>2. w \in DOMAIN dpTrace' /\ dpTrace'[w] = dpTrace[w]
    BY <1>1, <2>1
  <2>3. CountSubscripts(dpTrace[w].line)' = CountSubscripts(dpTrace[w].line)
    BY <2>2 DEF CountSubscripts, Text
  <2>4. SelfRefBeforeWrite(w)' <=> SelfRefBeforeWrite(w)
    BY <2>1, SelfRefStays
  <2>. QED BY <2>2, <2>3, <2>4
<1>4. ASSUME NEW e \in wrote', NEW w, w = e.step - 1
      PROVE  /\ w \in DOMAIN dpTrace'
             /\ e.depth = Len(dpTrace'[w].frames)
             /\ \/ CountSubscripts(dpTrace[w].line)' >= 2
                \/ SelfRefBeforeWrite(w)'
                => e.evidence
  BY <1>2, <1>3, <1>4
<1>. QED BY <1>4 DEF EvidenceIsNoted

\* The stack, as a point shows it.
LEMMA KeysOfStack ==
    ASSUME NEW s, s \in Seq(Range(s)), s # <<>>
    PROVE  /\ KeyedFrames(s) \in Seq(Range(KeyedFrames(s)))
           /\ Len(KeyedFrames(s)) = Len(s) /\ Len(s) \in Nat \ {0}
           /\ DOMAIN KeyedFrames(s) = 1..Len(s) /\ DOMAIN s = 1..Len(s)
           /\ \A n \in 1..Len(s) : KeyedFrames(s)[n].key = <<s[n].func, n, s[n].fresh>>
<1> DEFINE r == KeyedFrames(s)
<1>1. Len(s) \in Nat \ {0} /\ DOMAIN s = 1..Len(s)
  BY SequenceShape
<1>2. \A n \in 1..Len(s) : r[n] = FrameAt(s, n)
  BY <1>1 DEF KeyedFrames
<1>3. DOMAIN r = 1..Len(s) /\ r = [n \in 1..Len(s) |-> r[n]]
  BY <1>1 DEF KeyedFrames
<1>. HIDE DEF r
<1>4. ASSUME NEW n \in 1..Len(s) PROVE r[n].key = <<s[n].func, n, s[n].fresh>>
  <2>1. FrameAt(s, n).key = <<s[n].func, n, s[n].fresh>>
    BY DEF FrameAt
  <2>. QED BY <1>2, <2>1
<1>5. r \in Seq(Range(r)) /\ Len(r) = Len(s)
  BY <1>1, <1>3, IsSequence
<1>. QED BY <1>1, <1>3, <1>4, <1>5 DEF r

\* A point that shows the stack with the keys of its own frames.
LEMMA ShownAsItIs ==
    ASSUME MainIsBelow, MainIsBelow', dpStack' \in Seq(Range(dpStack')), dpStack' # <<>>,
           dpTrace \in Seq(Range(dpTrace)), NEW point, dpTrace' = Append(dpTrace, point),
           point.frames = KeyedFrames(dpStack'),
           point.line = dpStack'[Len(dpStack')].line
    PROVE  /\ PointIsTop' /\ ShowsStack(point) /\ NoMistake(point)
           /\ Len(dpStack') \in DOMAIN dpStack'
<1>1. /\ Len(point.frames) = Len(dpStack') /\ Len(dpStack') \in Nat \ {0}
      /\ DOMAIN point.frames = 1..Len(dpStack') /\ DOMAIN dpStack' = 1..Len(dpStack')
      /\ \A n \in 1..Len(dpStack') :
            point.frames[n].key = <<dpStack'[n].func, n, dpStack'[n].fresh>>
  BY KeysOfStack
<1>2. /\ dpTrace'[Len(dpTrace')] = point
  BY GrowProperties
<1>3. \A n \in 1..Len(dpStack') : point.frames[n].key = KeyAt(n)'
  BY <1>1 DEF KeyAt
<1>4. Len(dpStack') \in 1..Len(dpStack')
  BY <1>1
<1>5. Top(point).key = KeyAt(Len(dpStack))'
  BY <1>1, <1>4 DEF Top, KeyAt
<1>6. PointIsTop'
  BY <1>1, <1>2, <1>5 DEF PointIsTop, Running, Top
<1>7. ShowsStack(point)
  BY <1>1, <1>3 DEF ShowsStack, Keys
<1>8. ASSUME NEW key, Misnamed(key) PROVE key \notin Keys(point)
  <2>1. Main # Solve /\ key = <<Solve, 1, FALSE>>
    BY <1>8 DEF Misnamed
  <2>2. ASSUME NEW n \in 1..Len(dpStack') PROVE key # point.frames[n].key
    <3>1. point.frames[n].key = <<dpStack'[n].func, n, dpStack'[n].fresh>>
      BY <1>1
    <3>2. dpStack'[1].func = Main
      BY DEF MainIsBelow
    <3>3. ASSUME key = point.frames[n].key PROVE FALSE
      <4>1. <<Solve, 1, FALSE>> = <<dpStack'[n].func, n, dpStack'[n].fresh>>
        BY <2>1, <3>1, <3>3
      <4>2. n = 1 /\ dpStack'[n].func = Solve
        BY <4>1
      <4>. QED BY <2>1, <3>2, <4>2
    <3>. QED BY <3>3
  <2>. QED BY <1>1, <2>2 DEF Keys
<1>9. ASSUME NEW key, NEW n \in DOMAIN dpStack, key = KeyAt(n) PROVE ~Misnamed(key)'
  <2>1. dpStack[1].func = Main
    BY DEF MainIsBelow
  <2>2. key = <<dpStack[n].func, n, dpStack[n].fresh>>
    BY <1>9 DEF KeyAt
  <2>. QED BY <2>1, <2>2 DEF Misnamed
<1>. QED BY <1>1, <1>4, <1>6, <1>7, <1>8, <1>9 DEF NoMistake

\* What the invariant says of the frame that runs.
LEMMA TopShape ==
    ASSUME DpInv
    PROVE  /\ Len(dpStack) \in DOMAIN dpStack
           /\ Len(dpStack) \in Nat \ {0} /\ DOMAIN dpStack = 1..Len(dpStack)
           /\ dpStack \in Seq(Range(dpStack)) /\ dpStack # <<>>
           /\ dpTrace \in Seq(Range(dpTrace)) /\ dpTrace # <<>> /\ MainIsBelow
BY StackShape DEF DpInv

\* A line that runs to its end.
LEMMA RunNotes ==
    ASSUME DpInv, DpInv', EvidenceInv, NEW next, NEW i, NEW event, Run(next, i, event),
           dpReturned' \in {None, Solve}
    PROVE  EvidenceInv'
<1> DEFINE top == Len(dpStack)
           guard == Running.guarded \/ IsWitness(Running.line)
           frame == [Running EXCEPT !.line = next, !.i = i, !.fresh = FALSE,
                                    !.guarded = guard]
<1>1. /\ top \in Nat \ {0} /\ DOMAIN dpStack = 1..top /\ top \in DOMAIN dpStack
      /\ dpStack \in Seq(Range(dpStack)) /\ dpStack # <<>>
      /\ dpTrace \in Seq(Range(dpTrace)) /\ dpTrace # <<>>
      /\ MainIsBelow
  BY TopShape
<1>2. /\ MainIsBelow' /\ dpStack' \in Seq(Range(dpStack')) /\ dpStack' # <<>>
  BY DEF DpInv
<1>3. dpStack' = [dpStack EXCEPT ![top] = frame]
  BY <1>1 DEF Run
<1>4. IsFrame(Running) /\ Running = dpStack[top]
  BY <1>1 DEF EvidenceInv, SolveIsAbove, Running
<1>. HIDE DEF guard
<1>5. /\ frame.func = Running.func /\ frame.line = next /\ frame.guarded = guard
      /\ IsFrame(frame)
  <2>1. IsFrame(Running)
    BY <1>4
  <2>2. /\ frame.func = Running.func /\ frame.line = next /\ frame.guarded = guard
        /\ DOMAIN frame = DOMAIN Running
    BY <2>1 DEF IsFrame
  <2>. HIDE DEF frame
  <2>. QED BY <2>1, <2>2 DEF IsFrame
<1>. HIDE DEF frame
<1>6. /\ DOMAIN dpStack' = 1..top /\ Len(dpStack') = top /\ dpStack'[top] = frame
      /\ \A n \in 1..top : n # top => dpStack'[n] = dpStack[n]
  BY <1>1, <1>2, <1>3, SequenceShape
<1>7. SolveIsAbove'
  <2>1. ASSUME NEW n \in 1..top
        PROVE  IsFrame(dpStack'[n]) /\ (n > 1 => dpStack'[n].func = Solve)
    <3>1. IsFrame(dpStack[n]) /\ (n > 1 => dpStack[n].func = Solve)
      BY <1>1 DEF EvidenceInv, SolveIsAbove
    <3>2. CASE n = top
      BY <1>4, <1>5, <1>6, <3>1, <3>2
    <3>3. CASE n # top
      BY <1>6, <3>1, <3>3
    <3>. QED BY <3>2, <3>3
  <2>. QED BY <1>6, <2>1 DEF SolveIsAbove, IsFrame
<1>8. PICK point : /\ dpTrace' = Append(dpTrace, point)
                   /\ point.frames = KeyedFrames(dpStack') /\ point.line = next
  <2>1. EmitPoint(event, KeyedFrames(dpStack'), next, table')
    BY DEF Run
  <2>. QED BY <2>1, EmitShows
<1>9. point.line = dpStack'[Len(dpStack')].line
  BY <1>5, <1>6, <1>8
<1>10. /\ PointIsTop' /\ ShowsStack(point) /\ NoMistake(point)
       /\ Len(dpStack') \in DOMAIN dpStack'
  BY <1>1, <1>2, <1>8, <1>9, ShownAsItIs
<1>11. StaysGuarded
  <2>1. ASSUME NEW n \in 1..top
        PROVE  /\ dpStack[n].guarded => dpStack'[n].guarded
               /\ IsWitness(dpStack[n].line) =>
                    dpStack'[n].guarded \/ dpStack'[n].line = dpStack[n].line
    <3>1. CASE n = top
      <4>1. dpStack'[n].guarded = guard /\ dpStack[n] = Running
        BY <1>4, <1>5, <1>6, <3>1
      <4>. QED BY <4>1 DEF guard
    <3>2. CASE n # top
      BY <1>6, <3>2
    <3>. QED BY <3>1, <3>2
  <2>. QED BY <1>1, <2>1 DEF StaysGuarded
<1>12. UNCHANGED keyed
  BY DEF Run
<1>13. WitnessesRun'
  BY <1>1, <1>8, <1>10, <1>11, <1>12, WitnessesStep DEF EvidenceInv
<1>14. \A e \in wrote' \ wrote : NotedNow(e)
  <2>1. CASE Pending.lhs = None
    BY <2>1 DEF Run
  <2>2. CASE Pending.lhs # None
    <3> DEFINE c == Running.i - Pending.lhs
    <3>1. PICK v \in Results :
            wrote' = wrote \cup
              {[step |-> Len(dpTrace) + 1, cell |-> c, line |-> Running.line,
                reads |-> {Running.i - Pending.reads[k] : k \in DOMAIN Pending.reads},
                depth |-> Len(dpStack), changed |-> table[c] \notin {None, v},
                evidence |-> Pending.reads # <<>> \/ Running.guarded]}
      BY <2>2 DEF Run
    <3> DEFINE note == [step |-> Len(dpTrace) + 1, cell |-> c, line |-> Running.line,
                reads |-> {Running.i - Pending.reads[k] : k \in DOMAIN Pending.reads},
                depth |-> Len(dpStack), changed |-> table[c] \notin {None, v},
                evidence |-> Pending.reads # <<>> \/ Running.guarded]
    <3>2. /\ note.step = Len(dpTrace) + 1 /\ note.depth = Len(dpStack)
          /\ note.evidence = (Pending.reads # <<>> \/ Running.guarded)
      OBVIOUS
    <3>3. wrote' = wrote \cup {note}
      BY <3>1
    <3>. HIDE DEF note
    <3>4. Pending.reads # <<>> \/ Running.guarded => note.evidence
      BY <3>2
    <3>5. NotedNow(note)
      BY <2>2, <3>2, <3>4 DEF NotedNow
    <3>. QED BY <3>3, <3>5
  <2>. QED BY <2>1, <2>2
<1>15. EvidenceIsNoted'
  BY <1>1, <1>8, <1>12, <1>14, EvidenceStep DEF EvidenceInv
<1>16. dpReturned' \in {None, Solve}
  OBVIOUS
<1>. QED BY <1>7, <1>10, <1>13, <1>15 DEF EvidenceInv

\* A call: the frame it pushes has run nothing.
LEMMA CallNotes ==
    ASSUME DpInv, DpInv', EvidenceInv, NEW i, CallSolve(i)
    PROVE  EvidenceInv'
<1> DEFINE top == Len(dpStack)
           frame == NewFrame(Solve, i)
<1>1. /\ top \in Nat \ {0} /\ DOMAIN dpStack = 1..top /\ top \in DOMAIN dpStack
      /\ dpStack \in Seq(Range(dpStack)) /\ dpStack # <<>>
      /\ dpTrace \in Seq(Range(dpTrace)) /\ dpTrace # <<>>
      /\ MainIsBelow
  BY TopShape
<1>2. /\ MainIsBelow' /\ dpStack' \in Seq(Range(dpStack')) /\ dpStack' # <<>>
  BY DEF DpInv
<1>3. dpStack' = Append(dpStack, frame) /\ UNCHANGED <<keyed, dpReturned, wrote>>
  BY DEF CallSolve
<1>4. frame.func = Solve /\ frame.line = Header /\ IsFrame(frame)
  BY DEF NewFrame, IsFrame
<1>. HIDE DEF frame
<1>5. /\ DOMAIN dpStack' = 1..top + 1 /\ Len(dpStack') = top + 1
      /\ dpStack'[top + 1] = frame /\ \A n \in 1..top : dpStack'[n] = dpStack[n]
  BY <1>1, <1>3, GrowProperties
<1>6. SolveIsAbove'
  <2>1. ASSUME NEW n \in 1..top + 1
        PROVE  IsFrame(dpStack'[n]) /\ (n > 1 => dpStack'[n].func = Solve)
    <3>1. CASE n = top + 1
      BY <1>4, <1>5, <3>1
    <3>2. CASE n \in 1..top
      <4>1. IsFrame(dpStack[n]) /\ (n > 1 => dpStack[n].func = Solve)
        BY <1>1, <3>2 DEF EvidenceInv, SolveIsAbove
      <4>. QED BY <1>5, <3>2, <4>1
    <3>3. n = top + 1 \/ n \in 1..top
      BY <1>1
    <3>. QED BY <3>1, <3>2, <3>3
  <2>2. dpReturned' \in {None, Solve}
    BY <1>3 DEF EvidenceInv, SolveIsAbove
  <2>. QED BY <1>5, <2>1, <2>2 DEF SolveIsAbove, IsFrame
<1>7. PICK point : /\ dpTrace' = Append(dpTrace, point)
                   /\ point.frames = KeyedFrames(dpStack') /\ point.line = Header
  <2>1. EmitPoint("call", KeyedFrames(dpStack'), Header, table')
    BY DEF CallSolve
  <2>. QED BY <2>1, EmitShows
<1>8. point.line = dpStack'[Len(dpStack')].line
  BY <1>4, <1>5, <1>7
<1>9. /\ PointIsTop' /\ ShowsStack(point) /\ NoMistake(point)
      /\ Len(dpStack') \in DOMAIN dpStack'
  BY <1>1, <1>2, <1>7, <1>8, ShownAsItIs
<1>10. StaysGuarded
  BY <1>1, <1>5 DEF StaysGuarded
<1>11. WitnessesRun'
  BY <1>1, <1>3, <1>7, <1>9, <1>10, WitnessesStep DEF EvidenceInv
<1>12. EvidenceIsNoted'
  BY <1>1, <1>3, <1>7, EvidenceStep DEF EvidenceInv
<1>. QED BY <1>6, <1>9, <1>11, <1>12 DEF EvidenceInv

\* The only element is replaced.
LEMMA ReplaceOnly ==
    ASSUME NEW k, DOMAIN k = 1..1, NEW e, NEW r, r = [k EXCEPT ![1] = e]
    PROVE  Len(r) = 1 /\ DOMAIN r = 1..1 /\ r[1] = e
<1>1. 1 \in DOMAIN k /\ \A i \in 1..1 : i = 1
  OBVIOUS
<1>2. r = [i \in 1..1 |-> IF i = 1 THEN e ELSE k[i]]
  OBVIOUS
<1>3. r = [i \in 1..1 |-> r[i]] /\ DOMAIN r = 1..1 /\ r[1] = e
  BY <1>1, <1>2
<1>4. Len(r) = 1
  BY <1>3, IsSequence
<1>. QED BY <1>3, <1>4

\* Only Main can be named after a callee, as all callees are Solve.
LEMMA LagNotes ==
    ASSUME DpInv, DpInv', EvidenceInv, LagSolve, None # Solve
    PROVE  EvidenceInv'
<1> DEFINE top == Len(dpStack) - 1
           own == FrameAt(dpStack', top)
           seen == IF own.func = dpReturned THEN own
                   ELSE [func |-> dpReturned, key |-> <<dpReturned, top, FALSE>>, i |-> Running.i]
           frames == [KeyedFrames(dpStack') EXCEPT ![top] = seen]
<1>1. /\ Len(dpStack) \in Nat \ {0} /\ DOMAIN dpStack = 1..Len(dpStack)
      /\ dpStack \in Seq(Range(dpStack)) /\ Len(dpStack) \in DOMAIN dpStack
      /\ dpTrace \in Seq(Range(dpTrace)) /\ dpTrace # <<>>
      /\ MainIsBelow
  BY TopShape
<1>2. /\ MainIsBelow' /\ dpStack' \in Seq(Range(dpStack')) /\ dpStack' # <<>>
  BY DEF DpInv
<1>3. /\ dpReturned = Solve /\ dpReturned' = None /\ Len(dpStack) > 1
      /\ dpStack' = SubSeq(dpStack, 1, Len(dpStack) - 1)
      /\ UNCHANGED <<keyed, wrote>>
  BY <1>1 DEF LagSolve, EvidenceInv, SolveIsAbove, MainIsBelow
<1>4. /\ top \in Nat \ {0} /\ Len(dpStack') = top /\ DOMAIN dpStack' = 1..top
      /\ \A n \in 1..top : dpStack'[n] = dpStack[n]
  <2> DEFINE r == SubSeq(dpStack, 1, Len(dpStack) - 1)
  <2>1. /\ r \in Seq(Range(r)) /\ Len(dpStack) \in Nat \ {0, 1} /\ Len(r) = Len(dpStack) - 1
        /\ \A n \in 1..Len(dpStack) - 1 : r[n] = dpStack[n]
    BY <1>1, <1>3, DropProperties
  <2>2. dpStack' = r
    BY <1>3
  <2>. HIDE DEF r
  <2>3. top \in Nat \ {0} /\ Len(dpStack') = top
    BY <2>1, <2>2
  <2>4. DOMAIN dpStack' = 1..top
    BY <1>2, <2>3, SequenceShape
  <2>. QED BY <2>1, <2>2, <2>3, <2>4
<1>5. SolveIsAbove'
  <2>1. ASSUME NEW n \in 1..top
        PROVE  IsFrame(dpStack'[n]) /\ (n > 1 => dpStack'[n].func = Solve)
    <3>1. IsFrame(dpStack[n]) /\ (n > 1 => dpStack[n].func = Solve)
      BY <1>1 DEF EvidenceInv, SolveIsAbove
    <3>. QED BY <1>4, <3>1
  <2>. QED BY <1>3, <1>4, <2>1 DEF SolveIsAbove, IsFrame
<1>6. PICK point : /\ dpTrace' = Append(dpTrace, point)
                   /\ point.frames = frames /\ point.line = dpStack[top].line
  <2>1. EmitPoint("step_line", frames, dpStack[top].line, table)
    BY DEF LagSolve
  <2>. QED BY <2>1, EmitShows
<1>7. point.line = dpStack'[Len(dpStack')].line
  BY <1>4, <1>6
<1>8. /\ Len(KeyedFrames(dpStack')) = top /\ DOMAIN KeyedFrames(dpStack') = 1..top
      /\ KeyedFrames(dpStack') \in Seq(Range(KeyedFrames(dpStack')))
      /\ KeyedFrames(dpStack')[top] = own
  <2>1. KeyedFrames(dpStack')[top] = own
    BY <1>4 DEF KeyedFrames
  <2>. QED BY <1>2, <1>4, <2>1, KeysOfStack
<1>9. own.func = dpStack'[top].func
  BY DEF FrameAt
<1>10. /\ PointIsTop' /\ ShowsStack(point) /\ NoMistake(point)
       /\ Len(dpStack') \in DOMAIN dpStack'
  <2>1. CASE own.func = Solve
    <3>1. seen = own
      BY <1>3, <2>1
    <3>2. frames = KeyedFrames(dpStack')
      <4>1. KeyedFrames(dpStack') = [n \in 1..top |-> KeyedFrames(dpStack')[n]]
        BY <1>4 DEF KeyedFrames
      <4>. HIDE DEF own, seen, top
      <4>. QED BY <1>8, <3>1, <4>1
    <3>. QED BY <1>1, <1>2, <1>6, <1>7, <3>2, ShownAsItIs
  <2>2. CASE own.func # Solve
    <3>1. top = 1 /\ dpStack'[1].func = Main /\ Main # Solve
      <4>1. ~(top > 1)
        BY <1>4, <1>5, <1>9, <2>2 DEF SolveIsAbove
      <4>2. dpStack'[1].func = Main
        BY <1>2 DEF MainIsBelow
      <4>3. top = 1
        BY <1>4, <4>1
      <4>. QED BY <1>9, <2>2, <4>2, <4>3
    <3>2. seen.key = <<Solve, 1, FALSE>>
      <4>1. own.func # dpReturned
        BY <1>3, <2>2
      <4>2. seen = [func |-> dpReturned, key |-> <<dpReturned, top, FALSE>>, i |-> Running.i]
        BY <4>1
      <4>. HIDE DEF own, top, seen
      <4>3. seen.key = <<dpReturned, top, FALSE>>
        BY <4>2
      <4>. QED BY <1>3, <3>1, <4>3
    <3>3. Len(point.frames) = 1 /\ DOMAIN point.frames = 1..1 /\ point.frames[1] = seen
      <4> DEFINE k == KeyedFrames(dpStack')
      <4>. HIDE DEF own, seen, top
      <4>1. k \in Seq(Range(k)) /\ Len(k) = 1 /\ point.frames = [k EXCEPT ![1] = seen]
        BY <1>6, <1>8, <3>1
      <4>. HIDE DEF k
      <4>2. DOMAIN k = 1..1
        BY <4>1, SequenceShape
      <4>. QED BY <4>1, <4>2, ReplaceOnly
    <3>4. Top(point).key = <<Solve, 1, FALSE>> /\ Keys(point) = {<<Solve, 1, FALSE>>}
      <4>. HIDE DEF own, seen, top, frames
      <4>1. ASSUME NEW key, key = <<Solve, 1, FALSE>>
            PROVE  Top(point).key = key /\ Keys(point) = {key}
        <5>1. point.frames[1].key = key
          BY <3>2, <3>3, <4>1
        <5>2. Top(point) = point.frames[1]
          BY <3>3 DEF Top
        <5>3. Keys(point) = {point.frames[n].key : n \in 1..1}
          BY <3>3 DEF Keys
        <5>4. \A n \in 1..1 : n = 1
          OBVIOUS
        <5>. QED BY <5>1, <5>2, <5>3, <5>4
      <4>. QED BY <4>1
    <3>5. Len(dpStack') = 1 /\ Len(dpStack) = 2
      <4>. HIDE DEF own, seen, frames
      <4>1. Len(dpStack) - 1 = 1 /\ Len(dpStack') = 1
        BY <1>4, <3>1
      <4>2. ASSUME NEW n \in Nat, n - 1 = 1 PROVE n = 2
        BY <4>2
      <4>3. Len(dpStack) \in Nat
        BY <1>1
      <4>. QED BY <4>1, <4>2, <4>3
    <3>6. dpTrace'[Len(dpTrace')] = point
      BY <1>1, <1>6, GrowProperties
    <3>7. PointIsTop'
      BY <1>7, <3>1, <3>3, <3>4, <3>5, <3>6 DEF PointIsTop, Running, Top, Misnamed
    <3>8. ASSUME NEW key, key = <<Solve, 1, FALSE>> PROVE Misnamed(key)'
      BY <3>1, <3>5, <3>8 DEF Misnamed
    <3>9. ShowsStack(point)
      BY <3>4, <3>8 DEF ShowsStack
    <3>10. ASSUME NEW key, NEW n \in DOMAIN dpStack, key = KeyAt(n) PROVE ~Misnamed(key)'
      <4>1. dpStack[1].func = Main
        BY <1>1 DEF MainIsBelow
      <4>2. key = <<dpStack[n].func, n, dpStack[n].fresh>>
        BY <3>10 DEF KeyAt
      <4>. QED BY <4>1, <4>2 DEF Misnamed
    <3>11. \A key : ~Misnamed(key)
      BY <3>5 DEF Misnamed
    <3>12. NoMistake(point)
      BY <3>10, <3>11 DEF NoMistake
    <3>. QED BY <1>4, <3>1, <3>5, <3>7, <3>9, <3>12
  <2>. QED BY <2>1, <2>2
<1>11. StaysGuarded
  BY <1>4 DEF StaysGuarded
<1>12. WitnessesRun'
  BY <1>1, <1>3, <1>6, <1>10, <1>11, WitnessesStep DEF EvidenceInv
<1>13. EvidenceIsNoted'
  BY <1>1, <1>3, <1>6, EvidenceStep DEF EvidenceInv
<1>. QED BY <1>5, <1>10, <1>12, <1>13 DEF EvidenceInv

LEMMA DpInitNotes == DpInit => EvidenceInv
<1>. SUFFICES ASSUME DpInit PROVE EvidenceInv
  OBVIOUS
<1>1. PICK i \in Cell, l \in {Header} \cup LinesOf(Main) :
        dpStack = <<[NewFrame(Main, i) EXCEPT !.line = l]>>
  BY DEF DpInit
<1> DEFINE frame == [NewFrame(Main, i) EXCEPT !.line = l]
           point == [event |-> "step_line", frames |-> KeyedFrames(dpStack),
                     line |-> dpStack[1].line, table |-> table]
<1>2. IsFrame(frame)
  BY DEF IsFrame, NewFrame
<1>3. dpStack = <<frame>> /\ dpTrace = <<point>>
  BY <1>1 DEF DpInit
<1>4. point.frames = KeyedFrames(dpStack) /\ point.line = dpStack[1].line
  OBVIOUS
<1>. HIDE DEF frame, point
<1>5. /\ Len(dpStack) = 1 /\ DOMAIN dpStack = {1} /\ dpStack[1] = frame
      /\ dpStack \in Seq(Range(dpStack)) /\ dpStack # <<>>
  BY <1>3, SingletonProperties
<1>6. Len(dpTrace) = 1 /\ DOMAIN dpTrace = {1} /\ dpTrace[1] = point
  BY <1>3, SingletonProperties
<1>7. /\ Len(point.frames) = 1 /\ DOMAIN point.frames = 1..1
      /\ point.frames[1].key = <<dpStack[1].func, 1, dpStack[1].fresh>>
  BY <1>4, <1>5, KeysOfStack
<1>8. SolveIsAbove
  BY <1>2, <1>5 DEF SolveIsAbove, DpInit
<1>9. Top(point).key = KeyAt(1)
  BY <1>7 DEF Top, KeyAt
<1>10. PointIsTop
  BY <1>4, <1>5, <1>6, <1>7, <1>9 DEF PointIsTop, Running, Top
<1>11. HasRun(1)
  BY <1>4, <1>5, <1>6, <1>9 DEF HasRun
<1>12. WitnessesRun
  BY <1>6, <1>11 DEF WitnessesRun
<1>13. EvidenceIsNoted
  BY DEF DpInit, EvidenceIsNoted
<1>. QED BY <1>8, <1>10, <1>12, <1>13 DEF EvidenceInv

LEMMA DpNotes ==
    ASSUME ValuesDiffer
    PROVE  EvidenceInv /\ DpInv /\ DpInv' /\ [DpNext]_dpVars => EvidenceInv'
<1>. SUFFICES ASSUME EvidenceInv, DpInv, DpInv', [DpNext]_dpVars PROVE EvidenceInv'
  OBVIOUS
<1>1. CASE NextLine
  <2>1. PICK next \in After(Running.func, Running.line) \ {Header},
             i \in IF Running.func = Main THEN {Running.i, Running.i + 1} \cap Cell
                                          ELSE {Running.i} :
          Run(next, i, "step_line")
    BY <1>1 DEF NextLine
  <2>2. dpReturned' \in {None, Solve}
    BY <1>1 DEF NextLine
  <2>. QED BY <2>1, <2>2, RunNotes
<1>2. CASE ReturnSolve
  <2>1. Running.func = Solve
    BY <1>2, TopShape DEF ReturnSolve, EvidenceInv, SolveIsAbove, Running
  <2>2. Run(Running.line, Running.i, "return") /\ dpReturned' \in {None, Solve}
    BY <1>2, <2>1 DEF ReturnSolve
  <2>. QED BY <2>2, RunNotes
<1>3. CASE \E i \in Cell : CallSolve(i)
  BY <1>3, CallNotes
<1>4. CASE LagSolve
  BY <1>4, LagNotes DEF ValuesDiffer
<1>5. CASE UNCHANGED dpVars
  <2>1. /\ dpStack' = dpStack /\ dpReturned' = dpReturned /\ dpTrace' = dpTrace
        /\ keyed' = keyed /\ wrote' = wrote
    BY <1>5 DEF dpVars
  <2>2. SolveIsAbove' /\ PointIsTop'
    BY <2>1 DEF EvidenceInv, SolveIsAbove, IsFrame, PointIsTop, Top, KeyAt, Misnamed, Running
  <2>3. ASSUME NEW l PROVE IsWitness(l)' <=> IsWitness(l)
    BY <2>1 DEF IsWitness, IsRead, Text, CountSubscripts
  <2>4. ASSUME NEW j
        PROVE  /\ InSight(j)' <=> InSight(j)
               /\ HasRun(j)' <=> HasRun(j)
    BY <2>1 DEF InSight, Keys, HasRun, KeyAt, Top
  <2>5. WitnessesRun'
    <3>1. ASSUME NEW j \in DOMAIN dpTrace, IsWitness(dpTrace[j].line), InSight(j), ~HasRun(j)
          PROVE  j = Len(dpTrace') /\ Misnamed(Top(dpTrace[j]).key)'
      <4>1. j = Len(dpTrace) /\ Misnamed(Top(dpTrace[j]).key)
        BY <3>1 DEF EvidenceInv, WitnessesRun
      <4>. QED BY <2>1, <4>1 DEF Misnamed, Top
    <3>2. ASSUME NEW j \in DOMAIN dpTrace
          PROVE  IsWitness(dpTrace[j].line)' <=> IsWitness(dpTrace[j].line)
      BY <2>1 DEF IsWitness, IsRead, Text, CountSubscripts
    <3>. QED BY <2>1, <2>4, <3>1, <3>2 DEF WitnessesRun
  <2>6. ASSUME NEW w \in DOMAIN dpTrace
        PROVE  /\ SelfRefBeforeWrite(w)' <=> SelfRefBeforeWrite(w)
               /\ CountSubscripts(dpTrace[w].line)' = CountSubscripts(dpTrace[w].line)
    BY <2>1, <2>3 DEF CountSubscripts, Text, SelfRefBeforeWrite, Invocation, Keys, Top,
                      IsWitness, IsRead
  <2>7. EvidenceIsNoted'
    <3>1. ASSUME NEW e \in wrote, NEW w, w = e.step - 1
          PROVE  /\ w \in DOMAIN dpTrace' /\ e.depth = Len(dpTrace'[w].frames)
                 /\ \/ CountSubscripts(dpTrace[w].line)' >= 2
                    \/ SelfRefBeforeWrite(w)'
                    => e.evidence
      BY <2>1, <2>6, <3>1 DEF EvidenceInv, EvidenceIsNoted
    <3>. QED BY <2>1, <3>1 DEF EvidenceIsNoted
  <2>. QED BY <2>2, <2>5, <2>7 DEF EvidenceInv
<1>. QED BY <1>1, <1>2, <1>3, <1>4, <1>5 DEF DpNext

\* The steps of a trace lie at finitely many depths: one, if they count one.
LEMMA OneDepth ==
    ASSUME dpTrace \in Seq(Range(dpTrace)), NEW steps \in SUBSET DOMAIN dpTrace,
           Cardinality({Len(dpTrace[s - 1].frames) : s \in steps}) = 1
    PROVE  \A s, t \in steps :
              Len(dpTrace[s - 1].frames) = Len(dpTrace[t - 1].frames)
<1> DEFINE f == [s \in steps |-> Len(dpTrace[s - 1].frames)]
           depths == {Len(dpTrace[s - 1].frames) : s \in steps}
<1>1. IsFiniteSet(steps)
  <2>1. DOMAIN dpTrace = 1..Len(dpTrace) /\ Len(dpTrace) \in Nat
    BY SequenceShape
  <2>2. IsFiniteSet(1..Len(dpTrace))
    BY <2>1, FS_Interval
  <2>. QED BY <2>1, <2>2, FS_Subset
<1>2. f \in Surjection(steps, depths)
  BY DEF Surjection
<1>3. IsFiniteSet(depths)
  BY <1>1, <1>2, FS_Surjection
<1>4. \A s \in steps : Len(dpTrace[s - 1].frames) \in depths
  OBVIOUS
<1>5. Cardinality(depths) = 1
  OBVIOUS
<1>. HIDE DEF depths
<1>6. PICK d : depths = {d}
  BY <1>3, <1>5, FS_Singleton
<1>. QED BY <1>4, <1>6

LEMMA NothingMadeUp ==
    ASSUME ValuesDiffer, DpInv, EvidenceInv
    PROVE  NeverLies
<1>1. ASSUME NEW s \in SelfRefs(WriteSteps) PROVE \E e \in wrote : e.step = s /\ e.evidence
  <2>1. /\ s \in DOMAIN dpTrace /\ WrittenAt(s) # {}
        /\ \/ CountSubscripts(dpTrace[s - 1].line) >= 2
           \/ SelfRefBeforeWrite(s - 1)
    BY DEF SelfRefs, WriteSteps
  <2>2. PICK e \in wrote : e.step = s
    BY <2>1 DEF DpInv, WritesAreReal
  <2>3. e.evidence
    BY <2>1, <2>2 DEF EvidenceInv, EvidenceIsNoted
  <2>. QED BY <2>2, <2>3
<1>2. ASSUME Candidate(WriteSteps, SelfRefs(WriteSteps)) = "bottom-up",
             NEW d \in wrote, NEW e \in wrote, {d.step, e.step} \subseteq WriteSteps
      PROVE  d.depth = e.depth
  <2>1. Cardinality({Len(dpTrace[s - 1].frames) : s \in WriteSteps}) = 1
    BY <1>2 DEF Candidate, ValuesDiffer
  <2>2. WriteSteps \in SUBSET DOMAIN dpTrace
    BY DEF WriteSteps
  <2>3. Len(dpTrace[d.step - 1].frames) = Len(dpTrace[e.step - 1].frames)
    BY <1>2, <2>1, <2>2, OneDepth DEF DpInv
  <2>. QED BY <2>3 DEF EvidenceInv, EvidenceIsNoted
<1>. QED BY <1>1, <1>2 DEF NeverLies

-----------------------------------------------------------------------------
(* What RemoveFirst leaves of a sequence.                                  *)

\* A sequence without the element at a place.
LEMMA RemoveAtIs ==
    ASSUME NEW S, NEW s \in Seq(S), NEW i \in 1..Len(s)
    PROVE  /\ RemoveAt(s, i) \in Seq(S) /\ Len(s) \in Nat /\ Len(RemoveAt(s, i)) = Len(s) - 1
           /\ \A k \in 1..Len(s) - 1 : RemoveAt(s, i)[k] = s[IF k < i THEN k ELSE k + 1]
<1> DEFINE a == SubSeq(s, 1, i - 1)
           b == SubSeq(s, i + 1, Len(s))
<1>1. Len(s) \in Nat
  OBVIOUS
<1>2. a \in Seq(S) /\ Len(a) = i - 1 /\ \A k \in 1..i - 1 : a[k] = s[k]
  <2>1. \A k \in 1..i - 1 : s[k] \in S
    BY <1>1
  <2>. QED BY <1>1, <2>1, SubSeqProperties
<1>3. b \in Seq(S) /\ Len(b) = Len(s) - i /\ \A k \in 1..Len(s) - i : b[k] = s[i + k]
  <2>1. i + 1 \in Int /\ Len(s) \in Int /\ \A k \in i + 1..Len(s) : s[k] \in S
    BY <1>1
  <2>2. /\ b \in Seq(S) /\ Len(b) = IF i + 1 <= Len(s) THEN Len(s) - (i + 1) + 1 ELSE 0
        /\ \A k \in 1..Len(s) - (i + 1) + 1 : b[k] = s[(i + 1) + k - 1]
    BY <2>1, SubSeqProperties
  <2>3. \A k \in 1..Len(s) - i : k \in 1..Len(s) - (i + 1) + 1 /\ (i + 1) + k - 1 = i + k
    BY <1>1
  <2>4. b \in Seq(S) /\ Len(b) = Len(s) - i
    BY <1>1, <2>2
  <2>5. ASSUME NEW k \in 1..Len(s) - i PROVE b[k] = s[i + k]
    <3>1. b[k] = s[(i + 1) + k - 1] /\ (i + 1) + k - 1 = i + k
      BY <2>2, <2>3
    <3>. HIDE DEF b
    <3>. QED BY <3>1
  <2>. HIDE DEF b
  <2>. QED BY <2>4, <2>5
<1>4. RemoveAt(s, i) = a \o b
  BY DEF RemoveAt
<1>. HIDE DEF a, b
<1>5. a \o b \in Seq(S) /\ Len(a \o b) = Len(s) - 1
  <2>1. a \o b \in Seq(S) /\ Len(a \o b) = Len(a) + Len(b)
    BY <1>2, <1>3, ConcatProperties
  <2>2. Len(a) + Len(b) = Len(s) - 1
    BY <1>1, <1>2, <1>3
  <2>. QED BY <2>1, <2>2
<1>6. ASSUME NEW k \in 1..Len(s) - 1
      PROVE  (a \o b)[k] = s[IF k < i THEN k ELSE k + 1]
  <2>1. CASE k < i
    <3>1. k \in 1..i - 1
      BY <1>1, <2>1
    <3>2. (a \o b)[k] = a[k]
      BY <1>1, <1>2, <1>3, <3>1, ConcatProperties
    <3>. QED BY <1>2, <2>1, <3>1, <3>2
  <2>2. CASE ~(k < i)
    <3>1. k - (i - 1) \in 1..Len(s) - i /\ i + (k - (i - 1)) = k + 1
      BY <1>1, <2>2
    <3>2. (a \o b)[k] = b[k - (i - 1)]
      BY <1>1, <1>2, <1>3, <2>2, ConcatProperties
    <3>. QED BY <1>3, <2>2, <3>1, <3>2
  <2>. QED BY <2>1, <2>2
<1>. QED BY <1>1, <1>4, <1>5, <1>6

\* The place of the first e.
LEMMA SelectIs ==
    ASSUME NEW S, NEW s \in Seq(S), NEW e, NEW j \in 1..Len(s), s[j] = e
    PROVE  \E i \in 1..Len(s) : 
              /\ RemoveFirst(s, e) = RemoveAt(s, i)
              /\ s[i] = e /\ \A k \in 1..Len(s) : s[k] = e => i <= k
<1> DEFINE I == {k \in 1..Len(s) : s[k] = e}
<1>1. RemoveFirst(s, e) = RemoveAt(s, SelectInSeq(s, LAMBDA v: v = e))
  BY DEF RemoveFirst
<1>2. SelectInSeq(s, LAMBDA v: v = e) = Min(I)
  BY DEF SelectInSeq
<1>3. I # {} /\ I \subseteq Nat
  BY LenProperties
<1>4. Min(I) \in I /\ \A k \in I : Min(I) <= k
  BY <1>3, MinProperties
<1>. QED BY <1>1, <1>2, <1>4
\* The first e is gone.
LEMMA RemoveFirstRange ==
    ASSUME NEW S, NEW s \in Seq(S), NEW e,
           \A j, k \in DOMAIN s : s[j] = e /\ s[k] = e => j = k
    PROVE  Range(RemoveFirst(s, e)) = Range(s) \ {e}
<1>1. Len(s) \in Nat /\ DOMAIN s = 1..Len(s)
  BY LenProperties
<1>2. CASE \A j \in 1..Len(s) : s[j] # e
  <2>1. RemoveFirst(s, e) = s
    BY <1>2 DEF RemoveFirst
  <2>2. e \notin Range(s)
    BY <1>1, <1>2 DEF Range
  <2>. QED BY <2>1, <2>2
<1>3. ASSUME NEW j \in 1..Len(s), s[j] = e
      PROVE  Range(RemoveFirst(s, e)) = Range(s) \ {e}
  <2>1. PICK i \in 1..Len(s) : RemoveFirst(s, e) = RemoveAt(s, i) /\ s[i] = e
    BY <1>3, SelectIs
  <2> DEFINE r == RemoveAt(s, i)
  <2>2. /\ r \in Seq(S) /\ Len(r) = Len(s) - 1
        /\ \A k \in 1..Len(s) - 1 : r[k] = s[IF k < i THEN k ELSE k + 1]
    BY RemoveAtIs
  <2>. HIDE DEF r
  <2>3. DOMAIN r = 1..Len(s) - 1
    BY <2>2, LenProperties
  <2>4. ASSUME NEW k \in 1..Len(s) - 1 PROVE r[k] \in Range(s) /\ r[k] # e
    <3> DEFINE m == IF k < i THEN k ELSE k + 1
    <3>1. m \in 1..Len(s) /\ m # i
      BY <1>1
    <3>2. r[k] = s[m]
      BY <2>2
    <3>. HIDE DEF m
    <3>. QED BY <1>1, <2>1, <3>1, <3>2 DEF Range
  <2>5. ASSUME NEW m \in 1..Len(s), s[m] # e PROVE \E k \in 1..Len(s) - 1 : r[k] = s[m]
    <3>1. m # i
      BY <2>1, <2>5
    <3>2. CASE m < i
      <4>1. m \in 1..Len(s) - 1
        BY <1>1, <3>2
      <4>. QED BY <2>2, <3>2, <4>1
    <3>3. CASE m > i
      <4>1. m - 1 \in 1..Len(s) - 1 /\ ~(m - 1 < i) /\ m - 1 + 1 = m
        BY <1>1, <3>3
      <4>2. r[m - 1] = s[m]
        BY <2>2, <4>1
      <4>. QED BY <4>1, <4>2
    <3>. QED BY <1>1, <3>1, <3>2, <3>3
  <2>6. \A v \in Range(r) : v \in Range(s) \ {e}
    BY <2>3, <2>4 DEF Range
  <2>7. ASSUME NEW v \in Range(s) \ {e} PROVE v \in Range(r)
    <3>1. PICK m \in 1..Len(s) : v = s[m]
      BY <1>1 DEF Range
    <3>2. PICK k \in 1..Len(s) - 1 : r[k] = s[m]
      BY <2>5, <3>1
    <3>. QED BY <2>3, <3>1, <3>2 DEF Range
  <2>8. Range(r) = Range(s) \ {e}
    BY <2>6, <2>7
  <2>. QED BY <2>1, <2>8 DEF r
<1>. QED BY <1>2, <1>3

-----------------------------------------------------------------------------
(* The operands that a write is noted with.                                *)

\* What a line's statement is.
LEMMA TextIs ==
    ASSUME TextIsPlain, NEW l \in DOMAIN Stmt \ {Header}, Text(l).lhs # None
    PROVE  /\ Text(l) = Stmt[l] /\ Text(l).lhs \in Int /\ Text(l).reads \in Seq(Int)
           /\ Len(Text(l).reads) \in Nat /\ DOMAIN Text(l).reads = 1..Len(Text(l).reads)
           /\ \A k \in DOMAIN Text(l).reads : Text(l).reads[k] \in Int
           /\ \A j, k \in DOMAIN Text(l).reads :
                 Text(l).reads[j] = Text(l).lhs /\ Text(l).reads[k] = Text(l).lhs => j = k
<1>1. Text(l) = Stmt[l]
  BY DEF Text
<1>2. Stmt[l].reads \in Seq(Int)
  BY DEF TextIsPlain
<1>3. /\ Len(Stmt[l].reads) \in Nat /\ DOMAIN Stmt[l].reads = 1..Len(Stmt[l].reads)
      /\ \A k \in DOMAIN Stmt[l].reads : Stmt[l].reads[k] \in Int
  BY <1>2, LenProperties, ElementOfSeq
<1>. QED BY <1>1, <1>2, <1>3 DEF TextIsPlain

\* The operands that the view resolves are the cells that the statement reads.
LEMMA RightHandIs ==
    ASSUME TextIsPlain, NEW point, Top(point).i \in Int,
           NEW st, st = Text(point.line),
           point.line \in DOMAIN Stmt \ {Header}, st.lhs # None
    PROVE  /\ RightHand(point) \in Seq(Int)
           /\ DOMAIN RightHand(point) = DOMAIN st.reads
           /\ \A k \in DOMAIN st.reads : RightHand(point)[k] = At(point, st.reads[k])
<1>1. /\ st.lhs \in Int /\ st.reads \in Seq(Int)
      /\ Len(st.reads) \in Nat /\ DOMAIN st.reads = 1..Len(st.reads)
      /\ \A k \in DOMAIN st.reads : st.reads[k] \in Int
  BY TextIs
<1> DEFINE n == Len(st.reads) + 1
           offsets == <<st.lhs>> \o st.reads
           occ == [k \in DOMAIN offsets |-> At(point, offsets[k])]
<1>2. occ = Occurrences(point) /\ RightHand(point) = Tail(occ)
  BY DEF Occurrences, RightHand
<1>3. /\ offsets \in Seq(Int) /\ Len(offsets) = n /\ DOMAIN offsets = 1..n
      /\ \A k \in 1..n : offsets[k] = IF k = 1 THEN st.lhs ELSE st.reads[k - 1]
  <2>1. <<st.lhs>> \in Seq(Int) /\ Len(<<st.lhs>>) = 1 /\ <<st.lhs>>[1] = st.lhs
    BY <1>1
  <2> DEFINE s == <<st.lhs>>
  <2>. HIDE DEF s
  <2>2. /\ offsets \in Seq(Int) /\ Len(offsets) = 1 + Len(st.reads)
        /\ \A k \in 1..1 + Len(st.reads) : offsets[k] = IF k <= 1 THEN s[k] ELSE st.reads[k - 1]
    BY <1>1, <2>1, ConcatProperties DEF s
  <2>3. s[1] = st.lhs
    BY <2>1 DEF s
  <2>. HIDE DEF offsets
  <2>4. n = 1 + Len(st.reads) /\ \A k \in 1..n : k <= 1 <=> k = 1
    BY <1>1
  <2>5. DOMAIN offsets = 1..n
    BY <2>2, <2>4, LenProperties
  <2>. QED BY <2>2, <2>3, <2>4, <2>5
<1>. HIDE DEF offsets
<1>4. \A k \in 1..n : offsets[k] \in Int
  BY <1>3, ElementOfSeq
<1>5. n \in Nat /\ DOMAIN occ = 1..n /\ \A k \in 1..n : occ[k] = At(point, offsets[k]) /\ occ[k] \in Int
  BY <1>1, <1>3, <1>4 DEF At
<1>6. occ = [k \in 1..n |-> occ[k]]
  BY <1>5
<1>. HIDE DEF occ, n
<1>7. occ \in Seq(Int) /\ Len(occ) = n
  <2>1. occ \in [1..n -> Int]
    BY <1>5, <1>6
  <2>. QED BY <1>5, <2>1, FunctionIsSequence
<1> DEFINE r == Tail(occ)
<1>8. /\ r \in Seq(Int) /\ Len(r) = n - 1
      /\ \A k \in 1..n - 1 : r[k] = occ[k + 1]
  <2>1. Len(occ) > 0
    BY <1>1, <1>7 DEF n
  <2>2. r \in Seq(Int) /\ Len(r) = Len(occ) - 1 /\ \A k \in 1..Len(occ) - 1 : r[k] = occ[k + 1]
    BY <1>7, <2>1
  <2>. HIDE DEF r
  <2>. QED BY <1>7, <2>2
<1>. HIDE DEF r
<1>9. n - 1 = Len(st.reads)
  BY <1>1 DEF n
<1>10. DOMAIN r = DOMAIN st.reads
  BY <1>1, <1>8, <1>9, LenProperties
<1>11. ASSUME NEW k \in DOMAIN st.reads PROVE r[k] = At(point, st.reads[k])
  <2>. DEFINE l == Len(st.reads)
  <2>1. l \in Nat /\ k \in 1..l /\ n = l + 1
    BY <1>1 DEF n
  <2>. HIDE DEF l
  <2>2. k \in 1..n - 1 /\ k + 1 \in 1..n /\ k + 1 # 1 /\ k + 1 - 1 = k
    BY <2>1
  <2>3. offsets[k + 1] = st.reads[k]
    BY <1>3, <2>2 DEF n
  <2>. QED BY <1>5, <1>8, <2>2, <2>3
<1>. QED BY <1>2, <1>8, <1>10, <1>11 DEF r

\* The first of the best.
LEMMA WinnerIs ==
    ASSUME ValuesDiffer, NEW s, NEW op, op = Text(dpTrace[s - 1].line).op,
           NEW n \in Nat, DOMAIN Operands(s) = 1..n,
           NEW v, IsBest(op, v, Operands(s)), Winner(s) # None
    PROVE  Operands(s)[Winner(s)] = v
<1> DEFINE values == Operands(s)
           live == {k \in DOMAIN values : values[k] \notin {None, Unset}}
           Beats(k, m) == IF op = "max" THEN values[k] > values[m]
                                        ELSE values[k] < values[m]
           Wins(k) == \A m \in live \ {k} : Beats(k, m) \/ (~Beats(m, k) /\ k < m)
           best == {k \in 1..n : values[k] = v}
<1>1. Winner(s) = CHOOSE k \in live : Wins(k)
  BY DEF Winner
<1>. HIDE DEF values
<1>2. DOMAIN values = 1..n
  BY DEF values
<1>3. /\ v \in Int /\ \A k \in 1..n : values[k] \in Val /\ values[k] \in Int
      /\ \E k \in 1..n : values[k] = v
  BY <1>2 DEF values, IsBest, Range, ValuesDiffer
<1>4. \A k \in 1..n : IF op = "max" THEN v >= values[k] ELSE v <= values[k]
  BY <1>2 DEF values, IsBest, Range
<1>5. live = 1..n
  BY <1>2, <1>3 DEF ValuesDiffer
<1>6. PICK first \in best : \A k \in best : first <= k
  <2>1. best \subseteq Nat /\ best # {}
    BY <1>3
  <2>. HIDE DEF best
  <2>. QED BY <2>1, LeastNatural
<1>7. first \in live /\ Wins(first)
  <2>1. ASSUME NEW m \in live \ {first} PROVE Beats(first, m) \/ (~Beats(m, first) /\ first < m)
    <3>1. first \in 1..n /\ m \in 1..n /\ values[first] = v /\ m # first
      BY <1>5
    <3>2. values[m] \in Int /\ IF op = "max" THEN v >= values[m] ELSE v <= values[m]
      BY <1>3, <1>4, <3>1
    <3>3. CASE values[m] = v
      <4>1. first <= m
        BY <1>6, <3>1, <3>3
      <4>2. first < m
        BY <3>1, <4>1
      <4>3. ~Beats(m, first)
        BY <1>3, <3>1, <3>3
      <4>. QED BY <4>2, <4>3
    <3>4. CASE values[m] # v
      BY <1>3, <3>1, <3>2, <3>4
    <3>. QED BY <3>3, <3>4
  <2>2. first \in live
    BY <1>5
  <2>. QED BY <2>1, <2>2
<1>. HIDE DEF Wins
<1>8. Winner(s) \in live /\ Wins(Winner(s))
  <2>. HIDE DEF live
  <2>. QED BY <1>1, <1>7
<1>9. ASSUME NEW w \in live, Wins(w) PROVE values[w] = v
  <2>1. SUFFICES ASSUME values[w] # v PROVE FALSE
    OBVIOUS
  <2>2. first \in live \ {w} /\ values[first] = v
    BY <1>5, <2>1
  <2>3. Beats(w, first) \/ ~Beats(first, w)
    BY <1>9, <2>2 DEF Wins
  <2>4. values[w] \in Int /\ IF op = "max" THEN v >= values[w] ELSE v <= values[w]
    BY <1>3, <1>4, <1>5
  <2>. QED BY <1>3, <2>1, <2>2, <2>3, <2>4
<1>. QED BY <1>8, <1>9 DEF values

\* What is noted with a write is what the view and the cone draw of it.
LEMMA OperandsFollow ==
    ASSUME ValuesDiffer, TextIsPlain, OperandsAreNoted
    PROVE  OperandsAreRead
<1>. SUFFICES ASSUME NEW e \in wrote, NEW point, point = dpTrace[e.step - 1],
                     NEW c, c = e.cell, c \in WrittenAt(e.step),
                     Top(point).func = Text(e.line).func
              PROVE  /\ ViewReads(e.step, c) = e.reads \ {c}
                     /\ ConeOperands(e.step, c) = e.reads \ {c}
                     /\ Winner(e.step) # None =>
                          Operands(e.step)[Winner(e.step)] = dpTrace[e.step].table[c]
  BY DEF OperandsAreRead
<1> DEFINE st == Text(point.line)
<1>1. /\ point.line = e.line /\ e.line \in DOMAIN Stmt \ {Header} /\ st.lhs # None
      /\ Top(point).i \in Int /\ c = At(point, st.lhs)
      /\ e.reads = {At(point, st.reads[k]) : k \in DOMAIN st.reads}
      /\ st.op # None =>
           \/ Range(Operands(e.step)) \subseteq {None}
           \/ IsBest(st.op, dpTrace[e.step].table[c], Operands(e.step))
  BY DEF OperandsAreNoted, IsNoted
<1>2. /\ st.lhs \in Int /\ st.reads \in Seq(Int)
      /\ Len(st.reads) \in Nat /\ DOMAIN st.reads = 1..Len(st.reads)
      /\ \A k \in DOMAIN st.reads : st.reads[k] \in Int
      /\ \A j, k \in DOMAIN st.reads : st.reads[j] = st.lhs /\ st.reads[k] = st.lhs => j = k
  BY <1>1, TextIs
<1> DEFINE right == RightHand(point)
<1>3. /\ right \in Seq(Int) /\ DOMAIN right = DOMAIN st.reads
      /\ \A k \in DOMAIN st.reads : right[k] = At(point, st.reads[k])
  BY <1>1, RightHandIs
<1>4. DOMAIN Operands(e.step) = 1..Len(st.reads)
  BY <1>2 DEF Operands
<1>5. ViewReads(e.step, c) = Range(RemoveFirst(right, c))
  BY DEF ViewReads, ViewPoint
<1>6. ConeOperands(e.step, c) = Range(right) \ {c}
  BY DEF ConeOperands
<1>. HIDE DEF st, right
<1>7. Range(right) = e.reads
  BY <1>1, <1>3 DEF Range
<1>8. \A j, k \in DOMAIN right : right[j] = c /\ right[k] = c => j = k
  <2>1. ASSUME NEW j \in DOMAIN right, right[j] = c PROVE st.reads[j] = st.lhs
    <3>1. Top(point).i - st.reads[j] = Top(point).i - st.lhs /\ st.reads[j] \in Int
      BY <1>1, <1>2, <1>3, <2>1 DEF At
    <3>. QED BY <1>1, <1>2, <3>1
  <2>. QED BY <1>2, <1>3, <2>1
<1>9. ViewReads(e.step, c) = e.reads \ {c}
  BY <1>3, <1>5, <1>7, <1>8, RemoveFirstRange
<1>10. ASSUME Winner(e.step) # None
       PROVE  Operands(e.step)[Winner(e.step)] = dpTrace[e.step].table[c]
  <2>1. st.op # None
    BY <1>10 DEF Winner, st
  <2>2. ~(Range(Operands(e.step)) \subseteq {None})
    <3>1. SUFFICES ASSUME Range(Operands(e.step)) \subseteq {None} PROVE FALSE
      OBVIOUS
    <3>2. {k \in DOMAIN Operands(e.step) : Operands(e.step)[k] \notin {None, Unset}} = {}
      BY <3>1 DEF Range
    <3>3. Cardinality({}) = 0
      BY FS_EmptySet
    <3>. QED BY <1>10, <3>2, <3>3 DEF Winner
  <2>3. IsBest(st.op, dpTrace[e.step].table[c], Operands(e.step))
    BY <1>1, <2>1, <2>2
  <2>. QED BY <1>2, <1>4, <1>10, <2>3, WinnerIs DEF st
<1>. QED BY <1>6, <1>7, <1>9, <1>10

\* What an assignment has read as it runs, of the last point or of none.
ReadNow(e, point) ==
    LET operand == [k \in DOMAIN Pending.reads |-> table[Running.i - Pending.reads[k]]]
    IN  /\ e.step = Len(dpTrace) + 1
        /\ e.line = Running.line /\ Running.line \in DOMAIN Stmt \ {Header}
        /\ Pending.lhs # None /\ Running.i \in Int /\ Running.func = Pending.func
        /\ e.cell = Running.i - Pending.lhs
        /\ e.reads = {Running.i - Pending.reads[k] : k \in DOMAIN Pending.reads}
        /\ \A k \in DOMAIN Pending.reads : Running.i - Pending.reads[k] \in Cell
        /\ Pending.op # None => IsBest(Pending.op, point.table[e.cell], operand)

\* A point that follows says nothing of the operands before it.
LEMMA OperandsStay ==
    ASSUME dpTrace \in Seq(Range(dpTrace)), NEW point, dpTrace' = Append(dpTrace, point),
           NEW s, s - 1 \in DOMAIN dpTrace
    PROVE  Operands(s)' = Operands(s)
<1>1. dpTrace'[s - 1] = dpTrace[s - 1]
  BY GrowProperties
<1>. QED BY <1>1 DEF Operands, At, Top, Text

\* A step keeps the notes if what it notes is what the last point shows.
LEMMA OperandStep ==
    ASSUME dpTrace \in Seq(Range(dpTrace)), dpTrace # <<>>, PointIsTop,
           LocalsAreShown, OperandsAreNoted,
           NEW point, dpTrace' = Append(dpTrace, point),
           \A e \in wrote' \ wrote : ReadNow(e, point)
    PROVE  OperandsAreNoted'
<1>1. /\ Len(dpTrace) \in Nat \ {0} /\ DOMAIN dpTrace = 1..Len(dpTrace)
      /\ \A i \in 1..Len(dpTrace) : dpTrace'[i] = dpTrace[i]
      /\ DOMAIN dpTrace' = 1..Len(dpTrace) + 1 /\ dpTrace'[Len(dpTrace) + 1] = point
  BY GrowProperties, SequenceShape
<1>2. ASSUME NEW e \in wrote
      PROVE  /\ e.step - 1 \in DOMAIN dpTrace' /\ e.step \in DOMAIN dpTrace'
             /\ IsNoted(e, dpTrace'[e.step - 1], dpTrace'[e.step].table[e.cell], Operands(e.step)')
  <2>1. /\ e.step - 1 \in DOMAIN dpTrace /\ e.step \in DOMAIN dpTrace
        /\ IsNoted(e, dpTrace[e.step - 1], dpTrace[e.step].table[e.cell], Operands(e.step))
    BY DEF OperandsAreNoted
  <2>2. Operands(e.step)' = Operands(e.step)
    BY <2>1, OperandsStay
  <2>3. dpTrace'[e.step - 1] = dpTrace[e.step - 1] /\ dpTrace'[e.step] = dpTrace[e.step]
    BY <1>1, <2>1
  <2>4. e.step - 1 \in DOMAIN dpTrace' /\ e.step \in DOMAIN dpTrace'
    BY <1>1, <2>1
  <2>. QED BY <2>1, <2>2, <2>3, <2>4
<1>3. ASSUME NEW e \in wrote' \ wrote
      PROVE  /\ e.step - 1 \in DOMAIN dpTrace' /\ e.step \in DOMAIN dpTrace'
             /\ IsNoted(e, dpTrace'[e.step - 1], dpTrace'[e.step].table[e.cell], Operands(e.step)')
  <2> DEFINE last == dpTrace[Len(dpTrace)]
  <2>1. ReadNow(e, point)
    BY <1>3
  <2>2. /\ e.step = Len(dpTrace) + 1
        /\ e.line = Running.line /\ Running.line \in DOMAIN Stmt \ {Header}
        /\ Pending.lhs # None /\ Running.i \in Int /\ Running.func = Pending.func
        /\ e.cell = Running.i - Pending.lhs
        /\ e.reads = {Running.i - Pending.reads[k] : k \in DOMAIN Pending.reads}
    BY <2>1 DEF ReadNow
  <2>3. /\ e.step - 1 \in DOMAIN dpTrace'
        /\ e.step \in DOMAIN dpTrace' /\ dpTrace'[e.step - 1] = last
        /\ dpTrace'[e.step] = point
    <3>1. e.step - 1 = Len(dpTrace)
      BY <1>1, <2>2
    <3>2. e.step - 1 \in 1..Len(dpTrace) /\ e.step - 1 \in 1..Len(dpTrace) + 1
          /\ e.step \in 1..Len(dpTrace) + 1
      BY <1>1, <2>2, <3>1
    <3>. QED BY <1>1, <2>2, <3>1, <3>2
  <2>4. last.line = Running.line /\ Text(last.line) = Pending
    BY DEF PointIsTop, Pending
  <2>5. ASSUME Top(last).func = Pending.func
        PROVE  /\ Top(last).i \in Int /\ e.cell = At(last, Pending.lhs)
               /\ e.reads = {At(last, Pending.reads[k]) : k \in DOMAIN Pending.reads}
               /\ Pending.op # None =>
                     \/ Range(Operands(e.step)') \subseteq {None}
                     \/ IsBest(Pending.op, dpTrace'[e.step].table[e.cell], Operands(e.step)')
    <3>1. Top(last).i = Running.i
      BY <2>2, <2>5 DEF LocalsAreShown
    <3>2. \A o : At(last, o) = Running.i - o
      BY <3>1 DEF At
    <3>3. Operands(e.step)' =
            [k \in DOMAIN Pending.reads |-> last.table[Running.i - Pending.reads[k]]]
      <4>1. Operands(e.step)' =
              [k \in DOMAIN Text(last.line).reads |-> last.table[At(last, Text(last.line).reads[k])]]
        BY <2>3 DEF Operands, At, Top, Text
      <4>. QED BY <2>4, <3>2, <4>1
    <3>4. CASE last.table = table
      <4>1. Operands(e.step)' =
              [k \in DOMAIN Pending.reads |-> table[Running.i - Pending.reads[k]]]
        BY <3>3, <3>4
      <4>2. Pending.op # None =>
              IsBest(Pending.op, dpTrace'[e.step].table[e.cell], Operands(e.step)')
        BY <2>1, <2>3, <4>1 DEF ReadNow
      <4>. QED BY <2>2, <3>1, <3>2, <4>2
    <3>5. CASE last.table = [c \in Cell |-> None]
      <4>1. \A k \in DOMAIN Pending.reads : last.table[Running.i - Pending.reads[k]] = None
        BY <2>1, <3>5 DEF ReadNow
      <4>2. Range(Operands(e.step)') \subseteq {None}
        BY <3>3, <4>1 DEF Range
      <4>. QED BY <2>2, <3>1, <3>2, <4>2
    <3>. QED BY <3>4, <3>5 DEF LocalsAreShown
  <2>. HIDE DEF last
  <2>6. IsNoted(e, last, dpTrace'[e.step].table[e.cell], Operands(e.step)')
    BY <2>2, <2>4, <2>5 DEF IsNoted
  <2>. QED BY <2>3, <2>6
<1>4. ASSUME NEW e \in wrote'
      PROVE  /\ e.step - 1 \in DOMAIN dpTrace' /\ e.step \in DOMAIN dpTrace'
             /\ IsNoted(e, dpTrace'[e.step - 1], dpTrace'[e.step].table[e.cell], Operands(e.step)')
  <2>1. CASE e \in wrote
    BY <1>2, <2>1
  <2>2. CASE e \notin wrote
    BY <1>3, <2>2
  <2>. QED BY <2>1, <2>2
<1>. QED BY <1>4 DEF OperandsAreNoted, IsNoted, Top, At, Text, IsBest

\* The stack after a line that ran to its end.
LEMMA RunStack ==
    ASSUME DpInv, SolveIsAbove, NEW next, NEW i, NEW event, Run(next, i, event)
    PROVE  /\ DOMAIN dpStack' = 1..Len(dpStack) /\ Len(dpStack') = Len(dpStack)
           /\ \A n \in 1..Len(dpStack) : n # Len(dpStack) => dpStack'[n] = dpStack[n]
           /\ dpStack'[Len(dpStack)].func = Running.func
           /\ dpStack'[Len(dpStack)].line = next /\ dpStack'[Len(dpStack)].i = i
<1> DEFINE top == Len(dpStack)
           guard == Running.guarded \/ IsWitness(Running.line)
           frame == [Running EXCEPT !.line = next, !.i = i, !.fresh = FALSE,
                                    !.guarded = guard]
<1>1. /\ top \in Nat \ {0} /\ DOMAIN dpStack = 1..top /\ top \in DOMAIN dpStack
      /\ dpStack \in Seq(Range(dpStack)) /\ dpStack # <<>>
  BY TopShape
<1>2. dpStack' = [dpStack EXCEPT ![top] = frame]
  BY <1>1 DEF Run
<1>. HIDE DEF guard
<1>3. frame.func = Running.func /\ frame.line = next /\ frame.i = i
  <2>1. IsFrame(Running)
    BY <1>1 DEF SolveIsAbove, Running
  <2>. QED BY <2>1 DEF IsFrame
<1>. HIDE DEF frame
<1> DEFINE r == [dpStack EXCEPT ![Len(dpStack)] = frame]
<1>4. /\ r \in Seq(Range(r)) /\ Len(r) = Len(dpStack)
      /\ \A n \in 1..Len(dpStack) - 1 : r[n] = dpStack[n]
      /\ r[Len(dpStack)] = frame
  BY <1>1, ReplaceProperties
<1>5. dpStack' = r
  BY <1>2
<1>. HIDE DEF r
<1>6. DOMAIN dpStack' = 1..top
  BY <1>4, <1>5, SequenceShape
<1>7. \A n \in 1..top : n # top => n \in 1..top - 1
  <2>1. top \in Nat
    BY <1>1
  <2>. HIDE DEF top
  <2>. QED BY <2>1
<1>. QED BY <1>3, <1>4, <1>5, <1>6, <1>7

\* A point that shows the stack as it is shows the locals of the frame that runs.
LEMMA LocalsAsTheyAre ==
    ASSUME dpStack' \in Seq(Range(dpStack')), dpStack' # <<>>,
           dpTrace \in Seq(Range(dpTrace)), NEW point, dpTrace' = Append(dpTrace, point),
           point.frames = KeyedFrames(dpStack'),
           point.table \in {table', [c \in Cell |-> None]}
    PROVE  LocalsAreShown'
<1> DEFINE top == Len(dpStack')
<1>1. Len(point.frames) = top /\ top \in DOMAIN dpStack'
  <2>1. Len(point.frames) = top /\ top \in Nat \ {0} /\ DOMAIN dpStack' = 1..top
    BY KeysOfStack
  <2>. HIDE DEF top
  <2>. QED BY <2>1
<1>2. point.frames[top] = FrameAt(dpStack', top)
  BY <1>1 DEF KeyedFrames
<1>3. Top(point).i = dpStack'[top].i
  BY <1>1, <1>2 DEF Top, FrameAt
<1>4. dpTrace'[Len(dpTrace')] = point
  BY GrowProperties
<1>. QED BY <1>3, <1>4 DEF LocalsAreShown, Running, Top

\* A line that runs to its end.
LEMMA RunOperands ==
    ASSUME ValuesDiffer, TextIsPlain, DpInv, DpInv', EvidenceInv, OperandInv,
           NEW next, NEW i \in Cell, NEW event, Run(next, i, event),
           next \in {Header} \cup LinesOf(Running.func)
    PROVE  OperandInv'
<1> DEFINE top == Len(dpStack)
<1>1. /\ top \in Nat \ {0} /\ DOMAIN dpStack = 1..top /\ top \in DOMAIN dpStack
      /\ dpTrace \in Seq(Range(dpTrace)) /\ dpTrace # <<>>
  BY TopShape
<1>2. dpStack' \in Seq(Range(dpStack')) /\ dpStack' # <<>> /\ dpStack'[1].func = Main
  BY DEF DpInv, MainIsBelow
<1>3. /\ DOMAIN dpStack' = 1..top /\ Len(dpStack') = top
      /\ \A n \in 1..top : n # top => dpStack'[n] = dpStack[n]
      /\ dpStack'[top].func = Running.func
      /\ dpStack'[top].line = next /\ dpStack'[top].i = i
  BY RunStack DEF EvidenceInv
<1>4. FramesAreAtLines'
  <2>1. ASSUME NEW n \in 1..top
        PROVE  dpStack'[n].i \in Cell /\ dpStack'[n].line \in {Header} \cup LinesOf(dpStack'[n].func)
    <3>1. CASE n = top
      BY <1>3, <3>1
    <3>2. CASE n # top
      BY <1>1, <1>3, <3>2 DEF OperandInv, FramesAreAtLines
    <3>. QED BY <3>1, <3>2
  <2>. QED BY <1>3, <2>1 DEF FramesAreAtLines, LinesOf, Cell
<1>5. PICK point :
        /\ dpTrace' = Append(dpTrace, point) /\ point.frames = KeyedFrames(dpStack')
        /\ point.table \in {table', [c \in Cell |-> None]}
        /\ KeyedFrames(dpStack')[1].func = Main => point.table = table'
  <2>1. EmitPoint(event, KeyedFrames(dpStack'), next, table')
    BY DEF Run
  <2>. QED BY <2>1, EmitShows
<1>6. point.table = table'
  <2>1. 1 \in DOMAIN dpStack'
    BY <1>2, SequenceShape
  <2>. QED BY <1>2, <1>5, <2>1 DEF KeyedFrames, FrameAt
<1>7. LocalsAreShown'
  BY <1>1, <1>2, <1>5, LocalsAsTheyAre
<1>8. ASSUME NEW e \in wrote' \ wrote PROVE ReadNow(e, point)
  <2> DEFINE c == Running.i - Pending.lhs
             operand == [k \in DOMAIN Pending.reads |-> table[Running.i - Pending.reads[k]]]
  <2>1. Pending.lhs # None
    BY <1>8 DEF Run
  <2>2. InRange /\ c \in Cell
    BY <2>1 DEF Run, InRange
  <2>3. PICK v \in Results :
          /\ table' = [table EXCEPT ![c] = v]
          /\ wrote' = wrote \cup
               {[step |-> Len(dpTrace) + 1, cell |-> c, line |-> Running.line,
                 reads |-> {Running.i - Pending.reads[k] : k \in DOMAIN Pending.reads},
                 depth |-> Len(dpStack), changed |-> table[c] \notin {None, v},
                 evidence |-> Pending.reads # <<>> \/ Running.guarded]}
    BY <2>1 DEF Run
  <2>4. e = [step |-> Len(dpTrace) + 1, cell |-> c, line |-> Running.line,
             reads |-> {Running.i - Pending.reads[k] : k \in DOMAIN Pending.reads},
             depth |-> Len(dpStack), changed |-> table[c] \notin {None, v},
             evidence |-> Pending.reads # <<>> \/ Running.guarded]
    BY <1>8, <2>3
  <2>5. /\ e.step = Len(dpTrace) + 1 /\ e.cell = c /\ e.line = Running.line
        /\ e.reads = {Running.i - Pending.reads[k] : k \in DOMAIN Pending.reads}
    BY <2>4
  <2>6. table'[c] = v
    BY <2>2, <2>3 DEF DpInv
  <2>7. Running = dpStack[top] /\ Running.line # Header
    BY <2>1 DEF Running, Pending, Text, Blank
  <2>8. Running.line \in DOMAIN Stmt /\ Running.func = Pending.func /\ Running.i \in Cell
    BY <1>1, <2>7 DEF OperandInv, FramesAreAtLines, LinesOf, Pending, Text
  <2>9. Running.i \in Int
    BY <2>8 DEF Cell, TextIsPlain
  <2>10. \A k \in DOMAIN Pending.reads : Running.i - Pending.reads[k] \in Cell
    BY <2>2 DEF InRange
  <2>11. ASSUME Pending.op # None PROVE IsBest(Pending.op, v, operand)
    <3>1. \A k \in DOMAIN operand : operand[k] \in Val
      BY <2>2, <2>11 DEF InRange
    <3>2. Range(operand) \subseteq Val
      BY <3>1 DEF Range
    <3>3. v \in Range(operand) /\ \A u \in Range(operand) :
            IF Pending.op = "max" THEN v >= u ELSE v <= u
      BY <2>3, <2>11 DEF Results
    <3>. QED BY <3>2, <3>3 DEF IsBest
  <2>. HIDE DEF operand, c
  <2>12. Pending.op # None => IsBest(Pending.op, point.table[e.cell], operand)
    BY <1>6, <2>5, <2>6, <2>11
  <2>. QED BY <2>1, <2>5, <2>7, <2>8, <2>9, <2>10, <2>12 DEF ReadNow, operand, c
<1>9. OperandsAreNoted'
  BY <1>1, <1>5, <1>8, OperandStep DEF OperandInv, EvidenceInv
<1>. QED BY <1>4, <1>7, <1>9 DEF OperandInv

\* A call: the frame it pushes stands at its header.
LEMMA CallOperands ==
    ASSUME DpInv, DpInv', EvidenceInv, OperandInv, NEW i \in Cell, CallSolve(i)
    PROVE  OperandInv'
<1> DEFINE top == Len(dpStack)
           frame == NewFrame(Solve, i)
<1>1. /\ top \in Nat \ {0} /\ DOMAIN dpStack = 1..top /\ top \in DOMAIN dpStack
      /\ dpStack \in Seq(Range(dpStack)) /\ dpStack # <<>>
      /\ dpTrace \in Seq(Range(dpTrace)) /\ dpTrace # <<>>
  BY TopShape
<1>2. dpStack' \in Seq(Range(dpStack')) /\ dpStack' # <<>>
  BY DEF DpInv
<1>3. dpStack' = Append(dpStack, frame) /\ UNCHANGED wrote
  BY DEF CallSolve
<1>4. frame.line = Header /\ frame.i = i
  BY DEF NewFrame
<1>. HIDE DEF frame
<1>5. /\ DOMAIN dpStack' = 1..top + 1
      /\ dpStack'[top + 1] = frame /\ \A n \in 1..top : dpStack'[n] = dpStack[n]
  BY <1>1, <1>3, GrowProperties
<1>6. FramesAreAtLines'
  <2>1. ASSUME NEW n \in 1..top + 1
        PROVE  dpStack'[n].i \in Cell /\ dpStack'[n].line \in {Header} \cup LinesOf(dpStack'[n].func)
    <3>1. CASE n = top + 1
      BY <1>4, <1>5, <3>1
    <3>2. CASE n # top + 1
      <4>1. n \in 1..top
        <5>1. top \in Nat
          BY <1>1
        <5>. HIDE DEF top
        <5>. QED BY <3>2, <5>1
      <4>. QED BY <1>1, <1>5, <4>1 DEF OperandInv, FramesAreAtLines
    <3>. QED BY <3>1, <3>2
  <2>. QED BY <1>5, <2>1 DEF FramesAreAtLines, LinesOf, Cell
<1>7. PICK point :
        /\ dpTrace' = Append(dpTrace, point) /\ point.frames = KeyedFrames(dpStack')
        /\ point.table \in {table', [c \in Cell |-> None]}
  <2>1. EmitPoint("call", KeyedFrames(dpStack'), Header, table')
    BY DEF CallSolve
  <2>. QED BY <2>1, EmitShows
<1>8. LocalsAreShown'
  BY <1>1, <1>2, <1>7, LocalsAsTheyAre
<1>9. OperandsAreNoted'
  BY <1>1, <1>3, <1>7, OperandStep DEF OperandInv, EvidenceInv
<1>. QED BY <1>6, <1>8, <1>9 DEF OperandInv

\* The point after a return bears the locals of its frame, or another name.
LEMMA LagOperands ==
    ASSUME DpInv, DpInv', EvidenceInv, EvidenceInv', OperandInv, LagSolve
    PROVE  OperandInv'
<1> DEFINE top == Len(dpStack) - 1
           own == FrameAt(dpStack', top)
           seen == IF own.func = dpReturned THEN own
                   ELSE [func |-> dpReturned, key |-> <<dpReturned, top, FALSE>>, i |-> Running.i]
           frames == [KeyedFrames(dpStack') EXCEPT ![top] = seen]
<1>1. /\ Len(dpStack) \in Nat \ {0} /\ DOMAIN dpStack = 1..Len(dpStack)
      /\ dpStack \in Seq(Range(dpStack))
      /\ dpTrace \in Seq(Range(dpTrace)) /\ dpTrace # <<>> /\ MainIsBelow
  BY TopShape
<1>2. dpStack' \in Seq(Range(dpStack')) /\ dpStack' # <<>>
  BY DEF DpInv
<1>3. /\ Len(dpStack) > 1 /\ dpStack' = SubSeq(dpStack, 1, Len(dpStack) - 1)
      /\ UNCHANGED <<wrote, table>>
  BY <1>1 DEF LagSolve, MainIsBelow
<1>4. /\ top \in Nat \ {0} /\ Len(dpStack') = top /\ DOMAIN dpStack' = 1..top
      /\ \A n \in 1..top : dpStack'[n] = dpStack[n] /\ n \in DOMAIN dpStack
  <2> DEFINE r == SubSeq(dpStack, 1, Len(dpStack) - 1)
  <2>1. /\ r \in Seq(Range(r)) /\ Len(dpStack) \in Nat \ {0, 1} /\ Len(r) = Len(dpStack) - 1
        /\ \A n \in 1..Len(dpStack) - 1 : r[n] = dpStack[n]
    BY <1>1, <1>3, DropProperties
  <2>2. dpStack' = r
    BY <1>3
  <2>. HIDE DEF r
  <2>3. top \in Nat \ {0} /\ Len(dpStack') = top
    BY <2>1, <2>2
  <2>4. DOMAIN dpStack' = 1..top
    BY <1>2, <2>3, SequenceShape
  <2>5. \A n \in 1..top : n \in 1..Len(dpStack)
    BY <1>1
  <2>. QED BY <1>1, <2>1, <2>2, <2>3, <2>4, <2>5
<1>5. FramesAreAtLines'
  BY <1>4 DEF OperandInv, FramesAreAtLines, LinesOf, Cell
<1>6. PICK point :
        /\ dpTrace' = Append(dpTrace, point) /\ point.frames = frames
        /\ point.table \in {table, [c \in Cell |-> None]}
  <2>1. EmitPoint("step_line", frames, dpStack[top].line, table)
    BY DEF LagSolve
  <2>. QED BY <2>1, EmitShows
<1>7. dpTrace'[Len(dpTrace')] = point
  BY <1>1, <1>6, GrowProperties
<1>8. Len(point.frames) = top
  BY <1>4, <1>7 DEF EvidenceInv, PointIsTop
<1>9. Top(point) = seen
  <2>1. DOMAIN KeyedFrames(dpStack') = 1..top /\ top \in 1..top
    BY <1>4 DEF KeyedFrames
  <2>. HIDE DEF seen, own, top
  <2>2. frames[top] = seen
    BY <2>1
  <2>. HIDE DEF frames
  <2>. QED BY <1>6, <1>8, <2>2 DEF Top
<1>10. Running'.func = own.func /\ Running'.i = own.i
  <2>1. Running' = dpStack'[top]
    BY <1>4 DEF Running
  <2>. QED BY <2>1 DEF FrameAt
<1>11. seen.func = own.func => seen = own
  <2>1. CASE own.func = dpReturned
    BY <2>1
  <2>2. CASE own.func # dpReturned
    <3>1. seen = [func |-> dpReturned, key |-> <<dpReturned, top, FALSE>>, i |-> Running.i]
      BY <2>2
    <3>. HIDE DEF seen, own
    <3>. QED BY <2>2, <3>1
  <2>. QED BY <2>1, <2>2
<1>. HIDE DEF seen, own, frames
<1>12. LocalsAreShown'
  BY <1>3, <1>6, <1>7, <1>9, <1>10, <1>11 DEF LocalsAreShown, Top, Cell
<1>13. OperandsAreNoted'
  BY <1>1, <1>3, <1>6, OperandStep DEF OperandInv, EvidenceInv
<1>. QED BY <1>5, <1>12, <1>13 DEF OperandInv

\* At the first point nothing is noted.
LEMMA DpInitReads == DpInit => OperandInv
<1>. SUFFICES ASSUME DpInit PROVE OperandInv
  OBVIOUS
<1>1. PICK i \in Cell, l \in {Header} \cup LinesOf(Main) :
        dpStack = <<[NewFrame(Main, i) EXCEPT !.line = l]>>
  BY DEF DpInit
<1> DEFINE frame == [NewFrame(Main, i) EXCEPT !.line = l]
           point == [event |-> "step_line", frames |-> KeyedFrames(dpStack),
                     line |-> dpStack[1].line, table |-> table]
<1>2. frame.line = l /\ frame.func = Main /\ frame.i = i
  BY DEF NewFrame
<1>3. dpStack = <<frame>> /\ dpTrace = <<point>>
  BY <1>1 DEF DpInit
<1>4. point.frames = KeyedFrames(dpStack) /\ point.table = table
  OBVIOUS
<1>. HIDE DEF frame, point
<1>5. /\ Len(dpStack) = 1 /\ DOMAIN dpStack = {1} /\ dpStack[1] = frame
      /\ dpStack \in Seq(Range(dpStack)) /\ dpStack # <<>>
  BY <1>3, SingletonProperties
<1>6. Len(dpTrace) = 1 /\ dpTrace[1] = point
  BY <1>3
<1>7. Len(point.frames) = 1 /\ point.frames[1] = FrameAt(dpStack, 1)
  <2>1. point.frames[1] = FrameAt(dpStack, 1)
    BY <1>4, <1>5 DEF KeyedFrames
  <2>2. Len(point.frames) = 1
    BY <1>4, <1>5, KeysOfStack
  <2>. QED BY <2>1, <2>2
<1>8. Top(point).i = Running.i
  BY <1>5, <1>7 DEF Top, FrameAt, Running
<1>9. LocalsAreShown
  BY <1>4, <1>6, <1>8 DEF LocalsAreShown
<1>10. FramesAreAtLines
  BY <1>1, <1>2, <1>5 DEF FramesAreAtLines
<1>11. OperandsAreNoted
  BY DEF DpInit, OperandsAreNoted
<1>. QED BY <1>9, <1>10, <1>11 DEF OperandInv

\* Every step keeps it.
LEMMA DpReads ==
    ASSUME ValuesDiffer, TextIsPlain
    PROVE  OperandInv /\ EvidenceInv /\ EvidenceInv' /\ DpInv /\ DpInv' /\ [DpNext]_dpVars
             => OperandInv'
<1>. SUFFICES ASSUME OperandInv, EvidenceInv, EvidenceInv', DpInv, DpInv', [DpNext]_dpVars
              PROVE  OperandInv'
  OBVIOUS
<1>1. Running.i \in Cell /\ Running.line \in {Header} \cup LinesOf(Running.func)
  BY TopShape DEF OperandInv, FramesAreAtLines, Running
<1>2. CASE NextLine
  <2>1. PICK next \in After(Running.func, Running.line) \ {Header},
             i \in IF Running.func = Main THEN {Running.i, Running.i + 1} \cap Cell
                                          ELSE {Running.i} :
          Run(next, i, "step_line")
    BY <1>2 DEF NextLine
  <2>2. i \in Cell
    BY <1>1, <2>1
  <2>3. next \in LinesOf(Running.func)
    <3>1. CASE Running.line = Header
      BY <2>1, <3>1 DEF After
    <3>2. CASE Running.line # Header
      BY <1>1, <2>1, <3>2 DEF After, LinesOf, TextIsPlain
    <3>. QED BY <3>1, <3>2
  <2>. QED BY <2>1, <2>2, <2>3, RunOperands
<1>3. CASE ReturnSolve
  BY <1>1, <1>3, RunOperands DEF ReturnSolve
<1>4. CASE \E i \in Cell : CallSolve(i)
  BY <1>4, CallOperands
<1>5. CASE LagSolve
  BY <1>5, LagOperands
<1>6. CASE UNCHANGED dpVars
  <2>1. /\ dpStack' = dpStack /\ dpTrace' = dpTrace /\ table' = table /\ wrote' = wrote
    BY <1>6 DEF dpVars
  <2>2. \A s : Operands(s)' = Operands(s)
    BY <2>1 DEF Operands, At, Top, Text
  <2>3. OperandsAreNoted'
    <3>1. ASSUME NEW e \in wrote
          PROVE  /\ e.step - 1 \in DOMAIN dpTrace' /\ e.step \in DOMAIN dpTrace'
                 /\ IsNoted(e, dpTrace'[e.step - 1], dpTrace'[e.step].table[e.cell],
                            Operands(e.step)')
      BY <2>1, <2>2 DEF OperandInv, OperandsAreNoted
    <3>. QED BY <2>1, <3>1 DEF OperandsAreNoted, IsNoted, Top, At, Text, IsBest
  <2>4. LocalsAreShown' /\ FramesAreAtLines'
    BY <2>1 DEF OperandInv, LocalsAreShown, FramesAreAtLines, Running, Top, LinesOf, Cell
  <2>. QED BY <2>3, <2>4 DEF OperandInv
<1>. QED BY <1>2, <1>3, <1>4, <1>5, <1>6 DEF DpNext

-----------------------------------------------------------------------------
(* Theorems.                                                               *)

\* The inductive invariant.
THEOREM DpInductive ==
    ASSUME ValuesDiffer
    PROVE  DpSpec => []DpInv
<1>1. DpInit => DpInv
  BY DpInitEstablishes
<1>2. DpInv /\ [DpNext]_dpVars => DpInv'
  BY DpPreserves
<1>. QED BY <1>1, <1>2, PTL DEF DpSpec

\* The writes that collectWrites and collectKeyedWrites report are the assignments
\* that changed a value, at the step where it shows, also where the table was out of
\* sight or the map had no key for it (writes.ts:60-68, keyedWrites.ts:53-66).
THEOREM WritesAreAssignments ==
    ASSUME ValuesDiffer
    PROVE  DpSpec => []WritesAreReal
<1>1. DpInv => WritesAreReal
  BY DEF DpInv
<1>. QED BY <1>1, DpInductive, PTL

\* The invariant that the evidence of a recurrence rests on.
THEOREM EvidenceInductive ==
    ASSUME ValuesDiffer
    PROVE  DpSpec => []EvidenceInv
<1>1. DpInit => EvidenceInv
  BY DpInitNotes
<1>2. EvidenceInv /\ DpInv /\ DpInv' /\ [DpNext]_dpVars => EvidenceInv'
  BY DpNotes
<1>. QED BY <1>1, <1>2, DpInductive, PTL DEF DpSpec

\* A write counts as a recurrence only if its line read the table, or the invocation
\* that wrote had itself branched on the table or handed its value back; and a table
\* said to be filled at one depth was (writes.ts:135-160).
THEOREM RecurrencesAreReal ==
    ASSUME ValuesDiffer
    PROVE  DpSpec => []NeverLies
<1>1. DpInv /\ EvidenceInv => NeverLies
  BY NothingMadeUp
<1>. QED BY <1>1, DpInductive, EvidenceInductive, PTL

\* The invariant that the operands of a write rest on: the point before it shows what it
\* read.
THEOREM OperandInductive ==
    ASSUME ValuesDiffer, TextIsPlain
    PROVE  DpSpec => []OperandInv
<1>1. DpInit => OperandInv
  BY DpInitReads
<1>2. OperandInv /\ EvidenceInv /\ EvidenceInv' /\ DpInv /\ DpInv' /\ [DpNext]_dpVars
        => OperandInv'
  BY DpReads
<1>. QED BY <1>1, <1>2, DpInductive, EvidenceInductive, PTL DEF DpSpec

\* The arrows drawn at a write and the edges into its cell are the cells that the
\* assignment read, but for its target, and the winning branch of max or min holds the
\* value written, wherever no callee of another name has just returned: in a program
\* whose statements read their own target at most once (provenance.ts:28-44,
\* cone.ts:18-35).
THEOREM ArrowsAreReads ==
    ASSUME ValuesDiffer, TextIsPlain
    PROVE  DpSpec => []OperandsAreRead
<1>1. OperandInv => OperandsAreRead
  BY OperandsFollow DEF OperandInv
<1>. QED BY <1>1, OperandInductive, PTL

=============================================================================
