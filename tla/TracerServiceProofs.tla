------------------------- MODULE TracerServiceProofs -------------------------
(***************************************************************************)
(* What TracerService guarantees for every set of windows, every number of *)
(* calls in progress, every number of starts and every set of ports.       *)
(***************************************************************************)
EXTENDS TracerService, TLAPS

-----------------------------------------------------------------------------
(* Typing.                                                                 *)

\* What a method of TracerService does to its fields leaves them well typed.
LEMMA ServiceTypes ==
    ASSUME NEW s \in Service, NEW name \in StateName
    PROVE  /\ Set(s, name) \in Service
           /\ Failed(s) \in Service
           /\ [s EXCEPT !.owned = TRUE] \in Service
           /\ [s EXCEPT !.owned = FALSE] \in Service
           /\ [s EXCEPT !.cancelled = TRUE, !.inflight = NoTask] \in Service
           /\ [s EXCEPT !.inflight = NoTask] \in Service
           /\ NewService \in Service
BY DEF Set, Failed, Service, StateName, NewService

\* The calls that begin or end in a fixed state are well typed.
LEMMA CallTypes ==
    /\ IdleCall \in Call
    /\ [IdleCall EXCEPT !.pc = "stop"] \in Call
    /\ [IdleCall EXCEPT !.pc = "inspect"] \in Call
    /\ \A s \in Service : Watching(s) \in Call
BY DEF IdleCall, Call, Pc, BootPc, WatchPc, Reply, Watching, Service

\* The two ways in which a segment leaves its own call.
LEMMA GotoTypes ==
    ASSUME task \in [Task -> Call], NEW t \in Task, NEW l \in Pc, Goto(t, l)
    PROVE  task' \in [Task -> Call]
BY DEF Goto, Call, Reply

\* Returning from a method of the service (service.ts) keeps it and its calls typed.
LEMMA FinishTypes ==
    ASSUME TypeOK, NEW t \in Task, NEW s \in Service, Finish(t, s)
    PROVE  /\ svc' \in [Window -> Service]
           /\ task' \in [Task -> Call]
BY CallTypes DEF Finish, Write, TypeOK

\* So does an assignment to the fields of the service.
LEMMA WriteTypes ==
    ASSUME TypeOK, NEW t \in Task, NEW s \in Service, Write(t, s)
    PROVE  svc' \in [Window -> Service]
BY DEF Write, TypeOK

\* The daemon's own steps.
LEMMA DockerTypes ==
    ASSUME DockerTypeOK
    PROVE  /\ UNCHANGED dockerVars => DockerTypeOK'
           /\ RemoveEffect => DockerTypeOK'
           /\ PullEffect => DockerTypeOK'
           /\ \A w \in Window, p \in Port :
                 RunEffect(w, p) \/ RunFailure(w, p) => DockerTypeOK'
           /\ DockerEnvironment => DockerTypeOK'
<1>1. UNCHANGED dockerVars => DockerTypeOK'
  BY DEF dockerVars, DockerTypeOK
<1>2. RemoveEffect => DockerTypeOK'
  BY DEF RemoveEffect, DockerTypeOK
<1>3. PullEffect => DockerTypeOK'
  BY DEF PullEffect, DockerTypeOK
<1>4. \A w \in Window, p \in Port : RunEffect(w, p) \/ RunFailure(w, p) => DockerTypeOK'
  <2> SUFFICES ASSUME NEW w \in Window, NEW p \in Port, RunEffect(w, p) \/ RunFailure(w, p)
               PROVE  DockerTypeOK'
    OBVIOUS
  <2>1. \A alive \in BOOLEAN :
           [by |-> w, port |-> p, up |-> alive, serving |-> FALSE] \in Container
    BY DEF Container
  <2>2. container' \in Container \cup {NoContainer}
    BY <2>1 DEF RunEffect, RunFailure, DockerTypeOK
  <2>. QED BY <2>2 DEF RunEffect, RunFailure, DockerTypeOK
<1>5. \A c \in Container : [c EXCEPT !.up = FALSE, !.serving = FALSE] \in Container
  BY DEF Container
<1>6. BackendServes => DockerTypeOK'
  BY DEF BackendServes, Running, DockerTypeOK, Container
<1>7. ContainerDies => DockerTypeOK'
  BY <1>5 DEF ContainerDies, Running, DockerTypeOK
<1>8. DaemonStops => DockerTypeOK'
  <2> SUFFICES ASSUME DaemonStops PROVE DockerTypeOK'
    OBVIOUS
  <2>1. container' \in Container \cup {NoContainer}
    BY <1>5 DEF DaemonStops, Running, DockerTypeOK
  <2>2. daemonUp' \in BOOLEAN /\ imageCached' \in BOOLEAN
    BY DEF DaemonStops, DockerTypeOK
  <2>3. daemonStops' \in Nat
    BY DEF DaemonStops, DockerTypeOK
  <2>. QED BY <2>1, <2>2, <2>3 DEF DockerTypeOK
<1>9. DaemonStarts => DockerTypeOK'
  BY DEF DaemonStarts, DockerTypeOK
<1>. QED BY <1>1, <1>2, <1>3, <1>4, <1>6, <1>7, <1>8, <1>9 DEF DockerEnvironment

-----------------------------------------------------------------------------
(* The shape of a segment: what every action of start() has in common.     *)

\* Only call t and the service of its window may change.
Touches(t) ==
    /\ svc' \in [Window -> Service]
    /\ task' \in [Task -> Call]
    /\ \A w \in Window \ {WindowOf[t]} : svc'[w] = svc[w]
    /\ \A u \in Task \ {t} : task'[u] = task[u]

\* The call goes on, in the generation it was started in.
Continues(t) ==
    /\ task'[t].pc \in BootPc \cup {"undo"}
    /\ task'[t].gen = task[t].gen
    /\ task'[t].pc \in {"rm", "run"} => task'[t].port \in Port
    /\ task'[t].reply = "none"

\* The call ends, and its caller watches a service it finds ready.
Returns(t) ==
    IF svc'[WindowOf[t]].state = "ready"
    THEN task'[t].pc = "watchSleep" /\ task'[t].gen = svc'[WindowOf[t]].generation
    ELSE task'[t] = IdleCall

\* A start() that returns changes its own window and its own call only.
LEMMA FinishReturns ==
    ASSUME TypeOK, NEW t \in Task, NEW s \in Service, Finish(t, s)
    PROVE  Touches(t) /\ Returns(t) /\ svc'[WindowOf[t]] = s
<1>1. WindowOf[t] \in Window
  BY TaskAssumption
<1>2. Touches(t)
  BY FinishTypes, <1>1 DEF Finish, Write, Touches, TypeOK
<1>3. svc'[WindowOf[t]] = s
  BY <1>1 DEF Finish, Write, TypeOK
<1>4. Returns(t)
  BY <1>3, CallTypes DEF Finish, TypeOK, Returns, Watching, IdleCall
<1>. QED BY <1>2, <1>3, <1>4

\* A start() that goes on stays in its generation and knows its port.
LEMMA GotoContinues ==
    ASSUME TypeOK, PortKnown, NEW t \in Task, NEW s \in Service, NEW l \in BootPc \cup {"undo"},
           Goto(t, l), Write(t, s), l \in {"rm", "run"} => task[t].port \in Port
    PROVE  Touches(t) /\ Continues(t) /\ svc'[WindowOf[t]] = s
<1>1. WindowOf[t] \in Window
  BY TaskAssumption
<1>2. l \in Pc
  BY DEF Pc
<1>3. svc' \in [Window -> Service] /\ task' \in [Task -> Call]
  BY <1>2, GotoTypes, WriteTypes DEF TypeOK
<1>4. Touches(t)
  BY <1>1, <1>3 DEF Goto, Write, Touches, TypeOK
<1>5. svc'[WindowOf[t]] = s
  BY <1>1 DEF Write, TypeOK
<1>6. task'[t] = [task[t] EXCEPT !.pc = l, !.reply = "none"]
  BY DEF Goto, TypeOK
<1>7. Continues(t)
  BY <1>6 DEF TypeOK, Continues, Call
<1>. QED BY <1>4, <1>5, <1>7

\* Every segment of start() either goes on or returns; a superseded one only
\* returns, and leaves state and ownership as they are.
BootShape(t) ==
    /\ Live(t)
    /\ task[t].pc \in BootPc
    /\ Touches(t)
    /\ svc'[WindowOf[t]].generation = svc[WindowOf[t]].generation
    /\ svc'[WindowOf[t]].cancelled = svc[WindowOf[t]].cancelled
    /\ \/ ~Stale(t) /\ Continues(t)
       \/ ~Stale(t) /\ Returns(t) /\ svc'[WindowOf[t]].state \in {"ready", "error"}
       \/ Stale(t) /\ Returns(t)
    /\ Stale(t) => /\ svc'[WindowOf[t]].state = svc[WindowOf[t]].state
                   /\ svc'[WindowOf[t]].owned = svc[WindowOf[t]].owned
    /\ svc'[WindowOf[t]].owned =>
          svc[WindowOf[t]].owned \/ (task[t].pc = "run" /\ task[t].reply = "ok")
    /\ UNCHANGED <<phase, click, dockerVars>>

\* Every segment of start() between two awaits (service.ts:75-190) has that shape.
LEMMA BootSegment ==
    ASSUME TypeOK, PortKnown, NEW t \in Task, BootStep(t)
    PROVE  BootShape(t)
<1> DEFINE s0 == svc[WindowOf[t]]
<1>a. WindowOf[t] \in Window /\ s0 \in Service /\ Svc(t) = s0
  BY TaskAssumption DEF TypeOK, Svc
<1>b. UNCHANGED svc => Write(t, s0)
  BY <1>a DEF Write, TypeOK
<1>c. \A s \in Service :
         /\ Failed(s) \in Service /\ Failed(s).state = "error"
         /\ Failed(s).generation = s.generation /\ Failed(s).cancelled = s.cancelled
         /\ Failed(s).owned = s.owned
  BY DEF Failed, Set, Service, StateName
<1> USE DEF BootShape, At, Answered, Segment, KeepWindows, KeepDocker
<1>1. CASE Version(t)
  <2>1. CASE Stale(t)
    BY <1>1, <2>1, <1>a, FinishReturns DEF Version, BootPc
  <2>2. CASE ~Stale(t) /\ ~daemonUp
    BY <1>1, <2>2, <1>a, <1>c, FinishReturns DEF Version, BootPc
  <2>3. CASE ~Stale(t) /\ daemonUp
    BY <1>1, <2>3, <1>a, <1>b, GotoContinues DEF Version, BootPc
  <2>. QED BY <2>1, <2>2, <2>3
<1>d. ASSUME NEW s \in Service, Boot(t, s), ~Stale(t),
             s.generation = s0.generation, s.cancelled = s0.cancelled, s.owned = s0.owned
      PROVE  /\ Touches(t) /\ Continues(t)
             /\ svc'[WindowOf[t]].generation = s0.generation
             /\ svc'[WindowOf[t]].cancelled = s0.cancelled
             /\ svc'[WindowOf[t]].owned = s0.owned
  <2>1. CASE s.cancelled
    BY <1>d, <2>1, GotoContinues DEF Boot
  <2>2. CASE ~s.cancelled
    <3>1. /\ Set(s, "starting") \in Service
          /\ Set(s, "starting").generation = s.generation
          /\ Set(s, "starting").cancelled = s.cancelled
          /\ Set(s, "starting").owned = s.owned
      BY ServiceTypes DEF Set, Service, StateName
    <3>. QED BY <1>d, <2>2, <3>1, GotoContinues DEF Boot, BootPc
  <2>. QED BY <2>1, <2>2
<1>e. ASSUME NEW s \in Service, AwaitHealth(t, s), ~Stale(t),
             s.generation = s0.generation, s.cancelled = s0.cancelled
      PROVE  Touches(t) /\ Continues(t) /\ svc'[WindowOf[t]] = s
  <2>1. CASE s.cancelled
    BY <1>e, <2>1, GotoContinues DEF AwaitHealth
  <2>2. CASE ~s.cancelled
    BY <1>e, <2>2, GotoContinues DEF AwaitHealth, BootPc
  <2>. QED BY <2>1, <2>2
<1>2. CASE ImagePresent(t)
  <2>1. CASE Stale(t)
    BY <1>2, <2>1, <1>a, FinishReturns DEF ImagePresent, BootPc
  <2>2. CASE ~Stale(t) /\ daemonUp /\ imageCached
    BY <1>2, <2>2, <1>a, <1>d DEF ImagePresent, BootPc
  <2>3. CASE ~Stale(t) /\ ~(daemonUp /\ imageCached)
    <3> DEFINE s == [Set(s0, "pulling") EXCEPT !.inflight = t]
    <3>1. /\ s \in Service
          /\ s.generation = s0.generation /\ s.cancelled = s0.cancelled /\ s.owned = s0.owned
      BY <1>a DEF Set, Service, StateName
    <3>. QED BY <1>2, <2>3, <3>1, <1>a, GotoContinues DEF ImagePresent, BootPc
  <2>. QED BY <2>1, <2>2, <2>3
<1>3. CASE PullClosed(t)
  <2> DEFINE s == [s0 EXCEPT !.inflight = NoTask]
  <2>0. /\ s \in Service
        /\ s.generation = s0.generation /\ s.cancelled = s0.cancelled
        /\ s.owned = s0.owned /\ s.state = s0.state
    BY <1>a DEF Service
  <2>1. CASE Stale(t)
    BY <1>3, <2>0, <2>1, <1>a, FinishReturns DEF PullClosed, BootPc
  <2>2. CASE ~Stale(t) /\ s.cancelled
    BY <1>3, <2>0, <2>2, <1>a, GotoContinues DEF PullClosed, BootPc
  <2>3. CASE ~Stale(t) /\ ~s.cancelled /\ task[t].reply = "fail"
    <3>1. /\ Failed(s) \in Service /\ Failed(s).state = "error"
          /\ Failed(s).generation = s.generation /\ Failed(s).cancelled = s.cancelled
          /\ Failed(s).owned = s.owned
      BY <2>0, <1>c
    <3>. QED BY <1>3, <2>0, <2>3, <3>1, <1>a, FinishReturns DEF PullClosed, BootPc
  <2>4. CASE ~Stale(t) /\ ~s.cancelled /\ task[t].reply # "fail"
    BY <1>3, <2>0, <2>4, <1>a, <1>d DEF PullClosed, BootPc
  <2>. QED BY <2>1, <2>2, <2>3, <2>4
<1>4. CASE FindPort(t)
  <2>1. CASE Stale(t)
    BY <1>4, <2>1, <1>a, FinishReturns DEF FindPort, BootPc
  <2>2. ASSUME ~Stale(t), NEW p \in FreePort,
               task' = [task EXCEPT ![t] = [@ EXCEPT !.pc = "rm", !.port = p,
                                                     !.reply = "none"]],
               UNCHANGED svc
        PROVE  BootShape(t)
    <3>1. p \in Port
      BY DEF FreePort
    <3> DEFINE c == [task[t] EXCEPT !.pc = "rm", !.port = p, !.reply = "none"]
    <3>2. /\ c \in Call
          /\ c.pc = "rm" /\ c.port \in Port /\ c.gen = task[t].gen /\ c.reply = "none"
      BY <3>1 DEF TypeOK, Call, Pc, BootPc, Reply
    <3>3. task' = [task EXCEPT ![t] = c]
      BY <2>2
    <3> HIDE DEF c
    <3>4. Touches(t)
      BY <2>2, <3>2, <3>3 DEF Touches, TypeOK
    <3>5. Continues(t)
      BY <3>2, <3>3 DEF Continues, BootPc, TypeOK
    <3>. QED BY <1>4, <2>2, <3>4, <3>5 DEF FindPort, BootPc
  <2>3. CASE ~Stale(t) /\ Finish(t, Failed(Svc(t)))
    BY <1>4, <2>3, <1>a, <1>c, FinishReturns DEF FindPort, BootPc
  <2>. QED BY <1>4, <2>1, <2>2, <2>3 DEF FindPort
<1>5. CASE Removed(t)
  <2>1. CASE Stale(t)
    BY <1>5, <2>1, <1>a, FinishReturns DEF Removed, BootPc
  <2>2. CASE ~Stale(t)
    BY <1>5, <2>2, <1>a, <1>b, GotoContinues DEF Removed, BootPc, PortKnown
  <2>. QED BY <2>1, <2>2
<1>6. CASE Ran(t)
  <2>1. CASE Stale(t)
    BY <1>6, <2>1, <1>a, FinishReturns DEF Ran, BootPc
  <2>2. CASE ~Stale(t) /\ task[t].reply # "ok"
    BY <1>6, <2>2, <1>a, <1>c, FinishReturns DEF Ran, BootPc
  <2>3. CASE ~Stale(t) /\ task[t].reply = "ok"
    <3> DEFINE s == [s0 EXCEPT !.owned = TRUE]
    <3>1. /\ s \in Service
          /\ s.generation = s0.generation /\ s.cancelled = s0.cancelled
      BY <1>a DEF Service
    <3>. QED BY <1>6, <2>3, <3>1, <1>a, <1>e DEF Ran, BootPc
  <2>. QED BY <2>1, <2>2, <2>3
<1>7. CASE Probed(t)
  <2>1. CASE Stale(t)
    BY <1>7, <2>1, <1>a, FinishReturns DEF Probed, BootPc
  <2>2. CASE ~Stale(t) /\ Svc(t).cancelled
    BY <1>7, <2>2, <1>a, <1>b, GotoContinues DEF Probed, BootPc
  <2>3. CASE ~Stale(t) /\ ~Svc(t).cancelled /\ task[t].reply = "ok"
    <3> DEFINE s == [s0 EXCEPT !.state = "ready", !.port = task[t].port]
    <3>1. /\ s \in Service /\ s.state = "ready"
          /\ s.generation = s0.generation /\ s.cancelled = s0.cancelled /\ s.owned = s0.owned
      BY <1>a DEF Service, StateName, TypeOK, Call
    <3>. QED BY <1>7, <2>3, <3>1, <1>a, FinishReturns DEF Probed, BootPc
  <2>4. CASE ~Stale(t) /\ ~Svc(t).cancelled /\ task[t].reply # "ok"
    BY <1>7, <2>4, <1>a, <1>b, GotoContinues DEF Probed, BootPc
  <2>. QED BY <2>1, <2>2, <2>3, <2>4
<1>8. CASE Slept(t)
  <2>1. CASE Stale(t)
    BY <1>8, <2>1, <1>a, FinishReturns DEF Slept, BootPc
  <2>2. CASE ~Stale(t) /\ task[t].expired
    BY <1>8, <2>2, <1>a, <1>b, GotoContinues DEF Slept, BootPc
  <2>3. CASE ~Stale(t) /\ ~task[t].expired
    BY <1>8, <2>3, <1>a, <1>e DEF Slept, BootPc
  <2>. QED BY <2>1, <2>2, <2>3
<1>9. CASE Logged(t)
  <2>1. CASE Stale(t)
    BY <1>9, <2>1, <1>a, FinishReturns DEF Logged, BootPc
  <2>2. CASE ~Stale(t)
    BY <1>9, <2>2, <1>a, <1>b, GotoContinues DEF Logged, BootPc
  <2>. QED BY <2>1, <2>2
<1>10. CASE TimedOut(t)
  <2>1. CASE Stale(t)
    BY <1>10, <2>1, <1>a, FinishReturns DEF TimedOut, BootPc
  <2>2. CASE ~Stale(t)
    <3> DEFINE s == [Failed(s0) EXCEPT !.owned = FALSE]
    <3>1. /\ s \in Service /\ s.state = "error" /\ s.owned = FALSE
          /\ s.generation = s0.generation /\ s.cancelled = s0.cancelled
      BY <1>a, <1>c DEF Service, Failed, Set
    <3>. QED BY <1>10, <2>2, <3>1, <1>a, FinishReturns DEF TimedOut, BootPc
  <2>. QED BY <2>1, <2>2
<1>. QED BY <1>1, <1>2, <1>3, <1>4, <1>5, <1>6, <1>7, <1>8, <1>9, <1>10 DEF BootStep

\* A segment outside start(), or the tail of one that was cancelled, either
\* returns or suspends the call again and leaves the service alone.
SideShape(t) ==
    /\ task[t].pc \notin BootPc
    /\ Live(t)
    /\ Touches(t)
    /\ UNCHANGED <<phase, click, dockerVars>>
    /\ svc'[WindowOf[t]].generation = svc[WindowOf[t]].generation
    /\ svc'[WindowOf[t]].cancelled = svc[WindowOf[t]].cancelled
    /\ svc'[WindowOf[t]].owned => svc[WindowOf[t]].owned
    /\ task'[t].pc \notin BootPc
    /\ \/ /\ Returns(t)
          /\ \/ svc'[WindowOf[t]].state \notin Busy
             \/ task[t].pc # "undo" /\ svc'[WindowOf[t]].state = svc[WindowOf[t]].state
       \/ /\ svc'[WindowOf[t]] = svc[WindowOf[t]]
          /\ task[t].pc # "undo"
          /\ task'[t].gen = task[t].gen
          /\ task[t].pc \in WatchPc =>
                task'[t].pc \in WatchPc \/ WatchOver(t)
       \/ /\ svc'[WindowOf[t]] = svc[WindowOf[t]]
          /\ task[t].pc # "undo"
          /\ task'[t] = IdleCall
          /\ task[t].pc \in WatchPc => WatchOver(t)

\* The segments of the watch, of undo and of the first look at docker have theirs.
LEMMA SideSegment ==
    ASSUME TypeOK, PortKnown, NEW t \in Task,
           \/ EnsureReady(t) \/ Undone(t) \/ Adopted(t)
           \/ WatchSlept(t) \/ WatchProbed(t) \/ WatchLogged(t) \/ WatchFailed(t)
    PROVE  SideShape(t)
<1> DEFINE s0 == svc[WindowOf[t]]
<1>a. WindowOf[t] \in Window /\ s0 \in Service /\ Svc(t) = s0 /\ task[t] \in Call
  BY TaskAssumption DEF TypeOK, Svc
<1>b. ASSUME UNCHANGED svc, NEW l \in Pc \ BootPc, Goto(t, l)
      PROVE  /\ Touches(t) /\ svc'[WindowOf[t]] = s0
             /\ task'[t].pc = l /\ task'[t].gen = task[t].gen
  <2>1. task'[t] = [task[t] EXCEPT !.pc = l, !.reply = "none"]
    BY <1>b DEF Goto, TypeOK
  <2>2. Touches(t)
    BY <1>b, GotoTypes DEF Goto, Touches, TypeOK
  <2>. QED BY <2>1, <2>2, <1>a, <1>b DEF Call
<1>c. ASSUME NEW s \in Service, Write(t, s), task' = [task EXCEPT ![t] = IdleCall]
      PROVE  Touches(t) /\ svc'[WindowOf[t]] = s /\ task'[t] = IdleCall
  BY <1>a, <1>c, CallTypes, WriteTypes DEF Touches, TypeOK, Write
<1>d. UNCHANGED svc => Write(t, s0)
  BY <1>a DEF Write, TypeOK
<1>e. /\ IdleCall.pc = "idle"
      /\ \A l \in WatchPc \cup {"idle", "preflight", "undo", "stop", "inspect"} :
            l \in Pc \ BootPc
  BY DEF IdleCall, Pc, BootPc, WatchPc
<1> USE DEF SideShape, At, Answered, Segment, KeepWindows, KeepDocker, WatchOver
<1>1. CASE EnsureReady(t)
  <2>1. task[t].pc = "idle" /\ Live(t)
    BY <1>1 DEF EnsureReady, IdleCall, Live
  <2>. QED BY <1>1, <2>1, <1>a, <1>b, <1>e DEF EnsureReady, WatchPc
<1>2. CASE Undone(t)
  <2> DEFINE s == [Set(s0, "stopped") EXCEPT !.owned = FALSE]
  <2>1. /\ s \in Service /\ s.state = "stopped" /\ s.owned = FALSE
        /\ s.generation = s0.generation /\ s.cancelled = s0.cancelled
    BY <1>a DEF Set, Service, StateName
  <2>2. Touches(t) /\ Returns(t) /\ svc'[WindowOf[t]] = s
    BY <1>2, <2>1, <1>a, FinishReturns DEF Undone
  <2>3. task'[t] = IdleCall
    BY <2>1, <2>2 DEF Returns
  <2>. QED BY <1>2, <2>1, <2>2, <2>3, <1>a, <1>e DEF Undone, Busy
<1>3. CASE Adopted(t)
  <2>1. \A s \in Service : Finish(t, s) =>
           /\ Touches(t) /\ Returns(t) /\ svc'[WindowOf[t]] = s
           /\ task'[t].pc \notin BootPc
    BY <1>e, FinishReturns DEF Returns, BootPc
  <2>2. CASE Stale(t)
    BY <1>3, <2>1, <2>2, <1>a, <1>e DEF Adopted
  <2>3. CASE ~Stale(t) /\ task[t].reply = "fail"
    <3>1. /\ Set(s0, "stopped") \in Service /\ Set(s0, "stopped").state = "stopped"
          /\ Set(s0, "stopped").generation = s0.generation
          /\ Set(s0, "stopped").cancelled = s0.cancelled
          /\ Set(s0, "stopped").owned = s0.owned
      BY <1>a DEF Set, Service, StateName
    <3>. QED BY <1>3, <2>1, <2>3, <3>1, <1>a, <1>e DEF Adopted, Busy
  <2>4. CASE ~Stale(t) /\ task[t].reply = "bad"
    BY <1>3, <2>4, <1>a, <1>b, <1>e DEF Adopted, WatchPc
  <2>5. CASE ~Stale(t) /\ task[t].reply \notin {"fail", "bad"}
    <3> DEFINE s == [s0 EXCEPT !.state = "ready", !.port = task[t].port]
    <3>1. /\ s \in Service /\ s.state = "ready"
          /\ s.generation = s0.generation /\ s.cancelled = s0.cancelled /\ s.owned = s0.owned
      BY <1>a DEF Service, StateName, Call
    <3>. QED BY <1>3, <2>1, <2>5, <3>1, <1>a, <1>e DEF Adopted, Busy
  <2>. QED BY <2>2, <2>3, <2>4, <2>5
<1>4. CASE WatchSlept(t)
  <2>1. CASE WatchOver(t)
    BY <1>4, <2>1, <1>a, <1>c, <1>d, <1>e DEF WatchSlept, EndWatch, WatchPc
  <2>2. CASE ~WatchOver(t)
    BY <1>4, <2>2, <1>a, <1>b, <1>e DEF WatchSlept, WatchPc
  <2>. QED BY <2>1, <2>2
<1>5. CASE WatchProbed(t)
  <2>1. CASE WatchOver(t)
    BY <1>5, <2>1, <1>a, <1>c, <1>d, <1>e DEF WatchProbed, EndWatch, WatchPc
  <2>2. CASE ~WatchOver(t) /\ task[t].reply = "ok"
    <3> DEFINE c == [Watching(s0) EXCEPT !.gen = task[t].gen]
    <3>1. c \in Call /\ c.pc = "watchSleep" /\ c.gen = task[t].gen
      BY <1>a DEF Watching, IdleCall, Call, Service, Pc, WatchPc, Reply
    <3>2. task' = [task EXCEPT ![t] = c] /\ UNCHANGED svc
      BY <1>5, <2>2, <1>a DEF WatchProbed
    <3> HIDE DEF c
    <3>3. Touches(t) /\ task'[t] = c /\ svc'[WindowOf[t]] = s0
      BY <3>1, <3>2, <1>a DEF Touches, TypeOK
    <3>. QED BY <1>5, <2>2, <3>1, <3>3, <1>a, <1>e DEF WatchProbed, WatchPc
  <2>3. CASE ~WatchOver(t) /\ task[t].reply # "ok"
    BY <1>5, <2>3, <1>a, <1>b, <1>e DEF WatchProbed, WatchPc
  <2>. QED BY <2>1, <2>2, <2>3
<1>6. CASE WatchLogged(t)
  BY <1>6, <1>a, <1>b, <1>e DEF WatchLogged, WatchPc
<1>7. CASE WatchFailed(t)
  <2> DEFINE s == [Failed(s0) EXCEPT !.owned = FALSE]
  <2>1. /\ s \in Service /\ s.state = "error" /\ s.owned = FALSE
        /\ s.generation = s0.generation /\ s.cancelled = s0.cancelled
    BY <1>a DEF Failed, Set, Service, StateName
  <2>2. Touches(t) /\ svc'[WindowOf[t]] = s /\ task'[t] = IdleCall
    BY <1>7, <2>1, <1>a, <1>c DEF WatchFailed
  <2>. QED BY <1>7, <2>1, <2>2, <1>a, <1>e DEF WatchFailed, Busy, Returns, WatchPc
<1>. QED BY <1>1, <1>2, <1>3, <1>4, <1>5, <1>6, <1>7

-----------------------------------------------------------------------------
(* Segments preserve the inductive invariant.                              *)

\* How a segment treats the calls and windows it does not belong to.
LEMMA TouchesOthers ==
    ASSUME TypeOK, NEW t \in Task, Touches(t), UNCHANGED phase,
           svc'[WindowOf[t]].generation = svc[WindowOf[t]].generation
    PROVE  /\ WindowOf[t] \in Window
           /\ \A u \in Task : WindowOf[u] \in Window
           /\ \A u \in Task : (Live(u)' <=> Live(u))
                              /\ Svc(u)'.generation = Svc(u).generation
           /\ \A u \in Task \ {t} : (Stale(u)' <=> Stale(u)) /\ (Driving(u)' <=> Driving(u))
           /\ (Stale(t)' <=> task'[t].gen # svc[WindowOf[t]].generation)
<1>1. \A u \in Task : WindowOf[u] \in Window
  BY TaskAssumption
<1>2. \A u \in Task : svc'[WindowOf[u]].generation = svc[WindowOf[u]].generation
  BY <1>1 DEF Touches
<1>. QED BY <1>1, <1>2 DEF Touches, Live, Svc, Stale, Driving

\* A segment of start() preserves the invariant.
LEMMA BootPreserves ==
    ASSUME IInv, NEW t \in Task, BootShape(t)
    PROVE  IInv'
<1> USE DEF BootShape
<1>a. TypeOK /\ PortKnown /\ ClosedIsBlank /\ GenerationKnown /\ GenerationsDiffer
      /\ BusyIsDriven /\ ReadyIsAttended /\ RunIsFresh /\ AdoptedIsNotOwned
  BY DEF IInv
<1>b. Touches(t) /\ UNCHANGED phase /\ UNCHANGED click /\ UNCHANGED dockerVars
  OBVIOUS
<1>c. /\ WindowOf[t] \in Window
      /\ \A u \in Task : WindowOf[u] \in Window
      /\ \A u \in Task : (Live(u)' <=> Live(u)) /\ Svc(u)'.generation = Svc(u).generation
      /\ \A u \in Task \ {t} : (Stale(u)' <=> Stale(u)) /\ (Driving(u)' <=> Driving(u))
      /\ (Stale(t)' <=> task'[t].gen # svc[WindowOf[t]].generation)
  BY <1>a, <1>b, TouchesOthers
<1>d. IdleCall.pc = "idle" /\ IdleCall.reply = "none"
  BY DEF IdleCall
<1>e. UNCHANGED container /\ UNCHANGED daemonUp /\ UNCHANGED imageCached /\ UNCHANGED daemonStops
  BY DEF dockerVars
<1>1. TypeOK'
  BY <1>a, <1>b, DockerTypes DEF TypeOK, Touches
<1>2. PortKnown'
  BY <1>a, <1>d DEF PortKnown, Touches, Continues, Returns
<1>3. ClosedIsBlank'
  BY <1>a, <1>c DEF ClosedIsBlank, Touches, TasksOf, Live
<1>4. GenerationKnown'
  BY <1>a, <1>c, <1>d DEF GenerationKnown, Touches, Continues, Returns, BootPc
<1>5. GenerationsDiffer'
  BY <1>a, <1>c, <1>d DEF GenerationsDiffer, Touches, Continues, Returns, BootPc
<1>6. BusyIsDriven'
  BY <1>a, <1>c, <1>d DEF BusyIsDriven, Touches, Continues, Returns, Busy, TasksOf, Driving, Stale, Svc
<1>7. ReadyIsAttended'
  BY <1>a, <1>c, <1>d DEF ReadyIsAttended, Touches, Continues, Returns, Busy, TasksOf, Driving, Stale, Svc, WatchPc
<1>8. RunIsFresh'
  BY <1>a, <1>e, <1>d DEF RunIsFresh, Touches, Continues, Returns
<1>9. AdoptedIsNotOwned'
  BY <1>a, <1>c, <1>e DEF AdoptedIsNotOwned, RunIsFresh, Touches
<1>. QED BY <1>1, <1>2, <1>3, <1>4, <1>5, <1>6, <1>7, <1>8, <1>9 DEF IInv

\* A segment of the watch, of undo or of ensureReady() preserves it.
LEMMA SidePreserves ==
    ASSUME IInv, NEW t \in Task, SideShape(t)
    PROVE  IInv'
<1> USE DEF SideShape
<1>a. TypeOK /\ PortKnown /\ ClosedIsBlank /\ GenerationKnown /\ GenerationsDiffer
      /\ BusyIsDriven /\ ReadyIsAttended /\ RunIsFresh /\ AdoptedIsNotOwned
  BY DEF IInv
<1>b. Touches(t) /\ UNCHANGED phase /\ UNCHANGED click /\ UNCHANGED dockerVars
  OBVIOUS
<1>c. /\ WindowOf[t] \in Window
      /\ \A u \in Task : WindowOf[u] \in Window
      /\ \A u \in Task : (Live(u)' <=> Live(u)) /\ Svc(u)'.generation = Svc(u).generation
      /\ \A u \in Task \ {t} : (Stale(u)' <=> Stale(u)) /\ (Driving(u)' <=> Driving(u))
      /\ (Stale(t)' <=> task'[t].gen # svc[WindowOf[t]].generation)
  BY <1>a, <1>b, TouchesOthers
<1>d. IdleCall.pc = "idle" /\ IdleCall.reply = "none"
  BY DEF IdleCall
<1>e. UNCHANGED container
  BY DEF dockerVars
<1>1. TypeOK'
  BY <1>a, <1>b, DockerTypes DEF TypeOK, Touches
<1>2. PortKnown'
  BY <1>a DEF PortKnown, Touches, BootPc
<1>3. ClosedIsBlank'
  BY <1>a, <1>c DEF ClosedIsBlank, Touches, TasksOf, Live
<1>4. GenerationKnown'
  BY <1>a, <1>c DEF GenerationKnown, Touches
<1>5. GenerationsDiffer'
  BY <1>a, <1>c DEF GenerationsDiffer, Touches
<1>6. BusyIsDriven'
  BY <1>a, <1>c, <1>d DEF BusyIsDriven, Touches, Returns, Busy, TasksOf, Driving
<1>7. ReadyIsAttended'
  BY <1>a, <1>c, <1>d
     DEF ReadyIsAttended, Touches, Returns, TasksOf, Driving, Stale, Svc, WatchPc, WatchOver
<1>8. RunIsFresh'
  BY <1>a, <1>e DEF RunIsFresh, Touches, BootPc
<1>9. AdoptedIsNotOwned'
  BY <1>a, <1>c, <1>e DEF AdoptedIsNotOwned, Touches
<1>. QED BY <1>1, <1>2, <1>3, <1>4, <1>5, <1>6, <1>7, <1>8, <1>9 DEF IInv

\* The head of start(): one more generation, driven by t.
LEMMA PreflightPreserves ==
    ASSUME IInv, NEW t \in Task, Preflight(t)
    PROVE  IInv'
<1> DEFINE s0 == svc[WindowOf[t]]
           g == s0.generation + 1
           s == [s0 EXCEPT !.generation = g, !.cancelled = FALSE]
           c == [task[t] EXCEPT !.pc = "version", !.gen = g]
<1>a. TypeOK /\ PortKnown /\ ClosedIsBlank /\ GenerationKnown /\ GenerationsDiffer
      /\ BusyIsDriven /\ ReadyIsAttended /\ RunIsFresh /\ AdoptedIsNotOwned
  BY DEF IInv
<1>b. /\ WindowOf[t] \in Window /\ s0 \in Service /\ Svc(t) = s0 /\ task[t] \in Call
      /\ \A u \in Task : WindowOf[u] \in Window
  BY <1>a, TaskAssumption DEF TypeOK, Svc
<1>c. Live(t) /\ task[t].pc = "preflight" /\ UNCHANGED <<phase, click, dockerVars>>
  BY DEF Preflight, At, Segment, KeepWindows, KeepDocker
<1>d. IdleCall.pc = "idle" /\ IdleCall \in Call
  BY CallTypes DEF IdleCall
<1>1. ASSUME Touches(t), svc'[WindowOf[t]] = s0, task'[t] = IdleCall
      PROVE  IInv'
  <2>1. SideShape(t)
    BY <1>1, <1>c, <1>d DEF SideShape, BootPc, WatchPc
  <2>. QED BY <2>1, SidePreserves
<1>2. CASE ~daemonUp
  <2>1. Touches(t) /\ svc'[WindowOf[t]] = s0 /\ task'[t] = IdleCall
    BY <1>2, <1>a, <1>b, <1>d DEF Preflight, Touches, TypeOK
  <2>. QED BY <2>1, <1>1
<1>3. CASE daemonUp /\ s0.state \in Busy
  <2>1. Finish(t, s0)
    BY <1>3, <1>b DEF Preflight, Start
  <2>2. Touches(t) /\ Returns(t) /\ svc'[WindowOf[t]] = s0
    BY <2>1, <1>a, <1>b, FinishReturns
  <2>3. s0.state # "ready"
    BY <1>3 DEF Busy
  <2>. QED BY <2>2, <2>3, <1>1 DEF Returns
<1>4. CASE daemonUp /\ s0.state \notin Busy
  <2>0. g \in Nat
    BY <1>b DEF Service
  <2>1. /\ s \in Service
        /\ s.state = s0.state /\ s.owned = s0.owned /\ s.generation = g
    <3> HIDE DEF g
    <3>. QED BY <1>b, <2>0 DEF Service
  <2>2. c \in Call /\ c.pc = "version" /\ c.gen = g
    BY <1>b, <2>0 DEF Call, Pc, BootPc
  <2>3. svc' = [svc EXCEPT ![WindowOf[t]] = s] /\ task' = [task EXCEPT ![t] = c]
    BY <1>4, <1>b DEF Preflight, Start, Write
  <2> HIDE DEF s, c
  <2>4. Touches(t) /\ svc'[WindowOf[t]] = s /\ task'[t] = c
    BY <2>1, <2>2, <2>3, <1>a, <1>b DEF Touches, TypeOK
  <2>5. UNCHANGED phase /\ UNCHANGED click /\ UNCHANGED dockerVars /\ UNCHANGED container
    BY <1>c DEF dockerVars
  <2>6. s0.generation < g
    BY <1>b DEF Service
  <2>7. TypeOK'
    BY <2>4, <2>5, <1>a, DockerTypes DEF TypeOK, Touches
  <2>8. PortKnown' /\ RunIsFresh'
    BY <2>2, <2>4, <2>5, <1>a DEF PortKnown, RunIsFresh, Touches
  <2>9. ClosedIsBlank'
    BY <2>4, <2>5, <1>a, <1>b, <1>c DEF ClosedIsBlank, Touches, TasksOf, Live
  <2>10. GenerationKnown'
    <3> SUFFICES ASSUME NEW u \in Task, Live(u)', task'[u].pc \in BootPc
                 PROVE  task'[u].gen <= Svc(u)'.generation
      BY DEF GenerationKnown
    <3>1. CASE u = t
      BY <3>1, <2>0, <2>1, <2>2, <2>4 DEF Svc
    <3>2. CASE u # t
      <4>1. task'[u] = task[u] /\ Live(u) /\ task[u] \in Call /\ Svc(u) \in Service
        BY <3>2, <2>4, <2>5, <1>a, <1>b DEF Touches, Live, TypeOK, Svc
      <4>2. task[u].gen <= Svc(u).generation
        BY <4>1, <1>a DEF GenerationKnown
      <4>3. task[u].gen \in Nat /\ Svc(u).generation \in Nat
        BY <4>1 DEF Call, Service
      <4>4. Svc(u)'.generation = Svc(u).generation \/ Svc(u)'.generation = Svc(u).generation + 1
        BY <2>1, <2>4, <1>b DEF Svc, Touches
      <4>. QED BY <4>1, <4>2, <4>3, <4>4
    <3>. QED BY <3>1, <3>2
  <2>11. GenerationsDiffer'
    <3>1. ASSUME NEW u \in Task \ {t}, WindowOf[u] = WindowOf[t], Live(u), task[u].pc \in BootPc
          PROVE  task[u].gen # g
      <4>1. task[u].gen <= s0.generation /\ task[u].gen \in Nat
        BY <3>1, <1>a DEF GenerationKnown, Svc, TypeOK, Call
      <4>. QED BY <4>1, <2>6, <1>b DEF Service
    <3>. QED BY <3>1, <2>2, <2>4, <2>5, <1>a, <1>c DEF GenerationsDiffer, Touches, Live
  <2>12. Driving(t)'
    BY <2>1, <2>2, <2>4 DEF Driving, Stale, Svc, BootPc
  <2>13. BusyIsDriven'
    BY <2>1, <2>4, <2>12, <1>a, <1>b, <1>c DEF BusyIsDriven, Touches, TasksOf, Driving, Stale, Svc
  <2>14. ReadyIsAttended'
    BY <2>4, <2>12, <1>a, <1>b DEF ReadyIsAttended, Touches, TasksOf, Driving, Stale, Svc
  <2>15. AdoptedIsNotOwned'
    BY <2>1, <2>4, <2>5, <1>a, <1>b DEF AdoptedIsNotOwned, Touches
  <2>. QED BY <2>7, <2>8, <2>9, <2>10, <2>11, <2>13, <2>14, <2>15 DEF IInv
<1>. QED BY <1>2, <1>3, <1>4

-----------------------------------------------------------------------------
(* Steps that are no segment preserve the inductive invariant.             *)

\* The services stay, and every call stays where it is or was nobody's.
QuietShape ==
    /\ UNCHANGED <<phase, svc>>
    /\ task' \in [Task -> Call]
    /\ \A u \in Task :
          \/ /\ task'[u].pc = task[u].pc
             /\ task'[u].gen = task[u].gen
             /\ task[u].pc \in {"rm", "run"} => task'[u].port = task[u].port
          \/ ~Live(u) /\ task'[u] = IdleCall
    /\ click' \in [Window -> BOOLEAN]
    /\ DockerTypeOK'

\* A step that writes no field of a service preserves it.
LEMMA QuietPreserves ==
    ASSUME IInv, QuietShape, RunIsFresh', AdoptedIsNotOwned',
           \A u \in Task : phase[WindowOf[u]] = "new" => task'[u] = task[u]
    PROVE  IInv'
<1>a. TypeOK /\ PortKnown /\ ClosedIsBlank /\ GenerationKnown /\ GenerationsDiffer
      /\ BusyIsDriven /\ ReadyIsAttended
  BY DEF IInv
<1>b. \A u \in Task : WindowOf[u] \in Window
  BY TaskAssumption
<1>c. IdleCall.pc = "idle"
  BY DEF IdleCall
<1> USE DEF QuietShape
<1>0. \A u \in Task : (Live(u)' <=> Live(u)) /\ Svc(u)' = Svc(u)
  BY DEF Live, Svc
<1>1. TypeOK'
  BY <1>a DEF TypeOK
<1>2. PortKnown'
  BY <1>a, <1>c DEF PortKnown
<1>3. ClosedIsBlank'
  BY <1>a DEF ClosedIsBlank, TasksOf
<1>4. GenerationKnown'
  BY <1>a, <1>0 DEF GenerationKnown
<1>5. GenerationsDiffer'
  BY <1>a, <1>0, <1>c DEF GenerationsDiffer, BootPc, Live
<1>6. \A u \in Task : Live(u) /\ Driving(u) => Driving(u)'
  BY <1>0 DEF Driving, Stale
<1>7. \A w \in Window : svc[w].state \in Busy \cup {"ready"} => phase[w] \in {"open", "closing"}
  BY <1>a DEF ClosedIsBlank, NewService, Busy, TypeOK, Phase
<1>8. BusyIsDriven'
  BY <1>a, <1>6, <1>7 DEF BusyIsDriven, TasksOf, Live
<1>9. ReadyIsAttended'
  BY <1>a, <1>6, <1>7 DEF ReadyIsAttended, TasksOf, Live, Stale, Svc
<1>. QED BY <1>1, <1>2, <1>3, <1>4, <1>5, <1>8, <1>9 DEF IInv

\* An answer leaves its call where it was.
LEMMA AnswerIsQuiet ==
    ASSUME IInv, NEW t \in Task, NEW r \in Reply, Answer(t, r), task[t].pc # "idle", DockerTypeOK'
    PROVE  /\ QuietShape
           /\ \A u \in Task : phase[WindowOf[u]] = "new" => task'[u] = task[u]
           /\ \A u \in Task : task'[u].pc = "run" /\ task'[u].reply = "ok" =>
                 task[u].pc = "run" /\ (task[u].reply = "ok" \/ (u = t /\ r = "ok"))
<1>a. TypeOK /\ ClosedIsBlank /\ WindowOf \in [Task -> Window]
  BY TaskAssumption DEF IInv
<1> DEFINE c == IF Live(t) THEN [task[t] EXCEPT !.reply = r] ELSE IdleCall
<1>1. task[t] \in Call /\ IdleCall \in Call /\ IdleCall.pc = "idle"
  BY <1>a, CallTypes DEF TypeOK, IdleCall
<1>2. /\ c \in Call
      /\ ~Live(t) => c = IdleCall
      /\ Live(t) => /\ c.pc = task[t].pc /\ c.gen = task[t].gen /\ c.port = task[t].port
                    /\ c.reply = r
  BY <1>1 DEF Call
<1>3. task' = [task EXCEPT ![t] = c] /\ UNCHANGED <<phase, svc, click>>
  BY DEF Answer
<1> HIDE DEF c
<1>4. QuietShape
  BY <1>a, <1>1, <1>2, <1>3 DEF QuietShape, TypeOK
<1>5. phase[WindowOf[t]] # "new"
  BY <1>a, <1>1 DEF ClosedIsBlank, TasksOf
<1>. QED BY <1>a, <1>1, <1>2, <1>3, <1>4, <1>5 DEF TypeOK

\* So does an answer of docker or of the backend's /health.
LEMMA ExternalPreserves ==
    ASSUME IInv, NEW t \in Task, External(t)
    PROVE  IInv'
<1>a. TypeOK /\ PortKnown /\ RunIsFresh /\ AdoptedIsNotOwned /\ DockerTypeOK
      /\ WindowOf \in [Task -> Window]
  BY TaskAssumption DEF IInv, TypeOK
<1>b. \A r \in {"ok", "fail"} : r \in Reply
  BY DEF Reply
<1>c. UNCHANGED dockerVars => UNCHANGED container /\ DockerTypeOK'
  BY <1>a, DockerTypes DEF dockerVars
<1>1. CASE DockerRemove(t)
  <2>1. /\ Answer(t, "ok") /\ task[t].pc # "idle" /\ task[t].pc # "run" /\ DockerTypeOK'
        /\ container' \in {container, NoContainer}
    BY <1>1, <1>a, DockerTypes DEF DockerRemove, RemovePc, RemoveEffect
  <2>2. UNCHANGED svc
    BY <2>1 DEF Answer
  <2>3. RunIsFresh' /\ AdoptedIsNotOwned'
    BY <2>1, <2>2, <1>a, <1>b, AnswerIsQuiet DEF RunIsFresh, AdoptedIsNotOwned
  <2>. QED BY <2>1, <2>3, <1>b, AnswerIsQuiet, QuietPreserves
<1>2. CASE DockerRun(t)
  <2>1. task[t].pc = "run" /\ task[t].pc # "idle" /\ task[t].port \in Port /\ WindowOf[t] \in Window
    BY <1>2, <1>a DEF DockerRun, PortKnown
  <2>2. DockerTypeOK'
    BY <1>2, <1>a, <2>1, DockerTypes DEF DockerRun
  <2>3. CASE RunEffect(WindowOf[t], task[t].port) /\ Answer(t, "ok")
    <3>1. container'.by # Earlier
      BY <2>1, <2>3, WindowAssumption DEF RunEffect
    <3>2. RunIsFresh' /\ AdoptedIsNotOwned'
      BY <3>1 DEF RunIsFresh, AdoptedIsNotOwned
    <3>. QED BY <2>1, <2>2, <2>3, <3>2, <1>b, AnswerIsQuiet, QuietPreserves
  <2>4. CASE RunFailure(WindowOf[t], task[t].port) /\ Answer(t, "fail")
    <3>1. UNCHANGED container \/ container'.by # Earlier
      BY <2>1, <2>4, WindowAssumption DEF RunFailure
    <3>2. UNCHANGED svc
      BY <2>4 DEF Answer
    <3>3. \A u \in Task : task'[u].pc = "run" /\ task'[u].reply = "ok" =>
             task[u].pc = "run" /\ task[u].reply = "ok"
      BY <2>1, <2>2, <2>4, <1>b, AnswerIsQuiet
    <3>4. RunIsFresh' /\ AdoptedIsNotOwned'
      BY <3>1, <3>2, <3>3, <1>a DEF RunIsFresh, AdoptedIsNotOwned
    <3>. QED BY <2>1, <2>2, <2>4, <3>4, <1>b, AnswerIsQuiet, QuietPreserves
  <2>. QED BY <1>2, <2>3, <2>4 DEF DockerRun
<1>3. ASSUME NEW r \in {"ok", "fail"}, Answer(t, r), task[t].pc \notin {"idle", "run"},
             UNCHANGED container, DockerTypeOK'
      PROVE  IInv'
  <2>1. UNCHANGED svc
    BY <1>3 DEF Answer
  <2>2. RunIsFresh' /\ AdoptedIsNotOwned'
    BY <1>3, <2>1, <1>a, <1>b, AnswerIsQuiet DEF RunIsFresh, AdoptedIsNotOwned
  <2>. QED BY <1>3, <2>2, <1>b, AnswerIsQuiet, QuietPreserves
<1>4. CASE DockerPull(t)
  <2>1. PullEffect => UNCHANGED container /\ DockerTypeOK'
    BY <1>a, DockerTypes DEF PullEffect
  <2>. QED BY <1>4, <2>1, <1>3, <1>c DEF DockerPull, KeepDocker
<1>5. CASE Probe(t)
  BY <1>5, <1>3, <1>c DEF Probe, KeepDocker
<1>6. CASE DockerInspect(t)
  <2>1. PICK r \in {"ok", "fail", "bad"} :
          task' = [task EXCEPT ![t] =
                     IF ~Live(t) THEN IdleCall
                     ELSE [@ EXCEPT !.reply = r,
                                    !.port = IF r = "ok" THEN container.port ELSE NoPort]]
          /\ (r = "ok" => container \in Container)
    BY <1>6, <1>a DEF DockerInspect, DockerTypeOK
  <2> DEFINE p == IF r = "ok" THEN container.port ELSE NoPort
             c == IF ~Live(t) THEN IdleCall ELSE [task[t] EXCEPT !.reply = r, !.port = p]
  <2>2. p \in Port \cup {NoPort} /\ r \in Reply
    BY <2>1 DEF Container, Reply
  <2>3. /\ c \in Call
        /\ ~Live(t) => c = IdleCall
        /\ Live(t) => c.pc = task[t].pc /\ c.gen = task[t].gen
    BY <2>2, <1>a, CallTypes DEF TypeOK, Call
  <2>4. task' = [task EXCEPT ![t] = c]
    BY <2>1
  <2> HIDE DEF c
  <2>5. task[t].pc = "inspect" /\ UNCHANGED <<phase, svc, click, container>> /\ DockerTypeOK'
    BY <1>6, <1>c DEF DockerInspect, KeepDocker
  <2>6. IdleCall.pc = "idle"
    BY DEF IdleCall
  <2>7. QuietShape
    BY <2>3, <2>4, <2>5, <1>a DEF QuietShape, TypeOK
  <2>8. RunIsFresh' /\ AdoptedIsNotOwned'
    BY <2>3, <2>4, <2>5, <2>6, <1>a DEF RunIsFresh, AdoptedIsNotOwned, TypeOK
  <2>9. \A u \in Task : phase[WindowOf[u]] = "new" => task'[u] = task[u]
    BY <2>4, <2>5, <2>6, <1>a DEF IInv, ClosedIsBlank, TasksOf, TypeOK
  <2>. QED BY <2>7, <2>8, <2>9, QuietPreserves
<1>. QED BY <1>1, <1>2, <1>4, <1>5, <1>6 DEF External

\* The clock, the daemon, a click on its way, and steps of something else.
LEMMA EnvironmentPreserves ==
    ASSUME IInv,
           \/ \E t \in Task : DeadlinePasses(t)
           \/ \E w \in Window : ClickCancel(w)
           \/ DockerEnvironment /\ UNCHANGED serviceVars
           \/ UNCHANGED vars
    PROVE  IInv'
<1>a. TypeOK /\ RunIsFresh /\ AdoptedIsNotOwned /\ DockerTypeOK /\ ClosedIsBlank
      /\ WindowOf \in [Task -> Window]
  BY TaskAssumption DEF IInv, TypeOK
<1>b. UNCHANGED dockerVars => UNCHANGED container /\ DockerTypeOK'
  BY <1>a, DockerTypes DEF dockerVars
<1>1. ASSUME NEW t \in Task, DeadlinePasses(t) PROVE IInv'
  <2> DEFINE c == [task[t] EXCEPT !.expired = TRUE]
  <2>1. /\ c \in Call
        /\ c.pc = task[t].pc /\ c.gen = task[t].gen /\ c.reply = task[t].reply
        /\ c.port = task[t].port
    BY <1>a DEF TypeOK, Call
  <2>2. /\ task' = [task EXCEPT ![t] = c] /\ task[t].pc \in {"probe", "sleep"}
        /\ UNCHANGED <<phase, svc, click, container>> /\ DockerTypeOK'
    BY <1>1, <1>b DEF DeadlinePasses, KeepDocker
  <2> HIDE DEF c
  <2>3. QuietShape
    BY <2>1, <2>2, <1>a DEF QuietShape, TypeOK
  <2>4. RunIsFresh' /\ AdoptedIsNotOwned'
    BY <2>1, <2>2, <1>a DEF RunIsFresh, AdoptedIsNotOwned, TypeOK
  <2>5. IdleCall.pc = "idle"
    BY DEF IdleCall
  <2>6. \A u \in Task : phase[WindowOf[u]] = "new" => task'[u] = task[u]
    BY <2>2, <2>5, <1>a DEF ClosedIsBlank, TasksOf, TypeOK
  <2>. QED BY <2>3, <2>4, <2>6, QuietPreserves
<1>2. ASSUME UNCHANGED <<phase, svc, task>>, click' \in [Window -> BOOLEAN], DockerTypeOK',
             container' # NoContainer => container # NoContainer /\ container'.by = container.by
      PROVE  IInv'
  <2>1. QuietShape
    BY <1>2, <1>a DEF QuietShape, TypeOK
  <2>2. RunIsFresh' /\ AdoptedIsNotOwned'
    BY <1>2, <1>a DEF RunIsFresh, AdoptedIsNotOwned
  <2>. QED BY <1>2, <2>1, <2>2, QuietPreserves
<1>3. ASSUME NEW w \in Window, ClickCancel(w) PROVE IInv'
  <2>1. click' \in [Window -> BOOLEAN]
    BY <1>3, <1>a DEF ClickCancel, TypeOK
  <2>. QED BY <1>2, <1>3, <1>b, <2>1 DEF ClickCancel, KeepDocker
<1>4. CASE DockerEnvironment /\ UNCHANGED serviceVars
  <2>1. DockerTypeOK'
    BY <1>4, <1>a, DockerTypes
  <2>2. container' # NoContainer => container # NoContainer /\ container'.by = container.by
    <3>1. \A c \in Container : /\ [c EXCEPT !.serving = TRUE].by = c.by
                               /\ [c EXCEPT !.up = FALSE, !.serving = FALSE].by = c.by
      BY DEF Container
    <3>2. Running => container \in Container /\ container # NoContainer
      BY <1>a DEF Running, DockerTypeOK
    <3>3. \/ Running /\ container' = [container EXCEPT !.serving = TRUE]
          \/ Running /\ container' = [container EXCEPT !.up = FALSE, !.serving = FALSE]
          \/ UNCHANGED container
      BY <1>4 DEF DockerEnvironment, BackendServes, ContainerDies, DaemonStops, DaemonStarts
    <3>. QED BY <3>1, <3>2, <3>3
  <2>. QED BY <1>2, <1>4, <2>1, <2>2, <1>a DEF serviceVars, TypeOK
<1>5. CASE UNCHANGED vars
  BY <1>2, <1>5, <1>a, <1>b DEF vars, serviceVars, TypeOK
<1>. QED BY <1>1, <1>3, <1>4, <1>5

\* stop(), cancel() and deactivate() mark the service of w as cancelled.
KillShape(w) ==
    /\ phase[w] = "open"
    /\ phase' \in [Window -> Phase]
    /\ phase'[w] \in {"open", "closing"}
    /\ \A v \in Window \ {w} : phase'[v] = phase[v] /\ svc'[v] = svc[v]
    /\ svc' \in [Window -> Service]
    /\ svc'[w].state = svc[w].state
    /\ svc'[w].owned = svc[w].owned
    /\ svc'[w].generation = svc[w].generation
    /\ svc'[w].cancelled = TRUE
    /\ task' \in [Task -> Call]
    /\ \A u \in Task :
          \/ /\ task'[u].pc = task[u].pc
             /\ task'[u].gen = task[u].gen
             /\ task'[u].port = task[u].port
             /\ task'[u].reply = "ok" => task[u].reply = "ok"
             /\ task[u] = IdleCall => task'[u] = IdleCall
          \/ WindowOf[u] = w /\ task[u] = IdleCall /\ task'[u].pc = "stop"
    /\ click' \in [Window -> BOOLEAN]
    /\ UNCHANGED dockerVars

\* A step that cancels what is under way preserves the invariant.
LEMMA KillPreserves ==
    ASSUME IInv, NEW w \in Window, KillShape(w)
    PROVE  IInv'
<1>a. TypeOK /\ PortKnown /\ ClosedIsBlank /\ GenerationKnown /\ GenerationsDiffer
      /\ BusyIsDriven /\ ReadyIsAttended /\ RunIsFresh /\ AdoptedIsNotOwned
      /\ \A u \in Task : WindowOf[u] \in Window
  BY TaskAssumption DEF IInv
<1>b. UNCHANGED container /\ DockerTypeOK'
  BY <1>a, DockerTypes DEF KillShape, dockerVars, TypeOK
<1>c. IdleCall.pc = "idle"
  BY DEF IdleCall
<1> USE DEF KillShape
<1>0. \A u \in Task : /\ Live(u)' <=> Live(u)
                      /\ Svc(u)'.generation = Svc(u).generation
                      /\ task'[u].pc # "stop" => task'[u].pc = task[u].pc /\ task'[u].gen = task[u].gen
                      /\ Driving(u) => Driving(u)'
  BY <1>a, <1>c DEF Live, Svc, Driving, Stale, BootPc
<1>1. TypeOK'
  BY <1>b DEF TypeOK
<1>2. PortKnown' /\ RunIsFresh' /\ AdoptedIsNotOwned'
  BY <1>a, <1>b DEF PortKnown, RunIsFresh, AdoptedIsNotOwned
<1>3. ClosedIsBlank'
  BY <1>a DEF ClosedIsBlank, TasksOf
<1>4. GenerationKnown' /\ GenerationsDiffer'
  BY <1>a, <1>0 DEF GenerationKnown, GenerationsDiffer, BootPc
<1>5. BusyIsDriven'
  BY <1>a, <1>0 DEF BusyIsDriven, TasksOf
<1>6. ReadyIsAttended'
  BY <1>a, <1>0 DEF ReadyIsAttended, TasksOf, Stale, Svc
<1>. QED BY <1>1, <1>2, <1>3, <1>4, <1>5, <1>6 DEF IInv

\* stop(), deactivate() and the cancel button are such steps.
LEMMA KillersHaveThatShape ==
    ASSUME TypeOK
    PROVE  /\ \A w \in Window : Cancel(w) => KillShape(w)
           /\ \A t \in Task : Stop(t) \/ Deactivate(t) => KillShape(WindowOf[t])
<1>a. \A t \in Task : WindowOf[t] \in Window
  BY TaskAssumption
<1>b. /\ IdleCall.pc = "idle"
      /\ [IdleCall EXCEPT !.pc = "stop"] \in Call
      /\ [IdleCall EXCEPT !.pc = "stop"].pc = "stop"
  BY CallTypes DEF IdleCall
<1>1. ASSUME NEW w \in Window, NEW u \in Task
      PROVE  /\ Killed(w)[u] \in Call
             /\ Killed(w)[u].pc = task[u].pc
             /\ Killed(w)[u].gen = task[u].gen
             /\ Killed(w)[u].port = task[u].port
             /\ Killed(w)[u].reply = "ok" => task[u].reply = "ok"
             /\ task[u] = IdleCall => Killed(w)[u] = IdleCall
  BY <1>b DEF Killed, TypeOK, Call, Reply
<1>2. \A s \in Service :
         /\ [s EXCEPT !.cancelled = TRUE] \in Service
         /\ [s EXCEPT !.cancelled = TRUE, !.inflight = NoTask] \in Service
  BY DEF Service
<1>3. ASSUME NEW w \in Window, Cancel(w) PROVE KillShape(w)
  <2>1. task' = Killed(w) /\ phase[w] = "open" /\ UNCHANGED phase /\ UNCHANGED dockerVars
    BY <1>3 DEF Cancel, KeepDocker
  <2>2. task' \in [Task -> Call]
    BY <2>1, <1>1 DEF Killed
  <2>3. click' \in [Window -> BOOLEAN]
    BY <1>3 DEF Cancel, TypeOK
  <2>4. svc' = [svc EXCEPT ![w] = [svc[w] EXCEPT !.cancelled = TRUE]]
    BY <1>3 DEF Cancel
  <2>5. /\ svc' \in [Window -> Service]
        /\ \A v \in Window \ {w} : svc'[v] = svc[v]
        /\ svc'[w].state = svc[w].state /\ svc'[w].owned = svc[w].owned
        /\ svc'[w].generation = svc[w].generation /\ svc'[w].cancelled = TRUE
    BY <2>4, <1>2 DEF TypeOK, Service
  <2>. QED BY <2>1, <2>2, <2>3, <2>5, <1>1 DEF KillShape, TypeOK
<1>4. ASSUME NEW t \in Task, Stop(t) \/ Deactivate(t) PROVE KillShape(WindowOf[t])
  <2> DEFINE w == WindowOf[t]
  <2>1. /\ task' = Stopping(t) /\ task[t] = IdleCall /\ phase[w] = "open"
        /\ UNCHANGED click /\ UNCHANGED dockerVars
        /\ UNCHANGED phase \/ phase' = [phase EXCEPT ![w] = "closing"]
    BY <1>4 DEF Stop, Deactivate, Segment, KeepWindows, KeepDocker
  <2>2. /\ task' \in [Task -> Call]
        /\ \A u \in Task \ {t} : task'[u] = Killed(w)[u]
        /\ task'[t].pc = "stop"
    <3>1. Killed(w) \in [Task -> Call]
      BY <1>a, <1>1 DEF Killed
    <3>. QED BY <2>1, <3>1, <1>b DEF Stopping
  <2>3. svc' = [svc EXCEPT ![w] = [svc[w] EXCEPT !.cancelled = TRUE, !.inflight = NoTask]]
    BY <1>4 DEF Stop, Deactivate, Write, Svc
  <2>4. /\ svc' \in [Window -> Service]
        /\ \A v \in Window \ {w} : svc'[v] = svc[v]
        /\ svc'[w].state = svc[w].state /\ svc'[w].owned = svc[w].owned
        /\ svc'[w].generation = svc[w].generation /\ svc'[w].cancelled = TRUE
    BY <2>3, <1>2, <1>a DEF TypeOK, Service
  <2>5. /\ phase' \in [Window -> Phase] /\ phase'[w] \in {"open", "closing"}
        /\ \A v \in Window \ {w} : phase'[v] = phase[v]
    BY <2>1, <1>a DEF TypeOK, Phase
  <2>. QED BY <2>1, <2>2, <2>4, <2>5, <1>1, <1>a DEF KillShape, TypeOK
<1>. QED BY <1>3, <1>4

\* A line of pull output puts the state its live start() is in back in place.
LEMMA PullLinePreserves ==
    ASSUME IInv, NEW t \in Task, PullLine(t)
    PROVE  IInv'
<1> DEFINE s == Set(svc[WindowOf[t]], "pulling")
<1>a. TypeOK /\ PortKnown /\ ClosedIsBlank /\ GenerationKnown /\ GenerationsDiffer
      /\ BusyIsDriven /\ ReadyIsAttended /\ RunIsFresh /\ AdoptedIsNotOwned
  BY DEF IInv
<1>b. /\ Live(t) /\ task[t].pc = "pull" /\ ~Stale(t) /\ UNCHANGED <<phase, click, task>>
      /\ Write(t, s) /\ UNCHANGED dockerVars
  BY DEF PullLine, At, Segment, KeepWindows, KeepDocker, Svc
<1>c. WindowOf[t] \in Window /\ svc[WindowOf[t]] \in Service
  BY <1>a, TaskAssumption DEF TypeOK
<1>d. /\ s \in Service /\ s.state = "pulling" /\ s.owned = svc[WindowOf[t]].owned
      /\ s.generation = svc[WindowOf[t]].generation
  BY <1>c DEF Set, Service, StateName
<1>e. svc' = [svc EXCEPT ![WindowOf[t]] = s]
  BY <1>b DEF Write
<1> HIDE DEF s
<1>f. UNCHANGED phase /\ UNCHANGED task /\ UNCHANGED container /\ DockerTypeOK'
  BY <1>a, <1>b, DockerTypes DEF dockerVars, TypeOK
<1>0. /\ Touches(t) /\ svc'[WindowOf[t]] = s
  BY <1>a, <1>b, <1>c, <1>d, <1>e DEF Touches, TypeOK
<1>1. /\ \A u \in Task : (Live(u)' <=> Live(u)) /\ Svc(u)'.generation = Svc(u).generation
      /\ \A u \in Task : (Stale(u)' <=> Stale(u)) /\ (Driving(u)' <=> Driving(u))
      /\ \A u \in Task : WindowOf[u] \in Window
  BY <1>0, <1>a, <1>d, <1>f, TouchesOthers DEF Stale, Driving, Svc
<1>2. TypeOK'
  BY <1>0, <1>a, <1>b, <1>f DEF Touches, TypeOK
<1>3. PortKnown' /\ RunIsFresh' /\ AdoptedIsNotOwned'
  BY <1>0, <1>a, <1>d, <1>f DEF PortKnown, RunIsFresh, AdoptedIsNotOwned, Touches
<1>4. ClosedIsBlank'
  BY <1>0, <1>a, <1>b, <1>f DEF ClosedIsBlank, Touches, Live
<1>5. GenerationKnown' /\ GenerationsDiffer'
  BY <1>1, <1>a, <1>f DEF GenerationKnown, GenerationsDiffer
<1>6. Driving(t)'
  BY <1>1, <1>b DEF Driving, BootPc
<1>7. BusyIsDriven'
  BY <1>0, <1>1, <1>6, <1>a DEF BusyIsDriven, Touches, TasksOf
<1>8. ReadyIsAttended'
  BY <1>0, <1>1, <1>a, <1>d, <1>f DEF ReadyIsAttended, Touches, TasksOf
<1>. QED BY <1>2, <1>3, <1>4, <1>5, <1>7, <1>8 DEF IInv

\* A window opens with one call, and ends without a service.
LEMMA OpenPreserves ==
    ASSUME IInv, NEW t \in Task, Open(t)
    PROVE  IInv'
<1> DEFINE c == [IdleCall EXCEPT !.pc = "inspect"]
           w == WindowOf[t]
<1>a. TypeOK /\ PortKnown /\ ClosedIsBlank /\ GenerationKnown /\ GenerationsDiffer
      /\ BusyIsDriven /\ ReadyIsAttended /\ RunIsFresh /\ AdoptedIsNotOwned
      /\ \A u \in Task : WindowOf[u] \in Window
  BY TaskAssumption DEF IInv
<1>b. c \in Call /\ c.pc = "inspect" /\ IdleCall.pc = "idle"
  BY CallTypes DEF IdleCall
<1>c. /\ phase[w] = "new" /\ phase' = [phase EXCEPT ![w] = "open"]
      /\ task' = [task EXCEPT ![t] = c]
      /\ UNCHANGED svc /\ UNCHANGED click /\ UNCHANGED container /\ DockerTypeOK'
  BY <1>a, DockerTypes DEF Open, KeepDocker, dockerVars, TypeOK
<1> HIDE DEF c
<1>d. /\ svc[w] = NewService
      /\ \A u \in TasksOf(w) : task[u] = IdleCall
      /\ \A u \in TasksOf(w) : task'[u].pc \in {"idle", "inspect"}
      /\ \A u \in Task \ TasksOf(w) : task'[u] = task[u] /\ phase'[WindowOf[u]] = phase[WindowOf[u]]
  BY <1>a, <1>b, <1>c DEF ClosedIsBlank, TasksOf, TypeOK
<1>1. TypeOK'
  BY <1>a, <1>b, <1>c DEF TypeOK, Phase
<1>2. PortKnown' /\ RunIsFresh' /\ AdoptedIsNotOwned'
  BY <1>a, <1>b, <1>c, <1>d DEF PortKnown, RunIsFresh, AdoptedIsNotOwned, TypeOK
<1>3. ClosedIsBlank'
  BY <1>a, <1>c, <1>d DEF ClosedIsBlank, TasksOf, TypeOK
<1>4. GenerationKnown' /\ GenerationsDiffer'
  BY <1>a, <1>c, <1>d DEF GenerationKnown, GenerationsDiffer, BootPc, Live, Svc, TasksOf
<1>5. svc[w].state \notin Busy \cup {"ready"}
  BY <1>d DEF NewService, Busy
<1>6. BusyIsDriven'
  BY <1>a, <1>c, <1>d, <1>5 DEF BusyIsDriven, TasksOf, Driving, Stale, Svc
<1>7. ReadyIsAttended'
  BY <1>a, <1>c, <1>d, <1>5 DEF ReadyIsAttended, TasksOf, Driving, Stale, Svc
<1>. QED BY <1>1, <1>2, <1>3, <1>4, <1>6, <1>7 DEF IInv

\* The end of a window's extension host preserves the invariant.
LEMMA ExitPreserves ==
    ASSUME IInv, NEW w \in Window, Exit(w)
    PROVE  IInv'
<1>a. TypeOK /\ PortKnown /\ ClosedIsBlank /\ GenerationKnown /\ GenerationsDiffer
      /\ BusyIsDriven /\ ReadyIsAttended /\ RunIsFresh /\ AdoptedIsNotOwned
      /\ \A u \in Task : WindowOf[u] \in Window
  BY TaskAssumption DEF IInv
<1>b. /\ IdleCall \in Call /\ IdleCall.pc = "idle" /\ NewService \in Service
      /\ NewService.state \notin Busy \cup {"ready"} /\ NewService.owned = FALSE
  BY CallTypes DEF IdleCall, NewService, Service, StateName, Busy
<1>c. /\ phase[w] # "new" /\ phase' = [phase EXCEPT ![w] = "closed"]
      /\ svc' = [svc EXCEPT ![w] = NewService]
      /\ click' = [click EXCEPT ![w] = FALSE]
      /\ UNCHANGED container /\ DockerTypeOK'
  BY <1>a, DockerTypes DEF Exit, KeepDocker, dockerVars, TypeOK
<1>d. /\ task' \in [Task -> Call]
      /\ \A u \in Task : WindowOf[u] # w => task'[u] = task[u]
      /\ \A u \in Task : task'[u] = task[u] \/ task'[u] = IdleCall
  BY <1>a, <1>b DEF Exit, TypeOK
<1>1. TypeOK'
  BY <1>a, <1>b, <1>c, <1>d DEF TypeOK, Phase
<1>2. PortKnown' /\ RunIsFresh' /\ AdoptedIsNotOwned'
  BY <1>a, <1>b, <1>c, <1>d DEF PortKnown, RunIsFresh, AdoptedIsNotOwned, TypeOK
<1>3. ClosedIsBlank'
  BY <1>a, <1>c, <1>d DEF ClosedIsBlank, TasksOf, TypeOK
<1>4. \A u \in Task : Live(u)' => /\ WindowOf[u] # w /\ Live(u) /\ task'[u] = task[u]
                                  /\ Svc(u)' = Svc(u)
  BY <1>a, <1>c, <1>d DEF Live, Svc, TypeOK
<1>5. GenerationKnown' /\ GenerationsDiffer'
  BY <1>a, <1>4, <1>d, <1>b DEF GenerationKnown, GenerationsDiffer, BootPc, Live
<1>6. \A u \in Task : WindowOf[u] # w =>
         (Driving(u)' <=> Driving(u)) /\ (Stale(u)' <=> Stale(u)) /\ task'[u] = task[u]
  BY <1>a, <1>c, <1>d DEF Driving, Stale, Svc, TypeOK
<1>7. \A v \in Window : v # w => svc'[v] = svc[v]
  BY <1>a, <1>c DEF TypeOK
<1>8. svc'[w].state \notin Busy \cup {"ready"}
  BY <1>a, <1>b, <1>c DEF TypeOK
<1>9. BusyIsDriven'
  BY <1>a, <1>6, <1>7, <1>8 DEF BusyIsDriven, TasksOf
<1>10. ReadyIsAttended'
  BY <1>a, <1>6, <1>7, <1>8 DEF ReadyIsAttended, TasksOf
<1>. QED BY <1>1, <1>2, <1>3, <1>5, <1>9, <1>10 DEF IInv

-----------------------------------------------------------------------------
(* The theorems.                                                           *)

\* The invariant holds before any window is open.
LEMMA InitEstablishes == Init => IInv
<1> SUFFICES ASSUME Init PROVE IInv
  OBVIOUS
<1>a. NewService \in Service /\ IdleCall \in Call /\ IdleCall.pc = "idle"
      /\ NewService.state \notin Busy \cup {"ready"} /\ NewService.owned = FALSE
  BY CallTypes DEF NewService, Service, StateName, IdleCall, Busy
<1>b. \A u \in Task : WindowOf[u] \in Window
  BY TaskAssumption
<1>1. DockerTypeOK
  <2>1. \A p \in Port, alive \in BOOLEAN :
           [by |-> Earlier, port |-> p, up |-> alive, serving |-> alive] \in Container
    BY DEF Container
  <2>2. container \in Container \cup {NoContainer}
    BY <2>1 DEF Init, DockerInit
  <2>3. daemonUp \in BOOLEAN /\ imageCached \in BOOLEAN
    BY DEF Init, DockerInit
  <2>4. daemonStops \in Nat
    BY DEF Init, DockerInit
  <2>. QED BY <2>2, <2>3, <2>4 DEF DockerTypeOK
<1>2. TypeOK
  BY <1>1, <1>a DEF Init, TypeOK, Phase
<1>3. PortKnown /\ ClosedIsBlank /\ GenerationKnown /\ GenerationsDiffer /\ RunIsFresh
  BY <1>a, <1>b DEF Init, PortKnown, ClosedIsBlank, GenerationKnown, GenerationsDiffer,
                    RunIsFresh, TasksOf, Live
<1>4. BusyIsDriven /\ ReadyIsAttended /\ AdoptedIsNotOwned
  BY <1>a DEF Init, BusyIsDriven, ReadyIsAttended, AdoptedIsNotOwned
<1>. QED BY <1>2, <1>3, <1>4 DEF IInv

\* Every step preserves it.
LEMMA NextPreserves == IInv /\ [Next]_vars => IInv'
<1> SUFFICES ASSUME IInv, [Next]_vars PROVE IInv'
  OBVIOUS
<1>a. TypeOK /\ PortKnown
  BY DEF IInv
<1>1. ASSUME NEW t \in Task, Resume(t) PROVE IInv'
  <2>1. CASE BootStep(t)
    BY <2>1, <1>a, BootSegment, BootPreserves
  <2>2. CASE Preflight(t)
    BY <2>2, PreflightPreserves
  <2>3. CASE Undone(t) \/ WatchSlept(t) \/ WatchProbed(t) \/ WatchLogged(t)
             \/ WatchFailed(t) \/ Adopted(t)
    BY <2>3, <1>a, SideSegment, SidePreserves
  <2>. QED BY <1>1, <2>1, <2>2, <2>3 DEF Resume
<1>2. ASSUME NEW t \in Task, User(t) PROVE IInv'
  <2>1. CASE Open(t)
    BY <2>1, OpenPreserves
  <2>2. CASE EnsureReady(t)
    BY <2>2, <1>a, SideSegment, SidePreserves
  <2>3. CASE Stop(t) \/ Deactivate(t)
    BY <2>3, <1>a, KillersHaveThatShape, KillPreserves, TaskAssumption
  <2>. QED BY <1>2, <2>1, <2>2, <2>3 DEF User
<1>3. ASSUME NEW t \in Task, External(t) PROVE IInv'
  BY <1>3, ExternalPreserves
<1>4. ASSUME NEW t \in Task, PullLine(t) PROVE IInv'
  BY <1>4, PullLinePreserves
<1>5. ASSUME NEW w \in Window, Cancel(w) \/ Exit(w) PROVE IInv'
  BY <1>5, <1>a, KillersHaveThatShape, KillPreserves, ExitPreserves
<1>6. CASE \/ \E t \in Task : DeadlinePasses(t)
           \/ \E w \in Window : ClickCancel(w)
           \/ DockerEnvironment /\ UNCHANGED serviceVars
           \/ UNCHANGED vars
  BY <1>6, EnvironmentPreserves
<1>. QED BY <1>1, <1>2, <1>3, <1>4, <1>5, <1>6 DEF Next

\* The inductive invariant: everything below is one of its conjuncts.
THEOREM Inductive == Spec => []IInv
BY InitEstablishes, NextPreserves, PTL DEF Spec

\* Type correctness of the service, its calls and the daemon.
THEOREM TypeCorrect == Spec => []TypeOK
<1>1. IInv => TypeOK
  BY DEF IInv
<1>. QED BY <1>1, Inductive, PTL

\* No window is ever wedged in pulling or starting without a start() that will
\* move it on (service.ts:121-128).
THEOREM NeverWedged == Spec => []BusyIsDriven
<1>1. IInv => BusyIsDriven
  BY DEF IInv
<1>. QED BY <1>1, Inductive, PTL

\* A ready service is watched, being started anew, or was told to stop
\* (service.ts:193-196).
THEOREM AlwaysAttended == Spec => []ReadyIsAttended
<1>1. IInv => ReadyIsAttended
  BY DEF IInv
<1>. QED BY <1>1, Inductive, PTL

\* One generation is one start() (service.ts:75-82).
THEOREM OneStartPerGeneration == Spec => []GenerationsDiffer
<1>1. IInv => GenerationsDiffer
  BY DEF IInv
<1>. QED BY <1>1, Inductive, PTL

\* What a window found when it opened is never its own to tear down
\* (extension.ts:166-171).
THEOREM AdoptedSurvivesDeactivate == Spec => []AdoptedIsNotOwned
<1>1. IInv => AdoptedIsNotOwned
  BY DEF IInv
<1>. QED BY <1>1, Inductive, PTL

\* Whatever step is taken, a superseded start() only returns (service.ts:75-82).
LEMMA StaleStep ==
    ASSUME IInv, [Next]_vars, NEW t \in Task, Live(t), Live(t)',
           task[t].pc \in BootPc, Stale(t), task'[t].pc # task[t].pc
    PROVE  /\ task'[t].pc \in {"idle", "watchSleep"}
           /\ Svc(t)'.state = Svc(t).state
           /\ Svc(t)'.owned = Svc(t).owned
<1>a. TypeOK /\ PortKnown /\ ClosedIsBlank
  BY DEF IInv
<1>b. IdleCall.pc = "idle" /\ IdleCall.pc \notin BootPc
  BY DEF IdleCall, BootPc
<1>c. WindowOf[t] \in Window
  BY TaskAssumption
<1>1. ASSUME NEW u \in Task, Resume(u) PROVE u = t /\ BootStep(t)
  <2>1. CASE BootStep(u)
    <3>1. BootShape(u)
      BY <2>1, <1>a, BootSegment
    <3>. QED BY <2>1, <3>1 DEF BootShape, Touches
  <2>2. CASE Preflight(u)
    <3>1. u # t
      BY <2>2 DEF Preflight, At, BootPc
    <3>2. task'[t] = task[t]
      BY <2>2, <3>1, <1>a DEF Preflight, Start, Finish, TypeOK
    <3>. QED BY <3>2
  <2>3. CASE Undone(u) \/ WatchSlept(u) \/ WatchProbed(u) \/ WatchLogged(u)
             \/ WatchFailed(u) \/ Adopted(u)
    <3>1. SideShape(u)
      BY <2>3, <1>a, SideSegment
    <3>. QED BY <3>1 DEF SideShape, Touches
  <2>. QED BY <1>1, <2>1, <2>2, <2>3 DEF Resume
<1>2. ASSUME NEW u \in Task, User(u) PROVE FALSE
  <2>1. CASE Open(u)
    <3>1. task[u] = IdleCall
      BY <2>1, <1>a, TaskAssumption DEF Open, ClosedIsBlank, TasksOf
    <3>. QED BY <2>1, <3>1, <1>a, <1>b DEF Open, TypeOK
  <2>2. CASE EnsureReady(u)
    <3>1. SideShape(u)
      BY <2>2, <1>a, SideSegment
    <3>. QED BY <3>1 DEF SideShape, Touches
  <2>3. CASE Stop(u) \/ Deactivate(u)
    <3>1. KillShape(WindowOf[u])
      BY <2>3, <1>a, KillersHaveThatShape
    <3>. QED BY <3>1, <1>b DEF KillShape
  <2>. QED BY <1>2, <2>1, <2>2, <2>3 DEF User
<1>3. ASSUME NEW u \in Task, External(u) PROVE FALSE
  <2>1. CASE DockerInspect(u)
    BY <2>1, <1>a DEF DockerInspect, TypeOK, BootPc, Call
  <2>2. CASE ~DockerInspect(u)
    <3>1. PICK r \in Reply : Answer(u, r)
      BY <1>3, <2>2 DEF External, DockerRemove, DockerRun, DockerPull, Probe, Reply
    <3>. QED BY <3>1, <1>a DEF Answer, TypeOK, Call
  <2>. QED BY <2>1, <2>2
<1>4. ASSUME NEW u \in Task, PullLine(u) \/ DeadlinePasses(u) PROVE FALSE
  BY <1>4, <1>a DEF PullLine, DeadlinePasses, TypeOK, Call
<1>5. ASSUME NEW w \in Window, Cancel(w) PROVE FALSE
  <2>1. KillShape(w)
    BY <1>5, <1>a, KillersHaveThatShape
  <2>. QED BY <2>1, <1>b DEF KillShape
<1>6. ASSUME NEW w \in Window, ClickCancel(w) PROVE FALSE
  BY <1>6 DEF ClickCancel
<1>7. ASSUME NEW w \in Window, Exit(w) PROVE FALSE
  BY <1>7, <1>a, <1>c DEF Exit, TypeOK, Live
<1>8. CASE UNCHANGED task
  BY <1>8
<1>9. ASSUME BootStep(t)
      PROVE  /\ task'[t].pc \in {"idle", "watchSleep"}
             /\ Svc(t)'.state = Svc(t).state
             /\ Svc(t)'.owned = Svc(t).owned
  <2>1. BootShape(t)
    BY <1>9, <1>a, BootSegment
  <2>. QED BY <2>1, <1>b DEF BootShape, Returns, Svc
<1>. QED BY <1>1, <1>2, <1>3, <1>4, <1>5, <1>6, <1>7, <1>8, <1>9
     DEF Next, serviceVars, vars

\* A superseded start() gives docker no command and changes neither state nor
\* ownership, in every behaviour (service.ts:75-82).
THEOREM StaleStartsStop == Spec => StaleStartStops
<1>1. IInv /\ [Next]_vars =>
        [\A t \in Task :
           Live(t) /\ Live(t)' /\ task[t].pc \in BootPc /\ Stale(t) /\ task'[t].pc # task[t].pc
           => /\ task'[t].pc \in {"idle", "watchSleep"}
              /\ Svc(t)'.state = Svc(t).state
              /\ Svc(t)'.owned = Svc(t).owned]_vars
  BY StaleStep
<1>. QED BY <1>1, Inductive, PTL DEF Spec, StaleStartStops

=============================================================================
