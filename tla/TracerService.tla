---------------------------- MODULE TracerService ----------------------------
(***************************************************************************)
(* The lifecycle of the backend container in the VS Code extension:        *)
(* class TracerService of extension/src/service.ts, and the commands of    *)
(* extension/src/extension.ts that drive it, in any number of windows that *)
(* share one Docker container name.                                        *)
(*                                                                         *)
(* An extension host runs one JavaScript thread, so an asynchronous method *)
(* is a sequence of atomic segments, one from each `await` to the next.    *)
(* Every call in progress is a task; task[t].pc names the await it is      *)
(* suspended at, and there is one action per segment.  A docker command    *)
(* acts on the daemon in a step of its own, between the segment that       *)
(* issued it and the segment that sees its reply.                          *)
(***************************************************************************)
EXTENDS Docker, FiniteSets

CONSTANTS
    Task,         \* asynchronous calls that may be in progress at once
    WindowOf,     \* the window each of them runs in
    NoTask,       \* service.inflight === undefined
    NoPort,       \* a state that carries no port
    MaxStarts     \* bound: start() entries per window

ASSUME TaskAssumption == WindowOf \in [Task -> Window] /\ NoTask \notin Task
ASSUME PortAssumption == NoPort \notin Port
ASSUME MaxStartsAssumption == MaxStarts \in Nat

VARIABLES
    phase,        \* phase[w]: the life of the window's extension host
    svc,          \* svc[w]: the fields of the window's TracerService
    click,        \* click[w]: a "cancel" message is on its way from the sidebar
    task          \* task[t]: a suspended asynchronous call

serviceVars == <<phase, svc, click, task>>
vars == <<dockerVars, serviceVars>>

Phase == {"new", "open", "closing", "closed"}
StateName == {"stopped", "pulling", "starting", "ready", "error"}
Busy == {"pulling", "starting"}

\* The awaits of start(), pull() and waitForHealth().
BootPc == {"version", "image", "pull", "port", "rm", "run",
           "probe", "sleep", "logs", "timeoutRm"}
WatchPc == {"watchSleep", "watchProbe", "watchLogs", "watchRm"}
Pc == BootPc \cup WatchPc \cup {"idle", "preflight", "undo", "stop", "inspect"}

\* Awaits of `docker rm -f CONTAINER`.
RemovePc == {"rm", "timeoutRm", "undo", "stop", "watchRm"}

Reply == {"none", "ok", "bad", "fail"}

Service == [state : StateName, port : Port \cup {NoPort}, cancelled : BOOLEAN,
            inflight : Task \cup {NoTask}, owned : BOOLEAN, generation : Nat]

Call == [pc : Pc, gen : Nat, port : Port \cup {NoPort}, reply : Reply,
         expired : BOOLEAN]

NewService == [state |-> "stopped", port |-> NoPort, cancelled |-> FALSE,
               inflight |-> NoTask, owned |-> FALSE, generation |-> 0]

IdleCall == [pc |-> "idle", gen |-> 0, port |-> NoPort, reply |-> "none",
             expired |-> FALSE]

TypeOK ==
    /\ DockerTypeOK
    /\ phase \in [Window -> Phase]
    /\ svc \in [Window -> Service]
    /\ click \in [Window -> BOOLEAN]
    /\ task \in [Task -> Call]

Init ==
    /\ DockerInit
    /\ phase = [w \in Window |-> "new"]
    /\ svc = [w \in Window |-> NewService]
    /\ click = [w \in Window |-> FALSE]
    /\ task = [t \in Task |-> IdleCall]

-----------------------------------------------------------------------------
(* Vocabulary of the segments.                                             *)

Svc(t) == svc[WindowOf[t]]

\* The extension host still runs, so a reply resumes the call.
Live(t) == phase[WindowOf[t]] \in {"open", "closing"}

\* t is suspended at l / has been answered there.
At(t, l) == Live(t) /\ task[t].pc = l
Answered(t, l) == At(t, l) /\ task[t].reply # "none"

\* stale(gen)
Stale(t) == task[t].gen # Svc(t).generation

\* set(...): the state changes and every listener is told.
Set(s, name) == [s EXCEPT !.state = name, !.port = NoPort]
\* Mutant: a state name the sidebar does not know.
FailedMisnamed(s) == Set(s, "failed")

Failed(s) == Set(s, "error")

Goto(t, l) == task' = [task EXCEPT ![t].pc = l, ![t].reply = "none"]
Write(t, s) == svc' = [svc EXCEPT ![WindowOf[t]] = s]

\* watchHealth() up to its first await, in a window whose service is s.
Watching(s) == [IdleCall EXCEPT !.pc = "watchSleep", !.gen = s.generation,
                                !.port = s.port]

\* Mutant: the callers forget the watch loop.
FinishUnwatched(t, s) ==
    /\ Write(t, s)
    /\ task' = [task EXCEPT ![t] = IdleCall]

\* start() or adopt() returns to its caller, which launches a watch loop
\* exactly when it finds the service ready.
Finish(t, s) ==
    /\ Write(t, s)
    /\ task' = [task EXCEPT ![t] = IF s.state = "ready" THEN Watching(s) ELSE IdleCall]

\* inflight?.kill(): an unfinished `docker pull` will end unsuccessfully.
Killed(w) == [t \in Task |->
    IF t = svc[w].inflight /\ task[t].pc = "pull" /\ task[t].reply = "none"
    THEN [task[t] EXCEPT !.reply = "fail"] ELSE task[t]]

KeepWindows == UNCHANGED <<phase, click>>
KeepDocker == UNCHANGED dockerVars
Segment == KeepWindows /\ KeepDocker

-----------------------------------------------------------------------------
(* Replies: the daemon, the network and the timers answer a suspended call. *)
(* A command outlives its extension host; then nobody sees the answer.      *)

Answer(t, r) ==
    /\ task[t].reply = "none"
    /\ task' = [task EXCEPT ![t] = IF Live(t) THEN [@ EXCEPT !.reply = r] ELSE IdleCall]
    /\ UNCHANGED <<phase, svc, click>>

\* docker run(["rm", "-f", CONTAINER]) never rejects; nobody reads its code.
DockerRemove(t) ==
    /\ task[t].pc \in RemovePc
    /\ RemoveEffect
    /\ Answer(t, "ok")

DockerRun(t) ==
    /\ task[t].pc = "run"
    /\ \/ RunEffect(WindowOf[t], task[t].port) /\ Answer(t, "ok")
       \/ RunFailure(WindowOf[t], task[t].port) /\ Answer(t, "fail")

DockerPull(t) ==
    /\ task[t].pc = "pull"
    /\ \/ PullEffect /\ Answer(t, "ok")
       \/ KeepDocker /\ Answer(t, "fail")

\* docker inspect: the template fails on an absent container, and may fail on
\* one that is not running since that has no port bindings.
DockerInspect(t) ==
    /\ task[t].pc = "inspect"
    /\ task[t].reply = "none"
    /\ LET seen == IF ~daemonUp \/ container = NoContainer THEN {"fail"}
                   ELSE IF container.up THEN {"ok"} ELSE {"fail", "bad"}
       IN \E r \in seen :
            task' = [task EXCEPT ![t] =
                       IF ~Live(t) THEN IdleCall
                       ELSE [@ EXCEPT !.reply = r,
                                      !.port = IF r = "ok" THEN container.port ELSE NoPort]]
    /\ UNCHANGED <<phase, svc, click>>
    /\ KeepDocker

\* probeHealth(port): never rejects; a slow backend reads as unhealthy.
Probe(t) ==
    /\ task[t].pc \in {"probe", "watchProbe"}
    /\ \/ /\ Running /\ container.serving /\ container.port = task[t].port
          /\ Answer(t, "ok")
       \/ Answer(t, "fail")
    /\ KeepDocker

\* now() reaches the deadline of waitForHealth().
DeadlinePasses(t) ==
    /\ task[t].pc \in {"probe", "sleep"}
    /\ ~task[t].expired
    /\ task' = [task EXCEPT ![t].expired = TRUE]
    /\ UNCHANGED <<phase, svc, click>>
    /\ KeepDocker

-----------------------------------------------------------------------------
(* start(), pull() and waitForHealth(), one action per segment.            *)

\* Calls of w that await dockerProblem(), and may go on to start().
Preflights(w) == {u \in Task : WindowOf[u] = w /\ task[u].pc = "preflight"}

\* ensureReady(): a ready service needs no call; otherwise dockerProblem().
\* Bound: at most MaxStarts calls reach the body of start().
EnsureReady(t) ==
    /\ phase[WindowOf[t]] = "open"
    /\ task[t] = IdleCall
    /\ Svc(t).state # "ready"
    /\ Svc(t).generation + Cardinality(Preflights(WindowOf[t])) < MaxStarts
    /\ Goto(t, "preflight")
    /\ UNCHANGED svc
    /\ Segment

\* Mutant: the generation is not bumped.
StartSameGeneration(t) ==
    IF Svc(t).state \in Busy
    THEN Finish(t, Svc(t))
    ELSE /\ Write(t, [Svc(t) EXCEPT !.cancelled = FALSE])
         /\ task' = [task EXCEPT ![t].pc = "version", ![t].gen = Svc(t).generation]

\* The synchronous head of start(), called by ensureReady().
Start(t) ==
    IF Svc(t).state \in Busy
    THEN Finish(t, Svc(t))
    ELSE LET g == Svc(t).generation + 1 IN
         /\ Write(t, [Svc(t) EXCEPT !.generation = g, !.cancelled = FALSE])
         /\ task' = [task EXCEPT ![t].pc = "version", ![t].gen = g]

Preflight(t) ==
    /\ At(t, "preflight")
    /\ \/ ~daemonUp /\ UNCHANGED svc /\ task' = [task EXCEPT ![t] = IdleCall]
       \/ daemonUp /\ Start(t)
    /\ Segment

Version(t) ==
    /\ At(t, "version")
    /\ IF Stale(t) THEN Finish(t, Svc(t))
       ELSE IF ~daemonUp THEN Finish(t, Failed(Svc(t)))
       ELSE Goto(t, "image") /\ UNCHANGED svc
    /\ Segment

\* The post-image checkpoint: the image is there.
Boot(t, s) ==
    IF s.cancelled THEN Write(t, s) /\ Goto(t, "undo")
    ELSE Write(t, Set(s, "starting")) /\ Goto(t, "port")

ImagePresent(t) ==
    /\ At(t, "image")
    /\ IF Stale(t) THEN Finish(t, Svc(t))
       ELSE IF daemonUp /\ imageCached THEN Boot(t, Svc(t))
       ELSE /\ Write(t, [Set(Svc(t), "pulling") EXCEPT !.inflight = t])
            /\ Goto(t, "pull")
    /\ Segment

\* A line of `docker pull` output arrives, until the process has closed.
PullLine(t) ==
    /\ At(t, "pull")
    /\ ~Stale(t)
    /\ Write(t, Set(Svc(t), "pulling"))
    /\ UNCHANGED task
    /\ Segment

PullClosed(t) ==
    /\ Answered(t, "pull")
    /\ LET s == [Svc(t) EXCEPT !.inflight = NoTask] IN
       IF Stale(t) THEN Finish(t, s)
       ELSE IF s.cancelled THEN Write(t, s) /\ Goto(t, "undo")
       ELSE IF task[t].reply = "fail" THEN Finish(t, Failed(s))
       ELSE Boot(t, s)
    /\ Segment

\* findFreePort() yields a port no container listens on, or rejects.
FreePort == {p \in Port : ~(Running /\ container.port = p)}

\* Mutant: a rejected findFreePort() escapes start() without a catch.
FindPortUncaught(t) ==
    /\ At(t, "port")
    /\ IF Stale(t) THEN Finish(t, Svc(t))
       ELSE \/ \E p \in FreePort :
                 task' = [task EXCEPT ![t] = [@ EXCEPT !.pc = "rm", !.port = p,
                                                      !.reply = "none"]]
            \/ task' = [task EXCEPT ![t] = IdleCall]
    /\ UNCHANGED svc
    /\ Segment

FindPort(t) ==
    /\ At(t, "port")
    /\ IF Stale(t) THEN Finish(t, Svc(t))
       ELSE \/ \E p \in FreePort :
                 /\ task' = [task EXCEPT ![t] = [@ EXCEPT !.pc = "rm", !.port = p,
                                                         !.reply = "none"]]
                 /\ UNCHANGED svc
            \/ Finish(t, Failed(Svc(t)))
    /\ Segment

\* Mutant: no stale check after the await.
RemovedUnchecked(t) ==
    /\ Answered(t, "rm")
    /\ Goto(t, "run")
    /\ UNCHANGED svc
    /\ Segment

\* The leftover container is gone: `docker run`.
Removed(t) ==
    /\ Answered(t, "rm")
    /\ IF Stale(t) THEN Finish(t, Svc(t)) ELSE Goto(t, "run") /\ UNCHANGED svc
    /\ Segment

\* One round of waitForHealth() from its loop test to the probe.
AwaitHealth(t, s) ==
    IF s.cancelled THEN Write(t, s) /\ Goto(t, "undo")
    ELSE Write(t, s) /\ Goto(t, "probe")

Ran(t) ==
    /\ Answered(t, "run")
    /\ IF Stale(t) THEN Finish(t, Svc(t))
       ELSE IF task[t].reply # "ok" THEN Finish(t, Failed(Svc(t)))
       ELSE AwaitHealth(t, [Svc(t) EXCEPT !.owned = TRUE])
    /\ Segment

Probed(t) ==
    /\ Answered(t, "probe")
    /\ IF Stale(t) THEN Finish(t, Svc(t))
       ELSE IF Svc(t).cancelled THEN Goto(t, "undo") /\ UNCHANGED svc
       ELSE IF task[t].reply = "ok"
            THEN Finish(t, [Svc(t) EXCEPT !.state = "ready", !.port = task[t].port])
       ELSE Goto(t, "sleep") /\ UNCHANGED svc
    /\ Segment

\* Mutant: the deadline is never looked at.
SleptForever(t) ==
    /\ At(t, "sleep")
    /\ IF Stale(t) THEN Finish(t, Svc(t)) ELSE AwaitHealth(t, Svc(t))
    /\ Segment

Slept(t) ==
    /\ At(t, "sleep")
    /\ IF Stale(t) THEN Finish(t, Svc(t))
       ELSE IF task[t].expired THEN Goto(t, "logs") /\ UNCHANGED svc
       ELSE AwaitHealth(t, Svc(t))
    /\ Segment

Logged(t) ==
    /\ At(t, "logs")
    /\ IF Stale(t) THEN Finish(t, Svc(t)) ELSE Goto(t, "timeoutRm") /\ UNCHANGED svc
    /\ Segment

TimedOut(t) ==
    /\ Answered(t, "timeoutRm")
    /\ IF Stale(t) THEN Finish(t, Svc(t))
       ELSE Finish(t, [Failed(Svc(t)) EXCEPT !.owned = FALSE])
    /\ Segment

-----------------------------------------------------------------------------
(* stop(), cancel() and removeAndStop().                                   *)

Stopping(t) == [Killed(WindowOf[t]) EXCEPT ![t] = [IdleCall EXCEPT !.pc = "stop"]]

Stop(t) ==
    /\ phase[WindowOf[t]] = "open"
    /\ task[t] = IdleCall
    /\ Write(t, [Svc(t) EXCEPT !.cancelled = TRUE, !.inflight = NoTask])
    /\ task' = Stopping(t)
    /\ Segment

\* The sidebar shows a Cancel button while the service is busy; the click
\* travels as a message, and cancel() runs whatever the state is by then.
ClickCancel(w) ==
    /\ phase[w] = "open"
    /\ svc[w].state \in Busy
    /\ ~click[w]
    /\ click' = [click EXCEPT ![w] = TRUE]
    /\ UNCHANGED <<phase, svc, task>>
    /\ KeepDocker

Cancel(w) ==
    /\ phase[w] = "open"
    /\ click[w]
    /\ click' = [click EXCEPT ![w] = FALSE]
    /\ svc' = [svc EXCEPT ![w].cancelled = TRUE]
    /\ task' = Killed(w)
    /\ UNCHANGED phase
    /\ KeepDocker

\* The tail of stop() and of removeAndStop(), whoever called it.
Undone(t) ==
    /\ Answered(t, "undo") \/ Answered(t, "stop")
    /\ Finish(t, [Set(Svc(t), "stopped") EXCEPT !.owned = FALSE])
    /\ Segment

-----------------------------------------------------------------------------
(* watchHealth() and adopt().                                              *)

WatchOver(t) == Svc(t).state # "ready" \/ Svc(t).cancelled \/ Stale(t)

EndWatch(t) == task' = [task EXCEPT ![t] = IdleCall] /\ UNCHANGED svc

WatchSlept(t) ==
    /\ At(t, "watchSleep")
    /\ IF WatchOver(t) THEN EndWatch(t) ELSE Goto(t, "watchProbe") /\ UNCHANGED svc
    /\ Segment

\* Mutant: an unhealthy probe is taken for a slow one.
WatchProbedPatiently(t) ==
    /\ Answered(t, "watchProbe")
    /\ IF WatchOver(t) THEN EndWatch(t)
       ELSE Goto(t, "watchSleep") /\ UNCHANGED svc
    /\ Segment

WatchProbed(t) ==
    /\ Answered(t, "watchProbe")
    /\ IF WatchOver(t) THEN EndWatch(t)
       ELSE IF task[t].reply = "ok"
       THEN task' = [task EXCEPT ![t] = [Watching(Svc(t)) EXCEPT !.gen = task[t].gen]]
            /\ UNCHANGED svc
       ELSE Goto(t, "watchLogs") /\ UNCHANGED svc
    /\ Segment

WatchLogged(t) ==
    /\ At(t, "watchLogs")
    /\ Goto(t, "watchRm")
    /\ UNCHANGED svc
    /\ Segment

WatchFailed(t) ==
    /\ Answered(t, "watchRm")
    /\ Write(t, [Failed(Svc(t)) EXCEPT !.owned = FALSE])
    /\ task' = [task EXCEPT ![t] = IdleCall]
    /\ Segment

\* Mutant: an adopted container counts as owned.
AdoptedOwned(t) ==
    /\ Answered(t, "inspect")
    /\ IF Stale(t) THEN Finish(t, Svc(t))
       ELSE IF task[t].reply = "fail" THEN Finish(t, Set(Svc(t), "stopped"))
       ELSE IF task[t].reply = "bad" THEN Goto(t, "undo") /\ UNCHANGED svc
       ELSE Finish(t, [Svc(t) EXCEPT !.state = "ready", !.port = task[t].port,
                                     !.owned = TRUE])
    /\ Segment

Adopted(t) ==
    /\ Answered(t, "inspect")
    /\ IF Stale(t) THEN Finish(t, Svc(t))
       ELSE IF task[t].reply = "fail" THEN Finish(t, Set(Svc(t), "stopped"))
       ELSE IF task[t].reply = "bad" THEN Goto(t, "undo") /\ UNCHANGED svc
       ELSE Finish(t, [Svc(t) EXCEPT !.state = "ready", !.port = task[t].port])
    /\ Segment

-----------------------------------------------------------------------------
(* activate(), deactivate() and the end of the extension host.             *)

\* activate() fires adopt() in the new window.
Open(t) ==
    /\ phase[WindowOf[t]] = "new"
    /\ phase' = [phase EXCEPT ![WindowOf[t]] = "open"]
    /\ task' = [task EXCEPT ![t] = [IdleCall EXCEPT !.pc = "inspect"]]
    /\ UNCHANGED <<svc, click>>
    /\ KeepDocker

\* deactivate() of a window that owns the container waits for stop().
Deactivate(t) ==
    /\ phase[WindowOf[t]] = "open"
    /\ Svc(t).owned
    /\ task[t] = IdleCall
    /\ phase' = [phase EXCEPT ![WindowOf[t]] = "closing"]
    /\ Write(t, [Svc(t) EXCEPT !.cancelled = TRUE, !.inflight = NoTask])
    /\ task' = Stopping(t)
    /\ UNCHANGED click
    /\ KeepDocker

\* The extension host is gone: closed without owning anything, after
\* deactivate(), or in a crash.  Only commands docker has already been given
\* survive it.
Exit(w) ==
    /\ phase[w] \in {"open", "closing"}
    /\ phase' = [phase EXCEPT ![w] = "closed"]
    /\ svc' = [svc EXCEPT ![w] = NewService]
    /\ click' = [click EXCEPT ![w] = FALSE]
    /\ task' = [t \in Task |->
                  IF WindowOf[t] # w \/ (task[t].pc \in RemovePc \cup {"run", "pull"}
                                         /\ task[t].reply = "none")
                  THEN task[t] ELSE IdleCall]
    /\ KeepDocker

-----------------------------------------------------------------------------
(* The specification.                                                      *)

\* Segments of start() and what it awaits.
BootStep(t) ==
    \/ Version(t) \/ ImagePresent(t) \/ PullClosed(t) \/ FindPort(t) \/ Removed(t)
    \/ Ran(t) \/ Probed(t) \/ Slept(t) \/ Logged(t) \/ TimedOut(t)

\* The event loop resumes a call that can go on.
Resume(t) ==
    \/ Preflight(t) \/ BootStep(t) \/ Undone(t)
    \/ WatchSlept(t) \/ WatchProbed(t) \/ WatchLogged(t) \/ WatchFailed(t)
    \/ Adopted(t)

External(t) ==
    \/ DockerRemove(t) \/ DockerRun(t) \/ DockerPull(t) \/ DockerInspect(t) \/ Probe(t)

User(t) == Open(t) \/ EnsureReady(t) \/ Stop(t) \/ Deactivate(t)

Next ==
    \/ \E t \in Task : Resume(t) \/ External(t) \/ User(t)
                       \/ PullLine(t) \/ DeadlinePasses(t)
    \/ \E w \in Window : ClickCancel(w) \/ Cancel(w) \/ Exit(w)
    \/ DockerEnvironment /\ UNCHANGED serviceVars

Spec == Init /\ [][Next]_vars

\* A docker command or probe ends and a suspended call is then resumed, and the
\* clock of waitForHealth() runs.  Nothing obliges the user, nor the daemon once
\* stopped to start again.
Progress(t) == Resume(t) \/ External(t)

Fairness == \A t \in Task : WF_vars(Progress(t)) /\ WF_vars(DeadlinePasses(t))

FairSpec == Spec /\ Fairness

-----------------------------------------------------------------------------
(* Properties.                                                             *)

TasksOf(w) == {t \in Task : WindowOf[t] = w}

\* t is the start() that service.generation names, not superseded by another.
Driving(t) == task[t].pc \in BootPc \cup {"undo"} /\ ~Stale(t)

\* Never wedged (service.ts:121-128): while the service says pulling or
\* starting, the start() of the current generation is still running and will
\* move it on, however starts, stops and cancels interleave.
BusyIsDriven ==
    \A w \in Window : svc[w].state \in Busy => \E t \in TasksOf(w) : Driving(t)

\* A service that says ready is being watched, or is being started anew, or was
\* told to stop (service.ts:193-196 promises the first without the others).
ReadyIsAttended ==
    \A w \in Window : svc[w].state = "ready" =>
        \/ svc[w].cancelled
        \/ \E t \in TasksOf(w) : Driving(t) \/ (task[t].pc \in WatchPc /\ ~Stale(t))

\* Two start() runs of one window are never of the same generation, so at most
\* one of them passes its checkpoints (service.ts:75-82).
GenerationsDiffer ==
    \A t, u \in Task :
        /\ t # u /\ WindowOf[t] = WindowOf[u]
        /\ task[t].pc \in BootPc /\ task[u].pc \in BootPc
        /\ Live(t)
        => task[t].gen # task[u].gen

\* A superseded start() goes no further than its next checkpoint: it gives
\* docker no command and changes neither state nor ownership (service.ts:75-82).
StaleStartStops ==
    [][\A t \in Task :
         Live(t) /\ Live(t)' /\ task[t].pc \in BootPc /\ Stale(t) /\ task'[t].pc # task[t].pc
         => /\ task'[t].pc \in {"idle", "watchSleep"}
            /\ Svc(t)'.state = Svc(t).state
            /\ Svc(t)'.owned = Svc(t).owned]_vars

\* A window never owns the container it found when it opened, so that its
\* deactivate() leaves that one alone (service.ts:56-63, extension.ts:166-171).
AdoptedIsNotOwned ==
    \A w \in Window :
        svc[w].owned /\ container # NoContainer => container.by # Earlier

\* No start() hangs (service.ts:121-128): a busy service leaves pulling and
\* starting, even if the daemon stops for good under it.
BusyEnds ==
    \A w \in Window : svc[w].state \in Busy ~> svc[w].state \notin Busy

\* A container that is gone from under a ready service surfaces, unless the
\* service was told to stop (service.ts:193-196).
DeathSurfaces ==
    \A w \in Window :
        svc[w].state = "ready" /\ ~svc[w].cancelled /\ ~Running
        ~> svc[w].state # "ready" \/ svc[w].cancelled \/ Running

-----------------------------------------------------------------------------
(* The inductive invariant behind the safety properties.                   *)

\* docker run is given a port that findFreePort() has yielded.
PortKnown == \A t \in Task : task[t].pc \in {"rm", "run"} => task[t].port \in Port

\* A window that is not open has no service, and no call before it first opens.
ClosedIsBlank ==
    \A w \in Window :
        /\ phase[w] \in {"new", "closed"} => svc[w] = NewService
        /\ phase[w] = "new" => \A t \in TasksOf(w) : task[t] = IdleCall

\* A start() in progress belongs to this generation or an earlier one.
GenerationKnown ==
    \A t \in Task :
        Live(t) /\ task[t].pc \in BootPc => task[t].gen <= Svc(t).generation

\* Once a docker run has succeeded, the container found at activation is gone.
RunIsFresh ==
    \A t \in Task :
        task[t].pc = "run" /\ task[t].reply = "ok" /\ container # NoContainer
        => container.by # Earlier

IInv ==
    /\ TypeOK
    /\ PortKnown
    /\ ClosedIsBlank
    /\ GenerationKnown
    /\ GenerationsDiffer
    /\ BusyIsDriven
    /\ ReadyIsAttended
    /\ RunIsFresh
    /\ AdoptedIsNotOwned

-----------------------------------------------------------------------------
(* What comments of the code say and some interleaving breaks.             *)

\* service.ts:57-58: owned is "True only while the container running right now
\* is one THIS window's start() booted."
OwnedIsMine ==
    \A w \in Window : svc[w].owned /\ Running => container.by = w

\* service.ts:205-207: a watch loop launched for an earlier "ready" "must not
\* touch [the container] or overwrite the newer state".
StaleWatchStops ==
    [][\A t \in Task :
         Live(t) /\ Live(t)' /\ task[t].pc \in WatchPc /\ Stale(t) /\ task'[t].pc # task[t].pc
         => task'[t].pc # "watchRm" /\ Svc(t)' = Svc(t)]_vars

\* service.ts:193-196: "a container that dies after a successful boot [...]
\* surfaces instead of leaving the sidebar claiming everything is fine": here
\* the boot of this window, whose container stop() would have disowned.
DeathAlwaysSurfaces ==
    \A w \in Window :
        svc[w].state = "ready" /\ svc[w].owned /\ ~Running
        ~> svc[w].state # "ready" \/ Running

=============================================================================
