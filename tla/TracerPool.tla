------------------------------ MODULE TracerPool ------------------------------
(***************************************************************************)
(* How the backend runs the tracer: backend/app/tracer_service.py, with    *)
(* local_tracer.py for the all-in-one image, and the server's start and    *)
(* shutdown (the lifespan of backend/app/api.py).                          *)
(*                                                                         *)
(* Worker threads, the threads of the reap timers and the main thread of   *)
(* the server share one warm container, one lock and one timer reference.  *)
(* A step is what a thread does from one place where another thread may    *)
(* overtake it to the next: a docker command, a blocking call, a call in   *)
(* the middle of a read and write of _reap_timer.                          *)
(***************************************************************************)
EXTENDS TraceRequests, Naturals

CONSTANTS
    Timer,       \* threading.Timer objects
    Main,        \* the main thread, which runs shutdown_pool() at the end
    MaxFaults,   \* bound: docker commands that fail for no reason of ours
    MaxKills     \* bound: how often the server is killed

ASSUME ActorAssumption == Main \notin Timer /\ Nobody \notin Timer
ASSUME BoundAssumption == MaxFaults \in Nat /\ MaxKills \in Nat

VARIABLES
    mode,        \* CPP_TUTOR_TRACER, fixed when the server is deployed
    server,      \* "up", "stopping" once told to, "down"
    worker,      \* worker[w]: where run_trace() is in thread w
    lock,        \* holder of _warm_lock, in local mode of _local_lock
    reap,        \* _reap_timer
    reaper,      \* reaper[a]: a timer, or the thread in shutdown_pool()
    warm,        \* WARM_CONTAINER
    guests,      \* tracer processes in it (in local mode, in the image)
    scratch,     \* whose source is in /opt/tracer/usercode.*
    faults,      \* history: docker commands that failed
    kills        \* history: times the server was killed

threadVars == <<worker, lock, reap, reaper>>
warmVars == <<warm, guests, scratch>>
poolVars == <<mode, server, threadVars, warmVars, faults, kills>>

Reaper == Timer \cup {Main}

\* Places where a worker holds the lock.
HoldPc == {"inspect", "rm", "run", "exec", "running", "recheck", "purge",
           "cancel", "arm", "link", "local"}
WorkerPc == HoldPc \cup {"off", "lock", "localLock", "cold", "done"}
ReaperPc == {"off", "armed", "check", "clear", "lock"}

Thread == [pc : WorkerPc, key : Key \cup {Nobody}, out : Output \cup {Nobody},
           timer : Timer \cup {Nobody}]
Guest == [owner : Worker \cup {Nobody}, key : Key, wrote : BOOLEAN]

Off == [pc |-> "off", key |-> Nobody, out |-> Nobody, timer |-> Nobody]

\* A call has its source from the start, and its output once the tracer is over.
Carries(r) ==
    /\ r.pc # "off" => r.key \in Key
    /\ r.pc \in {"recheck", "cancel", "arm", "link", "done"} => r.out \in Output

PoolTypeOK ==
    /\ mode \in {"docker", "local"}
    /\ server \in {"up", "stopping", "down"}
    /\ worker \in [Worker -> Thread]
    /\ \A w \in Worker : Carries(worker[w])
    /\ lock \in Worker \cup {Nobody}
    /\ reap \in Timer \cup {Nobody}
    /\ reaper \in [Reaper -> ReaperPc]
    /\ warm \in {"absent", "up", "dead"}
    /\ guests \subseteq Guest
    /\ scratch \in Key \cup {Nobody}
    /\ faults \in Nat
    /\ kills \in Nat

PoolInit ==
    /\ mode \in {"docker", "local"}
    /\ server = "up"
    /\ worker = [w \in Worker |-> Off]
    /\ lock = Nobody
    /\ reap = Nobody
    /\ reaper = [a \in Reaper |-> "off"]
    /\ warm = "absent"
    /\ guests = {}
    /\ scratch = Nobody
    /\ faults = 0
    /\ kills = 0

-----------------------------------------------------------------------------
(* Vocabulary of the steps.                                                *)

At(w, l) == worker[w].pc = l
Goto(w, l) == worker' = [worker EXCEPT ![w].pc = l]

\* Thread w goes to l with output o, and leaves the `with` block.
LeaveBlock(w, l, o) ==
    /\ worker' = [worker EXCEPT ![w].pc = l, ![w].out = o, ![w].timer = Nobody]
    /\ lock' = Nobody

GuestsOf(w) == {g \in guests : g.owner = w}
Spawned(w) == [owner |-> w, key |-> worker[w].key, wrote |-> FALSE]

\* The processes of the owners in W go on with nobody waiting for them.
Orphaned(W) == {[g EXCEPT !.owner = IF @ \in W THEN Nobody ELSE @] : g \in guests}

Fault == faults < MaxFaults /\ faults' = faults + 1

\* docker rm -f WARM_CONTAINER; its exit code is not looked at.
RemoveWarm ==
    \/ /\ warm' = "absent"
       /\ guests' = {}
       /\ scratch' = Nobody
       /\ UNCHANGED faults
    \/ /\ warm # "absent"
       /\ Fault
       /\ UNCHANGED warmVars

\* _warm_running() says yes / says no, which it also does when docker fails.
SeesRunning == warm = "up" /\ UNCHANGED faults
SeesNothing == \/ warm # "up" /\ UNCHANGED faults
               \/ warm = "up" /\ Fault

Cancelled(t) == [a \in Reaper |->
                    IF a = t /\ reaper[a] = "armed" THEN "off" ELSE reaper[a]]

KeepServer == UNCHANGED <<mode, server, kills>>
KeepReap == UNCHANGED <<reap, reaper>>
Quiet == KeepServer /\ UNCHANGED <<warmVars, faults>>   \* no docker command

-----------------------------------------------------------------------------
(* _run_tracer(), the docker deployment.                                   *)

\* run_trace() is called; any code reaches it, only "c" and "cpp" as lang.
Enter(w, k) ==
    /\ At(w, "off")
    /\ worker' = [worker EXCEPT ![w] =
                    [Off EXCEPT !.pc = IF mode = "local" THEN "localLock" ELSE "lock",
                                !.key = k]]
    /\ UNCHANGED lock /\ KeepReap /\ Quiet

\* Bound: Timer is finite, so a request starts only when it will find a timer to
\* arm.  A timer that is over and no longer referenced is used again.
SpareTimer == \E t \in Timer \ {reap} : reaper[t] = "off"

\* Mutant: no lock around the warm container.
AcquireUnlocked(w) ==
    /\ At(w, "lock")
    /\ SpareTimer
    /\ lock' = w
    /\ Goto(w, "inspect")
    /\ KeepReap /\ Quiet

Acquire(w) ==
    /\ At(w, "lock")
    /\ lock = Nobody
    /\ SpareTimer
    /\ lock' = w
    /\ Goto(w, "inspect")
    /\ KeepReap /\ Quiet

Inspect(w) ==
    /\ At(w, "inspect")
    /\ \/ SeesRunning /\ Goto(w, "exec")
       \/ SeesNothing /\ Goto(w, "rm")
    /\ UNCHANGED <<lock, warmVars>> /\ KeepReap /\ KeepServer

StartWarmRemove(w) ==
    /\ At(w, "rm")
    /\ RemoveWarm
    /\ Goto(w, "run")
    /\ UNCHANGED lock /\ KeepReap /\ KeepServer

\* Mutant: no cold run when the warm container cannot be started.
StartWarmOrGiveUp(w) ==
    /\ At(w, "run")
    /\ \/ /\ warm = "absent"
          /\ warm' = "up"
          /\ Goto(w, "exec")
          /\ UNCHANGED lock
       \/ LeaveBlock(w, "done", Nobody) /\ UNCHANGED warm
    /\ UNCHANGED <<guests, scratch, faults>> /\ KeepReap /\ KeepServer

\* A docker run that fails may leave a container that holds the name.
StartWarmRun(w) ==
    /\ At(w, "run")
    /\ \/ /\ warm = "absent"
          /\ warm' = "up"
          /\ Goto(w, "exec")
          /\ UNCHANGED lock
       \/ /\ warm' \in IF warm = "absent" THEN {"absent", "dead"} ELSE {warm}
          /\ LeaveBlock(w, "cold", Nobody)
    /\ UNCHANGED <<guests, scratch, faults>> /\ KeepReap /\ KeepServer

ExecStarts(w) ==
    /\ At(w, "exec")
    /\ IF warm = "up"
       THEN guests' = guests \cup {Spawned(w)} /\ Goto(w, "running")
       ELSE /\ worker' = [worker EXCEPT ![w].pc = "recheck", ![w].out = Garbled]
            /\ UNCHANGED guests
    /\ UNCHANGED <<lock, warm, scratch, faults>> /\ KeepReap /\ KeepServer

\* What the tracer printed: the trace of the source in the scratch file, or
\* nothing of use.
Printed(w, o) == (\E g \in GuestsOf(w) : g.wrote) /\ o \in {scratch, Garbled}

ExecEnds(w) ==
    /\ At(w, "running")
    /\ \E o \in Output, l \in {"cancel", "recheck"} :
         /\ Printed(w, o)
         /\ worker' = [worker EXCEPT ![w].pc = l, ![w].out = o]
    /\ guests' = guests \ GuestsOf(w)
    /\ UNCHANGED <<lock, warm, scratch, faults>> /\ KeepReap /\ KeepServer

\* The container went away under the exec.
ExecBreaks(w) ==
    /\ At(w, "running")
    /\ GuestsOf(w) = {}
    /\ worker' = [worker EXCEPT ![w].pc = "recheck", ![w].out = Garbled]
    /\ UNCHANGED lock /\ KeepReap /\ Quiet

\* Mutant: docker exec is given no timeout.
ExecWaits(w) == FALSE

ExecTimesOut(w) ==
    /\ At(w, "running")
    /\ guests' = Orphaned({w})
    /\ Goto(w, "purge")
    /\ UNCHANGED <<lock, warm, scratch, faults>> /\ KeepReap /\ KeepServer

\* Mutant: the guest of a timed-out exec is left alone.
PurgeForgotten(w) ==
    /\ At(w, "purge")
    /\ LeaveBlock(w, "done", TimedOut)
    /\ KeepReap /\ Quiet

Purge(w) ==
    /\ At(w, "purge")
    /\ RemoveWarm
    /\ LeaveBlock(w, "done", TimedOut)
    /\ KeepReap /\ KeepServer

\* Mutant: a failing tracer in a healthy container returns without a timer.
RecheckUntimed(w) ==
    /\ At(w, "recheck")
    /\ \/ SeesRunning /\ LeaveBlock(w, "done", worker[w].out)
       \/ SeesNothing /\ LeaveBlock(w, "cold", Nobody)
    /\ UNCHANGED warmVars /\ KeepReap /\ KeepServer

Recheck(w) ==
    /\ At(w, "recheck")
    /\ \/ SeesRunning /\ Goto(w, "cancel") /\ UNCHANGED lock
       \/ SeesNothing /\ LeaveBlock(w, "cold", Nobody)
    /\ UNCHANGED warmVars /\ KeepReap /\ KeepServer

\* A container of its own for this one run, with nothing shared.
ColdRun(w) ==
    /\ At(w, "cold")
    /\ \E o \in {worker[w].key, Garbled, TimedOut} :
         worker' = [worker EXCEPT ![w].pc = "done", ![w].out = o]
    /\ UNCHANGED lock /\ KeepReap /\ Quiet

-----------------------------------------------------------------------------
(* _arm_reap_timer(), called with the lock held.                           *)

CancelOld(w) ==
    /\ At(w, "cancel")
    /\ reaper' = Cancelled(reap)
    /\ Goto(w, "arm")
    /\ UNCHANGED <<lock, reap>> /\ Quiet

\* Mutant: the timer is never started.
ArmUnstarted(w) ==
    /\ At(w, "arm")
    /\ \E t \in Timer \ {reap} :
         /\ reaper[t] = "off"
         /\ worker' = [worker EXCEPT ![w].pc = "link", ![w].timer = t]
    /\ UNCHANGED <<lock, reap, reaper>> /\ Quiet

ArmNew(w) ==
    /\ At(w, "arm")
    /\ \E t \in Timer \ {reap} :
         /\ reaper[t] = "off"
         /\ reaper' = [reaper EXCEPT ![t] = "armed"]
         /\ worker' = [worker EXCEPT ![w].pc = "link", ![w].timer = t]
    /\ UNCHANGED <<lock, reap>> /\ Quiet

LinkNew(w) ==
    /\ At(w, "link")
    /\ reap' = worker[w].timer
    /\ LeaveBlock(w, "done", worker[w].out)
    /\ UNCHANGED reaper /\ Quiet

-----------------------------------------------------------------------------
(* run_local(), the all-in-one image: the same scratch files, no container. *)

\* Mutant: _local_lock is missing.
LocalStartsUnlocked(w) ==
    /\ At(w, "localLock")
    /\ lock' = w
    /\ guests' = guests \cup {Spawned(w)}
    /\ Goto(w, "local")
    /\ UNCHANGED <<warm, scratch, faults>> /\ KeepReap /\ KeepServer

LocalStarts(w) ==
    /\ At(w, "localLock")
    /\ lock = Nobody
    /\ lock' = w
    /\ guests' = guests \cup {Spawned(w)}
    /\ Goto(w, "local")
    /\ UNCHANGED <<warm, scratch, faults>> /\ KeepReap /\ KeepServer

LocalEnds(w) ==
    /\ At(w, "local")
    /\ \E o \in Output : Printed(w, o) /\ LeaveBlock(w, "done", o)
    /\ guests' = guests \ GuestsOf(w)
    /\ UNCHANGED <<warm, scratch, faults>> /\ KeepReap /\ KeepServer

\* killpg() takes the whole process group before the lock is released.
LocalTimesOut(w) ==
    /\ At(w, "local")
    /\ guests' = guests \ GuestsOf(w)
    /\ LeaveBlock(w, "done", TimedOut)
    /\ UNCHANGED <<warm, scratch, faults>> /\ KeepReap /\ KeepServer

-----------------------------------------------------------------------------
(* shutdown_pool(), in the thread of a timer that fired or in Main.        *)

Fires(t) ==
    /\ reaper[t] = "armed"
    /\ reaper' = [reaper EXCEPT ![t] = "check"]
    /\ UNCHANGED <<worker, lock, reap>> /\ Quiet

\* Mutant: without a timer there is taken to be nothing to reap.
ReapCheckEager(a) ==
    /\ reaper[a] = "check"
    /\ IF reap # Nobody
       THEN reaper' = [Cancelled(reap) EXCEPT ![a] = "clear"] /\ UNCHANGED server
       ELSE /\ reaper' = [reaper EXCEPT ![a] = "off"]
            /\ server' = IF a = Main THEN "down" ELSE server
    /\ UNCHANGED <<worker, lock, reap, mode, kills, warmVars, faults>>

ReapCheck(a) ==
    /\ reaper[a] = "check"
    /\ reaper' = [Cancelled(reap) EXCEPT ![a] = IF reap = Nobody THEN "lock" ELSE "clear"]
    /\ UNCHANGED <<worker, lock, reap>> /\ Quiet

ReapClear(a) ==
    /\ reaper[a] = "clear"
    /\ reap' = Nobody
    /\ reaper' = [reaper EXCEPT ![a] = "lock"]
    /\ UNCHANGED <<worker, lock>> /\ Quiet

\* Mutant: the reaper does not wait for the lock.
ReapRemoveUnlocked(t) ==
    /\ reaper[t] = "lock"
    /\ RemoveWarm
    /\ reaper' = [reaper EXCEPT ![t] = "off"]
    /\ UNCHANGED <<worker, lock, reap>> /\ KeepServer

\* The lock is held for this one command.
ReapRemove(t) ==
    /\ reaper[t] = "lock"
    /\ lock = Nobody
    /\ RemoveWarm
    /\ reaper' = [reaper EXCEPT ![t] = "off"]
    /\ UNCHANGED <<worker, lock, reap>> /\ KeepServer

-----------------------------------------------------------------------------
(* The life of the server.                                                 *)

\* SIGTERM: no request is accepted any more.
Terminate ==
    /\ server = "up"
    /\ server' = "stopping"
    /\ UNCHANGED <<mode, kills, threadVars, warmVars, faults>>

\* The requests in progress are over: the second half of _lifespan().
Shutdown ==
    /\ server = "stopping"
    /\ \A w \in Worker : At(w, "off")
    /\ reaper[Main] = "off"
    /\ reaper' = [reaper EXCEPT ![Main] = "check"]
    /\ UNCHANGED <<worker, lock, reap>> /\ Quiet

\* The process and its threads are gone; timers are daemon threads.
ThreadsEnd ==
    /\ server' = "down"
    /\ worker' = [w \in Worker |-> Off]
    /\ lock' = Nobody
    /\ reap' = Nobody
    /\ reaper' = [a \in Reaper |-> "off"]

\* Main removes the container, and the process ends.
Exit ==
    /\ reaper[Main] = "lock"
    /\ lock = Nobody
    /\ RemoveWarm
    /\ ThreadsEnd
    /\ UNCHANGED <<mode, kills>>

\* Nothing the server started in docker dies with it; in local mode the whole
\* image does.
Kill ==
    /\ server # "down"
    /\ kills < MaxKills
    /\ kills' = kills + 1
    /\ ThreadsEnd
    /\ IF mode = "local" THEN guests' = {} /\ scratch' = Nobody
       ELSE guests' = Orphaned(Worker) /\ UNCHANGED scratch
    /\ UNCHANGED <<mode, warm, faults>>

Start ==
    /\ server = "down"
    /\ server' = "up"
    /\ UNCHANGED <<mode, kills, threadVars, warmVars, faults>>

-----------------------------------------------------------------------------
(* What goes on in the container by itself.                                *)

\* The tracer writes its source to the shared scratch file, and later prints
\* what it finds there.
GuestWrites ==
    /\ \E g \in guests :
         /\ ~g.wrote
         /\ guests' = (guests \ {g}) \cup {[g EXCEPT !.wrote = TRUE]}
         /\ scratch' = g.key
    /\ UNCHANGED <<warm, faults, threadVars>> /\ KeepServer

\* A tracer nobody waits for comes to an end.
OrphanEnds ==
    /\ \E g \in guests : g.owner = Nobody /\ guests' = guests \ {g}
    /\ UNCHANGED <<warm, scratch, faults, threadVars>> /\ KeepServer

\* An OOM kill, or somebody else's docker command.
WarmDies ==
    /\ warm = "up"
    /\ warm' = "dead"
    /\ guests' = {}
    /\ UNCHANGED <<scratch, faults, threadVars>> /\ KeepServer

-----------------------------------------------------------------------------
(* The specification.                                                      *)

\* run_trace() returns or raises.
Leave(w) ==
    /\ At(w, "done")
    /\ worker' = [worker EXCEPT ![w] = Off]
    /\ UNCHANGED lock /\ KeepReap /\ Quiet

\* What w does once it has got past the locks.
Serve(w) ==
    \/ Inspect(w) \/ StartWarmRemove(w) \/ StartWarmRun(w)
    \/ ExecStarts(w) \/ ExecEnds(w) \/ ExecBreaks(w) \/ ExecTimesOut(w)
    \/ Purge(w) \/ Recheck(w) \/ ColdRun(w)
    \/ CancelOld(w) \/ ArmNew(w) \/ LinkNew(w)
    \/ LocalEnds(w) \/ LocalTimesOut(w)

WaitForLock(w) == Acquire(w) \/ LocalStarts(w)

Reap(t) == ReapCheck(t) \/ ReapClear(t) \/ ReapRemove(t)
MainStep == Shutdown \/ ReapCheck(Main) \/ ReapClear(Main) \/ Exit

\* Steps in which run_trace() is neither called nor returns.
PoolStep ==
    \/ \E w \in Worker : WaitForLock(w) \/ Serve(w)
    \/ \E t \in Timer : Fires(t) \/ Reap(t)
    \/ GuestWrites \/ OrphanEnds \/ WarmDies

PoolNext ==
    \/ PoolStep
    \/ \E w \in Worker : (server = "up" /\ \E k \in Key : Enter(w, k)) \/ Leave(w)
    \/ MainStep \/ Terminate \/ Kill \/ Start

PoolSpec == PoolInit /\ [][PoolNext]_poolVars

\* Threads run; docker commands answer, an exec by its timeout at the latest; a
\* timer fires.  Which of several threads gets the lock is left open, and
\* nothing obliges a client to send a request or the server to stop.
PoolFairness ==
    /\ \A w \in Worker : WF_poolVars(Serve(w)) /\ WF_poolVars(Leave(w))
                          /\ WF_poolVars(WaitForLock(w))
    /\ \A t \in Timer : WF_poolVars(Fires(t)) /\ WF_poolVars(Reap(t))
    /\ WF_poolVars(MainStep)

FairPoolSpec == PoolSpec /\ PoolFairness

-----------------------------------------------------------------------------
(* Properties.                                                             *)

\* Docker has answered truthfully and the server was never killed.
Calm == faults = 0 /\ kills = 0

\* One tracer at a time (tracer_service.py:26-28, local_tracer.py:6-7): the
\* scratch files are never shared, not even with the guest of a request that
\* timed out (tracer_service.py:93-94).
OneGuest == Calm => \A g, h \in guests : g = h

\* What a request gets is the trace of its own source, whatever ran before it,
\* timed out or died in the same container.
OwnOutput ==
    \A w \in Worker : Calm /\ worker[w].out \in Key => worker[w].out = worker[w].key

\* shutdown_pool() never yanks the container out from under a live exec
\* (tracer_service.py:76).
NeverYanked ==
    [][\A w \in Worker :
         At(w, "running") /\ GuestsOf(w) # {} /\ warm' = "absent"
         => worker'[w].pc # "running"]_poolVars

\* A container that outlives its last request has a reaper coming for it
\* (tracer_service.py:30-32), whichever threads re-armed, fired or cleared the
\* timer meanwhile.
WarmIsTimed ==
    Calm /\ warm = "up" /\ lock = Nobody => \E a \in Reaper : reaper[a] # "off"

\* A server that was asked to stop leaves no container behind (api.py:15-18).
StopsClean == Calm /\ server = "down" => warm # "up"

\* Nobody keeps the lock: every request that has got it gives it back, with the
\* guest timed out or dead, the container gone or the timer re-armed.
LockReleased == \A w \in Worker : lock = w ~> lock # w

\* Without requests the container is reaped in the end.
IdleIsReaped ==
    <>[](Calm /\ \A w \in Worker : At(w, "off")) => <>[](warm # "up")

-----------------------------------------------------------------------------
(* The inductive invariant behind the safety properties.                   *)

\* Inside the `with` block is who holds the lock.
HolderInside == \A w \in Worker : worker[w].pc \in HoldPc <=> lock = w

\* The two deployments do not mix.
ModesApart ==
    /\ mode = "docker" => \A w \in Worker : worker[w].pc \notin {"localLock", "local"}
    /\ mode = "local" =>
         /\ warm = "absent"
         /\ \A w \in Worker : worker[w].pc \in {"off", "localLock", "local", "done"}

\* In docker mode a guest is in the warm container.
GuestsInWarm == mode = "docker" /\ guests # {} => warm = "up"

\* A guest runs the source of the request that holds the lock, and so does the
\* scratch file once the guest has written it.
GuestIsHolders ==
    Calm => \A g \in guests :
              /\ lock \in Worker
              /\ \/ worker[lock].pc \in {"running", "local"} /\ g.owner = lock
                 \/ worker[lock].pc = "purge" /\ g.owner = Nobody
              /\ g.key = worker[lock].key
              /\ g.wrote => scratch = g.key

\* docker run comes after a docker rm.
RunIsAfterRemove == \A w \in Worker : Calm /\ worker[w].pc = "run" => warm # "up"

\* The timer about to become _reap_timer is under way, and no other thread can
\* cancel it.
LinkIsArmed ==
    \A w \in Worker :
        worker[w].pc = "link" =>
            /\ worker[w].timer \in Timer
            /\ reaper[worker[w].timer] # "off"
            /\ reap # worker[w].timer

\* A server that is down runs no thread.
DownIsQuiet ==
    server = "down" =>
        /\ lock = Nobody
        /\ \A w \in Worker : worker[w] = Off

ThreadInv == HolderInside /\ ModesApart /\ LinkIsArmed /\ DownIsQuiet
GuestInv == GuestsInWarm /\ GuestIsHolders /\ OneGuest /\ OwnOutput
WarmInv == RunIsAfterRemove /\ WarmIsTimed /\ StopsClean

PoolInv == PoolTypeOK /\ ThreadInv /\ GuestInv /\ WarmInv

-----------------------------------------------------------------------------
(* What a comment of the code says and some interleaving breaks.           *)

\* tracer_service.py:30-32: "each request re-arms this timer, and
\* IDLE_TTL_SECONDS without a request reaps the container": no timer removes it
\* while the reference is to another one, with which a later request re-armed.
ReapsOnlyIdle ==
    [][\A t \in Timer :
         reaper[t] = "lock" /\ warm = "up" /\ warm' = "absent" /\ reaper'[t] = "off"
         => reap \in {Nobody, t}]_poolVars

=============================================================================
