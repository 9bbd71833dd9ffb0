# A verification project for cpp-tutor

cpp-tutor runs a C or C++ program under a tracer (Valgrind, in a container) and
replays the trace step by step. This directory models what is hard in it: the VS Code
extension's container lifecycle, the backend's tracer pool, cache and request
handler, the page that requests and replays traces, and the algorithms that turn a
trace into the views the page draws (call tree, memory, tables, linked structures,
graphs). TLC checks the models on small instances; TLAPS proves the safety properties of the
extension, the backend and the page, that the backend implements its abstract
specification, what the call tree and a table show, how linked structures are
recognised, grouped and marked, and what is drawn and marked of a graph, for every value
of the constants.

Paths below are relative to `src/`; those of section 1's frontend rows to
`src/frontend/src/`.

## 1. Inventory

| Component | State | Operations | Interacts with |
|---|---|---|---|
| **Service lifecycle** (`extension/src/service.ts`, `extension.ts`, `sidebar.ts`, `runtime.ts`) | per window: `state`, `port`, `cancelled`, `inflight`, `_owned`, `generation`; suspended async calls | `start`, `pull`, `waitForHealth`, `watchHealth`, `stop`, `cancel`, `adopt`, `removeAndStop`, activation, deactivation | docker commands, the backend's `/api/health`, messages of the sidebar, other windows through the one container name |
| **Tracer pool** (`backend/app/tracer_service.py`, `local_tracer.py`) | warm container, `_warm_lock` / `_local_lock`, `_reap_timer`, scratch files | `run_trace`, `_run_tracer`, `_start_warm`, `_arm_reap_timer`, `shutdown_pool`, `run_local` | docker; request threads; timer threads; the server's lifespan |
| **Trace cache** (`backend/app/trace_cache.py`) | `_cache` (an LRU `OrderedDict`) and its lock | lookup, store with eviction, `clear` | called by every request; calls the pool without the lock |
| **Request handler** (`backend/app/api.py`) | none of its own | `POST /api/trace`, lifespan | cache, pool |
| **App session** (`App.tsx`, `CodePanel.tsx`, `player/usePlayer.ts`, `controls/Vcr.tsx`, `shortcuts/`) | code, the editor's text, trace, error, loading, breakpoints, heap popup, help, the player's step and tab; requests in flight | visualize, stop, edit, hand-off, step, seek, breakpoints, tabs, shortcuts | `POST /api/trace`, the URL hash |
| **Call tree** (`viz/callTree.ts`, `treeLayout.ts`, `frameInspector.ts`) | built from a trace | match frames to invocations, node states, labels, collapsing, layout | trace |
| **Memory view** (`viz/memoryModel.ts`, `memoryDiff.ts`, `stl/`) | built per step | decode standard containers, follow pointers, drop what is drawn elsewhere from the heap, flag what changed | trace |
| **DP tables** (`viz/dp/`) | built from a trace | collect writes, find the table, operands, cone | memory view, source text |
| **Linked structures** (`viz/shapes.ts`, `shapeLayout.ts`, `graph/treeScene.ts`) | built from a trace | confirm which types are lists, trees, tries; group and place nodes; mark the trail | memory view |
| **Graphs** (`viz/graph/graphModel.ts`, `containers.ts`) | built per step | which container is the scene, its edges, the marks | memory view |
| **UB diagnosis** (`viz/ub/diagnose.ts`) | none | classify an error of the tracer | memory view |

What is hard here, and what makes each part correct:

* *Service lifecycle.* Every method is asynchronous, and a button, a message, another
  window or docker may act at each `await`. It is correct if it is never wedged in a
  busy state, if an attempt that has been superseded stops, if a ready service does
  not go unwatched, and if a window removes only containers it may remove.
* *Tracer pool.* All requests share one container and its scratch files, and the
  threads of timers remove it. It is correct if tracers never share the scratch
  files, a request never gets another one's trace, the container is not removed
  under a live exec, somebody removes it in the end, and the lock is always released.
* *Cache.* The lock is not held while tracing. It is correct if it holds the most
  recently answered keys, each once, and only right traces.
* *App session.* Requests are neither numbered nor aborted; stops, edits and hand-offs
  cross their answers. It is correct if a trace is shown beside its own code, a wait
  ends, and the player stands on a step of its trace.
* *Views.* Pure functions of a trace with hard inputs: frames whose addresses settle
  late, are reused, or drop out of a step; parameters not set yet and garbage at a
  return; half-destroyed containers; heaps with cycles and dangling pointers. A view
  is correct if it shows what the program did. So each view's module has a *program*
  beside the *analysis*: the program keeps the truth, the trace loses part of it, and
  the properties compare what the analysis recovers with the truth.

PROJECT.json lists each hazard at its line, with the properties that cover it.

## 2. Modules

| Module | Models | State and actions |
|---|---|---|
| `Docker` | the daemon as seen by the extension (external) | the holder of the one container name, whether the daemon answers, whether the image is cached; effects of `rm`, `run`, `pull`; the daemon stops and starts, the container dies |
| `TracerService` | service lifecycle, in any number of windows | `svc[w]` holds the fields of the class; `task[t]` is a suspended call and `pc` the `await` it is at. One action per segment from an await to the next, named after what has just been answered (`Version`, `ImagePresent`, `FindPort`, `Removed`, `Ran`, `Probed`, ...); a command takes effect in an action of its own (`DockerRemove`, `DockerRun`, ...) between issue and reply |
| `TraceRequests` | what goes in and out of a request | keys, outputs, failures |
| `TracerPool` | tracer pool, server start and stop | `worker[w].pc` is where `run_trace()` is in thread `w`; `reaper[a]` is a timer, or the main thread in `shutdown_pool()`; one action per docker command, blocking call, or access to `_reap_timer` that another thread can overtake |
| `TraceCache` | cache | `cache` in LRU order, `call[w].stage`; one action per critical section |
| `Backend` | cache and pool together, under the handler | the actions of both, joined: a miss enters the pool, what the pool returns goes to the cache, and a dead process forgets both |
| `TraceOracle` | what `POST /api/trace` promises (abstract) | each request gets one answer, right or a failure |
| `AppSession` | app session | the page's state and its requests in flight; one action per click, key chord, edit, hand-off and answer. An exception while rendering unmounts the page (`blank`) |
| `TracedProgram` | what the programs of the next two share | constants |
| `CallTree` | `callTree.ts`, `treeLayout.ts`, `frameInspector.ts` | a program that calls and returns, a trace with the tracer's five oddities, and the tree of `buildCallTree`, built a point at a time |
| `DpTable` | `dp/` | a program that fills a table bottom-up or by memoized recursion, held by a frame or globally, as array or map; writes, candidate, self references, operands, cone as operators of the trace |
| `Shapes` | `shapes.ts`, the trail of `treeScene.ts` | a program that allocates, links, walks and frees nodes; what the passes over the trace gather is kept as it runs; heads, chains and groups are operators, and the two recursive walks, over nodes to visit and starts to group, are folds |
| `ShapeLayout` | `shapeLayout.ts` | no state of its own: where the groups are placed, by operators that nest as the trees do |
| `Graph` | `graphModel.ts`, `containers.ts`, `scene.ts` | a program that keeps a graph as adjacency list (weighted or not), matrix, edge list or grid, then walks it with a queue, a stack, a priority queue or recursion; scene and marks are operators of the memory at each step |
| `StdContainers` | libstdc++ as the tracer encodes it (external) | values as terms, the statements that change them, the structs and heap blocks in which they arrive |
| `Memory` | `memoryModel.ts`, `memoryDiff.ts`, `stl/` | a program with a container and a pointer; the decoded view of each point, its links, and what a step flags |
| `MCViews` | the five views side by side | `Checked` names those that a run checks; `active` picks the program that runs and the others keep still, since no view reads another's state. It extends `CallTree`, `DpTable`, `ShapeLayout` and `Graph`, so that the properties checked are the ones proved |
| `Filter` | - | the elements of a sequence that are in a set, in order |
| other `MC*` | - | instances for TLC |
| `*Proofs` | - | theorems and proofs about the module before `Proofs`; `BackendProofs` also holds those about `TracerPool` and `TraceCache`, on which its own rest |
| `CommonLemmas` | - | facts about numbers and sequences that several proofs use |

Definitions whose comment begins with "mutant" stand for plausible mistakes in
the code. They are used to show that each property can fail, and by nothing else.

### How the code was abstracted

* An extension host has one JavaScript thread, so the code between two awaits is one
  step. A continuation that only passes a value on is merged with the segment it
  resumes. Where a returning `start()` launches `watchHealth()`, the loop takes over
  the task (`Finish`), as it runs up to its first await in the same turn.
* In the pool the test of `_reap_timer` and the call through it are one step: the
  project requires a CPython that switches threads at calls and backward jumps only,
  and there is none between the two reads. The call and the assignment after it are
  different steps. The reaper's `with _warm_lock` around one command is one step.
* A deployment uses either `_warm_lock` or `_local_lock` (`CPP_TUTOR_TRACER`), so
  that one variable `lock` stands for both, and `mode` says which.
* A key names a source (and language), and the trace that this source gives. The
  output `Garbled` is anything that does not parse. The scratch file holds the key of
  the guest that wrote it last, and a tracer prints what the file holds then, which is
  how sharing it would show.
* A cold `docker run` shares nothing with other requests, so it is one step with any
  of its outcomes. That the container of a cold run outlives its timed-out client is
  not represented.
* Docker commands fail only in `Fault` (pool) or while the daemon is down
  (extension). `Calm` says that docker has not failed and the server was not killed.
  Properties that the code does not defend in those cases are claimed when calm:
  no exit code of `docker rm` is looked at, and nothing identifies the warm container
  of an earlier server.
* In `AppSession` React is one transition per event: the state set in a handler and the
  render it causes are one step. What a trace holds is the lines of its steps; a code
  may have several traces (a program may read the clock), of different lengths.
* The analyses of the views are translated function by function, over records that
  hold what they read of a point. Regular expressions over names and types are sets
  of the names that the modelled programs use; strings of digits are numbers; ids that
  the code joins with dashes are sequences. The programs and the encodings of the
  standard library are not in this repository: they are marked external in
  PROJECT.json, and are modelled from the traces that the tests of `viz/` feed to the
  analyses, and from the comments that describe the tracer (`callTree.ts:2-50`,
  `writes.ts:60-68`).
* `RECURSIVE` operators are used only in modules about which nothing is proved.

## 3. Runs

| Run | Instance | Checks |
|---|---|---|
| `service_one_window` | 1 window, 3 calls, 2 starts, 2 ports | `TypeOK`; **`BusyIsDriven`**: never wedged; **`ReadyIsAttended`**: ready is watched, restarted or told to stop; `GenerationsDiffer`; **`AdoptedIsNotOwned`**: what was found is not torn down; **`StaleStartStops`**: a superseded start does nothing more |
| `service_liveness` | 1 window, 2 calls, 2 starts, the daemon stops once | **`BusyEnds`**: every boot ends; **`DeathSurfaces`**: a dead container shows |
| `pool` | 2 requests, 2 timers, 1 key, 1 fault, 1 kill, both deployments | `PoolTypeOK`; **`OneGuest`**; **`WarmIsTimed`**; **`StopsClean`**; **`NeverYanked`**; **`LockReleased`**; **`IdleIsReaped`** |
| `cache` | 2 requests, 3 keys, 2 entries | **`HoldsMostRecent`**: exact LRU contents under racing misses, hits, evictions and `clear()` |
| `backend` | 2 requests, 2 timers, 2 keys, 1 entry, 1 kill | **`CacheIsRight`**: only right traces are kept; **`OwnOutput`**; **`AnswersAreRight`**: `Backend` implements `TraceOracle` |
| `session` | 2 codes (one with traces of 4 steps and of 1), 3 lines, 2 requests in flight | **`TraceIsOfShownCode`**; **`LoadingHasRequest`**; **`PlayerHasPoint`**, **`ErrorHasNoTrace`**, **`PopupHasTrace`** while no two requests were in flight together; **`NextStopsAtHits`**: breakpoints are not jumped over; **`WaitEnds`** (liveness) |
| `views`, calls | 2 functions, 8 points, 3 frames, 2 addresses per depth | **`TreeIsTruth`**: one node per call, under its caller, with its entry, exit and result; **`ArgumentsAreOwn`**; **`CurrentIsShown`**; **`NoOverlap`** |
| `views`, dp | 2 cells, 2 values, 8 points, 3 frames, a program of 5 lines; the driver starts at cell 0 | **`WritesAreReal`**: writes are recorded where they ran and nowhere else; **`NeverLies`**: a recurrence has its own evidence; **`OperandsAreRead`** |
| `views`, linked | 1 to 3 pointer members (or an array of them), 4, 3 or 2 nodes, 5 statements | **`DrawnOnce`**; **`ConfirmedIsClean`**: the code's linear check agrees with the definition of chain and forest; **`TrailIsTrue`** |
| `views`, graph | 3 nodes, up to 3 of the 6 edges, a 2x3 grid | **`SceneIsGraph`**: the drawn edges are the program's; **`MarksAreTrue`**: visited, order, frontier, current path and distances are those of the walk |
| `views`, memory | 23 types of containers and arrays, up to 4 elements, 4 statements | **`ViewIsTruth`**: values, the rest of the heap, and links; **`DiffIsTrue`**: exactly the changed places are flagged, though a step may move every element |
| `service_stale_watch`, `service_unwatched`, `service_two_windows`, `pool_reap`, `shapes_cycle` | as small as shows it | one violated claim each, see section 6 |

### Bounds, and why they are enough

* `Task` and `MaxStarts`: two starts, since the hazards are those of one start that
  supersedes another, and a third call that overtakes both (a watch loop, a stop, an
  adoption). Once there are no starts left, an idle call can only stop or watch, so a
  state that is reached after more starts differs from these in its generation only.
  `EnsureReady` counts the calls that still await `dockerProblem()` towards `MaxStarts`,
  so that two calls can be there at once, but no start beyond the bound gets going.
* `Port`: a port that a running container listens on is not handed out, so replacing a
  running container takes a second port; `service_one_window`, `service_stale_watch` and
  `service_two_windows` have two. With a third there is still one that is taken and one
  that is not. `service_liveness` and `service_unwatched` have one, for size: there a start
  beside a running container finds no port, and what is left is a start that is refused
  its port or loses it in a race, and a container that goes away. The theorems hold for
  every `Port`.
* `MaxDaemonStops` is 1 where it matters: stopped for good is the worst a daemon can do
  to a boot, and it is allowed to come back.
* `Worker`, `Timer`: a request that holds the lock and one that waits; a timer that has
  fired and one that replaces it. `SpareTimer` stops a request from starting while
  both timers are under way. This bound lets a request wait where the code would not,
  which the theorems of section 4 make up for: they hold for every `Timer`.
* `MaxFaults`, `MaxKills`: one failure of docker and one kill, to see the lock and the
  types survive them. In `backend` there are no faults, for size.
* `MaxEntries` is smaller than the number of keys, so that evictions happen.
* Session: two requests in flight are what it takes for one answer to overtake another,
  or for a request to be superseded; a third only repeats this. The traces differ in
  length, so that a position may be stale, and a line occurs twice, for breakpoints.
* Calls, dp: within 8 points a stack can rise to 3 frames and fall again, so that a
  function is called twice from one frame, recursively and mutually, at an address used
  before, and the point after each return is seen. A table of 2 cells suffices for a
  write to differ from its operands; a second value, for a rewrite to be without effect.
  A driver with the table in its frame starts at its brace, one with a global table on
  a line, and each counts up from cell 0 (`ViewsInit`): the points are used on calls
  and writes. The theorems of `DpTableProofs` hold for every beginning.
* Linked: with 4 nodes of one pointer two chains can meet or loop; a node of a tree
  with two children, a cousin or a parent of its own needs 3; tries need only the
  handling of the array. 5 statements build any of these and free or re-link a node.
* Graph: 3 nodes and 3 edges give every direction and weight a pair can have, an
  isolated node, a triangle; the walks visit all nodes. A grid of 2x3 is not square.
* Memory: 4 elements fill two chunks of a deque and make a vector reallocate;
  trees have three nodes, so that both children and a rotation of the root occur. The
  words of a `vector<bool>` have 2 bits, so that 4 elements fill two; fixed arrays have 2
  elements.
  `WALK_CAP` of `nodeChain.ts` is not reached.
* Symmetry is used where a run has no liveness property.

`CHECK_DEADLOCK FALSE` in the service runs: a closed window ends its host, and all
windows may be closed. The pool can always be asked for something, and deadlock is
checked. It is not in `session` (a page that has been unmounted stops), nor in the runs of the
views (programs end, and traces are bounded).

The type invariants `TypeOK` of `AppSession` and `Backend` and `CacheTypeOK` of
`TraceCache` are in no run, as the inductive invariants that hold them are proved
(section 4); TLC found `CacheInv`, `BackendInv` and `SessionInv` true of the instances of
the runs `cache`, `backend` and `session` before they were proved, and `TreeInv`,
`ArgumentInv`, `LayoutInv`, `DpInv`, `EvidenceInv` and `OperandInv` of the calls and dp instances of
`views`, and likewise `ShapeTypeOK`, `TrailInv` and `GroupedOnce` of its linked and
`GraphTypeOK` of its graph instance. The memory program alone has no type invariant: a value
of the wrong kind would show at once as a difference between view and truth.

### Fairness

All of it is weak. In `FairSpec`, a docker command or probe ends and the event loop
resumes a call that can go on; the clock of `waitForHealth()` runs. That a command ends
is assumed of docker's CLI, which fails when the daemon is down; nothing obliges the
user to act, or a stopped daemon to start again. In `FairPoolSpec` threads run, timers fire, docker commands answer (an
exec by its timeout). The *lock* is not assumed fair: each waiting thread has weak
fairness only, so one may wait for ever while others keep taking it, and no property
says otherwise. No client is obliged to send anything, so `IdleIsReaped` speaks of
behaviours in which requests stop.
In `LiveSpec` of `AppSession` each request in flight is answered: the server bounds a
run (`TracerPool`'s timeouts) and answers failures too. The user owes nothing.

## 4. Proved with TLAPS

`TracerServiceProofs`, for any windows, calls, ports, starts and daemon stops:

* `Inductive`: `Spec => []IInv`. Neither `BusyIsDriven` nor `ReadyIsAttended` is
  inductive: a start that gives up must be known to be of the current generation or
  not (`GenerationsDiffer`, `GenerationKnown`), windows not open must have no calls
  (`ClosedIsBlank`), and `AdoptedIsNotOwned` needs that a successful `docker run`
  replaced what was found (`RunIsFresh`).
* `TypeCorrect`, `NeverWedged`, `AlwaysAttended`, `OneStartPerGeneration`,
  `AdoptedSurvivesDeactivate`: its conjuncts.
* `StaleStartsStop`: the action property `StaleStartStops`.

The proof first shows that the segments fall into four shapes (`BootShape`,
`SideShape`, `KillShape`, `QuietShape`: which fields they may touch, where they may
lead), then that each shape preserves the invariant.

`BackendProofs`, in its first part, for the cache: any threads, keys and `MaxEntries`:

* `CacheInductive`: `CacheSpec => []CacheInv`. `HoldsMostRecent` alone is not inductive
  only because nothing in it says that what is stored is a trace, and of which key
  (`InHand`). The work is in the operators: the entries under a key taken out of the
  cache, and the key out of `recent`, leave the two aligned (`WithoutAligned`); so does
  the append and eviction of a store (`StoredAligned`), also when the thread finds that
  another stored the same key meanwhile.
* `CacheTypeCorrect`, `CacheHoldsMostRecent`: its conjuncts.

in its second, for the pool: any requests, timers, sources, faults and kills:

* `PoolInductive`: `PoolSpec => []PoolInv`. `OneGuest` and `OwnOutput` rest on
  `GuestIsHolders`: while calm, a guest belongs to the request that holds the lock,
  runs its source, and once it has written the scratch file that file is this source;
  a timed-out guest is there only until its request has removed it, with the lock
  still held. `WarmIsTimed` rests on `LinkIsArmed`: a timer that was started but is
  not yet `_reap_timer` cannot be cancelled by anybody. `HolderInside` ties the lock to
  the places inside the `with` block.
* `PoolTypeCorrect`, `OneTracerAtATime`, `OutputIsOwn`, `ContainerIsTimed`,
  `ShutdownIsClean`: its conjuncts.
* `ExecNeverYanked`: the action property `NeverYanked`.

and in its third, for the cache and the pool under the request handler:

* `BackendInductive`: `Spec => []BackendInv`. `CacheIsRight` needs that a result on its
  way to the cache is that of its request (`CarriesOwn`), which needs that the thread in
  the pool serves the request that the handler holds (`CallIsTraced`) and `OwnOutput` of
  the pool; that `shutdown_pool()` has no request left to serve is `RestsWhenStopped`.
  The steps of the cache are taken from the first part and those of the pool
  from the second; what is new is that each leaves the other's part alone.
* `BackendTypeCorrect`, `CacheStaysRight`, `BackendOutputIsOwn`, `BackendHoldsMostRecent`.
* `BackendImplementsOracle`: `Spec => AnswersAreRight`, the refinement of `TraceOracle`
  under the mapping of `Backend`. A request that arrives is an `Ask`; a cache hit, a store
  and a failure of the tracer are an `Answer`, right by `CacheIsRight` and
  `CarriesOwn`; the reply is `Done`; the death of the process is `Dropped`; the first
  docker fault is `Disturbed`; every other step, all of the pool's included, is a stutter.

`AppSessionProofs`, for any programs, traces, lines and number of requests:

* `SessionInductive`: `Spec => []SessionInv`. `TraceIsOfShownCode` speaks of the trace that
  is shown, so the invariant has to say which requests in flight may still deliver one
  (`AsksForShownCode`); `PlayerHasPoint`, `ErrorHasNoTrace` and `PopupHasTrace` hold while no
  two requests were in flight together, and `WaitsForOne` says what such a page looks
  like while it waits.
* `SessionTypeCorrect`, `ShownCodeIsTraced`, `WaitHasRequest`, `PlayerStaysOnTrace`,
  `ErrorExcludesTrace`, `PopupBelongsToTrace`: its conjuncts.
* `NextFindsTheHit`: the action property `NextStopsAtHits`. That a search for the
  nearest hit ends at one is `LeastNatural` (every set of naturals that is not empty has a least
  element), got from the well-foundedness of `<`, which takes no operator as parameter.

`CallTreeProofs`, for any functions, addresses, traces and depths:

* `TreeInductive`: `Spec => []TreeInv`. `TreeIsTruth` compares the tree with the calls that
  were made. To be inductive it needs to know what `buildCallTree` holds to be live
  (`LiveIsStack`): the frames of the stack with their present addresses, and for one
  point more the frame that has returned; what the stack has to do with the calls
  (`StackIsCalls`), and that calls nest (`CallsNest`). `FeedProperties` says what one pass
  of the loop does; `StackIsKept` and `LagIsKept` are the heart of it: whichever oddity the
  tracer shows (an address that settles, one used before, a frame named after its
  callee), the frames that are kept are those of the stack. `Ancestors` is a recursive
  function; `UpIsDefined` and `UpIsKept` get by without induction by taking the least
  call at which a claim fails.
* `TreeIsOfCalls`: `TreeIsTruth`. `RunningIsSeen`: `CurrentIsShown`, as the live nodes form
  one chain, of which the last has no live child and the others do.
* `ArgumentsInductive`: `Spec => []ArgumentInv`. The panel takes the first point between the
  entry of a call and its return, or its first callee, at which a frame in its place and
  with its name holds an argument. That this is the argument of the call itself needs two
  facts about the points recorded so far: a frame that shows the argument of a call is in
  that call's place and of its time (`FramesAreOwn`), and a frame in its place, of its
  time and with its name shows no other (`ArgumentsHold`); and, for the bound at the first
  callee, that a caller has its argument when it calls (`CallersAreSet`). `Depth` is a
  recursive function, treated as `Ancestors` is (`DeepIsDefined`, `DeepOfChain`).
* `ArgumentsAreTheCalls`: `ArgumentsAreOwn`, from both invariants.
* `LayoutInductive`: `Spec => []LayoutInv`. `layoutTree` keeps siblings apart; that it keeps
  all the calls of one depth apart needs the order of the calls: of two of one depth the
  later has the later caller, or the same (`CallersInOrder`), since a frame of the stack is
  of the last call of its depth (`StackIsLast`).
* `BoxesKeepApart`: `NoOverlap`, for any natural widths and gap. Sums and the three
  recursive functions of the layout are treated as `Ancestors` is, with the greatest
  failing call where callees come first (`TotalOfEarlier`, `BandsHold`, `LayoutHolds`);
  `BandsKeepApart` goes up from two calls to the callers at which they part. The code halves
  in floating point and the model with `\div`; as the clamping decides, rounding the middle
  changes nothing, and widths counted in half pixels make the other halves exact.

`DpTableProofs`, for any program of the statement forms, table and values:

* `DpInductive`: `Spec => []DpInv`. A write is where a value differs from the last one
  seen, and the table may be out of sight at the point after a return; `LastSeen` says
  that what was last seen is what the cell holds. `MainIsBelow` (the outermost frame is
  never popped) says when it is out of sight.
* `WritesAreAssignments`: `WritesAreReal`.
* `EvidenceInductive`: `Spec => []EvidenceInv`. `selfRefBeforeWrite` believes a control
  line seen earlier under the key of the frame that wrote, if that key has been in every
  point since. `WitnessesRun` says why it may: a frame that has stayed in sight since it
  was about to run such a line has run it, or is about to. Keys tell frames apart
  (`PointIsTop`), except that `Main`, at the point after `Solve` has returned to it, is
  shown as a frame of `Solve`; `Misnamed` and `SolveIsAbove` say that this is no key of
  another frame and is not shown twice in a row.
* `RecurrencesAreReal`: `NeverLies`, from both invariants. That the depths of a
  candidate are one number, when there is one of them, rests on the finiteness of a trace.
* `OperandInductive`: `DpSpec => []OperandInv`. The view reads a write's operands off the
  point before it, after the fact: `LocalsAreShown` says that this point shows the locals of
  the frame that runs, if it bears its name, and `FramesAreAtLines` that a frame stands at
  a line of its function, so that the name can be told from the text.
* `ArrowsAreReads`: `OperandsAreRead`. `RemoveFirstRange` says what the removal of one
  occurrence leaves, `WinnerIs` that the first of the best exists and is the value
  written (a least index, by `LeastNatural`). It is proved of programs whose statements
  read their own target at most once (`TextIsPlain`), and is false of others:
  `RightHand` takes the target out of the subscripts once (`isAssignmentLhs`,
  `readSet.ts`), and the view one more, so that a line that reads its own target twice
  is left with an arrow to itself.

`ShapesProofs`, for any `Nodes`, members, linking and number of statements:

* `ShapeInductive`: `ShapeSpec => [](ShapeTypeOK /\ TrailInv)`. The view folds over the
  points of the trace; `stood` is that fold, and `TrailInv` ties it to the ghosts: a node
  has been stood at, or its address was used before (`been`, `reused`).
* `TrailFollows`: `TrailIsTrue`.
* `ConfirmationIsExact`: `ConfirmedIsClean`. The code confirms a list by looking at the last
  node of each chain, and a tree by counting edges into a node and asking whether every
  node ends up in a group; the definition speaks of reachability. What a walk keeps is
  `WalkInv` (`SkipKeeps`, `VisitKeeps`); that it ends is a count of turns, each paid by a
  member of a node it has seen (`PreOrderIs`: what is reached, each node once). Groups are
  made from one start after another (`GroupsInv`): together the earlier ones hold just what
  the earlier starts reach. A forest follows from `GroupsReach` and `OneInto`
  (`ForestIsExact`). A list has one linking member, so that no node has two successors;
  `ApartIfEndsWithin` and `EndsWithinIfApart` are the two directions, and
  `CyclesAreApart` is for the starts that are no head: where each node has one successor and
  no two nodes share it, each node that has one is one, as an injection of a
  finite set into itself is onto.
* `NodesAreGroupedOnce`: `GroupedOnce`, the part of `DrawnOnce` that is not about placing: the
  groups take every live node exactly once, as the raw heap gives up all of them (`FlattenIs`,
  and `LengthOfInjective` for "exactly once").

`GraphProofs`, for any number of nodes, arcs and weights, number of edges, and size of the grid:

* `GraphTypeCorrect`: `GraphSpec => []GraphTypeOK`: no edge is there twice, no node is marked
  twice, and the distances stay below `INT_MAX`.
* `SceneCorrect`: `SceneIsGraph`. `MemoryHas` and `FoundIs` list what memory holds at each point
  of the program, container by container, and `ScenesAre` which of it is read as which form
  of graph: the code tells a matrix from a grid, and an adjacency list from a list of edges or
  of groups of nodes, by shape and content only, so that the containers of the walk (what is
  waiting, the marks, the distances) must be shown not to pass for the graph. What is then
  drawn is shown form by form (`AdjListDrawn`, `WeightedDrawn`, `EdgeListDrawn`,
  `MatrixDrawn`, `GridDrawn`); a matrix draws two arcs of one weight between
  two nodes as one edge without an arrow, and any others as arrows.
* `TraceFollows`: `GraphSpec => []GraphInductive`, the inductive invariant behind the marks,
  which are found in the trace and not in the present memory only. `TraceOrder`: the order that
  `bindOrder` builds over the points so far is the order of the walk, but for the node marked last,
  of which there may be no point yet; on a grid, the first point of the trace is the
  grid before the walk, with which the others are compared. `TraceDist`: `bindDist` follows the
  address at which the latest point recognised the distances (by an `INT_MAX` in them); every
  point that recognises any does so at their own address (`OnlyDistances`), and one has done so
  once the walk is under way (`KnownAtFirst`).
* `MarksCorrect`: `MarksAreTrue`, from `VisitedOfState`, `OrderOfState`, `FrontierOfState`,
  `CurrentOfState` and `DistOfState`.

`TraceOrder` and `TraceDist` speak of every scene, and of a numbering that exists, so that TLC
checks `MarksAreTrue` instead of them.

The folds and iterations of these operators are shown to be defined by `FoldExists` and
`IterationExists` of `CommonLemmas`, where a least failing index stands in for induction.

Assumptions: the distinctness of the special values (`NoTask`, `NoPort`, `Nobody`,
`Garbled`, `None`, ...), `WindowOf \in [Task -> Window]`, that traces have at least one
step, and that the bounds are naturals; for the views `NamesDiffer` and `ValuesDiffer`,
by which a trace tells its marks and its garbage from its values, for `BoxesKeepApart`
`SizesAreNatural`, and for `ArrowsAreReads` `TextIsPlain`: the form of a program's text, and
the one limit just said. `MCViews` assumes all four, so that TLC evaluates them.
`ShapesProofs` needs only `NodesAssumption`: `Nodes` is a sequence of at least two naturals;
`GraphProofs` only `GraphAssumption`: sizes are positive, there are at most `Inf` nodes
(`INT_MAX` in the code), no arc leads from a node to itself, weights are from 1 to `Inf - 1`,
and `Nil` is no node or cell. `MCViews` extends both modules.

## 5. Model-checked only

* `BusyEnds`, `DeathSurfaces`, `LockReleased`, `IdleIsReaped`, `WaitEnds`: liveness
  under fairness is out of the prover's reach.
* What `DrawnOnce` says of the placing of linked structures, `ViewIsTruth` and `DiffIsTrue`:
  `ShapeLayout`, `Memory` and `StdContainers` use `RECURSIVE` operators, as trees, types and
  cells nest, and about these the prover can show nothing (the recursive functions of
  `CallTree` are on numbered calls, so that a least or greatest call at which a claim fails
  stands in for induction). For these the bounds of section 3 stand.

## 6. Where the code and its comments disagree

Each of these is a run that TLC must find violated.

* `shapes_cycle` (`shapeLayout.ts:77`): a type stays confirmed as a tree for the whole
  trace once its nodes formed one at some point. When the program then closes a cycle
  (`a->next = b; b->next = a` for a type with two pointers), its nodes are handed
  to `place()`, which recurses without end; `shapes.ts:364` says of such nodes
  "leftover = cycle component; still shown".
* `service_stale_watch` (`service.ts:221`): a watch loop whose probe has failed awaits
  `docker logs` and `docker rm -f` without looking at the generation again; a start
  that came in between loses its container and has its state set to error, which
  lines 205-207 rule out.
* `service_unwatched` (`service.ts:189`): Cancel is clicked while a start is busy, and its
  message arrives when the last probe has just made the service ready. The flag ends
  the watch loop; the service stays ready, and that its container is gone goes
  unnoticed, against lines 193-196. The property speaks of a container that is owned,
  booted by this window and not given up by `stop()`; for others see below.
* `service_two_windows` (`service.ts:147`): `_owned` stays true when another window
  has replaced the container, against lines 57-58; closing the first window then
  removes the other's container.
* `pool_reap` (`tracer_service.py:76`): a timer fires and drops its reference, but a
  second request gets the lock before it. The request is served by the warm container
  and arms a timer of its own; then the first timer gets the lock and removes the
  container, just used and with its new timer running, against lines 30-32. The next
  request starts cold; nothing is lost, which `NeverYanked` and `IdleIsReaped` show.
  The run is of `PromptSpec`, the behaviours in which no timer fires between `t.start()`
  and `_reap_timer = t`, 35 minutes being long; `pool` has the others too.

### Seen while modelling, without a run

These concern inputs that the models leave out (and say so), or text.

* *Service.* `adopt()` checks the generation after its `docker inspect`, but `stop()` does
  not raise it (`service.ts:178-185, 255-263`). If `stop()` removes the container between the
  inspection and its continuation, `adopt()` turns the stopped service ready, with
  `cancelled` still set: its watch loop ends at once, and the sidebar shows a container that
  is gone. `ReadyIsAttended` and `DeathSurfaces` leave a cancelled service aside, for
  this and for the late cancel.
* *Session.* A hand-off changes `code` but not the text of the mounted editor
  (`App.tsx:273`, `CodePanel.tsx:195`); the model keeps `editor` apart for this. When two
  requests overlap, an answer that comes second may be shown with the step, error or popup
  of the first: hence `crossed` in three properties. A step past the end of a shorter trace
  of the same code unmounts the page (`App.tsx:317`).
* *Decoders* (`stl/registry.ts`, `nodeChain.ts:222,247,274,296`). The expressions that
  recognise a type are not anchored: `vector<set<int>>`, `vector<list<int>>` or
  `map<int, unordered_map<..>>` is claimed by the inner decoder and shown empty; a
  `vector<unique_ptr<T>>` is taken for a `unique_ptr`. A member is searched by name from
  the object itself down, so that nested pairs, or a variable called `first` or `c`,
  find the wrong cell. A third level of nesting shows raw elements, as
  `heapByAddress` is re-pointed after the heap has been resolved, against
  `memoryModel.ts:360-364`. Deque and hash decoders consume heap blocks before giving
  up on a damaged container, which drops them from the view. A `vector<bool>` that has
  been emptied leaves its block of words in the Heap section (`contiguous.ts:243`), where
  an emptied `vector<int>` does not (`Held` allows for it).
* *Graphs* (`graphModel.ts`). `looksLikeGrid` (340-354) draws an adjacency list of up to
  three nodes with rows of one length (a triangle) as a grid in the automatic view
  (excluded by `LooksLikeTable`; the "graph" view is right). `hasGraphContent`, which
  asks whether a scene would be produced (482), is false for some weighted lists that
  are drawn. `bindDist` may follow the remembered address into another
  function's vector once the frame is gone; `DistAlive` says when it may not. A grid
  filled after its construction shows the filled cells as visited.
* *Backend tests* expect `--memory=2g` and a local timeout of 120 s
  (`backend/tests/test_tracer_service.py:113,161`), where the code has `4g` and 240 s;
  `local_tracer.py:17` places its CPU limit "below the 120s wrapper timeout".

## 7. Not modelled, and why

* Pull progress, the hand-off URL and the nonce of the extension (text); the models of
  a trace's JSON (declarative); React components (no state beyond the session's); the
  tracer image (patches to Valgrind and a submodule that is not in the tree); install and
  build scripts (straight-line).
* UB diagnosis: a table from the text of an error to an explanation, stateless.
* Of the memory view: `bitset`, `tuple`, `shared_ptr`, `weak_ptr`, `priority_queue`,
  globals, formatting. Their
  decoders follow the schemes of those modelled.
* Of the DP tables: how subscripts are read out of the source text (`DpTable` is given
  what the reading yields), and the table's layout.
* Of the linked structures: `treeScene.ts` beyond the trail and the pointers; of the
  graphs: the flash of a changed cell, grids of characters, the words by
  which `detect.ts` opens the tab, and `graphLayout.ts`. The frames of the modelled walks
  call their node `u` or `n` and their cell `r`, `c`; the other names that `frameNodeId`
  knows (`graphModel.ts:228-235`), and the first integer of a frame that has none of them,
  do not occur.
* Of the call tree: the text of log and inspector. A call has one argument, so that the
  names that are snapshotted at a push (`callTree.ts:164-169,205-208`), which keep a local
  declared later out of the label, have no counterpart. Functions are told apart by
  name: `baseName` (106) cuts the parameters off, so that a call of one overload by another
  is announced as a recursion, and no program of the model has overloads.

## 8. Plan

The order is that of the interactions: what several actors touch came first.

1. Done: `TracerService` over `Docker`; `TracerPool`; `TraceCache`; `Backend` against
   `TraceOracle`; `AppSession`; the five views.
2. Done: the proofs of section 4.
3. Models to come: the overlays of `treeScene.ts`; the decoders of section 7; the
   placement of graphs.

## 9. Running it

    tlc -workers 2 -config ServiceOneWindow.cfg MCTracerService
    tlc -workers 2 -config ServiceLiveness.cfg MCTracerService
    tlc -workers 2 -config Pool.cfg MCTracerPool
    tlc -workers 2 -config Cache.cfg TraceCache
    tlc -workers 2 -config Backend.cfg MCBackend
    tlc -workers 2 -config Session.cfg MCAppSession
    tlc -workers 2 -config Views.cfg MCViews
    tlapm TracerServiceProofs.tla
    tlapm BackendProofs.tla
    tlapm AppSessionProofs.tla
    tlapm CallTreeProofs.tla
    tlapm DpTableProofs.tla
    tlapm ShapesProofs.tla
    tlapm GraphProofs.tla
    tlapm CommonLemmas.tla

and, each with the violation of section 6: `ServiceStaleWatch.cfg`, `ServiceUnwatched.cfg`,
`ServiceTwoWindows.cfg` (module `MCTracerService`), `PoolReap.cfg` (`MCTracerPool`),
`ViewsCycle.cfg` (`MCViews`).
