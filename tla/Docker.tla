------------------------------- MODULE Docker -------------------------------
(***************************************************************************)
(* The Docker daemon as the extension sees it: one image, and one name     *)
(* (CONTAINER in extension/src/service.ts) under which at most one         *)
(* container exists at a time.  Docker is not part of this repository; the *)
(* module says only what the commands issued by service.ts rely on.        *)
(*                                                                         *)
(* A command is a request to the daemon: its effect happens some time      *)
(* after the process that issued it started to wait, and the process sees  *)
(* the reply some time after the effect.                                   *)
(***************************************************************************)
EXTENDS Naturals

CONSTANTS
    Window,          \* VS Code windows: each runs its own extension host
    Earlier,         \* extension hosts of the past, which have since ended
    Port,            \* loopback ports the OS may hand out
    NoContainer,     \* nothing holds the container name
    MaxDaemonStops   \* bound: how often the daemon may be stopped

ASSUME WindowAssumption == Earlier \notin Window
ASSUME NoContainerAssumption ==
    NoContainer \notin [by : Window \cup {Earlier}, port : Port,
                        up : BOOLEAN, serving : BOOLEAN]

VARIABLES
    container,       \* what holds the shared name
    daemonUp,        \* does the daemon answer?
    imageCached,     \* is the image in the local cache?
    daemonStops      \* history: daemon stops so far

dockerVars == <<container, daemonUp, imageCached, daemonStops>>

\* by: the window whose `docker run` created it; up: its process runs;
\* serving: the backend inside answers /api/health.
Container == [by : Window \cup {Earlier}, port : Port, up : BOOLEAN, serving : BOOLEAN]

DockerTypeOK ==
    /\ container \in Container \cup {NoContainer}
    /\ daemonUp \in BOOLEAN
    /\ imageCached \in BOOLEAN
    /\ daemonStops \in Nat

\* An earlier session or a crashed one may have left a container behind.
DockerInit ==
    /\ daemonUp = TRUE
    /\ daemonStops = 0
    /\ \/ container = NoContainer /\ imageCached \in BOOLEAN
       \/ /\ \E p \in Port, alive \in BOOLEAN :
               container = [by |-> Earlier, port |-> p, up |-> alive, serving |-> alive]
          /\ imageCached = TRUE

Running == container # NoContainer /\ container.up

-----------------------------------------------------------------------------
(* Effects of commands, conjoined by the caller with its own bookkeeping.  *)

\* `docker rm -f`: whatever holds the name goes, whoever created it.
RemoveEffect ==
    /\ container' = IF daemonUp THEN NoContainer ELSE container
    /\ UNCHANGED <<daemonUp, imageCached, daemonStops>>

\* `docker run -d --name`: succeeds only if the name is free.
RunEffect(w, p) ==
    /\ daemonUp
    /\ imageCached
    /\ container = NoContainer
    /\ container' = [by |-> w, port |-> p, up |-> TRUE, serving |-> FALSE]
    /\ UNCHANGED <<daemonUp, imageCached, daemonStops>>

\* A failed `docker run` may leave a created container that never started
\* (the port was taken), which holds the name all the same.
RunFailure(w, p) ==
    /\ \/ UNCHANGED container
       \/ /\ daemonUp
          /\ container = NoContainer
          /\ container' = [by |-> w, port |-> p, up |-> FALSE, serving |-> FALSE]
    /\ UNCHANGED <<daemonUp, imageCached, daemonStops>>

\* `docker pull` that downloaded the image.
PullEffect ==
    /\ daemonUp
    /\ imageCached' = TRUE
    /\ UNCHANGED <<container, daemonUp, daemonStops>>

-----------------------------------------------------------------------------
(* What the daemon and the container do by themselves.                     *)

BackendServes ==
    /\ Running
    /\ ~container.serving
    /\ container' = [container EXCEPT !.serving = TRUE]
    /\ UNCHANGED <<daemonUp, imageCached, daemonStops>>

\* An OOM kill or a crash: the container exits but keeps its name.
ContainerDies ==
    /\ Running
    /\ container' = [container EXCEPT !.up = FALSE, !.serving = FALSE]
    /\ UNCHANGED <<daemonUp, imageCached, daemonStops>>

\* Stopping the daemon stops the container with it.
DaemonStops ==
    /\ daemonUp
    /\ daemonStops < MaxDaemonStops
    /\ daemonUp' = FALSE
    /\ daemonStops' = daemonStops + 1
    /\ container' = IF Running
                    THEN [container EXCEPT !.up = FALSE, !.serving = FALSE]
                    ELSE container
    /\ UNCHANGED imageCached

DaemonStarts ==
    /\ ~daemonUp
    /\ daemonUp' = TRUE
    /\ UNCHANGED <<container, imageCached, daemonStops>>

DockerEnvironment ==
    BackendServes \/ ContainerDies \/ DaemonStops \/ DaemonStarts

=============================================================================
