----------------------------- MODULE TraceRequests -----------------------------
(***************************************************************************)
(* What a request to the backend carries and what may come out of it: the  *)
(* vocabulary that the cache and the tracer pool share.                    *)
(***************************************************************************)

CONSTANTS
    Worker,      \* threads that serve requests
    Key,         \* (code, lang) of a request; it also names that code's trace
    Garbled,     \* output that is not the JSON of a trace: TracerError
    TimedOut,    \* subprocess.TimeoutExpired: TracerTimeout
    Nobody       \* no thread, no key, no output

Failure == {Garbled, TimedOut}
Output == Key \cup Failure

ASSUME RequestAssumption ==
    /\ Nobody \notin Worker \cup Output
    /\ Failure \cap Key = {}
    /\ Garbled # TimedOut

=============================================================================
