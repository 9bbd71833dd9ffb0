----------------------------- MODULE AppSession -----------------------------
(***************************************************************************)
(* One page of the visualizer: App.tsx with its trace player, the timeline *)
(* buttons, the keyboard shortcuts, the code editor and the hand-off that  *)
(* the VSCode extension delivers through the URL hash.                     *)
(*                                                                         *)
(* Requests to /api/trace are neither numbered nor aborted: Stop, a second *)
(* hand-off or an edit leaves them in flight, and each answer is applied   *)
(* to whatever the page shows when it arrives.                             *)
(***************************************************************************)
EXTENDS Integers, Sequences, FiniteSets

CONSTANTS
    Code,       \* programs: what the editor may hold
    Line,       \* line numbers
    Runs,       \* Runs[c]: the lines of the steps of each trace c may have
    Slot,       \* requests in flight at once (a bound; the code has none)
    None

Sent == [code : Code, overtaken : BOOLEAN]
Traced == [code : Code, lines : Seq(Line), overtaken : BOOLEAN]

ASSUME AppAssumption ==
    /\ \A c \in Code : Runs[c] \subseteq Seq(Line) \ {<<>>}
    /\ None \notin Sent \cup Traced

VARIABLES
    code,          \* the program the page believes it has
    editor,        \* the text the mounted editor really displays
    trace,         \* None, or the trace being viewed
    err,           \* the banner's error, with the marked line
    loading,       \* a run is believed to be in flight
    breakpoints,
    heap,          \* a heap cell's popup is open
    help,          \* the cheat sheet is open
    player,        \* Workspace state: step index, tab, whether the tree was seen
    blank,         \* rendering threw: React has unmounted the page
    inflight,      \* Slot -> the request it holds, or None
    crossed        \* ghost: the last run was asked for with another in flight

vars == <<code, editor, trace, err, loading, breakpoints, heap, help,
          player, blank, inflight, crossed>>
shown == <<breakpoints, heap, help, player>>

Tab == {"memory", "tree", "graph"}
NoError == [set |-> FALSE, line |-> None]
NewPlayer == [index |-> 1, tab |-> "memory", treeSeen |-> FALSE]
Request(c) == [code |-> c, overtaken |-> FALSE]

Viewing == trace # None
Total == Len(trace.lines)
Free == {s \in Slot : inflight[s] = None}

(* A program that arrives, or an edit, overtakes every request in flight.  *)
Overtake(f) ==
    [s \in Slot |-> IF f[s] = None THEN None ELSE [f[s] EXCEPT !.overtaken = TRUE]]

(***************************************************************************)
(* The page loads, from the sample or from a hand-off; with run=1 it asks  *)
(* for the trace at once.                                                  *)
(***************************************************************************)
Init ==
    /\ code \in Code
    /\ editor = code
    /\ trace = None /\ err = NoError /\ blank = FALSE /\ crossed = FALSE
    /\ breakpoints = {} /\ heap = FALSE /\ help = FALSE
    /\ player = NewPlayer
    /\ \E run \in BOOLEAN, s \in Slot :
          /\ loading = run
          /\ inflight = [t \in Slot |-> IF run /\ t = s THEN Request(code) ELSE None]

-----------------------------------------------------------------------------
(* Mutant: the next run keeps the error.                                   *)
AskOverError(src, requests) ==
    /\ err' = err
    /\ heap' = FALSE /\ loading' = TRUE
    /\ crossed' = (\E s \in Slot : requests[s] # None)
    /\ \E s \in Free : inflight' = [requests EXCEPT ![s] = Request(src)]

(* visualize(src): nothing aborts or orders the requests already sent.     *)
Ask(src, requests) ==
    /\ err' = NoError
    /\ heap' = FALSE
    /\ loading' = TRUE
    /\ crossed' = (\E s \in Slot : requests[s] # None)
    /\ \E s \in Free : inflight' = [requests EXCEPT ![s] = Request(src)]

Visualize ==
    /\ ~Viewing /\ ~loading
    /\ Ask(code, inflight)
    /\ UNCHANGED <<code, editor, trace, breakpoints, help, player, blank>>

(* Mutant: Stop leaves the popup's cell set.                               *)
StopKeepsPopup ==
    /\ Viewing
    /\ trace' = None /\ err' = NoError /\ editor' = code
    /\ player' = NewPlayer
    /\ UNCHANGED <<code, loading, breakpoints, heap, help, blank, inflight, crossed>>

Stop ==
    /\ Viewing
    /\ trace' = None /\ err' = NoError /\ heap' = FALSE
    /\ editor' = code      \* the editing CodePanel mounts afresh
    /\ player' = NewPlayer
    /\ UNCHANGED <<code, loading, breakpoints, help, blank, inflight, crossed>>

(***************************************************************************)
(* setTrace(res).  The workspace is keyed by the traced source: a trace of *)
(* another program mounts a new one, a trace of the same program is put    *)
(* under the player that is there, wherever it stands.  A step past the    *)
(* end has no point, and reading its line throws in render.                *)
(***************************************************************************)
SetTrace(request, lines) ==
    LET kept == Viewing /\ trace.code = request.code
        now == IF kept THEN player ELSE NewPlayer
    IN  /\ trace' = [code |-> request.code, lines |-> lines,
                     overtaken |-> request.overtaken]
        /\ player' = now
        /\ blank' = (now.index > Len(lines))
        /\ editor' = IF kept THEN editor ELSE code
        /\ err' = err

LeaveTrace(error) ==
    /\ err' = error
    /\ trace' = None
    /\ player' = NewPlayer
    /\ editor' = IF Viewing THEN code ELSE editor
    /\ blank' = blank

(* Mutant: only a trace ends the wait.                                     *)
AnswerEarlyReturn(s) ==
    /\ inflight[s] # None
    /\ \/ /\ \E lines \in Runs[inflight[s].code] : SetTrace(inflight[s], lines)
          /\ loading' = FALSE
       \/ /\ \E line \in Line \cup {None} : LeaveTrace([set |-> TRUE, line |-> line])
          /\ loading' = loading
    /\ inflight' = [inflight EXCEPT ![s] = None]
    /\ UNCHANGED <<code, breakpoints, heap, help, crossed>>

(* A trace, a compile error with its line, or a failed request (a 503, a   *)
(* refused connection); the finally clause ends the wait in each case.     *)
Answer(s) ==
    /\ inflight[s] # None
    /\ \/ \E lines \in Runs[inflight[s].code] : SetTrace(inflight[s], lines)
       \/ \E line \in Line \cup {None} : LeaveTrace([set |-> TRUE, line |-> line])
    /\ loading' = FALSE
    /\ inflight' = [inflight EXCEPT ![s] = None]
    /\ UNCHANGED <<code, breakpoints, heap, help, crossed>>

(* Mutants: the hand-off traces what the page held when the listener was   *)
(* made; a plain hand-off drops the requests and leaves the wait.          *)
HandOffClosure(next, run) ==
    /\ code' = next
    /\ editor' = IF Viewing THEN next ELSE editor
    /\ trace' = None /\ err' = NoError /\ heap' = FALSE
    /\ player' = NewPlayer
    /\ IF run THEN Ask(code, Overtake(inflight))
              ELSE inflight' = Overtake(inflight) /\ UNCHANGED <<loading, crossed>>
    /\ UNCHANGED <<breakpoints, help, blank>>

HandOffAborts(next, run) ==
    /\ code' = next
    /\ editor' = IF Viewing THEN next ELSE editor
    /\ trace' = None /\ err' = NoError /\ heap' = FALSE
    /\ player' = NewPlayer
    /\ IF run THEN Ask(next, Overtake(inflight))
              ELSE inflight' = [s \in Slot |-> None] /\ UNCHANGED <<loading, crossed>>
    /\ UNCHANGED <<breakpoints, help, blank>>

(***************************************************************************)
(* The hash changes in a page that is already loaded.  A hash that does    *)
(* not decode is ignored, so the same hand-off can arrive again.  An       *)
(* editor that stays mounted keeps its document: CodePanel reads its       *)
(* value only when it mounts.                                              *)
(***************************************************************************)
HandOff(next, run) ==
    /\ code' = next
    /\ editor' = IF Viewing THEN next ELSE editor
    /\ trace' = None /\ err' = NoError /\ heap' = FALSE
    /\ player' = NewPlayer
    /\ IF run THEN Ask(next, Overtake(inflight))
              ELSE /\ inflight' = Overtake(inflight)
                   /\ UNCHANGED <<loading, crossed>>
    /\ UNCHANGED <<breakpoints, help, blank>>

(* Typing reports the whole document; it goes on while a run is awaited.   *)
Edit(text) ==
    /\ ~Viewing /\ text # editor
    /\ editor' = text /\ code' = text
    /\ inflight' = Overtake(inflight)
    /\ UNCHANGED <<trace, err, loading, blank, crossed, shown>>

-----------------------------------------------------------------------------
(* The workspace: player, timeline, breakpoints, tabs and popups.          *)

Clamp(i) == IF i < 1 THEN 1 ELSE IF i > Total THEN Total ELSE i

HitSteps == {i \in 1..Total : trace.lines[i] \in breakpoints}

(* Mutants: single-stepping runs off the end; it skips the very next hit.  *)
NextHitUnclamped ==
    LET ahead == {j \in HitSteps : j > player.index}
    IN  IF ahead = {} THEN player.index + 1
        ELSE CHOOSE j \in ahead : \A k \in ahead : j <= k

NextHitSkips ==
    LET ahead == {j \in HitSteps : j > player.index + 1}
    IN  IF ahead = {} THEN Clamp(player.index + 1)
        ELSE CHOOSE j \in ahead : \A k \in ahead : j <= k

NextHit ==
    LET ahead == {j \in HitSteps : j > player.index}
    IN  IF ahead = {} THEN Clamp(player.index + 1)
        ELSE CHOOSE j \in ahead : \A k \in ahead : j <= k

GoTo(i) ==
    /\ Viewing
    /\ player' = [player EXCEPT !.index = i]
    /\ UNCHANGED <<code, editor, trace, err, loading, breakpoints, heap, help,
                   blank, inflight, crossed>>

ToFirst == GoTo(1)
ToLast == GoTo(Total)
Prev == GoTo(Clamp(player.index - 1))
Next1 == GoTo(IF breakpoints = {} THEN Clamp(player.index + 1) ELSE NextHit)

DeadBreakpoints == breakpoints \ {trace.lines[i] : i \in 1..Total}

Popups(h, p, b) ==
    /\ heap' = h /\ help' = p /\ breakpoints' = b
    /\ UNCHANGED <<code, editor, trace, err, loading, player, blank, inflight,
                   crossed>>

ToggleBreakpoint(line) ==
    /\ Viewing
    /\ Popups(heap, help, IF line \in breakpoints THEN breakpoints \ {line}
                                                  ELSE breakpoints \cup {line})
ClearBreakpoints == Viewing /\ breakpoints # {} /\ Popups(heap, help, {})
OpenHeap == Viewing /\ player.tab = "memory" /\ Popups(TRUE, help, breakpoints)
CloseHeap == Popups(FALSE, help, breakpoints)
CloseHelp == Popups(heap, FALSE, breakpoints)
ToggleHelp == Popups(heap, ~help, breakpoints)

OpenTab(t) ==
    /\ Viewing
    /\ player' = [player EXCEPT !.tab = t,
                                !.treeSeen = player.treeSeen \/ t = "tree"]
    /\ UNCHANGED <<code, editor, trace, err, loading, breakpoints, heap, help,
                   blank, inflight, crossed>>
ToggleTree == OpenTab(IF player.tab = "memory" THEN "tree" ELSE "memory")

(***************************************************************************)
(* resolveShortcut: the action a chord stands for.  The palette is never   *)
(* open (App has none) and its action has no handler, so it does nothing.  *)
(***************************************************************************)
Chord == {"Escape", "Ctrl+Enter", "Cmd+K", "?", "ArrowLeft", "ArrowRight",
          "Home", "End", "t"}

Resolve(chord, inEditable) ==
    CASE chord = "Escape" ->
           IF help THEN "closeHelp" ELSE IF heap THEN "closeHeap"
           ELSE IF Viewing THEN "stop" ELSE "none"
      [] chord = "Ctrl+Enter" -> IF ~Viewing /\ ~loading THEN "visualize" ELSE "none"
      [] chord = "Cmd+K" -> "togglePalette"
      [] inEditable /\ chord \notin {"Escape", "Ctrl+Enter", "Cmd+K"} -> "none"
      [] chord = "?" /\ ~inEditable -> "toggleHelp"
      [] OTHER -> IF Viewing THEN chord ELSE "none"

Key(chord, inEditable) ==
    LET action == Resolve(chord, inEditable)
    IN  \/ action = "closeHelp" /\ CloseHelp
        \/ action = "closeHeap" /\ CloseHeap
        \/ action = "stop" /\ Stop
        \/ action = "visualize" /\ Visualize
        \/ action = "toggleHelp" /\ ToggleHelp
        \/ action = "ArrowLeft" /\ Prev
        \/ action = "ArrowRight" /\ Next1
        \/ action = "Home" /\ ToFirst
        \/ action = "End" /\ ToLast
        \/ action = "t" /\ ToggleTree

(* What the mouse reaches: the top bar, the timeline, the panels.          *)
Click ==
    \/ Visualize
    \/ Stop
    \/ Viewing /\ player.index > 1 /\ (ToFirst \/ Prev)
    \/ Viewing /\ player.index < Total /\ (Next1 \/ ToLast)
    \/ Viewing /\ \E i \in 1..Total : GoTo(i)
    \/ \E line \in Line : ToggleBreakpoint(line)
    \/ ClearBreakpoints
    \/ OpenHeap
    \/ \E t \in Tab : OpenTab(t)
    \/ heap /\ Viewing /\ CloseHeap
    \/ help /\ CloseHelp

Next ==
    /\ ~blank
    /\ \/ Click
       \/ \E chord \in Chord, inEditable \in BOOLEAN : Key(chord, inEditable)
       \/ \E text \in Code : Edit(text)
       \/ \E next \in Code, run \in BOOLEAN : HandOff(next, run)
       \/ \E s \in Slot : Answer(s)

(* The server bounds a run, so a request in flight is answered in the end. *)
Spec == Init /\ [][Next]_vars
LiveSpec == Spec /\ \A s \in Slot : WF_vars(~blank /\ Answer(s))

-----------------------------------------------------------------------------
(***************************************************************************)
(* Properties.                                                             *)
(***************************************************************************)

(* Every variable keeps to its kind; an error is never shown half-set.     *)
TypeOK ==
    /\ code \in Code /\ editor \in Code
    /\ trace \in Traced \cup {None} /\ (Viewing => trace.lines \in Runs[trace.code])
    /\ err \in [set : BOOLEAN, line : Line \cup {None}]
    /\ ~err.set => err = NoError
    /\ loading \in BOOLEAN /\ heap \in BOOLEAN /\ help \in BOOLEAN
    /\ blank \in BOOLEAN /\ crossed \in BOOLEAN
    /\ breakpoints \subseteq Line
    /\ player \in [index : Nat \ {0}, tab : Tab, treeSeen : BOOLEAN]
    /\ inflight \in [Slot -> Sent \cup {None}]

(* The code panel beside a trace shows the program that was traced, unless *)
(* the user typed or a hand-off arrived while the run was awaited: a       *)
(* hand-off traces what it delivers, never what the page held before       *)
(* (the comment on visualize, App.tsx:228-230).                            *)
TraceIsOfShownCode ==
    Viewing /\ ~trace.overtaken => trace.code = code /\ editor = code

(* The page never claims to be waiting for a run that is not in flight: a  *)
(* Visualize button that stays disabled could not be pressed again.        *)
LoadingHasRequest == loading => \E s \in Slot : inflight[s] # None

(* The player stands on a step of the trace it plays, and the page is not  *)
(* unmounted by a render that reads past it, as long as no two requests    *)
(* were in flight together (App.tsx:316-317, usePlayer.ts:38).             *)
PlayerHasPoint == ~crossed => ~blank /\ (Viewing => player.index <= Total)

(* An error banner is never left above a trace, nor a heap popup (which    *)
(* would swallow the next Escape) left without one, as long as no two      *)
(* requests were in flight together.                                       *)
ErrorHasNoTrace == ~crossed => ~(Viewing /\ err.set)
PopupHasTrace == ~crossed => (heap => Viewing)

(* With breakpoints set, Next jumps past none of the steps that the        *)
(* timeline marks as hits, and where it jumps it lands on one of them.     *)
NextStopsAtHits ==
    [][ Next1 /\ breakpoints # {} =>
          /\ \A j \in player.index + 1 .. player'.index - 1 : j \notin HitSteps
          /\ player'.index > player.index + 1 => player'.index \in HitSteps ]_vars

(* A wait for a trace ends: however many hand-offs and stops cross it, the *)
(* page comes back to where a run can be asked for.                        *)
WaitEnds == loading ~> ~loading

-----------------------------------------------------------------------------
(* The inductive invariant behind them.                                    *)

(* What is in flight and not overtaken asks for the program the page       *)
(* believes it has, and the editor beside a trace shows that program.      *)
AsksForShownCode ==
    /\ \A s \in Slot :
         inflight[s] # None /\ ~inflight[s].overtaken => inflight[s].code = code
    /\ Viewing => editor = code

(* The player of a page that is not blank stands on a step.                *)
StandsOnAStep == ~blank /\ Viewing => player.index <= Total

(* A run that was asked for with none in flight stays the only one, and    *)
(* what arrives last is its answer: until then nothing is viewed and no    *)
(* error shown.                                                            *)
WaitsForOne ==
    ~crossed => /\ \A s, t \in Slot : inflight[s] # None /\ inflight[t] # None => s = t
                /\ Viewing \/ err.set => \A s \in Slot : inflight[s] = None

SessionInv ==
    /\ TypeOK
    /\ AsksForShownCode /\ TraceIsOfShownCode
    /\ LoadingHasRequest
    /\ StandsOnAStep /\ WaitsForOne
    /\ PlayerHasPoint /\ ErrorHasNoTrace /\ PopupHasTrace

=============================================================================
