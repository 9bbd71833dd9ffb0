--------------------------- MODULE AppSessionProofs ---------------------------
(***************************************************************************)
(* What a page of the visualizer guarantees for any programs, traces,      *)
(* breakpoints and number of requests in flight.                           *)
(***************************************************************************)
EXTENDS AppSession, TLAPS, SequenceTheorems, CommonLemmas

-----------------------------------------------------------------------------
(* Where the player may go.                                                *)

\* A trace being viewed has a first step.
LEMMA TraceHasSteps ==
    ASSUME TypeOK, Viewing
    PROVE  Total \in Nat /\ Total >= 1
<1>1. trace.lines \in Seq(Line) /\ trace.lines # <<>>
  BY AppAssumption DEF TypeOK, Traced, Viewing
<1>. QED BY <1>1, EmptySeq DEF Total

\* Single-stepping stays within the trace (usePlayer.ts:38).
LEMMA ClampProperties ==
    ASSUME TypeOK, Viewing, NEW i \in Int
    PROVE  Clamp(i) \in 1..Total /\ (i >= 1 => Clamp(i) <= i)
BY TraceHasSteps DEF Clamp

\* The next hit is the first one ahead; without one it is the next step.
LEMMA NextHitProperties ==
    ASSUME TypeOK, Viewing
    PROVE  /\ NextHit \in 1..Total
           /\ \A j \in player.index + 1 .. NextHit - 1 : j \notin HitSteps
           /\ NextHit > player.index + 1 => NextHit \in HitSteps
<1> DEFINE ahead == {j \in HitSteps : j > player.index}
<1>1. player.index \in Nat \ {0} /\ Total \in Nat /\ HitSteps \subseteq 1..Total
  BY TraceHasSteps DEF TypeOK, HitSteps
<1>2. CASE ahead = {}
  <2>1. NextHit = Clamp(player.index + 1)
    BY <1>2 DEF NextHit
  <2>2. NextHit \in 1..Total /\ NextHit <= player.index + 1
    BY <1>1, <2>1, ClampProperties
  <2>3. ASSUME NEW j \in player.index + 1 .. NextHit - 1 PROVE FALSE
    BY <1>1, <2>2
  <2>. QED BY <1>1, <2>2, <2>3
<1>3. CASE ahead # {}
  <2>1. NextHit = CHOOSE j \in ahead : \A k \in ahead : j <= k
    BY <1>3 DEF NextHit
  <2>2. ahead \subseteq Nat
    <3>1. 1..Total \subseteq Nat
      BY <1>1
    <3>. QED BY <1>1, <3>1
  <2>3. \E j \in ahead : \A k \in ahead : j <= k
    <3>. HIDE DEF ahead
    <3>. QED BY <1>3, <2>2, LeastNatural
  <2>4. NextHit \in ahead /\ \A k \in ahead : NextHit <= k
    <3>. HIDE DEF ahead
    <3>. QED BY <2>1, <2>3
  <2>5. NextHit \in HitSteps /\ NextHit \in 1..Total
    BY <1>1, <2>4
  <2>6. ASSUME NEW j \in player.index + 1 .. NextHit - 1, j \in HitSteps PROVE FALSE
    <3>1. j \in ahead
      BY <1>1, <2>5, <2>6
    <3>. QED BY <1>1, <2>4, <2>5, <3>1
  <2>. QED BY <2>5, <2>6
<1>. QED BY <1>2, <1>3

-----------------------------------------------------------------------------
(* One step of each kind.                                                  *)

USE AppAssumption DEF shown

\* The player goes to another step.
LEMMA GoToPreserves ==
    ASSUME SessionInv, NEW i \in 1..Total, GoTo(i)
    PROVE  SessionInv'
<1>1. i \in Nat \ {0} /\ i <= Total
  BY TraceHasSteps DEF SessionInv, GoTo
<1>2. /\ player' = [player EXCEPT !.index = i] /\ Viewing
      /\ UNCHANGED <<code, editor, trace, err, loading, breakpoints, heap, help,
                     blank, inflight, crossed>>
  BY DEF GoTo
<1>3. /\ player' \in [index : Nat \ {0}, tab : Tab, treeSeen : BOOLEAN]
      /\ player'.index = i
  BY <1>1, <1>2 DEF SessionInv, TypeOK
<1>4. TypeOK'
  BY <1>2, <1>3 DEF SessionInv, TypeOK, Viewing, NoError
<1>5. /\ AsksForShownCode' /\ TraceIsOfShownCode' /\ LoadingHasRequest'
      /\ WaitsForOne' /\ ErrorHasNoTrace' /\ PopupHasTrace'
  BY <1>2
     DEF SessionInv, AsksForShownCode, TraceIsOfShownCode, LoadingHasRequest,
         WaitsForOne, ErrorHasNoTrace, PopupHasTrace, Viewing
<1>6. StandsOnAStep' /\ PlayerHasPoint'
  BY <1>1, <1>2, <1>3 DEF SessionInv, StandsOnAStep, PlayerHasPoint, Viewing, Total
<1>. QED BY <1>4, <1>5, <1>6 DEF SessionInv

\* A tab is opened.
LEMMA OpenTabPreserves ==
    ASSUME SessionInv, NEW t \in Tab, OpenTab(t)
    PROVE  SessionInv'
<1>1. /\ UNCHANGED <<code, editor, trace, err, loading, breakpoints, heap, help,
                     blank, inflight, crossed>>
      /\ player' = [player EXCEPT !.tab = t, !.treeSeen = player.treeSeen \/ t = "tree"]
  BY DEF OpenTab
<1>2. /\ player' \in [index : Nat \ {0}, tab : Tab, treeSeen : BOOLEAN]
      /\ player'.index = player.index
  BY <1>1 DEF SessionInv, TypeOK
<1>3. TypeOK'
  BY <1>1, <1>2 DEF SessionInv, TypeOK, Viewing, NoError
<1>4. /\ AsksForShownCode' /\ TraceIsOfShownCode' /\ LoadingHasRequest'
      /\ WaitsForOne' /\ ErrorHasNoTrace' /\ PopupHasTrace'
      /\ StandsOnAStep' /\ PlayerHasPoint'
  BY <1>1, <1>2
     DEF SessionInv, AsksForShownCode, TraceIsOfShownCode, LoadingHasRequest,
         WaitsForOne, ErrorHasNoTrace, PopupHasTrace, StandsOnAStep, PlayerHasPoint,
         Viewing, Total
<1>. QED BY <1>3, <1>4 DEF SessionInv

\* A popup, the cheat sheet or a breakpoint changes; a popup opens beside a trace.
LEMMA PopupsPreserve ==
    ASSUME SessionInv, NEW h \in BOOLEAN, NEW p \in BOOLEAN, NEW b \in SUBSET Line,
           h => heap \/ Viewing, Popups(h, p, b)
    PROVE  SessionInv'
<1>1. /\ heap' = h /\ help' = p /\ breakpoints' = b
      /\ UNCHANGED <<code, editor, trace, err, loading, player, blank, inflight, crossed>>
  BY DEF Popups
<1>2. TypeOK'
  BY <1>1 DEF SessionInv, TypeOK, Viewing, NoError
<1>3. /\ AsksForShownCode' /\ TraceIsOfShownCode' /\ LoadingHasRequest'
      /\ WaitsForOne' /\ ErrorHasNoTrace' /\ PopupHasTrace'
      /\ StandsOnAStep' /\ PlayerHasPoint'
  BY <1>1
     DEF SessionInv, AsksForShownCode, TraceIsOfShownCode, LoadingHasRequest,
         WaitsForOne, ErrorHasNoTrace, PopupHasTrace, StandsOnAStep, PlayerHasPoint,
         Viewing, Total
<1>. QED BY <1>2, <1>3 DEF SessionInv

\* What a page starts over with.
LEMMA StartsOver ==
    /\ NewPlayer \in [index : Nat \ {0}, tab : Tab, treeSeen : BOOLEAN]
    /\ NewPlayer.index = 1
    /\ NoError \in [set : BOOLEAN, line : Line \cup {None}]
    /\ ~NoError.set
BY DEF NewPlayer, NoError, Tab

\* Stop (App.tsx:248-255).
LEMMA StopPreserves ==
    ASSUME SessionInv, Stop
    PROVE  SessionInv'
<1>1. /\ trace' = None /\ err' = NoError /\ heap' = FALSE /\ editor' = code
      /\ player' = NewPlayer
      /\ UNCHANGED <<code, loading, breakpoints, help, blank, inflight, crossed>>
  BY DEF Stop
<1>2. TypeOK'
  BY <1>1, StartsOver DEF SessionInv, TypeOK, Viewing
<1>3. /\ AsksForShownCode' /\ TraceIsOfShownCode' /\ LoadingHasRequest'
      /\ WaitsForOne' /\ ErrorHasNoTrace' /\ PopupHasTrace'
      /\ StandsOnAStep' /\ PlayerHasPoint'
  BY <1>1
     DEF SessionInv, AsksForShownCode, TraceIsOfShownCode, LoadingHasRequest,
         WaitsForOne, ErrorHasNoTrace, PopupHasTrace, StandsOnAStep, PlayerHasPoint,
         Viewing, NoError
<1>. QED BY <1>2, <1>3 DEF SessionInv

\* A request is sent; the others stay in flight.
LEMMA AskSends ==
    ASSUME NEW src \in Code, NEW r \in [Slot -> Sent \cup {None}], Ask(src, r)
    PROVE  /\ inflight' \in [Slot -> Sent \cup {None}]
           /\ crossed' \in BOOLEAN
           /\ \E s \in Slot : /\ inflight'[s] = Request(src)
                              /\ \A t \in Slot \ {s} : inflight'[t] = r[t]
                              /\ ~crossed' => \A t \in Slot \ {s} : inflight'[t] = None
<1>1. PICK s \in Free : inflight' = [r EXCEPT ![s] = Request(src)]
  BY DEF Ask
<1>2. s \in Slot /\ Request(src) \in Sent
  BY DEF Free, Request, Sent
<1>3. crossed' \in BOOLEAN /\ (~crossed' => \A t \in Slot : r[t] = None)
  BY DEF Ask
<1>. QED BY <1>1, <1>2, <1>3

\* What is in flight when a program arrives is overtaken, and stays in flight.
LEMMA OvertakeProperties ==
    ASSUME NEW f \in [Slot -> Sent \cup {None}]
    PROVE  /\ Overtake(f) \in [Slot -> Sent \cup {None}]
           /\ \A s \in Slot : /\ Overtake(f)[s] = None <=> f[s] = None
                              /\ f[s] # None => Overtake(f)[s].overtaken
<1>1. ASSUME NEW s \in Slot, f[s] # None
      PROVE  /\ [f[s] EXCEPT !.overtaken = TRUE] \in Sent
             /\ [f[s] EXCEPT !.overtaken = TRUE].overtaken
  BY <1>1 DEF Sent
<1>. QED BY <1>1 DEF Overtake

\* A page that views nothing asks for the trace of its program.
LEMMA AskPreserves ==
    ASSUME SessionInv, NEW src \in Code, NEW r \in [Slot -> Sent \cup {None}],
           \A s \in Slot : r[s] # None /\ ~r[s].overtaken => r[s].code = src,
           Ask(src, r), code' = src, editor' \in Code, trace' = None, blank' = FALSE,
           player' = player \/ player' = NewPlayer, UNCHANGED <<breakpoints, help>>
    PROVE  SessionInv'
<1>1. err' = NoError /\ heap' = FALSE /\ loading' = TRUE /\ ~NoError.set
  BY StartsOver DEF Ask
<1>2. /\ inflight' \in [Slot -> Sent \cup {None}] /\ crossed' \in BOOLEAN
      /\ \E s \in Slot : /\ inflight'[s] = Request(src)
                         /\ \A t \in Slot \ {s} : inflight'[t] = r[t]
                         /\ ~crossed' => \A t \in Slot \ {s} : inflight'[t] = None
  BY AskSends
<1>3. PICK s \in Slot : /\ inflight'[s] = Request(src)
                        /\ \A t \in Slot \ {s} : inflight'[t] = r[t]
                        /\ ~crossed' => \A t \in Slot \ {s} : inflight'[t] = None
  BY <1>2
<1>4. Request(src) \in Sent /\ Request(src) # None /\ Request(src).code = src
  <2>1. Request(src) \in Sent /\ Request(src).code = src
    BY DEF Request, Sent
  <2>2. None \notin Sent
    OBVIOUS
  <2>. QED BY <2>1, <2>2
<1>5. TypeOK'
  BY <1>1, <1>2, StartsOver DEF SessionInv, TypeOK, Viewing
<1>6. AsksForShownCode' /\ LoadingHasRequest' /\ WaitsForOne'
  BY <1>1, <1>3, <1>4 DEF AsksForShownCode, LoadingHasRequest, WaitsForOne, Viewing
<1>7. /\ TraceIsOfShownCode' /\ StandsOnAStep' /\ PlayerHasPoint'
      /\ ErrorHasNoTrace' /\ PopupHasTrace'
  BY <1>1
     DEF TraceIsOfShownCode, StandsOnAStep, PlayerHasPoint, ErrorHasNoTrace,
         PopupHasTrace, Viewing
<1>. QED BY <1>5, <1>6, <1>7 DEF SessionInv

\* Visualize, Ctrl+Enter (App.tsx:303-313).
LEMMA VisualizePreserves ==
    ASSUME SessionInv, ~blank, Visualize
    PROVE  SessionInv'
<1>1. code \in Code /\ editor \in Code /\ inflight \in [Slot -> Sent \cup {None}]
  BY DEF SessionInv, TypeOK
<1>2. /\ Ask(code, inflight)
      /\ code' = code /\ editor' = editor /\ trace' = None /\ blank' = FALSE
      /\ UNCHANGED <<breakpoints, help, player>>
  BY DEF Visualize, Viewing, SessionInv, TypeOK
<1>3. \A s \in Slot : inflight[s] # None /\ ~inflight[s].overtaken => inflight[s].code = code
  BY DEF SessionInv, AsksForShownCode
<1>. QED BY <1>1, <1>2, <1>3, AskPreserves

\* The hash changes (App.tsx:257-280): what is in flight is overtaken.
LEMMA HandOffPreserves ==
    ASSUME SessionInv, ~blank, NEW next \in Code, NEW run \in BOOLEAN, HandOff(next, run)
    PROVE  SessionInv'
<1> DEFINE r == Overtake(inflight)
<1>1. /\ inflight \in [Slot -> Sent \cup {None}] /\ r \in [Slot -> Sent \cup {None}]
      /\ \A s \in Slot : /\ r[s] = None <=> inflight[s] = None
                         /\ inflight[s] # None => r[s].overtaken
  BY OvertakeProperties DEF SessionInv, TypeOK
<1>2. /\ code' = next /\ trace' = None /\ player' = NewPlayer /\ editor' \in Code
      /\ err' = NoError /\ heap' = FALSE /\ blank' = FALSE
      /\ UNCHANGED <<breakpoints, help>>
  BY DEF HandOff, SessionInv, TypeOK
<1>3. CASE run
  <2>1. Ask(next, r)
    BY <1>3 DEF HandOff
  <2>. HIDE DEF r
  <2>. QED BY <1>1, <1>2, <2>1, AskPreserves
<1>4. CASE ~run
  <2>1. inflight' = r /\ UNCHANGED <<loading, crossed>>
    BY <1>4 DEF HandOff
  <2>. HIDE DEF r
  <2>2. TypeOK'
    BY <1>1, <1>2, <2>1, StartsOver DEF SessionInv, TypeOK, Viewing
  <2>3. /\ AsksForShownCode' /\ TraceIsOfShownCode' /\ LoadingHasRequest'
        /\ WaitsForOne' /\ ErrorHasNoTrace' /\ PopupHasTrace'
        /\ StandsOnAStep' /\ PlayerHasPoint'
    BY <1>1, <1>2, <2>1, StartsOver
       DEF SessionInv, AsksForShownCode, TraceIsOfShownCode, LoadingHasRequest,
           WaitsForOne, ErrorHasNoTrace, PopupHasTrace, StandsOnAStep, PlayerHasPoint,
           Viewing
  <2>. QED BY <2>2, <2>3 DEF SessionInv
<1>. QED BY <1>3, <1>4

\* Typing overtakes what is in flight (CodePanel.tsx:161-198).
LEMMA EditPreserves ==
    ASSUME SessionInv, NEW text \in Code, Edit(text)
    PROVE  SessionInv'
<1> DEFINE r == Overtake(inflight)
<1>1. /\ inflight \in [Slot -> Sent \cup {None}] /\ r \in [Slot -> Sent \cup {None}]
      /\ \A s \in Slot : /\ r[s] = None <=> inflight[s] = None
                         /\ inflight[s] # None => r[s].overtaken
  BY OvertakeProperties DEF SessionInv, TypeOK
<1>2. /\ ~Viewing /\ editor' = text /\ code' = text /\ inflight' = r
      /\ UNCHANGED <<trace, err, loading, blank, crossed, breakpoints, heap, help, player>>
  BY DEF Edit
<1>. HIDE DEF r
<1>3. TypeOK'
  BY <1>1, <1>2 DEF SessionInv, TypeOK, Viewing, NoError
<1>4. /\ AsksForShownCode' /\ TraceIsOfShownCode' /\ LoadingHasRequest'
      /\ WaitsForOne' /\ ErrorHasNoTrace' /\ PopupHasTrace'
      /\ StandsOnAStep' /\ PlayerHasPoint'
  BY <1>1, <1>2
     DEF SessionInv, AsksForShownCode, TraceIsOfShownCode, LoadingHasRequest,
         WaitsForOne, ErrorHasNoTrace, PopupHasTrace, StandsOnAStep, PlayerHasPoint,
         Viewing, Total
<1>. QED BY <1>3, <1>4 DEF SessionInv

\* The answer to a request leaves no other in flight if it was the only one.
LEMMA AnswerTakes ==
    ASSUME SessionInv, NEW s \in Slot, Answer(s)
    PROVE  /\ inflight' \in [Slot -> Sent \cup {None}]
           /\ inflight[s] \in Sent /\ inflight[s].code \in Code
           /\ inflight[s].overtaken \in BOOLEAN
           /\ \A t \in Slot : inflight'[t] = None \/ (t # s /\ inflight'[t] = inflight[t])
           /\ ~crossed => /\ ~Viewing /\ ~err.set /\ ~heap /\ ~blank
                          /\ \A t \in Slot : inflight'[t] = None
           /\ loading' = FALSE
           /\ UNCHANGED <<code, breakpoints, heap, help, crossed>>
<1>1. /\ inflight \in [Slot -> Sent \cup {None}] /\ inflight[s] # None
      /\ inflight' = [inflight EXCEPT ![s] = None] /\ loading' = FALSE
      /\ UNCHANGED <<code, breakpoints, heap, help, crossed>>
  BY DEF Answer, SessionInv, TypeOK
<1>2. inflight[s] \in Sent /\ inflight[s].code \in Code /\ inflight[s].overtaken \in BOOLEAN
  BY <1>1 DEF Sent
<1>3. ASSUME ~crossed
      PROVE  /\ ~Viewing /\ ~err.set /\ ~heap /\ ~blank
             /\ \A t \in Slot : inflight'[t] = None
  <2>1. ~Viewing /\ ~err.set /\ \A t \in Slot : inflight[t] # None => t = s
    BY <1>1, <1>3 DEF SessionInv, WaitsForOne
  <2>2. ~heap /\ ~blank
    BY <1>3, <2>1 DEF SessionInv, PopupHasTrace, PlayerHasPoint, TypeOK
  <2>. QED BY <1>1, <2>1, <2>2
<1>. QED BY <1>1, <1>2, <1>3

\* A trace arrives (App.tsx:315-330).
LEMMA TraceArrives ==
    ASSUME SessionInv, NEW s \in Slot, Answer(s), NEW lines \in Runs[inflight[s].code],
           SetTrace(inflight[s], lines)
    PROVE  SessionInv'
<1> DEFINE q == inflight[s]
           kept == Viewing /\ trace.code = q.code
           now == IF kept THEN player ELSE NewPlayer
           seen == [code |-> q.code, lines |-> lines, overtaken |-> q.overtaken]
<1>1. /\ inflight' \in [Slot -> Sent \cup {None}]
      /\ q \in Sent /\ q.code \in Code /\ q.overtaken \in BOOLEAN /\ q # None
      /\ \A t \in Slot : inflight'[t] = None \/ (t # s /\ inflight'[t] = inflight[t])
      /\ ~crossed => /\ ~Viewing /\ ~err.set /\ ~heap /\ ~blank
                     /\ \A t \in Slot : inflight'[t] = None
      /\ loading' = FALSE
      /\ UNCHANGED <<code, breakpoints, heap, help, crossed>>
  BY AnswerTakes DEF Answer
<1>2. /\ trace' = seen /\ player' = now /\ blank' = (now.index > Len(lines))
      /\ editor' = (IF kept THEN editor ELSE code) /\ err' = err
  BY DEF SetTrace
<1>3. lines \in Seq(Line) /\ Len(lines) \in Nat /\ Len(lines) >= 1
  <2>1. lines \in Seq(Line) /\ lines # <<>>
    BY <1>1
  <2>. QED BY <2>1, EmptySeq
<1>4. /\ seen \in Traced /\ seen # None /\ seen.code = q.code
      /\ seen.lines = lines /\ seen.overtaken = q.overtaken
  <2>1. seen \in Traced
    BY <1>1, <1>3 DEF Traced
  <2>2. None \notin Traced
    OBVIOUS
  <2>. QED BY <2>1, <2>2
<1>5. /\ now \in [index : Nat \ {0}, tab : Tab, treeSeen : BOOLEAN]
      /\ now.index \in Nat /\ (~kept => now.index = 1) /\ (kept => Viewing)
  BY StartsOver DEF SessionInv, TypeOK
<1>6. ~q.overtaken => q.code = code
  BY <1>1 DEF SessionInv, AsksForShownCode
<1>7. Viewing => editor = code
  BY DEF SessionInv, AsksForShownCode
<1>8. Viewing' /\ trace'.lines = lines /\ trace'.code = q.code /\ trace'.overtaken = q.overtaken
  BY <1>2, <1>4 DEF Viewing
<1>9. editor' = code
  BY <1>2, <1>7
<1>. HIDE DEF q, kept, now, seen
<1>10. ~crossed => ~blank'
  <2>1. ~crossed => now.index = 1
    BY <1>1, <1>5
  <2>2. ~crossed => ~(now.index > Len(lines))
    BY <1>3, <2>1
  <2>. QED BY <1>2, <2>2
<1>11. ~blank' => player'.index <= Len(trace'.lines)
  <2>1. ~(now.index > Len(lines)) => now.index <= Len(lines)
    BY <1>3, <1>5
  <2>. QED BY <1>2, <1>8, <2>1
<1>12. TypeOK'
  <2>1. editor' \in Code /\ code' \in Code
    BY <1>1, <1>9 DEF SessionInv, TypeOK
  <2>2. trace' \in Traced /\ trace'.lines \in Runs[trace'.code]
    BY <1>2, <1>4, <1>8 DEF q
  <2>3. blank' \in BOOLEAN /\ player' \in [index : Nat \ {0}, tab : Tab, treeSeen : BOOLEAN]
    BY <1>2, <1>5
  <2>4. /\ err' \in [set : BOOLEAN, line : Line \cup {None}]
        /\ ~err'.set => err' = NoError'
    BY <1>2 DEF SessionInv, TypeOK, NoError
  <2>. QED BY <1>1, <2>1, <2>2, <2>3, <2>4 DEF SessionInv, TypeOK
<1>13. AsksForShownCode' /\ LoadingHasRequest' /\ WaitsForOne'
  BY <1>1, <1>9 DEF SessionInv, AsksForShownCode, LoadingHasRequest, WaitsForOne
<1>14. TraceIsOfShownCode'
  BY <1>1, <1>6, <1>8, <1>9 DEF TraceIsOfShownCode
<1>15. StandsOnAStep' /\ PlayerHasPoint'
  BY <1>1, <1>10, <1>11 DEF StandsOnAStep, PlayerHasPoint, Total
<1>16. ErrorHasNoTrace' /\ PopupHasTrace'
  BY <1>1, <1>2, <1>8 DEF ErrorHasNoTrace, PopupHasTrace
<1>. QED BY <1>12, <1>13, <1>14, <1>15, <1>16 DEF SessionInv

\* An error arrives (App.tsx:330-346).
LEMMA ErrorArrives ==
    ASSUME SessionInv, NEW s \in Slot, Answer(s), NEW line \in Line \cup {None},
           LeaveTrace([set |-> TRUE, line |-> line])
    PROVE  SessionInv'
<1>1. /\ inflight' \in [Slot -> Sent \cup {None}]
      /\ \A t \in Slot : inflight'[t] = None \/ (t # s /\ inflight'[t] = inflight[t])
      /\ ~crossed => /\ ~Viewing /\ ~err.set /\ ~heap /\ ~blank
                     /\ \A t \in Slot : inflight'[t] = None
      /\ loading' = FALSE
      /\ UNCHANGED <<code, breakpoints, heap, help, crossed>>
  BY AnswerTakes
<1>2. /\ err' = [set |-> TRUE, line |-> line] /\ trace' = None /\ player' = NewPlayer
      /\ editor' = (IF Viewing THEN code ELSE editor) /\ blank' = blank
  BY DEF LeaveTrace
<1>3. TypeOK'
  BY <1>1, <1>2, StartsOver DEF SessionInv, TypeOK, Viewing
<1>4. /\ AsksForShownCode' /\ TraceIsOfShownCode' /\ LoadingHasRequest'
      /\ WaitsForOne' /\ ErrorHasNoTrace' /\ PopupHasTrace'
      /\ StandsOnAStep' /\ PlayerHasPoint'
  BY <1>1, <1>2
     DEF SessionInv, AsksForShownCode, TraceIsOfShownCode, LoadingHasRequest,
         WaitsForOne, ErrorHasNoTrace, PopupHasTrace, StandsOnAStep, PlayerHasPoint,
         Viewing
<1>. QED BY <1>3, <1>4 DEF SessionInv

-----------------------------------------------------------------------------
(* The invariant and what follows from it.                                 *)

\* A page that loads shows its program, and waits for its trace or for nothing.
LEMMA InitEstablishes == Init => SessionInv
<1>. SUFFICES ASSUME Init PROVE SessionInv
  OBVIOUS
<1>1. PICK run \in BOOLEAN, s \in Slot :
        /\ loading = run
        /\ inflight = [t \in Slot |-> IF run /\ t = s THEN Request(code) ELSE None]
  BY DEF Init
<1>2. /\ code \in Code /\ editor = code /\ trace = None /\ err = NoError /\ blank = FALSE
      /\ crossed = FALSE /\ breakpoints = {} /\ heap = FALSE /\ help = FALSE
      /\ player = NewPlayer
  BY DEF Init
<1>3. Request(code) \in Sent /\ Request(code).code = code /\ Request(code) # None
  <2>1. Request(code) \in Sent /\ Request(code).code = code
    BY <1>2 DEF Request, Sent
  <2>2. None \notin Sent
    OBVIOUS
  <2>. QED BY <2>1, <2>2
<1>4. inflight \in [Slot -> Sent \cup {None}]
  BY <1>1, <1>3
<1>5. TypeOK
  BY <1>1, <1>2, <1>4, StartsOver DEF TypeOK, Viewing
<1>6. AsksForShownCode /\ LoadingHasRequest /\ WaitsForOne
  BY <1>1, <1>2, <1>3, StartsOver
     DEF AsksForShownCode, LoadingHasRequest, WaitsForOne, Viewing
<1>7. /\ TraceIsOfShownCode /\ StandsOnAStep /\ PlayerHasPoint
      /\ ErrorHasNoTrace /\ PopupHasTrace
  BY <1>2
     DEF TraceIsOfShownCode, StandsOnAStep, PlayerHasPoint, ErrorHasNoTrace,
         PopupHasTrace, Viewing
<1>. QED BY <1>5, <1>6, <1>7 DEF SessionInv

\* The timeline's buttons and their shortcuts keep the player within the trace.
LEMMA StepsPreserve ==
    ASSUME SessionInv, ToFirst \/ ToLast \/ Prev \/ Next1
    PROVE  SessionInv'
<1>1. Viewing /\ TypeOK /\ Total \in Nat /\ Total >= 1 /\ player.index \in Nat \ {0}
  BY TraceHasSteps DEF ToFirst, ToLast, Prev, Next1, GoTo, SessionInv, TypeOK
<1>2. 1 \in 1..Total /\ Total \in 1..Total
  BY <1>1
<1>3. Clamp(player.index - 1) \in 1..Total /\ Clamp(player.index + 1) \in 1..Total
  <2>1. player.index - 1 \in Int /\ player.index + 1 \in Int
    BY <1>1
  <2>. QED BY <1>1, <2>1, ClampProperties
<1>4. NextHit \in 1..Total
  BY <1>1, NextHitProperties
<1>5. CASE ToFirst \/ ToLast
  BY <1>2, <1>5, GoToPreserves DEF ToFirst, ToLast
<1>6. CASE Prev
  BY <1>3, <1>6, GoToPreserves DEF Prev
<1>7. CASE Next1
  <2>1. CASE breakpoints = {}
    BY <1>3, <1>7, <2>1, GoToPreserves DEF Next1
  <2>2. CASE breakpoints # {}
    BY <1>4, <1>7, <2>2, GoToPreserves DEF Next1
  <2>. QED BY <2>1, <2>2
<1>. QED BY <1>5, <1>6, <1>7

\* Popups, cheat sheet and breakpoints, by mouse or by key.
LEMMA TogglesPreserve ==
    ASSUME SessionInv,
           \/ \E line \in Line : ToggleBreakpoint(line)
           \/ ClearBreakpoints \/ OpenHeap \/ CloseHeap \/ CloseHelp \/ ToggleHelp
    PROVE  SessionInv'
<1>1. /\ heap \in BOOLEAN /\ help \in BOOLEAN /\ (~help) \in BOOLEAN
      /\ TRUE \in BOOLEAN /\ FALSE \in BOOLEAN
      /\ breakpoints \in SUBSET Line /\ {} \in SUBSET Line
  BY DEF SessionInv, TypeOK
<1>2. ASSUME NEW line \in Line, ToggleBreakpoint(line) PROVE SessionInv'
  <2> DEFINE b == IF line \in breakpoints THEN breakpoints \ {line}
                                          ELSE breakpoints \cup {line}
  <2>1. b \in SUBSET Line /\ Popups(heap, help, b)
    BY <1>1, <1>2 DEF ToggleBreakpoint
  <2>. HIDE DEF b
  <2>. QED BY <1>1, <2>1, PopupsPreserve
<1>3. CASE ClearBreakpoints
  BY <1>1, <1>3, PopupsPreserve DEF ClearBreakpoints
<1>4. CASE OpenHeap
  BY <1>1, <1>4, PopupsPreserve DEF OpenHeap
<1>5. CASE CloseHeap
  BY <1>1, <1>5, PopupsPreserve DEF CloseHeap
<1>6. CASE CloseHelp
  BY <1>1, <1>6, PopupsPreserve DEF CloseHelp
<1>7. CASE ToggleHelp
  BY <1>1, <1>7, PopupsPreserve DEF ToggleHelp
<1>. QED BY <1>2, <1>3, <1>4, <1>5, <1>6, <1>7

\* What the mouse and the keyboard do.
LEMMA UserPreserves ==
    ASSUME SessionInv, ~blank,
           Click \/ \E chord \in Chord, inEditable \in BOOLEAN : Key(chord, inEditable)
    PROVE  SessionInv'
<1>1. ASSUME NEW t \in Tab, OpenTab(t) PROVE SessionInv'
  BY <1>1, OpenTabPreserves
<1>2. CASE ToggleTree
  <2>1. (IF player.tab = "memory" THEN "tree" ELSE "memory") \in Tab
    BY DEF Tab
  <2>. QED BY <1>1, <1>2, <2>1 DEF ToggleTree
<1>3. ASSUME Viewing, NEW i \in 1..Total, GoTo(i) PROVE SessionInv'
  BY <1>3, GoToPreserves
<1>4. CASE Click
  BY <1>1, <1>3, <1>4, VisualizePreserves, StopPreserves, StepsPreserve, TogglesPreserve
     DEF Click
<1>5. ASSUME NEW chord \in Chord, NEW inEditable \in BOOLEAN, Key(chord, inEditable)
      PROVE  SessionInv'
  BY <1>2, <1>5, VisualizePreserves, StopPreserves, StepsPreserve, TogglesPreserve
     DEF Key
<1>. QED BY <1>4, <1>5

\* Every step preserves the invariant.
LEMMA NextPreserves == SessionInv /\ [Next]_vars => SessionInv'
<1>. SUFFICES ASSUME SessionInv, [Next]_vars PROVE SessionInv'
  OBVIOUS
<1>1. CASE UNCHANGED vars
  <2>1. TypeOK'
    BY <1>1 DEF vars, SessionInv, TypeOK, Viewing, NoError
  <2>. QED
    BY <1>1, <2>1
       DEF vars, SessionInv, AsksForShownCode, TraceIsOfShownCode, LoadingHasRequest,
           WaitsForOne, ErrorHasNoTrace, PopupHasTrace, StandsOnAStep, PlayerHasPoint,
           Viewing, Total
<1>2. ASSUME NEW s \in Slot, Answer(s) PROVE SessionInv'
  <2>1. ASSUME NEW lines \in Runs[inflight[s].code], SetTrace(inflight[s], lines)
        PROVE  SessionInv'
    BY <1>2, <2>1, TraceArrives
  <2>2. ASSUME NEW line \in Line \cup {None}, LeaveTrace([set |-> TRUE, line |-> line])
        PROVE  SessionInv'
    BY <1>2, <2>2, ErrorArrives
  <2>. QED BY <1>2, <2>1, <2>2 DEF Answer
<1>3. CASE Next
  <2>1. ~blank
    BY <1>3 DEF Next
  <2>2. ASSUME NEW text \in Code, Edit(text) PROVE SessionInv'
    BY <2>2, EditPreserves
  <2>3. ASSUME NEW next \in Code, NEW run \in BOOLEAN, HandOff(next, run) PROVE SessionInv'
    BY <2>1, <2>3, HandOffPreserves
  <2>4. CASE Click \/ \E chord \in Chord, inEditable \in BOOLEAN : Key(chord, inEditable)
    BY <2>1, <2>4, UserPreserves
  <2>. QED BY <1>2, <1>3, <2>2, <2>3, <2>4 DEF Next
<1>. QED BY <1>1, <1>3

\* The inductive invariant of the page.
THEOREM SessionInductive == Spec => []SessionInv
BY InitEstablishes, NextPreserves, PTL DEF Spec

\* Type correctness of the page.
THEOREM SessionTypeCorrect == Spec => []TypeOK
<1>1. SessionInv => TypeOK
  BY DEF SessionInv
<1>. QED BY <1>1, SessionInductive, PTL

\* A trace that no edit or hand-off has overtaken is that of the program the
\* page and its editor show (App.tsx:228-230).
THEOREM ShownCodeIsTraced == Spec => []TraceIsOfShownCode
<1>1. SessionInv => TraceIsOfShownCode
  BY DEF SessionInv
<1>. QED BY <1>1, SessionInductive, PTL

\* The page never waits for a run that nobody will answer.
THEOREM WaitHasRequest == Spec => []LoadingHasRequest
<1>1. SessionInv => LoadingHasRequest
  BY DEF SessionInv
<1>. QED BY <1>1, SessionInductive, PTL

\* As long as no two requests were in flight together, the page is not unmounted
\* and its player is on a step.
THEOREM PlayerStaysOnTrace == Spec => []PlayerHasPoint
<1>1. SessionInv => PlayerHasPoint
  BY DEF SessionInv
<1>. QED BY <1>1, SessionInductive, PTL

\* Nor does an error stand above a trace.
THEOREM ErrorExcludesTrace == Spec => []ErrorHasNoTrace
<1>1. SessionInv => ErrorHasNoTrace
  BY DEF SessionInv
<1>. QED BY <1>1, SessionInductive, PTL

\* Nor is a popup left without its trace.
THEOREM PopupBelongsToTrace == Spec => []PopupHasTrace
<1>1. SessionInv => PopupHasTrace
  BY DEF SessionInv
<1>. QED BY <1>1, SessionInductive, PTL

\* With breakpoints set, Next skips no hit and jumps only to one
\* (usePlayer.ts:23-32).
THEOREM NextFindsTheHit == Spec => NextStopsAtHits
<1>1. SessionInv =>
        [Next1 /\ breakpoints # {} =>
           /\ \A j \in player.index + 1 .. player'.index - 1 : j \notin HitSteps
           /\ player'.index > player.index + 1 => player'.index \in HitSteps]_vars
  <2>. SUFFICES ASSUME SessionInv, Next1, breakpoints # {}
                PROVE  /\ \A j \in player.index + 1 .. player'.index - 1 : j \notin HitSteps
                       /\ player'.index > player.index + 1 => player'.index \in HitSteps
    OBVIOUS
  <2>1. TypeOK /\ Viewing /\ player' = [player EXCEPT !.index = NextHit]
    BY DEF Next1, GoTo, SessionInv
  <2>2. player'.index = NextHit
    BY <2>1 DEF TypeOK
  <2>. QED BY <2>1, <2>2, NextHitProperties
<1>. QED BY <1>1, SessionInductive, PTL DEF NextStopsAtHits

=============================================================================
