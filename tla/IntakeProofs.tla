---------------------------- MODULE IntakeProofs ----------------------------
(***************************************************************************)
(* Proofs about Intake, for any number of endpoints, any limits and any    *)
(* durations of the requests: type correctness, what the caller may read   *)
(* from the result, who is sent the payload, how long an additional        *)
(* endpoint may take and how a post is retried, and that a call implements *)
(* IntakeCall.                                                             *)
(***************************************************************************)
EXTENDS Intake, RecursionFacts

\* What the assumptions say of the bounds (intake.go:40-46, 67-102).
LEMMA Bounds ==
  /\ N \in Nat /\ 1 \in Endpoints
  /\ MaxTries \in Nat /\ MaxTries > 0
  /\ Backoff \in Nat /\ Backoff > 0 /\ BackoffMax \in Nat /\ Backoff <= BackoffMax
  /\ AdditionalTimeout \in Nat /\ AdditionalTimeout > 0
  /\ Timeout \in Nat /\ Deadline \in Nat
  /\ Durations \subseteq Nat
  /\ BadURL \subseteq Endpoints
BY EndpointsAssumption, LadderAssumption, TimeAssumption DEF Endpoints

LEMMA Min2Type ==
  ASSUME NEW a \in Nat, NEW b \in Nat
  PROVE  Min2(a, b) \in Nat /\ Min2(a, b) <= a /\ Min2(a, b) <= b /\ Min2(a, b) \in {a, b}
BY DEF Min2

LEMMA InitInv == Init => IInv
<1> SUFFICES ASSUME Init PROVE IInv
  OBVIOUS
<1> USE Bounds
<1>1. TypeOK
  BY DEF Init, TypeOK, Endpoints, Answers, NoAnswer, Statuses, Result, NoResult
<1>2. InTurn
  BY DEF Init, InTurn, Untouched
<1>3. LadderInv /\ Latched /\ AdditionalBounded
  BY DEF Init, LadderInv, Latched, AdditionalBounded
<1>4. TurnsOver
  BY DEF Init, TurnsOver, Endpoints
<1> QED
  BY <1>1, <1>2, <1>3, <1>4 DEF IInv

\* The deadline of the running ladder (intake.go:42-46, 210).
LEMMA LimitFacts ==
  ASSUME IInv, pc \in {"try", "sleep"}
  PROVE  /\ started[ep] \in Nat /\ limit \in Nat /\ now \in Nat /\ wait \in Nat
         /\ started[ep] <= now /\ now <= limit /\ limit <= Deadline
         /\ ep # 1 => limit <= started[ep] + AdditionalTimeout
         /\ limit > started[ep] \/ started[ep] >= Deadline
<1>1. limit \in 0..Deadline /\ now \in Nat /\ wait \in Nat
  BY Bounds DEF IInv, TypeOK
<1>2. /\ started[ep] \in 0..now /\ now <= limit
      /\ limit = IF ep = 1 THEN Deadline ELSE Min2(started[ep] + AdditionalTimeout, Deadline)
  BY DEF IInv, LadderInv
<1>3. started[ep] \in Nat /\ started[ep] <= now
  BY <1>1, <1>2
<1>4. CASE ep = 1
  BY <1>1, <1>2, <1>3, <1>4, Bounds
<1>5. CASE ep # 1
  <2>1. limit = Min2(started[ep] + AdditionalTimeout, Deadline)
    BY <1>2, <1>5
  <2>2. limit \in {started[ep] + AdditionalTimeout, Deadline} /\ limit <= started[ep] + AdditionalTimeout
    <3>1. started[ep] + AdditionalTimeout \in Nat /\ Deadline \in Nat
      BY <1>3, Bounds
    <3> QED
      BY <2>1, <3>1, Min2Type
  <2> QED
    BY <1>1, <1>2, <1>3, <2>2, Bounds
<1> QED
  BY <1>4, <1>5

\* Endpoints after the current one stay untouched by a step of its ladder.
LEMMA InTurnStep ==
  ASSUME IInv, ep' = ep, pc' # "build",
         \A e \in Endpoints \ {ep} : started'[e] = started[e] /\ answers'[e] = answers[e]
  PROVE  InTurn'
<1> SUFFICES ASSUME NEW e \in Endpoints, e > ep PROVE Untouched(e)'
  BY DEF InTurn
<1>1. Untouched(e)
  BY DEF IInv, InTurn
<1>2. e # ep
  BY Bounds DEF IInv, TypeOK, Endpoints
<1> QED
  BY <1>1, <1>2 DEF Untouched

\* Nor do the turns that are over change (intake.go:199-203).
LEMMA TurnsOverStep ==
  ASSUME IInv, ep' = ep, perKey' = perKey, pc' # "returned",
         \A e \in Endpoints \ {ep} : started'[e] = started[e] /\ answers'[e] = answers[e],
         pc' = "next" => ep \in BadURL \/ Tried(ep)'
  PROVE  TurnsOver'
<1>1. ASSUME NEW e \in Endpoints \ BadURL, e < ep PROVE Tried(e)'
  <2>1. Tried(e) /\ e # ep
    BY <1>1, Bounds DEF IInv, TypeOK, TurnsOver, Endpoints
  <2> QED
    BY <2>1 DEF Tried
<1> QED
  BY <1>1 DEF TurnsOver

\* The result is latched when the primary's turn ends and kept afterwards.
LEMMA LatchedStep ==
  ASSUME IInv, ep' = ep, NEW st \in Answers, NEW failed \in BOOLEAN,
         SendReturns(st, failed),
         \A e \in Endpoints \ {ep} : answers'[e] = answers[e] /\ stored'[e] = stored[e],
         ep = 1 => /\ ~failed <=> LastAnswer(1)' = "ok"
                   /\ failed /\ st = "permanent" <=> LastAnswer(1)' = "permanent"
                   /\ ~failed => stored'[1]
  PROVE  Latched'
<1>1. CASE ep = 1
  BY <1>1 DEF Latched, SendReturns
<1>2. CASE ep # 1
  <2>1. ep > 1 /\ Latched
    BY <1>2, Bounds DEF IInv, TypeOK, Endpoints
  <2>2. result' = result /\ stored'[1] = stored[1] /\ LastAnswer(1)' = LastAnswer(1)
    BY <1>2, Bounds DEF SendReturns, LastAnswer
  <2> QED
    BY <2>1, <2>2 DEF Latched
<1> QED
  BY <1>1, <1>2

\* While a ladder runs on, the result is what it was.
LEMMA LatchedKept ==
  ASSUME IInv, ep' = ep, pc \notin {"next", "returned"}, pc' \notin {"next", "returned"},
         result' = result,
         \A e \in Endpoints \ {ep} : answers'[e] = answers[e] /\ stored'[e] = stored[e]
  PROVE  Latched'
<1>1. CASE ep > 1
  <2>1. ep # 1 /\ Latched
    BY <1>1 DEF IInv
  <2>2. stored'[1] = stored[1] /\ LastAnswer(1)' = LastAnswer(1)
    BY <2>1, Bounds DEF LastAnswer
  <2> QED
    BY <1>1, <2>1, <2>2 DEF Latched
<1>2. CASE ~(ep > 1)
  BY <1>2 DEF IInv, Latched
<1> QED
  BY <1>1, <1>2

\* A ladder begins: its deadline lies within the caller's (intake.go:119-128, 210).
LEMMA BeginInv == IInv /\ Begin => IInv'
<1> SUFFICES ASSUME IInv, Begin PROVE IInv'
  OBVIOUS
<1> USE Bounds
<1>1. TypeOK'
  <2>1. now \in 0..Deadline /\ now + AdditionalTimeout \in Nat
    BY DEF IInv, TypeOK
  <2>2. Min2(now + AdditionalTimeout, Deadline) \in 0..Deadline
    BY <2>1, Min2Type
  <2>3. limit' \in 0..Deadline
    BY <2>2 DEF Begin
  <2>4. try' \in 0..(MaxTries - 1) /\ wait' \in Backoff..BackoffMax /\ status' \in Answers
    BY DEF Begin, Answers, NoAnswer
  <2>5. started' \in [Endpoints -> -1..Deadline]
    BY <2>1 DEF IInv, TypeOK, Begin
  <2> QED
    BY <2>3, <2>4, <2>5 DEF IInv, historyVars, Begin, TypeOK
<1>2. \A e \in Endpoints \ {ep} : started'[e] = started[e] /\ answers'[e] = answers[e]
  BY DEF IInv, ladderVars, historyVars, Begin, TypeOK
<1>3. InTurn'
  BY <1>2, InTurnStep DEF Begin
<1>4. Untouched(ep)
  BY DEF IInv, InTurn, Begin, TypeOK
<1>5. LadderInv'
  BY <1>4 DEF IInv, ladderVars, historyVars, Begin, TypeOK, LadderInv, Untouched, LastAnswer, Unsettled, NoAnswer, Endpoints, Min2
<1>6. Latched'
  BY <1>2, LatchedKept DEF Begin, historyVars
<1>7. TurnsOver'
  BY <1>2, TurnsOverStep DEF Begin
<1>8. AdditionalBounded'
  BY DEF IInv, ladderVars, historyVars, Begin, TypeOK, AdditionalBounded, Endpoints
<1> QED
  BY <1>1, <1>3, <1>5, <1>6, <1>7, <1>8 DEF IInv

\* A bad URL ends its endpoint's turn at once (intake.go:120-124).
LEMMA BeginBadURLInv == IInv /\ BeginBadURL => IInv'
<1> SUFFICES ASSUME IInv, BeginBadURL PROVE IInv'
  OBVIOUS
<1> USE Bounds
<1>1. TypeOK'
  BY DEF IInv, ladderVars, historyVars, BeginBadURL, TypeOK, Endpoints, Answers, NoAnswer, Statuses, Result, SendReturns
<1>2. \A e \in Endpoints : started'[e] = started[e] /\ answers'[e] = answers[e] /\ stored'[e] = stored[e]
  BY DEF BeginBadURL, historyVars
<1>3. pc' = "next" /\ ep' = ep /\ perKey' = perKey
  BY DEF BeginBadURL, SendReturns
<1>4. Untouched(ep)
  BY DEF IInv, InTurn, BeginBadURL, TypeOK
<1>5. InTurn'
  BY <1>2, <1>3, InTurnStep
<1>6. LadderInv'
  BY <1>3 DEF LadderInv
<1>7. Latched'
  <2>1. ep = 1 => LastAnswer(1)' = NoAnswer
    BY <1>2, <1>4 DEF LastAnswer, Untouched
  <2> QED
    BY <1>2, <1>3, <2>1, LatchedStep DEF BeginBadURL, NoAnswer, Answers
<1>8. TurnsOver'
  BY <1>2, <1>3, TurnsOverStep DEF BeginBadURL
<1>9. AdditionalBounded'
  BY <1>2, <1>3, <1>4 DEF IInv, TypeOK, AdditionalBounded, Untouched
<1> QED
  BY <1>1, <1>5, <1>6, <1>7, <1>8, <1>9 DEF IInv

\* A body that cannot be built (intake.go:167-177).
LEMMA BuildFailsInv == IInv /\ BuildFails => IInv'
<1> SUFFICES ASSUME IInv, BuildFails PROVE IInv'
  OBVIOUS
<1> USE Bounds
<1>1. TypeOK'
  BY DEF IInv, ladderVars, historyVars, BuildFails, TypeOK, Endpoints, Answers, NoAnswer, Statuses, Result, SendReturns
<1>2. \A e \in Endpoints : started'[e] = started[e] /\ answers'[e] = answers[e] /\ stored'[e] = stored[e]
  BY DEF BuildFails, historyVars
<1>3. pc' \in {"next", "returned"} /\ ep' = ep /\ perKey' /\ perKey
  BY DEF BuildFails, SendReturns
<1>4. Untouched(ep)
  BY DEF IInv, InTurn, BuildFails, TypeOK
<1>5. InTurn'
  BY <1>2, <1>3, InTurnStep
<1>6. LadderInv'
  BY <1>3 DEF LadderInv
<1>7. Latched'
  <2>1. CASE ep = 1
    <3>1. LastAnswer(1)' = NoAnswer
      BY <1>2, <1>4, <2>1 DEF LastAnswer, Untouched
    <3>2. result' = result /\ pc = "build" /\ Latched
      BY <2>1 DEF IInv, BuildFails
    <3>3. result' = NoResult
      BY <2>1, <3>2 DEF Latched
    <3> QED
      BY <1>3, <3>1, <3>3 DEF Latched, NoAnswer, NoResult
  <2>2. CASE ep # 1
    BY <1>2, <1>3, <2>2, LatchedStep DEF BuildFails, NoAnswer, Answers
  <2> QED
    BY <2>1, <2>2
<1>8. TurnsOver'
  BY <1>2, <1>3, <1>4 DEF IInv, ladderVars, historyVars, TypeOK, TurnsOver, Tried, Untouched, BuildFails, Endpoints
<1>9. AdditionalBounded'
  BY <1>2, <1>3, <1>4 DEF IInv, TypeOK, AdditionalBounded, Untouched
<1> QED
  BY <1>1, <1>5, <1>6, <1>7, <1>8, <1>9 DEF IInv

\* A pause within the ladder (intake.go:130-137).
LEMMA SleepInv == IInv /\ Sleep => IInv'
<1> SUFFICES ASSUME IInv, Sleep PROVE IInv'
  OBVIOUS
<1> USE Bounds
<1>1. /\ started[ep] \in Nat /\ limit \in Nat /\ now \in Nat /\ wait \in Nat
      /\ started[ep] <= now /\ now <= limit /\ limit <= Deadline
      /\ ep # 1 => limit <= started[ep] + AdditionalTimeout
  BY LimitFacts DEF Sleep
<1>2. wait' \in Backoff..BackoffMax
  BY <1>1 DEF IInv, TypeOK, Sleep, Min2
<1>3. TypeOK'
  <2>1. now' \in 0..Deadline
    BY <1>1 DEF Sleep
  <2> QED
    BY <1>2, <2>1 DEF IInv, historyVars, Sleep, TypeOK
<1>4. \A e \in Endpoints : started'[e] = started[e] /\ answers'[e] = answers[e] /\ stored'[e] = stored[e]
  BY DEF Sleep, historyVars
<1>5. InTurn'
  BY <1>4, InTurnStep DEF Sleep
<1>6. LadderInv'
  BY <1>1 DEF IInv, ladderVars, historyVars, Sleep, TypeOK, LadderInv, LastAnswer
<1>7. Latched'
  BY <1>4, LatchedKept DEF Sleep
<1>8. TurnsOver'
  BY <1>4, TurnsOverStep DEF Sleep
<1>9. AdditionalBounded'
  BY <1>1 DEF IInv, ladderVars, historyVars, Sleep, AdditionalBounded
<1> QED
  BY <1>3, <1>5, <1>6, <1>7, <1>8, <1>9 DEF IInv

\* The context ends a pause and the ladder (intake.go:131-133).
LEMMA SleepEndedInv == IInv /\ SleepEnded => IInv'
<1> SUFFICES ASSUME IInv, SleepEnded PROVE IInv'
  OBVIOUS
<1> USE Bounds
<1>1. /\ started[ep] \in Nat /\ limit \in Nat /\ now \in Nat /\ wait \in Nat
      /\ started[ep] <= now /\ now <= limit /\ limit <= Deadline
      /\ ep # 1 => limit <= started[ep] + AdditionalTimeout
  BY LimitFacts DEF SleepEnded
<1>2. pc' = "next" /\ ep' = ep /\ perKey' = perKey
  BY DEF SleepEnded, SendReturns
<1>3. /\ status \in Answers /\ status \in Unsettled /\ LastAnswer(ep) \in Unsettled
      /\ answers[ep] # <<>> \/ started[ep] >= Deadline
  BY DEF IInv, TypeOK, LadderInv, SleepEnded
<1>4. \A e \in Endpoints : started'[e] = started[e] /\ answers'[e] = answers[e] /\ stored'[e] = stored[e]
  BY DEF SleepEnded, historyVars
<1>5. TypeOK'
  BY <1>1, <1>3 DEF IInv, ladderVars, historyVars, SleepEnded, TypeOK, Endpoints, SendReturns, Result
<1>6. InTurn'
  BY <1>2, <1>4, InTurnStep
<1>7. LadderInv'
  BY <1>2 DEF LadderInv
<1>8. Latched'
  <2>1. LastAnswer(ep)' = LastAnswer(ep) /\ ep \in Endpoints
    BY <1>4 DEF LastAnswer, IInv, TypeOK, SleepEnded, historyVars
  <2> QED
    BY <1>2, <1>3, <1>4, <2>1, LatchedStep DEF SleepEnded, Unsettled, NoAnswer
<1>9. TurnsOver'
  <2>1. started[ep] # -1 /\ Tried(ep)
    BY <1>1, <1>3 DEF Tried
  <2>2. Tried(ep)'
    BY <1>2, <1>4, <2>1 DEF Tried, IInv, TypeOK, SleepEnded, historyVars
  <2> QED
    BY <1>2, <1>4, <2>2, TurnsOverStep
<1>10. AdditionalBounded'
  <2>1. now' = limit /\ started' = started /\ ep' = ep
    BY DEF SleepEnded
  <2>2. ep > 1 => ep # 1
    BY DEF IInv, TypeOK, Endpoints
  <2>3. ep > 1 => now' - started'[ep'] <= AdditionalTimeout
    BY <1>1, <2>1, <2>2
  <2> QED
    BY <2>1, <2>3 DEF AdditionalBounded
<1> QED
  BY <1>5, <1>6, <1>7, <1>8, <1>9, <1>10 DEF IInv

\* The next endpoint's turn, or the return (intake.go:199-203).
LEMMA NextEndpointInv == IInv /\ NextEndpoint => IInv'
<1> SUFFICES ASSUME IInv, NextEndpoint PROVE IInv'
  OBVIOUS
<1> USE Bounds
<1>1. TypeOK'
  <2>1. ep' \in Endpoints /\ pc' \in {"build", "returned"}
    BY DEF IInv, NextEndpoint, TypeOK, Endpoints
  <2> QED
    BY <2>1 DEF IInv, ladderVars, historyVars, NextEndpoint, TypeOK
<1>2. \A e \in Endpoints : /\ started'[e] = started[e] /\ answers'[e] = answers[e]
                           /\ Untouched(e)' <=> Untouched(e)
                           /\ Tried(e)' <=> Tried(e)
  BY DEF NextEndpoint, historyVars, Untouched, Tried
<1>3. /\ ep \in Endpoints
      /\ \/ ep < N /\ ep' = ep + 1 /\ pc' = "build"
         \/ ep = N /\ ep' = ep /\ pc' = "returned"
  BY DEF IInv, TypeOK, NextEndpoint, Endpoints
<1>4. InTurn'
  BY <1>2, <1>3 DEF IInv, InTurn, Endpoints
<1>5. LadderInv'
  BY <1>3 DEF LadderInv
<1>6. Latched'
  <2>1. pc = "next" /\ result' = result /\ stored' = stored /\ LastAnswer(1)' = LastAnswer(1)
    BY DEF NextEndpoint, historyVars, LastAnswer
  <2> QED
    BY <1>3, <2>1 DEF IInv, Latched, Endpoints
<1>7. TurnsOver'
  <2>1. pc = "next" /\ TurnsOver
    BY DEF IInv, NextEndpoint
  <2>2. ASSUME NEW e \in Endpoints \ BadURL, e < ep' \/ (e = ep' /\ pc' = "returned")
        PROVE  Tried(e)'
    BY <1>2, <1>3, <2>1, <2>2 DEF TurnsOver, Endpoints
  <2> QED
    BY <1>3, <2>2 DEF TurnsOver
<1>8. AdditionalBounded'
  BY <1>3 DEF AdditionalBounded
<1> QED
  BY <1>1, <1>4, <1>5, <1>6, <1>7, <1>8 DEF IInv

\* The results of a ladder (intake.go:104-107).
LEMMA ResultType ==
  ASSUME NEW st \in Answers, NEW failed \in BOOLEAN
  PROVE  [status |-> st, err |-> failed] \in Result
BY DEF Result

\* What every try leaves behind, sent or not (intake.go:139-148).
LEMMA TryStep ==
  ASSUME IInv, pc = "try", ep' = ep, perKey' = perKey, limit' = limit, wait' = wait,
         started' = started, now' \in Nat, now <= now', now' <= limit,
         status' \in Answers, AfterTry(status'),
         answers' \in [Endpoints -> Seq(Answers)], stored' \in [Endpoints -> BOOLEAN],
         times' \in [Endpoints -> Seq((0..Deadline) \X (0..Deadline))],
         \A e \in Endpoints : Len(times'[e]) = Len(answers'[e]),
         \A e \in Endpoints \ {ep} : answers'[e] = answers[e] /\ stored'[e] = stored[e],
         Len(answers'[ep]) <= Len(answers[ep]) + 1,
         \/ LastAnswer(ep)' = status'
         \/ status' = NoAnswer /\ LastAnswer(ep)' \in Unsettled,
         status' = "ok" => stored'[ep],
         answers'[ep] # <<>> \/ started[ep] >= Deadline
  PROVE  IInv'
<1> USE Bounds
<1>1. /\ started[ep] \in Nat /\ limit \in Nat /\ now \in Nat
      /\ started[ep] <= now /\ now <= limit /\ limit <= Deadline
      /\ ep # 1 => limit <= started[ep] + AdditionalTimeout
  BY LimitFacts
<1>2. /\ ep \in Endpoints /\ ep \notin BadURL /\ try \in 0..(MaxTries - 1)
      /\ Len(answers[ep]) <= try
      /\ limit = IF ep = 1 THEN Deadline ELSE Min2(started[ep] + AdditionalTimeout, Deadline)
  BY DEF IInv, TypeOK, LadderInv
<1>3. \/ /\ SendReturns(status', status' # "ok") /\ try' = try /\ pc' = "next"
      \/ /\ pc' = "sleep" /\ try' = try + 1 /\ try + 1 < MaxTries /\ result' = result
         /\ status' \in Unsettled /\ LastAnswer(ep)' \in Unsettled
  <2>1. CASE status' \in {"ok", "permanent"}
    BY <2>1 DEF AfterTry, SendReturns
  <2>2. CASE status' \notin {"ok", "permanent"} /\ try + 1 = MaxTries
    <3>1. SendReturns(status', TRUE) /\ try' = try
      BY <2>2 DEF AfterTry
    <3>2. (status' # "ok") = TRUE
      BY <2>2
    <3> QED
      BY <3>1, <3>2 DEF SendReturns
  <2>3. CASE status' \notin {"ok", "permanent"} /\ try + 1 # MaxTries
    <3>1. pc' = "sleep" /\ try' = try + 1 /\ result' = result
      BY <2>3 DEF AfterTry
    <3>2. status' \in Unsettled /\ LastAnswer(ep)' \in Unsettled
      BY <2>3 DEF Answers, Statuses, NoAnswer, Unsettled
    <3> QED
      BY <3>1, <3>2, <2>3, <1>2
  <2> QED
    BY <2>1, <2>2, <2>3
<1>4. TypeOK'
  <2>1. \A e \in Endpoints : Len(answers'[e]) <= MaxTries
    <3> SUFFICES ASSUME NEW e \in Endpoints PROVE Len(answers'[e]) <= MaxTries
      OBVIOUS
    <3>1. Len(answers[e]) <= MaxTries /\ answers[ep] \in Seq(Answers)
      BY DEF IInv, TypeOK
    <3>2. Len(answers[ep]) \in Nat /\ Len(answers'[ep]) \in Nat
      BY <1>2, <3>1
    <3>3. CASE e = ep
      <4>1. Len(answers'[ep]) <= Len(answers[ep]) + 1 /\ Len(answers[ep]) <= MaxTries - 1
        BY <1>2, <3>2, SMTT(20)
      <4> QED
        BY <3>2, <3>3, <4>1
    <3>4. CASE e # ep
      BY <3>1, <3>4
    <3> QED
      BY <3>3, <3>4
  <2>2. result' \in Result
    <3>1. result \in Result /\ (status' # "ok") \in BOOLEAN
      BY DEF IInv, TypeOK
    <3>2. \/ result' = result
          \/ result' = [status |-> status', err |-> status' # "ok"]
      BY <1>3 DEF SendReturns
    <3>3. [status |-> status', err |-> status' # "ok"] \in Result
      BY <3>1, ResultType
    <3> QED
      BY <3>1, <3>2, <3>3
  <2>3. try' \in 0..(MaxTries - 1) /\ now' \in 0..Deadline
    BY <1>1, <1>2, <1>3
  <2> QED
    BY <1>3, <2>1, <2>2, <2>3 DEF IInv, TypeOK
<1>5. InTurn'
  BY <1>3, InTurnStep
<1>6. LadderInv'
  <2> SUFFICES ASSUME pc' = "sleep" PROVE LadderInv'
    BY <1>3 DEF LadderInv
  <2>1. Len(answers'[ep]) <= try'
    BY <1>2, <1>3 DEF IInv, TypeOK
  <2> QED
    BY <1>1, <1>2, <1>3, <2>1 DEF LadderInv
<1>7. Latched'
  <2>1. CASE pc' = "sleep"
    BY <2>1, LatchedKept, <1>3
  <2>2. CASE pc' = "next"
    <3>1. SendReturns(status', status' # "ok")
      BY <1>3, <2>2
    <3>2. ep = 1 => /\ ~(status' # "ok") <=> LastAnswer(1)' = "ok"
                    /\ status' # "ok" /\ status' = "permanent" <=> LastAnswer(1)' = "permanent"
                    /\ ~(status' # "ok") => stored'[1]
      BY DEF Unsettled, NoAnswer
    <3> QED
      BY <3>1, <3>2, LatchedStep
  <2> QED
    BY <1>3, <2>1, <2>2
<1>8. TurnsOver'
  <2>1. Tried(ep)'
    BY <1>1 DEF Tried
  <2> QED
    BY <1>3, <2>1, TurnsOverStep
<1>9. AdditionalBounded'
  <2>1. ASSUME ep > 1 PROVE now' - started[ep] <= AdditionalTimeout
    <3>1. ep # 1
      BY <1>2, <2>1 DEF Endpoints
    <3>2. limit <= started[ep] + AdditionalTimeout /\ now' <= limit
      BY <1>1, <3>1
    <3> QED
      BY <1>1, <3>2
  <2> QED
    BY <2>1 DEF AdditionalBounded
<1> QED
  BY <1>4, <1>5, <1>6, <1>7, <1>8, <1>9 DEF IInv

\* A request is sent and answered, or not, within the ladder's deadline.
LEMMA TryInv == IInv /\ Try => IInv'
<1> SUFFICES ASSUME IInv, Try PROVE IInv'
  OBVIOUS
<1> USE Bounds
<1>1. PICK d \in Durations, answer \in Answers, store \in BOOLEAN : Request(d, answer, store)
  BY DEF Try
<1>2. /\ started[ep] \in Nat /\ limit \in Nat /\ now \in Nat /\ limit <= Deadline
      /\ ep \in Endpoints /\ answers \in [Endpoints -> Seq(Answers)]
      /\ times \in [Endpoints -> Seq((0..Deadline) \X (0..Deadline))]
      /\ \A e \in Endpoints : Len(times[e]) = Len(answers[e])
  BY LimitFacts DEF Try, IInv, TypeOK
<1>3. now' \in Nat /\ now <= now' /\ now' <= limit
  <2>1. d \in Nat
    OBVIOUS
  <2> QED
    BY <1>1, <1>2, <2>1 DEF Request, Min2
<1>4. status' \in Answers /\ (status' = "ok" => store)
  BY <1>1 DEF Request, Answers
<1>5. answers' = [answers EXCEPT ![ep] = Append(@, status')]
  BY <1>1 DEF Request
<1>6. times' = [times EXCEPT ![ep] = Append(@, <<now, now'>>)]
  BY <1>1 DEF Request
<1>7. stored' = [stored EXCEPT ![ep] = @ \/ store]
  BY <1>1 DEF Request
<1>8. /\ answers' \in [Endpoints -> Seq(Answers)]
      /\ answers'[ep] = Append(answers[ep], status')
      /\ Len(answers'[ep]) = Len(answers[ep]) + 1
      /\ LastAnswer(ep)' = status' /\ answers'[ep] # <<>>
  <2>1. answers[ep] \in Seq(Answers) /\ ep' = ep
    BY <1>2 DEF Try
  <2>2. Append(answers[ep], status') \in Seq(Answers)
    BY <1>4, <2>1
  <2>3. answers' \in [Endpoints -> Seq(Answers)] /\ answers'[ep] = Append(answers[ep], status')
    BY <1>2, <1>5, <2>2
  <2>4. /\ Len(Append(answers[ep], status')) = Len(answers[ep]) + 1
        /\ Append(answers[ep], status')[Len(answers[ep]) + 1] = status'
        /\ Append(answers[ep], status') # <<>>
    BY <1>4, <2>1
  <2> QED
    BY <2>1, <2>3, <2>4 DEF LastAnswer
<1>9. /\ times' \in [Endpoints -> Seq((0..Deadline) \X (0..Deadline))]
      /\ \A e \in Endpoints : Len(times'[e]) = Len(answers'[e])
  <2>1. <<now, now'>> \in (0..Deadline) \X (0..Deadline)
    BY <1>2, <1>3
  <2>2. times[ep] \in Seq((0..Deadline) \X (0..Deadline))
    BY <1>2
  <2>3. /\ Append(times[ep], <<now, now'>>) \in Seq((0..Deadline) \X (0..Deadline))
        /\ Len(Append(times[ep], <<now, now'>>)) = Len(times[ep]) + 1
    BY <2>1, <2>2
  <2>4. times' \in [Endpoints -> Seq((0..Deadline) \X (0..Deadline))]
    BY <1>2, <1>6, <2>3
  <2>5. ASSUME NEW e \in Endpoints PROVE Len(times'[e]) = Len(answers'[e])
    <3>1. CASE e = ep
      BY <1>2, <1>6, <1>8, <2>3, <3>1
    <3>2. CASE e # ep
      BY <1>2, <1>5, <1>6, <3>2
    <3> QED
      BY <3>1, <3>2
  <2> QED
    BY <2>4, <2>5
<1>10. /\ stored' \in [Endpoints -> BOOLEAN]
       /\ status' = "ok" => stored'[ep]
  BY <1>2, <1>4, <1>7 DEF IInv, TypeOK
<1>11. \A e \in Endpoints \ {ep} : answers'[e] = answers[e] /\ stored'[e] = stored[e]
  BY <1>2, <1>5, <1>7 DEF IInv, TypeOK
<1>12. /\ pc = "try" /\ ep' = ep /\ perKey' = perKey /\ limit' = limit /\ wait' = wait
       /\ started' = started /\ AfterTry(status')
  BY DEF Try
<1> QED
  BY <1>2, <1>3, <1>4, <1>8, <1>9, <1>10, <1>11, <1>12, TryStep

\* A try on an ended context sends nothing (intake.go:237-240).
LEMMA TryEndedInv == IInv /\ TryEnded => IInv'
<1> SUFFICES ASSUME IInv, TryEnded PROVE IInv'
  OBVIOUS
<1>1. /\ pc = "try" /\ ep' = ep /\ perKey' = perKey /\ limit' = limit /\ wait' = wait
      /\ started' = started /\ now' = now /\ now >= limit
      /\ status' = NoAnswer /\ AfterTry(status')
      /\ answers' = answers /\ times' = times /\ stored' = stored
  BY DEF TryEnded, historyVars
<1>2. /\ started[ep] \in Nat /\ limit \in Nat /\ now \in Nat /\ now <= limit
      /\ limit > started[ep] \/ started[ep] >= Deadline
  BY <1>1, LimitFacts
<1>3. answers[ep] # <<>> \/ started[ep] >= Deadline
  BY <1>1, <1>2 DEF IInv, LadderInv
<1>4. LastAnswer(ep)' \in Unsettled
  BY <1>1 DEF IInv, LadderInv, LastAnswer
<1>5. status' \in Answers /\ status' # "ok"
  BY <1>1 DEF Answers, NoAnswer
<1>6. /\ answers' \in [Endpoints -> Seq(Answers)] /\ stored' \in [Endpoints -> BOOLEAN]
      /\ times' \in [Endpoints -> Seq((0..Deadline) \X (0..Deadline))]
      /\ \A e \in Endpoints : Len(times'[e]) = Len(answers'[e])
      /\ \A e \in Endpoints \ {ep} : answers'[e] = answers[e] /\ stored'[e] = stored[e]
  BY <1>1 DEF IInv, TypeOK
<1>7. Len(answers'[ep]) <= Len(answers[ep]) + 1 /\ now' <= limit /\ now <= now' /\ now' \in Nat
  <2>1. Len(answers[ep]) \in Nat
    BY DEF IInv, TypeOK
  <2> QED
    BY <1>1, <1>2, <2>1
<1> QED
  BY <1>1, <1>3, <1>4, <1>5, <1>6, <1>7, TryStep

\* The invariant of a call, from its first ladder to its return
\* (intake.go:104-215).
THEOREM Invariance == Spec => []IInv
<1>1. IInv /\ [Next]_vars => IInv'
  <2> SUFFICES ASSUME IInv, [Next]_vars PROVE IInv'
    OBVIOUS
  <2>1. CASE Next /\ ~Returned
    BY <2>1, BeginInv, BeginBadURLInv, BuildFailsInv, TryInv, TryEndedInv, SleepInv,
       SleepEndedInv, NextEndpointInv DEF Next
  <2>2. CASE UNCHANGED vars
    BY <2>2 DEF vars, ladderVars, historyVars, IInv, TypeOK, InTurn, Untouched, LadderInv,
       LastAnswer, Latched, TurnsOver, Tried, AdditionalBounded
  <2> QED
    BY <2>1, <2>2 DEF Returned
<1> QED
  BY <1>1, InitInv, PTL DEF Spec

\* Every variable of a call keeps the values the code gives it: no ladder beyond
\* its last try, no time beyond the deadline and the request it cuts
\* (intake.go:119-149).
THEOREM TypeCorrect == Spec => []TypeOK
BY Invariance, PTL DEF IInv

\* The caller acknowledges only what the primary has stored and drops only what
\* the primary has refused, whatever the additional endpoints answer
\* (intake.go:156-161; agent.go:299-320).
THEOREM PrimaryDecides == Spec => []OutcomeIsPrimarys
<1>1. IInv => OutcomeIsPrimarys
  BY DEF IInv, TypeOK, Result, Latched, OutcomeIsPrimarys, Outcome
<1> QED
  BY <1>1, Invariance, PTL

\* Every endpoint whose turn comes before the deadline is sent the payload.
LEMMA AllTried == ASSUME IInv, pc = "returned", NEW e \in Endpoints \ BadURL PROVE Tried(e)
<1>1. CASE e < ep \/ e = ep
  BY <1>1 DEF IInv, TurnsOver
<1>2. CASE e > ep
  <2>1. Untouched(e) /\ perKey
    BY <1>2, Bounds DEF IInv, TypeOK, InTurn, TurnsOver, Endpoints
  <2> QED
    BY <2>1 DEF Untouched, Tried
<1> QED
  BY <1>1, <1>2, Bounds DEF IInv, TypeOK, Endpoints

\* The times at which the turns come, one AdditionalTimeout apart.
LEMMA TurnByFacts ==
  ASSUME PrimaryDone, IInv, NEW e \in Nat, e > 1
  PROVE  /\ PrimaryEnd \in Nat /\ TurnBy(e) \in Nat
         /\ TurnBy(2) = PrimaryEnd /\ TurnBy(e + 1) = TurnBy(e) + AdditionalTimeout
<1>1. PrimaryEnd \in Nat
  <2>1. CASE 1 \in BadURL
    BY <2>1 DEF PrimaryEnd
  <2>2. CASE 1 \notin BadURL
    <3>1. /\ times[1] \in Seq((0..Deadline) \X (0..Deadline))
          /\ Len(times[1]) = Len(answers[1]) /\ answers[1] \in Seq(Answers)
      BY Bounds DEF IInv, TypeOK
    <3>2. Len(answers[1]) > 0
      BY <2>2, <3>1, Bounds DEF PrimaryDone, LastAnswer, NoAnswer
    <3>3. times[1][Len(times[1])] \in (0..Deadline) \X (0..Deadline)
      BY <3>1, <3>2
    <3>4. times[1][Len(times[1])][2] \in 0..Deadline
      BY <3>3
    <3> QED
      BY <2>2, <3>4, Bounds DEF PrimaryEnd
  <2> QED
    BY <2>1, <2>2
<1>2. AdditionalTimeout \in Nat
  BY Bounds
<1>3. (e - 2) * AdditionalTimeout \in Nat /\ (e + 1 - 2) * AdditionalTimeout = (e - 2) * AdditionalTimeout + AdditionalTimeout
  BY <1>2
<1>4. (2 - 2) * AdditionalTimeout = 0
  BY <1>2
<1> QED
  BY ONLY <1>1, <1>2, <1>3, <1>4, e \in Nat DEF TurnBy

LEMMA EndFacts == PrimaryDone /\ IInv => PrimaryEnd \in Nat /\ TurnBy(2) = PrimaryEnd
BY TurnByFacts

\* What keeps PrimaryDone and PrimaryEnd.
LEMMA PrimaryKept ==
  ASSUME answers'[1] = answers[1], times'[1] = times[1]
  PROVE  (PrimaryDone' <=> PrimaryDone) /\ PrimaryEnd' = PrimaryEnd /\ \A e : TurnBy(e)' = TurnBy(e)
BY DEF PrimaryDone, PrimaryEnd, TurnBy, LastAnswer

\* A step of the ladder of an additional endpoint, until its turn is over.
LEMMA LadderInTime ==
  ASSUME IInv, InTime, IInv', ep > 1, ep' = ep, pc \in {"try", "sleep"}, pc' \in {"try", "sleep", "next"},
         started' = started, now' <= limit, now' \in Nat,
         answers'[1] = answers[1], times'[1] = times[1]
  PROVE  InTime'
<1>1. ep \in Nat /\ ep > 1 /\ ep \in Endpoints
  BY Bounds DEF IInv, TypeOK, Endpoints
<1>2. CASE PrimaryDone
  <2>1. \A e \in Endpoints : e > 1 => started[e] <= TurnBy(e)
    BY <1>2 DEF InTime
  <2>2. limit <= started[ep] + AdditionalTimeout /\ limit \in Nat /\ started[ep] \in Nat
    BY <1>1, LimitFacts
  <2>3. TurnBy(ep) \in Nat /\ TurnBy(ep + 1) = TurnBy(ep) + AdditionalTimeout
    BY <1>1, <1>2, TurnByFacts
  <2>4. now' <= TurnBy(ep + 1)
    BY <1>1, <2>1, <2>2, <2>3, Bounds
  <2>5. \A e : TurnBy(e)' = TurnBy(e)
    BY PrimaryKept
  <2> QED
    BY <1>1, <2>1, <2>4, <2>5 DEF InTime
<1>3. CASE ~PrimaryDone
  BY <1>1, <1>3, PrimaryKept DEF InTime
<1> QED
  BY <1>2, <1>3

\* The primary's own ladder: it is done only with its last request.
LEMMA PrimaryInTime ==
  ASSUME IInv, InTime, ep = 1, ep' = 1, pc' # "build", started' = started,
         PrimaryDone' /\ pc' = "next" => now' = PrimaryEnd' /\ IInv'
  PROVE  InTime'
<1> SUFFICES ASSUME PrimaryDone', pc' = "next"
             PROVE  /\ \A e \in Endpoints : e > 1 => started'[e] <= TurnBy(e)'
                    /\ now' <= TurnBy(2)'
  BY DEF InTime
<1>1. PrimaryEnd' \in Nat /\ TurnBy(2)' = PrimaryEnd'
  <2>1. (PrimaryDone /\ IInv => PrimaryEnd \in Nat /\ TurnBy(2) = PrimaryEnd)'
    BY EndFacts, PTL
  <2> QED
    BY <2>1
<1>2. now' <= TurnBy(2)'
  BY <1>1
<1>3. ASSUME NEW e \in Endpoints, e > 1 PROVE started'[e] <= TurnBy(e)'
  <2>1. started[e] = -1
    BY <1>3, Bounds DEF IInv, InTurn, Untouched
  <2>2. (e - 2) * AdditionalTimeout \in Nat
    BY <1>3, Bounds DEF Endpoints
  <2>3. TurnBy(e)' = PrimaryEnd' + (e - 2) * AdditionalTimeout
    BY DEF TurnBy
  <2> QED
    BY <1>1, <2>1, <2>2, <2>3
<1> QED
  BY <1>2, <1>3

\* Every step keeps the turns in time.
LEMMA InTimeStep == IInv /\ InTime /\ IInv' /\ [Next]_vars => InTime'
<1> SUFFICES ASSUME IInv, InTime, IInv', [Next]_vars PROVE InTime'
  OBVIOUS
<1> USE Bounds
<1>1. /\ ep \in Endpoints /\ ep \in Nat /\ now \in Nat /\ (ep = 1 \/ ep > 1)
      /\ answers \in [Endpoints -> Seq(Answers)] /\ times \in [Endpoints -> Seq((0..Deadline) \X (0..Deadline))]
      /\ \A e \in Endpoints : Len(times[e]) = Len(answers[e])
  <2>1. ep \in Endpoints /\ now \in 0..Deadline
    BY DEF IInv, TypeOK
  <2>2. ep \in Nat /\ now \in Nat /\ (ep = 1 \/ ep > 1)
    BY <2>1 DEF Endpoints
  <2> QED
    BY <2>1, <2>2 DEF IInv, TypeOK
<1>2. CASE Begin
  <2>1. /\ ep' = ep /\ pc' = "try" /\ pc = "build" /\ answers' = answers /\ times' = times
        /\ started' = [started EXCEPT ![ep] = now]
    BY <1>2 DEF Begin, historyVars
  <2>2. (PrimaryDone' <=> PrimaryDone) /\ \A e : TurnBy(e)' = TurnBy(e)
    BY <2>1, PrimaryKept
  <2>3. started'[ep] = now /\ \A e \in Endpoints : e # ep => started'[e] = started[e]
    BY <1>1, <2>1 DEF IInv, TypeOK
  <2> QED
    BY <1>1, <2>1, <2>2, <2>3 DEF InTime
<1>3. CASE BeginBadURL \/ BuildFails
  <2>1. /\ ep' = ep /\ pc = "build" /\ answers' = answers /\ times' = times /\ started' = started /\ now' = now
        /\ pc' \in {"next", "returned"} /\ (pc' = "next" /\ ep = 1 => 1 \in BadURL)
    BY <1>3 DEF BeginBadURL, BuildFails, historyVars, SendReturns
  <2>2. (PrimaryDone' <=> PrimaryDone) /\ \A e : TurnBy(e)' = TurnBy(e)
    BY <2>1, PrimaryKept
  <2>3. CASE ep > 1
    <3>1. PrimaryDone => TurnBy(ep) \in Nat /\ TurnBy(ep + 1) = TurnBy(ep) + AdditionalTimeout
      BY <1>1, <2>3, TurnByFacts
    <3> QED
      BY <1>1, <2>1, <2>2, <2>3, <3>1 DEF InTime
  <2>4. CASE ep = 1
    <3>1. now' = 0
      BY <2>1, <2>4 DEF InTime
    <3>2. pc' = "next" => PrimaryEnd' = 0
      BY <2>1, <2>4 DEF PrimaryEnd
    <3> QED
      BY <2>1, <2>4, <3>1, <3>2, PrimaryInTime
  <2> QED
    BY <1>1, <2>3, <2>4
<1>4. CASE Try
  <2>1. PICK d \in Durations, answer \in Answers, store \in BOOLEAN : Request(d, answer, store)
    BY <1>4 DEF Try
  <2>2. /\ ep' = ep /\ pc = "try" /\ started' = started /\ AfterTry(status')
        /\ answers' = [answers EXCEPT ![ep] = Append(@, status')]
        /\ times' = [times EXCEPT ![ep] = Append(@, <<now, now'>>)]
    BY <1>4, <2>1 DEF Try, Request
  <2>3. pc' \in {"sleep", "next"}
    BY <2>2 DEF AfterTry, SendReturns
  <2>4. now' \in Nat /\ now' <= limit
    <3>1. d \in Nat /\ limit \in Nat
      BY LimitFacts, <2>2
    <3> QED
      BY <1>1, <2>1, <3>1 DEF Request, Min2
  <2>5. CASE ep > 1
    <3>1. answers'[1] = answers[1] /\ times'[1] = times[1]
      BY <1>1, <2>2, <2>5
    <3> QED
      BY <2>2, <2>3, <2>4, <2>5, <3>1, LadderInTime
  <2>6. CASE ep = 1
    <3>1. times'[1] = Append(times[1], <<now, now'>>)
      BY <1>1, <2>2, <2>6
    <3>2. times[1] \in Seq((0..Deadline) \X (0..Deadline))
      BY <1>1
    <3>3. times'[1][Len(times'[1])][2] = now'
      BY <3>1, <3>2
    <3>4. 1 \notin BadURL
      BY <2>2, <2>6 DEF IInv, LadderInv
    <3>5. PrimaryEnd' = now'
      BY <3>3, <3>4 DEF PrimaryEnd
    <3> QED
      BY <2>2, <2>3, <2>6, <3>5, PrimaryInTime
  <2> QED
    BY <1>1, <2>5, <2>6
<1>5. CASE TryEnded \/ Sleep \/ SleepEnded
  <2>1. /\ ep' = ep /\ pc \in {"try", "sleep"} /\ started' = started /\ answers' = answers /\ times' = times
        /\ pc' \in {"try", "sleep", "next"}
    BY <1>5 DEF TryEnded, Sleep, SleepEnded, AfterTry, SendReturns, historyVars
  <2>2. now' \in Nat /\ now' <= limit
    <3>1. limit \in Nat /\ wait \in Nat /\ now <= limit
      BY <2>1, LimitFacts
    <3>2. now' = now \/ now' = limit \/ (now' = now + wait /\ now + wait <= limit)
      BY <1>5 DEF TryEnded, Sleep, SleepEnded
    <3> QED
      BY <1>1, <3>1, <3>2
  <2>3. CASE ep > 1
    BY <2>1, <2>2, <2>3, LadderInTime
  <2>4. CASE ep = 1
    <3>1. /\ LastAnswer(1) \in Unsettled /\ Len(answers[1]) <= try /\ try < MaxTries /\ 1 \notin BadURL
      BY <2>1, <2>4 DEF IInv, LadderInv, TypeOK
    <3>2. Len(answers[1]) \in Nat /\ try \in Nat
      BY <1>1 DEF IInv, TypeOK
    <3>3. ~PrimaryDone
      BY <3>1, <3>2 DEF PrimaryDone, Unsettled, NoAnswer
    <3> QED
      BY <2>1, <2>4, <3>3, PrimaryKept, PrimaryInTime
  <2> QED
    BY <1>1, <2>3, <2>4
<1>6. CASE NextEndpoint
  <2>1. /\ pc = "next" /\ answers' = answers /\ times' = times /\ started' = started /\ now' = now
        /\ \/ ep' = ep + 1 /\ pc' = "build"
           \/ ep' = ep /\ pc' = "returned"
    BY <1>6 DEF NextEndpoint, historyVars
  <2>2. (PrimaryDone' <=> PrimaryDone) /\ \A e : TurnBy(e)' = TurnBy(e)
    BY <2>1, PrimaryKept
  <2> QED
    BY <1>1, <2>1, <2>2 DEF InTime
<1>7. CASE UNCHANGED vars
  BY <1>7, PrimaryKept DEF vars, ladderVars, historyVars, InTime
<1> QED
  BY <1>2, <1>3, <1>4, <1>5, <1>6, <1>7 DEF Next, Returned

\* An additional endpoint's turn comes as long as the primary's ladder, and
\* AdditionalTimeout for each of the others before it, leave it time: what the
\* others answer, and whether they hang, changes nothing (intake.go:156-211).
THEOREM TurnsCome == Spec => []TurnComes
<1>1. Init => InTime
  BY DEF Init, InTime
<1>2. IInv /\ InTime => TurnComes
  <2> SUFFICES ASSUME IInv, InTime, pc = "returned", PrimaryDone, NEW e \in Endpoints \ (BadURL \cup {1})
               PROVE  /\ ~perKey => started[e] # -1
                      /\ started[e] # -1 /\ TurnBy(e) < Deadline => answers[e] # <<>>
    BY DEF TurnComes
  <2>1. Tried(e)
    BY AllTried
  <2>2. e \in Nat /\ e > 1 /\ started[e] \in -1..Deadline /\ Deadline \in Nat /\ ep \in Endpoints
    BY Bounds DEF IInv, TypeOK, Endpoints
  <2>3. TurnBy(e) \in Nat
    BY <2>2, TurnByFacts
  <2>4. started[e] # -1 => started[e] <= TurnBy(e)
    <3>1. CASE ep > 1
      BY <2>2, <3>1 DEF InTime
    <3>2. CASE ~(ep > 1)
      <4>1. Untouched(e)
        BY <2>2, <3>2, Bounds DEF IInv, InTurn, Endpoints
      <4> QED
        BY <4>1 DEF Untouched
    <3> QED
      BY <3>1, <3>2
  <2> QED
    BY <2>1, <2>2, <2>3, <2>4 DEF Tried
<1> QED
  BY <1>1, <1>2, InTimeStep, Invariance, PTL DEF Spec


\* An additional endpoint costs the caller no more than its short deadline
\* (intake.go:42-46).
THEOREM AdditionalIsBounded == Spec => []AdditionalBounded
BY Invariance, PTL DEF IInv

----------------------------------------------------------------------------
(* A call implements IntakeCall.                                           *)

\* What the caller is told when the turn of an endpoint is over: the outcome of
\* the primary's turn, or what it was told before (intake.go:156-161, 199-212).
LEMMA ToldAfter ==
  ASSUME IInv, ep' = ep, NEW st \in Answers, NEW failed \in BOOLEAN, SendReturns(st, failed),
         pc \notin {"next", "returned"}
  PROVE  IF ep = 1
         THEN /\ Told = "pending"
              /\ Told' = IF ~failed THEN "delivered" ELSE IF st = "permanent" THEN "refused" ELSE "retry"
         ELSE Told' = Told
<1>1. CASE ep = 1
  BY <1>1 DEF SendReturns, Told, Outcome
<1>2. CASE ep # 1
  BY <1>2 DEF SendReturns, Told, Outcome
<1> QED
  BY <1>1, <1>2

\* Neither a try nor what it leaves decides anything but what IntakeCall says.
LEMMA TryCall ==
  ASSUME IInv, pc = "try", ep' = ep, status' \in Answers, AfterTry(status'),
         NEW store \in BOOLEAN, stored' = [stored EXCEPT ![ep] = @ \/ store],
         status' = "ok" => store, status' = "permanent" => ~store
  PROVE  Call!Next \/ UNCHANGED <<ep, stored, Told>>
<1>1. /\ ep \in Endpoints /\ stored \in [Endpoints -> BOOLEAN]
      /\ ep = 1 => Told = "pending"
  BY DEF IInv, TypeOK, Told
<1>2. stored' = stored \/ stored' = [stored EXCEPT ![ep] = TRUE]
  BY <1>1
<1>3. ~store => stored' = stored
  BY <1>1
<1>4. store => stored' = [stored EXCEPT ![ep] = TRUE]
  BY <1>1
<1>5. CASE Told' = Told
  <2>1. CASE stored' = stored
    BY <1>5, <2>1
  <2>2. CASE stored' = [stored EXCEPT ![ep] = TRUE]
    BY <1>1, <1>5, <2>2 DEF Call!Next, Call!Store, Call!Pending
  <2> QED
    BY <1>2, <2>1, <2>2
<1>6. CASE Told' # Told
  <2>1. PICK failed \in BOOLEAN : SendReturns(status', failed) /\ (failed = (status' # "ok"))
    <3>1. CASE status' \in {"ok", "permanent"}
      <4>1. SendReturns(status', status' # "ok") /\ (status' # "ok") \in BOOLEAN
        BY <3>1 DEF AfterTry
      <4> QED
        BY <4>1
    <3>2. CASE status' \notin {"ok", "permanent"} /\ try + 1 = MaxTries
      <4>1. SendReturns(status', TRUE) /\ TRUE = (status' # "ok")
        BY <3>2 DEF AfterTry
      <4> QED
        BY <4>1
    <3>3. CASE status' \notin {"ok", "permanent"} /\ try + 1 # MaxTries
      <4>1. pc' = "sleep" /\ result' = result
        BY <3>3 DEF AfterTry
      <4>2. Told' = Told
        BY <4>1 DEF Told, Outcome
      <4> QED
        BY <1>6, <4>2
    <3> QED
      BY <3>1, <3>2, <3>3
  <2>2. /\ ep = 1 /\ Told = "pending"
        /\ Told' = IF ~failed THEN "delivered" ELSE IF status' = "permanent" THEN "refused" ELSE "retry"
    BY <1>6, <2>1, ToldAfter
  <2>3. CASE status' = "ok"
    <3>1. Told' = "delivered" /\ stored' = [stored EXCEPT ![1] = TRUE]
      BY <1>4, <2>1, <2>2, <2>3
    <3> QED
      BY <2>2, <3>1 DEF Call!Next, Call!Deliver, Call!Pending
  <2>4. CASE status' = "permanent"
    <3>1. Told' = "refused" /\ stored' = stored
      BY <1>3, <2>1, <2>2, <2>4
    <3> QED
      BY <2>2, <3>1 DEF Call!Next, Call!Refuse, Call!Pending
  <2>5. CASE status' \notin {"ok", "permanent"}
    <3>1. Told' = "retry"
      BY <2>1, <2>2, <2>5
    <3> QED
      BY <1>2, <2>2, <3>1 DEF Call!Next, Call!GiveUp, Call!Pending
  <2> QED
    BY <2>3, <2>4, <2>5
<1> QED
  BY <1>5, <1>6

LEMMA CallStep == IInv /\ [Next]_vars => [Call!Next]_(Call!vars)
<1> SUFFICES ASSUME IInv, [Next]_vars PROVE Call!Next \/ UNCHANGED <<ep, stored, Told>>
  BY DEF Call!vars
<1>1. ep \in 1..N /\ N \in Nat /\ stored \in [Endpoints -> BOOLEAN] /\ status \in Answers
  BY Bounds DEF IInv, TypeOK, Endpoints
<1>2. NoAnswer \in Answers /\ NoAnswer # "ok" /\ NoAnswer # "permanent"
  BY DEF Answers, NoAnswer
<1>3. CASE Begin
  BY <1>3 DEF Begin, historyVars, Told, Outcome
\* An endpoint whose turn ends without an answer: the call gives up on it.
<1>4. ASSUME NEW st \in Answers, st # "permanent", SendReturns(st, TRUE), ep' = ep, stored' = stored,
             pc \notin {"next", "returned"}
      PROVE  Call!Next \/ UNCHANGED <<ep, stored, Told>>
  <2>1. CASE ep = 1
    <3>1. Told = "pending" /\ Told' = "retry"
      BY <1>4, <2>1, ToldAfter
    <3> QED
      BY <1>4, <2>1, <3>1 DEF Call!Next, Call!GiveUp, Call!Pending
  <2>2. CASE ep # 1
    <3>1. Told' = Told
      BY <1>4, <2>2, ToldAfter
    <3> QED
      BY <1>4, <3>1
  <2> QED
    BY <2>1, <2>2
<1>5. CASE BeginBadURL
  BY <1>2, <1>4, <1>5 DEF BeginBadURL, historyVars
<1>6. CASE BuildFails
  <2>1. pc = "build" /\ ep' = ep /\ stored' = stored
    BY <1>6 DEF BuildFails, historyVars
  <2>2. CASE ep = 1
    <3>1. pc' = "returned" /\ result' = result
      BY <1>6, <2>2 DEF BuildFails
    <3>2. result = NoResult
      BY <2>1, <2>2 DEF IInv, Latched
    <3>3. Told = "pending" /\ Told' = "retry"
      BY <2>1, <2>2, <3>1, <3>2 DEF Told, Outcome, NoResult, NoAnswer
    <3> QED
      BY <2>1, <2>2, <3>3 DEF Call!Next, Call!GiveUp, Call!Pending
  <2>3. CASE ep # 1
    <3>1. SendReturns(NoAnswer, TRUE)
      BY <1>6, <2>3 DEF BuildFails
    <3> QED
      BY <1>2, <1>4, <2>1, <3>1
  <2> QED
    BY <2>2, <2>3
<1>7. CASE Try
  <2>1. PICK d \in Durations, answer \in Answers, store \in BOOLEAN : Request(d, answer, store)
    BY <1>7 DEF Try
  <2>2. /\ stored' = [stored EXCEPT ![ep] = @ \/ store] /\ status' \in Answers
        /\ status' = "ok" => store
        /\ status' = "permanent" => ~store
    BY <2>1 DEF Request, Answers
  <2>3. pc = "try" /\ ep' = ep /\ AfterTry(status')
    BY <1>7 DEF Try
  <2> QED
    BY <2>2, <2>3, TryCall
<1>8. CASE TryEnded
  <2>1. pc = "try" /\ ep' = ep /\ status' = NoAnswer /\ AfterTry(status') /\ stored' = stored
    BY <1>8 DEF TryEnded, historyVars
  <2>2. stored' = [stored EXCEPT ![ep] = @ \/ FALSE]
    BY <1>1, <2>1
  <2> QED
    BY <1>2, <2>1, <2>2, TryCall
<1>9. CASE Sleep
  BY <1>9 DEF Sleep, historyVars, Told, Outcome
<1>10. CASE SleepEnded
  <2>1. pc = "sleep" /\ ep' = ep /\ stored' = stored /\ SendReturns(status, TRUE)
    BY <1>10 DEF SleepEnded, historyVars
  <2>2. status # "permanent"
    BY <2>1 DEF IInv, LadderInv, Unsettled, NoAnswer
  <2> QED
    BY <1>1, <1>4, <2>1, <2>2
<1>11. CASE NextEndpoint
  <2>1. pc = "next" /\ result' = result /\ stored' = stored
    BY <1>11 DEF NextEndpoint, historyVars
  <2>2. Told = Outcome /\ Outcome' = Outcome /\ Outcome # "pending"
    BY <2>1 DEF Told, Outcome
  <2>3. CASE ep < N
    <3>1. ep' = ep + 1 /\ Told' = Outcome
      BY <1>1, <1>11, <2>2, <2>3 DEF NextEndpoint, Told
    <3> QED
      BY <2>1, <2>2, <2>3, <3>1 DEF Call!Next, Call!NextTurn, Call!Pending
  <2>4. CASE ~(ep < N)
    <3>1. ep' = ep /\ pc' = "returned"
      BY <1>11, <2>4 DEF NextEndpoint
    <3> QED
      BY <2>1, <2>2, <3>1 DEF Told
  <2> QED
    BY <2>3, <2>4
<1>12. CASE Returned \/ UNCHANGED vars
  BY <1>12 DEF Returned, vars, historyVars, Told, Outcome
<1> QED
  BY <1>3, <1>5, <1>6, <1>7, <1>8, <1>9, <1>10, <1>11, <1>12 DEF Next

\* Whatever the network and the endpoints do, and however the tries and the
\* deadlines fall, a call tells its caller once what became of the payload, as
\* the primary decided it, and leaves the primary alone from then on
\* (intake.go:119-161, 199-212).
THEOREM ImplementsCall == Spec => CallSpec
<1>1. Init => Call!Init
  BY DEF Init, Call!Init, Call!Pending, Told, Endpoints
<1> QED
  BY <1>1, CallStep, Invariance, PTL DEF Spec, CallSpec, Call!Spec
----------------------------------------------------------------------------

LEMMA Pow2Facts ==
  /\ Pow2[0] = 1
  /\ \A n \in Nat : Pow2[n] \in Nat /\ Pow2[n] > 0 /\ Pow2[n + 1] = 2 * Pow2[n]
<1> DEFINE double == [n \in Nat |-> [m \in Nat |-> 2 * m]]
           T == {n \in Nat : Pow2[n] \in Nat /\ Pow2[n] > 0}
<1>1. Pow2 = [n \in Nat |-> IF n = 0 THEN 1 ELSE 2 * Pow2[n - 1]]
  <2>1. double \in [Nat -> [Nat -> Nat]] /\ \A n, m \in Nat : double[n][m] = 2 * m
    OBVIOUS
  <2> HIDE DEF double
  <2>2. PICK f : Iterates(f, Nat, 1, double)
    <3>1. 1 \in Nat
      OBVIOUS
    <3> QED
      BY <2>1, <3>1, RecursionOnNat
  <2>3. ASSUME NEW n \in Nat PROVE f[n] = IF n = 0 THEN 1 ELSE 2 * f[n - 1]
    <3>1. CASE n = 0
      BY <2>2, <3>1 DEF Iterates
    <3>2. CASE n # 0
      <4>1. n - 1 \in Nat /\ (n - 1) + 1 = n
        BY <3>2
      <4> QED
        BY <2>1, <2>2, <3>2, <4>1 DEF Iterates
    <3> QED
      BY <3>1, <3>2
  <2>4. f = [n \in Nat |-> IF n = 0 THEN 1 ELSE 2 * f[n - 1]]
    BY <2>2, <2>3 DEF Iterates
  <2> QED
    BY <2>4 DEF Pow2
<1>2. Pow2[0] = 1
  BY <1>1
<1>3. ASSUME NEW n \in Nat PROVE Pow2[n + 1] = 2 * Pow2[n]
  <2>1. n + 1 \in Nat /\ n + 1 # 0 /\ (n + 1) - 1 = n
    OBVIOUS
  <2> QED
    BY <1>1, <2>1
<1>4. T = Nat
  <2>1. 0 \in T
    BY <1>2
  <2>2. ASSUME NEW n \in T PROVE n + 1 \in T
    BY <1>3
  <2>3. T \subseteq Nat
    OBVIOUS
  <2> HIDE DEF T
  <2> QED
    BY <2>1, <2>2, <2>3, InductionOnNat
<1> QED
  BY <1>2, <1>3, <1>4
----------------------------------------------------------------------------
(* The discipline of a ladder.                                             *)

\* What a ladder that may still send has done: nothing but requests that did not
\* settle the payload, each as late as the back-off asks, and the next pause is
\* the doubled one (intake.go:126-148).
RetryInv ==
  pc \in {"try", "sleep"} /\ now < limit =>
    /\ Len(answers[ep]) = try
    /\ \A i \in 1..try : answers[ep][i] \in Unsettled
    /\ pc = "try" => wait = PauseAfter(try + 1)
    /\ pc = "try" /\ try > 0 => now - times[ep][try][2] >= PauseAfter(try)
    /\ pc = "sleep" => try > 0 /\ wait = PauseAfter(try) /\ times[ep][try][2] = now

\* The pauses start at the back-off and double up to the maximum.
LEMMA PauseFacts ==
  /\ PauseAfter(1) = Backoff
  /\ \A i \in Nat \ {0} : /\ PauseAfter(i) \in Nat
                          /\ PauseAfter(i + 1) = Min2(2 * PauseAfter(i), BackoffMax)
<1> USE Bounds
<1>1. PauseAfter(1) = Backoff
  BY Pow2Facts DEF PauseAfter, Min2
<1>2. ASSUME NEW i \in Nat \ {0}
      PROVE  PauseAfter(i) \in Nat /\ PauseAfter(i + 1) = Min2(2 * PauseAfter(i), BackoffMax)
  <2>1. i - 1 \in Nat /\ (i + 1) - 1 = (i - 1) + 1
    OBVIOUS
  <2>2. PICK p \in Nat : p = Pow2[i - 1]
    BY <2>1, Pow2Facts
  <2>3. Pow2[(i + 1) - 1] = 2 * p
    BY <2>1, <2>2, Pow2Facts
  <2>4. PICK x \in Nat : x = Backoff * p
    OBVIOUS
  <2>5. Backoff * (2 * p) = 2 * x
    BY <2>4
  <2>6. PauseAfter(i) = Min2(x, BackoffMax) /\ PauseAfter(i + 1) = Min2(2 * x, BackoffMax)
    BY <2>2, <2>3, <2>4, <2>5 DEF PauseAfter
  <2> QED
    BY <2>6 DEF Min2
<1> QED
  BY <1>1, <1>2

LEMMA TryDisciplined ==
  ASSUME IInv, LadderDisciplined, RetryInv, Try
  PROVE  LadderDisciplined' /\ RetryInv'
<1> USE Bounds
<1>1. PICK d \in Durations, answer \in Answers, store \in BOOLEAN : Request(d, answer, store)
  BY DEF Try
<1>2. /\ now \in Nat /\ limit \in Nat /\ now < limit /\ ep \in Endpoints /\ try \in Nat
      /\ answers \in [Endpoints -> Seq(Answers)]
      /\ times \in [Endpoints -> Seq((0..Deadline) \X (0..Deadline))]
      /\ \A e \in Endpoints : Len(times[e]) = Len(answers[e])
  <2>1. TypeOK /\ now < limit
    BY <1>1 DEF Request, IInv
  <2> QED
    BY <2>1 DEF TypeOK
<1>3. /\ pc = "try" /\ ep' = ep /\ limit' = limit /\ wait' = wait /\ AfterTry(status')
      /\ answers' = [answers EXCEPT ![ep] = Append(@, status')]
      /\ times' = [times EXCEPT ![ep] = Append(@, <<now, now'>>)]
      /\ status' \in Answers
  BY <1>1 DEF Try, Request, Answers
<1>4. /\ Len(answers[ep]) = try /\ wait = PauseAfter(try + 1)
      /\ \A i \in 1..try : answers[ep][i] \in Unsettled
      /\ try > 0 => now - times[ep][try][2] >= PauseAfter(try)
  BY <1>2, <1>3 DEF RetryInv
<1>5. /\ answers'[ep] = Append(answers[ep], status') /\ times'[ep] = Append(times[ep], <<now, now'>>)
      /\ \A e \in Endpoints \ {ep} : answers'[e] = answers[e] /\ times'[e] = times[e]
  BY <1>2, <1>3
<1>6. /\ Len(answers'[ep]) = try + 1 /\ answers'[ep][try + 1] = status'
      /\ \A i \in 1..try : answers'[ep][i] = answers[ep][i]
      /\ times'[ep][try + 1] = <<now, now'>>
      /\ \A i \in 1..try : times'[ep][i] = times[ep][i]
  <2>1. answers[ep] \in Seq(Answers) /\ times[ep] \in Seq((0..Deadline) \X (0..Deadline))
        /\ Len(times[ep]) = try
    BY <1>2, <1>4
  <2>2. try \in Nat /\ Len(answers[ep]) = try /\ status' \in Answers
    BY <1>2, <1>3, <1>4
  <2>3. /\ Len(answers'[ep]) = try + 1 /\ answers'[ep][try + 1] = status'
        /\ \A i \in 1..try : answers'[ep][i] = answers[ep][i]
    BY <1>5, <2>1, <2>2
  <2>4. /\ times'[ep][try + 1] = <<now, now'>>
        /\ \A i \in 1..try : times'[ep][i] = times[ep][i]
    BY <1>5, <2>1, <2>2
  <2> QED
    BY <2>3, <2>4
<1>7. LadderDisciplined'
  <2> SUFFICES ASSUME NEW e \in Endpoints, NEW i \in 1..(Len(answers'[e]) - 1)
               PROVE  /\ answers'[e][i] \in Unsettled
                      /\ times'[e][i + 1][1] - times'[e][i][2] >= PauseAfter(i)
    BY DEF LadderDisciplined, Unsettled
  <2>1. CASE e # ep
    BY <1>5, <2>1 DEF LadderDisciplined, Unsettled
  <2>2. CASE e = ep
    <3>0. try \in Nat /\ Len(answers[ep]) = try /\ Len(answers'[ep]) = try + 1
      BY <1>2, <1>4, <1>6
    <3>1. i \in 1..try /\ answers'[e][i] \in Unsettled /\ times'[e][i] = times[e][i]
      <4>1. i \in 1..try
        BY <2>2, <3>0
      <4> QED
        BY <1>4, <1>6, <2>2, <4>1
    <3>2. CASE i = try
      <4>1. times'[e][i + 1][1] = now /\ times'[e][i][2] = times[ep][try][2]
        BY <1>6, <2>2, <3>1, <3>2
      <4>2. now - times[ep][try][2] >= PauseAfter(try)
        BY <1>2, <1>4, <3>1, <3>2
      <4> QED
        BY <3>1, <3>2, <4>1, <4>2
    <3>3. CASE i # try
      <4>1. i \in 1..(Len(answers[ep]) - 1) /\ i + 1 \in 1..try
        BY <3>0, <3>1, <3>3
      <4>2. times'[e][i + 1] = times[e][i + 1]
        BY <1>6, <2>2, <4>1
      <4> QED
        BY <2>2, <3>1, <4>1, <4>2 DEF LadderDisciplined
    <3> QED
      BY <3>2, <3>3
  <2> QED
    BY <2>1, <2>2
<1>8. RetryInv'
  <2> SUFFICES ASSUME pc' = "sleep" PROVE RetryInv'
    BY <1>3 DEF AfterTry, SendReturns, RetryInv
  <2>1. try' = try + 1 /\ status' \in Unsettled
    BY <1>3 DEF AfterTry, SendReturns, Answers, Statuses, NoAnswer, Unsettled
  <2>2. \A i \in 1..(try + 1) : answers'[ep][i] \in Unsettled
    <3> SUFFICES ASSUME NEW i \in 1..(try + 1) PROVE answers'[ep][i] \in Unsettled
      OBVIOUS
    <3>1. i \in 1..try \/ i = try + 1
      BY <1>2
    <3> QED
      BY <1>4, <1>6, <2>1, <3>1
  <2>3. Len(answers'[ep]) = try' /\ try' > 0 /\ \A i \in 1..try' : answers'[ep][i] \in Unsettled
    BY <1>2, <1>6, <2>1, <2>2
  <2>4. wait' = PauseAfter(try')
    BY <1>3, <1>4, <2>1
  <2>5. times'[ep][try'][2] = now'
    BY <1>6, <2>1
  <2> QED
    BY <1>3, <2>3, <2>4, <2>5 DEF RetryInv
<1> QED
  BY <1>7, <1>8

LEMMA SleepDisciplined ==
  ASSUME IInv, RetryInv, Sleep
  PROVE  RetryInv'
<1> USE Bounds
<1>1. /\ now \in Nat /\ limit \in Nat /\ try \in Nat /\ wait \in Nat /\ wait > 0 /\ ep \in Endpoints
  BY DEF IInv, TypeOK
<1>2. /\ pc = "sleep" /\ pc' = "try" /\ now + wait <= limit /\ now' = now + wait
      /\ wait' = Min2(2 * wait, BackoffMax)
      /\ UNCHANGED <<ep, limit, try, answers, times>>
  BY DEF Sleep, historyVars
<1>3. /\ Len(answers[ep]) = try /\ try > 0 /\ wait = PauseAfter(try) /\ times[ep][try][2] = now
      /\ \A i \in 1..try : answers[ep][i] \in Unsettled
  BY <1>1, <1>2 DEF RetryInv
<1>4. wait' = PauseAfter(try + 1)
  BY <1>1, <1>2, <1>3, PauseFacts
<1>5. now' - times[ep][try][2] = PauseAfter(try) /\ PauseAfter(try) \in Nat
  BY <1>1, <1>2, <1>3
<1> QED
  BY <1>2, <1>3, <1>4, <1>5 DEF RetryInv

\* An answer that settles the payload is the last thing an endpoint hears of it,
\* and every retry waits for the doubled pause (send, sleep).
THEOREM RetriesAreDisciplined == Spec => []LadderDisciplined
<1> USE Bounds
<1>1. Init => LadderDisciplined /\ RetryInv
  BY DEF Init, LadderDisciplined, RetryInv
<1>2. ASSUME IInv, LadderDisciplined, RetryInv, [Next]_vars
      PROVE  LadderDisciplined' /\ RetryInv'
  <2>1. CASE Try
    BY <1>2, <2>1, TryDisciplined
  <2>2. CASE Sleep
    BY <1>2, <2>2, SleepDisciplined DEF Sleep, historyVars, LadderDisciplined
  <2>3. CASE Begin
    <3>1. answers[ep] = <<>> /\ UNCHANGED <<answers, times>> /\ ep' = ep /\ try' = 0 /\ wait' = Backoff
      /\ pc' = "try"
      BY <1>2, <2>3 DEF Begin, IInv, TypeOK, InTurn, Untouched, historyVars
    <3> QED
      BY <1>2, <3>1, PauseFacts DEF LadderDisciplined, RetryInv
  <2>4. CASE TryEnded
    <3>1. UNCHANGED <<answers, times, now, limit>> /\ ~(now < limit)
      BY <1>2, <2>4 DEF TryEnded, historyVars, IInv, TypeOK
    <3> QED
      BY <1>2, <3>1 DEF LadderDisciplined, RetryInv
  <2>5. CASE BeginBadURL \/ BuildFails \/ SleepEnded \/ NextEndpoint
    <3>1. UNCHANGED <<answers, times>> /\ pc' \in {"next", "returned", "build"}
      BY <2>5 DEF BeginBadURL, BuildFails, SleepEnded, NextEndpoint, SendReturns, historyVars
    <3> QED
      BY <1>2, <3>1 DEF LadderDisciplined, RetryInv
  <2>6. CASE UNCHANGED vars
    BY <1>2, <2>6 DEF vars, ladderVars, historyVars, LadderDisciplined, RetryInv
  <2> QED
    BY <1>2, <2>1, <2>2, <2>3, <2>4, <2>5, <2>6 DEF Next, Returned
<1> QED
  BY <1>1, <1>2, Invariance, PTL DEF Spec
=============================================================================
