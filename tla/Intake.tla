------------------------------- MODULE Intake -------------------------------
(***************************************************************************)
(* internal/intake Client: one call of PostAll or PostAllFunc, the retry   *)
(* ladder of its primary endpoint on the caller's context, then one ladder *)
(* under a short deadline for each additional endpoint.                    *)
(*                                                                         *)
(* Time is counted in seconds from the start of the call.  What the        *)
(* network and an endpoint make of a request is chosen freely: how long it *)
(* takes, whether the payload is stored, and what the client is answered.  *)
(* The batcher's reading of the result is Outcome.                         *)
(***************************************************************************)
EXTENDS Integers, Sequences

CONSTANTS
  N,                 \* the number of endpoints; 1 is the primary
  BadURL,            \* the endpoints whose URL cannot form a request
  MaxTries, Backoff, \* of the client
  BackoffMax, AdditionalTimeout,
  Timeout,           \* of one HTTP request
  Deadline,          \* of the caller's context
  Durations          \* how long a request may take

Endpoints == 1..N

ASSUME EndpointsAssumption == N \in Nat \ {0} /\ BadURL \subseteq Endpoints
ASSUME LadderAssumption ==
  /\ MaxTries \in Nat \ {0} /\ Backoff \in Nat \ {0} /\ BackoffMax \in Nat
  /\ Backoff <= BackoffMax
ASSUME TimeAssumption ==
  /\ AdditionalTimeout \in Nat \ {0} /\ Timeout \in Nat /\ Deadline \in Nat
  /\ Durations \subseteq Nat

VARIABLES
  perKey,   \* PostAllFunc: the body is built for each endpoint
  pc,       \* where the call is
  ep,       \* the endpoint whose ladder runs
  now,      \* the time
  limit,    \* when the context of that ladder ends
  try, wait,
  status,   \* of the last request: 0 without an answer
  result,   \* what the call returns: the primary's status and error
  started,  \* started[e]: history: when the ladder of e began; -1: it did not
  answers,  \* answers[e]: history: the answers to the requests sent to e
  times,    \* times[e]: history: when they were sent and when they ended
  stored    \* stored[e]: history: e has stored the payload

ladderVars == <<limit, try, wait, status>>
historyVars == <<answers, times, stored>>
vars == <<perKey, pc, ep, now, ladderVars, result, started, historyVars>>

\* Permanent, and the other classes of HTTP status an endpoint answers with.
Statuses == {"ok", "permanent", "transient"}
NoAnswer == "none"
Answers == Statuses \cup {NoAnswer}

Result == [status : Answers, err : BOOLEAN]
NoResult == [status |-> NoAnswer, err |-> TRUE]

Min2(a, b) == IF a <= b THEN a ELSE b

TypeOK ==
  /\ perKey \in BOOLEAN
  /\ pc \in {"build", "try", "sleep", "next", "returned"}
  /\ ep \in Endpoints
  /\ now \in 0..Deadline
  /\ limit \in 0..Deadline
  /\ try \in 0..(MaxTries - 1)
  /\ wait \in Backoff..BackoffMax
  /\ status \in Answers
  /\ result \in Result
  /\ started \in [Endpoints -> -1..Deadline]
  /\ answers \in [Endpoints -> Seq(Answers)]
  /\ times \in [Endpoints -> Seq((0..Deadline) \X (0..Deadline))]
  /\ \A e \in Endpoints : Len(answers[e]) <= MaxTries /\ Len(times[e]) = Len(answers[e])
  /\ stored \in [Endpoints -> BOOLEAN]

Init ==
  /\ perKey \in BOOLEAN
  /\ pc = "build" /\ ep = 1 /\ now = 0
  /\ limit = Deadline /\ try = 0 /\ wait = Backoff /\ status = NoAnswer
  /\ result = NoResult
  /\ started = [e \in Endpoints |-> -1]
  /\ answers = [e \in Endpoints |-> <<>>] /\ times = [e \in Endpoints |-> <<>>]
  /\ stored = [e \in Endpoints |-> FALSE]

----------------------------------------------------------------------------
\* Mutation of SendReturns: the last endpoint's answer is the result.
SendReturnsLast(st, failed) ==
  /\ pc' = "next"
  /\ result' = [status |-> st, err |-> failed]

\* send returns: the primary's answer is the result, and the next endpoint's
\* turn comes, whatever it was.
SendReturns(st, failed) ==
  /\ pc' = "next"
  /\ result' = IF ep = 1 THEN [status |-> st, err |-> failed] ELSE result

\* Mutation of Begin: an additional endpoint's ladder runs on the caller's context.
BeginUnbounded ==
  /\ pc = "build"
  /\ ep \notin BadURL
  /\ started' = [started EXCEPT ![ep] = now]
  /\ limit' = Deadline
  /\ try' = 0 /\ wait' = Backoff /\ status' = NoAnswer
  /\ pc' = "try"
  /\ UNCHANGED <<perKey, ep, now, result, historyVars>>

\* PostAll, PostAllFunc: the ladder of ep begins.
Begin ==
  /\ pc = "build"
  /\ ep \notin BadURL
  /\ started' = [started EXCEPT ![ep] = now]
  /\ limit' = IF ep = 1 THEN Deadline ELSE Min2(now + AdditionalTimeout, Deadline)
  /\ try' = 0 /\ wait' = Backoff /\ status' = NoAnswer
  /\ pc' = "try"
  /\ UNCHANGED <<perKey, ep, now, result, historyVars>>

\* A URL that cannot form a request fails before the ladder.
BeginBadURL ==
  /\ pc = "build"
  /\ ep \in BadURL
  /\ SendReturns(NoAnswer, TRUE)
  /\ UNCHANGED <<perKey, ep, now, ladderVars, started, historyVars>>

\* A body that cannot be built ends the call for the primary and is skipped for
\* the others.
BuildFails ==
  /\ pc = "build"
  /\ perKey
  /\ IF ep = 1 THEN pc' = "returned" /\ UNCHANGED result ELSE SendReturns(NoAnswer, TRUE)
  /\ UNCHANGED <<perKey, ep, now, ladderVars, started, historyVars>>

\* do: a request that lasts d, which the deadline of its context and the
\* client's timeout cut short.
Request(d, answer, store) ==
  LET end == Min2(now + Min2(d, Timeout), limit)
      cut == d > Timeout \/ now + d > limit
      got == IF cut THEN NoAnswer ELSE answer
  IN /\ now < limit
     /\ got = "ok" => store
     /\ got = "permanent" => ~store
     /\ now' = end
     /\ status' = got
     /\ answers' = [answers EXCEPT ![ep] = Append(@, got)]
     /\ times' = [times EXCEPT ![ep] = Append(@, <<now, end>>)]
     /\ stored' = [stored EXCEPT ![ep] = @ \/ store]

\* What send does with the answer: done, permanent, tried out, or once more.
AfterTry(got) ==
  IF got \in {"ok", "permanent"} THEN SendReturns(got, got # "ok") /\ UNCHANGED try
  ELSE IF try + 1 = MaxTries THEN SendReturns(got, TRUE) /\ UNCHANGED try
  ELSE pc' = "sleep" /\ try' = try + 1 /\ UNCHANGED result

Try ==
  /\ pc = "try"
  /\ \E d \in Durations, answer \in Answers, store \in BOOLEAN : Request(d, answer, store)
  /\ AfterTry(status')
  /\ UNCHANGED <<perKey, ep, limit, wait, started>>

\* A request on an ended context is not sent.
TryEnded ==
  /\ pc = "try"
  /\ now >= limit
  /\ status' = NoAnswer
  /\ AfterTry(NoAnswer)
  /\ UNCHANGED <<perKey, ep, now, limit, wait, started, historyVars>>

\* Mutation of Sleep: the back-off does not grow.
SleepFlat ==
  /\ pc = "sleep"
  /\ now + wait <= limit
  /\ now' = now + wait
  /\ pc' = "try"
  /\ UNCHANGED <<perKey, ep, limit, try, wait, status, result, started, historyVars>>

Sleep ==
  /\ pc = "sleep"
  /\ now + wait <= limit
  /\ now' = now + wait
  /\ wait' = Min2(2 * wait, BackoffMax)
  /\ pc' = "try"
  /\ UNCHANGED <<perKey, ep, limit, try, status, result, started, historyVars>>

\* The context ends the sleep and the ladder; the last status is returned.
SleepEnded ==
  /\ pc = "sleep"
  /\ now + wait >= limit
  /\ now' = limit
  /\ SendReturns(status, TRUE)
  /\ UNCHANGED <<perKey, ep, ladderVars, started, historyVars>>

NextEndpoint ==
  /\ pc = "next"
  /\ IF ep < N THEN ep' = ep + 1 /\ pc' = "build"
               ELSE pc' = "returned" /\ UNCHANGED ep
  /\ UNCHANGED <<perKey, now, ladderVars, result, started, historyVars>>

\* The call is over: any other state without a next step is a deadlock.
Returned == pc = "returned" /\ UNCHANGED vars

Next ==
  \/ Begin \/ BeginBadURL \/ BuildFails \/ Try \/ TryEnded
  \/ Sleep \/ SleepEnded \/ NextEndpoint \/ Returned

Spec == Init /\ [][Next]_vars

----------------------------------------------------------------------------
(* Properties.                                                             *)

\* What batcher.send reads from the result: it acknowledges, drops or retries.
Outcome ==
  IF ~result.err THEN "delivered" ELSE IF result.status = "permanent" THEN "refused" ELSE "retry"

\* The outcome is decided when the primary's turn is over: whatever the others
\* are sent, answer or take, it is kept, and the primary's copy with it
\* (intake.go:156-161, 199-212).
Told == IF ep = 1 /\ pc \notin {"next", "returned"} THEN "pending" ELSE Outcome
Call == INSTANCE IntakeCall WITH turn <- ep, outcome <- Told
CallSpec == Call!Spec

LastAnswer(e) == IF answers[e] = <<>> THEN NoAnswer ELSE answers[e][Len(answers[e])]

\* The caller's decision follows the primary's last answer and nothing else: it
\* acknowledges only what the primary has stored and drops only what it refused
\* (intake.go:156-161, 208; agent.go:299-320).
OutcomeIsPrimarys ==
  pc = "returned" =>
    /\ Outcome = "delivered" <=> LastAnswer(1) = "ok"
    /\ Outcome = "refused" <=> LastAnswer(1) = "permanent"
    /\ Outcome = "delivered" => stored[1]

\* The powers of two, in a form that the prover can reason about.
Pow2[n \in Nat] == IF n = 0 THEN 1 ELSE 2 * Pow2[n - 1]

\* The least pause after the i-th request of a ladder.
PauseAfter(i) == Min2(Backoff * Pow2[i - 1], BackoffMax)

\* An answer that settles the payload is the last thing an endpoint hears of it
\* in this call, and the pauses between the others double up to the maximum
\* (intake.go:126-148).
LadderDisciplined ==
  \A e \in Endpoints : \A i \in 1..(Len(answers[e]) - 1) :
    /\ answers[e][i] \in {"transient", NoAnswer}
    /\ times[e][i + 1][1] - times[e][i][2] >= PauseAfter(i)

\* The primary's turn ended with an answer or its last try, at PrimaryEnd, and not
\* with the caller's deadline.
PrimaryDone ==
  1 \in BadURL \/ LastAnswer(1) \in {"ok", "permanent"} \/ Len(answers[1]) = MaxTries
PrimaryEnd == IF 1 \in BadURL THEN 0 ELSE times[1][Len(times[1])][2]

\* When the turn of e has come at the latest.
TurnBy(e) == PrimaryEnd + (e - 2) * AdditionalTimeout

\* Whatever the primary and the others answered, and however long each of the others
\* hung, an additional endpoint is sent the payload when the primary was done early
\* enough: each one before it takes AdditionalTimeout at most.  A primary that hangs
\* on starves them all, which "never blocks the others" denies
\* (intake.go:156-161, 206-211).
TurnComes ==
  pc = "returned" /\ PrimaryDone =>
    \A e \in Endpoints \ (BadURL \cup {1}) :
      /\ ~perKey => started[e] # -1
      /\ started[e] # -1 /\ TurnBy(e) < Deadline => answers[e] # <<>>

\* No additional endpoint holds the caller longer than its own deadline
\* (intake.go:42-46).
AdditionalBounded ==
  ep > 1 /\ pc \in {"try", "sleep", "next"} /\ started[ep] # -1 =>
    now - started[ep] <= AdditionalTimeout

----------------------------------------------------------------------------
(* The inductive invariant behind OutcomeIsPrimarys and AdditionalBounded, *)
(* and with InTime behind TurnComes.                                        *)

Unsettled == {"transient", NoAnswer}

\* A ladder whose turn has not come has left no trace.
Untouched(e) == started[e] = -1 /\ answers[e] = <<>>
InTurn == \A e \in Endpoints : e > ep \/ (e = ep /\ pc = "build") => Untouched(e)

\* What the running ladder has done so far.
LadderInv ==
  pc \in {"try", "sleep"} =>
    /\ ep \notin BadURL
    /\ started[ep] \in 0..now
    /\ limit = IF ep = 1 THEN Deadline ELSE Min2(started[ep] + AdditionalTimeout, Deadline)
    /\ now <= limit
    /\ Len(answers[ep]) <= try
    /\ LastAnswer(ep) \in Unsettled
    /\ answers[ep] # <<>> \/ started[ep] >= Deadline \/ (pc = "try" /\ now = started[ep])
    /\ pc = "sleep" => status \in Unsettled

\* The result is the primary's as soon as its ladder is over.
Latched ==
  IF ep > 1 \/ pc \in {"next", "returned"}
  THEN /\ ~result.err <=> LastAnswer(1) = "ok"
       /\ result.err /\ result.status = "permanent" <=> LastAnswer(1) = "permanent"
       /\ ~result.err => stored[1]
  ELSE result = NoResult

\* An endpoint whose turn came before the deadline was sent the payload.
Tried(e) ==
  /\ ~perKey => started[e] # -1
  /\ started[e] \in 0..(Deadline - 1) => answers[e] # <<>>

TurnsOver ==
  /\ \A e \in Endpoints \ BadURL :
       e < ep \/ (e = ep /\ pc \in {"next", "returned"}) => Tried(e)
  /\ pc = "returned" => ep = N \/ perKey

\* Once the primary is done the turns come in time.
InTime ==
  /\ ep = 1 /\ pc = "build" => now = 0
  /\ PrimaryDone /\ (ep > 1 \/ pc = "next") =>
       /\ \A e \in Endpoints : e > 1 => started[e] <= TurnBy(e)
       /\ pc = "build" => now <= TurnBy(ep)
       /\ pc = "next" => now <= TurnBy(ep + 1)

IInv == TypeOK /\ InTurn /\ LadderInv /\ Latched /\ TurnsOver /\ AdditionalBounded
=============================================================================
