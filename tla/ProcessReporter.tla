-------------------------- MODULE ProcessReporter --------------------------
(***************************************************************************)
(* internal/process Reporter: one goroutine that owes the process intake a *)
(* full list every interval and, while the intake says that somebody looks,*)
(* a realtime update in between.  Every payload is a fresh collection, its *)
(* rates are taken against the collection before it, and it is posted in   *)
(* chunks, each to the primary endpoint and then to the additional ones.   *)
(*                                                                         *)
(* The clock counts seconds and stops at MaxTime.  A process is its pid    *)
(* and the time it was created; its usage is the time it has lived, as if  *)
(* it were always busy, so that its true rate is one second per second.    *)
(* How long a request or a sleep takes is left out: the clock runs on      *)
(* during both, and they end.                                              *)
(***************************************************************************)
EXTENDS Integers, FiniteSets

CONSTANTS
  Pids,          \* the process ids the system may use
  Volatile,      \* those of processes that come and go; the others live throughout
  Gone,          \* no process has the pid; it was not in a collection
  Wobble,        \* how far an observed create time may be past the true one
  Young,         \* the age below which a collector cannot tell the create time
  Unknown,       \* what it reports then: 0, far from the time of any process
  Slack,         \* createTimeSlackMs
  MaxPerMessage, \* maxPerMessage
  MaxTries,      \* submitter.maxTries
  BaseTick, ProcInterval, RTInterval, \* baseTick, procInterval, first rtInterval
  Answers,       \* the ResCollector answers: [active, interval]; None: another
  None,
  LastEndpoint,  \* the endpoints are 1..LastEndpoint, the first is the primary
  MaxTime        \* bound of the clock

ASSUME TimesAssumption ==
  /\ {MaxPerMessage, MaxTries, BaseTick, LastEndpoint} \subseteq Nat \ {0}
  /\ {Wobble, Young, Slack, ProcInterval, RTInterval, MaxTime} \subseteq Nat
  \* "well under this": the code's own reason for the slack
  /\ Wobble < Slack
  \* the clock of the model starts long after the epoch
  /\ Unknown \in Int /\ Unknown <= -Slack
ASSUME NoneAssumption ==
  /\ Gone \notin Int /\ IsFiniteSet(Pids) /\ Volatile \subseteq Pids
  /\ Answers \subseteq [active : Nat, interval : Nat] \cup {None}

VARIABLES
  now,      \* the clock
  born,     \* born[p]: when the process with pid p was created, or Gone
  recent,   \* recent[p]: when the last process with pid p was created, or Gone
  tick,     \* a tick waits in the ticker's channel
  ctxDone,  \* the context is cancelled
  pc,       \* where the goroutine is
  kind,     \* the payload is a full list or a realtime update
  t0,       \* the time maybeSend read
  lastProc, lastRT, rtEnabled, rtInterval,
  prev,     \* prev[p]: [create, usage] of the previous collection, or Gone
  prevTs,   \* when it was taken
  todo,     \* the samples that are not in a chunk yet
  chunk,    \* the chunk being posted
  ep, try,  \* the endpoint and the try
  accepted, \* history: the chunks of this payload the primary answered 2xx
  stored    \* stored[e]: history: those that additional endpoint e has

worldVars == <<now, born, recent, tick, ctxDone>>
clockVars == <<lastProc, lastRT>>
rtVars == <<rtEnabled, rtInterval>>
rateVars == <<prev, prevTs>>
postVars == <<ep, try>>
historyVars == <<accepted, stored>>
vars == <<worldVars, pc, kind, t0, clockVars, rtVars, rateVars, todo, chunk, postVars, historyVars>>

Endpoints == 1..LastEndpoint
Others == Endpoints \ {1}
Abs(n) == IF n < 0 THEN -n ELSE n
Live == {p \in Pids : born[p] # Gone}
Samples == [pid : Pids, create : Int, delta : Int, dt : Int]

TypeOK ==
  /\ now \in 0..MaxTime
  /\ born \in [Pids -> 0..MaxTime \cup {Gone}] /\ recent \in [Pids -> 0..MaxTime \cup {Gone}]
  /\ tick \in BOOLEAN /\ ctxDone \in BOOLEAN
  /\ pc \in {"start", "select", "chunk", "try", "sleep", "returned"}
  /\ kind \in {"list", "realtime"}
  /\ {t0, lastProc, lastRT, prevTs} \subseteq Int /\ rtInterval \in Nat
  /\ rtEnabled \in BOOLEAN
  /\ prev \in [Pids -> [create : Int, usage : Int] \cup {Gone}]
  /\ todo \subseteq Samples /\ chunk \subseteq Samples
  /\ ep \in Endpoints /\ try \in 0..(MaxTries - 1)
  /\ accepted \in SUBSET SUBSET Samples
  /\ stored \in [Others -> SUBSET SUBSET Samples]

Init ==
  /\ now = 0 /\ tick = FALSE /\ ctxDone = FALSE
  /\ born \in [Pids -> {0, Gone}] /\ (\A p \in Pids \ Volatile : born[p] = 0) /\ recent = born
  /\ pc = "start" /\ kind = "list" /\ t0 = 0
  /\ lastProc = 0 /\ lastRT = 0 /\ rtEnabled = FALSE /\ rtInterval = RTInterval
  /\ prev = [p \in Pids |-> Gone] /\ prevTs = 0
  /\ todo = {} /\ chunk = {} /\ ep = 1 /\ try = 0
  /\ accepted = {} /\ stored = [e \in Others |-> {}]

----------------------------------------------------------------------------
(* The system: time, processes, the signal.                                *)

\* A pid whose process ended may have a new one, but not within the slack of the
\* old one's creation.
Reusable(p) == recent[p] = Gone \/ now + 1 - recent[p] >= Slack + Wobble

\* A second passes: processes end and start.
Advance ==
  /\ now < MaxTime
  /\ now' = now + 1
  /\ tick' = (tick \/ now' % BaseTick = 0)
  /\ \E ended \in SUBSET (Live \cap Volatile) :
     \E started \in SUBSET {p \in ended \cup (Pids \ Live) : Reusable(p)} :
       /\ born' = [p \in Pids |-> IF p \in started THEN now' ELSE IF p \in ended THEN Gone ELSE born[p]]
       /\ recent' = [p \in Pids |-> IF p \in started THEN now' ELSE recent[p]]
  /\ UNCHANGED <<ctxDone, pc, kind, t0, clockVars, rtVars, rateVars, todo, chunk, postVars, historyVars>>

Cancel ==
  /\ ~ctxDone
  /\ ctxDone' = TRUE
  /\ UNCHANGED <<now, born, recent, tick, pc, kind, t0, clockVars, rtVars, rateVars, todo, chunk,
                 postVars, historyVars>>

----------------------------------------------------------------------------
(* rate: what a collection reports, and what it leaves for the next.       *)

\* Mutation of Pin: the value seen last is kept for the next comparison.
PinLatest(p, seen) ==
  IF prev[p] # Gone /\ Abs(prev[p].create - seen) < Slack /\ seen > prev[p].create
  THEN prev[p].create ELSE seen

\* The create time reported: the one reported before, if it is close enough.
Pin(p, seen) ==
  IF prev[p] # Gone /\ Abs(prev[p].create - seen) < Slack THEN prev[p].create ELSE seen

Usage(p) == now - born[p]

\* What a collector can tell of when p was created, off by w: macOS and Plan 9 derive
\* it from the age, which reads as none for a young process (parsePs, collectProcs).
Observed(p, w) ==
  IF p \notin Volatile THEN born[p] ELSE IF Usage(p) < Young THEN Unknown ELSE born[p] + w

\* Mutation of Sample: a pid seen before is taken for the same process.
SampleByPid(p, create) ==
  LET same == now > prevTs /\ prev[p] # Gone
      grown == Usage(p) - prev[p].usage
  IN [pid |-> p, create |-> create, dt |-> now - prevTs,
      delta |-> IF same /\ grown > 0 THEN grown ELSE 0]

\* The rate of a counter, as delta over dt: none for a process that is new.
Sample(p, create) ==
  LET same == now > prevTs /\ prev[p] # Gone /\ prev[p].create = create
      grown == Usage(p) - prev[p].usage
  IN [pid |-> p, create |-> create, dt |-> now - prevTs,
      delta |-> IF same /\ grown > 0 THEN grown ELSE 0]

----------------------------------------------------------------------------
(* Run, maybeSend and send.  A collection may fail, and may miss processes *)
(* that cannot be read.                                                    *)

Send(k) ==
  /\ kind' = k /\ t0' = now /\ pc' = "chunk"
  /\ \/ UNCHANGED rateVars /\ todo' = {}
     \/ \E missed \in SUBSET Volatile : \E w \in [Pids -> 0..Wobble] :
          LET seen == Live \ missed
              create == [p \in seen |-> Pin(p, Observed(p, w[p]))]
          IN
          /\ prev' = [p \in Pids |-> IF p \in seen
                                     THEN [create |-> create[p], usage |-> Usage(p)]
                                     ELSE Gone]
          /\ prevTs' = now
          /\ todo' = {Sample(p, create[p]) : p \in seen}
  /\ UNCHANGED <<now, born, recent, ctxDone, clockVars, rtVars, chunk, postVars, historyVars>>

Startup ==
  /\ pc = "start"
  /\ Send("list") /\ UNCHANGED tick

ListDue == now - lastProc >= ProcInterval
RealtimeDue == rtEnabled /\ now - lastRT >= rtInterval

SendList ==
  /\ pc = "select" /\ tick /\ ListDue
  /\ tick' = FALSE
  /\ Send("list")

SendRealtime ==
  /\ pc = "select" /\ tick /\ ~ListDue /\ RealtimeDue
  /\ tick' = FALSE
  /\ Send("realtime")

NothingDue ==
  /\ pc = "select" /\ tick /\ ~ListDue /\ ~RealtimeDue
  /\ tick' = FALSE
  /\ UNCHANGED <<now, born, recent, ctxDone, pc, kind, t0, clockVars, rtVars, rateVars, todo, chunk,
                 postVars, historyVars>>

Return ==
  /\ pc = "select" /\ ctxDone
  /\ pc' = "returned"
  /\ UNCHANGED <<worldVars, kind, t0, clockVars, rtVars, rateVars, todo, chunk, postVars, historyVars>>

\* send returns and maybeSend sets the clocks, whatever was sent.
EndSend ==
  /\ pc = "chunk" /\ todo = {}
  /\ lastProc' = IF kind = "list" THEN t0 ELSE lastProc
  /\ lastRT' = t0
  /\ pc' = "select" /\ t0' = 0 /\ chunk' = {} /\ ep' = 1 /\ try' = 0
  /\ accepted' = {} /\ stored' = [e \in Others |-> {}]
  /\ UNCHANGED <<worldVars, kind, rtVars, rateVars, todo>>

NextChunk ==
  /\ pc = "chunk"
  /\ \E c \in SUBSET todo \ {{}} :
       /\ IF Cardinality(todo) > MaxPerMessage THEN Cardinality(c) = MaxPerMessage ELSE c = todo
       /\ chunk' = c /\ todo' = todo \ c
  /\ pc' = "try" /\ ep' = 1 /\ try' = 0
  /\ UNCHANGED <<worldVars, kind, t0, clockVars, rtVars, rateVars, historyVars>>

----------------------------------------------------------------------------
(* submitter.post of the chunk, to the primary and then to the others.     *)

\* The next endpoint's post, or the next chunk.
AfterPost(skipOthers) ==
  IF ep < LastEndpoint /\ ~skipOthers
  THEN pc' = "try" /\ ep' = ep + 1 /\ try' = 0
  ELSE pc' = "chunk" /\ UNCHANGED postVars

\* Mutation of PostFailed: the additional endpoints get it all the same.
PostFailedGoesOn == AfterPost(FALSE)

\* Mutation of PostFailed: a chunk the primary did not take is posted again.
PostFailedAgain ==
  IF ep = 1 THEN pc' = "try" /\ ep' = 1 /\ try' = 0 ELSE AfterPost(FALSE)

\* post gave up: a chunk the primary did not take is not offered to the others.
PostFailed == AfterPost(ep = 1)

applyRT(a) ==
  IF ep = 1 /\ a # None
  THEN /\ rtEnabled' = (a.active > 0)
       /\ rtInterval' = IF a.interval > 0 THEN a.interval ELSE rtInterval
  ELSE UNCHANGED rtVars

Store == stored' = IF ep = 1 THEN stored ELSE [stored EXCEPT ![ep] = @ \cup {chunk}]

Accepted ==
  /\ pc = "try"
  /\ Store
  /\ accepted' = IF ep = 1 THEN accepted \cup {chunk} ELSE accepted
  /\ \E a \in Answers : applyRT(a)
  /\ AfterPost(FALSE)
  /\ UNCHANGED <<worldVars, kind, t0, clockVars, rateVars, todo, chunk>>

\* No answer, or a status worth another try; the chunk may have been stored.
Retryable ==
  /\ pc = "try"
  /\ Store \/ UNCHANGED stored
  /\ IF try + 1 < MaxTries THEN pc' = "sleep" /\ UNCHANGED postVars ELSE PostFailed
  /\ UNCHANGED <<worldVars, kind, t0, clockVars, rtVars, rateVars, todo, chunk, accepted>>

Permanent ==
  /\ pc = "try"
  /\ PostFailed
  /\ UNCHANGED <<worldVars, kind, t0, clockVars, rtVars, rateVars, todo, chunk, historyVars>>

Wake ==
  /\ pc = "sleep"
  /\ pc' = "try" /\ try' = try + 1
  /\ UNCHANGED <<worldVars, kind, t0, clockVars, rtVars, rateVars, todo, chunk, ep, historyVars>>

\* The context, or the additional endpoint's own deadline, ends the sleep.
SleepEnds ==
  /\ pc = "sleep" /\ (ctxDone \/ ep > 1)
  /\ PostFailed
  /\ UNCHANGED <<worldVars, kind, t0, clockVars, rtVars, rateVars, todo, chunk, historyVars>>

----------------------------------------------------------------------------
Reporter ==
  \/ Startup \/ SendList \/ SendRealtime \/ NothingDue \/ Return
  \/ EndSend \/ NextChunk \/ Accepted \/ Retryable \/ Permanent \/ Wake \/ SleepEnds

Next == Reporter \/ Advance \/ Cancel

Spec == Init /\ [][Next]_vars

\* The goroutine runs on, a request ends within the client's timeout and a sleep
\* at its timer.  A select with both a tick and the cancellation ready picks either
\* at random, so that it takes the cancellation in the end.
FairSpec == Spec /\ WF_vars(Reporter) /\ SF_vars(Return)

----------------------------------------------------------------------------
(* Properties.                                                             *)

\* Across consecutive collections a process keeps the create time it was first
\* reported with, however its observed one wobbles, and a pid taken over by
\* another process gets a new one: the intake keys a process on both.  It is not so
\* of a process first collected without a create time, which rate pins like any
\* other: that one was young then, and is reported as a second process later (rate).
IdentityKept ==
  [][\A p \in Pids :
       prev[p] # Gone /\ prev'[p] # Gone /\ prevTs' # prevTs =>
         IF prev[p].create = Unknown THEN prev[p].usage < Young
         ELSE prev'[p].create = prev[p].create <=> born[p] = prevTs - prev[p].usage]_vars

\* Every rate reported is none or the true one of that one process: counters are
\* never compared across two processes of a pid, nor against a collection of
\* another time, when collections fail, miss processes, come late or are not
\* delivered.  Two processes of a pid that both were collected young are compared:
\* what that can report is less than a young process has used (send, rate).
RateIsTrue ==
  \A s \in todo \cup chunk :
    s.delta \in {0, s.dt} \cup (IF s.create = Unknown THEN 1..(Young - 1) ELSE {})

\* An additional endpoint only ever has chunks that the primary accepted: no other
\* organisation shows processes that the primary does not (send's continue).
OthersFollowPrimary == \A e \in Others : stored[e] \subseteq accepted

\* Cancelled, the reporter returns, whatever payload it is posting (Run, post).
ShutdownEnds == ctxDone ~> pc = "returned"
============================================================================
