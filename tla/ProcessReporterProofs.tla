------------------------ MODULE ProcessReporterProofs ------------------------
(***************************************************************************)
(* Proofs about ProcessReporter, for any pids, any wobble below the slack, *)
(* any cadences, chunk sizes, tries and endpoints: whose rates and whose   *)
(* create times are reported, and to whom; and, of the tables it is given, *)
(* how far create times wobble and that a fetched table is whole; and, of  *)
(* the wire format, that the fields that are written are read back.        *)
(***************************************************************************)
EXTENDS ProcessReporter, RecursionFacts

LEMMA Constants ==
  /\ MaxPerMessage \in Nat /\ MaxTries \in Nat /\ MaxTries > 0 /\ BaseTick \in Nat
  /\ LastEndpoint \in Nat /\ LastEndpoint > 0
  /\ Wobble \in Nat /\ Slack \in Nat /\ ProcInterval \in Nat /\ RTInterval \in Nat /\ MaxTime \in Nat
  /\ Wobble < Slack /\ Young \in Nat /\ Unknown \in Int /\ Unknown + Slack <= 0
  /\ Gone \notin Int /\ Volatile \subseteq Pids
  /\ \A a \in Answers : a # None => a.interval \in Nat
BY TimesAssumption, NoneAssumption

----------------------------------------------------------------------------
(* The inductive invariant.                                                *)

\* The process that has a pid is the last one to have had it.
Lives ==
  \A p \in Pids :
    /\ born[p] # Gone => born[p] = recent[p]
    /\ recent[p] # Gone => recent[p] <= now

\* When the process that was collected with pid p was created.
Of(p) == prevTs - prev[p].usage

\* It was too young to tell, or was reported within the wobble of its creation.
Told(p) ==
  IF prev[p].create = Unknown THEN prev[p].usage < Young
  ELSE prev[p].create \in Of(p)..(Of(p) + Wobble) /\ (p \in Volatile => prev[p].usage >= Young)

\* What was collected was created no later than it is reported to be, give or take
\* the wobble, unless it was too young to tell, and it is the last process to have
\* had the pid unless a later one came after the slack.
Reported ==
  \A p \in Pids : prev[p] # Gone =>
    /\ Of(p) \in Nat /\ prev[p].usage \in Nat
    /\ Told(p)
    /\ recent[p] # Gone
    /\ recent[p] = Of(p) \/ recent[p] - Of(p) >= Slack + Wobble

\* An additional endpoint is offered what the primary accepted.
Offered == pc \in {"try", "sleep"} /\ ep # 1 => chunk \in accepted

\* There is another try behind a sleep.
TryLeft == pc = "sleep" => try + 1 < MaxTries

IInv ==
  /\ TypeOK /\ Lives /\ Reported /\ Offered /\ TryLeft
  /\ prevTs <= now
  /\ RateIsTrue /\ OthersFollowPrimary

----------------------------------------------------------------------------
(* A collection.                                                           *)

LEMMA Facts ==
  ASSUME IInv
  PROVE  /\ now \in Nat /\ prevTs \in Int /\ prevTs <= now
         /\ \A p \in Pids : /\ born[p] # Gone => born[p] \in Nat /\ recent[p] = born[p] /\ born[p] <= now
                            /\ recent[p] # Gone => recent[p] \in Nat /\ recent[p] <= now
                            /\ prev[p] # Gone => /\ prev[p].create \in Int /\ prev[p].usage \in Int
                                                 /\ Of(p) \in Int
<1>1. /\ now \in Nat /\ prevTs \in Int /\ prevTs <= now
      /\ born \in [Pids -> 0..MaxTime \cup {Gone}] /\ recent \in [Pids -> 0..MaxTime \cup {Gone}]
      /\ prev \in [Pids -> [create : Int, usage : Int] \cup {Gone}]
      /\ Lives
  BY Constants DEF IInv, TypeOK
<1>2. ASSUME NEW p \in Pids, prev[p] # Gone
      PROVE  prev[p].create \in Int /\ prev[p].usage \in Int /\ Of(p) \in Int
  <2>1. prev[p] \in [create : Int, usage : Int]
    BY <1>1, <1>2
  <2> QED
    BY <1>1, <2>1 DEF Of
<1>3. ASSUME NEW p \in Pids
      PROVE  /\ born[p] # Gone => born[p] \in Nat /\ recent[p] = born[p] /\ born[p] <= now
             /\ recent[p] # Gone => recent[p] \in Nat /\ recent[p] <= now
  <2>1. born[p] \in 0..MaxTime \cup {Gone} /\ recent[p] \in 0..MaxTime \cup {Gone}
    BY <1>1
  <2> QED
    BY <1>1, <2>1, Constants DEF Lives
<1> QED
  BY <1>1, <1>2, <1>3

\* What is observed of a process that is there: nothing if it is young, or its create
\* time within the wobble.
LEMMA ObservedFacts ==
  ASSUME IInv, NEW p \in Pids, born[p] # Gone, NEW off \in 0..Wobble
  PROVE  /\ Observed(p, off) \in {Unknown} \cup born[p]..(born[p] + Wobble)
         /\ Observed(p, off) = Unknown => p \in Volatile /\ Usage(p) < Young
         /\ Observed(p, off) # Unknown /\ p \in Volatile => Usage(p) >= Young
<1>1. /\ born[p] \in Nat /\ Wobble \in Nat /\ Unknown \in Int /\ Unknown < 0
      /\ Young \in Nat /\ Usage(p) \in Int
  BY Facts, Constants DEF Usage
<1>2. CASE p \notin Volatile
  BY <1>1, <1>2 DEF Observed
<1>3. CASE p \in Volatile /\ Usage(p) < Young
  BY <1>3 DEF Observed
<1>4. CASE p \in Volatile /\ ~(Usage(p) < Young)
  BY <1>1, <1>4 DEF Observed
<1> QED
  BY <1>2, <1>3, <1>4

\* What rate reports as the create time of a process seen now: nothing if nothing was
\* observed, or one within the wobble of the true one; and the one that was reported
\* before, if there was one, exactly if it is the same process and old enough.
LEMMA PinFacts ==
  ASSUME IInv, NEW p \in Pids, born[p] # Gone, NEW seen \in {Unknown} \cup born[p]..(born[p] + Wobble)
  PROVE  /\ Pin(p, seen) \in {Unknown} \cup born[p]..(born[p] + Wobble)
         /\ Pin(p, seen) = Unknown <=> seen = Unknown
         /\ prev[p] # Gone /\ prev[p].create # Unknown /\ seen # Unknown =>
              (Pin(p, seen) = prev[p].create <=> Of(p) = born[p])
<1>1. /\ born[p] \in Nat /\ recent[p] = born[p] /\ Wobble \in Nat /\ Slack \in Nat /\ Wobble < Slack
      /\ Unknown \in Int /\ Unknown + Slack <= 0
  BY Facts, Constants
<1>2. CASE prev[p] = Gone
  BY <1>2 DEF Pin
<1>3. CASE prev[p] # Gone
  <2> DEFINE c == prev[p].create
             b == Of(p)
  <2>1. /\ c \in Int /\ b \in Nat /\ (c = Unknown \/ c \in b..(b + Wobble))
        /\ born[p] = b \/ born[p] - b >= Slack + Wobble
    BY <1>1, <1>3, Facts DEF IInv, Reported, Told
  <2>2. Pin(p, seen) = IF Abs(c - seen) < Slack THEN c ELSE seen
    BY <1>3 DEF Pin
  <2> HIDE DEF b, c
  <2>3. CASE c = Unknown
    <3>1. seen # Unknown => ~(Abs(c - seen) < Slack)
      BY <1>1, <2>1, <2>3 DEF Abs
    <3> QED
      BY <2>2, <2>3, <3>1 DEF b, c
  <2>4. CASE seen = Unknown /\ c # Unknown
    <3>1. ~(Abs(c - seen) < Slack)
      BY <1>1, <2>1, <2>4 DEF Abs
    <3> QED
      BY <2>2, <2>4, <3>1 DEF b, c
  <2>5. CASE seen # Unknown /\ c # Unknown /\ born[p] = b
    <3>1. Abs(c - seen) < Slack
      BY <1>1, <2>1, <2>5 DEF Abs
    <3>2. c \in born[p]..(born[p] + Wobble)
      BY <1>1, <2>1, <2>5
    <3> QED
      BY <2>2, <2>5, <3>1, <3>2 DEF b, c
  <2>6. CASE seen # Unknown /\ c # Unknown /\ born[p] - b >= Slack + Wobble
    <3>1. /\ seen - c >= Slack /\ b # born[p]
      BY <1>1, <2>1, <2>6
    <3>2. ~(Abs(c - seen) < Slack)
      BY <1>1, <2>1, <3>1 DEF Abs
    <3>3. Pin(p, seen) = seen /\ seen # c
      BY <1>1, <2>1, <2>2, <3>1, <3>2
    <3> QED
      BY <2>6, <3>1, <3>3 DEF b, c
  <2> QED
    BY <2>1, <2>3, <2>4, <2>5, <2>6
<1> QED
  BY <1>2, <1>3

\* The rate of a process that was collected before is the true one, every other none;
\* but two young ones of a pid are compared.
LEMMA SampleFacts ==
  ASSUME IInv, NEW p \in Pids, born[p] # Gone, NEW off \in 0..Wobble,
         NEW s, s = Sample(p, Pin(p, Observed(p, off)))
  PROVE  /\ s \in Samples
         /\ s.delta \in {0, s.dt} \cup (IF s.create = Unknown THEN 1..(Young - 1) ELSE {})
<1> DEFINE create == Pin(p, Observed(p, off))
           same == now > prevTs /\ prev[p] # Gone /\ prev[p].create = create
           grown == Usage(p) - prev[p].usage
           delta == IF same /\ grown > 0 THEN grown ELSE 0
           dt == now - prevTs
<1>1. /\ born[p] \in Nat /\ now \in Nat /\ prevTs \in Int /\ Wobble \in Nat /\ Young \in Nat
      /\ Unknown \in Int /\ Usage(p) \in Int
  BY Facts, Constants DEF Usage
<1>2. /\ create \in {Unknown} \cup born[p]..(born[p] + Wobble)
      /\ create = Unknown => Usage(p) < Young
      /\ prev[p] # Gone /\ prev[p].create # Unknown /\ create # Unknown =>
           (create = prev[p].create <=> Of(p) = born[p])
  <2>1. Observed(p, off) \in {Unknown} \cup born[p]..(born[p] + Wobble)
    BY ObservedFacts
  <2>2. Observed(p, off) = Unknown => Usage(p) < Young
    BY ObservedFacts
  <2> QED
    BY <2>1, <2>2, PinFacts
<1>3. create \in Int
  BY <1>1, <1>2
<1>4. same /\ create # Unknown => grown = dt
  <2> SUFFICES ASSUME same, create # Unknown
               PROVE  grown = dt
    OBVIOUS
  <2>1. Of(p) = born[p] /\ prev[p].usage \in Int
    BY <1>2, Facts
  <2> QED
    BY <1>1, <2>1 DEF Of, Usage
<1>5. same /\ create = Unknown => grown \in Int /\ grown < Young
  <2> SUFFICES ASSUME same, create = Unknown
               PROVE  grown \in Int /\ grown < Young
    OBVIOUS
  <2>1. prev[p].usage \in Nat
    BY DEF IInv, Reported
  <2> QED
    BY <1>1, <1>2, <2>1
<1>6. dt \in Int /\ delta \in {0, dt} \cup (IF create = Unknown THEN 1..(Young - 1) ELSE {})
  BY <1>1, <1>4, <1>5
<1>7. s = [pid |-> p, create |-> create, dt |-> dt, delta |-> delta]
  BY DEF Sample
<1> HIDE DEF create, delta, dt
<1>8. delta \in Int
  BY <1>1, <1>6
<1>9. s \in Samples /\ s.delta = delta /\ s.dt = dt /\ s.create = create
  BY <1>3, <1>6, <1>7, <1>8 DEF Samples
<1> QED
  BY <1>6, <1>9

\* The types of what Send leaves alone.
LEMMA SendTypes ==
  ASSUME TypeOK, kind' \in {"list", "realtime"}, t0' \in Int, pc' = "chunk", tick' \in BOOLEAN,
         UNCHANGED <<now, born, recent, ctxDone, lastProc, lastRT, rtEnabled, rtInterval, chunk, ep, try,
                     accepted, stored>>,
         prevTs' \in Int, todo' \subseteq Samples,
         prev' \in [Pids -> [create : Int, usage : Int] \cup {Gone}]
  PROVE  TypeOK'
<1>1. {t0, lastProc, lastRT, prevTs}' \subseteq Int /\ rtInterval' \in Nat
  BY DEF TypeOK
<1>2. /\ now' \in 0..MaxTime
      /\ born' \in [Pids -> 0..MaxTime \cup {Gone}] /\ recent' \in [Pids -> 0..MaxTime \cup {Gone}]
      /\ ctxDone' \in BOOLEAN /\ rtEnabled' \in BOOLEAN
      /\ chunk' \subseteq Samples
      /\ ep' \in Endpoints /\ try' \in 0..(MaxTries - 1)
  BY DEF TypeOK
<1>3. accepted' \in SUBSET SUBSET Samples /\ stored' \in [Others -> SUBSET SUBSET Samples]
  BY DEF TypeOK
<1> QED
  BY <1>1, <1>2, <1>3 DEF TypeOK

\* Startup, SendList and SendRealtime.
LEMMA SendStep ==
  ASSUME IInv, pc \in {"start", "select"}, NEW k \in {"list", "realtime"}, Send(k), tick' \in {tick, FALSE}
  PROVE  IInv'
<1> USE Constants
<1>1. /\ TypeOK /\ Lives /\ Reported /\ prevTs <= now /\ RateIsTrue /\ OthersFollowPrimary
      /\ kind' = k /\ t0' = now /\ pc' = "chunk"
      /\ UNCHANGED <<now, born, recent, ctxDone, lastProc, lastRT, rtEnabled, rtInterval, chunk, ep, try,
                     accepted, stored>>
  BY DEF IInv, Send, clockVars, rtVars, postVars, historyVars
<1>2. Lives' /\ Offered' /\ TryLeft' /\ OthersFollowPrimary'
  BY <1>1 DEF Lives, Offered, TryLeft, OthersFollowPrimary
<1>3. now \in Nat /\ now \in Int /\ tick' \in BOOLEAN
  <2>1. now \in 0..MaxTime /\ tick \in BOOLEAN
    BY <1>1 DEF TypeOK
  <2>2. tick' \in BOOLEAN
    BY <2>1
  <2> QED
    BY <2>1, <2>2
<1>4. CASE UNCHANGED rateVars /\ todo' = {}
  <2>1. prev' = prev /\ prevTs' = prevTs
    BY <1>4 DEF rateVars
  <2>2. TypeOK'
    <3>1. prev \in [Pids -> [create : Int, usage : Int] \cup {Gone}] /\ prevTs \in Int
      BY <1>1 DEF TypeOK
    <3>2. todo' \subseteq Samples
      BY <1>4
    <3> QED
      BY <1>1, <1>3, <2>1, <3>1, <3>2, SendTypes
  <2>3. Reported' /\ RateIsTrue'
    BY <1>1, <1>4, <2>1 DEF Reported, Told, Of, RateIsTrue
  <2> QED
    BY <1>1, <1>2, <2>1, <2>2, <2>3 DEF IInv
<1>5. CASE ~(UNCHANGED rateVars /\ todo' = {})
  <2>1. PICK missed \in SUBSET Volatile, w \in [Pids -> 0..Wobble] :
          LET seen == Live \ missed
              create == [p \in seen |-> Pin(p, Observed(p, w[p]))]
          IN
          /\ prev' = [p \in Pids |-> IF p \in seen
                                     THEN [create |-> create[p], usage |-> Usage(p)]
                                     ELSE Gone]
          /\ prevTs' = now
          /\ todo' = {Sample(p, create[p]) : p \in seen}
    BY <1>5 DEF Send
  <2> DEFINE seen == Live \ missed
             at(p) == Observed(p, w[p])
  <2>2. /\ prevTs' = now
        /\ prev' = [p \in Pids |-> IF p \in seen THEN [create |-> Pin(p, at(p)), usage |-> Usage(p)] ELSE Gone]
        /\ todo' = {Sample(p, Pin(p, at(p))) : p \in seen}
    BY <2>1
  <2>3. ASSUME NEW p \in seen
        PROVE  /\ p \in Pids /\ born[p] # Gone /\ born[p] \in Nat /\ recent[p] = born[p]
               /\ born[p] <= now /\ w[p] \in 0..Wobble
               /\ at(p) \in {Unknown} \cup born[p]..(born[p] + Wobble)
               /\ at(p) = Unknown => Usage(p) < Young
               /\ at(p) # Unknown /\ p \in Volatile => Usage(p) >= Young
    <3>1. p \in Pids /\ born[p] # Gone /\ w[p] \in 0..Wobble
      BY DEF Live
    <3>2. born[p] \in Nat /\ recent[p] = born[p] /\ born[p] <= now
      BY <3>1, Facts
    <3>3. /\ at(p) \in {Unknown} \cup born[p]..(born[p] + Wobble)
          /\ at(p) = Unknown => Usage(p) < Young
          /\ at(p) # Unknown /\ p \in Volatile => Usage(p) >= Young
      BY <3>1, ObservedFacts
    <3> QED
      BY <3>1, <3>2, <3>3
  <2>6. todo' \subseteq Samples /\ RateIsTrue'
    <3>1. ASSUME NEW p \in seen, NEW s, s = Sample(p, Pin(p, at(p)))
          PROVE  /\ s \in Samples
                 /\ s.delta \in {0, s.dt} \cup (IF s.create = Unknown THEN 1..(Young - 1) ELSE {})
      <4> HIDE DEF seen
      <4>1. p \in Pids /\ born[p] # Gone /\ w[p] \in 0..Wobble
        BY <2>3
      <4> QED
        BY <3>1, <4>1, SampleFacts
    <3> HIDE DEF seen, at
    <3>2. \A s \in todo' : /\ s \in Samples
                           /\ s.delta \in {0, s.dt} \cup (IF s.create = Unknown THEN 1..(Young - 1) ELSE {})
      BY <2>2, <3>1
    <3> QED
      BY <1>1, <3>2 DEF RateIsTrue
  <2> HIDE DEF seen, at
  <2>4. ASSUME NEW p \in seen
        PROVE  /\ Pin(p, at(p)) \in Int /\ Usage(p) \in Nat
               /\ Pin(p, at(p)) \in {Unknown} \cup born[p]..(born[p] + Wobble)
               /\ Pin(p, at(p)) = Unknown => Usage(p) < Young
               /\ Pin(p, at(p)) # Unknown /\ p \in Volatile => Usage(p) >= Young
               /\ now - Usage(p) = born[p]
    <3>1. /\ Pin(p, at(p)) \in {Unknown} \cup born[p]..(born[p] + Wobble)
          /\ Pin(p, at(p)) = Unknown => Usage(p) < Young
          /\ Pin(p, at(p)) # Unknown /\ p \in Volatile => Usage(p) >= Young
      BY <2>3, PinFacts
    <3> QED
      BY <1>3, <2>3, <3>1 DEF Usage
  <2>5. prev' \in [Pids -> [create : Int, usage : Int] \cup {Gone}]
    <3>1. \A p \in seen : [create |-> Pin(p, at(p)), usage |-> Usage(p)] \in [create : Int, usage : Int]
      BY <2>4
    <3> QED
      BY <2>2, <3>1
  <2>7. Reported'
    <3> SUFFICES ASSUME NEW p \in Pids, prev'[p] # Gone
                 PROVE  /\ Of(p)' \in Nat /\ prev'[p].usage \in Nat
                        /\ Told(p)'
                        /\ recent[p] # Gone
                        /\ recent[p] = Of(p)' \/ recent[p] - Of(p)' >= Slack + Wobble
      BY <1>1 DEF Reported
    <3>1. p \in seen
      BY <2>2
    <3>2. prev'[p].create = Pin(p, at(p)) /\ prev'[p].usage = Usage(p)
      BY <2>2, <3>1
    <3>3. Of(p)' = born[p]
      BY <2>2, <2>4, <3>1, <3>2 DEF Of
    <3> QED
      BY <2>3, <2>4, <3>1, <3>2, <3>3 DEF Told
  <2>8. TypeOK'
    BY <1>1, <1>3, <2>2, <2>5, <2>6, SendTypes
  <2>10. prevTs' <= now'
    BY <1>1, <1>3, <2>2
  <2> QED
    BY <1>2, <2>6, <2>7, <2>8, <2>10 DEF IInv
<1> QED
  BY <1>4, <1>5

----------------------------------------------------------------------------
(* The other steps.                                                        *)

\* A process that takes over a pid comes after the slack.
LEMMA AdvanceStep ==
  ASSUME IInv, Advance
  PROVE  IInv'
<1> USE Constants
<1>1. /\ TypeOK /\ Lives /\ Reported /\ prevTs <= now /\ now < MaxTime /\ now' = now + 1
      /\ tick' = (tick \/ now' % BaseTick = 0)
      /\ UNCHANGED <<ctxDone, pc, kind, t0, lastProc, lastRT, rtEnabled, rtInterval, prev, prevTs, todo,
                     chunk, ep, try, accepted, stored>>
  BY DEF IInv, Advance, clockVars, rtVars, rateVars, postVars, historyVars
<1>2. PICK ended \in SUBSET (Live \cap Volatile) :
        \E started \in SUBSET {p \in ended \cup (Pids \ Live) : Reusable(p)} :
        /\ born' = [p \in Pids |-> IF p \in started THEN now' ELSE IF p \in ended THEN Gone ELSE born[p]]
        /\ recent' = [p \in Pids |-> IF p \in started THEN now' ELSE recent[p]]
  BY DEF Advance
<1>3. PICK started \in SUBSET {p \in ended \cup (Pids \ Live) : Reusable(p)} :
        /\ born' = [p \in Pids |-> IF p \in started THEN now' ELSE IF p \in ended THEN Gone ELSE born[p]]
        /\ recent' = [p \in Pids |-> IF p \in started THEN now' ELSE recent[p]]
  BY <1>2
<1>4. now \in Nat /\ now' \in 0..MaxTime /\ prevTs \in Int
  BY <1>1 DEF TypeOK
<1>5. \A p \in Pids : born[p] \in 0..MaxTime \cup {Gone} /\ recent[p] \in 0..MaxTime \cup {Gone}
  BY <1>1 DEF TypeOK
<1>6. /\ born' \in [Pids -> 0..MaxTime \cup {Gone}] /\ recent' \in [Pids -> 0..MaxTime \cup {Gone}]
  BY <1>3, <1>4, <1>5
<1>7. tick' \in BOOLEAN
  BY <1>1
<1>8. TypeOK'
  BY <1>1, <1>4, <1>6, <1>7 DEF TypeOK
<1>9. Lives'
  <2> SUFFICES ASSUME NEW p \in Pids
               PROVE  /\ born'[p] # Gone => born'[p] = recent'[p]
                      /\ recent'[p] # Gone => recent'[p] <= now'
    BY DEF Lives
  <2>1. CASE p \in started
    BY <1>3, <1>4, <2>1
  <2>2. CASE p \notin started
    <3>1. recent'[p] = recent[p] /\ (born'[p] = Gone \/ born'[p] = born[p])
      BY <1>3, <2>2
    <3>2. recent[p] # Gone => recent[p] \in Nat /\ recent[p] <= now + 1
      BY <1>4, Facts
    <3> QED
      BY <1>1, <3>1, <3>2 DEF Lives
  <2> QED
    BY <2>1, <2>2
<1>10. Reported'
  <2> SUFFICES ASSUME NEW p \in Pids, prev[p] # Gone
               PROVE  /\ Of(p) \in Nat /\ prev[p].usage \in Nat
                      /\ Told(p)
                      /\ recent'[p] # Gone
                      /\ recent'[p] = Of(p) \/ recent'[p] - Of(p) >= Slack + Wobble
    BY <1>1 DEF Reported, Told, Of
  <2>1. /\ Of(p) \in Nat /\ prev[p].usage \in Nat
        /\ Told(p)
        /\ recent[p] # Gone
        /\ recent[p] = Of(p) \/ recent[p] - Of(p) >= Slack + Wobble
    BY <1>1 DEF Reported
  <2>2. CASE p \in started
    <3>1. recent'[p] = now + 1 /\ Reusable(p)
      BY <1>1, <1>3, <2>2
    <3>2. now + 1 - recent[p] >= Slack + Wobble
      BY <2>1, <3>1 DEF Reusable
    <3>3. recent[p] \in Nat /\ Of(p) \in Int
      BY <2>1, Facts
    <3>4. recent[p] >= Of(p)
      BY <2>1, <3>3
    <3>5. now + 1 - Of(p) >= Slack + Wobble
      BY <1>4, <3>2, <3>3, <3>4
    <3>6. recent'[p] # Gone
      BY <1>4, <3>1
    <3>7. PICK r \in Int : r = recent'[p] /\ r = now + 1
      BY <1>4, <3>1
    <3>8. r - Of(p) >= Slack + Wobble
      BY <1>4, <3>3, <3>5, <3>7
    <3> QED
      BY <2>1, <3>6, <3>7, <3>8
  <2>3. CASE p \notin started
    <3>1. recent'[p] = recent[p]
      BY <1>3, <2>3
    <3> QED
      BY <2>1, <3>1
  <2> QED
    BY <2>2, <2>3
<1>11. Offered' /\ TryLeft' /\ RateIsTrue' /\ OthersFollowPrimary'
  BY <1>1 DEF IInv, Offered, TryLeft, RateIsTrue, OthersFollowPrimary
<1>12. prevTs' <= now'
  BY <1>1, <1>4
<1> QED
  BY <1>8, <1>9, <1>10, <1>11, <1>12 DEF IInv

\* The steps that touch neither the system nor what is collected.
Posting ==
  /\ UNCHANGED <<now, born, recent, prev, prevTs>>
  /\ todo' \subseteq todo /\ chunk' \subseteq todo \cup chunk
  /\ tick' \in BOOLEAN /\ ctxDone' \in BOOLEAN
  /\ pc' \in {"select", "chunk", "try", "sleep", "returned"}
  /\ kind' = kind
  /\ {t0', lastProc', lastRT'} \subseteq {0, t0, lastProc, lastRT}
  /\ rtInterval' \in Nat /\ rtEnabled' \in BOOLEAN
  /\ ep' \in Endpoints /\ try' \in 0..(MaxTries - 1)

LEMMA PostingKeeps ==
  ASSUME IInv, Posting, accepted' \in SUBSET SUBSET Samples, stored' \in [Others -> SUBSET SUBSET Samples]
  PROVE  /\ TypeOK' /\ Lives' /\ Reported' /\ prevTs' <= now' /\ RateIsTrue'
<1>1. TypeOK /\ Lives /\ Reported /\ prevTs <= now /\ RateIsTrue
  BY DEF IInv
<1>2. {t0, lastProc, lastRT, prevTs}' \subseteq Int
  BY <1>1 DEF TypeOK, Posting
<1>3. todo' \subseteq Samples /\ chunk' \subseteq Samples
  BY <1>1 DEF TypeOK, Posting
<1>4. TypeOK'
  BY <1>1, <1>2, <1>3 DEF TypeOK, Posting
<1>5. Lives' /\ Reported' /\ prevTs' <= now'
  BY <1>1 DEF Lives, Reported, Told, Of, Posting
<1>6. RateIsTrue'
  BY <1>1 DEF RateIsTrue, Posting
<1> QED
  BY <1>4, <1>5, <1>6

LEMMA MoveStep ==
  ASSUME IInv, NothingDue \/ Return \/ Cancel
  PROVE  IInv'
<1>1. /\ TypeOK /\ Lives /\ Reported /\ prevTs <= now
      /\ UNCHANGED <<now, born, recent, kind, t0, lastProc, lastRT, rtEnabled, rtInterval, prev, prevTs, todo,
                     chunk, ep, try, accepted, stored>>
      /\ tick' \in {tick, FALSE} /\ ctxDone' \in {ctxDone, TRUE} /\ pc' \in {pc, "returned"}
  BY DEF IInv, NothingDue, Return, Cancel, worldVars, clockVars, rtVars, rateVars, postVars, historyVars
<1>2. TypeOK'
  BY <1>1 DEF TypeOK
<1>3. Lives' /\ Reported' /\ prevTs' <= now' /\ RateIsTrue' /\ OthersFollowPrimary' /\ Offered' /\ TryLeft'
  BY <1>1 DEF IInv, Lives, Reported, Told, Of, RateIsTrue, OthersFollowPrimary, Offered, TryLeft
<1> QED
  BY <1>2, <1>3 DEF IInv

LEMMA ChunkStep ==
  ASSUME IInv, EndSend \/ NextChunk
  PROVE  IInv'
<1> USE Constants
<1>1. TypeOK /\ 1 \in Endpoints /\ 0 \in 0..(MaxTries - 1)
  BY DEF IInv, Endpoints
<1>2. CASE EndSend
  <2>1. /\ UNCHANGED <<now, born, recent, tick, ctxDone, kind, rtEnabled, rtInterval, prev, prevTs, todo>>
        /\ lastProc' \in {t0, lastProc} /\ lastRT' = t0 /\ t0' = 0 /\ pc' = "select"
        /\ chunk' = {} /\ ep' = 1 /\ try' = 0 /\ accepted' = {} /\ stored' = [e \in Others |-> {}]
    BY <1>2 DEF EndSend, worldVars, rtVars, rateVars
  <2>2. Posting
    BY <1>1, <2>1 DEF Posting, TypeOK
  <2>3. accepted' \in SUBSET SUBSET Samples /\ stored' \in [Others -> SUBSET SUBSET Samples]
    BY <2>1
  <2>4. OthersFollowPrimary' /\ Offered' /\ TryLeft'
    BY <2>1 DEF OthersFollowPrimary, Offered, TryLeft
  <2> QED
    BY <2>2, <2>3, <2>4, PostingKeeps DEF IInv
<1>3. CASE NextChunk
  <2>1. /\ UNCHANGED <<now, born, recent, tick, ctxDone, kind, t0, lastProc, lastRT, rtEnabled, rtInterval,
                       prev, prevTs, accepted, stored>>
        /\ chunk' \subseteq todo /\ todo' \subseteq todo /\ pc' = "try" /\ ep' = 1 /\ try' = 0
    BY <1>3 DEF NextChunk, worldVars, clockVars, rtVars, rateVars, historyVars
  <2>2. Posting
    BY <1>1, <2>1 DEF Posting, TypeOK
  <2>3. accepted' \in SUBSET SUBSET Samples /\ stored' \in [Others -> SUBSET SUBSET Samples]
    BY <1>1, <2>1 DEF TypeOK
  <2>4. OthersFollowPrimary' /\ Offered' /\ TryLeft'
    BY <2>1 DEF IInv, OthersFollowPrimary, Offered, TryLeft
  <2> QED
    BY <2>2, <2>3, <2>4, PostingKeeps DEF IInv
<1> QED
  BY <1>2, <1>3

\* Where a post leads: on to an additional endpoint only if the others are not skipped.
LEMMA AfterPostFacts ==
  ASSUME TypeOK, NEW skip \in BOOLEAN, AfterPost(skip)
  PROVE  /\ pc' \in {"try", "chunk"} /\ ep' \in Endpoints /\ try' \in 0..(MaxTries - 1)
         /\ pc' = "try" => ~skip
<1> USE Constants
<1>1. ep \in Nat /\ ep >= 1 /\ ep <= LastEndpoint /\ ep \in Endpoints /\ try \in 0..(MaxTries - 1)
  BY DEF TypeOK, Endpoints
<1>2. CASE ep < LastEndpoint /\ ~skip
  <2>1. pc' = "try" /\ ep' = ep + 1 /\ try' = 0
    BY <1>2 DEF AfterPost
  <2> QED
    BY <1>1, <1>2, <2>1 DEF Endpoints
<1>3. CASE ~(ep < LastEndpoint /\ ~skip)
  <2>1. pc' = "chunk" /\ ep' = ep /\ try' = try
    BY <1>3 DEF AfterPost, postVars
  <2> QED
    BY <1>1, <2>1
<1> QED
  BY <1>2, <1>3

\* What an additional endpoint stores is the chunk it is offered.
LEMMA StoreFacts ==
  ASSUME TypeOK, Store
  PROVE  /\ stored' \in [Others -> SUBSET SUBSET Samples]
         /\ \A e \in Others : stored'[e] \subseteq stored[e] \cup (IF ep = 1 THEN {} ELSE {chunk})
<1>1. ep \in Endpoints /\ chunk \subseteq Samples /\ stored \in [Others -> SUBSET SUBSET Samples]
  BY DEF TypeOK
<1>2. CASE ep = 1
  BY <1>1, <1>2 DEF Store
<1>3. CASE ep # 1
  <2>1. stored' = [stored EXCEPT ![ep] = stored[ep] \cup {chunk}] /\ ep \in Others
    BY <1>1, <1>3 DEF Store, Others
  <2> HIDE DEF Others
  <2> QED
    BY <1>1, <1>3, <2>1
<1> QED
  BY <1>2, <1>3

LEMMA PostStep ==
  ASSUME IInv, Accepted \/ Retryable \/ Permanent \/ Wake \/ SleepEnds
  PROVE  IInv'
<1> USE Constants
<1>1. /\ TypeOK /\ Offered /\ OthersFollowPrimary /\ TryLeft /\ pc \in {"try", "sleep"}
      /\ UNCHANGED <<now, born, recent, tick, ctxDone, kind, t0, lastProc, lastRT, prev, prevTs, todo, chunk>>
  BY DEF IInv, Accepted, Retryable, Permanent, Wake, SleepEnds, worldVars, clockVars, rateVars
<1>2. /\ rtInterval \in Nat /\ rtEnabled \in BOOLEAN /\ chunk \subseteq Samples /\ try \in 0..(MaxTries - 1)
      /\ accepted \in SUBSET SUBSET Samples /\ stored \in [Others -> SUBSET SUBSET Samples]
      /\ ep \in Endpoints /\ (ep = 1) \in BOOLEAN
  BY <1>1 DEF TypeOK
<1>3. rtInterval' \in Nat /\ rtEnabled' \in BOOLEAN
  <2>1. CASE Accepted
    <3>1. PICK a \in Answers : applyRT(a)
      BY <2>1 DEF Accepted
    <3>2. CASE ep = 1 /\ a # None
      <4>1. a.interval \in Nat
        BY <3>2
      <4>2. rtEnabled' = (a.active > 0) /\ rtInterval' \in {a.interval, rtInterval}
        BY <3>1, <3>2 DEF applyRT
      <4>3. (a.active > 0) \in BOOLEAN
        OBVIOUS
      <4>4. rtEnabled' \in BOOLEAN
        BY ONLY <4>2, <4>3
      <4> QED
        BY <1>2, <4>1, <4>2, <4>4
    <3>3. CASE ~(ep = 1 /\ a # None)
      BY <1>2, <3>1, <3>3 DEF applyRT, rtVars
    <3> QED
      BY <3>2, <3>3
  <2>2. CASE ~Accepted
    BY <1>2, <2>2 DEF Retryable, Permanent, Wake, SleepEnds, rtVars
  <2> QED
    BY <2>1, <2>2
<1>4. /\ pc' \in {"chunk", "try", "sleep"} /\ ep' \in Endpoints /\ try' \in 0..(MaxTries - 1)
      /\ accepted' \in SUBSET SUBSET Samples /\ stored' \in [Others -> SUBSET SUBSET Samples]
      /\ OthersFollowPrimary' /\ Offered' /\ TryLeft'
  <2>1. CASE Accepted
    <3>1. /\ Store /\ AfterPost(FALSE)
          /\ accepted' = IF ep = 1 THEN accepted \cup {chunk} ELSE accepted
      BY <2>1 DEF Accepted
    <3>2. pc' \in {"try", "chunk"} /\ ep' \in Endpoints /\ try' \in 0..(MaxTries - 1)
      BY <1>1, <3>1, AfterPostFacts
    <3>3. chunk \in accepted' /\ accepted \subseteq accepted' /\ accepted' \in SUBSET SUBSET Samples
      BY <1>1, <1>2, <3>1 DEF Offered
    <3>4. OthersFollowPrimary'
      BY <1>1, <3>1, <3>3, StoreFacts DEF OthersFollowPrimary
    <3> QED
      BY <1>1, <3>1, <3>2, <3>3, <3>4, StoreFacts DEF Offered, TryLeft
  <2>2. CASE Retryable
    <3>1. accepted' = accepted /\ (Store \/ stored' = stored)
      BY <2>2 DEF Retryable
    <3>2. OthersFollowPrimary' /\ stored' \in [Others -> SUBSET SUBSET Samples]
      <4>1. CASE stored' = stored
        BY <1>1, <1>2, <3>1, <4>1 DEF OthersFollowPrimary
      <4>2. CASE Store
        <5>1. ep # 1 => chunk \in accepted
          BY <1>1 DEF Offered
        <5> QED
          BY <1>1, <3>1, <4>2, <5>1, StoreFacts DEF OthersFollowPrimary
      <4> QED
        BY <3>1, <4>1, <4>2
    <3>3. CASE try + 1 < MaxTries /\ pc' = "sleep" /\ UNCHANGED postVars
      <4>1. ep' = ep /\ try' = try
        BY <3>3 DEF postVars
      <4> QED
        BY <1>1, <1>2, <3>1, <3>2, <3>3, <4>1 DEF Offered, TryLeft
    <3>4. CASE AfterPost(ep = 1)
      <4>1. pc' \in {"try", "chunk"} /\ ep' \in Endpoints /\ try' \in 0..(MaxTries - 1) /\ (pc' = "try" => ep # 1)
        BY <1>1, <1>2, <3>4, AfterPostFacts
      <4> QED
        BY <1>1, <1>2, <3>1, <3>2, <4>1 DEF Offered, TryLeft
    <3> QED
      BY <2>2, <3>3, <3>4 DEF Retryable, PostFailed
  <2>3. CASE Permanent \/ SleepEnds
    <3>1. AfterPost(ep = 1) /\ accepted' = accepted /\ stored' = stored
      BY <2>3 DEF Permanent, SleepEnds, PostFailed, historyVars
    <3>2. pc' \in {"try", "chunk"} /\ ep' \in Endpoints /\ try' \in 0..(MaxTries - 1) /\ (pc' = "try" => ep # 1)
      BY <1>1, <1>2, <3>1, AfterPostFacts
    <3> QED
      BY <1>1, <1>2, <3>1, <3>2 DEF OthersFollowPrimary, Offered, TryLeft
  <2>4. CASE Wake
    <3>1. pc = "sleep" /\ pc' = "try" /\ try' = try + 1 /\ ep' = ep /\ accepted' = accepted /\ stored' = stored
      BY <2>4 DEF Wake, historyVars
    <3>2. try' \in 0..(MaxTries - 1)
      BY <1>1, <1>2, <3>1 DEF TryLeft
    <3> QED
      BY <1>1, <1>2, <3>1, <3>2 DEF OthersFollowPrimary, Offered, TryLeft
  <2> QED
    BY <2>1, <2>2, <2>3, <2>4
<1>5. Posting
  <2>1. tick \in BOOLEAN /\ ctxDone \in BOOLEAN
    BY <1>1 DEF TypeOK
  <2> QED
    BY <1>1, <1>3, <1>4, <2>1 DEF Posting
<1> QED
  BY <1>4, <1>5, PostingKeeps DEF IInv

----------------------------------------------------------------------------
(* The invariant.                                                          *)

LEMMA InitInv == Init => IInv
<1> SUFFICES ASSUME Init
             PROVE  IInv
  OBVIOUS
<1> USE Constants
<1>1. /\ born \in [Pids -> 0..MaxTime \cup {Gone}] /\ recent = born
      /\ \A p \in Pids : born[p] \in {0, Gone}
  <2>1. born \in [Pids -> {0, Gone}] /\ recent = born
    BY DEF Init
  <2>2. {0, Gone} \subseteq 0..MaxTime \cup {Gone}
    OBVIOUS
  <2> QED
    BY <2>1, <2>2
<1>2. prev \in [Pids -> [create : Int, usage : Int] \cup {Gone}] /\ \A p \in Pids : prev[p] = Gone
  BY DEF Init
<1>3. stored \in [Others -> SUBSET SUBSET Samples] /\ \A e \in Others : stored[e] = {}
  BY DEF Init
<1>4. {t0, lastProc, lastRT, prevTs} \subseteq Int /\ 1 \in Endpoints /\ 0 \in 0..(MaxTries - 1)
  BY DEF Init, Endpoints
<1>5. TypeOK
  <2>1. now \in 0..MaxTime /\ tick \in BOOLEAN /\ ctxDone \in BOOLEAN
    <3>1. now = 0
      BY DEF Init
    <3>2. tick = FALSE /\ ctxDone = FALSE
      BY DEF Init
    <3>3. now \in 0..MaxTime
      BY <3>1
    <3> QED
      BY ONLY <3>2, <3>3
  <2>2. /\ pc \in {"start", "select", "chunk", "try", "sleep", "returned"} /\ kind \in {"list", "realtime"}
        /\ rtInterval \in Nat /\ rtEnabled \in BOOLEAN
    BY DEF Init
  <2>3. /\ todo \subseteq Samples /\ chunk \subseteq Samples /\ ep \in Endpoints /\ try \in 0..(MaxTries - 1)
        /\ accepted \in SUBSET SUBSET Samples
    BY <1>4 DEF Init
  <2> QED
    BY <1>1, <1>2, <1>3, <1>4, <2>1, <2>2, <2>3 DEF TypeOK
<1>6. Lives
  BY <1>1 DEF Init, Lives
<1>7. Reported /\ Offered /\ TryLeft /\ prevTs <= now /\ RateIsTrue /\ OthersFollowPrimary
  BY <1>2, <1>3 DEF Init, Reported, Offered, TryLeft, RateIsTrue, OthersFollowPrimary
<1> QED
  BY <1>5, <1>6, <1>7 DEF IInv

LEMMA StutterInv == IInv /\ UNCHANGED vars => IInv'
<1> SUFFICES ASSUME IInv, UNCHANGED vars
             PROVE  IInv'
  OBVIOUS
<1>1. UNCHANGED <<now, born, recent, tick, ctxDone, pc, kind, t0, lastProc, lastRT, rtEnabled, rtInterval,
                  prev, prevTs, todo, chunk, ep, try, accepted, stored>>
  BY DEF vars, worldVars, clockVars, rtVars, rateVars, postVars, historyVars
<1>2. TypeOK'
  BY <1>1 DEF IInv, TypeOK
<1> QED
  BY <1>1, <1>2 DEF IInv, Lives, Reported, Told, Of, Offered, TryLeft, RateIsTrue, OthersFollowPrimary

LEMMA NextInv == IInv /\ [Next]_vars => IInv'
<1> SUFFICES ASSUME IInv, Next
             PROVE  IInv'
  BY StutterInv
<1>1. CASE Startup \/ SendList \/ SendRealtime
  <2>1. pc \in {"start", "select"} /\ tick' \in {tick, FALSE} /\ (Send("list") \/ Send("realtime"))
    BY <1>1 DEF Startup, SendList, SendRealtime
  <2> QED
    BY <2>1, SendStep
<1>2. CASE NothingDue \/ Return \/ Cancel
  BY <1>2, MoveStep
<1>3. CASE EndSend \/ NextChunk
  BY <1>3, ChunkStep
<1>4. CASE Accepted \/ Retryable \/ Permanent \/ Wake \/ SleepEnds
  BY <1>4, PostStep
<1>5. CASE Advance
  BY <1>5, AdvanceStep
<1> QED
  BY <1>1, <1>2, <1>3, <1>4, <1>5 DEF Next, Reporter

\* The invariant the theorems follow from.
THEOREM Invariant == Spec => []IInv
BY InitInv, NextInv, PTL DEF Spec

----------------------------------------------------------------------------
(* What follows.                                                           *)

\* Every variable of Reporter and of the post it makes keeps its type.
THEOREM Typing == Spec => []TypeOK
<1>1. IInv => TypeOK
  BY DEF IInv
<1> QED
  BY <1>1, Invariant, PTL

\* Reporter.rate never takes a counter against another process's or against another
\* time's: a rate is none or the true one.
THEOREM TrueRates == Spec => []RateIsTrue
<1>1. IInv => RateIsTrue
  BY DEF IInv
<1> QED
  BY <1>1, Invariant, PTL

\* Reporter.send offers the additional endpoints what the primary accepted, no more.
THEOREM PrimaryFirst == Spec => []OthersFollowPrimary
<1>1. IInv => OthersFollowPrimary
  BY DEF IInv
<1> QED
  BY <1>1, Invariant, PTL

\* Reporter.rate pins the create time that a process was first collected with for as
\* long as it is collected, and only of that process; a process that has none yet is
\* young.
THEOREM PinnedIdentity == Spec => IdentityKept
<1>1. ASSUME IInv, [Next]_vars, NEW p \in Pids, prev[p] # Gone, prev'[p] # Gone, prevTs' # prevTs
      PROVE  IF prev[p].create = Unknown THEN prev[p].usage < Young
             ELSE prev'[p].create = prev[p].create <=> born[p] = prevTs - prev[p].usage
  <2>1. PICK k \in {"list", "realtime"} : Send(k)
    BY <1>1 DEF Next, Reporter, Startup, SendList, SendRealtime, NothingDue, Return, EndSend, NextChunk,
                Accepted, Retryable, Permanent, Wake, SleepEnds, Advance, Cancel, rateVars, vars
  <2>2. PICK missed \in SUBSET Volatile, w \in [Pids -> 0..Wobble] :
          LET seen == Live \ missed
              create == [q \in seen |-> Pin(q, Observed(q, w[q]))]
          IN prev' = [q \in Pids |-> IF q \in seen
                                     THEN [create |-> create[q], usage |-> Usage(q)]
                                     ELSE Gone]
    BY <1>1, <2>1 DEF Send, rateVars
  <2> DEFINE at == Observed(p, w[p])
  <2>3. p \in Live
    BY <1>1, <2>2
  <2>4. born[p] # Gone /\ prev'[p].create = Pin(p, at) /\ w[p] \in 0..Wobble
    BY <1>1, <2>2, <2>3 DEF Live
  <2>5. at \in {Unknown} \cup born[p]..(born[p] + Wobble)
    BY <1>1, <2>4, ObservedFacts
  <2>6. CASE prev[p].create = Unknown
    BY <1>1, <2>6 DEF IInv, Reported, Told
  <2>7. CASE prev[p].create # Unknown /\ at # Unknown
    <3> HIDE DEF at
    <3> QED
      BY <1>1, <2>4, <2>5, <2>7, PinFacts DEF Of
  <2>8. CASE prev[p].create # Unknown /\ at = Unknown
    \* what was old enough to tell is not young any more
    <3>1. prev'[p].create # prev[p].create
      <4> HIDE DEF at
      <4> QED
        BY <1>1, <2>4, <2>5, <2>8, PinFacts
    <3>2. p \in Volatile /\ Usage(p) < Young
      BY <1>1, <2>4, <2>8, ObservedFacts
    <3>3. prev[p].usage \in Nat /\ prev[p].usage >= Young
      BY <1>1, <2>8, <3>2 DEF IInv, Reported, Told
    <3>4. born[p] # prevTs - prev[p].usage
      BY <1>1, <2>4, <3>2, <3>3, Facts, Constants DEF Usage
    <3> QED
      BY <2>8, <3>1, <3>4
  <2> QED
    BY <2>6, <2>7, <2>8
<1>2. IInv /\ [Next]_vars
        => [\A p \in Pids :
              prev[p] # Gone /\ prev'[p] # Gone /\ prevTs' # prevTs =>
                IF prev[p].create = Unknown THEN prev[p].usage < Young
                ELSE prev'[p].create = prev[p].create <=> born[p] = prevTs - prev[p].usage]_vars
  BY <1>1
<1> QED
  BY <1>2, Invariant, PTL DEF Spec, IdentityKept

----------------------------------------------------------------------------
(* The process tables the reporter is given (ProcessTable): create times    *)
(* and fetches, however old the processes are and however the table grows.  *)

Table == INSTANCE ProcessTable

\* Two observations of one create time that are within the slack.
Near(x, y) == x - y < Table!CreateTimeSlack /\ y - x < Table!CreateTimeSlack

\* The age of a process in whole units is at most the age and lacks less than one.
LEMMA WholeUnits ==
  ASSUME NEW unit \in {10, 1000}, NEW age \in Nat
  PROVE  /\ (age \div unit) * unit \in Nat /\ (age \div unit) * unit <= age
         /\ age < (age \div unit) * unit + unit
<1>1. CASE unit = 10
  BY <1>1
<1>2. CASE unit = 1000
  BY <1>2
<1> QED
  BY <1>1, <1>2

\* The create times that macOS derives from an age in whole seconds, and Plan 9 from
\* one in ticks: unknown (0) exactly below the first second or tick of age, and after it
\* less than that past the birth, so that any two are within the reporter's slack.  It
\* is what ProcessReporter assumes of Young, Unknown and Wobble (createTimeSlackMs,
\* psCreateTime and plan9CreateTime).
THEOREM CreateTimesNear ==
  ASSUME NEW birth \in Nat \ {0}, NEW n1 \in Nat, NEW n2 \in Nat, birth <= n1, birth <= n2,
         NEW e1, Table!parsePsElapsedSeconds(e1) = (n1 - birth) \div 1000,
         NEW e2, Table!parsePsElapsedSeconds(e2) = (n2 - birth) \div 1000,
         NEW mac1, mac1 = Table!psCreateTime(e1, n1),
         NEW mac2, mac2 = Table!psCreateTime(e2, n2),
         NEW plan1, plan1 = Table!plan9CreateTime(((n1 - birth) \div 10) * 10, n1),
         NEW plan2, plan2 = Table!plan9CreateTime(((n2 - birth) \div 10) * 10, n2)
  PROVE  /\ IF n1 - birth < 1000 THEN mac1 = 0 ELSE mac1 \in birth..(birth + 999)
         /\ IF n1 - birth < 10 THEN plan1 = 0 ELSE plan1 \in birth..(birth + 9)
         /\ 0 \notin {mac1, mac2} => Near(mac1, mac2)
         /\ 0 \notin {plan1, plan2} => Near(plan1, plan2)
<1> DEFINE Tells(t, clock, unit) ==
             IF clock - birth < unit THEN t = 0 ELSE t \in birth..(birth + unit - 1)
<1>1. ASSUME NEW clock \in Nat, birth <= clock, NEW e,
             Table!parsePsElapsedSeconds(e) = (clock - birth) \div 1000
      PROVE  Tells(Table!psCreateTime(e, clock), clock, 1000)
  <2> DEFINE secs == (clock - birth) \div 1000
  <2>1. clock - birth \in Nat /\ secs \in Nat
    BY <1>1
  <2>2. secs * 1000 \in Nat /\ secs * 1000 <= clock - birth /\ clock - birth < secs * 1000 + 1000
    BY <2>1, WholeUnits
  <2>3. Table!psCreateTime(e, clock) = IF secs > 0 THEN clock - secs * 1000 ELSE 0
    BY <1>1 DEF Table!psCreateTime
  <2> HIDE DEF secs
  <2> QED
    BY <1>1, <2>1, <2>2, <2>3
<1>2. ASSUME NEW clock \in Nat, birth <= clock
      PROVE  Tells(Table!plan9CreateTime(((clock - birth) \div 10) * 10, clock), clock, 10)
  <2> DEFINE ticks == (clock - birth) \div 10
  <2>1. clock - birth \in Nat /\ ticks \in Nat
    BY <1>2
  <2>2. ticks * 10 \in Nat /\ ticks * 10 <= clock - birth /\ clock - birth < ticks * 10 + 10
    BY <2>1, WholeUnits
  <2> HIDE DEF ticks
  <2>3. Tells(Table!plan9CreateTime(ticks * 10, clock), clock, 10)
    BY <1>2, <2>1, <2>2 DEF Table!plan9CreateTime
  <2> QED
    BY <2>3 DEF ticks
<1>3. Tells(mac1, n1, 1000) /\ Tells(mac2, n2, 1000)
  BY <1>1
<1>4. Tells(plan1, n1, 10) /\ Tells(plan2, n2, 10)
  BY <1>2
<1> QED
  BY <1>3, <1>4 DEF Near, Table!CreateTimeSlack

\* Min is the least of numbers, of which there is one.
LEMMA MinIsLeast ==
  ASSUME NEW T, T \subseteq Nat, T # {}
  PROVE  Table!Min(T) \in T /\ \A n \in T : Table!Min(T) <= n
<1> DEFINE Least(m) == m \in T /\ \A n \in T : m <= n
<1>4. PICK m : Least(m)
  BY LeastNumber
<1>5. Table!Min(T) = CHOOSE x : Least(x)
  BY DEF Table!Min
<1>6. Least(Table!Min(T))
  <2> HIDE DEF Least
  <2> QED
    BY <1>4, <1>5
<1> QED
  BY <1>6

\* A fetch of a table that had grown past the room made for it.
Outgrew(f) == f.size # Table!Absent /\ f.size > f.room

\* The table that is used is whole, the first that fits, after at most three that did
\* not; and there is none only if four in a row (or all there were) outgrew their room,
\* or a fetch failed otherwise before one fitted (sysctlProcAll's ENOMEM loop).
THEOREM FetchedWhole ==
  ASSUME NEW fetches, NEW N \in Nat \ {0}, DOMAIN fetches = 1..N, Len(fetches) = N,
         NEW t, t = Table!sysctlProcAll(fetches)
  PROVE  \/ /\ t \in 1..N /\ t <= 4
            /\ fetches[t].size # Table!Absent /\ ~Outgrew(fetches[t])
            /\ \A k \in 1..(t - 1) : Outgrew(fetches[k])
         \/ /\ t = Table!Absent
            /\ \/ \A k \in 1..N : k <= 4 => Outgrew(fetches[k])
               \/ \E k \in 1..N : /\ fetches[k].size = Table!Absent
                                  /\ \A j \in 1..(k - 1) : Outgrew(fetches[j])
<1> DEFINE most == Table!Min({4, Len(fetches)})
           done == {k \in 1..most : ~Outgrew(fetches[k])}
<1>1. most \in Nat /\ most \in {4, N} /\ most <= 4 /\ most <= N
  <2>1. {4, N} \subseteq Nat /\ {4, N} # {}
    OBVIOUS
  <2>2. most \in {4, N} /\ \A n \in {4, N} : most <= n
    BY <2>1, MinIsLeast
  <2> HIDE DEF most
  <2> QED
    BY <2>1, <2>2
<1>2. most \in Nat /\ \A k \in 1..most : k \in 1..N /\ k <= 4
  <2> HIDE DEF most
  <2> QED
    BY <1>1
<1>3. \A k \in 1..N : k <= 4 => k \in 1..most
  <2> HIDE DEF most
  <2> QED
    BY <1>1
<1>4. t = IF done = {} \/ fetches[Table!Min(done)].size = Table!Absent
          THEN Table!Absent ELSE Table!Min(done)
  BY DEF Table!sysctlProcAll, Outgrew
<1> HIDE DEF most
<1>5. CASE done = {}
  <2>1. \A k \in 1..N : k <= 4 => Outgrew(fetches[k])
    BY <1>3, <1>5
  <2>2. t = Table!Absent
    BY <1>4, <1>5
  <2> QED
    BY <2>1, <2>2
<1>6. CASE done # {}
  <2> DEFINE first == Table!Min(done)
  <2>1. done \subseteq Nat
    BY <1>2
  <2>2. first \in done /\ \A n \in done : first <= n
    <3> HIDE DEF done
    <3> QED
      BY <1>6, <2>1, MinIsLeast
  <2> HIDE DEF first
  <2>3. first \in 1..N /\ first <= 4 /\ ~Outgrew(fetches[first]) /\ first \in 1..most
    BY <1>2, <2>2
  <2>4. \A k \in 1..(first - 1) : Outgrew(fetches[k])
    <3> SUFFICES ASSUME NEW k \in 1..(first - 1), ~Outgrew(fetches[k]) PROVE FALSE
      OBVIOUS
    <3>1. k \in 1..most /\ k < first
      BY <1>2, <2>3
    <3> QED
      BY <2>2, <2>3, <3>1
  <2>5. t = IF fetches[first].size = Table!Absent THEN Table!Absent ELSE first
    BY <1>4, <1>6 DEF first
  <2>6. CASE fetches[first].size = Table!Absent
    BY <2>3, <2>4, <2>5, <2>6
  <2>7. CASE fetches[first].size # Table!Absent
    BY <2>3, <2>4, <2>5, <2>7
  <2> QED
    BY <2>6, <2>7
<1> QED
  BY <1>5, <1>6

\* With the room that OpenBSD and NetBSD add, sixteen more processes than there were
\* still fit at the first try (the slop of sysctlProcAll's callers).
THEOREM SlopFits ==
  ASSUME NEW n \in Nat, NEW stride \in Nat, NEW new \in 0..16
  PROVE  ~Outgrew([room |-> Table!Slop(n * stride, stride), size |-> (n + new) * stride])
<1>1. n * stride \in Nat /\ new * stride \in Nat /\ (16 - new) * stride \in Nat
  OBVIOUS
<1>2. (n + new) * stride = n * stride + new * stride
      /\ 16 * stride = new * stride + (16 - new) * stride
  OBVIOUS
<1>3. ASSUME NEW s \in Nat PROVE s \div 8 \in Nat
  BY <1>3
<1>4. Table!Slop(n * stride, stride) \in Nat /\ (n + new) * stride \in Nat
      /\ (n + new) * stride <= Table!Slop(n * stride, stride)
  BY <1>1, <1>2, <1>3 DEF Table!Slop
<1> QED
  BY <1>4 DEF Outgrew

----------------------------------------------------------------------------
(* The protobuf that the process reporter posts and the answers it reads     *)
(* (ProcessWire), whatever they hold.                                       *)

Wire == INSTANCE ProcessWire

\* Division by 128 makes a number smaller, down to 0.
LEMMA Div128 ==
  ASSUME NEW v \in Nat
  PROVE  /\ v \div 128 \in Nat /\ v % 128 \in 0..127
         /\ v = 128 * (v \div 128) + (v % 128)
         /\ v >= 128 => v \div 128 < v
OBVIOUS

\* One turn of uvarint's recursion.
Turn(f, v) == IF v < 128 THEN <<v>> ELSE <<128 + (v % 128)>> \o f[v \div 128]

LEMMA TurnType ==
  ASSUME NEW f \in [Nat -> Seq(Nat)], NEW v \in Nat
  PROVE  Turn(f, v) \in Seq(Nat)
<1>1. CASE v < 128
  BY <1>1 DEF Turn
<1>2. CASE ~(v < 128)
  <2>1. f[v \div 128] \in Seq(Nat) /\ <<128 + (v % 128)>> \in Seq(Nat)
    BY Div128
  <2> QED
    BY <1>2, <2>1 DEF Turn
<1> QED
  BY <1>1, <1>2

\* The function there is: what v + 1 turns make of v, which more do not change.
LEMMA UvarintIs ==
  \A v \in Nat : Wire!uvarint[v] = Turn(Wire!uvarint, v)
<1> DEFINE S == [Nat -> Seq(Nat)]
           base == [v \in Nat |-> <<>>]
           step == [n \in Nat |-> [f \in S |-> [v \in Nat |-> Turn(f, v)]]]
<1>1. base \in S
  OBVIOUS
<1>2. step \in [Nat -> [S -> S]]
  <2>1. \A f \in S : [v \in Nat |-> Turn(f, v)] \in S
    BY TurnType
  <2> HIDE DEF S
  <2> QED
    BY <2>1
<1>3. PICK g : Iterates(g, S, base, step)
  <2> HIDE DEF S, base, step
  <2> QED
    BY <1>1, <1>2, RecursionOnNat
<1>4. ASSUME NEW n \in Nat, NEW v \in Nat PROVE g[n + 1][v] = Turn(g[n], v)
  <2>1. g[n] \in S /\ g[n + 1] = step[n][g[n]]
    BY <1>3 DEF Iterates
  <2> HIDE DEF S
  <2> QED
    BY <2>1
<1> HIDE DEF S, base, step
<1> DEFINE Stable(w) == \A j, k \in Nat : j > w /\ k > w => g[j][w] = g[k][w]
           T == {n \in Nat : \A w \in 0..n : Stable(w)}
<1>5. ASSUME NEW j \in Nat, NEW w \in Nat, j > w PROVE g[j][w] = Turn(g[j - 1], w)
  <2>1. j - 1 \in Nat /\ (j - 1) + 1 = j
    BY <1>5
  <2> QED
    BY <1>4, <2>1
<1>6. ASSUME NEW w \in Nat, w >= 128 => Stable(w \div 128) PROVE Stable(w)
  <2> SUFFICES ASSUME NEW j \in Nat, NEW k \in Nat, j > w, k > w PROVE g[j][w] = g[k][w]
    OBVIOUS
  <2>1. g[j][w] = Turn(g[j - 1], w) /\ g[k][w] = Turn(g[k - 1], w)
    BY <1>5
  <2>2. CASE w < 128
    BY <2>1, <2>2 DEF Turn
  <2>3. CASE w >= 128
    <3>1. j - 1 \in Nat /\ k - 1 \in Nat /\ j - 1 > w \div 128 /\ k - 1 > w \div 128
      BY <2>3, Div128
    <3>2. g[j - 1][w \div 128] = g[k - 1][w \div 128]
      BY <1>6, <2>3, <3>1
    <3> QED
      BY <2>1, <2>3, <3>2 DEF Turn
  <2> QED
    BY <2>2, <2>3
<1>7. 0 \in T
  BY <1>6
<1>8. ASSUME NEW n \in T PROVE n + 1 \in T
  <2> HIDE DEF Stable
  <2>1. n \in Nat /\ \A w \in 0..n : Stable(w)
    OBVIOUS
  <2>2. n + 1 >= 128 => (n + 1) \div 128 \in 0..n
    BY <2>1, Div128
  <2>3. Stable(n + 1)
    BY <1>6, <2>1, <2>2
  <2>4. \A w \in 0..(n + 1) : w \in 0..n \/ w = n + 1
    BY <2>1
  <2> QED
    BY <2>1, <2>3, <2>4
<1>9. \A w \in Nat : Stable(w)
  <2> HIDE DEF Stable
  <2>1. T \subseteq Nat
    OBVIOUS
  <2>2. T = Nat
    <3> HIDE DEF T
    <3> QED
      BY <1>7, <1>8, <2>1, InductionOnNat
  <2>3. \A w \in Nat : w \in T /\ w \in 0..w
    BY <2>2
  <2> QED
    BY <2>3
<1> DEFINE u == [v \in Nat |-> g[v + 1][v]]
           Rec(f) == f = [v \in Nat |-> IF v < 128 THEN <<v>>
                                         ELSE <<128 + (v % 128)>> \o f[v \div 128]]
<1>10. ASSUME NEW v \in Nat PROVE u[v] = Turn(u, v)
  <2>1. u[v] = Turn(g[v], v)
    BY <1>4
  <2>2. CASE v < 128
    BY <2>1, <2>2 DEF Turn
  <2>3. CASE ~(v < 128)
    <3> DEFINE w == v \div 128
    <3>1. w \in Nat /\ v > w /\ w + 1 > w /\ w + 1 \in Nat
      BY <2>3, Div128
    <3>2. g[v][w] = g[w + 1][w]
      <4> HIDE DEF w
      <4> QED
        BY <1>9, <3>1
    <3>3. u[w] = g[w + 1][w]
      BY <3>1
    <3> HIDE DEF u
    <3> QED
      BY <2>1, <2>3, <3>2, <3>3 DEF Turn
  <2> QED
    BY <2>2, <2>3
<1>11. Rec(u)
  <2>1. u = [v \in Nat |-> u[v]]
    OBVIOUS
  <2> HIDE DEF u
  <2>2. u = [v \in Nat |-> Turn(u, v)]
    BY <1>10, <2>1
  <2> QED
    BY <2>2 DEF Turn
<1>12. Wire!uvarint = CHOOSE f : Rec(f)
  BY DEF Wire!uvarint
<1>13. Rec(Wire!uvarint)
  <2> HIDE DEF Rec, u
  <2> QED
    BY <1>11, <1>12
<1> QED
  BY <1>13 DEF Turn

\* Its bytes.
LEMMA UvarintType ==
  ASSUME NEW v \in Nat
  PROVE  Wire!uvarint[v] \in Seq(Nat) /\ Len(Wire!uvarint[v]) >= 1
<1> DEFINE Typed(w) == Wire!uvarint[w] \in Seq(Nat) /\ Len(Wire!uvarint[w]) >= 1
           T == {n \in Nat : \A w \in 0..n : Typed(w)}
<1>1. ASSUME NEW w \in Nat, w >= 128 => Typed(w \div 128) PROVE Typed(w)
  <2>1. Wire!uvarint[w] = Turn(Wire!uvarint, w)
    BY UvarintIs
  <2>2. CASE w < 128
    BY <2>1, <2>2 DEF Turn
  <2>3. CASE w >= 128
    <3> DEFINE x == Wire!uvarint[w \div 128]
    <3>1. x \in Seq(Nat) /\ <<128 + (w % 128)>> \in Seq(Nat)
      BY <1>1, <2>3, Div128
    <3>2. Wire!uvarint[w] = <<128 + (w % 128)>> \o x
      BY <2>1, <2>3 DEF Turn
    <3> HIDE DEF x
    <3> QED
      BY <3>1, <3>2
  <2> QED
    BY <2>2, <2>3
<1> HIDE DEF Typed
<1>2. 0 \in T
  BY <1>1
<1>3. ASSUME NEW n \in T PROVE n + 1 \in T
  <2>1. n \in Nat /\ \A w \in 0..n : Typed(w)
    OBVIOUS
  <2>2. n + 1 >= 128 => (n + 1) \div 128 \in 0..n
    BY <2>1, Div128
  <2>3. Typed(n + 1)
    BY <1>1, <2>1, <2>2
  <2>4. \A w \in 0..(n + 1) : w \in 0..n \/ w = n + 1
    BY <2>1
  <2> QED
    BY <2>1, <2>3, <2>4
<1>4. T \subseteq Nat
  OBVIOUS
<1>5. T = Nat
  <2>1. \A n \in T : n + 1 \in T
    BY <1>3
  <2> HIDE DEF T
  <2> QED
    BY <1>2, <1>4, <2>1, InductionOnNat
<1>6. v \in T
  BY <1>5
<1>7. v \in 0..v
  OBVIOUS
<1>8. Typed(v)
  BY <1>6, <1>7
<1> QED
  BY <1>8 DEF Typed

LEMMA UvarintParts ==
  ASSUME NEW v \in Nat, v >= 128
  PROVE  /\ Wire!uvarint[v][1] = 128 + (v % 128)
         /\ Len(Wire!uvarint[v]) = Len(Wire!uvarint[v \div 128]) + 1
         /\ \A k \in 1..Len(Wire!uvarint[v \div 128]) :
              Wire!uvarint[v][k + 1] = Wire!uvarint[v \div 128][k]
<1> DEFINE x == Wire!uvarint[v \div 128]
<1>1. x \in Seq(Nat) /\ <<128 + (v % 128)>> \in Seq(Nat)
  BY Div128, UvarintType
<1>2. Wire!uvarint[v] = <<128 + (v % 128)>> \o x
  <2>1. Wire!uvarint[v] = Turn(Wire!uvarint, v)
    BY UvarintIs
  <2> QED
    BY <2>1 DEF Turn
<1> HIDE DEF x
<1>3. /\ Wire!uvarint[v][1] = 128 + (v % 128)
      /\ Len(Wire!uvarint[v]) = Len(x) + 1
      /\ \A k \in 1..Len(x) : Wire!uvarint[v][k + 1] = x[k]
  BY <1>1, <1>2
<1> QED
  BY <1>3 DEF x

\* Seventy bits, so the sixty-four of a Go integer, fit in ten bytes.
Short(bound, k) == \A v \in Nat : v < bound => Len(Wire!uvarint[v]) <= k
TwoTo70 == 128 * 128 * 128 * 128 * 128 * 128 * 128 * 128 * 128 * 128

LEMMA TenBytes == Short(TwoTo70, 10)
<1>1. Short(128, 1)
  <2> SUFFICES ASSUME NEW v \in Nat, v < 128 PROVE Len(Wire!uvarint[v]) <= 1
    BY DEF Short
  <2>1. Wire!uvarint[v] = <<v>>
    BY UvarintIs DEF Turn
  <2> QED
    BY <2>1
<1>2. ASSUME NEW bound \in Nat, NEW k \in Nat, k >= 1, Short(bound, k)
      PROVE  Short(bound * 128, k + 1)
  <2> SUFFICES ASSUME NEW v \in Nat, v < bound * 128 PROVE Len(Wire!uvarint[v]) <= k + 1
    BY DEF Short
  <2>1. CASE v < 128
    <3>1. Wire!uvarint[v] = <<v>>
      BY <2>1, UvarintIs DEF Turn
    <3> QED
      BY <1>2, <3>1
  <2>2. CASE v >= 128
    <3>1. v \div 128 \in Nat /\ v \div 128 < bound
      OBVIOUS
    <3>2. Len(Wire!uvarint[v \div 128]) <= k /\ Len(Wire!uvarint[v \div 128]) \in Nat
      BY <1>2, <3>1, UvarintType DEF Short
    <3> QED
      BY <2>2, <3>2, UvarintParts
  <2> QED
    BY <2>1, <2>2
<1> DEFINE B2 == 128 * 128
           B3 == B2 * 128
           B4 == B3 * 128
           B5 == B4 * 128
           B6 == B5 * 128
           B7 == B6 * 128
           B8 == B7 * 128
           B9 == B8 * 128
<1>3. B2 \in Nat /\ Short(B2, 2)
  BY <1>1, <1>2
<1> HIDE DEF B2
<1>4. B3 \in Nat /\ Short(B3, 3)
  BY <1>2, <1>3
<1> HIDE DEF B3
<1>5. B4 \in Nat /\ Short(B4, 4)
  BY <1>2, <1>4
<1> HIDE DEF B4
<1>6. B5 \in Nat /\ Short(B5, 5)
  BY <1>2, <1>5
<1> HIDE DEF B5
<1>7. B6 \in Nat /\ Short(B6, 6)
  BY <1>2, <1>6
<1> HIDE DEF B6
<1>8. B7 \in Nat /\ Short(B7, 7)
  BY <1>2, <1>7
<1> HIDE DEF B7
<1>9. B8 \in Nat /\ Short(B8, 8)
  BY <1>2, <1>8
<1> HIDE DEF B8
<1>10. B9 \in Nat /\ Short(B9, 9)
  BY <1>2, <1>9
<1> HIDE DEF B9
<1>11. Short(B9 * 128, 10)
  BY <1>2, <1>10
<1>12. B9 * 128 = TwoTo70
  BY Zenon DEF TwoTo70, B2, B3, B4, B5, B6, B7, B8, B9
<1> QED
  BY <1>11, <1>12, Zenon

\* What digits makes of the byte at a place, and of what the rest says.
Digit(b, at, more) ==
  IF at > Len(b) THEN Wire!Malformed
  ELSE IF b[at] < 128 THEN [ok |-> TRUE, val |-> b[at], data |-> <<>>, i |-> at + 1]
  ELSE IF more.ok THEN [more EXCEPT !.val = 128 * @ + (b[at] % 128)] ELSE Wire!Malformed
Read(val, i) == [ok |-> TRUE, val |-> val, data |-> <<>>, i |-> i]
Readings == {Wire!Malformed} \cup {Read(val, i) : val \in Nat, i \in Nat}

LEMMA DigitType ==
  ASSUME NEW b \in Seq(Nat), NEW at \in Nat \ {0}, NEW more \in Readings
  PROVE  Digit(b, at, more) \in Readings
<1>1. CASE at > Len(b)
  BY <1>1 DEF Digit, Readings
<1>2. CASE ~(at > Len(b))
  <2>1. at \in 1..Len(b) /\ b[at] \in Nat
    BY <1>2
  <2>2. CASE b[at] < 128
    <3>1. Digit(b, at, more) = Read(b[at], at + 1) /\ at + 1 \in Nat
      BY <1>2, <2>2 DEF Digit, Read
    <3> QED
      BY <2>1, <3>1 DEF Readings
  <2>3. CASE ~(b[at] < 128)
    <3>1. CASE ~more.ok
      BY <1>2, <2>3, <3>1 DEF Digit, Readings
    <3>2. CASE more.ok
      <4>1. PICK val \in Nat, i \in Nat : more = Read(val, i)
        BY <3>2 DEF Readings, Wire!Malformed
      <4>2. Digit(b, at, more) = Read(128 * val + (b[at] % 128), i)
        BY <1>2, <2>3, <3>2, <4>1 DEF Digit, Read
      <4>3. 128 * val + (b[at] % 128) \in Nat
        BY <2>1, <4>1, Div128
      <4> QED
        BY <4>2, <4>3 DEF Readings
    <3> QED
      BY <3>1, <3>2
  <2> QED
    BY <2>2, <2>3
<1> QED
  BY <1>1, <1>2

LEMMA DigitReads ==
  ASSUME NEW b \in Seq(Nat), NEW at \in 1..Len(b), NEW q \in Nat, NEW y \in Nat, ~(b[at] < 128)
  PROVE  Digit(b, at, Read(q, y)) = Read(128 * q + (b[at] % 128), y)
<1>1. PICK more : more = Read(q, y)
  OBVIOUS
<1>2. more.ok /\ ~(at > Len(b))
  BY <1>1 DEF Read
<1>3. Digit(b, at, more) = Read(128 * q + (b[at] % 128), y)
  BY <1>1, <1>2 DEF Digit, Read
<1> QED
  BY <1>1, <1>3

\* varint's recursion, a turn per byte.
Digits(f, b, i) ==
  f[0] = Wire!Malformed /\ \A left \in 1..10 : f[left] = Digit(b, i + 10 - left, f[left - 1])

\* The function digits there is: what left turns make of every place.
LEMMA DigitsAre ==
  ASSUME NEW b \in Seq(Nat), NEW i \in Nat \ {0}
  PROVE  /\ Wire!digits[0][b][i] = Wire!Malformed
         /\ \A left \in 1..10 :
              Wire!digits[left][b][i] = Digit(b, i, Wire!digits[left - 1][b][i + 1])
<1> DEFINE P == Nat \ {0}
           S == [Seq(Nat) -> [P -> Readings]]
           base == [c \in Seq(Nat) |-> [j \in P |-> Wire!Malformed]]
           turn(m) == [c \in Seq(Nat) |-> [j \in P |-> Digit(c, j, m[c][j + 1])]]
           step == [n \in Nat |-> [m \in S |-> turn(m)]]
           body(f, left, c, j) ==
             IF left = 0 \/ j > Len(c) THEN Wire!Malformed
             ELSE IF c[j] < 128 THEN [ok |-> TRUE, val |-> c[j], data |-> <<>>, i |-> j + 1]
             ELSE IF f[left - 1][c][j + 1].ok
             THEN [f[left - 1][c][j + 1] EXCEPT !.val = 128 * @ + (c[j] % 128)]
             ELSE Wire!Malformed
           Rec(f) == f = [left \in 0..10 |-> [c \in Seq(Nat) |-> [j \in P |-> body(f, left, c, j)]]]
<1>1. base \in S
  <2>1. Wire!Malformed \in Readings
    BY DEF Readings
  <2> QED
    BY <2>1
<1>2. step \in [Nat -> [S -> S]]
  <2>1. ASSUME NEW m \in S PROVE turn(m) \in S
    <3>1. ASSUME NEW c \in Seq(Nat), NEW j \in P PROVE Digit(c, j, m[c][j + 1]) \in Readings
      <4>1. m[c] \in [P -> Readings] /\ j + 1 \in P
        OBVIOUS
      <4>2. m[c][j + 1] \in Readings
        BY <4>1
      <4> QED
        BY <4>2, DigitType
    <3> HIDE DEF P
    <3> QED
      BY <3>1
  <2> HIDE DEF S, turn
  <2> QED
    BY <2>1
<1>3. PICK g : Iterates(g, S, base, step)
  <2> HIDE DEF S, base, step
  <2> QED
    BY <1>1, <1>2, RecursionOnNat
<1> DEFINE h == [left \in 0..10 |-> g[left]]
<1>4. h[0] = base
  BY <1>3 DEF Iterates
<1>5. ASSUME NEW left \in 1..10 PROVE h[left] = turn(h[left - 1])
  <2>1. left - 1 \in Nat /\ (left - 1) + 1 = left /\ left - 1 \in 0..10 /\ left \in 0..10
    OBVIOUS
  <2> HIDE DEF S, turn
  <2>2. g[left - 1] \in S /\ g[left] = step[left - 1][g[left - 1]]
    BY <1>3, <2>1 DEF Iterates
  <2>3. step[left - 1][g[left - 1]] = turn(g[left - 1])
    BY <2>1, <2>2
  <2> QED
    BY <2>1, <2>2, <2>3
<1> HIDE DEF h, S
<1>6. ASSUME NEW left \in 0..10
      PROVE  h[left] = [c \in Seq(Nat) |-> [j \in P |-> body(h, left, c, j)]]
  <2>1. CASE left = 0
    <3>1. \A c \in Seq(Nat), j \in P : body(h, left, c, j) = Wire!Malformed
      BY <2>1
    <3> HIDE DEF body, P
    <3> QED
      BY <1>4, <2>1, <3>1
  <2>2. CASE left # 0
    <3>1. h[left] = turn(h[left - 1])
      <4>1. left \in 1..10
        BY <2>2
      <4> HIDE DEF turn
      <4> QED
        BY <1>5, <4>1
    <3>2. \A c \in Seq(Nat), j \in P : body(h, left, c, j) = Digit(c, j, h[left - 1][c][j + 1])
      BY <2>2 DEF Digit
    <3> HIDE DEF body, P
    <3> QED
      BY <3>1, <3>2
  <2> QED
    BY <2>1, <2>2
<1>7. Rec(h)
  <2>1. h = [left \in 0..10 |-> h[left]]
    BY DEF h
  <2> HIDE DEF body, P
  <2> QED
    BY <1>6, <2>1
<1>8. Wire!digits = CHOOSE f : Rec(f)
  BY DEF Wire!digits
<1>9. Rec(Wire!digits)
  <2> HIDE DEF Rec
  <2> QED
    BY <1>7, <1>8
<1>10. PICK f : f = Wire!digits /\ Rec(f)
  <2> HIDE DEF Rec
  <2> QED
    BY <1>9
<1>11. ASSUME NEW left \in 0..10 PROVE f[left][b][i] = body(f, left, b, i)
  <2>1. i \in P
    OBVIOUS
  <2>2. PICK r : r = [c \in Seq(Nat) |-> [j \in P |-> body(f, left, c, j)]]
    OBVIOUS
  <2> HIDE DEF body, P
  <2>3. f[left] = r
    BY <1>10, <2>2
  <2>4. r[b] = [j \in P |-> body(f, left, b, j)]
    BY <2>2
  <2> QED
    BY <2>1, <2>3, <2>4
<1> HIDE DEF Rec
<1>12. f[0][b][i] = Wire!Malformed
  <2>1. 0 \in 0..10 /\ body(f, 0, b, i) = Wire!Malformed
    OBVIOUS
  <2> HIDE DEF body, P, base, turn, step
  <2> QED
    BY <1>11, <2>1
<1>13. ASSUME NEW left \in 1..10 PROVE f[left][b][i] = Digit(b, i, f[left - 1][b][i + 1])
  <2>1. left \in 0..10 /\ left # 0
    OBVIOUS
  <2>2. f[left][b][i] = body(f, left, b, i)
    BY <1>11, <2>1
  <2> QED
    BY <2>1, <2>2 DEF Digit
<1> QED
  BY <1>10, <1>12, <1>13

LEMMA VarintIs ==
  ASSUME NEW b \in Seq(Nat), NEW i \in Nat \ {0}
  PROVE  \E f : Digits(f, b, i) /\ Wire!varint(b, i) = f[10]
<1> DEFINE d == Wire!digits
           f == [left \in 0..10 |-> d[left][b][i + 10 - left]]
<1>1. f[0] = Wire!Malformed
  <2>1. i + 10 - 0 \in Nat \ {0}
    OBVIOUS
  <2>2. d[0][b][i + 10 - 0] = Wire!Malformed
    BY <2>1, DigitsAre
  <2> HIDE DEF d
  <2> QED
    BY <2>2
<1>2. ASSUME NEW left \in 1..10 PROVE f[left] = Digit(b, i + 10 - left, f[left - 1])
  <2> DEFINE j == i + 10 - left
  <2>1. j \in Nat \ {0} /\ i + 10 - (left - 1) = j + 1 /\ left \in 0..10 /\ left - 1 \in 0..10
    OBVIOUS
  <2>2. d[left][b][j] = Digit(b, j, d[left - 1][b][j + 1])
    BY <2>1, DigitsAre
  <2> HIDE DEF d
  <2> QED
    BY <2>1, <2>2
<1>3. Wire!varint(b, i) = f[10]
  <2>1. Wire!varint(b, i) = d[10][b][i]
    BY DEF Wire!varint
  <2>2. i + 10 - 10 = i
    OBVIOUS
  <2> HIDE DEF d
  <2> QED
    BY <2>1, <2>2
<1> HIDE DEF f
<1> QED
  BY <1>1, <1>2, <1>3 DEF Digits

\* The bytes s are in b from p on.
Has(b, p, s) == p + Len(s) - 1 <= Len(b) /\ \A k \in 1..Len(s) : b[p + k - 1] = s[k]

\* varint reads back what uvarint wrote, wherever it is.
LEMMA VarintReads ==
  ASSUME NEW b \in Seq(Nat), NEW p \in Nat \ {0}, NEW v \in Nat, v < TwoTo70,
         Has(b, p, Wire!uvarint[v])
  PROVE  Wire!varint(b, p) = Read(v, p + Len(Wire!uvarint[v]))
<1>1. PICK f : Digits(f, b, p) /\ Wire!varint(b, p) = f[10]
  BY VarintIs
<1> DEFINE u(w) == Wire!uvarint[w]
           at(left) == p + 10 - left
           Back(w) == \A left \in 0..10 :
                        Len(u(w)) <= left /\ Has(b, at(left), u(w))
                          => f[left] = Read(w, at(left) + Len(u(w)))
           T == {n \in Nat : \A w \in 0..n : Back(w)}
<1>2. ASSUME NEW w \in Nat, w >= 128 => Back(w \div 128) PROVE Back(w)
  <2> SUFFICES ASSUME NEW left \in 0..10, Len(u(w)) <= left, Has(b, at(left), u(w))
               PROVE  f[left] = Read(w, at(left) + Len(u(w)))
    OBVIOUS
  <2> DEFINE x == at(left)
  <2>1. u(w) \in Seq(Nat) /\ Len(u(w)) >= 1 /\ Len(u(w)) \in Nat
    BY UvarintType
  <2>2. left \in 1..10 /\ left - 1 \in 0..10 /\ x \in Nat /\ x >= 1 /\ at(left - 1) = x + 1
    BY <2>1
  <2>3. ~(x > Len(b)) /\ b[x] = u(w)[1]
    <3>1. x + Len(u(w)) - 1 <= Len(b) /\ \A k \in 1..Len(u(w)) : b[x + k - 1] = u(w)[k]
      BY DEF Has
    <3>2. 1 \in 1..Len(u(w)) /\ x + 1 - 1 = x /\ Len(b) \in Nat
      BY <2>1, <2>2
    <3> HIDE DEF x, u
    <3> QED
      BY <2>1, <2>2, <3>1, <3>2
  <2>4. f[left] = Digit(b, x, f[left - 1])
    BY <1>1, <2>2 DEF Digits
  <2>5. CASE w < 128
    <3>1. u(w) = <<w>>
      <4>1. u(w) = Turn(Wire!uvarint, w)
        BY UvarintIs
      <4> QED
        BY <2>5, <4>1 DEF Turn
    <3>2. Len(u(w)) = 1 /\ u(w)[1] = w
      BY <3>1
    <3> HIDE DEF x, u
    <3>3. f[left] = Read(w, x + 1)
      BY <2>3, <2>4, <2>5, <3>2 DEF Digit, Read
    <3> QED
      BY <3>2, <3>3 DEF x
  <2>6. CASE w >= 128
    <3> DEFINE q == w \div 128
    <3>1. q \in Nat /\ u(q) \in Seq(Nat) /\ Len(u(q)) \in Nat
      BY Div128, UvarintType
    <3>2. /\ u(w)[1] = 128 + (w % 128) /\ Len(u(w)) = Len(u(q)) + 1
          /\ \A k \in 1..Len(u(q)) : u(w)[k + 1] = u(q)[k]
      BY <2>6, UvarintParts
    <3>3. Has(b, x + 1, u(q))
      <4>1. x + Len(u(w)) - 1 <= Len(b) /\ \A k \in 1..Len(u(w)) : b[x + k - 1] = u(w)[k]
        BY DEF Has
      <4>2. \A k \in 1..Len(u(q)) : k + 1 \in 1..Len(u(w)) /\ x + (k + 1) - 1 = (x + 1) + k - 1
        BY <2>2, <3>1, <3>2
      <4> HIDE DEF x, u, q
      <4>3. (x + 1) + Len(u(q)) - 1 <= Len(b)
        BY <2>2, <3>1, <3>2, <4>1
      <4>4. \A k \in 1..Len(u(q)) : b[(x + 1) + k - 1] = u(q)[k]
        BY <3>2, <4>1, <4>2
      <4> QED
        BY <4>3, <4>4 DEF Has
    <3>4. f[left - 1] = Read(q, (x + 1) + Len(u(q)))
      <4>1. Len(u(q)) <= left - 1
        BY <2>2, <3>1, <3>2
      <4> HIDE DEF x, u, q
      <4> QED
        BY <1>2, <2>2, <2>6, <3>3, <4>1 DEF q
    <3>5. 128 * q + (b[x] % 128) = w /\ ~(b[x] < 128)
      <4>1. b[x] = 128 + (w % 128) /\ w % 128 \in 0..127 /\ w = 128 * q + (w % 128)
        BY <2>3, <3>2, Div128
      <4> HIDE DEF x, q
      <4>2. \A r \in 0..127 : (128 + r) % 128 = r
        OBVIOUS
      <4> QED
        BY <4>1, <4>2
    <3> HIDE DEF x, u, q, at
    <3>6. f[left] = Read(w, (x + 1) + Len(u(q)))
      <4>1. Digit(b, x, Read(q, (x + 1) + Len(u(q))))
              = Read(128 * q + (b[x] % 128), (x + 1) + Len(u(q)))
        <5>1. x \in 1..Len(b) /\ (x + 1) + Len(u(q)) \in Nat
          BY <2>2, <2>3, <3>1
        <5> QED
          BY <3>1, <3>5, <5>1, DigitReads
      <4> QED
        BY <2>4, <3>4, <3>5, <4>1
    <3>7. (x + 1) + Len(u(q)) = x + Len(u(w))
      BY <2>2, <3>1, <3>2
    <3> QED
      BY <3>6, <3>7 DEF x
  <2>7. w < 128 \/ w >= 128
    OBVIOUS
  <2> QED
    BY <2>5, <2>6, <2>7, Zenon
<1> HIDE DEF Back
<1>3. 0 \in T
  BY <1>2
<1>4. ASSUME NEW n \in T PROVE n + 1 \in T
  <2>1. n \in Nat /\ \A w \in 0..n : Back(w)
    OBVIOUS
  <2>2. n + 1 >= 128 => (n + 1) \div 128 \in 0..n
    BY <2>1, Div128
  <2>3. Back(n + 1)
    BY <1>2, <2>1, <2>2
  <2>4. \A w \in 0..(n + 1) : w \in 0..n \/ w = n + 1
    BY <2>1
  <2> QED
    BY <2>1, <2>3, <2>4
<1>5. T \subseteq Nat
  OBVIOUS
<1>6. T = Nat
  <2> HIDE DEF T
  <2> QED
    BY <1>3, <1>4, <1>5, InductionOnNat
<1>7. v \in 0..v
  OBVIOUS
<1>8. Back(v)
  <2>1. v \in T
    <3> HIDE DEF T
    <3> QED
      BY <1>6
  <2> QED
    BY <1>7, <2>1
<1>9. Len(u(v)) <= 10
  BY TenBytes DEF Short
<1>10. at(10) = p /\ 10 \in 0..10
  OBVIOUS
<1> QED
  BY <1>1, <1>8, <1>9, <1>10 DEF Back
LEMMA HasIn ==
  ASSUME NEW pre \in Seq(Nat), NEW s \in Seq(Nat), NEW post \in Seq(Nat)
  PROVE  Has(pre \o s \o post, Len(pre) + 1, s)
<1> DEFINE b == pre \o s \o post
<1>1. Len(b) = Len(pre) + Len(s) + Len(post) /\ Len(pre) \in Nat /\ Len(s) \in Nat /\ Len(post) \in Nat
  OBVIOUS
<1>2. \A k \in 1..Len(s) : b[Len(pre) + k] = s[k]
  OBVIOUS
<1>3. \A k \in 1..Len(s) : (Len(pre) + 1) + k - 1 = Len(pre) + k
  BY <1>1
<1> HIDE DEF b
<1>4. Has(b, Len(pre) + 1, s)
  BY <1>1, <1>2, <1>3 DEF Has
<1> QED
  BY <1>4 DEF b

LEMMA HasParts ==
  ASSUME NEW b \in Seq(Nat), NEW p \in Nat, NEW a \in Seq(Nat), NEW c \in Seq(Nat),
         Has(b, p, a \o c)
  PROVE  Has(b, p, a) /\ Has(b, p + Len(a), c)
<1> DEFINE s == a \o c
<1>1. /\ Len(s) = Len(a) + Len(c) /\ Len(a) \in Nat /\ Len(c) \in Nat /\ Len(b) \in Nat
      /\ \A k \in 1..Len(a) : s[k] = a[k]
      /\ \A k \in 1..Len(c) : s[Len(a) + k] = c[k]
  OBVIOUS
<1>2. p + Len(s) - 1 <= Len(b) /\ \A k \in 1..Len(s) : b[p + k - 1] = s[k]
  BY DEF Has
<1> HIDE DEF s
<1>3. Has(b, p, a)
  <2>1. \A k \in 1..Len(a) : k \in 1..Len(s)
    BY <1>1
  <2> QED
    BY <1>1, <1>2, <2>1 DEF Has
<1>4. Has(b, p + Len(a), c)
  <2>1. \A k \in 1..Len(c) : Len(a) + k \in 1..Len(s) /\ p + (Len(a) + k) - 1 = (p + Len(a)) + k - 1
    BY <1>1
  <2>2. \A k \in 1..Len(c) : b[(p + Len(a)) + k - 1] = c[k]
    BY <1>1, <1>2, <2>1
  <2>3. (p + Len(a)) + Len(c) - 1 <= Len(b)
    BY <1>1, <1>2
  <2> QED
    BY <2>2, <2>3 DEF Has
<1> QED
  BY <1>3, <1>4

\* What is read of a field that is bytes.
Data(s, i) == [ok |-> TRUE, val |-> 0, data |-> s, i |-> i]

(* Concatenation is associative. *)
LEMMA Joined ==
  ASSUME NEW a \in Seq(Nat), NEW b \in Seq(Nat), NEW c \in Seq(Nat)
  PROVE  (a \o b) \o c = a \o (b \o c)
BY ConcatAssociative, SMTT(60)


LEMMA BytesRead ==
  ASSUME NEW b \in Seq(Nat), NEW p \in Nat \ {0}, NEW s \in Seq(Nat), Has(b, p, s)
  PROVE  Wire!Bytes(b, p, Len(s)) = Data(s, p + Len(s))
<1> DEFINE n == Len(s)
           x == SubSeq(b, p, p + n - 1)
<1>1. n \in Nat /\ Len(b) \in Nat /\ p + n - 1 <= Len(b) /\ \A k \in 1..n : b[p + k - 1] = s[k]
  BY DEF Has
<1>2. x = s
  <2>1. x \in Seq(Nat) /\ Len(x) = n
    BY <1>1
  <2>2. \A k \in 1..n : x[k] = s[k]
    BY <1>1
  <2> HIDE DEF x
  <2> QED
    BY <2>1, <2>2, SeqEqual
<1>3. ~(p + n > Len(b) + 1)
  BY <1>1
<1> HIDE DEF n
<1> QED
  BY <1>2, <1>3 DEF Wire!Bytes, Data, n

\* A field as next reads it.
FieldRead(field, wire, r) ==
  [ok |-> TRUE, field |-> field, wire |-> wire, val |-> r.val, data |-> r.data, i |-> r.i]

LEMMA NextIs ==
  ASSUME NEW b \in Seq(Nat), NEW p \in Nat \ {0}, NEW field \in Nat, NEW wire \in {0, 2, 5},
         8 * field + wire < TwoTo70, Has(b, p, Wire!tag(field, wire)),
         NEW r, Wire!value(b, p + Len(Wire!tag(field, wire)), wire) = r, r.ok
  PROVE  Wire!next(b, p) = FieldRead(field, wire, r)
<1> DEFINE n == 8 * field + wire
           y == p + Len(Wire!tag(field, wire))
<1>1. n \in Nat /\ n % 8 = wire /\ n \div 8 = field
  BY SMTT(60)
<1> HIDE DEF n, y
<1>2. PICK t : t = Wire!varint(b, p)
  OBVIOUS
<1>3. t = Read(n, y)
  <2>1. Wire!tag(field, wire) = Wire!uvarint[n]
    BY DEF Wire!tag, n
  <2> QED
    <3>1. Has(b, p, Wire!uvarint[n]) /\ n < TwoTo70 /\ y = p + Len(Wire!uvarint[n])
      BY <2>1 DEF n, y
    <3>2. Wire!varint(b, p) = Read(n, p + Len(Wire!uvarint[n]))
      BY <1>1, <3>1, VarintReads
    <3> QED
      BY <1>2, <3>1, <3>2
<1>4. t.ok /\ t.val = n /\ t.i = y
  BY <1>3 DEF Read
<1>5. Wire!value(b, t.i, t.val % 8) = r
  BY <1>1, <1>4 DEF y
<1> QED
  BY <1>1, <1>2, <1>4, <1>5 DEF Wire!next, FieldRead

\* In b from p on there are a tag and then a, s together.
Tagged(b, p, tagged, a, s) ==
  /\ b \in Seq(Nat) /\ Has(b, p, tagged) /\ Has(b, p + Len(tagged), a)
  /\ p + Len(tagged) \in Nat \ {0} /\ (p + Len(tagged)) + Len(a) = p + Len(s)

\* Whatever is around it, the reader reads back each field that the writer writes:
\* a number of up to seventy bits, a string or message of bytes, a float's four
\* bytes; and goes on behind it (pbuf.uint, msg and f32 against pread.next).
THEOREM FieldsReadBack ==
  ASSUME NEW pre \in Seq(Nat), NEW post \in Seq(Nat), NEW field \in Nat, 8 * field + 5 < TwoTo70
  PROVE  LET p == Len(pre) + 1
         IN /\ \A v \in Nat \ {0} : v < TwoTo70 =>
                 LET s == Wire!uint(field, v)
                 IN Wire!next(pre \o s \o post, p) = FieldRead(field, 0, Read(v, p + Len(s)))
            /\ \A body \in Seq(Nat) \ {<<>>} : Len(body) < TwoTo70 =>
                 LET s == Wire!msg(field, body)
                 IN Wire!next(pre \o s \o post, p) = FieldRead(field, 2, Data(body, p + Len(s)))
            /\ \A bits \in Seq(Nat) : Len(bits) = 4 =>
                 LET s == Wire!f32(field, bits)
                 IN Wire!next(pre \o s \o post, p) = FieldRead(field, 5, Data(bits, p + Len(s)))
<1> DEFINE p == Len(pre) + 1
<1>0. p \in Nat \ {0}
  OBVIOUS
<1>1. ASSUME NEW w \in {0, 2, 5} PROVE Wire!tag(field, w) \in Seq(Nat) /\ 8 * field + w < TwoTo70
  <2>1. 8 * field + w \in Nat
    BY <1>1
  <2>2. 8 * field + w < TwoTo70
    BY <1>1 DEF TwoTo70
  <2> QED
    BY <2>1, <2>2, UvarintType DEF Wire!tag
<1> HIDE DEF p
<1>2. ASSUME NEW w \in {0, 2, 5}, NEW a \in Seq(Nat), NEW s, s = Wire!tag(field, w) \o a,
             NEW b, b = pre \o s \o post
      PROVE  Tagged(b, p, Wire!tag(field, w), a, s)
  <2>1. s \in Seq(Nat) /\ Len(s) = Len(Wire!tag(field, w)) + Len(a)
        /\ Len(Wire!tag(field, w)) \in Nat
    BY <1>1, <1>2
  <2>2. b \in Seq(Nat)
    BY <1>2, <2>1
  <2>3. Has(b, p, s)
    BY <1>2, <2>1, HasIn DEF p
  <2>4. Has(b, p, Wire!tag(field, w)) /\ Has(b, p + Len(Wire!tag(field, w)), a)
    BY <1>0, <1>1, <1>2, <2>2, <2>3, HasParts
  <2>5. /\ p + Len(Wire!tag(field, w)) \in Nat \ {0}
        /\ (p + Len(Wire!tag(field, w))) + Len(a) = p + Len(s)
    BY <1>0, <2>1
  <2> QED
    BY <2>2, <2>4, <2>5 DEF Tagged
<1>3. ASSUME NEW v \in Nat \ {0}, v < TwoTo70, NEW s, s = Wire!uint(field, v)
      PROVE  Wire!next(pre \o s \o post, p) = FieldRead(field, 0, Read(v, p + Len(s)))
  <2> DEFINE y == p + Len(Wire!tag(field, 0))
  <2>1. s = Wire!tag(field, 0) \o Wire!uvarint[v] /\ Wire!uvarint[v] \in Seq(Nat)
    BY <1>3, UvarintType DEF Wire!uint
  <2>2. PICK b : b = pre \o s \o post
    OBVIOUS
  <2>3. Tagged(b, p, Wire!tag(field, 0), Wire!uvarint[v], s)
    BY <1>2, <2>1, <2>2
  <2>4. /\ b \in Seq(Nat) /\ Has(b, p, Wire!tag(field, 0)) /\ Has(b, y, Wire!uvarint[v])
        /\ y \in Nat \ {0} /\ y + Len(Wire!uvarint[v]) = p + Len(s)
    BY <2>3 DEF Tagged
  <2> HIDE DEF y
  <2>5. Wire!varint(b, y) = Read(v, y + Len(Wire!uvarint[v]))
    BY <1>3, <2>4, VarintReads
  <2>6. Wire!value(b, y, 0) = Read(v, p + Len(s))
    BY <2>4, <2>5 DEF Wire!value
  <2>7. Read(v, p + Len(s)).ok
    BY DEF Read
  <2>8. Wire!next(b, p) = FieldRead(field, 0, Read(v, p + Len(s)))
    <3>1. /\ 0 \in {0, 2, 5} /\ 8 * field + 0 < TwoTo70
          /\ Wire!value(b, p + Len(Wire!tag(field, 0)), 0) = Read(v, p + Len(s))
      BY <1>1, <2>6 DEF y
    <3> QED
      BY <1>0, <2>4, <2>7, <3>1, NextIs
  <2> QED
    BY <2>2, <2>8
<1>4. ASSUME NEW body \in Seq(Nat) \ {<<>>}, Len(body) < TwoTo70, NEW s, s = Wire!msg(field, body)
      PROVE  Wire!next(pre \o s \o post, p) = FieldRead(field, 2, Data(body, p + Len(s)))
  <2> DEFINE y == p + Len(Wire!tag(field, 2))
             u == Wire!uvarint[Len(body)]
  <2>1. u \in Seq(Nat) /\ Len(body) \in Nat /\ Len(u) \in Nat
    BY UvarintType
  <2>2. s = Wire!tag(field, 2) \o (u \o body) /\ u \o body \in Seq(Nat)
    <3>1. PICK x : x = Wire!tag(field, 2)
      OBVIOUS
    <3>2. PICK w : w = u
      OBVIOUS
    <3>3. x \in Seq(Nat)
      BY <1>1, <3>1
    <3>4. w \in Seq(Nat)
      BY <2>1, <3>2
    <3>5. s = x \o w \o body
      BY <1>4, <3>1, <3>2 DEF Wire!msg
    <3>6. w \o body \in Seq(Nat)
      BY <2>1, <3>4
    <3>7. x \o w \o body = x \o (w \o body)
      <4>1. body \in Seq(Nat)
        OBVIOUS
      <4> HIDE DEF y, u
      <4> QED
        BY <3>3, <3>4, <4>1, Joined, Zenon
    <3>8. s = x \o (w \o body)
      BY <3>5, <3>7
    <3> HIDE DEF u
    <3> QED
      BY <3>1, <3>2, <3>6, <3>8
  <2>3. PICK b : b = pre \o s \o post
    OBVIOUS
  <2> HIDE DEF u
  <2>4. /\ b \in Seq(Nat) /\ Has(b, p, Wire!tag(field, 2)) /\ Has(b, y, u \o body)
        /\ y \in Nat \ {0} /\ y + Len(u \o body) = p + Len(s)
    <3> DEFINE a == u \o body
    <3>1. Tagged(b, p, Wire!tag(field, 2), a, s)
      <4> HIDE DEF a
      <4> QED
        BY <1>2, <2>2, <2>3 DEF a
    <3> QED
      BY <3>1 DEF Tagged
  <2>5. Has(b, y, u) /\ Has(b, y + Len(u), body)
    <3>1. y \in Nat
      BY <2>4
    <3> QED
      BY <2>1, <2>4, <3>1, HasParts
  <2>6. y + Len(u) \in Nat \ {0} /\ (y + Len(u)) + Len(body) = p + Len(s)
    <3>1. Len(u \o body) = Len(u) + Len(body)
      BY <2>1
    <3> QED
      BY <1>0, <2>1, <2>4, <3>1
  <2> HIDE DEF y
  <2>7. PICK n : n = Wire!varint(b, y)
    OBVIOUS
  <2>8. n = Read(Len(body), y + Len(u))
    BY <1>4, <2>1, <2>4, <2>5, <2>7, VarintReads DEF u
  <2>9. n.ok /\ n.val = Len(body) /\ n.i = y + Len(u)
    BY <2>8 DEF Read
  <2>10. Wire!Bytes(b, n.i, n.val) = Data(body, p + Len(s))
    BY <2>1, <2>4, <2>5, <2>6, <2>9, BytesRead
  <2>11. Wire!value(b, y, 2) = Data(body, p + Len(s))
    <3>1. 2 # 0 /\ 2 # 1 /\ 2 # 5
      OBVIOUS
    <3> QED
      BY <2>7, <2>9, <2>10, <3>1, Zenon DEF Wire!value
  <2>12. Data(body, p + Len(s)).ok
    BY DEF Data
  <2>13. Wire!next(b, p) = FieldRead(field, 2, Data(body, p + Len(s)))
    <3>1. /\ 2 \in {0, 2, 5} /\ 8 * field + 2 < TwoTo70
          /\ Wire!value(b, p + Len(Wire!tag(field, 2)), 2) = Data(body, p + Len(s))
      BY <1>0, <1>1, <2>11 DEF y
    <3> QED
      BY <1>0, <2>4, <2>12, <3>1, NextIs
  <2> QED
    BY <2>3, <2>13
<1>5. ASSUME NEW bits \in Seq(Nat), Len(bits) = 4, NEW s, s = Wire!f32(field, bits)
      PROVE  Wire!next(pre \o s \o post, p) = FieldRead(field, 5, Data(bits, p + Len(s)))
  <2> DEFINE y == p + Len(Wire!tag(field, 5))
  <2>1. s = Wire!tag(field, 5) \o bits
    <3>1. Len(bits) = 4
      BY <1>5
    <3>2. bits # <<>>
      <4> SUFFICES ASSUME bits = <<>>
                   PROVE  FALSE
        OBVIOUS
      <4>1. Len(bits) = Len(<<>>)
        OBVIOUS
      <4>2. Len(<<>>) = 0
        BY EmptySeq, Zenon
      <4> QED
        BY <3>1, <4>1, <4>2
    <3> QED
      BY <1>5, <3>2 DEF Wire!f32
  <2>2. PICK b : b = pre \o s \o post
    OBVIOUS
  <2>3. Tagged(b, p, Wire!tag(field, 5), bits, s)
    BY <1>2, <2>1, <2>2
  <2>4. /\ b \in Seq(Nat) /\ Has(b, p, Wire!tag(field, 5)) /\ Has(b, y, bits)
        /\ y \in Nat \ {0} /\ y + Len(bits) = p + Len(s)
    BY <2>3 DEF Tagged
  <2> HIDE DEF y
  <2>5. Wire!Bytes(b, y, 4) = Data(bits, p + Len(s))
    <3>1. Wire!Bytes(b, y, Len(bits)) = Data(bits, y + Len(bits))
      BY <1>5, <2>4, BytesRead
    <3>2. Len(bits) = 4
      BY <1>5
    <3> QED
      BY <2>4, <3>1, <3>2
  <2>6. Wire!value(b, y, 5) = Data(bits, p + Len(s))
    <3>1. 5 # 0 /\ 5 # 1 /\ 5 # 2
      OBVIOUS
    <3> QED
      BY <2>5, <3>1, Zenon DEF Wire!value
  <2>7. Data(bits, p + Len(s)).ok
    BY DEF Data
  <2>8. Wire!next(b, p) = FieldRead(field, 5, Data(bits, p + Len(s)))
    <3>1. /\ 5 \in {0, 2, 5} /\ 8 * field + 5 < TwoTo70
          /\ Wire!value(b, p + Len(Wire!tag(field, 5)), 5) = Data(bits, p + Len(s))
      BY <2>6 DEF y
    <3> QED
      BY <1>0, <2>4, <2>7, <3>1, NextIs
  <2> QED
    BY <2>2, <2>8
<1> QED
  BY <1>3, <1>4, <1>5 DEF p
=============================================================================
