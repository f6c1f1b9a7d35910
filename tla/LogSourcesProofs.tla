-------------------------- MODULE LogSourcesProofs --------------------------
(***************************************************************************)
(* Proofs about the sources of the logs agent.                             *)
(*                                                                         *)
(* LogDiscovery, for any file sources and any comings and goings of the    *)
(* files: one tailer per path, none left to send on the closed channel,    *)
(* none stopped for a file that was there in one of the last two scans.    *)
(*                                                                         *)
(* JournaldTailer, for any journald sources with ids of their own and any  *)
(* journal: the stored cursors leave no gap, and the entries are delivered *)
(* as LogDelivery promises of the lines of files.                          *)
(***************************************************************************)
EXTENDS LogDiscovery, JournaldTailer, TLAPS

Handles == [fromGlob : BOOLEAN, missed : 0..Grace - 1]

\* The shutdown goes on when the scan goroutine has returned.
ScanOver == main \in {"tails", "closed"} => spc = Stopped

\* What a sweep knows of a path that it finds missing: the glob that found it was
\* expanded in this scan when it was away, and in the one before if it was missing
\* then.
Seen ==
  /\ Paths \ regular \subseteq away
  /\ \A p \in Paths : tailed[p] # NoHandle /\ tailed[p].fromGlob =>
       \E i \in DOMAIN SourceList : SourceList[i].glob /\ p \in SourceList[i].paths
  /\ \A i \in DOMAIN SourceList : SourceList[i].glob /\ i < spc =>
       SourceList[i].paths \subseteq matched \cup away
  /\ \A p \in Paths : tailed[p] # NoHandle /\ tailed[p].missed > 0 => gap[p] > 0

IInv == TypeOK /\ OneTailer /\ NoSenderLeft /\ ScanOver /\ Seen

LEMMA HandleFacts ==
  /\ NoHandle \notin Handles
  /\ Handles = [fromGlob : BOOLEAN, missed : {0, 1}]
  /\ DOMAIN SourceList = 1..Len(SourceList) /\ Len(SourceList) \in Nat
  /\ \A i \in DOMAIN SourceList : SourceList[i].glob \in BOOLEAN /\ SourceList[i].paths \subseteq Paths
  /\ MaxFlight \in Nat /\ MaxChanges \in Nat /\ MaxTailers \in Nat
<1>1. 0..Grace - 1 = {0, 1}
  BY DEF Grace
<1>2. NoHandle \notin Handles
  BY <1>1, NoHandleAssumption DEF Handles
<1>3. Handles = [fromGlob : BOOLEAN, missed : {0, 1}]
  BY <1>1 DEF Handles
<1>4. DOMAIN SourceList = 1..Len(SourceList) /\ Len(SourceList) \in Nat
  BY SourceListAssumption
<1>5. \A i \in DOMAIN SourceList : SourceList[i] \in [glob : BOOLEAN, paths : SUBSET Paths]
  <2>1. SourceList \in Seq([glob : BOOLEAN, paths : SUBSET Paths])
    BY SourceListAssumption
  <2>2. ASSUME NEW S, NEW q \in Seq(S) PROVE \A i \in DOMAIN q : q[i] \in S
    OBVIOUS
  <2> QED
    BY <2>1, <2>2
<1>6. \A i \in DOMAIN SourceList : SourceList[i].glob \in BOOLEAN /\ SourceList[i].paths \subseteq Paths
  BY <1>5
<1>7. MaxFlight \in Nat /\ MaxChanges \in Nat /\ MaxTailers \in Nat
  BY BoundsAssumption
<1> QED
  BY <1>2, <1>3, <1>4, <1>6, <1>7

\* What a sweep writes back into a handle that it keeps.
HandleIs(h, fromGlob, missed) ==
  h \in Handles /\ h # NoHandle /\ h.fromGlob = fromGlob /\ h.missed = missed

LEMMA HandleStep ==
  ASSUME NEW h \in Handles, NEW n \in {0, 1}
  PROVE  HandleIs([h EXCEPT !.missed = n], h.fromGlob, n)
<1> QED
  BY HandleFacts DEF HandleIs

LEMMA InitInv == Init => IInv
<1> SUFFICES ASSUME Init PROVE IInv
  OBVIOUS
<1> USE HandleFacts
<1>1. TypeOK
  BY DEF Init, TypeOK, Stopped, Grace
<1>2. OneTailer /\ NoSenderLeft /\ ScanOver /\ Seen
  BY DEF Init, OneTailer, NoSenderLeft, ScanOver, Seen, CtxDone
<1> QED
  BY <1>1, <1>2 DEF IInv

\* The files, the acknowledgements and the tailers that return.
LEMMA PathInv ==
  ASSUME IInv, NEW q \in Paths,
         \/ Appear(q) \/ Vanish(q) \/ Send(q) \/ Ack(q)
         \/ CancelledReturns(q) \/ TailerReturns(q)
  PROVE  IInv'
<1> USE HandleFacts
<1>1. TypeOK /\ OneTailer /\ NoSenderLeft /\ ScanOver /\ Seen
  BY DEF IInv
<1>2. CASE Appear(q) \/ Vanish(q)
  <2>1. TypeOK'
    BY <1>1, <1>2 DEF Appear, Vanish, TypeOK, tailVars, scanVars
  <2>2. (OneTailer /\ NoSenderLeft /\ ScanOver /\ Seen)'
    BY <1>1, <1>2 DEF Appear, Vanish, tailVars, scanVars, OneTailer, NoSenderLeft, ScanOver, Seen, CtxDone
  <2> QED
    BY <2>1, <2>2 DEF IInv
<1>3. CASE Send(q) \/ Ack(q)
  <2>1. inFlight' \in [Paths -> 0..MaxFlight] /\ entries' \subseteq Paths
    <3>1. CASE Send(q)
      BY <1>1, <3>1 DEF Send, TypeOK
    <3>2. CASE Ack(q)
      BY <1>1, <3>2 DEF Ack, TypeOK
    <3> QED
      BY <1>3, <3>1, <3>2
  <2>3. UNCHANGED <<fileVars, tailed, running, dying, scanVars, main>>
    BY <1>3 DEF Send, Ack
  <2>4. TypeOK'
    BY <1>1, <2>1, <2>3 DEF TypeOK, fileVars, scanVars
  <2>2. (OneTailer /\ NoSenderLeft /\ ScanOver /\ Seen)'
    BY <1>1, <2>3 DEF fileVars, scanVars, OneTailer, NoSenderLeft, ScanOver, Seen, CtxDone
  <2> QED
    BY <2>2, <2>4 DEF IInv
<1>4. CASE CancelledReturns(q)
  <2>1. TypeOK'
    BY <1>1, <1>4 DEF CancelledReturns, TypeOK, fileVars, scanVars
  <2>2. (OneTailer /\ ScanOver /\ Seen)'
    BY <1>1, <1>4 DEF CancelledReturns, fileVars, scanVars, OneTailer, ScanOver, Seen, CtxDone
  <2>3. NoSenderLeft'
    BY <1>1, <1>4 DEF CancelledReturns, NoSenderLeft, TypeOK
  <2> QED
    BY <2>1, <2>2, <2>3 DEF IInv
<1>5. CASE TailerReturns(q)
  <2>1. TypeOK'
    BY <1>1, <1>5 DEF TailerReturns, TypeOK, fileVars, scanVars
  <2>2. (ScanOver /\ Seen)'
    BY <1>1, <1>5 DEF TailerReturns, fileVars, scanVars, ScanOver, Seen
  <2>3. OneTailer'
    BY <1>1, <1>5 DEF TailerReturns, OneTailer, CtxDone, TypeOK
  <2>4. NoSenderLeft'
    BY <1>1, <1>5 DEF TailerReturns, NoSenderLeft, TypeOK
  <2> QED
    BY <2>1, <2>2, <2>3, <2>4 DEF IInv
<1> QED
  BY <1>2, <1>3, <1>4, <1>5

LEMMA ExpandInv ==
  ASSUME IInv, Expand
  PROVE  IInv'
<1> USE HandleFacts
<1> DEFINE src == SourceList[spc]
           ps == IF src.glob THEN src.paths \cap regular ELSE src.paths
           new == Fresh(ps)
<1>1. TypeOK /\ OneTailer /\ NoSenderLeft /\ ScanOver /\ Seen
  BY DEF IInv
<1>2. /\ spc \in DOMAIN SourceList /\ spc' = spc + 1
      /\ \A p \in new : running[p] + dying[p] < MaxTailers
      /\ tailed' = [p \in Paths |-> IF p \in new THEN [fromGlob |-> src.glob, missed |-> 0] ELSE tailed[p]]
      /\ running' = [p \in Paths |-> running[p] + IF p \in new THEN 1 ELSE 0]
      /\ matched' = IF src.glob THEN matched \cup ps ELSE matched
      /\ UNCHANGED <<regular, changes, away, dying, inFlight, entries, gap, main>>
  BY DEF Expand, fileVars
<1>3. ps \subseteq Paths /\ \A p \in new : tailed[p] = NoHandle /\ running[p] = 0
  BY <1>1, <1>2 DEF Fresh, OneTailer, TypeOK
<1>4. [fromGlob |-> src.glob, missed |-> 0] \in Handles
  BY <1>2
<1> HIDE DEF new
<1>5. TypeOK'
  <2>1. running' \in [Paths -> 0..MaxTailers]
    BY <1>1, <1>2, <1>3 DEF TypeOK
  <2>2. tailed' \in [Paths -> Handles \cup {NoHandle}]
    BY <1>1, <1>2, <1>4 DEF TypeOK, Handles
  <2>3. matched' \subseteq Paths /\ spc' \in Stopped..Len(SourceList) + 1
    BY <1>1, <1>2, <1>3 DEF TypeOK, Stopped
  <2> QED
    BY <1>1, <1>2, <2>1, <2>2, <2>3 DEF TypeOK, Handles
<1>6. OneTailer'
  BY <1>1, <1>2, <1>3, <1>4 DEF OneTailer, CtxDone, TypeOK
<1>7. ScanOver' /\ NoSenderLeft'
  BY <1>1, <1>2 DEF ScanOver, NoSenderLeft, Stopped
<1>8. Seen'
  <2>1. \A i \in DOMAIN SourceList : SourceList[i].glob /\ i < spc' => SourceList[i].paths \subseteq matched' \cup away'
    BY <1>1, <1>2 DEF Seen
  <2>2. \A p \in Paths : tailed'[p] # NoHandle /\ tailed'[p].fromGlob =>
          \E i \in DOMAIN SourceList : SourceList[i].glob /\ p \in SourceList[i].paths
    BY <1>1, <1>2 DEF Seen, Fresh, new
  <2>3. \A p \in Paths : tailed'[p] # NoHandle /\ tailed'[p].missed > 0 => gap'[p] > 0
    BY <1>1, <1>2 DEF Seen
  <2> QED
    BY <1>1, <1>2, <2>1, <2>2, <2>3 DEF Seen
<1> QED
  BY <1>5, <1>6, <1>7, <1>8 DEF IInv

\* The paths a sweep stops were away in this scan and in the one before.
LEMMA SweptFacts ==
  ASSUME IInv, Sweep
  PROVE  /\ Swept \subseteq Missing /\ Missing \subseteq Present /\ Present \subseteq Paths
         /\ \A p \in Missing : tailed[p] \in Handles /\ p \in away
         /\ \A p \in Missing : p \in Swept <=> tailed[p].missed = 1
         /\ \A p \in Swept : gap'[p] = Grace
<1> USE HandleFacts
<1>1. TypeOK /\ Seen /\ spc = Len(SourceList) + 1
  BY DEF IInv, Sweep
<1>2. /\ Swept \subseteq Missing /\ Missing \subseteq Present /\ Present \subseteq Paths
      /\ \A p \in Present : tailed[p] \in Handles
  BY <1>1 DEF Swept, Missing, Present, TypeOK, Handles
<1>3. \A p \in Missing : p \in away
  BY <1>1, <1>2 DEF Missing, Present, Seen
<1>4. \A p \in Missing : p \in Swept <=> tailed[p].missed = 1
  BY <1>2 DEF Swept, Grace
<1>5. ASSUME NEW p \in Swept PROVE gap'[p] = Grace
  <2>1. gap[p] \in 1..Grace /\ p \in away /\ p \in Paths
    <3>1. p \in Missing /\ p \in Paths /\ p \in away
      BY <1>2, <1>3
    <3>2. tailed[p] # NoHandle /\ tailed[p].missed = 1
      BY <1>4, <3>1 DEF Missing, Present
    <3>3. gap[p] > 0
      BY <1>1, <3>1, <3>2 DEF Seen
    <3>4. gap[p] \in 0..Grace
      BY <1>1, <3>1 DEF TypeOK
    <3> QED
      BY <3>1, <3>3, <3>4 DEF Grace
  <2> QED
    BY <2>1 DEF Sweep, Grace
<1> QED
  BY <1>2, <1>3, <1>4, <1>5

LEMMA SweepInv ==
  ASSUME IInv, Sweep
  PROVE  IInv'
<1> USE HandleFacts
<1>1. TypeOK /\ OneTailer /\ NoSenderLeft /\ ScanOver /\ Seen
  BY DEF IInv
<1>2. /\ spc = Len(SourceList) + 1 /\ spc' = Waiting
      /\ \A p \in Swept : dying[p] < MaxTailers
      /\ tailed' = [p \in Paths |->
           IF p \in Swept THEN NoHandle
           ELSE IF p \in Missing THEN [tailed[p] EXCEPT !.missed = @ + 1]
           ELSE IF p \in Present THEN [tailed[p] EXCEPT !.missed = 0]
           ELSE NoHandle]
      /\ running' = [p \in Paths |-> running[p] - IF p \in Swept /\ running[p] > 0 THEN 1 ELSE 0]
      /\ dying' = [p \in Paths |-> dying[p] + IF p \in Swept /\ running[p] > 0 THEN 1 ELSE 0]
      /\ entries' = entries \ Swept
      /\ gap' = [p \in Paths |-> IF p \notin away THEN 0 ELSE IF gap[p] < Grace THEN gap[p] + 1 ELSE Grace]
      /\ UNCHANGED <<regular, changes, away, inFlight, matched, main>>
  BY DEF Sweep, fileVars
<1>3. /\ \A p \in Missing \ Swept : HandleIs(tailed'[p], tailed[p].fromGlob, 1)
      /\ \A p \in Present \ Missing : HandleIs(tailed'[p], tailed[p].fromGlob, 0)
      /\ \A p \in Paths : p \in Swept \/ p \notin Present => tailed'[p] = NoHandle
  <2>1. \A p \in Present : tailed[p] \in Handles /\ p \in Paths
    BY <1>1 DEF Present, TypeOK, Handles
  <2>2. ASSUME NEW p \in Missing \ Swept PROVE HandleIs(tailed'[p], tailed[p].fromGlob, 1)
    <3>1. tailed[p] \in Handles /\ p \in Paths /\ tailed[p].missed # 1
      BY <2>1, SweptFacts
    <3>2. tailed[p].missed = 0
      BY <3>1
    <3>3. tailed'[p] = [tailed[p] EXCEPT !.missed = tailed[p].missed + 1]
      BY <1>2, <3>1, Zenon
    <3> QED
      BY <3>1, <3>2, <3>3, HandleStep
  <2>3. ASSUME NEW p \in Present \ Missing PROVE HandleIs(tailed'[p], tailed[p].fromGlob, 0)
    <3>1. tailed[p] \in Handles /\ p \in Paths /\ p \notin Swept
      BY <2>1, SweptFacts
    <3>2. tailed'[p] = [tailed[p] EXCEPT !.missed = 0]
      BY <1>2, <3>1, Zenon
    <3> QED
      BY <3>1, <3>2, HandleStep
  <2>4. \A p \in Paths : p \in Swept \/ p \notin Present => tailed'[p] = NoHandle
    BY <1>2, SweptFacts, Zenon
  <2> QED
    BY <2>2, <2>3, <2>4
<1>4. TypeOK'
  <2>1. running' \in [Paths -> 0..MaxTailers] /\ dying' \in [Paths -> 0..MaxTailers]
    <3>1. running \in [Paths -> 0..MaxTailers] /\ dying \in [Paths -> 0..MaxTailers]
      BY <1>1 DEF TypeOK
    <3> QED
      BY <1>2, <3>1
  <2>2. tailed' \in [Paths -> Handles \cup {NoHandle}]
    <3>1. \A p \in Paths : tailed'[p] \in Handles \cup {NoHandle}
      <4> SUFFICES ASSUME NEW p \in Paths PROVE tailed'[p] \in Handles \cup {NoHandle}
        OBVIOUS
      <4>1. CASE p \in Missing /\ p \notin Swept
        BY <1>3, <4>1 DEF HandleIs
      <4>2. CASE p \in Present /\ p \notin Missing
        BY <1>3, <4>2 DEF HandleIs
      <4>3. CASE p \in Swept \/ p \notin Present
        BY <1>3, <4>3
      <4> QED
        BY <4>1, <4>2, <4>3
    <3>2. tailed' = [p \in Paths |-> tailed'[p]]
      BY <1>2, Zenon
    <3> QED
      BY <3>1, <3>2, Zenon
  <2>3. gap' \in [Paths -> 0..Grace]
    <3>1. gap' = [p \in Paths |-> IF p \notin away THEN 0 ELSE IF gap[p] < Grace THEN gap[p] + 1 ELSE Grace]
      BY <1>2
    <3>2. gap \in [Paths -> 0..Grace] /\ Grace = 2
      BY <1>1 DEF TypeOK, Grace
    <3>3. \A p \in Paths : gap[p] < Grace => gap[p] + 1 \in 0..Grace
      BY <3>2
    <3> QED
      BY <3>1, <3>2, <3>3
  <2>4. entries' \subseteq Paths /\ spc' \in Stopped..Len(SourceList) + 1
    BY <1>1, <1>2 DEF TypeOK, Stopped, Waiting
  <2> QED
    BY <1>1, <1>2, <2>1, <2>2, <2>3, <2>4 DEF TypeOK, Handles
<1>5. OneTailer'
  <2>1. main' = main /\ \A p \in Paths : running'[p] = running[p] - IF p \in Swept /\ running[p] > 0 THEN 1 ELSE 0
    BY <1>2
  <2>2. \A p \in Paths : running[p] \in Nat /\ running[p] <= (IF p \in Present THEN 1 ELSE 0)
    BY <1>1 DEF TypeOK, OneTailer, Present
  <2>3. \A p \in Paths : tailed'[p] = NoHandle <=> p \in Swept \/ p \notin Present
    <3> SUFFICES ASSUME NEW p \in Paths PROVE tailed'[p] = NoHandle <=> p \in Swept \/ p \notin Present
      OBVIOUS
    <3>1. CASE p \in Missing /\ p \notin Swept
      BY <1>3, <3>1, SweptFacts DEF HandleIs
    <3>2. CASE p \in Present /\ p \notin Missing
      BY <1>3, <3>2, SweptFacts DEF HandleIs
    <3>3. CASE p \in Swept \/ p \notin Present
      BY <1>3, <3>3
    <3> QED
      BY <3>1, <3>2, <3>3
  <2>4. \A p \in Paths : running'[p] <= (IF tailed'[p] = NoHandle THEN 0 ELSE 1)
    BY <2>1, <2>2, <2>3
  <2>5. \A p \in Paths : ~CtxDone' /\ tailed'[p] # NoHandle => running'[p] = 1
    BY <1>1, <2>1, <2>3 DEF OneTailer, CtxDone, Present
  <2> QED
    BY <2>4, <2>5 DEF OneTailer
<1>6. ScanOver' /\ NoSenderLeft'
  BY <1>1, <1>2 DEF ScanOver, NoSenderLeft, Stopped
<1>7. Seen'
  <2>1. \A p \in Paths :
          /\ p \in away => gap'[p] > 0
          /\ tailed'[p] # NoHandle => p \in Present /\ p \notin Swept
    <3> SUFFICES ASSUME NEW p \in Paths
                 PROVE  /\ p \in away => gap'[p] > 0
                        /\ tailed'[p] # NoHandle => p \in Present /\ p \notin Swept
      OBVIOUS
    <3>1. gap'[p] = IF p \notin away THEN 0 ELSE IF gap[p] < Grace THEN gap[p] + 1 ELSE Grace
      BY <1>2
    <3>2. gap[p] \in 0..Grace
      BY <1>1 DEF TypeOK
    <3> QED
      BY <1>3, <3>1, <3>2 DEF Grace
  <2>2. \A p \in Paths : tailed'[p] # NoHandle =>
          /\ tailed'[p].fromGlob = tailed[p].fromGlob
          /\ tailed'[p].missed > 0 => p \in Missing
    <3> SUFFICES ASSUME NEW p \in Paths, tailed'[p] # NoHandle
                 PROVE  /\ tailed'[p].fromGlob = tailed[p].fromGlob
                        /\ tailed'[p].missed > 0 => p \in Missing
      OBVIOUS
    <3>1. p \in Present /\ p \notin Swept
      BY <2>1
    <3>2. CASE p \in Missing
      BY <1>3, <3>1, <3>2 DEF HandleIs
    <3>3. CASE p \notin Missing
      BY <1>3, <3>1, <3>3 DEF HandleIs
    <3> QED
      BY <3>2, <3>3
  <2>3. \A p \in Paths : tailed'[p] # NoHandle /\ tailed'[p].fromGlob =>
          \E i \in DOMAIN SourceList : SourceList[i].glob /\ p \in SourceList[i].paths
    BY <1>1, <2>1, <2>2 DEF Seen, Present
  <2>4. \A p \in Paths : tailed'[p] # NoHandle /\ tailed'[p].missed > 0 => gap'[p] > 0
    BY <2>1, <2>2, SweptFacts
  <2>5. \A i \in DOMAIN SourceList : ~(i < spc')
    BY <1>2 DEF Waiting
  <2>6. Paths \ regular' \subseteq away'
    BY <1>1, <1>2 DEF Seen
  <2> QED
    BY <2>3, <2>4, <2>5, <2>6 DEF Seen
<1> QED
  BY <1>4, <1>5, <1>6, <1>7 DEF IInv

\* The ticker, the end of the scan goroutine and the shutdown.
LEMMA RunInv ==
  ASSUME IInv, Tick \/ ScanStops \/ Cancel \/ ScanStopped \/ Close
  PROVE  IInv'
<1> USE HandleFacts DEF Stopped, Waiting
<1>1. TypeOK /\ OneTailer /\ NoSenderLeft /\ ScanOver /\ Seen
  BY DEF IInv
<1>2. CASE Tick
  <2>1. TypeOK' /\ OneTailer' /\ NoSenderLeft' /\ ScanOver'
    BY <1>1, <1>2 DEF Tick, tailVars, TypeOK, OneTailer, NoSenderLeft, ScanOver, CtxDone
  <2>2. Seen'
    BY <1>1, <1>2 DEF Tick, tailVars, Seen
  <2> QED
    BY <2>1, <2>2 DEF IInv
<1>3. CASE ScanStops
  <2>1. TypeOK' /\ OneTailer' /\ NoSenderLeft' /\ ScanOver'
    BY <1>1, <1>3 DEF ScanStops, fileVars, tailVars, TypeOK, OneTailer, NoSenderLeft, ScanOver, CtxDone
  <2>2. Seen'
    BY <1>1, <1>3 DEF ScanStops, fileVars, tailVars, Seen
  <2> QED
    BY <2>1, <2>2 DEF IInv
<1>4. CASE Cancel \/ ScanStopped \/ Close
  <2>1. TypeOK'
    BY <1>1, <1>4 DEF Cancel, ScanStopped, Close, fileVars, tailVars, scanVars, TypeOK
  <2>2. OneTailer' /\ NoSenderLeft' /\ ScanOver'
    BY <1>1, <1>4 DEF Cancel, ScanStopped, Close, fileVars, tailVars, scanVars, OneTailer,
       NoSenderLeft, ScanOver, CtxDone
  <2>3. Seen'
    BY <1>1, <1>4 DEF Cancel, ScanStopped, Close, fileVars, tailVars, scanVars, Seen
  <2> QED
    BY <2>1, <2>2, <2>3 DEF IInv
<1> QED
  BY <1>2, <1>3, <1>4

LEMMA NextInv == IInv /\ [Next]_vars => IInv'
<1> SUFFICES ASSUME IInv, [Next]_vars PROVE IInv'
  OBVIOUS
<1>1. CASE Next
  BY <1>1, PathInv, ExpandInv, SweepInv, RunInv DEF Next
<1>2. CASE UNCHANGED vars
  BY <1>2 DEF vars, fileVars, tailVars, scanVars, IInv, TypeOK, OneTailer, NoSenderLeft, ScanOver, Seen, CtxDone
<1> QED
  BY <1>1, <1>2

----------------------------------------------------------------------------
THEOREM Invariant == Spec => []IInv
BY InitInv, NextInv, PTL DEF Spec

\* The map of tailers and the goroutines agree: re-expanding the globs tails no path
\* twice and leaves no tailer that a sweep cannot stop (startTailer, stopTailer).
THEOREM TailedOnce == Spec => []OneTailer
<1>1. IInv => OneTailer
  BY DEF IInv
<1> QED
  BY <1>1, Invariant, PTL

\* No goroutine is left to send when the channel is closed (Agent.Run's shutdown).
THEOREM ClosedQuiet == Spec => []NoSenderLeft
<1>1. IInv => NoSenderLeft
  BY DEF IInv
<1> QED
  BY <1>1, Invariant, PTL

\* A tailer is stopped only for a path that was away in this scan and in the one
\* before, whatever happened to the files between the expansions (discover's sweep).
THEOREM LiveRotation == Spec => RotationSurvives
<1>1. IInv /\ [Next]_vars => [\A p \in Paths :
         tailed[p] # NoHandle /\ tailed'[p] = NoHandle => gap'[p] = Grace]_vars
  <2> SUFFICES ASSUME IInv, Next, NEW p \in Paths, tailed[p] # NoHandle, tailed'[p] = NoHandle
               PROVE  gap'[p] = Grace
    OBVIOUS
  <2>1. CASE Sweep
    <3>1. p \in Present /\ tailed[p] \in Handles
      BY DEF Present, IInv, TypeOK, Handles
    <3>2. p \in Swept
      BY <2>1, <3>1, SweptFacts, HandleFacts DEF Sweep
    <3> QED
      BY <2>1, <3>2, SweptFacts
  <2>2. CASE Expand
    BY <2>2, HandleFacts DEF Expand, Fresh
  <2>3. CASE ~Sweep /\ ~Expand
    BY <2>3 DEF Next, Appear, Vanish, Send, Ack, CancelledReturns, TailerReturns, Tick, ScanStops, Cancel,
       ScanStopped, Close, tailVars
  <2> QED
    BY <2>1, <2>2, <2>3
<1> QED
  BY <1>1, Invariant, PTL DEF Spec, RotationSurvives
----------------------------------------------------------------------------
(* The literal paths.                                                      *)

\* A handle of a literal path is a glob's only if a glob meets the path first, and
\* past its literal source in a scan the path has one.
LiteralInv ==
  /\ \A p \in Literal : tailed[p] # NoHandle /\ tailed[p].fromGlob => GlobFirst(p)
  /\ LiteralStays

LEMMA ExpandLiteral ==
  ASSUME IInv, LiteralInv, Expand
  PROVE  LiteralInv'
<1> USE HandleFacts
<1> DEFINE src == SourceList[spc]
           ps == IF src.glob THEN src.paths \cap regular ELSE src.paths
           new == Fresh(ps)
<1>1. /\ spc \in DOMAIN SourceList /\ spc' = spc + 1
      /\ tailed' = [p \in Paths |-> IF p \in new THEN [fromGlob |-> src.glob, missed |-> 0] ELSE tailed[p]]
  BY DEF Expand
<1>2. spc \in Int /\ spc' \notin {Waiting, Stopped}
  BY <1>1 DEF Waiting, Stopped
<1>3. [fromGlob |-> src.glob, missed |-> 0] # NoHandle
  BY <1>1
<1>4. ASSUME NEW p \in Literal, tailed'[p] # NoHandle, tailed'[p].fromGlob PROVE GlobFirst(p)
  <2>1. p \in Paths
    BY DEF Literal
  <2>2. CASE p \in new
    <3>1. p \in src.paths /\ tailed[p] = NoHandle /\ src.glob
      BY <1>1, <1>4, <2>1, <2>2 DEF Fresh
    <3>2. ~LiteralTurn(p, spc)
      BY <3>1 DEF LiteralInv, LiteralStays
    <3> QED
      BY <1>1, <3>1, <3>2 DEF GlobFirst
  <2>3. CASE p \notin new
    BY <1>1, <1>4, <2>1, <2>3 DEF LiteralInv
  <2> QED
    BY <2>2, <2>3
<1>5. ASSUME NEW p \in Literal, LiteralTurn(p, spc + 1)
      PROVE  tailed'[p] # NoHandle
  <2>1. p \in Paths
    BY DEF Literal
  <2>2. PICK j \in DOMAIN SourceList : j < spc + 1 /\ ~SourceList[j].glob /\ p \in SourceList[j].paths
    BY <1>5 DEF LiteralTurn
  <2>3. j < spc \/ j = spc
    BY <1>1, <2>2
  <2>4. CASE j < spc
    <3>1. tailed[p] # NoHandle
      BY <2>2, <2>4 DEF LiteralInv, LiteralStays, LiteralTurn
    <3> QED
      BY <1>1, <1>3, <2>1, <3>1
  <2>5. CASE j = spc
    <3>1. p \in ps
      BY <2>2, <2>5
    <3> QED
      BY <1>1, <1>3, <2>1, <3>1 DEF Fresh
  <2> QED
    BY <2>3, <2>4, <2>5
<1>6. \A p \in Literal : tailed'[p] = NoHandle => ~LiteralTurn(p, spc')
  BY <1>1, <1>5
<1>7. LiteralStays'
  BY <1>2, <1>6 DEF LiteralStays, LiteralTurn
<1> QED
  BY <1>4, <1>7 DEF LiteralInv

LEMMA SweepLiteral ==
  ASSUME IInv, LiteralInv, Sweep
  PROVE  LiteralInv'
<1> USE HandleFacts
<1>1. /\ spc = Len(SourceList) + 1 /\ spc' = Waiting
      /\ tailed' = [p \in Paths |->
           IF p \in Swept THEN NoHandle
           ELSE IF p \in Missing THEN [tailed[p] EXCEPT !.missed = @ + 1]
           ELSE IF p \in Present THEN [tailed[p] EXCEPT !.missed = 0]
           ELSE NoHandle]
  BY DEF Sweep
<1>2. ASSUME NEW p \in Literal
      PROVE  /\ tailed[p] # NoHandle /\ p \in Present /\ tailed[p] \in Handles
             /\ tailed[p].fromGlob => GlobFirst(p)
  <2>1. LiteralTurn(p, spc) /\ p \in Paths
    BY <1>1 DEF Literal, LiteralTurn
  <2>2. tailed[p] # NoHandle
    BY <2>1 DEF LiteralInv, LiteralStays
  <2> QED
    BY <2>1, <2>2 DEF LiteralInv, Present, IInv, TypeOK, Handles
<1>3. ASSUME NEW p \in Literal, p \in Swept
      PROVE  tailed'[p] = NoHandle /\ GlobFirst(p) /\ gap'[p] = Grace
  <2>1. p \in Paths /\ tailed[p].fromGlob /\ gap'[p] = Grace
    BY <1>3, SweptFacts DEF Missing
  <2> QED
    BY <1>1, <1>2, <1>3, <2>1
<1>4. ASSUME NEW p \in Literal, p \notin Swept
      PROVE  tailed'[p] # NoHandle /\ tailed'[p].fromGlob = tailed[p].fromGlob
  <2>1. p \in Present /\ p \in Paths /\ tailed[p] \in Handles
    BY <1>2, SweptFacts
  <2>2. CASE p \in Missing
    <3>1. tailed[p].missed # 1
      BY <1>4, <2>2, SweptFacts
    <3>2. tailed[p].missed = 0
      BY <2>1, <3>1
    <3>3. tailed'[p] = [tailed[p] EXCEPT !.missed = tailed[p].missed + 1]
      BY <1>1, <1>4, <2>1, <2>2
    <3>4. tailed'[p] = [tailed[p] EXCEPT !.missed = 1]
      BY <3>2, <3>3
    <3> QED
      BY <2>1, <3>4, HandleStep DEF HandleIs
  <2>3. CASE p \notin Missing
    <3>1. tailed'[p] = [tailed[p] EXCEPT !.missed = 0]
      BY <1>1, <1>4, <2>1, <2>3
    <3> QED
      BY <2>1, <3>1, HandleStep DEF HandleIs
  <2> QED
    BY <2>2, <2>3
<1>5. \A p \in Literal : ~LiteralTurn(p, spc')
  BY <1>1 DEF LiteralTurn, Waiting
<1>6. LiteralStays'
  BY <1>3, <1>4, <1>5 DEF LiteralStays, LiteralTurn
<1> QED
  BY <1>2, <1>3, <1>4, <1>6 DEF LiteralInv

\* A literal path is tailed from its literal source's turn to the end of every scan
\* (discover), and from the first scan on if no glob meets it first; only a path
\* that one does can be swept, after it was away in two scans in a row.
THEOREM LiteralPathsStay == Spec => []LiteralStays
<1> USE HandleFacts
<1>1. Init => LiteralInv
  BY DEF Init, LiteralInv, LiteralStays, LiteralTurn, Literal, Waiting, Stopped
<1>2. ASSUME IInv, LiteralInv, [Next]_vars PROVE LiteralInv'
  <2>1. CASE Expand
    BY <1>2, <2>1, ExpandLiteral
  <2>2. CASE Sweep
    BY <1>2, <2>2, SweepLiteral
  <2>3. CASE Tick
    BY <1>2, <2>3 DEF Tick, LiteralInv, LiteralStays, LiteralTurn, tailVars, Waiting, Stopped
  <2>4. CASE ScanStops
    BY <1>2, <2>4 DEF ScanStops, LiteralInv, LiteralStays, LiteralTurn, tailVars, Waiting, Stopped
  <2>5. CASE UNCHANGED <<tailed, spc, gap>>
    BY <1>2, <2>5 DEF LiteralInv, LiteralStays, LiteralTurn
  <2> QED
    BY <1>2, <2>1, <2>2, <2>3, <2>4, <2>5 DEF Next, vars, tailVars, scanVars, Appear, Vanish, Send, Ack,
       CancelledReturns, TailerReturns, Cancel, ScanStopped, Close
<1>3. LiteralInv => LiteralStays
  BY DEF LiteralInv
<1> QED
  BY <1>1, <1>2, <1>3, Invariant, PTL DEF Spec

----------------------------------------------------------------------------
(* JournaldTailer: the cursors.                                            *)

\* No two sources read the same journal, as the cursors are kept by journal
\* (journald.go: journaldID).  Two that do lose entries.
OwnIds == \A s, t \in Sources : journaldID(s) = journaldID(t) => s = t

\* The queue as a sequence of messages.
LEMMA QueueFacts ==
  ASSUME NEW b \in Seq(Message), NEW c \in Seq(Message)
  PROVE  /\ b \o c \in Seq(Message) /\ Len(b) \in Nat /\ Len(b \o c) = Len(b) + Len(c)
         /\ Len(c) \in Nat
         /\ \A k \in 1..Len(b) : (b \o c)[k] = b[k]
         /\ \A k \in 1..Len(c) : (b \o c)[k + Len(b)] = c[k]
         /\ \A k \in 1..Len(b \o c) : (b \o c)[k].src \in Sources /\ (b \o c)[k].entry \in Nat
<1>1. /\ b \o c \in Seq(Message) /\ Len(b) \in Nat /\ Len(b \o c) = Len(b) + Len(c)
      /\ Len(c) \in Nat
  OBVIOUS
<1>2. /\ \A k \in 1..Len(b) : (b \o c)[k] = b[k]
      /\ \A k \in 1..Len(c) : (b \o c)[k + Len(b)] = c[k]
  OBVIOUS
<1>3. \A k \in 1..Len(b \o c) : (b \o c)[k] \in Message
  BY <1>1
<1> QED
  BY <1>1, <1>2, <1>3 DEF Message

\* What a source wants depends on what its journal holds.
LEMMA WantedFacts ==
  ASSUME JournalTypeOK, NEW s \in Sources
  PROVE  /\ journaldID(s) \in Journals
         /\ written[journaldID(s)] \in Nat
         /\ \A n \in WantedOf(s) : n \in Nat /\ n >= 1 /\ n <= written[journaldID(s)]
         /\ written' = written => WantedOf(s)' = WantedOf(s)
BY DEF JournalTypeOK, Journals, WantedOf

\* The queue loses its d oldest messages, all settled: what the rest relies on
\* is still in front of it, or settled.
LEMMA QueueMoves ==
  ASSUME JournalTypeOK, PosInv, QueueInv, NEW d \in Nat, UNCHANGED <<written, pos>>,
         Len(Queue') = Len(Queue) - d,
         \A k \in 1..Len(Queue') : Queue'[k] = Queue[k + d],
         \A s \in Sources : Settled(s) \subseteq Settled(s)',
         \A s \in Sources : \A h \in 1..d :
           Queue[h].src = s => Queue[h].entry \in Settled(s)'
  PROVE  PosInv' /\ QueueInv'
<1>1. Len(Queue) \in Nat /\ Len(Queue') \in Nat /\ Len(Queue) = Len(Queue') + d
  <2>1. Queue \in Seq(Message) /\ Len(Queue) \in Nat
    BY QueueFacts DEF JournalTypeOK, Queue
  <2> QED
    BY <2>1
<1>2. ASSUME NEW s \in Sources, NEW n \in Nat, NEW k \in 1..(Len(Queue') + 1),
             n \in Settled(s) \/ Ahead(s, n, k + d)
      PROVE  n \in Settled(s)' \/ Ahead(s, n, k)'
  <2>1. CASE n \in Settled(s)
    BY <2>1
  <2>2. CASE Ahead(s, n, k + d)
    <3>1. PICK h \in 1..(k + d - 1) : Queue[h].src = s /\ Queue[h].entry = n
      BY <2>2 DEF Ahead
    <3>2. CASE h <= d
      BY <3>1, <3>2
    <3>3. CASE h > d
      <4>1. h - d \in 1..(k - 1) /\ h - d \in 1..Len(Queue') /\ (h - d) + d = h
        BY <1>1, <3>3
      <4>2. Queue'[h - d].src = s /\ Queue'[h - d].entry = n
        BY <3>1, <4>1
      <4> QED
        BY <4>1, <4>2 DEF Ahead
    <3> QED
      BY <3>2, <3>3
  <2> QED
    BY <1>2, <2>1, <2>2
<1>3. PosInv'
  <2> SUFFICES ASSUME NEW s \in Sources, NEW n \in WantedOf(s)', n <= pos'[s]
               PROVE  n \in Settled(s)' \/ Ahead(s, n, Len(Queue) + 1)'
    BY DEF PosInv
  <2>1. n \in WantedOf(s) /\ n \in Nat /\ n <= pos[s]
    BY WantedFacts
  <2>2. n \in Settled(s) \/ Ahead(s, n, Len(Queue) + 1)
    BY <2>1 DEF PosInv
  <2>3. PICK k \in Nat : k = Len(Queue') + 1
    <3>1. Len(Queue') + 1 \in Nat
      BY <1>1
    <3> QED
      BY <3>1, Zenon
  <2>4. k \in 1..(Len(Queue') + 1) /\ k + d = Len(Queue) + 1
    BY <1>1, <2>3
  <2>5. n \in Settled(s)' \/ Ahead(s, n, k)'
    BY <1>2, <2>1, <2>2, <2>4
  <2> QED
    BY <2>3, <2>5
<1>4. QueueInv'
  <2> SUFFICES ASSUME NEW k \in 1..Len(Queue'), NEW s \in Sources, NEW n \in WantedOf(s)',
                      s = Queue'[k].src, n < Queue'[k].entry
               PROVE  n \in Settled(s)' \/ Ahead(s, n, k)'
    BY DEF QueueInv
  <2>1. n \in WantedOf(s) /\ n \in Nat
    BY WantedFacts
  <2>2. k + d \in 1..Len(Queue) /\ k \in 1..(Len(Queue') + 1)
    BY <1>1
  <2>3. s = Queue[k + d].src /\ n < Queue[k + d].entry
    OBVIOUS
  <2>4. n \in Settled(s) \/ Ahead(s, n, k + d)
    BY <2>1, <2>2, <2>3 DEF QueueInv
  <2> QED
    BY <1>2, <2>1, <2>2, <2>4
<1> QED
  BY <1>3, <1>4

LEMMA InitJournal == JournalInit => JournalInv
<1> SUFFICES ASSUME JournalInit PROVE JournalInv
  OBVIOUS
<1>1. Queue = <<>> /\ Len(Queue) = 0
  BY DEF JournalInit, Queue
<1>2. JournalTypeOK
  BY DEF JournalInit, JournalTypeOK, NoCursor
<1>3. BoundInv
  BY <1>1 DEF JournalInit, BoundInv, NoCursor, Journals
<1>4. NoGap /\ PosInv
  <2>1. \A s \in Sources : WantedOf(s) = {}
    BY DEF JournalInit, WantedOf, Journals
  <2> QED
    BY <2>1 DEF NoGap, PosInv
<1> QED
  BY <1>1, <1>2, <1>3, <1>4 DEF JournalInv, QueueInv

\* Something is logged: it is behind every cursor and every position.
LEMMA WriteInv ==
  ASSUME JournalInv, NEW j \in Journals, Write(j)
  PROVE  JournalInv'
<1>1. /\ written' = [written EXCEPT ![j] = @ + 1]
      /\ UNCHANGED <<pc, pos, chan, bpc, batch, cursors, disk, delivered, refused, skipped, agent>>
  BY DEF Write, streamVars, batcherVars, mainVars
<1>2. JournalTypeOK /\ JournalTypeOK'
  BY <1>1 DEF JournalInv, JournalTypeOK
<1>3. /\ Queue' = Queue /\ Queue \in Seq(Message)
      /\ \A s \in Sources : Settled(s)' = Settled(s)
      /\ \A k \in 1..Len(Queue) : Queue[k].src \in Sources /\ Queue[k].entry \in Nat
  BY <1>1, <1>2, QueueFacts DEF Queue, Settled, JournalTypeOK
<1>4. \A i \in Journals : written[i] \in Nat /\ written'[i] \in Nat /\ written[i] <= written'[i]
  BY <1>1, <1>2 DEF JournalTypeOK
<1>5. \A s \in Sources : \A n \in WantedOf(s)' :
        n \in Nat /\ (n \in WantedOf(s) \/ n > written[journaldID(s)])
  BY <1>2, <1>4, WantedFacts DEF WantedOf
<1>6. BoundInv'
  <2>1. \A i \in Journals : cursors'[i] <= written'[i] /\ disk'[i] <= written'[i]
    BY <1>1, <1>2, <1>4 DEF JournalInv, BoundInv, JournalTypeOK
  <2>2. \A s \in Sources : pos'[s] <= written'[journaldID(s)]
    BY <1>1, <1>2, <1>4, WantedFacts DEF JournalInv, BoundInv, JournalTypeOK
  <2>3. \A k \in 1..Len(Queue') : Queue'[k].entry <= written'[journaldID(Queue'[k].src)]
    BY <1>2, <1>3, <1>4, WantedFacts DEF JournalInv, BoundInv
  <2> QED
    BY <1>1, <2>1, <2>2, <2>3 DEF JournalInv, BoundInv
<1>7. NoGap'
  <2> SUFFICES ASSUME NEW s \in Sources, NEW n \in WantedOf(s)',
                      n <= cursors'[journaldID(s)] \/ n <= disk'[journaldID(s)]
               PROVE  n \in Settled(s)'
    BY DEF NoGap
  <2>1. /\ cursors[journaldID(s)] \in Nat /\ disk[journaldID(s)] \in Nat
        /\ cursors[journaldID(s)] <= written[journaldID(s)]
        /\ disk[journaldID(s)] <= written[journaldID(s)]
        /\ written[journaldID(s)] \in Nat
    BY <1>2, WantedFacts DEF JournalInv, BoundInv, JournalTypeOK
  <2>2. n \in WantedOf(s)
    BY <1>1, <1>5, <2>1
  <2> QED
    BY <1>1, <1>3, <2>2 DEF JournalInv, NoGap
<1>8. PosInv'
  <2> SUFFICES ASSUME NEW s \in Sources, NEW n \in WantedOf(s)', n <= pos'[s]
               PROVE  n \in Settled(s)' \/ Ahead(s, n, Len(Queue) + 1)'
    BY DEF PosInv
  <2>1. pos[s] \in Nat /\ pos[s] <= written[journaldID(s)] /\ written[journaldID(s)] \in Nat
    BY <1>2, WantedFacts DEF JournalInv, BoundInv, JournalTypeOK
  <2>2. n \in WantedOf(s)
    BY <1>1, <1>5, <2>1
  <2> QED
    BY <1>1, <1>3, <2>2 DEF JournalInv, PosInv, Ahead
<1>9. QueueInv'
  <2> SUFFICES ASSUME NEW k \in 1..Len(Queue'), NEW s \in Sources, NEW n \in WantedOf(s)',
                      s = Queue'[k].src, n < Queue'[k].entry
               PROVE  n \in Settled(s)' \/ Ahead(s, n, k)'
    BY DEF QueueInv
  <2>1. /\ Queue[k].entry \in Nat /\ Queue[k].entry <= written[journaldID(s)]
        /\ written[journaldID(s)] \in Nat
    BY <1>2, <1>3, WantedFacts DEF JournalInv, BoundInv
  <2>2. n \in WantedOf(s)
    BY <1>3, <1>5, <2>1
  <2> QED
    BY <1>3, <2>2 DEF JournalInv, QueueInv, Ahead
<1> QED
  BY <1>2, <1>6, <1>7, <1>8, <1>9 DEF JournalInv

\* The steps that move no entry: what the agent, the goroutines and journalctl
\* do besides reading, and the registry's flush, which copies the cursors.
LEMMA StillInv ==
  ASSUME JournalInv, JournalTypeOK',
         UNCHANGED <<written, pos, chan, bpc, batch, cursors, delivered, refused, skipped>>,
         disk' \in {disk, cursors}
  PROVE  JournalInv'
<1>1. /\ JournalTypeOK /\ Queue' = Queue /\ Len(Queue) \in Nat
      /\ \A s \in Sources : Settled(s)' = Settled(s) /\ WantedOf(s)' = WantedOf(s)
  BY QueueFacts, WantedFacts DEF JournalInv, Queue, Settled, JournalTypeOK
<1>2. BoundInv'
  BY <1>1 DEF JournalInv, BoundInv
<1>3. NoGap'
  BY <1>1 DEF JournalInv, NoGap
<1>4. PosInv' /\ QueueInv'
  BY <1>1 DEF JournalInv, PosInv, QueueInv, Ahead
<1> QED
  BY <1>2, <1>3, <1>4 DEF JournalInv

\* journalctl starts after the cursor, or at the end: what it passes over is
\* settled or skipped.
LEMMA SpawnInv ==
  ASSUME JournalInv, NEW t \in Sources, Spawn(t)
  PROVE  JournalInv'
<1> DEFINE id == journaldID(t)
           atEnd == cursors[id] = NoCursor /\ Config[t].startPosition = "end"
<1>1. /\ pos' = [pos EXCEPT ![t] = IF atEnd THEN written[id] ELSE cursors[id]]
      /\ skipped' = [skipped EXCEPT ![t] = IF atEnd THEN @ \cup 1..written[id] ELSE @]
      /\ pc' = [pc EXCEPT ![t] = "read"]
      /\ UNCHANGED <<written, chan, bpc, batch, cursors, disk, delivered, refused, agent>>
  BY DEF Spawn, batcherVars, mainVars
<1> HIDE DEF atEnd
<1>2. /\ JournalTypeOK /\ id \in Journals /\ written[id] \in Nat /\ cursors[id] \in Nat
      /\ cursors[id] <= written[id]
  BY WantedFacts DEF JournalInv, JournalTypeOK, BoundInv
<1> HIDE DEF id
<1>3. /\ pos' \in [Sources -> Nat] /\ skipped' \in [Sources -> SUBSET Nat]
      /\ \A s \in Sources : skipped[s] \subseteq skipped'[s] /\ (s # t => pos'[s] = pos[s])
      /\ pos'[t] = IF atEnd THEN written[id] ELSE cursors[id]
      /\ atEnd => 1..written[id] \subseteq skipped'[t]
  BY <1>1, <1>2 DEF JournalTypeOK
<1>4. JournalTypeOK'
  BY <1>1, <1>2, <1>3 DEF JournalTypeOK
<1>5. /\ Queue' = Queue /\ Len(Queue) \in Nat
      /\ \A s \in Sources : Settled(s) \subseteq Settled(s)' /\ WantedOf(s)' = WantedOf(s)
  BY <1>1, <1>2, <1>3, QueueFacts, WantedFacts DEF Queue, Settled, JournalTypeOK
<1>6. BoundInv'
  <2>1. \A s \in Sources : pos'[s] <= written'[journaldID(s)]
    BY <1>1, <1>2, <1>3 DEF JournalInv, BoundInv, id
  <2> QED
    BY <1>1, <1>5, <2>1 DEF JournalInv, BoundInv
<1>7. NoGap'
  BY <1>1, <1>5 DEF JournalInv, NoGap
<1>8. PosInv'
  <2> SUFFICES ASSUME NEW s \in Sources, NEW n \in WantedOf(s), n <= pos'[s]
               PROVE  n \in Settled(s)' \/ Ahead(s, n, Len(Queue) + 1)'
    BY <1>5 DEF PosInv
  <2>1. CASE s # t
    BY <1>3, <1>5, <2>1 DEF JournalInv, PosInv, Ahead
  <2>2. CASE s = t
    <3>1. CASE atEnd
      BY <1>2, <1>3, <2>2, <3>1, WantedFacts DEF Settled, id
    <3>2. CASE ~atEnd
      BY <1>3, <1>5, <2>2, <3>2 DEF JournalInv, NoGap, id
    <3> QED
      BY <3>1, <3>2
  <2> QED
    BY <2>1, <2>2
<1>9. QueueInv'
  BY <1>5 DEF JournalInv, QueueInv, Ahead
<1> QED
  BY <1>4, <1>6, <1>7, <1>8, <1>9 DEF JournalInv

\* An entry nobody wants is passed over.
LEMMA SkipInv ==
  ASSUME JournalInv, NEW t \in Sources, Skip(t)
  PROVE  JournalInv'
<1>1. /\ pos' = [pos EXCEPT ![t] = @ + 1] /\ pos[t] < written[journaldID(t)]
      /\ ~Wanted(t, pos[t] + 1)
      /\ UNCHANGED <<written, pc, chan, bpc, batch, cursors, disk, delivered, refused, skipped,
                     agent>>
  BY DEF Skip, batcherVars, mainVars, journalVars
<1>2. JournalTypeOK /\ JournalTypeOK' /\ pos[t] \in Nat /\ written[journaldID(t)] \in Nat
  <2>1. JournalTypeOK
    BY DEF JournalInv
  <2>2. pos[t] \in Nat /\ pos' \in [Sources -> Nat]
    BY <1>1, <2>1 DEF JournalTypeOK
  <2>3. JournalTypeOK'
    BY <1>1, <2>1, <2>2 DEF JournalTypeOK
  <2> QED
    BY <2>1, <2>2, <2>3, WantedFacts
<1>3. /\ Queue' = Queue /\ Len(Queue) \in Nat
      /\ \A s \in Sources : Settled(s)' = Settled(s) /\ WantedOf(s)' = WantedOf(s)
      /\ \A s \in Sources : pos'[s] = IF s = t THEN pos[t] + 1 ELSE pos[s]
  BY <1>1, <1>2, QueueFacts, WantedFacts DEF Queue, Settled, JournalTypeOK
<1>4. BoundInv'
  <2>1. \A s \in Sources : pos'[s] <= written'[journaldID(s)]
    BY <1>1, <1>2, <1>3 DEF JournalInv, BoundInv
  <2> QED
    BY <1>1, <1>3, <2>1 DEF JournalInv, BoundInv
<1>5. NoGap'
  BY <1>1, <1>3 DEF JournalInv, NoGap
<1>6. PosInv'
  <2> SUFFICES ASSUME NEW s \in Sources, NEW n \in WantedOf(s), n <= pos'[s]
               PROVE  n \in Settled(s) \/ Ahead(s, n, Len(Queue) + 1)
    BY <1>3 DEF PosInv, Ahead
  <2>1. Wanted(s, n) /\ n \in Nat
    BY <1>2, WantedFacts DEF WantedOf
  <2>2. n <= pos[s]
    BY <1>1, <1>2, <1>3, <2>1
  <2> QED
    BY <2>2 DEF JournalInv, PosInv
<1>7. QueueInv'
  BY <1>3 DEF JournalInv, QueueInv, Ahead
<1> QED
  BY <1>2, <1>4, <1>5, <1>6, <1>7 DEF JournalInv

\* handle sends an entry: it joins the queue behind all that is before it.
LEMMA HandleInv ==
  ASSUME JournalInv, NEW t \in Sources, Handle(t)
  PROVE  JournalInv'
<1> DEFINE x == [src |-> t, entry |-> pos[t] + 1]
           m == Len(Queue)
<1>1. /\ pos' = [pos EXCEPT ![t] = @ + 1] /\ pos[t] < written[journaldID(t)]
      /\ chan' = Append(chan, x)
      /\ UNCHANGED <<written, pc, bpc, batch, cursors, disk, delivered, refused, skipped, agent>>
  BY DEF Handle, batcherVars, mainVars, journalVars
<1>2. /\ JournalTypeOK /\ pos[t] \in Nat /\ written[journaldID(t)] \in Nat /\ x \in Message
      /\ x.src = t /\ x.entry = pos[t] + 1
  BY WantedFacts DEF JournalInv, JournalTypeOK, Message
<1> HIDE DEF x
<1>3. JournalTypeOK'
  BY <1>1, <1>2 DEF JournalTypeOK
<1>4. /\ Queue \in Seq(Message) /\ m \in Nat /\ Queue' = Append(Queue, x)
  <2>1. chan \in Seq(Message) /\ batch \in Seq(Message)
    BY <1>2 DEF JournalTypeOK
  <2>2. batch \o Append(chan, x) = Append(batch \o chan, x)
    BY <1>2, <2>1
  <2> QED
    BY <1>1, <2>1, <2>2, QueueFacts DEF Queue
<1>5. /\ Len(Queue') = m + 1 /\ Queue'[m + 1] = x
      /\ \A k \in 1..m : Queue'[k] = Queue[k]
  BY <1>2, <1>4
<1>6. /\ \A s \in Sources : Settled(s)' = Settled(s) /\ WantedOf(s)' = WantedOf(s)
      /\ \A s \in Sources : pos'[s] = IF s = t THEN pos[t] + 1 ELSE pos[s]
  BY <1>1, <1>2, WantedFacts DEF Settled, JournalTypeOK
<1> HIDE DEF m
<1>7. \A s, n : \A k \in 1..(m + 1) : Ahead(s, n, k) => Ahead(s, n, k)'
  BY <1>4, <1>5 DEF Ahead
<1>8. BoundInv'
  <2>1. \A s \in Sources : pos'[s] <= written'[journaldID(s)]
    BY <1>1, <1>2, <1>6 DEF JournalInv, BoundInv
  <2>2. ASSUME NEW k \in 1..Len(Queue')
        PROVE  Queue'[k].entry <= written'[journaldID(Queue'[k].src)]
    <3>1. CASE k = m + 1
      BY <1>1, <1>2, <1>5, <3>1
    <3>2. CASE k # m + 1
      BY <1>1, <1>4, <1>5, <3>2 DEF JournalInv, BoundInv, m
    <3> QED
      BY <3>1, <3>2
  <2> QED
    BY <1>1, <2>1, <2>2 DEF JournalInv, BoundInv
<1>9. NoGap'
  BY <1>1, <1>6 DEF JournalInv, NoGap
<1>10. PosInv'
  <2> SUFFICES ASSUME NEW s \in Sources, NEW n \in WantedOf(s), n <= pos'[s],
                      NEW k \in Nat, k = Len(Queue') + 1
               PROVE  n \in Settled(s)' \/ Ahead(s, n, k)'
    BY <1>4, <1>5, <1>6 DEF PosInv
  <2>1. CASE n <= pos[s]
    <3>1. n \in Settled(s) \/ Ahead(s, n, m + 1)
      BY <2>1 DEF JournalInv, PosInv, m
    <3>2. Ahead(s, n, m + 1) => Ahead(s, n, k)'
      BY <1>4, <1>5 DEF Ahead
    <3> QED
      BY <1>6, <3>1, <3>2
  <2>2. CASE ~(n <= pos[s])
    <3>1. s = t /\ n = pos[t] + 1
      <4>1. n \in Nat /\ pos[s] \in Nat
        BY <1>2, WantedFacts DEF JournalTypeOK
      <4> QED
        BY <1>6, <2>2, <4>1
    <3>2. m + 1 \in 1..(k - 1)
      BY <1>4, <1>5
    <3> QED
      BY <1>2, <1>5, <3>1, <3>2 DEF Ahead
  <2> QED
    BY <2>1, <2>2
<1>11. QueueInv'
  <2> SUFFICES ASSUME NEW k \in 1..Len(Queue'), NEW s \in Sources, NEW n \in WantedOf(s),
                      s = Queue'[k].src, n < Queue'[k].entry
               PROVE  n \in Settled(s)' \/ Ahead(s, n, k)'
    BY <1>6 DEF QueueInv
  <2>1. k \in 1..(m + 1)
    BY <1>5
  <2>2. CASE k = m + 1
    <3>1. s = t /\ n <= pos[s]
      BY <1>2, <1>5, <2>2, WantedFacts
    <3>2. n \in Settled(s) \/ Ahead(s, n, m + 1)
      BY <3>1 DEF JournalInv, PosInv, m
    <3> QED
      BY <1>6, <1>7, <2>1, <2>2, <3>2
  <2>3. CASE k # m + 1
    <3>1. k \in 1..m /\ Queue'[k] = Queue[k]
      BY <1>4, <1>5, <2>1, <2>3
    <3>2. n \in Settled(s) \/ Ahead(s, n, k)
      BY <3>1 DEF JournalInv, QueueInv, m
    <3> QED
      BY <1>6, <1>7, <2>1, <3>2
  <2> QED
    BY <2>2, <2>3
<1> QED
  BY <1>3, <1>8, <1>9, <1>10, <1>11 DEF JournalInv

\* The batcher takes a message: the queue stays what it is.
LEMMA ReceiveInv ==
  ASSUME JournalInv, Receive
  PROVE  JournalInv'
<1>1. /\ chan # <<>> /\ batch' = Append(batch, Head(chan)) /\ chan' = Tail(chan) /\ bpc = "select"
      /\ UNCHANGED <<written, pc, pos, bpc, cursors, disk, delivered, refused, skipped, agent>>
  BY DEF Receive, streamVars, mainVars, journalVars
<1>2. JournalTypeOK /\ chan \in Seq(Message) /\ batch \in Seq(Message)
  BY DEF JournalInv, JournalTypeOK
<1>3. batch' \in Seq(Message) /\ chan' \in Seq(Message)
  BY <1>1, <1>2
<1>4. JournalTypeOK'
  BY <1>1, <1>2, <1>3 DEF JournalTypeOK
<1>5. Queue' = Queue
  <2>1. Append(batch, Head(chan)) \o Tail(chan) = batch \o chan
    <3> DEFINE p == Append(batch, Head(chan)) \o Tail(chan)
               q == batch \o chan
    <3>1. /\ p \in Seq(Message) /\ q \in Seq(Message) /\ Len(p) = Len(q)
          /\ \A k \in 1..Len(q) : p[k] = q[k]
      BY <1>1, <1>2
    <3> HIDE DEF p, q
    <3>2. p = q
      BY <3>1
    <3> QED
      BY <3>2 DEF p, q
  <2> QED
    BY <1>1, <2>1 DEF Queue
<1>6. /\ Len(Queue) \in Nat
      /\ \A s \in Sources : Settled(s)' = Settled(s) /\ WantedOf(s)' = WantedOf(s)
  BY <1>1, <1>2, QueueFacts, WantedFacts DEF Queue, Settled
<1>7. BoundInv' /\ NoGap' /\ PosInv' /\ QueueInv'
  BY <1>1, <1>5, <1>6 DEF JournalInv, BoundInv, NoGap, PosInv, QueueInv, Ahead
<1> QED
  BY <1>4, <1>7 DEF JournalInv

\* The intake stores the batch.
LEMMA DeliverInv ==
  ASSUME JournalInv, Deliver
  PROVE  JournalInv'
<1>1. /\ batch # <<>> /\ bpc' = "ack"
      /\ delivered' = [s \in Sources |-> delivered[s] \cup EntriesOf(batch, s)]
      /\ UNCHANGED <<written, refused, skipped, pc, pos, chan, batch, cursors, disk, agent>>
  BY DEF Deliver, streamVars, mainVars
<1>2. JournalTypeOK /\ chan \in Seq(Message) /\ batch \in Seq(Message)
  BY DEF JournalInv, JournalTypeOK
<1>3. /\ \A k \in 1..Len(batch) : /\ batch[k].src \in Sources /\ batch[k].entry \in Nat
                                  /\ batch[k].entry \in EntriesOf(batch, batch[k].src)
      /\ \A s \in Sources : EntriesOf(batch, s) \subseteq Nat
  <2>1. DOMAIN batch = 1..Len(batch) /\ \A k \in 1..Len(batch) : batch[k] \in Message
    BY <1>2
  <2> QED
    BY <2>1 DEF EntriesOf, Message
<1>4. delivered' \in [Sources -> SUBSET Nat]
  BY <1>1, <1>2, <1>3 DEF JournalTypeOK
<1>5. JournalTypeOK'
  BY <1>1, <1>2, <1>4 DEF JournalTypeOK
<1>6. /\ Queue' = Queue /\ Len(Queue) \in Nat
      /\ \A s \in Sources : Settled(s) \subseteq Settled(s)' /\ WantedOf(s)' = WantedOf(s)
  BY <1>1, <1>2, QueueFacts, WantedFacts DEF Queue, Settled
<1>7. BoundInv'
  <2>1. \A k \in 1..Len(batch') : batch'[k].entry \in delivered'[batch'[k].src]
    BY <1>1, <1>3
  <2> QED
    BY <1>1, <1>6, <2>1 DEF JournalInv, BoundInv
<1>8. NoGap' /\ PosInv' /\ QueueInv'
  BY <1>1, <1>6 DEF JournalInv, NoGap, PosInv, QueueInv, Ahead
<1> QED
  BY <1>5, <1>7, <1>8 DEF JournalInv

\* The intake refuses it: the batch is dropped, all of it settled.
LEMMA RefuseInv ==
  ASSUME JournalInv, Refuse
  PROVE  JournalInv'
<1>1. /\ batch' = <<>> /\ bpc = "select"
      /\ refused' = [s \in Sources |-> refused[s] \cup EntriesOf(batch, s)]
      /\ UNCHANGED <<written, delivered, skipped, pc, pos, chan, bpc, cursors, disk, agent>>
  BY DEF Refuse, streamVars, mainVars
<1>2. JournalTypeOK /\ chan \in Seq(Message) /\ batch \in Seq(Message) /\ Len(batch) \in Nat
  BY DEF JournalInv, JournalTypeOK
<1>3. /\ \A k \in 1..Len(batch) : /\ batch[k].src \in Sources /\ batch[k].entry \in Nat
                                  /\ batch[k].entry \in EntriesOf(batch, batch[k].src)
      /\ \A s \in Sources : EntriesOf(batch, s) \subseteq Nat
  <2>1. DOMAIN batch = 1..Len(batch) /\ \A k \in 1..Len(batch) : batch[k] \in Message
    BY <1>2
  <2> QED
    BY <2>1 DEF EntriesOf, Message
<1>4. refused' \in [Sources -> SUBSET Nat]
  BY <1>1, <1>2, <1>3 DEF JournalTypeOK
<1>5. JournalTypeOK'
  BY <1>1, <1>2, <1>4 DEF JournalTypeOK
<1>6. /\ \A s \in Sources : Settled(s) \subseteq Settled(s)' /\ WantedOf(s)' = WantedOf(s)
  BY <1>1, <1>2, WantedFacts DEF Settled
<1>7. /\ Queue' = chan /\ Len(Queue') = Len(Queue) - Len(batch)
      /\ \A k \in 1..Len(Queue') : Queue'[k] = Queue[k + Len(batch)]
      /\ \A k \in 1..Len(batch) : Queue[k] = batch[k]
      /\ Len(Queue) \in Nat /\ Len(chan) \in Nat
  <2>1. <<>> \o chan = chan
    BY <1>2
  <2> QED
    BY <1>1, <1>2, <2>1, QueueFacts DEF Queue
<1>8. \A s \in Sources : \A h \in 1..Len(batch) :
        Queue[h].src = s => Queue[h].entry \in Settled(s)'
  BY <1>1, <1>3, <1>7 DEF Settled
<1>9. PosInv' /\ QueueInv'
  <2>1. PosInv /\ QueueInv
    BY DEF JournalInv
  <2> QED
    BY <1>1, <1>2, <1>6, <1>7, <1>8, <2>1, QueueMoves
<1>10. BoundInv'
  <2>1. ASSUME NEW k \in 1..Len(Queue')
        PROVE  Queue'[k].entry <= written'[journaldID(Queue'[k].src)]
    <3>1. k + Len(batch) \in 1..Len(Queue)
      BY <1>2, <1>7
    <3> QED
      BY <1>1, <1>7, <3>1 DEF JournalInv, BoundInv
  <2> QED
    BY <1>1, <2>1 DEF JournalInv, BoundInv
<1>11. NoGap'
  BY <1>1, <1>6 DEF JournalInv, NoGap
<1> QED
  BY <1>5, <1>9, <1>10, <1>11 DEF JournalInv

\* The cursor moves to the oldest message of a delivered batch: what is before it
\* is settled, and no other source has this cursor.
LEMMA AckInv ==
  ASSUME OwnIds, JournalInv, AdvanceCursor
  PROVE  JournalInv'
<1> DEFINE x == Head(batch)
           id == journaldID(x.src)
<1>1. /\ cursors' = [cursors EXCEPT ![id] = x.entry] /\ batch' = Tail(batch) /\ bpc = "ack"
      /\ bpc' = IF Len(batch) = 1 THEN "select" ELSE "ack"
      /\ UNCHANGED <<written, delivered, refused, skipped, pc, pos, chan, disk, agent>>
  BY DEF AdvanceCursor, streamVars, mainVars, journalVars
<1>2. /\ JournalTypeOK /\ chan \in Seq(Message) /\ batch \in Seq(Message) /\ batch # <<>>
      /\ Len(chan) \in Nat /\ Len(batch) \in Nat
  BY <1>1 DEF JournalInv, JournalTypeOK, BoundInv
<1>3. /\ x = batch[1] /\ x \in Message /\ Len(batch) >= 1 /\ Tail(batch) \in Seq(Message)
      /\ Len(Tail(batch)) = Len(batch) - 1
      /\ \A k \in 1..(Len(batch) - 1) : Tail(batch)[k] = batch[k + 1]
  BY <1>2
<1>4. /\ x.src \in Sources /\ x.entry \in Nat /\ id \in Journals
      /\ x.entry \in delivered[x.src]
  BY <1>1, <1>2, <1>3, WantedFacts DEF JournalInv, BoundInv, Message
<1>5. /\ Queue \in Seq(Message) /\ Len(Queue) = Len(batch) + Len(chan)
      /\ \A k \in 1..Len(batch) : Queue[k] = batch[k]
      /\ \A k \in 1..Len(chan) : Queue[k + Len(batch)] = chan[k]
      /\ Queue[1] = x
  <2>1. /\ Queue \in Seq(Message) /\ Len(Queue) = Len(batch) + Len(chan)
        /\ \A k \in 1..Len(batch) : Queue[k] = batch[k]
        /\ \A k \in 1..Len(chan) : Queue[k + Len(batch)] = chan[k]
    BY <1>2, QueueFacts DEF Queue
  <2>2. 1 \in 1..Len(batch)
    BY <1>2, <1>3
  <2>3. Queue[1] = x
    <3> HIDE DEF x
    <3> QED
      BY <1>3, <2>1, <2>2
  <2> QED
    BY <2>1, <2>3
<1>6. /\ Len(Queue') = Len(Queue) - 1
      /\ \A k \in 1..Len(Queue') : Queue'[k] = Queue[k + 1]
  <2>1. /\ Len(Queue') = Len(batch') + Len(chan)
        /\ \A k \in 1..Len(batch') : Queue'[k] = batch'[k]
        /\ \A k \in 1..Len(chan) : Queue'[k + Len(batch')] = chan[k]
    BY <1>1, <1>2, <1>3, QueueFacts DEF Queue
  <2>2. Len(Queue') = Len(Queue) - 1
    BY <1>1, <1>2, <1>3, <1>5, <2>1
  <2>3. ASSUME NEW k \in 1..Len(Queue') PROVE Queue'[k] = Queue[k + 1]
    <3>1. CASE k <= Len(batch) - 1
      <4>1. k \in 1..Len(batch') /\ k \in 1..(Len(batch) - 1) /\ k + 1 \in 1..Len(batch)
        BY <1>1, <1>2, <1>3, <3>1
      <4> QED
        BY <1>1, <1>3, <1>5, <2>1, <4>1
    <3>2. CASE k > Len(batch) - 1
      <4>1. Len(batch') = Len(batch) - 1
        BY <1>1, <1>3
      <4>2. k \in Nat /\ k <= Len(batch) - 1 + Len(chan)
        BY <1>2, <2>1, <4>1
      <4>3. k - (Len(batch) - 1) \in 1..Len(chan)
        BY <1>2, <3>2, <4>2
      <4>4. PICK h \in 1..Len(chan) : h = k - (Len(batch) - 1)
        BY <4>3
      <4>5. k = h + Len(batch') /\ k + 1 = h + Len(batch)
        BY <1>2, <4>1, <4>2, <4>4
      <4> QED
        BY <1>5, <2>1, <4>5
    <3> QED
      BY <1>2, <3>1, <3>2
  <2> QED
    BY <2>2, <2>3
<1> HIDE DEF x, id
<1>7. JournalTypeOK'
  <2>1. cursors' \in [Journals -> Nat] /\ batch' \in Seq(Message) /\ bpc' \in {"select", "ack"}
    BY <1>1, <1>2, <1>3, <1>4 DEF JournalTypeOK
  <2> QED
    BY <1>1, <1>2, <2>1 DEF JournalTypeOK
<1>8. \A s \in Sources : Settled(s)' = Settled(s) /\ WantedOf(s)' = WantedOf(s)
  BY <1>1, <1>2, WantedFacts DEF Settled
<1>9. PosInv' /\ QueueInv'
  <2>1. PosInv /\ QueueInv
    BY DEF JournalInv
  <2>2. \A s \in Sources : \A h \in 1..1 :
          Queue[h].src = s => Queue[h].entry \in Settled(s)'
    BY <1>1, <1>4, <1>5 DEF Settled
  <2>3. 1 \in Nat /\ UNCHANGED <<written, pos>>
    BY <1>1
  <2> QED
    BY <1>2, <1>6, <1>8, <2>1, <2>2, <2>3, QueueMoves
<1>10. BoundInv'
  <2>1. x.entry <= written[id]
    BY <1>2, <1>3, <1>5 DEF JournalInv, BoundInv, id
  <2>2. \A j \in Journals : cursors'[j] <= written'[j] /\ disk'[j] <= written'[j]
    BY <1>1, <1>2, <1>4, <2>1 DEF JournalInv, BoundInv, JournalTypeOK
  <2>3. ASSUME NEW k \in 1..Len(Queue')
        PROVE  Queue'[k].entry <= written'[journaldID(Queue'[k].src)]
    <3>1. k + 1 \in 1..Len(Queue)
      BY <1>2, <1>5, <1>6
    <3> QED
      BY <1>1, <1>6, <3>1 DEF JournalInv, BoundInv
  <2>4. bpc' = "ack" => /\ batch' # <<>>
                        /\ \A k \in 1..Len(batch') : batch'[k].entry \in delivered'[batch'[k].src]
    <3> SUFFICES ASSUME bpc' = "ack"
                 PROVE  /\ batch' # <<>>
                        /\ \A k \in 1..Len(batch') : batch'[k].entry \in delivered'[batch'[k].src]
      OBVIOUS
    <3>1. Len(batch') = Len(batch) - 1 /\ Len(batch) # 1 /\ batch' # <<>>
      <4>1. Len(batch') = Len(batch) - 1 /\ Len(batch) # 1
        BY <1>1, <1>3
      <4>2. Len(batch') # 0
        BY <1>2, <4>1
      <4> QED
        BY <4>1, <4>2
    <3>2. \A k \in 1..Len(batch) : batch[k].entry \in delivered[batch[k].src]
      BY <1>1 DEF JournalInv, BoundInv
    <3>3. ASSUME NEW k \in 1..Len(batch') PROVE batch'[k].entry \in delivered'[batch'[k].src]
      <4>1. k \in 1..(Len(batch) - 1) /\ k + 1 \in 1..Len(batch)
        BY <1>2, <3>1
      <4> QED
        BY <1>1, <1>3, <3>2, <4>1
    <3> QED
      BY <3>1, <3>3
  <2> QED
    BY <1>1, <2>2, <2>3, <2>4 DEF JournalInv, BoundInv
<1>11. NoGap'
  <2> SUFFICES ASSUME NEW s \in Sources, NEW n \in WantedOf(s),
                      n <= cursors'[journaldID(s)] \/ n <= disk'[journaldID(s)]
               PROVE  n \in Settled(s)
    BY <1>8 DEF NoGap
  <2>1. CASE n <= cursors[journaldID(s)] \/ n <= disk[journaldID(s)]
    BY <2>1 DEF JournalInv, NoGap
  <2>2. CASE n <= x.entry /\ journaldID(s) = id
    <3>1. s = x.src
      BY <1>4, <2>2 DEF OwnIds, id
    <3>2. CASE n = x.entry
      BY <1>4, <3>1, <3>2 DEF Settled
    <3>3. CASE n # x.entry
      <4>1. n < x.entry /\ 1 \in 1..Len(Queue)
        BY <1>2, <1>3, <1>4, <1>5, <2>2, <3>3, WantedFacts
      <4>2. n \in Settled(s) \/ Ahead(s, n, 1)
        BY <1>5, <3>1, <4>1 DEF JournalInv, QueueInv
      <4> QED
        BY <4>2 DEF Ahead
    <3> QED
      BY <3>2, <3>3
  <2>3. journaldID(s) = id \/ cursors'[journaldID(s)] = cursors[journaldID(s)]
    BY <1>1, <1>2, <1>4, WantedFacts DEF JournalTypeOK
  <2>4. journaldID(s) = id => cursors'[journaldID(s)] = x.entry
    BY <1>1, <1>2, <1>4 DEF JournalTypeOK
  <2> QED
    BY <1>1, <2>1, <2>2, <2>3, <2>4
<1> QED
  BY <1>7, <1>9, <1>10, <1>11 DEF JournalInv

\* A new process begins with the cursors of the file and nothing in the queue.
LEMMA RestartInv ==
  ASSUME JournalInv, Restart
  PROVE  JournalInv'
<1>1. /\ pos' = [s \in Sources |-> 0] /\ chan' = <<>> /\ batch' = <<>> /\ bpc' = "select"
      /\ pc' = [s \in Sources |-> "spawn"] /\ agent' = "run" /\ cursors' = disk
      /\ UNCHANGED <<written, delivered, refused, skipped, disk>>
  BY DEF Restart, journalVars
<1>2. JournalTypeOK
  BY DEF JournalInv
<1>3. JournalTypeOK'
  BY <1>1, <1>2 DEF JournalTypeOK
<1>4. /\ Len(Queue') = 0
      /\ \A s \in Sources : Settled(s)' = Settled(s) /\ WantedOf(s)' = WantedOf(s)
      /\ \A s \in Sources : /\ written[journaldID(s)] \in Nat
                            /\ \A n \in WantedOf(s) : n \in Nat /\ n >= 1
  <2>1. \A s \in Sources : /\ written[journaldID(s)] \in Nat
                           /\ WantedOf(s)' = WantedOf(s)
                           /\ \A n \in WantedOf(s) : n \in Nat /\ n >= 1
    BY <1>1, <1>2, WantedFacts
  <2> QED
    BY <1>1, <2>1 DEF Queue, Settled
<1>5. BoundInv'
  BY <1>1, <1>4 DEF JournalInv, BoundInv
<1>6. NoGap' /\ PosInv' /\ QueueInv'
  BY <1>1, <1>4 DEF JournalInv, NoGap, PosInv, QueueInv
<1> QED
  BY <1>3, <1>5, <1>6 DEF JournalInv

LEMMA JournalStep ==
  ASSUME OwnIds, JournalInv, [JournalNext]_jvars
  PROVE  JournalInv'
<1>1. CASE \E j \in Journals : Write(j)
  BY <1>1, WriteInv
<1>2. ASSUME NEW s \in Sources, StreamStep(s) PROVE JournalInv'
  <2>1. CASE HandleDrops(s) \/ Exits(s) \/ PauseEnds(s)
    <3>1. UNCHANGED <<written, pos, chan, bpc, batch, cursors, disk, delivered, refused, skipped,
                      agent>>
      BY <2>1 DEF HandleDrops, Exits, PauseEnds, journalVars, batcherVars, mainVars
    <3>2. pc' \in [Sources -> {"spawn", "read", "pause", "returned"}]
      BY <2>1 DEF HandleDrops, Exits, PauseEnds, JournalInv, JournalTypeOK
    <3>3. JournalTypeOK'
      BY <3>1, <3>2 DEF JournalInv, JournalTypeOK
    <3> QED
      BY <3>1, <3>3, StillInv
  <2> QED
    BY <1>2, <2>1, SpawnInv, SkipInv, HandleInv DEF StreamStep
<1>3. CASE Receive \/ Deliver \/ Refuse \/ AdvanceCursor \/ Restart
  BY <1>3, ReceiveInv, DeliverInv, RefuseInv, AckInv, RestartInv
<1>4. CASE Flush \/ Stop \/ CloseMsgs \/ Exit \/ Crash \/ UNCHANGED jvars
  <2>1. /\ UNCHANGED <<written, pc, pos, chan, bpc, batch, cursors, delivered, refused, skipped>>
        /\ disk' \in {disk, cursors}
        /\ agent' \in {agent, "stop", "closed", "exited", "crashed"}
    BY <1>4 DEF Flush, Stop, CloseMsgs, Exit, Crash, jvars, journalVars, streamVars,
                batcherVars, mainVars
  <2>2. JournalTypeOK'
    BY <2>1 DEF JournalInv, JournalTypeOK
  <2> QED
    BY <2>1, <2>2, StillInv
<1> QED
  BY <1>1, <1>2, <1>3, <1>4 DEF JournalNext

\* The cursors leave no gap, in memory and on disk, whatever journalctl, the
\* intake, crashes and restarts do, if no two sources share an id
\* (journald_linux.go:22-25, "at-least-once").
THEOREM CursorsLeaveNoGap ==
  ASSUME OwnIds
  PROVE  JournalSpec => []NoGap
<1>1. ASSUME JournalInv, [JournalNext]_jvars PROVE JournalInv'
  BY <1>1, JournalStep
<1>2. JournalInv => NoGap
  BY DEF JournalInv
<1> QED
  BY <1>1, <1>2, InitJournal, PTL DEF JournalSpec

----------------------------------------------------------------------------
(* The journals implement LogDelivery.                                     *)

\* A journal that has a cursor on disk has one in memory, as the cursors that
\* are stored are entries; and the entries of a journal are given.
StartInv ==
  /\ \A j \in Journals :
       /\ written[j] <= Len(Entry[j])
       /\ cursors[j] = NoCursor => disk[j] = NoCursor
  /\ \A k \in 1..Len(batch) : batch[k].entry >= 1
  /\ \A k \in 1..Len(chan) : chan[k].entry >= 1

LEMMA StartStep ==
  ASSUME JournalInv, StartInv, [JournalNext]_jvars
  PROVE  StartInv'
<1>1. /\ written \in [Journals -> Nat] /\ cursors \in [Journals -> Nat] /\ disk \in [Journals -> Nat]
      /\ chan \in Seq(Message) /\ batch \in Seq(Message) /\ pos \in [Sources -> Nat]
      /\ bpc = "ack" => batch # <<>>
  BY DEF JournalInv, JournalTypeOK, BoundInv
<1>2. CASE \E j \in Journals : Write(j)
  <2>1. PICK j \in Journals : Write(j)
    BY <1>2
  <2>2. /\ written[j] < Len(Entry[j]) /\ written' = [written EXCEPT ![j] = @ + 1]
        /\ UNCHANGED <<cursors, disk, batch, chan>>
    BY <2>1 DEF Write, batcherVars
  <2>3. ASSUME NEW i \in Journals PROVE written'[i] <= Len(Entry[i])
    <3>1. Len(Entry[i]) \in Nat /\ Len(Entry[j]) \in Nat
      BY EntryAssumption
    <3> QED
      BY <1>1, <2>2, <3>1 DEF StartInv
  <2> QED
    BY <2>2, <2>3 DEF StartInv
<1>3. ASSUME NEW s \in Sources, Handle(s) PROVE StartInv'
  <2>1. /\ chan' = Append(chan, [src |-> s, entry |-> pos[s] + 1])
        /\ UNCHANGED <<written, cursors, disk, batch>>
    BY <1>3 DEF Handle, journalVars, batcherVars
  <2>2. \A k \in 1..Len(chan') : chan'[k].entry >= 1
    BY <1>1, <2>1 DEF StartInv
  <2> QED
    BY <2>1, <2>2 DEF StartInv
<1>4. ASSUME NEW s \in Sources,
             Spawn(s) \/ Skip(s) \/ HandleDrops(s) \/ Exits(s) \/ PauseEnds(s)
      PROVE  StartInv'
  <2>1. UNCHANGED <<written, cursors, disk, batch, chan>>
    BY <1>4 DEF Spawn, Skip, HandleDrops, Exits, PauseEnds, journalVars, batcherVars
  <2> QED
    BY <2>1 DEF StartInv
<1>5. CASE Receive
  <2>1. /\ chan # <<>> /\ batch' = Append(batch, Head(chan)) /\ chan' = Tail(chan)
        /\ UNCHANGED <<written, cursors, disk>>
    BY <1>5 DEF Receive, journalVars
  <2>2. Head(chan) \in Message /\ Head(chan).entry >= 1
    BY <1>1, <2>1 DEF StartInv
  <2>3. \A k \in 1..Len(batch') : batch'[k].entry >= 1
    BY <1>1, <2>1, <2>2 DEF StartInv
  <2>4. \A k \in 1..Len(chan') : chan'[k].entry >= 1
    BY <1>1, <2>1 DEF StartInv
  <2> QED
    BY <2>1, <2>3, <2>4 DEF StartInv
<1>6. CASE Deliver \/ Refuse \/ Flush \/ Stop \/ CloseMsgs \/ Exit \/ Crash \/ UNCHANGED jvars
  <2>1. /\ UNCHANGED <<written, cursors, chan>>
        /\ batch' \in {batch, <<>>} /\ disk' \in {disk, cursors}
    BY <1>6 DEF Deliver, Refuse, Flush, Stop, CloseMsgs, Exit, Crash, jvars, journalVars,
                streamVars, batcherVars, mainVars
  <2> QED
    BY <2>1 DEF StartInv
<1>7. CASE AdvanceCursor
  <2>1. /\ bpc = "ack" /\ batch' = Tail(batch)
        /\ cursors' = [cursors EXCEPT ![journaldID(Head(batch).src)] = Head(batch).entry]
        /\ UNCHANGED <<written, disk, chan>>
    BY <1>7 DEF AdvanceCursor, journalVars
  <2>2. batch # <<>> /\ Head(batch) \in Message /\ Head(batch).entry >= 1
    BY <1>1, <2>1 DEF StartInv
  <2>3. \A k \in 1..Len(batch') : batch'[k].entry >= 1
    BY <1>1, <2>1, <2>2 DEF StartInv
  <2>4. \A i \in Journals : cursors'[i] = cursors[i] \/ cursors'[i] >= 1
    BY <1>1, <2>1, <2>2
  <2>5. \A i \in Journals : cursors'[i] = NoCursor => disk'[i] = NoCursor
    BY <1>1, <2>1, <2>4 DEF StartInv, NoCursor
  <2> QED
    BY <2>1, <2>3, <2>5 DEF StartInv
<1>8. CASE Restart
  BY <1>8 DEF Restart, journalVars, StartInv
<1> QED
  BY <1>2, <1>3, <1>4, <1>5, <1>6, <1>7, <1>8 DEF JournalNext, StreamStep

\* The state of LogDelivery that a state of the journals stands for.
JWritten == [s \in Sources |-> written[journaldID(s)]]
JDurable ==
  [s \in Sources |-> IF disk[journaldID(s)] = NoCursor THEN -1 ELSE disk[journaldID(s)]]

\* An entry that is there and that its source does not want is left out.
LEMMA LeftOut ==
  ASSUME JournalTypeOK, StartInv, NEW s \in Sources
  PROVE  /\ written[journaldID(s)] \in 0..MaxEntries
         /\ 1..written[journaldID(s)] \subseteq WantedOf(s) \cup Unwanted[s]
         /\ Delivery!Settled(s) = Settled(s) \cup Unwanted[s]
<1>1. /\ journaldID(s) \in Journals /\ written[journaldID(s)] \in Nat
      /\ written[journaldID(s)] <= Len(Entry[journaldID(s)])
  BY WantedFacts DEF StartInv
<1>2. Len(Entry[journaldID(s)]) \in 0..MaxEntries /\ MaxEntries \in Nat
  BY <1>1, EntryAssumption
<1>3. written[journaldID(s)] \in 0..MaxEntries
  BY <1>1, <1>2
<1>4. 1..written[journaldID(s)] \subseteq WantedOf(s) \cup Unwanted[s]
  BY <1>2, <1>3 DEF WantedOf, Unwanted
<1>5. Delivery!Settled(s) = Settled(s) \cup Unwanted[s]
  BY DEF Delivery!Settled, Settled
<1> QED
  BY <1>3, <1>4, <1>5

\* The entries of the batch may be settled as a whole: what comes before one of
\* them is settled or in front of it, in the batch.
LEMMA EntriesInOrder ==
  ASSUME JournalInv, StartInv
  PROVE  LET S == [s \in Sources |-> EntriesOf(batch, s)]
         IN S \in Delivery!Lines /\ Delivery!InOrder(S)
<1> DEFINE S == [s \in Sources |-> EntriesOf(batch, s)]
<1>1. JournalTypeOK /\ batch \in Seq(Message) /\ chan \in Seq(Message) /\ MaxEntries \in Nat
  BY EntryAssumption DEF JournalInv, JournalTypeOK
<1>2. ASSUME NEW s \in Sources, NEW n \in EntriesOf(batch, s)
      PROVE  /\ n \in 1..written[journaldID(s)] /\ written[journaldID(s)] \in 0..MaxEntries
             /\ 1..n \subseteq Delivery!Settled(s) \cup EntriesOf(batch, s)
  <2>1. PICK k \in DOMAIN batch : batch[k].src = s /\ batch[k].entry = n
    BY <1>2 DEF EntriesOf
  <2>2. /\ k \in 1..Len(batch) /\ k \in 1..Len(Queue) /\ Queue[k] = batch[k]
        /\ Len(batch) \in Nat /\ \A h \in 1..Len(batch) : Queue[h] = batch[h]
    BY <1>1, <2>1, QueueFacts DEF Queue
  <2>3. n \in 1..written[journaldID(s)]
    <3>1. batch[k] \in Message /\ batch[k].entry >= 1
      BY <1>1, <2>2 DEF StartInv
    <3>4. batch[k].entry \in Nat
      BY <3>1 DEF Message
    <3>2. Queue[k].entry <= written[journaldID(Queue[k].src)]
      BY <2>2 DEF JournalInv, BoundInv
    <3>3. written[journaldID(s)] \in Nat
      BY <1>1, WantedFacts
    <3> QED
      BY <2>1, <2>2, <3>1, <3>2, <3>3, <3>4
  <2>4. ASSUME NEW m \in 1..n PROVE m \in Delivery!Settled(s) \cup EntriesOf(batch, s)
    <3>1. CASE m = n
      BY <1>2, <3>1
    <3>2. CASE m # n /\ m \in WantedOf(s)
      <4>1. m < n
        BY <2>3, <3>2
      <4>2. m \in Settled(s) \/ Ahead(s, m, k)
        BY <2>1, <2>2, <3>2, <4>1 DEF JournalInv, QueueInv
      <4>3. Ahead(s, m, k) => m \in EntriesOf(batch, s)
        <5>1. SUFFICES ASSUME Ahead(s, m, k) PROVE m \in EntriesOf(batch, s)
          OBVIOUS
        <5>2. PICK h \in 1..(k - 1) : Queue[h].src = s /\ Queue[h].entry = m
          BY <5>1 DEF Ahead
        <5>3. h \in DOMAIN batch /\ batch[h].src = s /\ batch[h].entry = m
          BY <1>1, <2>2, <5>2
        <5> QED
          BY <5>3 DEF EntriesOf
      <4> QED
        BY <1>1, <4>2, <4>3, LeftOut
    <3>3. CASE m \notin WantedOf(s)
      <4>1. m \in 1..written[journaldID(s)]
        BY <2>3, <1>1, WantedFacts
      <4> QED
        BY <1>1, <3>3, <4>1, LeftOut
    <3> QED
      BY <3>1, <3>2, <3>3
  <2> QED
    BY <1>1, <2>3, <2>4, LeftOut
<1>3. S \in Delivery!Lines
  <2>1. \A s \in Sources : EntriesOf(batch, s) \subseteq 1..MaxEntries
    BY <1>1, <1>2
  <2> QED
    BY <2>1 DEF Delivery!Lines
<1>4. Delivery!InOrder(S)
  BY <1>2 DEF Delivery!InOrder
<1> QED
  BY <1>3, <1>4

LEMMA DeliveryInit == JournalInit => Delivery!Init
BY DEF JournalInit, Delivery!Init, Delivery!NoEntry, Journals

LEMMA DeliveryStep ==
  ASSUME OwnIds, JournalInv, StartInv, [JournalNext]_jvars
  PROVE  [Delivery!Next]_(Delivery!vars)
<1> SUFFICES Delivery!Next \/ UNCHANGED <<JWritten, delivered, refused, skipped, JDurable>>
  BY DEF Delivery!vars, JWritten, JDurable
<1> DEFINE S == [s \in Sources |-> EntriesOf(batch, s)]
<1>1. /\ written \in [Journals -> Nat] /\ cursors \in [Journals -> Nat] /\ disk \in [Journals -> Nat]
      /\ skipped \in [Sources -> SUBSET Nat] /\ MaxEntries \in Nat /\ JournalTypeOK
      /\ \A s \in Sources : journaldID(s) \in Journals
  BY EntryAssumption DEF JournalInv, JournalTypeOK, Journals
<1>2. S \in Delivery!Lines /\ Delivery!InOrder(S)
  BY EntriesInOrder
<1>3. CASE \E j \in Journals : Write(j)
  <2>1. PICK s \in Sources : Write(journaldID(s))
    BY <1>3 DEF Journals
  <2>2. /\ written[journaldID(s)] < Len(Entry[journaldID(s)])
        /\ written' = [written EXCEPT ![journaldID(s)] = @ + 1]
        /\ UNCHANGED <<delivered, refused, skipped, disk>>
    BY <2>1 DEF Write
  <2>3. JWritten[s] < MaxEntries
    <3>1. Len(Entry[journaldID(s)]) \in 0..MaxEntries
      BY <1>1, EntryAssumption
    <3> QED
      BY <1>1, <2>2, <3>1 DEF JWritten
  <2>4. JWritten' = [JWritten EXCEPT ![s] = @ + 1]
    BY <1>1, <2>2 DEF JWritten, OwnIds
  <2>5. Delivery!Write(s)
    BY <2>2, <2>3, <2>4 DEF Delivery!Write, JWritten
  <2> QED
    BY <2>5 DEF Delivery!Next
<1>4. ASSUME NEW s \in Sources, Spawn(s)
      PROVE  Delivery!Next \/ UNCHANGED <<JWritten, delivered, refused, skipped, JDurable>>
  <2> DEFINE id == journaldID(s)
             atEnd == cursors[id] = NoCursor /\ Config[s].startPosition = "end"
  <2>1. /\ skipped' = [skipped EXCEPT ![s] = IF atEnd THEN @ \cup 1..written[id] ELSE @]
        /\ UNCHANGED <<written, delivered, refused, disk>>
    BY <1>4 DEF Spawn
  <2>2. CASE atEnd
    <3>1. disk[id] = NoCursor
      BY <1>1, <2>2 DEF StartInv
    <3>2. Delivery!StartAtEnd(s)
      BY <2>1, <2>2, <3>1 DEF Delivery!StartAtEnd, Delivery!NoEntry
    <3> QED
      BY <3>2 DEF Delivery!Next
  <2>3. CASE ~atEnd
    BY <1>1, <2>1, <2>3 DEF JWritten, JDurable
  <2> QED
    BY <2>2, <2>3
<1>5. CASE Deliver
  <2>1. /\ delivered' = [s \in Sources |-> delivered[s] \cup EntriesOf(batch, s)]
        /\ UNCHANGED <<written, refused, skipped, disk>>
    BY <1>5 DEF Deliver
  <2>2. Delivery!Deliver(S)
    BY <1>2, <2>1 DEF Delivery!Deliver
  <2> QED
    BY <1>2, <2>2 DEF Delivery!Next
<1>6. CASE Refuse
  <2>1. /\ refused' = [s \in Sources |-> refused[s] \cup EntriesOf(batch, s)]
        /\ UNCHANGED <<written, delivered, skipped, disk>>
    BY <1>6 DEF Refuse
  <2>2. Delivery!Refuse(S)
    BY <1>2, <2>1 DEF Delivery!Refuse
  <2> QED
    BY <1>2, <2>2 DEF Delivery!Next
<1>7. CASE Flush \/ Exit
  <2>1. disk' = cursors /\ UNCHANGED <<written, delivered, refused, skipped>>
    BY <1>7 DEF Flush, Exit, journalVars
  <2> DEFINE p == [s \in Sources |->
                     IF cursors[journaldID(s)] = NoCursor THEN -1 ELSE cursors[journaldID(s)]]
  <2>2. JDurable' = p
    BY <2>1 DEF JDurable
  <2>3. ASSUME NEW s \in Sources
        PROVE  /\ p[s] \in Delivery!NoEntry..MaxEntries
               /\ JDurable[s] <= p[s] \/ p[s] # Delivery!NoEntry
               /\ 1..p[s] \subseteq Delivery!Settled(s)
    <3>1. /\ cursors[journaldID(s)] \in Nat /\ cursors[journaldID(s)] <= written[journaldID(s)]
          /\ written[journaldID(s)] \in 0..MaxEntries
      BY <1>1, LeftOut DEF JournalInv, BoundInv
    <3>2. p[s] = IF cursors[journaldID(s)] = 0 THEN -1 ELSE cursors[journaldID(s)]
      BY DEF NoCursor
    <3>3. p[s] \in Delivery!NoEntry..MaxEntries
      BY <1>1, <3>1, <3>2 DEF Delivery!NoEntry
    <3>4. JDurable[s] <= p[s] \/ p[s] # Delivery!NoEntry
      BY <1>1, <3>1, <3>2 DEF StartInv, JDurable, Delivery!NoEntry, NoCursor
    <3>5. ASSUME NEW n \in 1..p[s] PROVE n \in Delivery!Settled(s)
      <4>1. n \in 1..written[journaldID(s)] /\ n <= cursors[journaldID(s)]
        BY <3>1, <3>2
      <4>2. n \in WantedOf(s) => n \in Settled(s)
        BY <4>1 DEF JournalInv, NoGap
      <4> QED
        BY <1>1, <4>1, <4>2, LeftOut
    <3> QED
      BY <3>3, <3>4, <3>5
  <2> HIDE DEF p
  <2>4. Delivery!Persist(p)
    BY <2>1, <2>2, <2>3 DEF Delivery!Persist, JDurable
  <2>5. p \in [Sources -> Delivery!NoEntry..MaxEntries]
    BY <2>3 DEF p
  <2> QED
    BY <2>4, <2>5 DEF Delivery!Next
<1>8. ASSUME \/ \E s \in Sources :
                  Skip(s) \/ Handle(s) \/ HandleDrops(s) \/ Exits(s) \/ PauseEnds(s)
             \/ Receive \/ AdvanceCursor \/ Stop \/ CloseMsgs \/ Crash \/ Restart
             \/ UNCHANGED jvars
      PROVE  UNCHANGED <<JWritten, delivered, refused, skipped, JDurable>>
  <2>1. UNCHANGED <<written, delivered, refused, skipped, disk>>
    BY <1>8 DEF Skip, Handle, HandleDrops, Exits, PauseEnds, Receive, AdvanceCursor, Stop,
                CloseMsgs, Crash, Restart, jvars, journalVars
  <2> QED
    BY <2>1 DEF JWritten, JDurable
<1> QED
  BY <1>3, <1>4, <1>5, <1>6, <1>7, <1>8 DEF JournalNext, StreamStep

\* The journals keep the contract of the files but for a cursor that may move
\* back: entries settled in order per source, no cursor on disk past one that is
\* not, no second start at the end (journald_linux.go:22-25, registry.go:119-121).
THEOREM JournalsDeliver ==
  ASSUME OwnIds
  PROVE  JournalSpec => JournalDelivers
<1>1. JournalInit => JournalInv /\ StartInv
  <2>1. ASSUME JournalInit PROVE StartInv
    <3>1. \A j \in Journals : Len(Entry[j]) \in Nat
      BY EntryAssumption
    <3> QED
      BY <2>1, <3>1 DEF JournalInit, StartInv
  <2> QED
    BY <2>1, InitJournal
<1>2. JournalInv /\ StartInv /\ [JournalNext]_jvars => (JournalInv /\ StartInv)'
  BY JournalStep, StartStep
<1>3. JournalInv /\ StartInv /\ [JournalNext]_jvars => [Delivery!Next]_(Delivery!vars)
  BY DeliveryStep
<1> QED
  BY <1>1, <1>2, <1>3, DeliveryInit, PTL DEF JournalSpec, JournalDelivers, Delivery!Spec
=============================================================================
