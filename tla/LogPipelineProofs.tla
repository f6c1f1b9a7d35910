------------------------- MODULE LogPipelineProofs -------------------------
(***************************************************************************)
(* Theorems about LogPipeline for every set of files, line sizes, channel  *)
(* capacity and batch limits, with the induction they rest on.             *)
(***************************************************************************)
EXTENDS LogPipeline, SequenceTheorems, TLAPS

----------------------------------------------------------------------------
(* The queues: what appending, receiving and concatenating do to the set   *)
(* of lines in a queue and to its order.                                   *)

LEMMA InLinesOf ==
  ASSUME NEW q \in Seq(Message), NEW s, NEW n
  PROVE  n \in LinesOf(q, s) <=> \E i \in DOMAIN q : q[i].src = s /\ q[i].off = n
  BY DEF LinesOf

LEMMA LinesOfEmpty ==
  ASSUME NEW s
  PROVE  LinesOf(<<>>, s) = {}
  BY DEF LinesOf

LEMMA LinesOfType ==
  ASSUME NEW q \in Seq(Message), NEW s
  PROVE  LinesOf(q, s) \subseteq 1..MaxLines
<1>1. ASSUME NEW n \in LinesOf(q, s) PROVE n \in 1..MaxLines
  <2>1. PICK i \in DOMAIN q : q[i].off = n
    BY <1>1, InLinesOf
  <2>2. q[i] \in Message
    OBVIOUS
  <2>3. QED BY <2>1, <2>2 DEF Message
<1>2. QED BY <1>1

LEMMA SingletonLines ==
  ASSUME NEW m \in Message, NEW s
  PROVE  LinesOf(<<m>>, s) = IF m.src = s THEN {m.off} ELSE {}
<1> DEFINE q == <<m>>
<1>1. q \in Seq(Message) /\ DOMAIN q = {1} /\ q[1] = m
  OBVIOUS
<1> HIDE DEF q
<1>2. ASSUME NEW n PROVE n \in LinesOf(q, s) <=> m.src = s /\ m.off = n
  BY <1>1, InLinesOf
<1>3. LinesOf(q, s) = IF m.src = s THEN {m.off} ELSE {}
  BY <1>2
<1>4. QED BY <1>3 DEF q

LEMMA AppendLines ==
  ASSUME NEW q \in Seq(Message), NEW m \in Message, NEW s
  PROVE  LinesOf(Append(q, m), s) = LinesOf(q, s) \cup LinesOf(<<m>>, s)
<1> DEFINE r == Append(q, m)
<1>1. /\ r \in Seq(Message) /\ DOMAIN r = 1..Len(q) + 1 /\ DOMAIN q = 1..Len(q)
      /\ Len(q) \in Nat /\ r[Len(q) + 1] = m /\ \A i \in 1..Len(q) : r[i] = q[i]
  OBVIOUS
<1>2. ASSUME NEW n PROVE n \in LinesOf(<<m>>, s) <=> m.src = s /\ m.off = n
  BY SingletonLines
<1> HIDE DEF r
<1>3. ASSUME NEW n PROVE n \in LinesOf(r, s) <=> n \in LinesOf(q, s) \cup LinesOf(<<m>>, s)
  <2>1. n \in LinesOf(r, s) <=> \E i \in 1..Len(q) + 1 : r[i].src = s /\ r[i].off = n
    BY <1>1, InLinesOf
  <2>2. n \in LinesOf(q, s) <=> \E i \in 1..Len(q) : q[i].src = s /\ q[i].off = n
    BY <1>1, InLinesOf
  <2>3. n \in LinesOf(<<m>>, s) <=> m.src = s /\ m.off = n
    BY <1>2
  <2>4. \A i : i \in 1..Len(q) + 1 <=> i \in 1..Len(q) \/ i = Len(q) + 1
    BY <1>1
  <2>5. QED BY <1>1, <2>1, <2>2, <2>3, <2>4
<1>4. QED BY <1>3 DEF r

LEMMA HeadTailLines ==
  ASSUME NEW q \in Seq(Message), q # <<>>, NEW s
  PROVE  LinesOf(q, s) = LinesOf(<<Head(q)>>, s) \cup LinesOf(Tail(q), s)
<1> DEFINE t == Tail(q)
           m == Head(q)
<1>1. /\ t \in Seq(Message) /\ Len(q) \in Nat \ {0} /\ DOMAIN q = 1..Len(q)
      /\ DOMAIN t = 1..Len(q) - 1 /\ m = q[1] /\ m \in Message
      /\ \A i \in 1..Len(q) - 1 : t[i] = q[i + 1]
  OBVIOUS
<1> HIDE DEF t, m
<1>2. ASSUME NEW n PROVE n \in LinesOf(<<m>>, s) <=> m.src = s /\ m.off = n
  <2>1. m \in Message
    BY <1>1
  <2>2. QED BY <2>1, SingletonLines
<1>3. ASSUME NEW n PROVE n \in LinesOf(q, s) <=> n \in LinesOf(<<m>>, s) \cup LinesOf(t, s)
  <2>1. n \in LinesOf(t, s) <=> \E i \in 1..Len(q) - 1 : t[i].src = s /\ t[i].off = n
    BY <1>1, InLinesOf
  <2>2. n \in LinesOf(q, s) <=> \E i \in 1..Len(q) : q[i].src = s /\ q[i].off = n
    BY <1>1, InLinesOf
  <2>3. n \in LinesOf(<<m>>, s) <=> m.src = s /\ m.off = n
    BY <1>2
  <2>4. \A i \in 1..Len(q) : i = 1 \/ i - 1 \in 1..Len(q) - 1
    BY <1>1
  <2>5. \A i \in 1..Len(q) - 1 : i + 1 \in 1..Len(q)
    BY <1>1
  <2>6. 1 \in 1..Len(q)
    BY <1>1
  <2>7. ASSUME n \in LinesOf(q, s) PROVE n \in LinesOf(<<m>>, s) \cup LinesOf(t, s)
    <3>1. PICK i \in 1..Len(q) : q[i].src = s /\ q[i].off = n
      BY <2>2, <2>7
    <3>2. CASE i = 1
      BY <3>1, <3>2, <2>3, <1>1
    <3>3. CASE i - 1 \in 1..Len(q) - 1
      <4>1. t[i - 1] = q[i]
        BY <3>3, <1>1
      <4>2. QED BY <4>1, <3>1, <3>3, <2>1
    <3>4. QED BY <3>2, <3>3, <2>4
  <2>8. ASSUME n \in LinesOf(<<m>>, s) \cup LinesOf(t, s) PROVE n \in LinesOf(q, s)
    BY <2>8, <2>1, <2>2, <2>3, <2>5, <2>6, <1>1
  <2>9. QED BY <2>7, <2>8
<1>4. QED BY <1>3 DEF t, m

\* A message of a queue is in it with its own source and offset.
LEMMA OwnLine ==
  ASSUME NEW q \in Seq(Message), NEW i \in DOMAIN q
  PROVE  q[i].off \in LinesOf(q, q[i].src)
  BY InLinesOf

LEMMA OrderedAppend ==
  ASSUME NEW q \in Seq(Message), NEW m \in Message, Ordered(q), Before(q, <<m>>)
  PROVE  Ordered(Append(q, m))
<1> DEFINE r == Append(q, m)
<1>1. /\ DOMAIN r = 1..Len(q) + 1 /\ DOMAIN q = 1..Len(q)
      /\ Len(q) \in Nat /\ r[Len(q) + 1] = m /\ \A i \in 1..Len(q) : r[i] = q[i]
  OBVIOUS
<1>2. \A i \in 1..Len(q) : q[i].src = m.src => q[i].off < m.off
  BY <1>1 DEF Before
<1>3. QED BY <1>1, <1>2 DEF Ordered

LEMMA BeforeAppendLeft ==
  ASSUME NEW q \in Seq(Message), NEW m \in Message, NEW p \in Seq(Message),
         Before(q, p), Before(<<m>>, p)
  PROVE  Before(Append(q, m), p)
<1> DEFINE r == Append(q, m)
<1>1. /\ DOMAIN r = 1..Len(q) + 1 /\ DOMAIN q = 1..Len(q)
      /\ Len(q) \in Nat /\ r[Len(q) + 1] = m /\ \A i \in 1..Len(q) : r[i] = q[i]
  OBVIOUS
<1>2. \A j \in DOMAIN p : m.src = p[j].src => m.off < p[j].off
  BY DEF Before
<1>3. QED BY <1>1, <1>2 DEF Before

LEMMA BeforeAppendRight ==
  ASSUME NEW q \in Seq(Message), NEW m \in Message, NEW p \in Seq(Message),
         Before(p, q), Before(p, <<m>>)
  PROVE  Before(p, Append(q, m))
<1> DEFINE r == Append(q, m)
<1>1. /\ DOMAIN r = 1..Len(q) + 1 /\ DOMAIN q = 1..Len(q)
      /\ Len(q) \in Nat /\ r[Len(q) + 1] = m /\ \A i \in 1..Len(q) : r[i] = q[i]
  OBVIOUS
<1>2. \A i \in DOMAIN p : p[i].src = m.src => p[i].off < m.off
  BY DEF Before
<1>3. QED BY <1>1, <1>2 DEF Before

LEMMA TailOrder ==
  ASSUME NEW q \in Seq(Message), q # <<>>, Ordered(q), NEW p \in Seq(Message)
  PROVE  /\ Ordered(Tail(q))
         /\ Before(<<Head(q)>>, Tail(q))
         /\ Before(p, q) => Before(p, Tail(q)) /\ Before(p, <<Head(q)>>)
<1> DEFINE t == Tail(q)
<1>1. /\ Len(q) \in Nat \ {0} /\ DOMAIN q = 1..Len(q)
      /\ DOMAIN t = 1..Len(q) - 1 /\ Head(q) = q[1]
      /\ \A i \in 1..Len(q) - 1 : t[i] = q[i + 1]
  OBVIOUS
<1>2. \A i \in 1..Len(q) - 1 : i + 1 \in 1..Len(q) /\ 1 < i + 1
  BY <1>1
<1>3. 1 \in 1..Len(q)
  BY <1>1
<1>4. Ordered(t)
  BY <1>1, <1>2 DEF Ordered
<1>5. Before(<<Head(q)>>, t)
  BY <1>1, <1>2, <1>3 DEF Ordered, Before
<1>6. Before(p, q) => Before(p, t) /\ Before(p, <<Head(q)>>)
  BY <1>1, <1>2, <1>3 DEF Before
<1>7. QED BY <1>4, <1>5, <1>6

----------------------------------------------------------------------------
(* The inductive invariant, one lemma per action.                          *)

\* Steps that leave the queues alone leave their order and lines alone.
LEMMA SameQueues ==
  ASSUME UNCHANGED <<batch, held, chan>>
  PROVE  /\ PipeOrdered' <=> PipeOrdered
         /\ \A s : /\ LinesOf(batch, s)' = LinesOf(batch, s)
                  /\ LinesOf(held, s)' = LinesOf(held, s)
                  /\ LinesOf(chan, s)' = LinesOf(chan, s)
                  /\ InFlight(s)' = InFlight(s)
  BY DEF PipeOrdered, Ordered, Before, InFlight, LinesOf

LEMMA InitInv == Init => IInv
<1> SUFFICES ASSUME Init PROVE IInv
  OBVIOUS
<1> USE MaxLinesAssumption, MaxSizeAssumption, MaxRestartsAssumption
<1>1. TypeOK
  <2>1. NoEntry \in NoEntry..MaxLines /\ 0 \in 0..MaxLines /\ 0 \in 0..MaxRestarts
    BY DEF NoEntry
  <2>2. <<>> \in Seq(Message)
    OBVIOUS
  <2>3. QED BY <2>1, <2>2 DEF Init, TypeOK
<1>2. PipeOrdered
  BY DEF Init, PipeOrdered, Ordered, Before
<1>3. Covered
  <2>1. \A s : InFlight(s) = {}
    BY LinesOfEmpty DEF Init, InFlight
  <2> SUFFICES ASSUME NEW s \in Sources
               PROVE  /\ InFlight(s) \subseteq 1..toff[s]
                      /\ toff[s] <= written[s]
                      /\ tpc[s] = "open" /\ toff[s] = 0
    BY DEF Covered
  <2>2. toff[s] = 0 /\ written[s] = 0 /\ tpc[s] = "open"
    BY DEF Init
  <2>3. QED BY <2>1, <2>2
<1>4. Chain
  <2> SUFFICES ASSUME NEW s \in Sources
               PROVE  /\ disk[s] <= snap[s] /\ snap[s] <= mem[s] /\ mem[s] <= written[s]
                      /\ 1..mem[s] \subseteq Settled(s)
                      /\ tpc[s] = "open"
                      /\ DOMAIN batch = {}
                      /\ LinesOf(held, s) \cup LinesOf(chan, s) = {}
    BY DEF Chain
  <2>1. mem[s] = -1 /\ snap[s] = -1 /\ disk[s] = -1 /\ written[s] = 0
    BY DEF Init, NoEntry
  <2>2. 1..mem[s] = {}
    BY <2>1
  <2>3. QED BY <2>1, <2>2, LinesOfEmpty DEF Init
<1>5. BatcherInv
  BY DEF Init, BatcherInv
<1>6. ShutdownInv
  BY DEF Init, ShutdownInv
<1>7. QED BY <1>1, <1>2, <1>3, <1>4, <1>5, <1>6 DEF IInv

LEMMA StutterStep == IInv /\ UNCHANGED vars => IInv'
<1> SUFFICES ASSUME IInv, UNCHANGED vars PROVE IInv'
  OBVIOUS
<1> USE DEF IInv, vars, fileVars, tailerVars, batcherVars, registryVars, mainVars
<1>1. TypeOK'
  BY DEF TypeOK
<1>2. PipeOrdered'
  BY SameQueues
<1>3. Covered'
  BY SameQueues DEF Covered, Settled
<1>4. Chain'
  BY SameQueues DEF Chain, Settled
<1>5. BatcherInv'
  BY SameQueues DEF BatcherInv
<1>6. ShutdownInv'
  BY DEF ShutdownInv
<1>7. QED BY <1>1, <1>2, <1>3, <1>4, <1>5, <1>6

LEMMA CrashStep == IInv /\ Crash => IInv'
<1> SUFFICES ASSUME IInv, Crash PROVE IInv'
  OBVIOUS
<1> USE DEF IInv, Crash, fileVars, tailerVars, batcherVars, registryVars
<1>1. TypeOK'
  BY DEF TypeOK
<1>2. PipeOrdered'
  BY SameQueues
<1>3. Covered'
  BY SameQueues DEF Covered, Settled
<1>4. Chain'
  BY SameQueues DEF Chain, Settled
<1>5. BatcherInv'
  BY SameQueues DEF BatcherInv
<1>6. ShutdownInv'
  BY DEF ShutdownInv
<1>7. QED BY <1>1, <1>2, <1>3, <1>4, <1>5, <1>6

LEMMA RestartStep == IInv /\ Restart => IInv'
<1> SUFFICES ASSUME IInv, Restart PROVE IInv'
  OBVIOUS
<1> USE MaxLinesAssumption, MaxSizeAssumption, MaxRestartsAssumption
<1> USE DEF IInv, Restart, fileVars
<1>1. TypeOK'
  <2>1. <<>> \in Seq(Message) /\ 0 \in 0..MaxLines
    OBVIOUS
  <2>2. restarts' \in 0..MaxRestarts
    BY DEF TypeOK
  <2>3. QED BY <2>1, <2>2 DEF TypeOK
<1>2. PipeOrdered'
  BY DEF PipeOrdered, Ordered, Before
<1>3. Covered'
  BY LinesOfEmpty DEF Covered, InFlight, TypeOK
<1>4. Chain'
  <2> SUFFICES ASSUME NEW s \in Sources
               PROVE  disk[s] <= written[s] /\ 1..disk[s] \subseteq Settled(s)
    BY LinesOfEmpty DEF Chain, Settled, TypeOK, NoEntry
  <2>1. disk[s] \in Int /\ mem[s] \in Int /\ snap[s] \in Int /\ written[s] \in Int
    BY DEF TypeOK, NoEntry
  <2>2. disk[s] <= mem[s] /\ mem[s] <= written[s] /\ 1..mem[s] \subseteq Settled(s)
    BY <2>1 DEF Chain
  <2>3. QED BY <2>1, <2>2
<1>5. BatcherInv'
  BY DEF BatcherInv
<1>6. ShutdownInv'
  BY DEF ShutdownInv
<1>7. QED BY <1>1, <1>2, <1>3, <1>4, <1>5, <1>6

LEMMA WriteStep == ASSUME NEW s \in Sources PROVE IInv /\ Write(s) => IInv'
<1> SUFFICES ASSUME IInv, Write(s) PROVE IInv'
  OBVIOUS
<1> USE MaxLinesAssumption
<1> USE DEF IInv, Write, tailerVars, batcherVars, registryVars, mainVars
<1>1. TypeOK'
  <2>1. written' \in [Sources -> 0..MaxLines]
    BY DEF TypeOK
  <2>2. QED BY <2>1 DEF TypeOK
<1>2. PipeOrdered'
  BY SameQueues
<1>3. \A u \in Sources : written[u] \in Nat /\ written'[u] \in Nat /\ written[u] <= written'[u]
  BY DEF TypeOK
<1>4. Covered'
  <2> SUFFICES ASSUME NEW u \in Sources PROVE toff[u] <= written'[u]
    BY SameQueues DEF Covered, Settled
  <2>1. toff[u] \in Int /\ toff[u] <= written[u]
    BY DEF TypeOK, Covered
  <2>2. QED BY <2>1, <1>3
<1>5. Chain'
  <2> SUFFICES ASSUME NEW u \in Sources PROVE mem[u] <= written'[u]
    BY SameQueues DEF Chain, Settled
  <2>1. mem[u] \in Int /\ mem[u] <= written[u]
    BY DEF TypeOK, Chain, NoEntry
  <2>2. QED BY <2>1, <1>3
<1>6. BatcherInv'
  BY SameQueues DEF BatcherInv
<1>7. ShutdownInv'
  BY DEF ShutdownInv
<1>8. QED BY <1>1, <1>2, <1>4, <1>5, <1>6, <1>7

LEMMA TailerOpenStep == ASSUME NEW s \in Sources PROVE IInv /\ TailerOpen(s) => IInv'
<1> SUFFICES ASSUME IInv, TailerOpen(s) PROVE IInv'
  OBVIOUS
<1> USE MaxLinesAssumption
<1> USE DEF IInv, TailerOpen, batcherVars, registryVars, mainVars
<1>1. /\ mem[s] \in NoEntry..MaxLines /\ written[s] \in 0..MaxLines /\ mem[s] <= written[s]
      /\ 1..mem[s] \subseteq Settled(s) /\ InFlight(s) \subseteq 1..0
  BY DEF TypeOK, Chain, Covered
<1> DEFINE from == toff'[s]
<1>2. /\ from \in 0..written[s] /\ mem[s] <= from
      /\ 1..from \subseteq 1..mem[s] \cup (skipped'[s])
      /\ toff' = [toff EXCEPT ![s] = from]
  BY <1>1 DEF TypeOK, NoEntry
<1>3. \A u \in Sources : Settled(u) \subseteq Settled(u)'
  BY DEF Settled, TypeOK
<1>4. TypeOK'
  <2>1. toff' \in [Sources -> 0..MaxLines]
    BY <1>1, <1>2 DEF TypeOK
  <2>2. tpc' \in [Sources -> {"open", "read", "sleep", "stopped"}]
    BY DEF TypeOK
  <2>3. skipped' \in [Sources -> SUBSET (1..MaxLines)]
    <3>1. 1..written[s] \subseteq 1..MaxLines
      BY <1>1
    <3>2. QED BY <3>1 DEF TypeOK
  <2>4. QED BY <2>1, <2>2, <2>3 DEF TypeOK
<1>5. PipeOrdered'
  BY SameQueues
<1>6. Covered'
  <2> SUFFICES ASSUME NEW u \in Sources
               PROVE  /\ InFlight(u) \subseteq 1..toff'[u]
                      /\ toff'[u] <= written[u]
                      /\ IF tpc'[u] = "open" THEN toff'[u] = 0
                         ELSE 1..toff'[u] \subseteq Settled(u)' \cup InFlight(u)
    BY SameQueues DEF Covered
  <2>1. CASE u = s
    <3>1. tpc'[s] = "read" /\ skipped'[s] \subseteq Settled(s)'
      BY DEF TypeOK, Settled
    <3>2. 1..from \subseteq Settled(s)'
      BY <1>1, <1>2, <1>3, <3>1
    <3>3. InFlight(s) = {}
      BY <1>1
    <3>4. QED BY <2>1, <1>2, <1>1, <3>1, <3>2, <3>3
  <2>2. CASE u # s
    <3>1. toff'[u] = toff[u] /\ tpc'[u] = tpc[u]
      BY <2>2 DEF TypeOK
    <3>2. QED BY <3>1, <1>3 DEF Covered
  <2>3. QED BY <2>1, <2>2
<1>7. Chain'
  <2> SUFFICES ASSUME NEW u \in Sources
               PROVE  /\ 1..mem[u] \subseteq Settled(u)'
                      /\ tpc'[u] # "open" => mem[u] <= toff'[u]
    BY SameQueues DEF Chain
  <2>1. 1..mem[u] \subseteq Settled(u)'
    BY <1>3 DEF Chain
  <2>2. CASE u = s
    BY <2>1, <2>2, <1>2
  <2>3. CASE u # s
    <3>1. toff'[u] = toff[u] /\ tpc'[u] = tpc[u]
      BY <2>3 DEF TypeOK
    <3>2. QED BY <2>1, <3>1 DEF Chain
  <2>4. QED BY <2>2, <2>3
<1>8. BatcherInv'
  BY SameQueues DEF BatcherInv
<1>9. ShutdownInv'
  BY DEF ShutdownInv, TypeOK
<1>10. QED BY <1>4, <1>5, <1>6, <1>7, <1>8, <1>9

LEMMA TailerSendStep == ASSUME NEW s \in Sources PROVE IInv /\ TailerSend(s) => IInv'
<1> SUFFICES ASSUME IInv, TailerSend(s) PROVE IInv'
  OBVIOUS
<1> USE MaxLinesAssumption
<1> USE DEF IInv, TailerSend, fileVars, batcherVars, registryVars, mainVars
<1> DEFINE n == toff[s] + 1
           m == [src |-> s, off |-> n]
<1>1. toff[s] \in 0..MaxLines /\ written[s] \in 0..MaxLines /\ n \in 1..written[s]
  BY DEF TypeOK
<1>2. m \in Message /\ m.src = s /\ m.off = n
  BY <1>1 DEF Message
<1>3. /\ chan \in Seq(Message) /\ batch \in Seq(Message) /\ held \in Seq(Message)
      /\ chan' = Append(chan, m) /\ chan' \in Seq(Message)
  BY <1>2 DEF TypeOK
<1>4. \A u : /\ LinesOf(chan, u)' = LinesOf(chan, u) \cup (IF u = s THEN {n} ELSE {})
             /\ LinesOf(batch, u)' = LinesOf(batch, u)
             /\ LinesOf(held, u)' = LinesOf(held, u)
             /\ InFlight(u)' = InFlight(u) \cup (IF u = s THEN {n} ELSE {})
  <2> TAKE u
  <2>1. LinesOf(chan, u)' = LinesOf(chan', u)
    BY DEF LinesOf
  <2>2. LinesOf(chan', u) = LinesOf(chan, u) \cup LinesOf(<<m>>, u)
    BY <1>2, <1>3, AppendLines
  <2>3. LinesOf(<<m>>, u) = IF u = s THEN {n} ELSE {}
    BY <1>2, SingletonLines
  <2>4. LinesOf(batch, u)' = LinesOf(batch, u) /\ LinesOf(held, u)' = LinesOf(held, u)
    BY DEF LinesOf
  <2>5. QED BY <2>1, <2>2, <2>3, <2>4 DEF InFlight
<1>5. /\ toff' = [toff EXCEPT ![s] = n] /\ tpc' = tpc
      /\ \A u \in Sources : Settled(u)' = Settled(u)
  BY DEF Settled
<1>6. TypeOK'
  <2>1. toff' \in [Sources -> 0..MaxLines]
    BY <1>1, <1>5 DEF TypeOK
  <2>2. QED BY <2>1, <1>3 DEF TypeOK
<1>7. \A q \in {batch, held, chan} : Before(q, <<m>>)
  <2> SUFFICES ASSUME NEW q \in {batch, held, chan}, NEW i \in DOMAIN q, q[i].src = s
               PROVE  q[i].off < n
    BY <1>2 DEF Before
  <2>1. q[i].off \in LinesOf(q, s)
    BY <1>3, OwnLine
  <2>2. q[i].off \in InFlight(s)
    BY <2>1 DEF InFlight
  <2>3. QED BY <2>2, <1>1 DEF Covered
<1>8. PipeOrdered'
  <2>1. Ordered(chan)'
    BY <1>2, <1>3, <1>7, OrderedAppend DEF PipeOrdered, Ordered
  <2>2. Before(batch, chan') /\ Before(held, chan')
    BY <1>2, <1>3, <1>7, BeforeAppendRight DEF PipeOrdered
  <2>3. QED BY <2>1, <2>2 DEF PipeOrdered, Ordered, Before
<1>9. Covered'
  <2> SUFFICES ASSUME NEW u \in Sources
               PROVE  /\ InFlight(u)' \subseteq 1..toff'[u]
                      /\ toff'[u] <= written[u]
                      /\ IF tpc[u] = "open" THEN toff'[u] = 0
                         ELSE 1..toff'[u] \subseteq Settled(u) \cup InFlight(u)'
    BY <1>5 DEF Covered
  <2>1. CASE u = s
    <3>1. toff'[s] = n /\ tpc[s] = "read"
      BY <1>5 DEF TypeOK
    <3>2. InFlight(s) \subseteq 1..toff[s] /\ 1..toff[s] \subseteq Settled(s) \cup InFlight(s)
      BY <3>1 DEF Covered
    <3>3. 1..n = 1..toff[s] \cup {n}
      BY <1>1
    <3>4. QED BY <2>1, <3>1, <3>2, <3>3, <1>1, <1>4
  <2>2. CASE u # s
    BY <2>2, <1>4, <1>5 DEF Covered, TypeOK
  <2>3. QED BY <2>1, <2>2
<1>10. Chain'
  <2> SUFFICES ASSUME NEW u \in Sources
               PROVE  /\ tpc[u] # "open" => mem[u] <= toff'[u]
                      /\ \A k \in (LinesOf(held, u) \cup LinesOf(chan, u))' : mem[u] < k
    BY <1>5 DEF Chain
  <2>1. /\ mem[u] \in NoEntry..MaxLines /\ toff[u] \in 0..MaxLines
        /\ tpc[u] # "open" => mem[u] <= toff[u]
        /\ \A k \in LinesOf(held, u) \cup LinesOf(chan, u) : mem[u] < k
    BY DEF Chain, TypeOK
  <2>2. CASE u = s
    <3>1. toff'[s] = n /\ tpc[s] = "read"
      BY <1>5 DEF TypeOK
    <3>2. mem[s] < n
      BY <2>1, <2>2, <3>1 DEF NoEntry
    <3>3. mem[s] <= n
      BY <2>1, <2>2, <3>2, <1>1 DEF NoEntry
    <3>4. QED BY <2>1, <2>2, <3>1, <3>2, <3>3, <1>4
  <2>3. CASE u # s
    BY <2>1, <2>3, <1>4, <1>5 DEF TypeOK
  <2>4. QED BY <2>2, <2>3
<1>11. BatcherInv'
  BY <1>4 DEF BatcherInv
<1>12. ShutdownInv'
  BY DEF ShutdownInv, Alive
<1>13. QED BY <1>6, <1>8, <1>9, <1>10, <1>11, <1>12

\* The tailer steps that move no line.
LEMMA TailerMoveStep ==
  ASSUME NEW s \in Sources
  PROVE  IInv /\ (TailerDrop(s) \/ TailerEOF(s) \/ TailerWake(s) \/ TailerStop(s)) => IInv'
<1> SUFFICES ASSUME IInv, TailerDrop(s) \/ TailerEOF(s) \/ TailerWake(s) \/ TailerStop(s)
             PROVE  IInv'
  OBVIOUS
<1> USE DEF IInv
<1>1. /\ Alive /\ tpc[s] \in {"read", "sleep"}
      /\ \E to \in {"read", "sleep", "stopped"} : tpc' = [tpc EXCEPT ![s] = to]
      /\ UNCHANGED <<fileVars, toff, chan, batcherVars, registryVars, mainVars>>
  BY DEF TailerDrop, TailerEOF, TailerWake, TailerStop
<1> USE DEF fileVars, batcherVars, registryVars, mainVars
<1>2. TypeOK'
  BY <1>1 DEF TypeOK
<1>3. PipeOrdered'
  BY <1>1, SameQueues
<1>4. \A u \in Sources : (tpc'[u] = "open" <=> tpc[u] = "open") /\ Settled(u)' = Settled(u)
  BY <1>1 DEF TypeOK, Settled
<1>5. Covered'
  BY <1>1, <1>4, SameQueues DEF Covered
<1>6. Chain'
  BY <1>1, <1>4, SameQueues DEF Chain
<1>7. BatcherInv'
  BY <1>1, SameQueues DEF BatcherInv
<1>8. ShutdownInv'
  BY <1>1 DEF ShutdownInv, Alive
<1>9. QED BY <1>2, <1>3, <1>5, <1>6, <1>7, <1>8

\* The registry's flushes and the steps of Agent.Run.
LEMMA ControlStep ==
  IInv /\ (RegistryFlush \/ Stop \/ CloseChannel \/ RegCancel) => IInv'
<1> SUFFICES ASSUME IInv, RegistryFlush \/ Stop \/ CloseChannel \/ RegCancel PROVE IInv'
  OBVIOUS
<1> USE DEF IInv
<1>1. /\ UNCHANGED <<fileVars, tailerVars, chan, batcherVars, mem>>
      /\ snap' \in {mem, snap} /\ disk' \in {snap, disk} /\ (snap' = snap \/ disk' = disk)
      /\ fpc' \in {"idle", "tick", "last", "main", "gone"}
  BY DEF RegistryFlush, FlushTick, FlushLast, FlushMain, FlushEnd, Stop, CloseChannel,
         RegCancel, registryVars, TypeOK
<1>2. main' \in {"run", "stop", "closed", "cancelled", "final", "exited", "crashed"}
      /\ restarts' = restarts
  BY DEF RegistryFlush, FlushTick, FlushLast, FlushMain, FlushEnd, Stop, CloseChannel,
         RegCancel, mainVars, TypeOK
<1> USE DEF fileVars, tailerVars, batcherVars
<1>3. ShutdownInv'
  <2>1. CASE FlushTick \/ FlushLast
    BY <1>1, <2>1 DEF ShutdownInv, FlushTick, FlushLast, mainVars
  <2>2. CASE FlushMain
    BY <1>1, <2>2 DEF ShutdownInv, FlushMain
  <2>3. CASE FlushEnd
    BY <1>1, <2>3 DEF ShutdownInv, FlushEnd, Alive
  <2>4. CASE Stop
    BY <1>1, <2>4 DEF ShutdownInv, Stop, registryVars
  <2>5. CASE CloseChannel
    BY <1>1, <2>5 DEF ShutdownInv, CloseChannel, registryVars
  <2>6. CASE RegCancel
    BY <1>1, <2>6 DEF ShutdownInv, RegCancel, registryVars
  <2>7. QED BY <2>1, <2>2, <2>3, <2>4, <2>5, <2>6 DEF RegistryFlush
<1>4. TypeOK'
  <2>1. snap' \in [Sources -> NoEntry..MaxLines] /\ disk' \in [Sources -> NoEntry..MaxLines]
    BY <1>1 DEF TypeOK
  <2>2. QED BY <1>1, <1>2, <2>1 DEF TypeOK
<1>5. PipeOrdered'
  BY <1>1, SameQueues
<1>6. Covered'
  BY <1>1, SameQueues DEF Covered, Settled
<1>7. Chain'
  <2> SUFFICES ASSUME NEW s \in Sources PROVE disk'[s] <= snap'[s] /\ snap'[s] <= mem[s]
    BY <1>1, SameQueues DEF Chain, Settled
  <2>1. /\ mem[s] \in NoEntry..MaxLines /\ snap[s] \in NoEntry..MaxLines
        /\ disk[s] \in NoEntry..MaxLines /\ disk[s] <= snap[s] /\ snap[s] <= mem[s]
    BY DEF Chain, TypeOK
  <2>2. QED BY <1>1, <2>1 DEF NoEntry
<1>8. BatcherInv'
  BY <1>1, SameQueues DEF BatcherInv
<1>9. QED BY <1>3, <1>4, <1>5, <1>6, <1>7, <1>8

\* The batcher steps that only change its control state.
LEMMA BatcherControlStep == IInv /\ (Drain \/ Tick \/ Abandon) => IInv'
<1> SUFFICES ASSUME IInv, Drain \/ Tick \/ Abandon PROVE IInv'
  OBVIOUS
<1> USE DEF IInv
<1>1. /\ bpc = "select" /\ bpc' \in {"sending", "done"} /\ draining' \in BOOLEAN
      /\ UNCHANGED <<fileVars, tailerVars, chan, batch, bytes, held, stuck, acked,
                     registryVars, mainVars>>
  BY DEF Drain, Tick, Abandon, TypeOK
<1> USE DEF fileVars, tailerVars, registryVars, mainVars
<1>2. TypeOK'
  BY <1>1 DEF TypeOK
<1>3. PipeOrdered'
  BY <1>1, SameQueues
<1>4. Covered'
  BY <1>1, SameQueues DEF Covered, Settled
<1>5. Chain'
  BY <1>1, SameQueues DEF Chain, Settled
<1>6. BatcherInv'
  BY <1>1 DEF BatcherInv, Drain, Tick, Abandon
<1>7. ShutdownInv'
  BY <1>1 DEF ShutdownInv, BatcherInv, Drain, Tick, Abandon
<1>8. QED BY <1>2, <1>3, <1>4, <1>5, <1>6, <1>7

\* What flush leaves behind: the kept batch with the held message after it.
LEMMA AfterFlushQueues ==
  ASSUME IInv, bpc \in {"sending", "acking"},
         NEW isStuck \in BOOLEAN, NEW kept, kept = IF isStuck THEN batch ELSE <<>>,
         AfterFlush(kept, isStuck), UNCHANGED <<chan, draining, tpc, fpc, main>>
  PROVE  /\ batch' \in Seq(Message) /\ bytes' \in Nat /\ held' = <<>> /\ stuck' = isStuck
         /\ bpc' \in {"select", "sending", "done"} /\ acked' = 0
         /\ \A u : /\ LinesOf(batch, u)' = LinesOf(kept, u) \cup LinesOf(held, u)
                  /\ LinesOf(held, u)' = {}
                  /\ LinesOf(chan, u)' = LinesOf(chan, u)
         /\ PipeOrdered' /\ BatcherInv' /\ ShutdownInv'
<1> USE DEF IInv
<1>1. /\ batch \in Seq(Message) /\ held \in Seq(Message) /\ chan \in Seq(Message)
      /\ kept \in Seq(Message) /\ batch # <<>> /\ Len(held) <= 1 /\ bytes \in Nat
      /\ Len(batch) \in Nat /\ Len(batch) <= MaxSize
  BY DEF TypeOK, PipeOrdered, BatcherInv
<1>2. /\ Ordered(kept) /\ Ordered(chan) /\ Before(kept, held) /\ Before(kept, chan)
      /\ Before(held, chan)
  BY DEF PipeOrdered, Ordered, Before
<1>3. /\ batch' = kept \o held /\ held' = <<>> /\ stuck' = isStuck /\ acked' = 0
      /\ bpc' = IF draining THEN "done"
                ELSE IF held # <<>> /\ Len(kept \o held) >= MaxSize THEN "sending"
                ELSE "select"
  BY DEF AfterFlush
<1>4. \A u : LinesOf(held, u)' = {} /\ LinesOf(chan, u)' = LinesOf(chan, u)
  BY <1>3, LinesOfEmpty DEF LinesOf
<1>5. Before(<<>>, chan) /\ \A q : Before(q, <<>>)
  BY DEF Before
<1>6. CASE held = <<>>
  <2>1. batch' = kept /\ bytes' \in Nat
    BY <1>1, <1>3, <1>6 DEF AfterFlush
  <2>2. \A u : LinesOf(batch, u)' = LinesOf(kept, u) \cup LinesOf(held, u)
    BY <2>1, <1>6, LinesOfEmpty DEF LinesOf
  <2>3. PipeOrdered'
    BY <2>1, <1>2, <1>3, <1>5, <1>6 DEF PipeOrdered, Ordered, Before
  <2>4. BatcherInv'
    BY <2>1, <1>1, <1>3, <1>6, MaxSizeAssumption DEF BatcherInv
  <2>5. ShutdownInv'
    BY <1>3, <1>6 DEF ShutdownInv
  <2>6. QED BY <1>1, <1>3, <1>4, <2>1, <2>2, <2>3, <2>4, <2>5
<1>7. CASE held # <<>>
  <2>1. PICK h \in Message : held = <<h>> /\ held[1] = h
    <3>1. Len(held) = 1 /\ held[1] \in Message
      BY <1>1, <1>7
    <3>2. /\ <<held[1]>> \in Seq(Message) /\ Len(<<held[1]>>) = 1
          /\ \A i \in 1..1 : <<held[1]>>[i] = held[i]
      BY <3>1
    <3>3. held = <<held[1]>>
      BY <3>1, <3>2, <1>1, SeqEqual
    <3>4. QED BY <3>1, <3>3
  <2>2. /\ batch' = Append(kept, h) /\ batch' \in Seq(Message) /\ Len(batch') = Len(kept) + 1
        /\ Len(kept) \in Nat /\ batch' # <<>> /\ kept \o held = batch'
    BY <1>1, <1>3, <2>1
  <2>3. bytes' \in Nat
    <3>1. Bytes[h.src][h.off] \in Nat
      BY BytesAssumption DEF Message
    <3>2. /\ bytes' = (IF isStuck THEN bytes ELSE 0) + Bytes[h.src][h.off]
          /\ (IF isStuck THEN bytes ELSE 0) \in Nat
      BY <1>1, <1>7, <2>1 DEF AfterFlush
    <3>3. QED BY <3>1, <3>2
  <2>4. \A u : LinesOf(batch, u)' = LinesOf(kept, u) \cup LinesOf(held, u)
    <3> TAKE u
    <3>1. LinesOf(batch, u)' = LinesOf(batch', u)
      BY DEF LinesOf
    <3>2. LinesOf(Append(kept, h), u) = LinesOf(kept, u) \cup LinesOf(<<h>>, u)
      <4>1. kept \in Seq(Message) /\ h \in Message
        BY <2>1, <1>1
      <4>2. QED BY <4>1, AppendLines, Zenon
    <3>3. QED BY <3>1, <3>2, <2>1, <2>2
  <2>5. PipeOrdered'
    <3>1. Ordered(batch')
      BY <2>1, <2>2, <1>1, <1>2, OrderedAppend
    <3>2. Before(batch', chan)
      BY <2>1, <2>2, <1>1, <1>2, BeforeAppendLeft
    <3>3. QED BY <3>1, <3>2, <1>2, <1>3, <1>5 DEF PipeOrdered, Ordered, Before
  <2>6. BatcherInv'
    <3>1. Len(batch) < MaxSize /\ ~draining
      BY <1>7 DEF BatcherInv
    <3>2. Len(kept) < MaxSize
      BY <3>1, MaxSizeAssumption
    <3>3. Len(batch') <= MaxSize
      BY <3>2, <2>2, MaxSizeAssumption
    <3>4. bpc' = IF Len(batch') >= MaxSize THEN "sending" ELSE "select"
      BY <3>1, <1>3, <1>7, <2>2
    <3>5. QED BY <3>3, <3>4, <1>3, <2>2, MaxSizeAssumption DEF BatcherInv
  <2>7. ShutdownInv'
    BY <1>3 DEF ShutdownInv
  <2>8. QED BY <1>3, <1>4, <2>2, <2>3, <2>4, <2>5, <2>6, <2>7
<1>8. QED BY <1>6, <1>7

\* A flush loses no line: what leaves the batch is settled.
LEMMA AfterFlushCovered ==
  ASSUME IInv, NEW isStuck \in BOOLEAN, NEW kept, kept = IF isStuck THEN batch ELSE <<>>,
         \A u : /\ LinesOf(batch, u)' = LinesOf(kept, u) \cup LinesOf(held, u)
               /\ LinesOf(held, u)' = {}
               /\ LinesOf(chan, u)' = LinesOf(chan, u),
         UNCHANGED <<written, tpc, toff>>,
         \A u \in Sources : Settled(u) \subseteq Settled(u)',
         ~isStuck => \A u \in Sources : LinesOf(batch, u) \subseteq Settled(u)'
  PROVE  Covered'
<1> SUFFICES ASSUME NEW u \in Sources
             PROVE  /\ InFlight(u)' \subseteq InFlight(u)
                    /\ InFlight(u) \subseteq InFlight(u)' \cup Settled(u)'
                    /\ Settled(u) \subseteq Settled(u)'
  BY DEF IInv, Covered
<1>1. /\ InFlight(u)' = LinesOf(kept, u) \cup LinesOf(held, u) \cup LinesOf(chan, u)
      /\ InFlight(u) = LinesOf(batch, u) \cup LinesOf(held, u) \cup LinesOf(chan, u)
  BY DEF InFlight
<1>2. CASE isStuck
  BY <1>1, <1>2
<1>3. CASE ~isStuck
  BY <1>1, <1>3, LinesOfEmpty
<1>4. QED BY <1>2, <1>3

\* The sends that end in AfterFlush.
LEMMA SendSettledStep ==
  IInv /\ (SendAnswerLost \/ SendFailed \/ SendRefused \/ SendStoredRefused) => IInv'
<1> SUFFICES ASSUME IInv, SendAnswerLost \/ SendFailed \/ SendRefused \/ SendStoredRefused
             PROVE  IInv'
  OBVIOUS
<1>1. PICK isStuck \in BOOLEAN :
        /\ AfterFlush(IF isStuck THEN batch ELSE <<>>, isStuck)
        /\ isStuck \/ SendRefused \/ SendStoredRefused
  BY DEF SendAnswerLost, SendFailed, SendRefused, SendStoredRefused
<1> DEFINE kept == IF isStuck THEN batch ELSE <<>>
<1>2. /\ bpc = "sending"
      /\ UNCHANGED <<written, skipped, tailerVars, chan, draining, registryVars, mainVars>>
  BY DEF SendAnswerLost, SendFailed, SendRefused, SendStoredRefused, fileVars
<1> USE DEF IInv, tailerVars, registryVars, mainVars
<1>3. /\ batch' \in Seq(Message) /\ bytes' \in Nat /\ held' = <<>> /\ stuck' = isStuck
      /\ bpc' \in {"select", "sending", "done"} /\ acked' = 0
      /\ \A u : /\ LinesOf(batch, u)' = LinesOf(kept, u) \cup LinesOf(held, u)
               /\ LinesOf(held, u)' = {}
               /\ LinesOf(chan, u)' = LinesOf(chan, u)
      /\ PipeOrdered' /\ BatcherInv' /\ ShutdownInv'
  <2> HIDE DEF IInv
  <2>1. QED BY <1>1, <1>2, AfterFlushQueues
<1>4. batch \in Seq(Message)
  BY DEF TypeOK
<1>5. /\ delivered' \in [Sources -> SUBSET (1..MaxLines)]
      /\ refused' \in [Sources -> SUBSET (1..MaxLines)]
      /\ \A u \in Sources : delivered[u] \subseteq delivered'[u] /\ refused[u] \subseteq refused'[u]
      /\ ~isStuck => \A u \in Sources : 
           LinesOf(batch, u) \subseteq delivered'[u] \cup refused'[u]
  BY <1>1, <1>4, LinesOfType
     DEF SendAnswerLost, SendFailed, SendRefused, SendStoredRefused, Store, fileVars, TypeOK
<1>6. TypeOK'
  BY <1>2, <1>3, <1>5 DEF TypeOK
<1>7. \A u \in Sources : Settled(u) \subseteq Settled(u)'
  BY <1>2, <1>5 DEF Settled
<1>8. Covered'
  <2>1. ~isStuck => \A u \in Sources : LinesOf(batch, u) \subseteq Settled(u)'
    BY <1>5 DEF Settled
  <2> HIDE DEF IInv
  <2>2. QED BY <1>2, <1>3, <1>7, <2>1, AfterFlushCovered
<1>9. Chain'
  <2> SUFFICES ASSUME NEW u \in Sources
               PROVE  /\ 1..mem[u] \subseteq Settled(u)'
                      /\ \A i \in DOMAIN batch' : batch'[i].src = u => mem[u] < batch'[i].off
                      /\ \A n \in LinesOf(chan, u) : mem[u] < n
    BY <1>2, <1>3 DEF Chain
  <2>1. 1..mem[u] \subseteq Settled(u)' /\ \A n \in LinesOf(chan, u) : mem[u] < n
    BY <1>7 DEF Chain
  <2>2. ASSUME NEW i \in DOMAIN batch', batch'[i].src = u PROVE mem[u] < batch'[i].off
    <3> DEFINE n == batch'[i].off
    <3>1. n \in LinesOf(batch', u)
      BY <1>3, <2>2, OwnLine
    <3>2. LinesOf(batch', u) = LinesOf(batch, u)'
      BY DEF LinesOf
    <3>3. CASE n \in LinesOf(held, u)
      BY <3>3 DEF Chain
    <3>4. CASE n \in LinesOf(kept, u) /\ isStuck
      <4>1. PICK j \in DOMAIN batch : batch[j].src = u /\ batch[j].off = n
        BY <3>4, <1>4, InLinesOf
      <4>2. acked = 0 /\ j > acked
        BY <1>2, <1>4, <4>1 DEF BatcherInv
      <4>3. QED BY <4>1, <4>2 DEF Chain
    <3>5. CASE n \in LinesOf(kept, u) /\ ~isStuck
      BY <3>5, LinesOfEmpty
    <3>6. QED BY <3>1, <3>2, <3>3, <3>4, <3>5, <1>3
  <2>3. QED BY <2>1, <2>2
<1>10. QED BY <1>3, <1>6, <1>8, <1>9

LEMMA SendStoredStep == IInv /\ SendStored => IInv'
<1> SUFFICES ASSUME IInv, SendStored PROVE IInv'
  OBVIOUS
<1> USE DEF IInv, SendStored, tailerVars, registryVars, mainVars
<1>1. batch \in Seq(Message) /\ batch # <<>> /\ acked = 0
  BY DEF TypeOK, BatcherInv
<1>2. /\ delivered' \in [Sources -> SUBSET (1..MaxLines)]
      /\ \A u \in Sources : /\ delivered[u] \subseteq delivered'[u]
                            /\ LinesOf(batch, u) \subseteq delivered'[u]
  BY <1>1, LinesOfType DEF Store, TypeOK
<1>3. \A u \in Sources : Settled(u) \subseteq Settled(u)'
  BY <1>2 DEF Settled
<1>4. TypeOK'
  BY <1>2 DEF TypeOK
<1>5. PipeOrdered'
  BY SameQueues
<1>6. Covered'
  BY <1>3, SameQueues DEF Covered
<1>7. Chain'
  BY <1>1, <1>3, SameQueues DEF Chain
<1>8. BatcherInv'
  <2>1. Len(batch) > 0
    BY <1>1
  <2>2. QED BY <1>1, <1>2, <2>1, SameQueues DEF BatcherInv
<1>9. ShutdownInv'
  BY DEF ShutdownInv
<1>10. QED BY <1>4, <1>5, <1>6, <1>7, <1>8, <1>9

\* Whatever the batcher acknowledges, every earlier line of the source is settled:
\* it can be neither in the channel nor held nor later in the batch.
LEMMA AckedPrefixSettled ==
  ASSUME IInv, NEW s \in Sources, NEW k \in DOMAIN batch, batch[k].src = s
  PROVE  /\ batch[k].off \in 1..toff[s]
         /\ 1..batch[k].off \subseteq Settled(s) \cup LinesOf(batch, s)
<1> USE DEF IInv
<1> DEFINE n == batch[k].off
<1>1. batch \in Seq(Message) /\ held \in Seq(Message) /\ chan \in Seq(Message)
  BY DEF TypeOK
<1>2. n \in 1..toff[s] /\ toff[s] \in Nat /\ toff[s] # 0
  <2>1. n \in InFlight(s)
    BY <1>1, OwnLine DEF InFlight
  <2>2. n \in 1..toff[s] /\ toff[s] \in 0..MaxLines
    BY <2>1 DEF Covered, TypeOK
  <2>3. QED BY <2>2, MaxLinesAssumption
<1>3. 1..toff[s] \subseteq Settled(s) \cup InFlight(s)
  BY <1>2 DEF Covered
<1>4. ASSUME NEW i \in 1..n PROVE i \in Settled(s) \cup LinesOf(batch, s)
  <2>1. i \in Settled(s) \cup InFlight(s) /\ ~(n < i)
    BY <1>2, <1>3
  <2>2. ASSUME NEW q, q = held \/ q = chan, i \in LinesOf(q, s) PROVE FALSE
    <3>1. q \in Seq(Message) /\ Before(batch, q)
      BY <1>1, <2>2 DEF PipeOrdered
    <3>2. PICK j \in DOMAIN q : q[j].src = s /\ q[j].off = i
      BY <2>2, <3>1, InLinesOf
    <3>3. n < i
      BY <3>1, <3>2 DEF Before
    <3>4. QED BY <2>1, <3>3
  <2>3. QED BY <2>1, <2>2 DEF InFlight
<1>5. QED BY <1>2, <1>4

LEMMA AckOneStep == IInv /\ AckOne => IInv'
<1> SUFFICES ASSUME IInv, AckOne PROVE IInv'
  OBVIOUS
<1> DEFINE k == acked + 1
           m == batch[k]
<1>1. /\ batch \in Seq(Message) /\ held \in Seq(Message) /\ chan \in Seq(Message)
      /\ k \in DOMAIN batch /\ k \in 1..Len(batch) /\ acked \in Nat /\ m \in Message
  <2>1. bpc = "acking" /\ acked < Len(batch) /\ acked \in Nat
    BY DEF IInv, AckOne, BatcherInv, TypeOK
  <2>2. batch \in Seq(Message) /\ held \in Seq(Message) /\ chan \in Seq(Message)
    BY DEF IInv, TypeOK
  <2>3. QED BY <2>1, <2>2
<1>2. /\ m.src \in Sources /\ m.off \in 1..MaxLines
      /\ mem' = [mem EXCEPT ![m.src] = m.off] /\ bpc = "acking"
      /\ UNCHANGED <<fileVars, tailerVars, chan, draining, disk, fpc, snap, mainVars>>
  BY <1>1 DEF AckOne, Message
<1> USE DEF fileVars, tailerVars, mainVars
<1>3. \A u \in Sources : Settled(u)' = Settled(u) /\ LinesOf(batch, u) \subseteq Settled(u)
  BY <1>2 DEF Settled, IInv, BatcherInv
<1>4. /\ m.off \in 1..toff[m.src] /\ 1..m.off \subseteq Settled(m.src)
  BY <1>1, <1>2, <1>3, AckedPrefixSettled
<1>5. ASSUME NEW u \in Sources
      PROVE  /\ mem'[u] \in NoEntry..MaxLines /\ mem[u] <= mem'[u]
             /\ disk[u] <= snap[u] /\ snap[u] <= mem'[u] /\ mem'[u] <= written[u]
             /\ 1..mem'[u] \subseteq Settled(u)
             /\ tpc[u] # "open" => mem'[u] <= toff[u]
  <2>1. /\ mem[u] \in NoEntry..MaxLines /\ disk[u] \in NoEntry..MaxLines
        /\ snap[u] \in NoEntry..MaxLines /\ written[u] \in 0..MaxLines /\ toff[u] \in 0..MaxLines
        /\ disk[u] <= snap[u] /\ snap[u] <= mem[u] /\ mem[u] <= written[u]
        /\ 1..mem[u] \subseteq Settled(u) /\ toff[u] <= written[u]
        /\ tpc[u] # "open" => mem[u] <= toff[u]
    BY DEF IInv, TypeOK, Chain, Covered
  <2>2. CASE u = m.src
    <3>1. mem'[u] = m.off
      BY <1>2, <2>2 DEF IInv, TypeOK
    <3>2. mem[u] < m.off
      BY <1>1, <2>2 DEF IInv, Chain
    <3>3. QED BY <2>1, <2>2, <3>1, <3>2, <1>2, <1>4, MaxLinesAssumption DEF NoEntry
  <2>3. CASE u # m.src
    <3>1. mem'[u] = mem[u]
      BY <1>2, <2>3 DEF IInv, TypeOK
    <3>2. QED BY <2>1, <3>1 DEF NoEntry
  <2>4. QED BY <2>2, <2>3
\* The messages not yet acknowledged stay ahead of the registry.
<1>6. ASSUME NEW u \in Sources, NEW n, mem[u] < n, u = m.src => m.off < n
      PROVE  mem'[u] < n
  BY <1>2, <1>6 DEF IInv, TypeOK
<1>7. ASSUME NEW u \in Sources, NEW n \in LinesOf(held, u) \cup LinesOf(chan, u)
      PROVE  mem'[u] < n
  <2>1. mem[u] < n
    BY DEF IInv, Chain
  <2>2. ASSUME u = m.src PROVE m.off < n
    <3>1. PICK q \in {held, chan} : n \in LinesOf(q, u)
      OBVIOUS
    <3>2. q \in Seq(Message) /\ Before(batch, q)
      BY <1>1, <3>1 DEF IInv, PipeOrdered
    <3>3. PICK j \in DOMAIN q : q[j].src = u /\ q[j].off = n
      BY <3>1, <3>2, InLinesOf
    <3>4. QED BY <1>1, <2>2, <3>2, <3>3 DEF Before
  <2>3. QED BY <1>6, <2>1, <2>2
<1>8. ASSUME NEW u \in Sources, NEW i \in DOMAIN batch, i > k, batch[i].src = u
      PROVE  mem'[u] < batch[i].off
  <2>1. mem[u] < batch[i].off
    <3>1. i > acked
      BY <1>1, <1>8
    <3>2. QED BY <1>8, <3>1 DEF IInv, Chain
  <2>2. ASSUME u = m.src PROVE m.off < batch[i].off
    BY <1>1, <1>8, <2>2 DEF IInv, PipeOrdered, Ordered
  <2>3. QED BY <1>6, <2>1, <2>2
<1>9. mem' \in [Sources -> NoEntry..MaxLines]
  BY <1>2, <1>5 DEF IInv, TypeOK
<1>10. CASE k = Len(batch)
  <2>1. AfterFlush(<<>>, FALSE)
    BY <1>10 DEF AckOne
  <2>2. /\ batch' \in Seq(Message) /\ bytes' \in Nat /\ held' = <<>> /\ stuck' = FALSE
        /\ bpc' \in {"select", "sending", "done"} /\ acked' = 0
        /\ \A u : /\ LinesOf(batch, u)' = LinesOf(<<>>, u) \cup LinesOf(held, u)
                 /\ LinesOf(held, u)' = {}
                 /\ LinesOf(chan, u)' = LinesOf(chan, u)
        /\ PipeOrdered' /\ BatcherInv' /\ ShutdownInv'
    BY <1>2, <2>1, AfterFlushQueues
  <2>3. TypeOK'
    <3>1. /\ batch' \in Seq(Message) /\ bytes' \in Nat /\ held' = <<>>
          /\ stuck' = FALSE /\ acked' = 0 /\ bpc' \in {"select", "sending", "done"}
      BY <2>2, Zenon
    <3>2. <<>> \in Seq(Message)
      OBVIOUS
    <3>3. QED BY <1>2, <1>9, <3>1, <3>2 DEF IInv, TypeOK
  <2>4. Covered'
    <3>1. \A u \in Sources : /\ Settled(u) \subseteq Settled(u)'
                            /\ LinesOf(batch, u) \subseteq Settled(u)'
      BY <1>3
    <3>2. UNCHANGED <<written, tpc, toff>>
      BY <1>2
    <3>3. QED BY <2>2, <3>1, <3>2, AfterFlushCovered
  <2>5. ASSUME NEW u \in Sources, NEW i \in DOMAIN batch', batch'[i].src = u
        PROVE  mem'[u] < batch'[i].off
    <3>1. batch'[i].off \in LinesOf(batch', u)
      BY <2>2, <2>5, OwnLine
    <3>2. LinesOf(batch', u) = LinesOf(batch, u)'
      BY DEF LinesOf
    <3>3. batch'[i].off \in LinesOf(held, u)
      BY <3>1, <3>2, <2>2, LinesOfEmpty
    <3>4. QED BY <3>3, <1>7
  <2>6. Chain'
    <3> SUFFICES ASSUME NEW u \in Sources
                 PROVE  /\ disk'[u] <= snap'[u] /\ snap'[u] <= mem'[u] /\ mem'[u] <= written'[u]
                        /\ 1..mem'[u] \subseteq Settled(u)'
                        /\ tpc'[u] # "open" => mem'[u] <= toff'[u]
                        /\ \A n \in LinesOf(held, u)' \cup LinesOf(chan, u)' : mem'[u] < n
      BY <2>5 DEF Chain, LinesOf
    <3>1. UNCHANGED <<written, disk, snap, tpc, toff>> /\ Settled(u)' = Settled(u)
      BY <1>2, <1>3
    <3>2. LinesOf(held, u)' = {} /\ LinesOf(chan, u)' = LinesOf(chan, u)
      BY <2>2, Zenon
    <3>3. QED BY <1>5, <1>7, <3>1, <3>2
  <2>7. QED BY <2>2, <2>3, <2>4, <2>6 DEF IInv
<1>11. CASE k # Len(batch)
  <2>1. acked' = k /\ UNCHANGED <<bpc, batch, bytes, held, stuck>>
    BY <1>11 DEF AckOne
  <2>2. k < Len(batch)
    BY <1>1, <1>11
  <2>3. TypeOK'
    <3>1. acked' \in Nat
      BY <1>1, <2>1
    <3>2. TypeOK
      BY DEF IInv
    <3>3. UNCHANGED <<written, delivered, refused, skipped, tpc, toff, chan, bpc, batch, bytes, held,
                      stuck, draining, disk, fpc, snap, main, restarts>>
      BY <1>2, <2>1
    <3> HIDE DEF fileVars, tailerVars, mainVars
    <3> QED
      BY <1>9, <3>1, <3>2, <3>3 DEF TypeOK
  <2>4. PipeOrdered'
    BY <1>2, <2>1, SameQueues DEF IInv
  <2>5. Covered'
    BY <1>2, <1>3, <2>1, SameQueues DEF IInv, Covered
  <2>6. Chain'
    BY <1>2, <1>3, <1>5, <1>7, <1>8, <2>1, SameQueues DEF Chain
  <2>7. BatcherInv'
    BY <1>2, <2>1, <2>2, SameQueues DEF IInv, BatcherInv
  <2>8. ShutdownInv'
    BY <1>2, <2>1 DEF IInv, ShutdownInv
  <2>9. QED BY <2>3, <2>4, <2>5, <2>6, <2>7, <2>8 DEF IInv
<1>12. QED BY <1>10, <1>11

LEMMA ReceiveStep == IInv /\ Receive => IInv'
<1> SUFFICES ASSUME IInv, Receive PROVE IInv'
  OBVIOUS
<1> DEFINE m == Head(chan)
           rest == Tail(chan)
<1>1. /\ batch \in Seq(Message) /\ chan \in Seq(Message) /\ bytes \in Nat
      /\ chan # <<>> /\ m \in Message /\ rest \in Seq(Message)
      /\ Len(batch) \in Nat /\ Len(batch) < MaxSize /\ acked = 0 /\ held = <<>>
      /\ ~draining /\ bpc = "select" /\ ~stuck
  BY DEF IInv, TypeOK, BatcherInv, ShutdownInv, Receive, TakeMessage
<1>2. /\ chan' = rest
      /\ UNCHANGED <<fileVars, tailerVars, stuck, draining, acked, registryVars, mainVars>>
  BY DEF Receive, TakeMessage
<1> USE DEF fileVars, tailerVars, registryVars, mainVars
<1>3. /\ Ordered(rest) /\ Before(<<m>>, rest) /\ Before(batch, rest) /\ Before(batch, <<m>>)
      /\ Ordered(batch)
  BY <1>1, TailOrder DEF IInv, PipeOrdered
<1>4. \A u : LinesOf(chan, u) = LinesOf(<<m>>, u) \cup LinesOf(rest, u)
  BY <1>1, HeadTailLines
<1>5. m.src \in Sources /\ m.off \in 1..MaxLines /\ Bytes[m.src][m.off] \in Nat
  BY <1>1, BytesAssumption DEF Message
\* Either way the queue as a whole keeps its lines, and the message keeps its place.
<1>6. CASE batch # <<>> /\ bytes + Bytes[m.src][m.off] > MaxBytes
  <2>1. held' = <<m>> /\ bpc' = "sending" /\ UNCHANGED <<batch, bytes>>
    BY <1>6 DEF Receive, TakeMessage
  <2>2. \A u : /\ LinesOf(batch, u)' = LinesOf(batch, u)
               /\ LinesOf(held, u)' = LinesOf(<<m>>, u)
               /\ LinesOf(chan, u)' = LinesOf(rest, u)
               /\ InFlight(u)' = InFlight(u)
    <3> TAKE u
    <3>1. /\ LinesOf(batch, u)' = LinesOf(batch, u)
          /\ LinesOf(held, u)' = LinesOf(<<m>>, u)
          /\ LinesOf(chan, u)' = LinesOf(rest, u)
      BY <1>2, <2>1 DEF LinesOf
    <3>2. LinesOf(held, u) = {}
      BY <1>1, LinesOfEmpty
    <3>3. QED BY <3>1, <3>2, <1>4 DEF InFlight
  <2>3. <<m>> \in Seq(Message) /\ Len(<<m>>) = 1 /\ <<m>> # <<>>
    BY <1>1
  <2>4. TypeOK'
    BY <1>1, <1>2, <2>1, <2>3 DEF IInv, TypeOK
  <2>5. PipeOrdered'
    BY <1>2, <1>3, <2>1, <2>3 DEF PipeOrdered, Ordered, Before
  <2>6. Covered'
    BY <1>2, <2>2 DEF IInv, Covered, Settled
  <2>7. Chain'
    BY <1>2, <1>4, <2>1, <2>2 DEF IInv, Chain, Settled
  <2>8. BatcherInv'
    BY <1>1, <1>2, <1>6, <2>1, MaxSizeAssumption DEF BatcherInv
  <2>9. ShutdownInv'
    BY <1>1, <1>2, <2>1 DEF IInv, ShutdownInv
  <2>10. QED BY <2>4, <2>5, <2>6, <2>7, <2>8, <2>9 DEF IInv
<1>7. CASE ~(batch # <<>> /\ bytes + Bytes[m.src][m.off] > MaxBytes)
  <2>1. /\ batch' = Append(batch, m) /\ bytes' = bytes + Bytes[m.src][m.off] /\ held' = held
        /\ bpc' = IF Len(batch) + 1 >= MaxSize THEN "sending" ELSE "select"
    BY <1>7 DEF Receive, TakeMessage
  <2>2. /\ batch' \in Seq(Message) /\ Len(batch') = Len(batch) + 1 /\ batch' # <<>>
        /\ bytes' \in Nat
    BY <1>1, <1>5, <2>1
  <2>3. \A u : /\ LinesOf(batch, u)' = LinesOf(batch, u) \cup LinesOf(<<m>>, u)
               /\ LinesOf(held, u)' = {}
               /\ LinesOf(chan, u)' = LinesOf(rest, u)
               /\ InFlight(u)' = InFlight(u)
    <3> TAKE u
    <3>1. LinesOf(batch, u)' = LinesOf(batch', u) /\ LinesOf(held, u)' = LinesOf(<<>>, u)
          /\ LinesOf(chan, u)' = LinesOf(rest, u) /\ LinesOf(held, u) = LinesOf(<<>>, u)
      BY <1>1, <1>2, <2>1 DEF LinesOf
    <3>2. LinesOf(Append(batch, m), u) = LinesOf(batch, u) \cup LinesOf(<<m>>, u)
      BY <1>1, AppendLines
    <3>3. QED BY <3>1, <3>2, <2>1, <1>4, LinesOfEmpty DEF InFlight
  <2>4. TypeOK'
    BY <1>1, <1>2, <2>1, <2>2 DEF IInv, TypeOK
  <2>5. PipeOrdered'
    <3>1. Ordered(batch')
      BY <1>1, <1>3, <2>1, OrderedAppend
    <3>2. Before(batch', rest)
      BY <1>1, <1>3, <2>1, BeforeAppendLeft
    <3>3. held' = <<>> /\ Before(batch', <<>>) /\ Before(<<>>, rest)
      BY <1>1, <2>1 DEF Before
    <3>4. QED BY <1>2, <3>1, <3>2, <3>3, <1>3 DEF PipeOrdered, Ordered, Before
  <2>6. Covered'
    BY <1>2, <2>3 DEF IInv, Covered, Settled
  <2>7. Chain'
    <3> SUFFICES ASSUME NEW u \in Sources
                 PROVE  /\ \A i \in DOMAIN batch' : batch'[i].src = u => mem[u] < batch'[i].off
                        /\ \A n \in LinesOf(rest, u) : mem[u] < n
      BY <1>1, <1>2, <2>3 DEF IInv, Chain, Settled
    <3>1. \A n \in LinesOf(<<m>>, u) \cup LinesOf(rest, u) : mem[u] < n
      BY <1>4 DEF IInv, Chain
    <3>2. ASSUME NEW i \in DOMAIN batch', batch'[i].src = u PROVE mem[u] < batch'[i].off
      <4>1. batch'[i].off \in LinesOf(batch', u)
        BY <2>2, <3>2, OwnLine
      <4>2. LinesOf(batch', u) = LinesOf(batch, u)'
        BY DEF LinesOf
      <4>3. CASE batch'[i].off \in LinesOf(<<m>>, u)
        BY <3>1, <4>3
      <4>4. CASE batch'[i].off \in LinesOf(batch, u)
        <5>1. PICK j \in DOMAIN batch : batch[j].src = u /\ batch[j].off = batch'[i].off
          BY <1>1, <4>4, InLinesOf
        <5>2. j > acked
          BY <1>1, <5>1
        <5>3. QED BY <5>1, <5>2 DEF IInv, Chain
      <4>5. QED BY <4>1, <4>2, <4>3, <4>4, <2>3
    <3>3. QED BY <3>1, <3>2
  <2>8. BatcherInv'
    BY <1>1, <1>2, <2>1, <2>2, MaxSizeAssumption DEF BatcherInv
  <2>9. ShutdownInv'
    BY <1>1, <1>2, <2>1 DEF IInv, ShutdownInv
  <2>10. QED BY <2>4, <2>5, <2>6, <2>7, <2>8, <2>9 DEF IInv
<1>8. QED BY <1>6, <1>7

LEMMA NextStep == IInv /\ [Next]_vars => IInv'
<1> SUFFICES ASSUME IInv, [Next]_vars PROVE IInv'
  OBVIOUS
<1>1. CASE UNCHANGED vars
  BY <1>1, StutterStep
<1>2. ASSUME NEW s \in Sources, Write(s) PROVE IInv'
  BY <1>2, WriteStep
<1>3. ASSUME NEW s \in Sources, Tailer(s) PROVE IInv'
  BY <1>3, TailerOpenStep, TailerSendStep, TailerMoveStep DEF Tailer
<1>4. CASE Batcher
  BY <1>4, ReceiveStep, BatcherControlStep, AckOneStep, SendStoredStep, SendSettledStep
     DEF Batcher, Send
<1>5. CASE RegistryFlush \/ Stop \/ CloseChannel \/ RegCancel
  BY <1>5, ControlStep
<1>6. CASE Crash
  BY <1>6, CrashStep
<1>7. CASE Restart
  BY <1>7, RestartStep
<1>8. CASE Finished
  BY <1>8, StutterStep DEF Finished
<1>9. QED BY <1>1, <1>2, <1>3, <1>4, <1>5, <1>6, <1>7, <1>8 DEF Next

----------------------------------------------------------------------------
(* The theorems.                                                           *)

\* The inductive invariant holds in every reachable state.
THEOREM Invariance == Spec => []IInv
<1>1. Init => IInv
  BY InitInv
<1>2. IInv /\ [Next]_vars => IInv'
  BY NextStep
<1>3. QED BY <1>1, <1>2, PTL DEF Spec

\* Type correctness of the whole pipeline.
THEOREM TypeCorrect == Spec => []TypeOK
<1>1. IInv => TypeOK
  BY DEF IInv
<1>2. QED BY <1>1, Invariance, PTL

\* Neither the registry nor its file is ever past an unsettled line
\* (batcher.run, agent.go:238-245).
THEOREM RegistryNeverAhead == Spec => []NeverAhead
<1>1. IInv => NeverAhead
  <2> SUFFICES ASSUME IInv, NEW s \in Sources
               PROVE  1..mem[s] \subseteq Settled(s) /\ 1..disk[s] \subseteq Settled(s)
    BY DEF NeverAhead
  <2>1. /\ disk[s] \in NoEntry..MaxLines /\ snap[s] \in NoEntry..MaxLines
        /\ mem[s] \in NoEntry..MaxLines
        /\ disk[s] <= snap[s] /\ snap[s] <= mem[s] /\ 1..mem[s] \subseteq Settled(s)
    BY DEF IInv, TypeOK, Chain
  <2>2. 1..disk[s] \subseteq 1..mem[s]
    BY <2>1, MaxLinesAssumption DEF NoEntry
  <2>3. QED BY <2>1, <2>2
<1>2. QED BY <1>1, Invariance, PTL

\* The batch never outgrows the configured size (batcher.run, agent.go:286).
THEOREM BatchBounded == Spec => []BatchBound
<1>1. IInv => BatchBound
  BY DEF IInv, BatcherInv, BatchBound
<1>2. QED BY <1>1, Invariance, PTL

\* The ordered shutdown loses nothing in flight (Agent.Run, agent.go:67-69).
THEOREM ShutdownDrains == Spec => []DrainedExit
<1>1. IInv => DrainedExit
  <2> SUFFICES ASSUME IInv, main \in {"cancelled", "final", "exited"}, batch = <<>>
               PROVE  chan = <<>> /\ \A s \in Sources : 1..toff[s] \subseteq Settled(s)
    BY DEF DrainedExit
  <2>1. bpc = "done" /\ ~stuck /\ chan = <<>> /\ held = <<>>
    BY DEF IInv, ShutdownInv, BatcherInv
  <2>2. ASSUME NEW s \in Sources PROVE 1..toff[s] \subseteq Settled(s)
    <3>1. InFlight(s) = {}
      BY <2>1, LinesOfEmpty DEF InFlight
    <3>2. tpc[s] = "stopped"
      BY DEF IInv, ShutdownInv
    <3>3. QED BY <3>1, <3>2 DEF IInv, Covered
  <2>3. QED BY <2>1, <2>2
<1>2. QED BY <1>1, Invariance, PTL

----------------------------------------------------------------------------
(* The pipeline implements LogDelivery.                                    *)

\* No line of a file is left out.
LEMMA SettledThere ==
  \A s \in Sources : Delivery!Settled(s) = Settled(s)
BY DEF Delivery!Settled, Settled

\* The lines of the batch may be settled as a whole: none outruns an earlier one.
LEMMA BatchInOrder ==
  ASSUME IInv
  PROVE  LET S == [s \in Sources |-> LinesOf(batch, s)]
         IN S \in Delivery!Lines /\ Delivery!InOrder(S)
<1> DEFINE S == [s \in Sources |-> LinesOf(batch, s)]
<1>1. batch \in Seq(Message)
  BY DEF IInv, TypeOK
<1>2. S \in [Sources -> SUBSET (1..MaxLines)]
  BY <1>1, LinesOfType
<1>3. ASSUME NEW s \in Sources, NEW n \in LinesOf(batch, s)
      PROVE  n \in 1..written[s] /\ 1..n \subseteq Settled(s) \cup LinesOf(batch, s)
  <2>1. PICK k \in DOMAIN batch : batch[k].src = s /\ batch[k].off = n
    BY <1>1, <1>3, InLinesOf
  <2>2. n \in 1..toff[s] /\ 1..n \subseteq Settled(s) \cup LinesOf(batch, s)
    BY <2>1, AckedPrefixSettled
  <2>3. toff[s] <= written[s] /\ toff[s] \in 0..MaxLines /\ written[s] \in 0..MaxLines
    BY DEF IInv, Covered, TypeOK
  <2>4. QED BY <2>2, <2>3, MaxLinesAssumption
<1>4. QED BY <1>2, <1>3, SettledThere DEF Delivery!Lines, Delivery!InOrder

LEMMA DeliveryInit == Init => Delivery!Init
  BY DEF Init, Delivery!Init, NoEntry, Delivery!NoEntry

LEMMA DeliveryStep == IInv /\ [Next]_vars => [Delivery!Next]_(Delivery!vars)
<1> SUFFICES ASSUME IInv, [Next]_vars
             PROVE  Delivery!Next \/ UNCHANGED <<written, delivered, refused, skipped, disk>>
  BY DEF Delivery!vars
<1> DEFINE S == [s \in Sources |-> LinesOf(batch, s)]
<1>1. S \in Delivery!Lines /\ Delivery!InOrder(S)
  BY BatchInOrder
<1>2. ASSUME NEW s \in Sources, Write(s) PROVE Delivery!Next
  BY <1>2 DEF Write, registryVars, Delivery!Next, Delivery!Write
<1>3. ASSUME NEW s \in Sources, TailerOpen(s)
      PROVE  Delivery!Next \/ UNCHANGED <<written, delivered, refused, skipped, disk>>
  <2>1. CASE mem[s] = NoEntry
    <3>1. disk[s] = NoEntry
      <4>1. /\ disk[s] \in NoEntry..MaxLines /\ snap[s] \in NoEntry..MaxLines
            /\ disk[s] <= snap[s] /\ snap[s] <= mem[s]
        BY DEF IInv, TypeOK, Chain
      <4>2. QED BY <4>1, <2>1, MaxLinesAssumption DEF NoEntry
    <3>2. skipped' = [skipped EXCEPT ![s] = @ \cup 1..written[s]]
      BY <1>3, <2>1 DEF TailerOpen
    <3>3. UNCHANGED <<written, delivered, refused, disk>>
      BY <1>3 DEF TailerOpen, registryVars
    <3>4. Delivery!StartAtEnd(s)
      BY <3>1, <3>2, <3>3 DEF Delivery!StartAtEnd, Delivery!NoEntry, NoEntry
    <3>5. QED BY <3>4 DEF Delivery!Next
  <2>2. CASE mem[s] # NoEntry
    <3>1. skipped' = [skipped EXCEPT ![s] = skipped[s]] /\ UNCHANGED <<written, delivered, refused, disk>>
      BY <1>3, <2>2 DEF TailerOpen, registryVars
    <3>2. skipped' = skipped
      BY <3>1 DEF IInv, TypeOK
    <3>3. QED BY <3>1, <3>2
  <2>3. QED BY <2>1, <2>2
<1>4. ASSUME SendStored \/ SendAnswerLost \/ SendStoredRefused PROVE Delivery!Next
  <2>1. /\ delivered' = [s \in Sources |-> delivered[s] \cup LinesOf(batch, s)]
        /\ UNCHANGED <<written, refused, skipped, disk>>
    BY <1>4 DEF SendStored, SendAnswerLost, SendStoredRefused, Store, registryVars
  <2>2. delivered' = [s \in Sources |-> delivered[s] \cup S[s]]
    BY <2>1
  <2>3. Delivery!Deliver(S)
    BY <1>1, <2>1, <2>2 DEF Delivery!Deliver
  <2>4. QED BY <1>1, <2>3 DEF Delivery!Next
<1>5. ASSUME SendRefused PROVE Delivery!Next
  <2>1. /\ refused' = [s \in Sources |-> refused[s] \cup LinesOf(batch, s)]
        /\ UNCHANGED <<written, delivered, skipped, disk>>
    BY <1>5 DEF SendRefused, registryVars
  <2>2. refused' = [s \in Sources |-> refused[s] \cup S[s]]
    BY <2>1
  <2>3. Delivery!Refuse(S)
    BY <1>1, <2>1, <2>2 DEF Delivery!Refuse
  <2>4. QED BY <1>1, <2>3 DEF Delivery!Next
<1>6. ASSUME FlushEnd
      PROVE  Delivery!Next \/ UNCHANGED <<written, delivered, refused, skipped, disk>>
  <2>1. disk' \in {snap, disk} /\ UNCHANGED <<written, delivered, refused, skipped>>
    BY <1>6 DEF FlushEnd, fileVars
  <2>2. ASSUME NEW s \in Sources PROVE disk[s] <= snap[s] /\ 1..snap[s] \subseteq Settled(s)
    <3>1. /\ snap[s] \in NoEntry..MaxLines /\ mem[s] \in NoEntry..MaxLines
          /\ disk[s] <= snap[s] /\ snap[s] <= mem[s] /\ 1..mem[s] \subseteq Settled(s)
      BY DEF IInv, TypeOK, Chain
    <3>2. 1..snap[s] \subseteq 1..mem[s]
      BY <3>1, MaxLinesAssumption DEF NoEntry
    <3>3. QED BY <3>1, <3>2
  <2>3. snap \in [Sources -> Delivery!NoEntry..MaxLines]
    BY DEF IInv, TypeOK, NoEntry, Delivery!NoEntry
  <2>4. CASE disk' = snap
    <3>1. Delivery!Persist(snap)
      BY <2>1, <2>2, <2>4, SettledThere DEF Delivery!Persist
    <3>2. QED BY <2>3, <3>1 DEF Delivery!Next
  <2>5. CASE disk' = disk
    BY <2>1, <2>5
  <2>6. QED BY <2>1, <2>4, <2>5
<1>7. ASSUME NEW s \in Sources, Tailer(s), ~TailerOpen(s)
      PROVE  UNCHANGED <<written, delivered, refused, skipped, disk>>
  BY <1>7 DEF Tailer, TailerSend, TailerDrop, TailerEOF, TailerWake, TailerStop, fileVars,
              registryVars
<1>8. ASSUME Receive \/ Drain \/ Tick \/ Abandon \/ AckOne \/ SendFailed
      PROVE  UNCHANGED <<written, delivered, refused, skipped, disk>>
  BY <1>8 DEF Receive, TakeMessage, Drain, Tick, Abandon, AckOne, SendFailed, fileVars, registryVars
<1>9. ASSUME \/ FlushTick \/ FlushLast \/ FlushMain \/ Stop \/ CloseChannel \/ RegCancel
             \/ Crash \/ Restart \/ Finished \/ UNCHANGED vars
      PROVE  UNCHANGED <<written, delivered, refused, skipped, disk>>
  BY <1>9 DEF FlushTick, FlushLast, FlushMain, Stop, CloseChannel, RegCancel, Crash, Restart,
              Finished, vars, fileVars, registryVars
<1>10. QED
  BY <1>2, <1>3, <1>4, <1>5, <1>6, <1>7, <1>8, <1>9 DEF Next, Batcher, Send, RegistryFlush

\* In order per source, durable offsets never past unsettled lines and never
\* backwards: through tailers, retries, shutdown, crash and restart.
THEOREM ImplementsDelivery == Spec => DeliverySpec
<1>1. Init => Delivery!Init
  BY DeliveryInit
<1>2. IInv /\ [Next]_vars => [Delivery!Next]_(Delivery!vars)
  BY DeliveryStep
<1>3. QED BY <1>1, <1>2, Invariance, PTL DEF Spec, DeliverySpec, Delivery!Spec
----------------------------------------------------------------------------
(* The last flush.                                                         *)

\* Agent.Run's own Flush has copied offsets that nothing changes any more: the
\* batcher has returned and so has the registry's goroutine.
LastFlush == main = "final" => fpc = "main" /\ snap = mem

LEMMA LastFlushStep ==
  ASSUME IInv, LastFlush, [Next]_vars
  PROVE  LastFlush'
<1>1. main = "final" => bpc = "done" /\ \A s \in Sources : tpc[s] = "stopped"
  BY DEF IInv, ShutdownInv
<1>2. ASSUME NEW s \in Sources, Write(s) \/ Tailer(s) PROVE LastFlush'
  BY <1>2 DEF LastFlush, Write, Tailer, TailerOpen, TailerSend, TailerDrop, TailerEOF, TailerWake,
     TailerStop, registryVars, mainVars
<1>3. CASE AckOne
  BY <1>1, <1>3 DEF LastFlush, AckOne, mainVars
<1>4. CASE Receive \/ Drain \/ Tick \/ Abandon \/ Send
  BY <1>4 DEF LastFlush, Receive, TakeMessage, Drain, Tick, Abandon, Send, SendStored, SendAnswerLost,
     SendFailed, SendRefused, SendStoredRefused, registryVars, mainVars
<1>5. CASE FlushMain
  BY <1>5 DEF LastFlush, FlushMain
<1>6. CASE FlushTick \/ FlushLast \/ FlushEnd
  BY <1>6 DEF LastFlush, FlushTick, FlushLast, FlushEnd, mainVars
<1>7. CASE Stop \/ CloseChannel \/ RegCancel \/ Crash \/ Restart
  BY <1>7 DEF LastFlush, Stop, CloseChannel, RegCancel, Crash, Restart
<1>8. CASE UNCHANGED vars
  BY <1>8 DEF LastFlush, vars, registryVars, mainVars
<1> QED
  BY <1>2, <1>3, <1>4, <1>5, <1>6, <1>7, <1>8 DEF Next, Batcher, RegistryFlush, Finished

\* The process exits with the offsets of the final drain on disk, or, when that
\* write failed, with the file left as it was (Agent.Run's last Flush).
THEOREM ExitIsPersisted == Spec => ExitPersisted
<1>1. Init => LastFlush
  BY DEF Init, LastFlush
<1>2. ASSUME IInv, LastFlush, [Next]_vars
      PROVE  [main' = "exited" /\ main # "exited" => disk' \in {mem, disk}]_vars
  <2> SUFFICES ASSUME Next, main' = "exited", main # "exited" PROVE disk' \in {mem, disk}
    BY <1>2
  <2>1. (FlushEnd /\ fpc = "main" /\ main' = "exited") \/ disk' = disk
    BY DEF Next, Write, Tailer, TailerOpen, TailerSend, TailerDrop, TailerEOF, TailerWake, TailerStop,
       Batcher, AckOne, Receive, TakeMessage, Drain, Tick, Abandon, Send, SendStored, SendAnswerLost,
       SendFailed, SendRefused, SendStoredRefused, RegistryFlush, FlushTick, FlushLast, FlushMain, FlushEnd,
       Stop, CloseChannel, RegCancel, Crash, Restart, Finished, vars, registryVars
  <2>2. CASE FlushEnd /\ fpc = "main"
    BY <1>2, <2>2 DEF FlushEnd, Alive, LastFlush, IInv, ShutdownInv
  <2> QED
    BY <2>1, <2>2
<1> QED
  BY <1>1, <1>2, LastFlushStep, Invariance, PTL DEF Spec, ExitPersisted
============================================================================
