-------------------------- MODULE LogTailerProofs --------------------------
(***************************************************************************)
(* Proofs about LogTailer, for any rules, any sizes and any bounds: what   *)
(* an offset means, that no registry entry is ahead of what is settled,    *)
(* how much is buffered and what a rotation reads.                         *)
(***************************************************************************)
EXTENDS LogTailer, TLAPS

LEMMA Constants ==
  /\ MaxUnits \in Nat /\ MaxGens \in Nat /\ MaxGens > 0 /\ MaxTruncs \in Nat /\ MaxRestarts \in Nat
  /\ Chunk \in Nat /\ Chunk > 0 /\ MaxLine \in Nat /\ MaxLine > 0 /\ Cap \in Nat /\ Cap > 0
BY BoundsAssumption, SizesAssumption

----------------------------------------------------------------------------
(* Sequences.                                                              *)

LEMMA SubSeqFacts ==
  ASSUME NEW S, NEW q \in Seq(S), NEW m \in Nat, NEW n \in Nat, m >= 1, n <= Len(q), m <= n + 1
  PROVE  /\ SubSeq(q, m, n) \in Seq(S)
         /\ Len(SubSeq(q, m, n)) = n - m + 1
         /\ \A i \in 1..(n - m + 1) : SubSeq(q, m, n)[i] = q[m + i - 1]
OBVIOUS

LEMMA ConcatFacts ==
  ASSUME NEW S, NEW q \in Seq(S), NEW r \in Seq(S)
  PROVE  /\ q \o r \in Seq(S) /\ Len(q \o r) = Len(q) + Len(r)
         /\ \A i \in 1..Len(q) : (q \o r)[i] = q[i]
         /\ \A i \in 1..Len(r) : (q \o r)[Len(q) + i] = r[i]
OBVIOUS

LEMMA AppendFacts ==
  ASSUME NEW S, NEW q \in Seq(S), NEW e \in S
  PROVE  /\ Append(q, e) \in Seq(S) /\ Len(Append(q, e)) = Len(q) + 1
         /\ \A i \in 1..Len(q) : Append(q, e)[i] = q[i]
         /\ Append(q, e)[Len(q) + 1] = e
OBVIOUS

LEMMA SameSeq ==
  ASSUME NEW S, NEW q \in Seq(S), NEW r \in Seq(S), Len(q) = Len(r), \A i \in 1..Len(q) : q[i] = r[i]
  PROVE  q = r
OBVIOUS

LEMMA EmptySeq ==
  ASSUME NEW S, NEW q \in Seq(S)
  PROVE  /\ Len(q) \in Nat /\ DOMAIN q = 1..Len(q) /\ (q = <<>> <=> Len(q) = 0)
         /\ \A i \in 1..Len(q) : q[i] \in S
         /\ <<>> \in Seq(S) /\ Len(<<>>) = 0 /\ SeqSet(<<>>) = {}
BY DEF SeqSet

LEMMA SeqSetOf ==
  ASSUME NEW S, NEW q \in Seq(S)
  PROVE  /\ \A x : x \in SeqSet(q) <=> \E i \in 1..Len(q) : x = q[i]
         /\ SeqSet(q) \subseteq S
BY DEF SeqSet

LEMMA SeqSetConcat ==
  ASSUME NEW S, NEW q \in Seq(S), NEW r \in Seq(S)
  PROVE  SeqSet(q \o r) = SeqSet(q) \cup SeqSet(r)
<1>1. q \o r \in Seq(S)
  BY ConcatFacts
<1>2. \A x : x \in SeqSet(q \o r) <=> \E i \in 1..(Len(q) + Len(r)) : x = (q \o r)[i]
  <2>1. \A x : x \in SeqSet(q \o r) <=> \E i \in 1..Len(q \o r) : x = (q \o r)[i]
    BY <1>1, SeqSetOf
  <2> QED
    BY <2>1, ConcatFacts
<1>3. \A i \in 1..(Len(q) + Len(r)) : i \notin 1..Len(q) => \E j \in 1..Len(r) : i = Len(q) + j
  <2> SUFFICES ASSUME NEW i \in 1..(Len(q) + Len(r)), i \notin 1..Len(q)
               PROVE  \E j \in 1..Len(r) : i = Len(q) + j
    OBVIOUS
  <2>1. Len(q) \in Nat /\ Len(r) \in Nat
    BY EmptySeq
  <2>2. i - Len(q) \in 1..Len(r) /\ i = Len(q) + (i - Len(q))
    BY <2>1
  <2> QED
    BY <2>2
<1>4. \A i \in 1..Len(q) : i \in 1..(Len(q) + Len(r)) /\ (q \o r)[i] = q[i]
  BY ConcatFacts, EmptySeq
<1>5. \A j \in 1..Len(r) : Len(q) + j \in 1..(Len(q) + Len(r)) /\ (q \o r)[Len(q) + j] = r[j]
  BY ConcatFacts, EmptySeq
<1>6. ASSUME NEW x
      PROVE  x \in SeqSet(q \o r) <=> x \in SeqSet(q) \/ x \in SeqSet(r)
  <2>1. (\E i \in 1..(Len(q) + Len(r)) : x = (q \o r)[i])
          <=> (\E i \in 1..Len(q) : x = q[i]) \/ (\E j \in 1..Len(r) : x = r[j])
    BY <1>3, <1>4, <1>5
  <2> QED
    BY <1>2, <2>1, SeqSetOf
<1> QED
  BY <1>6

\* A sequence in two parts.
LEMMA SeqSetSplit ==
  ASSUME NEW S, NEW q \in Seq(S), NEW i \in 0..Len(q)
  PROVE  SeqSet(q) \subseteq SeqSet(SubSeq(q, 1, i)) \cup SeqSet(SubSeq(q, i + 1, Len(q)))
<1>1. /\ SubSeq(q, 1, i) \in Seq(S) /\ Len(SubSeq(q, 1, i)) = i
      /\ \A j \in 1..i : SubSeq(q, 1, i)[j] = q[j]
  BY SubSeqFacts, EmptySeq
<1>2. /\ SubSeq(q, i + 1, Len(q)) \in Seq(S) /\ Len(SubSeq(q, i + 1, Len(q))) = Len(q) - i
      /\ \A j \in 1..(Len(q) - i) : SubSeq(q, i + 1, Len(q))[j] = q[i + j]
  BY SubSeqFacts, EmptySeq
<1> SUFFICES ASSUME NEW k \in 1..Len(q)
             PROVE  q[k] \in SeqSet(SubSeq(q, 1, i)) \/ q[k] \in SeqSet(SubSeq(q, i + 1, Len(q)))
  BY SeqSetOf
<1>3. CASE k <= i
  <2>1. q[k] = SubSeq(q, 1, i)[k] /\ k \in 1..i
    BY <1>1, <1>3
  <2> QED
    BY <1>1, <2>1, SeqSetOf
<1>4. CASE k > i
  <2> DEFINE s == SubSeq(q, i + 1, Len(q))
  <2>1. k - i \in 1..(Len(q) - i) /\ i + (k - i) = k
    BY <1>4, EmptySeq
  <2>2. q[k] = s[k - i] /\ k - i \in 1..Len(s) /\ s \in Seq(S)
    BY <1>2, <2>1
  <2> HIDE DEF s
  <2>3. q[k] \in SeqSet(s)
    BY <2>2, SeqSetOf
  <2> QED
    BY <2>3 DEF s
<1> QED
  BY <1>3, <1>4

LEMMA MessageFacts ==
  ASSUME NEW m \in Message
  PROVE  m.ids \in Seq(Units) /\ m.off \in 0..MaxUnits /\ m.gen \in Gens
BY DEF Message

----------------------------------------------------------------------------
(* A line through the processor.                                           *)

LEMMA Facts ==
  ASSUME TypeOK
  PROVE  /\ toff \in Nat /\ Len(partial) \in Nat /\ Len(pending) \in Nat /\ Pos \in Nat
         /\ gens \in 1..MaxGens /\ last \in Nat /\ last <= MaxUnits /\ truncs \in Nat
         /\ \A g \in Gens : files[g] \in Seq(Units) /\ Len(files[g]) \in Nat
         /\ fd # 0 => fd \in Gens /\ fd \in Nat
         /\ path # 0 => path \in Gens /\ path \in Nat
         /\ wfd \in Gens
         /\ MaxUnits \in Nat /\ Len(chan) \in Nat /\ Len(hand) \in Nat
<1>1. /\ gens \in 1..MaxGens /\ fd \in 0..gens /\ path \in 0..gens /\ wfd \in 1..gens
      /\ files \in [Gens -> Seq(Units)] /\ toff \in 0..MaxUnits /\ last \in 0..MaxUnits
      /\ partial \in Seq(Units) /\ pending \in Seq(Units) /\ truncs \in 0..MaxTruncs
      /\ chan \in Seq(Message) /\ hand \in Seq(Message)
  BY DEF TypeOK, Gens
<1>2. Len(partial) \in Nat /\ Len(pending) \in Nat /\ Len(chan) \in Nat /\ Len(hand) \in Nat
  BY <1>1, EmptySeq
<1>3. \A g \in Gens : files[g] \in Seq(Units) /\ Len(files[g]) \in Nat
  BY <1>1, EmptySeq
<1>4. /\ fd # 0 => fd \in Gens /\ fd \in Nat
      /\ path # 0 => path \in Gens /\ path \in Nat
      /\ wfd \in Gens
  BY <1>1, Constants DEF Gens
<1> QED
  BY <1>1, <1>2, <1>3, <1>4, Constants DEF Pos

\* The message that is made of a run of units, unless a rule drops it.
LEMMA FinishFacts ==
  ASSUME TypeOK, fd # 0, NEW ids \in Seq(Units), NEW at \in 0..MaxUnits, Finish(ids, at)
  PROVE  /\ hand' \in Seq(Message) /\ Len(hand') <= 1
         /\ excluded \subseteq excluded' /\ excluded' \subseteq Units
         /\ hand' # <<>> => hand'[1].ids = ids /\ hand'[1].off = at /\ hand'[1].gen = fd
         /\ SeqSet(ids) \subseteq excluded' \cup InHand'
<1> DEFINE m == [ids |-> ids, off |-> at, gen |-> fd]
<1>1. m \in Message /\ m.ids = ids /\ m.off = at /\ m.gen = fd
  BY Facts DEF Message
<1>2. SeqSet(ids) \subseteq Units /\ excluded \subseteq Units
  BY SeqSetOf DEF TypeOK
<1>3. \/ hand' = <<>> /\ excluded' = excluded \cup SeqSet(ids)
      \/ hand' = <<m>> /\ excluded' = excluded
  BY DEF Finish
<1> HIDE DEF m
<1>4. CASE hand' = <<>> /\ excluded' = excluded \cup SeqSet(ids)
  BY <1>2, <1>4
<1>5. CASE hand' = <<m>> /\ excluded' = excluded
  <2>1. hand' \in Seq(Message) /\ Len(hand') = 1 /\ hand'[1] = m
    BY <1>1, <1>5
  <2>2. DOMAIN hand' = {1}
    BY <2>1
  <2>3. InHand' = SeqSet(ids)
    BY <1>1, <2>1, <2>2 DEF InHand, SeqSet
  <2> QED
    BY <1>1, <1>2, <1>5, <2>1, <2>3
<1> QED
  BY <1>3, <1>4, <1>5

\* A line of a run of units: the message it completes, if any, and the message that
\* is buffered behind it.
Fed(line, off) ==
  /\ hand' \in Seq(Message) /\ Len(hand') <= 1
  /\ excluded \subseteq excluded' /\ excluded' \subseteq Units
  /\ pending' \in Seq(Units) /\ pendingOff' \in 0..MaxUnits
  /\ Len(pending') <= MaxLine + Chunk
  /\ ~multi => pending' = <<>>
  /\ SeqSet(pending) \cup SeqSet(line) \subseteq excluded' \cup InHand' \cup SeqSet(pending')
  /\ hand' # <<>> =>
       /\ hand'[1].gen = fd
       /\ \/ /\ hand'[1].ids = pending /\ hand'[1].off = pendingOff /\ pending # <<>>
             /\ SeqSet(pending) \subseteq InHand'
          \/ /\ hand'[1].ids = pending \o line /\ hand'[1].off = off /\ pending' = <<>>
  /\ pending' # <<>> => pendingOff' = off /\ pending' \in {line, pending \o line}

LEMMA FeedFacts ==
  ASSUME TypeOK, Places, hand = <<>>, fd # 0,
         NEW line \in Seq(Units), line # <<>>, Len(line) <= MaxLine + Chunk,
         NEW off \in 0..MaxUnits, Feed(line, off)
  PROVE  Fed(line, off)
<1> USE Constants
<1>1. /\ pending \in Seq(Units) /\ pendingOff \in 0..MaxUnits /\ excluded \subseteq Units
      /\ ~multi => pending = <<>>
  BY DEF TypeOK, Places
<1>2. pending \o line \in Seq(Units) /\ SeqSet(pending \o line) = SeqSet(pending) \cup SeqSet(line)
  BY <1>1, ConcatFacts, SeqSetConcat
<1>3. CASE ~multi /\ Finish(line, off) /\ UNCHANGED <<pending, pendingOff>>
  <2>1. pending = <<>> /\ pending' = <<>> /\ SeqSet(pending) = {} /\ SeqSet(pending') = {} /\ Len(pending') = 0
    BY <1>1, <1>3, EmptySeq
  <2>2. pending \o line = line
    BY <2>1
  <2> QED
    BY <1>1, <1>3, <2>1, <2>2, FinishFacts DEF Fed
<1>4. CASE multi /\ pending # <<>> /\ Finish(pending, pendingOff) /\ Buffer(line, off)
  <2>1. pending' = line /\ pendingOff' = off
    BY <1>4 DEF Buffer
  <2>2. /\ hand' \in Seq(Message) /\ Len(hand') <= 1
        /\ excluded \subseteq excluded' /\ excluded' \subseteq Units
        /\ hand' # <<>> => hand'[1].ids = pending /\ hand'[1].off = pendingOff /\ hand'[1].gen = fd
        /\ SeqSet(pending) \subseteq excluded' \cup InHand'
    BY <1>1, <1>4, FinishFacts
  <2>3. hand' # <<>> => SeqSet(pending) \subseteq InHand'
    <3>1. hand' # <<>> => 1 \in DOMAIN hand'
      BY <2>2
    <3> QED
      BY <2>2, <3>1 DEF InHand
  <2> QED
    BY <1>1, <1>4, <2>1, <2>2, <2>3 DEF Fed
<1>5. CASE multi /\ FlushPending(pending \o line, off)
  <2>1. pending' = <<>> /\ pendingOff' = 0 /\ SeqSet(pending') = {} /\ Len(pending') = 0
    BY <1>5, EmptySeq DEF FlushPending
  <2>2. Finish(pending \o line, off)
    BY <1>5 DEF FlushPending
  <2>3. /\ hand' \in Seq(Message) /\ Len(hand') <= 1
        /\ excluded \subseteq excluded' /\ excluded' \subseteq Units
        /\ hand' # <<>> => hand'[1].ids = pending \o line /\ hand'[1].off = off /\ hand'[1].gen = fd
        /\ SeqSet(pending \o line) \subseteq excluded' \cup InHand'
    BY <1>2, <2>2, FinishFacts
  <2>4. pending' \in Seq(Units) /\ pendingOff' \in 0..MaxUnits /\ Len(pending') <= MaxLine + Chunk
    BY <2>1
  <2> QED
    BY <1>2, <2>1, <2>3, <2>4 DEF Fed
<1>6. CASE multi /\ Len(pending \o line) <= MaxLine /\ Buffer(pending \o line, off) /\ UNCHANGED <<hand, excluded>>
  <2>1. hand' = <<>> /\ hand' \in Seq(Message) /\ Len(hand') = 0
    BY <1>6 DEF TypeOK
  <2>2. pending' = pending \o line /\ pendingOff' = off /\ Len(pending') <= MaxLine + Chunk
    BY <1>2, <1>6, EmptySeq DEF Buffer
  <2> QED
    BY <1>1, <1>2, <1>6, <2>1, <2>2 DEF Fed
<1>7. Len(pending \o line) > MaxLine \/ Len(pending \o line) <= MaxLine
  BY <1>2, EmptySeq
<1> QED
  BY <1>3, <1>4, <1>5, <1>6, <1>7 DEF Feed

----------------------------------------------------------------------------
(* Runs and what they cover.                                               *)

\* A run is what it is in a file that has grown.
Grown == \A g \in Gens : /\ files'[g] \in Seq(Units) /\ Len(files[g]) <= Len(files'[g])
                         /\ \A i \in 1..Len(files[g]) : files'[g][i] = files[g][i]

LEMMA RunGrows ==
  ASSUME Grown, NEW q \in Seq(Units), NEW g \in Gens, NEW n \in Nat, files[g] \in Seq(Units), Run(q, g, n)
  PROVE  /\ Len(q) <= n /\ n <= Len(files'[g])
         /\ \A i \in 1..Len(q) : q[i] = files'[g][n - Len(q) + i]
<1>1. Len(q) \in Nat /\ Len(files[g]) \in Nat /\ Len(files'[g]) \in Nat
  BY EmptySeq DEF Grown
<1>2. \A i \in 1..Len(q) : n - Len(q) + i \in 1..Len(files[g])
  BY <1>1 DEF Run
<1>3. Len(q) <= n /\ n <= Len(files[g]) /\ Len(files[g]) <= Len(files'[g])
  BY DEF Grown, Run
<1>4. n <= Len(files'[g])
  BY <1>1, <1>3
<1>5. \A i \in 1..Len(q) : files[g][n - Len(q) + i] = files'[g][n - Len(q) + i]
  BY <1>2 DEF Grown
<1> QED
  BY <1>3, <1>4, <1>5 DEF Run

LEMMA WithinGrows ==
  ASSUME Grown, NEW g \in Gens, NEW n \in Nat, files[g] \in Seq(Units), NEW S, NEW T, S \subseteq T,
         Within(g, n, S)
  PROVE  n <= Len(files'[g]) /\ \A i \in 1..n : files'[g][i] \in T
<1>1. Len(files[g]) \in Nat /\ Len(files'[g]) \in Nat
  BY EmptySeq DEF Grown
<1>2. \A i \in 1..n : i \in 1..Len(files[g])
  BY <1>1 DEF Within
<1> QED
  BY <1>1, <1>2 DEF Grown, Within

LEMMA WithinMore ==
  ASSUME NEW g, NEW n, NEW S, NEW T, S \subseteq T, Within(g, n, S)
  PROVE  Within(g, n, T)
BY DEF Within

\* A run after a run is a run; and what a run ends covers as far as the run.
LEMMA RunConcat ==
  ASSUME NEW g \in Gens, files[g] \in Seq(Units), NEW q \in Seq(Units), NEW r \in Seq(Units), NEW n \in Nat,
         Run(q, g, n), Run(r, g, n + Len(r))
  PROVE  Run(q \o r, g, n + Len(r))
<1> DEFINE s == q \o r
<1>1. /\ Len(q) \in Nat /\ Len(r) \in Nat /\ Len(files[g]) \in Nat
      /\ s \in Seq(Units) /\ Len(s) = Len(q) + Len(r)
      /\ \A i \in 1..Len(q) : s[i] = q[i]
      /\ \A i \in 1..Len(r) : s[Len(q) + i] = r[i]
  BY ConcatFacts, EmptySeq
<1> HIDE DEF s
<1>2. ASSUME NEW i \in 1..Len(s)
      PROVE  s[i] = files[g][n + Len(r) - Len(s) + i]
  <2>1. CASE i <= Len(q)
    <3>1. i \in 1..Len(q) /\ n + Len(r) - Len(s) + i = n - Len(q) + i
      BY <1>1, <2>1
    <3> QED
      BY <1>1, <3>1 DEF Run
  <2>2. CASE i > Len(q)
    <3>1. i - Len(q) \in 1..Len(r) /\ i = Len(q) + (i - Len(q))
      BY <1>1, <2>2
    <3>2. n + Len(r) - Len(s) + i = n + Len(r) - Len(r) + (i - Len(q))
      BY <1>1
    <3>3. s[i] = r[i - Len(q)]
      BY <1>1, <3>1
    <3>4. r[i - Len(q)] = files[g][n + Len(r) - Len(r) + (i - Len(q))]
      BY <3>1 DEF Run
    <3> QED
      BY <3>2, <3>3, <3>4
  <2> QED
    BY <1>1, <2>1, <2>2
<1>3. Len(s) <= n + Len(r) /\ n + Len(r) <= Len(files[g])
  BY <1>1 DEF Run
<1>4. Run(s, g, n + Len(r))
  BY <1>2, <1>3 DEF Run
<1> QED
  BY <1>4 DEF s

LEMMA RunCovers ==
  ASSUME NEW g \in Gens, files[g] \in Seq(Units), NEW r \in Seq(Units), NEW n \in Nat,
         Run(r, g, n + Len(r)), NEW S, Within(g, n, S)
  PROVE  Within(g, n + Len(r), S \cup SeqSet(r))
<1>1. Len(r) \in Nat /\ Len(files[g]) \in Nat
  BY EmptySeq
<1>2. ASSUME NEW i \in 1..(n + Len(r))
      PROVE  files[g][i] \in S \cup SeqSet(r)
  <2>1. CASE i <= n
    BY <2>1 DEF Within
  <2>2. CASE i > n
    <3>1. i - n \in 1..Len(r) /\ n + Len(r) - Len(r) + (i - n) = i
      BY <1>1, <2>2
    <3>2. r[i - n] = files[g][i]
      BY <3>1 DEF Run
    <3> QED
      BY <3>1, <3>2, SeqSetOf
  <2> QED
    BY <1>1, <2>1, <2>2
<1>3. n + Len(r) <= Len(files[g])
  BY DEF Run
<1> QED
  BY <1>2, <1>3 DEF Within

\* What is carried does not change while the channel does not.
LEMMA CarriedIs == \A k, x : x \in Carried(k) <=> \E j \in 1..k : x \in SeqSet(chan[j].ids)
BY DEF Carried

LEMMA InHandIs ==
  ASSUME hand \in Seq(Message), Len(hand) <= 1
  PROVE  /\ hand = <<>> => InHand = {}
         /\ hand # <<>> => hand[1] \in Message /\ InHand = SeqSet(hand[1].ids)
<1>1. Len(hand) \in Nat /\ DOMAIN hand = 1..Len(hand) /\ (hand = <<>> <=> Len(hand) = 0)
      /\ \A i \in 1..Len(hand) : hand[i] \in Message
  BY EmptySeq
<1>2. CASE hand = <<>>
  BY <1>1, <1>2 DEF InHand
<1>3. CASE hand # <<>>
  <2>1. DOMAIN hand = {1} /\ hand[1] \in Message
    BY <1>1, <1>3
  <2> QED
    BY <1>3, <2>1 DEF InHand
<1> QED
  BY <1>2, <1>3

\* A line leaves the read buffer: it and what was buffered before are in hand,
\* buffered or dropped by a rule, and the offset moves behind it.
LEMMA LineStep ==
  ASSUME IInv, hand = <<>>, fd # 0, tpc \in {"emit", "rotate"}, NEW i \in 1..Len(partial),
         Fed(SubSeq(partial, 1, i), toff + i),
         toff' = toff + i, partial' = SubSeq(partial, i + 1, Len(partial)),
         tpc' \in {"emit", "read", "rotate"}, tpc' = "rotate" => tpc = "rotate",
         tpc' # "emit" => partial' = <<>>,
         OthersUnchanged, UNCHANGED <<fd, resume, chan, skipped, sent, fresh, failed>>
  PROVE  IInv'
<1> USE Constants
<1> DEFINE line == SubSeq(partial, 1, i)
           off == toff + i
<1>1. TypeOK /\ Places /\ BufferBound /\ Unread
  BY DEF IInv
<1>2. /\ partial \in Seq(Units) /\ Len(partial) \in Nat /\ fd \in Gens /\ toff \in Nat
      /\ Pos <= MaxUnits /\ files[fd] \in Seq(Units) /\ pending \in Seq(Units)
  BY <1>1, Facts DEF TypeOK, Places
<1>3. /\ line \in Seq(Units) /\ Len(line) = i /\ \A j \in 1..i : line[j] = partial[j]
      /\ partial' \in Seq(Units) /\ Len(partial') = Len(partial) - i
      /\ \A j \in 1..(Len(partial) - i) : partial'[j] = partial[i + j]
  BY <1>2, SubSeqFacts
<1>4. off \in 0..MaxUnits /\ Pos' = Pos /\ Pos = toff + Len(partial) /\ i \in Nat /\ i <= Len(partial)
  <2>1. i \in Nat /\ i <= Len(partial) /\ 1 <= i
    BY <1>2
  <2>2. Pos = toff + Len(partial) /\ Pos' = toff' + Len(partial')
    BY DEF Pos
  <2>3. Pos' = (toff + i) + (Len(partial) - i)
    BY <1>3, <2>2
  <2>4. Pos' = Pos
    <3>1. \A a, b, c \in Nat : (a + c) + (b - c) = a + b
      OBVIOUS
    <3>2. (toff + i) + (Len(partial) - i) = toff + Len(partial)
      BY <1>2, <2>1, <3>1
    <3> QED
      BY <2>2, <2>3, <3>2
  <2>5. off \in 0..MaxUnits
    BY <1>2, <2>1, <2>2
  <2> QED
    BY <2>1, <2>2, <2>4, <2>5
<1>5. UNCHANGED <<multi, files, last, path, wfd, gens, truncs, mem, disk, main, restarts, delivered>>
  BY DEF OthersUnchanged, envVars, registryVars, mainVars
<1>6. Fed(line, off)
  OBVIOUS
<1> HIDE DEF line
<1>7. TypeOK'
  BY <1>1, <1>3, <1>4, <1>5, <1>6 DEF TypeOK, Fed
<1>8. Places'
  <2>1. Len(partial') <= MaxLine \/ tpc' = "emit"
    <3>1. partial' = <<>> => Len(partial') = 0
      OBVIOUS
    <3>2. \A a \in {0} : a <= MaxLine
      OBVIOUS
    <3> QED
      BY ONLY <3>1, <3>2, tpc' # "emit" => partial' = <<>>
  <2> QED
    BY <1>1, <1>4, <1>5, <1>6, <2>1 DEF Places, Fed
<1>9. BufferBound'
  BY <1>1, <1>2, <1>3, <1>6 DEF BufferBound, Fed
<1>10. Unread'
  BY <1>1, <1>4, <1>5 DEF Unread
<1>11. ASSUME truncs = 0
       PROVE  Runs' /\ Covered'
  <2>1. Runs /\ Covered
    BY <1>11 DEF IInv
  <2>2. Run(line, fd, off) /\ Run(partial, fd, Pos)
    <3>1. Run(partial, fd, Pos)
      BY <1>2, <2>1 DEF Runs
    <3>2. off <= Len(files[fd]) /\ Len(line) <= off
      BY <1>2, <1>3, <1>4, <3>1 DEF Run
    <3>3. \A j \in 1..i : line[j] = files[fd][off - Len(line) + j]
      <4> SUFFICES ASSUME NEW j \in 1..i
                   PROVE  line[j] = files[fd][off - Len(line) + j]
        OBVIOUS
      <4>1. j \in 1..Len(partial) /\ Pos - Len(partial) + j = off - Len(line) + j
        BY <1>2, <1>3, <1>4
      <4>2. partial[j] = files[fd][Pos - Len(partial) + j]
        BY <3>1, <4>1 DEF Run
      <4> QED
        BY <1>3, <4>1, <4>2
    <3> QED
      BY <1>3, <3>1, <3>2, <3>3 DEF Run
  <2>3. pending # <<>> => pendingOff = toff /\ Run(pending, fd, toff)
    BY <2>1 DEF Runs
  <2>4. off = toff + Len(line) /\ toff \in Nat
    BY <1>2, <1>3
  <2>5. Run(pending \o line, fd, off)
    <3>1. CASE pending = <<>>
      <4>1. pending \o line = line
        BY <1>3, <3>1
      <4> QED
        BY <2>2, <4>1
    <3>2. CASE pending # <<>>
      BY <1>2, <1>3, <2>2, <2>3, <2>4, <3>2, RunConcat
    <3> QED
      BY <3>1, <3>2
  <2>6. hand' # <<>> => Run(hand'[1].ids, hand'[1].gen, hand'[1].off)
    BY <1>6, <2>3, <2>5 DEF Fed
  <2>7. pending' # <<>> => pendingOff' = off /\ Run(pending', fd, off)
    BY <1>6, <2>2, <2>5 DEF Fed
  <2>8. Run(partial', fd, Pos)
    <3>1. Len(partial') <= Pos /\ Pos <= Len(files[fd])
      BY <1>2, <1>3, <2>2 DEF Run, Pos
    <3>2. \A j \in 1..(Len(partial) - i) : partial'[j] = files[fd][Pos - Len(partial) + (i + j)]
      BY <1>2, <1>3, <2>2 DEF Run
    <3>3. \A j \in 1..Len(partial') : partial'[j] = files[fd][Pos - Len(partial') + j]
      <4> SUFFICES ASSUME NEW j \in 1..Len(partial')
                   PROVE  partial'[j] = files[fd][Pos - Len(partial') + j]
        OBVIOUS
      <4>1. Pos - Len(partial') + j = Pos - Len(partial) + (i + j) /\ j \in 1..(Len(partial) - i)
        BY <1>1, <1>2, <1>3, Facts
      <4> QED
        BY <3>2, <4>1
    <3> QED
      BY <3>1, <3>3 DEF Run
  <2>9. Runs'
    BY <1>4, <1>5, <2>1, <2>6, <2>7, <2>8 DEF Runs, Run, RunOf
  <2>10. Covered'
    <3> DEFINE C == Carried(Len(chan))
    <3>1. Carried(Len(chan))' = C /\ Done \subseteq Done' /\ \A k : Carried(k)' = Carried(k)
      BY <1>5, <1>6 DEF Carried, Done, Fed
    <3>2. Within(fd, toff, Done \cup C \cup SeqSet(pending))
      <4>1. Within(fd, toff, Done \cup C \cup InHand \cup SeqSet(pending))
        BY <2>1 DEF Covered
      <4>2. InHand = {}
        BY DEF InHand
      <4> QED
        BY <4>1, <4>2
    <3>3. Within(fd, off, Done \cup C \cup SeqSet(pending) \cup SeqSet(line))
      BY <1>2, <1>3, <2>2, <2>4, <3>2, RunCovers
    <3>4. Within(fd, off, Done' \cup C \cup InHand' \cup SeqSet(pending'))
      <4>1. Done \cup C \cup SeqSet(pending) \cup SeqSet(line) \subseteq Done' \cup C \cup InHand' \cup SeqSet(pending')
        BY <1>6, <3>1 DEF Fed, Done
      <4> QED
        BY <3>3, <4>1, WithinMore
    <3>5. hand' # <<>> => Within(hand'[1].gen, hand'[1].off, Done' \cup C \cup InHand')
      <4>1. CASE hand'[1].off = pendingOff /\ pending # <<>> /\ SeqSet(pending) \subseteq InHand'
        <5>1. Done \cup C \cup SeqSet(pending) \subseteq Done' \cup C \cup InHand'
          BY <3>1, <4>1
        <5>2. Within(fd, toff, Done' \cup C \cup InHand')
          BY <3>2, <5>1, WithinMore
        <5> QED
          BY <1>6, <2>3, <4>1, <5>2 DEF Fed
      <4>2. CASE hand'[1].off = off /\ pending' = <<>>
        <5>1. SeqSet(pending') = {}
          BY <4>2 DEF SeqSet
        <5>2. Done' \cup C \cup InHand' \cup SeqSet(pending') \subseteq Done' \cup C \cup InHand'
          BY <5>1
        <5>3. Within(fd, off, Done' \cup C \cup InHand')
          BY <3>4, <5>2, WithinMore
        <5> QED
          BY <1>6, <4>2, <5>3 DEF Fed
      <4> QED
        BY <1>6, <4>1, <4>2 DEF Fed
    <3>6. \A e \in {mem, disk} \ {NoEntry} : Within(e.gen, e.off, Done')
      BY <2>1, <3>1, WithinMore DEF Covered
    <3>7. \A k \in DOMAIN chan : Within(chan[k].gen, chan[k].off, Done' \cup Carried(k))
      <4> SUFFICES ASSUME NEW k \in DOMAIN chan
                   PROVE  Within(chan[k].gen, chan[k].off, Done' \cup Carried(k))
        OBVIOUS
      <4>1. Within(chan[k].gen, chan[k].off, Done \cup Carried(k)) /\ Done \cup Carried(k) \subseteq Done' \cup Carried(k)
        BY <2>1, <3>1 DEF Covered
      <4> QED
        BY <4>1, WithinMore
    <3> HIDE DEF C
    <3> QED
      BY <1>5, <3>1, <3>4, <3>5, <3>6, <3>7 DEF Covered, Within
  <2> QED
    BY <2>9, <2>10
<1> QED
  BY <1>5, <1>7, <1>8, <1>9, <1>10, <1>11 DEF IInv

LEMMA EmitLineStep ==
  ASSUME IInv, EmitLine
  PROVE  IInv'
<1> USE Constants
<1>1. /\ TypeOK /\ Places /\ hand = <<>> /\ tpc = "emit" /\ tpc' = "emit" /\ fd # 0
      /\ OthersUnchanged /\ UNCHANGED <<fd, resume, chan, skipped, sent, fresh, failed>>
  BY DEF IInv, Places, EmitLine, Free
<1>2. partial \in Seq(Units) /\ Len(partial) \in Nat /\ toff \in Nat /\ Pos = toff + Len(partial)
      /\ Pos <= MaxUnits /\ Len(partial) <= MaxLine + Chunk /\ DOMAIN partial = 1..Len(partial)
  BY <1>1, Facts, EmptySeq DEF IInv, BufferBound, TypeOK, Places, Pos
<1>3. PICK i \in 1..Len(partial) :
        /\ toff' = toff + i
        /\ partial' = SubSeq(partial, i + 1, Len(partial))
        /\ IF i = 1 /\ partial[1] \in Blank /\ ~multi
           THEN SkipBlank(partial[1])
           ELSE Feed(SubSeq(partial, 1, i), toff + i)
  BY <1>2 DEF EmitLine
<1> DEFINE line == SubSeq(partial, 1, i)
           off == toff + i
<1>4. line \in Seq(Units) /\ Len(line) = i /\ \A j \in 1..i : line[j] = partial[j]
  BY <1>2, SubSeqFacts
<1>5. off \in 0..MaxUnits /\ line # <<>> /\ Len(line) <= MaxLine + Chunk
  <2>1. off \in 0..MaxUnits
    BY <1>2
  <2>2. Len(line) <= MaxLine + Chunk
    BY <1>2, <1>4
  <2>3. line # <<>>
    BY <1>4, EmptySeq
  <2> QED
    BY <2>1, <2>2, <2>3
<1> HIDE DEF line, off
<1>6. Feed(line, off) => Fed(line, off)
  BY <1>1, <1>4, <1>5, FeedFacts
<1>7. ASSUME i = 1, ~multi, SkipBlank(partial[1])
      PROVE  Fed(line, off)
  <2>1. /\ pending = <<>> /\ pending' = <<>> /\ hand' = <<>> /\ excluded' = excluded \cup {partial[1]}
        /\ pendingOff' = pendingOff /\ pendingOff \in 0..MaxUnits /\ excluded \subseteq Units
    BY <1>1, <1>7 DEF SkipBlank, Places, TypeOK
  <2>2. SeqSet(line) \subseteq {partial[1]} /\ SeqSet(pending) = {} /\ partial[1] \in Units
    <3>1. SeqSet(line) \subseteq {partial[1]}
      BY <1>4, <1>7, SeqSetOf
    <3>2. partial[1] \in Units
      BY <1>2, <1>7, EmptySeq
    <3> QED
      BY <2>1, <3>1, <3>2 DEF SeqSet
  <2>3. hand' \in Seq(Message) /\ Len(hand') <= 1 /\ pending' \in Seq(Units) /\ Len(pending') <= MaxLine + Chunk
    BY <2>1
  <2> QED
    BY <2>1, <2>2, <2>3 DEF Fed
<1>8. Fed(line, off)
  BY <1>3, <1>6, <1>7 DEF line, off
<1> QED
  BY <1>1, <1>3, <1>8, LineStep DEF line, off

\* What is left of a read, when it is too long or its file was rotated away.
LEMMA RestStep ==
  ASSUME IInv, hand = <<>>, fd # 0, tpc \in {"emit", "rotate"}, partial # <<>>,
         Feed(partial, Pos), toff' = Pos, partial' = <<>>,
         tpc' \in {"read", "rotate"}, tpc' = "rotate" => tpc = "rotate",
         OthersUnchanged, UNCHANGED <<fd, resume, chan, skipped, sent, fresh, failed>>
  PROVE  IInv'
<1> USE Constants
<1> DEFINE i == Len(partial)
<1>1. /\ TypeOK /\ Places /\ partial \in Seq(Units) /\ i \in Nat /\ toff \in Nat /\ Pos = toff + i
      /\ Pos <= MaxUnits /\ i <= MaxLine + Chunk /\ i # 0
  BY Facts, EmptySeq DEF IInv, BufferBound, TypeOK, Places, Pos
<1>2. SubSeq(partial, 1, i) = partial /\ SubSeq(partial, i + 1, i) = <<>> /\ i \in 1..Len(partial)
  BY <1>1
<1>3. Pos \in 0..MaxUnits
  BY <1>1
<1>4. Fed(partial, Pos)
  BY <1>1, <1>3, FeedFacts
<1>5. Fed(SubSeq(partial, 1, i), toff + i) /\ toff' = toff + i /\ partial' = SubSeq(partial, i + 1, Len(partial))
  BY <1>1, <1>2, <1>4
<1> HIDE DEF i
<1> QED
  BY <1>2, <1>5, LineStep

LEMMA FlushStep ==
  ASSUME IInv, IdleFlush \/ RotateFlush
  PROVE  IInv'
<1> USE Constants
<1>1. /\ TypeOK /\ Places /\ BufferBound /\ Unread /\ hand = <<>> /\ pending # <<>>
      /\ Finish(pending, pendingOff) /\ pending' = <<>> /\ pendingOff' = 0
      /\ OthersUnchanged /\ UNCHANGED <<posVars, partial, chan, skipped, sent, fresh, failed>>
      /\ tpc \in {"idle", "rotate"} /\ tpc' \in {"check", "rotate"}
  BY DEF IInv, IdleFlush, RotateFlush, FlushPending, Free
<1>2. UNCHANGED <<multi, files, last, path, wfd, gens, truncs, mem, disk, main, restarts, delivered,
                  fd, resume, toff>>
  BY <1>1 DEF OthersUnchanged, envVars, registryVars, mainVars, posVars
<1>3. fd # 0 /\ pending \in Seq(Units) /\ pendingOff \in 0..MaxUnits
  BY <1>1 DEF Places, TypeOK
<1>4. /\ hand' \in Seq(Message) /\ Len(hand') <= 1
      /\ excluded \subseteq excluded' /\ excluded' \subseteq Units
      /\ hand' # <<>> => hand'[1].ids = pending /\ hand'[1].off = pendingOff /\ hand'[1].gen = fd
      /\ SeqSet(pending) \subseteq excluded' \cup InHand'
  BY <1>1, <1>3, FinishFacts
<1>5. TypeOK'
  <2>1. pending' \in Seq(Units) /\ pendingOff' \in 0..MaxUnits
    BY <1>1
  <2> QED
    BY <1>1, <1>2, <1>4, <2>1 DEF TypeOK
<1>6. Places' /\ BufferBound' /\ Unread'
  <2>1. Pos' = Pos /\ Len(pending') = 0
    BY <1>1, <1>2 DEF Pos
  <2>2. Places'
    BY <1>1, <1>2, <2>1 DEF Places
  <2>3. BufferBound'
    BY <1>1, <2>1 DEF BufferBound
  <2>4. Unread'
    BY <1>1, <1>2, <2>1 DEF Unread
  <2> QED
    BY <2>2, <2>3, <2>4
<1>7. ASSUME truncs = 0
      PROVE  Runs' /\ Covered'
  <2>1. Runs /\ Covered
    BY <1>7 DEF IInv
  <2>2. pendingOff = toff /\ Run(pending, fd, toff)
    BY <1>1, <2>1 DEF Runs
  <2>3. Runs'
    BY <1>1, <1>2, <1>4, <2>1, <2>2 DEF Runs, Run, Pos
  <2>4. Covered'
    <3> DEFINE C == Carried(Len(chan))
    <3>1. Carried(Len(chan))' = C /\ Done \subseteq Done' /\ \A k : Carried(k)' = Carried(k)
      BY <1>1, <1>2, <1>4 DEF Carried, Done
    <3>2. Within(fd, toff, Done \cup C \cup SeqSet(pending))
      <4>1. Within(fd, toff, Done \cup C \cup InHand \cup SeqSet(pending))
        BY <1>1, <2>1 DEF Covered
      <4>2. InHand = {}
        BY <1>1 DEF InHand
      <4> QED
        BY <4>1, <4>2
    <3>3. Within(fd, toff, Done' \cup C \cup InHand')
      <4>1. Done \cup C \cup SeqSet(pending) \subseteq Done' \cup C \cup InHand'
        BY <1>4, <3>1 DEF Done
      <4> QED
        BY <3>2, <4>1, WithinMore
    <3>4. Within(fd, toff, Done' \cup C \cup InHand' \cup SeqSet(pending'))
      <4>1. Done' \cup C \cup InHand' \subseteq Done' \cup C \cup InHand' \cup SeqSet(pending')
        OBVIOUS
      <4> QED
        BY <3>3, <4>1, WithinMore
    <3>5. hand' # <<>> => Within(hand'[1].gen, hand'[1].off, Done' \cup C \cup InHand')
      BY <1>4, <2>2, <3>3
    <3>6. \A e \in {mem, disk} \ {NoEntry} : Within(e.gen, e.off, Done')
      BY <2>1, <3>1, WithinMore DEF Covered
    <3>7. \A k \in DOMAIN chan : Within(chan[k].gen, chan[k].off, Done' \cup Carried(k))
      <4> SUFFICES ASSUME NEW k \in DOMAIN chan
                   PROVE  Within(chan[k].gen, chan[k].off, Done' \cup Carried(k))
        OBVIOUS
      <4>1. Within(chan[k].gen, chan[k].off, Done \cup Carried(k)) /\ Done \cup Carried(k) \subseteq Done' \cup Carried(k)
        BY <2>1, <3>1 DEF Covered
      <4> QED
        BY <4>1, WithinMore
    <3> HIDE DEF C
    <3> QED
      BY <1>1, <1>2, <3>1, <3>4, <3>5, <3>6, <3>7 DEF Covered, Within
  <2> QED
    BY <2>3, <2>4
<1> QED
  BY <1>2, <1>5, <1>6, <1>7 DEF IInv

----------------------------------------------------------------------------
(* The other steps of the tailer.                                          *)

\* Steps that only move the tailer on.
LEMMA MoveStep ==
  ASSUME IInv, ReadEOF \/ ReadError \/ Check \/ Wake \/ Quit
  PROVE  IInv'
<1> USE Constants
<1>1. /\ TypeOK /\ Places /\ BufferBound /\ Unread
      /\ UNCHANGED <<multi, files, last, path, wfd, gens, truncs, mem, disk, main, restarts, delivered,
                     fd, resume, toff, partial, pending, pendingOff, hand, excluded, chan, skipped, sent>>
  BY DEF IInv, ReadEOF, ReadError, Check, Wake, Quit, OthersUnchanged, envVars, registryVars, mainVars,
         posVars, procVars
<1>2. \/ tpc = "read" /\ tpc' = "idle" /\ fresh' = {} /\ failed' = failed /\ Pos >= Len(files[fd])
      \/ tpc = "read" /\ tpc' = "idle" /\ fresh' = fresh /\ failed' = TRUE
      \/ tpc \in {"idle", "check"} /\ tpc' \in {"rotate", "sleep"} /\ fresh' = fresh /\ (tpc' = "rotate" => failed' = failed)
      \/ tpc = "sleep" /\ tpc' \in {"read", "stopped"} /\ UNCHANGED <<fresh, failed>>
      \/ tpc = "open" /\ tpc' = "stopped" /\ UNCHANGED <<fresh, failed>>
  <2>1. CASE ReadEOF
    BY <2>1 DEF ReadEOF
  <2>2. CASE ReadError
    BY <2>2 DEF ReadError
  <2>3. CASE Check
    <3> DEFINE R == Rotated
    <3>1. /\ tpc \in {"idle", "check"} /\ fresh' = fresh /\ failed' = (failed /\ R)
          /\ tpc' = (IF R THEN "rotate" ELSE "sleep") /\ failed \in BOOLEAN
      BY <1>1, <2>3 DEF Check, TypeOK
    <3> HIDE DEF R
    <3>2. tpc' \in {"rotate", "sleep"}
      BY <3>1
    <3>3. tpc' = "rotate" => R
      BY <3>1
    <3>4. R => failed' = failed
      BY ONLY <3>1, Zenon
    <3> QED
      BY <3>1, <3>2, <3>3, <3>4
  <2>4. CASE Wake \/ Quit
    BY <2>4 DEF Wake, Quit
  <2> QED
    BY <2>1, <2>2, <2>3, <2>4
<1>3. TypeOK'
  <2>1. failed' \in BOOLEAN
    BY <1>1 DEF TypeOK, ReadEOF, ReadError, Check, Wake, Quit
  <2> QED
    BY <1>1, <1>2, <2>1 DEF TypeOK
<1>4. Places' /\ BufferBound'
  BY <1>1, <1>2 DEF Places, BufferBound, Pos
<1>5. Unread'
  <2>1. CASE tpc = "read"
    <3>1. fd \in Gens /\ Len(files[fd]) \in Nat /\ Pos \in Nat
      BY <1>1, <2>1, Facts DEF Places
    <3>2. failed' \/ (Pos + 1)..Len(files[fd]) = {}
      BY <1>2, <2>1, <3>1
    <3> QED
      BY <1>1, <3>2 DEF Unread, Pos
  <2>2. CASE tpc # "read"
    BY <1>1, <1>2, <2>2 DEF Unread, Pos
  <2> QED
    BY <2>1, <2>2
<1>6. truncs = 0 => Runs' /\ Covered'
  <2>1. Runs => Runs'
    BY <1>1 DEF Runs, Run, Pos
  <2>2. Covered => Covered'
    BY <1>1, <1>2 DEF Covered, Within, Done, Carried, InHand
  <2> QED
    BY <2>1, <2>2 DEF IInv
<1> QED
  BY <1>1, <1>3, <1>4, <1>5, <1>6 DEF IInv

LEMMA CloseStep ==
  ASSUME IInv, RotateClose
  PROVE  IInv'
<1> USE Constants
<1>1. /\ TypeOK /\ Places /\ BufferBound
      /\ UNCHANGED <<multi, files, last, path, wfd, gens, truncs, mem, disk, main, restarts, delivered,
                     resume, partial, pending, pendingOff, hand, excluded, chan, skipped, sent, fresh>>
      /\ failed' = FALSE
      /\ partial = <<>> /\ pending = <<>> /\ fd' = 0 /\ toff' = 0 /\ tpc' = "open" /\ hand = <<>>
  BY DEF IInv, RotateClose, OthersUnchanged, envVars, registryVars, mainVars, procVars, Free
<1>2. TypeOK'
  <2>1. failed' \in BOOLEAN
    BY <1>1, Zenon
  <2>2. MaxUnits \in Nat /\ gens \in Nat
    BY <1>1, Facts
  <2>3. fd' \in 0..gens /\ toff' \in 0..MaxUnits
    BY <1>1, <2>2
  <2> QED
    BY <1>1, <2>1, <2>3 DEF TypeOK
<1>3. Pos' = 0
  BY <1>1 DEF Pos
<1>4. Places' /\ BufferBound' /\ Unread'
  BY <1>1, <1>3 DEF Places, BufferBound, Unread
<1>5. truncs = 0 => Runs' /\ Covered'
  <2>1. Runs => Runs'
    BY <1>1 DEF Runs, Run
  <2>2. Covered => Covered'
    BY <1>1 DEF Covered, Within, Done, Carried, InHand
  <2> QED
    BY <2>1, <2>2 DEF IInv
<1> QED
  BY <1>1, <1>2, <1>4, <1>5 DEF IInv

LEMMA OpenStep ==
  ASSUME IInv, Open
  PROVE  IInv'
<1> USE Constants
<1> DEFINE size == Len(files[path])
           at == IF ~resume THEN size ELSE IF toff > size THEN 0 ELSE toff
<1>1. /\ TypeOK /\ Places /\ BufferBound
      /\ UNCHANGED <<multi, files, last, path, wfd, gens, truncs, mem, disk, main, restarts, delivered,
                     pending, pendingOff, hand, excluded, chan, sent>>
      /\ tpc = "open" /\ path # 0 /\ fd' = path /\ toff' = at /\ resume' = TRUE /\ partial' = <<>>
      /\ tpc' = "read" /\ fresh' = {} /\ failed' = failed /\ hand = <<>> /\ pending = <<>>
      /\ skipped' = IF resume /\ mem.gen = path THEN skipped
                    ELSE skipped \cup {files[path][i] : i \in 1..at}
  BY DEF IInv, Places, Open, OthersUnchanged, envVars, registryVars, mainVars, procVars, Free
<1>2. /\ path \in Gens /\ files[path] \in Seq(Units) /\ size \in Nat /\ toff \in Nat /\ last <= MaxUnits
      /\ last \in Nat /\ size <= last /\ path \in 0..gens
  BY <1>1, Facts DEF Places, TypeOK
<1>3. at \in 0..MaxUnits /\ at <= size /\ at \in Nat
  BY <1>2
<1>4. \A i \in 1..at : files[path][i] \in Units
  BY <1>2, <1>3, EmptySeq
<1>5. ~(resume /\ mem.gen = path) => \A i \in 1..at : files[path][i] \in skipped'
  BY <1>1
<1>6. skipped \subseteq skipped' /\ skipped' \subseteq Units
  BY <1>1, <1>4 DEF TypeOK
<1> HIDE DEF at, size
<1>7. TypeOK'
  BY <1>1, <1>2, <1>3, <1>6 DEF TypeOK
<1>8. Pos' = at
  BY <1>1, <1>3 DEF Pos
<1>9. Places' /\ BufferBound' /\ Unread'
  <2>1. Len(partial') = 0 /\ Len(pending') = 0
    BY <1>1
  <2>2. path # 0 /\ path' = path
    BY <1>1
  <2>3. Places'
    BY <1>1, <1>3, <1>8, <2>1, <2>2 DEF Places
  <2>4. BufferBound' /\ Unread'
    BY <1>1, <2>1 DEF BufferBound, Unread
  <2> QED
    BY <2>3, <2>4
<1>10. ASSUME truncs = 0
       PROVE  Runs' /\ Covered'
  <2>1. Runs /\ Covered
    BY <1>10 DEF IInv
  <2>2. Runs'
    <3>1. Len(partial') = 0 /\ at <= Len(files[path])
      BY <1>1, <1>3 DEF size
    <3> QED
      BY <1>1, <1>3, <1>8, <2>1, <3>1 DEF Runs, Run
  <2>3. \A i \in 1..at : files[path][i] \in Done'
    <3>1. CASE ~(resume /\ mem.gen = path)
      BY <1>5, <3>1 DEF Done
    <3>2. CASE resume /\ mem.gen = path
      <4>1. CASE toff = 0
        <5>1. at = 0
          BY <1>2, <3>2, <4>1 DEF at
        <5> QED
          BY <5>1
      <4>2. CASE toff # 0
        <5>1. mem # NoEntry /\ toff = mem.off
          BY <1>1, <2>1, <3>2, <4>2 DEF Covered
        <5>2. Within(path, toff, Done)
          BY <2>1, <3>2, <5>1 DEF Covered
        <5>3. at <= toff
          BY <1>2, <3>2 DEF at
        <5> QED
          BY <1>1, <1>2, <1>3, <1>6, <5>2, <5>3 DEF Within, Done
      <4> QED
        BY <4>1, <4>2
    <3> QED
      BY <3>1, <3>2
  <2>4. Within(path, at, Done')
    BY <1>3, <2>3 DEF Within, size
  <2>5. Done \subseteq Done' /\ Carried(Len(chan))' = Carried(Len(chan)) /\ \A k : Carried(k)' = Carried(k)
    BY <1>1, <1>6 DEF Done, Carried
  <2>6. Within(path, at, Done' \cup Carried(Len(chan)) \cup InHand' \cup SeqSet(pending'))
    BY <2>4 DEF Within
  <2>7. \A e \in {mem, disk} \ {NoEntry} : Within(e.gen, e.off, Done')
    BY <2>1, <2>5, WithinMore DEF Covered
  <2>8. \A k \in DOMAIN chan : Within(chan[k].gen, chan[k].off, Done' \cup Carried(k))
    <3> SUFFICES ASSUME NEW k \in DOMAIN chan
                 PROVE  Within(chan[k].gen, chan[k].off, Done' \cup Carried(k))
      OBVIOUS
    <3>1. Within(chan[k].gen, chan[k].off, Done \cup Carried(k)) /\ Done \cup Carried(k) \subseteq Done' \cup Carried(k)
      BY <2>1, <2>5 DEF Covered
    <3> QED
      BY <3>1, WithinMore
  <2>9. Covered'
    BY <1>1, <2>5, <2>6, <2>7, <2>8 DEF Covered, Within
  <2> QED
    BY <2>2, <2>9
<1> QED
  BY <1>1, <1>7, <1>9, <1>10 DEF IInv

\* What one read of at most c takes from behind position p.
Behind(f, p) == SubSeq(f, p + 1, Len(f))
Got(f, p, c) == IF Len(Behind(f, p)) <= c THEN Behind(f, p) ELSE SubSeq(Behind(f, p), 1, c)

LEMMA ChunkFacts ==
  ASSUME NEW S, NEW f \in Seq(S), NEW p \in Nat, NEW c \in Nat, Behind(f, p) # <<>>
  PROVE  /\ Got(f, p, c) \in Seq(S) /\ Len(Got(f, p, c)) \in Nat /\ Len(Got(f, p, c)) <= c
         /\ p + Len(Got(f, p, c)) <= Len(f)
         /\ \A i \in 1..Len(Got(f, p, c)) : Got(f, p, c)[i] = f[p + i]
<1> DEFINE rest == Behind(f, p)
           got == Got(f, p, c)
<1>0. rest = SubSeq(f, p + 1, Len(f)) /\ got = IF Len(rest) <= c THEN rest ELSE SubSeq(rest, 1, c)
  BY DEF Behind, Got
<1>9. rest # <<>>
  OBVIOUS
<1> HIDE DEF rest, got
<1>1. Len(f) \in Nat
  BY EmptySeq
<1>2. p < Len(f)
  <2> SUFFICES ASSUME p >= Len(f)
               PROVE  rest = <<>>
    BY <1>1, <1>9
  <2> QED
    BY <1>0, <1>1
<1>3. rest \in Seq(S) /\ Len(rest) = Len(f) - (p + 1) + 1 /\ p + 1 >= 1 /\ p + 1 \in Nat
  BY <1>0, <1>1, <1>2, SubSeqFacts
<1>4. \A i \in 1..(Len(f) - (p + 1) + 1) : rest[i] = f[(p + 1) + i - 1]
  BY <1>0, <1>1, <1>2, SubSeqFacts
<1>5. \A i \in Nat : (p + 1) + i - 1 = p + i
  OBVIOUS
<1>6. Len(rest) \in Nat /\ p + Len(rest) = Len(f) /\ \A i \in 1..Len(rest) : rest[i] = f[p + i]
  <2> DEFINE k == Len(f) - (p + 1) + 1
  <2>1. k \in Nat /\ p + k = Len(f)
    BY <1>1, <1>2
  <2>2. Len(rest) = k /\ \A i \in 1..k : rest[i] = f[(p + 1) + i - 1]
    BY <1>3, <1>4
  <2> HIDE DEF k
  <2>3. \A i \in 1..k : i \in Nat
    OBVIOUS
  <2>4. \A i \in 1..k : rest[i] = f[p + i]
    BY <1>5, <2>2, <2>3
  <2> QED
    BY <2>1, <2>2, <2>4
<1>7. ASSUME Len(rest) <= c
      PROVE  /\ got \in Seq(S) /\ Len(got) \in Nat /\ Len(got) <= c /\ p + Len(got) <= Len(f)
             /\ \A i \in 1..Len(got) : got[i] = f[p + i]
  <2>1. got = rest
    BY <1>0, <1>7
  <2>2. rest \in Seq(S) /\ Len(rest) \in Nat /\ p + Len(rest) <= Len(f)
    BY <1>1, <1>3, <1>6
  <2>3. \A i \in 1..Len(rest) : rest[i] = f[p + i]
    BY <1>6
  <2> HIDE DEF got, rest
  <2> QED
    BY <1>7, <2>1, <2>2, <2>3
<1>8. ASSUME Len(rest) > c
      PROVE  /\ got \in Seq(S) /\ Len(got) \in Nat /\ Len(got) <= c /\ p + Len(got) <= Len(f)
             /\ \A i \in 1..Len(got) : got[i] = f[p + i]
  <2>1. got = SubSeq(rest, 1, c)
    BY <1>0, <1>6, <1>8
  <2>2. got \in Seq(S) /\ Len(got) = c - 1 + 1 /\ \A i \in 1..(c - 1 + 1) : got[i] = rest[1 + i - 1]
    BY <1>3, <1>8, <2>1, SubSeqFacts
  <2>3. c - 1 + 1 = c /\ \A i \in Nat : 1 + i - 1 = i
    OBVIOUS
  <2>4. Len(got) = c /\ \A i \in 1..c : got[i] = rest[i]
    BY <2>2, <2>3
  <2>5. p + c <= Len(f) /\ \A i \in 1..c : i \in 1..Len(rest)
    BY <1>6, <1>8
  <2>6. \A i \in 1..c : got[i] = f[p + i]
    BY <1>6, <2>4, <2>5
  <2> QED
    BY <2>2, <2>4, <2>5, <2>6
<1>10. /\ got \in Seq(S) /\ Len(got) \in Nat /\ Len(got) <= c /\ p + Len(got) <= Len(f)
       /\ \A i \in 1..Len(got) : got[i] = f[p + i]
  BY <1>6, <1>7, <1>8
<1> QED
  BY <1>10 DEF got

LEMMA ReadStep ==
  ASSUME IInv, Read
  PROVE  IInv'
<1> USE Constants
<1> DEFINE got == Got(files[fd], Pos, Chunk)
<1>1. /\ TypeOK /\ Places /\ BufferBound
      /\ UNCHANGED <<multi, files, last, path, wfd, gens, truncs, mem, disk, main, restarts, delivered,
                     fd, resume, toff, pending, pendingOff, hand, excluded, chan, skipped, sent, fresh, failed>>
      /\ tpc = "read" /\ tpc' = "emit" /\ Behind(files[fd], Pos) # <<>> /\ partial' = partial \o got
  BY DEF IInv, Behind, Got, Read, OthersUnchanged, envVars, registryVars, mainVars, procVars, posVars
<1>2. /\ fd \in Gens /\ fd # 0 /\ files[fd] \in Seq(Units) /\ Len(files[fd]) \in Nat /\ Pos \in Nat
      /\ partial \in Seq(Units) /\ Len(partial) \in Nat /\ toff \in Nat /\ Pos = toff + Len(partial)
      /\ Len(partial) <= MaxLine /\ Len(files[fd]) <= last /\ last <= MaxUnits /\ last \in Nat
  BY <1>1, Facts DEF Places, TypeOK, Pos
<1>3. /\ got \in Seq(Units) /\ Len(got) \in Nat /\ Len(got) <= Chunk /\ Pos + Len(got) <= Len(files[fd])
      /\ \A i \in 1..Len(got) : got[i] = files[fd][Pos + i]
  <2>1. files[fd] \in Seq(Units) /\ Pos \in Nat /\ Chunk \in Nat /\ Behind(files[fd], Pos) # <<>>
    BY <1>1, <1>2
  <2> QED
    BY ONLY <2>1, ChunkFacts
<1> HIDE DEF got
<1>4. partial' \in Seq(Units) /\ Len(partial') = Len(partial) + Len(got)
  BY <1>1, <1>2, <1>3, ConcatFacts
<1>5. Pos' = Pos + Len(got)
  <2>1. Pos' = toff + (Len(partial) + Len(got))
    BY <1>1, <1>4 DEF Pos
  <2>2. \A a, b, c \in Nat : a + (b + c) = (a + b) + c
    OBVIOUS
  <2> QED
    BY <1>2, <1>3, <2>1, <2>2
<1>6. TypeOK'
  BY <1>1, <1>4 DEF TypeOK
<1>7. Places'
  <2>1. Pos' <= MaxUnits
    <3>1. \A a, b, c, d \in Nat : a + b <= c /\ c <= d /\ d <= MaxUnits => a + b <= MaxUnits
      OBVIOUS
    <3> QED
      BY <1>2, <1>3, <1>5, <3>1
  <2> QED
    BY <1>1, <1>2, <2>1 DEF Places
<1>8. BufferBound' /\ Unread'
  <2>1. Len(partial') <= MaxLine + Chunk
    BY <1>2, <1>3, <1>4
  <2> QED
    BY <1>1, <2>1 DEF BufferBound, Unread
<1>9. ASSUME truncs = 0
      PROVE  Runs' /\ Covered'
  <2>1. Runs /\ Covered
    BY <1>9 DEF IInv
  <2>2. Run(partial', fd, Pos')
    <3>1. Run(got, fd, Pos + Len(got))
      <4>1. Len(got) <= Pos + Len(got) /\ (Pos + Len(got)) - Len(got) = Pos
        BY <1>2, <1>3
      <4> QED
        BY <1>3, <4>1 DEF Run
    <3>2. Run(partial, fd, Pos)
      BY <1>2, <2>1 DEF Runs
    <3>3. Run(partial \o got, fd, Pos + Len(got))
      BY <1>2, <1>3, <3>1, <3>2, RunConcat
    <3> QED
      BY <1>1, <1>5, <3>3
  <2>3. Runs'
    BY <1>1, <2>1, <2>2 DEF Runs, Run
  <2>4. Covered'
    <3>1. Within(fd, toff, Done \cup Carried(Len(chan)) \cup InHand \cup SeqSet(pending))
      BY <1>1, <2>1 DEF Covered
    <3>2. /\ Done' = Done /\ InHand' = InHand /\ SeqSet(pending') = SeqSet(pending)
          /\ Carried(Len(chan))' = Carried(Len(chan)) /\ \A k : Carried(k)' = Carried(k)
      BY <1>1 DEF Done, InHand, Carried
    <3> QED
      BY <1>1, <2>1, <3>1, <3>2 DEF Covered, Within
  <2> QED
    BY <2>3, <2>4
<1> QED
  BY <1>1, <1>6, <1>7, <1>8, <1>9 DEF IInv

LEMMA EmitRestStep ==
  ASSUME IInv, EmitRest \/ RotatePartial
  PROVE  IInv'
<1> USE Constants
<1>1. /\ TypeOK /\ Places /\ BufferBound /\ Unread /\ hand = <<>> /\ fd # 0
      /\ OthersUnchanged /\ UNCHANGED <<fd, resume, chan, skipped, sent, fresh, failed>>
      /\ \/ tpc = "emit" /\ tpc' = "read"
         \/ tpc = "rotate" /\ tpc' = "rotate"
  BY DEF IInv, Places, EmitRest, RotatePartial, Free
<1>2. partial \in Seq(Units) /\ Len(partial) \in Nat
  BY <1>1, EmptySeq DEF TypeOK
<1>3. CASE partial # <<>> /\ Feed(partial, Pos) /\ toff' = Pos /\ partial' = <<>>
  BY <1>1, <1>3, RestStep
<1>4. CASE /\ tpc = "emit" /\ tpc' = "read" /\ Len(partial) <= MaxLine
           /\ UNCHANGED <<toff, partial, procVars>>
  <2>1. UNCHANGED <<multi, files, last, path, wfd, gens, truncs, mem, disk, main, restarts, delivered,
                    fd, resume, toff, partial, pending, pendingOff, hand, excluded, chan, skipped, sent, fresh, failed>>
    BY <1>1, <1>4 DEF OthersUnchanged, envVars, registryVars, mainVars, procVars
  <2>2. TypeOK'
    BY <1>1, <1>4, <2>1 DEF TypeOK
  <2>3. Places' /\ BufferBound' /\ Unread'
    BY <1>1, <1>4, <2>1 DEF Places, BufferBound, Unread, Pos
  <2>4. Runs => Runs'
    BY <2>1 DEF Runs, Run, Pos
  <2>5. Covered => Covered'
    BY <1>4, <2>1 DEF Covered, Within, Done, Carried, InHand
  <2> QED
    BY <2>1, <2>2, <2>3, <2>4, <2>5 DEF IInv
<1>5. Len(partial) > MaxLine => partial # <<>>
  BY <1>2, EmptySeq
<1>6. Len(partial) > MaxLine \/ Len(partial) <= MaxLine
  BY <1>2
<1> QED
  BY <1>1, <1>3, <1>4, <1>5, <1>6 DEF EmitRest, RotatePartial

\* The message in hand joins the channel; what was in hand is carried.
LEMMA SendStep ==
  ASSUME IInv, Send
  PROVE  IInv'
<1> USE Constants
<1>0. PICK n \in Nat : n = Len(chan)
  BY Facts DEF IInv
<1> DEFINE m == hand[1]
<1>1. /\ TypeOK /\ Places /\ BufferBound /\ Unread /\ hand # <<>> /\ n < Cap
      /\ chan' = Append(chan, m) /\ sent' = sent \cup SeqSet(m.ids) /\ hand' = <<>>
      /\ UNCHANGED <<multi, files, last, path, wfd, gens, truncs, mem, disk, main, restarts, delivered,
                     tpc, fd, resume, toff, partial, pending, pendingOff, excluded, skipped, fresh, failed>>
  BY <1>0 DEF IInv, Send, OthersUnchanged, envVars, registryVars, mainVars, posVars
<1>2. m \in Message /\ InHand = SeqSet(m.ids) /\ chan \in Seq(Message) /\ n \in Nat
  BY <1>1, InHandIs, EmptySeq DEF TypeOK
<1> HIDE DEF m
<1>3. /\ chan' \in Seq(Message) /\ Len(chan') = n + 1 /\ chan'[n + 1] = m
      /\ \A k \in 1..n : chan'[k] = chan[k]
  BY <1>0, <1>1, <1>2, AppendFacts
<1>4. DOMAIN chan' = 1..(n + 1) /\ DOMAIN chan = 1..n
  BY <1>0, <1>2, <1>3, EmptySeq
<1>5. hand' \in Seq(Message) /\ Len(hand') = 0 /\ InHand' = {}
  BY <1>1 DEF InHand
<1>6. SeqSet(m.ids) \subseteq Units
  BY <1>2, MessageFacts, SeqSetOf
<1>7. TypeOK'
  <2>1. sent' \subseteq Units
    BY <1>1, <1>6 DEF TypeOK
  <2>2. Len(chan') <= Cap
    BY <1>1, <1>2, <1>3
  <2> QED
    BY <1>1, <1>3, <1>5, <2>1, <2>2 DEF TypeOK
<1>8. Places' /\ BufferBound' /\ Unread'
  BY <1>1 DEF Places, BufferBound, Unread, Pos
<1>9. ASSUME truncs = 0
      PROVE  Runs' /\ Covered'
  <2>1. Runs /\ Covered
    BY <1>9 DEF IInv
  <2>2. \A k \in 1..(n + 1) : k \in 1..n \/ k = n + 1
    BY <1>2
  <2>3. Runs'
    <3>1. Run(m.ids, m.gen, m.off)
      BY <1>1, <2>1 DEF Runs, m
    <3>2. \A k \in DOMAIN chan' : Run(chan'[k].ids, chan'[k].gen, chan'[k].off)
      BY <1>3, <1>4, <2>1, <2>2, <3>1 DEF Runs
    <3> QED
      BY <1>1, <2>1, <3>2 DEF Runs, Run, Pos
  <2>4. \A k \in 0..n : Carried(k)' = Carried(k)
    <3> SUFFICES ASSUME NEW k \in 0..n
                 PROVE  Carried(k)' = Carried(k)
      OBVIOUS
    <3>1. \A j \in 1..k : chan'[j] = chan[j]
      BY <1>2, <1>3
    <3> QED
      BY <3>1 DEF Carried
  <2>5. Carried(n + 1)' = Carried(n) \cup InHand
    <3>1. \A x : x \in Carried(n + 1)' <=> \E j \in 1..(n + 1) : x \in SeqSet(chan'[j].ids)
      BY CarriedIs DEF Carried
    <3>2. \A x : x \in Carried(n) <=> \E j \in 1..n : x \in SeqSet(chan[j].ids)
      BY CarriedIs
    <3>3. \A j \in 1..n : j \in 1..(n + 1)
      BY <1>2
    <3>4. n + 1 \in 1..(n + 1)
      BY <1>2
    <3>5. \A x : (\E j \in 1..(n + 1) : x \in SeqSet(chan'[j].ids))
                   <=> (\E j \in 1..n : x \in SeqSet(chan[j].ids)) \/ x \in SeqSet(m.ids)
      BY <1>3, <2>2, <3>3, <3>4
    <3> QED
      BY <1>2, <3>1, <3>2, <3>5
  <2>6. Done' = Done
    BY <1>1 DEF Done
  <2>7. \A k \in DOMAIN chan' : Within(chan'[k].gen, chan'[k].off, Done \cup Carried(k)')
    <3> SUFFICES ASSUME NEW k \in 1..(n + 1)
                 PROVE  Within(chan'[k].gen, chan'[k].off, Done \cup Carried(k)')
      BY <1>4
    <3>1. CASE k \in 1..n
      <4>1. Within(chan[k].gen, chan[k].off, Done \cup Carried(k))
        BY <1>4, <2>1, <3>1 DEF Covered
      <4>2. k \in 0..n
        BY <3>1
      <4>3. Carried(k)' = Carried(k) /\ chan'[k] = chan[k]
        BY <1>3, <2>4, <3>1, <4>2
      <4> QED
        BY <4>1, <4>3
    <3>2. CASE k = n + 1
      <4>1. Within(m.gen, m.off, Done \cup Carried(n) \cup InHand)
        BY <1>0, <1>1, <2>1 DEF Covered, m
      <4>2. Done \cup Carried(n) \cup InHand = Done \cup Carried(k)'
        BY <2>5, <3>2
      <4> QED
        BY <1>3, <3>2, <4>1, <4>2
    <3> QED
      BY <2>2, <3>1, <3>2
  <2>8. tpc \notin {"open", "stopped"} =>
          Within(fd, toff, Done \cup Carried(n + 1)' \cup InHand' \cup SeqSet(pending))
    <3>1. Done \cup Carried(n) \cup InHand \cup SeqSet(pending)
            = Done \cup Carried(n + 1)' \cup InHand' \cup SeqSet(pending)
      BY <1>5, <2>5
    <3>2. tpc \notin {"open", "stopped"} =>
            Within(fd, toff, Done \cup Carried(n) \cup InHand \cup SeqSet(pending))
      BY <1>0, <2>1 DEF Covered
    <3> QED
      BY <3>1, <3>2
  <2>9. tpc = "open" /\ resume => toff = 0
    BY <1>1, <2>1 DEF Covered
  <2>10. Carried(Len(chan))' = Carried(n + 1)'
    BY <1>3 DEF Carried
  <2>11. \A e \in {mem, disk} \ {NoEntry} : Within(e.gen, e.off, Done)
    BY <2>1 DEF Covered
  <2>12. Covered'
    BY <1>1, <2>6, <2>7, <2>8, <2>9, <2>10, <2>11 DEF Covered, Within
  <2> QED
    BY <2>3, <2>12
<1> QED
  BY <1>1, <1>7, <1>8, <1>9 DEF IInv

LEMMA DropStep ==
  ASSUME IInv, Drop
  PROVE  IInv'
<1> USE Constants
<1>1. /\ TypeOK /\ Places /\ BufferBound /\ Unread /\ hand' = <<>> /\ tpc' = "stopped"
      /\ UNCHANGED <<multi, files, last, path, wfd, gens, truncs, mem, disk, main, restarts, delivered,
                     fd, resume, toff, partial, pending, pendingOff, excluded, chan, skipped, sent, fresh, failed>>
  BY DEF IInv, Drop, OthersUnchanged, envVars, registryVars, mainVars, posVars
<1>2. TypeOK'
  <2>1. hand' \in Seq(Message) /\ Len(hand') <= 1
    BY <1>1
  <2> QED
    BY <1>1, <2>1 DEF TypeOK
<1>3. Places' /\ BufferBound' /\ Unread'
  BY <1>1 DEF Places, BufferBound, Unread, Pos
<1>4. Runs => Runs'
  BY <1>1 DEF Runs, Run, Pos
<1>5. Covered => Covered'
  BY <1>1 DEF Covered, Within, Done, Carried
<1> QED
  BY <1>1, <1>2, <1>3, <1>4, <1>5 DEF IInv

----------------------------------------------------------------------------
(* The other steps of the process.                                         *)

\* The oldest message is settled: what it carried is done.
LEMMA DeliverStep ==
  ASSUME IInv, Deliver
  PROVE  IInv'
<1> USE Constants
<1>0. PICK n \in Nat : n = Len(chan)
  BY Facts DEF IInv
<1>1. /\ TypeOK /\ Places /\ BufferBound /\ Unread /\ chan # <<>>
      /\ delivered' = delivered \cup SeqSet(Head(chan).ids)
      /\ mem' = [off |-> Head(chan).off, gen |-> Head(chan).gen] /\ chan' = Tail(chan)
      /\ UNCHANGED <<multi, files, last, path, wfd, gens, truncs, disk, main, restarts, hand,
                     tpc, fd, resume, toff, partial, pending, pendingOff, excluded, skipped, sent, fresh, failed>>
  BY DEF IInv, Deliver, envVars, posVars, procVars, mainVars
<1>2. chan \in Seq(Message) /\ n # 0
  BY <1>0, <1>1, EmptySeq DEF TypeOK
<1>3. PICK m \in Message : m = chan[1]
  BY <1>0, <1>2, EmptySeq
<1>4. /\ delivered' = delivered \cup SeqSet(m.ids) /\ mem' = [off |-> m.off, gen |-> m.gen]
      /\ chan' \in Seq(Message) /\ Len(chan') = n - 1 /\ n - 1 \in Nat
      /\ \A k \in 1..(n - 1) : chan'[k] = chan[k + 1]
  BY <1>0, <1>1, <1>2, <1>3
<1>5. DOMAIN chan' = 1..(n - 1) /\ DOMAIN chan = 1..n
  BY <1>0, <1>2, <1>4, EmptySeq
<1>6. m.off \in 0..MaxUnits /\ m.gen \in Gens /\ SeqSet(m.ids) \subseteq Units
  BY MessageFacts, SeqSetOf
<1>7. mem' \in Entry /\ mem'.off = m.off /\ mem'.gen = m.gen
  BY <1>4, <1>6 DEF Entry
<1>8. TypeOK'
  <2>1. delivered' \subseteq Units
    BY <1>1, <1>4, <1>6 DEF TypeOK
  <2>2. Len(chan') <= Cap
    BY <1>0, <1>1, <1>4 DEF TypeOK
  <2> QED
    BY <1>1, <1>4, <1>7, <2>1, <2>2 DEF TypeOK
<1>9. Places' /\ BufferBound' /\ Unread'
  BY <1>1 DEF Places, BufferBound, Unread, Pos
<1>10. \A k \in 1..(n - 1) : k + 1 \in 1..n
  BY <1>4
<1>11. ASSUME truncs = 0
       PROVE  Runs' /\ Covered'
  <2>1. Runs /\ Covered
    BY <1>11 DEF IInv
  <2>2. Runs'
    <3>1. \A k \in DOMAIN chan' : Run(chan'[k].ids, chan'[k].gen, chan'[k].off)
      BY <1>4, <1>5, <1>10, <2>1 DEF Runs
    <3> QED
      BY <1>1, <2>1, <3>1 DEF Runs, Run, Pos
  <2>3. Done' = Done \cup SeqSet(m.ids)
    BY <1>1, <1>4 DEF Done
  <2>4. \A k \in 0..(n - 1) : Done \cup Carried(k + 1) \subseteq Done' \cup Carried(k)'
    <3> SUFFICES ASSUME NEW k \in 0..(n - 1), NEW x \in Carried(k + 1)
                 PROVE  x \in SeqSet(m.ids) \cup Carried(k)'
      BY <2>3
    <3>1. PICK j \in 1..(k + 1) : x \in SeqSet(chan[j].ids)
      BY CarriedIs
    <3>2. CASE j = 1
      BY <1>3, <3>1, <3>2
    <3>3. CASE j # 1
      <4>1. j - 1 \in 1..k /\ j - 1 \in 1..(n - 1) /\ (j - 1) + 1 = j
        BY <1>4, <3>3
      <4>2. chan'[j - 1] = chan[j]
        BY <1>4, <4>1
      <4>3. x \in SeqSet(chan'[j - 1].ids)
        BY <3>1, <4>2
      <4> QED
        BY <4>1, <4>3 DEF Carried
    <3> QED
      BY <3>2, <3>3
  <2>5. Within(m.gen, m.off, Done')
    <3>1. Within(m.gen, m.off, Done \cup Carried(1))
      <4>1. 1 \in DOMAIN chan
        BY <1>2, <1>5
      <4> QED
        BY <1>3, <2>1, <4>1 DEF Covered
    <3>2. Carried(1) \subseteq SeqSet(m.ids)
      BY <1>3, CarriedIs
    <3>3. Done \cup Carried(1) \subseteq Done'
      BY <2>3, <3>2
    <3> QED
      BY <3>1, <3>3, WithinMore
  <2>6. \A e \in {mem', disk} \ {NoEntry} : Within(e.gen, e.off, Done')
    <3>1. ASSUME disk # NoEntry
          PROVE  Within(disk.gen, disk.off, Done')
      <4>1. Within(disk.gen, disk.off, Done) /\ Done \subseteq Done'
        BY <2>1, <2>3, <3>1 DEF Covered
      <4> QED
        BY <4>1, WithinMore
    <3> QED
      BY <1>7, <2>5, <3>1
  <2>7. \A k \in DOMAIN chan' : Within(chan'[k].gen, chan'[k].off, Done' \cup Carried(k)')
    <3> SUFFICES ASSUME NEW k \in 1..(n - 1)
                 PROVE  Within(chan'[k].gen, chan'[k].off, Done' \cup Carried(k)')
      BY <1>5
    <3>1. Within(chan[k + 1].gen, chan[k + 1].off, Done \cup Carried(k + 1))
      BY <1>5, <1>10, <2>1 DEF Covered
    <3>2. Done \cup Carried(k + 1) \subseteq Done' \cup Carried(k)'
      BY <2>4
    <3>3. Within(chan[k + 1].gen, chan[k + 1].off, Done' \cup Carried(k)')
      BY <3>1, <3>2, WithinMore
    <3> QED
      BY <1>4, <3>3
  <2>8. Done \cup Carried(n) \subseteq Done' \cup Carried(n - 1)'
    <3>1. n - 1 \in 0..(n - 1) /\ (n - 1) + 1 = n
      BY <1>4
    <3> QED
      BY <2>4, <3>1
  <2>9. hand # <<>> => Within(hand[1].gen, hand[1].off, Done' \cup Carried(n - 1)' \cup InHand)
    <3>1. Done \cup Carried(n) \cup InHand \subseteq Done' \cup Carried(n - 1)' \cup InHand
      BY <2>8
    <3> SUFFICES ASSUME hand # <<>>
                 PROVE  Within(hand[1].gen, hand[1].off, Done' \cup Carried(n - 1)' \cup InHand)
      OBVIOUS
    <3>2. Within(hand[1].gen, hand[1].off, Done \cup Carried(n) \cup InHand)
      BY <1>0, <2>1 DEF Covered
    <3> QED
      BY <3>1, <3>2, WithinMore
  <2>10. tpc \notin {"open", "stopped"} =>
           Within(fd, toff, Done' \cup Carried(n - 1)' \cup InHand \cup SeqSet(pending))
    <3>1. Done \cup Carried(n) \cup InHand \cup SeqSet(pending)
            \subseteq Done' \cup Carried(n - 1)' \cup InHand \cup SeqSet(pending)
      BY <2>8
    <3> SUFFICES ASSUME tpc \notin {"open", "stopped"}
                 PROVE  Within(fd, toff, Done' \cup Carried(n - 1)' \cup InHand \cup SeqSet(pending))
      OBVIOUS
    <3>2. Within(fd, toff, Done \cup Carried(n) \cup InHand \cup SeqSet(pending))
      BY <1>0, <2>1 DEF Covered
    <3> QED
      BY <3>1, <3>2, WithinMore
  <2>11. tpc = "open" /\ resume => toff = 0
    BY <1>1, <2>1 DEF Covered
  <2>12. Carried(Len(chan))' = Carried(n - 1)' /\ InHand' = InHand
    BY <1>1, <1>4 DEF Carried, InHand
  <2>13. Covered'
    BY <1>1, <2>6, <2>7, <2>9, <2>10, <2>11, <2>12 DEF Covered, Within
  <2> QED
    BY <2>2, <2>13
<1> QED
  BY <1>1, <1>8, <1>9, <1>11 DEF IInv

LEMMA ProcessStep ==
  ASSUME IInv, Persist \/ Stop \/ Crash \/ Exit
  PROVE  IInv'
<1> USE Constants
<1>1. /\ TypeOK /\ Places /\ BufferBound /\ Unread /\ disk' \in {mem, disk}
      /\ main' \in {"run", "stop", "down"} /\ (main' = main \/ main' # "run")
      /\ main' # "run" => restarts < MaxRestarts
      /\ UNCHANGED <<multi, files, last, path, wfd, gens, truncs, mem, restarts, hand, delivered, chan,
                     tpc, fd, resume, toff, partial, pending, pendingOff, excluded, skipped, sent, fresh, failed>>
  BY DEF IInv, Places, TypeOK, Persist, Stop, Crash, Exit, envVars, posVars, procVars, mainVars, registryVars
<1>2. TypeOK'
  BY <1>1 DEF TypeOK
<1>3. Places' /\ BufferBound' /\ Unread'
  BY <1>1 DEF Places, BufferBound, Unread, Pos
<1>4. Runs => Runs'
  BY <1>1 DEF Runs, Run, Pos
<1>5. Covered => Covered'
  BY <1>1 DEF Covered, Within, Done, Carried, InHand
<1> QED
  BY <1>1, <1>2, <1>3, <1>4, <1>5 DEF IInv

LEMMA RestartStep ==
  ASSUME IInv, Restart
  PROVE  IInv'
<1> USE Constants
<1>1. /\ TypeOK /\ Places /\ main = "down" /\ main' = "run" /\ restarts' = restarts + 1
      /\ tpc' = "open" /\ fd' = 0 /\ resume' = (disk # NoEntry)
      /\ toff' = IF disk = NoEntry THEN 0 ELSE disk.off
      /\ partial' = <<>> /\ pending' = <<>> /\ pendingOff' = 0 /\ hand' = <<>> /\ chan' = <<>>
      /\ mem' = disk /\ fresh' = {} /\ failed' = FALSE
      /\ UNCHANGED <<multi, files, last, path, wfd, gens, truncs, disk, delivered, excluded, skipped, sent>>
  BY DEF IInv, Restart, envVars
<1>2. toff' \in 0..MaxUnits
  <2>1. disk # NoEntry => disk.off \in 0..MaxUnits
    BY <1>1 DEF TypeOK, Entry
  <2> QED
    BY <1>1, <2>1
<1>3. /\ hand' \in Seq(Message) /\ Len(hand') = 0 /\ chan' \in Seq(Message) /\ Len(chan') = 0
      /\ partial' \in Seq(Units) /\ Len(partial') = 0 /\ pending' \in Seq(Units) /\ Len(pending') = 0
  BY <1>1
<1>4. restarts' \in 0..MaxRestarts
  BY <1>1 DEF TypeOK, Places
<1>5. TypeOK'
  <2>1. failed' \in BOOLEAN
    BY <1>1, Zenon
  <2>2. resume' \in BOOLEAN
    BY <1>1, Zenon
  <2>3. MaxUnits \in Nat /\ gens \in Nat
    BY <1>1, Facts
  <2>4. fd' \in 0..gens /\ pendingOff' \in 0..MaxUnits
    BY <1>1, <2>3
  <2>5. mem' \in Entry \cup {NoEntry} /\ fresh' \subseteq Units
    BY <1>1 DEF TypeOK
  <2> QED
    BY <1>1, <1>2, <1>3, <1>4, <2>1, <2>2, <2>4, <2>5, Constants DEF TypeOK
<1>6. Pos' <= MaxUnits
  <2>1. Pos' = toff' + Len(partial')
    BY DEF Pos
  <2>2. Pos' = toff' + 0
    BY <1>3, <2>1
  <2>3. \A a \in 0..MaxUnits : a + 0 <= MaxUnits
    OBVIOUS
  <2> QED
    BY <1>2, <2>2, <2>3
<1>7. Places' /\ BufferBound' /\ Unread'
  BY <1>1, <1>3, <1>6 DEF Places, BufferBound, Unread
<1>8. ASSUME truncs = 0
      PROVE  Runs' /\ Covered'
  <2>1. Covered /\ DOMAIN chan' = {}
    BY <1>1, <1>8 DEF IInv
  <2>2. Runs'
    BY <1>1, <2>1 DEF Runs
  <2>3. Covered'
    BY <1>1, <2>1 DEF Covered, Within, Done
  <2> QED
    BY <2>2, <2>3
<1> QED
  BY <1>1, <1>5, <1>7, <1>8 DEF IInv

----------------------------------------------------------------------------
(* The application and the rotation tool.                                  *)

\* A file that grows keeps what was said of its runs.
LEMMA WriteStep ==
  ASSUME IInv, Write
  PROVE  IInv'
<1> USE Constants
<1>1. /\ TypeOK /\ Places /\ BufferBound /\ Unread /\ last < MaxUnits /\ last' = last + 1
      /\ files' = [files EXCEPT ![wfd] = Append(@, last + 1)]
      /\ fresh' = IF wfd = fd THEN fresh \cup {last + 1} ELSE fresh
      /\ UNCHANGED <<multi, path, wfd, gens, truncs, mem, disk, main, restarts, hand, delivered, chan,
                     tpc, fd, resume, toff, partial, pending, pendingOff, excluded, skipped, sent, failed>>
  BY DEF IInv, Write, posVars, procVars, mainVars, registryVars
<1>2. /\ last \in Nat /\ wfd \in Gens
      /\ fd # 0 => fd \in Gens
      /\ \A g \in Gens : files[g] \in Seq(Units) /\ Len(files[g]) \in Nat
      /\ files \in [Gens -> Seq(Units)] /\ Pos \in Nat
  BY <1>1, Facts DEF TypeOK
<1>3. last + 1 \in Units
  BY <1>1, <1>2 DEF Units
<1> DEFINE f == Append(files[wfd], last + 1)
<1>4. /\ f \in Seq(Units) /\ Len(f) = Len(files[wfd]) + 1
      /\ \A i \in 1..Len(files[wfd]) : f[i] = files[wfd][i]
      /\ f[Len(files[wfd]) + 1] = last + 1
  BY <1>2, <1>3, AppendFacts
<1>5. files' = [files EXCEPT ![wfd] = f]
  BY <1>1
<1> HIDE DEF f
<1>6. files' \in [Gens -> Seq(Units)] /\ files'[wfd] = f /\ \A g \in Gens : g # wfd => files'[g] = files[g]
  BY ONLY <1>2, <1>4, <1>5
<1>7. Grown
  BY <1>2, <1>4, <1>6 DEF Grown
<1>8. TypeOK'
  <2>1. fresh' \subseteq Units
    BY <1>1, <1>3 DEF TypeOK
  <2>2. last' \in 0..MaxUnits
    BY <1>1, <1>2
  <2> QED
    BY <1>1, <1>6, <2>1, <2>2 DEF TypeOK
<1>9. Places' /\ BufferBound'
  <2>1. \A g \in Gens : Len(files'[g]) <= last'
    <3> SUFFICES ASSUME NEW g \in Gens
                 PROVE  Len(files'[g]) <= last + 1
      BY <1>1
    <3>1. Len(files[g]) <= last /\ Len(files[g]) \in Nat
      BY <1>1, <1>2 DEF Places
    <3>2. Len(files'[g]) \in {Len(files[g]), Len(files[g]) + 1}
      BY <1>4, <1>6
    <3> QED
      BY <1>2, <3>1, <3>2
  <2> QED
    BY <1>1, <2>1 DEF Places, BufferBound, Pos
<1>10. Unread'
  <2> SUFFICES ASSUME ~failed, tpc \in {"idle", "check", "rotate"}, NEW i \in (Pos + 1)..Len(files'[fd])
               PROVE  files'[fd][i] \in fresh'
    BY <1>1 DEF Unread, Pos
  <2>1. fd \in Gens /\ Len(files[fd]) \in Nat
    BY <1>1, <1>2 DEF Places
  <2>2. CASE i \in (Pos + 1)..Len(files[fd])
    <3>1. files[fd][i] \in fresh
      BY <1>1, <2>2 DEF Unread
    <3>2. i \in 1..Len(files[fd])
      BY <1>2, <2>1, <2>2
    <3>3. files'[fd][i] = files[fd][i]
      BY <1>7, <2>1, <3>2 DEF Grown
    <3>4. fresh \subseteq fresh'
      BY <1>1
    <3> QED
      BY <3>1, <3>3, <3>4
  <2>3. CASE fd = wfd /\ i = Len(files[fd]) + 1
    BY <1>1, <1>4, <1>6, <2>3
  <2>4. fd # wfd => files'[fd] = files[fd]
    BY <1>6, <2>1
  <2>5. fd = wfd => Len(files'[fd]) = Len(files[fd]) + 1
    BY <1>4, <1>6
  <2>6. i \in (Pos + 1)..Len(files[fd]) \/ (fd = wfd /\ i = Len(files[fd]) + 1)
    BY <1>2, <2>1, <2>4, <2>5
  <2> QED
    BY <2>2, <2>3, <2>6
<1>11. ASSUME truncs = 0
       PROVE  Runs' /\ Covered'
  <2>1. Runs /\ Covered
    BY <1>11 DEF IInv
  <2>2. /\ chan \in Seq(Message) /\ hand \in Seq(Message) /\ DOMAIN chan = 1..Len(chan)
        /\ \A k \in DOMAIN chan : chan[k] \in Message
        /\ hand # <<>> => hand[1] \in Message
        /\ partial \in Seq(Units) /\ pending \in Seq(Units) /\ toff \in Nat
        /\ MaxUnits \in Nat
    BY <1>1, EmptySeq, InHandIs DEF TypeOK
  <2>3. ASSUME NEW m \in Message, Run(m.ids, m.gen, m.off)
        PROVE  /\ Len(m.ids) <= m.off /\ m.off <= Len(files'[m.gen])
               /\ \A i \in 1..Len(m.ids) : m.ids[i] = files'[m.gen][m.off - Len(m.ids) + i]
    <3>1. m.ids \in Seq(Units) /\ m.off \in Nat /\ m.gen \in Gens
      BY MessageFacts
    <3> QED
      BY <1>2, <1>7, <2>3, <3>1, RunGrows
  <2>4. Runs'
    <3>1. fd # 0 => /\ Len(partial) <= Pos /\ Pos <= Len(files'[fd])
                    /\ \A i \in 1..Len(partial) : partial[i] = files'[fd][Pos - Len(partial) + i]
      <4> SUFFICES ASSUME fd # 0
                   PROVE  /\ Len(partial) <= Pos /\ Pos <= Len(files'[fd])
                          /\ \A i \in 1..Len(partial) : partial[i] = files'[fd][Pos - Len(partial) + i]
        OBVIOUS
      <4>1. Run(partial, fd, Pos) /\ fd \in Gens /\ files[fd] \in Seq(Units) /\ Pos \in Nat
        BY <1>2, <2>1 DEF Runs
      <4> QED
        BY <1>7, <2>2, <4>1, RunGrows
    <3>2. pending # <<>> =>
            /\ fd # 0 /\ pendingOff = toff
            /\ Len(pending) <= toff /\ toff <= Len(files'[fd])
            /\ \A i \in 1..Len(pending) : pending[i] = files'[fd][toff - Len(pending) + i]
      <4> SUFFICES ASSUME pending # <<>>
                   PROVE  /\ fd # 0 /\ pendingOff = toff
                          /\ Len(pending) <= toff /\ toff <= Len(files'[fd])
                          /\ \A i \in 1..Len(pending) : pending[i] = files'[fd][toff - Len(pending) + i]
        OBVIOUS
      <4>1. fd # 0 /\ pendingOff = toff /\ Run(pending, fd, toff)
        BY <2>1 DEF Runs
      <4>2. fd \in Gens /\ files[fd] \in Seq(Units)
        BY <1>2, <4>1
      <4> QED
        BY <1>7, <2>2, <4>1, <4>2, RunGrows
    <3>3. Pos' = Pos
      BY <1>1 DEF Pos
    <3>4. \A k \in DOMAIN chan' : Run(chan[k].ids, chan[k].gen, chan[k].off)'
      <4>1. \A k \in DOMAIN chan : chan[k] \in Message /\ Run(chan[k].ids, chan[k].gen, chan[k].off)
        BY <2>1, <2>2 DEF Runs
      <4> QED
        BY <1>1, <2>3, <4>1 DEF Run
    <3>5. hand' # <<>> => Run(hand[1].ids, hand[1].gen, hand[1].off)'
      <4>1. hand # <<>> => hand[1] \in Message /\ Run(hand[1].ids, hand[1].gen, hand[1].off)
        BY <2>1, <2>2 DEF Runs
      <4> QED
        BY <1>1, <2>3, <4>1 DEF Run
    <3>6. fd' # 0 => Run(partial, fd, Pos)'
      BY <1>1, <3>1, <3>3 DEF Run
    <3>7. pending' # <<>> => fd' # 0 /\ pendingOff' = toff' /\ Run(pending, fd, toff)'
      BY <1>1, <3>2 DEF Run
    <3> QED
      BY <3>4, <3>5, <3>6, <3>7 DEF Runs
  <2>5. Done' = Done /\ InHand' = InHand /\ \A k : Carried(k)' = Carried(k)
    BY <1>1 DEF Done, InHand, Carried
  <2>6. ASSUME NEW g \in Gens, NEW n \in Nat, NEW S, Within(g, n, S)
        PROVE  n <= Len(files'[g]) /\ \A i \in 1..n : files'[g][i] \in S
    BY <1>2, <1>7, <2>6, WithinGrows
  <2>7. \A e \in {mem, disk}' \ {NoEntry} : Within(e.gen, e.off, Done)'
    <3> SUFFICES ASSUME NEW e \in {mem, disk} \ {NoEntry}
                 PROVE  e.off <= Len(files'[e.gen]) /\ \A i \in 1..e.off : files'[e.gen][i] \in Done
      BY <1>1, <2>5 DEF Within
    <3>1. e.gen \in Gens /\ e.off \in Nat
      BY <1>1 DEF TypeOK, Entry
    <3> QED
      BY <2>1, <2>6, <3>1 DEF Covered
  <2>8. \A k \in DOMAIN chan' : Within(chan[k].gen, chan[k].off, Done \cup Carried(k))'
    <3> SUFFICES ASSUME NEW k \in DOMAIN chan
                 PROVE  /\ chan[k].off <= Len(files'[chan[k].gen])
                        /\ \A i \in 1..chan[k].off : files'[chan[k].gen][i] \in Done \cup Carried(k)
      BY <1>1, <2>5 DEF Within
    <3>1. chan[k].gen \in Gens /\ chan[k].off \in Nat
      BY <2>2, MessageFacts
    <3> QED
      BY <2>1, <2>6, <3>1 DEF Covered
  <2>9. hand' # <<>> => Within(hand[1].gen, hand[1].off, Done \cup Carried(Len(chan)) \cup InHand)'
    <3> SUFFICES ASSUME hand # <<>>
                 PROVE  /\ hand[1].off <= Len(files'[hand[1].gen])
                        /\ \A i \in 1..hand[1].off :
                             files'[hand[1].gen][i] \in Done \cup Carried(Len(chan)) \cup InHand
      BY <1>1, <2>5 DEF Within, Carried
    <3>1. hand[1].gen \in Gens /\ hand[1].off \in Nat
      BY <2>2, MessageFacts
    <3> QED
      BY <2>1, <2>6, <3>1 DEF Covered
  <2>10. tpc' \notin {"open", "stopped"} =>
           Within(fd, toff, Done \cup Carried(Len(chan)) \cup InHand \cup SeqSet(pending))'
    <3> SUFFICES ASSUME tpc \notin {"open", "stopped"}
                 PROVE  /\ toff <= Len(files'[fd])
                        /\ \A i \in 1..toff :
                             files'[fd][i] \in Done \cup Carried(Len(chan)) \cup InHand \cup SeqSet(pending)
      BY <1>1, <2>5 DEF Within, Carried
    <3>1. fd \in Gens
      BY <1>1, <1>2 DEF Places
    <3> QED
      BY <2>1, <2>2, <2>6, <3>1 DEF Covered
  <2>11. tpc = "open" /\ resume =>
           toff = 0 \/ (mem # NoEntry /\ toff = mem.off /\ chan = <<>> /\ hand = <<>>)
    BY <2>1 DEF Covered
  <2>12. Covered'
    BY <1>1, <2>7, <2>8, <2>9, <2>10, <2>11 DEF Covered
  <2> QED
    BY <2>4, <2>12
<1> QED
  BY <1>1, <1>8, <1>9, <1>10, <1>11 DEF IInv

LEMMA RotationStep ==
  ASSUME IInv, Rotation
  PROVE  IInv'
<1> USE Constants
<1>1. /\ TypeOK /\ Places /\ BufferBound /\ Unread
      /\ UNCHANGED <<multi, last, mem, disk, main, restarts, hand, delivered, chan,
                     tpc, fd, resume, toff, partial, pending, pendingOff, excluded, skipped, sent, fresh, failed>>
  BY DEF IInv, Rotation, Rename, Create, Reopen, Truncate, AgentUnchanged, posVars, procVars, mainVars,
         registryVars
<1>2. CASE Rename \/ Create \/ Reopen
  <2>1. files' = files /\ truncs' = truncs
    BY <1>2 DEF Rename, Create, Reopen
  <2>2. /\ path' \in 0..gens' /\ wfd' \in 1..gens' /\ gens' \in Gens /\ gens <= gens' /\ gens \in Nat
        /\ path' = 0 => gens' < MaxGens
    <3>1. /\ path \in 0..gens /\ wfd \in 1..gens /\ gens \in Nat /\ gens >= 1 /\ gens <= MaxGens
          /\ path = 0 => gens < MaxGens
      BY <1>1 DEF TypeOK, Places, Gens
    <3>2. CASE Rename
      BY <3>1, <3>2 DEF Rename, Gens
    <3>3. CASE Create
      BY <3>1, <3>3 DEF Create, Gens
    <3>4. CASE Reopen
      BY <3>1, <3>4 DEF Reopen, Gens
    <3> QED
      BY <1>2, <3>2, <3>3, <3>4
  <2>3. fd \in 0..gens'
    BY <1>1, <2>2 DEF TypeOK, Gens
  <2>4. TypeOK'
    BY <1>1, <2>1, <2>2, <2>3 DEF TypeOK
  <2>5. Places' /\ BufferBound' /\ Unread'
    BY <1>1, <2>1, <2>2 DEF Places, BufferBound, Unread, Pos
  <2>6. Runs => Runs'
    BY <1>1, <2>1 DEF Runs, Run, Pos
  <2>7. Covered => Covered'
    BY <1>1, <2>1 DEF Covered, Within, Done, Carried, InHand
  <2> QED
    BY <2>1, <2>4, <2>5, <2>6, <2>7 DEF IInv
<1>3. CASE Truncate
  <2>1. /\ truncs' = truncs + 1 /\ truncs' \in 0..MaxTruncs /\ truncs' # 0 /\ path \in Gens
        /\ files' = [files EXCEPT ![path] = <<>>] /\ files \in [Gens -> Seq(Units)]
        /\ UNCHANGED <<path, wfd, gens>>
    BY <1>1, <1>3, Facts DEF Truncate, TypeOK
  <2>2. <<>> \in Seq(Units) /\ Len(<<>>) = 0
    OBVIOUS
  <2>3. /\ files' \in [Gens -> Seq(Units)] /\ files'[path] = <<>>
        /\ \A g \in Gens : g # path => files'[g] = files[g]
    BY ONLY <2>1, <2>2
  <2>4. TypeOK'
    BY <1>1, <2>1, <2>3 DEF TypeOK
  <2>5. Places' /\ BufferBound'
    <3>1. \A g \in Gens : Len(files'[g]) <= last
      <4>1. \A g \in Gens : Len(files[g]) <= last
        BY <1>1 DEF Places
      <4>2. 0 <= last
        BY <1>1, Facts
      <4> QED
        BY <2>2, <2>3, <4>1, <4>2
    <3> QED
      BY <1>1, <2>1, <3>1 DEF Places, BufferBound, Pos
  <2>6. Unread'
    <3> SUFFICES ASSUME ~failed, tpc \in {"idle", "check", "rotate"}, NEW i \in (Pos + 1)..Len(files'[fd])
                 PROVE  files'[fd][i] \in fresh
      BY <1>1 DEF Unread, Pos
    <3>1. fd \in Gens /\ Pos \in Nat
      BY <1>1, Facts DEF Places
    <3>2. fd # path
      BY <2>2, <2>3, <3>1
    <3> QED
      BY <1>1, <2>3, <3>1, <3>2 DEF Unread
  <2> QED
    BY <2>1, <2>4, <2>5, <2>6 DEF IInv
<1> QED
  BY <1>2, <1>3 DEF Rotation

----------------------------------------------------------------------------
(* The invariant.                                                          *)

LEMMA InitInv == Init => IInv
<1> SUFFICES ASSUME Init
             PROVE  IInv
  OBVIOUS
<1> USE Constants
<1>1. /\ multi \in BOOLEAN /\ files = [g \in Gens |-> <<>>]
      /\ last = 0 /\ path = 1 /\ wfd = 1 /\ gens = 1 /\ truncs = 0
      /\ tpc = "open" /\ fd = 0 /\ resume = FALSE /\ toff = 0
      /\ partial = <<>> /\ pending = <<>> /\ pendingOff = 0 /\ hand = <<>> /\ chan = <<>>
      /\ mem = NoEntry /\ disk = NoEntry /\ main = "run" /\ restarts = 0
      /\ delivered = {} /\ excluded = {} /\ skipped = {} /\ sent = {} /\ fresh = {} /\ failed = FALSE
  BY DEF Init
<1>2. /\ <<>> \in Seq(Units) /\ <<>> \in Seq(Message) /\ Len(<<>>) = 0 /\ DOMAIN <<>> = {}
  OBVIOUS
<1>3. files \in [Gens -> Seq(Units)] /\ 1 \in Gens /\ \A g \in Gens : Len(files[g]) <= last
  BY <1>1, <1>2 DEF Gens
<1>4. TypeOK
  <2>1. /\ last \in 0..MaxUnits /\ path \in 0..gens /\ wfd \in 1..gens /\ gens \in Gens
        /\ truncs \in 0..MaxTruncs /\ fd \in 0..gens /\ toff \in 0..MaxUnits /\ pendingOff \in 0..MaxUnits
        /\ restarts \in 0..MaxRestarts
    BY <1>1, <1>3
  <2>2. /\ partial \in Seq(Units) /\ pending \in Seq(Units) /\ hand \in Seq(Message) /\ Len(hand) <= 1
        /\ chan \in Seq(Message) /\ Len(chan) <= Cap
    BY <1>1, <1>2
  <2> QED
    BY <1>1, <1>3, <2>1, <2>2 DEF TypeOK
<1>5. Pos = 0
  BY <1>1, <1>2 DEF Pos
<1>6. Places /\ BufferBound /\ Unread
  BY <1>1, <1>2, <1>3, <1>5 DEF Places, BufferBound, Unread
<1>7. Runs /\ Covered
  BY <1>1, <1>2 DEF Runs, Covered
<1> QED
  BY <1>4, <1>6, <1>7 DEF IInv

LEMMA StutterInv == IInv /\ UNCHANGED vars => IInv'
<1> SUFFICES ASSUME IInv, UNCHANGED vars
             PROVE  IInv'
  OBVIOUS
<1>1. UNCHANGED <<multi, files, last, path, wfd, gens, truncs, mem, disk, main, restarts, hand, delivered, chan,
                  tpc, fd, resume, toff, partial, pending, pendingOff, excluded, skipped, sent, fresh, failed>>
  BY DEF vars, envVars, posVars, procVars, registryVars, mainVars
<1>2. TypeOK'
  BY <1>1 DEF IInv, TypeOK
<1>3. Places' /\ BufferBound' /\ Unread'
  BY <1>1 DEF IInv, Places, BufferBound, Unread, Pos
<1>4. Runs => Runs'
  BY <1>1 DEF Runs, Run, Pos
<1>5. Covered => Covered'
  BY <1>1 DEF Covered, Within, Done, Carried, InHand
<1> QED
  BY <1>1, <1>2, <1>3, <1>4, <1>5 DEF IInv

LEMMA NextInv == IInv /\ [Next]_vars => IInv'
<1> SUFFICES ASSUME IInv, Next
             PROVE  IInv'
  BY StutterInv
<1>1. CASE Write \/ Rotation
  BY <1>1, WriteStep, RotationStep
<1>2. CASE Tailer
  <2>1. CASE Open \/ Read \/ RotateClose
    BY <2>1, OpenStep, ReadStep, CloseStep
  <2>2. CASE EmitLine \/ EmitRest \/ RotatePartial
    BY <2>2, EmitLineStep, EmitRestStep
  <2>3. CASE IdleFlush \/ RotateFlush
    BY <2>3, FlushStep
  <2>4. CASE ReadEOF \/ ReadError \/ Check \/ Wake \/ Quit
    BY <2>4, MoveStep
  <2>5. CASE Send \/ Drop
    BY <2>5, SendStep, DropStep
  <2> QED
    BY <1>2, <2>1, <2>2, <2>3, <2>4, <2>5 DEF Tailer
<1>3. CASE Deliver
  BY <1>3, DeliverStep
<1>4. CASE Persist \/ Stop \/ Crash \/ Exit
  BY <1>4, ProcessStep
<1>5. CASE Restart
  BY <1>5, RestartStep
<1> QED
  BY <1>1, <1>2, <1>3, <1>4, <1>5 DEF Next

\* The invariant the theorems follow from.
THEOREM Invariant == Spec => []IInv
BY InitInv, NextInv, PTL DEF Spec

----------------------------------------------------------------------------
(* What follows.                                                           *)

\* Every variable of tailer.run and its processor keeps its type, and the channel is
\* never over its capacity.
THEOREM Typing == Spec => []TypeOK
<1>1. IInv => TypeOK
  BY DEF IInv
<1> QED
  BY <1>1, Invariant, PTL

\* What tailer.emit and processor.line buffer is bounded by maxLineBytes and one read.
THEOREM Bounded == Spec => []BufferBound
<1>1. IInv => BufferBound
  BY DEF IInv
<1> QED
  BY <1>1, Invariant, PTL

\* A run, unit by unit, is a run.
LEMMA RunIsRun ==
  ASSUME NEW q \in Seq(Units), NEW g \in Gens, NEW n \in Nat, files[g] \in Seq(Units), Run(q, g, n)
  PROVE  RunOf(q, g, n)
<1>1. Len(q) \in Nat /\ Len(files[g]) \in Nat /\ Len(q) <= n /\ n <= Len(files[g])
  BY EmptySeq DEF Run
<1> DEFINE m == n - Len(q) + 1
           s == SubSeq(files[g], m, n)
<1>2. m \in Nat /\ m >= 1 /\ m <= n + 1 /\ n - m + 1 = Len(q)
  BY <1>1
<1>3. \A i \in 1..Len(q) : m + i - 1 = n - Len(q) + i
  BY <1>1
<1> HIDE DEF m
<1>4. s \in Seq(Units) /\ Len(s) = n - m + 1 /\ \A i \in 1..(n - m + 1) : s[i] = files[g][m + i - 1]
  BY <1>1, <1>2, SubSeqFacts
<1> HIDE DEF s
<1>5. \A i \in 1..Len(q) : q[i] = s[i]
  BY <1>2, <1>3, <1>4 DEF Run
<1>6. q = s
  BY <1>2, <1>4, <1>5, SameSeq
<1> QED
  BY <1>1, <1>6 DEF RunOf, s, m

\* A message of tailer.emit is one contiguous run of one file that ends at its offset,
\* and what is buffered is the run up to the offset, across rotations, aggregation,
\* forced flushes and restarts.
THEOREM OffsetsMeanContent == Spec => []OffsetMatchesContent
<1>1. ASSUME IInv
      PROVE  OffsetMatchesContent
  <2> SUFFICES ASSUME truncs = 0
               PROVE  /\ \A m \in SeqSet(chan) \cup SeqSet(hand) : RunOf(m.ids, m.gen, m.off)
                      /\ fd # 0 => RunOf(partial, fd, Pos)
                      /\ pending # <<>> => fd # 0 /\ pendingOff = toff /\ RunOf(pending, fd, toff)
    BY DEF OffsetMatchesContent
  <2>1. /\ TypeOK /\ Runs /\ \A g \in Gens : files[g] \in Seq(Units)
        /\ fd # 0 => fd \in Gens
        /\ Pos \in Nat /\ toff \in Nat
    BY <1>1, Facts DEF IInv
  <2>2. /\ chan \in Seq(Message) /\ hand \in Seq(Message) /\ Len(hand) <= 1
        /\ partial \in Seq(Units) /\ pending \in Seq(Units)
    BY <2>1 DEF TypeOK
  <2>3. ASSUME NEW m \in SeqSet(chan) \cup SeqSet(hand)
        PROVE  m \in Message /\ Run(m.ids, m.gen, m.off)
    <3>1. CASE m \in SeqSet(chan)
      <4>1. PICK k \in DOMAIN chan : m = chan[k]
        BY <3>1 DEF SeqSet
      <4> QED
        BY <2>1, <2>2, <4>1, EmptySeq DEF Runs
    <3>2. CASE m \in SeqSet(hand)
      <4>1. PICK k \in 1..Len(hand) : m = hand[k]
        BY <2>2, <3>2, SeqSetOf
      <4>2. k = 1 /\ Len(hand) # 0 /\ hand[1] \in Message
        BY <2>2, <4>1, EmptySeq
      <4>3. hand # <<>>
        BY <2>2, <4>2, EmptySeq
      <4> QED
        BY <2>1, <4>1, <4>2, <4>3 DEF Runs
    <3> QED
      BY <3>1, <3>2
  <2>4. \A m \in SeqSet(chan) \cup SeqSet(hand) : RunOf(m.ids, m.gen, m.off)
    <3> SUFFICES ASSUME NEW m \in SeqSet(chan) \cup SeqSet(hand)
                 PROVE  RunOf(m.ids, m.gen, m.off)
      OBVIOUS
    <3>1. m.ids \in Seq(Units) /\ m.gen \in Gens /\ m.off \in Nat /\ Run(m.ids, m.gen, m.off)
      BY <2>3, MessageFacts, Constants
    <3> QED
      BY <2>1, <3>1, RunIsRun
  <2>5. fd # 0 => RunOf(partial, fd, Pos)
    BY <2>1, <2>2, RunIsRun DEF Runs
  <2>6. pending # <<>> => fd # 0 /\ pendingOff = toff /\ RunOf(pending, fd, toff)
    BY <2>1, <2>2, RunIsRun DEF Runs
  <2> QED
    BY <2>4, <2>5, <2>6
<1> QED
  BY <1>1, Invariant, PTL

\* No entry of the registry, saved or not, is past a unit that is not settled.
THEOREM EntriesBehind == Spec => []EntryNeverAhead
<1>1. ASSUME IInv
      PROVE  EntryNeverAhead
  BY <1>1 DEF IInv, EntryNeverAhead, Covered, Within, Done
<1> QED
  BY <1>1, Invariant, PTL

\* tailer.run leaves a rotated file with nothing of it buffered and, unless its last
\* read failed, with all that was there at its last end of file read.
THEOREM ReadToEnd == Spec => RotatedFileReadToEnd
<1>1. ASSUME IInv, [Next]_vars, main # "down", tpc = "rotate", tpc' = "open"
      PROVE  /\ failed \/ {files[fd][i] : i \in (Pos + 1)..Len(files[fd])} \subseteq fresh
             /\ partial = <<>> /\ pending = <<>>
  <2>1. RotateClose
    <3>1. tpc' # tpc
      BY <1>1
    <3>2. Next
      BY <1>1, <3>1 DEF vars
    <3>3. ~(Write \/ Rotation \/ Deliver \/ Persist \/ Stop \/ Crash \/ Exit)
      BY <3>1 DEF Write, Rotation, Rename, Create, Reopen, Truncate, AgentUnchanged, Deliver, Persist,
                  Stop, Crash, Exit
    <3>4. ~Restart
      BY <1>1 DEF Restart
    <3>5. Tailer
      BY <3>2, <3>3, <3>4 DEF Next
    <3> QED
      BY <1>1, <3>5 DEF Tailer, Open, Read, EmitLine, EmitRest, ReadEOF, ReadError, IdleFlush, Check,
                        RotatePartial, RotateFlush, Wake, Quit, Send, Drop
  <2>2. partial = <<>> /\ pending = <<>>
    BY <2>1 DEF RotateClose
  <2>3. failed \/ {files[fd][i] : i \in (Pos + 1)..Len(files[fd])} \subseteq fresh
    BY <1>1 DEF IInv, Unread
  <2> QED
    BY <2>2, <2>3
<1>2. IInv /\ [Next]_vars
        => [main # "down" /\ tpc = "rotate" /\ tpc' = "open" =>
              /\ failed \/ {files[fd][i] : i \in (Pos + 1)..Len(files[fd])} \subseteq fresh
              /\ partial = <<>> /\ pending = <<>>]_vars
  BY <1>1
<1> QED
  BY <1>2, Invariant, PTL DEF Spec, RotatedFileReadToEnd

============================================================================
