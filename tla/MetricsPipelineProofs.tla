----------------------- MODULE MetricsPipelineProofs -----------------------
(***************************************************************************)
(* Proofs about MetricsPipeline, for any items, packets, listeners and     *)
(* capacities: type correctness, that the final flush covers what was      *)
(* accepted before the shutdown, and that what was accepted for a context  *)
(* leaves once and in order; and, whatever they read, what the collectors  *)
(* report of counters, disks, mounts, memory and graphs, what is read of   *)
(* an event and of a line, and what the payloads of a flush carry.         *)
(***************************************************************************)
EXTENDS MetricsPipeline, RecursionFacts

\* What the definitions and assumptions say of items, kinds and bins
\* (aggregator.go:32-53).
LEMMA ItemTypes ==
  /\ \A i \in Items : KindOf(i) \in Kinds /\ BinOf(i) \in Bins \cup {None}
  /\ \A i \in Samples : KindOf(i) = "sample" /\ BinOf(i) \in Contexts \cup {None}
  /\ \A i \in Items \ Samples : BinOf(i) \in Lists /\ BinOf(i) = KindOf(i)
  /\ None \notin Bins /\ Contexts \cap Lists = {}
  /\ Contexts \subseteq Bins /\ "check" \in Bins /\ "event" \in Bins
BY ItemsAssumption DEF Items, Kinds, KindOf, BinOf, Bins, Lists

LEMMA AppendSet ==
  ASSUME NEW S, NEW q \in Seq(S), NEW x \in S
  PROVE  Append(q, x) \in Seq(S) /\ SeqSet(Append(q, x)) = SeqSet(q) \cup {x}
<1>1. /\ Append(q, x) \in Seq(S) /\ DOMAIN Append(q, x) = DOMAIN q \cup {Len(q) + 1}
      /\ Append(q, x)[Len(q) + 1] = x /\ \A j \in DOMAIN q : Append(q, x)[j] = q[j]
  OBVIOUS
<1>2. SeqSet(Append(q, x)) \subseteq SeqSet(q) \cup {x}
  BY <1>1 DEF SeqSet
<1>3. SeqSet(q) \cup {x} \subseteq SeqSet(Append(q, x))
  BY <1>1 DEF SeqSet
<1> QED
  BY <1>1, <1>2, <1>3

LEMMA ConcatSet ==
  ASSUME NEW S, NEW p \in Seq(S), NEW q \in Seq(S)
  PROVE  p \o q \in Seq(S) /\ SeqSet(p \o q) = SeqSet(p) \cup SeqSet(q)
<1>1. p \o q \in Seq(S) /\ Len(p \o q) = Len(p) + Len(q)
  OBVIOUS
<1>2. SeqSet(p \o q) \subseteq SeqSet(p) \cup SeqSet(q)
  <2> SUFFICES ASSUME NEW j \in DOMAIN (p \o q)
               PROVE  (p \o q)[j] \in SeqSet(p) \cup SeqSet(q)
    BY DEF SeqSet
  <2>1. CASE j <= Len(p)
    BY <1>1, <2>1 DEF SeqSet
  <2>2. CASE j > Len(p)
    <3>1. (p \o q)[j] = q[j - Len(p)] /\ j - Len(p) \in DOMAIN q
      BY <1>1, <2>2
    <3> QED
      BY <3>1 DEF SeqSet
  <2> QED
    BY <1>1, <2>1, <2>2
<1>3. SeqSet(p) \subseteq SeqSet(p \o q)
  <2> SUFFICES ASSUME NEW j \in DOMAIN p PROVE p[j] \in SeqSet(p \o q)
    BY DEF SeqSet
  <2>1. (p \o q)[j] = p[j] /\ j \in DOMAIN (p \o q)
    BY <1>1
  <2> QED
    BY <2>1 DEF SeqSet
<1>4. SeqSet(q) \subseteq SeqSet(p \o q)
  <2> SUFFICES ASSUME NEW j \in DOMAIN q PROVE q[j] \in SeqSet(p \o q)
    BY DEF SeqSet
  <2>1. (p \o q)[Len(p) + j] = q[j] /\ Len(p) + j \in DOMAIN (p \o q)
    BY <1>1
  <2> QED
    BY <2>1 DEF SeqSet
<1> QED
  BY <1>1, <1>2, <1>3, <1>4

LEMMA HeadTailSet ==
  ASSUME NEW S, NEW q \in Seq(S), q # <<>>
  PROVE  /\ Head(q) \in S /\ Tail(q) \in Seq(S) /\ Len(Tail(q)) = Len(q) - 1
         /\ SeqSet(q) = {Head(q)} \cup SeqSet(Tail(q))
<1>1. /\ Head(q) \in S /\ Tail(q) \in Seq(S) /\ Len(Tail(q)) = Len(q) - 1 /\ Len(q) > 0
      /\ Head(q) = q[1] /\ \A j \in 1..(Len(q) - 1) : Tail(q)[j] = q[j + 1]
  OBVIOUS
<1>2. SeqSet(q) \subseteq {Head(q)} \cup SeqSet(Tail(q))
  <2> SUFFICES ASSUME NEW j \in DOMAIN q, j # 1 PROVE q[j] \in SeqSet(Tail(q))
    BY <1>1 DEF SeqSet
  <2>1. Tail(q)[j - 1] = q[j] /\ j - 1 \in DOMAIN Tail(q)
    BY <1>1
  <2> QED
    BY <2>1 DEF SeqSet
<1>3. {Head(q)} \cup SeqSet(Tail(q)) \subseteq SeqSet(q)
  BY <1>1 DEF SeqSet
<1> QED
  BY <1>1, <1>2, <1>3

----------------------------------------------------------------------------
LEMMA InitInv == Init => IInv
<1> SUFFICES ASSUME Init PROVE IInv
  OBVIOUS
<1>1. /\ unsent \subseteq Packets /\ net \in [ListenerSet -> Seq(Packets)]
      /\ rest \in [ListenerSet -> Seq(Items)]
  BY DEF Init
<1>2. bound \in 0..Len(Listeners) /\ bound < Len(Listeners)
  BY ListenersAssumption DEF Init
<1>3. /\ chan \in [Kinds -> Seq(Items)] /\ accepted \in [Kinds -> Seq(Items)]
      /\ held \in [Bins -> Seq(Items)] /\ out \in [Contexts -> Seq(Items)]
      /\ gone \in [Bins -> Seq(Items)]
  BY DEF Init
<1>4. \A k \in Kinds : Len(chan[k]) <= Capacity[k] /\ SeqSet(chan[k]) = {}
  BY CapacityAssumption DEF Init, SeqSet
<1>5. TypeOK
  BY <1>1, <1>2, <1>3, <1>4 DEF Init, TypeOK
<1>6. EarlyKept /\ StageInv
  BY <1>2 DEF Init, EarlyKept, StageInv
<1> QED
  BY <1>5, <1>6 DEF IInv

\* A step that moves no accepted item.
LEMMA QuietStep ==
  ASSUME IInv, UNCHANGED <<chan, held, out, gone, early, final>>,
         apc' = apc \/ {apc, apc'} \subseteq {"select", "drain"}
  PROVE  EarlyKept'
BY DEF IInv, StageInv, EarlyKept, Left, Collected, Kept, Queued, StillToPost

\* The steps of the server that move packets and sockets only
\* (server.go:58-129), and those of main (main.go:57-58, 208-219).
LEMMA QuietInv ==
  ASSUME IInv,
         \/ \E l \in ListenerSet : SendPacket(l) \/ ReadPacket(l)
         \/ Bind \/ BindFail \/ CloseAll \/ ServerReturn \/ SeeCtxDone \/ Signal \/ Exit
  PROVE  IInv'
<1>1. UNCHANGED <<bufferVars, held, out, final, historyVars>>
  BY DEF SendPacket, ReadPacket, Bind, BindFail, CloseAll, ServerReturn, SeeCtxDone, Signal,
         Exit, aggVars
<1>2. /\ apc' = apc \/ (apc = "select" /\ apc' = "drain" /\ CtxDone)
      /\ main' \in {"run", "stop", "exited"} /\ bindErr' \in BOOLEAN /\ (CtxDone => CtxDone')
  BY DEF SendPacket, ReadPacket, Bind, BindFail, CloseAll, ServerReturn, SeeCtxDone, Signal,
         Exit, aggVars, mainVars, IInv, TypeOK, CtxDone
<1>3. /\ unsent' \subseteq Packets /\ net' \in [ListenerSet -> Seq(Packets)]
      /\ rest' \in [ListenerSet -> Seq(Items)]
  <2>1. CASE \E l \in ListenerSet : SendPacket(l)
    BY <2>1 DEF SendPacket, IInv, TypeOK
  <2>2. CASE \E l \in ListenerSet : ReadPacket(l)
    <3>1. PICK l \in ListenerSet : ReadPacket(l)
      BY <2>2
    <3>2. net[l] \in Seq(Packets) /\ net[l] # <<>>
      BY <3>1 DEF ReadPacket, IInv, TypeOK
    <3>3. Head(net[l]) \in Seq(Items) /\ Tail(net[l]) \in Seq(Packets)
      BY <3>2, PacketsAssumption, HeadTailSet
    <3> QED
      BY <3>1, <3>3 DEF ReadPacket, IInv, TypeOK
  <2>3. CASE BindFail \/ CloseAll
    <3>1. net' = [l \in ListenerSet |-> <<>>] /\ UNCHANGED <<unsent, rest>>
      BY <2>3 DEF BindFail, CloseAll
    <3> QED
      BY <3>1 DEF IInv, TypeOK
  <2>4. CASE Bind \/ ServerReturn \/ SeeCtxDone \/ Signal \/ Exit
    <3>1. UNCHANGED <<unsent, net, rest>>
      BY <2>4 DEF Bind, ServerReturn, SeeCtxDone, Signal, Exit, serverVars
    <3> QED
      BY <3>1 DEF IInv, TypeOK
  <2> QED
    BY <2>1, <2>2, <2>3, <2>4
<1>4. /\ bound' \in 0..Len(Listeners) /\ (spc' = "bind" => bound' < Len(Listeners))
      /\ spc' \in {"bind", "serve", "closing", "returned", "failed"}
  <2>1. CASE Bind
    BY <2>1, ListenersAssumption DEF Bind, IInv, TypeOK, StageInv
  <2>2. CASE ~Bind
    BY <2>2, ListenersAssumption
       DEF SendPacket, ReadPacket, BindFail, CloseAll, ServerReturn, SeeCtxDone, Signal, Exit,
           serverVars, IInv, TypeOK, StageInv
  <2> QED
    BY <2>1, <2>2
<1>5. TypeOK'
  BY <1>1, <1>2, <1>3, <1>4 DEF IInv, TypeOK, bufferVars, historyVars
<1>6. EarlyKept'
  BY <1>1, <1>2, QuietStep DEF bufferVars, historyVars
<1>7. StageInv'
  BY <1>1, <1>2, <1>4 DEF IInv, StageInv
<1> QED
  BY <1>5, <1>6, <1>7 DEF IInv
----------------------------------------------------------------------------
\* handlePacket gives one item to the aggregator (server.go:131-163,
\* aggregator.go:108-134).
LEMMA HandleItemInv ==
  ASSUME IInv, NEW l \in ListenerSet, HandleItem(l)
  PROVE  IInv'
<1>0. PICK i : i = Head(rest[l])
  OBVIOUS
<1> DEFINE k == KindOf(i)
<1>1. i \in Items /\ Tail(rest[l]) \in Seq(Items) /\ k \in Kinds
  BY <1>0, HeadTailSet, ItemTypes DEF HandleItem, IInv, TypeOK
<1>2. Add(i) /\ UNCHANGED <<unsent, net, bound, spc, aggVars, mainVars, gone>>
  BY <1>0 DEF HandleItem
<1>3. chan[k] \in Seq(Items) /\ accepted[k] \in Seq(Items) /\ Len(chan[k]) \in Nat
  BY <1>1 DEF IInv, TypeOK
<1>4. rest' \in [ListenerSet -> Seq(Items)]
  BY <1>1 DEF HandleItem, IInv, TypeOK
<1>5. StageInv'
  BY <1>2 DEF IInv, StageInv, aggVars, mainVars, CtxDone
<1>6. CASE Len(chan[k]) < Capacity[k]
  <2>1. /\ chan' = [chan EXCEPT ![k] = Append(@, i)]
        /\ accepted' = [accepted EXCEPT ![k] = Append(@, i)]
        /\ early' = (IF CtxDone THEN early ELSE early \cup {i})
        /\ UNCHANGED dropped
    BY <1>2, <1>6 DEF Add
  <2>2. /\ Append(chan[k], i) \in Seq(Items)
        /\ SeqSet(Append(chan[k], i)) = SeqSet(chan[k]) \cup {i}
        /\ Len(Append(chan[k], i)) = Len(chan[k]) + 1
    BY <1>1, <1>3, AppendSet
  <2>3. /\ chan' \in [Kinds -> Seq(Items)] /\ chan'[k] = Append(chan[k], i)
        /\ \A h \in Kinds \ {k} : chan'[h] = chan[h]
    BY <1>1, <2>1, <2>2 DEF IInv, TypeOK
  <2>4. \A h \in Kinds : Len(chan'[h]) <= Capacity[h]
    <3> SUFFICES ASSUME NEW h \in Kinds PROVE Len(chan'[h]) <= Capacity[h]
      OBVIOUS
    <3>1. Len(chan[h]) <= Capacity[h] /\ Capacity[h] \in Nat
      BY CapacityAssumption DEF IInv, TypeOK
    <3>2. CASE h = k
      BY <1>3, <1>6, <2>2, <2>3, <3>1, <3>2
    <3>3. CASE h # k
      BY <2>3, <3>1, <3>3
    <3> QED
      BY <3>2, <3>3
  <2>5. \A h \in Kinds : \A x \in SeqSet(chan'[h]) : KindOf(x) = h
    BY <1>1, <2>2, <2>3 DEF IInv, TypeOK
  <2>6. accepted' \in [Kinds -> Seq(Items)] /\ early' \subseteq Items
    <3>1. Append(accepted[k], i) \in Seq(Items)
      BY <1>1, <1>3
    <3> QED
      BY <1>1, <2>1, <3>1 DEF IInv, TypeOK
  <2>7. TypeOK'
    BY <1>2, <1>4, <2>1, <2>3, <2>4, <2>5, <2>6 DEF IInv, TypeOK, aggVars, mainVars
  <2>8. \A x \in Items : Queued(x) => Queued(x)'
    <3> SUFFICES ASSUME NEW x \in Items, x \in SeqSet(chan[KindOf(x)])
                 PROVE  x \in SeqSet(chan'[KindOf(x)])
      BY <1>2 DEF Queued
    <3> QED
      BY <2>2, <2>3, ItemTypes
  <2>9. ~CtxDone => ~final /\ Queued(i)'
    BY <2>2, <2>3 DEF IInv, StageInv, Queued
  <2>10. EarlyKept'
    BY <1>2, <2>1, <2>8, <2>9
       DEF IInv, TypeOK, EarlyKept, Left, Collected, Kept, StillToPost, aggVars
  <2> QED
    BY <1>5, <2>7, <2>10 DEF IInv
<1>7. CASE ~(Len(chan[k]) < Capacity[k])
  <2>1. dropped' = dropped + 1 /\ UNCHANGED <<chan, accepted, early>>
    BY <1>2, <1>7 DEF Add
  <2>2. TypeOK'
    BY <1>2, <1>4, <2>1 DEF IInv, TypeOK, aggVars, mainVars
  <2>3. EarlyKept'
    BY <1>2, <2>1, QuietStep DEF aggVars
  <2> QED
    BY <1>5, <2>2, <2>3 DEF IInv
<1> QED
  BY <1>6, <1>7

\* The aggregator takes one item from a channel (aggregator.go:148-153, 163-222).
LEMMA TakeInv ==
  ASSUME IInv, NEW k \in Kinds, Receive(k) \/ Drain(k)
  PROVE  IInv'
<1> DEFINE i == Head(chan[k])
<1>1. /\ apc \in {"select", "drain"} /\ chan[k] # <<>>
      /\ chan' = [chan EXCEPT ![k] = Tail(@)]
      /\ held' = IF BinOf(i) = None THEN held ELSE [held EXCEPT ![BinOf(i)] = Append(@, i)]
      /\ UNCHANGED <<serverVars, dropped, out, apc, final, mainVars, historyVars>>
  BY DEF Receive, Drain, Take
<1>2. chan[k] \in Seq(Items)
  BY DEF IInv, TypeOK
<1>3. /\ i \in Items /\ Tail(chan[k]) \in Seq(Items) /\ Len(Tail(chan[k])) = Len(chan[k]) - 1
      /\ SeqSet(chan[k]) = {i} \cup SeqSet(Tail(chan[k]))
  BY <1>1, <1>2, HeadTailSet
<1>4. /\ chan' \in [Kinds -> Seq(Items)] /\ chan'[k] = Tail(chan[k])
      /\ \A h \in Kinds \ {k} : chan'[h] = chan[h]
  BY <1>1, <1>3 DEF IInv, TypeOK
<1>5. \A h \in Kinds : Len(chan'[h]) <= Capacity[h]
  <2> SUFFICES ASSUME NEW h \in Kinds PROVE Len(chan'[h]) <= Capacity[h]
    OBVIOUS
  <2>1. Len(chan[h]) <= Capacity[h] /\ Len(chan[h]) \in Nat /\ Capacity[h] \in Nat
    BY CapacityAssumption DEF IInv, TypeOK
  <2>2. CASE h = k
    BY <1>3, <1>4, <2>1, <2>2
  <2>3. CASE h # k
    BY <1>4, <2>1, <2>3
  <2> QED
    BY <2>2, <2>3
<1>6. \A h \in Kinds : \A x \in SeqSet(chan'[h]) : KindOf(x) = h
  BY <1>3, <1>4 DEF IInv, TypeOK
<1>7. /\ held' \in [Bins -> Seq(Items)]
      /\ \A b \in Bins : SeqSet(held[b]) \subseteq SeqSet(held'[b])
      /\ BinOf(i) # None => i \in SeqSet(held'[BinOf(i)])
  <2>1. CASE BinOf(i) = None
    BY <1>1, <2>1 DEF IInv, TypeOK
  <2>2. CASE BinOf(i) # None
    <3>1. BinOf(i) \in Bins /\ held[BinOf(i)] \in Seq(Items)
      BY <1>3, <2>2, ItemTypes DEF IInv, TypeOK
    <3>2. /\ Append(held[BinOf(i)], i) \in Seq(Items)
          /\ SeqSet(Append(held[BinOf(i)], i)) = SeqSet(held[BinOf(i)]) \cup {i}
      BY <1>3, <3>1, AppendSet
    <3> QED
      BY <1>1, <2>2, <3>1, <3>2 DEF IInv, TypeOK
  <2> QED
    BY <2>1, <2>2
<1>8. TypeOK'
  BY <1>1, <1>4, <1>5, <1>6, <1>7 DEF IInv, TypeOK, serverVars, mainVars, historyVars
<1>9. StageInv'
  BY <1>1 DEF IInv, StageInv, serverVars, mainVars, CtxDone
<1>10. ~final
  BY <1>1 DEF IInv, StageInv
<1>11. ASSUME NEW x \in early, BinOf(x) # None
       PROVE  (Kept(x) => Kept(x)') /\ (Queued(x) => Queued(x)' \/ Kept(x)')
  <2>1. x \in Items /\ KindOf(x) \in Kinds /\ BinOf(x) \in Bins
    BY <1>11, ItemTypes DEF IInv, TypeOK
  <2>2. Kept(x) => Kept(x)'
    BY <1>7, <2>1 DEF Kept
  <2>3. CASE x = i
    BY <1>7, <1>11, <2>2, <2>3 DEF Kept
  <2>4. CASE x # i
    BY <1>3, <1>4, <2>1, <2>2, <2>4 DEF Queued
  <2> QED
    BY <2>3, <2>4, <2>2
<1>12. EarlyKept'
  BY <1>1, <1>10, <1>11 DEF IInv, EarlyKept, Left, Collected, historyVars
<1> QED
  BY <1>8, <1>9, <1>12 DEF IInv

----------------------------------------------------------------------------
\* collect, at a tick or at the end of the drain (aggregator.go:144-155,
\* 163-178, 224-255).
LEMMA CollectInv ==
  ASSUME IInv, Tick \/ DrainEnd
  PROVE  IInv'
<1>1. /\ apc \in {"select", "drain"} /\ apc' = "series" /\ Collect
      /\ UNCHANGED <<serverVars, bufferVars, mainVars, historyVars>>
      /\ \/ apc = "select" /\ final' = final
         \/ apc = "drain" /\ final' = TRUE /\ \A k \in Kinds : chan[k] = <<>>
  BY DEF Tick, DrainEnd
<1>2. ~final
  BY <1>1 DEF IInv, StageInv
<1>3. /\ out' \in [Contexts -> Seq(Items)] /\ held' \in [Bins -> Seq(Items)]
      /\ \A c \in Contexts : out'[c] = held[c]
      /\ \A b \in Bins \ Contexts : held'[b] = held[b]
  BY <1>1, ItemTypes DEF Collect, IInv, TypeOK
<1>4. TypeOK'
  BY <1>1, <1>2, <1>3 DEF IInv, TypeOK, serverVars, bufferVars, mainVars, historyVars
<1>5. StageInv'
  BY <1>1 DEF IInv, StageInv, serverVars, mainVars, CtxDone
<1>6. ASSUME NEW x \in early, BinOf(x) # None
      PROVE  \/ Left(x)' \/ Collected(x)'
             \/ ~final' /\ (Kept(x)' \/ Queued(x)')
             \/ final' /\ Kept(x)' /\ BinOf(x) \in StillToPost'
  <2>1. x \in Items /\ KindOf(x) \in Kinds /\ BinOf(x) \in Bins
    BY <1>6, ItemTypes DEF IInv, TypeOK
  <2>2. Left(x) \/ Kept(x) \/ Queued(x)
    <3>1. Collected(x) => FALSE
      <4>1. x \in Samples => BinOf(x) \in Contexts
        BY <1>6, ItemTypes
      <4> QED
        BY <1>1, <4>1 DEF IInv, StageInv, Collected, SeqSet
    <3> QED
      BY <1>2, <1>6, <3>1 DEF IInv, EarlyKept
  <2>3. CASE Left(x)
    BY <1>1, <2>3 DEF Left, historyVars
  <2>4. CASE Queued(x)
    <3>1. Queued(x)' /\ ~(\A k \in Kinds : chan[k] = <<>>)
      BY <1>1, <2>1, <2>4 DEF Queued, bufferVars, SeqSet
    <3> QED
      BY <1>1, <1>2, <3>1
  <2>5. CASE Kept(x)
    <3>1. CASE BinOf(x) \in Contexts
      <4>1. x \in Samples
        BY <2>1, <3>1, ItemTypes
      <4> QED
        BY <1>3, <2>5, <3>1, <4>1 DEF Kept, Collected
    <3>2. CASE BinOf(x) \notin Contexts
      <4>1. Kept(x)' /\ BinOf(x) \in Lists
        BY <1>3, <2>1, <2>5, <3>2 DEF Kept, Bins
      <4> QED
        BY <1>1, <4>1 DEF StillToPost
    <3> QED
      BY <3>1, <3>2
  <2> QED
    BY <2>2, <2>3, <2>4, <2>5
<1>7. EarlyKept'
  BY <1>1, <1>6 DEF EarlyKept, historyVars
<1> QED
  BY <1>4, <1>5, <1>7 DEF IInv

\* A payload of series leaves, or what is left of them does
\* (aggregator.go:257-267, series.go:119-138).
LEMMA PostInv ==
  ASSUME IInv, PostSeries \/ PostSeriesFail
  PROVE  IInv'
<1>1. PICK C \in SUBSET Unposted :
        /\ Post(C) /\ apc' = (IF C = Unposted THEN "check" ELSE "series")
        /\ apc = "series"
        /\ UNCHANGED <<serverVars, bufferVars, held, final, mainVars, accepted, early>>
  <2>1. CASE PostSeries
    BY <2>1 DEF PostSeries
  <2>2. CASE PostSeriesFail
    BY <2>2 DEF PostSeriesFail
  <2> QED
    BY <2>1, <2>2
<1>2. C \subseteq Contexts /\ Contexts \subseteq Bins
  BY ItemTypes DEF Unposted
<1>3. /\ gone' \in [Bins -> Seq(Items)]
      /\ \A b \in C : SeqSet(gone'[b]) = SeqSet(gone[b]) \cup SeqSet(out[b])
      /\ \A b \in Bins \ C : gone'[b] = gone[b]
  <2>1. \A b \in C : gone[b] \in Seq(Items) /\ out[b] \in Seq(Items)
    BY <1>2 DEF IInv, TypeOK
  <2>2. \A b \in C : /\ gone[b] \o out[b] \in Seq(Items)
                     /\ SeqSet(gone[b] \o out[b]) = SeqSet(gone[b]) \cup SeqSet(out[b])
    BY <2>1, ConcatSet
  <2> QED
    BY <1>1, <1>2, <2>2 DEF Post, IInv, TypeOK
<1>4. /\ out' \in [Contexts -> Seq(Items)]
      /\ \A c \in Contexts \ C : out'[c] = out[c]
      /\ C = Unposted => out' = [c \in Contexts |-> <<>>]
  BY <1>1, <1>2 DEF Post, Unposted, IInv, TypeOK
<1>5. TypeOK'
  BY <1>1, <1>3, <1>4 DEF IInv, TypeOK, serverVars, bufferVars, mainVars
<1>6. StageInv'
  BY <1>1, <1>4 DEF IInv, StageInv, serverVars, mainVars, CtxDone
<1>7. ASSUME NEW x \in early, BinOf(x) # None
      PROVE  (Left(x) \/ Collected(x)) => (Left(x)' \/ Collected(x)')
  <2>1. /\ BinOf(x) \in Bins /\ (x \in Samples => BinOf(x) \in Contexts)
    BY <1>7, ItemTypes DEF IInv, TypeOK
  <2>2. CASE BinOf(x) \in C
    BY <1>3, <2>1, <2>2 DEF Left, Collected
  <2>3. CASE BinOf(x) \notin C
    BY <1>3, <1>4, <2>1, <2>3 DEF Left, Collected
  <2> QED
    BY <2>2, <2>3
<1>8. StillToPost' = StillToPost /\ \A x : (Kept(x) <=> Kept(x)') /\ (Queued(x) <=> Queued(x)')
  BY <1>1 DEF StillToPost, Kept, Queued, bufferVars
<1>9. EarlyKept'
  BY <1>1, <1>7, <1>8 DEF IInv, EarlyKept
<1> QED
  BY <1>5, <1>6, <1>9 DEF IInv

\* flushChecks and flushEvents (aggregator.go:268-325).
LEMMA PostListInv ==
  ASSUME IInv, PostChecks \/ PostEvents
  PROVE  IInv'
<1>1. PICK b \in Lists :
        /\ PostList(b) /\ apc = b
        /\ \/ b = "check" /\ apc' = "event"
           \/ b = "event" /\ apc' = (IF final THEN "done" ELSE "select")
        /\ dropped' \in Nat
        /\ UNCHANGED <<serverVars, chan, out, final, mainVars, accepted, early>>
  BY DEF PostChecks, PostEvents, Lists, IInv, TypeOK, bufferVars
<1>2. b \in Bins
  BY DEF Bins
<1>3. /\ gone[b] \in Seq(Items) /\ held[b] \in Seq(Items)
      /\ gone[b] \o held[b] \in Seq(Items)
      /\ SeqSet(gone[b] \o held[b]) = SeqSet(gone[b]) \cup SeqSet(held[b])
  BY <1>2, ConcatSet DEF IInv, TypeOK
<1>4. /\ gone' \in [Bins -> Seq(Items)] /\ held' \in [Bins -> Seq(Items)]
      /\ SeqSet(gone'[b]) = SeqSet(gone[b]) \cup SeqSet(held[b])
      /\ \A a \in Bins \ {b} : gone'[a] = gone[a] /\ held'[a] = held[a]
  BY <1>1, <1>2, <1>3 DEF PostList, IInv, TypeOK
<1>5. TypeOK'
  BY <1>1, <1>4 DEF IInv, TypeOK, serverVars, mainVars
<1>6. StageInv'
  BY <1>1 DEF IInv, StageInv, Lists, serverVars, mainVars, CtxDone
<1>7. ASSUME NEW x \in early, BinOf(x) # None
      PROVE  \/ Left(x)' \/ Collected(x)'
             \/ ~final' /\ (Kept(x)' \/ Queued(x)')
             \/ final' /\ Kept(x)' /\ BinOf(x) \in StillToPost'
  <2>1. BinOf(x) \in Bins
    BY <1>7, ItemTypes DEF IInv, TypeOK
  <2>2. Left(x) => Left(x)'
    BY <1>4, <2>1 DEF Left
  <2>3. Kept(x) => Left(x)' \/ (Kept(x)' /\ BinOf(x) # b)
    BY <1>4, <2>1 DEF Left, Kept
  <2>4. (Collected(x) => Collected(x)') /\ (Queued(x) => Queued(x)') /\ final' = final
    BY <1>1 DEF Collected, Queued
  <2>5. BinOf(x) \in StillToPost /\ BinOf(x) # b => BinOf(x) \in StillToPost' \/ ~final
    BY <1>1 DEF StillToPost, Lists
  <2> QED
    BY <1>7, <2>2, <2>3, <2>4, <2>5 DEF IInv, EarlyKept
<1>8. EarlyKept'
  BY <1>1, <1>7 DEF EarlyKept
<1> QED
  BY <1>5, <1>6, <1>8 DEF IInv

----------------------------------------------------------------------------
\* Everything the invariant says holds of every behaviour of the pipeline,
\* whatever is sent, bound, cancelled and refused.
THEOREM Invariance == Spec => []IInv
<1>1. IInv /\ [Next]_vars => IInv'
  <2> SUFFICES ASSUME IInv, [Next]_vars PROVE IInv'
    OBVIOUS
  <2>1. CASE \E l \in ListenerSet : HandleItem(l)
    BY <2>1, HandleItemInv
  <2>2. CASE \E k \in Kinds : Receive(k) \/ Drain(k)
    BY <2>2, TakeInv
  <2>3. CASE Tick \/ DrainEnd
    BY <2>3, CollectInv
  <2>4. CASE PostSeries \/ PostSeriesFail
    BY <2>4, PostInv
  <2>5. CASE PostChecks \/ PostEvents
    BY <2>5, PostListInv
  <2>6. CASE \/ \E l \in ListenerSet : SendPacket(l) \/ ReadPacket(l)
             \/ Bind \/ BindFail \/ CloseAll \/ ServerReturn \/ SeeCtxDone \/ Signal \/ Exit
    BY <2>6, QuietInv
  <2>7. CASE UNCHANGED vars
    BY <2>7 DEF vars, serverVars, bufferVars, aggVars, mainVars, historyVars, IInv, TypeOK,
                EarlyKept, StageInv, CtxDone, Left, Collected, Kept, Queued, StillToPost
  <2> QED
    BY <2>1, <2>2, <2>3, <2>4, <2>5, <2>6, <2>7 DEF Next, Server, Flush
<1> QED
  BY InitInv, <1>1, PTL DEF Spec

\* Every variable keeps the values the code gives it: no channel beyond its
\* capacity, no item in the channel of another kind (aggregator.go:76-134).
THEOREM TypeCorrect == Spec => []TypeOK
<1>1. IInv => TypeOK
  BY DEF IInv
<1> QED
  BY Invariance, <1>1, PTL

\* When the aggregator returns, what was accepted before the context was
\* cancelled has left (aggregator.go:144-147, 163-178).
THEOREM FinalFlushCovered == Spec => []FinalFlushCovers
<1>1. IInv => FinalFlushCovers
  <2> SUFFICES ASSUME IInv, apc = "done", NEW i \in early, BinOf(i) # None PROVE Left(i)
    BY DEF FinalFlushCovers, Left
  <2>1. final /\ StillToPost = {} /\ out = [c \in Contexts |-> <<>>]
    BY DEF IInv, StageInv, StillToPost
  <2>2. i \in Samples => BinOf(i) \in Contexts
    BY ItemTypes
  <2>3. ~Collected(i)
    BY <2>1, <2>2 DEF Collected, SeqSet
  <2> QED
    BY <2>1, <2>3 DEF IInv, EarlyKept
<1> QED
  BY Invariance, <1>1, PTL

----------------------------------------------------------------------------
(* Once and in order.                                                       *)

\* f[n] is what OfBin keeps of the first n items of q (the definition of F).
Filters(f, q, b) ==
  /\ f \in [0..Len(q) -> Seq(Items)] /\ f[0] = <<>>
  /\ \A n \in 1..Len(q) :
       f[n] = IF BinOf(q[n]) = b THEN Append(f[n - 1], q[n]) ELSE f[n - 1]

LEMMA FilterAppend ==
  ASSUME NEW f, NEW q \in Seq(Items), NEW b, NEW x \in Items, Filters(f, q, b)
  PROVE  \E g : /\ Filters(g, Append(q, x), b)
                /\ g[Len(q) + 1] = IF BinOf(x) = b THEN Append(f[Len(q)], x) ELSE f[Len(q)]
<1> DEFINE m == Len(q)
           r == Append(q, x)
           y == IF BinOf(x) = b THEN Append(f[m], x) ELSE f[m]
           g == [n \in 0..(m + 1) |-> IF n = m + 1 THEN y ELSE f[n]]
<1>1. /\ m \in Nat /\ r \in Seq(Items) /\ Len(r) = m + 1 /\ r[m + 1] = x
      /\ \A n \in 1..m : r[n] = q[n]
  BY AppendProperties, LenProperties
<1>2. f \in [0..m -> Seq(Items)] /\ f[0] = <<>> /\ f[m] \in Seq(Items)
  BY <1>1 DEF Filters
<1>3. y \in Seq(Items)
  BY <1>2, AppendProperties
<1> HIDE DEF y
<1>4. g \in [0..(m + 1) -> Seq(Items)] /\ g[0] = <<>> /\ g[m + 1] = y
  BY <1>1, <1>2, <1>3
<1>5. \A n \in 0..m : g[n] = f[n]
  BY <1>1
<1>6. \A n \in 1..(m + 1) :
        g[n] = IF BinOf(r[n]) = b THEN Append(g[n - 1], r[n]) ELSE g[n - 1]
  <2> SUFFICES ASSUME NEW n \in 1..(m + 1)
               PROVE  g[n] = IF BinOf(r[n]) = b THEN Append(g[n - 1], r[n]) ELSE g[n - 1]
    OBVIOUS
  <2> HIDE DEF g, r
  <2>1. n - 1 \in 0..m
    BY <1>1
  <2>2. CASE n = m + 1
    BY <1>1, <1>4, <1>5, <2>1, <2>2 DEF y
  <2>3. CASE n # m + 1
    <3>1. n \in 1..m /\ n \in 0..m
      BY <1>1, <2>3
    <3> QED
      BY <1>1, <1>5, <2>1, <3>1 DEF Filters
  <2> QED
    BY <2>2, <2>3
<1>7. Filters(g, r, b)
  <2> HIDE DEF g, r
  <2> QED
    BY <1>1, <1>4, <1>6 DEF Filters
<1> QED
  BY <1>4, <1>7 DEF y

Filterable(q, b) == \E f : Filters(f, q, b)

LEMMA FilterExists ==
  ASSUME NEW q \in Seq(Items), NEW b
  PROVE  Filterable(q, b)
<1> DEFINE T == {s \in Seq(Items) : Filterable(s, b)}
<1>1. <<>> \in T
  <2>1. Filters([n \in 0..0 |-> <<>>], <<>>, b)
    BY EmptySeq DEF Filters
  <2> QED
    BY <2>1, EmptySeq DEF Filterable
<1>2. ASSUME NEW s \in T, NEW x \in Items PROVE Append(s, x) \in T
  BY FilterAppend, AppendProperties DEF Filterable
<1>3. T \subseteq Seq(Items)
  OBVIOUS
<1>4. T = Seq(Items)
  <2> HIDE DEF T
  <2> QED
    BY <1>1, <1>2, <1>3, InductionOnSeq
<1> QED
  BY <1>4

\* The recursion of OfBin has one solution.
LEMMA OfBinIs ==
  ASSUME NEW q \in Seq(Items), NEW b, NEW f, Filters(f, q, b)
  PROVE  OfBin(q, b) = f[Len(q)]
<1> DEFINE m == Len(q)
           Body(F) == [n \in 0..m |-> IF n = 0 THEN <<>>
                          ELSE IF BinOf(q[n]) = b THEN Append(F[n - 1], q[n]) ELSE F[n - 1]]
           F == CHOOSE F : F = Body(F)
<1>0. m \in Nat
  BY LenProperties
<1>1. f = Body(f)
  <2>1. \A n \in 0..m : f[n] = Body(f)[n]
    <3> SUFFICES ASSUME NEW n \in 0..m PROVE f[n] = Body(f)[n]
      OBVIOUS
    <3>1. n = 0 \/ n \in 1..m
      BY <1>0
    <3> QED
      BY <1>0, <3>1 DEF Filters
  <2>2. f \in [0..m -> Seq(Items)]
    BY DEF Filters
  <2> QED
    BY <2>1, <2>2
<1>2. F = Body(F)
  <2> HIDE DEF Body
  <2> QED
    BY <1>1
<1>3. OfBin(q, b) = F[m]
  BY DEF OfBin
<1> HIDE DEF F
<1> DEFINE T == {n \in Nat : n <= m => F[n] = f[n]}
<1>4. 0 \in T
  BY <1>0, <1>2 DEF Filters
<1>5. ASSUME NEW n \in T PROVE n + 1 \in T
  <2> SUFFICES ASSUME n + 1 <= m PROVE F[n + 1] = f[n + 1]
    OBVIOUS
  <2>1. n \in Nat /\ n + 1 \in 0..m /\ n + 1 \in 1..m /\ (n + 1) - 1 = n /\ n + 1 # 0
    BY <1>0
  <2>2. F[n] = f[n]
    BY <1>0, <2>1
  <2>3. F[n + 1] = IF BinOf(q[n + 1]) = b THEN Append(F[n], q[n + 1]) ELSE F[n]
    BY <1>2, <2>1
  <2> QED
    BY <2>1, <2>2, <2>3 DEF Filters
<1>6. T = Nat
  <2>1. T \subseteq Nat
    OBVIOUS
  <2> HIDE DEF T
  <2> QED
    BY <1>4, <1>5, <2>1, InductionOnNat
<1> QED
  BY <1>0, <1>3, <1>6

LEMMA OfBinType ==
  ASSUME NEW q \in Seq(Items), NEW b
  PROVE  OfBin(q, b) \in Seq(Items)
<1>1. PICK f : Filters(f, q, b)
  BY FilterExists DEF Filterable
<1>2. f[Len(q)] \in Seq(Items)
  BY <1>1, LenProperties DEF Filters
<1> QED
  BY <1>1, <1>2, OfBinIs

LEMMA OfBinEmpty ==
  ASSUME NEW b
  PROVE  OfBin(<<>>, b) = <<>>
<1>1. PICK f : Filters(f, <<>>, b)
  BY FilterExists, EmptySeq DEF Filterable
<1>2. f[0] = <<>> /\ Len(<<>>) = 0
  BY <1>1 DEF Filters
<1> QED
  BY <1>1, <1>2, OfBinIs, EmptySeq

LEMMA OfBinAppend ==
  ASSUME NEW q \in Seq(Items), NEW b, NEW x \in Items
  PROVE  OfBin(Append(q, x), b) = IF BinOf(x) = b THEN Append(OfBin(q, b), x) ELSE OfBin(q, b)
<1>1. PICK f : Filters(f, q, b)
  BY FilterExists DEF Filterable
<1>2. PICK g : /\ Filters(g, Append(q, x), b)
               /\ g[Len(q) + 1] = IF BinOf(x) = b THEN Append(f[Len(q)], x) ELSE f[Len(q)]
  BY <1>1, FilterAppend
<1>3. OfBin(q, b) = f[Len(q)]
  BY <1>1, OfBinIs
<1>4. Append(q, x) \in Seq(Items) /\ Len(Append(q, x)) = Len(q) + 1
  BY AppendProperties
<1>5. OfBin(Append(q, x), b) = g[Len(q) + 1]
  BY <1>2, <1>4, OfBinIs
<1> QED
  BY <1>2, <1>3, <1>5

LEMMA ConsAppend ==
  ASSUME NEW S, NEW x \in S, NEW s \in Seq(S), NEW y \in S
  PROVE  <<x>> \o Append(s, y) = Append(<<x>> \o s, y) /\ <<x>> \o s \in Seq(S)
<1>1. <<x>> \in Seq(S) /\ <<y>> \in Seq(S) /\ <<x>> \o s \in Seq(S)
  BY ConcatProperties
<1>2. Append(s, y) = s \o <<y>> /\ Append(<<x>> \o s, y) = (<<x>> \o s) \o <<y>>
  BY <1>1, AppendIsConcat
<1> QED
  BY <1>1, <1>2, ConcatAssociative

\* What OfBin keeps of one item.
Alone(x, b) == IF BinOf(x) = b THEN <<x>> ELSE <<>>

LEMMA OfBinCons ==
  ASSUME NEW x \in Items, NEW q \in Seq(Items), NEW b
  PROVE  OfBin(<<x>> \o q, b) = Alone(x, b) \o OfBin(q, b)
<1> DEFINE h == Alone(x, b)
           T == {s \in Seq(Items) : OfBin(<<x>> \o s, b) = h \o OfBin(s, b)}
<1>0. <<x>> \in Seq(Items) /\ h \in Seq(Items)
  BY EmptySeq DEF Alone
<1>1. <<>> \in T
  <2>1. <<x>> \o <<>> = Append(<<>>, x) /\ Append(<<>>, x) = <<x>>
    BY <1>0, ConcatEmptySeq
  <2>2. OfBin(<<x>> \o <<>>, b) = h
    <3>1. OfBin(Append(<<>>, x), b) =
            IF BinOf(x) = b THEN Append(OfBin(<<>>, b), x) ELSE OfBin(<<>>, b)
      BY OfBinAppend, EmptySeq
    <3> QED
      BY <2>1, <3>1, OfBinEmpty DEF Alone
  <2>3. h \o OfBin(<<>>, b) = h
    BY <1>0, OfBinEmpty, ConcatEmptySeq
  <2> QED
    BY <2>2, <2>3, EmptySeq
<1>2. ASSUME NEW s \in T, NEW y \in Items PROVE Append(s, y) \in T
  <2>1. s \in Seq(Items) /\ Append(s, y) \in Seq(Items) /\ OfBin(<<x>> \o s, b) = h \o OfBin(s, b)
    BY AppendProperties
  <2>2. <<x>> \o Append(s, y) = Append(<<x>> \o s, y) /\ <<x>> \o s \in Seq(Items)
    BY <2>1, ConsAppend
  <2>3. OfBin(s, b) \in Seq(Items)
    BY <2>1, OfBinType
  <2> HIDE DEF h, T
  <2>4. CASE BinOf(y) = b
    <3>1. OfBin(<<x>> \o Append(s, y), b) = Append(h \o OfBin(s, b), y)
      BY <2>1, <2>2, <2>4, OfBinAppend
    <3>2. OfBin(Append(s, y), b) = Append(OfBin(s, b), y)
      BY <2>1, <2>4, OfBinAppend
    <3>3. h \o Append(OfBin(s, b), y) = Append(h \o OfBin(s, b), y)
      <4>1. h \o OfBin(s, b) \in Seq(Items) /\ <<y>> \in Seq(Items)
        BY <1>0, <2>3, ConcatProperties
      <4> QED
        BY <1>0, <2>3, <4>1, AppendIsConcat, ConcatAssociative
    <3> QED
      BY <2>1, <3>1, <3>2, <3>3 DEF T
  <2>5. CASE BinOf(y) # b
    <3>1. OfBin(<<x>> \o Append(s, y), b) = h \o OfBin(s, b)
      <4>1. OfBin(Append(<<x>> \o s, y), b) = OfBin(<<x>> \o s, b)
        BY ONLY y \in Items, <2>2, <2>5, OfBinAppend
      <4> QED
        BY <2>1, <2>2, <4>1
    <3>2. OfBin(Append(s, y), b) = OfBin(s, b)
      BY <2>1, <2>5, OfBinAppend
    <3> QED
      BY <2>1, <3>1, <3>2 DEF T
  <2> QED
    BY <2>4, <2>5
<1>3. T \subseteq Seq(Items)
  OBVIOUS
<1>4. T = Seq(Items)
  <2> HIDE DEF T
  <2> QED
    BY <1>1, <1>2, <1>3, InductionOnSeq
<1> QED
  BY <1>4

LEMMA OfBinHeadTail ==
  ASSUME NEW q \in Seq(Items), q # <<>>, NEW b
  PROVE  OfBin(q, b) = (IF BinOf(Head(q)) = b THEN <<Head(q)>> ELSE <<>>) \o OfBin(Tail(q), b)
<1> DEFINE r == <<Head(q)>> \o Tail(q)
<1>1. Head(q) \in Items /\ Tail(q) \in Seq(Items)
  BY HeadTailProperties
<1>2. q = r
  <2>1. Len(Tail(q)) = Len(q) - 1 /\ Len(q) \in Nat /\ Len(q) >= 1
        /\ \A n \in 1..(Len(q) - 1) : Tail(q)[n] = q[n + 1]
    BY HeadTailProperties, EmptySeq, LenProperties
  <2>2. Len(<<Head(q)>>) = 1 /\ <<Head(q)>> \in Seq(Items) /\ <<Head(q)>>[1] = q[1]
    BY <1>1
  <2>3. r \in Seq(Items) /\ Len(r) = Len(q)
    BY <1>1, <2>1, <2>2, ConcatProperties
  <2>4. ASSUME NEW n \in 1..Len(q) PROVE r[n] = q[n]
    <3>1. CASE n = 1
      BY <1>1, <2>1, <2>2, <3>1, ConcatProperties
    <3>2. CASE n # 1
      <4>1. n - 1 \in 1..(Len(q) - 1) /\ (n - 1) + 1 = n
        BY <2>1, <3>2
      <4>2. r[n] = Tail(q)[n - 1]
        BY <1>1, <2>1, <2>2, <3>2, ConcatProperties
      <4> QED
        BY <2>1, <4>1, <4>2
    <3> QED
      BY <3>1, <3>2
  <2> HIDE DEF r
  <2> QED
    BY <2>3, <2>4, SeqEqual
<1>3. OfBin(r, b) = Alone(Head(q), b) \o OfBin(Tail(q), b)
  BY <1>1, OfBinCons
<1>4. OfBin(q, b) = OfBin(r, b)
  <2> HIDE DEF r
  <2> QED
    BY ONLY <1>2
<1> QED
  BY ONLY <1>3, <1>4 DEF Alone

----------------------------------------------------------------------------
(* FlushedOnceInOrder, step by step.                                       *)

\* What of bin b has been collected and not posted: nothing for a list.
OutOf(b) == IF b \in Contexts THEN out[b] ELSE <<>>
InOrder(b) ==
  OfBin(accepted[KindOfBin(b)], b) =
    gone[b] \o OutOf(b) \o held[b] \o OfBin(chan[KindOfBin(b)], b)

LEMMA BinTypes ==
  ASSUME TypeOK, NEW b \in Bins
  PROVE  /\ KindOfBin(b) \in Kinds
         /\ gone[b] \in Seq(Items) /\ OutOf(b) \in Seq(Items) /\ held[b] \in Seq(Items)
         /\ chan[KindOfBin(b)] \in Seq(Items) /\ accepted[KindOfBin(b)] \in Seq(Items)
<1>1. KindOfBin(b) \in Kinds
  BY DEF KindOfBin, Kinds, Lists
<1> QED
  BY <1>1, EmptySeq DEF TypeOK, OutOf

LEMMA KindOfBinOf ==
  ASSUME NEW i \in Items, BinOf(i) # None
  PROVE  KindOfBin(BinOf(i)) = KindOf(i)
BY ItemTypes DEF KindOfBin

\* handlePacket adds the item at the end of both sequences, or of neither
\* (aggregator.go:108-134).
LEMMA HandleItemOrder ==
  ASSUME TypeOK, NEW l \in ListenerSet, HandleItem(l), NEW b \in Bins, InOrder(b)
  PROVE  InOrder(b)'
<1>0. PICK i : i = Head(rest[l])
  OBVIOUS
<1>1. i \in Items /\ KindOf(i) \in Kinds
  BY <1>0, HeadTailSet, ItemTypes DEF HandleItem, TypeOK
<1>2. Add(i) /\ UNCHANGED <<gone, out, held>>
  BY <1>0 DEF HandleItem, aggVars
<1>3. OutOf(b)' = OutOf(b) /\ gone'[b] = gone[b] /\ held'[b] = held[b]
  BY <1>2 DEF OutOf
<1> DEFINE k == KindOfBin(b)
<1>4. k \in Kinds /\ chan[k] \in Seq(Items) /\ accepted[k] \in Seq(Items)
  BY BinTypes
<1>5. CASE accepted'[k] = accepted[k] /\ chan'[k] = chan[k]
  BY <1>3, <1>5 DEF InOrder
<1>6. CASE accepted'[k] = Append(accepted[k], i) /\ chan'[k] = Append(chan[k], i)
  <2> DEFINE p == gone[b] \o OutOf(b) \o held[b]
  <2>1. p \in Seq(Items)
    BY BinTypes, ConcatProperties
  <2>2. OfBin(chan[k], b) \in Seq(Items)
    BY <1>4, OfBinType
  <2>3. OfBin(accepted[k], b) = p \o OfBin(chan[k], b)
    BY DEF InOrder
  <2> SUFFICES OfBin(accepted'[k], b) = p \o OfBin(chan'[k], b)
    BY <1>3 DEF InOrder
  <2> HIDE DEF p, k
  <2>4. CASE BinOf(i) = b
    <3>1. OfBin(accepted'[k], b) = Append(p \o OfBin(chan[k], b), i)
      BY <1>1, <1>4, <1>6, <2>3, <2>4, OfBinAppend
    <3>2. OfBin(chan'[k], b) = Append(OfBin(chan[k], b), i)
      BY <1>1, <1>4, <1>6, <2>4, OfBinAppend
    <3>3. p \o Append(OfBin(chan[k], b), i) = Append(p \o OfBin(chan[k], b), i)
      <4>1. p \o OfBin(chan[k], b) \in Seq(Items) /\ <<i>> \in Seq(Items)
        BY <1>1, <2>1, <2>2, ConcatProperties
      <4> QED
        BY <1>1, <2>1, <2>2, <4>1, AppendIsConcat, ConcatAssociative
    <3> QED
      BY <3>1, <3>2, <3>3
  <2>5. CASE BinOf(i) # b
    <3>1. OfBin(accepted'[k], b) = OfBin(accepted[k], b)
      BY <1>1, <1>4, <1>6, <2>5, OfBinAppend
    <3>2. OfBin(chan'[k], b) = OfBin(chan[k], b)
      BY <1>1, <1>4, <1>6, <2>5, OfBinAppend
    <3> QED
      BY <2>3, <3>1, <3>2
  <2> QED
    BY <2>4, <2>5
<1>7. \/ accepted'[k] = accepted[k] /\ chan'[k] = chan[k]
      \/ accepted'[k] = Append(accepted[k], i) /\ chan'[k] = Append(chan[k], i)
  <2>1. accepted \in [Kinds -> Seq(Items)] /\ chan \in [Kinds -> Seq(Items)]
    BY DEF TypeOK
  <2> HIDE DEF k
  <2> QED
    BY <1>1, <1>2, <1>4, <2>1 DEF Add
<1> QED
  BY <1>5, <1>6, <1>7

\* The aggregator moves the oldest item of a channel to the end of its bin
\* (aggregator.go:148-153, 163-222).
LEMMA TakeOrder ==
  ASSUME TypeOK, NEW c \in Kinds, Receive(c) \/ Drain(c), NEW b \in Bins, InOrder(b)
  PROVE  InOrder(b)'
<1>0. PICK i : i = Head(chan[c])
  OBVIOUS
<1>1. /\ chan[c] # <<>> /\ chan' = [chan EXCEPT ![c] = Tail(@)]
      /\ held' = IF BinOf(i) = None THEN held ELSE [held EXCEPT ![BinOf(i)] = Append(@, i)]
      /\ UNCHANGED <<gone, out, accepted>>
  BY <1>0 DEF Receive, Drain, Take, historyVars
<1> DEFINE k == KindOfBin(b)
<1>2. OutOf(b)' = OutOf(b) /\ gone'[b] = gone[b] /\ accepted'[k] = accepted[k]
  BY <1>1 DEF OutOf
<1>3. /\ k \in Kinds /\ chan[c] \in Seq(Items) /\ held[b] \in Seq(Items)
      /\ chan \in [Kinds -> Seq(Items)] /\ held \in [Bins -> Seq(Items)]
  BY BinTypes DEF TypeOK
<1>4. i \in Items /\ i \in SeqSet(chan[c]) /\ KindOf(i) = c /\ Tail(chan[c]) \in Seq(Items)
  BY <1>0, <1>1, <1>3, HeadTailSet DEF TypeOK
<1>5. CASE BinOf(i) = b
  <2>1. k = c /\ BinOf(i) # None
    BY <1>4, <1>5, KindOfBinOf, ItemTypes
  <2>2. held'[b] = Append(held[b], i) /\ chan'[k] = Tail(chan[k])
    BY <1>1, <1>3, <1>5, <2>1
  <2>3. OfBin(chan[k], b) = <<i>> \o OfBin(Tail(chan[k]), b)
    BY <1>0, <1>1, <1>3, <1>5, <2>1, OfBinHeadTail
  <2> DEFINE p == gone[b] \o OutOf(b)
             t == OfBin(Tail(chan[k]), b)
  <2>4. p \in Seq(Items) /\ t \in Seq(Items) /\ <<i>> \in Seq(Items)
    <3>1. gone[b] \in Seq(Items) /\ OutOf(b) \in Seq(Items)
      BY BinTypes
    <3>2. Tail(chan[k]) \in Seq(Items)
      BY <1>4, <2>1
    <3>3. t \in Seq(Items)
      BY <3>2, OfBinType
    <3> QED
      BY <1>4, <3>1, <3>3, ConcatProperties
  <2>5. OfBin(accepted[k], b) = (p \o held[b]) \o (<<i>> \o t)
    BY <2>3 DEF InOrder
  <2> SUFFICES OfBin(accepted[k], b) = (p \o Append(held[b], i)) \o t
    BY <1>2, <2>2 DEF InOrder
  <2> HIDE DEF p, t, k
  <2>6. Append(held[b], i) = held[b] \o <<i>> /\ p \o held[b] \in Seq(Items)
    BY <1>3, <1>4, <2>4, AppendIsConcat, ConcatProperties
  <2>7. (p \o held[b]) \o (<<i>> \o t) = ((p \o held[b]) \o <<i>>) \o t
    <3>1. \A u, v, w \in Seq(Items) : (u \o v) \o w = u \o (v \o w)
      BY ConcatAssociative
    <3> QED
      BY <2>4, <2>6, <3>1
  <2>8. (p \o held[b]) \o <<i>> = p \o (held[b] \o <<i>>)
    <3>1. \A u, v, w \in Seq(Items) : (u \o v) \o w = u \o (v \o w)
      BY ConcatAssociative
    <3>2. p \in Seq(Items) /\ held[b] \in Seq(Items) /\ <<i>> \in Seq(Items)
      BY <1>3, <2>4
    <3> QED
      BY <3>1, <3>2
  <2> QED
    BY <2>5, <2>6, <2>7, <2>8
<1>6. CASE BinOf(i) # b
  <2>1. held'[b] = held[b]
    BY <1>1, <1>3, <1>6
  <2>2. OfBin(chan'[k], b) = OfBin(chan[k], b)
    <3>1. CASE k = c
      <4>1. OfBin(chan[c], b) = <<>> \o OfBin(Tail(chan[c]), b)
        BY <1>0, <1>1, <1>3, <1>6, OfBinHeadTail
      <4>2. OfBin(chan[c], b) = OfBin(Tail(chan[c]), b)
        BY <1>4, <4>1, OfBinType, ConcatEmptySeq
      <4> QED
        BY <1>1, <1>3, <3>1, <4>2
    <3>2. CASE k # c
      BY <1>1, <1>3, <3>2
    <3> QED
      BY <3>1, <3>2
  <2> QED
    BY <1>2, <2>1, <2>2 DEF InOrder
<1> QED
  BY <1>5, <1>6

\* Nothing is collected when a flush begins, and collect moves the whole bin
\* (aggregator.go:224-255).
LEMMA CollectOrder ==
  ASSUME TypeOK, StageInv, Tick \/ DrainEnd, NEW b \in Bins, InOrder(b)
  PROVE  InOrder(b)'
<1>1. Collect /\ out = [c \in Contexts |-> <<>>] /\ UNCHANGED <<chan, gone, accepted>>
  BY DEF Tick, DrainEnd, StageInv, bufferVars, historyVars
<1>2. gone[b] \in Seq(Items) /\ held[b] \in Seq(Items)
  BY BinTypes
<1>3. CASE b \in Contexts
  <2>1. OutOf(b) = <<>> /\ OutOf(b)' = held[b] /\ held'[b] = <<>>
    BY <1>1, <1>3 DEF Collect, OutOf
  <2>2. (gone[b] \o <<>>) \o held[b] = (gone[b] \o held[b]) \o <<>>
    BY <1>2, ConcatProperties, ConcatEmptySeq
  <2> QED
    BY <1>1, <2>1, <2>2 DEF InOrder
<1>4. CASE b \notin Contexts
  BY <1>1, <1>4 DEF Collect, InOrder, OutOf
<1> QED
  BY <1>3, <1>4

\* What is posted leaves behind all that left before (aggregator.go:257-325).
LEMMA PostOrder ==
  ASSUME TypeOK, PostSeries \/ PostSeriesFail \/ PostChecks \/ PostEvents,
         NEW b \in Bins, InOrder(b)
  PROVE  InOrder(b)'
<1>1. UNCHANGED <<chan, accepted>>
  BY DEF PostSeries, PostSeriesFail, PostChecks, PostEvents, bufferVars
<1>2. /\ gone[b] \in Seq(Items) /\ OutOf(b) \in Seq(Items) /\ held[b] \in Seq(Items)
      /\ gone \in [Bins -> Seq(Items)] /\ held \in [Bins -> Seq(Items)]
  BY BinTypes DEF TypeOK
<1>3. CASE PostSeries \/ PostSeriesFail
  <2>1. PICK C \in SUBSET Unposted : Post(C) /\ held' = held
    BY <1>3 DEF PostSeries, PostSeriesFail
  <2>2. C \subseteq Contexts
    BY DEF Unposted
  <2>3. CASE b \in C
    <3>1. gone'[b] = gone[b] \o OutOf(b) /\ OutOf(b)' = <<>>
      BY <2>1, <2>2, <2>3 DEF Post, OutOf
    <3>2. (gone[b] \o OutOf(b)) \o <<>> = gone[b] \o OutOf(b)
      BY <1>2, ConcatProperties, ConcatEmptySeq
    <3> QED
      BY <1>1, <2>1, <3>1, <3>2 DEF InOrder
  <2>4. CASE b \notin C
    <3>1. gone'[b] = gone[b] /\ OutOf(b)' = OutOf(b)
      BY <2>1, <2>4 DEF Post, OutOf
    <3> QED
      BY <1>1, <2>1, <3>1 DEF InOrder
  <2> QED
    BY <2>3, <2>4
<1>4. CASE PostChecks \/ PostEvents
  <2>1. PICK a \in Lists : PostList(a) /\ out' = out
    BY <1>4 DEF PostChecks, PostEvents, Lists
  <2>2. OutOf(b)' = OutOf(b)
    BY <2>1 DEF OutOf
  <2>3. CASE b = a
    <3>1. OutOf(b) = <<>>
      BY <2>3, ItemTypes DEF OutOf
    <3>2. gone'[b] = gone[b] \o held[b] /\ held'[b] = <<>>
      BY <1>2, <2>1, <2>3 DEF PostList
    <3>3. (gone[b] \o <<>>) \o held[b] = ((gone[b] \o held[b]) \o <<>>) \o <<>>
      BY <1>2, ConcatProperties, ConcatEmptySeq
    <3> QED
      BY <1>1, <2>2, <3>1, <3>2, <3>3 DEF InOrder
  <2>4. CASE b # a
    <3>1. gone'[b] = gone[b] /\ held'[b] = held[b]
      BY <1>2, <2>1, <2>4 DEF PostList
    <3> QED
      BY <1>1, <2>2, <3>1 DEF InOrder
  <2> QED
    BY <2>3, <2>4
<1> QED
  BY <1>3, <1>4

\* What was accepted for a context or a list leaves once and in the order of
\* acceptance, through channel, accumulation and flush, whatever the clients
\* send, the capacities and the posts that fail (aggregator.go:108-325).
THEOREM FlushedInOrder == Spec => []FlushedOnceInOrder
<1> DEFINE Ordered == \A b \in Bins : InOrder(b)
<1>1. Init => Ordered
  <2> SUFFICES ASSUME Init, NEW b \in Bins PROVE InOrder(b)
    OBVIOUS
  <2>1. KindOfBin(b) \in Kinds
    BY DEF KindOfBin, Kinds, Lists
  <2>2. /\ accepted[KindOfBin(b)] = <<>> /\ chan[KindOfBin(b)] = <<>>
        /\ gone[b] = <<>> /\ OutOf(b) = <<>> /\ held[b] = <<>>
    BY <2>1 DEF Init, OutOf
  <2>3. <<>> \o <<>> \o <<>> \o <<>> = <<>>
    OBVIOUS
  <2> QED
    BY <2>2, <2>3, OfBinEmpty DEF InOrder
<1>2. ASSUME IInv, Ordered, [Next]_vars PROVE Ordered'
  <2> SUFFICES ASSUME NEW b \in Bins PROVE InOrder(b)'
    OBVIOUS
  <2>0. TypeOK /\ StageInv /\ InOrder(b)
    BY <1>2 DEF IInv
  <2>1. CASE \E l \in ListenerSet : HandleItem(l)
    BY <2>0, <2>1, HandleItemOrder
  <2>2. CASE \E k \in Kinds : Receive(k) \/ Drain(k)
    BY <2>0, <2>2, TakeOrder
  <2>3. CASE Tick \/ DrainEnd
    BY <2>0, <2>3, CollectOrder
  <2>4. CASE PostSeries \/ PostSeriesFail \/ PostChecks \/ PostEvents
    BY <2>0, <2>4, PostOrder
  <2>5. CASE \/ \E l \in ListenerSet : SendPacket(l) \/ ReadPacket(l)
             \/ Bind \/ BindFail \/ CloseAll \/ ServerReturn \/ SeeCtxDone \/ Signal \/ Exit
             \/ UNCHANGED vars
    <3>1. UNCHANGED <<chan, held, out, gone, accepted>>
      BY <2>5 DEF SendPacket, ReadPacket, Bind, BindFail, CloseAll, ServerReturn, SeeCtxDone,
                  Signal, Exit, vars, bufferVars, aggVars, historyVars
    <3> QED
      BY <2>0, <3>1 DEF InOrder, OutOf
  <2> QED
    BY <1>2, <2>1, <2>2, <2>3, <2>4, <2>5 DEF Next, Server, Flush
<1>3. Ordered => FlushedOnceInOrder
  BY DEF FlushedOnceInOrder, InOrder, OutOf
<1> QED
  BY <1>1, <1>2, <1>3, Invariance, PTL DEF Spec

----------------------------------------------------------------------------
(* The rates the collectors submit (HostRates), for histories of any length, *)
(* any devices and counters, and clocks that may stand still or go back.    *)

Rates == INSTANCE HostRates

\* Counters over m intervals: each counter c has seen tot[n][c] events by the end
\* of interval n and stands at ctr[n][c], which is what it was and the events of the
\* interval, or at most these after a reset.
Counting(m, C, tot, ctr, reset) ==
  /\ tot \in [0..m -> [C -> Nat]] /\ ctr \in [0..m -> [C -> Nat]]
  /\ reset \in [1..m -> SUBSET C]
  /\ \A n \in 1..m : \A c \in C :
       /\ tot[n - 1][c] <= tot[n][c]
       /\ c \in reset[n] => ctr[n][c] <= tot[n][c] - tot[n - 1][c]
       /\ c \notin reset[n] => ctr[n][c] = ctr[n - 1][c] + (tot[n][c] - tot[n - 1][c])

\* A collector over them: at time t[n] it reads what some of the counters of some
\* of the devices stand at, or fails to, and is then in state st[n].
Collecting(kind, m, C, ctr, t, reads, st) ==
  /\ t \in [1..m -> Nat]
  /\ st[0] = Rates!New
  /\ \A n \in 1..m : st[n] = Rates!Collect(kind, st[n - 1], t[n], reads[n]).st
  /\ \A n \in 1..m : reads[n].ok =>
       \A d \in DOMAIN reads[n].devs : \A f \in DOMAIN reads[n].devs[d] :
         <<d, f>> \in C /\ reads[n].devs[d][f] = ctr[n][<<d, f>>]

\* b is the last good read before n.
Baseline(reads, b, n) ==
  b \in 1..n - 1 /\ reads[b].ok /\ \A k \in b + 1..n - 1 : ~reads[k].ok

\* What a counter did between two ends of intervals.
Between(c, b, n, tot, ctr, reset) ==
  /\ ctr[b][c] \in Nat /\ ctr[n][c] \in Nat /\ tot[b][c] \in Nat /\ tot[n][c] \in Nat
  /\ tot[b][c] <= tot[n][c]
  /\ (\A k \in b + 1..n : c \notin reset[k])
       => ctr[n][c] - ctr[b][c] = tot[n][c] - tot[b][c]
  /\ ctr[n][c] - ctr[b][c] <= tot[n][c] - tot[b][c]

LEMMA CountedBetween ==
  ASSUME NEW m \in Nat, NEW C, NEW tot, NEW ctr, NEW reset,
         Counting(m, C, tot, ctr, reset),
         NEW b \in 0..m, NEW n \in b..m, NEW c \in C
  PROVE  Between(c, b, n, tot, ctr, reset)
<1> DEFINE Unreset(i) == \A k \in b + 1..i : c \notin reset[k]
           P(i) == b + i <= m =>
                     /\ tot[b][c] <= tot[b + i][c]
                     /\ Unreset(b + i) => ctr[b + i][c] - ctr[b][c] = tot[b + i][c] - tot[b][c]
                     /\ \/ ctr[b + i][c] - ctr[b][c] = tot[b + i][c] - tot[b][c]
                        \/ ctr[b + i][c] <= tot[b + i][c] - tot[b][c]
           T == {i \in Nat : P(i)}
<1>1. \A i \in 0..m : ctr[i][c] \in Nat /\ tot[i][c] \in Nat
  BY DEF Counting
<1>2. 0 \in T
  BY <1>1
<1>3. ASSUME NEW i \in T PROVE i + 1 \in T
  <2> DEFINE x == b + i
  <2> SUFFICES ASSUME x + 1 <= m PROVE P(i + 1)
    OBVIOUS
  <2>1. /\ i \in Nat /\ x \in 0..m /\ x + 1 \in 1..m /\ (x + 1) - 1 = x /\ b + (i + 1) = x + 1
        /\ b \in 0..m
    OBVIOUS
  <2>2. P(i)
    OBVIOUS
  <2>3. /\ ctr[x][c] \in Nat /\ tot[x][c] \in Nat /\ ctr[x + 1][c] \in Nat
        /\ tot[x + 1][c] \in Nat /\ ctr[b][c] \in Nat /\ tot[b][c] \in Nat
    BY <1>1, <2>1
  <2>4. /\ tot[x][c] <= tot[x + 1][c]
        /\ c \in reset[x + 1] => ctr[x + 1][c] <= tot[x + 1][c] - tot[x][c]
        /\ c \notin reset[x + 1] => ctr[x + 1][c] = ctr[x][c] + (tot[x + 1][c] - tot[x][c])
    BY <2>1 DEF Counting
  <2>5. Unreset(x + 1) => Unreset(x) /\ c \notin reset[x + 1]
    BY <2>1
  <2> HIDE DEF Unreset, x
  <2> QED
    BY <2>1, <2>2, <2>3, <2>4, <2>5
<1>4. T = Nat
  <2> HIDE DEF P
  <2> QED
    BY <1>2, <1>3, InductionOnNat
<1>5. n - b \in T /\ b + (n - b) = n /\ n \in 0..m /\ b \in 0..m
  <2>1. n - b \in Nat /\ b + (n - b) = n /\ n \in 0..m /\ b \in 0..m
    OBVIOUS
  <2> HIDE DEF T
  <2> QED
    BY <1>4, <2>1
<1>6. P(n - b)
  BY <1>5
<1> QED
  BY <1>1, <1>5, <1>6 DEF Between

\* The state of a collector is its last good read.
LastRead(state, reads, n, t) ==
  \/ state = Rates!New /\ \A k \in 1..n - 1 : ~reads[k].ok
  \/ \E b : Baseline(reads, b, n) /\ state.prev = reads[b].devs /\ state.ts = t[b]

LEMMA LastGoodRead ==
  ASSUME NEW kind, NEW m \in Nat, NEW C, NEW ctr, NEW t, NEW reads, NEW st,
         Collecting(kind, m, C, ctr, t, reads, st), NEW n \in 1..m
  PROVE  LastRead(st[n - 1], reads, n, t)
<1> DEFINE Q(i) == \/ st[i] = Rates!New /\ \A k \in 1..i : ~reads[k].ok
                   \/ \E b : /\ Baseline(reads, b, i + 1)
                             /\ st[i].prev = reads[b].devs /\ st[i].ts = t[b]
           T == {i \in Nat : i <= m => Q(i)}
<1>1. 0 \in T
  BY DEF Collecting
<1>2. ASSUME NEW i \in T PROVE i + 1 \in T
  <2> SUFFICES ASSUME i + 1 <= m PROVE Q(i + 1)
    OBVIOUS
  <2>1. i \in Nat /\ i <= m /\ i + 1 \in 1..m /\ (i + 1) - 1 = i /\ (i + 1) + 1 - 1 = i + 1
    OBVIOUS
  <2>2. Q(i)
    BY <2>1
  <2>3. st[i + 1] = Rates!Collect(kind, st[i], t[i + 1], reads[i + 1]).st
    BY <2>1 DEF Collecting
  <2>4. CASE ~reads[i + 1].ok
    <3>1. st[i + 1] = st[i]
      BY <2>3, <2>4 DEF Rates!Collect
    <3>2. ASSUME NEW b, Baseline(reads, b, i + 1) PROVE Baseline(reads, b, (i + 1) + 1)
      BY <2>1, <2>4, <3>2 DEF Baseline
    <3>3. (\A k \in 1..i : ~reads[k].ok) => \A k \in 1..i + 1 : ~reads[k].ok
      BY <2>1, <2>4
    <3> QED
      BY <2>2, <3>1, <3>2, <3>3
  <2>5. CASE reads[i + 1].ok
    <3>1. st[i + 1].prev = reads[i + 1].devs /\ st[i + 1].ts = t[i + 1]
      BY <2>3, <2>5 DEF Rates!Collect
    <3>2. Baseline(reads, i + 1, (i + 1) + 1)
      BY <2>1, <2>5 DEF Baseline
    <3> QED
      BY <3>1, <3>2
  <2> QED
    BY <2>4, <2>5
<1>3. T = Nat
  <2> HIDE DEF Q
  <2> QED
    BY <1>1, <1>2, InductionOnNat
<1>4. n - 1 \in T /\ n - 1 <= m /\ (n - 1) + 1 = n
  BY <1>3
<1>5. Q(n - 1)
  BY <1>4
<1> QED
  BY <1>4, <1>5 DEF LastRead

\* A serie that counts what happened between the ends of intervals b and n.
CountsEvents(s, b, n, C, tot, reset, t) ==
  LET c == <<s.dev, s.name>>
  IN /\ c \in C /\ s.den = t[n] - t[b] /\ s.den > 0
     /\ 0 <= s.num /\ s.num <= tot[n][c] - tot[b][c]
     /\ (\A k \in b + 1..n : c \notin reset[k]) => s.num = tot[n][c] - tot[b][c]

\* For any counters, devices that come and go, reads that fail, resets and clocks,
\* whatever a collector of plain counters ships counts events since its last good
\* read, over the time since: never more than happened, never less than nothing,
\* and all that happened to a counter that was not reset ("skip counter resets",
\* the collectors' comments in internal/host and internal/venti).
THEOREM RatesCountEvents ==
  ASSUME NEW kind \in Rates!PlainKinds, NEW m \in Nat,
         NEW C, NEW tot, NEW ctr, NEW reset, Counting(m, C, tot, ctr, reset),
         NEW t, NEW reads, NEW st, Collecting(kind, m, C, ctr, t, reads, st),
         NEW n \in 1..m,
         NEW s \in Rates!Collect(kind, st[n - 1], t[n], reads[n]).out
  PROVE  \E b : Baseline(reads, b, n) /\ CountsEvents(s, b, n, C, tot, reset, t)
<1> DEFINE old == st[n - 1]
           devs == reads[n].devs
<1>1. kind \notin Rates!CPUKinds
  BY DEF Rates!PlainKinds, Rates!CPUKinds
<1>2. /\ reads[n].ok /\ ~(t[n] <= old.ts)
      /\ \E dev \in DOMAIN devs \cap DOMAIN old.prev :
           s \in Rates!DeviceSeries(kind, dev, devs[dev], old.prev[dev], t[n] - old.ts)
  <2>1. s \in Rates!Collect(kind, old, t[n], reads[n]).out
    OBVIOUS
  <2>2. reads[n].ok
    BY <2>1 DEF Rates!Collect
  <2>3. s \in IF t[n] <= old.ts THEN {}
              ELSE UNION {Rates!DeviceSeries(kind, dev, devs[dev], old.prev[dev], t[n] - old.ts) :
                            dev \in DOMAIN devs \cap DOMAIN old.prev}
    <3> HIDE DEF old
    <3> QED
      BY <1>1, <2>1, <2>2 DEF Rates!Collect
  <2> QED
    BY <2>2, <2>3
<1>3. PICK dev \in DOMAIN devs \cap DOMAIN old.prev :
        s \in Rates!DeviceSeries(kind, dev, devs[dev], old.prev[dev], t[n] - old.ts)
  BY <1>2
<1>4. s \in Rates!PlainSeries(dev, devs[dev], old.prev[dev], t[n] - old.ts)
  BY <1>3 DEF Rates!DeviceSeries, Rates!PlainKinds
<1>5. PICK f \in DOMAIN devs[dev] \cap DOMAIN old.prev[dev] :
        /\ devs[dev][f] >= old.prev[dev][f]
        /\ s.dev = dev /\ s.name = f /\ s.num = devs[dev][f] - old.prev[dev][f]
        /\ s.den = t[n] - old.ts
  BY <1>4 DEF Rates!PlainSeries, Rates!Serie
<1>6. old # Rates!New
  BY <1>3 DEF Rates!New, Rates!NoRead
<1>7. PICK b : /\ Baseline(reads, b, n)
               /\ old.prev = reads[b].devs /\ old.ts = t[b]
  <2>1. LastRead(old, reads, n, t)
    BY LastGoodRead
  <2> QED
    BY <1>6, <2>1 DEF LastRead
<1>8. b \in 1..m /\ b \in 0..m /\ n \in b..m /\ reads[b].ok /\ t[n] \in Nat /\ t[b] \in Nat
  BY <1>7 DEF Baseline, Collecting
<1> DEFINE c == <<dev, f>>
<1>9. c \in C /\ devs[dev][f] = ctr[n][c] /\ old.prev[dev][f] = ctr[b][c]
  BY <1>2, <1>3, <1>5, <1>7, <1>8 DEF Collecting
<1>10. Between(c, b, n, tot, ctr, reset)
  BY <1>8, <1>9, CountedBetween
<1>11. <<s.dev, s.name>> = c
  BY <1>5
<1>12. s.num = ctr[n][c] - ctr[b][c] /\ s.den = t[n] - t[b]
  BY <1>5, <1>7, <1>9
<1>13. ctr[n][c] >= ctr[b][c] /\ t[n] > t[b]
  BY <1>2, <1>5, <1>7, <1>8, <1>9, <1>10 DEF Between
<1> HIDE DEF c, old, devs
<1>14. CountsEvents(s, b, n, C, tot, reset, t)
  BY <1>8, <1>9, <1>10, <1>11, <1>12, <1>13 DEF CountsEvents, Between
<1> QED
  BY <1>7, <1>14

\* And nothing is left out: a counter that two good reads in a row have, and that
\* was not reset between them, has its rate shipped.
THEOREM RatesComplete ==
  ASSUME NEW kind \in Rates!PlainKinds, NEW m \in Nat,
         NEW C, NEW tot, NEW ctr, NEW reset, Counting(m, C, tot, ctr, reset),
         NEW t, NEW reads, NEW st, Collecting(kind, m, C, ctr, t, reads, st),
         NEW n \in 1..m, NEW b, Baseline(reads, b, n), reads[n].ok, t[b] < t[n],
         NEW d \in DOMAIN reads[b].devs \cap DOMAIN reads[n].devs,
         NEW f \in DOMAIN reads[b].devs[d] \cap DOMAIN reads[n].devs[d],
         \A k \in b + 1..n : <<d, f>> \notin reset[k]
  PROVE  Rates!Serie(f, d, tot[n][<<d, f>>] - tot[b][<<d, f>>], t[n] - t[b])
           \in Rates!Collect(kind, st[n - 1], t[n], reads[n]).out
<1> DEFINE old == st[n - 1]
           devs == reads[n].devs
           c == <<d, f>>
           s == Rates!Serie(f, d, tot[n][c] - tot[b][c], t[n] - t[b])
<1>1. b \in 1..m /\ b \in 0..m /\ n \in b..m /\ reads[b].ok /\ t[n] \in Nat /\ t[b] \in Nat
      /\ b \in 1..n - 1
  BY DEF Baseline, Collecting
<1>2. old.prev = reads[b].devs /\ old.ts = t[b]
  <2>1. ASSUME NEW x, Baseline(reads, x, n) PROVE x = b
    BY <1>1, <2>1 DEF Baseline
  <2> QED
    <3>1. LastRead(old, reads, n, t)
      BY LastGoodRead
    <3> HIDE DEF old
    <3> QED
      BY <1>1, <2>1, <3>1 DEF LastRead
<1>3. c \in C /\ devs[d][f] = ctr[n][c] /\ old.prev[d][f] = ctr[b][c]
  <2>1. \A k \in 1..m : reads[k].ok =>
          \A e \in DOMAIN reads[k].devs : \A g \in DOMAIN reads[k].devs[e] :
            <<e, g>> \in C /\ reads[k].devs[e][g] = ctr[k][<<e, g>>]
    BY DEF Collecting
  <2>2. c \in C /\ devs[d][f] = ctr[n][c]
    BY <1>1, <2>1
  <2>3. reads[b].devs[d][f] = ctr[b][c]
    BY <1>1, <2>1
  <2> QED
    BY <1>2, <2>2, <2>3
<1>4. /\ ctr[b][c] \in Nat /\ ctr[n][c] \in Nat /\ tot[b][c] \in Nat /\ tot[n][c] \in Nat
      /\ ctr[n][c] - ctr[b][c] = tot[n][c] - tot[b][c] /\ tot[b][c] <= tot[n][c]
  <2>1. Between(c, b, n, tot, ctr, reset)
    BY <1>1, <1>3, CountedBetween
  <2> QED
    BY <2>1 DEF Between
<1>5. s \in Rates!PlainSeries(d, devs[d], old.prev[d], t[n] - old.ts)
  <2>1. devs[d][f] >= old.prev[d][f] /\ devs[d][f] - old.prev[d][f] = tot[n][c] - tot[b][c]
    BY <1>3, <1>4
  <2>2. s = Rates!Serie(f, d, devs[d][f] - old.prev[d][f], t[n] - old.ts)
    BY <1>2, <2>1
  <2>3. f \in {g \in DOMAIN devs[d] \cap DOMAIN old.prev[d] : devs[d][g] >= old.prev[d][g]}
    BY <1>2, <2>1
  <2> HIDE DEF s, old, devs
  <2> QED
    BY <2>2, <2>3 DEF Rates!PlainSeries
<1>6. s \in Rates!DeviceSeries(kind, d, devs[d], old.prev[d], t[n] - old.ts)
  BY <1>5 DEF Rates!DeviceSeries, Rates!PlainKinds
<1>7. ~(t[n] <= old.ts) /\ d \in DOMAIN devs \cap DOMAIN old.prev
  BY <1>1, <1>2
<1>8. Rates!Collect(kind, old, t[n], reads[n]).out =
        UNION {Rates!DeviceSeries(kind, dev, devs[dev], old.prev[dev], t[n] - old.ts) :
                 dev \in DOMAIN devs \cap DOMAIN old.prev}
  <2> HIDE DEF old
  <2> QED
    BY <1>7 DEF Rates!Collect
<1> HIDE DEF s, old, devs
<1>9. s \in Rates!Collect(kind, old, t[n], reads[n]).out
  BY <1>6, <1>7, <1>8
<1> QED
  BY <1>9 DEF s, old

\* A serie that is no less than nothing and, of busy time, no more than all of it.
Bounded(s) == s.num >= 0 /\ s.den > 0 /\ (s.name = "util" => s.num <= s.den)

BSDCounters == {"reads", "writes", "readBytes", "writeBytes", "readDur", "writeDur", "busy"}
IOCounters == {"reads", "writes", "sectorsRead", "sectorsWritten", "readsMerged",
               "writesMerged", "msReading", "msWriting", "msIo", "weightedMsIo"}

\* The smaller of two numbers.
LEMMA MinOfTwo ==
  ASSUME NEW a \in Int, NEW b \in Int
  PROVE  Rates!Min({a, b}) \in {a, b} /\ Rates!Min({a, b}) <= a /\ Rates!Min({a, b}) <= b
<1> DEFINE M(x) == x \in {a, b} /\ \A y \in {a, b} : x <= y
<1>1. \E x : M(x)
  <2>1. CASE a <= b
    BY <2>1
  <2>2. CASE ~(a <= b)
    BY <2>2
  <2> QED
    BY <2>1, <2>2
<1>2. Rates!Min({a, b}) = CHOOSE x : M(x)
  BY DEF Rates!Min
<1>3. M(Rates!Min({a, b}))
  <2> HIDE DEF M
  <2> QED
    BY <1>1, <1>2
<1> QED
  BY <1>3

LEMMA CappedAt ==
  ASSUME NEW a \in Nat, NEW b \in Nat, NEW x, x = Rates!Min({a, b})
  PROVE  x \in Nat /\ x <= b
<1>1. a \in Int /\ b \in Int
  OBVIOUS
<1>2. x \in {a, b} /\ x <= b
  BY <1>1, MinOfTwo
<1> QED
  BY <1>2

LEMMA SerieBounded ==
  ASSUME NEW name, NEW dev, NEW num \in Nat, NEW den \in Nat \ {0}, name = "util" => num <= den,
         NEW s, s = Rates!Serie(name, dev, num, den)
  PROVE  Bounded(s)
BY DEF Bounded, Rates!Serie

LEMMA Nonneg ==
  ASSUME NEW n \in Int
  PROVE  Rates!nonneg(n) \in Nat
BY DEF Rates!nonneg

LEMMA DFBounded ==
  ASSUME NEW dev, NEW c \in [BSDCounters -> Nat], NEW p \in [BSDCounters -> Nat],
         NEW dt \in Nat \ {0}, NEW s \in Rates!devstatDFSeries(dev, c, p, dt)
  PROVE  Bounded(s)
<1> DEFINE d(f) == c[f] - p[f]
<1>1. \A f \in BSDCounters : d(f) \in Int /\ Rates!nonneg(d(f)) \in Nat
  BY Nonneg
<1>2. d("reads") >= 0 /\ d("writes") >= 0
  BY <1>1 DEF Rates!devstatDFSeries, BSDCounters
<1>3. \/ \E f \in {"reads", "writes"} : s = Rates!Serie(f, dev, d(f), dt)
      \/ \E f \in {"readBytes", "writeBytes"} : s = Rates!Serie(f, dev, Rates!nonneg(d(f)), dt)
  BY <1>2 DEF Rates!devstatDFSeries
<1> QED
  BY <1>1, <1>2, <1>3 DEF Bounded, Rates!Serie, BSDCounters
LEMMA BSDBounded ==
  ASSUME NEW dev, NEW c \in [BSDCounters -> Nat], NEW p \in [BSDCounters -> Nat],
         NEW dt \in Nat \ {0}, NEW s \in Rates!bsdIOSeries(dev, c, p, dt)
  PROVE  Bounded(s)
<1> DEFINE busy == Rates!nonneg(c["busy"] - p["busy"])
<1>1. busy \in Nat
  BY Nonneg DEF BSDCounters
<1>2. Rates!Min({busy, dt}) \in Nat /\ Rates!Min({busy, dt}) <= dt
  <2> HIDE DEF busy
  <2> QED
    BY <1>1, CappedAt
<1>3. \/ s \in Rates!devstatDFSeries(dev, c, p, dt)
      \/ s = Rates!Serie("util", dev, Rates!Min({busy, dt}), dt)
  BY DEF Rates!bsdIOSeries
<1> HIDE DEF busy
<1>4. CASE s = Rates!Serie("util", dev, Rates!Min({busy, dt}), dt)
  BY <1>2, <1>4 DEF Bounded, Rates!Serie
<1> QED
  BY <1>3, <1>4, DFBounded

LEMMA DevstatBounded ==
  ASSUME NEW dev, NEW c \in [BSDCounters -> Nat], NEW p \in [BSDCounters -> Nat],
         NEW dt \in Nat \ {0}, NEW s \in Rates!devstatSeries(dev, c, p, dt)
  PROVE  Bounded(s)
<1> DEFINE d(f) == Rates!nonneg(c[f] - p[f])
           per(name, dur, ops) == IF ops > 0 THEN {Rates!Serie(name, dev, 1000 * dur, ops)} ELSE {}
<1>1. \A f \in BSDCounters : d(f) \in Nat
  BY Nonneg
<1>2. d("reads") \in Nat /\ d("writes") \in Nat /\ d("readDur") \in Nat /\ d("writeDur") \in Nat
  BY <1>1 DEF BSDCounters
<1>3. \/ s \in Rates!bsdIOSeries(dev, c, p, dt)
      \/ s \in per("await", d("readDur") + d("writeDur"), d("reads") + d("writes"))
      \/ s \in per("r_await", d("readDur"), d("reads"))
      \/ s \in per("w_await", d("writeDur"), d("writes"))
  BY DEF Rates!devstatSeries
<1>4. ASSUME NEW name \in {"await", "r_await", "w_await"}, NEW dur \in Nat, NEW ops \in Nat,
             s \in per(name, dur, ops)
      PROVE  Bounded(s)
  BY <1>4 DEF Bounded, Rates!Serie
<1> HIDE DEF d, per
<1> QED
  BY <1>2, <1>3, <1>4, BSDBounded

LEMMA DiskIOBounded ==
  ASSUME NEW dev, NEW c \in [IOCounters -> Nat], NEW p \in [IOCounters -> Nat],
         NEW dt \in Nat \ {0}, NEW s \in Rates!diskIOSeries(dev, c, p, dt),
         \A f \in {"sectorsRead", "sectorsWritten"} : p[f] <= c[f]
  PROVE  Bounded(s)
<1> DEFINE d(f) == c[f] - p[f]
           ops == d("reads") + d("writes")
           clamped(f) == Rates!nonneg(d(f))
           util == Rates!Min({clamped("msIo"), 1000 * dt})
<1>1. \A f \in IOCounters : d(f) \in Int /\ clamped(f) \in Nat
  BY Nonneg
<1>2. d("reads") \in Nat /\ d("writes") \in Nat
  BY <1>1 DEF Rates!diskIOSeries, IOCounters
<1>3. d("sectorsRead") \in Nat /\ d("sectorsWritten") \in Nat /\ ops \in Nat
  BY <1>1, <1>2 DEF IOCounters
<1>4. /\ clamped("readsMerged") \in Nat /\ clamped("writesMerged") \in Nat
      /\ clamped("weightedMsIo") \in Nat /\ clamped("msIo") \in Nat
      /\ clamped("msReading") \in Nat /\ clamped("msWriting") \in Nat
  BY <1>1 DEF IOCounters
<1>5. util \in Nat /\ util <= 1000 * dt
  <2>1. clamped("msIo") \in Nat /\ 1000 * dt \in Nat
    BY <1>4
  <2> HIDE DEF clamped
  <2> QED
    BY <2>1, CappedAt
<1>6. \/ \E f \in {"reads", "writes"} : s = Rates!Serie(f, dev, d(f), dt)
      \/ \E f \in {"readsMerged", "writesMerged"} : s = Rates!Serie(f, dev, clamped(f), dt)
      \/ \E f \in {"sectorsRead", "sectorsWritten"} : s = Rates!Serie(f, dev, d(f), 2 * dt)
      \/ s = Rates!Serie("avg_q_sz", dev, clamped("weightedMsIo"), 1000 * dt)
      \/ s = Rates!Serie("util", dev, util, 1000 * dt)
      \/ /\ ops > 0
         /\ \/ s = Rates!Serie("await", dev, clamped("msReading") + clamped("msWriting"), ops)
            \/ s = Rates!Serie("avg_rq_sz", dev, d("sectorsRead") + d("sectorsWritten"), ops)
      \/ d("reads") > 0 /\ s = Rates!Serie("r_await", dev, clamped("msReading"), d("reads"))
      \/ d("writes") > 0 /\ s = Rates!Serie("w_await", dev, clamped("msWriting"), d("writes"))
  BY <1>2 DEF Rates!diskIOSeries
<1>7. dt \in Nat \ {0} /\ 2 * dt \in Nat \ {0} /\ 1000 * dt \in Nat \ {0}
  OBVIOUS
<1> HIDE DEF d, ops, clamped, util
<1>8. CASE \E f \in {"reads", "writes"} : s = Rates!Serie(f, dev, d(f), dt)
  BY <1>2, <1>7, <1>8, SerieBounded
<1>9. CASE \E f \in {"readsMerged", "writesMerged"} : s = Rates!Serie(f, dev, clamped(f), dt)
  BY <1>4, <1>7, <1>9, SerieBounded
<1>10. CASE \E f \in {"sectorsRead", "sectorsWritten"} : s = Rates!Serie(f, dev, d(f), 2 * dt)
  BY <1>3, <1>7, <1>10, SerieBounded
<1>11. CASE \/ s = Rates!Serie("avg_q_sz", dev, clamped("weightedMsIo"), 1000 * dt)
            \/ s = Rates!Serie("util", dev, util, 1000 * dt)
  BY <1>4, <1>5, <1>7, <1>11, SerieBounded
<1>12. CASE /\ ops > 0
            /\ \/ s = Rates!Serie("await", dev, clamped("msReading") + clamped("msWriting"), ops)
               \/ s = Rates!Serie("avg_rq_sz", dev, d("sectorsRead") + d("sectorsWritten"), ops)
  <2>1. /\ ops \in Nat \ {0} /\ clamped("msReading") + clamped("msWriting") \in Nat
        /\ d("sectorsRead") + d("sectorsWritten") \in Nat
    BY <1>3, <1>4, <1>12
  <2> QED
    BY <1>12, <2>1, SerieBounded
<1>13. CASE d("reads") > 0 /\ s = Rates!Serie("r_await", dev, clamped("msReading"), d("reads"))
  BY <1>2, <1>4, <1>13, SerieBounded
<1>14. CASE d("writes") > 0 /\ s = Rates!Serie("w_await", dev, clamped("msWriting"), d("writes"))
  BY <1>2, <1>4, <1>14, SerieBounded
<1> QED
  BY <1>6, <1>8, <1>9, <1>10, <1>11, <1>12, <1>13, <1>14

\* The counters of a collector of disks; those of sectors only go down with those
\* of the operations.
DiskRead(kind, st, read) ==
  LET F == IF kind = "io" THEN IOCounters ELSE BSDCounters
  IN /\ \A d \in DOMAIN st.prev : st.prev[d] \in [F -> Nat]
     /\ \A d \in DOMAIN read.devs : read.devs[d] \in [F -> Nat]
     /\ kind = "io" =>
          \A d \in DOMAIN st.prev \cap DOMAIN read.devs :
            \/ \E f \in {"reads", "writes"} : read.devs[d][f] < st.prev[d][f]
            \/ \A f \in {"sectorsRead", "sectorsWritten"} : st.prev[d][f] <= read.devs[d][f]

\* Whatever wraps or goes back of a disk's counters between two reads, sectors only with
\* operations, no collector of disks ships a rate below zero, divides by zero, or says
\* that a disk was busy for more than all of the time (diskIOSeries, devstatSeries and
\* the like, which clamp).
THEOREM DisksBounded ==
  ASSUME NEW kind \in Rates!DiskKinds, NEW st, NEW now \in Nat, NEW read, st.ts \in Nat,
         DiskRead(kind, st, read), NEW s \in Rates!Collect(kind, st, now, read).out
  PROVE  Bounded(s)
<1>1. kind \notin Rates!CPUKinds
  BY DEF Rates!DiskKinds, Rates!CPUKinds
<1>2. read.ok
  BY DEF Rates!Collect
<1>3. s \in IF now <= st.ts THEN {}
            ELSE UNION {Rates!DeviceSeries(kind, dev, read.devs[dev], st.prev[dev], now - st.ts) :
                          dev \in DOMAIN read.devs \cap DOMAIN st.prev}
  BY <1>1, <1>2 DEF Rates!Collect
<1>4. PICK dev \in DOMAIN read.devs \cap DOMAIN st.prev :
        s \in Rates!DeviceSeries(kind, dev, read.devs[dev], st.prev[dev], now - st.ts)
  BY <1>3
<1>5. now - st.ts \in Nat \ {0}
  BY <1>3
<1> DEFINE c == read.devs[dev]
           p == st.prev[dev]
           dt == now - st.ts
<1>6. CASE kind = "io"
  <2>1. c \in [IOCounters -> Nat] /\ p \in [IOCounters -> Nat]
    BY <1>6 DEF DiskRead
  <2>2. s \in Rates!diskIOSeries(dev, c, p, dt)
    BY <1>4, <1>6 DEF Rates!DeviceSeries
  <2>3. ~ \E f \in {"reads", "writes"} : c[f] < p[f]
    <3> HIDE DEF c, p
    <3> QED
      BY <2>1, <2>2 DEF Rates!diskIOSeries, IOCounters
  <2>4. \A f \in {"sectorsRead", "sectorsWritten"} : p[f] <= c[f]
    BY <1>6, <2>3 DEF DiskRead
  <2> HIDE DEF c, p, dt
  <2> QED
    BY <1>5, <2>1, <2>2, <2>4, DiskIOBounded DEF dt
<1>7. CASE kind # "io"
  <2>1. c \in [BSDCounters -> Nat] /\ p \in [BSDCounters -> Nat]
    BY <1>7 DEF DiskRead
  <2>2. kind \in {"devstat", "devstatdf", "bsdio"}
    BY <1>7 DEF Rates!DiskKinds
  <2>3. \/ s \in Rates!devstatSeries(dev, c, p, dt)
        \/ s \in Rates!devstatDFSeries(dev, c, p, dt)
        \/ s \in Rates!bsdIOSeries(dev, c, p, dt)
    BY <1>4, <2>2 DEF Rates!DeviceSeries
  <2> HIDE DEF c, p
  <2> QED
    BY <1>5, <2>1, <2>3, DevstatBounded, DFBounded, BSDBounded
<1> QED
  BY <1>6, <1>7

----------------------------------------------------------------------------
(* The devices whose space they submit (HostGauges), for any mounts.         *)

Gauges == INSTANCE HostGauges

\* The mounts of fsCollector and of the BSDs that can be reported.
Usable(m) == ~m.pseudo /\ m.answers /\ m.blocks > 0
Local(m) == m.blocks # 0 /\ ~m.pseudo

\* Of some places of a table the first of each device.
FirstOf(R, dev) == {i \in R : \A k \in 1..i - 1 : k \in R => dev[k] # dev[i]}
EachOnce(S, R, dev) ==
  /\ {dev[i] : i \in S} = {dev[i] : i \in R}
  /\ \A i, k \in S : dev[i] = dev[k] => i = k

LEMMA FirstOfEach ==
  ASSUME NEW N \in Nat, NEW R, R \subseteq 1..N, NEW dev, NEW S, S = FirstOf(R, dev)
  PROVE  EachOnce(S, R, dev)
<1> USE DEF FirstOf
<1>1. \A i, k \in S : dev[i] = dev[k] => i = k
  <2> SUFFICES ASSUME NEW i \in S, NEW k \in S, dev[i] = dev[k], i # k PROVE FALSE
    OBVIOUS
  <2>1. i \in 1..N /\ k \in 1..N /\ i \in R /\ k \in R
    OBVIOUS
  <2>2. i \in 1..k - 1 \/ k \in 1..i - 1
    BY <2>1
  <2> QED
    BY <2>1, <2>2
<1>2. ASSUME NEW r \in R PROVE \E i \in S : dev[i] = dev[r]
  <2> DEFINE T == {i \in R : dev[i] = dev[r]}
  <2>1. r \in T /\ T \subseteq 1..N
    OBVIOUS
  <2>2. PICK i \in T : \A k \in T : i <= k
    <3>1. T \subseteq Nat /\ T # {}
      BY <2>1
    <3> HIDE DEF T
    <3> QED
      BY <3>1, LeastNumber
  <2>3. \A k \in 1..i - 1 : k \in R => dev[k] # dev[i]
    <3> SUFFICES ASSUME NEW k \in 1..i - 1, k \in R, dev[k] = dev[i] PROVE FALSE
      OBVIOUS
    <3>1. k \in T /\ i \in 1..N /\ k < i
      BY <2>2
    <3> QED
      BY <2>2, <3>1
  <2> QED
    BY <2>2, <2>3
<1> QED
  BY <1>1, <1>2 DEF EachOnce

\* Space in use, free and in all.
Adds(s) == s.used >= 0 /\ s.free >= 0 /\ s.used + s.free <= s.total

\* A mount table whose numbers make sense: no more blocks are free than there are,
\* and no more available than free.
Sane(m) == /\ m.blocks \in Nat /\ m.bfree \in 0..m.blocks /\ m.bsize \in Nat
           /\ m.bavail \in Int /\ m.bavail <= m.bfree

LEMMA SpaceOf ==
  ASSUME NEW m, Sane(m), m.bavail >= 0, NEW s,
         s.total = m.blocks * m.bsize, s.used = (m.blocks - m.bfree) * m.bsize,
         s.free = m.bavail * m.bsize
  PROVE  Adds(s)
<1> DEFINE u == m.blocks - m.bfree
           r == m.bfree - m.bavail
<1>1. u \in Nat /\ r \in Nat /\ m.bavail \in Nat /\ m.bsize \in Nat
  BY DEF Sane
<1>2. m.blocks = u + m.bavail + r
  BY DEF Sane
<1>3. m.blocks * m.bsize = u * m.bsize + m.bavail * m.bsize + r * m.bsize
  BY <1>1, <1>2
<1>4. u * m.bsize \in Nat /\ r * m.bsize \in Nat /\ m.bavail * m.bsize \in Nat
  BY <1>1
<1> QED
  BY <1>3, <1>4 DEF Adds

\* A device of the mount table is reported if any mount of it can be, and for one
\* mount only, whatever the table lists twice and whichever do not answer
\* (fsCollector.collect).
THEOREM MountsOnce ==
  ASSUME NEW N \in Nat, NEW lines, DOMAIN lines = 1..N
  PROVE  LET ms == Gauges!Mounts(lines)
         IN /\ {lines[i].dev : i \in ms} = {lines[i].dev : i \in {k \in 1..N : Usable(lines[k])}}
            /\ \A i, k \in ms : lines[i].dev = lines[k].dev => i = k
<1> DEFINE R == {k \in 1..N : Usable(lines[k])}
           dev == [i \in 1..N |-> lines[i].dev]
           ms == Gauges!Mounts(lines)
<1>1. ms = FirstOf(R, dev)
  <2>1. ms = {i \in 1..N : Usable(lines[i]) /\ \A k \in 1..i - 1 :
                             Usable(lines[k]) => lines[k].dev # lines[i].dev}
    BY DEF Gauges!Mounts, Usable
  <2>2. \A i \in 1..N : \A k \in 1..i - 1 : k \in 1..N
    OBVIOUS
  <2> HIDE DEF ms
  <2> QED
    BY <2>1, <2>2 DEF FirstOf
<1>2. R \subseteq 1..N
  OBVIOUS
<1> HIDE DEF R, ms, dev
<1>3. EachOnce(ms, R, dev)
  BY <1>1, <1>2, FirstOfEach
<1>4. ms \subseteq R /\ \A i \in R : dev[i] = lines[i].dev
  BY <1>1, <1>2 DEF dev, FirstOf
<1>5. \A i, k \in ms : lines[i].dev = lines[k].dev => i = k
  BY <1>3, <1>4 DEF EachOnce
<1>6. {lines[i].dev : i \in ms} = {lines[i].dev : i \in R}
  BY <1>3, <1>4 DEF EachOnce
<1> QED
  BY <1>5, <1>6 DEF R, ms

\* What bsdDiskSeries makes of any mounts.
Once(disks, mounts, N) ==
  /\ {s.dev : s \in disks} = {mounts[i].dev : i \in {k \in 1..N : Local(mounts[k])}}
  /\ \A s, u \in disks : s.dev = u.dev => s = u

LEMMA BSDDisksOnce ==
  ASSUME NEW N \in Nat, NEW mounts, DOMAIN mounts = 1..N
  PROVE  Once(Gauges!bsdDiskSeries(mounts), mounts, N)
<1> DEFINE R == {k \in 1..N : Local(mounts[k])}
           dev == [i \in 1..N |-> mounts[i].dev]
           S == FirstOf(R, dev)
           serie(i) == [dev |-> mounts[i].dev, total |-> mounts[i].blocks * mounts[i].bsize,
                        used |-> (mounts[i].blocks - mounts[i].bfree) * mounts[i].bsize,
                        free |-> mounts[i].bavail * mounts[i].bsize]
           disks == Gauges!bsdDiskSeries(mounts)
<1>1. R \subseteq 1..N
  OBVIOUS
<1>2. S = {i \in 1..N : Local(mounts[i]) /\ \A k \in 1..i - 1 :
                           Local(mounts[k]) => mounts[k].dev # mounts[i].dev}
  <2>1. \A i \in 1..N : \A k \in 1..i - 1 : k \in 1..N
    OBVIOUS
  <2> QED
    BY <2>1 DEF FirstOf
<1>3. disks = {serie(i) : i \in S}
  <2> HIDE DEF S
  <2> QED
    BY <1>2 DEF Gauges!bsdDiskSeries, Local
<1>4. EachOnce(S, R, dev)
  <2> HIDE DEF R, dev
  <2> QED
    BY <1>1, FirstOfEach
<1>5. S \subseteq R /\ \A i \in R : dev[i] = mounts[i].dev /\ serie(i).dev = mounts[i].dev
  BY DEF FirstOf
<1> HIDE DEF R, S, dev, serie, disks
<1>6. {s.dev : s \in disks} = {mounts[i].dev : i \in R}
  BY <1>3, <1>4, <1>5 DEF EachOnce
<1>7. \A s, u \in disks : s.dev = u.dev => s = u
  BY <1>3, <1>4, <1>5 DEF EachOnce
<1> QED
  BY <1>6, <1>7 DEF Once, R, disks

LEMMA BSDSpace ==
  ASSUME NEW N \in Nat, NEW mounts, DOMAIN mounts = 1..N,
         \A i \in 1..N : Sane(mounts[i]) /\ mounts[i].bavail >= 0,
         NEW s \in Gauges!bsdDiskSeries(mounts)
  PROVE  Adds(s)
<1>1. PICK i \in 1..N : /\ s.total = mounts[i].blocks * mounts[i].bsize
                        /\ s.used = (mounts[i].blocks - mounts[i].bfree) * mounts[i].bsize
                        /\ s.free = mounts[i].bavail * mounts[i].bsize
  BY DEF Gauges!bsdDiskSeries
<1> QED
  BY <1>1, SpaceOf
\* What the kernel says of its mounts: no more blocks free than there are, no more
\* available than free; past the superuser's reserve those available are negative.
Statfs == [dev : STRING, pseudo : BOOLEAN, blocks : Nat, bfree : Nat, bavail : Int,
           bsize : Nat, frsize : Nat]
Sensible(m) == m \in Statfs /\ m.bfree <= m.blocks /\ m.bavail <= m.bfree

\* Whatever the kernel lists, the BSDs' disk collectors report each device with a
\* mount that can be reported once, and its space used, free and reserved is its space
\* (openbsdDisk, unixDisk and netbsdDisk; NetBSD's blocks available are unsigned).
THEOREM DisksAddUp ==
  ASSUME NEW N \in Nat, NEW stats \in [1..N -> Statfs], \A i \in 1..N : Sensible(stats[i]),
         NEW disks,
         \/ disks = Gauges!openbsdDisk(stats)
         \/ disks = Gauges!unixDisk(stats)
         \/ disks = Gauges!netbsdDisk(stats) /\ \A i \in 1..N : stats[i].bavail >= 0
  PROVE  Once(disks, stats, N) /\ \A s \in disks : Adds(s)
<1>1. ASSUME NEW mounts, DOMAIN mounts = 1..N, disks = Gauges!bsdDiskSeries(mounts),
             \A i \in 1..N : /\ Sane(mounts[i]) /\ mounts[i].bavail >= 0
                             /\ mounts[i].dev = stats[i].dev
                             /\ Local(mounts[i]) = Local(stats[i])
      PROVE  Once(disks, stats, N) /\ \A s \in disks : Adds(s)
  <2>1. Once(disks, mounts, N)
    BY <1>1, BSDDisksOnce
  <2>2. \A s \in disks : Adds(s)
    BY <1>1, BSDSpace
  <2>3. {mounts[i].dev : i \in {k \in 1..N : Local(mounts[k])}}
          = {stats[i].dev : i \in {k \in 1..N : Local(stats[k])}}
    BY <1>1
  <2> QED
    BY <2>1, <2>2, <2>3 DEF Once
<1>2. CASE disks = Gauges!openbsdDisk(stats) \/ disks = Gauges!unixDisk(stats)
  <2> DEFINE mounts == [i \in DOMAIN stats |->
                          [stats[i] EXCEPT !.bavail = Gauges!blocksAvail(@)]]
  <2>1. disks = Gauges!bsdDiskSeries(mounts)
    BY <1>2 DEF Gauges!openbsdDisk, Gauges!unixDisk
  <2>2. DOMAIN mounts = 1..N
    OBVIOUS
  <2>3. ASSUME NEW i \in 1..N
        PROVE  /\ Sane(mounts[i]) /\ mounts[i].bavail >= 0
               /\ mounts[i].dev = stats[i].dev /\ Local(mounts[i]) = Local(stats[i])
    <3> DEFINE m == stats[i]
    <3>1. m \in Statfs /\ m.bfree <= m.blocks /\ m.bavail <= m.bfree
      BY DEF Sensible
    <3>2. mounts[i] = [m EXCEPT !.bavail = Gauges!blocksAvail(m.bavail)]
      OBVIOUS
    <3> HIDE DEF m, mounts
    <3>3. /\ mounts[i].dev = m.dev /\ mounts[i].pseudo = m.pseudo /\ mounts[i].blocks = m.blocks
          /\ mounts[i].bfree = m.bfree /\ mounts[i].bsize = m.bsize
          /\ mounts[i].bavail = Gauges!blocksAvail(m.bavail)
      BY <3>1, <3>2 DEF Statfs
    <3>4. /\ m.blocks \in Nat /\ m.bfree \in Nat /\ m.bsize \in Nat /\ m.bavail \in Int
      BY <3>1 DEF Statfs
    <3>5. Gauges!blocksAvail(m.bavail) \in Nat /\ Gauges!blocksAvail(m.bavail) <= m.bfree
      BY <3>1, <3>4 DEF Gauges!blocksAvail
    <3>6. Sane(mounts[i]) /\ mounts[i].bavail >= 0
      BY <3>1, <3>3, <3>4, <3>5 DEF Sane
    <3>7. mounts[i].dev = stats[i].dev /\ Local(mounts[i]) = Local(stats[i])
      BY <3>3 DEF Local, m
    <3> QED
      BY <3>6, <3>7
  <2> HIDE DEF mounts
  <2> QED
    BY <1>1, <2>1, <2>2, <2>3
<1>3. CASE disks = Gauges!netbsdDisk(stats) /\ \A i \in 1..N : stats[i].bavail >= 0
  <2> DEFINE size(m) == IF m.frsize = 0 THEN m.bsize ELSE m.frsize
             mounts == [i \in DOMAIN stats |-> [stats[i] EXCEPT !.bsize = size(stats[i])]]
  <2>1. disks = Gauges!bsdDiskSeries(mounts)
    <3>1. mounts = [i \in DOMAIN stats |->
                     [stats[i] EXCEPT !.bsize = IF stats[i].frsize = 0 THEN @ ELSE stats[i].frsize]]
      OBVIOUS
    <3> HIDE DEF mounts
    <3> QED
      BY <1>3, <3>1 DEF Gauges!netbsdDisk
  <2>2. DOMAIN mounts = 1..N
    OBVIOUS
  <2>3. ASSUME NEW i \in 1..N
        PROVE  /\ Sane(mounts[i]) /\ mounts[i].bavail >= 0
               /\ mounts[i].dev = stats[i].dev /\ Local(mounts[i]) = Local(stats[i])
    <3> DEFINE m == stats[i]
    <3>1. m \in Statfs /\ m.bfree <= m.blocks /\ m.bavail <= m.bfree /\ m.bavail >= 0
      BY <1>3 DEF Sensible
    <3>2. mounts[i] = [m EXCEPT !.bsize = size(m)]
      OBVIOUS
    <3>3. size(m) \in Nat
      BY <3>1 DEF Statfs
    <3> HIDE DEF m, mounts, size
    <3>4. /\ mounts[i].dev = m.dev /\ mounts[i].pseudo = m.pseudo /\ mounts[i].blocks = m.blocks
          /\ mounts[i].bfree = m.bfree /\ mounts[i].bsize = size(m)
          /\ mounts[i].bavail = m.bavail
      BY <3>1, <3>2 DEF Statfs
    <3>5. m.blocks \in Nat /\ m.bfree \in Nat /\ m.bavail \in Int
      BY <3>1 DEF Statfs
    <3>6. Sane(mounts[i]) /\ mounts[i].bavail >= 0
      BY <3>1, <3>3, <3>4, <3>5 DEF Sane
    <3>7. mounts[i].dev = stats[i].dev /\ Local(mounts[i]) = Local(stats[i])
      BY <3>4 DEF Local, m
    <3> QED
      BY <3>6, <3>7
  <2> HIDE DEF mounts
  <2> QED
    BY <1>1, <2>1, <2>2, <2>3
<1> QED
  BY <1>2, <1>3

----------------------------------------------------------------------------
(* The events of the dogstatsd protocol (MetricSeries), whatever they say.  *)

Series == INSTANCE MetricSeries

\* Where the parts of three sequences one after the other are.
LEMMA PartsOf ==
  ASSUME NEW W, NEW a \in Seq(W), NEW p \in W, NEW b \in Seq(W), NEW c \in Seq(W),
         NEW s, s = a \o <<p>> \o b \o c
  PROVE  /\ s \in Seq(W) /\ Len(s) = Len(a) + 1 + Len(b) + Len(c)
         /\ s[Len(a) + 1] = p
         /\ SubSeq(s, 1, Len(a)) = a
         /\ SubSeq(s, Len(a) + 2, Len(a) + 1 + Len(b)) = b
<1>1. /\ s \in Seq(W) /\ Len(s) = Len(a) + 1 + Len(b) + Len(c)
      /\ Len(a) \in Nat /\ Len(b) \in Nat /\ Len(c) \in Nat
  OBVIOUS
<1>2. /\ \A i \in 1..Len(a) : s[i] = a[i]
      /\ s[Len(a) + 1] = p
      /\ \A i \in 1..Len(b) : s[Len(a) + 1 + i] = b[i]
  OBVIOUS
<1>3. SubSeq(s, 1, Len(a)) = a
  <2>1. SubSeq(s, 1, Len(a)) = [i \in 1..Len(a) |-> s[i]]
    BY <1>1
  <2>2. a = [i \in 1..Len(a) |-> a[i]]
    OBVIOUS
  <2> QED
    BY <1>1, <1>2, <2>1, <2>2
<1>4. SubSeq(s, Len(a) + 2, Len(a) + 1 + Len(b)) = b
  <2> DEFINE x == SubSeq(s, Len(a) + 2, Len(a) + 1 + Len(b))
  <2>1. Len(x) = Len(b) /\ x \in Seq(W)
    BY <1>1
  <2>2. \A i \in 1..Len(b) : x[i] = b[i]
    BY <1>1, <1>2
  <2> HIDE DEF x
  <2>3. x = b
    BY <2>1, <2>2, SeqEqual
  <2> QED
    BY <2>3 DEF x
<1> QED
  BY <1>1, <1>2, <1>3, <1>4

\* Whatever words a client puts in an event's title and text, pipes and all, and
\* whatever follows them, they are what is read, cut where the lengths say
\* (parseEvent).
THEOREM EventsFramed ==
  ASSUME NEW W, Series!Pipe \in W, NEW title \in Seq(W), title # <<>>, NEW text \in Seq(W),
         NEW tail \in Seq(W)
  PROVE  \E h : Series!parseEvent(Len(title), Len(text), title \o <<Series!Pipe>> \o text \o tail)
                  = {[title |-> title, text |-> text, host |-> h]}
<1> DEFINE body == title \o <<Series!Pipe>> \o text \o tail
           tl == Len(title)
           el == Len(text)
<1>1. /\ Len(body) = tl + 1 + el + Len(tail) /\ body[tl + 1] = Series!Pipe
      /\ SubSeq(body, 1, tl) = title /\ SubSeq(body, tl + 2, tl + 1 + el) = text
  BY PartsOf
<1>2. tl \in Nat /\ tl > 0 /\ el \in Nat /\ Len(tail) \in Nat
  OBVIOUS
<1>3. ~(tl <= 0 \/ el < 0 \/ Len(body) < tl + 1 + el \/ body[tl + 1] # Series!Pipe)
  BY <1>1, <1>2
<1> HIDE DEF body, tl, el
<1>4. \E h : Series!parseEvent(tl, el, body)
             = {[title |-> SubSeq(body, 1, tl), text |-> SubSeq(body, tl + 2, tl + 1 + el), host |-> h]}
  BY <1>3 DEF Series!parseEvent
<1>5. \E h : Series!parseEvent(tl, el, body) = {[title |-> title, text |-> text, host |-> h]}
  BY <1>1, <1>4
<1> QED
  BY <1>5 DEF body, tl, el

----------------------------------------------------------------------------
(* The series of a flush in their payloads.                                 *)

\* MarshalSeries: a fold that keeps a serie of finite points or passes over it.
Marshal(E) ==
  [e \in E |-> [s \in Seq(E) |-> IF Series!finitePoints(e) THEN Append(s, e) ELSE s]]

LEMMA MarshalIs ==
  ASSUME NEW E, NEW q \in Seq(E)
  PROVE  FoldOf(Series!MarshalSeries(q), Seq(E), <<>>, Marshal(E), q)
<1> DEFINE m == Len(q)
           Go(s, e) == IF Series!finitePoints(e) THEN Append(s, e) ELSE s
           Rec(f) == f = [n \in 0..m |-> IF n = 0 THEN <<>>
                           ELSE IF Series!finitePoints(q[n]) THEN Append(f[n - 1], q[n])
                                ELSE f[n - 1]]
<1>1. m \in Nat /\ \A n \in 1..m : q[n] \in E
  OBVIOUS
<1>2. /\ <<>> \in Seq(E)
      /\ Marshal(E) \in [E -> [Seq(E) -> Seq(E)]]
      /\ \A e \in E : \A s \in Seq(E) : Marshal(E)[e][s] = Go(s, e)
  BY DEF Marshal
<1>3. PICK h : Follows(h, Seq(E), <<>>, Marshal(E), q)
  BY <1>2, FoldExists
<1>4. /\ h \in [0..m -> Seq(E)] /\ h[0] = <<>>
      /\ \A n \in 1..m : h[n] = Go(h[n - 1], q[n])
  <2>1. h \in [0..m -> Seq(E)] /\ h[0] = <<>> /\ \A n \in 1..m : n - 1 \in 0..m
    BY <1>1, <1>3 DEF Follows
  <2> HIDE DEF Go
  <2> QED
    BY <1>1, <1>2, <1>3, <2>1 DEF Follows
<1>5. Rec(h)
  <2>1. h = [n \in 0..m |-> h[n]]
    BY <1>4
  <2>2. \A n \in 0..m : h[n] = IF n = 0 THEN <<>>
                         ELSE IF Series!finitePoints(q[n]) THEN Append(h[n - 1], q[n])
                              ELSE h[n - 1]
    <3>1. \A n \in 0..m : n = 0 \/ n \in 1..m
      BY <1>1
    <3> QED
      BY <1>4, <3>1
  <2> QED
    BY <2>1, <2>2
<1> DEFINE f == CHOOSE x : Rec(x)
<1>6. Rec(f)
  <2> HIDE DEF Rec
  <2> QED
    BY <1>5
<1>7. Series!MarshalSeries(q) = f[m]
  BY DEF Series!MarshalSeries
<1> HIDE DEF f
<1>8. f = [n \in 0..m |-> f[n]] /\ f[0] = <<>> /\ \A n \in 1..m : f[n] = Go(f[n - 1], q[n])
  <2>1. DOMAIN f = 0..m /\ f = [n \in DOMAIN f |-> f[n]]
    BY ONLY <1>6
  <2>2. \A n \in 0..m : f[n] = IF n = 0 THEN <<>>
                         ELSE IF Series!finitePoints(q[n]) THEN Append(f[n - 1], q[n])
                              ELSE f[n - 1]
    BY ONLY <1>6
  <2> HIDE DEF Rec
  <2>3. 0 \in 0..m /\ \A n \in 1..m : n \in 0..m /\ n # 0
    BY <1>1
  <2> QED
    BY ONLY <2>1, <2>2, <2>3
<1> HIDE DEF Rec, Go
<1>9. Follows(f, Seq(E), <<>>, Marshal(E), q)
  <2>1. \A n \in 1..m : f[n - 1] \in Seq(E) => f[n] = Marshal(E)[q[n]][f[n - 1]]
    BY <1>1, <1>2, <1>8
  <2> QED
    BY <1>2, <1>8, <2>1, FoldIs
<1> QED
  BY <1>7, <1>9 DEF FoldOf

\* w is v, with e if its points are finite; x is a with b after it.
Marshalled(w, v, e) ==
  (Series!finitePoints(e) => w = Append(v, e)) /\ (~Series!finitePoints(e) => w = v)
MadeOf(x, a, b) == x = a \o b

LEMMA MarshalNone == Series!MarshalSeries(<<>>) = <<>>
<1>1. <<>> \in Seq({})
  OBVIOUS
<1>2. FoldOf(Series!MarshalSeries(<<>>), Seq({}), <<>>, Marshal({}), <<>>)
  BY <1>1, MarshalIs
<1> QED
  BY <1>2, FoldEmpty

LEMMA MarshalAppend ==
  ASSUME NEW E, NEW q \in Seq(E), NEW e \in E
  PROVE  /\ Series!MarshalSeries(q) \in Seq(E)
         /\ Marshalled(Series!MarshalSeries(Append(q, e)), Series!MarshalSeries(q), e)
<1> DEFINE v == Series!MarshalSeries(q)
           w == Series!MarshalSeries(Append(q, e))
<1>1. Append(q, e) \in Seq(E)
  OBVIOUS
<1>2. /\ FoldOf(v, Seq(E), <<>>, Marshal(E), q)
      /\ FoldOf(w, Seq(E), <<>>, Marshal(E), Append(q, e))
  BY <1>1, MarshalIs
<1> HIDE DEF v, w
<1>3. v \in Seq(E) /\ w = Marshal(E)[e][v]
  BY <1>2, FoldAppend
<1> QED
  BY <1>3 DEF Marshal, Marshalled, v, w

LEMMA MarshalType ==
  ASSUME NEW E, NEW q \in Seq(E)
  PROVE  Series!MarshalSeries(q) \in Seq(E)
BY MarshalIs, FoldType

\* A payload has no more series than were given for it.
LEMMA MarshalShorter ==
  ASSUME NEW E, NEW q \in Seq(E)
  PROVE  Len(Series!MarshalSeries(q)) <= Len(q)
<1> DEFINE T == {r \in Seq(E) : Len(Series!MarshalSeries(r)) <= Len(r)}
<1>1. <<>> \in T
  BY MarshalNone
<1>2. ASSUME NEW r \in T, NEW e \in E PROVE Append(r, e) \in T
  <2>1. r \in Seq(E) /\ Append(r, e) \in Seq(E) /\ Len(Series!MarshalSeries(r)) <= Len(r)
    OBVIOUS
  <2>2. Series!MarshalSeries(r) \in Seq(E)
        /\ Marshalled(Series!MarshalSeries(Append(r, e)), Series!MarshalSeries(r), e)
    BY <2>1, MarshalAppend, Zenon
  <2>3. Len(Series!MarshalSeries(Append(r, e))) <= Len(Series!MarshalSeries(r)) + 1
    BY <2>2 DEF Marshalled
  <2>4. Len(Append(r, e)) = Len(r) + 1 /\ Len(r) \in Nat /\ Len(Series!MarshalSeries(r)) \in Nat
        /\ Len(Series!MarshalSeries(Append(r, e))) \in Nat
    BY <2>1, <2>2, MarshalType
  <2> QED
    BY <2>1, <2>3, <2>4
<1>3. T = Seq(E)
  <2>1. T \subseteq Seq(E)
    OBVIOUS
  <2> HIDE DEF T
  <2> QED
    BY <1>1, <1>2, <2>1, InductionOnSeq
<1> QED
  BY <1>3

LEMMA MarshalJoin ==
  ASSUME NEW E, NEW p \in Seq(E), NEW q \in Seq(E)
  PROVE  MadeOf(Series!MarshalSeries(p \o q), Series!MarshalSeries(p), Series!MarshalSeries(q))
<1> DEFINE a == Series!MarshalSeries(p)
           T == {r \in Seq(E) : Series!MarshalSeries(p \o r) = a \o Series!MarshalSeries(r)}
<1>0. a \in Seq(E)
  BY MarshalType
<1>1. <<>> \in T
  <2>1. p \o <<>> = p /\ a \o <<>> = a /\ <<>> \in Seq(E)
    BY <1>0
  <2> QED
    BY <2>1, MarshalNone
<1>2. ASSUME NEW r \in T, NEW e \in E PROVE Append(r, e) \in T
  <2> DEFINE b == Series!MarshalSeries(r)
  <2>1. r \in Seq(E) /\ Append(r, e) \in Seq(E) /\ p \o r \in Seq(E)
        /\ Series!MarshalSeries(p \o r) = a \o b
    OBVIOUS
  <2>2. p \o Append(r, e) = Append(p \o r, e)
    BY <2>1
  <2>3. Marshalled(Series!MarshalSeries(p \o Append(r, e)), Series!MarshalSeries(p \o r), e)
    BY <2>1, <2>2, MarshalAppend, Zenon
  <2>4. Marshalled(Series!MarshalSeries(Append(r, e)), b, e) /\ b \in Seq(E)
    BY <2>1, MarshalAppend, Zenon
  <2> HIDE DEF a, b
  <2>5. a \o Append(b, e) = Append(a \o b, e)
    BY <1>0, <2>4
  <2>6. Series!MarshalSeries(p \o Append(r, e)) = a \o Series!MarshalSeries(Append(r, e))
    <3>1. CASE Series!finitePoints(e)
      BY <2>1, <2>3, <2>4, <2>5, <3>1, Zenon DEF Marshalled
    <3>2. CASE ~Series!finitePoints(e)
      BY <2>1, <2>3, <2>4, <3>2, Zenon DEF Marshalled
    <3> QED
      BY <3>1, <3>2
  <2> QED
    BY <2>1, <2>6, Zenon
<1>3. T = Seq(E)
  <2>1. T \subseteq Seq(E)
    OBVIOUS
  <2> HIDE DEF T
  <2> QED
    BY <1>1, <1>2, <2>1, InductionOnSeq
<1> QED
  BY <1>3 DEF MadeOf

LEMMA SplitAt ==
  ASSUME NEW E, NEW s \in Seq(E), NEW a \in Nat, NEW b \in Nat, a <= b, b <= Len(s)
  PROVE  /\ SubSeq(s, 1, a) \in Seq(E) /\ SubSeq(s, a + 1, b) \in Seq(E)
         /\ Len(SubSeq(s, a + 1, b)) = b - a
         /\ MadeOf(SubSeq(s, 1, b), SubSeq(s, 1, a), SubSeq(s, a + 1, b))
<1> DEFINE x == SubSeq(s, 1, b)
           u == SubSeq(s, 1, a)
           v == SubSeq(s, a + 1, b)
<1>1. /\ Len(s) \in Nat /\ u \in Seq(E) /\ v \in Seq(E) /\ x \in Seq(E)
      /\ Len(u) = a /\ Len(v) = b - a /\ Len(x) = b
  OBVIOUS
<1>2. /\ \A i \in 1..b : x[i] = s[i]
      /\ \A i \in 1..a : u[i] = s[i]
      /\ \A i \in 1..(b - a) : v[i] = s[a + i]
  OBVIOUS
<1> HIDE DEF x, u, v
<1>3. u \o v \in Seq(E) /\ Len(u \o v) = b
  <2>1. u \o v \in Seq(E) /\ Len(u \o v) = Len(u) + Len(v)
    BY ONLY <1>1, ConcatProperties
  <2>2. a + (b - a) = b
    OBVIOUS
  <2> QED
    BY ONLY <1>1, <2>1, <2>2
<1>4. \A i \in 1..b : (u \o v)[i] = x[i]
  <2> SUFFICES ASSUME NEW i \in 1..b PROVE (u \o v)[i] = x[i]
    OBVIOUS
  <2>1. CASE i <= a
    BY <1>1, <1>2, <2>1
  <2>2. CASE ~(i <= a)
    <3>1. i - a \in 1..(b - a) /\ a + (i - a) = i
      BY <2>2
    <3>2. (u \o v)[i] = v[i - a]
      BY <1>1, <2>2
    <3> QED
      BY <1>2, <3>1, <3>2
  <2> QED
    BY <2>1, <2>2
<1>5. x = u \o v
  BY <1>1, <1>3, <1>4, SeqEqual
<1> QED
  BY <1>1, <1>5 DEF MadeOf, x, u, v

\* Where the first k payloads of at most max series end.
EndOf(k, max, n) == IF k * max <= n THEN k * max ELSE n

LEMMA Chunks ==
  ASSUME NEW n \in Nat, NEW max \in Nat \ {0}, NEW c, c = (n + max - 1) \div max
  PROVE  /\ c \in Nat /\ EndOf(0, max, n) = 0 /\ EndOf(c, max, n) = n
         /\ \A k \in 1..c : /\ EndOf(k - 1, max, n) = (k - 1) * max
                            /\ EndOf(k - 1, max, n) <= EndOf(k, max, n)
                            /\ EndOf(k, max, n) - EndOf(k - 1, max, n) <= max
         /\ \A k \in 0..c : EndOf(k, max, n) \in Nat /\ EndOf(k, max, n) <= n
<1>1. c \in Nat /\ n <= c * max /\ (c - 1) * max < n + 1
  OBVIOUS
<1>2. ASSUME NEW k \in 0..c PROVE EndOf(k, max, n) \in Nat /\ EndOf(k, max, n) <= n
  BY <1>1 DEF EndOf
<1>3. ASSUME NEW k \in 1..c PROVE (k - 1) * max <= n /\ k * max = (k - 1) * max + max
  <2>1. (k - 1) * max <= (c - 1) * max
    BY <1>1
  <2> QED
    BY <1>1, <2>1
<1>4. ASSUME NEW k \in 1..c
      PROVE  /\ EndOf(k - 1, max, n) = (k - 1) * max
             /\ EndOf(k - 1, max, n) <= EndOf(k, max, n)
             /\ EndOf(k, max, n) - EndOf(k - 1, max, n) <= max
  <2> DEFINE a == (k - 1) * max
  <2>1. a \in Int /\ a <= n /\ k * max = a + max
    BY <1>3
  <2> HIDE DEF a
  <2>2. EndOf(k - 1, max, n) = a
    BY <2>1 DEF EndOf, a
  <2>3. EndOf(k, max, n) = IF a + max <= n THEN a + max ELSE n
    BY <2>1 DEF EndOf
  <2> QED
    BY <2>1, <2>2, <2>3 DEF a
<1>5. EndOf(0, max, n) = 0 /\ EndOf(c, max, n) = n
  BY <1>1 DEF EndOf
<1> QED
  BY <1>1, <1>2, <1>4, <1>5

LEMMA SameMin ==
  ASSUME NEW S
  PROVE  Series!Min(S) = Rates!Min(S)
BY DEF Series!Min, Rates!Min

LEMMA LeastIs ==
  ASSUME NEW S, S \subseteq Nat, S # {}
  PROVE  Series!Min(S) \in S
<1> DEFINE M(x) == x \in S /\ \A y \in S : x <= y
<1>1. \E x : M(x)
  BY LeastNumber
<1>2. Series!Min(S) = CHOOSE x : M(x)
  BY DEF Series!Min
<1> HIDE DEF M
<1>3. M(Series!Min(S))
  BY <1>1, <1>2
<1> QED
  BY <1>3 DEF M

\* What SendSeries sends: the first u of c chunks, all unless the next one fails.
Sends(sent, u, c, series, max, failing) ==
  /\ c = (Len(series) + max - 1) \div max
  /\ u \in 0..c /\ (u = c \/ u + 1 \in failing)
  /\ sent = [k \in 1..u |-> Series!MarshalSeries(
               SubSeq(series, EndOf(k - 1, max, Len(series)) + 1, EndOf(k, max, Len(series))))]

LEMMA SentIs ==
  ASSUME NEW E, NEW series \in Seq(E), NEW max \in Nat \ {0}, NEW failing
  PROVE  \E u, c : Sends(Series!SendSeries(series, max, failing), u, c, series, max, failing)
<1>0. PICK n, c : n = Len(series) /\ c = (n + max - 1) \div max
  OBVIOUS
<1> DEFINE bad == failing \cap 1..c
           u == IF bad = {} THEN c ELSE Series!Min(bad) - 1
           chunk(k) == Series!MarshalSeries(
                         SubSeq(series, (k - 1) * max + 1, Series!Min({k * max, n})))
           part(k) == Series!MarshalSeries(
                        SubSeq(series, EndOf(k - 1, max, n) + 1, EndOf(k, max, n)))
<1>1. Series!SendSeries(series, max, failing) = [k \in 1..u |-> chunk(k)]
  BY <1>0 DEF Series!SendSeries
<1>2. n \in Nat
  BY <1>0
<1>3. /\ c \in Nat
      /\ \A k \in 1..c : EndOf(k - 1, max, n) = (k - 1) * max
  BY <1>0, <1>2, Chunks
<1>4. u \in 0..c /\ (u = c \/ u + 1 \in failing)
  <2>1. CASE bad = {}
    BY <1>3, <2>1
  <2>2. CASE bad # {}
    <3>1. bad \subseteq Nat
      BY <1>3
    <3>2. Series!Min(bad) \in bad
      <4> HIDE DEF bad
      <4> QED
        BY <2>2, <3>1, LeastIs
    <3>3. u = Series!Min(bad) - 1
      BY <2>2
    <3> HIDE DEF u
    <3> QED
      BY <1>3, <3>2, <3>3
  <2> QED
    BY <2>1, <2>2
<1> HIDE DEF u
<1>5. ASSUME NEW k \in 1..u PROVE chunk(k) = part(k)
  <2>1. k \in 1..c /\ k \in Int
    BY <1>3, <1>4
  <2> DEFINE a == k * max
  <2>2. a \in Int
    BY <2>1
  <2>3. Series!Min({a, n}) \in {a, n} /\ Series!Min({a, n}) <= a /\ Series!Min({a, n}) <= n
    <3> HIDE DEF a
    <3>1. a \in Int /\ n \in Int
      BY <1>2, <2>2
    <3>2. Rates!Min({a, n}) \in {a, n} /\ Rates!Min({a, n}) <= a /\ Rates!Min({a, n}) <= n
      BY <3>1, MinOfTwo, Zenon
    <3> QED
      BY <3>2, SameMin, Zenon
  <2>4. Series!Min({a, n}) = EndOf(k, max, n)
    BY <1>2, <2>2, <2>3 DEF EndOf
  <2>5. EndOf(k - 1, max, n) = (k - 1) * max
    BY <1>3, <2>1
  <2> QED
    BY <2>4, <2>5
<1>6. Series!SendSeries(series, max, failing) = [k \in 1..u |-> part(k)]
  <2> HIDE DEF chunk, part
  <2> QED
    BY <1>1, <1>5
<1>7. Sends(Series!SendSeries(series, max, failing), u, c, series, max, failing)
  BY <1>0, <1>4, <1>6 DEF Sends
<1> QED
  BY <1>7

\* all[k] is what the first k payloads carry, one after the other.
Carried(all, sent) == all[0] = <<>> /\ \A k \in 1..Len(sent) : all[k] = all[k - 1] \o sent[k]

\* However many series a flush has and whatever fails, the payloads carry those
\* with finite points in order and none twice, at most max each; what they do not
\* carry is behind a payload that failed (SendSeries, MarshalSeries).
THEOREM PayloadsInOrder ==
  ASSUME NEW E, NEW series \in Seq(E), NEW max \in Nat \ {0}, NEW failing,
         NEW sent, sent = Series!SendSeries(series, max, failing),
         NEW all, Carried(all, sent)
  PROVE  /\ \A k \in 1..Len(sent) : Len(sent[k]) <= max
         /\ \E left : /\ Series!MarshalSeries(series) = all[Len(sent)] \o left
                      /\ left # <<>> => Len(sent) + 1 \in failing
<1> DEFINE n == Len(series)
           to(k) == EndOf(k, max, n)
           part(k) == SubSeq(series, to(k - 1) + 1, to(k))
           first(k) == SubSeq(series, 1, to(k))
           mar(s) == Series!MarshalSeries(s)
<1>1. n \in Nat
  OBVIOUS
<1>2. PICK u, c : Sends(sent, u, c, series, max, failing)
  BY SentIs
<1>3. /\ c = (n + max - 1) \div max /\ u \in 0..c /\ (u = c \/ u + 1 \in failing)
      /\ sent = [k \in 1..u |-> mar(part(k))]
  BY <1>2 DEF Sends
<1>4. /\ c \in Nat /\ to(0) = 0 /\ to(c) = n
      /\ \A k \in 1..c : to(k - 1) <= to(k) /\ to(k) - to(k - 1) <= max
      /\ \A k \in 0..c : to(k) \in Nat /\ to(k) <= n
  BY <1>1, <1>3, Chunks
<1>5. u \in Nat /\ u <= c /\ \A k \in 1..u : k \in 1..c /\ k - 1 \in 0..c /\ k \in 0..c
  BY <1>3, <1>4
<1>6. Len(sent) = u /\ \A k \in 1..u : sent[k] = mar(part(k))
  <2> HIDE DEF mar, part
  <2> QED
    BY <1>3, <1>5
<1> HIDE DEF to
<1>7. ASSUME NEW k \in 1..u
      PROVE  /\ first(k - 1) \in Seq(E) /\ part(k) \in Seq(E)
             /\ Len(part(k)) <= max
             /\ MadeOf(first(k), first(k - 1), part(k))
  <2>1. /\ to(k - 1) \in Nat /\ to(k) \in Nat /\ to(k - 1) <= to(k) /\ to(k) <= Len(series)
        /\ to(k) - to(k - 1) <= max
    BY <1>4, <1>5
  <2>2. /\ first(k - 1) \in Seq(E) /\ part(k) \in Seq(E)
        /\ Len(part(k)) = to(k) - to(k - 1)
        /\ MadeOf(first(k), first(k - 1), part(k))
    BY <2>1, SplitAt
  <2> QED
    BY <2>1, <2>2
<1> HIDE DEF first, part
<1>8. ASSUME NEW k \in 1..u PROVE Len(mar(part(k))) <= max
  <2>1. part(k) \in Seq(E) /\ Len(part(k)) <= max
    BY <1>7
  <2>2. Len(mar(part(k))) <= Len(part(k)) /\ mar(part(k)) \in Seq(E)
    BY <2>1, MarshalShorter, MarshalType
  <2>3. Len(part(k)) \in Nat /\ Len(mar(part(k))) \in Nat
    BY <2>1, <2>2
  <2> QED
    BY <2>1, <2>2, <2>3
<1> DEFINE T == {k \in Nat : k <= u => all[k] = mar(first(k))}
<1>9. 0 \in T
  <2>1. first(0) = <<>>
    BY <1>4 DEF first
  <2>2. mar(first(0)) = <<>>
    BY <2>1, MarshalNone
  <2> HIDE DEF mar
  <2> QED
    BY <2>2 DEF Carried
<1>10. ASSUME NEW k \in T PROVE k + 1 \in T
  <2> SUFFICES ASSUME k + 1 <= u PROVE all[k + 1] = mar(first(k + 1))
    OBVIOUS
  <2>1. k + 1 \in 1..u /\ (k + 1) - 1 = k /\ k <= u
    BY <1>5
  <2>2. all[k + 1] = all[k] \o sent[k + 1] /\ sent[k + 1] = mar(part(k + 1))
    BY <1>6, <2>1 DEF Carried
  <2>3. all[k] = mar(first(k))
    BY <2>1
  <2>4. first(k) \in Seq(E) /\ part(k + 1) \in Seq(E)
        /\ MadeOf(first(k + 1), first(k), part(k + 1))
    BY <1>7, <2>1
  <2>5. MadeOf(mar(first(k) \o part(k + 1)), mar(first(k)), mar(part(k + 1)))
    BY <2>4, MarshalJoin
  <2> HIDE DEF mar, T
  <2> QED
    BY <2>2, <2>3, <2>4, <2>5, Zenon DEF MadeOf
<1>11. all[u] = mar(first(u))
  <2>1. T \subseteq Nat
    OBVIOUS
  <2>2. T = Nat
    <3> HIDE DEF T
    <3> QED
      BY <1>9, <1>10, <2>1, InductionOnNat
  <2>3. u \in T
    BY <1>5, <2>2
  <2> QED
    BY <1>5, <2>3
<1> DEFINE behind == SubSeq(series, to(u) + 1, n)
<1>12. /\ first(u) \in Seq(E) /\ behind \in Seq(E) /\ Len(behind) = n - to(u)
       /\ MadeOf(series, first(u), behind)
  <2>1. to(u) \in Nat /\ to(u) <= Len(series) /\ n <= Len(series)
    BY <1>1, <1>4, <1>5
  <2>2. SubSeq(series, 1, n) = series
    OBVIOUS
  <2> QED
    <3>1. /\ SubSeq(series, 1, to(u)) \in Seq(E) /\ behind \in Seq(E)
          /\ Len(behind) = n - to(u)
          /\ MadeOf(SubSeq(series, 1, n), SubSeq(series, 1, to(u)), behind)
      <4> HIDE DEF n
      <4> QED
        BY <1>1, <2>1, SplitAt DEF n
    <3> HIDE DEF behind
    <3> QED
      BY <2>2, <3>1 DEF first
<1> HIDE DEF behind
<1>13. MadeOf(mar(first(u) \o behind), mar(first(u)), mar(behind))
  BY <1>12, MarshalJoin
<1>14. mar(series) = all[u] \o mar(behind)
  <2> HIDE DEF mar
  <2> QED
    BY <1>11, <1>12, <1>13, Zenon DEF MadeOf
<1>15. mar(behind) # <<>> => u + 1 \in failing
  <2> SUFFICES ASSUME u = c PROVE mar(behind) = <<>>
    BY <1>3
  <2>1. Len(behind) = 0
    BY <1>1, <1>4, <1>12
  <2>2. behind = <<>>
    BY <1>12, <2>1
  <2> QED
    BY <2>2, MarshalNone
<1> QED
  BY <1>6, <1>8, <1>14, <1>15

----------------------------------------------------------------------------
(* A line of samples.                                                       *)

LEMMA GreatestIs ==
  ASSUME NEW n \in Nat, NEW S, S \subseteq 0..n, S # {}
  PROVE  Series!Max(S) \in S /\ \A y \in S : y <= Series!Max(S)
<1> DEFINE M(x) == x \in S /\ \A y \in S : x >= y
<1>1. \E x : M(x)
  <2>1. PICK x \in S : \A y \in S : y <= x
    BY GreatestNumber
  <2>2. M(x)
    BY <2>1
  <2> QED
    BY <2>2
<1>2. Series!Max(S) = CHOOSE x : M(x)
  BY DEF Series!Max
<1> HIDE DEF M
<1>3. M(Series!Max(S))
  BY <1>1, <1>2
<1> QED
  BY <1>3 DEF M

\* An option of a line is one that it carries and that can be used, or the default.
LEMMA OptionIs ==
  ASSUME NEW O, NEW opts \in Seq(O), NEW key, NEW default, NEW usable
  PROVE  LET v == Series!Option(opts, key, default, usable)
         IN \/ v = default
            \/ v \in usable /\ \E i \in DOMAIN opts : opts[i].key = key /\ opts[i].n = v
<1> DEFINE is == {i \in DOMAIN opts : opts[i].key = key /\ opts[i].n \in usable}
<1>1. Series!Option(opts, key, default, usable)
        = IF is = {} THEN default ELSE opts[Series!Max(is)].n
  BY DEF Series!Option
<1>2. CASE is # {}
  <2>1. is \subseteq 0..Len(opts) /\ Len(opts) \in Nat
    OBVIOUS
  <2>2. Series!Max(is) \in is
    <3> HIDE DEF is
    <3> QED
      BY <1>2, <2>1, GreatestIs
  <2> QED
    BY <1>1, <1>2, <2>2
<1> QED
  BY <1>1, <1>2

\* Whatever a line says, there is a sample for each of its values, in order and
\* with one name, type, tags and a weight that counts, or none at all, and that
\* only of a line without a name, a known type or a number in each place (parse).
THEOREM ParsedWhole ==
  ASSUME NEW V, NEW O, NEW line, line.values \in Seq(V), line.opts \in Seq(O),
         NEW ss, ss = Series!parse(line), NEW packed, packed = (line.type # "s")
  PROVE  /\ ss # <<>> <=> /\ line.name # "" /\ line.values # <<>> /\ line.type \in Series!Types
                          /\ packed => \A i \in DOMAIN line.values : line.values[i].number
         /\ ss # <<>> =>
              /\ Len(ss) = IF packed THEN Len(line.values) ELSE 1
              /\ \A i \in DOMAIN ss :
                   /\ ss[i].value = IF packed THEN line.values[i].num ELSE line.values
                   /\ ss[i].base = ss[1].base
                   /\ ss[i].base.name = line.name /\ ss[i].base.type = line.type
                   /\ ss[i].base.weight \in Nat \ {0}
<1> DEFINE good == /\ line.name # "" /\ line.values # <<>> /\ line.type \in Series!Types
                   /\ packed => \A i \in DOMAIN line.values : line.values[i].number
           weight == Series!Option(line.opts, "@", 1, Nat \ {0})
           tags == Series!Option(line.opts, "#", 0, Int)
           base == [name |-> line.name, type |-> line.type, weight |-> weight, tags |-> tags]
           sample(x) == [base |-> base, value |-> x]
<1>1. ss = IF ~good THEN <<>>
           ELSE IF ~packed THEN <<sample(line.values)>>
           ELSE [i \in DOMAIN line.values |-> sample(line.values[i].num)]
  BY DEF Series!parse
<1>2. weight \in Nat \ {0}
  BY OptionIs
<1> HIDE DEF weight, tags
<1>3. /\ base.name = line.name /\ base.type = line.type /\ base.weight \in Nat \ {0}
      /\ \A x : sample(x).base = base /\ sample(x).value = x
  BY <1>2
<1> HIDE DEF base, sample
<1>4. DOMAIN line.values = 1..Len(line.values) /\ Len(line.values) \in Nat
  OBVIOUS
<1>5. CASE ~good
  BY <1>1, <1>5
<1>6. CASE good /\ ~packed
  <2>1. ss = <<sample(line.values)>> /\ good
    BY <1>1, <1>6
  <2> HIDE DEF good
  <2>2. ss # <<>> /\ Len(ss) = 1 /\ DOMAIN ss = {1} /\ ss[1] = sample(line.values)
    BY <2>1
  <2>3. \A i \in DOMAIN ss : ss[i].value = line.values /\ ss[i].base = base
    BY <1>3, <2>2
  <2>4. ss[1].base = base
    BY <1>3, <2>2
  <2> QED
    BY <1>3, <1>6, <2>1, <2>2, <2>3, <2>4, Zenon DEF good
<1>7. CASE good /\ packed
  <2>1. ss = [i \in DOMAIN line.values |-> sample(line.values[i].num)] /\ good
    BY <1>1, <1>7
  <2>2. Len(line.values) # 0
    <3>1. line.values # <<>>
      BY <1>7
    <3> QED
      BY ONLY <3>1, line.values \in Seq(V), EmptySeq
  <2> HIDE DEF good
  <2>3. /\ DOMAIN ss = 1..Len(line.values) /\ 1 \in DOMAIN ss
        /\ \A i \in DOMAIN ss : ss[i] = sample(line.values[i].num)
    BY <1>4, <2>1, <2>2
  <2>4. Len(ss) = Len(line.values) /\ ss # <<>>
    BY <1>4, <2>1, <2>2, <2>3
  <2>5. \A i \in DOMAIN ss : ss[i].value = line.values[i].num /\ ss[i].base = base
    BY <1>3, <2>3
  <2>6. ss[1].base = base
    BY <2>3, <2>5
  <2> QED
    BY <1>3, <1>7, <2>1, <2>4, <2>5, <2>6 DEF good
<1> QED
  BY <1>5, <1>6, <1>7

----------------------------------------------------------------------------
(* What is read of venti's graphs and of the systems' memory.               *)

\* venti prints an unsigned counter with %d: the sign is undone.
LEMMA DecodedPrinted ==
  ASSUME NEW W \in {Rates!Width, 32}, NEW v \in 0..2^W - 1
  PROVE  Rates!Decoded(Rates!Printed(v, W), W) = v
<1>1. W \in {3, 32}
  BY DEF Rates!Width
<1>2. CASE W = 3
  BY <1>2 DEF Rates!Decoded, Rates!Printed
<1>3. CASE W = 32
  BY <1>3 DEF Rates!Decoded, Rates!Printed
<1> QED
  BY <1>1, <1>2, <1>3

LEMMA SameMax ==
  ASSUME NEW S
  PROVE  Rates!Max(S) = Series!Max(S) /\ Gauges!Max(S) = Series!Max(S)
BY DEF Series!Max, Rates!Max, Gauges!Max

LEMMA SameLeast ==
  ASSUME NEW S
  PROVE  Gauges!Min(S) = Rates!Min(S)
BY DEF Gauges!Min, Rates!Min

\* However many bins a graph has and whatever its counter went through, of 32 bits
\* as in the code or of the runs' width, what is read is the greatest of the values
\* it had when it was sampled, and nothing of a graph without samples (parseGraphRaw).
THEOREM GraphReadBack ==
  ASSUME NEW W \in {Rates!Width, 32}, NEW B, NEW bins \in Seq(B),
         NEW x \in [DOMAIN bins -> 0..2^W - 1],
         \A i \in DOMAIN bins : bins[i].max = Rates!Printed(x[i], W),
         NEW r, r = Rates!GraphValue(bins, W),
         NEW R, R = {i \in DOMAIN bins : bins[i].nsamp > 0}
  PROVE  IF R = {} THEN r = Rates!Bad
         ELSE \E i \in R : r = x[i] /\ \A k \in R : x[k] <= r
<1> DEFINE vs == {Rates!Decoded(bins[i].max, W) : i \in R}
<1>1. r = IF vs = {} THEN Rates!Bad ELSE Rates!Max(vs)
  BY DEF Rates!GraphValue
<1>2. vs = {x[i] : i \in R}
  <2>1. \A i \in R : Rates!Decoded(bins[i].max, W) = x[i]
    BY DecodedPrinted
  <2> QED
    BY <2>1
<1> HIDE DEF vs
<1>3. CASE R = {}
  BY <1>1, <1>2, <1>3
<1>4. CASE R # {}
  <2>1. PICK n : n = 2^W - 1
    OBVIOUS
  <2>2. n \in Nat
    <3>1. CASE W = 3
      BY <2>1, <3>1
    <3>2. CASE W = 32
      <4>1. n = 2^32 - 1
        BY <2>1, <3>2, Zenon
      <4> QED
        BY ONLY <4>1
    <3> QED
      BY <3>1, <3>2 DEF Rates!Width
  <2>3. vs \subseteq 0..n /\ vs # {}
    BY <1>2, <1>4, <2>1
  <2>4. Series!Max(vs) \in vs /\ \A y \in vs : y <= Series!Max(vs)
    BY <2>2, <2>3, GreatestIs
  <2>5. r = Series!Max(vs)
    BY <1>1, <2>3, SameMax
  <2> QED
    BY <1>2, <1>4, <2>4, <2>5
<1> QED
  BY <1>3, <1>4

\* The amounts of a table's lines are counts.
Counts(lines) == \A i \in DOMAIN lines : lines[i].used \in Nat /\ lines[i].total \in Nat

LEMMA FractionType ==
  ASSUME NEW L, NEW lines \in Seq(L), Counts(lines), NEW last, NEW two
  PROVE  /\ Gauges!Fraction(lines, last, two).used \in Nat
         /\ Gauges!Fraction(lines, last, two).total \in Nat
<1> DEFINE is == {i \in DOMAIN lines :
               IF lines[i].words > 2 /\ lines[i].two \in {"kernel malloc", "kernel draw"}
               THEN lines[i].two = two ELSE lines[i].last = last}
           l == Gauges!LastLine(lines, last, two)
<1>1. l = IF is = {} THEN Gauges!Absent ELSE Gauges!Max(is)
  BY DEF Gauges!LastLine
<1>2. is \subseteq DOMAIN lines /\ DOMAIN lines \subseteq 0..Len(lines) /\ Len(lines) \in Nat
  <2>1. is \subseteq DOMAIN lines
    BY Zenon
  <2> HIDE DEF is
  <2> QED
    BY <2>1
<1> HIDE DEF is
<1>3. l = Gauges!Absent \/ l \in DOMAIN lines
  <2>1. CASE is # {}
    <3>1. Series!Max(is) \in is
      BY <1>2, <2>1, GreatestIs
    <3> QED
      BY <1>1, <1>2, <2>1, <3>1, SameMax
  <2> QED
    BY <1>1, <2>1
<1> HIDE DEF l
<1>4. Gauges!Fraction(lines, last, two)
        = IF l = Gauges!Absent THEN [used |-> 0, total |-> 0]
          ELSE [used |-> lines[l].used, total |-> lines[l].total]
  BY DEF Gauges!Fraction, l
<1> QED
  BY <1>3, <1>4 DEF Counts

\* The smaller of what there is and what is said of it, and the rest.
LEMMA CappedRest ==
  ASSUME NEW a \in Nat, NEW b \in Nat, NEW x, x = Gauges!Min({a, b})
  PROVE  x \in Nat /\ x <= b /\ a - x \in Nat /\ x + (a - x) = a /\ (b >= a => a - x = 0)
<1>1. a \in Int /\ b \in Int
  OBVIOUS
<1>2. Rates!Min({a, b}) \in {a, b} /\ Rates!Min({a, b}) <= a /\ Rates!Min({a, b}) <= b
  BY <1>1, MinOfTwo, Zenon
<1>3. x \in {a, b} /\ x <= a /\ x <= b
  BY <1>2, SameLeast, Zenon
<1> QED
  BY <1>3

\* In whatever order /dev/swap has its lines, whichever are missing or there twice,
\* and however far the kernel's count of the users' pages or of the swap's is from
\* the memory and the store there are: what is free and what is used are what there
\* is, neither less than nothing, all of it free where all the users' pages are and
\* no more than those (parseSwap, swapSeries).
THEOREM MemoryAccounted ==
  ASSUME NEW L, NEW lines \in Seq(L), Counts(lines), NEW cap \in Nat,
         NEW s, s = Gauges!parseSwap(lines), NEW g, g = Gauges!swapSeries(s, cap)
  PROVE  /\ g.free \in Nat /\ g.used \in Nat /\ g.free + g.used = s.mem
         /\ g.swapUsed \in Nat /\ g.swapFree \in Nat /\ g.swapUsed + g.swapFree = cap
         /\ g.swapUsed <= s.swap.used * s.pageSize
         /\ s.user.used <= s.user.total =>
              /\ g.free <= (s.user.total - s.user.used) * s.pageSize
              /\ (s.user.total - s.user.used) * s.pageSize >= s.mem => g.used = 0
<1>1. /\ s.mem \in Nat /\ s.pageSize \in Nat
      /\ s.user.used \in Nat /\ s.user.total \in Nat /\ s.swap.used \in Nat
  <2> DEFINE page == Gauges!Fraction(lines, "pagesize", "").used
  <2>1. page \in Nat
    BY FractionType
  <2> HIDE DEF page
  <2>2. /\ s.mem = Gauges!Fraction(lines, "memory", "").used
        /\ s.pageSize = IF page = 0 THEN 4096 ELSE page
        /\ s.user = Gauges!Fraction(lines, "user", "")
        /\ s.swap = Gauges!Fraction(lines, "swap", "")
    BY DEF Gauges!parseSwap, page
  <2>3. /\ Gauges!Fraction(lines, "memory", "").used \in Nat
        /\ Gauges!Fraction(lines, "user", "").used \in Nat
        /\ Gauges!Fraction(lines, "user", "").total \in Nat
        /\ Gauges!Fraction(lines, "swap", "").used \in Nat
    BY FractionType, Zenon
  <2>4. s.pageSize \in Nat
    <3>1. s.pageSize = IF page = 0 THEN 4096 ELSE page
      BY <2>2, Zenon
    <3> QED
      BY ONLY <2>1, <3>1
  <2> QED
    BY <2>2, <2>3, <2>4, Zenon
<1>0. PICK mem : mem = s.mem
  OBVIOUS
<1> DEFINE said == IF s.user.total >= s.user.used
                   THEN (s.user.total - s.user.used) * s.pageSize ELSE 0
           free == Gauges!Min({mem, said})
           paged == s.swap.used * s.pageSize
           swapUsed == Gauges!Min({cap, paged})
<1>2. /\ g.free = free /\ g.used = mem - free
      /\ g.swapUsed = swapUsed /\ g.swapFree = cap - swapUsed
  BY <1>0 DEF Gauges!swapSeries
<1>3. said \in Nat /\ paged \in Nat
  <2>1. \A a, b \in Nat : a * b \in Nat
    OBVIOUS
  <2>2. s.user.total >= s.user.used => s.user.total - s.user.used \in Nat
    BY <1>1
  <2> QED
    BY <1>1, <2>1, <2>2
<1>4. /\ s.user.used <= s.user.total => said = (s.user.total - s.user.used) * s.pageSize
      /\ paged = s.swap.used * s.pageSize
  BY <1>1
<1> HIDE DEF said, paged
<1>5. /\ free \in Nat /\ free <= said /\ mem - free \in Nat /\ free + (mem - free) = mem
      /\ said >= mem => mem - free = 0
  <2>1. mem \in Nat
    BY <1>0, <1>1
  <2> QED
    BY <1>3, <2>1, CappedRest
<1>6. /\ swapUsed \in Nat /\ swapUsed <= paged /\ cap - swapUsed \in Nat
      /\ swapUsed + (cap - swapUsed) = cap
  BY <1>3, CappedRest, Zenon
<1> HIDE DEF free, swapUsed
<1> QED
  BY <1>0, <1>2, <1>4, <1>5, <1>6

=============================================================================
