---------------------------- MODULE MetricSeries ----------------------------
(***************************************************************************)
(* internal/dogstatsd's lines and internal/metrics' series: how a line     *)
(* becomes samples, a check or an event, how the samples of a context      *)
(* become series, and how these are laid out in payloads.  Module          *)
(* MetricsPipeline has the buffers and the flush between the two.          *)
(*                                                                         *)
(* A line is the sequence of the words it is made of, "|" among them.  A   *)
(* number is [finite, v]; a sample rate is given by its inverse, the       *)
(* weight of a sample, 0 for a rate that is not positive or no number.     *)
(***************************************************************************)
EXTENDS Integers, Sequences, FiniteSets, FiniteSetsExt, SequencesExt

Bad == [finite |-> FALSE, v |-> 0]
Num(n) == [finite |-> TRUE, v |-> n]

----------------------------------------------------------------------------
(* parse.                                                                  *)

Pipe == "|"

\* The fields of a line between its pipes.
Fields(s) ==
  LET step(fs, w) == IF w = Pipe THEN Append(fs, <<>>)
                     ELSE [fs EXCEPT ![Len(fs)] = Append(@, w)]
  IN FoldLeft(step, <<<<>>>>, s)

Types == {"g", "c", "h", "ms", "d", "s"}

\* The options are fields [key, n]; the last of a key counts.
Option(opts, key, default, usable) ==
  LET is == {i \in DOMAIN opts : opts[i].key = key /\ opts[i].n \in usable}
  IN IF is = {} THEN default ELSE opts[Max(is)].n

\* A sample per value of a packed line, all of them or none; the member of a
\* set is one text, however many colons it has.  values are the texts between
\* the colons, <<>> without one.
parse(line) ==
  LET base == [name |-> line.name, type |-> line.type,
               weight |-> Option(line.opts, "@", 1, Nat \ {0}),
               tags |-> Option(line.opts, "#", 0, Int)]
      sample(x) == [base |-> base, value |-> x]
  IN IF line.name = "" \/ line.values = <<>> \/ line.type \notin Types THEN <<>>
     ELSE IF line.type = "s" THEN <<[base |-> base, value |-> line.values]>>
     ELSE IF \E i \in DOMAIN line.values : ~line.values[i].number THEN <<>>
     ELSE [i \in DOMAIN line.values |-> sample(line.values[i].num)]

\* Pipes between fields again.
Joined(fs) == IF fs = <<>> THEN <<>>
              ELSE FoldLeft(LAMBDA s, f : s \o <<Pipe>> \o f, fs[1], Tail(fs))

\* The fields behind "_sc|"; the message is the last of them and takes what is
\* left of the line behind a pipe, if anything is.
parseServiceCheck(line) ==
  LET fs == Fields(line)
      opts == SubSeq(fs, 3, Len(fs))
      Is(f, key) == f # <<>> /\ Head(f) = key
      ms == {i \in DOMAIN opts : Is(opts[i], "m:")}
      upto == IF ms = {} THEN Len(opts) ELSE Min(ms) - 1
      hosts == {i \in 1..upto : Is(opts[i], "h:")}
  IN IF fs[1] = <<>> \/ Len(fs) < 2 \/ fs[2] \notin {<<"0">>, <<"1">>, <<"2">>, <<"3">>} THEN {}
     ELSE {[name |-> fs[1], status |-> fs[2],
            host |-> IF hosts = {} THEN <<>> ELSE Tail(opts[Max(hosts)]),
            message |-> IF ms = {} THEN <<>>
                        ELSE LET left == Joined(SubSeq(opts, Min(ms) + 1, Len(opts)))
                             IN Tail(opts[Min(ms)])
                                  \o (IF left = <<>> THEN <<>> ELSE <<Pipe>> \o left)]}

\* The lengths before the body say where the title and the text end, whatever
\* they contain; the options behind them are fields.
parseEvent(tl, el, body) ==
  LET text == SubSeq(body, tl + 2, tl + 1 + el)
      rest == SubSeq(body, tl + 2 + el, Len(body))
      opts == Fields(IF rest # <<>> /\ Head(rest) = Pipe THEN Tail(rest) ELSE rest)
      hosts == {i \in DOMAIN opts : opts[i] # <<>> /\ Head(opts[i]) = "h:"}
  IN IF tl <= 0 \/ el < 0 \/ Len(body) < tl + 1 + el \/ body[tl + 1] # Pipe THEN {}
     ELSE {[title |-> SubSeq(body, 1, tl), text |-> text,
            host |-> IF hosts = {} THEN <<>> ELSE Tail(opts[Max(hosts)])]}

----------------------------------------------------------------------------
(* The aggregator: a context's samples are a sequence of [value, weight].  *)

\* contextKey: the order of the tags on the wire does not matter.
contextKey(name, type, tags) == <<name, type, SortSeq(tags, <)>>

\* accumulate: what of a sample is kept, if it can be put in a payload.  The
\* counter's value is scaled, a distribution is no type of this agent.
Kept(s) ==
  IF s.type \notin {"g", "c", "h", "ms"} \/ ~s.value.finite THEN {}
  ELSE {[value |-> IF s.type = "c" THEN s.value.v * Max({1, s.weight}) ELSE s.value.v,
         weight |-> Max({1, s.weight})]}

SumOf(numbers) == FoldLeft(+, 0, numbers)
Sorted(samples) == SortSeq(samples, LAMBDA a, b : a.value < b.value)
Weight(samples) == SumOf([i \in DOMAIN samples |-> samples[i].weight])

\* Mutation of weightedQuantile: the weight that reaches the target is enough.
weightedQuantileAt(sorted, num, den) ==
  LET is == {i \in DOMAIN sorted : den * Weight(SubSeq(sorted, 1, i)) >= num}
  IN sorted[IF is = {} THEN Len(sorted) ELSE Min(is)].value

\* The first sample whose cumulative weight exceeds num/den.
weightedQuantile(sorted, num, den) ==
  LET is == {i \in DOMAIN sorted : den * Weight(SubSeq(sorted, 1, i)) > num}
  IN sorted[IF is = {} THEN Len(sorted) ELSE Min(is)].value

histogramSeries(samples) ==
  LET sorted == Sorted(samples)
      count == Weight(samples)
  IN [count |-> count,
      avg |-> <<SumOf([i \in DOMAIN samples |-> samples[i].value * samples[i].weight]), count>>,
      median |-> weightedQuantile(sorted, count - 1, 2),
      max |-> Last(sorted).value,
      p95 |-> weightedQuantile(sorted, 95 * count - 1, 100)]

\* toSeries, but for the histograms: a counter is a rate of the interval, a
\* gauge the last of its samples, a set the number of its members.
toSeries(type, samples, members, interval) ==
  CASE type = "c" -> <<SumOf([i \in DOMAIN samples |-> samples[i].value]), interval>>
    [] type = "s" -> <<Cardinality(members), 1>>
    [] OTHER -> <<Last(samples).value, 1>>

----------------------------------------------------------------------------
(* Payloads.                                                               *)

\* liftDevice: the first device tag is the device, and no device tag a tag.
liftDevice(tags) ==
  LET devs == SelectSeq(tags, LAMBDA t : t.device)
  IN [tags |-> SelectSeq(tags, LAMBDA t : ~t.device),
      device |-> IF devs = <<>> THEN 0 ELSE devs[1].n]

\* MarshalSeries: a serie with a point that is no number is left out.
finitePoints(s) == \A i \in DOMAIN s.points : s.points[i].finite
MarshalSeries(series) ==
  LET upto[n \in 0..Len(series)] ==
        IF n = 0 THEN <<>>
        ELSE IF finitePoints(series[n]) THEN Append(upto[n - 1], series[n]) ELSE upto[n - 1]
  IN upto[Len(series)]

\* SendSeries: payloads of at most max series, up to the first that fails.
SendSeries(series, max, failing) ==
  LET chunks == (Len(series) + max - 1) \div max
      chunk(k) == MarshalSeries(SubSeq(series, (k - 1) * max + 1, Min({k * max, Len(series)})))
      bad == failing \cap 1..chunks
      upto == IF bad = {} THEN chunks ELSE Min(bad) - 1
  IN [k \in 1..upto |-> chunk(k)]

\* MarshalEvents: the events of each source type.
MarshalEvents(events) ==
  LET typeOf(e) == IF e.source = "" THEN "api" ELSE e.source
  IN [t \in {typeOf(events[i]) : i \in DOMAIN events} |->
        SelectSeq(events, LAMBDA e : typeOf(e) = t)]

\* flushChecks and flushEvents fill in what the line did not say.
Finalized(item, host, now) ==
  [item EXCEPT !.host = IF @ = "" THEN host ELSE @, !.ts = IF @ = 0 THEN now ELSE @]

----------------------------------------------------------------------------
(* Laws, over all small inputs.                                            *)

Lists(S, n) == UNION {[1..k -> S] : k \in 0..n}

\* A packed line gives a sample per value with the options of the line, or
\* none at all.
Values == {[number |-> b, num |-> [finite |-> b, v |-> n]] : b \in BOOLEAN, n \in 1..2}
PackedTrue ==
  \A values \in Lists(Values, 2) : \A type \in {"h", "s", "x"} :
    \A opts \in Lists([key : {"@", "c:"}, n : 0..2], 2) :
      LET line == [name |-> "m", values |-> values, type |-> type, opts |-> opts]
          ss == parse(line)
      IN /\ Len(ss) \in {0, IF type = "s" THEN 1 ELSE Len(values)}
         /\ \A i \in DOMAIN ss : ss[i].base.weight > 0
         /\ type = "h" /\ values # <<>> /\ (\A i \in DOMAIN values : values[i].number) =>
              ss # <<>> /\ \A i \in DOMAIN ss : ss[i].value = values[i].num

\* What a client says in a check's message, or in an event's title and text,
\* is what is read, pipes and all; but a message whose one pipe is its last
\* word loses it.
Words == {"a", Pipe, "h:"}
FramesTrue ==
  /\ \A message \in Lists(Words, 3) : \A host \in {<<>>, <<"a">>} :
       (\E i \in 1..Len(message) : Pipe = message[i] /\ i < Len(message)) \/ Pipe \notin ToSet(message) =>
         parseServiceCheck(<<"a", Pipe, "1", Pipe, "h:">> \o host \o <<Pipe, "m:">> \o message)
           = {[name |-> <<"a">>, status |-> <<"1">>, host |-> host, message |-> message]}
  /\ \A title \in Lists(Words, 2) : \A text \in Lists(Words, 2) : \A host \in {<<>>, <<"a">>} :
       parseEvent(Len(title), Len(text), title \o <<Pipe>> \o text \o <<Pipe, "h:">> \o host)
         = IF title = <<>> THEN {} ELSE {[title |-> title, text |-> text, host |-> host]}

\* A histogram says of its samples what it would of all those they stand for:
\* the median is the least value with half of them at or below it, the 95th
\* percentile the least with 95 in 100, and both are at most the maximum.
\* The order the samples arrive in does not matter.
RawSamples == [type : {"h"}, value : {Bad, Num(0), Num(1), Num(3)}, weight : 0..2]
HistogramTrue ==
  \A raw \in Lists(RawSamples, 3) :
    LET kept == FoldLeft(LAMBDA q, s : q \o SetToSeq(Kept(s)), <<>>, raw)
        below(v) == Weight(SelectSeq(kept, LAMBDA s : s.value <= v))
        vs == {kept[i].value : i \in DOMAIN kept}
        least(num, den) == Min({v \in vs : den * below(v) >= num * Weight(kept)})
        h == histogramSeries(kept)
    IN kept # <<>> =>
         /\ h.median = least(1, 2) /\ h.p95 = least(95, 100) /\ h.max = Max(vs)
         /\ h.avg[1] <= h.max * h.avg[2] /\ h.avg[1] >= Min(vs) * h.avg[2]
         /\ h.count = Weight(kept)
         /\ histogramSeries(Reverse(kept)) = h

\* Two samples are of one context if and only if their tags are the same,
\* in whatever order.
ContextTrue ==
  \A s, t \in Lists(1..2, 3) :
    contextKey("m", "g", s) = contextKey("m", "g", t)
      <=> \A x \in 1..2 : Len(SelectSeq(s, LAMBDA y : y = x)) = Len(SelectSeq(t, LAMBDA y : y = x))

\* A point that is no number costs its serie and no other; every other is in
\* one payload, in order, of at most max, or behind a payload that failed.
PayloadTrue ==
  \A series \in Lists([id : 1..2, points : {<<Num(1)>>, <<Bad>>}], 4) : \A max \in 1..3 :
    \A fail \in 0..2 :
      LET sent == SendSeries(series, max, {fail})
          all == FlattenSeq(sent)
      IN /\ \A k \in DOMAIN sent : Len(sent[k]) <= max
         /\ IsPrefix(all, MarshalSeries(series))
         /\ fail = 0 => all = MarshalSeries(series)

\* Every event is in one group, in order; the device of a serie is one of its
\* device tags and the others are left.
GroupsTrue ==
  /\ \A events \in Lists([source : {"", "api", "x"}, id : 1..2], 3) :
       LET g == MarshalEvents(events)
       IN /\ MapThenSumSet(LAMBDA t : Len(g[t]), DOMAIN g) = Len(events)
          /\ \A i \in DOMAIN events : \E t \in DOMAIN g : Contains(g[t], events[i])
  /\ \A tags \in Lists([device : BOOLEAN, n : 1..2], 3) :
       LET r == liftDevice(tags)
       IN (r.device # 0) <=> \E i \in DOMAIN tags : tags[i].device

SeriesTrue ==
  PackedTrue /\ FramesTrue /\ HistogramTrue /\ ContextTrue /\ PayloadTrue /\ GroupsTrue
=============================================================================
