------------------------------ MODULE HostRates ------------------------------
(***************************************************************************)
(* internal/host and internal/venti: the collectors that turn cumulative   *)
(* counters into rates by diffing two reads.  Each keeps its last good     *)
(* read and its time; a counter may be reset, a device may come and go, a  *)
(* read may fail, and venti's counters wrap.                               *)
(*                                                                         *)
(* A read says whether it went well and what it read: a function from the  *)
(* devices (or the one Host) to functions from counter names to values.  A *)
(* serie is the difference it divides and what it is divided by, so that   *)
(* no number is rounded.                                                   *)
(***************************************************************************)
EXTENDS Integers, Sequences, FiniteSets, FiniteSetsExt, SequencesExt, TLC

Host == "host"

\* The collectors that ship one rate per counter, those of the disks (Linux,
\* FreeBSD, DragonFly, OpenBSD and NetBSD) and those of the processors (Linux,
\* the BSDs, Windows).
PlainKinds == {"net", "plan9cpu", "plan9net", "netproto", "nettables", "ifstats", "venti"}
DiskKinds == {"io", "devstat", "devstatdf", "bsdio"}
CPUKinds == {"cpu", "bsdcpu", "wincpu"}
Kinds == PlainKinds \cup DiskKinds \cup CPUKinds

\* The total of a counter over several of them that a read may lack.
Total(c, fs) == MapThenSumSet(LAMBDA f : IF f \in DOMAIN c THEN c[f] ELSE 0, fs)

----------------------------------------------------------------------------
(* What each collector reads, out of the lines of its files.  A line is    *)
(* its label and its value, Bad when that is not a number.                *)

Bad == -1

\* Of the labels wanted, the numbers, the last of one label.
Labelled(lines, wanted) ==
  LET good == {i \in DOMAIN lines : lines[i].value # Bad /\ lines[i].label \in wanted}
  IN [l \in {lines[i].label : i \in good} |->
        lines[Max({i \in good : lines[i].label = l})].value]

parseNetStats(lines, labels) == Labelled(lines, labels)
parseIfstats(lines) ==
  Labelled(lines, {lines[i].label : i \in DOMAIN lines} \ {"", "Signal"})

ErrorCounters ==
  {"crc errs", "overflows", "soft overflows", "framing errs", "buffer errs", "output errs"}
parseEtherStats(lines) == Labelled(lines, {"in", "out"} \cup ErrorCounters)

\* The packets, when they are there, and errTotal, which is a number whether or
\* not the driver reports errors.
EtherCounters(c) ==
  [f \in (DOMAIN c \cap {"in", "out"}) \cup {"errs"} |->
     IF f = "errs" THEN Total(c, ErrorCounters) ELSE c[f]]

\* The rows of /dev/sysstat, one per core, added up.
sumSysstat(rows) ==
  [f \in DOMAIN rows[1] |-> MapThenSumSet(LAMBDA i : rows[i][f], DOMAIN rows)]

\* The counters of the BSDs and of Windows have this many bits (64 in the code),
\* venti's too (32).
Width == 3

\* venti prints a counter of W bits with %d; parseGraphRaw undoes the sign.
Printed(v, W) == IF v < 2^(W - 1) THEN v ELSE v - 2^W
Decoded(n, W) == IF n < 0 THEN n + 2^W ELSE n

\* parseGraphRaw: the largest of the bins that carry a sample, if any.
GraphValue(bins, W) ==
  LET vs == {Decoded(bins[i].max, W) : i \in {k \in DOMAIN bins : bins[k].nsamp > 0}}
  IN IF vs = {} THEN Bad ELSE Max(vs)

\* The BSDs' blobs are arrays of records, of which collect keeps the last of a
\* name.
ByName(recs, kept) ==
  [n \in {recs[i].name : i \in kept} |->
     recs[Max({i \in kept : recs[i].name = n})].counters]

\* parseDevstat and parseDevstatDF: a device is its driver and its unit.
parseDevstat(recs) ==
  ByName([i \in DOMAIN recs |-> [name |-> <<recs[i].name, recs[i].unit>>,
                                 counters |-> recs[i].counters]], DOMAIN recs)
parseDevstatDF(recs) == parseDevstat(recs)

\* OpenBSD's records may lack a name; NetBSD's are also of tapes and mounts.
parseOpenBSDDiskstats(recs) == ByName(recs, {i \in DOMAIN recs : recs[i].name # ""})
parseNetBSDIostats(recs) ==
  ByName(recs, {i \in DOMAIN recs : recs[i].disk /\ recs[i].name # ""})

----------------------------------------------------------------------------
(* A read: whether the collector goes on with it, and its counters.  In the *)
(* collectors of several files, files maps those that could be read to      *)
(* their lines.                                                             *)

NoRead == [dev \in {} |-> 0]
FailedRead == [ok |-> FALSE, devs |-> NoRead]
GoodRead(devs) == [ok |-> TRUE, devs |-> devs]

plan9CPU(rows) == IF rows = <<>> THEN FailedRead ELSE GoodRead(Host :> sumSysstat(rows))

plan9Net(files) == GoodRead([f \in DOMAIN files |-> EtherCounters(parseEtherStats(files[f]))])

\* The files of the protocols: one that cannot be read loses its baseline.
plan9NetProto(files, labels) == GoodRead([f \in DOMAIN files |-> parseNetStats(files[f], labels)])

\* The headers of the interfaces' status files, of which one may name no
\* device and the null medium is skipped.
plan9NetTables(headers) ==
  GoodRead(ByName(headers, {i \in DOMAIN headers : headers[i].name \notin {"", "null"}}))

\* An interface without a number in its file is none.
plan9Ifstats(files) ==
  GoodRead([f \in {g \in DOMAIN files : DOMAIN parseIfstats(files[g]) # {}} |->
              parseIfstats(files[f])])

\* graphSeries: the counters whose /graph answers and has samples.
graphSeries(graphs) ==
  GoodRead(Host :> [f \in {g \in DOMAIN graphs : GraphValue(graphs[g], Width) # Bad} |->
                      GraphValue(graphs[f], Width)])

----------------------------------------------------------------------------
(* The series of one device over an interval.                              *)

Serie(name, dev, num, den) == [name |-> name, dev |-> dev, num |-> num, den |-> den]
nonneg(n) == IF n < 0 THEN 0 ELSE n

\* Mutation of PlainSeries: a counter that was reset is diffed like another.
PlainSeriesAnyway(dev, c, p, dt) ==
  {Serie(f, dev, c[f] - p[f], dt) : f \in DOMAIN c \cap DOMAIN p}

\* A rate per counter both reads have; a counter that went down was reset.
PlainSeries(dev, c, p, dt) ==
  {Serie(f, dev, c[f] - p[f], dt) : f \in {g \in DOMAIN c \cap DOMAIN p : c[g] >= p[g]}}

\* diskIOSeries: nothing at all when the reads or the writes went down; the
\* counters of milliseconds, and of merges, wrap and are clamped.
diskIOSeries(dev, c, p, dt) ==
  LET d(f) == c[f] - p[f]
      ops == d("reads") + d("writes")
  IN IF d("reads") < 0 \/ d("writes") < 0 THEN {}
     ELSE {Serie(f, dev, d(f), dt) : f \in {"reads", "writes"}}
       \cup {Serie(f, dev, nonneg(d(f)), dt) : f \in {"readsMerged", "writesMerged"}}
       \cup {Serie(f, dev, d(f), 2 * dt) : f \in {"sectorsRead", "sectorsWritten"}}
       \cup {Serie("avg_q_sz", dev, nonneg(d("weightedMsIo")), 1000 * dt),
             Serie("util", dev, Min({nonneg(d("msIo")), 1000 * dt}), 1000 * dt)}
       \cup (IF ops > 0
             THEN {Serie("await", dev, nonneg(d("msReading")) + nonneg(d("msWriting")), ops),
                   Serie("avg_rq_sz", dev, d("sectorsRead") + d("sectorsWritten"), ops)}
             ELSE {})
       \cup (IF d("reads") > 0
             THEN {Serie("r_await", dev, nonneg(d("msReading")), d("reads"))} ELSE {})
       \cup (IF d("writes") > 0
             THEN {Serie("w_await", dev, nonneg(d("msWriting")), d("writes"))} ELSE {})

\* devstatDFSeries: nothing at all when the reads or the writes went down.
devstatDFSeries(dev, c, p, dt) ==
  LET d(f) == c[f] - p[f]
  IN IF d("reads") < 0 \/ d("writes") < 0 THEN {}
     ELSE {Serie(f, dev, d(f), dt) : f \in {"reads", "writes"}}
       \cup {Serie(f, dev, nonneg(d(f)), dt) : f \in {"readBytes", "writeBytes"}}

\* bsdIOSeries: the same and the busy time, capped.
bsdIOSeries(dev, c, p, dt) ==
  LET rates == devstatDFSeries(dev, c, p, dt)
  IN IF rates = {} THEN {}
     ELSE rates \cup {Serie("util", dev, Min({nonneg(c["busy"] - p["busy"]), dt}), dt)}

\* devstatSeries: the same and how long an operation took.
devstatSeries(dev, c, p, dt) ==
  LET rates == bsdIOSeries(dev, c, p, dt)
      d(f) == nonneg(c[f] - p[f])
      per(name, dur, ops) == IF ops > 0 THEN {Serie(name, dev, 1000 * dur, ops)} ELSE {}
  IN IF rates = {} THEN {}
     ELSE rates \cup per("await", d("readDur") + d("writeDur"), d("reads") + d("writes"))
                \cup per("r_await", d("readDur"), d("reads"))
                \cup per("w_await", d("writeDur"), d("writes"))

\* cpuTimes.total: guest time is already in user.
CPUTimes == {"user", "nice", "system", "idle", "iowait", "irq", "softirq", "steal"}

\* cpuCollector: shares of the time that passed on the counters themselves.
CPUSeries(c, p) ==
  LET d(fs) == Total(c, fs) - Total(p, fs)
      dt == d(CPUTimes)
  IN IF dt <= 0 THEN {}
     ELSE {Serie("user", Host, d({"user", "nice"}), dt),
           Serie("system", Host, d({"system", "irq", "softirq"}), dt),
           Serie("iowait", Host, d({"iowait"}), dt),
           Serie("idle", Host, d({"idle"}), dt),
           Serie("stolen", Host, d({"steal"}), dt),
           Serie("guest", Host, d({"guest"}), dt)}

Diff(c, p) == (c - p) % 2^Width

\* bsdCPU: the states are user, nice, those of the system, and idle, of which
\* there are more on OpenBSD.
BSDCPUSeries(c, p) ==
  LET n == Len(c)
      d(I) == MapThenSumSet(LAMBDA i : Diff(c[i], p[i]), I) % 2^Width
      dt == d(1..n)
  IN IF Len(p) # n \/ dt = 0 THEN {}
     ELSE {Serie("user", Host, d({1, 2}), dt), Serie("system", Host, d(3..n - 1), dt),
           Serie("idle", Host, d({n}), dt)}

\* winCPU: the time of the kernel includes the idle time.
WinCPUSeries(c, p) ==
  LET d(f) == Diff(c[f], p[f])
      dt == (d("kernel") + d("user")) % 2^Width
  IN IF dt = 0 THEN {}
     ELSE {Serie("user", Host, d("user"), dt),
           Serie("system", Host, Diff(d("kernel"), d("idle")), dt),
           Serie("idle", Host, d("idle"), dt)}

DeviceSeries(kind, dev, c, p, dt) ==
  CASE kind = "io" -> diskIOSeries(dev, c, p, dt)
    [] kind = "devstat" -> devstatSeries(dev, c, p, dt)
    [] kind = "devstatdf" -> devstatDFSeries(dev, c, p, dt)
    [] kind = "bsdio" -> bsdIOSeries(dev, c, p, dt)
    [] kind = "cpu" -> CPUSeries(c, p)
    [] kind = "bsdcpu" -> BSDCPUSeries(c, p)
    [] kind = "wincpu" -> WinCPUSeries(c, p)
    [] OTHER -> PlainSeries(dev, c, p, dt)

----------------------------------------------------------------------------
(* One collect.  A collector's state is its last good read, NoRead before  *)
(* the first, and the time of it.                                          *)

New == [prev |-> NoRead, ts |-> 0]

\* A read that fails changes nothing; a device that is missing from a good
\* one loses its baseline.
Collect(kind, st, now, read) ==
  IF ~read.ok THEN [st |-> st, out |-> {}]
  ELSE [st |-> [prev |-> read.devs, ts |-> now],
        out |-> IF kind \notin CPUKinds /\ now <= st.ts THEN {}
                ELSE UNION {DeviceSeries(kind, dev, read.devs[dev], st.prev[dev], now - st.ts) :
                              dev \in DOMAIN read.devs \cap DOMAIN st.prev}]

\* Collector.Collect: the series of the sub-collectors that did not fail.
CollectAll(subs, now, reads) ==
  UNION {Collect(k, subs[k], now, reads[k]).out : k \in DOMAIN subs}

\* The state after the reads of a history, one every second from time 1 on.
StateAfter(kind, reads) ==
  LET f[n \in 0..Len(reads)] ==
        IF n = 0 THEN New ELSE Collect(kind, f[n - 1], n, reads[n]).st
  IN f[Len(reads)]

----------------------------------------------------------------------------
(* Laws, over every history of a few intervals.  In an interval a counter  *)
(* counts n events, of which the last k come after a reset if there is     *)
(* one; then it is read, unless the device is away or the file unreadable. *)

MaxCount == 2
Step == [n : 0..MaxCount, k : -1..MaxCount, seen : {"read", "away", "failed"}]
LegalStep == {s \in Step : s.k <= s.n}
Histories == UNION {[1..len -> LegalStep] : len \in 1..3}

\* The counter after interval n of history h.
Counter(h, n) ==
  LET f[i \in 0..n] ==
        IF i = 0 THEN 1 ELSE IF h[i].k >= 0 THEN h[i].k ELSE f[i - 1] + h[i].n
  IN f[n]

\* The names of the counters that a collector of this kind ships.
CountersOf(kind) ==
  CASE kind = "io" -> {"reads", "writes", "sectorsRead", "sectorsWritten", "readsMerged",
                       "writesMerged", "msReading", "msWriting", "msIo", "weightedMsIo"}
    [] kind \in DiskKinds -> {"reads", "writes", "readBytes", "writeBytes", "readDur",
                              "writeDur", "busy"}
    [] kind = "plan9net" -> {"in", "overflows", "crc errs"}
    [] OTHER -> {"a"}

\* Those of a disk that go down without a reset of the others.
Narrow == {"readsMerged", "writesMerged", "msReading", "msWriting", "msIo", "weightedMsIo",
           "readBytes", "writeBytes", "readDur", "writeDur", "busy"}

\* What a collector of this kind reads, out of files or a blob that hold other
\* lines and records too.
Read(kind, seen, v) ==
  LET c == [f \in CountersOf(kind) |-> IF f \in Narrow THEN 5 * (v % 3) ELSE v]
      here == seen = "read"
      rec == [name |-> "sd", unit |-> 0, disk |-> TRUE, counters |-> c]
      recs == IF here THEN <<rec, [rec EXCEPT !.name = ""],
                            [rec EXCEPT !.name = "tape", !.disk = FALSE]>> ELSE <<>>
      lines == SetToSeq({[label |-> l, value |-> c[l]] : l \in DOMAIN c}
                        \cup {[label |-> "Signal", value |-> 0],
                              [label |-> "mac", value |-> Bad]})
      files == IF here THEN Host :> lines ELSE NoRead
  IN CASE kind = "netproto" -> plan9NetProto(files, DOMAIN c)
       [] kind = "nettables" -> plan9NetTables(recs)
       [] kind = "venti" ->
            graphSeries("a" :> <<[nsamp |-> 0, max |-> 7],
                                 [nsamp |-> IF here THEN 1 ELSE 0, max |-> Printed(v, Width)]>>)
       [] kind = "plan9cpu" ->
            plan9CPU(IF here THEN <<c, [f \in DOMAIN c |-> 0]>> ELSE <<>>)
       [] seen = "failed" -> FailedRead
       [] kind = "plan9net" -> plan9Net(files)
       [] kind = "ifstats" -> plan9Ifstats(files)
       [] kind = "devstat" -> GoodRead(parseDevstat(recs))
       [] kind = "devstatdf" -> GoodRead(parseDevstatDF(recs))
       [] kind = "bsdio" -> GoodRead(parseOpenBSDDiskstats(recs) @@ parseNetBSDIostats(recs))
       [] OTHER -> GoodRead(IF here THEN Host :> c ELSE NoRead)

ReadAt(kind, h, n) == Read(kind, h[n].seen, Counter(h, n))

\* How many events each counted: two of plan9net's counters are one rate.
Weight(kind, s) == IF kind = "plan9net" /\ s.name = "errs" THEN 2 ELSE 1

\* A rate that is shipped counts what happened since the last good read, over
\* the time since that read: never more than happened, never less than
\* nothing, and exactly what happened when no counter was reset ("skip counter
\* resets", the collectors' comments).
RatesTrue ==
  \A kind \in PlainKinds : \A h \in Histories :
    LET now == Len(h)
        reads == [n \in 1..now |-> ReadAt(kind, h, n)]
        good == {n \in 1..now - 1 : reads[n].ok}
        base == Max({0} \cup good)
        out == Collect(kind, StateAfter(kind, SubSeq(reads, 1, now - 1)), now, reads[now]).out
        happened == MapThenSumSet(LAMBDA n : h[n].n, base + 1..now)
        reset == \E n \in base + 1..now : h[n].k >= 0
    IN /\ \A s \in out :
            /\ s.den = now - base
            /\ 0 <= s.num /\ s.num <= Weight(kind, s) * happened
            /\ ~reset => s.num = Weight(kind, s) * happened
       /\ base > 0 /\ h[base].seen = "read" /\ h[now].seen = "read" /\ ~reset => out # {}

\* Whatever the counters do, no disk ships a negative rate or is busy for more
\* than all of the time, and the shares of the processor's time add up to all
\* of it.  Across a wrap of their counters the BSDs' and Windows' shares are
\* still what was spent.
SharesAddUp ==
  /\ \A kind \in DiskKinds : \A h \in Histories :
       LET now == Len(h)
           reads == [n \in 1..now |-> ReadAt(kind, h, n)]
           st == StateAfter(kind, SubSeq(reads, 1, now - 1))
       IN \A s \in Collect(kind, st, now, reads[now]).out :
            0 <= s.num /\ (s.name = "util" => s.num <= s.den)
  /\ \A c, p \in [CPUTimes -> 0..1] :
       LET out == {s \in CPUSeries(c, p) : s.name # "guest"}
       IN out = {} \/ \A t \in out : MapThenSumSet(LAMBDA s : s.num, out) = t.den
  /\ \A n \in {5, 6} : \A p \in {[i \in 1..n |-> 0], [i \in 1..n |-> 2^Width - 1]} :
       \A g \in [1..n -> 0..1] \ {[i \in 1..n |-> 0]} :
         BSDCPUSeries([i \in 1..n |-> (p[i] + g[i]) % 2^Width], p) =
           LET dt == MapThenSumSet(LAMBDA i : g[i], 1..n)
           IN {Serie("user", Host, g[1] + g[2], dt), Serie("idle", Host, g[n], dt),
               Serie("system", Host, dt - g[1] - g[2] - g[n], dt)}
  /\ \A p \in [{"idle", "kernel", "user"} -> {0, 2^Width - 1}] :
       \A busy, idle, user \in 0..2 :
         LET c == [f \in DOMAIN p |->
                     Diff(p[f], -(CASE f = "idle" -> idle [] f = "user" -> user
                                    [] f = "kernel" -> busy + idle))]
             dt == busy + idle + user
         IN WinCPUSeries(c, p) =
              IF dt = 0 THEN {}
              ELSE {Serie("user", Host, user, dt), Serie("system", Host, busy, dt),
                    Serie("idle", Host, idle, dt)}

\* venti's counter as /graph reports it over a window of two samples: the
\* value itself, unless it has just wrapped; never one it did not have.
GraphTrue ==
  \A v \in 0..2^Width - 1 : \A n \in 0..MaxCount : \A empty \in BOOLEAN :
    LET w == (v + n) % 2^Width
        bin(x, k) == [nsamp |-> k, max |-> Printed(x, Width)]
        bins == <<bin(v, IF empty THEN 0 ELSE 1), bin(w, 1), bin(2^Width - 1, 0)>>
        r == GraphValue(bins, Width)
    IN r \in {v, w} /\ (empty \/ w >= v => r = w)

\* The three together, for the module that runs them.
CollectorsTrue == RatesTrue /\ SharesAddUp /\ GraphTrue
==============================================================================
