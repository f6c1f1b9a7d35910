----------------------------- MODULE HostGauges -----------------------------
(***************************************************************************)
(* internal/host and internal/venti: the collectors that ship what they    *)
(* read at once, mostly from Plan 9's text files, and the parsers they use.*)
(* A file is the sequence of its lines, a line a record of the words the   *)
(* parser looks at; a quotient is the pair of its terms.  Of the gauges,   *)
(* those that are computed from several numbers are here, not those that   *)
(* are a number of the file in another unit.                               *)
(***************************************************************************)
EXTENDS Integers, Sequences, FiniteSets, FiniteSetsExt, SequencesExt

\* Numbers a parser does not find or cannot read.
Absent == -1

----------------------------------------------------------------------------
(* Memory: /dev/swap.                                                      *)

\* The last line with a label, where a two-word label hides the one-word one
\* it ends with.
LastLine(lines, last, two) ==
  LET is == {i \in DOMAIN lines :
               IF lines[i].words > 2 /\ lines[i].two \in {"kernel malloc", "kernel draw"}
               THEN lines[i].two = two ELSE lines[i].last = last}
  IN IF is = {} THEN Absent ELSE Max(is)

\* A "used/total" field; zeros without a line.
Fraction(lines, last, two) ==
  LET i == LastLine(lines, last, two)
  IN IF i = Absent THEN [used |-> 0, total |-> 0]
     ELSE [used |-> lines[i].used, total |-> lines[i].total]

parseSwap(lines) ==
  LET page == Fraction(lines, "pagesize", "").used
  IN [mem |-> Fraction(lines, "memory", "").used,
      pageSize |-> IF page = 0 THEN 4096 ELSE page,
      user |-> Fraction(lines, "user", ""),
      swap |-> Fraction(lines, "swap", ""),
      kmalloc |-> Fraction(lines, "", "kernel malloc"),
      kdraw |-> Fraction(lines, "", "kernel draw")]

\* Mutation of swapSeries: the pages are taken for bytes.
swapSeriesBytes(s, cap) ==
  LET free == Min({s.mem, IF s.user.total >= s.user.used
                          THEN s.user.total - s.user.used ELSE 0})
      swapUsed == Min({cap, s.swap.used})
  IN [free |-> free, used |-> s.mem - free,
      swapTotal |-> cap, swapUsed |-> swapUsed, swapFree |-> cap - swapUsed]

\* The pages of users that are not used are free, the rest of the memory is
\* used; what is used of the swap is at most its capacity, which is the size
\* of the store swap(8) has attached and not the kernel's ceiling.
swapSeries(s, cap) ==
  LET free == Min({s.mem, IF s.user.total >= s.user.used
                          THEN (s.user.total - s.user.used) * s.pageSize ELSE 0})
      swapUsed == Min({cap, s.swap.used * s.pageSize})
  IN [free |-> free, used |-> s.mem - free,
      swapTotal |-> cap, swapUsed |-> swapUsed, swapFree |-> cap - swapUsed]

\* The other systems' memory, in bytes.  memory is what the kernel says: pages
\* of pageSize, which it may not know (0), npages in all, free of them free,
\* physmem bytes in all where it says so (0 where not).
PageSize(k) == IF k.pageSize = 0 THEN 4096 ELSE k.pageSize

\* Nothing of a system whose memory is not known.
MemSeries(total, free, usable) ==
  IF total = 0 THEN {} ELSE {[total |-> total, free |-> free, used |-> total - free,
                              usable |-> usable]}

netbsdMem(k) ==
  MemSeries(IF k.physmem = 0 THEN k.npages * PageSize(k) ELSE k.physmem, k.free * PageSize(k),
            (k.free + k.inactive + k.filepages + k.execpages) * PageSize(k))
openbsdMem(k) ==
  MemSeries(k.npages * PageSize(k), k.free * PageSize(k), (k.free + k.inactive) * PageSize(k))
vmstatsMem(k) ==
  MemSeries(k.physmem, k.free * PageSize(k), (k.free + k.inactive + k.cache) * PageSize(k))
winMem(k) == MemSeries(k.physmem, k.avail, k.avail)

\* memCollector: /proc/meminfo is in kB; a line that is missing is zero, and
\* the parts are shipped even of a total that is.
parseMeminfo(lines, key) ==
  LET is == {i \in DOMAIN lines : lines[i].key = key /\ lines[i].kb # Absent}
  IN IF is = {} THEN 0 ELSE lines[Max(is)].kb
linuxMem(lines) ==
  LET kb(key) == parseMeminfo(lines, key)
  IN [total |-> kb("MemTotal"), free |-> kb("MemFree"), used |-> kb("MemTotal") - kb("MemFree"),
      usable |-> kb("MemAvailable"),
      pctUsable |-> IF kb("MemTotal") > 0 THEN {<<kb("MemAvailable"), kb("MemTotal")>>} ELSE {}]

\* swapCapacityBytes: none without a recorded path that can be looked up.
swapCapacityBytes(path, size) == IF path = "" \/ size = Absent THEN 0 ELSE size

----------------------------------------------------------------------------
(* Processes: /proc/N/status and /proc/N/segment.                          *)

procStateBucket(state) ==
  CASE state \in {"Running", "Scheding"} -> "running"
    [] state \in {"Ready", "New"} -> "ready"
    [] state \in {"Queueing", "QueueingR", "QueueingW"} -> "blocked"
    [] state = "Stopped" -> "stopped"
    [] state \in {"Moribund", "Dead"} -> "zombie"
    [] state = "Broken" -> "broken"
    [] OTHER -> "sleeping"

procStateBuckets ==
  {"running", "ready", "sleeping", "blocked", "stopped", "zombie", "broken"}

\* How many procs share the address space: the references to its Data or Bss.
procShareCount(segments) ==
  Max({1} \cup {segments[i].ref : i \in {k \in DOMAIN segments :
                                           segments[k].type \in {"Data", "Bss"}}})

\* The processes that could be read, each with its part of the shared image.
Shares(procs) ==
  [p \in {q \in DOMAIN procs : procs[q].readable} |->
     procs[p].mem \div procShareCount(procs[p].segments)]

SumOver(f, S) == MapThenSumSet(LAMBDA x : f[x], S)

\* The n programs with the most memory, by memory and then by name.
topProcsByMem(mem, name, n) ==
  LET names == {name[p] : p \in DOMAIN mem}
      entry(x) == [name |-> x, mem |-> SumOver(mem, {p \in DOMAIN mem : name[p] = x})]
      less(a, b) == a.mem > b.mem \/ (a.mem = b.mem /\ a.name < b.name)
      all == SetToSortSeq({entry(x) : x \in names}, less)
  IN SubSeq(all, 1, Min({n, Len(all)}))

\* plan9Proc.collect.
ProcSeries(procs, n) ==
  LET mem == Shares(procs)
  IN [total |-> SumOver(mem, DOMAIN mem),
      count |-> [b \in procStateBuckets |->
                   Cardinality({p \in DOMAIN mem : procStateBucket(procs[p].state) = b})],
      top |-> topProcsByMem(mem, [p \in DOMAIN mem |-> procs[p].name], n)]

----------------------------------------------------------------------------
(* TCP connections, thermal sensors, battery, the clock.                   *)

tcpConnStateNames ==
  {"listen", "syn_sent", "syn_received", "finwait1", "finwait2", "close_wait",
   "closing", "last_ack", "time_wait"}

\* plan9TCPConns: how many conversations are in each of these states.
TCPSeries(states) ==
  [n \in tcpConnStateNames |-> Cardinality({i \in DOMAIN states : states[i] = n})]

\* A sensor without a number, or with an implausible one, is skipped; the
\* sensors after it move up.
parseCputemp(temps) == SelectSeq(temps, LAMBDA t : t \in 0..150)

\* The first number of the first line, unless it says unknown.
parseBattery(words) ==
  LET numbers == SelectSeq(words, LAMBDA w : w.number)
  IN IF numbers = <<>> \/ numbers[1].value < 0 THEN Absent ELSE numbers[1].value

\* The last line that carries all three of the sample's numbers.
parseTimesync(lines) ==
  LET complete == {i \in DOMAIN lines : lines[i].keys = {"offset", "avg", "hz"}}
  IN IF complete = {} THEN Absent ELSE lines[Max(complete)].sample

\* readTail: the last n bytes of a file of that size at most.
TailOffset(size, n) == IF size > n THEN size - n ELSE 0

----------------------------------------------------------------------------
(* Filesystems: /proc/mounts and statfs; venti's /storage page.            *)

\* fsCollector.collect, a step per line of the mount table: a device is
\* reported for its first mount that is a real filesystem and answers.
Mounts(lines) ==
  LET real(i) == ~lines[i].pseudo /\ lines[i].answers /\ lines[i].blocks > 0
  IN {i \in DOMAIN lines :
        real(i) /\ \A k \in 1..i - 1 : real(k) => lines[k].dev # lines[i].dev}

\* used/(used+free), the reserve of the superuser left out.
InUse(m) ==
  LET used == m.blocks - m.bfree IN <<used, used + m.bavail>>

\* Past the superuser's reserve the blocks available are negative.
blocksAvail(v) == IF v < 0 THEN 0 ELSE v

\* bsdDiskSeries: the first mount of a device that is not synthetic and has
\* blocks.
bsdDiskSeries(mounts) ==
  LET real(i) == mounts[i].blocks # 0 /\ ~mounts[i].pseudo
  IN {[dev |-> mounts[i].dev, total |-> mounts[i].blocks * mounts[i].bsize,
       used |-> (mounts[i].blocks - mounts[i].bfree) * mounts[i].bsize,
       free |-> mounts[i].bavail * mounts[i].bsize] :
        i \in {k \in DOMAIN mounts :
                 real(k) /\ \A l \in 1..k - 1 : real(l) => mounts[l].dev # mounts[k].dev}}

\* What the systems list becomes those mounts: OpenBSD, and FreeBSD and
\* DragonFly in unixDisk, clamp the blocks available; NetBSD counts in
\* fragments when it has them and its count is never negative.
openbsdDisk(stats) ==
  bsdDiskSeries([i \in DOMAIN stats |-> [stats[i] EXCEPT !.bavail = blocksAvail(@)]])
unixDisk(stats) ==
  bsdDiskSeries([i \in DOMAIN stats |-> [stats[i] EXCEPT !.bavail = blocksAvail(@)]])
netbsdDisk(stats) ==
  bsdDiskSeries([i \in DOMAIN stats |->
    [stats[i] EXCEPT !.bsize = IF stats[i].frsize = 0 THEN @ ELSE stats[i].frsize]])

\* winDisk: the drives of the mask whose space can be asked for; no reserve.
winDisk(drives) ==
  {[dev |-> d, total |-> drives[d].total, used |-> drives[d].total - drives[d].free,
    free |-> drives[d].free] :
     d \in {e \in DOMAIN drives : drives[e].mounted /\ drives[e].answers
                                 /\ drives[e].total # 0}}

\* parseVentiStorage: the token "clumps=" or "data=" after "compressed" is
\* another counter.  A later token of the same key wins.
VentiStorage(tokens, key, compressed) ==
  LET is == {i \in DOMAIN tokens : /\ tokens[i].key = key
                                   /\ (tokens[i].after = "compressed") = compressed}
  IN IF is = {} THEN 0 ELSE tokens[Max(is)].n

\* Reporter.send: a venti that does not answer is down and nothing else is
\* said of it; storageSeries only for one with space.
VentiSeries(answers, tokens) ==
  LET total == VentiStorage(tokens, "space", FALSE)
      used == VentiStorage(tokens, "used", FALSE)
      data == VentiStorage(tokens, "data", FALSE)
      packed == VentiStorage(tokens, "data", TRUE)
  IN [up |-> answers,
      space |-> IF answers /\ total > 0
                THEN {[total |-> total, used |-> used,
                       free |-> IF total >= used THEN total - used ELSE 0]}
                ELSE {},
      ratio |-> IF answers /\ total > 0 /\ packed > 0 THEN {<<data, packed>>} ELSE {}]

----------------------------------------------------------------------------
(* Laws, over all small inputs.                                            *)

SwapLines ==
  {[words |-> 2, two |-> "", last |-> l, used |-> u, total |-> 2] :
     l \in {"memory", "pagesize", "user", "swap"}, u \in 1..3}
  \cup {[words |-> 3, two |-> "kernel malloc", last |-> "malloc", used |-> 3, total |-> 3]}

\* What is free and what is used of the memory, and of the swap, add up to
\* what there is, whatever order and units the kernel reports them in: with
\* all the users' pages free the whole memory is.
MemoryAddsUp ==
  \A lines \in UNION {[1..n -> SwapLines] : n \in 0..3} : \A cap \in {0, 3} :
    LET s == parseSwap(lines)
        g == swapSeries(s, cap)
    IN /\ g.free >= 0 /\ g.used >= 0 /\ g.free + g.used = s.mem
       /\ g.swapUsed >= 0 /\ g.swapFree >= 0 /\ g.swapUsed + g.swapFree = cap
       /\ (s.user.total - s.user.used) * s.pageSize >= s.mem => g.used = 0

ProcNames == {1, 2}
SampleProcs ==
  {[readable |-> r, name |-> n, state |-> st, mem |-> 6,
    segments |-> <<[type |-> "Text", ref |-> 3], [type |-> "Data", ref |-> k]>>] :
     r \in BOOLEAN, n \in ProcNames, st \in {"Running", "Fault"}, k \in 1..3}

\* Every process that could be read is counted in one state and once in the
\* memory, which n procs that share an image make up together; the programs
\* shipped are the largest, the largest first.
ProcessesAddUp ==
  \A procs \in UNION {[1..n -> SampleProcs] : n \in 0..3} :
    LET readable == {p \in DOMAIN procs : procs[p].readable}
        r == ProcSeries(procs, 1)
        all == ProcSeries(procs, 2)
    IN /\ SumOver(r.count, procStateBuckets) = Cardinality(readable)
       /\ r.total = MapThenSumSet(LAMBDA p : 6 \div procs[p].segments[2].ref, readable)
       /\ r.total = FoldLeft(LAMBDA sum, e : sum + e.mem, 0, all.top)
       /\ \A i \in DOMAIN all.top : all.top[i].mem <= r.top[1].mem

SampleMounts ==
  {[dev |-> d, pseudo |-> p, answers |-> a, blocks |-> b, bfree |-> 1, bavail |-> v] :
     d \in {1, 2}, p \in BOOLEAN, a \in BOOLEAN, b \in {0, 2}, v \in {0, 1}}

\* A device is reported exactly once if any mount of it can be, and never more
\* than full.
DevicesOnce ==
  \A lines \in UNION {[1..n -> SampleMounts] : n \in 0..2} :
    LET ms == Mounts(lines)
        usable == {i \in DOMAIN lines : ~lines[i].pseudo /\ lines[i].answers /\ lines[i].blocks > 0}
    IN /\ {lines[i].dev : i \in ms} = {lines[i].dev : i \in usable}
       /\ \A i, k \in ms : lines[i].dev = lines[k].dev => i = k
       /\ \A i \in ms : LET u == InUse(lines[i]) IN 0 <= u[1] /\ u[1] <= u[2]

SampleStats ==
  {[dev |-> d, pseudo |-> p, blocks |-> b, bfree |-> 1, bavail |-> v, bsize |-> 2, frsize |-> f] :
     d \in {1, 2}, p \in BOOLEAN, b \in {0, 3}, v \in {-1, 0, 1}, f \in {0, 1}}

\* The space of a disk is the used, the free and the superuser's reserve, also
\* of one filled past it, and a device has one set of series.
DiskAddsUp(out) ==
  /\ \A s \in out : s.used >= 0 /\ s.free >= 0 /\ s.used + s.free <= s.total
  /\ Cardinality({s.dev : s \in out}) = Cardinality(out)

SpaceAddsUp ==
  /\ \A stats \in UNION {[1..n -> SampleStats] : n \in 0..2} :
       /\ DiskAddsUp(openbsdDisk(stats)) /\ unixDisk(stats) = openbsdDisk(stats)
       /\ (\A i \in DOMAIN stats : stats[i].bavail >= 0) => DiskAddsUp(netbsdDisk(stats))
  /\ \A drives \in [{"C", "D"} -> [mounted : BOOLEAN, answers : BOOLEAN, total : {0, 2},
                                   free : 0..2]] :
       (\A d \in DOMAIN drives : drives[d].free <= drives[d].total) => DiskAddsUp(winDisk(drives))

\* The same of the memory, where what is usable is at least what is free.
PagesAddUp ==
  /\ \A k \in [pageSize : {0, 2}, npages : {0, 4}, free : 0..2, inactive : 0..1, cache : 0..1,
               filepages : 0..1, execpages : {0}, physmem : {0, 16384}, avail : {0, 8192}] :
       \A g \in netbsdMem(k) \cup openbsdMem(k) \cup vmstatsMem(k) \cup winMem(k) :
         g.free >= 0 /\ g.used >= 0 /\ g.free + g.used = g.total /\ g.usable >= g.free
  /\ \A lines \in UNION {[1..n -> [key : {"MemTotal", "MemAvailable"}, kb : {Absent, 4, 5}]] :
                        n \in 0..2} :
       LET g == linuxMem(lines)
       IN g.total = g.free + g.used /\ \A r \in g.pctUsable : r[2] > 0

GaugesTrue == MemoryAddsUp /\ PagesAddUp /\ SpaceAddsUp /\ ProcessesAddUp /\ DevicesOnce
=============================================================================
