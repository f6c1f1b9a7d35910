---------------------------- MODULE ProcessTable ----------------------------
(***************************************************************************)
(* internal/process: how each system's collector makes the processes out   *)
(* of what its kernel says.  A struct is the sequence of the numbers that  *)
(* are read of it, a line the sequence of its words; a file that cannot be *)
(* read is empty.  Of the fields that are copied as they are, a few stand  *)
(* for the others.                                                         *)
(***************************************************************************)
EXTENDS Integers, Sequences, FiniteSets, FiniteSetsExt, SequencesExt

\* A number that there is not.
Absent == -1

----------------------------------------------------------------------------
(* The states of processes, by the names the kernels give them.            *)

linuxState(c) ==
  CASE c = "R" -> "R" [] c \in {"S", "I"} -> "S" [] c = "D" -> "D" [] c \in {"T", "t"} -> "T"
    [] c = "Z" -> "Z" [] c \in {"X", "x"} -> "X" [] c = "W" -> "W" [] OTHER -> "U"
freebsdState(st) ==
  CASE st = "RUN" -> "R" [] st \in {"SLEEP", "WAIT"} -> "S" [] st = "STOP" -> "T"
    [] st = "ZOMB" -> "Z" [] st \in {"LOCK", "IDL"} -> "D" [] OTHER -> "U"
openbsdState(st) ==
  CASE st \in {"RUN", "ONPROC"} -> "R" [] st = "SLEEP" -> "S" [] st = "STOP" -> "T"
    [] st = "ZOMB" -> "Z" [] st = "DEAD" -> "X" [] st = "IDL" -> "D" [] OTHER -> "U"
netbsdState(st) == openbsdState(IF st = "SUSPENDED" THEN "STOP" ELSE st)
dragonflyState(st, lwp) ==
  CASE st = "IDL" -> "D" [] st = "STOP" -> "T" [] st = "ZOMB" -> "Z" [] st = "CORE" -> "R"
    [] st = "ACTIVE" -> (CASE lwp = "RUN" -> "R" [] lwp = "STOP" -> "T" [] OTHER -> "S")
    [] OTHER -> "U"
psState(c) ==
  CASE c = "" -> "U" [] c = "R" -> "R" [] c = "T" -> "T" [] c = "U" -> "D" [] c = "Z" -> "Z" [] OTHER -> "S"
plan9State(s) ==
  CASE s \in {"Running", "Ready", "Scheding", "New"} -> "R" [] s = "Stopped" -> "T"
    [] s \in {"Moribund", "Dead"} -> "Z" [] s = "Broken" -> "X" [] OTHER -> "S"

----------------------------------------------------------------------------
(* Linux: /proc.                                                           *)

\* Mutation of parseStat: the name ends at the first ")".
parseStatFirst(line) ==
  LET open == {i \in DOMAIN line : line[i].ch = "("}
      close == {i \in DOMAIN line : line[i].ch = ")"}
      f == SelectSeq(SubSeq(line, Min(close) + 1, Len(line)), LAMBDA w : w.ch # " ")
  IN IF open = {} \/ close = {} \/ Min(close) < Min(open) \/ Len(f) < 22 THEN [ok |-> FALSE]
     ELSE [ok |-> TRUE, comm |-> SubSeq(line, Min(open) + 1, Min(close) - 1), state |-> f[1].ch,
           ppid |-> f[2].n, utime |-> f[12].n, stime |-> f[13].n, threads |-> f[18].n,
           starttime |-> f[20].n, vsize |-> f[21].n, rssPages |-> f[22].n]

\* The name is between the first "(" and the last ")", the fields after it.
parseStat(line) ==
  LET open == {i \in DOMAIN line : line[i].ch = "("}
      close == {i \in DOMAIN line : line[i].ch = ")"}
      f == SelectSeq(SubSeq(line, Max(close) + 1, Len(line)), LAMBDA w : w.ch # " ")
  IN IF open = {} \/ close = {} \/ Max(close) < Min(open) \/ Len(f) < 22 THEN [ok |-> FALSE]
     ELSE [ok |-> TRUE, comm |-> SubSeq(line, Min(open) + 1, Max(close) - 1), state |-> f[1].ch,
           ppid |-> f[2].n, utime |-> f[12].n, stime |-> f[13].n, threads |-> f[18].n,
           starttime |-> f[20].n, vsize |-> f[21].n, rssPages |-> f[22].n]

\* The last line with a key; 0 without.
Status(lines, key) ==
  LET is == {i \in DOMAIN lines : lines[i].key = key}
  IN IF is = {} THEN 0 ELSE lines[Max(is)].val

\* files has what can be read of a process; CreateTime is in ms, a tick 10 ms.
readProc(pid, btime, pagesize, files) ==
  LET st == parseStat(files.stat)
      s(key) == Status(files.status, key)
      args == SelectSeq(files.cmdline, LAMBDA a : a # "")
  IN IF ~st.ok THEN {}
     ELSE {[pid |-> pid, name |-> st.comm, state |-> linuxState(st.state),
            create |-> IF btime > 0 THEN btime * 1000 + st.starttime * 10 ELSE 0,
            uid |-> s("Uid"),
            rss |-> IF s("VmRSS") > 0 THEN s("VmRSS") * 1024 ELSE st.rssPages * pagesize,
            vms |-> IF s("VmSize") > 0 THEN s("VmSize") * 1024 ELSE st.vsize,
            threads |-> IF s("Threads") > 0 THEN s("Threads") ELSE st.threads,
            args |-> args, exe |-> IF args = <<>> THEN "" ELSE args[1],
            readBytes |-> Status(files.io, "read_bytes"), openFd |-> Cardinality(files.fd)]}

\* The processes of the entries of /proc, those gone since left out.
collectLinux(entries, btime, pagesize, files) ==
  UNION {readProc(pid, btime, pagesize, files[pid]) : pid \in entries \ {0}}

----------------------------------------------------------------------------
(* The BSDs: a table of structs.                                           *)

\* A fetch asks for the table's size, makes room and reads it, which fails with
\* ENOMEM if the table (fetch.size) outgrew the room, or otherwise (Absent).  The
\* ENOMEM is tried again, four times in all: the fetch that is used, Absent if none is.
sysctlProcAll(fetches) ==
  LET outgrew(f) == f.size # Absent /\ f.size > f.room
      done == {t \in 1..Min({4, Len(fetches)}) : ~outgrew(fetches[t])}
  IN IF done = {} \/ fetches[Min(done)].size = Absent THEN Absent ELSE Min(done)

\* OpenBSD and NetBSD ask for room for processes forked in between.
Slop(size, stride) == size + size \div 8 + 16 * stride

PageSize == 4096
Pages(n) == IF n > 0 THEN n * PageSize ELSE 0
AtLeastOne(n) == IF n < 1 THEN 1 ELSE n

\* FreeBSD: each record begins with its own size, at least min, then its pid,
\* threads and pages.
parseKinfoProcs(b, min) ==
  LET from[off \in 1..(Len(b) + 1)] ==
        IF off > Len(b) \/ b[off] < min \/ off + b[off] - 1 > Len(b) THEN <<>>
        ELSE <<[pid |-> b[off + 1], threads |-> b[off + 2], rss |-> Pages(b[off + 3])]>>
               \o from[off + b[off]]
  IN from[1]

\* The others: records of a fixed stride.
FixedStride(b, stride) ==
  [k \in 1..(Len(b) \div stride) |-> SubSeq(b, (k - 1) * stride + 1, k * stride)]
parseDragonFlyProcs(b) ==
  LET rs == FixedStride(b, 3)
  IN [k \in DOMAIN rs |->
        [pid |-> rs[k][1], threads |-> AtLeastOne(rs[k][2]), rss |-> Pages(rs[k][3])]]
parseNetBSDProcs(b) == parseDragonFlyProcs(b)
\* No threads in the struct; the size is that of text, data and stack.
parseOpenBSDProcs(b) ==
  LET rs == FixedStride(b, 5)
  IN [k \in DOMAIN rs |-> [pid |-> rs[k][1], threads |-> 1, rss |-> Pages(rs[k][2]),
                           vms |-> Pages(rs[k][3] + rs[k][4] + rs[k][5])]]

\* The words after the vector of pointers, which ends with NULL.
parseArgv(b) == SelectSeq(b, LAMBDA a : a # "")
parseOpenBSDArgv(b) ==
  LET ends == {i \in DOMAIN b : b[i] = "NULL"}
  IN IF ends = {} THEN <<>> ELSE parseArgv(SubSeq(b, Min(ends) + 1, Len(b)))

\* A process whose arguments are empty or cannot be read has its name for them.
Named(name, args) ==
  IF args = <<>> THEN [args |-> <<name>>, exe |-> name] ELSE [args |-> args, exe |-> args[1]]

----------------------------------------------------------------------------
(* macOS: ps.                                                              *)

parsePsElapsedSeconds(etime) ==
  etime.days * 86400 + FoldLeft(LAMBDA secs, p : 60 * secs + p, 0, etime.parts)
psCreateTime(etime, nowMs) ==
  LET secs == parsePsElapsedSeconds(etime) IN IF secs > 0 THEN nowMs - secs * 1000 ELSE 0

\* Of a line the pid, 0 where its second word is no number, Absent where it has none.
parsePsThreads(lines) ==
  LET starts == {i \in DOMAIN lines : lines[i] \notin {0, Absent}}
      owner(i) == {k \in starts : k <= i /\ \A j \in starts : j <= i => j <= k}
      last(pid) == Max({k \in starts : lines[k] = pid})
  IN [pid \in {lines[k] : k \in starts} |->
        Cardinality({i \in DOMAIN lines : lines[i] # Absent /\ owner(i) = {last(pid)}})]

\* The lines of eleven words that begin with a pid, 0 where the word is none.
parsePsProcs(lines, nowMs) ==
  {[pid |-> l.pid, rss |-> l.rssKB * 1024, state |-> psState(l.state), threads |-> 1,
    create |-> psCreateTime(l.etime, nowMs), args |-> l.command, exe |-> l.command[1]]
     : l \in {x \in ToSet(lines) : x.pid > 0 /\ x.command # <<>>}}

\* A process that the threads' ps does not list, or that fails, has the one.
collectDarwin(lines, nowMs, threadLines) ==
  LET t == parsePsThreads(threadLines)
  IN {[p EXCEPT !.threads = IF p.pid \in DOMAIN t THEN t[p.pid] ELSE @] : p \in parsePsProcs(lines, nowMs)}

----------------------------------------------------------------------------
(* Plan 9: /proc again.                                                    *)

plan9CreateTime(realMs, nowMs) == IF realMs > 0 /\ realMs <= nowMs THEN nowMs - realMs ELSE 0

parsePlan9Shared(segments) ==
  MapThenSumSet(LAMBDA i : segments[i].top - segments[i].base,
                {i \in DOMAIN segments : segments[i].ref > 1 /\ segments[i].top > segments[i].base})

parsePlan9Fds(lines) ==
  LET full == SelectSeq(lines, LAMBDA l : l # "")
  IN IF full = <<>> THEN [cwd |-> "", nfd |-> 0] ELSE [cwd |-> full[1], nfd |-> Len(full) - 1]

\* status is a line of three columns of fixed width and at least nine numbers, which
\* is not read of a process that is gone; its seventh is the memory in kB.
parsePlan9Status(line) ==
  IF Len(line.nums) < 9 THEN [ok |-> FALSE]
  ELSE [ok |-> TRUE, name |-> line.name, state |-> line.state, realMs |-> line.nums[3], memKB |-> line.nums[7]]

collectPlan9(entries, nowMs, files) ==
  {LET st == parsePlan9Status(files[pid].status)
   IN [pid |-> pid, name |-> st.name, exe |-> st.name, state |-> plan9State(st.state), threads |-> 1,
       rss |-> st.memKB * 1024, vms |-> st.memKB * 1024, create |-> plan9CreateTime(st.realMs, nowMs),
       args |-> Named(st.name, files[pid].args).args, openFd |-> parsePlan9Fds(files[pid].fd).nfd,
       shared |-> parsePlan9Shared(files[pid].segment)]
     : pid \in {q \in entries \ {0} : parsePlan9Status(files[q].status).ok}}

----------------------------------------------------------------------------
(* Windows: a snapshot, and what a handle gives of each of its processes.  *)

\* Each is best-effort, of a process that cannot be opened none.
enrich(p, handle) ==
  [p EXCEPT !.create = IF handle.create = Absent THEN @ ELSE handle.create,
            !.exe = IF handle.exe = "" THEN @ ELSE handle.exe]
collectWindows(entries, handle) ==
  {LET p == enrich([pid |-> e.pid, threads |-> e.threads, create |-> 0, exe |-> e.name,
                    args |-> <<>>], handle[e.pid])
   IN [p EXCEPT !.args = <<p.exe>>] : e \in {x \in entries : x.pid # 0}}
----------------------------------------------------------------------------
(* Laws, over all small inputs.                                            *)

Lists(S, n) == UNION {[1..k -> S] : k \in 0..n}
SumOf(f, S) == MapThenSumSet(LAMBDA x : f[x], S)

\* A process in a given condition has the same state on every system.
StatesTrue ==
  /\ {linuxState("R"), freebsdState("RUN"), dragonflyState("ACTIVE", "RUN"), psState("R")}
       \cup {openbsdState(s) : s \in {"RUN", "ONPROC"}}
       \cup {netbsdState(s) : s \in {"RUN", "ONPROC"}}
       \cup {plan9State(s) : s \in {"Running", "Ready", "Scheding"}} = {"R"}
  /\ {linuxState("S"), freebsdState("SLEEP"), openbsdState("SLEEP"), netbsdState("SLEEP"),
      dragonflyState("ACTIVE", "SLEEP"), psState("S"), psState("I"), plan9State("Wakeme"),
      plan9State("Queueing"), linuxState("I")} = {"S"}
  /\ {linuxState("T"), freebsdState("STOP"), openbsdState("STOP"), netbsdState("STOP"),
      netbsdState("SUSPENDED"), dragonflyState("STOP", "SLEEP"), dragonflyState("ACTIVE", "STOP"),
      psState("T"), plan9State("Stopped")} = {"T"}
  /\ {linuxState("Z"), freebsdState("ZOMB"), openbsdState("ZOMB"), netbsdState("ZOMB"),
      dragonflyState("ZOMB", "SLEEP"), psState("Z"), plan9State("Moribund")} = {"Z"}

\* What Linux writes of a process: its name is what it likes, parentheses and
\* blanks and all, and the fields after it are those of proc(5), the state the
\* third of the line.
Names == Lists({"(", ")", " ", "a"}, 3)
Char(c) == [ch |-> c, n |-> 0]
Word(n) == [ch |-> "0", n |-> n]
StatLine(comm, state) ==
  <<Word(7), Char(" "), Char("(")>> \o [i \in DOMAIN comm |-> Char(comm[i])]
    \o <<Char(")"), Char(" "), Char(state)>>
    \o FlattenSeq([i \in 1..21 |-> <<Char(" "), Word(100 * (i + 3))>>])
NumberedFrom4(f) == f.ppid = 400 /\ f.utime = 1400 /\ f.stime = 1500 /\ f.threads = 2000
                      /\ f.starttime = 2200 /\ f.vsize = 2300 /\ f.rssPages = 2400

\* Whatever else of a process can be read, it is the same process, of the same
\* create time and memory, and what is not known of it is zero and never another
\* value (readProc: the reporter diffs by the create time).
LinuxTrue ==
  \A comm \in Names : \A kernelThread \in BOOLEAN : \A readable \in SUBSET {"status", "cmdline", "io", "fd"} :
    LET stat == StatLine(comm, "S")
        file(name, data) == IF name \in readable THEN data ELSE <<>>
        files == [stat |-> stat,
                  status |-> file("status", IF kernelThread THEN <<[key |-> "Threads", val |-> 2000]>>
                                            ELSE <<[key |-> "VmRSS", val |-> 9600], [key |-> "Uid", val |-> 3],
                                                   [key |-> "Threads", val |-> 2000]>>),
                  cmdline |-> file("cmdline", IF kernelThread THEN <<"">> ELSE <<"sh", "", "-c", "">>),
                  io |-> file("io", <<[key |-> "read_bytes", val |-> 5]>>),
                  fd |-> IF "fd" \in readable THEN {0, 1} ELSE {}]
        ps == readProc(7, 1000, 4096, files)
    IN /\ NumberedFrom4(parseStat(stat))
       /\ \E p \in ps :
            /\ ps = {p} /\ p.name = [i \in DOMAIN comm |-> Char(comm[i])] /\ p.state = "S" /\ p.threads = 2000
            /\ p.create = 1000 * 1000 + 22000 /\ p.rss = 2400 * 4096 /\ p.vms = 2300
            /\ p.uid \in {0, 3} /\ p.readBytes \in {0, 5} /\ p.openFd \in {0, 2}
            /\ p.args = IF "cmdline" \in readable /\ ~kernelThread THEN <<"sh", "-c">> ELSE <<>>

\* A table of FreeBSD cut anywhere, or with a size in it that cannot be, gives the
\* processes of the records before that and no other; so do the others' tables.
Records == [pid : {1, 2}, threads : {0, 3}, pages : {-1, 2}, pad : 0..1]
Rss(r) == IF r.pages < 0 THEN 0 ELSE r.pages * 4096
TablesTrue ==
  \A rs \in Lists(Records, 2) : \A garbage \in {<<>>, <<0>>, <<3, 9, 9>>, <<-1, 9, 9, 9>>, <<9, 9, 9, 9>>} :
    LET freebsd == FlattenSeq([k \in DOMAIN rs |-> <<4 + rs[k].pad, rs[k].pid, rs[k].threads, rs[k].pages>>
                                                     \o [i \in 1..rs[k].pad |-> 9]])
        fixed == FlattenSeq([k \in DOMAIN rs |-> <<rs[k].pid, rs[k].threads, rs[k].pages>>])
        end(k) == SumOf([i \in DOMAIN rs |-> 4 + rs[i].pad], 1..k)
        whole(cut) == Max({k \in 0..Len(rs) : end(k) <= cut})
    IN /\ \A cut \in 0..Len(freebsd) :
            parseKinfoProcs(SubSeq(freebsd, 1, cut), 4)
              = [k \in 1..whole(cut) |-> [pid |-> rs[k].pid, threads |-> rs[k].threads, rss |-> Rss(rs[k])]]
       /\ parseKinfoProcs(freebsd \o garbage, 4) = parseKinfoProcs(freebsd, 4)
       /\ \A cut \in 0..Len(fixed) :
            LET ps == parseDragonFlyProcs(SubSeq(fixed, 1, cut))
            IN /\ Len(ps) = cut \div 3
               /\ \A k \in DOMAIN ps : /\ ps[k].pid = rs[k].pid /\ ps[k].rss = Rss(rs[k])
                                       /\ ps[k].threads \in {1, 3} /\ ps[k].threads >= rs[k].threads

\* The table that is used is one that one fetch read; there is none only if a fetch
\* fails otherwise or four outgrow their room, which on OpenBSD and NetBSD takes
\* seventeen new processes between two calls.
Sizes == {0, 16, 32}
FetchTrue ==
  /\ \A fetches \in Lists([room : Sizes, size : Sizes \cup {Absent}], 4) :
       LET t == sysctlProcAll(fetches)
           outgrew(k) == fetches[k].size # Absent /\ fetches[k].size > fetches[k].room
       IN IF t # Absent
          THEN fetches[t].size # Absent /\ ~outgrew(t) /\ \A k \in 1..(t - 1) : outgrew(k)
          ELSE \A k \in DOMAIN fetches : outgrew(k) \/ \E j \in 1..k : fetches[j].size = Absent
  /\ \A stride \in {3, 680} : \A n \in {0, 1, 5, 100} : \A new \in 0..16 :
       sysctlProcAll(<<[room |-> Slop(n * stride, stride), size |-> (n + new) * stride]>>) = 1

\* A process's words are those of the buffer, empty ones left out; whatever can be
\* read of it, it has some.
ArgsTrue ==
  \A ptrs \in Lists({"ptr"}, 2) : \A words \in Lists({"", "sh", "NULL"}, 3) :
    /\ parseOpenBSDArgv(ptrs \o <<"NULL">> \o words) = SelectSeq(words, LAMBDA w : w # "")
    /\ parseOpenBSDArgv(ptrs) = <<>>
    /\ Named("n", parseArgv(words)).args # <<>>
    /\ \A handle \in [create : {Absent, 5}, exe : {"", "x"}] :
         \A p \in collectWindows({[pid |-> 0, threads |-> 1, name |-> "idle"], [pid |-> 4, threads |-> 2, name |-> "n"]},
                                 [pid \in {0, 4} |-> handle]) :
           p.pid = 4 /\ p.threads = 2 /\ p.args = <<p.exe>> /\ p.exe \in {"n", "x"}

\* The create time of a process that is derived from its age moves by less than
\* the reporter's slack from one collection to another, though macOS gives the
\* age in seconds and Plan 9 in ticks; but it is not known (0) below a second,
\* or a tick, of age (createTimeSlackMs).
CreateTimeSlack == 2000
Etime(secs) ==
  LET hms == <<(secs % 86400) \div 3600, (secs % 3600) \div 60, secs % 60>>
  IN [days |-> secs \div 86400, parts |-> IF secs < 3600 THEN Tail(hms) ELSE hms]
CreateTimesTrue ==
  /\ \A secs \in {0, 59, 60, 3599, 3600, 36061, 86399, 86400, 100000} :
       parsePsElapsedSeconds(Etime(secs)) = secs
  /\ \A born \in {5000, 5001, 5500, 5999} : \A n1, n2 \in {5000, 5999, 6000, 6001, 6998, 6999, 7500, 8000, 95999} :
       born <= n1 /\ n1 <= n2 =>
         LET mac(now) == psCreateTime(Etime((now - born) \div 1000), now)
             plan9(now) == plan9CreateTime(((now - born) \div 10) * 10, now)
             near(x, y) == x - y < CreateTimeSlack /\ y - x < CreateTimeSlack
         IN /\ 0 \notin {mac(n1), mac(n2)} => near(mac(n1), mac(n2))
            /\ 0 \notin {plan9(n1), plan9(n2)} => near(plan9(n1), plan9(n2))
            /\ (mac(n1) = 0 <=> n1 - born < 1000) /\ (plan9(n1) = 0 <=> n1 - born < 10)

\* Each process that the first ps lists is in the collection, with its threads, a line
\* per thread of the second; one that this does not list, or all if it fails, has one.
ThreadsTrue ==
  \A counts \in Lists(1..3, 3) :
    LET lines == <<0>> \o FlattenSeq([pid \in DOMAIN counts |->
                                        <<pid>> \o [k \in 1..(counts[pid] - 1) |-> 0]]) \o <<Absent>>
        ps == <<[pid |-> 0, rssKB |-> 0, state |-> "S", etime |-> Etime(0), command |-> <<"COMMAND">>]>>
                \o [pid \in 1..4 |-> [pid |-> pid, rssKB |-> pid, state |-> "S", etime |-> Etime(3), command |-> <<"sh", "-c">>]]
        t(threadLines) == {<<p.pid, p.threads>> : p \in collectDarwin(ps, 9000, threadLines)}
    IN /\ t(lines) = {<<pid, IF pid \in DOMAIN counts THEN counts[pid] ELSE 1>> : pid \in 1..4}
       /\ t(<<>>) = {<<pid, 1>> : pid \in 1..4}

\* Plan 9: what a process shares is part of what it has, and its descriptors are the
\* lines after the directory; its memory is that of the status whether the kernel ends
\* the line with two more numbers or with five.
Plan9True ==
  /\ \A segments \in Lists([base : {0, 8}, top : {4, 12}, ref : 0..2], 2) :
       /\ parsePlan9Shared(segments)
            <= SumOf([i \in DOMAIN segments |-> Max({0, segments[i].top - segments[i].base})], DOMAIN segments)
       /\ (\A i \in DOMAIN segments : segments[i].ref < 2) => parsePlan9Shared(segments) = 0
  /\ \A fds \in Lists({"0", "1"}, 2) :
       parsePlan9Fds(<<"/usr">> \o fds \o <<"">>) = [cwd |-> "/usr", nfd |-> Len(fds)]
  /\ \A gone \in BOOLEAN : \A n \in {9, 12} : \A args \in Lists({"a", "b"}, 1) :
       LET files == [pid \in {0, 1, 2} |->
                       [status |-> [name |-> "n", state |-> "Fault",
                                    nums |-> IF gone /\ pid = 2 THEN <<>> ELSE [i \in 1..n |-> i]],
                        args |-> args, fd |-> <<>>, segment |-> <<>>]]
           ps == collectPlan9({0, 1, 2}, 9000, files)
       IN /\ {p.pid : p \in ps} = IF gone THEN {1} ELSE {1, 2}
          /\ \A p \in ps : p.rss = 7 * 1024 /\ p.create = 8997 /\ p.args # <<>> /\ p.state = "S"

TablesHold ==
  StatesTrue /\ LinuxTrue /\ TablesTrue /\ FetchTrue /\ ArgsTrue /\ CreateTimesTrue /\ ThreadsTrue /\ Plan9True
=============================================================================
