----------------------------- MODULE ProcessWire -----------------------------
(***************************************************************************)
(* internal/process: the protobuf wire codec, the messages written with it *)
(* and the one answer read with it.  A message is a sequence of bytes.  A  *)
(* float is its four bytes, a string the sequence of its bytes, and none   *)
(* of them the empty sequence; the numbers of the laws are small, so that  *)
(* the 64 bits of a varint and the 32 of a status are not reached.         *)
(***************************************************************************)
EXTENDS Integers, Sequences, FiniteSets, FiniteSetsExt, SequencesExt, TLC

----------------------------------------------------------------------------
(* pbuf: the writer.                                                       *)

uvarint[v \in Nat] ==
  IF v < 128 THEN <<v>> ELSE <<128 + (v % 128)>> \o uvarint[v \div 128]

tag(field, wire) == uvarint[8 * field + wire]

\* A field that is zero or empty is left out.
uint(field, v) == IF v = 0 THEN <<>> ELSE tag(field, 0) \o uvarint[v]
f32(field, bits) == IF bits = <<>> THEN <<>> ELSE tag(field, 5) \o bits
msg(field, body) == IF body = <<>> THEN <<>> ELSE tag(field, 2) \o uvarint[Len(body)] \o body

frame(typ, body) == <<3, 0, typ>> \o [k \in 1..13 |-> 0] \o body
unframe(framed) ==
  IF Len(framed) < 16 THEN [ok |-> FALSE]
  ELSE [ok |-> TRUE, typ |-> framed[3], body |-> SubSeq(framed, 17, Len(framed))]

----------------------------------------------------------------------------
(* pread: the reader.  What it reads at a position, and where it goes on.  *)

Malformed == [ok |-> FALSE]

\* What is read of the bytes of b from i on, left of them at most: to the first below 128.
digits[left \in 0..10] == [b \in Seq(Nat) |-> [i \in Nat \ {0} |->
  IF left = 0 \/ i > Len(b) THEN Malformed
  ELSE IF b[i] < 128 THEN [ok |-> TRUE, val |-> b[i], data |-> <<>>, i |-> i + 1]
  ELSE LET more == digits[left - 1][b][i + 1]
       IN IF more.ok THEN [more EXCEPT !.val = 128 * @ + (b[i] % 128)] ELSE Malformed]]
varint(b, i) == digits[10][b][i]

\* The n bytes at i, if they are there.
Bytes(b, i, n) ==
  IF i + n > Len(b) + 1 THEN Malformed
  ELSE [ok |-> TRUE, val |-> 0, data |-> SubSeq(b, i, i + n - 1), i |-> i + n]

\* The value at i of a field of this wire type.
value(b, i, wire) ==
  CASE wire = 0 -> varint(b, i)
    [] wire = 1 -> Bytes(b, i, 8)
    [] wire = 2 -> LET n == varint(b, i) IN IF n.ok THEN Bytes(b, n.i, n.val) ELSE Malformed
    [] wire = 5 -> Bytes(b, i, 4)
    [] OTHER -> Malformed

next(b, i) ==
  LET t == varint(b, i)
      v == value(b, t.i, t.val % 8)
  IN IF t.ok /\ v.ok
     THEN [ok |-> TRUE, field |-> t.val \div 8, wire |-> t.val % 8,
           val |-> v.val, data |-> v.data, i |-> v.i]
     ELSE Malformed

\* The fields of a message, up to the first that cannot be read.
Fields[b \in Seq(Nat)] ==
  LET from[i \in 1..(Len(b) + 1)] ==
        LET f == next(b, i) IN IF f.ok THEN <<f>> \o from[f.i] ELSE <<>>
  IN from[1]

\* The fields with number n and wire type wire.
Having(b, n, wire) == SelectSeq(Fields[b], LAMBDA f : f.field = n /\ f.wire = wire)

\* The last value a message gives a number.
LastVal(b, n) == LET fs == Having(b, n, 0) IN IF fs = <<>> THEN 0 ELSE Last(fs).val

readCollectorStatus(b) == [active |-> LastVal(b, 1), interval |-> LastVal(b, 2)]

\* Mutation of readResCollector: the last field 3 counts.
readResCollectorLast(framed) ==
  LET u == unframe(framed)
      status == SelectSeq(Fields[u.body], LAMBDA f : f.field = 3)
  IN IF ~u.ok \/ u.typ # 23 THEN Malformed
     ELSE [ok |-> TRUE] @@ readCollectorStatus(IF status = <<>> THEN <<>> ELSE Last(status).data)

\* The clients of the first status of a ResCollector, none without one.
readResCollector(framed) ==
  LET u == unframe(framed)
      status == SelectSeq(Fields[u.body], LAMBDA f : f.field = 3)
  IN IF ~u.ok \/ u.typ # 23 THEN Malformed
     ELSE [ok |-> TRUE] @@ readCollectorStatus(IF status = <<>> THEN <<>> ELSE Head(status).data)

----------------------------------------------------------------------------
(* The messages.                                                           *)

encodeCommand(p) ==
  FlattenSeq([i \in DOMAIN p.args |-> msg(1, p.args[i])])
    \o msg(3, p.cwd) \o uint(6, p.ppid) \o msg(8, p.exe) \o msg(9, p.name)
encodeUser(p) == msg(1, p.user) \o uint(2, p.uid) \o uint(3, p.gid)
encodeMemory(p) == uint(1, p.rss) \o uint(2, p.vms) \o uint(3, p.swap) \o uint(4, p.shared)
encodeCPU(p) ==
  f32(2, p.totalPct) \o f32(3, p.userPct) \o f32(4, p.systemPct)
    \o uint(5, p.threads) \o uint(8, p.userTime) \o uint(9, p.systemTime)
encodeIO(p) == FlattenSeq([i \in 1..4 |-> f32(i, p.ioRates[i])])

encodeProcess(p) ==
  uint(2, p.pid) \o msg(4, encodeCommand(p)) \o msg(5, encodeUser(p)) \o msg(7, encodeMemory(p))
    \o msg(8, encodeCPU(p)) \o uint(9, p.create) \o uint(11, p.openFd) \o uint(12, p.state)
    \o msg(13, encodeIO(p)) \o uint(16, p.volCtx) \o uint(17, p.involCtx) \o uint(20, p.pid)

encodeProcessStat(p) ==
  uint(1, p.pid) \o uint(2, p.create) \o msg(3, encodeMemory(p)) \o msg(4, encodeCPU(p))
    \o uint(7, p.threads) \o uint(8, p.openFd) \o uint(12, p.state) \o msg(19, encodeIO(p))
    \o uint(24, p.volCtx) \o uint(25, p.involCtx)

encodeSystemInfo(s) == msg(2, msg(1, s.os) \o msg(2, s.platform)) \o uint(5, s.totalMemory)

\* Chunk id of size chunks.
encodeCollectorProc(hostname, info, procs, id, size) ==
  msg(2, hostname) \o FlattenSeq([i \in DOMAIN procs |-> msg(3, encodeProcess(procs[i]))])
    \o msg(5, encodeSystemInfo(info)) \o uint(6, id) \o uint(7, size)
encodeCollectorRealTime(hostname, info, procs, id, size) ==
  msg(2, hostname) \o FlattenSeq([i \in DOMAIN procs |-> msg(3, encodeProcessStat(procs[i]))])
    \o uint(6, id) \o uint(7, size) \o uint(8, info.numCPU) \o uint(9, info.totalMemory)

----------------------------------------------------------------------------
(* Laws, over small messages.                                              *)

\* The answer of an intake: another field of each kind, then the status, which
\* may have a field of its own that is not known, and another field after it.
Unread == {<<>>, tag(1, 0) \o <<200, 1>>, tag(1, 1) \o [k \in 1..8 |-> 26], tag(2, 2) \o <<2, 26, 0>>,
            tag(4, 5) \o <<26, 2, 8, 1>>}
Seven == msg(3, uint(1, 7))
StatusBody(active, interval, more) == more \o uint(1, active) \o uint(2, interval)
ResCollector(before, status, after) == frame(23, before \o msg(3, status) \o after)

\* An answer says of its clients and interval what was written, whatever fields
\* it also has, the first status if there are two; cut anywhere, it says the same,
\* or no clients at all, or that it is no answer (readResCollector, pread).
AnswerTrue ==
  /\ \A before, after \in Unread \cup {Seven} :
       \A more \in {<<>>, tag(2, 5) \o <<8, 1, 8, 1>>, tag(5, 2) \o <<2, 8, 1>>} :
         \A active \in {0, 300} : \A interval \in {0, 2} :
           LET status == StatusBody(active, interval, more)
               framed == ResCollector(before, status, after)
               says(a, n) == [ok |-> TRUE, active |-> a, interval |-> n]
               said == IF before # Seven /\ status # <<>> THEN says(active, interval)
                       ELSE IF Seven \in {before, after} THEN says(7, 0) ELSE says(0, 0)
           IN \A cut \in 0..Len(framed) :
                readResCollector(SubSeq(framed, 1, cut)) \in
                  IF cut < 16 THEN {Malformed}
                  ELSE IF cut < Len(framed) THEN {said, says(0, 0)} ELSE {said}
  /\ readResCollector(frame(22, Seven)) = Malformed

\* What a reader that knows the schema finds in a message.
Data(b, n) == LET fs == Having(b, n, 2) IN [k \in DOMAIN fs |-> fs[k].data]
Sub(b, n) == FlattenSeq(Data(b, n))
Vals(b, ns) == [k \in DOMAIN ns |-> LastVal(b, ns[k])]
Subs(b, ns) == [k \in DOMAIN ns |-> Sub(b, ns[k])]

Procs ==
  {[pid |-> pid, create |-> create, ppid |-> ppid, args |-> args, cwd |-> <<>>, exe |-> <<8, 1>>,
    name |-> <<26>>, user |-> <<114>>, uid |-> 200 * rss, gid |-> 0, rss |-> rss, vms |-> 300, swap |-> 0,
    shared |-> 0, totalPct |-> pct, userPct |-> pct, systemPct |-> <<>>, threads |-> 2,
    userTime |-> 0, systemTime |-> 128, openFd |-> ppid, state |-> 3, volCtx |-> rss, involCtx |-> 0,
    ioRates |-> <<<<>>, pct, <<>>, <<1, 16, 2, 0>>>>]
     : pid \in {1, 130}, create \in {0, 20000}, ppid \in {0, 1}, args \in {<<>>, <<<<8, 1>>, <<0, 26>>>>},
       rss \in {0, 1}, pct \in {<<>>, <<8, 0, 0, 1>>}}

\* A list and a realtime update of the same processes agree on what the intake
\* correlates them by, the pid and the create time, process by process, and
\* on the memory, the processor and the state; each carries its place in its group,
\* and each number is the process's, zeros and all (encodeProcess and the like).
Agree(list, real, p) ==
  /\ Vals(list, <<2, 9>>) = <<p.pid, p.create>> /\ Vals(real, <<1, 2>>) = <<p.pid, p.create>>
  /\ Subs(list, <<7, 8, 13>>) = Subs(real, <<3, 4, 19>>)
  /\ Vals(real, <<8, 12>>) = Vals(list, <<11, 12>>)
  /\ Vals(Sub(list, 7), <<1>>) = <<p.rss>>
  /\ Vals(Sub(list, 8), <<5, 9>>) = Vals(real, <<7>>) \o <<p.systemTime>>
  /\ Data(Sub(list, 4), 1) = p.args /\ Vals(Sub(list, 5), <<2>>) = <<p.uid>>

Host == <<104>>
Info == [os |-> <<1>>, platform |-> <<>>, totalMemory |-> 1000, numCPU |-> 2]
MessagesTrue ==
  \A p, q \in Procs : p.pid < q.pid /\ p.create # q.create /\ p.args # q.args =>
    \A procs \in {<<p>>, <<q>>, <<q, p>>} :
      \A list \in {encodeCollectorProc(Host, Info, procs, 5, 2)},
         real \in {encodeCollectorRealTime(Host, Info, procs, 5, 2)} :
        /\ \A ls \in {Data(list, 3)}, rs \in {Data(real, 3)} :
             /\ Len(ls) = Len(procs) /\ Len(rs) = Len(procs)
             /\ \A k \in DOMAIN procs : Agree(ls[k], rs[k], procs[k])
        /\ \A m \in {list, real} : Data(m, 2) = <<Host>> /\ Vals(m, <<6, 7>>) = <<5, 2>>
        /\ Vals(Sub(list, 5), <<5>>) = Vals(real, <<9>>)

WireTrue == AnswerTrue /\ MessagesTrue
=============================================================================
