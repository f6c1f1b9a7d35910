---------------------------- MODULE LogPipeline ----------------------------
(***************************************************************************)
(* internal/logs: Agent.Run composes one tailer goroutine per file, a      *)
(* bounded channel, the batcher goroutine, the registry in memory and the  *)
(* goroutine that writes it to disk, and stops them in order.              *)
(*                                                                         *)
(* The files here are only appended to and a line is the unit of offset;   *)
(* rotation, truncation, unterminated and multi-line messages are in       *)
(* LogTailer.  The primary intake endpoint is the set of lines it has      *)
(* stored.  The process may crash at any step and is restarted from what   *)
(* the registry file holds.                                                *)
(***************************************************************************)
EXTENDS Integers, Sequences

CONSTANTS
  Sources,     \* the tailed files
  MaxLines,    \* bound on the lines one file ever holds
  Bytes,       \* Bytes[s][n]: the content length of line n of s
  ChanCap,     \* capacity of the channel between tailers and batcher
  MaxSize,     \* batcher.maxSize
  MaxBytes,    \* batcher.maxBytes
  MaxRestarts  \* bound on the number of restarts

ASSUME MaxLinesAssumption == MaxLines \in Nat
ASSUME BytesAssumption == Bytes \in [Sources -> [1..MaxLines -> Nat]]
ASSUME ChanCapAssumption == ChanCap \in Nat \ {0}
ASSUME MaxSizeAssumption == MaxSize \in Nat \ {0}
ASSUME MaxBytesAssumption == MaxBytes \in Nat
ASSUME MaxRestartsAssumption == MaxRestarts \in Nat

VARIABLES
  written,    \* written[s]: the number of lines in the file of s
  delivered,  \* delivered[s]: the lines the intake has stored
  refused,    \* refused[s]: the lines of batches the intake refused
  skipped,    \* skipped[s]: the lines passed over by starting at the end
  tpc,        \* tpc[s]: where the tailer of s is
  toff,       \* toff[s]: its offset: the last line read and sent
  chan,       \* the channel msgs
  bpc,        \* where the batcher is
  batch,      \* the batch being accumulated or sent
  bytes,      \* bytesAccum
  held,       \* the message received but not yet appended, during a flush
  stuck,      \* the last flush did not settle the batch
  draining,   \* the flush in progress is the one after the channel closed
  acked,      \* how many messages of a delivered batch are in the registry
  mem,        \* Registry.offsets; NoEntry: no entry
  disk,       \* the registry file; NoEntry: no entry
  fpc,        \* the registry flush in progress
  snap,       \* the offsets that flush will write
  main,       \* where Agent.Run and the process are
  restarts    \* number of restarts so far

fileVars == <<written, delivered, refused, skipped>>
tailerVars == <<tpc, toff>>
batcherVars == <<bpc, batch, bytes, held, stuck, draining, acked>>
registryVars == <<mem, disk, fpc, snap>>
mainVars == <<main, restarts>>
vars == <<fileVars, tailerVars, chan, batcherVars, registryVars, mainVars>>

NoEntry == -1
Message == [src : Sources, off : 1..MaxLines]

\* The main goroutine: waiting for ctx, waiting for the tailers, waiting for
\* the batcher, waiting for the registry goroutine, in its own last Flush.
Alive == main \in {"run", "stop", "closed", "cancelled", "final"}
CtxDone == main # "run"

LinesOf(q, s) == {q[i].off : i \in {j \in DOMAIN q : q[j].src = s}}
Settled(s) == delivered[s] \cup refused[s] \cup skipped[s]

TypeOK ==
  /\ written \in [Sources -> 0..MaxLines]
  /\ delivered \in [Sources -> SUBSET (1..MaxLines)]
  /\ refused \in [Sources -> SUBSET (1..MaxLines)]
  /\ skipped \in [Sources -> SUBSET (1..MaxLines)]
  /\ tpc \in [Sources -> {"open", "read", "sleep", "stopped"}]
  /\ toff \in [Sources -> 0..MaxLines]
  /\ chan \in Seq(Message)
  /\ bpc \in {"select", "sending", "acking", "done"}
  /\ batch \in Seq(Message)
  /\ bytes \in Nat
  /\ held \in Seq(Message)
  /\ stuck \in BOOLEAN
  /\ draining \in BOOLEAN
  /\ acked \in Nat
  /\ mem \in [Sources -> NoEntry..MaxLines]
  /\ disk \in [Sources -> NoEntry..MaxLines]
  /\ fpc \in {"idle", "tick", "last", "main", "gone"}
  /\ snap \in [Sources -> NoEntry..MaxLines]
  /\ main \in {"run", "stop", "closed", "cancelled", "final", "exited", "crashed"}
  /\ restarts \in 0..MaxRestarts

----------------------------------------------------------------------------
(* Start and restart: NewAgent loads the registry file, Run starts the     *)
(* goroutines.                                                             *)

Init ==
  /\ written = [s \in Sources |-> 0]
  /\ delivered = [s \in Sources |-> {}]
  /\ refused = [s \in Sources |-> {}]
  /\ skipped = [s \in Sources |-> {}]
  /\ disk = [s \in Sources |-> NoEntry]
  /\ restarts = 0
  /\ tpc = [s \in Sources |-> "open"]
  /\ toff = [s \in Sources |-> 0]
  /\ chan = <<>>
  /\ bpc = "select"
  /\ batch = <<>>
  /\ bytes = 0
  /\ held = <<>>
  /\ stuck = FALSE
  /\ draining = FALSE
  /\ acked = 0
  /\ mem = disk
  /\ fpc = "idle"
  /\ snap = disk
  /\ main = "run"

\* The process is killed between any two steps.
Crash ==
  /\ Alive
  /\ restarts < MaxRestarts
  /\ main' = "crashed"
  /\ UNCHANGED <<fileVars, tailerVars, chan, batcherVars, registryVars, restarts>>

Restart ==
  /\ main \in {"exited", "crashed"}
  /\ restarts < MaxRestarts
  /\ restarts' = restarts + 1
  /\ UNCHANGED <<fileVars, disk>>
  /\ tpc' = [s \in Sources |-> "open"]
  /\ toff' = [s \in Sources |-> 0]
  /\ chan' = <<>>
  /\ bpc' = "select"
  /\ batch' = <<>>
  /\ bytes' = 0
  /\ held' = <<>>
  /\ stuck' = FALSE
  /\ draining' = FALSE
  /\ acked' = 0
  /\ mem' = disk
  /\ fpc' = "idle"
  /\ snap' = disk
  /\ main' = "run"

\* The application appends a line, whether or not the agent runs.
Write(s) ==
  /\ written[s] < MaxLines
  /\ written' = [written EXCEPT ![s] = @ + 1]
  /\ UNCHANGED <<delivered, refused, skipped,
                 tailerVars, chan, batcherVars, registryVars, mainVars>>

----------------------------------------------------------------------------
(* tailer.run for a file that is only appended to.                         *)

\* Opens the file: at the end when the registry has never seen it, else at the
\* stored offset, back to the start if the file is now shorter.
TailerOpen(s) ==
  /\ Alive
  /\ tpc[s] = "open"
  /\ toff' = [toff EXCEPT ![s] = IF mem[s] = NoEntry THEN written[s]
                                 ELSE IF mem[s] > written[s] THEN 0
                                 ELSE mem[s]]
  /\ skipped' = [skipped EXCEPT ![s] =
                   IF mem[s] = NoEntry THEN @ \cup 1..written[s] ELSE @]
  /\ tpc' = [tpc EXCEPT ![s] = "read"]
  /\ UNCHANGED <<written, delivered, refused, chan, batcherVars, registryVars, mainVars>>

\* Emits the next line: the send succeeds as long as the channel has room,
\* ctx or not.
TailerSend(s) ==
  /\ Alive
  /\ tpc[s] = "read"
  /\ toff[s] < written[s]
  /\ Len(chan) < ChanCap
  /\ chan' = Append(chan, [src |-> s, off |-> toff[s] + 1])
  /\ toff' = [toff EXCEPT ![s] = @ + 1]
  /\ UNCHANGED <<fileVars, tpc, batcherVars, registryVars, mainVars>>

\* Mutation of TailerDrop: the tailer reads on after the dropped line.
TailerDropOne(s) ==
  /\ Alive
  /\ CtxDone
  /\ tpc[s] = "read"
  /\ toff[s] < written[s]
  /\ Len(chan) = ChanCap
  /\ toff' = [toff EXCEPT ![s] = @ + 1]
  /\ UNCHANGED <<fileVars, tpc, chan, batcherVars, registryVars, mainVars>>

\* Mutation of TailerDrop: a blocked send waits for the close, not for ctx.
TailerDropLate(s) ==
  /\ Alive
  /\ main \notin {"run", "stop"}
  /\ tpc[s] = "read"
  /\ toff[s] < written[s]
  /\ Len(chan) = ChanCap
  /\ tpc' = [tpc EXCEPT ![s] = "stopped"]
  /\ UNCHANGED <<fileVars, toff, chan, batcherVars, registryVars, mainVars>>

\* The channel is full and ctx is done: the line is dropped and the tailer
\* stops, so that no later line follows.
TailerDrop(s) ==
  /\ Alive
  /\ CtxDone
  /\ tpc[s] = "read"
  /\ toff[s] < written[s]
  /\ Len(chan) = ChanCap
  /\ tpc' = [tpc EXCEPT ![s] = "stopped"]
  /\ UNCHANGED <<fileVars, toff, chan, batcherVars, registryVars, mainVars>>

\* End of file: one poll interval of sleep, which ctx cuts short.
TailerEOF(s) ==
  /\ Alive
  /\ tpc[s] = "read"
  /\ toff[s] = written[s]
  /\ tpc' = [tpc EXCEPT ![s] = "sleep"]
  /\ UNCHANGED <<fileVars, toff, chan, batcherVars, registryVars, mainVars>>

TailerWake(s) ==
  /\ Alive
  /\ tpc[s] = "sleep"
  /\ tpc' = [tpc EXCEPT ![s] = "read"]
  /\ UNCHANGED <<fileVars, toff, chan, batcherVars, registryVars, mainVars>>

TailerStop(s) ==
  /\ Alive
  /\ CtxDone
  /\ tpc[s] = "sleep"
  /\ tpc' = [tpc EXCEPT ![s] = "stopped"]
  /\ UNCHANGED <<fileVars, toff, chan, batcherVars, registryVars, mainVars>>

----------------------------------------------------------------------------
(* batcher.run and batcher.send.                                           *)

\* The continuation of flush: kept is the batch that remains (all of it when
\* the send did not settle).  The held message is appended all the same and the
\* size limit may flush again at once; after the channel closed, run returns.
AfterFlush(kept, isStuck) ==
  LET next == kept \o held
      keptBytes == IF isStuck THEN bytes ELSE 0
  IN /\ batch' = next
     /\ bytes' = IF held = <<>> THEN keptBytes
                 ELSE keptBytes + Bytes[held[1].src][held[1].off]
     /\ held' = <<>>
     /\ stuck' = isStuck
     /\ acked' = 0
     /\ bpc' = IF draining THEN "done"
               ELSE IF held # <<>> /\ Len(next) >= MaxSize THEN "sending"
               ELSE "select"

\* A message is taken from the channel.  If it would push the batch over the
\* byte cap it is held while the batch is flushed, else it is appended and the
\* size limit may flush.
TakeMessage ==
  /\ Alive
  /\ bpc = "select"
  /\ chan # <<>>
  /\ chan' = Tail(chan)
  /\ LET m == Head(chan)
         size == Bytes[m.src][m.off]
     IN IF batch # <<>> /\ bytes + size > MaxBytes
        THEN /\ held' = <<m>>
             /\ bpc' = "sending"
             /\ UNCHANGED <<batch, bytes>>
        ELSE /\ batch' = Append(batch, m)
             /\ bytes' = bytes + size
             /\ bpc' = IF Len(batch) + 1 >= MaxSize THEN "sending" ELSE "select"
             /\ UNCHANGED held
  /\ UNCHANGED <<fileVars, tailerVars, stuck, draining, acked, registryVars, mainVars>>

\* The loop reads only while no batch is stuck.
Receive == ~stuck /\ TakeMessage

\* The channel is closed and empty: flush what remains, if anything, and return.
Drain ==
  /\ Alive
  /\ main \notin {"run", "stop"}
  /\ bpc = "select"
  /\ ~stuck
  /\ chan = <<>>
  /\ draining' = (batch # <<>>)
  /\ bpc' = IF batch # <<>> THEN "sending" ELSE "done"
  /\ UNCHANGED <<fileVars, tailerVars, chan, batch, bytes, held, stuck, acked,
                 registryVars, mainVars>>

\* Mutation of Tick: a stuck batch is not retried.
TickUnlessStuck ==
  /\ Alive
  /\ bpc = "select"
  /\ ~stuck
  /\ batch # <<>>
  /\ bpc' = "sending"
  /\ UNCHANGED <<fileVars, tailerVars, chan, batch, bytes, held, stuck, draining, acked,
                 registryVars, mainVars>>

\* The wait ticker: flush a batch that is not empty, a stuck one included.
Tick ==
  /\ Alive
  /\ bpc = "select"
  /\ batch # <<>>
  /\ bpc' = "sending"
  /\ UNCHANGED <<fileVars, tailerVars, chan, batch, bytes, held, stuck, draining, acked,
                 registryVars, mainVars>>

\* ctx is done while the batch is stuck: it is abandoned.
Abandon ==
  /\ Alive
  /\ CtxDone
  /\ bpc = "select"
  /\ stuck
  /\ bpc' = "done"
  /\ UNCHANGED <<fileVars, tailerVars, chan, batch, bytes, held, stuck, draining, acked,
                 registryVars, mainVars>>

Store == delivered' = [s \in Sources |-> delivered[s] \cup LinesOf(batch, s)]

\* The intake stores the batch and the client sees its 2xx.
SendStored ==
  /\ Alive
  /\ bpc = "sending"
  /\ Store
  /\ bpc' = "acking"
  /\ acked' = 0
  /\ UNCHANGED <<written, refused, skipped, tailerVars, chan,
                 batch, bytes, held, stuck, draining, registryVars, mainVars>>

\* The registry is advanced one message at a time; after the last one the
\* batch is settled.
AckOne ==
  /\ Alive
  /\ bpc = "acking"
  /\ LET m == batch[acked + 1] IN mem' = [mem EXCEPT ![m.src] = m.off]
  /\ IF acked + 1 = Len(batch)
     THEN AfterFlush(<<>>, FALSE)
     ELSE /\ acked' = acked + 1
          /\ UNCHANGED <<bpc, batch, bytes, held, stuck>>
  /\ UNCHANGED <<fileVars, tailerVars, chan, draining, disk, fpc, snap, mainVars>>

\* The intake stores the batch but every answer is lost: for the client the
\* send failed.
SendAnswerLost ==
  /\ Alive
  /\ bpc = "sending"
  /\ Store
  /\ AfterFlush(batch, TRUE)
  /\ UNCHANGED <<written, refused, skipped, tailerVars, chan, draining,
                 registryVars, mainVars>>

\* Mutation of SendFailed: a failed batch counts as settled.
SendFailedSettles ==
  /\ Alive
  /\ bpc = "sending"
  /\ AfterFlush(<<>>, FALSE)
  /\ UNCHANGED <<fileVars, tailerVars, chan, draining, registryVars, mainVars>>

\* A transient failure: nothing is stored.
SendFailed ==
  /\ Alive
  /\ bpc = "sending"
  /\ AfterFlush(batch, TRUE)
  /\ UNCHANGED <<fileVars, tailerVars, chan, draining, registryVars, mainVars>>

\* A permanent status: the batch is dropped and counts as settled, but the
\* registry is not advanced.
SendRefused ==
  /\ Alive
  /\ bpc = "sending"
  /\ refused' = [s \in Sources |-> refused[s] \cup LinesOf(batch, s)]
  /\ AfterFlush(<<>>, FALSE)
  /\ UNCHANGED <<written, delivered, skipped, tailerVars, chan, draining,
                 registryVars, mainVars>>

\* The answer of a try that stored the batch is lost and a later try of the same
\* SendLogs is refused for good: the batch is dropped unacknowledged.
SendStoredRefused ==
  /\ Alive
  /\ bpc = "sending"
  /\ Store
  /\ AfterFlush(<<>>, FALSE)
  /\ UNCHANGED <<written, refused, skipped, tailerVars, chan, draining,
                 registryVars, mainVars>>

----------------------------------------------------------------------------
(* Registry.Run and Registry.Flush.  The offsets are copied under the lock, *)
(* written to a temporary file and renamed; only the rename is visible to a *)
(* restart.  Any of the steps may fail, which leaves the old file.          *)

FlushTick ==
  /\ Alive
  /\ fpc = "idle"
  /\ fpc' = "tick"
  /\ snap' = mem
  /\ UNCHANGED <<fileVars, tailerVars, chan, batcherVars, mem, disk, mainVars>>

\* Registry.Run after regCancel: one more flush, then the goroutine ends.
FlushLast ==
  /\ Alive
  /\ main = "cancelled"
  /\ fpc = "idle"
  /\ fpc' = "last"
  /\ snap' = mem
  /\ UNCHANGED <<fileVars, tailerVars, chan, batcherVars, mem, disk, mainVars>>

\* Agent.Run's own Flush, once the goroutine is gone.
FlushMain ==
  /\ Alive
  /\ main = "cancelled"
  /\ fpc = "gone"
  /\ fpc' = "main"
  /\ snap' = mem
  /\ main' = "final"
  /\ UNCHANGED <<fileVars, tailerVars, chan, batcherVars, mem, disk, restarts>>

FlushEnd ==
  /\ Alive
  /\ fpc \in {"tick", "last", "main"}
  /\ disk' \in {snap, disk}
  /\ fpc' = IF fpc = "tick" THEN "idle" ELSE "gone"
  /\ main' = IF fpc = "main" THEN "exited" ELSE main
  /\ UNCHANGED <<fileVars, tailerVars, chan, batcherVars, mem, snap, restarts>>

----------------------------------------------------------------------------
(* Agent.Run's ordered shutdown.                                           *)

Stop ==
  /\ main = "run"
  /\ main' = "stop"
  /\ UNCHANGED <<fileVars, tailerVars, chan, batcherVars, registryVars, restarts>>

\* Mutation of CloseChannel: the tailers are not waited for.
CloseChannelEarly ==
  /\ main = "stop"
  /\ main' = "closed"
  /\ UNCHANGED <<fileVars, tailerVars, chan, batcherVars, registryVars, restarts>>

CloseChannel ==
  /\ main = "stop"
  /\ \A s \in Sources : tpc[s] = "stopped"
  /\ main' = "closed"
  /\ UNCHANGED <<fileVars, tailerVars, chan, batcherVars, registryVars, restarts>>

\* Mutation of RegCancel: the batcher is not waited for.
RegCancelEarly ==
  /\ main = "closed"
  /\ main' = "cancelled"
  /\ UNCHANGED <<fileVars, tailerVars, chan, batcherVars, registryVars, restarts>>

RegCancel ==
  /\ main = "closed"
  /\ bpc = "done"
  /\ main' = "cancelled"
  /\ UNCHANGED <<fileVars, tailerVars, chan, batcherVars, registryVars, restarts>>

\* Not a step of the system: the bounded model has run out of restarts.
Finished ==
  /\ main = "exited"
  /\ restarts = MaxRestarts
  /\ UNCHANGED vars

Tailer(s) ==
  \/ TailerOpen(s) \/ TailerSend(s) \/ TailerDrop(s)
  \/ TailerEOF(s) \/ TailerWake(s) \/ TailerStop(s)

Send == SendStored \/ SendAnswerLost \/ SendFailed \/ SendRefused \/ SendStoredRefused

Batcher == Receive \/ Drain \/ Tick \/ Abandon \/ AckOne \/ Send

RegistryFlush == FlushTick \/ FlushLast \/ FlushMain \/ FlushEnd

Next ==
  \/ \E s \in Sources : Write(s) \/ Tailer(s)
  \/ Batcher
  \/ RegistryFlush
  \/ Stop \/ CloseChannel \/ RegCancel
  \/ Crash \/ Restart \/ Finished

Spec == Init /\ [][Next]_vars

----------------------------------------------------------------------------
(* Fairness.  Every goroutine keeps running.  A sender blocked on a Go     *)
(* channel is served in turn and a select chooses among its ready cases at *)
(* random, so a choice offered again and again is eventually taken.        *)
(* SendLogs returns within its 30 s deadline, whatever the intake does.    *)

Fairness ==
  /\ \A s \in Sources :
       /\ WF_vars(TailerOpen(s)) /\ WF_vars(TailerEOF(s)) /\ WF_vars(TailerWake(s))
       /\ SF_vars(TailerSend(s)) /\ SF_vars(TailerDrop(s)) /\ SF_vars(TailerStop(s))
  /\ SF_vars(Receive) /\ WF_vars(Drain) /\ SF_vars(Tick) /\ SF_vars(Abandon)
  /\ WF_vars(AckOne) /\ WF_vars(Send)
  /\ SF_vars(FlushLast) /\ WF_vars(FlushMain) /\ WF_vars(FlushEnd)
  /\ WF_vars(CloseChannel) /\ WF_vars(RegCancel)

FairSpec == Spec /\ Fairness

\* The intake does not fail for ever: a batch sent again and again is accepted.
IntakeRecovers == SF_vars(SendStored)

----------------------------------------------------------------------------
(* Properties.                                                             *)

\* Neither the registry in memory nor its file is ever past a line that is
\* neither delivered, nor refused, nor history: whatever fails, is retried,
\* abandoned or cut off by a crash (batcher.run's comment, agent.go:238-245).
NeverAhead ==
  \A s \in Sources : /\ 1..mem[s] \subseteq Settled(s)
                     /\ 1..disk[s] \subseteq Settled(s)

\* However sends fail and messages arrive, the batch never outgrows the
\* configured size: a stuck batch stops the loop from reading.
BatchBound == Len(batch) <= MaxSize

\* Shutdown is ordered so that nothing in flight is lost (agent.go:67-69): once
\* the batcher is done without having given up a batch, every line any tailer
\* sent is settled and the channel is empty.
DrainedExit ==
  main \in {"cancelled", "final", "exited"} /\ batch = <<>> =>
    /\ chan = <<>>
    /\ \A s \in Sources : 1..toff[s] \subseteq Settled(s)

\* The process exits with the offsets of the final drain on disk, or, when that
\* write failed, with the file left as it was.
ExitPersisted == [][main' = "exited" /\ main # "exited" => disk' \in {mem, disk}]_vars

\* The pipeline implements the delivery contract: per source, in order, across
\* tailers, retries, shutdowns and crashes.
Delivery == INSTANCE LogDelivery WITH durable <- disk,
  Unwanted <- [s \in Sources |-> {}], MayGoBack <- FALSE
DeliverySpec == Delivery!Spec

\* The ordered shutdown cannot block: not on a full channel, not on a stuck
\* batch, not on an intake that never accepts anything again.
ShutdownEnds == main = "stop" ~> main \in {"exited", "crashed"}

\* While the agent stays up and the intake recovers, it catches up with every
\* file: a stuck batch is retried, a blocked tailer resumes, a batch that stays
\* short is flushed.
CatchesUp ==
  IntakeRecovers =>
    (main = "run" ~> main # "run" \/ \A s \in Sources : 1..written[s] \subseteq Settled(s))

----------------------------------------------------------------------------
(* The inductive invariant behind NeverAhead, BatchBound, DrainedExit and  *)
(* the refinement.                                                         *)

InFlight(s) == LinesOf(batch, s) \cup LinesOf(held, s) \cup LinesOf(chan, s)

\* Two queues hold the lines of each source in increasing order, p before q.
Before(p, q) ==
  \A i \in DOMAIN p, j \in DOMAIN q : p[i].src = q[j].src => p[i].off < q[j].off

Ordered(q) ==
  \A i, j \in DOMAIN q : i < j /\ q[i].src = q[j].src => q[i].off < q[j].off

\* The pipeline is one ordered queue: the batch, the held message, the channel.
PipeOrdered ==
  /\ Ordered(batch) /\ Ordered(chan) /\ Len(held) <= 1
  /\ Before(batch, held) /\ Before(batch, chan) /\ Before(held, chan)

\* A tailer's offset covers exactly what is settled or in flight.
Covered ==
  \A s \in Sources :
    /\ InFlight(s) \subseteq 1..toff[s]
    /\ toff[s] <= written[s]
    /\ IF tpc[s] = "open" THEN toff[s] = 0
       ELSE 1..toff[s] \subseteq Settled(s) \cup InFlight(s)

\* Disk, snapshot, memory and the unacknowledged messages follow one another.
Chain ==
  \A s \in Sources :
    /\ disk[s] <= snap[s] /\ snap[s] <= mem[s] /\ mem[s] <= written[s]
    /\ 1..mem[s] \subseteq Settled(s)
    /\ tpc[s] # "open" => mem[s] <= toff[s]
    /\ \A i \in DOMAIN batch : i > acked /\ batch[i].src = s => mem[s] < batch[i].off
    /\ \A n \in LinesOf(held, s) \cup LinesOf(chan, s) : mem[s] < n

\* What the batcher's control state says of its data.
BatcherInv ==
  /\ Len(batch) <= MaxSize
  /\ bpc = "select" /\ ~stuck => Len(batch) < MaxSize
  /\ held # <<>> => Len(batch) < MaxSize /\ bpc \in {"sending", "acking"} /\ ~draining
  /\ stuck => batch # <<>>
  /\ bpc \in {"sending", "acking"} => batch # <<>>
  /\ bpc # "acking" => acked = 0
  /\ bpc = "acking" => acked < Len(batch)
  /\ bpc = "acking" => \A s \in Sources : LinesOf(batch, s) \subseteq delivered[s]

\* What the order of the shutdown says of everybody.
ShutdownInv ==
  /\ main \in {"closed", "cancelled", "final", "exited"} =>
       \A s \in Sources : tpc[s] = "stopped"
  /\ main \in {"cancelled", "final", "exited"} => bpc = "done"
  /\ fpc = "main" => main \in {"final", "crashed"}
  /\ draining \/ (bpc = "done" /\ ~stuck) => chan = <<>> /\ main \notin {"run", "stop"}

IInv == TypeOK /\ PipeOrdered /\ Covered /\ Chain /\ BatcherInv /\ ShutdownInv
============================================================================
