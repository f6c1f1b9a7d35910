--------------------------- MODULE JournaldTailer ---------------------------
(***************************************************************************)
(* internal/logs/journald_linux.go and journald.go: one goroutine per      *)
(* journald source runs journalctl, filters the entries it prints, sends   *)
(* the rest to the batcher's channel and starts journalctl again when it   *)
(* exits.  The batcher stores the cursor of each delivered entry under the *)
(* source's id, and journalctl is started after that cursor.               *)
(*                                                                         *)
(* A cursor is the number of its entry, NoCursor before the first; a       *)
(* journal is named by the id of the sources that read it.  The batcher    *)
(* and the registry are those of LogPipeline, cut down to what the cursor  *)
(* goes through.                                                           *)
(***************************************************************************)
EXTENDS Integers, Sequences, FiniteSets

CONSTANTS
  Sources,      \* the journald log sources
  Config,       \* Config[s]: the source's part of the configuration
  NoPath,       \* the path of a source that has none
  Entry,        \* Entry[j]: the entries journal j comes to hold, their fields
  Absent,       \* the value of a field an entry does not have
  ChanCap,      \* capacity of the channel to the batcher
  MaxBatch,     \* the batcher's maxSize
  MaxEntries,   \* bound on the entries of one journal
  MaxExits,     \* bound on journalctl exiting by itself
  MaxRestarts   \* bound on the restarts of the agent

ASSUME ChanCapAssumption == ChanCap \in Nat \ {0}
ASSUME MaxBatchAssumption == MaxBatch \in Nat \ {0}

VARIABLES
  written,    \* written[j]: how many entries journal j holds
  pc,         \* pc[s]: where the goroutine of s is
  pos,        \* pos[s]: the last entry its journalctl has gone past
  chan,       \* the channel msgs
  bpc,        \* where the batcher is
  batch,      \* the batch it accumulates, sends or acknowledges
  cursors,    \* Registry.cursors
  disk,       \* the cursors in the registry file
  delivered,  \* delivered[s]: the entries of s the intake has stored
  refused,    \* refused[s]: the entries of batches it refused outright
  skipped,    \* skipped[s]: the entries passed over by starting at the end
  exits,      \* how often journalctl has exited by itself
  agent,      \* where Agent.Run and the process are
  restarts

journalVars == <<written, delivered, refused, skipped>>
streamVars == <<pc, pos>>
batcherVars == <<bpc, batch>>
mainVars == <<agent, restarts>>
jvars == <<journalVars, streamVars, chan, batcherVars, cursors, disk, exits, mainVars>>

NoCursor == 0

----------------------------------------------------------------------------
(* The pure core, journald.go.                                             *)

journaldID(s) == IF Config[s].path = NoPath THEN "default" ELSE Config[s].path

Journals == {journaldID(s) : s \in Sources}

ASSUME EntryAssumption ==
  MaxEntries \in Nat /\ \A j \in Journals : Len(Entry[j]) \in 0..MaxEntries

\* A match is a pair of a field and a value; an exclude of "*" is any unit.
Has(e, m) == e[m[1]] = m[2]
matchesUnit(excludes, unit) == "*" \in excludes \/ unit \in excludes

\* A user-level entry answers to the user excludes only.
shouldDrop(s, e) ==
  \/ \E m \in Config[s].excludeMatches : Has(e, m)
  \/ e.userUnit # Absent /\ matchesUnit(Config[s].excludeUserUnits, e.userUnit)
  \/ /\ e.userUnit = Absent /\ e.unit # Absent
     /\ matchesUnit(Config[s].excludeUnits, e.unit)

\* The match arguments of journalctlArgs: groups joined by "+".
journalctlGroups(s) ==
  LET c == Config[s]
      sys == {<<"unit", u>> : u \in c.includeUnits}
      usr == {<<"userUnit", u>> : u \in c.includeUserUnits}
  IN IF sys # {} /\ usr # {} THEN {c.includeMatches \cup sys, usr}
     ELSE {c.includeMatches \cup sys \cup usr}

\* What journalctl makes of them: it ORs the matches on one field, ANDs the
\* fields and ORs the groups.
Selected(s, e) ==
  \E g \in journalctlGroups(s) :
    \A m \in g : \E o \in g : o[1] = m[1] /\ Has(e, o)

\* The entries journalctl prints and handle does not skip.
Wanted(s, n) ==
  LET e == Entry[journaldID(s)][n] IN Selected(s, e) /\ ~shouldDrop(s, e)

WantedOf(s) == {n \in 1..written[journaldID(s)] : Wanted(s, n)}

----------------------------------------------------------------------------

JournalInit ==
  /\ written = [j \in Journals |-> 0]
  /\ delivered = [s \in Sources |-> {}]
  /\ refused = [s \in Sources |-> {}]
  /\ skipped = [s \in Sources |-> {}]
  /\ pc = [s \in Sources |-> "spawn"]
  /\ pos = [s \in Sources |-> 0]
  /\ chan = <<>>
  /\ bpc = "select"
  /\ batch = <<>>
  /\ cursors = [j \in Journals |-> NoCursor]
  /\ disk = [j \in Journals |-> NoCursor]
  /\ exits = 0
  /\ agent = "run"
  /\ restarts = 0

Alive == agent \in {"run", "stop", "closed"}
Cancelled == agent # "run"

\* Something is logged, whether or not the agent runs.
Write(j) ==
  /\ written[j] < Len(Entry[j])
  /\ written' = [written EXCEPT ![j] = @ + 1]
  /\ UNCHANGED <<delivered, refused, skipped, streamVars, chan, batcherVars,
                 cursors, disk, exits, mainVars>>

\* Mutation of Spawn: a source that reads from the end does so at every start.
SpawnAtEnd(s) ==
  LET id == journaldID(s)
      atEnd == Config[s].startPosition = "end"
  IN /\ Alive
     /\ pc[s] = "spawn"
     /\ pos' = [pos EXCEPT ![s] = IF atEnd THEN written[id] ELSE cursors[id]]
     /\ skipped' = [skipped EXCEPT ![s] = IF atEnd THEN @ \cup 1..written[id] ELSE @]
     /\ pc' = [pc EXCEPT ![s] = "read"]
     /\ UNCHANGED <<written, delivered, refused, chan, batcherVars, cursors, disk,
                    exits, mainVars>>

\* stream starts journalctl after the stored cursor; without one, at the
\* journal's first entry or, by default, at the ones to come.
Spawn(s) ==
  LET id == journaldID(s)
      atEnd == cursors[id] = NoCursor /\ Config[s].startPosition = "end"
  IN /\ Alive
     /\ pc[s] = "spawn"
     /\ pos' = [pos EXCEPT ![s] = IF atEnd THEN written[id] ELSE cursors[id]]
     /\ skipped' = [skipped EXCEPT ![s] = IF atEnd THEN @ \cup 1..written[id] ELSE @]
     /\ pc' = [pc EXCEPT ![s] = "read"]
     /\ UNCHANGED <<written, delivered, refused, chan, batcherVars, cursors, disk,
                    exits, mainVars>>

\* An entry that journalctl does not select or handle skips.
Skip(s) ==
  /\ Alive
  /\ pc[s] = "read"
  /\ pos[s] < written[journaldID(s)]
  /\ ~Wanted(s, pos[s] + 1)
  /\ pos' = [pos EXCEPT ![s] = @ + 1]
  /\ UNCHANGED <<journalVars, pc, chan, batcherVars, cursors, disk, exits, mainVars>>

\* handle sends an entry as soon as the channel has room, ctx or not.
Handle(s) ==
  /\ Alive
  /\ pc[s] = "read"
  /\ pos[s] < written[journaldID(s)]
  /\ Wanted(s, pos[s] + 1)
  /\ Len(chan) < ChanCap
  /\ pos' = [pos EXCEPT ![s] = @ + 1]
  /\ chan' = Append(chan, [src |-> s, entry |-> pos[s] + 1])
  /\ UNCHANGED <<journalVars, pc, batcherVars, cursors, disk, exits, mainVars>>

\* Mutation of HandleDrops: the stream reads on after the dropped entry.
HandleDropsOne(s) ==
  /\ Alive /\ Cancelled
  /\ pc[s] = "read"
  /\ pos[s] < written[journaldID(s)]
  /\ Wanted(s, pos[s] + 1)
  /\ Len(chan) = ChanCap
  /\ pos' = [pos EXCEPT ![s] = @ + 1]
  /\ UNCHANGED <<journalVars, pc, chan, batcherVars, cursors, disk, exits, mainVars>>

\* The channel is full and ctx has ended: the entry is dropped and the stream
\* stops, no later entry may outrun it.
HandleDrops(s) ==
  /\ Alive /\ Cancelled
  /\ pc[s] = "read"
  /\ pos[s] < written[journaldID(s)]
  /\ Wanted(s, pos[s] + 1)
  /\ Len(chan) = ChanCap
  /\ pc' = [pc EXCEPT ![s] = "returned"]
  /\ UNCHANGED <<journalVars, pos, chan, batcherVars, cursors, disk, exits, mainVars>>

\* Mutation of Exits: an exit ends the tailing.
ExitsForGood(s) ==
  /\ Alive
  /\ pc[s] = "read"
  /\ IF Cancelled THEN UNCHANGED exits ELSE exits < MaxExits /\ exits' = exits + 1
  /\ pc' = [pc EXCEPT ![s] = "returned"]
  /\ UNCHANGED <<journalVars, pos, chan, batcherVars, cursors, disk, mainVars>>

\* journalctl exits by itself, or is killed because ctx ended.  run returns in
\* the second case and pauses in the first.
Exits(s) ==
  /\ Alive
  /\ pc[s] = "read"
  /\ IF Cancelled THEN UNCHANGED exits ELSE exits < MaxExits /\ exits' = exits + 1
  /\ pc' = [pc EXCEPT ![s] = IF Cancelled THEN "returned" ELSE "pause"]
  /\ UNCHANGED <<journalVars, pos, chan, batcherVars, cursors, disk, mainVars>>

\* The pause is over, or ctx has ended it.
PauseEnds(s) ==
  /\ Alive
  /\ pc[s] = "pause"
  /\ pc' = [pc EXCEPT ![s] = IF Cancelled THEN "returned" ELSE "spawn"]
  /\ UNCHANGED <<journalVars, pos, chan, batcherVars, cursors, disk, exits, mainVars>>

----------------------------------------------------------------------------
(* The batcher and the registry.                                           *)

Receive ==
  /\ Alive
  /\ bpc = "select"
  /\ chan # <<>>
  /\ Len(batch) < MaxBatch
  /\ batch' = Append(batch, Head(chan))
  /\ chan' = Tail(chan)
  /\ UNCHANGED <<journalVars, streamVars, bpc, cursors, disk, exits, mainVars>>

EntriesOf(q, s) == {q[i].entry : i \in {k \in DOMAIN q : q[k].src = s}}

\* The intake stores the batch.
Deliver ==
  /\ Alive
  /\ bpc = "select"
  /\ batch # <<>>
  /\ delivered' = [s \in Sources |-> delivered[s] \cup EntriesOf(batch, s)]
  /\ bpc' = "ack"
  /\ UNCHANGED <<written, refused, skipped, streamVars, chan, batch, cursors, disk,
                 exits, mainVars>>

\* The intake refuses it outright: it is dropped and not acknowledged.
Refuse ==
  /\ Alive
  /\ bpc = "select"
  /\ batch # <<>>
  /\ refused' = [s \in Sources |-> refused[s] \cup EntriesOf(batch, s)]
  /\ batch' = <<>>
  /\ UNCHANGED <<written, delivered, skipped, streamVars, chan, bpc, cursors, disk,
                 exits, mainVars>>

\* The acknowledgement of one message of a delivered batch: AdvanceCursor.
AdvanceCursor ==
  /\ Alive
  /\ bpc = "ack"
  /\ cursors' = [cursors EXCEPT ![journaldID(Head(batch).src)] = Head(batch).entry]
  /\ batch' = Tail(batch)
  /\ bpc' = IF Len(batch) = 1 THEN "select" ELSE "ack"
  /\ UNCHANGED <<journalVars, streamVars, chan, disk, exits, mainVars>>

\* The registry's periodic Flush.
Flush ==
  /\ Alive
  /\ disk # cursors
  /\ disk' = cursors
  /\ UNCHANGED <<journalVars, streamVars, chan, batcherVars, cursors, exits, mainVars>>

----------------------------------------------------------------------------
(* Agent.Run's ordered shutdown, a crash, a restart.                       *)

Stop ==
  /\ agent = "run"
  /\ agent' = "stop"
  /\ UNCHANGED <<journalVars, streamVars, chan, batcherVars, cursors, disk, exits, restarts>>

\* tailWG.Wait, then close(msgs).
CloseMsgs ==
  /\ agent = "stop"
  /\ \A s \in Sources : pc[s] = "returned"
  /\ agent' = "closed"
  /\ UNCHANGED <<journalVars, streamVars, chan, batcherVars, cursors, disk, exits, restarts>>

\* The batcher has drained the channel, or abandons its batch; the registry
\* is flushed once more.
Exit ==
  /\ agent = "closed"
  /\ bpc = "select"
  /\ agent' = "exited"
  /\ disk' = cursors
  /\ UNCHANGED <<journalVars, streamVars, chan, batcherVars, cursors, exits, restarts>>

Crash ==
  /\ Alive
  /\ restarts < MaxRestarts
  /\ agent' = "crashed"
  /\ UNCHANGED <<journalVars, streamVars, chan, batcherVars, cursors, disk, exits, restarts>>

Restart ==
  /\ agent \in {"exited", "crashed"}
  /\ restarts < MaxRestarts
  /\ restarts' = restarts + 1
  /\ agent' = "run"
  /\ pc' = [s \in Sources |-> "spawn"]
  /\ pos' = [s \in Sources |-> 0]
  /\ chan' = <<>>
  /\ bpc' = "select"
  /\ batch' = <<>>
  /\ cursors' = disk
  /\ UNCHANGED <<journalVars, disk, exits>>

StreamStep(s) ==
  Spawn(s) \/ Skip(s) \/ Handle(s) \/ HandleDrops(s) \/ Exits(s) \/ PauseEnds(s)

JournalNext ==
  \/ \E j \in Journals : Write(j)
  \/ \E s \in Sources : StreamStep(s)
  \/ Receive \/ Deliver \/ Refuse \/ AdvanceCursor \/ Flush
  \/ Stop \/ CloseMsgs \/ Exit \/ Crash \/ Restart

JournalSpec == JournalInit /\ [][JournalNext]_jvars

\* journalctl prints what the journal holds, the goroutines run and the intake
\* answers in the end.  A sender that waits for room in the channel gets its
\* turn: Go's channels are fair to blocked senders.  Nothing says that
\* journalctl exits, that the agent stops or that a batch is refused.
JournalFairness ==
  /\ \A s \in Sources :
       /\ WF_jvars(Spawn(s)) /\ WF_jvars(Skip(s)) /\ WF_jvars(PauseEnds(s))
       /\ SF_jvars(Handle(s))
  /\ WF_jvars(Receive) /\ WF_jvars(Deliver) /\ WF_jvars(AdvanceCursor)

JournalFairSpec == JournalSpec /\ JournalFairness

----------------------------------------------------------------------------

Settled(s) == delivered[s] \cup refused[s] \cup skipped[s]

\* The cursor a restart, or the next journalctl, resumes after never passes an
\* entry of the source that is neither delivered, nor refused, nor older than
\* a start at the end: journaldTailer's "at-least-once, like the file tailer".
NoGap ==
  \A s \in Sources :
    LET id == journaldID(s) IN
      \A n \in WantedOf(s) :
        n <= cursors[id] \/ n <= disk[id] => n \in Settled(s)

\* The entries that journalctl does not select or handle skips.
Unwanted ==
  [s \in Sources |->
     {n \in 1..MaxEntries : n \in DOMAIN Entry[journaldID(s)] => ~Wanted(s, n)}]

\* The journals implement the delivery contract of the files, but for a cursor
\* that may move back (registry.go:119-121): entries are settled in order, and a
\* source that has a cursor is not started at the end of its journal again.  The
\* entries that nobody asked for are nobody's; no two sources share an id here.
Delivery == INSTANCE LogDelivery WITH
  written <- [s \in Sources |-> written[journaldID(s)]],
  durable <- [s \in Sources |-> IF disk[journaldID(s)] = NoCursor THEN -1 ELSE disk[journaldID(s)]],
  MaxLines <- MaxEntries, MayGoBack <- TRUE
JournalDelivers == Delivery!Spec

\* Every entry the source wants is settled in the end, whatever journalctl
\* does, if the agent is not stopped for good.
AllSettled ==
  \A s \in Sources : \A n \in DOMAIN Entry[journaldID(s)] :
    []<>(n \notin WantedOf(s) \/ n \in Settled(s) \/ agent # "run")

----------------------------------------------------------------------------
(* The inductive invariant behind NoGap.                                   *)

Message == [src : Sources, entry : Nat]

JournalTypeOK ==
  /\ written \in [Journals -> Nat]
  /\ pc \in [Sources -> {"spawn", "read", "pause", "returned"}]
  /\ pos \in [Sources -> Nat]
  /\ chan \in Seq(Message) /\ batch \in Seq(Message)
  /\ bpc \in {"select", "ack"}
  /\ cursors \in [Journals -> Nat] /\ disk \in [Journals -> Nat]
  /\ delivered \in [Sources -> SUBSET Nat]
  /\ refused \in [Sources -> SUBSET Nat]
  /\ skipped \in [Sources -> SUBSET Nat]
  /\ agent \in {"run", "stop", "closed", "exited", "crashed"}

\* The messages on their way from journalctl to the cursor, the oldest first.
Queue == batch \o chan

\* Entry n of s is in front of place k of the queue.
Ahead(s, n, k) == \E h \in 1..(k - 1) : Queue[h].src = s /\ Queue[h].entry = n

\* Nothing is ahead of the journal, and what is acknowledged has been delivered.
BoundInv ==
  /\ \A j \in Journals : cursors[j] <= written[j] /\ disk[j] <= written[j]
  /\ \A s \in Sources : pos[s] <= written[journaldID(s)]
  /\ \A k \in 1..Len(Queue) : Queue[k].entry <= written[journaldID(Queue[k].src)]
  /\ bpc = "ack" =>
       batch # <<>> /\ \A k \in 1..Len(batch) : batch[k].entry \in delivered[batch[k].src]

\* What journalctl has gone past is settled or in the queue.
PosInv ==
  \A s \in Sources : \A n \in WantedOf(s) :
    n <= pos[s] => n \in Settled(s) \/ Ahead(s, n, Len(Queue) + 1)

\* What comes before an entry is settled or in front of it.  The queue need not
\* be in order: a journalctl that is started again reads from the cursor.
QueueInv ==
  \A k \in 1..Len(Queue) : \A s \in Sources : \A n \in WantedOf(s) :
    s = Queue[k].src /\ n < Queue[k].entry => n \in Settled(s) \/ Ahead(s, n, k)

JournalInv == JournalTypeOK /\ BoundInv /\ NoGap /\ PosInv /\ QueueInv
=============================================================================
