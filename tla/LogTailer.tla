----------------------------- MODULE LogTailer -----------------------------
(***************************************************************************)
(* internal/logs tailer.run and its processor, for one path: the file      *)
(* behind the path is appended to, renamed away, recreated and truncated   *)
(* while the tailer reads it, its messages are delivered behind it, and    *)
(* the process crashes or stops and is restarted from the registry file.   *)
(*                                                                         *)
(* A unit stands for a run of bytes: it may end a line, match the          *)
(* start-of-message pattern of a multi_line rule, or match an              *)
(* exclude_at_match rule.  Channel, batcher and registry are reduced to    *)
(* what LogPipeline shows of them: messages settle in order, then advance  *)
(* the offset, which is persisted some time later.                         *)
(***************************************************************************)
EXTENDS Integers, Sequences

CONSTANTS
  MaxUnits,    \* bound on the units ever written
  MaxGens,     \* bound on the files the path ever names
  MaxTruncs,   \* bound on truncations
  MaxRestarts, \* bound on restarts
  Ends,        \* the units that end in a newline
  Blank,       \* the units that are nothing but a newline
  Starts,      \* the units that match the start of a message
  Excluded,    \* the units that match an exclude rule
  Chunk,       \* readChunk
  MaxLine,     \* maxLineBytes
  Cap          \* capacity of the channel

Units == 1..MaxUnits
Gens == 1..MaxGens

ASSUME BoundsAssumption ==
  MaxUnits \in Nat /\ MaxGens \in Nat \ {0} /\ MaxTruncs \in Nat /\ MaxRestarts \in Nat
ASSUME UnitsAssumption ==
  /\ Ends \subseteq Units /\ Blank \subseteq Ends
  /\ Starts \subseteq Units /\ Excluded \subseteq Units
ASSUME SizesAssumption == Chunk \in Nat \ {0} /\ MaxLine \in Nat \ {0} /\ Cap \in Nat \ {0}

VARIABLES
  multi,     \* whether the source has a multi_line rule
  files,     \* files[g]: the content of the g-th file
  last,      \* the last unit written
  path,      \* the file the path names; 0: none
  wfd,       \* the file the application has open
  gens,      \* files created so far
  truncs,    \* truncations so far
  tpc,       \* where tailer.run is
  fd,        \* the file it has open; 0: none
  resume,    \* false: start a file at its end
  toff,      \* offset: just past the last complete line
  partial,   \* the units read after it
  pending,   \* the buffered multi-line message
  pendingOff,
  hand,      \* the message send is trying to deliver
  chan,      \* the messages on their way
  mem, disk, \* the registry entry of the path, in memory and on disk
  main, restarts,
  delivered, \* the units the intake has stored
  excluded,  \* the units an exclude rule or an empty line dropped
  skipped,   \* the units passed over by opening a file at its end, or at an
             \* offset that is another file's
  sent,      \* the units ever handed to the channel
  fresh,     \* the units written to the open file since its last end of file
  failed     \* whether this turn of the loop left its reading on a read error

envVars == <<files, last, path, wfd, gens, truncs>>
posVars == <<fd, resume, toff>>
procVars == <<pending, pendingOff, hand, excluded>>
registryVars == <<mem, disk>>
mainVars == <<main, restarts>>
vars == <<multi, envVars, tpc, posVars, partial, procVars, chan, registryVars, mainVars,
          delivered, skipped, sent, fresh, failed>>

\* A registry entry; its gen is history: the registry knows only the path.
Entry == [off : 0..MaxUnits, gen : Gens]
NoEntry == [off |-> -1, gen |-> 0]

Message == [ids : Seq(Units), off : 0..MaxUnits, gen : Gens]

SeqSet(q) == {q[i] : i \in DOMAIN q}
Pos == toff + Len(partial)          \* the read position of the open file
Free == main \in {"run", "stop"} /\ hand = <<>>
CtxDone == main = "stop"

TypeOK ==
  /\ multi \in BOOLEAN
  /\ files \in [Gens -> Seq(Units)]
  /\ last \in 0..MaxUnits
  /\ path \in 0..gens /\ wfd \in 1..gens /\ gens \in Gens
  /\ truncs \in 0..MaxTruncs
  /\ tpc \in {"open", "read", "emit", "idle", "check", "rotate", "sleep", "stopped"}
  /\ fd \in 0..gens
  /\ resume \in BOOLEAN
  /\ toff \in 0..MaxUnits
  /\ partial \in Seq(Units) /\ pending \in Seq(Units)
  /\ pendingOff \in 0..MaxUnits
  /\ hand \in Seq(Message) /\ Len(hand) <= 1
  /\ chan \in Seq(Message) /\ Len(chan) <= Cap
  /\ mem \in Entry \cup {NoEntry} /\ disk \in Entry \cup {NoEntry}
  /\ main \in {"run", "stop", "down"}
  /\ restarts \in 0..MaxRestarts
  /\ delivered \subseteq Units /\ excluded \subseteq Units /\ skipped \subseteq Units
  /\ sent \subseteq Units /\ fresh \subseteq Units /\ failed \in BOOLEAN

Init ==
  /\ multi \in BOOLEAN
  /\ files = [g \in Gens |-> <<>>]
  /\ last = 0 /\ path = 1 /\ wfd = 1 /\ gens = 1 /\ truncs = 0
  /\ tpc = "open" /\ fd = 0 /\ resume = FALSE /\ toff = 0
  /\ partial = <<>> /\ pending = <<>> /\ pendingOff = 0 /\ hand = <<>> /\ chan = <<>>
  /\ mem = NoEntry /\ disk = NoEntry
  /\ main = "run" /\ restarts = 0
  /\ delivered = {} /\ excluded = {} /\ skipped = {} /\ sent = {} /\ fresh = {}
  /\ failed = FALSE

----------------------------------------------------------------------------
(* The application and the rotation tool.                                  *)

Write ==
  /\ last < MaxUnits
  /\ last' = last + 1
  /\ files' = [files EXCEPT ![wfd] = Append(@, last + 1)]
  /\ fresh' = IF wfd = fd THEN fresh \cup {last + 1} ELSE fresh
  /\ UNCHANGED <<multi, path, wfd, gens, truncs, tpc, posVars, partial, procVars, chan,
                 registryVars, mainVars, delivered, skipped, sent, failed>>

\* What the steps of the rotation tool leave alone.
AgentUnchanged ==
  UNCHANGED <<multi, last, tpc, posVars, partial, procVars, chan, registryVars, mainVars,
              delivered, skipped, sent, fresh, failed>>

Rename ==
  /\ path # 0
  /\ gens < MaxGens
  /\ path' = 0
  /\ AgentUnchanged /\ UNCHANGED <<files, wfd, gens, truncs>>

Create ==
  /\ path = 0
  /\ gens' = gens + 1
  /\ path' = gens + 1
  /\ AgentUnchanged /\ UNCHANGED <<files, wfd, truncs>>

\* The application is told to reopen its log.
Reopen ==
  /\ path \notin {0, wfd}
  /\ wfd' = path
  /\ AgentUnchanged /\ UNCHANGED <<files, path, gens, truncs>>

Truncate ==
  /\ truncs < MaxTruncs
  /\ path # 0
  /\ files[path] # <<>>
  /\ truncs' = truncs + 1
  /\ files' = [files EXCEPT ![path] = <<>>]
  /\ AgentUnchanged /\ UNCHANGED <<path, wfd, gens>>

Rotation == Rename \/ Create \/ Reopen \/ Truncate

----------------------------------------------------------------------------
(* processor.line, flush and finish: what becomes of a completed line.     *)

\* finish: the message is ready to send, unless a rule excludes it.
Finish(ids, off) ==
  IF SeqSet(ids) \cap Excluded # {}
  THEN hand' = <<>> /\ excluded' = excluded \cup SeqSet(ids)
  ELSE hand' = <<[ids |-> ids, off |-> off, gen |-> fd]>> /\ UNCHANGED excluded

\* flush: the buffered message is finished and the buffer emptied.
FlushPending(ids, off) ==
  /\ Finish(ids, off)
  /\ pending' = <<>>
  /\ pendingOff' = 0

Buffer(ids, off) ==
  /\ pending' = ids
  /\ pendingOff' = off

Feed(line, off) ==
  \/ /\ ~multi
     /\ Finish(line, off)
     /\ UNCHANGED <<pending, pendingOff>>
  \/ /\ multi /\ line[1] \in Starts /\ pending # <<>>
     /\ Finish(pending, pendingOff)
     /\ Buffer(line, off)
  \/ /\ multi /\ ~(line[1] \in Starts /\ pending # <<>>)
     /\ IF Len(pending \o line) > MaxLine
        THEN FlushPending(pending \o line, off)
        ELSE Buffer(pending \o line, off) /\ UNCHANGED <<hand, excluded>>

----------------------------------------------------------------------------
(* tailer.run, emit and send.                                              *)

\* What every step of the tailer leaves alone.
OthersUnchanged == UNCHANGED <<multi, envVars, registryVars, mainVars, delivered>>

\* A file without an entry is opened at its end, a known one at its offset, or
\* at the start when it is now shorter.
Open ==
  LET size == Len(files[path])
      at == IF ~resume THEN size ELSE IF toff > size THEN 0 ELSE toff
  IN /\ Free
     /\ tpc = "open"
     /\ path # 0
     /\ fd' = path
     /\ toff' = at
     /\ resume' = TRUE
     /\ partial' = <<>>
     /\ tpc' = "read"
     /\ skipped' = IF resume /\ mem.gen = path THEN skipped
                   ELSE skipped \cup {files[path][i] : i \in 1..at}
     /\ fresh' = {}
     /\ OthersUnchanged /\ UNCHANGED <<procVars, chan, sent, failed>>

Read ==
  LET rest == SubSeq(files[fd], Pos + 1, Len(files[fd]))
      got == IF Len(rest) <= Chunk THEN rest ELSE SubSeq(rest, 1, Chunk)
  IN /\ Free
     /\ tpc = "read"
     /\ rest # <<>>
     /\ partial' = partial \o got
     /\ tpc' = "emit"
     /\ OthersUnchanged /\ UNCHANGED <<posVars, procVars, chan, skipped, sent, fresh, failed>>

\* An empty line is skipped.
SkipBlank(unit) ==
  /\ excluded' = excluded \cup {unit}
  /\ UNCHANGED <<pending, pendingOff, hand>>

\* emit: the first complete line of what was read.
EmitLine ==
  /\ Free
  /\ tpc = "emit"
  /\ \E i \in DOMAIN partial :
       /\ partial[i] \in Ends
       /\ \A j \in 1..(i - 1) : partial[j] \notin Ends
       /\ toff' = toff + i
       /\ partial' = SubSeq(partial, i + 1, Len(partial))
       \* an empty line may belong to a multi-line message
       /\ IF i = 1 /\ partial[1] \in Blank /\ ~multi
          THEN SkipBlank(partial[1])
          ELSE Feed(SubSeq(partial, 1, i), toff + i)
  /\ OthersUnchanged /\ UNCHANGED <<tpc, fd, resume, chan, skipped, sent, fresh, failed>>

\* Mutation of EmitRest: the tailer goes on to poll after a single read.
EmitRestOnce ==
  /\ Free
  /\ tpc = "emit"
  /\ SeqSet(partial) \cap Ends = {}
  /\ tpc' = "idle"
  /\ OthersUnchanged /\ UNCHANGED <<posVars, partial, procVars, chan, skipped, sent, fresh, failed>>

\* emit: what is left is unterminated; it is shipped when it is too long.
EmitRest ==
  /\ Free
  /\ tpc = "emit"
  /\ SeqSet(partial) \cap Ends = {}
  /\ tpc' = "read"
  /\ IF Len(partial) > MaxLine
     THEN /\ toff' = Pos
          /\ partial' = <<>>
          /\ Feed(partial, Pos)
     ELSE UNCHANGED <<toff, partial, procVars>>
  /\ OthersUnchanged /\ UNCHANGED <<fd, resume, chan, skipped, sent, fresh, failed>>

ReadEOF ==
  /\ Free
  /\ tpc = "read"
  /\ Pos >= Len(files[fd])
  /\ tpc' = "idle"
  /\ fresh' = {}
  /\ OthersUnchanged /\ UNCHANGED <<posVars, partial, procVars, chan, skipped, sent, failed>>

\* A read error leaves the loop as the end of the file does, whatever is unread.
ReadError ==
  /\ Free
  /\ tpc = "read"
  /\ tpc' = "idle"
  /\ failed' = TRUE
  /\ OthersUnchanged /\ UNCHANGED <<posVars, partial, procVars, chan, skipped, sent, fresh>>

\* A buffered message that has been idle for the flush timeout is finished.
IdleFlush ==
  /\ Free
  /\ tpc = "idle"
  /\ pending # <<>>
  /\ FlushPending(pending, pendingOff)
  /\ tpc' = "check"
  /\ OthersUnchanged /\ UNCHANGED <<posVars, partial, chan, skipped, sent, fresh, failed>>

\* Mutation of Rotated: the inode is not compared.
RotatedBySize == path = 0 \/ Len(files[path]) < toff

\* The path is gone, names another file, or that file is below the offset.
Rotated == path # fd \/ Len(files[path]) < toff

\* After the flush, or at once when nothing is buffered, or not for long enough.
Check ==
  /\ Free
  /\ tpc \in {"idle", "check"}
  /\ tpc' = IF Rotated THEN "rotate" ELSE "sleep"
  /\ failed' = (failed /\ Rotated)
  /\ OthersUnchanged /\ UNCHANGED <<posVars, partial, procVars, chan, skipped, sent, fresh>>

\* The unterminated last line of a rotated file, then its buffered message, are
\* forced out before the file is closed.
RotatePartial ==
  /\ Free
  /\ tpc = "rotate"
  /\ partial # <<>>
  /\ toff' = Pos
  /\ partial' = <<>>
  /\ Feed(partial, Pos)
  /\ OthersUnchanged /\ UNCHANGED <<tpc, fd, resume, chan, skipped, sent, fresh, failed>>

RotateFlush ==
  /\ Free
  /\ tpc = "rotate"
  /\ partial = <<>>
  /\ pending # <<>>
  /\ FlushPending(pending, pendingOff)
  /\ OthersUnchanged /\ UNCHANGED <<tpc, posVars, partial, chan, skipped, sent, fresh, failed>>

\* Mutation of RotateClose: the buffered message is not forced out.
RotateCloseEarly ==
  /\ Free
  /\ tpc = "rotate"
  /\ partial = <<>>
  /\ fd' = 0
  /\ toff' = 0
  /\ tpc' = "open"
  /\ failed' = FALSE
  /\ OthersUnchanged /\ UNCHANGED <<resume, partial, procVars, chan, skipped, sent, fresh>>

RotateClose ==
  /\ Free
  /\ tpc = "rotate"
  /\ partial = <<>>
  /\ pending = <<>>
  /\ fd' = 0
  /\ toff' = 0
  /\ tpc' = "open"
  /\ failed' = FALSE
  /\ OthersUnchanged /\ UNCHANGED <<resume, partial, procVars, chan, skipped, sent, fresh>>

Wake ==
  /\ Free
  /\ tpc = "sleep"
  /\ tpc' = "read"
  /\ OthersUnchanged /\ UNCHANGED <<posVars, partial, procVars, chan, skipped, sent, fresh, failed>>

\* ctx ends a sleep, also the one that waits for the file to appear.
Quit ==
  /\ Free
  /\ CtxDone
  /\ tpc = "sleep" \/ (tpc = "open" /\ path = 0)
  /\ tpc' = "stopped"
  /\ OthersUnchanged /\ UNCHANGED <<posVars, partial, procVars, chan, skipped, sent, fresh, failed>>

Send ==
  /\ main \in {"run", "stop"}
  /\ hand # <<>>
  /\ Len(chan) < Cap
  /\ chan' = Append(chan, hand[1])
  /\ sent' = sent \cup SeqSet(hand[1].ids)
  /\ hand' = <<>>
  /\ OthersUnchanged
  /\ UNCHANGED <<tpc, posVars, partial, pending, pendingOff, excluded, skipped, fresh, failed>>

\* Mutation of Drop: the tailer reads on after the dropped message.
DropOne ==
  /\ CtxDone
  /\ hand # <<>>
  /\ Len(chan) = Cap
  /\ hand' = <<>>
  /\ OthersUnchanged
  /\ UNCHANGED <<tpc, posVars, partial, pending, pendingOff, excluded, chan, skipped, sent, fresh, failed>>

\* The channel is full and ctx is done: the message is dropped, the tailer ends.
Drop ==
  /\ CtxDone
  /\ hand # <<>>
  /\ Len(chan) = Cap
  /\ hand' = <<>>
  /\ tpc' = "stopped"
  /\ OthersUnchanged
  /\ UNCHANGED <<posVars, partial, pending, pendingOff, excluded, chan, skipped, sent, fresh, failed>>

----------------------------------------------------------------------------
(* Batcher, registry and process, as LogPipeline shows them.               *)

\* The oldest message is delivered and its offset recorded.
Deliver ==
  /\ main # "down"
  /\ chan # <<>>
  /\ LET m == Head(chan)
     IN /\ delivered' = delivered \cup SeqSet(m.ids)
        /\ mem' = [off |-> m.off, gen |-> m.gen]
  /\ chan' = Tail(chan)
  /\ UNCHANGED <<multi, envVars, tpc, posVars, partial, procVars, disk, mainVars, skipped, sent, fresh, failed>>

Persist ==
  /\ main # "down"
  /\ disk' = mem
  /\ UNCHANGED <<multi, envVars, tpc, posVars, partial, procVars, chan, mem, mainVars,
                 delivered, skipped, sent, fresh, failed>>

Stop ==
  /\ main = "run"
  /\ restarts < MaxRestarts
  /\ main' = "stop"
  /\ UNCHANGED <<multi, envVars, tpc, posVars, partial, procVars, chan, registryVars, restarts,
                 delivered, skipped, sent, fresh, failed>>

\* The process is gone: killed at any step, or after the ordered shutdown, whose
\* last act is to persist what was acknowledged.
Crash ==
  /\ main # "down"
  /\ restarts < MaxRestarts
  /\ main' = "down"
  /\ UNCHANGED <<multi, envVars, tpc, posVars, partial, procVars, chan, registryVars, restarts,
                 delivered, skipped, sent, fresh, failed>>

Exit ==
  /\ main = "stop"
  /\ tpc = "stopped"
  /\ chan = <<>>
  /\ main' = "down"
  /\ disk' = mem
  /\ UNCHANGED <<multi, envVars, tpc, posVars, partial, procVars, chan, mem, restarts,
                 delivered, skipped, sent, fresh, failed>>

Restart ==
  /\ main = "down"
  /\ main' = "run"
  /\ restarts' = restarts + 1
  /\ tpc' = "open" /\ fd' = 0
  /\ resume' = (disk # NoEntry)
  /\ toff' = IF disk = NoEntry THEN 0 ELSE disk.off
  /\ partial' = <<>> /\ pending' = <<>> /\ pendingOff' = 0 /\ hand' = <<>> /\ chan' = <<>>
  /\ mem' = disk
  /\ fresh' = {} /\ failed' = FALSE
  /\ UNCHANGED <<multi, envVars, disk, delivered, excluded, skipped, sent>>

Tailer ==
  \/ Open \/ Read \/ EmitLine \/ EmitRest \/ ReadEOF \/ ReadError \/ IdleFlush \/ Check
  \/ RotatePartial \/ RotateFlush \/ RotateClose \/ Wake \/ Quit \/ Send \/ Drop

Next ==
  \/ Write \/ Rotation \/ Tailer \/ Deliver \/ Persist
  \/ Stop \/ Crash \/ Exit \/ Restart

Spec == Init /\ [][Next]_vars

(* Fairness.  The tailer is one goroutine that keeps running; the intake    *)
(* accepts what is sent to it in the end.  A buffered message left alone is *)
(* older than the flush timeout, which is the poll interval, the next time  *)
(* the tailer looks.  A read that is retried at every poll succeeds in the  *)
(* end.                                                                     *)
LiveSpec ==
  Spec /\ WF_vars(Tailer) /\ SF_vars(Read) /\ SF_vars(IdleFlush) /\ WF_vars(Deliver)

----------------------------------------------------------------------------
(* Properties.  Those that say what an offset means hold of a file that is  *)
(* never truncated in place; a truncation takes bytes away from under them. *)

\* q is the run of file g that ends at offset n.
RunOf(q, g, n) == n <= Len(files[g]) /\ q = SubSeq(files[g], n - Len(q) + 1, n)

\* A message is one contiguous run of one file and its offset is where the run
\* ends, so that an acknowledgement means exactly the bytes delivered: no
\* message mixes a rotated file with its successor (tailer.go:100-121), and
\* what is buffered is the run up to the offset.
OffsetMatchesContent ==
  truncs = 0 =>
  /\ \A m \in SeqSet(chan) \cup SeqSet(hand) : RunOf(m.ids, m.gen, m.off)
  /\ fd # 0 => RunOf(partial, fd, Pos)
  /\ pending # <<>> => fd # 0 /\ pendingOff = toff /\ RunOf(pending, fd, toff)

\* No registry entry, in memory or on disk, is past a unit of its file that is
\* neither delivered, excluded by a rule nor passed over when a file was
\* opened: not through drops at shutdown, crashes, aggregation or rotation.
EntryNeverAhead ==
  truncs = 0 =>
  \A e \in {mem, disk} \ {NoEntry} :
    {files[e.gen][i] : i \in 1..e.off} \subseteq delivered \cup excluded \cup skipped

\* A tailer leaves a rotated file with nothing in its buffers and, unless its
\* last read of it failed, with nothing unread but what was written since it
\* last saw the end: that is what a rotation can lose.  A read error just
\* before the rotation is noticed loses whatever is unread (tailer.go:87).
RotatedFileReadToEnd ==
  [][main # "down" /\ tpc = "rotate" /\ tpc' = "open" =>
       /\ failed \/ {files[fd][i] : i \in (Pos + 1)..Len(files[fd])} \subseteq fresh
       /\ partial = <<>> /\ pending = <<>>]_vars

\* While the agent stays up and the rotations end, every complete line of the
\* file at the path is delivered, unless excluded or passed over on opening.
FollowsPath ==
  main = "run" ~>
    \/ main # "run" \/ path = 0 \/ truncs > 0
    \/ \A j \in DOMAIN files[path] : files[path][j] \in Ends =>
         {files[path][i] : i \in 1..j} \subseteq delivered \cup excluded \cup skipped

\* A file that never writes a newline, or a message that never ends, does not
\* grow the buffers beyond the line limit and one read (tailer.go:19-21).
BufferBound == Len(partial) <= MaxLine + Chunk /\ Len(pending) <= MaxLine + Chunk

----------------------------------------------------------------------------
(* The inductive invariant behind them (LogTailerProofs).                  *)

\* What the tailer holds at each place.
Places ==
  /\ tpc \notin {"open", "stopped"} => fd # 0
  /\ tpc = "open" => fd = 0 /\ partial = <<>> /\ pending = <<>>
  /\ ~multi => pending = <<>>
  /\ tpc \notin {"emit", "stopped"} => Len(partial) <= MaxLine
  /\ Pos <= MaxUnits
  /\ \A g \in Gens : Len(files[g]) <= last
  /\ path = 0 => gens < MaxGens
  /\ main # "run" => restarts < MaxRestarts

\* What is past the read position since the last end of the file is fresh.
Unread ==
  ~failed /\ tpc \in {"idle", "check", "rotate"} =>
    \A i \in (Pos + 1)..Len(files[fd]) : files[fd][i] \in fresh

\* q is the run of file g that ends at offset n, unit by unit.
Run(q, g, n) ==
  /\ Len(q) <= n /\ n <= Len(files[g])
  /\ \A i \in 1..Len(q) : q[i] = files[g][n - Len(q) + i]
Runs ==
  /\ \A k \in DOMAIN chan : Run(chan[k].ids, chan[k].gen, chan[k].off)
  /\ hand # <<>> => Run(hand[1].ids, hand[1].gen, hand[1].off)
  /\ fd # 0 => Run(partial, fd, Pos)
  /\ pending # <<>> => fd # 0 /\ pendingOff = toff /\ Run(pending, fd, toff)

Done == delivered \cup excluded \cup skipped
\* The first n units of file g are in S.
Within(g, n, S) == n <= Len(files[g]) /\ \A i \in 1..n : files[g][i] \in S
Carried(k) == UNION {SeqSet(chan[j].ids) : j \in 1..k}
InHand == UNION {SeqSet(hand[j].ids) : j \in DOMAIN hand}

\* Every offset has before it only what is done, or carried by what settles no
\* later than the offset itself.
Covered ==
  /\ \A e \in {mem, disk} \ {NoEntry} : Within(e.gen, e.off, Done)
  /\ \A k \in DOMAIN chan : Within(chan[k].gen, chan[k].off, Done \cup Carried(k))
  /\ hand # <<>> => Within(hand[1].gen, hand[1].off, Done \cup Carried(Len(chan)) \cup InHand)
  /\ tpc \notin {"open", "stopped"} =>
       Within(fd, toff, Done \cup Carried(Len(chan)) \cup InHand \cup SeqSet(pending))
  /\ tpc = "open" /\ resume =>
       toff = 0 \/ (mem # NoEntry /\ toff = mem.off /\ chan = <<>> /\ hand = <<>>)

IInv ==
  /\ TypeOK /\ Places /\ BufferBound /\ Unread
  /\ truncs = 0 => Runs /\ Covered

----------------------------------------------------------------------------
(* What the documentation says and the code does not do.                   *)

\* README.md:93-94: "a crash may duplicate a line, never silently lose one".
\* Opening a file passes over nothing that was sent and not delivered.
CrashRereads ==
  [][tpc = "open" /\ tpc' = "read" =>
       sent \cap (skipped' \ skipped) \subseteq delivered]_vars

============================================================================
