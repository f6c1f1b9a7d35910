# dd-micro-agent in TLA+

A verification project for `dd-micro-agent`, a small Datadog-compatible agent in
Go.  The modules here model the agent's own logic, TLC checks them on small
instances, and TLAPS proves the central results for every instance.

Every definition that stands for code is listed in `PROJECT.json` under `map`,
with the source lines it translates.  Definitions that are not in the map are
properties, parts of inductive invariants, groups of variables, or mutations
(operators whose comment says "Mutation of"; each stands for a plausible bug of
the definition it names and is used to show that a property can fail).

## The system

| component | state | operations | talks to |
|---|---|---|---|
| `cmd/agent` main | context, wait group, one error slot | start what the configuration enables, wait for a signal or a bind failure, wait for everyone | all below |
| `internal/logs` agent | channel of 1000 messages, map of tailers | start tailers, rescan globs, ordered shutdown | tailers, batcher, registry |
| `internal/logs` tailer | open file, offset, unterminated bytes, buffered multi-line message | read to end of file, emit, detect rotation, poll | channel, registry (once, at start) |
| `internal/logs` processor | pending multi-line message | mask, exclude, include, aggregate | called by a tailer |
| `internal/logs` batcher | batch, byte count, stuck flag | receive, flush, retry, abandon, drain | channel, intake client, registry |
| `internal/logs` registry | offsets and cursors in memory, JSON file | load, position, advance, remove, flush by rename | tailers, batcher |
| `internal/logs` journald tailer | journalctl child, cursor | respawn, decode, filter, emit | channel, registry |
| `internal/intake` client | none across calls | post with retries and back-off, fan out to several endpoints | every sender |
| `internal/metrics` aggregator | sample, check and event buffers, contexts | add, accumulate, flush, final drain | DogStatsD, host collectors, intake |
| `internal/dogstatsd` server | listeners | read packets, parse, add | aggregator |
| `internal/process` reporter | previous sample, real-time mode | sample, rates, chunk, post, obey the answer | its own intake |
| `internal/profiling` proxy | HTTP server | forward an upload to every endpoint | profiler clients, intake |
| `profiler` library | one active profiler, its goroutine | start, stop, collect, upload | the proxy |
| `internal/venti`, `internal/hostmeta` | last values | periodic collect and post | intake |
| `internal/hostname`, `internal/config` | none | pure choices | main |
| `internal/host`, `process/collect_*`, `hostmeta/gohai_*` | previous counters | read the kernel | aggregator, reporters |

What is hard about it:

* several goroutines share one bounded channel and one registry, and stop in a
  fixed order while the intake may be down;
* the intake may refuse, fail, or store a payload and lose the answer, and the
  client retries inside one call while the batcher retries across calls;
* the process may be killed at any point, and a restart has only the registry
  file, which is written behind the acknowledgements;
* files are rotated and truncated under the tailer.

What makes each part correct:

* logs: a persisted offset or cursor never passes a line that is not settled; a
  line is settled only after the earlier ones of its file; shutdown ends and
  leaves nothing in flight; a running agent catches up; a path has one tailer,
  and keeps it while its file is there;
* intake: a permanent answer is never retried, a transient one always is within
  the bound, an additional endpoint never changes the primary's outcome;
* metrics: a sample accepted before shutdown is sent or counted as dropped, and
  nothing is counted twice; a rate counts what happened between two good reads;
* processes: a rate compares two samples of the same process; no other
  organisation sees what the primary does not;
* profiler: what is left of a profiler once it is stopped is nothing, and the
  application's own profiles are never touched;
* main: any failure stops everything, everyone is waited for, the failure is
  reported.

The full list of hazards, each at the line where it bites and with the
properties that cover it, is in `PROJECT.json`.

## Modules

| module | role |
|---|---|
| `LogDelivery` | what the logs agent promises of files and of journals: order per source, durable offsets |
| `LogPipeline` | tailers of append-only files, channel, batcher, registry, shutdown, crash and restart |
| `LogTailer` | one path under rotation and truncation: reading, lines, multi-line rules, restart from the registry |
| `LogDiscovery` | which paths are tailed: literal paths, globs, rescans, the sweep, the wait for cancelled tailers |
| `JournaldTailer` | journalctl and its respawns, the cursor through batcher and registry |
| `IntakeCall` | what one call of the intake client promises its caller |
| `Intake` | one fan-out call of the intake client: retry ladders, deadlines, outcome |
| `MetricsPipeline` | DogStatsD listeners, aggregator, flush, final drain, and the stop of both by `main` |
| `MetricSeries` | laws: DogStatsD lines to samples, samples to series, series to payloads |
| `HostRates` | laws: the collectors that diff two reads of counters |
| `HostGauges` | laws: the collectors that add up or divide what they read at once |
| `ProcessReporter` | the two cadences of the process reporter, rates, chunks, posts, the realtime mode |
| `ProcessTable` | laws: what each platform makes of the kernel's process table |
| `ProcessWire` | laws: the protobuf messages and the answer read back |
| `Profiler` | the continuous profiler library, several goroutines and the application on it |
| `ProfilingProxy` | one upload fanned out to several intakes; the server's life |
| `AgentMain` | `cmd/agent`: launch, failures, signals, wait, exit, composed with `ProfilingProxy` |
| `ConfigLoad` | laws: configuration, endpoints and the hostname |
| `...Proofs` | the theorems; `LogSourcesProofs` is about `LogDiscovery` and `JournaldTailer`, `AgentMainProofs` also about `Profiler` and `ConfigLoad`, the laws are with the component that uses them |
| `RecursionFacts` | induction, recursive functions and folds, for the proofs |
| `MC...` | constants for TLC |

How they fit together.  `LogPipeline` takes from `LogTailer` that a tailer hands
over whole messages in file order, and `LogTailer` takes from `LogPipeline` that
messages settle in order, then advance the offset, which is persisted later.
`LogDiscovery` takes from both only that a tailer sends until it returns and is
acknowledged later; it shows that they may assume one tailer per path and a
channel that is closed behind the last sender.  All of them take from `Intake`
what one call can do: `SendLogs` in `LogPipeline` and the posts in
`MetricsPipeline` return in bounded time with one of the outcomes
`Intake!Outcome` distinguishes.  `AgentMain` runs them all, reduced to when they
return; that each returns once the context is cancelled is the `ShutdownEnds` of
its own module.

The modules of laws hold pure operators.  Their statements are about every input
of a bounded set; the MC module of the component that uses them names them as
`Init => law`, so that TLC evaluates them once, in the initial states
(`CollectorsHold`, `SeriesHold`, `ProcessesHold`, `ConfigHolds`).

### LogPipeline and the code

A line is the unit of offset: offset *n* is "just past line *n*".  Files only
grow; rotation is in `LogTailer`.

| variables | code |
|---|---|
| `tpc`, `toff` | position of `tailer.run` in its loop; its `offset` |
| `chan` | `msgs`, the channel made in `Agent.Run` (1000 there, `ChanCap` here) |
| `bpc`, `batch`, `bytes`, `stuck` | position of `batcher.run`; `batch`, `bytesAccum`, `stuck` |
| `held` | the received message `m` while the flush before its append runs |
| `acked` | the loop index of `batcher.send` over the delivered batch |
| `mem`, `disk` | `Registry.offsets`; the registry file |
| `fpc`, `snap` | which `Registry.Flush` is running; the offsets it copied under the lock |
| `main` | where `Agent.Run` stands in its ordered shutdown, and whether the process lives |
| `written`, `delivered` | the files and the primary intake endpoint: the environment |
| `refused`, `skipped` | history: why a line will not be delivered |

One call of `SendLogs` has five outcomes: stored and answered (`SendStored`),
stored but every answer lost (`SendAnswerLost`), stored with the answer lost and
a later try refused (`SendStoredRefused`), refused (`SendRefused`), failed
(`SendFailed`).  The acknowledgement then takes one step per message, because
each `Advance` takes the registry lock anew and a registry flush or a crash may
fall between two of them.  `AfterFlush` is what `batcher.run` does when the flush
closure returns: append the held message, perhaps flush again at once.

A registry flush is two steps, the copy under the lock and the rename; any
failure in between leaves the old file, as does a crash.  The rename is atomic
and the data it exposes is complete: the code does not call `fsync`, so the model
covers a crash of the process, not of the machine.

The global tags, the rendering of a message and the temporary file are left out:
no property is about them.

### LogTailer and the code

A unit is a run of bytes that no step of the tailer splits.  Constants say which
units end a line, are an empty line, match the start pattern of a `multi_line`
rule or match an `exclude_at_match` rule; whether a source has a `multi_line`
rule at all is chosen in `Init`.

| variables | code |
|---|---|
| `files`, `path`, `wfd`, `gens` | the files ever created, the one the path names, the one the application writes: a rotation is `Rename`, `Create`, `Reopen`, in which writes may fall between any two |
| `tpc`, `fd`, `toff`, `partial` | position of `tailer.run`; `f`, `offset`, `partial` |
| `resume` | `fromStart` or a known offset, false only for the first opening without an entry |
| `pending`, `pendingOff` | the processor's buffer and the offset behind it |
| `failed` | the last read of `f` ended in an error, not at the end of the file |
| `hand` | the message inside `tailer.send`; nothing else of the tailer runs meanwhile |
| `chan`, `mem`, `disk`, `main` | `LogPipeline`, reduced to `Deliver`, `Persist`, `Stop`, `Exit`, `Crash`, `Restart` |
| `excluded`, `skipped`, `sent`, `fresh`, the `gen` of a message and an entry | history |

The inner loop of `run` is left at the end of the file (`ReadEOF`) and on a read
error (`ReadError`), whatever is unread then; both go on to the idle flush and the
rotation test.  A tailer whose `send` was given up at shutdown ends (`Drop`), as the
code's `return` from every level does.  Masking rules rewrite content, which no property
looks at.

### Intake and the code

One behaviour is one call.  Time is counted in seconds from its start; a request
takes any of `Durations`, cut by the HTTP timeout and the context.  The
environment answers a request with `ok`, `permanent`, `transient` or nothing and
has stored the payload or not, with two constraints: an accepted payload is
stored, a permanently refused one is not (by that request).  `pc` is the place in
`PostAll`/`PostAllFunc` and `send`; `limit` is the end of the ladder's context;
`answers`, `times`, `started` and `stored` are history.

### MetricsPipeline and the code

| variables | code |
|---|---|
| `net`, `rest` | the socket buffer of a listener; the items of the packet `handlePacket` is in |
| `bound`, `spc` | the open `conns`; position of `Server.Run` |
| `chan`, `dropped` | `samples`, `checks`, `events`; `dropped` |
| `held` | `contexts`, `pendingChecks`, `pendingEvents`, by `BinOf` |
| `out` | the series collected and not yet posted by `SendSeries` |
| `apc`, `final` | position of `Aggregator.Run`; whether its flush is the last |
| `main`, `bindErr` | the context and the exit of `run`; `errc` |
| `accepted`, `early`, `gone` | history: accepted in this order; before the stop; left in a flush in this order |

A context is kept as the sequence of its samples, which is finer than the sum,
the last value or the set the code keeps.  It is posted as one unit: that a
histogram expands to five series which may fall into two payloads changes
nothing the properties look at.  The host series and the heartbeat, collected in
the same flush, are left out.

### LogDiscovery and the code

| variables | code |
|---|---|
| `regular` | the paths that are regular files now: the environment, which changes them between any two steps |
| `tailed` | `tailed` of `Agent.Run`, the map of handles `[fromGlob, missed]` |
| `running`, `dying` | the goroutines of a path in `tailWG`, not cancelled and cancelled |
| `inFlight`, `entries` | its lines in `msgs` or in the batcher; the registry's entries |
| `spc`, `matched` | where `discover` is, at a source or waiting for the ticker; `matched` |
| `main` | where `Agent.Run` is in its shutdown |
| `away`, `gap` | history: away at some moment of this scan; of how many in a row |

`Expand` is one source of the loop, `Sweep` the loop over the map behind it.  The
map is only touched by `discover`, first in `Run` and then in the scan goroutine,
so it needs no lock, in the code or here.

### JournaldTailer and the code

| variables | code |
|---|---|
| `written` | what a journal holds: the environment |
| `pc`, `pos` | `run` and `stream`: reading, pausing, returned; the last entry its journalctl went past |
| `chan`, `bpc`, `batch` | `msgs` and the batcher, as in `LogPipeline` without its failures |
| `cursors`, `disk` | `Registry.cursors`; those in the file |
| `delivered`, `refused`, `skipped` | history: why an entry is settled |

`Selected` is journalctl's reading of the match arguments (`journalctlArgs`),
`shouldDrop` the excludes the tailer applies itself.

### ProcessReporter and the code

A process is its pid and the second it was created; it is always busy, so its
true rate is one.  `lastProc`, `lastRT`, `rtEnabled`, `rtInterval` and `prev` are
the fields of `Reporter`; `pc`, `kind`, `chunk`, `ep` and `try` are where `send`
and `submitter.post` are; `todo` holds the samples not yet posted; `accepted` and
`stored` are history.  A collection may miss processes or fail, and a tick is lost
while one is waiting, as with a Go ticker.  `Observed` is what a collector can tell
of the create time of a process: exactly that, or, of those whose pids are in
`Volatile`, as on macOS and Plan 9, something up to `Wobble` late, and `Unknown` (0 in
the code) as long as the process is younger than `Young`.

### Profiler and the code

`active` is the package's `active` under `mu`; `cpc` and `target` are a caller
between Stop's unlock and its return; `ppc`, `idx`, `on`, `running`, `full` and
`abort` are the locals of `run` and `collect` of each started profiler, which may
still be collecting when the next one is started.  `holder` is the runtime: who it
profiles and traces for, the application included, whose own calls are external.

### AgentMain, ProfilingProxy and the code

`main`, `next` and `result` are the position and result of `run`; `state[c]` is
the goroutine of component *c*; `errc` the slot of capacity one; `notified`
whether signals go to the context or kill.  `server`, `handler`, `turn`, `resp` and
`reply` are `Proxy.Run` and the round trips of each upload; net/http is external
and modelled by what `profiling.go` relies on: a reply is written once, `Shutdown`
waits for the handlers at most its deadline.

### The modules of laws and the code

A file or a packet is the sequence of its lines, a line that of its words, a
structure of the kernel that of the numbers read of it; a quotient is the pair of
its terms, so that nothing is rounded.  The laws compare the translated
functions with a definition of another kind: what happened to the counters
between two reads (`HostRates`), what there is in the host (`HostGauges`), the
definition of a median (`MetricSeries`), what was written (`ProcessWire`), the
processes there are (`ProcessTable`), who is asked to be shipped to
(`ConfigLoad`).

## Runs

| run | question | instance |
|---|---|---|
| `logs_safe` | does an offset pass an unsettled line, does an exit leave anything behind, and is every step a step of `LogDelivery` | 2 files of 2 lines, channel 1, batch 2, cap 3 bytes, lines of 1 and 2 bytes, 1 restart |
| `logs_live` | does the ordered shutdown always end; does a running agent catch up | 1 file of 3 lines, no restart |
| `tailer` | what offsets and messages mean, what a rotation can lose; is the file at the path followed to its end | 4 units, 2 files, 1 truncation, 1 restart, read errors |
| `discovery` | one tailer per path, none stopped wrongly, none left behind, none missing | 2 paths: a literal one that a later glob matches too, and one that two globs meet before its literal source; 3 changes, 2 goroutines per path |
| `journald` | does a cursor pass an entry that is not settled; is every entry settled; is every step a step of `LogDelivery` | 2 journals, 1 exit of journalctl, 1 restart |
| `metrics` | nothing accepted is lost, repeated or reordered before its flush; the stop ends; the laws of the collectors and of the series | 5 items of three kinds in 2 packets, 2 listeners, channels of 2, 1 and 1, 1 context per payload |
| `intake` | the outcome is the primary's, ladders are disciplined and end, an additional endpoint gets its turn unless the primary used up the time | the client's real limits, 4 endpoints, one of which has a bad URL |
| `process` | whose rate is a rate, who keeps its identity, who gets what, does the stop end; the laws of the collectors and of the wire | 2 pids, one of them reused, young processes with no create time, 2 endpoints, 2 tries, 5 seconds |
| `profiler` | what a Stop leaves, the application's profiles, Stop returns | 2 callers, 2 profilers; the default types, others, and a list that names one twice |
| `agent` | who is waited for, what is reported, what an upload is answered; the laws of the configuration | 4 configurable components, 2 uploads, 2 intakes; destinations and keys with and without slashes and blanks |
| `tailer_crash_loses` | violation: a crash passes over lines already sent | 4 units, 2 files, 1 restart |
| `journald_shared_id` | violation: two sources on one cursor | 2 sources of one journal, no restart |

Why the bounds are enough.  With two files of two lines, a channel of one slot
and batches of two, four messages compete for three places, so the channel is
full, a tailer is blocked, a batch is stuck and a message is held, all at once.
Lines of one and two bytes under a cap of three make the byte cap and the size
limit each trigger alone and together.  One restart is enough for an offset
persisted by one run to be used, and overtaken, by the next; what a third run
adds is covered by the proofs, which have no bound on restarts other than an
arbitrary natural number.  `logs_live` uses one file of three lines: one
more than the batch holds, so that a stuck full batch meets a full channel and a
blocked tailer.

Four units in two files are enough for a line to come in two reads or to be cut by
the size limit, for a new message to push out the buffered one, for an unterminated
line to be waiting when the file is rotated or truncated, for an excluded and an empty
line, for a read error before a rotation is noticed, and for the second file to grow
past an offset of the first.  A message joined of several lines takes a fifth unit
and is left to the theorems.

In `discovery` three changes of the files make a rotation (a file vanishes and
appears again) that two scans in a row see half done, and a file that is gone
for good beside it; of the two paths one is met first by its literal source and the
other by two globs, between whose expansions the files change too; two
goroutines per path are one that was cancelled and has
not returned and its successor.  In `journald` a respawn finds entries in the
channel, in the batch and acknowledged but not on disk.

In `metrics` three samples compete for two places, so that samples are dropped,
one context receives from both listeners, and a flush takes two payloads.  In
`intake` the times are the real ones and requests last 2 seconds, 6 (longer than an
additional endpoint has) or until they time out: a ladder ends by an answer, by its
tries, in a sleep and in a request, and the three additional endpoints are one whose
turn is at once, one that may wait for a hanging one, and one without a good URL.

In `process` five seconds hold two lists with realtime updates between them, a
process that ends and is followed by another of its pid within one interval, one that
is collected young and again when it is not, and a list that is posted while the next
is due.  In `profiler` one profiler is still
collecting while the second is started, and both callers are in Stop at once.
In `agent` two components can fail together and a third launch fail after them.

Symmetry is used in `logs_safe`, whose constants do not tell the files apart and
which has no liveness property.  Deadlock is not checked where the system stops:
`metrics`, `process` and `agent` (an exit), `discovery` and `journald` (the
shutdown is over and the environment has used its bounds).  `intake` checks it:
a call that has returned steps to itself, so no deadlock means that no call hangs.

### Fairness

`LogPipeline!FairSpec` says that every goroutine keeps running, that a sender
blocked on a Go channel is served in turn, and that a `select` choosing at random
among ready cases does not neglect one of them for ever; hence strong fairness
for the steps that are offered again and again (a send, a receive, the ticker,
the ctx case) and weak fairness for the others.  `SendLogs` always returns
because its context has a deadline of 30 seconds, so `Send` is weakly fair with
any outcome: `ShutdownEnds` needs nothing of the intake.  `CatchesUp` has
`IntakeRecovers` as its premise: a batch tried again and again is at some time
stored and answered.  Writers and crashes have no fairness.

`LogTailer!LiveSpec`: the tailer's goroutine keeps running and the channel is
drained (what `CatchesUp` shows).  `Read` is strongly fair: a file that can be read
again and again is not met by an error every time.  `IdleFlush` is strongly fair because the flush
timeout is the poll interval: a message still buffered at the second poll is
old enough.  Rotation tools and writers have no fairness.

`LogDiscovery!FairSpec`: the ticker ticks, a scan ends, and a cancelled tailer
returns: it never blocks for ever on the channel, which the batcher drains and
whose send gives up on the cancellation.  Files, acknowledgements and the
shutdown owe nothing.

`JournaldTailer!JournalFairSpec`: journalctl is started and prints what there is, a
blocked send is served in turn (`SF` on `Handle`), the batcher goes on.
journalctl's exits, stops and crashes owe nothing.

`MetricsPipeline!FairSpec`: as for the logs; the cases of the aggregator's
`select` are strongly fair, a post returns within 30 seconds whatever the intake
does, clients and signals owe nothing.  `ProcessReporter!FairSpec`: the goroutine
goes on, and the ctx case of its `select` is not neglected for ever.
`Profiler!Fairness`: goroutines go on, the period passes, an upload ends by its
timeout of 30 seconds; the ctx case of the `select` in `collect` and `run` is
strongly fair for the same reason.  `AgentMain!FairSpec`: `run` and the
goroutines go on, and each component returns once the context is cancelled.

### Disagreements with the documentation

* `tailer_crash_loses`: README.md says a crash never loses a line.  A file that
  has no registry entry yet is started at its end after a crash, past lines the
  agent had sent (`tailer.go:65-69`); after a rotation, the old file's offset is
  applied to the new one (`tailer.go:72`).
* `journald_shared_id`: "a restart resumes exactly where it left off
  (at-least-once ...)" does not hold of two sources of the default journal, which
  share one cursor (`journald_linux.go:60`).

Met while modelling, with no run of their own:

* `agent.go:282` ("keep the payload under the intake's size cap"): the flush made
  for that may fail, and the message is appended anyway.
* `agent.go:297-298`: a refused batch is "never acknowledged, so a restart
  re-reads it", but the next delivered batch of the same file moves the offset
  past it.
* `tailer.go:208`: the size of the file is compared with the end of the last
  complete line, not with what was read; a truncation in between is not noticed.
* `tailer.go:87` leaves the read loop on a read error as at the end of the file.  If
  the path is found rotated right after it, the old file is closed with bytes unread,
  and `tailer.go:101-102` speaks only of an unterminated line and a buffered message
  (`RotatedFileReadToEnd` excepts it: `failed`).
* `intake.go:160-161` ("one org being down never blocks the others"): the others wait
  for it, up to `AdditionalTimeout` each, and a primary that hangs uses up the caller's
  context, so that the additional endpoints are sent nothing.
  `TurnComes` says when they are not starved.
* `registry.go:15-16` says that offsets only move forward, and a rotation moves
  them back; `registry.go:42-43` says that a missing or corrupt registry re-reads from
  the start, and the tailer starts at the end.
* `registry.go:119-121` says of cursors that "the last write is the furthest
  read": after a respawn the entries in flight are acknowledged twice, the second
  time behind the first.
* A journald source that starts at the end and whose journalctl exits before the
  first acknowledgement is started at the end again, past entries it had printed
  (`JournaldTailer!Spawn`, `skipped`).
* `agent.go:165` ("Literal paths stay"): a literal path that a glob configured
  before it matches first is in the map as found by the glob, is swept after two scans
  without it, and has no tailer until its literal source has its turn in the next
  scan.  `LiteralStays` says exactly that, and `discovery` has such a path.
* `config.go:256-260` ("never double-ships to one org with one key"): destinations
  are compared as they are written.  The primary's API key is not trimmed of blanks,
  nor `profiling_dd_url` of a slash (345-347), and the additional ones are (268, 363), so
  that an intake the settings name twice is shipped to twice (`ConfigLoad!Reached`,
  `EndpointsOf`).  Other ways to write one host, such as an explicit port or capital letters,
  are compared as text too and are not modelled.
* `profiler.go:343-347`: a list of `WithProfileTypes` that names `cpu` twice starts the CPU
  profile twice; the second start fails, `cpuOn` becomes false, and the profile is left
  running, after `Stop` too (`QuietAfterStop` excepts it: `Repeated`).
* `server.go:56-57` says that the DogStatsD server fails only when no listener
  could be started, and it fails, closing the UDP listener, when the Unix
  socket cannot be bound (`BindFail` with `bound = 1`).
* A service check whose message holds one pipe, as its last character, loses it
  (`MetricSeries!FramesTrue` says so).
* `collectors_netbsd.go:13` and `collectors_openbsd.go:13` say that per-device
  disk I/O is not collected; both append `&bsdIO{}`.
* `process.go:171-175` says that only Plan 9 derives create times from an age and
  that they wobble by a clock tick.  macOS derives them too (`darwinps.go:51-53`) and
  they wobble by up to a second; a process younger than a second, on Plan 9 than a
  tick, has create time 0.  A process first collected that young is reported as another
  one at the next collection, and two young processes of one pid are taken for
  one (`IdentityKept` and `RateIsTrue` except both: `Unknown`).  A Linux without `btime` in
  `/proc/stat` and Windows processes that cannot be opened have 0 at any age, which is
  not modelled.

## Proofs

### LogPipelineProofs

`LogPipelineProofs` proves, for any set of files and any value of the constants
within their named assumptions (`ChanCap`, `MaxSize` positive; the rest naturals):
`TypeCorrect`, `RegistryNeverAhead`, `BatchBounded`, `ShutdownDrains`,
`ExitIsPersisted` and `ImplementsDelivery`.  All rest on `Invariance`, the invariant
`IInv`:

* `PipeOrdered`: batch, held message and channel, in this order, are one queue
  in which the lines of each source increase.  Without it nothing prevents an
  acknowledgement from moving an offset back or past a line still queued.
* `Covered`: the lines up to a tailer's offset are settled or in the queue.  This
  is what a dropped line would break, and why `tailer.send` reports the drop.
* `Chain`: disk <= snapshot <= memory < every unacknowledged message of the
  source, and all lines up to memory are settled.  `NeverAhead` alone is not
  inductive: the step that acknowledges message *n* needs that no line before *n*
  is still in the queue, which is `PipeOrdered` with `Covered`.
* `BatcherInv`, `ShutdownInv`: what the control states say of the data: a loop
  that reads has room in its batch, an acknowledged batch has been delivered, a
  batcher that returned without abandoning has emptied a closed channel.
* `LastFlush`, beside `IInv` for `ExitIsPersisted`: while `Run` is in its last
  flush, the batcher is over and what the flush writes is what memory holds.  The
  property speaks of the step of the exit; that no acknowledgement comes between
  the snapshot and the rename is what the invariant adds.

The proof has one lemma per action or group of actions, on top of lemmas on
queues (`AppendLines`, `HeadTailLines`, `OrderedAppend`, `BeforeAppendLeft`, ...)
and two on the continuation of a flush (`AfterFlushQueues`,
`AfterFlushCovered`).  The refinement maps `durable` to `disk`; a delivery is in
order because the batch is the front of the ordered queue (`BatchInOrder`), and
`Persist` is monotone by `Chain`.

### LogTailerProofs

For any units and rules, any sizes and any number of rotations and restarts:
`Typing`, `Bounded`, `OffsetsMeanContent`, `EntriesBehind` and `ReadToEnd`, from
`IInv`.  The first two and `ReadToEnd` hold through truncations too; `ReadToEnd` has
the exception of a last read that failed.

* `Places`: what is held where: a file is open in the states that read, nothing is
  buffered while the tailer waits for a file, and `partial` is within the line
  limit except while lines are emitted, when one read comes on top.
* `Unread`: between an end of file and the next read, what lies behind the read
  position is `fresh`, unless `failed` says that the loop was left by an error.  That is
  what a rotation may lose, and all it may lose.
* `Runs`: every message on its way, what was read and what is buffered are runs of
  one file, unit by unit, which a write keeps (`RunGrows`).
* `Covered`: every offset, of the registry, of a message, of the tailer, has before
  it only what is done or carried by what settles no later than the offset.
  `EntryNeverAhead` speaks of the registry alone; a delivery moves an offset there
  from the channel, a send from the hand, a line from the buffer, so that the same
  must hold of each of them, with what is in front of it.

A line goes through `Feed`, whose three outcomes `FeedFacts` reduces to one
statement (`Fed`): what was buffered and the line are afterwards excluded, in hand or
buffered.  `LineStep` is the argument for every step that takes a line.

### IntakeProofs

For any number of endpoints, any retry limits, deadlines and request durations
within `Intake`'s named assumptions: `TypeCorrect`, `PrimaryDecides`,
`TurnsCome`, `AdditionalIsBounded` and `RetriesAreDisciplined`, all from the
invariant `IInv`:

* `InTurn`: an endpoint whose turn has not come has left no trace, so a ladder
  starts from nothing.
* `LadderInv`: the running ladder's limit is the one its endpoint has, it is
  within it, its last answer settles nothing, and it has an answer as soon as it
  has been given time.  The disjunction in its last but one conjunct says that a ladder that
  starts before the deadline makes its first request at once.
* `Latched`: when the primary's ladder is over, the result kept is the one its
  last answer calls for, and nothing changes it afterwards.
* `TurnsOver`: an endpoint whose turn is over was sent the payload (`Tried`), if its
  turn came before the deadline.
* `InTime`, beside `IInv` for `TurnsCome`: once the primary is done, the turn of each
  additional endpoint comes no later than `TurnBy`, an `AdditionalTimeout` for each of
  those before it.  With `TurnsOver` it gives the property, which does not mention when
  a turn came: what can starve an endpoint is the primary alone.
* `RetryInv`, beside `IInv` for `RetriesAreDisciplined`: a ladder that may still
  send has made only requests that settled nothing, its next pause is the doubled
  one, and the last pause is behind it.  `LadderDisciplined` looks at the answers
  and times that are there; the invariant says how long the ladder has waited when
  it adds the next.

The pauses are `Pow2` times the back-off, and `Pow2` is a recursive function: that
it doubles (`Pow2Facts`) takes its existence and an induction, for which see
"Induction" below.

`ImplementsCall` says that a call, step by step, is a step of `IntakeCall` or none:
the primary alone decides, and has decided before another endpoint is sent the
payload; what is reported as delivered is stored by the primary; and a call
returns only when everybody has been offered the payload.  `IntakeCall` knows no
ladders: the refinement hides them and maps the result to the outcome, as of the end
of the primary's turn (`Told`).

### MetricsPipelineProofs

For any items, packets, listeners, capacities and payload sizes: `TypeCorrect`,
`FinalFlushCovered` and `FlushedInOrder`, from `IInv`:

* `EarlyKept`: an item accepted before the context is cancelled is at any time
  in its channel, in its context or list, collected, or gone; in the last flush it
  can only be where that flush has still to look (`StillToPost`).  This is what
  breaks if the drain ends on one empty channel, or if a failed series post ends
  the flush.
* `StageInv`: what the aggregator's place in its loop says: the last flush
  starts only after the context is cancelled, so that nothing that the listeners
  add during it is early, and nothing is left collected outside `SendSeries`.
* `InOrder(b)`, for `FlushedInOrder`: the items that were accepted for a context or
  a list are, in this order, those gone, those collected, those held and those in
  the channel.  An invariant as strong as this leaves each step to show that it
  moves an item from the front of one part to the end of the one before it.

`OfBin`, the items of one context out of a channel that several share, is a recursive
function over the length of the channel.  `OfBinAppend` and `OfBinCons` say what it does
at the two ends of a channel; the second is an induction over sequences.

About what the collectors and the parser make of their input, for every input:

* `RatesCountEvents` and `RatesComplete` (`HostRates`): a history of collections, in which
  counters count, reset and come and go and reads fail, is compared with what the
  collector ships: each rate counts events since the last good read (`Baseline`) and
  never more than happened, and none that can be given is left out.  The argument
  is that the collector's state is that read (an induction over the collections).
* `DisksBounded` (`HostRates`): no negative rate, no division by zero, no disk busy
  for more than all of the time, whichever of its counters wrap or go back between two
  reads.  The premise `DiskRead` is that sectors do so only with the operations:
  `diskIOSeries` clamps the times and the merges, which the kernel wraps on its own, and
  leaves out a disk whose operations went back, but does not clamp sectors.
* `MountsOnce` and `DisksAddUp` (`HostGauges`): one report for each device, by its
  first mount that can be reported, and space used, free and reserved that add up,
  for counts of blocks as statfs gives them (`Sensible`).
* `MemoryAccounted` (`HostGauges`): what Plan 9 reports as free and as used adds up to
  the memory, and to the swap's store, whatever lines `/dev/swap` has and however far its
  counts are from what there is (`CappedRest`).
* `GraphReadBack` (`HostRates`): of a counter of 32 bits that venti prints signed, the
  greatest value that was sampled is read.
* `EventsFramed` and `ParsedWhole` (`MetricSeries`): an event's title and text are what was
  sent, pipes and all, whatever fields follow; a packed line gives a sample for each of its
  values, all of one context, or none.
* `PayloadsInOrder` (`MetricSeries`): the payloads of a flush carry its series in order and
  once, up to the first payload that fails, and lack only those with a point that is no
  number.  `MarshalSeries` is a fold that distributes over concatenation (`MarshalJoin`);
  `Chunks` says where the payloads begin and end, the last one included; the theorem is an
  induction over the payloads (`Carried`).

### LogSourcesProofs

About `LogDiscovery`, for any sources (a literal one names one path), any files and
any bounds: `TailedOnce`, `ClosedQuiet`, `LiveRotation` and `LiteralPathsStay`, from
`IInv`:

* `ScanOver`: the shutdown goes on only behind the scan goroutine, so no tailer
  is started once `Run` waits for them.
* `Seen`: what a sweep knows of a path it finds missing.  Every glob expanded so
  far in this scan has marked what it names or found it away, and a handle with
  `missed = 1` was away in the scan before.  `RotationSurvives` speaks of one
  step, but that the step is harmless depends on all the expansions of two
  scans, which is what `Seen` carries to it (`SweptFacts`).
* `LiteralInv`, for `LiteralPathsStay`: a literal path is tailed on behalf of a glob only
  if a glob meets it first (`GlobFirst`), and is tailed from the turn of its
  literal source on.  A sweep then takes only the former, and what it takes was away in
  two scans (`SweptFacts` again).  No order of the sources is assumed.

About `JournaldTailer`, for any journals and any sources with ids of their own
(`OwnIds`; without it the property is false, as `journald_shared_id` shows):
`CursorsLeaveNoGap`, from `JournalInv`:

* `PosInv`: what journalctl has gone past is settled or in the queue.
* `QueueInv`: what precedes an entry of the queue is settled or in front of it in
  the queue.  An acknowledgement sets the cursor to its entry, behind or ahead of
  where it was, so that this, and no order of the queue, is what makes it safe: after a
  respawn from the cursor the queue holds entries twice and out of order.
* `BoundInv`: nothing is ahead of the journal, so that an entry written now is
  ahead of every cursor and position; and a batch that is acknowledged was delivered.

`JournalsDeliver` is the refinement of `LogDelivery`, whose sources are here journal
sources and whose messages are the entries a source wants.  The cursor on disk is
`durable`, and may move back (`MayGoBack`): a respawn reads again what is in the queue,
and acknowledging it again sets the cursor to an earlier entry.  What is not selected
or is excluded is `Unwanted`.  An entry is settled in its turn because of `QueueInv`;
that a journal with a cursor is not started at its end again is `StartInv`, beside it.

`JournaldTailer` names its specification `JournalSpec`, and so on, because one module
extends both; so does `Profiler`, for `AgentMainProofs`.

### AgentMainProofs

For any choice of components, any uploads and any number of intakes:
`AnsweredByPrimary`, `WaitsForAll` and `NoFailureLost`.  The assumptions on the
constants are that `None` is no answer and no error, and that only components are
configured.  The invariant has two halves that meet in `Proxy`:

* of the proxy, `Forwarding`: an upload at target `turn` has been offered to the
  targets before it and to no other, so that when the last has answered it is with
  all of them, and one that could not be buffered is with none.
* of `run`, `Pending` (what is to be launched has not run), `Coupled` (the proxy's
  goroutine has returned only behind its server) and `Slot`: as long as the error
  slot is empty every component that failed is still to report.  When `wg.Wait`
  is over none is, so that an empty slot means no failure.

Of `Profiler`, for any callers, profilers and options: `ProfilerInvariant`, `Quiet` and
`AppLeftAlone`.  `HoldsWhatItStarted` says that what a collection takes to be on is on
for it, and that nothing else is, but a span its list of types names twice
(`Repeated`); `NoOrphan` that a goroutine that is alive is the active one or somebody's to
stop, `Sampled` that the rates are in force; `Newborn` (a profiler not started has
nothing) completes them.

Of `ConfigLoad`, for any configuration:

* `ShippedOnce` and `LogsShippedOnce`: whatever the dual-shipping settings name, the
  endpoints of metrics and metadata, processes, profiling and logs are the primary first,
  then every other that has a key (and a host), none twice as it is written.  Of what is
  reached (`Reached`), none is twice there with one key but the primary's, and that
  exactly if a setting names it and it is written otherwise.  `AddNew` is a recursive
  function over the entries; `Shipped` is what holds after each of them.
* `OverridesLaw`: a setting is what the last of its variables that can be read says.
  `LastSaid` is an induction over the steps of `applyEnv`.
* `SourcesLaw`: each source is read or skipped as often as the considered files declare
  it.  The lemmas about `Picked` (a filter) say that only the elements matter
  (`PickedAgree`), that picking twice is picking once (`PickedTwice`), and that it
  distributes over concatenation (`PickedJoin`); `PlacedTwice` counts, file by file.
* `HostnameLaw`: a chosen name before one that is found, "unknown" only for none.

`ConfigLoads` states `ConfigHolds`, the same laws over the small inputs TLC
evaluates, as their consequence.

### ProcessReporterProofs

For any pids, cadences, chunk sizes, tries and endpoints, and any wobble of the
observed create times below the slack, with none for processes younger than
`Young`: `TrueRates`, `PinnedIdentity`, `PrimaryFirst`
and `Typing`.

* `Reported` with `Lives`: what the previous collection holds of a pid belongs to one
  process (`Of`), its create time is within the wobble of that process's, or unknown
  and the process was young (`Told`, `ObservedFacts`), and the
  last process with the pid is that one or was created the slack and the wobble later.
  From it `PinFacts`: a create time is pinned exactly for the same process, so that
  `rate` compares counters only of one process.  Both `RateIsTrue` and `IdentityKept`
  rest on it.  That a pid is not reused within the slack (`Reusable`) and that the
  wobble is below it (`TimesAssumption`) are the code's own premises: a pid reused
  sooner would be pinned to the process before it, and a wider wobble would give one
  process two create times.
* `Offered`: while a chunk is with an additional endpoint the primary has accepted it,
  through retries, refusals and sleeps that are cut short.

About the process tables the reporter is given (`ProcessTable`), for every input:
`CreateTimesNear` discharges, for macOS and Plan 9, what `Observed` and `TimesAssumption`
say: a create time derived from an age in whole seconds or ticks is 0 (unknown)
exactly below the first second or tick of age, and from then on at most 999 or 9
milliseconds behind the birth, so that any two are within the slack.
`FetchedWhole` says that a table fetched while it
grows is whole or is not used, and `SlopFits` that the room the BSDs add holds sixteen
more processes.  About the messages (`ProcessWire`), `FieldsReadBack`: wherever in a
message they stand, numbers of up to seventy bits (ten bytes of varint), byte fields
and floats are read back as they were written, and the reader goes on behind them.  It
rests on what `uvarint` writes (`UvarintIs`, `TenBytes`) and on `VarintReads`, an
induction over the bytes still to come.

### Induction

The library's induction theorems take a predicate as a parameter, which the provers
cannot instantiate.  Where a proof needs an induction the predicate is a set:
`InductionOnNat` says that a set of naturals that has 0 and with each number the next
is all of them (the well-foundedness of `<`, which the library has), `InductionOnSeq`
the same of a set of sequences, from it.  `RecursionOnNat`
gives, of a first value and a function for the next, the function they define; a
recursive definition of the model is that function.  `FoldOf` is that of a function
that runs through a sequence; what a filter, a count or a flattening makes of a
sequence is a fold, with `FoldAppend` for one more element.  All this is in
`RecursionFacts`.

### Only model-checked

Liveness is out of the prover's reach: `ShutdownEnds`, `CatchesUp`, `FollowsPath`,
`Flushed`, `StaysTailed`, `AllSettled`, `StopReturns`, `AgentEnds`.

Every other property of the runs is a theorem, except three of the four that hold laws
(`CollectorsHold`, `SeriesHold`, `ProcessesHold`).  TLC evaluates them over bounded inputs;
the theorems above cover parts of each for every input.  What is left is about folds,
filters and sorts that the community modules define with operators as parameters, which
the provers cannot instantiate: the shares of CPU times, histogram quantiles, the
grouping of events, the fields of a whole protobuf message, and the text of an elapsed time.

## Not modelled, and the plan

Not modelled:

* the rendering of a log message, compression, headers, multipart bodies, YAML,
  JSON: formats no property is about;
* `internal/hostmeta`: a reporter that keeps no state, posts three payloads of
  copied facts at each tick by calls `Intake` models, and the platform files it
  copies them from;
* the loop of `internal/venti`, a ticker around the two scrapes `HostRates` and
  `HostGauges` have;
* system calls, user names, gauges that are one number of a file in another unit;
* a crash of the machine (the code does not call `fsync`);
* a registry file that is malformed or cannot be read (`registry.go:50-58`): it loads as
  an empty registry, every file then starts at its end, and the durable offsets are
  lost.  The agent's own writes are atomic renames, so it takes another writer;
* packaging, end-to-end scripts and examples.

What would come next is the laws that are only model-checked, once their folds and
filters are written as recursive functions that the proofs can reason about, as
`AddNew` and `varint` are.
