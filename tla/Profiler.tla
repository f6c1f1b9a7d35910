----------------------------- MODULE Profiler -----------------------------
(***************************************************************************)
(* The continuous profiler library, profiler/profiler.go: goroutines that  *)
(* call Start and Stop at any time, one collection goroutine per started   *)
(* profiler, and the two process-wide resources a collection spans a       *)
(* period with, the runtime's CPU profile and its execution trace, which   *)
(* the program may also use for itself.                                    *)
(*                                                                         *)
(* The period is one step that may come at any time.  What the profiles    *)
(* hold and what an upload is answered are left out: run goes on with the  *)
(* next collection whatever upload returns.                                *)
(***************************************************************************)
EXTENDS Naturals, Sequences

CONSTANTS
  Callers,   \* the goroutines that call Start and Stop
  Profilers, \* the profilers they may create: bounds the Starts
  Options,   \* what Start may be given: [given, types, mutexFraction, blockRate]
  GOOS,      \* runtime.GOOS
  App,       \* the program itself, profiling or tracing by its own means
  NoProfiler

Types == {"cpu", "heap", "goroutine", "mutex", "block", "trace"}
\* The types that span a period and of which a process has only one.
Spans == {"cpu", "trace"}

ASSUME ActorsAssumption == App \notin Profilers /\ NoProfiler \notin Profilers \cup {App}
ASSUME OptionsAssumption ==
  Options \subseteq [given : BOOLEAN, types : Seq(Types), mutexFraction : Nat, blockRate : Nat]

VARIABLES
  active,    \* the package's active profiler
  rates,     \* the runtime's mutex and block sampling rates
  cpc,       \* where each caller is in Stop
  target,    \* the profiler that its Stop took
  types,     \* cfg.types of each profiler
  cancelled, \* its context is cancelled
  ppc,       \* where its goroutine is
  idx,       \* position in types of the next type collect starts
  on,        \* cpuOn and traceOn
  running,   \* the trace is started and not yet stopped by stopTrace
  full,      \* the trace writer closed its channel
  abort,     \* collect is returning ctx.Err()
  holder     \* holder[r]: who the runtime is running r for

callerVars == <<cpc, target>>
collectVars == <<idx, on, running, full, abort>>
profilerVars == <<active, rates, callerVars, types, cancelled, ppc, collectVars, holder>>

ProfilerTypeOK ==
  /\ active \in Profilers \cup {NoProfiler}
  /\ rates \in [{"mutex", "block"} -> Nat]
  /\ cpc \in [Callers -> {"idle", "cancel", "wait"}]
  /\ target \in [Callers -> Profilers \cup {NoProfiler}]
  /\ types \in [Profilers -> Seq(Types)]
  /\ cancelled \in [Profilers -> BOOLEAN]
  /\ ppc \in [Profilers -> {"unborn", "start", "wait", "stopcpu", "stoptrace", "upload", "exited"}]
  /\ idx \in [Profilers -> Nat \ {0}]
  /\ on \in [Profilers -> SUBSET Spans]
  /\ running \in [Profilers -> BOOLEAN]
  /\ full \in [Profilers -> BOOLEAN]
  /\ abort \in [Profilers -> BOOLEAN]
  /\ holder \in [Spans -> Profilers \cup {App, NoProfiler}]

Has(ts, t) == \E n \in DOMAIN ts : ts[n] = t
ProfilerAlive(p) == ppc[p] \notin {"unborn", "exited"}

defaultMutexFraction == 10
defaultBlockRate == 100000000

\* newConfig: the types collected and the rates, once the options are applied.
defaultProfileTypes ==
  IF GOOS = "plan9" THEN <<"heap", "goroutine">> ELSE <<"cpu", "heap", "goroutine">>
newConfig(o) ==
  LET ts == IF o.given THEN o.types ELSE defaultProfileTypes
      Rate(given, t, default) == IF given = 0 /\ Has(ts, t) THEN default ELSE given
  IN [types |-> ts,
      mutex |-> Rate(o.mutexFraction, "mutex", defaultMutexFraction),
      block |-> Rate(o.blockRate, "block", defaultBlockRate)]

ProfilerInit ==
  /\ active = NoProfiler /\ rates = [k \in {"mutex", "block"} |-> 0]
  /\ cpc = [c \in Callers |-> "idle"] /\ target = [c \in Callers |-> NoProfiler]
  /\ types = [p \in Profilers |-> <<>>] /\ cancelled = [p \in Profilers |-> FALSE]
  /\ ppc = [p \in Profilers |-> "unborn"]
  /\ idx = [p \in Profilers |-> 1] /\ on = [p \in Profilers |-> {}]
  /\ running = [p \in Profilers |-> FALSE] /\ full = [p \in Profilers |-> FALSE]
  /\ abort = [p \in Profilers |-> FALSE]
  /\ holder = [r \in Spans |-> NoProfiler]

----------------------------------------------------------------------------
(* Start and Stop.  A Start while active is set, and a Stop while it is    *)
(* not, change nothing.  Start runs under the mutex from its test to its   *)
(* end, Stop only takes the active profiler under it.                      *)

Start(c) ==
  /\ cpc[c] = "idle" /\ active = NoProfiler
  /\ \E p \in Profilers, o \in Options :
       LET cfg == newConfig(o) IN
       /\ ppc[p] = "unborn"
       /\ active' = p
       /\ types' = [types EXCEPT ![p] = cfg.types]
       /\ rates' = [k \in {"mutex", "block"} |-> IF cfg[k] > 0 THEN cfg[k] ELSE rates[k]]
       /\ ppc' = [ppc EXCEPT ![p] = "start"]
  /\ UNCHANGED <<callerVars, cancelled, collectVars, holder>>

StopTake(c) ==
  /\ cpc[c] = "idle" /\ active # NoProfiler
  /\ target' = [target EXCEPT ![c] = active]
  /\ active' = NoProfiler
  /\ cpc' = [cpc EXCEPT ![c] = "cancel"]
  /\ UNCHANGED <<rates, types, cancelled, ppc, collectVars, holder>>

StopCancel(c) ==
  /\ cpc[c] = "cancel"
  /\ cancelled' = [cancelled EXCEPT ![target[c]] = TRUE]
  /\ cpc' = [cpc EXCEPT ![c] = "wait"]
  /\ UNCHANGED <<active, rates, target, types, ppc, collectVars, holder>>

\* Mutation of StopReturn: Stop does not wait for done.
StopReturnAtOnce(c) ==
  /\ cpc[c] = "wait"
  /\ cpc' = [cpc EXCEPT ![c] = "idle"]
  /\ target' = [target EXCEPT ![c] = NoProfiler]
  /\ UNCHANGED <<active, rates, types, cancelled, ppc, collectVars, holder>>

StopReturn(c) ==
  /\ cpc[c] = "wait" /\ ppc[target[c]] = "exited"
  /\ cpc' = [cpc EXCEPT ![c] = "idle"]
  /\ target' = [target EXCEPT ![c] = NoProfiler]
  /\ UNCHANGED <<active, rates, types, cancelled, ppc, collectVars, holder>>

----------------------------------------------------------------------------
(* collect.                                                                *)

\* Starting a span fails while the runtime runs one already, for anybody.
StartType(p) ==
  /\ ppc[p] = "start" /\ idx[p] <= Len(types[p])
  /\ idx' = [idx EXCEPT ![p] = @ + 1]
  /\ LET t == types[p][idx[p]] IN
       \/ t \notin Spans /\ UNCHANGED <<on, holder>>
       \/ /\ t \in Spans /\ holder[t] = NoProfiler
          /\ holder' = [holder EXCEPT ![t] = p]
          /\ on' = [on EXCEPT ![p] = @ \cup {t}]
       \/ /\ t \in Spans /\ holder[t] # NoProfiler
          /\ on' = [on EXCEPT ![p] = @ \ {t}]
          /\ UNCHANGED holder
  /\ UNCHANGED <<active, rates, callerVars, types, cancelled, ppc, running, full, abort>>

BeginWait(p) ==
  /\ ppc[p] = "start" /\ idx[p] > Len(types[p])
  /\ running' = [running EXCEPT ![p] = "trace" \in on[p]]
  /\ ppc' = [ppc EXCEPT ![p] = "wait"]
  /\ UNCHANGED <<active, rates, callerVars, types, cancelled, idx, on, full, abort, holder>>

\* traceWriter.Write, on the runtime's trace reader.
TraceFills(p) ==
  /\ holder["trace"] = p /\ ~full[p]
  /\ full' = [full EXCEPT ![p] = TRUE]
  /\ UNCHANGED <<active, rates, callerVars, types, cancelled, ppc, idx, on, running, abort, holder>>

\* trace.Stop, whoever started the trace.
StopTrace(p) ==
  /\ holder' = IF running[p] THEN [holder EXCEPT !["trace"] = NoProfiler] ELSE holder
  /\ running' = [running EXCEPT ![p] = FALSE]

\* case <-full: a channel that is nil unless the trace is running.
TraceFull(p) ==
  /\ ppc[p] = "wait" /\ full[p] /\ running[p]
  /\ StopTrace(p)
  /\ UNCHANGED <<active, rates, callerVars, types, cancelled, ppc, idx, on, full, abort>>

\* case <-deadline and case <-ctx.Done().
Deadline(p) ==
  /\ ppc[p] = "wait"
  /\ ppc' = [ppc EXCEPT ![p] = "stopcpu"]
  /\ UNCHANGED <<active, rates, callerVars, types, cancelled, collectVars, holder>>

\* Mutation of Cancelled: The wait ignores the cancellation when the trace is running.
CancelledUnlessTracing(p) ==
  /\ ppc[p] = "wait" /\ cancelled[p] /\ ~running[p]
  /\ abort' = [abort EXCEPT ![p] = TRUE]
  /\ ppc' = [ppc EXCEPT ![p] = "stopcpu"]
  /\ UNCHANGED <<active, rates, callerVars, types, cancelled, idx, on, running, full, holder>>

Cancelled(p) ==
  /\ ppc[p] = "wait" /\ cancelled[p]
  /\ abort' = [abort EXCEPT ![p] = TRUE]
  /\ ppc' = [ppc EXCEPT ![p] = "stopcpu"]
  /\ UNCHANGED <<active, rates, callerVars, types, cancelled, idx, on, running, full, holder>>

\* Mutation of StopCPU: The CPU profile is stopped without asking whether it was started.
StopCPUAlways(p) ==
  /\ ppc[p] = "stopcpu"
  /\ holder' = [holder EXCEPT !["cpu"] = NoProfiler]
  /\ ppc' = [ppc EXCEPT ![p] = "stoptrace"]
  /\ UNCHANGED <<active, rates, callerVars, types, cancelled, collectVars>>

StopCPU(p) ==
  /\ ppc[p] = "stopcpu"
  /\ holder' = IF "cpu" \in on[p] THEN [holder EXCEPT !["cpu"] = NoProfiler] ELSE holder
  /\ ppc' = [ppc EXCEPT ![p] = "stoptrace"]
  /\ UNCHANGED <<active, rates, callerVars, types, cancelled, collectVars>>

\* The end of collect: its error ends the goroutine and closes done; otherwise
\* the profiles are snapshot and uploaded.
EndCollect(p) ==
  /\ ppc[p] = "stoptrace"
  /\ StopTrace(p)
  /\ ppc' = [ppc EXCEPT ![p] = IF abort[p] THEN "exited" ELSE "upload"]
  /\ UNCHANGED <<active, rates, callerVars, types, cancelled, idx, on, full, abort>>

\* The upload ends, with an answer, at its timeout or because it is cancelled,
\* and the next collection begins with new buffers.
Upload(p) ==
  /\ ppc[p] = "upload"
  /\ idx' = [idx EXCEPT ![p] = 1]
  /\ on' = [on EXCEPT ![p] = {}]
  /\ full' = [full EXCEPT ![p] = FALSE]
  /\ ppc' = [ppc EXCEPT ![p] = "start"]
  /\ UNCHANGED <<active, rates, callerVars, types, cancelled, running, abort, holder>>

----------------------------------------------------------------------------
(* The program's own use of the runtime's profile and trace.               *)

AppStarts(r) ==
  /\ holder[r] = NoProfiler
  /\ holder' = [holder EXCEPT ![r] = App]
  /\ UNCHANGED <<active, rates, callerVars, types, cancelled, ppc, collectVars>>

AppStops(r) ==
  /\ holder[r] = App
  /\ holder' = [holder EXCEPT ![r] = NoProfiler]
  /\ UNCHANGED <<active, rates, callerVars, types, cancelled, ppc, collectVars>>

----------------------------------------------------------------------------
Collect(p) ==
  \/ StartType(p) \/ BeginWait(p) \/ TraceFull(p) \/ Deadline(p) \/ Cancelled(p)
  \/ StopCPU(p) \/ EndCollect(p) \/ Upload(p)
Stop(c) == StopTake(c) \/ StopCancel(c) \/ StopReturn(c)

ProfilerNext ==
  \/ \E c \in Callers : Start(c) \/ Stop(c)
  \/ \E p \in Profilers : Collect(p) \/ TraceFills(p)
  \/ \E r \in Spans : AppStarts(r) \/ AppStops(r)

ProfilerSpec == ProfilerInit /\ [][ProfilerNext]_profilerVars

\* Every goroutine runs on.  A collection that begins after the cancellation has
\* its deadline a period away and its context done at once, so that a cancelled
\* profiler does not choose the deadline for ever.
ProfilerFairness ==
  /\ \A c \in Callers : WF_profilerVars(StopCancel(c)) /\ WF_profilerVars(StopReturn(c))
  /\ \A p \in Profilers : WF_profilerVars(Collect(p)) /\ SF_profilerVars(Cancelled(p))

ProfilerFairSpec == ProfilerSpec /\ ProfilerFairness

----------------------------------------------------------------------------
(* Properties.                                                             *)

\* The list asks for the span r twice: WithProfileTypes takes any list.
Repeated(ts, r) == \E m, n \in DOMAIN ts : m # n /\ ts[m] = r /\ ts[n] = r

\* What a profiler believes to be running is running for it, although two profilers
\* may be collecting at once and the program may use the same spans; and nothing else
\* is running for it, but a span its list repeats, whose second start fails and makes
\* it forget the first (collect).
HoldsWhatItStarted ==
  \A p \in Profilers :
    /\ "cpu" \in on[p] /\ ppc[p] \in {"start", "wait", "stopcpu"} => holder["cpu"] = p
    /\ ("trace" \in on[p] /\ ppc[p] = "start") \/ running[p] => holder["trace"] = p
    /\ holder["cpu"] = p /\ ~Repeated(types[p], "cpu")
         => "cpu" \in on[p] /\ ppc[p] \in {"start", "wait", "stopcpu"}
    /\ holder["trace"] = p /\ ~Repeated(types[p], "trace")
         => ("trace" \in on[p] /\ ppc[p] = "start") \/ running[p]
    /\ running[p] => "trace" \in on[p] /\ ppc[p] \in {"wait", "stopcpu", "stoptrace"}
    /\ ppc[p] = "start" => \A r \in on[p] : \E n \in 1..(idx[p] - 1) :
                             n \in DOMAIN types[p] /\ types[p][n] = r

\* Every collection goroutine that is still alive is the active one or is being
\* stopped by a caller that will cancel it and wait for it: no order of Starts
\* and Stops leaks one (Start, Stop).
NoOrphan ==
  /\ \A p \in Profilers : ProfilerAlive(p) /\ p # active => \E c \in Callers : target[c] = p
  /\ \A c \in Callers : cpc[c] = "idle" <=> target[c] = NoProfiler
  /\ \A c \in Callers : cpc[c] # "idle" => ppc[target[c]] # "unborn" /\ target[c] # active
  /\ active # NoProfiler => ProfilerAlive(active) /\ ~cancelled[active]
  /\ \A c \in Callers : cpc[c] = "wait" => cancelled[target[c]]
  /\ \A p \in Profilers : abort[p] \/ ppc[p] = "exited" => cancelled[p]

\* The rates asked for, or the defaults, are in force whenever a profile that
\* needs them is collected: it is not uploaded empty (newConfig, Start).
Sampled ==
  \A p \in Profilers, k \in {"mutex", "block"} :
    Has(types[p], k) => rates[k] > 0

\* The inductive invariant of the proofs.
ProfilerInv == ProfilerTypeOK /\ HoldsWhatItStarted /\ NoOrphan /\ Sampled

\* Once no profiler is active and every Stop has returned, no collection goroutine
\* is left, and the runtime profiles and traces for nobody but the program: what
\* Stop's caller relies on before it exits or starts another.  The one exception is
\* a span that a profiler was told to collect twice: collect overwrites cpuOn with
\* the failure of the second start, and nothing stops the profile again (Stop,
\* collect).
QuietAfterStop ==
  active = NoProfiler /\ (\A c \in Callers : cpc[c] = "idle")
    => /\ \A p \in Profilers : ~ProfilerAlive(p)
       /\ \A r \in Spans, p \in Profilers : holder[r] = p => Repeated(types[p], r)

\* The program's own CPU profile or trace is never stopped by the profiler: it
\* ends only by the program's own call (collect's cpuOn and running guards).
AppUndisturbed == [][\A r \in Spans : holder[r] = App /\ holder'[r] # App => AppStops(r)]_profilerVars

\* A Stop returns, even one that finds its profiler in an upload or about to begin
\* another collection (Stop, run).
StopReturns == \A c \in Callers : cpc[c] # "idle" ~> cpc[c] = "idle"
============================================================================
