----------------------------- MODULE AgentMain -----------------------------
(***************************************************************************)
(* cmd/agent run: it starts the enabled components one after the other,    *)
(* each on a goroutine of its own, waits for the context to end and then   *)
(* for all of them.  A component that cannot bind its socket, and a        *)
(* constructor that fails, bring the agent down.  The profiling proxy is   *)
(* the component of module ProfilingProxy; of the others only when they    *)
(* return is kept: they run until the context is cancelled, which their    *)
(* own modules show to end.                                                *)
(***************************************************************************)
EXTENDS ProfilingProxy

CONSTANT Configurable \* the components the configuration may enable

VARIABLES
  enabled,  \* the components the configuration enables
  main,     \* where run is
  next,     \* position in Components of the next one to start
  state,    \* state[c]: where the goroutine of component c is
  notified, \* SIGINT and SIGTERM are delivered to the context
  errc,     \* the error slot
  result,   \* what run returned: an error, nil, or nothing yet
  failed    \* history: the components whose Run returned an error

mainVars == <<enabled, main, next, notified, result>>
failVars == <<errc, failed>>
vars == <<ctxDone, proxyVars, mainVars, state, failVars>>

\* In the order run starts them.  agg is always there.
Components == <<"agg", "hostmeta", "venti", "process", "dogstatsd", "proxy", "logs">>
ComponentSet == {Components[n] : n \in DOMAIN Components}
\* Those that report a failure of their Run.
Failing == {"dogstatsd", "proxy"}
Errors == Failing \cup {"config", "newproxy", "logsources"}

ASSUME ConfigurableAssumption == Configurable \subseteq ComponentSet
ASSUME NoErrorAssumption == None \notin Errors \cup {"nil"}

TypeOK ==
  /\ ProxyTypeOK
  /\ enabled \subseteq ComponentSet /\ "agg" \in enabled
  /\ main \in {"load", "start", "run", "abort", "wait", "exited", "killed"}
  /\ next \in 1..(Len(Components) + 1)
  /\ state \in [ComponentSet -> {"off", "running", "failing", "reported", "returned"}]
  /\ notified \in BOOLEAN
  /\ errc \in Failing \cup {None}
  /\ result \in Errors \cup {"nil", None}
  /\ failed \subseteq Failing

Init ==
  /\ ctxDone = FALSE /\ ProxyInit
  /\ enabled \in {s \cup {"agg"} : s \in SUBSET Configurable}
  /\ main = "load" /\ next = 1
  /\ state = [c \in ComponentSet |-> "off"]
  /\ notified = FALSE /\ errc = None /\ result = None /\ failed = {}

Alive == main \notin {"exited", "killed"}

----------------------------------------------------------------------------
(* run.                                                                    *)

\* Load or Validate fails.
BadConfig ==
  /\ main = "load"
  /\ main' = "exited" /\ result' = "config"
  /\ UNCHANGED <<ctxDone, proxyVars, enabled, next, state, notified, failVars>>

Notify ==
  /\ main = "load"
  /\ main' = "start" /\ notified' = TRUE
  /\ UNCHANGED <<ctxDone, proxyVars, enabled, next, state, failVars, result>>

Launch ==
  /\ main = "start" /\ next <= Len(Components)
  /\ next' = next + 1
  /\ LET c == Components[next] IN
     /\ state' = IF c \in enabled THEN [state EXCEPT ![c] = "running"] ELSE state
     /\ server' = IF c = "proxy" /\ c \in enabled THEN "listen" ELSE server
  /\ UNCHANGED <<ctxDone, requestVars, enabled, main, notified, failVars, result>>

\* stop: the context is cancelled and signals have their default effect again.
stop == ctxDone' = TRUE /\ notified' = FALSE

\* profiling.New or startLogs returns an error.
LaunchFails ==
  /\ main = "start" /\ next <= Len(Components)
  /\ \E c \in enabled \cap {"proxy", "logs"} :
       /\ Components[next] = c
       /\ result' = IF c = "proxy" THEN "newproxy" ELSE "logsources"
  /\ main' = "abort"
  /\ stop
  /\ UNCHANGED <<proxyVars, enabled, next, state, failVars>>

Started ==
  /\ main = "start" /\ next > Len(Components)
  /\ main' = "run"
  /\ UNCHANGED <<ctxDone, proxyVars, enabled, next, state, notified, failVars, result>>

Stopping ==
  /\ main = "run" /\ ctxDone
  /\ main' = "wait"
  /\ stop
  /\ UNCHANGED <<proxyVars, enabled, next, state, failVars, result>>

\* wg.Wait returns.
AllReturned == \A c \in ComponentSet : state[c] \in {"off", "returned"}

\* Mutation of Exit: the error of a failed launch is returned without waiting.
ExitAtOnce ==
  /\ main \in {"wait", "abort"} /\ (main = "abort" \/ AllReturned)
  /\ main' = "exited"
  /\ result' = IF main = "abort" THEN result ELSE IF errc # None THEN errc ELSE "nil"
  /\ UNCHANGED <<ctxDone, proxyVars, enabled, next, state, notified, failVars>>

Exit ==
  /\ main \in {"wait", "abort"} /\ AllReturned
  /\ main' = "exited"
  /\ result' = IF main = "abort" THEN result ELSE IF errc # None THEN errc ELSE "nil"
  /\ UNCHANGED <<ctxDone, proxyVars, enabled, next, state, notified, failVars>>

----------------------------------------------------------------------------
(* Signals.                                                                *)

Signal ==
  /\ Alive /\ notified /\ ~ctxDone
  /\ ctxDone' = TRUE
  /\ UNCHANGED <<proxyVars, mainVars, state, failVars>>

\* Before NotifyContext and after stop a signal kills the process.
Kill ==
  /\ Alive /\ ~notified
  /\ main' = "killed"
  /\ UNCHANGED <<ctxDone, proxyVars, enabled, next, state, notified, failVars, result>>

----------------------------------------------------------------------------
(* The goroutines.                                                         *)

\* A Run that ends without an error; the proxy's is ProfilingProxy's.
Return(c) ==
  /\ Alive /\ state[c] = "running"
  /\ IF c = "proxy" THEN server = "returned" ELSE ctxDone
  /\ state' = [state EXCEPT ![c] = "returned"]
  /\ UNCHANGED <<ctxDone, proxyVars, mainVars, failVars>>

\* Mutation of Fail: the goroutine stops the agent and does not report.
FailSilently(c) ==
  /\ Alive /\ c \in Failing /\ state[c] = "running"
  /\ c = "proxy" => server = "failed"
  /\ failed' = failed \cup {c}
  /\ state' = [state EXCEPT ![c] = "reported"]
  /\ UNCHANGED <<ctxDone, proxyVars, mainVars, errc>>

\* A socket cannot be bound.
Fail(c) ==
  /\ Alive /\ c \in Failing /\ state[c] = "running"
  /\ c = "proxy" => server = "failed"
  /\ failed' = failed \cup {c}
  /\ state' = [state EXCEPT ![c] = "failing"]
  /\ UNCHANGED <<ctxDone, proxyVars, mainVars, errc>>

\* Mutation of Report: the slot is written whether or not somebody reads it.
ReportBlocks(c) ==
  /\ Alive /\ state[c] = "failing" /\ errc = None
  /\ errc' = c
  /\ state' = [state EXCEPT ![c] = "reported"]
  /\ UNCHANGED <<ctxDone, proxyVars, mainVars, failed>>

\* errc <- err unless it is full.
Report(c) ==
  /\ Alive /\ state[c] = "failing"
  /\ errc' = IF errc = None THEN c ELSE errc
  /\ state' = [state EXCEPT ![c] = "reported"]
  /\ UNCHANGED <<ctxDone, proxyVars, mainVars, failed>>

BringDown(c) ==
  /\ Alive /\ state[c] = "reported"
  /\ state' = [state EXCEPT ![c] = "returned"]
  /\ stop
  /\ UNCHANGED <<proxyVars, enabled, main, next, failVars, result>>

Component(c) == Return(c) \/ Report(c) \/ BringDown(c)

Proxy == Alive /\ ProxyNext /\ UNCHANGED <<mainVars, state, failVars>>
ServeProxy == Alive /\ Serve /\ UNCHANGED <<mainVars, state, failVars>>

Run == Notify \/ Launch \/ Started \/ Stopping \/ Exit

Next ==
  \/ Run \/ BadConfig \/ LaunchFails \/ Signal \/ Kill \/ Proxy
  \/ \E c \in ComponentSet : Component(c) \/ Fail(c)

Spec == Init /\ [][Next]_vars

\* run and the goroutines go on; every component returns once the context is
\* cancelled (its own module's ShutdownEnds), the proxy within its five seconds, and
\* a component that failed has nothing else to do.
FairSpec ==
  /\ Spec /\ WF_vars(Run) /\ WF_vars(ServeProxy)
  /\ \A c \in ComponentSet : WF_vars(Component(c))
  /\ WF_vars(Fail("proxy") /\ server = "failed")

----------------------------------------------------------------------------
(* Properties.                                                             *)

\* run returns when every goroutine it started has returned, on every path, and its
\* server accepts nothing more (run, stop and wg.Wait on the error paths too).
ExitWaits ==
  main = "exited" => AllReturned /\ server \in {"off", "returned", "failed"}

\* run returns nil only if no component failed: a bind failure is never lost, even
\* when two components fail at once or a signal comes at the same time, and one of
\* those that failed is named when the launch itself went well (run, errc).
FailureReported ==
  main = "exited" =>
    /\ result = "nil" => failed = {}
    /\ result \in Failing => result \in failed

\* Once the context is cancelled run returns, or is killed (run).
AgentEnds == ctxDone ~> ~Alive

----------------------------------------------------------------------------
(* What run loads before it starts anything: ConfigLoad.  Its laws are     *)
(* about operators and not about the state: Init makes TLC evaluate them   *)
(* once.                                                                   *)

Config == INSTANCE ConfigLoad

\* What the agent is configured to do is what its file, its environment and its
\* conf.d say; it ships once to each destination, as destinations are written, and
\* twice to one intake just when the primary is written otherwise than a setting that
\* names it (ConfigLoad!ConfigTrue, appendAdditional).
ConfigHolds == Init => Config!ConfigTrue
============================================================================
