-------------------------- MODULE AgentMainProofs --------------------------
(***************************************************************************)
(* Proofs about AgentMain and the ProfilingProxy in it, for any choice of  *)
(* components, any uploads and any number of intakes: what an upload is    *)
(* answered, whom the exit waits for and what it says; and about Profiler, *)
(* the library whose uploads the proxy forwards: what a profiler believes  *)
(* to be running runs for it, no order of Starts and Stops leaves a        *)
(* collection behind, and the program's own profiles are left alone.  And  *)
(* about what run loads first: the laws of ConfigLoad for any settings.    *)
(***************************************************************************)
EXTENDS AgentMain, Profiler, RecursionFacts

\* What is known of an upload at each place of its handler.
Forwarding ==
  \A r \in Requests :
    /\ handler[r] \in {"none", "read"} =>
         turn[r] = 1 /\ \A t \in 1..Targets : r \notin offered[t]
    /\ handler[r] = "read" => Targets > 1
    /\ handler[r] = "forward" =>
         /\ turn[r] <= Targets
         /\ turn[r] > 1 => resp[r] # None
         /\ Targets > 1 => r \notin TooBig
         /\ \A t \in 1..Targets : r \in offered[t] <=> t < turn[r]

ProxyInv == ProxyTypeOK /\ Forwarding /\ AnswerIsPrimarys

\* The proxy's goroutine and its server.
Coupled ==
  /\ state["proxy"] = "off" => server = "off"
  /\ state["proxy"] \in {"failing", "reported"} => server = "failed"
  /\ state["proxy"] = "returned" => server \in {"returned", "failed"}

\* What is to be launched has not run.
Pending ==
  /\ \A n \in DOMAIN Components : n >= next => state[Components[n]] = "off"
  /\ main = "load" => next = 1

\* A failure is in the slot, or another is, as soon as it is reported.
Slot ==
  /\ \A c \in ComponentSet : state[c] \in {"failing", "reported"} => c \in failed
  /\ \A c \in failed : state[c] \notin {"off", "running"}
  /\ errc = None => \A c \in failed : state[c] = "failing"
  /\ errc # None => errc \in failed

\* Nothing but an aborted launch has a result before the exit.
ResultInv ==
  /\ main = "abort" => result \in {"newproxy", "logsources"}
  /\ ExitWaits /\ FailureReported

IInv == TypeOK /\ ProxyInv /\ Coupled /\ Pending /\ Slot /\ ResultInv

LEMMA Constants ==
  /\ Targets \in Nat /\ Targets > 0 /\ TooBig \subseteq Requests
  /\ None \notin Responses /\ None \notin Errors /\ None # "nil"
  /\ Configurable \subseteq ComponentSet
BY TargetsAssumption, RequestsAssumption, NoneAssumption, NoErrorAssumption, ConfigurableAssumption
DEF Responses, OK, Accepted, Error

LEMMA ComponentFacts ==
  /\ Len(Components) = 7 /\ DOMAIN Components = 1..7
  /\ \A n \in 1..7 : Components[n] \in ComponentSet
  /\ \A c \in ComponentSet : \E n \in 1..7 : c = Components[n]
  /\ \A m, n \in 1..7 : Components[m] = Components[n] => m = n
  /\ {"agg", "proxy", "logs", "dogstatsd"} \subseteq ComponentSet
<1>1. Len(Components) = 7 /\ DOMAIN Components = 1..7
  BY DEF Components
<1>2. /\ \A n \in 1..7 : Components[n] \in ComponentSet
      /\ \A c \in ComponentSet : \E n \in 1..7 : c = Components[n]
  BY <1>1 DEF ComponentSet
<1>3. \A m, n \in 1..7 : Components[m] = Components[n] => m = n
  BY DEF Components
<1>4. {"agg", "proxy", "logs", "dogstatsd"} \subseteq ComponentSet
  <2>1. Components[1] = "agg" /\ Components[5] = "dogstatsd" /\ Components[6] = "proxy" /\ Components[7] = "logs"
    BY DEF Components
  <2> QED
    BY <1>2, <2>1
<1> QED
  BY <1>1, <1>2, <1>3, <1>4

----------------------------------------------------------------------------
(* The proxy.                                                              *)

LEMMA ProxyInitInv == ctxDone = FALSE /\ ProxyInit => ProxyInv
<1> USE Constants
<1> SUFFICES ASSUME ctxDone = FALSE, ProxyInit
             PROVE  ProxyInv
  OBVIOUS
<1>1. \A r \in Requests : handler[r] = "none" /\ turn[r] = 1
  BY DEF ProxyInit
<1>2. \A t \in 1..Targets : offered[t] = {}
  BY DEF ProxyInit
<1>3. ProxyTypeOK
  <2>1. 1 \in 1..(Targets + 1)
    OBVIOUS
  <2> QED
    BY <2>1 DEF ProxyInit, ProxyTypeOK
<1>4. Forwarding
  BY <1>1, <1>2 DEF Forwarding
<1>5. AnswerIsPrimarys
  BY <1>1, <1>2 DEF AnswerIsPrimarys
<1> QED
  BY <1>3, <1>4, <1>5 DEF ProxyInv

\* The server itself; a handler that dies with the process answers nothing.
LEMMA ServerStep ==
  ASSUME ProxyInv, Serve \/ ServerFails
  PROVE  ProxyInv'
<1> USE Constants
<1>1. CASE Listen \/ ServerFails \/ Shutdown
  BY <1>1 DEF Listen, ServerFails, Shutdown, requestVars, ProxyInv, ProxyTypeOK, Forwarding, AnswerIsPrimarys
<1>2. CASE ServerReturns
  <2>1. \A r \in Requests : handler'[r] = handler[r] \/ handler'[r] = "gone"
    BY <1>2 DEF ServerReturns, requestVars, ProxyInv, ProxyTypeOK
  <2>2. UNCHANGED <<ctxDone, turn, resp, reply, offered>> /\ server' = "returned"
    BY <1>2 DEF ServerReturns, requestVars
  <2>3. handler' \in [Requests -> {"none", "read", "forward", "gone", "done"}]
    BY <1>2 DEF ServerReturns, requestVars, ProxyInv, ProxyTypeOK
  <2>4. ProxyTypeOK'
    BY <2>2, <2>3 DEF ProxyInv, ProxyTypeOK
  <2>5. Forwarding'
    BY <2>1, <2>2 DEF ProxyInv, Forwarding
  <2>6. AnswerIsPrimarys'
    BY <2>1, <2>2 DEF ProxyInv, AnswerIsPrimarys
  <2> QED
    BY <2>4, <2>5, <2>6 DEF ProxyInv
<1> QED
  BY <1>1, <1>2 DEF Serve

LEMMA ArriveStep ==
  ASSUME ProxyInv, NEW q \in Requests, Arrive(q)
  PROVE  ProxyInv'
<1> USE Constants
<1>1. /\ handler' = [handler EXCEPT ![q] = IF Targets = 1 THEN "forward" ELSE "read"]
      /\ handler[q] = "none"
      /\ UNCHANGED <<ctxDone, server, turn, resp, reply, offered>>
  BY DEF Arrive
<1>2. ProxyTypeOK'
  BY <1>1 DEF ProxyInv, ProxyTypeOK
<1>3. Forwarding'
  BY <1>1 DEF ProxyInv, ProxyTypeOK, Forwarding
<1>4. AnswerIsPrimarys'
  BY <1>1 DEF ProxyInv, ProxyTypeOK, AnswerIsPrimarys
<1> QED
  BY <1>2, <1>3, <1>4 DEF ProxyInv

LEMMA ReadStep ==
  ASSUME ProxyInv, NEW q \in Requests, Read(q)
  PROVE  ProxyInv'
<1> USE Constants
<1>1. /\ handler[q] = "read"
      /\ UNCHANGED <<ctxDone, server, turn, resp, offered>>
      /\ \/ /\ q \notin TooBig
            /\ handler' = [handler EXCEPT ![q] = "forward"]
            /\ reply' = reply
         \/ /\ handler' = [handler EXCEPT ![q] = "done"]
            /\ reply' = [reply EXCEPT ![q] = BadGateway]
  BY DEF Read, Answer, Replayed
<1>2. ProxyTypeOK'
  <2>1. handler' \in [Requests -> {"none", "read", "forward", "gone", "done"}]
    <3>1. \E v \in {"forward", "done"} : handler' = [handler EXCEPT ![q] = v]
      BY <1>1
    <3>2. handler \in [Requests -> {"none", "read", "forward", "gone", "done"}]
      BY DEF ProxyInv, ProxyTypeOK
    <3> QED
      BY <3>1, <3>2
  <2>2. reply' \in [Requests -> {OK, 413, BadGateway, None}]
    <3> DEFINE S == {OK, 413, BadGateway, None}
    <3>1. BadGateway \in S /\ reply \in [Requests -> S]
      BY DEF ProxyInv, ProxyTypeOK
    <3> HIDE DEF S
    <3>2. reply' \in [Requests -> S]
      BY <1>1, <3>1
    <3> QED
      BY <3>2 DEF S
  <2> QED
    BY <1>1, <2>1, <2>2 DEF ProxyInv, ProxyTypeOK
<1>3. Forwarding'
  BY <1>1 DEF ProxyInv, ProxyTypeOK, Forwarding
<1>4. AnswerIsPrimarys'
  BY <1>1 DEF ProxyInv, ProxyTypeOK, Forwarding, AnswerIsPrimarys
<1> QED
  BY <1>2, <1>3, <1>4 DEF ProxyInv

LEMMA ForwardStep ==
  ASSUME ProxyInv, NEW q \in Requests, Forward(q)
  PROVE  ProxyInv'
<1> USE Constants
<1>1. ProxyTypeOK /\ Forwarding /\ AnswerIsPrimarys
  BY DEF ProxyInv
<1>2. PICK answer \in Responses :
        /\ handler[q] = "forward"
        /\ offered' = [offered EXCEPT ![turn[q]] = @ \cup {q}]
        /\ resp' = IF turn[q] = 1 THEN [resp EXCEPT ![q] = answer] ELSE resp
        /\ turn' = [turn EXCEPT ![q] = @ + 1]
        /\ IF turn[q] < Targets
           THEN UNCHANGED <<handler, reply>>
           ELSE /\ handler' = [handler EXCEPT ![q] = "done"]
                /\ reply' = [reply EXCEPT ![q] = Replayed(resp'[q])]
        /\ UNCHANGED <<ctxDone, server>>
  BY DEF Forward, Answer
<1>3. turn[q] \in 1..Targets /\ turn'[q] = turn[q] + 1
  BY <1>1, <1>2 DEF ProxyTypeOK, Forwarding
<1>4. /\ resp' \in [Requests -> Responses \cup {None}]
      /\ resp'[q] \in Responses /\ resp'[q] # None
      /\ \A r \in Requests : r # q => resp'[r] = resp[r]
  <2>1. CASE turn[q] = 1
    BY <1>1, <1>2, <2>1 DEF ProxyTypeOK
  <2>2. CASE turn[q] # 1
    BY <1>1, <1>2, <1>3, <2>2 DEF ProxyTypeOK, Forwarding
  <2> QED
    BY <2>1, <2>2
<1>5. /\ turn' \in [Requests -> 1..(Targets + 1)]
      /\ \A r \in Requests : r # q => turn'[r] = turn[r]
  BY <1>1, <1>2, <1>3 DEF ProxyTypeOK
<1>6. /\ offered' \in [1..Targets -> SUBSET Requests]
      /\ \A t \in 1..Targets, r \in Requests :
           r \in offered'[t] <=> r \in offered[t] \/ (r = q /\ t = turn[q])
  BY <1>1, <1>2, <1>3 DEF ProxyTypeOK
<1>7. Replayed(resp'[q]) \in {OK, 413, BadGateway}
  BY <1>4 DEF Replayed, Responses, OK, Accepted, BadGateway, Error
<1>8. /\ \A r \in Requests : r # q => handler'[r] = handler[r] /\ reply'[r] = reply[r]
      /\ handler'[q] = IF turn[q] < Targets THEN "forward" ELSE "done"
      /\ turn[q] = Targets => reply'[q] = Replayed(resp'[q])
      /\ handler' \in [Requests -> {"none", "read", "forward", "gone", "done"}]
      /\ reply' \in [Requests -> {OK, 413, BadGateway, None}]
  <2> DEFINE S == {OK, 413, BadGateway, None}
             v == Replayed(resp'[q])
  <2>1. v \in S /\ reply \in [Requests -> S]
    BY <1>1, <1>7 DEF ProxyTypeOK
  <2>2. handler \in [Requests -> {"none", "read", "forward", "gone", "done"}]
    BY <1>1 DEF ProxyTypeOK
  <2>3. \/ turn[q] < Targets /\ handler' = handler /\ reply' = reply
        \/ turn[q] = Targets /\ handler' = [handler EXCEPT ![q] = "done"] /\ reply' = [reply EXCEPT ![q] = v]
    BY <1>2, <1>3
  <2> HIDE DEF S, v
  <2>4. reply' \in [Requests -> S] /\ (turn[q] = Targets => reply'[q] = v)
    BY <2>1, <2>3
  <2>5. handler' \in [Requests -> {"none", "read", "forward", "gone", "done"}]
    BY <2>2, <2>3
  <2>6. \A r \in Requests : r # q => handler'[r] = handler[r] /\ reply'[r] = reply[r]
    BY <2>1, <2>2, <2>3
  <2>7. handler'[q] = IF turn[q] < Targets THEN "forward" ELSE "done"
    BY <1>2, <2>2, <2>3
  <2> QED
    BY <2>4, <2>5, <2>6, <2>7 DEF S, v
<1>9. ProxyTypeOK'
  BY <1>1, <1>2, <1>4, <1>5, <1>6, <1>8 DEF ProxyTypeOK
<1>10. \A t \in 1..Targets : q \in offered'[t] <=> t < turn'[q]
  BY <1>1, <1>2, <1>3, <1>6 DEF Forwarding
<1>11. Forwarding'
  <2> SUFFICES ASSUME NEW r \in Requests
               PROVE  /\ handler'[r] \in {"none", "read"} =>
                           turn'[r] = 1 /\ \A t \in 1..Targets : r \notin offered'[t]
                      /\ handler'[r] = "read" => Targets > 1
                      /\ handler'[r] = "forward" =>
                           /\ turn'[r] <= Targets
                           /\ turn'[r] > 1 => resp'[r] # None
                           /\ Targets > 1 => r \notin TooBig
                           /\ \A t \in 1..Targets : r \in offered'[t] <=> t < turn'[r]
    BY DEF Forwarding
  <2>1. CASE r = q
    BY <1>1, <1>2, <1>3, <1>4, <1>8, <1>10, <2>1 DEF Forwarding
  <2>2. CASE r # q
    BY <1>1, <1>4, <1>5, <1>6, <1>8, <2>2 DEF Forwarding
  <2> QED
    BY <2>1, <2>2
<1>12. AnswerIsPrimarys'
  <2>1. ASSUME NEW r \in Requests, handler'[r] = "done"
        PROVE  \/ /\ resp'[r] # None /\ reply'[r] = Replayed(resp'[r])
                  /\ \A t \in 1..Targets : r \in offered'[t]
               \/ /\ Targets > 1 /\ reply'[r] = BadGateway
                  /\ \A t \in 1..Targets : r \notin offered'[t]
    <3>1. CASE r = q
      <4>1. turn[q] = Targets
        BY <1>3, <1>8, <2>1, <3>1
      <4>2. \A t \in 1..Targets : q \in offered'[t]
        BY <1>3, <1>10, <4>1
      <4> QED
        BY <1>4, <1>8, <3>1, <4>1, <4>2
    <3>2. CASE r # q
      BY <1>1, <1>4, <1>6, <1>8, <2>1, <3>2 DEF AnswerIsPrimarys
    <3> QED
      BY <3>1, <3>2
  <2>2. Targets > 1 => \A t \in 1..Targets : offered'[t] \cap TooBig = {}
    BY <1>1, <1>2, <1>6 DEF Forwarding, AnswerIsPrimarys
  <2> QED
    BY <2>1, <2>2 DEF AnswerIsPrimarys
<1> QED
  BY <1>9, <1>11, <1>12 DEF ProxyInv

LEMMA ProxyStep ==
  ASSUME ProxyInv, ProxyNext
  PROVE  ProxyInv'
BY ServerStep, ArriveStep, ReadStep, ForwardStep DEF ProxyNext, Handle

----------------------------------------------------------------------------
(* run and the goroutines.                                                 *)

LEMMA InitInv == Init => IInv
<1> USE Constants, ComponentFacts
<1> SUFFICES ASSUME Init
             PROVE  IInv
  OBVIOUS
<1>1. ProxyInv
  BY ProxyInitInv DEF Init
<1>2. state \in [ComponentSet -> {"off"}] /\ \A c \in ComponentSet : state[c] = "off"
  BY DEF Init
<1>3. enabled \subseteq ComponentSet /\ "agg" \in enabled
  BY DEF Init
<1>4. TypeOK
  <2>1. state \in [ComponentSet -> {"off", "running", "failing", "reported", "returned"}]
    BY <1>2
  <2>2. ProxyTypeOK /\ next \in 1..(Len(Components) + 1)
    BY <1>1 DEF Init, ProxyInv
  <2> QED
    BY <1>3, <2>1, <2>2 DEF Init, TypeOK
<1>5. Coupled
  BY <1>2 DEF Init, ProxyInit, Coupled
<1>6. Pending /\ Slot /\ ResultInv
  BY <1>2 DEF Init, Pending, Slot, ResultInv, ExitWaits, FailureReported
<1> QED
  BY <1>1, <1>4, <1>5, <1>6 DEF IInv

\* A step of the proxy, after which run still goes on.
LEMMA ProxyRuns ==
  ASSUME IInv, Proxy
  PROVE  IInv'
<1>1. ProxyInv'
  BY ProxyStep DEF IInv, Proxy
<1>2. UNCHANGED <<mainVars, state, failVars>> /\ Alive
  BY DEF Proxy
<1>3. ctxDone' = ctxDone
  BY DEF Proxy, ProxyNext, Serve, Handle, Listen, Shutdown, ServerReturns, ServerFails, Arrive, Read,
         Forward
<1>4. /\ server = "off" => server' = "off"
      /\ server = "failed" => server' = "failed"
      /\ server = "returned" => server' = "returned"
  BY DEF Proxy, ProxyNext, Serve, Handle, Listen, Shutdown, ServerReturns, ServerFails, Arrive, Read,
         Forward
<1>5. TypeOK'
  BY <1>1, <1>2 DEF IInv, TypeOK, ProxyInv, mainVars, failVars
<1>6. Coupled'
  BY <1>2, <1>4 DEF IInv, Coupled
<1>7. Pending' /\ Slot'
  BY <1>2 DEF IInv, Pending, Slot, mainVars, failVars
<1>8. ResultInv'
  BY <1>2 DEF IInv, ResultInv, ExitWaits, FailureReported, Alive, mainVars, failVars
<1> QED
  BY <1>1, <1>5, <1>6, <1>7, <1>8 DEF IInv

\* Where run is, and the context: nothing of the goroutines moves.
LEMMA MainStep ==
  ASSUME IInv, BadConfig \/ Notify \/ LaunchFails \/ Started \/ Stopping \/ Signal \/ Kill
  PROVE  IInv'
<1> USE Constants, ComponentFacts
<1>1. UNCHANGED <<proxyVars, enabled, next, state, failVars>> /\ Alive
  BY DEF BadConfig, Notify, LaunchFails, Started, Stopping, Signal, Kill, Alive, mainVars
<1>2. ctxDone' \in BOOLEAN /\ notified' \in BOOLEAN
  BY DEF IInv, TypeOK, ProxyTypeOK, BadConfig, Notify, LaunchFails, Started, Stopping, Signal, Kill, stop,
         mainVars
<1>3. /\ main' \in {"load", "start", "run", "abort", "wait", "exited", "killed"}
      /\ main' = "load" => main = "load"
      /\ main' = "abort" => result' \in {"newproxy", "logsources"}
      /\ main' = "exited" => main = "load" /\ result' = "config"
      /\ result' \in Errors \cup {"nil", None}
  BY DEF IInv, TypeOK, ResultInv, BadConfig, Notify, LaunchFails, Started, Stopping, Signal, Kill, Alive,
         mainVars, Errors
<1>4. ProxyInv'
  BY <1>1, <1>2 DEF IInv, ProxyInv, ProxyTypeOK, Forwarding, AnswerIsPrimarys, proxyVars, requestVars
<1>5. TypeOK'
  BY <1>1, <1>2, <1>3, <1>4 DEF IInv, TypeOK, ProxyInv, failVars
<1>6. Coupled' /\ Pending' /\ Slot'
  BY <1>1, <1>3 DEF IInv, Coupled, Pending, Slot, proxyVars, failVars
<1>7. ResultInv'
  <2>1. CASE main' # "exited"
    BY <1>3, <2>1 DEF ResultInv, ExitWaits, FailureReported
  <2>2. CASE main' = "exited"
    <3>1. main = "load" /\ result' = "config"
      BY <1>3, <2>2
    <3>2. \A c \in ComponentSet : state[c] = "off"
      BY <3>1 DEF IInv, Pending
    <3>3. server = "off"
      BY <3>2 DEF IInv, Coupled
    <3> QED
      BY <1>1, <2>2, <3>1, <3>2, <3>3
      DEF ResultInv, ExitWaits, FailureReported, AllReturned, Failing, proxyVars
  <2> QED
    BY <2>1, <2>2
<1> QED
  BY <1>4, <1>5, <1>6, <1>7 DEF IInv

LEMMA LaunchStep ==
  ASSUME IInv, Launch
  PROVE  IInv'
<1> USE Constants, ComponentFacts
<1> DEFINE c == Components[next]
<1>1. /\ main = "start" /\ next \in 1..7 /\ next' = next + 1 /\ c \in ComponentSet
      /\ UNCHANGED <<ctxDone, requestVars, enabled, main, notified, failVars, result>>
  BY DEF IInv, TypeOK, Launch
<1>2. /\ state[c] = "off"
      /\ state' \in [ComponentSet -> {"off", "running", "failing", "reported", "returned"}]
      /\ state'[c] \in {"off", "running"}
      /\ \A d \in ComponentSet : d # c => state'[d] = state[d]
  BY <1>1 DEF IInv, TypeOK, Pending, Launch
<1>3. /\ c # "proxy" => server' = server
      /\ c = "proxy" /\ state'[c] = "off" => server' = server
      /\ server' \in {server, "listen"}
  BY <1>1 DEF IInv, TypeOK, Launch
<1>4. ProxyInv'
  BY <1>1, <1>3 DEF IInv, ProxyInv, ProxyTypeOK, Forwarding, AnswerIsPrimarys, requestVars
<1>5. TypeOK'
  BY <1>1, <1>2, <1>4 DEF IInv, TypeOK, ProxyInv, failVars
<1>6. Coupled'
  BY <1>2, <1>3 DEF IInv, Coupled
<1>7. Pending'
  <2>1. \A n \in 1..7 : n >= next' => Components[n] # c /\ n >= next
    BY <1>1 DEF IInv, TypeOK
  <2> QED
    BY <1>1, <1>2, <2>1 DEF IInv, Pending
<1>8. Slot'
  BY <1>1, <1>2 DEF IInv, TypeOK, Slot, failVars, Failing
<1>9. ResultInv'
  BY <1>1 DEF ResultInv, ExitWaits, FailureReported
<1> QED
  BY <1>4, <1>5, <1>6, <1>7, <1>8, <1>9 DEF IInv

\* Every goroutine has returned, so that what is in the slot is what failed.
LEMMA ExitStep ==
  ASSUME IInv, Exit
  PROVE  IInv'
<1> USE Constants, ComponentFacts
<1>1. /\ main \in {"wait", "abort"} /\ AllReturned /\ main' = "exited"
      /\ result' = IF main = "abort" THEN result ELSE IF errc # None THEN errc ELSE "nil"
      /\ UNCHANGED <<ctxDone, proxyVars, enabled, next, state, notified, failVars>>
  BY DEF Exit
<1>2. ProxyInv'
  BY <1>1 DEF IInv, ProxyInv, ProxyTypeOK, Forwarding, AnswerIsPrimarys, proxyVars, requestVars
<1>3. result' \in Errors \cup {"nil", None}
  BY <1>1 DEF IInv, TypeOK, Errors
<1>4. TypeOK'
  BY <1>1, <1>2, <1>3 DEF IInv, TypeOK, ProxyInv, failVars
<1>5. Coupled' /\ Pending' /\ Slot'
  BY <1>1 DEF IInv, Coupled, Pending, Slot, proxyVars, failVars
<1>6. ExitWaits'
  BY <1>1 DEF IInv, Coupled, ExitWaits, AllReturned, proxyVars
<1>7. FailureReported'
  <2>1. CASE main = "abort"
    BY <1>1, <2>1 DEF IInv, ResultInv, FailureReported, Failing
  <2>2. CASE main = "wait" /\ errc # None
    BY <1>1, <2>2 DEF IInv, TypeOK, Slot, FailureReported, Failing, failVars
  <2>3. CASE main = "wait" /\ errc = None
    <3>1. failed = {}
      BY <1>1, <2>3 DEF IInv, TypeOK, Slot, AllReturned, Failing
    <3> QED
      BY <1>1, <2>3, <3>1 DEF FailureReported, Failing, failVars
  <2> QED
    BY <1>1, <2>1, <2>2, <2>3
<1> QED
  BY <1>1, <1>2, <1>4, <1>5, <1>6, <1>7 DEF IInv, ResultInv

\* A goroutine moves on, and leaves run where it is.
LEMMA GoroutineStep ==
  ASSUME IInv, NEW c \in ComponentSet, Component(c) \/ Fail(c)
  PROVE  IInv'
<1> USE Constants, ComponentFacts
<1>1. Alive /\ UNCHANGED <<proxyVars, enabled, main, next, result>>
  BY DEF Component, Return, Report, BringDown, Fail, mainVars
<1>2. ctxDone' \in BOOLEAN /\ notified' \in BOOLEAN
  BY DEF IInv, TypeOK, ProxyTypeOK, Component, Return, Report, BringDown, Fail, stop, mainVars
<1>3. /\ state[c] # "off"
      /\ state' \in [ComponentSet -> {"off", "running", "failing", "reported", "returned"}]
      /\ state'[c] \notin {"off", "running"}
      /\ \A d \in ComponentSet : d # c => state'[d] = state[d]
  BY DEF IInv, TypeOK, Component, Return, Report, BringDown, Fail
<1>4. \/ state[c] = "running" /\ state'[c] = "returned" /\ UNCHANGED failVars
      \/ state[c] = "running" /\ state'[c] = "failing" /\ c \in Failing
         /\ failed' = failed \cup {c} /\ errc' = errc
      \/ state[c] = "failing" /\ state'[c] = "reported" /\ failed' = failed
         /\ errc' = IF errc = None THEN c ELSE errc
      \/ state[c] = "reported" /\ state'[c] = "returned" /\ UNCHANGED failVars
  BY DEF IInv, TypeOK, Component, Return, Report, BringDown, Fail, failVars
<1>5. ProxyInv'
  BY <1>1, <1>2 DEF IInv, ProxyInv, ProxyTypeOK, Forwarding, AnswerIsPrimarys, proxyVars, requestVars
<1>6. failed' \subseteq Failing /\ errc' \in Failing \cup {None}
  BY <1>4 DEF IInv, TypeOK, Slot, failVars
<1>7. TypeOK'
  BY <1>1, <1>2, <1>3, <1>5, <1>6 DEF IInv, TypeOK, ProxyInv
<1>8. Coupled'
  <2>1. CASE c # "proxy"
    BY <1>1, <1>3, <2>1 DEF IInv, Coupled, proxyVars
  <2>2. CASE c = "proxy"
    <3>1. /\ state'[c] \in {"failing", "reported"} => server = "failed"
          /\ state'[c] = "returned" => server \in {"returned", "failed"}
      BY <1>3, <2>2 DEF IInv, TypeOK, Coupled, Component, Return, Report, BringDown, Fail
    <3> QED
      BY <1>1, <1>3, <2>2, <3>1 DEF Coupled, proxyVars
  <2> QED
    BY <2>1, <2>2
<1>9. Pending'
  BY <1>1, <1>3 DEF IInv, Pending
<1>10. Slot'
  <2>1. /\ failed \subseteq ComponentSet /\ failed' \in {failed, failed \cup {c}}
        /\ state'[c] = "failing" => c \in failed'
        /\ state[c] = "failing" => c # None
    <3>1. failed' \in {failed, failed \cup {c}} /\ (state'[c] = "failing" => c \in failed')
      BY <1>4 DEF failVars
    <3>2. failed \subseteq Failing /\ Failing \subseteq ComponentSet
      BY DEF IInv, TypeOK, Failing
    <3>3. state[c] = "failing" => c \in failed
      BY DEF IInv, Slot
    <3> QED
      BY <3>1, <3>2, <3>3 DEF Errors
  <2>2. \A d \in ComponentSet : state'[d] \in {"failing", "reported"} => d \in failed'
    BY <1>3, <1>4, <2>1 DEF IInv, Slot, failVars
  <2>3. \A d \in failed' : state'[d] \notin {"off", "running"}
    BY <1>3, <2>1 DEF IInv, Slot
  <2>4. ASSUME errc' = None, NEW d \in failed'
        PROVE  state'[d] = "failing"
    BY <1>3, <1>4, <2>1, <2>4 DEF IInv, Slot, failVars
  <2>5. errc' # None => errc' \in failed'
    BY <1>4, <2>1 DEF IInv, Slot, failVars
  <2> QED
    BY <2>2, <2>3, <2>4, <2>5 DEF Slot
<1>11. ResultInv'
  BY <1>1 DEF IInv, ResultInv, ExitWaits, FailureReported, Alive
<1> QED
  BY <1>5, <1>7, <1>8, <1>9, <1>10, <1>11 DEF IInv

LEMMA NextInv == IInv /\ [Next]_vars => IInv'
<1> SUFFICES ASSUME IInv, [Next]_vars
             PROVE  IInv'
  OBVIOUS
<1>1. CASE Next
  BY <1>1, ProxyRuns, MainStep, LaunchStep, ExitStep, GoroutineStep DEF Next, Run
<1>2. CASE UNCHANGED vars
  BY <1>2 DEF vars, proxyVars, requestVars, mainVars, failVars, IInv, TypeOK, ProxyInv, ProxyTypeOK,
              Forwarding, AnswerIsPrimarys, Coupled, Pending, Slot, ResultInv, ExitWaits, AllReturned,
              FailureReported
<1> QED
  BY <1>1, <1>2

THEOREM Invariant == Spec => []IInv
BY InitInv, NextInv, PTL DEF Spec

----------------------------------------------------------------------------
(* What the components and the invariant give.                             *)

\* Every variable stays in its type (run, Proxy.Run, RoundTrip).
THEOREM Typing == Spec => []TypeOK
<1>1. IInv => TypeOK
  BY DEF IInv
<1> QED
  BY <1>1, Invariant, PTL

\* An upload is answered with the primary's outcome, after every additional intake
\* was offered it, for any number of intakes and uploads (multiTransport.RoundTrip).
THEOREM AnsweredByPrimary == Spec => []AnswerIsPrimarys
<1>1. IInv => AnswerIsPrimarys
  BY DEF IInv, ProxyInv
<1> QED
  BY <1>1, Invariant, PTL

\* run waits for every goroutine it started, on every path (wg.Wait).
THEOREM WaitsForAll == Spec => []ExitWaits
<1>1. IInv => ExitWaits
  BY DEF IInv, ResultInv
<1> QED
  BY <1>1, Invariant, PTL

\* A failure of a component is never lost, whoever else fails (run, errc).
THEOREM NoFailureLost == Spec => []FailureReported
<1>1. IInv => FailureReported
  BY DEF IInv, ResultInv
<1> QED
  BY <1>1, Invariant, PTL

----------------------------------------------------------------------------
(* Profiler, for any number of callers and profilers and any options.      *)

\* What else is needed: no profiler is cancelled, or has anything to collect, before
\* it is started.
Newborn ==
  \A p \in Profilers : ppc[p] = "unborn" => ~cancelled[p] /\ on[p] = {} /\ types[p] = <<>>
Ind == ProfilerInv /\ Newborn

\* One conjunct of HoldsWhatItStarted, for the profiler p and the span r.
Runs(p, r) ==
  IF r = "cpu" THEN "cpu" \in on[p] /\ ppc[p] \in {"start", "wait", "stopcpu"}
               ELSE ("trace" \in on[p] /\ ppc[p] = "start") \/ running[p]
Begun(p) == \A r \in on[p] : \E n \in 1..(idx[p] - 1) : n \in DOMAIN types[p] /\ types[p][n] = r
Holds(p) ==
  /\ \A r \in Spans : /\ Runs(p, r) => holder[r] = p
                      /\ holder[r] = p /\ ~Repeated(types[p], r) => Runs(p, r)
  /\ running[p] => "trace" \in on[p] /\ ppc[p] \in {"wait", "stopcpu", "stoptrace"}
  /\ ppc[p] = "start" => Begun(p)

LEMMA HoldsEach == HoldsWhatItStarted <=> \A p \in Profilers : Holds(p)
  BY DEF HoldsWhatItStarted, Holds, Runs, Begun, Spans

LEMMA EmptyRepeatsNothing == \A r : ~Repeated(<<>>, r)
  BY DEF Repeated

----------------------------------------------------------------------------

\* The types and rates of a started profiler (profiler.go:112-215).
LEMMA ConfigFacts ==
  ASSUME NEW o \in Options
  PROVE  /\ newConfig(o).types \in Seq(Types)
         /\ newConfig(o).mutex \in Nat /\ newConfig(o).block \in Nat
         /\ Has(newConfig(o).types, "mutex") => newConfig(o).mutex > 0
         /\ Has(newConfig(o).types, "block") => newConfig(o).block > 0
<1>1. /\ o.given \in BOOLEAN /\ o.types \in Seq(Types)
      /\ o.mutexFraction \in Nat /\ o.blockRate \in Nat
  BY OptionsAssumption
<1>2. defaultProfileTypes \in Seq(Types)
  <2>1. <<"heap", "goroutine">> \in Seq(Types)
    BY DEF Types
  <2>2. <<"cpu", "heap", "goroutine">> \in Seq(Types)
    BY DEF Types
  <2> QED
    BY <2>1, <2>2 DEF defaultProfileTypes
<1>4. newConfig(o).types = IF o.given THEN o.types ELSE defaultProfileTypes
  BY DEF newConfig
<1>5. newConfig(o).types \in Seq(Types)
  BY <1>1, <1>2, <1>4
<1>6. /\ newConfig(o).mutex = IF o.mutexFraction = 0 /\ Has(newConfig(o).types, "mutex")
                              THEN defaultMutexFraction ELSE o.mutexFraction
      /\ newConfig(o).block = IF o.blockRate = 0 /\ Has(newConfig(o).types, "block")
                              THEN defaultBlockRate ELSE o.blockRate
  BY DEF newConfig
<1> QED
  BY <1>1, <1>5, <1>6 DEF defaultMutexFraction, defaultBlockRate

LEMMA ProfilerInitInv == ProfilerInit => Ind
<1> SUFFICES ASSUME ProfilerInit PROVE Ind
  OBVIOUS
<1>1. ProfilerTypeOK
  BY DEF ProfilerInit, ProfilerTypeOK, Spans
<1>2. HoldsWhatItStarted /\ Newborn
  BY ActorsAssumption DEF ProfilerInit, HoldsWhatItStarted, Spans, Newborn
<1>3. NoOrphan
  BY DEF ProfilerInit, NoOrphan, ProfilerAlive
<1>4. Sampled
  BY DEF ProfilerInit, Sampled, Has
<1> QED
  BY <1>1, <1>2, <1>3, <1>4 DEF Ind, ProfilerInv

----------------------------------------------------------------------------
(* Each action preserves the invariant.                                    *)

LEMMA StartInv ==
  ASSUME Ind, NEW c \in Callers, Start(c)
  PROVE  Ind'
<1> USE ActorsAssumption
<1>1. PICK p \in Profilers, o \in Options :
        LET cfg == newConfig(o) IN
        /\ ppc[p] = "unborn" /\ active' = p
        /\ types' = [types EXCEPT ![p] = cfg.types]
        /\ rates' = [k \in {"mutex", "block"} |-> IF cfg[k] > 0 THEN cfg[k] ELSE rates[k]]
        /\ ppc' = [ppc EXCEPT ![p] = "start"]
  BY DEF Start
<1>2. /\ cpc[c] = "idle" /\ active = NoProfiler
      /\ UNCHANGED <<cpc, target, cancelled, idx, on, running, full, abort, holder>>
  BY DEF Start, callerVars, collectVars
<1>3. ProfilerTypeOK /\ HoldsWhatItStarted /\ NoOrphan /\ Sampled /\ Newborn
  BY DEF Ind, ProfilerInv
<1>4. ProfilerTypeOK'
  BY <1>1, <1>2, <1>3, ConfigFacts DEF ProfilerTypeOK
<1>5. HoldsWhatItStarted'
  <2>1. on[p] = {} /\ types[p] = <<>>
    BY <1>1, <1>3 DEF Newborn
  <2>2. holder["cpu"] # p /\ holder["trace"] # p /\ ~running[p]
    BY <1>1, <1>3, <2>1, EmptyRepeatsNothing DEF HoldsWhatItStarted
  <2> QED
    BY <1>1, <1>2, <1>3, <2>1, <2>2 DEF HoldsWhatItStarted, ProfilerTypeOK, Repeated
<1>6. NoOrphan'
  BY <1>1, <1>2, <1>3 DEF NoOrphan, Newborn, ProfilerAlive, ProfilerTypeOK
<1>7. Sampled'
  <2> SUFFICES ASSUME NEW q \in Profilers, NEW k \in {"mutex", "block"}, Has(types'[q], k)
               PROVE  rates'[k] > 0
    BY DEF Sampled
  <2>1. rates'[k] = IF newConfig(o)[k] > 0 THEN newConfig(o)[k] ELSE rates[k]
    BY <1>1
  <2>2. CASE q = p
    <3>1. types'[q] = newConfig(o).types
      BY <1>1, <1>3, <2>2 DEF ProfilerTypeOK
    <3> QED
      BY <2>1, <3>1, ConfigFacts
  <2>3. CASE q # p
    <3>1. types'[q] = types[q]
      BY <1>1, <1>3, <2>3 DEF ProfilerTypeOK
    <3>2. rates[k] > 0
      BY <1>3, <3>1 DEF Sampled
    <3> QED
      BY <2>1, <3>2
  <2> QED
    BY <2>2, <2>3
<1>8. Newborn'
  BY <1>1, <1>2, <1>3 DEF Newborn, ProfilerTypeOK
<1> QED
  BY <1>4, <1>5, <1>6, <1>7, <1>8 DEF Ind, ProfilerInv

\* The callers' steps in Stop: nothing of a collection changes but its context.
LEMMA StopInv ==
  ASSUME Ind, NEW c \in Callers, Stop(c)
  PROVE  Ind'
<1> USE ActorsAssumption DEF ProfilerTypeOK
<1>1. ProfilerTypeOK /\ HoldsWhatItStarted /\ NoOrphan /\ Sampled /\ Newborn
  BY DEF Ind, ProfilerInv
<1>2. UNCHANGED <<rates, types, ppc, collectVars, holder>>
  BY DEF Stop, StopTake, StopCancel, StopReturn
<1>3. HoldsWhatItStarted' /\ Sampled'
  BY <1>1, <1>2 DEF HoldsWhatItStarted, Sampled, collectVars, Has, Repeated
<1>4. CASE StopTake(c)
  <2>1. ProfilerTypeOK' /\ Newborn'
    BY <1>1, <1>2, <1>4 DEF StopTake, collectVars, Newborn
  <2>2. NoOrphan'
    BY <1>1, <1>2, <1>4 DEF StopTake, collectVars, NoOrphan, ProfilerAlive
  <2> QED
    BY <1>3, <2>1, <2>2 DEF Ind, ProfilerInv
<1>5. CASE StopCancel(c)
  <2>1. target[c] \in Profilers /\ ppc[target[c]] # "unborn" /\ target[c] # active
    BY <1>1, <1>5 DEF StopCancel, NoOrphan
  <2>2. ProfilerTypeOK' /\ Newborn'
    BY <1>1, <1>2, <1>5, <2>1 DEF StopCancel, collectVars, Newborn
  <2>3. NoOrphan'
    BY <1>1, <1>2, <1>5, <2>1 DEF StopCancel, collectVars, NoOrphan, ProfilerAlive
  <2> QED
    BY <1>3, <2>2, <2>3 DEF Ind, ProfilerInv
<1>6. CASE StopReturn(c)
  <2>1. ProfilerTypeOK' /\ Newborn'
    BY <1>1, <1>2, <1>6 DEF StopReturn, collectVars, Newborn
  <2>2. NoOrphan'
    BY <1>1, <1>2, <1>6 DEF StopReturn, collectVars, NoOrphan, ProfilerAlive
  <2> QED
    BY <1>3, <2>1, <2>2 DEF Ind, ProfilerInv
<1> QED
  BY <1>4, <1>5, <1>6 DEF Stop

\* A step of collect, of the runtime or of the program changes no caller and no
\* configuration.
LEMMA OthersInv ==
  ASSUME Ind, ProfilerTypeOK', HoldsWhatItStarted', UNCHANGED <<active, rates, callerVars, types, cancelled>>,
         \A p \in Profilers :
           /\ ~ProfilerAlive(p) => ppc'[p] = ppc[p] /\ on'[p] = on[p]
           /\ ProfilerAlive(p) => ppc'[p] # "unborn" /\ (ppc'[p] = "exited" => abort[p])
           /\ abort'[p] => abort[p] \/ cancelled[p]
  PROVE  Ind'
<1> USE ActorsAssumption DEF ProfilerTypeOK
<1>1. ProfilerTypeOK /\ NoOrphan /\ Sampled /\ Newborn
  BY DEF Ind, ProfilerInv
<1>2. Sampled' /\ Newborn'
  BY <1>1 DEF Sampled, Newborn, Has, ProfilerAlive
<1>3. ASSUME NEW p \in Profilers
      PROVE  /\ ProfilerAlive(p)' => ProfilerAlive(p)
             /\ p = active => ProfilerAlive(p)'
             /\ ppc[p] # "unborn" => ppc'[p] # "unborn"
             /\ abort'[p] \/ ppc'[p] = "exited" => cancelled[p]
  BY <1>1, <1>3 DEF NoOrphan, ProfilerAlive
<1>4. NoOrphan'
  BY <1>1, <1>3 DEF NoOrphan, callerVars
<1> QED
  BY <1>2, <1>4 DEF Ind, ProfilerInv

LEMMA StartTypeInv ==
  ASSUME Ind, NEW p \in Profilers, StartType(p)
  PROVE  Ind'
<1> USE ActorsAssumption DEF ProfilerTypeOK
<1> DEFINE t == types[p][idx[p]]
<1>1. ProfilerTypeOK /\ \A q \in Profilers : Holds(q)
  BY HoldsEach DEF Ind, ProfilerInv
<1>2. /\ ppc[p] = "start" /\ idx[p] \in DOMAIN types[p] /\ types[p] \in Seq(Types)
      /\ idx[p] \in Nat /\ idx[p] > 0 /\ idx' = [idx EXCEPT ![p] = @ + 1]
      /\ UNCHANGED <<active, rates, callerVars, types, cancelled, ppc, running, full, abort>>
  BY <1>1 DEF StartType
<1>3. \/ t \notin Spans /\ UNCHANGED <<on, holder>>
      \/ /\ t \in Spans /\ holder[t] = NoProfiler
         /\ holder' = [holder EXCEPT ![t] = p] /\ on' = [on EXCEPT ![p] = @ \cup {t}]
      \/ /\ t \in Spans /\ holder[t] # NoProfiler /\ on' = [on EXCEPT ![p] = @ \ {t}] /\ UNCHANGED holder
  BY DEF StartType
<1>4. ~running[p] /\ Begun(p)
  BY <1>1, <1>2 DEF Holds
\* A type that is on already is one the list repeats.
<1>5. t \in on[p] => Repeated(types[p], t)
  <2> SUFFICES ASSUME t \in on[p] PROVE Repeated(types[p], t)
    OBVIOUS
  <2>1. PICK n \in 1..(idx[p] - 1) : n \in DOMAIN types[p] /\ types[p][n] = t
    BY <1>4 DEF Begun
  <2>2. n # idx[p]
    BY <1>2, <2>1
  <2> QED
    BY <1>2, <2>1, <2>2 DEF Repeated
<1> HIDE DEF t
<1>6. /\ on' \in [Profilers -> SUBSET Spans] /\ holder' \in [Spans -> Profilers \cup {App, NoProfiler}]
      /\ on'[p] \subseteq on[p] \cup {t} /\ on'[p] \ {t} = on[p] \ {t}
      /\ \A q \in Profilers : q # p => on'[q] = on[q]
      /\ \A r \in Spans : r # t => holder'[r] = holder[r]
  <2>1. CASE t \notin Spans
    BY <1>1, <1>3, <2>1
  <2>2. CASE t \in Spans /\ holder[t] # NoProfiler
    <3>1. holder' = holder /\ on' = [on EXCEPT ![p] = on[p] \ {t}]
      BY <1>3, <2>2
    <3>2. on'[p] = on[p] \ {t} /\ \A q \in Profilers : q # p => on'[q] = on[q]
      BY <1>1, <3>1
    <3> QED
      BY <1>1, <3>1, <3>2
  <2>3. CASE t \in Spans /\ holder[t] = NoProfiler
    <3>1. holder' = [holder EXCEPT ![t] = p] /\ on' = [on EXCEPT ![p] = on[p] \cup {t}]
      BY <1>3, <2>3
    <3>2. on'[p] = on[p] \cup {t} /\ \A q \in Profilers : q # p => on'[q] = on[q]
      BY <1>1, <3>1
    <3> QED
      BY <1>1, <2>3, <3>1, <3>2
  <2> QED
    BY <2>1, <2>2, <2>3
<1>7. ProfilerTypeOK'
  <2>1. idx' \in [Profilers -> Nat \ {0}]
    BY <1>1, <1>2
  <2> QED
    BY <1>1, <1>2, <1>6, <2>1 DEF callerVars
<1>8. ASSUME NEW q \in Profilers, NEW r \in Spans
      PROVE  /\ Runs(q, r)' => holder'[r] = q
             /\ holder'[r] = q /\ ~Repeated(types'[q], r) => Runs(q, r)'
  <2>1. /\ Runs(q, r) => holder[r] = q
        /\ holder[r] = q /\ ~Repeated(types[q], r) => Runs(q, r)
    BY <1>1 DEF Holds
  <2>2. types' = types /\ ppc' = ppc /\ running' = running
    BY <1>2
  <2>3. CASE r # t
    <3>1. holder'[r] = holder[r] /\ (r \in on'[q] <=> r \in on[q])
      BY <1>6, <2>3
    <3> QED
      BY <2>1, <2>2, <3>1 DEF Runs, Spans
  <2>4. CASE r = t /\ q = p
    <3>1. Runs(p, r) <=> r \in on[p]
      BY <1>2, <1>4 DEF Runs, Spans
    <3>2. Runs(p, r)' <=> r \in on'[p]
      BY <1>2, <1>4 DEF Runs, Spans
    <3>3. CASE holder[t] = NoProfiler
      <4>1. holder'[t] = p /\ t \in on'[p]
        BY <1>1, <1>3, <2>4, <3>3
      <4> QED
        BY <2>4, <3>2, <4>1
    <3>4. CASE holder[t] # NoProfiler
      <4>1. holder' = holder /\ t \notin on'[p]
        BY <1>1, <1>3, <2>4, <3>4
      <4> QED
        BY <1>5, <2>1, <2>2, <2>4, <3>1, <3>2, <4>1
    <3> QED
      BY <3>3, <3>4
  <2>5. CASE r = t /\ q # p
    <3>1. Runs(q, r)' <=> Runs(q, r)
      BY <1>6, <2>2, <2>5 DEF Runs
    <3>2. holder'[t] = q <=> holder[t] = q
      <4>1. CASE holder[t] = NoProfiler
        BY <1>1, <1>3, <2>5, <4>1
      <4>2. CASE holder[t] # NoProfiler
        BY <1>3, <2>5, <4>2
      <4> QED
        BY <4>1, <4>2
    <3> QED
      BY <2>1, <2>2, <2>5, <3>1, <3>2
  <2> QED
    BY <2>3, <2>4, <2>5
<1>9. Begun(p)'
  <2>1. idx'[p] = idx[p] + 1 /\ types' = types /\ idx[p] \in 1..(idx'[p] - 1) /\ 1..(idx[p] - 1) \subseteq 1..(idx'[p] - 1)
    BY <1>1, <1>2
  <2> QED
    BY <1>2, <1>4, <1>6, <2>1 DEF Begun, t
<1>10. HoldsWhatItStarted'
  <2>1. ASSUME NEW q \in Profilers
        PROVE  /\ running'[q] => "trace" \in on'[q] /\ ppc'[q] \in {"wait", "stopcpu", "stoptrace"}
               /\ ppc'[q] = "start" => Begun(q)'
    <3>1. CASE q = p
      BY <1>2, <1>4, <1>9, <3>1
    <3>2. CASE q # p
      BY <1>1, <1>2, <1>6, <3>2 DEF Holds, Begun
    <3> QED
      BY <3>1, <3>2
  <2>2. \A q \in Profilers : Holds(q)'
    BY <1>8, <2>1 DEF Holds
  <2>3. (\A q \in Profilers : Holds(q))' => HoldsWhatItStarted'
    BY DEF HoldsWhatItStarted, Holds, Runs, Begun, Spans
  <2> QED
    BY <2>2, <2>3
<1> QED
  BY <1>1, <1>2, <1>6, <1>7, <1>10, OthersInv DEF ProfilerAlive

LEMMA CollectInv ==
  ASSUME Ind, NEW p \in Profilers, Collect(p) \/ TraceFills(p)
  PROVE  Ind'
<1> USE ActorsAssumption DEF ProfilerTypeOK
<1>1. ProfilerTypeOK /\ HoldsWhatItStarted
  BY DEF Ind, ProfilerInv
<1>2. CASE BeginWait(p)
  <2>1. ProfilerTypeOK'
    BY <1>1, <1>2 DEF BeginWait, callerVars
  <2>2. running' = [running EXCEPT ![p] = "trace" \in on[p]]
    BY <1>2 DEF BeginWait
  <2>3. running'[p] <=> "trace" \in on[p]
    BY <1>1, <2>2, Zenon
  <2>4. \A q \in Profilers : q # p => running'[q] = running[q]
    BY <1>1, <2>2, Zenon
  <2>5. /\ ppc[p] = "start" /\ ppc' = [ppc EXCEPT ![p] = "wait"]
        /\ UNCHANGED <<types, idx, on, holder>>
    BY <1>2 DEF BeginWait
  <2>6. ~running[p]
    BY <1>1, <2>5 DEF HoldsWhatItStarted
  <2>7. \A q \in Profilers : q # p => ppc'[q] = ppc[q] /\ types'[q] = types[q]
                                     /\ idx'[q] = idx[q] /\ on'[q] = on[q]
    BY <1>1, <2>5
  <2>8. HoldsWhatItStarted'
    <3> SUFFICES ASSUME NEW q \in Profilers PROVE Holds(q)'
      BY DEF HoldsWhatItStarted, Holds, Runs, Begun, Spans
    <3>3. Holds(q)
      BY <1>1, HoldsEach
    <3>1. CASE q = p
      <4>1. ppc'[p] = "wait" /\ on'[p] = on[p] /\ holder' = holder
        BY <1>1, <2>5
      <4> QED
        BY <2>3, <2>5, <2>6, <3>1, <3>3, <4>1 DEF Holds, Runs, Spans
    <3>2. CASE q # p
      BY <2>4, <2>5, <2>7, <3>2, <3>3 DEF Holds, Runs, Begun
    <3> QED
      BY <3>1, <3>2
  <2> QED
    BY <1>1, <1>2, <2>1, <2>8, OthersInv DEF BeginWait, ProfilerAlive
<1>3. CASE TraceFull(p)
  <2>1. ProfilerTypeOK'
    BY <1>1, <1>3 DEF TraceFull, StopTrace, callerVars, Spans
  <2>2. HoldsWhatItStarted'
    BY <1>1, <1>3 DEF TraceFull, StopTrace, HoldsWhatItStarted, Spans, Repeated
  <2> QED
    BY <1>1, <1>3, <2>1, <2>2, OthersInv DEF TraceFull, ProfilerAlive
<1>4. CASE Deadline(p) \/ Cancelled(p)
  <2>1. /\ ppc[p] = "wait" /\ ppc' = [ppc EXCEPT ![p] = "stopcpu"]
        /\ abort' = abort \/ (cancelled[p] /\ abort' = [abort EXCEPT ![p] = TRUE])
        /\ UNCHANGED <<active, rates, callerVars, types, cancelled, idx, on, running, full, holder>>
    BY <1>4 DEF Deadline, Cancelled, collectVars
  <2>2. ProfilerTypeOK'
    BY <1>1, <2>1 DEF callerVars
  <2>3. HoldsWhatItStarted'
    BY <1>1, <2>1 DEF HoldsWhatItStarted, Repeated
  <2> QED
    BY <1>1, <2>1, <2>2, <2>3, OthersInv DEF ProfilerAlive
<1>5. CASE StopCPU(p)
  <2>1. ProfilerTypeOK'
    BY <1>1, <1>5 DEF StopCPU, callerVars, collectVars, Spans
  <2>2. HoldsWhatItStarted'
    BY <1>1, <1>5 DEF StopCPU, HoldsWhatItStarted, collectVars, Spans, Repeated
  <2> QED
    BY <1>1, <1>5, <2>1, <2>2, OthersInv DEF StopCPU, collectVars, ProfilerAlive
<1>6. CASE EndCollect(p)
  <2>1. ProfilerTypeOK'
    BY <1>1, <1>6 DEF EndCollect, StopTrace, callerVars, Spans
  <2>2. HoldsWhatItStarted'
    BY <1>1, <1>6 DEF EndCollect, StopTrace, HoldsWhatItStarted, Spans, Repeated
  <2> QED
    BY <1>1, <1>6, <2>1, <2>2, OthersInv DEF EndCollect, ProfilerAlive
<1>7. CASE Upload(p)
  <2>1. ProfilerTypeOK'
    BY <1>1, <1>7 DEF Upload, callerVars
  <2>2. HoldsWhatItStarted'
    BY <1>1, <1>7 DEF Upload, HoldsWhatItStarted, Repeated
  <2> QED
    BY <1>1, <1>7, <2>1, <2>2, OthersInv DEF Upload, ProfilerAlive
<1>8. CASE TraceFills(p)
  <2>1. ProfilerTypeOK' /\ HoldsWhatItStarted'
    BY <1>1, <1>8 DEF TraceFills, callerVars, HoldsWhatItStarted, Repeated
  <2> QED
    BY <1>8, <2>1, OthersInv DEF TraceFills, ProfilerAlive
<1> QED
  BY <1>2, <1>3, <1>4, <1>5, <1>6, <1>7, <1>8, StartTypeInv DEF Collect

LEMMA AppInv ==
  ASSUME Ind, NEW r \in Spans, AppStarts(r) \/ AppStops(r)
  PROVE  Ind'
<1> USE ActorsAssumption DEF ProfilerTypeOK
<1>1. ProfilerTypeOK /\ HoldsWhatItStarted
  BY DEF Ind, ProfilerInv
<1>2. \/ holder' = [holder EXCEPT ![r] = App] /\ holder[r] = NoProfiler
      \/ holder' = [holder EXCEPT ![r] = NoProfiler] /\ holder[r] = App
  BY DEF AppStarts, AppStops
<1>3. UNCHANGED <<active, rates, callerVars, types, cancelled, ppc, collectVars>>
  BY DEF AppStarts, AppStops
<1>4. ProfilerTypeOK'
  BY <1>1, <1>2, <1>3 DEF callerVars, collectVars, Spans
<1>5. HoldsWhatItStarted'
  BY <1>1, <1>2, <1>3 DEF HoldsWhatItStarted, collectVars, Spans, Repeated
<1> QED
  BY <1>3, <1>4, <1>5, OthersInv DEF collectVars, ProfilerAlive

LEMMA ProfilerNextInv ==
  ASSUME Ind, [ProfilerNext]_profilerVars
  PROVE  Ind'
<1>1. CASE ProfilerNext
  BY <1>1, StartInv, StopInv, CollectInv, AppInv DEF ProfilerNext
<1>2. CASE UNCHANGED profilerVars
  BY <1>2 DEF profilerVars, callerVars, collectVars, Ind, ProfilerInv, ProfilerTypeOK, HoldsWhatItStarted, NoOrphan, Sampled,
     ProfilerAlive, Has, Newborn, Repeated
<1> QED
  BY <1>1, <1>2

----------------------------------------------------------------------------
\* The types of the state, what each collection holds and who stops it, for every
\* order of Starts, Stops and of the program's own profiling (Start, Stop, collect).
THEOREM ProfilerInvariant == ProfilerSpec => []ProfilerInv
<1>1. Ind /\ [ProfilerNext]_profilerVars => Ind'
  BY ProfilerNextInv
<1>2. Ind => ProfilerInv
  BY DEF Ind
<1> QED
  BY <1>1, <1>2, ProfilerInitInv, PTL DEF ProfilerSpec

\* Once every Stop has returned and no profiler is active, no collection is left and
\* the runtime profiles for nobody but the program, or goes on with a span that a
\* profiler's list repeats (Stop, collect).
THEOREM Quiet == ProfilerSpec => []QuietAfterStop
<1>1. ProfilerInv => QuietAfterStop
  <2> SUFFICES ASSUME ProfilerInv, active = NoProfiler, \A c \in Callers : cpc[c] = "idle"
               PROVE  /\ \A p \in Profilers : ~ProfilerAlive(p)
                      /\ \A r \in Spans, p \in Profilers : holder[r] = p => Repeated(types[p], r)
    BY DEF QuietAfterStop
  <2> USE ActorsAssumption
  <2>1. \A p \in Profilers : ~ProfilerAlive(p)
    BY DEF ProfilerInv, NoOrphan
  <2> QED
    BY <2>1 DEF ProfilerInv, HoldsWhatItStarted, Spans, ProfilerAlive
<1> QED
  BY <1>1, ProfilerInvariant, PTL

\* The program's own CPU profile or trace ends by the program's own call and by no
\* step of the profiler (collect's cpuOn and running).
THEOREM AppLeftAlone == ProfilerSpec => AppUndisturbed
<1> DEFINE Step == \A r \in Spans : holder[r] = App /\ holder'[r] # App => AppStops(r)
<1>1. ProfilerInv /\ [ProfilerNext]_profilerVars => [Step]_profilerVars
  <2> SUFFICES ASSUME ProfilerInv, ProfilerNext, NEW r \in Spans, holder[r] = App, holder'[r] # App
               PROVE  AppStops(r)
    OBVIOUS
  <2> USE ActorsAssumption DEF ProfilerInv, ProfilerTypeOK
  <2>1. ASSUME NEW c \in Callers PROVE ~(Start(c) \/ Stop(c))
    BY DEF Start, Stop, StopTake, StopCancel, StopReturn
  <2>2. ASSUME NEW p \in Profilers PROVE ~(StartType(p) \/ TraceFull(p) \/ EndCollect(p) \/ StopCPU(p))
    BY DEF StartType, TraceFull, EndCollect, StopCPU, StopTrace, HoldsWhatItStarted, Spans
  <2>3. ASSUME NEW p \in Profilers
        PROVE  ~(BeginWait(p) \/ Deadline(p) \/ Cancelled(p) \/ Upload(p) \/ TraceFills(p))
    BY DEF BeginWait, Deadline, Cancelled, Upload, TraceFills
  <2>4. \E q \in Spans : AppStarts(q) \/ AppStops(q)
    BY <2>1, <2>2, <2>3 DEF ProfilerNext, Collect
  <2> QED
    BY <2>4 DEF AppStarts, AppStops
<1> QED
  BY <1>1, ProfilerInvariant, PTL DEF ProfilerSpec, AppUndisturbed

----------------------------------------------------------------------------
(* The endpoints a client is made with (ConfigLoad): the primary, then those *)
(* of the dual-shipping settings, whatever these say.                       *)

\* a is eps with e added, or without.
AddsOne(a, S, eps, e) ==
  /\ a \in Seq(S) /\ Len(eps) <= Len(a)
  /\ \A i \in 1..Len(eps) : a[i] = eps[i]
  /\ \A i \in 1..Len(a) : i > Len(eps) =>
       i = Len(eps) + 1 /\ a[i] = e /\ e.key.text # ""
       /\ \A j \in 1..Len(eps) : ~Config!Same(eps[j], e)
  /\ e.key.text # "" => \E i \in 1..Len(a) : Config!Same(a[i], e)

LEMMA AddedFacts ==
  ASSUME NEW S, NEW eps \in Seq(S), NEW e \in S,
         NEW a, a = Config!Added(eps, e)
  PROVE  AddsOne(a, S, eps, e)
<1>1. DOMAIN eps = 1..Len(eps) /\ Len(eps) \in Nat
  OBVIOUS
<1>2. CASE e.key.text = "" \/ \E i \in DOMAIN eps : Config!Same(eps[i], e)
  <2>1. a = eps
    BY <1>2 DEF Config!Added
  <2>2. e.key.text # "" => \E i \in 1..Len(a) : Config!Same(a[i], e)
    BY <1>1, <1>2, <2>1
  <2>3. a \in Seq(S) /\ Len(eps) <= Len(a) /\ \A i \in 1..Len(eps) : a[i] = eps[i]
    BY <1>1, <2>1
  <2>4. \A i \in 1..Len(a) : ~(i > Len(eps))
    BY <1>1, <2>1
  <2> QED
    BY <2>2, <2>3, <2>4, Zenon DEF AddsOne
<1>3. CASE ~(e.key.text = "" \/ \E i \in DOMAIN eps : Config!Same(eps[i], e))
  <2>1. a = Append(eps, e)
    BY <1>3 DEF Config!Added
  <2>2. Config!Same(e, e)
    BY DEF Config!Same
  <2>3. a \in Seq(S) /\ Len(a) = Len(eps) + 1 /\ a[Len(eps) + 1] = e
        /\ \A i \in 1..Len(eps) : a[i] = eps[i]
    BY <2>1
  <2>4. \A j \in 1..Len(eps) : ~Config!Same(eps[j], e)
    BY <1>1, <1>3
  <2>5. \E i \in 1..Len(a) : Config!Same(a[i], e)
    BY <1>1, <2>2, <2>3
  <2>6. \A i \in 1..Len(a) : i > Len(eps) => i = Len(eps) + 1 /\ a[i] = e
    BY <1>1, <2>3
  <2>7. Len(eps) <= Len(a)
    BY <1>1, <2>3
  <2>8. e.key.text # ""
    BY <1>3
  <2> QED
    BY <2>3, <2>4, <2>5, <2>6, <2>7, <2>8, Zenon DEF AddsOne
<1> QED
  BY <1>2, <1>3

\* What AddNew has made of the first n entries.
Upto(f, S, eps, q) ==
  /\ f \in [0..Len(q) -> Seq(S)] /\ f[0] = eps
  /\ \A n \in 1..Len(q) : f[n] = Config!Added(f[n - 1], q[n])

LEMMA AddNewIs ==
  ASSUME NEW S, NEW eps \in Seq(S), NEW q \in Seq(S)
  PROVE  \E f : Upto(f, S, eps, q) /\ Config!AddNew(eps, q) = f[Len(q)]
<1> DEFINE m == Len(q)
           Rec(f) == f = [n \in 0..m |-> IF n = 0 THEN eps ELSE Config!Added(f[n - 1], q[n])]
           step == [n \in Nat |-> [s \in Seq(S) |->
                      IF n + 1 \in 1..m THEN Config!Added(s, q[n + 1]) ELSE s]]
<1>1. m \in Nat /\ \A n \in 1..m : q[n] \in S
  OBVIOUS
<1>2. \A s \in Seq(S) : \A e \in S : Config!Added(s, e) \in Seq(S)
  BY AddedFacts DEF AddsOne
<1>3. step \in [Nat -> [Seq(S) -> Seq(S)]]
  BY <1>1, <1>2
<1>4. PICK g : Iterates(g, Seq(S), eps, step)
  <2> HIDE DEF step
  <2> QED
    BY <1>3, RecursionOnNat
<1> DEFINE h == [n \in 0..m |-> g[n]]
<1>5. ASSUME NEW n \in 1..m PROVE h[n] = Config!Added(h[n - 1], q[n])
  <2>1. n - 1 \in Nat /\ (n - 1) + 1 = n /\ n - 1 \in 0..m /\ n \in 0..m
    BY <1>1
  <2>2. g[n - 1] \in Seq(S) /\ g[n] = step[n - 1][g[n - 1]]
    BY <1>4, <2>1 DEF Iterates
  <2> QED
    BY <2>1, <2>2
<1>6. h[0] = eps /\ h \in [0..m -> Seq(S)]
  BY <1>1, <1>4 DEF Iterates
<1> HIDE DEF h
<1>7. Rec(h)
  <2> SUFFICES ASSUME NEW n \in 0..m
               PROVE  h[n] = IF n = 0 THEN eps ELSE Config!Added(h[n - 1], q[n])
    BY <1>6
  <2> QED
    BY <1>1, <1>5, <1>6
<1> DEFINE f == CHOOSE x : Rec(x)
<1>8. Rec(f)
  <2> HIDE DEF Rec
  <2> QED
    BY <1>7
<1>9. Config!AddNew(eps, q) = f[m]
  BY DEF Config!AddNew
<1> HIDE DEF f
<1>10. f[0] = eps /\ \A n \in 1..m : f[n] = Config!Added(f[n - 1], q[n])
  BY <1>1, <1>8
<1> DEFINE T == {n \in Nat : n <= m => f[n] \in Seq(S)}
<1>11. T = Nat
  <2>1. 0 \in T
    BY <1>10
  <2>2. ASSUME NEW n \in T PROVE n + 1 \in T
    <3> SUFFICES ASSUME n + 1 <= m PROVE f[n + 1] \in Seq(S)
      OBVIOUS
    <3>1. n + 1 \in 1..m /\ (n + 1) - 1 = n /\ f[n] \in Seq(S)
      BY <1>1
    <3> QED
      BY <1>1, <1>2, <1>10, <3>1
  <2>3. T \subseteq Nat
    OBVIOUS
  <2> HIDE DEF T
  <2> QED
    BY <2>1, <2>2, <2>3, InductionOnNat
<1>12. f \in [0..m -> Seq(S)]
  <2>1. \A n \in 0..m : f[n] \in Seq(S)
    BY <1>1, <1>11
  <2>2. DOMAIN f = 0..m /\ f = [n \in DOMAIN f |-> f[n]]
    BY <1>8
  <2> QED
    BY <2>1, <2>2
<1> QED
  BY <1>9, <1>10, <1>12 DEF Upto

\* What EndpointsOf asks, of the first n entries.
Shipped(a, eps, q, n) ==
  /\ \A i, j \in 1..Len(a) : Config!Same(a[i], a[j]) => i = j
  /\ \A k \in 1..n : q[k].key.text # "" => \E i \in 1..Len(a) : Config!Same(a[i], q[k])
  /\ \A i \in 1..Len(a) : i > Len(eps) => a[i].key.text # "" /\ \E k \in 1..n : a[i] = q[k]
  /\ Len(eps) <= Len(a) /\ \A i \in 1..Len(eps) : a[i] = eps[i]

LEMMA ShippedStep ==
  ASSUME NEW S, NEW eps \in Seq(S), NEW q \in Seq(S), NEW n \in Nat, n + 1 <= Len(q),
         NEW a \in Seq(S), Shipped(a, eps, q, n),
         NEW b, b = Config!Added(a, q[n + 1])
  PROVE  Shipped(b, eps, q, n + 1)
<1> DEFINE e == q[n + 1]
<1>1. e \in S /\ Len(a) \in Nat /\ Len(eps) \in Nat /\ \A k \in 1..n : k \in 1..(n + 1)
  OBVIOUS
<1> HIDE DEF e
<1>2. b = Config!Added(a, e)
  BY DEF e
<1>3. /\ b \in Seq(S) /\ Len(a) <= Len(b)
      /\ \A i \in 1..Len(a) : b[i] = a[i]
      /\ \A i \in 1..Len(b) : i > Len(a) =>
           i = Len(a) + 1 /\ b[i] = e /\ e.key.text # "" /\ \A j \in 1..Len(a) : ~Config!Same(a[j], e)
      /\ e.key.text # "" => \E i \in 1..Len(b) : Config!Same(b[i], e)
  <2>1. AddsOne(b, S, a, e)
    BY <1>1, <1>2, AddedFacts
  <2> QED
    BY <2>1, Zenon DEF AddsOne
<1>4. Len(b) \in Nat /\ \A i \in 1..Len(a) : i \in 1..Len(b)
  <2>1. b \in Seq(S) /\ Len(a) <= Len(b)
    BY <1>3, Zenon
  <2> QED
    BY <1>1, <2>1
<1>5. \A x, y : Config!Same(x, y) <=> Config!Same(y, x)
  BY DEF Config!Same
<1>6. ASSUME NEW i \in 1..Len(b), NEW j \in 1..Len(b), Config!Same(b[i], b[j]) PROVE i = j
  <2>1. CASE i \in 1..Len(a) /\ j \in 1..Len(a)
    BY <1>3, <1>6, <2>1 DEF Shipped
  <2>2. CASE i \in 1..Len(a) /\ j \notin 1..Len(a)
    <3>1. j > Len(a)
      BY <1>1, <1>4, <2>2
    <3>2. b[j] = e /\ b[i] = a[i] /\ ~Config!Same(a[i], e)
      BY <1>3, <2>2, <3>1
    <3> QED
      BY <1>6, <3>2
  <2>3. CASE i \notin 1..Len(a) /\ j \in 1..Len(a)
    <3>1. i > Len(a)
      BY <1>1, <1>4, <2>3
    <3>2. b[i] = e /\ b[j] = a[j] /\ ~Config!Same(a[j], e)
      BY <1>3, <2>3, <3>1
    <3> QED
      BY <1>5, <1>6, <3>2
  <2>4. CASE i \notin 1..Len(a) /\ j \notin 1..Len(a)
    <3>1. i > Len(a) /\ j > Len(a)
      BY <1>1, <1>4, <2>4
    <3> QED
      BY <1>3, <3>1
  <2> QED
    BY <2>1, <2>2, <2>3, <2>4
<1>7. ASSUME NEW k \in 1..(n + 1), q[k].key.text # ""
      PROVE  \E i \in 1..Len(b) : Config!Same(b[i], q[k])
  <2>1. CASE k = n + 1
    BY <1>3, <1>7, <2>1 DEF e
  <2>2. CASE k # n + 1
    <3>1. k \in 1..n
      BY <2>2
    <3>2. PICK i \in 1..Len(a) : Config!Same(a[i], q[k])
      BY <1>7, <3>1 DEF Shipped
    <3> QED
      BY <1>3, <1>4, <3>2
  <2> QED
    BY <2>1, <2>2
<1>8. ASSUME NEW i \in 1..Len(b), i > Len(eps)
      PROVE  b[i].key.text # "" /\ \E k \in 1..(n + 1) : b[i] = q[k]
  <2>1. CASE i \in 1..Len(a)
    <3>1. a[i].key.text # "" /\ \E k \in 1..n : a[i] = q[k]
      BY <1>8, <2>1 DEF Shipped
    <3> QED
      BY <1>1, <1>3, <2>1, <3>1
  <2>2. CASE i \notin 1..Len(a)
    <3>1. i > Len(a) /\ n + 1 \in 1..(n + 1)
      BY <1>1, <1>4, <2>2
    <3>2. b[i] = q[n + 1] /\ b[i].key.text # ""
      BY <1>3, <3>1 DEF e
    <3> QED
      BY <3>1, <3>2
  <2> QED
    BY <2>1, <2>2
<1>9. Len(eps) <= Len(b) /\ \A i \in 1..Len(eps) : b[i] = eps[i]
  <2>1. Len(eps) <= Len(a) /\ \A i \in 1..Len(eps) : a[i] = eps[i]
    BY DEF Shipped
  <2>2. \A i \in 1..Len(eps) : i \in 1..Len(a)
    BY <1>1, <2>1
  <2>3. Len(eps) <= Len(b)
    <3>1. Len(a) <= Len(b)
      BY <1>3, Zenon
    <3> QED
      BY <1>1, <1>4, <2>1, <3>1
  <2> QED
    BY <1>3, <2>1, <2>2, <2>3
<1> QED
  BY <1>6, <1>7, <1>8, <1>9 DEF Shipped

\* An entry that is written as what it reaches.
AsReached(e) ==
  e.url = <<Config!Reached(e)[1], Config!Reached(e)[2]>> /\ e.key = Config!Reached(e)[3]

LEMMA AddNewShips ==
  ASSUME NEW S, NEW eps \in Seq(S), NEW q \in Seq(S),
         \A i, j \in 1..Len(eps) : Config!Same(eps[i], eps[j]) => i = j,
         \A i, j \in 1..Len(eps) : Config!Reached(eps[i]) = Config!Reached(eps[j]) => i = j,
         \A k \in 1..Len(q) : AsReached(q[k])
  PROVE  Config!AddNew(eps, q) \in Seq(S) /\ Config!EndpointsOf(Config!AddNew(eps, q), eps, q)
<1>1. PICK f : Upto(f, S, eps, q) /\ Config!AddNew(eps, q) = f[Len(q)]
  BY AddNewIs
<1>2. Len(q) \in Nat /\ Len(eps) \in Nat
  OBVIOUS
<1> DEFINE T == {n \in Nat : n <= Len(q) => Shipped(f[n], eps, q, n)}
<1>3. 0 \in T
  <2>1. f[0] = eps
    BY <1>1 DEF Upto
  <2>2. Shipped(eps, eps, q, 0)
    BY <1>2 DEF Shipped
  <2> QED
    BY <2>1, <2>2
<1>4. ASSUME NEW n \in T PROVE n + 1 \in T
  <2> SUFFICES ASSUME n + 1 <= Len(q) PROVE Shipped(f[n + 1], eps, q, n + 1)
    OBVIOUS
  <2>1. n \in Nat /\ n \in 0..Len(q) /\ n + 1 \in 1..Len(q) /\ (n + 1) - 1 = n
    BY <1>2
  <2>2. f[n] \in Seq(S) /\ f[n + 1] = Config!Added(f[n], q[n + 1])
    BY <1>1, <2>1 DEF Upto
  <2>3. Shipped(f[n], eps, q, n)
    BY <1>2, <2>1
  <2> QED
    BY <2>1, <2>2, <2>3, ShippedStep
<1>5. T = Nat
  <2>1. T \subseteq Nat
    OBVIOUS
  <2> HIDE DEF T
  <2> QED
    BY <1>3, <1>4, <2>1, InductionOnNat
<1> DEFINE a == Config!AddNew(eps, q)
<1>6. a \in Seq(S) /\ Shipped(a, eps, q, Len(q))
  BY <1>1, <1>2, <1>5 DEF Upto
<1> HIDE DEF a
<1>7. DOMAIN a = 1..Len(a) /\ DOMAIN q = 1..Len(q) /\ Len(a) \in Nat
  BY <1>6
<1>8. Config!ToSet(q) = {q[k] : k \in 1..Len(q)}
  BY <1>7 DEF Config!ToSet
<1>9. Config!IsPrefix(eps, a)
  <2>1. Len(eps) <= Len(a) /\ \A i \in 1..Len(eps) : a[i] = eps[i]
    BY <1>6 DEF Shipped
  <2>2. SubSeq(eps, 1, Len(eps)) = SubSeq(a, 1, Len(eps))
    BY <1>2, <1>6, <1>7, <2>1
  <2> QED
    BY <2>1, <2>2 DEF Config!IsPrefix
<1>10. \A i, j \in DOMAIN a : Config!Same(a[i], a[j]) => i = j
  BY <1>6, <1>7 DEF Shipped
<1>11. \A e \in Config!ToSet(q) : e.key.text # "" => \E i \in DOMAIN a : Config!Same(a[i], e)
  <2> SUFFICES ASSUME NEW k \in 1..Len(q), q[k].key.text # ""
               PROVE  \E i \in DOMAIN a : Config!Same(a[i], q[k])
    BY <1>8, Zenon
  <2> QED
    BY <1>6, <1>7 DEF Shipped
<1>12. \A i \in DOMAIN a : i > Len(eps) => a[i] \in Config!ToSet(q) /\ a[i].key.text # ""
  BY <1>6, <1>7, <1>8 DEF Shipped
<1>13. \A e, g : Config!Same(e, g) => Config!Reached(e) = Config!Reached(g)
  BY DEF Config!Same, Config!Reached
<1>14a. \A e, g : AsReached(e) /\ AsReached(g) /\ Config!Reached(e) = Config!Reached(g) => Config!Same(e, g)
  BY DEF Config!Same, AsReached
<1>14. /\ DOMAIN eps = 1..Len(eps) /\ Config!ToSet(eps) = {eps[i] : i \in 1..Len(eps)}
       /\ Len(eps) <= Len(a) /\ \A i \in 1..Len(eps) : a[i] = eps[i] /\ i \in DOMAIN a
  <2>1. Len(eps) <= Len(a) /\ \A i \in 1..Len(eps) : a[i] = eps[i]
    BY <1>6 DEF Shipped
  <2>2. DOMAIN eps = 1..Len(eps)
    OBVIOUS
  <2> QED
    BY <1>2, <1>7, <2>1, <2>2 DEF Config!ToSet
<1>15. ASSUME NEW i \in DOMAIN a, NEW j \in DOMAIN a, i < j, Config!Reached(a[i]) = Config!Reached(a[j])
       PROVE  \E p \in Config!ToSet(eps) : \E e \in Config!ToSet(q) :
                e.key.text # "" /\ ~Config!Same(p, e) /\ Config!Reached(p) = Config!Reached(e)
  <2>0. i \in Nat /\ j \in Nat /\ i < j /\ i # j
    BY <1>7, <1>15
  <2>1. ~Config!Same(a[i], a[j])
    BY <1>10, <2>0
  <2>2. CASE j <= Len(eps)
    <3>1. i \in 1..Len(eps) /\ j \in 1..Len(eps) /\ a[i] = eps[i] /\ a[j] = eps[j]
      BY <1>2, <1>7, <1>14, <1>15, <2>2
    <3>2. Config!Reached(eps[i]) = Config!Reached(eps[j])
      BY <1>15, <3>1, Zenon
    <3>3. i = j
      BY <3>1, <3>2
    <3> QED
      BY <2>0, <3>3, Zenon
  <2>3. CASE j > Len(eps) /\ i <= Len(eps)
    <3>1. a[j] \in Config!ToSet(q) /\ a[j].key.text # ""
      BY <1>12, <2>3
    <3>2. i \in 1..Len(eps) /\ a[i] = eps[i]
      BY <1>2, <1>7, <1>14, <2>3
    <3> QED
      BY <1>14, <1>15, <2>1, <3>1, <3>2
  <2>4. CASE j > Len(eps) /\ i > Len(eps)
    <3>1. a[j] \in Config!ToSet(q) /\ a[i] \in Config!ToSet(q)
      BY <1>12, <2>4
    <3>2. PICK k \in 1..Len(q), m \in 1..Len(q) : a[j] = q[k] /\ a[i] = q[m]
      BY <1>8, <3>1, Zenon
    <3>3. AsReached(q[k]) /\ AsReached(q[m])
      OBVIOUS
    <3>4. Config!Same(q[m], q[k])
      BY <1>15, <1>14a, <3>2, <3>3, Zenon
    <3> QED
      BY <2>1, <3>2, <3>4, Zenon
  <2>5. j <= Len(eps) \/ (j > Len(eps) /\ i <= Len(eps)) \/ (j > Len(eps) /\ i > Len(eps))
    BY ONLY <1>2, <2>0
  <2> QED
    BY <2>2, <2>3, <2>4, <2>5, Zenon
<1>16. ASSUME NEW p \in Config!ToSet(eps), NEW e \in Config!ToSet(q), e.key.text # "", ~Config!Same(p, e),
              Config!Reached(p) = Config!Reached(e)
       PROVE  \E i, j \in DOMAIN a : i # j /\ Config!Reached(a[i]) = Config!Reached(a[j])
  <2>1. PICK k \in 1..Len(eps) : p = eps[k]
    BY <1>14
  <2>2. PICK j \in DOMAIN a : Config!Same(a[j], e)
    BY <1>11, <1>16
  <2>3. k \in DOMAIN a /\ a[k] = p
    BY <1>14, <2>1
  <2>4. k # j
    BY <1>16, <2>2, <2>3
  <2>5. Config!Reached(a[j]) = Config!Reached(e)
    BY <1>13, <2>2, Zenon
  <2>6. Config!Reached(a[k]) = Config!Reached(a[j])
    <3>1. Config!Reached(a[k]) = Config!Reached(p)
      BY <2>3, Zenon
    <3> HIDE DEF Config!Reached
    <3> QED
      BY ONLY <1>16, <2>5, <3>1
  <2> QED
    BY <2>3, <2>4, <2>6
<1>17. (\E i, j \in DOMAIN a : i # j /\ Config!Reached(a[i]) = Config!Reached(a[j]))
         <=> \E p \in Config!ToSet(eps) : \E e \in Config!ToSet(q) :
               e.key.text # "" /\ ~Config!Same(p, e) /\ Config!Reached(p) = Config!Reached(e)
  <2>1. ASSUME NEW i \in DOMAIN a, NEW j \in DOMAIN a, i # j, Config!Reached(a[i]) = Config!Reached(a[j])
        PROVE  \E p \in Config!ToSet(eps) : \E e \in Config!ToSet(q) :
                 e.key.text # "" /\ ~Config!Same(p, e) /\ Config!Reached(p) = Config!Reached(e)
    <3>1. i < j \/ j < i
      BY <1>7, <2>1
    <3>2. CASE i < j
      BY <1>15, <2>1, <3>2
    <3>3. CASE j < i
      BY <1>15, <2>1, <3>3
    <3> QED
      BY <3>1, <3>2, <3>3
  <2> QED
    BY <1>16, <2>1, Zenon
<1>18. Config!EndpointsOf(a, eps, q)
  BY <1>9, <1>10, <1>11, <1>12, <1>17, Zenon DEF Config!EndpointsOf
<1> QED
  BY <1>6, <1>18 DEF a

Join(S) == [q \in Seq(S) |-> [s \in Seq(S) |-> s \o q]]

\* FlattenSeq is a fold: the sequences of a sequence, one after the other.
LEMMA FlattenIs ==
  ASSUME NEW S, NEW qs \in Seq(Seq(S))
  PROVE  FoldOf(Config!FlattenSeq(qs), Seq(S), <<>>, Join(S), qs)
<1> DEFINE m == Len(qs)
           Rec(f) == f = [n \in 1..m |-> IF n = 1 THEN qs[n] ELSE f[n - 1] \o qs[n]]
<1>1. m \in Nat /\ \A n \in 1..m : qs[n] \in Seq(S)
  OBVIOUS
<1>2. /\ <<>> \in Seq(S)
      /\ Join(S) \in [Seq(S) -> [Seq(S) -> Seq(S)]]
      /\ \A q, s \in Seq(S) : Join(S)[q][s] = s \o q
  BY DEF Join
<1>3. PICK h : Follows(h, Seq(S), <<>>, Join(S), qs)
  BY <1>2, FoldExists
<1>4. /\ h \in [0..m -> Seq(S)] /\ h[0] = <<>>
      /\ \A n \in 1..m : h[n] = h[n - 1] \o qs[n]
  <2>1. h \in [0..m -> Seq(S)] /\ h[0] = <<>> /\ \A n \in 1..m : n - 1 \in 0..m
    BY <1>1, <1>3 DEF Follows
  <2> QED
    BY <1>1, <1>2, <1>3, <2>1 DEF Follows
<1>5. CASE m = 0
  <2>1. Config!FlattenSeq(qs) = <<>> /\ 0 \in 0..m
    BY <1>5 DEF Config!FlattenSeq
  <2> QED
    BY <1>3, <1>4, <1>5, <2>1 DEF FoldOf
<1>6. CASE m # 0
  <2> DEFINE g == [n \in 1..m |-> h[n]]
  <2>1. Rec(g)
    <3>1. ASSUME NEW n \in 1..m PROVE g[n] = IF n = 1 THEN qs[n] ELSE g[n - 1] \o qs[n]
      <4>1. CASE n = 1
        <5>1. h[n] = h[n - 1] \o qs[n] /\ n - 1 = 0
          <6>1. n - 1 = 0
            BY <4>1
          <6> QED
            BY <1>4, <6>1
        <5>2. <<>> \o qs[n] = qs[n]
          BY <1>1
        <5> QED
          BY <1>4, <4>1, <5>1, <5>2
      <4>2. CASE n # 1
        <5>1. n - 1 \in 1..m
          BY <1>1, <4>2
        <5> QED
          BY <1>4, <4>2, <5>1
      <4> QED
        BY <4>1, <4>2
    <3>2. g = [n \in 1..m |-> g[n]]
      OBVIOUS
    <3> HIDE DEF g
    <3> QED
      BY <3>1, <3>2
  <2> HIDE DEF g
  <2> DEFINE f == CHOOSE x : Rec(x)
  <2>2. Rec(f)
    <3> HIDE DEF Rec
    <3> QED
      BY <2>1
  <2>3. Config!FlattenSeq(qs) = f[m]
    BY <1>6 DEF Config!FlattenSeq
  <2> HIDE DEF f
  <2>4. \A n \in 1..m : f[n] = IF n = 1 THEN qs[n] ELSE f[n - 1] \o qs[n]
    BY ONLY <2>2
  <2> HIDE DEF Rec
  <2> DEFINE k == [n \in 0..m |-> IF n = 0 THEN <<>> ELSE f[n]]
  <2>5. k = [n \in 0..m |-> k[n]] /\ k[0] = <<>>
    BY <1>1
  <2>6. ASSUME NEW n \in 1..m, k[n - 1] \in Seq(S) PROVE k[n] = Join(S)[qs[n]][k[n - 1]]
    <3>1. k[n] = f[n] /\ n - 1 \in 0..m /\ (n # 1 => k[n - 1] = f[n - 1]) /\ (n = 1 => k[n - 1] = <<>>)
      BY <1>1
    <3> HIDE DEF k
    <3>2. Join(S)[qs[n]][k[n - 1]] = k[n - 1] \o qs[n]
      BY <1>1, <1>2, <2>6
    <3>3. CASE n = 1
      <4>1. <<>> \o qs[n] = qs[n]
        BY <1>1
      <4> QED
        BY <2>4, <3>1, <3>2, <3>3, <4>1
    <3>4. CASE n # 1
      BY <2>4, <3>1, <3>2, <3>4
    <3> QED
      BY <3>3, <3>4
  <2>7. k[m] = f[m]
    BY <1>1, <1>6
  <2> HIDE DEF k
  <2>8. Follows(k, Seq(S), <<>>, Join(S), qs)
    BY <1>2, <2>5, <2>6, FoldIs
  <2> QED
    BY <2>3, <2>7, <2>8 DEF FoldOf
<1> QED
  BY <1>5, <1>6

LEMMA FlattenType ==
  ASSUME NEW S, NEW qs \in Seq(Seq(S))
  PROVE  Config!FlattenSeq(qs) \in Seq(S)
BY FlattenIs, FoldType

\* Domains and keys of any texts.
AnyDomain(T) == [kind : T, site : T, slashes : Nat]
AnyKey(T) == [text : T, blanks : Nat]

\* What a setting of additional endpoints may say: any domains, each with any keys.
Additional(T) == Seq([domain : AnyDomain(T), keys : Seq(AnyKey(T))])

\* An additional endpoint is written as what it reaches.
LEMMA EntryAsReached ==
  ASSUME NEW T, NEW d \in AnyDomain(T), NEW key \in AnyKey(T), NEW route, NEW reliable
  PROVE  AsReached(Config!Endpoint(Config!urlFor(route, d), route, Config!TrimSpace(key), reliable))
<1>1. /\ Config!Trimmed(Config!urlFor(route, d)) = Config!urlFor(route, d)
      /\ Config!TrimSpace(Config!TrimSpace(key)) = Config!TrimSpace(key)
  BY DEF AnyDomain, AnyKey, Config!Trimmed, Config!TrimSpace, Config!urlFor, Config!infraDomain
<1> QED
  BY <1>1 DEF AsReached, Config!Reached, Config!Endpoint

\* appendAdditional on no endpoint or one.
LEMMA AppendShips ==
  ASSUME NEW T, NEW extra \in Additional(T), NEW route, NEW p, NEW eps \in {<<>>, <<p>>}
  PROVE  Config!EndpointsOf(Config!appendAdditional(eps, extra, route), eps,
                            Config!Entries(extra, route))
<1> DEFINE E(d, k) == Config!Endpoint(Config!urlFor(route, d), route, Config!TrimSpace(k), TRUE)
           Es == {E(d, k) : d \in AnyDomain(T), k \in AnyKey(T)}
           S == {p} \cup Es
           keys(i) == [k \in DOMAIN extra[i].keys |-> E(extra[i].domain, extra[i].keys[k])]
           qs == [i \in DOMAIN extra |-> keys(i)]
<1>1. ASSUME NEW i \in DOMAIN extra PROVE keys(i) \in Seq(Es)
  <2>1. extra[i].domain \in AnyDomain(T) /\ extra[i].keys \in Seq(AnyKey(T))
    <3>1. extra[i] \in [domain : AnyDomain(T), keys : Seq(AnyKey(T))]
      <4>1. \A R : extra \in Seq(R) => extra[i] \in R
        OBVIOUS
      <4> QED
        BY <4>1, Zenon DEF Additional
    <3> QED
      BY <3>1
  <2>2. \A k \in DOMAIN extra[i].keys : extra[i].keys[k] \in AnyKey(T)
    BY <2>1
  <2>3. \A k \in DOMAIN extra[i].keys : E(extra[i].domain, extra[i].keys[k]) \in Es
    <3> HIDE DEF E
    <3> QED
      BY <2>1, <2>2
  <2>4. PICK n \in Nat : DOMAIN extra[i].keys = 1..n
    BY <2>1
  <2> HIDE DEF Es, E
  <2>5. keys(i) \in [1..n -> Es]
    BY <2>3, <2>4
  <2> QED
    BY <2>5
<1>2. qs \in Seq(Seq(Es))
  <2>1. PICK n \in Nat : DOMAIN extra = 1..n
    BY DEF Additional
  <2> HIDE DEF keys, Es
  <2>2. qs \in [1..n -> Seq(Es)]
    BY <1>1, <2>1
  <2> QED
    BY <2>2
<1>3. Config!Entries(extra, route) = Config!FlattenSeq(qs)
  BY DEF Config!Entries
<1>4. \A e \in Es : AsReached(e)
  <2>1. ASSUME NEW d \in AnyDomain(T), NEW k \in AnyKey(T)
        PROVE  AsReached(E(d, k))
    BY EntryAsReached
  <2> HIDE DEF E
  <2> QED
    BY <2>1
<1> HIDE DEF Es, qs
<1> DEFINE q == Config!Entries(extra, route)
<1>5. q \in Seq(Es)
  BY <1>2, <1>3, FlattenType
<1> HIDE DEF q
<1>6. q \in Seq(S) /\ \A k \in 1..Len(q) : AsReached(q[k])
  <2>1. PICK n \in Nat : q \in [1..n -> Es]
    BY <1>5
  <2>2. q \in [1..n -> S] /\ Len(q) = n /\ \A k \in 1..n : q[k] \in Es
    BY <2>1, <1>5
  <2> HIDE DEF S
  <2> QED
    BY <1>4, <2>2
<1>7. /\ eps \in Seq(S)
      /\ \A i, j \in 1..Len(eps) : Config!Same(eps[i], eps[j]) => i = j
      /\ \A i, j \in 1..Len(eps) : Config!Reached(eps[i]) = Config!Reached(eps[j]) => i = j
  <2>1. p \in S
    OBVIOUS
  <2> HIDE DEF S
  <2>2. CASE eps = <<>>
    BY <2>2
  <2>3. CASE eps = <<p>>
    BY <2>1, <2>3
  <2> QED
    BY <2>2, <2>3
<1> HIDE DEF S
<1>8. Config!EndpointsOf(Config!AddNew(eps, q), eps, q)
  BY <1>6, <1>7, AddNewShips
<1> QED
  BY <1>8 DEF q, Config!appendAdditional

\* Whatever endpoints the settings name, each component ships to the primary first,
\* to every other with a key, and to none twice that is written alike; and twice to one
\* intake with one key exactly if the primary is written otherwise than a setting that
\* names its intake (config.go: appendAdditional and the functions that call it).
THEOREM ShippedOnce ==
  ASSUME NEW T, NEW cfg, NEW route,
         cfg.additional \in Additional(T), cfg.processAdditional \in Additional(T),
         cfg.profilingAdditional \in Additional(T)
  PROVE  Config!ShipsOnce(cfg, route)
<1>1. ASSUME NEW extra \in Additional(T), NEW r, NEW p, NEW eps \in {<<>>, <<p>>}
      PROVE  Config!EndpointsOf(Config!appendAdditional(eps, extra, r), eps,
                                Config!Entries(extra, r))
  BY <1>1, AppendShips
<1>2. Config!EndpointsOf(
        Config!infraEndpoints(cfg, route),
        <<Config!Endpoint(Config!infraBase(cfg), route, cfg.apiKey, TRUE)>>,
        Config!Entries(cfg.additional, route))
  BY <1>1 DEF Config!infraEndpoints
<1>3. Config!EndpointsOf(
        Config!ProcessEndpoints(cfg),
        <<Config!Endpoint(Config!ProcessURL(cfg), "collector", cfg.apiKey, TRUE)>>,
        Config!Entries(cfg.processAdditional, "collector"))
  BY <1>1 DEF Config!ProcessEndpoints
<1>4. \E p : Config!profilingMain(cfg) \in {<<>>, <<p>>}
  BY DEF Config!profilingMain
<1>5. Config!EndpointsOf(Config!ProfilingEndpoints(cfg), Config!profilingMain(cfg),
                         Config!Entries(cfg.profilingAdditional, ""))
  BY <1>1, <1>4 DEF Config!ProfilingEndpoints
<1> QED
  BY <1>2, <1>3, <1>5, Zenon DEF Config!ShipsOnce

\* The logs endpoints, whatever logs_config says (config.go:285-303).
THEOREM LogsShippedOnce ==
  ASSUME NEW T, NEW S, NEW cfg, cfg.logsAdditional \in Seq(S), \A e \in S : e.key \in AnyKey(T)
  PROVE  Config!LogsShipOnce(cfg)
<1> DEFINE extra == cfg.logsAdditional
           p == Config!Endpoint(Config!LogsURL(cfg), "logs", cfg.apiKey, TRUE)
           entry(i) == Config!Endpoint(
                         [kind |-> "custom", site |-> extra[i].host, slashes |-> 0], "logs",
                         IF extra[i].host = "" THEN Config!NoKey ELSE Config!TrimSpace(extra[i].key),
                         extra[i].isReliable # "false")
           R == {p} \cup {entry(i) : i \in DOMAIN extra}
           q == Config!LogsEntries(extra)
           eps == Config!LogsEndpoints(cfg)
<1>1. q = [i \in DOMAIN extra |-> entry(i)]
  BY DEF Config!LogsEntries
<1>2. PICK n \in Nat : DOMAIN extra = 1..n
  OBVIOUS
<1>3. p \in R /\ \A i \in DOMAIN extra : entry(i) \in R
  <2> HIDE DEF entry, p
  <2> QED
    OBVIOUS
<1>4. \A i \in DOMAIN extra :
        /\ entry(i).url[1] = [kind |-> "custom", site |-> extra[i].host, slashes |-> 0]
        /\ extra[i].host # "" => entry(i).key = Config!TrimSpace(extra[i].key)
                                 /\ entry(i).key.text = extra[i].key.text
        /\ AsReached(entry(i))
  <2> SUFFICES ASSUME NEW i \in DOMAIN extra
               PROVE  /\ entry(i).url[1] = [kind |-> "custom", site |-> extra[i].host, slashes |-> 0]
                      /\ extra[i].host # "" => entry(i).key = Config!TrimSpace(extra[i].key)
                                               /\ entry(i).key.text = extra[i].key.text
                      /\ AsReached(entry(i))
    OBVIOUS
  <2>1. extra[i].key \in AnyKey(T)
    <3>1. extra[i] \in S
      BY <1>2
    <3> QED
      BY <3>1
  <2>2. \A key \in AnyKey(T) : /\ Config!TrimSpace(Config!TrimSpace(key)) = Config!TrimSpace(key)
                               /\ Config!TrimSpace(key).text = key.text
    BY DEF AnyKey, Config!TrimSpace
  <2>4. Config!TrimSpace(Config!NoKey) = Config!NoKey
    <3>1. \A x : Config!TrimSpace([text |-> x, blanks |-> 0]) = [text |-> x, blanks |-> 0]
      BY DEF Config!TrimSpace
    <3>2. Config!NoKey = [text |-> "", blanks |-> 0]
      BY DEF Config!NoKey, Config!Key
    <3> QED
      BY <3>1, <3>2, Zenon
  <2>3. \A h : Config!Trimmed([kind |-> "custom", site |-> h, slashes |-> 0])
                 = [kind |-> "custom", site |-> h, slashes |-> 0]
    BY DEF Config!Trimmed
  <2> QED
    BY <2>1, <2>2, <2>3, <2>4 DEF Config!Endpoint, Config!Reached, AsReached
<1> HIDE DEF entry, p, R
<1>5. q \in [1..n -> R]
  <2> HIDE DEF q
  <2> QED
    BY <1>1, <1>2, <1>3
<1> HIDE DEF q
<1>6. q \in Seq(R) /\ <<p>> \in Seq(R)
  BY <1>3, <1>5
<1>7. /\ \A i, j \in 1..Len(<<p>>) : Config!Same(<<p>>[i], <<p>>[j]) => i = j
      /\ \A i, j \in 1..Len(<<p>>) : Config!Reached(<<p>>[i]) = Config!Reached(<<p>>[j]) => i = j
      /\ \A k \in 1..Len(q) : AsReached(q[k])
  <2>1. DOMAIN q = 1..n /\ Len(q) = n
    BY <1>5, <1>6
  <2>2. \A k \in 1..n : q[k] = entry(k)
    BY <1>1, <1>2 DEF q
  <2>3. \A k \in 1..Len(q) : AsReached(q[k])
    BY <1>2, <1>4, <2>1, <2>2
  <2>4. Len(<<p>>) = 1 /\ 1..1 = {1}
    OBVIOUS
  <2> QED
    BY <2>3, <2>4
<1>8. eps = Config!AddNew(<<p>>, q)
  BY DEF Config!LogsEndpoints, p, q
<1> HIDE DEF eps
<1>9. Config!EndpointsOf(eps, <<p>>, q)
  BY <1>6, <1>7, <1>8, AddNewShips
<1>10. ASSUME NEW i \in DOMAIN extra, extra[i].host # "", extra[i].key.text # ""
       PROVE  \E j \in DOMAIN eps : eps[j].key = Config!TrimSpace(extra[i].key)
                /\ eps[j].url[1] = [kind |-> "custom", site |-> extra[i].host, slashes |-> 0]
  <2>1. q[i] \in Config!ToSet(q) /\ q[i] = entry(i) /\ entry(i).key = Config!TrimSpace(extra[i].key)
        /\ entry(i).key.text # ""
    BY <1>1, <1>4, <1>10 DEF Config!ToSet
  <2>2. PICK j \in DOMAIN eps : Config!Same(eps[j], q[i])
    BY <1>9, <1>10, <2>1 DEF Config!EndpointsOf
  <2> QED
    BY <1>4, <2>1, <2>2 DEF Config!Same
<1> QED
  BY <1>9, <1>10 DEF Config!LogsShipOnce, eps, q, p

Texts(env, V) == \A v \in DOMAIN env : env[v] \in V

\* What a step makes of a configuration with values in V.
Override(C, V, env, St) ==
  [s \in St |-> [c \in [C -> V] |-> Config!Overridden(c, s, env)]]

\* r is cfg with what the step takes from the environment.
Laid(r, C, cfg, s, env) ==
  \A c \in C : r[c] = IF c = s.setting /\ Config!Takes(s, env) THEN env[s.var] ELSE cfg[c]

LEMMA OverriddenIs ==
  ASSUME NEW C, NEW V, NEW env, Texts(env, V),
         NEW cfg \in [C -> V], NEW s, s.setting \in C
  PROVE  /\ Config!Overridden(cfg, s, env) \in [C -> V]
         /\ Laid(Config!Overridden(cfg, s, env), C, cfg, s, env)
<1> DEFINE r == Config!Read(s.kind, env[s.var], cfg[s.setting])
<1>1. s.var \in DOMAIN env =>
        r = IF Config!Takes(s, env) THEN env[s.var] ELSE cfg[s.setting]
  BY DEF Config!Read, Config!envString, Config!envNumber, Config!envJSON, Config!Takes
<1> HIDE DEF r
<1>2. CASE s.var \notin DOMAIN env
  BY <1>2 DEF Config!Overridden, Config!Takes, Laid
<1>3. CASE s.var \in DOMAIN env
  <2>1. Config!Overridden(cfg, s, env) = [cfg EXCEPT ![s.setting] = r]
    BY <1>3 DEF Config!Overridden, r
  <2>2. r \in V
    BY <1>1, <1>3 DEF Texts
  <2> QED
    BY <1>1, <1>3, <2>1, <2>2 DEF Laid
<1> QED
  BY <1>2, <1>3

\* What applyEnv makes of a configuration is a fold of its steps.
LEMMA ApplyEnvIs ==
  ASSUME NEW C, NEW V, NEW env, Texts(env, V),
         NEW St, \A s \in St : s.setting \in C,
         NEW steps \in Seq(St), NEW cfg \in [C -> V]
  PROVE  FoldOf(Config!applyEnv(steps, cfg, env), [C -> V], cfg, Override(C, V, env, St), steps)
<1> DEFINE m == Len(steps)
           step == Override(C, V, env, St)
           Rec(f) == f = [n \in 0..m |-> IF n = 0 THEN cfg
                                         ELSE Config!Overridden(f[n - 1], steps[n], env)]
<1>1. m \in Nat /\ \A n \in 1..m : steps[n] \in St
  OBVIOUS
<1>2. step \in [St -> [[C -> V] -> [C -> V]]]
  BY OverriddenIs DEF Override
<1>3. \A n \in 1..m : \A c \in [C -> V] :
        step[steps[n]][c] = Config!Overridden(c, steps[n], env)
  BY <1>1 DEF Override
<1> HIDE DEF step
<1>4. PICK h : Follows(h, [C -> V], cfg, step, steps)
  BY <1>2, FoldExists
<1>5. Rec(h)
  <2>1. h \in [0..m -> [C -> V]] /\ h[0] = cfg
    BY <1>4 DEF Follows
  <2>2. ASSUME NEW n \in 1..m PROVE h[n] = Config!Overridden(h[n - 1], steps[n], env)
    <3>1. h[n] = step[steps[n]][h[n - 1]] /\ n - 1 \in 0..m
      BY <1>1, <1>4 DEF Follows
    <3> QED
      BY <1>3, <2>1, <3>1
  <2> SUFFICES ASSUME NEW n \in 0..m
               PROVE  h[n] = IF n = 0 THEN cfg ELSE Config!Overridden(h[n - 1], steps[n], env)
    BY <2>1
  <2> QED
    BY <1>1, <2>1, <2>2
<1> DEFINE f == CHOOSE x : Rec(x)
<1>6. Rec(f)
  <2> HIDE DEF Rec
  <2> QED
    BY <1>5
<1>7. Config!applyEnv(steps, cfg, env) = f[m]
  BY DEF Config!applyEnv
<1> HIDE DEF f
<1>8. /\ f = [n \in 0..m |-> f[n]] /\ f[0] = cfg
      /\ \A n \in 1..m : f[n] = Config!Overridden(f[n - 1], steps[n], env)
  <2>1. \A n \in 0..m : f[n] = IF n = 0 THEN cfg ELSE Config!Overridden(f[n - 1], steps[n], env)
    BY ONLY <1>6
  <2>2. DOMAIN f = 0..m /\ f = [n \in DOMAIN f |-> f[n]]
    BY ONLY <1>6
  <2>3. 0 \in 0..m /\ \A n \in 1..m : n \in 0..m /\ n # 0
    BY ONLY <1>1
  <2> QED
    BY ONLY <2>1, <2>2, <2>3
<1> HIDE DEF Rec
<1>9. \A n \in 1..m : f[n - 1] \in [C -> V] => f[n] = step[steps[n]][f[n - 1]]
  BY <1>3, <1>8
<1>10. Follows(f, [C -> V], cfg, step, steps)
  BY <1>2, <1>8, <1>9, FoldIs
<1> QED
  BY <1>7, <1>10 DEF FoldOf, step

\* One more step has the last word if it takes a value, and changes nothing otherwise.
LEMMA LastSaysAppend ==
  ASSUME NEW St, NEW q \in Seq(St), NEW s \in St, NEW cfg, NEW env, NEW c
  PROVE  Config!LastSays(Append(q, s), cfg, env, c)
           = IF s.setting = c /\ Config!Takes(s, env) THEN env[s.var]
             ELSE Config!LastSays(q, cfg, env, c)
<1> DEFINE m == Len(q)
           r == Append(q, s)
           Is(x) == {i \in DOMAIN x : x[i].setting = c /\ Config!Takes(x[i], env)}
           Last(S, i) == i \in S /\ \A k \in S : k <= i
           last(S) == CHOOSE i \in S : \A k \in S : k <= i
<1>1. /\ m \in Nat /\ DOMAIN q = 1..m /\ DOMAIN r = 1..(m + 1)
      /\ r[m + 1] = s /\ \A n \in 1..m : r[n] = q[n]
  OBVIOUS
<1> HIDE DEF r
<1>2. \A x : Config!LastSays(x, cfg, env, c)
               = IF Is(x) = {} THEN cfg[c] ELSE env[x[last(Is(x))].var]
  BY DEF Config!LastSays
<1>3. \A S, i, j : Last(S, i) /\ S \subseteq Nat /\ Last(S, j) => i = j
  OBVIOUS
<1>4. \A S, i : Last(S, i) /\ S \subseteq Nat => last(S) = i
  <2> SUFFICES ASSUME NEW S, NEW i, Last(S, i), S \subseteq Nat PROVE last(S) = i
    OBVIOUS
  <2>1. Last(S, last(S))
    OBVIOUS
  <2> HIDE DEF Last, last
  <2> QED
    BY <1>3, <2>1
<1> HIDE DEF last
<1>5. CASE s.setting = c /\ Config!Takes(s, env)
  <2>1. m + 1 \in Is(r) /\ Is(r) \subseteq Nat /\ \A k \in Is(r) : k <= m + 1
    BY <1>1, <1>5
  <2>2. last(Is(r)) = m + 1 /\ Is(r) # {}
    <3> HIDE DEF Is
    <3> QED
      BY <1>4, <2>1
  <2> HIDE DEF Is
  <2> QED
    BY <1>1, <1>2, <1>5, <2>2 DEF r
<1>6. CASE ~(s.setting = c /\ Config!Takes(s, env))
  <2>1. Is(r) = Is(q)
    <3>1. \A i \in 1..(m + 1) : i \in 1..m \/ i = m + 1
      BY <1>1
    <3> QED
      BY <1>1, <1>6, <3>1
  <2>2. Is(q) \subseteq 0..m /\ Is(q) \subseteq DOMAIN q /\ Is(q) \subseteq Nat
    BY <1>1
  <2> HIDE DEF Is
  <2>3. CASE Is(q) = {}
    BY <1>2, <1>6, <2>1, <2>3 DEF r
  <2>4. CASE Is(q) # {}
    <3>1. PICK i \in Is(q) : \A k \in Is(q) : k <= i
      BY <1>1, <2>2, <2>4, GreatestNumber
    <3>2. last(Is(q)) = i
      BY <1>4, <2>2, <3>1
    <3>3. r[i] = q[i]
      BY <1>1, <2>2
    <3> QED
      BY <1>2, <1>6, <2>1, <2>4, <3>2, <3>3 DEF r
  <2> QED
    BY <2>3, <2>4
<1> QED
  BY <1>5, <1>6

AsSaid(C, steps, cfg, env) ==
  \A c \in C : Config!applyEnv(steps, cfg, env)[c] = Config!LastSays(steps, cfg, env, c)

\* Whatever steps are laid over whatever configuration, a setting is what the last step
\* that can read its variable says.
LEMMA LastSaid ==
  ASSUME NEW C, NEW V, NEW env, Texts(env, V),
         NEW St, \A s \in St : s.setting \in C,
         NEW steps \in Seq(St), NEW cfg \in [C -> V]
  PROVE  AsSaid(C, steps, cfg, env)
<1> DEFINE F(q) == Config!applyEnv(q, cfg, env)
           Said(q) == \A c \in C : F(q)[c] = Config!LastSays(q, cfg, env, c)
           T == {q \in Seq(St) : Said(q)}
           step == Override(C, V, env, St)
<1>1. \A q \in Seq(St) : FoldOf(F(q), [C -> V], cfg, step, q)
  BY ApplyEnvIs
<1> HIDE DEF F
<1>2. <<>> \in T
  <2>1. F(<<>>) = cfg
    <3>1. <<>> \in Seq(St)
      OBVIOUS
    <3>2. FoldOf(F(<<>>), [C -> V], cfg, step, <<>>)
      BY <1>1, <3>1
    <3> HIDE DEF step
    <3> QED
      BY <3>2, FoldEmpty
  <2>2. \A c \in C : Config!LastSays(<<>>, cfg, env, c) = cfg[c]
    BY DEF Config!LastSays
  <2> QED
    BY <2>1, <2>2
<1>3. ASSUME NEW q \in T, NEW s \in St PROVE Append(q, s) \in T
  <2>1. q \in Seq(St) /\ Append(q, s) \in Seq(St)
    OBVIOUS
  <2>2. F(q) \in [C -> V] /\ F(Append(q, s)) = step[s][F(q)]
    <3>1. FoldOf(F(q), [C -> V], cfg, step, q)
          /\ FoldOf(F(Append(q, s)), [C -> V], cfg, step, Append(q, s))
      BY <1>1, <2>1
    <3> HIDE DEF step
    <3> QED
      BY <2>1, <3>1, FoldAppend
  <2>3. F(Append(q, s)) = Config!Overridden(F(q), s, env)
    BY <2>2 DEF Override
  <2>4. \A c \in C : F(Append(q, s))[c]
                    = IF c = s.setting /\ Config!Takes(s, env) THEN env[s.var] ELSE F(q)[c]
    <3>1. s.setting \in C /\ F(q) \in [C -> V]
      BY <2>2
    <3>2. Laid(Config!Overridden(F(q), s, env), C, F(q), s, env)
      <4> HIDE DEF Said, T, step
      <4> QED
        BY <3>1, OverriddenIs, Zenon
    <3> QED
      BY <2>3, <3>2 DEF Laid
  <2>5. Said(Append(q, s))
    BY <2>1, <2>4, LastSaysAppend
  <2> HIDE DEF Said
  <2> QED
    BY <2>1, <2>5
<1>4. T = Seq(St)
  <2>1. T \subseteq Seq(St)
    OBVIOUS
  <2> HIDE DEF T
  <2> QED
    BY <1>2, <1>3, <2>1, InductionOnSeq
<1> QED
  BY <1>4 DEF AsSaid, F

\* A setting is what the last of its variables that can be read says, else what the file
\* says, else the default; only a file that is there and cannot be read, or parsed,
\* stops the agent (config.Load, applyEnv).
THEOREM OverridesLaw ==
  ASSUME NEW V, NEW file, NEW has, NEW env, "default" \in V,
         \A s \in DOMAIN has : has[s] \in V, Texts(env, V)
  PROVE  Config!Overrides(file, has, env)
<1> DEFINE C == Config!Settings
           St == {Config!Steps[i] : i \in DOMAIN Config!Steps}
           under == Config!Under(file, has)
           loaded == Config!Load(file, has, env)
<1>1. Config!Steps \in Seq(St) /\ \A s \in St : s.setting \in C
  <2>1. Len(Config!Steps) = 4 /\ DOMAIN Config!Steps = 1..4
    BY DEF Config!Steps
  <2>2. Config!Steps = [i \in 1..4 |-> Config!Steps[i]]
    BY DEF Config!Steps
  <2>3. \A s \in St : s.setting \in C
    BY DEF Config!Settings
  <2>4. Config!Steps \in [1..4 -> St]
    BY <2>1, <2>2
  <2> HIDE DEF St
  <2>5. Config!Steps \in Seq(St)
    BY ONLY <2>4
  <2> QED
    BY <2>3, <2>5
<1>2. under \in [C -> V]
  BY DEF Config!Under, Config!Default
<1>3. AsSaid(C, Config!Steps, under, env)
  <2> HIDE DEF C, St, under, loaded
  <2> QED
    BY <1>1, <1>2, LastSaid, Zenon
<1>4. loaded = IF file \in {"unreadable", "malformed"} THEN {}
               ELSE {Config!applyEnv(Config!Steps, under, env)}
  BY DEF Config!Load
<1> HIDE DEF loaded, under
<1> QED
  BY <1>3, <1>4 DEF Config!Overrides, AsSaid, loaded, under

\* Picked: a fold that keeps an element or passes over it.
Keep(E, K) ==
  [e \in E |-> [s \in Seq(E) |-> IF e \in K THEN Append(s, e) ELSE s]]

LEMMA PickedIs ==
  ASSUME NEW E, NEW q \in Seq(E), NEW K
  PROVE  FoldOf(Config!Picked(q, K), Seq(E), <<>>, Keep(E, K), q)
<1> DEFINE m == Len(q)
           Go(s, e) == IF e \in K THEN Append(s, e) ELSE s
           Rec(f) == f = [n \in 0..m |-> IF n = 0 THEN <<>>
                           ELSE IF q[n] \in K THEN Append(f[n - 1], q[n]) ELSE f[n - 1]]
<1>1. m \in Nat /\ \A n \in 1..m : q[n] \in E
  OBVIOUS
<1>2. /\ <<>> \in Seq(E)
      /\ Keep(E, K) \in [E -> [Seq(E) -> Seq(E)]]
      /\ \A e \in E : \A s \in Seq(E) : Keep(E, K)[e][s] = Go(s, e)
  BY DEF Keep
<1>3. PICK h : Follows(h, Seq(E), <<>>, Keep(E, K), q)
  BY <1>2, FoldExists
<1>4. /\ h \in [0..m -> Seq(E)] /\ h[0] = <<>>
      /\ \A n \in 1..m : h[n] = Go(h[n - 1], q[n])
  <2>1. h \in [0..m -> Seq(E)] /\ h[0] = <<>> /\ \A n \in 1..m : n - 1 \in 0..m
    BY <1>1, <1>3 DEF Follows
  <2> HIDE DEF Go
  <2> QED
    BY <1>1, <1>2, <1>3, <2>1 DEF Follows
<1>5. Rec(h)
  <2>1. h = [n \in 0..m |-> h[n]]
    BY <1>4
  <2>2. \A n \in 0..m : h[n] = IF n = 0 THEN <<>>
                         ELSE IF q[n] \in K THEN Append(h[n - 1], q[n]) ELSE h[n - 1]
    <3>1. \A n \in 0..m : n = 0 \/ n \in 1..m
      BY <1>1
    <3> QED
      BY <1>4, <3>1
  <2> QED
    BY <2>1, <2>2
<1> DEFINE f == CHOOSE x : Rec(x)
<1>6. Rec(f)
  <2> HIDE DEF Rec
  <2> QED
    BY <1>5
<1>7. Config!Picked(q, K) = f[m]
  BY DEF Config!Picked
<1> HIDE DEF f
<1>8. f = [n \in 0..m |-> f[n]] /\ f[0] = <<>> /\ \A n \in 1..m : f[n] = Go(f[n - 1], q[n])
  <2>1. DOMAIN f = 0..m /\ f = [n \in DOMAIN f |-> f[n]]
    BY ONLY <1>6
  <2>2. \A n \in 0..m : f[n] = IF n = 0 THEN <<>>
                         ELSE IF q[n] \in K THEN Append(f[n - 1], q[n]) ELSE f[n - 1]
    BY ONLY <1>6
  <2> HIDE DEF Rec
  <2>3. 0 \in 0..m /\ \A n \in 1..m : n \in 0..m /\ n # 0
    BY <1>1
  <2> QED
    BY ONLY <2>1, <2>2, <2>3
<1> HIDE DEF Rec, Go
<1>9. Follows(f, Seq(E), <<>>, Keep(E, K), q)
  <2>1. \A n \in 1..m : f[n - 1] \in Seq(E) => f[n] = Keep(E, K)[q[n]][f[n - 1]]
    BY <1>1, <1>2, <1>8
  <2> QED
    BY <1>2, <1>8, <2>1, FoldIs
<1> QED
  BY <1>7, <1>9 DEF FoldOf

LEMMA PickedNone ==
  ASSUME NEW K
  PROVE  Config!Picked(<<>>, K) = <<>>
<1>1. <<>> \in Seq({})
  OBVIOUS
<1>2. FoldOf(Config!Picked(<<>>, K), Seq({}), <<>>, Keep({}, K), <<>>)
  BY <1>1, PickedIs
<1> QED
  BY <1>2, FoldEmpty

\* x is a with b after it, n is k and l together.
Joined(x, a, b) == x = a \o b
Sum(n, k, l) == n = k + l

\* w is v, with e if K has it.
Kept(w, v, e, K) == (e \in K => w = Append(v, e)) /\ (e \notin K => w = v)

LEMMA PickedAppend ==
  ASSUME NEW E, NEW q \in Seq(E), NEW e \in E, NEW K
  PROVE  /\ Config!Picked(q, K) \in Seq(E)
         /\ Kept(Config!Picked(Append(q, e), K), Config!Picked(q, K), e, K)
<1> DEFINE v == Config!Picked(q, K)
           w == Config!Picked(Append(q, e), K)
<1>1. Append(q, e) \in Seq(E)
  OBVIOUS
<1>2. FoldOf(v, Seq(E), <<>>, Keep(E, K), q) /\ FoldOf(w, Seq(E), <<>>, Keep(E, K), Append(q, e))
  BY <1>1, PickedIs
<1> HIDE DEF v, w
<1>3. v \in Seq(E) /\ w = Keep(E, K)[e][v]
  BY <1>2, FoldAppend
<1> QED
  BY <1>3 DEF Keep, Kept, v, w

LEMMA PickedType ==
  ASSUME NEW E, NEW q \in Seq(E), NEW K
  PROVE  Config!Picked(q, K) \in Seq(E)
BY PickedIs, FoldType

\* Only the elements of the sequence matter, and picking twice is picking what is in both.
LEMMA PickedAgree ==
  ASSUME NEW E, NEW q \in Seq(E), NEW K, NEW L, \A n \in 1..Len(q) : q[n] \in K <=> q[n] \in L
  PROVE  Config!Picked(q, K) = Config!Picked(q, L)
<1> DEFINE T == {r \in Seq(E) : (\A n \in 1..Len(r) : r[n] \in K <=> r[n] \in L)
                                => Config!Picked(r, K) = Config!Picked(r, L)}
<1>1. <<>> \in T
  BY PickedNone
<1>2. ASSUME NEW r \in T, NEW e \in E PROVE Append(r, e) \in T
  <2>1. r \in Seq(E) /\ Append(r, e) \in Seq(E)
    OBVIOUS
  <2> SUFFICES ASSUME \A n \in 1..Len(Append(r, e)) : Append(r, e)[n] \in K <=> Append(r, e)[n] \in L
               PROVE  Config!Picked(Append(r, e), K) = Config!Picked(Append(r, e), L)
    BY <2>1
  <2>2. \A n \in 1..Len(r) : r[n] \in K <=> r[n] \in L
    <3>1. \A n \in 1..Len(r) : n \in 1..Len(Append(r, e)) /\ Append(r, e)[n] = r[n]
      BY <2>1
    <3> QED
      BY <3>1
  <2>3. e \in K <=> e \in L
    <3>1. Len(r) + 1 \in 1..Len(Append(r, e)) /\ Append(r, e)[Len(r) + 1] = e
      BY <2>1
    <3> QED
      BY <3>1
  <2>4. Config!Picked(r, K) = Config!Picked(r, L)
    BY <2>2
  <2>5. Kept(Config!Picked(Append(r, e), K), Config!Picked(r, K), e, K)
        /\ Kept(Config!Picked(Append(r, e), L), Config!Picked(r, L), e, L)
    BY <2>1, PickedAppend, Zenon
  <2> QED
    BY <2>3, <2>4, <2>5 DEF Kept
<1>3. T = Seq(E)
  <2>1. T \subseteq Seq(E)
    OBVIOUS
  <2> HIDE DEF T
  <2> QED
    BY <1>1, <1>2, <2>1, InductionOnSeq
<1> QED
  BY <1>3

LEMMA PickedTwice ==
  ASSUME NEW E, NEW q \in Seq(E), NEW K, NEW L
  PROVE  Config!Picked(Config!Picked(q, K), L) = Config!Picked(q, K \cap L)
<1> DEFINE T == {r \in Seq(E) : Config!Picked(Config!Picked(r, K), L) = Config!Picked(r, K \cap L)}
<1>1. <<>> \in T
  BY PickedNone
<1>2. ASSUME NEW r \in T, NEW e \in E PROVE Append(r, e) \in T
  <2>1. r \in Seq(E) /\ Append(r, e) \in Seq(E)
        /\ Config!Picked(Config!Picked(r, K), L) = Config!Picked(r, K \cap L)
    OBVIOUS
  <2>2. Config!Picked(r, K) \in Seq(E)
    BY <2>1, PickedType
  <2> DEFINE p == Config!Picked(r, K)
             a == Config!Picked(Append(r, e), K)
  <2>3. Kept(a, p, e, K)
    BY <2>1, PickedAppend, Zenon
  <2>4. Kept(Config!Picked(Append(p, e), L), Config!Picked(p, L), e, L)
    BY <2>2, PickedAppend, Zenon
  <2>5. Kept(Config!Picked(Append(r, e), K \cap L), Config!Picked(r, K \cap L), e, K \cap L)
    BY <2>1, PickedAppend, Zenon
  <2> HIDE DEF a, p
  <2>6. Config!Picked(p, L) = Config!Picked(r, K \cap L)
    BY <2>1 DEF p
  <2>7. Config!Picked(a, L) = Config!Picked(Append(r, e), K \cap L)
    <3>1. CASE e \in K
      <4>1. a = Append(p, e)
        BY <2>3, <3>1 DEF Kept
      <4>2. Kept(Config!Picked(a, L), Config!Picked(p, L), e, L)
        BY <2>4, <4>1
      <4>3. e \in L <=> e \in K \cap L
        BY <3>1
      <4> QED
        BY <2>5, <2>6, <4>2, <4>3, Zenon DEF Kept
    <3>2. CASE e \notin K
      <4>1. a = p /\ e \notin K \cap L
        BY <2>3, <3>2 DEF Kept
      <4> QED
        BY <2>5, <2>6, <4>1, Zenon DEF Kept
    <3> QED
      BY <3>1, <3>2
  <2> QED
    BY <2>1, <2>7, Zenon DEF a
<1>3. T = Seq(E)
  <2>1. T \subseteq Seq(E)
    OBVIOUS
  <2> HIDE DEF T
  <2> QED
    BY <1>1, <1>2, <2>1, InductionOnSeq
<1> QED
  BY <1>3

LEMMA PickedJoin ==
  ASSUME NEW E, NEW p \in Seq(E), NEW q \in Seq(E), NEW K
  PROVE  Joined(Config!Picked(p \o q, K), Config!Picked(p, K), Config!Picked(q, K))
<1> DEFINE T == {r \in Seq(E) : Config!Picked(p \o r, K) = Config!Picked(p, K) \o Config!Picked(r, K)}
<1>1. <<>> \in T
  <2>1. p \o <<>> = p /\ Config!Picked(p, K) \o <<>> = Config!Picked(p, K) /\ <<>> \in Seq(E)
    BY PickedType
  <2> QED
    BY <2>1, PickedNone
<1>2. ASSUME NEW r \in T, NEW e \in E PROVE Append(r, e) \in T
  <2> DEFINE a == Config!Picked(p, K)
             b == Config!Picked(r, K)
  <2>1. r \in Seq(E) /\ Append(r, e) \in Seq(E) /\ p \o r \in Seq(E)
        /\ Config!Picked(p \o r, K) = a \o b
    OBVIOUS
  <2>2. p \o Append(r, e) = Append(p \o r, e)
    BY <2>1
  <2>3. Kept(Config!Picked(p \o Append(r, e), K), Config!Picked(p \o r, K), e, K)
    BY <2>1, <2>2, PickedAppend, Zenon
  <2>4. Kept(Config!Picked(Append(r, e), K), b, e, K)
    BY <2>1, PickedAppend, Zenon
  <2>5. a \in Seq(E) /\ b \in Seq(E)
    BY <2>1, PickedType
  <2> HIDE DEF a, b
  <2>6. a \o Append(b, e) = Append(a \o b, e)
    BY <2>5
  <2>7. Config!Picked(p \o Append(r, e), K) = a \o Config!Picked(Append(r, e), K)
    <3>1. CASE e \in K
      BY <2>1, <2>3, <2>4, <2>6, <3>1, Zenon DEF Kept
    <3>2. CASE e \notin K
      BY <2>1, <2>3, <2>4, <3>2, Zenon DEF Kept
    <3> QED
      BY <3>1, <3>2
  <2> QED
    BY <2>1, <2>7, Zenon DEF a
<1>3. T = Seq(E)
  <2>1. T \subseteq Seq(E)
    OBVIOUS
  <2> HIDE DEF T
  <2> QED
    BY <1>1, <1>2, <2>1, InductionOnSeq
<1> QED
  BY <1>3 DEF Joined

\* What is picked is what there is of K.
LEMMA PickedElements ==
  ASSUME NEW E, NEW q \in Seq(E), NEW K
  PROVE  {Config!Picked(q, K)[n] : n \in DOMAIN Config!Picked(q, K)}
           = {q[n] : n \in DOMAIN q} \cap K
<1> DEFINE Els(r) == {r[n] : n \in DOMAIN r}
           T == {r \in Seq(E) : Els(Config!Picked(r, K)) = Els(r) \cap K}
<1>1. <<>> \in T
  BY PickedNone
<1>2. ASSUME NEW r \in Seq(E), NEW e \in E PROVE Els(Append(r, e)) = Els(r) \cup {e}
  <2>1. DOMAIN Append(r, e) = 1..(Len(r) + 1) /\ DOMAIN r = 1..Len(r) /\ Len(r) \in Nat
    OBVIOUS
  <2>2. \A n \in 1..(Len(r) + 1) : n \in 1..Len(r) \/ n = Len(r) + 1
    BY <2>1
  <2>3. Append(r, e)[Len(r) + 1] = e /\ \A n \in 1..Len(r) : Append(r, e)[n] = r[n]
    OBVIOUS
  <2>4. Len(r) + 1 \in 1..(Len(r) + 1) /\ \A n \in 1..Len(r) : n \in 1..(Len(r) + 1)
    BY <2>1
  <2> QED
    BY <2>1, <2>2, <2>3, <2>4
<1>3. ASSUME NEW r \in T, NEW e \in E PROVE Append(r, e) \in T
  <2>1. r \in Seq(E) /\ Append(r, e) \in Seq(E) /\ Els(Config!Picked(r, K)) = Els(r) \cap K
    OBVIOUS
  <2>2. Config!Picked(r, K) \in Seq(E)
    BY <2>1, PickedType
  <2>3. Els(Append(r, e)) = Els(r) \cup {e}
        /\ Els(Append(Config!Picked(r, K), e)) = Els(Config!Picked(r, K)) \cup {e}
    BY <1>2, <2>1, <2>2
  <2>4. Kept(Config!Picked(Append(r, e), K), Config!Picked(r, K), e, K)
    BY <2>1, PickedAppend, Zenon
  <2> HIDE DEF Els
  <2>5. Els(Config!Picked(Append(r, e), K)) = Els(Append(r, e)) \cap K
    <3>1. CASE e \in K
      <4>1. Config!Picked(Append(r, e), K) = Append(Config!Picked(r, K), e)
        BY <2>4, <3>1, Zenon DEF Kept
      <4>2. Els(Config!Picked(Append(r, e), K)) = Els(Config!Picked(r, K)) \cup {e}
        BY <2>3, <4>1, Zenon
      <4> QED
        BY <2>1, <2>3, <3>1, <4>2
    <3>2. CASE e \notin K
      <4>1. Config!Picked(Append(r, e), K) = Config!Picked(r, K)
        BY <2>4, <3>2, Zenon DEF Kept
      <4>2. Els(Config!Picked(Append(r, e), K)) = Els(Config!Picked(r, K))
        BY <4>1, Zenon
      <4> QED
        BY <2>1, <2>3, <3>2, <4>2
    <3> QED
      BY <3>1, <3>2
  <2> QED
    BY <2>1, <2>5
<1>4. T = Seq(E)
  <2>1. T \subseteq Seq(E)
    OBVIOUS
  <2> HIDE DEF T
  <2> QED
    BY <1>1, <1>3, <2>1, InductionOnSeq
<1> QED
  BY <1>4

\* Files whose sources are in L.
Files(Fl, L) == \A f \in Fl : f.logs \in Seq(L)

LEMMA DeclaredNone == Config!Declared(<<>>) = <<>>
BY DEF Config!Declared, Config!FlattenSeq

LEMMA DeclaredAppend ==
  ASSUME NEW L, NEW Fl, Files(Fl, L), NEW q \in Seq(Fl), NEW f \in Fl
  PROVE  /\ Config!Declared(q) \in Seq(L)
         /\ Joined(Config!Declared(Append(q, f)), Config!Declared(q), f.logs)
<1> DEFINE Logs(x) == [i \in DOMAIN x |-> x[i].logs]
           r == Append(q, f)
           v == Config!FlattenSeq(Logs(q))
           w == Config!FlattenSeq(Append(Logs(q), f.logs))
<1>1. /\ Len(q) \in Nat /\ DOMAIN q = 1..Len(q) /\ DOMAIN r = 1..(Len(q) + 1)
      /\ r[Len(q) + 1] = f /\ \A n \in 1..Len(q) : r[n] = q[n] /\ q[n] \in Fl
  OBVIOUS
<1> HIDE DEF r
<1>2. Logs(q) \in Seq(Seq(L)) /\ Len(Logs(q)) = Len(q) /\ f.logs \in Seq(L)
  <2>1. Logs(q) \in [1..Len(q) -> Seq(L)]
    BY <1>1 DEF Files
  <2> HIDE DEF Logs
  <2>2. Logs(q) \in Seq(Seq(L)) /\ Len(Logs(q)) = Len(q)
    BY <1>1, <2>1
  <2> QED
    BY <2>2 DEF Files
<1>3. Logs(r) = Append(Logs(q), f.logs)
  <2>1. DOMAIN Logs(r) = 1..(Len(q) + 1) /\ Logs(r)[Len(q) + 1] = f.logs
        /\ \A n \in 1..Len(q) : Logs(r)[n] = Logs(q)[n]
    BY <1>1
  <2>2. Logs(r) = [n \in DOMAIN Logs(r) |-> Logs(r)[n]]
    OBVIOUS
  <2> HIDE DEF Logs
  <2> QED
    BY <1>1, <1>2, <2>1, <2>2
<1>4. Config!Declared(q) = v /\ Config!Declared(r) = w
  <2>1. Config!Declared(q) = v /\ Config!Declared(r) = Config!FlattenSeq(Logs(r))
    BY DEF Config!Declared
  <2> HIDE DEF Logs
  <2> QED
    BY <1>3, <2>1, Zenon
<1> DEFINE a == Append(Logs(q), f.logs)
<1>5. a \in Seq(Seq(L))
  <2> HIDE DEF Logs
  <2> QED
    BY <1>2
<1>6. FoldOf(v, Seq(L), <<>>, Join(L), Logs(q)) /\ FoldOf(w, Seq(L), <<>>, Join(L), a)
  <2> HIDE DEF Logs
  <2> QED
    BY <1>2, <1>5, FlattenIs, Zenon
<1>7. v \in Seq(L) /\ w = Join(L)[f.logs][v]
  <2>1. PICK lq : lq = Logs(q)
    OBVIOUS
  <2>2. PICK lf : lf = f.logs
    OBVIOUS
  <2> HIDE DEF Logs, v, w
  <2>3. lq \in Seq(Seq(L)) /\ lf \in Seq(L)
    BY <1>2, <2>1, <2>2
  <2>4. FoldOf(v, Seq(L), <<>>, Join(L), lq) /\ FoldOf(w, Seq(L), <<>>, Join(L), Append(lq, lf))
    BY <1>6, <2>1, <2>2, Zenon
  <2>5. v \in Seq(L) /\ w = Join(L)[lf][v]
    BY <2>3, <2>4, FoldAppend
  <2> QED
    BY <2>2, <2>5
<1> HIDE DEF v, w
<1>8. w = v \o f.logs
  BY <1>2, <1>7 DEF Join
<1> QED
  BY <1>4, <1>7, <1>8, Zenon DEF r, Joined

LEMMA DeclaredType ==
  ASSUME NEW L, NEW Fl, Files(Fl, L), NEW q \in Seq(Fl)
  PROVE  Config!Declared(q) \in Seq(L)
<1>1. CASE q = <<>>
  <2>1. <<>> \in Seq(L)
    OBVIOUS
  <2> QED
    BY <1>1, <2>1, DeclaredNone, Zenon
<1>2. CASE q # <<>>
  <2>1. PICK f \in Fl : TRUE
    BY <1>2
  <2> QED
    BY DeclaredAppend, Zenon
<1> QED
  BY <1>1, <1>2

\* How often a source is in a sequence.
LEMMA TimesJoin ==
  ASSUME NEW L, NEW p \in Seq(L), NEW q \in Seq(L), NEW s
  PROVE  /\ Config!Times(p, s) \in Nat /\ Config!Times(q, s) \in Nat
         /\ Sum(Config!Times(p \o q, s), Config!Times(p, s), Config!Times(q, s))
<1>1. PICK K : K = {s}
  OBVIOUS
<1> DEFINE a == Config!Picked(p, K)
           b == Config!Picked(q, K)
<1>2. a \in Seq(L) /\ b \in Seq(L)
  BY PickedType
<1>3. Config!Picked(p \o q, K) = a \o b
  <2>1. Joined(Config!Picked(p \o q, K), Config!Picked(p, K), Config!Picked(q, K))
    BY PickedJoin, Zenon
  <2> QED
    BY <2>1, Zenon DEF Joined
<1>4. Config!Times(p, s) = Len(a) /\ Config!Times(q, s) = Len(b)
      /\ Config!Times(p \o q, s) = Len(a \o b)
  BY <1>1, <1>3, Zenon DEF Config!Times
<1> HIDE DEF a, b
<1> QED
  BY <1>2, <1>4 DEF Sum

\* How often the considered files declare s: a fold over the files.
Weight(f, s) == IF Config!Considered(f) THEN Config!Times(f.logs, s) ELSE 0
Count(Fl, s) == [f \in Fl |-> [n \in Nat |-> n + Weight(f, s)]]

LEMMA WeightType ==
  ASSUME NEW L, NEW Fl, Files(Fl, L), NEW f \in Fl, NEW s
  PROVE  Weight(f, s) \in Nat
<1>1. f.logs \in Seq(L)
  BY DEF Files
<1>2. Config!Times(f.logs, s) \in Nat
  BY <1>1, TimesJoin, Zenon
<1> QED
  BY <1>2 DEF Weight

LEMMA DeclaredTimesIs ==
  ASSUME NEW L, NEW Fl, Files(Fl, L), NEW q \in Seq(Fl), NEW s
  PROVE  FoldOf(Config!DeclaredTimes(q, s), Nat, 0, Count(Fl, s), q)
<1> DEFINE m == Len(q)
           Rec(f) == f = [n \in 0..m |-> IF n = 0 THEN 0 ELSE f[n - 1] + Weight(q[n], s)]
<1>1. m \in Nat /\ \A n \in 1..m : q[n] \in Fl
  OBVIOUS
<1>2. /\ Count(Fl, s) \in [Fl -> [Nat -> Nat]]
      /\ \A f \in Fl : \A n \in Nat : Count(Fl, s)[f][n] = n + Weight(f, s)
  <2>1. \A f \in Fl : Weight(f, s) \in Nat
    BY WeightType, Zenon
  <2> QED
    BY <2>1 DEF Count
<1>3. PICK h : Follows(h, Nat, 0, Count(Fl, s), q)
  BY <1>2, FoldExists
<1>4. Rec(h)
  <2>1. h \in [0..m -> Nat] /\ h[0] = 0 /\ \A n \in 1..m : n - 1 \in 0..m
    BY <1>1, <1>3 DEF Follows
  <2>2. \A n \in 1..m : h[n] = h[n - 1] + Weight(q[n], s)
    BY <1>1, <1>2, <1>3, <2>1 DEF Follows
  <2>3. h = [n \in 0..m |-> h[n]]
    BY <2>1
  <2>4. \A n \in 0..m : h[n] = IF n = 0 THEN 0 ELSE h[n - 1] + Weight(q[n], s)
    <3>1. \A n \in 0..m : n = 0 \/ n \in 1..m
      BY <1>1
    <3> QED
      BY <2>1, <2>2, <3>1
  <2> QED
    BY <2>3, <2>4
<1> DEFINE f == CHOOSE x : Rec(x)
<1>5. Rec(f)
  <2> HIDE DEF Rec
  <2> QED
    BY <1>4
<1>6. Config!DeclaredTimes(q, s) = f[m]
  BY DEF Config!DeclaredTimes, Weight
<1> HIDE DEF f
<1>7. f = [n \in 0..m |-> f[n]] /\ f[0] = 0 /\ \A n \in 1..m : f[n] = f[n - 1] + Weight(q[n], s)
  <2>1. DOMAIN f = 0..m /\ f = [n \in DOMAIN f |-> f[n]]
    BY ONLY <1>5
  <2>2. \A n \in 0..m : f[n] = IF n = 0 THEN 0 ELSE f[n - 1] + Weight(q[n], s)
    BY ONLY <1>5
  <2> HIDE DEF Rec
  <2>3. 0 \in 0..m /\ \A n \in 1..m : n \in 0..m /\ n # 0
    BY <1>1
  <2> QED
    BY ONLY <2>1, <2>2, <2>3
<1> HIDE DEF Rec
<1>8. \A n \in 1..m : f[n - 1] \in Nat => f[n] = Count(Fl, s)[q[n]][f[n - 1]]
  BY <1>1, <1>2, <1>7
<1>9. Follows(f, Nat, 0, Count(Fl, s), q)
  BY <1>2, <1>7, <1>8, FoldIs
<1> QED
  BY <1>6, <1>9 DEF FoldOf

LEMMA DeclaredTimesAppend ==
  ASSUME NEW L, NEW Fl, Files(Fl, L), NEW q \in Seq(Fl), NEW f \in Fl, NEW s
  PROVE  /\ Config!DeclaredTimes(q, s) \in Nat
         /\ Sum(Config!DeclaredTimes(Append(q, f), s), Config!DeclaredTimes(q, s), Weight(f, s))
<1> DEFINE v == Config!DeclaredTimes(q, s)
           w == Config!DeclaredTimes(Append(q, f), s)
<1>1. Append(q, f) \in Seq(Fl)
  OBVIOUS
<1>2. FoldOf(v, Nat, 0, Count(Fl, s), q) /\ FoldOf(w, Nat, 0, Count(Fl, s), Append(q, f))
  BY <1>1, DeclaredTimesIs, Zenon
<1> HIDE DEF v, w
<1>3. v \in Nat /\ w = Count(Fl, s)[f][v]
  BY <1>2, FoldAppend
<1> QED
  BY <1>3 DEF Count, Sum, v, w

LEMMA DeclaredTimesNone ==
  ASSUME NEW s
  PROVE  Config!DeclaredTimes(<<>>, s) = 0
<1>1. <<>> \in Seq({}) /\ Files({}, {})
  BY DEF Files
<1>2. FoldOf(Config!DeclaredTimes(<<>>, s), Nat, 0, Count({}, s), <<>>)
  BY <1>1, DeclaredTimesIs, Zenon
<1> QED
  BY <1>2, FoldEmpty

LEMMA Regrouped ==
  ASSUME NEW S, NEW p \in Seq(S), NEW q \in Seq(S), NEW r \in Seq(S)
  PROVE  Joined((p \o q) \o r, p, q \o r)
<1> DEFINE a == (p \o q) \o r
           b == p \o (q \o r)
<1>1. a \in Seq(S) /\ b \in Seq(S) /\ Len(a) = Len(b)
  OBVIOUS
<1>2. \A n \in 1..Len(a) : a[n] = b[n]
  OBVIOUS
<1> HIDE DEF a, b
<1>3. a = b
  BY <1>1, <1>2, SeqEqual, Zenon
<1> QED
  BY <1>3, Zenon DEF Joined, a, b

LEMMA DeclaredJoin ==
  ASSUME NEW L, NEW Fl, Files(Fl, L), NEW p \in Seq(Fl), NEW q \in Seq(Fl)
  PROVE  Joined(Config!Declared(p \o q), Config!Declared(p), Config!Declared(q))
<1> DEFINE T == {r \in Seq(Fl) : Config!Declared(p \o r)
                                   = Config!Declared(p) \o Config!Declared(r)}
<1>1. <<>> \in T
  <2>1. p \o <<>> = p /\ Config!Declared(p) \in Seq(L) /\ <<>> \in Seq(Fl)
    BY DeclaredType
  <2>2. Config!Declared(p) \o <<>> = Config!Declared(p)
    BY <2>1
  <2> QED
    BY <2>1, <2>2, DeclaredNone
<1>2. ASSUME NEW r \in T, NEW f \in Fl PROVE Append(r, f) \in T
  <2> DEFINE a == Config!Declared(p)
             b == Config!Declared(r)
  <2>1. r \in Seq(Fl) /\ Append(r, f) \in Seq(Fl) /\ p \o r \in Seq(Fl)
        /\ Config!Declared(p \o r) = a \o b
    OBVIOUS
  <2>2. p \o Append(r, f) = Append(p \o r, f)
    BY <2>1
  <2>3. Config!Declared(p \o Append(r, f)) = (a \o b) \o f.logs
    <3>1. Joined(Config!Declared(Append(p \o r, f)), Config!Declared(p \o r), f.logs)
      BY <2>1, DeclaredAppend, Zenon
    <3> QED
      BY <2>1, <2>2, <3>1, Zenon DEF Joined
  <2>4. Config!Declared(Append(r, f)) = b \o f.logs
    <3>1. Joined(Config!Declared(Append(r, f)), Config!Declared(r), f.logs)
      BY <2>1, DeclaredAppend, Zenon
    <3> QED
      BY <3>1, Zenon DEF Joined
  <2>5. a \in Seq(L) /\ b \in Seq(L) /\ f.logs \in Seq(L)
    BY <2>1, DeclaredType DEF Files
  <2> HIDE DEF a, b
  <2>6. (a \o b) \o f.logs = a \o (b \o f.logs)
    <3>1. Joined((a \o b) \o f.logs, a, b \o f.logs)
      BY <2>5, Regrouped, Zenon
    <3> QED
      BY <3>1, Zenon DEF Joined
  <2>7. Config!Declared(p \o Append(r, f)) = a \o Config!Declared(Append(r, f))
    BY <2>3, <2>4, <2>6, Zenon
  <2> QED
    BY <2>1, <2>7, Zenon DEF a
<1>3. T = Seq(Fl)
  <2>1. T \subseteq Seq(Fl)
    OBVIOUS
  <2> HIDE DEF T
  <2> QED
    BY <1>1, <1>2, <2>1, InductionOnSeq
<1> QED
  BY <1>3 DEF Joined

\* One more file: its sources are counted if it is at one of the places.
Grown(n, k, more, by) == (more => n = k + by) /\ (~more => n = k)

LEMMA PlacedAppend ==
  ASSUME NEW L, NEW Fl, Files(Fl, L), NEW q \in Seq(Fl), NEW f \in Fl, NEW K, NEW s
  PROVE  /\ Config!Times(Config!Declared(Config!Picked(q, K)), s) \in Nat
         /\ Grown(Config!Times(Config!Declared(Config!Picked(Append(q, f), K)), s),
                  Config!Times(Config!Declared(Config!Picked(q, K)), s),
                  f \in K, Config!Times(f.logs, s))
<1> DEFINE v == Config!Picked(q, K)
           w == Config!Picked(Append(q, f), K)
<1>1. Kept(w, v, f, K) /\ v \in Seq(Fl)
  BY PickedAppend, Zenon
<1> HIDE DEF v, w
<1>2. Config!Declared(v) \in Seq(L) /\ f.logs \in Seq(L)
  BY <1>1, DeclaredType DEF Files
<1>3. Config!Times(Config!Declared(v), s) \in Nat
  BY <1>2, TimesJoin, Zenon
<1>4. ASSUME f \in K
      PROVE  Config!Times(Config!Declared(w), s)
               = Config!Times(Config!Declared(v), s) + Config!Times(f.logs, s)
  <2>1. Joined(Config!Declared(Append(v, f)), Config!Declared(v), f.logs)
    BY <1>1, DeclaredAppend, Zenon
  <2>2. Config!Declared(w) = Config!Declared(v) \o f.logs
    BY <1>1, <1>4, <2>1, Zenon DEF Kept, Joined
  <2>3. Sum(Config!Times(Config!Declared(v) \o f.logs, s), Config!Times(Config!Declared(v), s),
            Config!Times(f.logs, s))
    BY <1>2, TimesJoin, Zenon
  <2> QED
    BY <2>2, <2>3, Zenon DEF Sum
<1>5. ASSUME f \notin K PROVE w = v
  BY <1>1, <1>5 DEF Kept
<1> QED
  BY <1>3, <1>4, <1>5, Zenon DEF v, w, Grown

LEMMA PlacedTwice ==
  ASSUME NEW L, NEW Fl, Files(Fl, L), NEW q \in Seq(Fl), NEW A, NEW B, NEW s,
         A \cap B = {}, \A f \in Fl : Config!Considered(f) <=> f \in A \cup B
  PROVE  Config!Times(Config!Declared(Config!Picked(q, A)), s)
           + Config!Times(Config!Declared(Config!Picked(q, B)), s) = Config!DeclaredTimes(q, s)
<1> DEFINE N(r, K) == Config!Times(Config!Declared(Config!Picked(r, K)), s)
           T == {r \in Seq(Fl) : N(r, A) + N(r, B) = Config!DeclaredTimes(r, s)}
<1>1. <<>> \in T
  <2>1. <<>> \in Seq({}) /\ {} = {} \cup {}
    OBVIOUS
  <2>2. N(<<>>, A) = 0 /\ N(<<>>, B) = 0
    <3>1. Config!Times(<<>>, s) = 0
      BY PickedNone DEF Config!Times
    <3> QED
      BY <3>1, PickedNone, DeclaredNone
  <2> HIDE DEF N
  <2> QED
    BY <2>2, DeclaredTimesNone
<1>2. ASSUME NEW r \in T, NEW f \in Fl PROVE Append(r, f) \in T
  <2>1. r \in Seq(Fl) /\ Append(r, f) \in Seq(Fl)
        /\ N(r, A) + N(r, B) = Config!DeclaredTimes(r, s)
    OBVIOUS
  <2>2. \A K : N(r, K) \in Nat /\ Grown(N(Append(r, f), K), N(r, K), f \in K,
                                          Config!Times(f.logs, s))
    BY <2>1, PlacedAppend, Zenon
  <2>3. Sum(Config!DeclaredTimes(Append(r, f), s), Config!DeclaredTimes(r, s), Weight(f, s))
    BY <2>1, DeclaredTimesAppend, Zenon
  <2>4. Weight(f, s) = IF f \in A \cup B THEN Config!Times(f.logs, s) ELSE 0
    BY DEF Weight
  <2>5. Config!Times(f.logs, s) \in Nat
    <3>1. f.logs \in Seq(L)
      BY DEF Files
    <3> QED
      BY <3>1, TimesJoin, Zenon
  <2> DEFINE t == Config!Times(f.logs, s)
             new == Append(r, f)
             d == Config!DeclaredTimes(r, s)
             dn == Config!DeclaredTimes(new, s)
  <2> HIDE DEF N, t, new, d, dn
  <2>6. N(new, A) + N(new, B) = dn
    <3>1. /\ N(r, A) \in Nat /\ N(r, B) \in Nat /\ t \in Nat
          /\ N(r, A) + N(r, B) = d
          /\ dn = d + (IF f \in A \cup B THEN t ELSE 0)
          /\ f \in A => N(new, A) = N(r, A) + t
          /\ f \notin A => N(new, A) = N(r, A)
          /\ f \in B => N(new, B) = N(r, B) + t
          /\ f \notin B => N(new, B) = N(r, B)
      BY <2>1, <2>2, <2>3, <2>4, <2>5, Zenon DEF t, new, d, dn, Grown, Sum
    <3> QED
      BY <3>1
  <2> QED
    BY <2>1, <2>6 DEF new, dn
<1>3. T = Seq(Fl)
  <2>1. T \subseteq Seq(Fl)
    OBVIOUS
  <2> HIDE DEF T
  <2> QED
    BY <1>1, <1>2, <2>1, InductionOnSeq
<1> QED
  BY <1>3

\* r has the elements of p and those of q.
Mixes(r, p, q) ==
  /\ \A n \in DOMAIN p : \E k \in DOMAIN r : r[k] = p[n]
  /\ \A n \in DOMAIN q : \E k \in DOMAIN r : r[k] = q[n]
  /\ \A k \in DOMAIN r : (\E n \in DOMAIN p : p[n] = r[k]) \/ (\E n \in DOMAIN q : q[n] = r[k])

LEMMA ElementsJoin ==
  ASSUME NEW E, NEW p \in Seq(E), NEW q \in Seq(E)
  PROVE  Mixes(p \o q, p, q)
<1> DEFINE r == p \o q
<1>1. /\ Len(p) \in Nat /\ Len(q) \in Nat /\ DOMAIN p = 1..Len(p) /\ DOMAIN q = 1..Len(q)
      /\ DOMAIN r = 1..(Len(p) + Len(q))
      /\ \A k \in 1..(Len(p) + Len(q)) : r[k] = IF k <= Len(p) THEN p[k] ELSE q[k - Len(p)]
  OBVIOUS
<1> HIDE DEF r
<1>2. ASSUME NEW n \in DOMAIN p PROVE \E k \in DOMAIN r : r[k] = p[n]
  <2>1. n \in DOMAIN r /\ r[n] = p[n]
    BY <1>1
  <2> QED
    BY <2>1
<1>3. ASSUME NEW n \in DOMAIN q PROVE \E k \in DOMAIN r : r[k] = q[n]
  <2>1. Len(p) + n \in DOMAIN r /\ ~(Len(p) + n <= Len(p)) /\ (Len(p) + n) - Len(p) = n
    BY <1>1
  <2>2. r[Len(p) + n] = q[n]
    BY <1>1, <2>1
  <2> QED
    BY <2>1, <2>2
<1>4. ASSUME NEW k \in DOMAIN r
      PROVE  (\E n \in DOMAIN p : p[n] = r[k]) \/ (\E n \in DOMAIN q : q[n] = r[k])
  <2>1. CASE k <= Len(p)
    BY <1>1, <2>1
  <2>2. CASE ~(k <= Len(p))
    <3>1. k - Len(p) \in DOMAIN q /\ r[k] = q[k - Len(p)]
      BY <1>1, <2>2
    <3> QED
      BY <3>1
  <2> QED
    BY <2>1, <2>2
<1> QED
  BY <1>2, <1>3, <1>4 DEF Mixes, r

\* Every source of every file the agent considers is read or skipped as often as the
\* files declare it, whatever is in conf.d, and a file that cannot be read or parsed stops
\* the agent (config.LoadLogSources, loadFile).
THEOREM SourcesLaw ==
  ASSUME NEW L, NEW Fl, Files(Fl, L), NEW confd \in Seq(Fl)
  PROVE  Config!EverySource(confd)
<1> DEFINE A == {f \in Fl : f.at = "x.d/conf.yaml"}
           B == {f \in Fl : f.at = "x.yaml"}
           a == Config!Picked(confd, A)
           b == Config!Picked(confd, B)
           files == a \o b
           all == Config!Declared(files)
           read == {s \in Config!ToSet(all) : s.type \in {"file", "journald"}}
           rest == Config!ToSet(all) \ read
           x == [sources |-> Config!Picked(all, read), skipped |-> Config!Picked(all, rest)]
           bad == \E i \in DOMAIN files : ~files[i].ok
           r == Config!LoadLogSources(confd)
<1>1. /\ A \cap B = {} /\ A \subseteq Fl /\ B \subseteq Fl
      /\ \A f \in Fl : Config!Considered(f) <=> f \in A \cup B
  BY DEF Config!Considered
<1>2. Config!At(confd, "x.d/conf.yaml") = a /\ Config!At(confd, "x.yaml") = b
  <2>1. ASSUME NEW place
        PROVE  Config!At(confd, place) = Config!Picked(confd, {f \in Fl : f.at = place})
    <3> DEFINE K == {f \in Config!ToSet(confd) : f.at = place}
               M == {f \in Fl : f.at = place}
    <3>1. \A n \in 1..Len(confd) : confd[n] \in K <=> confd[n] \in M
      BY DEF Config!ToSet
    <3>2. Config!At(confd, place) = Config!Picked(confd, K)
      BY DEF Config!At
    <3> HIDE DEF K, M
    <3>3. Config!Picked(confd, K) = Config!Picked(confd, M)
      BY <3>1, PickedAgree
    <3> QED
      BY <3>2, <3>3 DEF M
  <2> QED
    BY <2>1
<1>3. r = IF bad THEN {} ELSE {x}
  <2>1. r = LET fs == Config!At(confd, "x.d/conf.yaml") \o Config!At(confd, "x.yaml")
                d == Config!Declared(fs)
                rd == {s \in Config!ToSet(d) : s.type \in {"file", "journald"}}
            IN IF \E i \in DOMAIN fs : ~fs[i].ok THEN {}
               ELSE {[sources |-> Config!Picked(d, rd),
                      skipped |-> Config!Picked(d, Config!ToSet(d) \ rd)]}
    BY DEF Config!LoadLogSources
  <2> HIDE DEF a, b
  <2> QED
    BY <1>2, <2>1
<1>4. a \in Seq(Fl) /\ b \in Seq(Fl)
  BY PickedType
<1>5. /\ Config!Declared(a) \in Seq(L) /\ Config!Declared(b) \in Seq(L)
      /\ all = Config!Declared(a) \o Config!Declared(b)
  <2> HIDE DEF a, b
  <2>1. Joined(Config!Declared(a \o b), Config!Declared(a), Config!Declared(b))
    BY <1>4, DeclaredJoin, Zenon
  <2> QED
    BY <1>4, <2>1, DeclaredType DEF Joined
<1>6. \A s : Config!Times(all, s) = Config!DeclaredTimes(confd, s)
  <2> SUFFICES ASSUME NEW s PROVE Config!Times(all, s) = Config!DeclaredTimes(confd, s)
    OBVIOUS
  <2>1. Config!Times(Config!Declared(a), s) + Config!Times(Config!Declared(b), s)
          = Config!DeclaredTimes(confd, s)
    <3> HIDE DEF A, B
    <3> QED
      BY <1>1, PlacedTwice
  <2> HIDE DEF a, b
  <2>2. Sum(Config!Times(Config!Declared(a) \o Config!Declared(b), s),
            Config!Times(Config!Declared(a), s), Config!Times(Config!Declared(b), s))
    BY <1>5, TimesJoin, Zenon
  <2> QED
    BY <1>5, <2>1, <2>2, Zenon DEF Sum
<1>7. bad <=> \E i \in DOMAIN confd : Config!Considered(confd[i]) /\ ~confd[i].ok
  <2> DEFINE Els(q) == {q[n] : n \in DOMAIN q}
  <2>1. Els(a) = Els(confd) \cap A /\ Els(b) = Els(confd) \cap B
    <3> HIDE DEF A, B
    <3> QED
      BY PickedElements
  <2>2. \A i \in DOMAIN confd : confd[i] \in Fl
    OBVIOUS
  <2> HIDE DEF a, b, A, B
  <2>3. Els(files) = Els(a) \cup Els(b)
    <3> HIDE DEF files
    <3>1. Mixes(files, a, b)
      BY <1>4, ElementsJoin, Zenon DEF files
    <3> QED
      BY <3>1 DEF Mixes
  <2> HIDE DEF files
  <2>4. bad <=> \E f \in Els(files) : ~f.ok
    OBVIOUS
  <2>5. \A f : f \in Els(files) <=> f \in Els(confd) /\ Config!Considered(f)
    BY <1>1, <2>1, <2>2, <2>3
  <2> QED
    BY <2>4, <2>5
<1> HIDE DEF a, b, files, bad
<1>8. all \in Seq(L)
  BY <1>5
<1> HIDE DEF all
<1>9. ASSUME NEW s, NEW K, \A n \in 1..Len(all) : all[n] = s => s \in K
      PROVE  Config!Times(Config!Picked(all, K), s) = Config!DeclaredTimes(confd, s)
  <2>1. PICK S : S = {s}
    OBVIOUS
  <2>2. Config!Picked(Config!Picked(all, K), S) = Config!Picked(all, K \cap S)
    BY <1>8, PickedTwice
  <2>3. Config!Picked(all, K \cap S) = Config!Picked(all, S)
    <3>1. PICK M : M = K \cap S
      OBVIOUS
    <3>2. \A n \in 1..Len(all) : all[n] \in M <=> all[n] \in S
      BY <1>9, <2>1, <3>1
    <3>3. Config!Picked(all, M) = Config!Picked(all, S)
      BY <1>8, <3>2, PickedAgree
    <3> QED
      BY <3>1, <3>3
  <2>4. Config!Times(Config!Picked(all, K), s) = Config!Times(all, s)
    BY <2>1, <2>2, <2>3, Zenon DEF Config!Times
  <2> QED
    BY <1>6, <2>4
<1>10. ASSUME NEW s, ~bad
       PROVE  Config!Times(IF s.type \in {"file", "journald"} THEN x.sources ELSE x.skipped, s)
                = Config!DeclaredTimes(confd, s)
  <2>1. \A n \in 1..Len(all) : all[n] \in Config!ToSet(all)
    BY <1>8 DEF Config!ToSet
  <2>2. CASE s.type \in {"file", "journald"}
    <3>1. \A n \in 1..Len(all) : all[n] = s => s \in read
      BY <2>1, <2>2
    <3> HIDE DEF read, rest
    <3>2. Config!Times(Config!Picked(all, read), s) = Config!DeclaredTimes(confd, s)
      BY <1>9, <3>1
    <3> QED
      BY <2>2, <3>2
  <2>3. CASE s.type \notin {"file", "journald"}
    <3>1. \A n \in 1..Len(all) : all[n] = s => s \in rest
      BY <2>1, <2>3
    <3> HIDE DEF read, rest
    <3>2. Config!Times(Config!Picked(all, rest), s) = Config!DeclaredTimes(confd, s)
      BY <1>9, <3>1
    <3> QED
      BY <2>3, <3>2
  <2> QED
    BY <2>2, <2>3
<1> HIDE DEF x
<1> QED
  BY <1>3, <1>7, <1>10 DEF Config!EverySource

\* Whatever the settings, the file, the clouds and the system say: a chosen name is used,
\* the EC2 instance only stands in for a made-up name, and "unknown" for none at all
\* (hostname.Resolve).
THEOREM HostnameLaw ==
  ASSUME NEW configured, NEW file, NEW probes, NEW os
  PROVE  Config!NameOf(configured, file, probes, os)
<1> DEFINE h == Config!Resolve(configured, file, probes, os)
           gce == Config!cloud(probes).gce
           ec2 == Config!cloud(probes).ec2
<1>1. h = IF configured # "" THEN configured
          ELSE IF file # "" THEN file
          ELSE IF gce # "" THEN gce
          ELSE IF ~Config!isDefaultHostname(os) THEN os
          ELSE IF ec2 # "" THEN ec2
          ELSE IF os # "" THEN os ELSE "unknown"
  BY DEF Config!Resolve
<1>2. os = "" => Config!isDefaultHostname(os)
  BY DEF Config!isDefaultHostname
<1>3. Config!NameOf(configured, file, probes, os)
        <=> LET chosen == {configured, file} \ {""}
            IN /\ h # ""
               /\ chosen # {} => h \in chosen
               /\ chosen = {} => h \in ({gce, ec2, os} \ {""}) \cup {"unknown"}
               /\ chosen = {} /\ h \notin {gce, os, "unknown"} => Config!isDefaultHostname(os)
               /\ "unknown" \notin {configured, file, gce, ec2, os} =>
                    (h = "unknown" <=> (chosen = {} /\ gce = "" /\ ec2 = "" /\ os = ""))
  BY DEF Config!NameOf
<1> HIDE DEF h, gce, ec2
<1>4. CASE configured # "" \/ file # ""
  BY <1>1, <1>3, <1>4
<1>5. CASE configured = "" /\ file = ""
  BY <1>1, <1>2, <1>3, <1>5
<1> QED
  BY <1>4, <1>5

\* The small configurations are some of those the laws are about.
LEMMA ListsAreSeqs ==
  ASSUME NEW S, NEW n \in Nat, NEW q \in Config!Lists(S, n)
  PROVE  q \in Seq(S)
<1>1. PICK k \in 0..n : q \in [1..k -> S]
  BY DEF Config!Lists
<1> QED
  BY <1>1

\* The texts of the small configurations.
T0 == {"k1", "k2", "", "app", "agent", "custom", "eu"}

LEMMA SmallEndpoints == Config!EndpointsTrue
<1> DEFINE D == Config!Domains
           Ks == {<<Config!Key("k1", 0)>>, <<Config!Key("k2", 1), Config!NoKey>>}
           S == [domain : D, keys : Ks]
<1>1. ASSUME NEW extra \in Config!Extras PROVE extra \in Additional(T0)
  <2>1. extra \in Config!Lists(S, 2) /\ 2 \in Nat
    BY DEF Config!Extras
  <2>2. S \subseteq [domain : AnyDomain(T0), keys : Seq(AnyKey(T0))]
    <3>1. Config!Key("k1", 0) \in AnyKey(T0) /\ Config!Key("k2", 1) \in AnyKey(T0) /\ Config!NoKey \in AnyKey(T0)
      BY DEF T0, AnyKey, Config!Key, Config!NoKey
    <3>2. Ks \subseteq Seq(AnyKey(T0))
      <4> HIDE DEF Config!Key, Config!NoKey, AnyKey
      <4> QED
        BY <3>1
    <3>3. D \subseteq AnyDomain(T0)
      <4>1. {"app", "agent", "custom"} \subseteq T0 /\ {"eu"} \subseteq T0
        BY DEF T0
      <4>2. 0..1 \subseteq Nat
        OBVIOUS
      <4>3. \A A, B, C : A \subseteq T0 /\ B \subseteq T0 /\ C \subseteq Nat
               => [kind : A, site : B, slashes : C] \subseteq [kind : T0, site : T0, slashes : Nat]
        OBVIOUS
      <4> QED
        BY <4>1, <4>2, <4>3, Zenon DEF Config!Domains, AnyDomain
    <3> HIDE DEF D, Ks
    <3> QED
      BY <3>2, <3>3
  <2> HIDE DEF S
  <2>3. extra \in Seq(S)
    BY <2>1, ListsAreSeqs
  <2>4. \A R : S \subseteq R => extra \in Seq(R)
    <3> SUFFICES ASSUME NEW R, S \subseteq R PROVE extra \in Seq(R)
      OBVIOUS
    <3>1. PICK n \in Nat : extra \in [1..n -> S]
      BY <2>3
    <3>2. extra \in [1..n -> R]
      BY <3>1
    <3> QED
      BY <3>2
  <2> QED
    BY <2>2, <2>4, Zenon DEF Additional
<1> HIDE DEF D, Ks
<1> SUFFICES ASSUME NEW extra \in Config!Extras, NEW dd \in Config!Domains \cup {Config!Unset},
                    NEW send \in {"", "false"}, NEW blanks \in 0..1
             PROVE  Config!ShipsOnce(
                      [ddURL |-> dd, profilingURL |-> dd, site |-> "eu", apiKey |-> Config!Key("k1", blanks),
                       sendToMain |-> send,
                       processURL |-> [kind |-> "custom", site |-> "eu", slashes |-> 1],
                       additional |-> extra, processAdditional |-> extra,
                       profilingAdditional |-> extra], "series")
  BY DEF Config!EndpointsTrue
<1>2. PICK cfg : cfg = [ddURL |-> dd, profilingURL |-> dd, site |-> "eu", apiKey |-> Config!Key("k1", blanks),
                        sendToMain |-> send,
                       processURL |-> [kind |-> "custom", site |-> "eu", slashes |-> 1],
                       additional |-> extra, processAdditional |-> extra,
                       profilingAdditional |-> extra]
  OBVIOUS
<1>3. cfg.additional = extra /\ cfg.processAdditional = extra /\ cfg.profilingAdditional = extra
  BY <1>2
<1>4. Config!ShipsOnce(cfg, "series")
  <2>1. cfg.additional \in Additional(T0) /\ cfg.processAdditional \in Additional(T0)
        /\ cfg.profilingAdditional \in Additional(T0)
    BY <1>1, <1>3
  <2> QED
    BY <2>1, ShippedOnce, Zenon
<1> QED
  BY <1>2, <1>4

LEMMA SmallLogsEndpoints == Config!LogsEndpointsTrue
<1> DEFINE S == [host : {"", "eu", "h"}, key : {Config!Key("k1", 1), Config!NoKey}, isReliable : {"", "false"}]
<1> SUFFICES ASSUME NEW extra \in Config!Lists(S, 2), NEW blanks \in 0..1
             PROVE  Config!LogsShipOnce(
                      [site |-> "eu", apiKey |-> Config!Key("k1", blanks), logsAdditional |-> extra,
                       logsURL |-> [kind |-> "custom", site |-> "eu", slashes |-> 1]])
  BY DEF Config!LogsEndpointsTrue
<1>0. \A e \in S : e.key \in AnyKey(T0)
  <2>1. Config!Key("k1", 1) \in AnyKey(T0) /\ Config!NoKey \in AnyKey(T0)
    BY DEF T0, AnyKey, Config!Key, Config!NoKey
  <2> HIDE DEF Config!Key, Config!NoKey, AnyKey
  <2> QED
    BY <2>1
<1> HIDE DEF S
<1>1. PICK cfg : cfg = [site |-> "eu", apiKey |-> Config!Key("k1", blanks), logsAdditional |-> extra,
                       logsURL |-> [kind |-> "custom", site |-> "eu", slashes |-> 1]]
  OBVIOUS
<1>2. cfg.logsAdditional \in Seq(S)
  BY <1>1, ListsAreSeqs
<1>3. Config!LogsShipOnce(cfg)
  BY <1>0, <1>2, LogsShippedOnce, Zenon
<1> QED
  BY <1>1, <1>3

LEMMA SmallOverrides == Config!OverridesTrue
<1> DEFINE V == {"env", "file", "default", "", Config!Malformed}
<1> SUFFICES ASSUME NEW file \in {"missing", "unreadable", "malformed", "ok"},
                    NEW env \in UNION {[vs -> {"env", "", Config!Malformed}] :
                                         vs \in SUBSET Config!Variables},
                    NEW has \in UNION {[ss -> {"file"}] : ss \in SUBSET Config!Settings}
             PROVE  Config!Overrides(file, has, env)
  BY DEF Config!OverridesTrue
<1>1. Texts(env, V)
  <2>1. PICK vs \in SUBSET Config!Variables : env \in [vs -> {"env", "", Config!Malformed}]
    OBVIOUS
  <2>2. \A v \in DOMAIN env : env[v] \in {"env", "", Config!Malformed}
    BY <2>1
  <2> QED
    BY <2>2 DEF Texts
<1>2. "default" \in V /\ \A s \in DOMAIN has : has[s] \in V
  <2>1. PICK ss \in SUBSET Config!Settings : has \in [ss -> {"file"}]
    OBVIOUS
  <2>2. \A s \in DOMAIN has : has[s] = "file"
    BY <2>1
  <2> QED
    BY <2>2
<1> HIDE DEF V
<1> QED
  BY <1>1, <1>2, OverridesLaw

LEMMA SmallSources == Config!SourcesTrue
<1> DEFINE L == {[type |-> "file"], [type |-> "tcp"], [type |-> "journald"]}
           Q == {<<>>, <<[type |-> "file"]>>, <<[type |-> "tcp"], [type |-> "journald"]>>}
           Fl == [at : {"x.d/conf.yaml", "x.yaml", "x.yml"}, ok : BOOLEAN, logs : Q]
<1>1. Q \subseteq Seq(L)
  OBVIOUS
<1> HIDE DEF L, Q
<1>2. Files(Fl, L)
  BY <1>1 DEF Files
<1>3. ASSUME NEW confd \in Config!Lists(Fl, 2) PROVE Config!EverySource(confd)
  <2>1. confd \in Seq(Fl)
    <3> HIDE DEF Fl
    <3> QED
      BY ListsAreSeqs
  <2> HIDE DEF Fl
  <2> QED
    BY <1>2, <2>1, SourcesLaw
<1> QED
  BY <1>3 DEF Config!SourcesTrue, Q

\* What the agent is configured to do is what its file, its environment and its conf.d
\* say: the laws TLC evaluates once over small configurations, from those of any
\* configuration (package config and hostname).
THEOREM ConfigLoads == Spec => []ConfigHolds
<1>1. Config!HostnameTrue
  BY HostnameLaw DEF Config!HostnameTrue
<1>2. Config!ConfigTrue
  BY <1>1, SmallEndpoints, SmallLogsEndpoints, SmallOverrides, SmallSources DEF Config!ConfigTrue
<1>3. ConfigHolds
  BY <1>2 DEF ConfigHolds
<1> QED
  BY <1>3, PTL
=============================================================================
