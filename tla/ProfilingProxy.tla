--------------------------- MODULE ProfilingProxy ---------------------------
(***************************************************************************)
(* internal/profiling Proxy: the HTTP server that profilers upload to.     *)
(* Every upload is handled on its own goroutine and forwarded to the       *)
(* profiling intakes, the first of which answers the client.               *)
(*                                                                         *)
(* net/http is external: Serve hands every accepted request to a handler   *)
(* until its listener fails or Shutdown closes it, and Shutdown waits for  *)
(* the handlers at most its deadline.  Headers, URLs and the bytes of a    *)
(* body are left out.                                                      *)
(***************************************************************************)
EXTENDS Naturals, Sequences

CONSTANTS
  Requests, \* the uploads clients send
  TooBig,   \* those longer than maxRequestBytes
  Targets,  \* the profiling intakes are 1..Targets, the first is the primary
  None

ASSUME TargetsAssumption == Targets \in Nat \ {0}
ASSUME RequestsAssumption == TooBig \subseteq Requests
\* 0 is a failed round trip, the others are the statuses of an intake.
ASSUME NoneAssumption == None \notin {0, 200, 202, 413}

VARIABLES
  ctxDone,  \* the agent's context is cancelled
  server,   \* where Proxy.Run is
  handler,  \* handler[r]: where the handler of request r is
  turn,     \* turn[r]: the target RoundTrip sends to next
  resp,     \* resp[r]: the primary's response, an error, or None
  reply,    \* reply[r]: the status the client of r got, or None
  offered   \* offered[t]: history: the requests sent to target t

requestVars == <<handler, turn, resp, reply, offered>>
proxyVars == <<server, requestVars>>

OK == 200
Accepted == 202
BadGateway == 502
\* What an intake may answer; Error is a failed round trip.
Error == 0
Responses == {OK, Accepted, 413, Error}

ProxyTypeOK ==
  /\ ctxDone \in BOOLEAN
  /\ server \in {"off", "listen", "serve", "shutdown", "returned", "failed"}
  /\ handler \in [Requests -> {"none", "read", "forward", "gone", "done"}]
  /\ turn \in [Requests -> 1..(Targets + 1)]
  /\ resp \in [Requests -> Responses \cup {None}]
  /\ reply \in [Requests -> {OK, 413, BadGateway, None}]
  /\ offered \in [1..Targets -> SUBSET Requests]

ProxyInit ==
  /\ server = "off"
  /\ handler = [r \in Requests |-> "none"]
  /\ turn = [r \in Requests |-> 1]
  /\ resp = [r \in Requests |-> None] /\ reply = [r \in Requests |-> None]
  /\ offered = [t \in 1..Targets |-> {}]

\* Requests whose handler still runs.
Busy == {r \in Requests : handler[r] \in {"read", "forward"}}

----------------------------------------------------------------------------
(* Run.                                                                    *)

Listen ==
  /\ server = "listen"
  /\ server' = "serve"
  /\ UNCHANGED <<ctxDone, requestVars>>

\* The address cannot be bound, or the listener breaks while it serves.
ServerFails ==
  /\ server \in {"listen", "serve"}
  /\ server' = "failed"
  /\ UNCHANGED <<ctxDone, requestVars>>

Shutdown ==
  /\ server = "serve" /\ ctxDone
  /\ server' = "shutdown"
  /\ UNCHANGED <<ctxDone, requestVars>>

\* Every handler is done, or the five seconds are over, which leaves them to die
\* with the process.
ServerReturns ==
  /\ server = "shutdown"
  /\ server' = "returned"
  /\ \/ Busy = {} /\ UNCHANGED requestVars
     \/ /\ Busy # {}
        /\ handler' = [r \in Requests |-> IF r \in Busy THEN "gone" ELSE handler[r]]
        /\ UNCHANGED <<turn, resp, reply, offered>>
  /\ UNCHANGED ctxDone

----------------------------------------------------------------------------
(* The handler of a request: multiTransport.RoundTrip under the reverse    *)
(* proxy.                                                                  *)

Arrive(r) ==
  /\ server = "serve" /\ handler[r] = "none"
  /\ handler' = [handler EXCEPT ![r] = IF Targets = 1 THEN "forward" ELSE "read"]
  /\ UNCHANGED <<ctxDone, server, turn, resp, reply, offered>>

\* logForwarded and logFailed: what the client is answered.
Replayed(answer) ==
  IF answer = Error THEN BadGateway ELSE IF answer = Accepted THEN OK ELSE answer

Answer(r, answer) ==
  /\ handler' = [handler EXCEPT ![r] = "done"]
  /\ reply' = [reply EXCEPT ![r] = Replayed(answer)]

\* The body is buffered for several targets; it is over the cap, or the client
\* stops sending it.
Read(r) ==
  /\ handler[r] = "read"
  /\ \/ /\ r \notin TooBig
        /\ handler' = [handler EXCEPT ![r] = "forward"]
        /\ UNCHANGED reply
     \/ Answer(r, Error)
  /\ UNCHANGED <<ctxDone, server, turn, resp, offered>>

\* Mutation of Forward: the last target's response goes to the client.
ForwardLastWins(r) ==
  /\ handler[r] = "forward"
  /\ offered' = [offered EXCEPT ![turn[r]] = @ \cup {r}]
  /\ \E answer \in Responses :
       /\ resp' = IF turn[r] = 1 THEN [resp EXCEPT ![r] = answer] ELSE resp
       /\ turn' = [turn EXCEPT ![r] = @ + 1]
       /\ IF turn[r] < Targets
          THEN UNCHANGED <<handler, reply>>
          ELSE Answer(r, answer)
  /\ UNCHANGED <<ctxDone, server>>

\* One round trip.  The primary's outcome is kept for the client, whatever the
\* others answer.
Forward(r) ==
  /\ handler[r] = "forward"
  /\ offered' = [offered EXCEPT ![turn[r]] = @ \cup {r}]
  /\ \E answer \in Responses : resp' = IF turn[r] = 1 THEN [resp EXCEPT ![r] = answer] ELSE resp
  /\ turn' = [turn EXCEPT ![r] = @ + 1]
  /\ IF turn[r] < Targets
     THEN UNCHANGED <<handler, reply>>
     ELSE Answer(r, resp'[r])
  /\ UNCHANGED <<ctxDone, server>>

Handle(r) == Read(r) \/ Forward(r)
Serve == Listen \/ Shutdown \/ ServerReturns
ProxyNext == Serve \/ ServerFails \/ \E r \in Requests : Arrive(r) \/ Handle(r)

----------------------------------------------------------------------------
(* Properties.                                                             *)

\* The client gets the primary's outcome and no other: its status, 202 replayed as
\* 200, or 502 when the primary failed, and only after every additional intake was
\* offered the same upload.  With several intakes, one that could not be buffered
\* whole is offered to none of them and answered 502 (RoundTrip, logForwarded,
\* logFailed).
AnswerIsPrimarys ==
  /\ \A r \in Requests : handler[r] = "done" =>
       \/ /\ resp[r] # None /\ reply[r] = Replayed(resp[r])
          /\ \A t \in 1..Targets : r \in offered[t]
       \/ /\ Targets > 1 /\ reply[r] = BadGateway
          /\ \A t \in 1..Targets : r \notin offered[t]
  /\ Targets > 1 => \A t \in 1..Targets : offered[t] \cap TooBig = {}
============================================================================
