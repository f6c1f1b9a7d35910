-------------------------- MODULE MetricsPipeline --------------------------
(***************************************************************************)
(* internal/dogstatsd Server feeding the internal/metrics Aggregator, and  *)
(* the part of main that stops them: listeners that read packets and hand  *)
(* their items over without blocking, one aggregator goroutine that        *)
(* accumulates and flushes, a context cancelled by a signal or by a        *)
(* listener that cannot be bound.                                          *)
(*                                                                         *)
(* What a context computes from its samples is left out: a context is the  *)
(* sequence of samples accumulated since it was last collected, and stands *)
(* for all the series it expands to.  A post returns in bounded time       *)
(* (flush gives it 30 seconds), accepted or not.                           *)
(***************************************************************************)
EXTENDS Integers, Sequences, FiniteSets

CONSTANTS
  Samples, Checks, Events, \* the items clients send
  Contexts,     \* name, type and tags
  ContextOf,    \* ContextOf[s]: the context of a sample; None: not aggregated
  None,
  Packets,      \* the packets clients send, each a sequence of items
  Listeners,    \* the configured listeners, in the order they are bound
  Capacity,     \* Capacity[k]: the capacity of the channel of kind k
  MaxPerPayload \* maxSeriesPerPayload

Kinds == {"sample", "check", "event"}
Items == Samples \cup Checks \cup Events
KindOf(i) == IF i \in Samples THEN "sample" ELSE IF i \in Checks THEN "check" ELSE "event"

\* Where an item is kept until the next flush: its context, or the list of its
\* kind.
Lists == {"check", "event"}
Bins == Contexts \cup Lists
BinOf(i) == IF i \in Samples THEN ContextOf[i] ELSE KindOf(i)

ASSUME ItemsAssumption ==
  /\ Samples \cap Checks = {} /\ Samples \cap Events = {} /\ Checks \cap Events = {}
  /\ Contexts \cap Lists = {} /\ None \notin Bins
  /\ ContextOf \in [Samples -> Contexts \cup {None}]
ASSUME PacketsAssumption == Packets \subseteq Seq(Items)
ASSUME ListenersAssumption == Listeners \in Seq(STRING) /\ Listeners # <<>>
ASSUME CapacityAssumption == Capacity \in [Kinds -> Nat \ {0}]
ASSUME PayloadAssumption == MaxPerPayload \in Nat \ {0}

VARIABLES
  unsent,   \* the packets not sent yet
  net,      \* net[l]: the packets in the socket buffer of listener l
  bound,    \* how many listeners are open
  spc,      \* where Server.Run is
  rest,     \* rest[l]: the items of the packet that listener l is handling
  chan,     \* chan[k]: the channels samples, checks and events
  dropped,  \* items refused because their channel was full
  held,     \* held[b]: contexts, pendingChecks and pendingEvents
  out,      \* out[c]: the contexts collected by the running flush, not yet posted
  apc,      \* where Aggregator.Run is
  final,    \* the running flush is the last one
  main,     \* where run is
  bindErr,  \* the error slot errc holds a bind failure
  accepted, \* accepted[k]: history: the items handed over
  early,    \* history: those handed over before the context was cancelled
  gone      \* gone[b]: history: the items that left in a flush

serverVars == <<unsent, net, bound, spc, rest>>
bufferVars == <<chan, dropped>>
aggVars == <<held, out, apc, final>>
mainVars == <<main, bindErr>>
historyVars == <<accepted, early, gone>>
vars == <<serverVars, bufferVars, aggVars, mainVars, historyVars>>

SeqSet(q) == {q[i] : i \in DOMAIN q}
ListenerSet == SeqSet(Listeners)
Open == {Listeners[n] : n \in 1..bound}
CtxDone == main # "run"

TypeOK ==
  /\ unsent \subseteq Packets
  /\ net \in [ListenerSet -> Seq(Packets)]
  /\ bound \in 0..Len(Listeners)
  /\ spc \in {"bind", "serve", "closing", "returned", "failed"}
  /\ rest \in [ListenerSet -> Seq(Items)]
  /\ chan \in [Kinds -> Seq(Items)]
  /\ \A k \in Kinds : Len(chan[k]) <= Capacity[k] /\ \A i \in SeqSet(chan[k]) : KindOf(i) = k
  /\ dropped \in Nat
  /\ held \in [Bins -> Seq(Items)]
  /\ out \in [Contexts -> Seq(Items)]
  /\ apc \in {"select", "drain", "series", "check", "event", "done"}
  /\ final \in BOOLEAN
  /\ main \in {"run", "stop", "exited"}
  /\ bindErr \in BOOLEAN
  /\ accepted \in [Kinds -> Seq(Items)]
  /\ early \subseteq Items
  /\ gone \in [Bins -> Seq(Items)]

Init ==
  /\ unsent = Packets
  /\ net = [l \in ListenerSet |-> <<>>] /\ rest = [l \in ListenerSet |-> <<>>]
  /\ bound = 0 /\ spc = "bind"
  /\ chan = [k \in Kinds |-> <<>>] /\ dropped = 0
  /\ held = [b \in Bins |-> <<>>] /\ out = [c \in Contexts |-> <<>>]
  /\ apc = "select" /\ final = FALSE
  /\ main = "run" /\ bindErr = FALSE
  /\ accepted = [k \in Kinds |-> <<>>] /\ early = {}
  /\ gone = [b \in Bins |-> <<>>]

----------------------------------------------------------------------------
(* Clients.                                                                *)

SendPacket(l) ==
  /\ l \in Open
  /\ \E p \in unsent :
       /\ unsent' = unsent \ {p}
       /\ net' = [net EXCEPT ![l] = Append(@, p)]
  /\ UNCHANGED <<bound, spc, rest, bufferVars, aggVars, mainVars, historyVars>>

----------------------------------------------------------------------------
(* Server.Run and readLoop.                                                *)

Bind ==
  /\ spc = "bind"
  /\ bound' = bound + 1
  /\ spc' = IF bound + 1 = Len(Listeners) THEN "serve" ELSE "bind"
  /\ UNCHANGED <<unsent, net, rest, bufferVars, aggVars, mainVars, historyVars>>

\* A listener that cannot be bound closes the others; main keeps the error and
\* cancels the context.
BindFail ==
  /\ spc = "bind"
  /\ spc' = "failed"
  /\ bound' = 0
  /\ net' = [l \in ListenerSet |-> <<>>]
  /\ bindErr' = TRUE
  /\ main' = "stop"
  /\ UNCHANGED <<unsent, rest, bufferVars, aggVars, historyVars>>

ReadPacket(l) ==
  /\ spc = "serve"
  /\ rest[l] = <<>>
  /\ net[l] # <<>>
  /\ rest' = [rest EXCEPT ![l] = Head(net[l])]
  /\ net' = [net EXCEPT ![l] = Tail(@)]
  /\ UNCHANGED <<unsent, bound, spc, bufferVars, aggVars, mainVars, historyVars>>

\* Add, AddServiceCheck and AddEvent never block: a full channel drops the item.
Add(i) ==
  LET k == KindOf(i)
  IN IF Len(chan[k]) < Capacity[k]
     THEN /\ chan' = [chan EXCEPT ![k] = Append(@, i)]
          /\ accepted' = [accepted EXCEPT ![k] = Append(@, i)]
          /\ early' = IF CtxDone THEN early ELSE early \cup {i}
          /\ UNCHANGED dropped
     ELSE dropped' = dropped + 1 /\ UNCHANGED <<chan, accepted, early>>

HandleItem(l) ==
  /\ rest[l] # <<>>
  /\ Add(Head(rest[l]))
  /\ rest' = [rest EXCEPT ![l] = Tail(@)]
  /\ UNCHANGED <<unsent, net, bound, spc, aggVars, mainVars, gone>>

\* Mutation of CloseAll: the read loops are waited for before they are unblocked.
CloseAllLate == FALSE /\ UNCHANGED vars

\* closeAll unblocks the read loops; what the sockets held is lost.
CloseAll ==
  /\ spc = "serve"
  /\ CtxDone
  /\ spc' = "closing"
  /\ bound' = 0
  /\ net' = [l \in ListenerSet |-> <<>>]
  /\ UNCHANGED <<unsent, rest, bufferVars, aggVars, mainVars, historyVars>>

\* A read loop finishes its packet before it sees the closed socket.
ServerReturn ==
  /\ spc = "closing"
  /\ \A l \in ListenerSet : rest[l] = <<>>
  /\ spc' = "returned"
  /\ UNCHANGED <<unsent, net, bound, rest, bufferVars, aggVars, mainVars, historyVars>>

----------------------------------------------------------------------------
(* Aggregator.Run.                                                         *)

\* Run and drain take the oldest item of a channel: accumulate, or append to
\* the pending list.  A sample that is not aggregated is discarded.
Take(k) ==
  LET i == Head(chan[k])
  IN /\ chan[k] # <<>>
     /\ chan' = [chan EXCEPT ![k] = Tail(@)]
     /\ held' = IF BinOf(i) = None THEN held ELSE [held EXCEPT ![BinOf(i)] = Append(@, i)]
     /\ UNCHANGED <<serverVars, dropped, out, apc, final, mainVars, historyVars>>

Receive(k) == apc = "select" /\ Take(k)

\* Mutation of Collect: the contexts are not cleared.
CollectKeep ==
  /\ out' = [c \in Contexts |-> held[c]]
  /\ UNCHANGED held

\* collect: the accumulated contexts become series and start anew.
Collect ==
  /\ out' = [c \in Contexts |-> held[c]]
  /\ held' = [b \in Bins |-> IF b \in Contexts THEN <<>> ELSE held[b]]

Tick ==
  /\ apc = "select"
  /\ Collect
  /\ apc' = "series"
  /\ UNCHANGED <<serverVars, bufferVars, final, mainVars, historyVars>>

SeeCtxDone ==
  /\ apc = "select"
  /\ CtxDone
  /\ apc' = "drain"
  /\ UNCHANGED <<serverVars, bufferVars, held, out, final, mainVars, historyVars>>

Drain(k) == apc = "drain" /\ Take(k)

\* Mutation of DrainEnd: the drain ends when there are no samples left.
DrainEndSamples ==
  /\ apc = "drain"
  /\ chan["sample"] = <<>>
  /\ Collect
  /\ apc' = "series"
  /\ final' = TRUE
  /\ UNCHANGED <<serverVars, bufferVars, mainVars, historyVars>>

DrainEnd ==
  /\ apc = "drain"
  /\ \A k \in Kinds : chan[k] = <<>>
  /\ Collect
  /\ apc' = "series"
  /\ final' = TRUE
  /\ UNCHANGED <<serverVars, bufferVars, mainVars, historyVars>>

Unposted == {c \in Contexts : out[c] # <<>>}

\* The contexts of C leave.
Post(C) ==
  /\ gone' = [b \in Bins |-> IF b \in C THEN gone[b] \o out[b] ELSE gone[b]]
  /\ out' = [c \in Contexts |-> IF c \in C THEN <<>> ELSE out[c]]

\* SendSeries: one payload after the other, in the random order of the map.
PostSeries ==
  /\ apc = "series"
  /\ \E C \in SUBSET Unposted :
       /\ Cardinality(C) = MaxPerPayload \/ (C = Unposted /\ Cardinality(C) < MaxPerPayload)
       /\ Post(C)
       /\ apc' = IF C = Unposted THEN "check" ELSE "series"
  /\ UNCHANGED <<serverVars, bufferVars, held, final, mainVars, accepted, early>>

\* Mutation of PostSeriesFail: flush returns the error.
PostSeriesReturns ==
  /\ apc = "series"
  /\ Post(Unposted)
  /\ apc' = IF final THEN "done" ELSE "select"
  /\ UNCHANGED <<serverVars, bufferVars, held, final, mainVars, accepted, early>>

\* A payload that fails takes the ones behind it with it, and the flush goes on.
PostSeriesFail ==
  /\ apc = "series"
  /\ Post(Unposted)
  /\ apc' = "check"
  /\ UNCHANGED <<serverVars, bufferVars, held, final, mainVars, accepted, early>>

\* flushChecks, flushEvents: the pending list leaves, whatever the post returns.
PostList(b) ==
  /\ gone' = [gone EXCEPT ![b] = @ \o held[b]]
  /\ held' = [held EXCEPT ![b] = <<>>]

PostChecks ==
  /\ apc = "check"
  /\ PostList("check")
  /\ apc' = "event"
  /\ UNCHANGED <<serverVars, bufferVars, out, final, mainVars, accepted, early>>

\* The last stage; after a periodic flush the count of drops starts anew.
PostEvents ==
  /\ apc = "event"
  /\ PostList("event")
  /\ IF final THEN apc' = "done" /\ UNCHANGED dropped
              ELSE apc' = "select" /\ dropped' = 0
  /\ UNCHANGED <<serverVars, chan, out, final, mainVars, accepted, early>>

----------------------------------------------------------------------------
(* main.                                                                   *)

Signal ==
  /\ main = "run"
  /\ main' = "stop"
  /\ UNCHANGED <<serverVars, bufferVars, aggVars, bindErr, historyVars>>

Exit ==
  /\ main = "stop"
  /\ apc = "done"
  /\ spc \in {"returned", "failed"}
  /\ main' = "exited"
  /\ UNCHANGED <<serverVars, bufferVars, aggVars, bindErr, historyVars>>

Server == Bind \/ BindFail \/ CloseAll \/ ServerReturn
Flush == DrainEnd \/ PostSeries \/ PostSeriesFail \/ PostChecks \/ PostEvents

Next ==
  \/ \E l \in ListenerSet : SendPacket(l) \/ ReadPacket(l) \/ HandleItem(l)
  \/ \E k \in Kinds : Receive(k) \/ Drain(k)
  \/ Server \/ Tick \/ SeeCtxDone \/ Flush \/ Signal \/ Exit

Spec == Init /\ [][Next]_vars

(* Fairness.  Every goroutine keeps running, a post returns within its      *)
(* deadline, and a select that is offered several cases again and again     *)
(* takes each of them some time.  Clients and signals owe nothing.          *)
Fairness ==
  /\ WF_vars(Server) /\ WF_vars(Flush) /\ WF_vars(Exit)
  /\ \A l \in ListenerSet : WF_vars(ReadPacket(l)) /\ WF_vars(HandleItem(l))
  /\ \A k \in Kinds : SF_vars(Receive(k)) /\ WF_vars(Drain(k))
  /\ SF_vars(Tick) /\ SF_vars(SeeCtxDone)

FairSpec == Spec /\ Fairness

----------------------------------------------------------------------------
(* Properties.                                                             *)

\* The items of q that are kept in bin b, in their order.
OfBin(q, b) ==
  LET F[n \in 0..Len(q)] ==
        IF n = 0 THEN <<>>
        ELSE IF BinOf(q[n]) = b THEN Append(F[n - 1], q[n]) ELSE F[n - 1]
  IN F[Len(q)]
KindOfBin(b) == IF b \in Lists THEN b ELSE "sample"

\* What was accepted for a context leaves once and in the order of acceptance,
\* through channel, accumulation and flush: no counter is counted twice, no
\* gauge goes back to an older value (aggregator.go:180-325).
FlushedOnceInOrder ==
  \A b \in Bins :
    OfBin(accepted[KindOfBin(b)], b) =
      gone[b] \o (IF b \in Contexts THEN out[b] ELSE <<>>) \o held[b]
        \o OfBin(chan[KindOfBin(b)], b)

\* aggregator.go:163-164: "the final flush covers everything accepted before
\* shutdown", however the listeners go on adding meanwhile.
FinalFlushCovers ==
  apc = "done" => \A i \in early : BinOf(i) = None \/ i \in SeqSet(gone[BinOf(i)])

\* A cancelled context ends the agent: no listener stays blocked in a read, the
\* drain does not chase the listeners for ever.
ShutdownEnds == main = "stop" ~> main = "exited"

\* What is accepted while the agent runs is all part of a flush again and again,
\* also when the posts keep failing: nothing stays behind in a channel or list.
Flushed == []<>(\A i \in early : BinOf(i) = None \/ i \in SeqSet(gone[BinOf(i)]))

----------------------------------------------------------------------------
(* The inductive invariant behind FinalFlushCovers.                        *)

\* Where an accepted item can be.
Left(i) == i \in SeqSet(gone[BinOf(i)])
Collected(i) == i \in Samples /\ i \in SeqSet(out[BinOf(i)])
Kept(i) == i \in SeqSet(held[BinOf(i)])
Queued(i) == i \in SeqSet(chan[KindOf(i)])

\* The lists that the last flush has still to post.
StillToPost == IF apc = "done" THEN {} ELSE IF apc = "event" THEN {"event"} ELSE Lists

\* Nothing accepted early is lost on the way, and the last flush leaves nothing
\* behind it.
EarlyKept ==
  \A i \in early : BinOf(i) # None =>
    \/ Left(i) \/ Collected(i)
    \/ ~final /\ (Kept(i) \/ Queued(i))
    \/ final /\ Kept(i) /\ BinOf(i) \in StillToPost

StageInv ==
  /\ apc = "drain" \/ final => CtxDone
  /\ final => apc \in {"series", "check", "event", "done"}
  /\ apc = "done" => final
  /\ apc # "series" => out = [c \in Contexts |-> <<>>]
  /\ spc = "bind" => bound < Len(Listeners)

IInv == TypeOK /\ EarlyKept /\ StageInv
============================================================================
