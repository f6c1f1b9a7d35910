---------------------------- MODULE LogDelivery ----------------------------
(***************************************************************************)
(* What the logs agent promises for the lines of append-only files and the *)
(* entries of journals: one is settled (delivered, or refused outright by  *)
(* the intake) only after every earlier one of its source, the position a  *)
(* restart resumes from never passes one that is not settled, and a source *)
(* that has a position is never started at its end again.  The offset of a *)
(* file never moves back; the cursor of a journal may.                     *)
(*                                                                         *)
(* Nothing here mentions tailers, channels, batches or the registry in     *)
(* memory: LogPipeline and JournaldTailer are shown to implement this      *)
(* module.                                                                 *)
(***************************************************************************)
EXTENDS Integers

CONSTANTS
  Sources,    \* the tailed files or journals
  MaxLines,   \* bound on the lines one of them ever holds
  Unwanted,   \* Unwanted[s]: the lines the configuration of s leaves out
  MayGoBack   \* whether a persisted position may move back

VARIABLES
  written,    \* written[s]: the number of lines in the file of s
  delivered,  \* delivered[s]: the lines the intake has stored
  refused,    \* refused[s]: the lines of payloads the intake refused
  skipped,    \* skipped[s]: the lines passed over by starting at the end
  durable     \* durable[s]: the persisted position, NoEntry when there is none

vars == <<written, delivered, refused, skipped, durable>>

NoEntry == -1

Settled(s) == delivered[s] \cup refused[s] \cup skipped[s] \cup Unwanted[s]

\* Every line of S[s] is in the file, and every line before it is settled or
\* also in S[s]: no line outruns an earlier one of its source.
InOrder(S) ==
  \A s \in Sources : \A n \in S[s] :
    /\ n \in 1..written[s]
    /\ 1..n \subseteq Settled(s) \cup S[s]

Init ==
  /\ written = [s \in Sources |-> 0]
  /\ delivered = [s \in Sources |-> {}]
  /\ refused = [s \in Sources |-> {}]
  /\ skipped = [s \in Sources |-> {}]
  /\ durable = [s \in Sources |-> NoEntry]

Write(s) ==
  /\ written[s] < MaxLines
  /\ written' = [written EXCEPT ![s] = @ + 1]
  /\ UNCHANGED <<delivered, refused, skipped, durable>>

Deliver(S) ==
  /\ InOrder(S)
  /\ delivered' = [s \in Sources |-> delivered[s] \cup S[s]]
  /\ UNCHANGED <<written, refused, skipped, durable>>

Refuse(S) ==
  /\ InOrder(S)
  /\ refused' = [s \in Sources |-> refused[s] \cup S[s]]
  /\ UNCHANGED <<written, delivered, skipped, durable>>

\* Only a source with no persisted position may start at its end.
StartAtEnd(s) ==
  /\ durable[s] = NoEntry
  /\ skipped' = [skipped EXCEPT ![s] = @ \cup 1..written[s]]
  /\ UNCHANGED <<written, delivered, refused, durable>>

Persist(p) ==
  /\ \A s \in Sources :
       /\ durable[s] <= p[s] \/ (MayGoBack /\ p[s] # NoEntry)
       /\ 1..p[s] \subseteq Settled(s)
  /\ durable' = p
  /\ UNCHANGED <<written, delivered, refused, skipped>>

Lines == [Sources -> SUBSET (1..MaxLines)]

Next ==
  \/ \E s \in Sources : Write(s) \/ StartAtEnd(s)
  \/ \E S \in Lines : Deliver(S) \/ Refuse(S)
  \/ \E p \in [Sources -> NoEntry..MaxLines] : Persist(p)

Spec == Init /\ [][Next]_vars
============================================================================
