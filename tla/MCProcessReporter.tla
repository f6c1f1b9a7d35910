------------------------- MODULE MCProcessReporter -------------------------
\* Constants of ProcessReporter for TLC.
EXTENDS ProcessReporter, TLC

\* Somebody looks, nobody does, and an answer that is no ResCollector.
MCAnswers == {[active |-> 1, interval |-> 0], [active |-> 0, interval |-> 2], None}

\* The epoch, long before the agent starts.
MCUnknown == -9

\* The collectors a payload is made with, and its encoding.  Their laws are about
\* operators and not about the state: Init makes TLC evaluate them once.
Table == INSTANCE ProcessTable
Wire == INSTANCE ProcessWire

\* A collection is the processes that there are, each with what can be known of it
\* (ProcessTable!TablesHold), and the intake reads of it, and the reporter of the
\* answer, what was written (ProcessWire!WireTrue).
ProcessesHold == Init => Table!TablesHold /\ Wire!WireTrue
============================================================================
