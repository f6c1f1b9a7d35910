---------------------------- MODULE MCProfiler ----------------------------
\* Constants of Profiler for TLC.
EXTENDS Profiler, TLC

Option(ts) == [given |-> TRUE, types |-> ts, mutexFraction |-> 0, blockRate |-> 0]

\* The default types, both spans with a profile that needs a rate, and a span twice.
MCOptions == {[Option(<<>>) EXCEPT !.given = FALSE], Option(<<"cpu", "mutex", "trace">>),
              Option(<<"cpu", "cpu">>)}
============================================================================
