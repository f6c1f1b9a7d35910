--------------------------- MODULE MCLogPipeline ---------------------------
(* LogPipeline for TLC: line sizes, and the symmetry of the sources.       *)
EXTENDS LogPipeline, TLC

\* Lines of one and two bytes, the same in every file.
MixedBytes == [s \in Sources |-> [n \in 1..MaxLines |-> 1 + (n % 2)]]

Symmetry == Permutations(Sources)
============================================================================
