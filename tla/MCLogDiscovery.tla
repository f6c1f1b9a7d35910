-------------------------- MODULE MCLogDiscovery --------------------------
\* Constants of LogDiscovery for TLC.
EXTENDS LogDiscovery, TLC

CONSTANTS x, y

\* A literal path that a glob configured after it matches too, and a literal
\* path that two globs meet first.
MCSourceList == <<[glob |-> FALSE, paths |-> {x}], [glob |-> TRUE, paths |-> {x, y}],
                  [glob |-> TRUE, paths |-> {y}], [glob |-> FALSE, paths |-> {y}]>>
===========================================================================
