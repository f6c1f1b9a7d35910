---------------------------- MODULE LogDiscovery ----------------------------
(***************************************************************************)
(* internal/logs/agent.go, Agent.Run's discovery: which files are tailed.  *)
(* discover expands the log sources in order, starts a tailer for each     *)
(* path it meets for the first time, then sweeps the glob-discovered paths *)
(* that two consecutive scans have missed.  It runs once in Run and then   *)
(* in the scan goroutine.  The files come and go meanwhile, also between   *)
(* the expansions of two sources of one scan; a tailer that was cancelled  *)
(* returns later, and its last lines are acknowledged later still.         *)
(*                                                                         *)
(* What a tailer reads is LogTailer's matter: here it is a goroutine that  *)
(* sends on the channel msgs until it returns.                             *)
(***************************************************************************)
EXTENDS Integers, Sequences, FiniteSets

CONSTANTS
  Paths,       \* the absolute paths that may be met
  SourceList,  \* the file sources: [glob |-> is it one, paths |-> what it names]
  NoHandle,    \* the value of tailed for a path that is not there
  MaxFlight,   \* bound on the unacknowledged lines of one path
  MaxChanges,  \* bound on the files' comings and goings
  MaxTailers   \* bound on the goroutines of one path

ASSUME SourceListAssumption ==
  /\ SourceList \in Seq([glob : BOOLEAN, paths : SUBSET Paths])
  /\ \A i \in DOMAIN SourceList :
       ~SourceList[i].glob => Cardinality(SourceList[i].paths) = 1
ASSUME BoundsAssumption == {MaxFlight, MaxChanges, MaxTailers} \subseteq Nat
ASSUME NoHandleAssumption == NoHandle \notin [fromGlob : BOOLEAN, missed : Nat]

VARIABLES
  regular,   \* the paths that are regular files now
  tailed,    \* tailed[p]: the handle of p
  running,   \* running[p]: its goroutines that are not cancelled
  dying,     \* dying[p]: its cancelled goroutines that have not returned
  inFlight,  \* inFlight[p]: the lines of p sent and not acknowledged
  entries,   \* the paths the registry holds an offset of
  spc,       \* where discovery is: at source 1, 2, ..., Waiting or Stopped
  matched,   \* the paths the globs of this scan have matched so far
  main,      \* where Agent.Run is
  changes,   \* the number of changes to the files so far
  away,      \* the paths that were not there at some moment of this scan
  gap        \* gap[p]: in how many scans in a row p was away, up to Grace

fileVars == <<regular, changes, away>>
tailVars == <<tailed, running, dying, inFlight, entries>>
scanVars == <<spc, matched, gap>>
vars == <<fileVars, tailVars, scanVars, main>>

\* The consecutive scans a path may be missing from before it is swept.
Grace == 2

\* The scan goroutine waits for the ticker, or has returned.
Waiting == 0
Stopped == -1

TypeOK ==
  /\ regular \subseteq Paths
  /\ tailed \in [Paths -> [fromGlob : BOOLEAN, missed : 0..Grace - 1] \cup {NoHandle}]
  /\ running \in [Paths -> 0..MaxTailers]
  /\ dying \in [Paths -> 0..MaxTailers]
  /\ inFlight \in [Paths -> 0..MaxFlight]
  /\ entries \subseteq Paths
  /\ spc \in Stopped..Len(SourceList) + 1
  /\ matched \subseteq Paths
  /\ main \in {"run", "stop", "tails", "closed"}
  /\ changes \in 0..MaxChanges
  /\ away \subseteq Paths
  /\ gap \in [Paths -> 0..Grace]

CtxDone == main # "run"

Init ==
  /\ regular \in SUBSET Paths
  /\ tailed = [p \in Paths |-> NoHandle]
  /\ running = [p \in Paths |-> 0]
  /\ dying = [p \in Paths |-> 0]
  /\ inFlight = [p \in Paths |-> 0]
  /\ entries = {}
  /\ spc = 1
  /\ matched = {}
  /\ main = "run"
  /\ changes = 0
  /\ away = Paths \ regular
  /\ gap = [p \in Paths |-> 0]

----------------------------------------------------------------------------
(* The files.                                                              *)

Appear(p) ==
  /\ p \notin regular
  /\ changes < MaxChanges
  /\ regular' = regular \cup {p}
  /\ changes' = changes + 1
  /\ UNCHANGED <<away, tailVars, scanVars, main>>

Vanish(p) ==
  /\ p \in regular
  /\ changes < MaxChanges
  /\ regular' = regular \ {p}
  /\ changes' = changes + 1
  /\ away' = away \cup {p}
  /\ UNCHANGED <<tailVars, scanVars, main>>

----------------------------------------------------------------------------
(* The tailers' goroutines and the batcher's acknowledgements.             *)

\* A line is sent: by a cancelled tailer too, as long as there is room.
Send(p) ==
  /\ running[p] + dying[p] > 0
  /\ inFlight[p] < MaxFlight
  /\ inFlight' = [inFlight EXCEPT ![p] = @ + 1]
  /\ UNCHANGED <<fileVars, tailed, running, dying, entries, scanVars, main>>

\* A line is acknowledged: the path is in the registry, again if it was removed.
Ack(p) ==
  /\ inFlight[p] > 0
  /\ inFlight' = [inFlight EXCEPT ![p] = @ - 1]
  /\ entries' = entries \cup {p}
  /\ UNCHANGED <<fileVars, tailed, running, dying, scanVars, main>>

\* The goroutine of a cancelled tailer returns.
CancelledReturns(p) ==
  /\ dying[p] > 0
  /\ dying' = [dying EXCEPT ![p] = @ - 1]
  /\ UNCHANGED <<fileVars, tailed, running, inFlight, entries, scanVars, main>>

\* The goroutine of another returns when ctx ends.
TailerReturns(p) ==
  /\ CtxDone
  /\ running[p] > 0
  /\ running' = [running EXCEPT ![p] = @ - 1]
  /\ UNCHANGED <<fileVars, tailed, dying, inFlight, entries, scanVars, main>>

----------------------------------------------------------------------------
(* discover: one step per source, then the sweep.                          *)

Tick ==
  /\ spc = Waiting
  /\ spc' = 1
  /\ matched' = {}
  /\ away' = Paths \ regular
  /\ UNCHANGED <<regular, changes, tailVars, gap, main>>

\* Mutation of Fresh: startTailer is not idempotent.
FreshAlways(ps) == ps

\* Of ps, the paths for which startTailer does not return at once.
Fresh(ps) == {p \in ps : tailed[p] = NoHandle}

\* Mutation of Expand: only a path that is not tailed yet counts as matched.
ExpandMarksNew ==
  /\ spc \in DOMAIN SourceList
  /\ LET src == SourceList[spc]
         ps == IF src.glob THEN src.paths \cap regular ELSE src.paths
         new == Fresh(ps)
     IN /\ \A p \in new : running[p] + dying[p] < MaxTailers
        /\ tailed' = [p \in Paths |-> IF p \in new
                                      THEN [fromGlob |-> src.glob, missed |-> 0]
                                      ELSE tailed[p]]
        /\ running' = [p \in Paths |-> running[p] + IF p \in new THEN 1 ELSE 0]
        /\ matched' = IF src.glob THEN matched \cup new ELSE matched
  /\ spc' = spc + 1
  /\ UNCHANGED <<fileVars, dying, inFlight, entries, gap, main>>

\* A literal path is tailed whether it exists or not, a glob is expanded to
\* the regular files it matches now.
Expand ==
  /\ spc \in DOMAIN SourceList
  /\ LET src == SourceList[spc]
         ps == IF src.glob THEN src.paths \cap regular ELSE src.paths
         new == Fresh(ps)
     IN /\ \A p \in new : running[p] + dying[p] < MaxTailers
        /\ tailed' = [p \in Paths |-> IF p \in new
                                      THEN [fromGlob |-> src.glob, missed |-> 0]
                                      ELSE tailed[p]]
        /\ running' = [p \in Paths |-> running[p] + IF p \in new THEN 1 ELSE 0]
        /\ matched' = IF src.glob THEN matched \cup ps ELSE matched
  /\ spc' = spc + 1
  /\ UNCHANGED <<fileVars, dying, inFlight, entries, gap, main>>

Present == {p \in Paths : tailed[p] # NoHandle}

\* Mutation of Missing: a literal path is swept like another.
MissingLiteralToo == Present \ matched

\* The glob-discovered paths that this scan has not matched.
Missing == {p \in Present : tailed[p].fromGlob} \ matched

\* Mutation of Swept: no grace.
SweptAtOnce == Missing

\* Those whose tailer the sweep stops.
Swept == {p \in Missing : tailed[p].missed + 1 >= Grace}

Sweep ==
  /\ spc = Len(SourceList) + 1
  /\ \A p \in Swept : dying[p] < MaxTailers
  /\ tailed' = [p \in Paths |->
       IF p \in Swept THEN NoHandle
       ELSE IF p \in Missing THEN [tailed[p] EXCEPT !.missed = @ + 1]
       ELSE IF p \in Present THEN [tailed[p] EXCEPT !.missed = 0]
       ELSE NoHandle]
  /\ running' = [p \in Paths |-> running[p] - IF p \in Swept /\ running[p] > 0 THEN 1 ELSE 0]
  /\ dying' = [p \in Paths |-> dying[p] + IF p \in Swept /\ running[p] > 0 THEN 1 ELSE 0]
  /\ entries' = entries \ Swept
  /\ gap' = [p \in Paths |-> IF p \notin away THEN 0
                             ELSE IF gap[p] < Grace THEN gap[p] + 1 ELSE Grace]
  /\ spc' = Waiting
  /\ UNCHANGED <<fileVars, inFlight, matched, main>>

\* The scan goroutine sees that ctx has ended.
ScanStops ==
  /\ CtxDone
  /\ spc = Waiting
  /\ spc' = Stopped
  /\ UNCHANGED <<fileVars, tailVars, matched, gap, main>>

----------------------------------------------------------------------------
(* Agent.Run's ordered shutdown.                                           *)

Cancel ==
  /\ main = "run"
  /\ main' = "stop"
  /\ UNCHANGED <<fileVars, tailVars, scanVars>>

\* Mutation of ScanStopped: Run does not wait for the scan goroutine.
ScanStoppedNoWait ==
  /\ main = "stop"
  /\ main' = "tails"
  /\ UNCHANGED <<fileVars, tailVars, scanVars>>

\* <-scanDone
ScanStopped ==
  /\ main = "stop"
  /\ spc = Stopped
  /\ main' = "tails"
  /\ UNCHANGED <<fileVars, tailVars, scanVars>>

\* tailWG.Wait(), then close(msgs).
Close ==
  /\ main = "tails"
  /\ \A p \in Paths : running[p] + dying[p] = 0
  /\ main' = "closed"
  /\ UNCHANGED <<fileVars, tailVars, scanVars>>

Next ==
  \/ \E p \in Paths :
       \/ Appear(p) \/ Vanish(p) \/ Send(p) \/ Ack(p)
       \/ CancelledReturns(p) \/ TailerReturns(p)
  \/ Tick \/ Expand \/ Sweep \/ ScanStops
  \/ Cancel \/ ScanStopped \/ Close

Spec == Init /\ [][Next]_vars

\* The ticker ticks, a scan ends and a cancelled tailer returns.
Fairness ==
  /\ WF_vars(Tick) /\ WF_vars(Expand) /\ WF_vars(Sweep)
  /\ \A p \in Paths : WF_vars(CancelledReturns(p))

FairSpec == Spec /\ Fairness

----------------------------------------------------------------------------

\* The map and the goroutines agree: a path in the map has one tailer that is
\* not cancelled, another has none, so re-expanding a glob never tails a file
\* twice and no tailer is left that no sweep can stop.
OneTailer ==
  \A p \in Paths :
    /\ running[p] <= (IF tailed[p] = NoHandle THEN 0 ELSE 1)
    /\ ~CtxDone /\ tailed[p] # NoHandle => running[p] = 1

\* msgs is closed when no tailer is left to send on it (a send on a closed
\* channel panics), the cancelled ones and those a last scan started included.
NoSenderLeft ==
  main = "closed" => \A p \in Paths : running[p] + dying[p] = 0

Literal == {p \in Paths : \E i \in DOMAIN SourceList :
              ~SourceList[i].glob /\ p \in SourceList[i].paths}

\* Past the i-th source, a scan has had the turn of p as a literal path.
LiteralTurn(p, i) == \E j \in DOMAIN SourceList :
  j < i /\ ~SourceList[j].glob /\ p \in SourceList[j].paths

\* Some glob that names p has its turn before every literal source that does.
GlobFirst(p) == \E j \in DOMAIN SourceList :
  SourceList[j].glob /\ p \in SourceList[j].paths /\ ~LiteralTurn(p, j)

\* agent.go:165 has "Literal paths stay: they are deliberately tailed before
\* they exist".  That holds from the turn of the literal source to the end of
\* every scan, and from the first scan on for a path that no glob meets before
\* its literal source.  Another may have been met as the glob's: it is then
\* swept like any of them, only when it was away in two scans in a row, and
\* goes untailed until its literal source has its turn in the next scan.
LiteralStays ==
  \A p \in Literal : tailed[p] = NoHandle =>
    /\ ~LiteralTurn(p, spc)
    /\ spc \in {Waiting, Stopped} => GlobFirst(p) /\ gap[p] = Grace

\* A tailer is stopped only for a file that was away in this scan and in the
\* one before: "a live rotation never kills a tailer".
RotationSurvives ==
  [][\A p \in Paths :
       tailed[p] # NoHandle /\ tailed'[p] = NoHandle => gap'[p] = Grace]_vars

\* A file that stays where a source names it ends up with a tailer, for good.
StaysTailed ==
  \A p \in UNION {SourceList[i].paths : i \in DOMAIN SourceList} :
    <>[](p \in regular /\ ~CtxDone) => <>[](tailed[p] # NoHandle /\ running[p] = 1)
=============================================================================
