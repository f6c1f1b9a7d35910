----------------------------- MODULE IntakeCall -----------------------------
(***************************************************************************)
(* What one fan-out call of the intake client promises its caller: the     *)
(* primary endpoint alone decides what becomes of the payload, before any  *)
(* other endpoint is sent it; a payload that counts as delivered is        *)
(* stored; once it is decided the primary is not sent it again; and the    *)
(* others are served one after the other, each in its turn only.           *)
(*                                                                         *)
(* Nothing here mentions retries, deadlines, time or statuses: Intake is   *)
(* shown to implement this module.  With the primary alone it is what      *)
(* LogPipeline makes of a call in one step: delivered, refused or to be    *)
(* retried, and in the last two cases stored or not.                       *)
(***************************************************************************)
EXTENDS Integers

CONSTANT N    \* the number of endpoints; 1 is the primary

VARIABLES
  turn,     \* the endpoint that may be sent the payload
  stored,   \* stored[e]: e has stored it
  outcome   \* what the caller is told, once it is decided

vars == <<turn, stored, outcome>>

Pending == "pending"

Init ==
  /\ turn = 1
  /\ stored = [e \in 1..N |-> FALSE]
  /\ outcome = Pending

\* An endpoint stores the payload and that settles nothing: the answer of the
\* primary is lost or asks for another try, any other has no say.
Store ==
  /\ turn = 1 => outcome = Pending
  /\ stored' = [stored EXCEPT ![turn] = TRUE]
  /\ UNCHANGED <<turn, outcome>>

Deliver ==
  /\ turn = 1 /\ outcome = Pending
  /\ stored' = [stored EXCEPT ![1] = TRUE]
  /\ outcome' = "delivered"
  /\ UNCHANGED turn

\* The request that is refused stores nothing; an earlier one may have.
Refuse ==
  /\ turn = 1 /\ outcome = Pending
  /\ outcome' = "refused"
  /\ UNCHANGED <<turn, stored>>

\* The tries are used up, or the time; the last of them may have stored it.
GiveUp ==
  /\ turn = 1 /\ outcome = Pending
  /\ stored' \in {stored, [stored EXCEPT ![1] = TRUE]}
  /\ outcome' = "retry"
  /\ UNCHANGED turn

NextTurn ==
  /\ outcome # Pending
  /\ turn < N
  /\ turn' = turn + 1
  /\ UNCHANGED <<stored, outcome>>

Next == Store \/ Deliver \/ Refuse \/ GiveUp \/ NextTurn

Spec == Init /\ [][Next]_vars
=============================================================================
