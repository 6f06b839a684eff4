----------------------------- MODULE SubmitAgain -----------------------------
(***************************************************************************)
(* What the manual SELL ladder keeps of "once", without processes, lookups *)
(* and crashes: legs are committed to submission in ladder order; a leg in *)
(* doubt may be taken back, and each time buys one POST more; an outcome   *)
(* is recorded only of a leg that was posted, and is final; and a ladder   *)
(* is reported as accepted only when all of it is                          *)
(* (src/executor/manual_execution_submission_orchestrator_v1.py and        *)
(* src/executor/manual_execution_submission_leg_v1.py).                    *)
(***************************************************************************)
EXTENDS Naturals

CONSTANTS Legs, Processes   \* Legs is a set of numbers

VARIABLES
  phase,    \* idle, committed, accepted or closed, per leg
  posted,   \* number of orders sent to the broker, per leg
  again,    \* times the leg was taken back
  told      \* the processes that were told that the ladder is accepted

vars == <<phase, posted, again, told>>

\* Every leg before i was accepted by the broker.
Reached(i) == \A j \in Legs : j < i => phase[j] = "accepted"

Init ==
  /\ phase = [i \in Legs |-> "idle"]
  /\ posted = [i \in Legs |-> 0]
  /\ again = [i \in Legs |-> 0]
  /\ told = {}

Commit(i) ==
  /\ phase[i] = "idle"
  /\ Reached(i)
  /\ phase' = [phase EXCEPT ![i] = "committed"]
  /\ UNCHANGED <<posted, again, told>>

\* The leg was committed, by whoever posts it; it may have been taken back.
Post(i) ==
  /\ phase[i] # "idle" \/ again[i] > 0
  /\ Reached(i)
  /\ posted[i] <= again[i]
  /\ posted' = [posted EXCEPT ![i] = @ + 1]
  /\ UNCHANGED <<phase, again, told>>

Resolve(i) ==
  /\ phase[i] = "committed"
  /\ posted[i] > 0
  /\ \E s \in {"accepted", "closed"} : phase' = [phase EXCEPT ![i] = s]
  /\ UNCHANGED <<posted, again, told>>

TakeBack(i) ==
  /\ phase[i] = "committed"
  /\ phase' = [phase EXCEPT ![i] = "idle"]
  /\ again' = [again EXCEPT ![i] = @ + 1]
  /\ UNCHANGED <<posted, told>>

Tell(p) ==
  /\ \A i \in Legs : phase[i] = "accepted"
  /\ told' = told \cup {p}
  /\ UNCHANGED <<phase, posted, again>>

\* The process is started again.
Forget(p) ==
  /\ told' = told \ {p}
  /\ UNCHANGED <<phase, posted, again>>

Next ==
  \/ \E i \in Legs : Commit(i) \/ Post(i) \/ Resolve(i) \/ TakeBack(i)
  \/ \E p \in Processes : Tell(p) \/ Forget(p)

Spec == Init /\ [][Next]_vars
=============================================================================
