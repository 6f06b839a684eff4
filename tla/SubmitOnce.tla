----------------------------- MODULE SubmitOnce -----------------------------
(***************************************************************************)
(* What the shared executor promises of a set of ladders, without workers, *)
(* claims, leases, crashes or lookups: each leg is committed to submission *)
(* in ladder order, its order is posted at most once and only after that   *)
(* commitment, an outcome is recorded only for an order that was posted,   *)
(* and a handoff is finished only when its ladder has come to an end       *)
(* (src/executor/execution_submission_orchestrator_v1.py and               *)
(* src/executor/shared_execution_consumer_v1.py).                          *)
(***************************************************************************)
EXTENDS Naturals

CONSTANTS Handoffs, LegIndexes   \* LegIndexes is a set of numbers

VARIABLES
  phase,     \* idle, committed, accepted or closed, per leg
  posted,    \* number of orders sent to the broker, per leg
  finished   \* the handoffs that no worker will take up again

vars == <<phase, posted, finished>>

Legs == Handoffs \X LegIndexes

\* Every leg of the handoff before index i was accepted by the broker.
Reached(h, i) == \A j \in LegIndexes : j < i => phase[<<h, j>>] = "accepted"

\* The ladder has come to its end, or was stopped by a closed leg.
Ended(h) ==
  \/ \A i \in LegIndexes : phase[<<h, i>>] = "accepted"
  \/ \E i \in LegIndexes : phase[<<h, i>>] = "closed" /\ Reached(h, i)

Init ==
  /\ phase = [l \in Legs |-> "idle"]
  /\ posted = [l \in Legs |-> 0]
  /\ finished = {}

Commit(h, i) ==
  /\ phase[<<h, i>>] = "idle"
  /\ Reached(h, i)
  /\ phase' = [phase EXCEPT ![<<h, i>>] = "committed"]
  /\ UNCHANGED <<posted, finished>>

Post(h, i) ==
  /\ phase[<<h, i>>] = "committed"
  /\ posted[<<h, i>>] = 0
  /\ posted' = [posted EXCEPT ![<<h, i>>] = 1]
  /\ UNCHANGED <<phase, finished>>

Resolve(h, i) ==
  /\ phase[<<h, i>>] = "committed"
  /\ posted[<<h, i>>] = 1
  /\ \E p \in {"accepted", "closed"} : phase' = [phase EXCEPT ![<<h, i>>] = p]
  /\ UNCHANGED <<posted, finished>>

Finish(h) ==
  /\ h \notin finished
  /\ Ended(h)
  /\ finished' = finished \cup {h}
  /\ UNCHANGED <<phase, posted>>

Next ==
  \E h \in Handoffs :
    \/ Finish(h)
    \/ \E i \in LegIndexes : Commit(h, i) \/ Post(h, i) \/ Resolve(h, i)

Spec == Init /\ [][Next]_vars
=============================================================================
