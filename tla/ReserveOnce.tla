---------------------------- MODULE ReserveOnce ----------------------------
(***************************************************************************)
(* What the manual SELL pipeline promises of its requests, without         *)
(* callers, read views, locks, expiries, retries and crashes: a quantity   *)
(* is reserved for a request once, never more than was asked for or than   *)
(* some wallet held; one plan is stored, for that very quantity, and only  *)
(* a stored plan is announced or taken in by the executor                  *)
(* (src/manual_execution/manual_execution_service_v1.py,                   *)
(* src/decision_gate/manual_execution_gate_v1.py and                       *)
(* src/executor/manual_execution_handoff_v1.py).                           *)
(***************************************************************************)
EXTENDS Naturals

CONSTANTS Requests, Wallets, Asked

VARIABLES
  told,       \* what the request says of itself
  reserved,   \* quantity reserved, 0 for none
  planned,    \* quantity of the stored plan, 0 for none
  taken       \* the requests whose plan the executor has

vars == <<told, reserved, planned, taken>>

Init ==
  /\ told = [r \in Requests |-> "ABSENT"]
  /\ reserved = [r \in Requests |-> 0]
  /\ planned = [r \in Requests |-> 0]
  /\ taken = {}

Ask(r) ==
  /\ told[r] = "ABSENT"
  /\ told' = [told EXCEPT ![r] = "DRAFT"]
  /\ UNCHANGED <<reserved, planned, taken>>

Reserve(r) ==
  /\ told[r] # "ABSENT"
  /\ reserved[r] = 0
  /\ \E w \in Wallets : \E q \in 1..w :
       /\ Asked[r] = 0 \/ q <= Asked[r]
       /\ reserved' = [reserved EXCEPT ![r] = q]
  /\ UNCHANGED <<told, planned, taken>>

Store(r) ==
  /\ reserved[r] # 0
  /\ planned[r] = 0
  /\ planned' = [planned EXCEPT ![r] = reserved[r]]
  /\ UNCHANGED <<told, reserved, taken>>

Tell(r, s) ==
  /\ told[r] # "ABSENT"
  /\ s = "PLANNED" => planned[r] # 0
  /\ told' = [told EXCEPT ![r] = s]
  /\ UNCHANGED <<reserved, planned, taken>>

TakeIn(r) ==
  /\ r \notin taken
  /\ planned[r] # 0
  /\ taken' = taken \cup {r}
  /\ UNCHANGED <<told, reserved, planned>>

Next ==
  \E r \in Requests :
    \/ Ask(r) \/ Reserve(r) \/ Store(r) \/ TakeIn(r)
    \/ \E s \in {"GATE_BLOCKED", "PLANNED", "PLAN_REJECTED"} : Tell(r, s)

Spec == Init /\ [][Next]_vars
=============================================================================
