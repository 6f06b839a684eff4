----------------------------- MODULE CapitalOnce -----------------------------
(***************************************************************************)
(* What the legacy PAPER path promises of the capital of a sleeve, without *)
(* processes, queues, decisions and crashes: one unit is reserved for a    *)
(* plan only when the plan is made and the sleeve has it, it is then spent *)
(* by the one fill of that plan or given back after the plan was           *)
(* withdrawn, never both and never twice; no plan is reopened, and the     *)
(* columns of the sleeve follow exactly, without the clamping at zero of   *)
(* the code (src/execution_planner/repository.py,                          *)
(* src/executor/repository.py and src/plan_lifecycle/repository.py).       *)
(***************************************************************************)
EXTENDS Naturals

CONSTANTS Plans, Equity

VARIABLES
  life,    \* absent, open, filled or withdrawn, per plan
  money,   \* none, reserved, spent or returned, per plan
  sleeve   \* what is available, reserved and deployed

vars == <<life, money, sleeve>>

Init ==
  /\ life = [p \in Plans |-> "absent"]
  /\ money = [p \in Plans |-> "none"]
  /\ sleeve = [available |-> Equity, reserved |-> 0, deployed |-> 0]

\* A plan without capital of its own.
Make(p) ==
  /\ life[p] = "absent"
  /\ life' = [life EXCEPT ![p] = "open"]
  /\ UNCHANGED <<money, sleeve>>

MakeFunded(p) ==
  /\ life[p] = "absent"
  /\ sleeve.available >= 1
  /\ life' = [life EXCEPT ![p] = "open"]
  /\ money' = [money EXCEPT ![p] = "reserved"]
  /\ sleeve' = [sleeve EXCEPT !.reserved = @ + 1, !.available = @ - 1]

Fill(p) ==
  /\ life[p] = "open"
  /\ money[p] = "reserved"
  /\ life' = [life EXCEPT ![p] = "filled"]
  /\ money' = [money EXCEPT ![p] = "spent"]
  /\ sleeve' = [sleeve EXCEPT !.reserved = @ - 1, !.deployed = @ + 1]

\* Also a plan that was filled may be marked so, which costs nothing.
Withdraw(p) ==
  /\ life[p] \in {"open", "filled"}
  /\ life' = [life EXCEPT ![p] = "withdrawn"]
  /\ UNCHANGED <<money, sleeve>>

GiveBack(p) ==
  /\ life[p] = "withdrawn"
  /\ money[p] = "reserved"
  /\ money' = [money EXCEPT ![p] = "returned"]
  /\ sleeve' = [sleeve EXCEPT !.reserved = @ - 1, !.available = @ + 1]
  /\ UNCHANGED life

Next == \E p \in Plans : Make(p) \/ MakeFunded(p) \/ Fill(p) \/ Withdraw(p) \/ GiveBack(p)

Spec == Init /\ [][Next]_vars
=============================================================================
