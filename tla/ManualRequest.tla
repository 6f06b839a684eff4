--------------------------- MODULE ManualRequest ---------------------------
(***************************************************************************)
(* The manual SELL request on its way to the executor: process() of        *)
(* src/manual_execution/manual_execution_service_v1.py persists a request, *)
(* has the decision gate approve it and reserve its quantity (approve_and_ *)
(* reserve of src/decision_gate/manual_execution_gate_v1.py), has the      *)
(* planner build a plan, stores the plan as an immutable snapshot and      *)
(* writes the request's new state; the executor's intake then turns the    *)
(* snapshot into a handoff (src/executor/manual_execution_handoff_v1.py).  *)
(*                                                                         *)
(* Each database transaction is one action, except the one of              *)
(* approve_and_reserve, which is three: its first plain read, which fixes  *)
(* the read view of the whole transaction (MariaDB's default REPEATABLE    *)
(* READ, src/common/db_core_v1.py sets no other level), the row lock, and  *)
(* the decision with its commit.  All requests are of one trading account, *)
(* venue and asset, hence compete for one wallet and one lock; all are of  *)
(* mode PAPER, since any other returns before anything is persisted.       *)
(***************************************************************************)
EXTENDS Naturals, FiniteSetsExt

CONSTANTS
  Processes,  \* concurrent callers of process() and of intake()
  Requests,   \* manual SELL requests, by their dedupe key
  Wallets,    \* the available quantities the wallet snapshots may show
  Asked,      \* requested_base_quantity, 0 for FULL_AVAILABLE_BASE
  NoProcess,  \* the lock is free
  NoRequest   \* the process is working on nothing

Reachable == {"DRAFT", "GATE_BLOCKED", "PLANNED", "PLAN_REJECTED"}
RequestStates == {"ABSENT"} \cup Reachable

ASSUME NullAssumption == NoProcess \notin Processes /\ NoRequest \notin Requests
ASSUME WalletsAssumption == Wallets \subseteq Nat /\ Wallets # {}
ASSUME AskedAssumption == Asked \in [Requests -> Nat]

VARIABLES
  request,    \* manual_execution_request.request_state
  approval,   \* quantity of the reservation and its approval, 0 for none
  expired,    \* the approvals whose expires_ts_utc has passed
  plan,       \* quantity of the plan snapshot, 0 for none
  handoffs,   \* the requests whose snapshot the executor has taken in
  wallet,     \* available_quantity_base of the latest wallet snapshot
  lock,       \* holder of the manual_execution_sell_lock row
  pc,         \* the next step of each process
  cur,        \* the request it is working on
  seen,       \* the state of that request when process() read it
  view,       \* what its approve_and_reserve transaction can read
  contested,  \* history: the requests two processes worked on at once
  aborted     \* history: the processes whose last insert a trigger aborted

dbVars == <<request, approval, expired, plan, handoffs>>
history == <<contested, aborted>>
vars == <<dbVars, wallet, lock, pc, cur, seen, view, history>>

\* Steps of process(), and the one of intake() after its checks.
Steps == {"idle", "findSnapshot", "recover", "open", "lock", "decide", "block",
          "build", "insert", "planned", "reject", "intake"}

Views == [wallet : Nat, approval : [Requests -> Nat]]
NothingRead == [wallet |-> 0, approval |-> [r \in Requests |-> 0]]

\* Every variable has its type; the lock is held by the one who decides.
TypeOK ==
  /\ request \in [Requests -> RequestStates]
  /\ approval \in [Requests -> Nat]
  /\ expired \in SUBSET Requests
  /\ plan \in [Requests -> Nat]
  /\ handoffs \in SUBSET Requests
  /\ wallet \in Wallets
  /\ lock \in Processes \cup {NoProcess}
  /\ pc \in [Processes -> Steps]
  /\ cur \in [Processes -> Requests \cup {NoRequest}]
  /\ seen \in [Processes -> RequestStates]
  /\ view \in [Processes -> Views]
  /\ contested \in SUBSET Requests
  /\ aborted \in SUBSET Processes
  /\ \A p \in Processes : pc[p] # "idle" => cur[p] \in Requests
  /\ \A p \in Processes : lock = p <=> pc[p] = "decide"

Init ==
  /\ request = [r \in Requests |-> "ABSENT"]
  /\ approval = [r \in Requests |-> 0]
  /\ expired = {}
  /\ plan = [r \in Requests |-> 0]
  /\ handoffs = {}
  /\ wallet \in Wallets
  /\ lock = NoProcess
  /\ pc = [p \in Processes |-> "idle"]
  /\ cur = [p \in Processes |-> NoRequest]
  /\ seen = [p \in Processes |-> "ABSENT"]
  /\ view = [p \in Processes |-> NothingRead]
  /\ contested = {}
  /\ aborted = {}

-----------------------------------------------------------------------------
(* The control of one call. *)

GoTo(p, step) ==
  /\ pc' = [pc EXCEPT ![p] = step]
  /\ UNCHANGED <<cur, seen>>

\* The call ends, with an outcome or an exception.
Return(p) ==
  /\ pc' = [pc EXCEPT ![p] = "idle"]
  /\ cur' = [cur EXCEPT ![p] = NoRequest]
  /\ seen' = [seen EXCEPT ![p] = "ABSENT"]

Take(p, r) ==
  /\ pc[p] = "idle"
  /\ cur' = [cur EXCEPT ![p] = r]
  /\ contested' = IF \E q \in Processes : cur[q] = r
                    THEN contested \cup {r} ELSE contested
  /\ aborted' = aborted \ {p}

\* advance_manual_execution_request_state has accepted the state the process
\* read; the UPDATE itself has no condition on the state it overwrites.
WriteState(p, state) ==
  /\ request' = [request EXCEPT ![cur[p]] = state]
  /\ Return(p)
  /\ UNCHANGED <<approval, expired, plan, handoffs, wallet, lock, view, history>>

-----------------------------------------------------------------------------
(* process(): the request and the recovery of its snapshot. *)

\* INSERT ... ON DUPLICATE KEY, and the canonical row read back.
CreateRequest(p, r) ==
  /\ Take(p, r)
  /\ request' = [request EXCEPT ![r] = IF @ = "ABSENT" THEN "DRAFT" ELSE @]
  /\ seen' = [seen EXCEPT ![p] = request'[r]]
  /\ pc' = [pc EXCEPT ![p] = "findSnapshot"]
  /\ UNCHANGED <<approval, expired, plan, handoffs, wallet, lock, view>>

\* Mutant: a retry does not look for the snapshot.
FindSnapshotIgnored(p) ==
  /\ pc[p] = "findSnapshot"
  /\ \/ seen[p] # "DRAFT" /\ Return(p)
     \/ seen[p] = "DRAFT" /\ \E s \in {"reject", "open"} : GoTo(p, s)
  /\ UNCHANGED <<dbVars, wallet, lock, view, history>>

\* A snapshot is authoritative: a DRAFT request is repaired, any other is
\* left as it is.  Without one, a terminal request keeps its outcome, and a
\* DRAFT one is rejected when its bindings or the venue constraints are not
\* usable, or goes to the gate.
FindSnapshot(p) ==
  /\ pc[p] = "findSnapshot"
  /\ \/ seen[p] # "DRAFT" /\ Return(p)
     \/ seen[p] = "DRAFT" /\ plan[cur[p]] # 0 /\ GoTo(p, "recover")
     \/ seen[p] = "DRAFT" /\ plan[cur[p]] = 0 /\ \E s \in {"reject", "open"} : GoTo(p, s)
  /\ UNCHANGED <<dbVars, wallet, lock, view, history>>

Recover(p) == pc[p] = "recover" /\ WriteState(p, "PLANNED")

-----------------------------------------------------------------------------
(* approve_and_reserve(). *)

\* The first read of the transaction fixes its view; an existing reservation
\* of the request answers the call before the lock is asked for.
Open(p) ==
  /\ pc[p] = "open"
  /\ \/ approval[cur[p]] # 0 /\ GoTo(p, "build") /\ UNCHANGED view
     \/ /\ approval[cur[p]] = 0
        /\ GoTo(p, "lock")
        /\ view' = [view EXCEPT ![p] = [wallet |-> wallet, approval |-> approval]]
  /\ UNCHANGED <<dbVars, wallet, lock, history>>

\* INSERT IGNORE and SELECT ... FOR UPDATE of the lock row.
Acquire(p) ==
  /\ pc[p] = "lock"
  /\ lock = NoProcess
  /\ lock' = p
  /\ GoTo(p, "decide")
  /\ UNCHANGED <<dbVars, wallet, view, history>>

Reserved(a) == MapThenSumSet(LAMBDA r : a[r], Requests)

\* The quantity q is free: the wallet less what is approved and not
\* submitted.  No positive q is when the difference is zero or negative.
IsFree(v, q) == Reserved(v.approval) + q = v.wallet

Grant(r, q) == IF Asked[r] = 0 \/ q < Asked[r] THEN q ELSE Asked[r]

\* Mutant: the reservation is upserted, no unique key refuses it.
DecideUpserts(p) ==
  LET r == cur[p] IN
  /\ pc[p] = "decide"
  /\ lock' = NoProcess
  /\ view' = [view EXCEPT ![p] = NothingRead]
  /\ \/ GoTo(p, "block") /\ UNCHANGED approval
     \/ /\ \E q \in 1..view[p].wallet :
             /\ IsFree(view[p], q)
             /\ approval' = [approval EXCEPT ![r] = Grant(r, q)]
        /\ GoTo(p, "build")
  /\ UNCHANGED <<request, expired, plan, handoffs, wallet, history>>

\* The account's flags and the age of the wallet snapshot may block whatever
\* is free; with nothing free it blocks always.  The reservation and the
\* approval are inserted together, under unique keys of the request: when
\* another process has committed them since the view was taken, the insert
\* raises and nothing is written.  The end of the transaction unlocks.
Decide(p) ==
  LET r == cur[p] IN
  /\ pc[p] = "decide"
  /\ lock' = NoProcess
  /\ view' = [view EXCEPT ![p] = NothingRead]
  /\ \/ GoTo(p, "block") /\ UNCHANGED approval
     \/ \E q \in 1..view[p].wallet :
          /\ IsFree(view[p], q)
          /\ \/ /\ approval[r] = 0
                /\ approval' = [approval EXCEPT ![r] = Grant(r, q)]
                /\ GoTo(p, "build")
             \/ /\ approval[r] # 0
                /\ Return(p)
                /\ UNCHANGED approval
  /\ UNCHANGED <<request, expired, plan, handoffs, wallet, history>>

Block(p) == pc[p] = "block" /\ WriteState(p, "GATE_BLOCKED")

-----------------------------------------------------------------------------
(* The planner, the snapshot and the last state. *)

\* build_manual_sell_execution_plan_preview reads the approval again and
\* refuses an expired one; the plan itself may be refused too.
Build(p) ==
  /\ pc[p] = "build"
  /\ \/ cur[p] \notin expired /\ GoTo(p, "insert")
     \/ GoTo(p, "reject")
  /\ UNCHANGED <<dbVars, wallet, lock, view, history>>

\* ON DUPLICATE KEY UPDATE of a table whose trigger refuses every update: a
\* second insert is a database error, which process() does not catch.
InsertSnapshot(p) ==
  LET r == cur[p] IN
  /\ pc[p] = "insert"
  /\ \/ plan[r] = 0 /\ plan' = [plan EXCEPT ![r] = approval[r]]
        /\ GoTo(p, "planned") /\ UNCHANGED aborted
     \/ plan[r] # 0 /\ Return(p) /\ aborted' = aborted \cup {p} /\ UNCHANGED plan
  /\ UNCHANGED <<request, approval, expired, handoffs, wallet, lock, view, contested>>

MarkPlanned(p) == pc[p] = "planned" /\ WriteState(p, "PLANNED")

Reject(p) == pc[p] = "reject" /\ WriteState(p, "PLAN_REJECTED")

-----------------------------------------------------------------------------
(* The executor's intake(). *)

\* The snapshot, the request and the approval are read and must agree.  The
\* expiry of the approval is not looked at again.
IntakeCheck(p, r) ==
  /\ Take(p, r)
  /\ plan[r] # 0
  /\ request[r] = "PLANNED"
  /\ pc' = [pc EXCEPT ![p] = "intake"]
  /\ UNCHANGED <<dbVars, wallet, lock, seen, view>>

\* The same upsert, and again a trigger that refuses to update a row which
\* stays CLAIMED.
IntakeInsert(p) ==
  /\ pc[p] = "intake"
  /\ handoffs' = handoffs \cup {cur[p]}
  /\ aborted' = IF cur[p] \in handoffs THEN aborted \cup {p} ELSE aborted
  /\ Return(p)
  /\ UNCHANGED <<request, approval, expired, plan, wallet, lock, view, contested>>

-----------------------------------------------------------------------------
(* The environment. *)

\* Mutant: the connection of a dead process keeps its row lock.
DieLocked(p) ==
  /\ pc[p] # "idle"
  /\ Return(p)
  /\ view' = [view EXCEPT ![p] = NothingRead]
  /\ UNCHANGED <<dbVars, wallet, lock, history>>

\* The process dies, or a database or broker-metadata error ends its call:
\* an open transaction is rolled back and its lock released.
Die(p) ==
  /\ pc[p] # "idle"
  /\ Return(p)
  /\ lock' = IF lock = p THEN NoProcess ELSE lock
  /\ view' = [view EXCEPT ![p] = NothingRead]
  /\ UNCHANGED <<dbVars, wallet, history>>

\* APPROVAL_TTL_SECONDS after it was made.
Expire(r) ==
  /\ approval[r] # 0
  /\ r \notin expired
  /\ expired' = expired \cup {r}
  /\ UNCHANGED <<request, approval, plan, handoffs, wallet, lock, pc, cur, seen,
                 view, history>>

\* A new wallet snapshot of the account.
SyncWallet ==
  /\ wallet' \in Wallets \ {wallet}
  /\ UNCHANGED <<dbVars, lock, pc, cur, seen, view, history>>

Step(p) ==
  \/ FindSnapshot(p) \/ Recover(p)
  \/ Open(p) \/ Acquire(p) \/ Decide(p) \/ Block(p)
  \/ Build(p) \/ InsertSnapshot(p) \/ MarkPlanned(p) \/ Reject(p)
  \/ IntakeInsert(p)
  \/ Die(p)

Next ==
  \/ \E p \in Processes : Step(p)
  \/ \E p \in Processes, r \in Requests : CreateRequest(p, r) \/ IntakeCheck(p, r)
  \/ \E r \in Requests : Expire(r)
  \/ SyncWallet

Spec == Init /\ [][Next]_vars

-----------------------------------------------------------------------------
(* Properties. *)

\* What the executor takes in is a stored plan, and every plan is for the
\* quantity that was approved and is still reserved for its request.
PlanIsReserved ==
  \A r \in Requests :
    /\ plan[r] # 0 => plan[r] = approval[r]
    /\ r \in handoffs => plan[r] # 0

\* A request is PLANNED only when its snapshot is stored, also in the eyes of
\* a process that read the request before it looks for the snapshot: the
\* "planned manual request is missing immutable plan snapshot" of process()
\* is never raised.
PlannedHasSnapshot ==
  /\ \A r \in Requests : request[r] = "PLANNED" => plan[r] # 0
  /\ \A p \in Processes : seen[p] = "PLANNED" => plan[cur[p]] # 0

\* Of a request that no two processes worked on at once, the outcome is told
\* right across every crash and retry: blocked means that nothing was
\* reserved, and a stored snapshot is never contradicted by the state.
AloneIsConsistent ==
  \A r \in Requests \ contested :
    /\ request[r] = "GATE_BLOCKED" => approval[r] = 0
    /\ plan[r] # 0 => request[r] \in {"DRAFT", "PLANNED"}
    /\ r \in handoffs => request[r] = "PLANNED"

\* A retry never decides again: the quantity approved for a request and the
\* plan made from it do not change, whatever the wallet does and whoever
\* else works on the request.
DecidedOnce ==
  [][\A r \in Requests :
       /\ approval[r] # 0 => approval'[r] = approval[r]
       /\ plan[r] # 0 => plan'[r] = plan[r]]_vars

Promise == INSTANCE ReserveOnce WITH
  told <- request, reserved <- approval, planned <- plan, taken <- handoffs

\* However many callers process a request at once, whatever the wallet does
\* meanwhile and wherever they die: it is reserved once, within what was asked
\* and what a wallet held, its one plan is for that quantity, it is told to be
\* PLANNED only with the plan stored, and no plan is taken in that is not.
ImplementsReserveOnce == Promise!Spec

\* Of a request that one process at a time works on, the state leaves DRAFT
\* once and for all ("single-hop transitions only").
AloneIsSingleHop ==
  [][\A r \in Requests \ contested' :
       request[r] \notin {"ABSENT", "DRAFT"} => request'[r] = request[r]]_vars

\* "Two concurrent requests for the same account/asset can no longer both
\* read the same free quantity and both approve against it" (the docstring of
\* manual_execution_gate_v1): what is reserved fits in a wallet that does
\* not change.
ReservedWithinWallet == Reserved(approval) <= wallet

\* intake() "is an idempotent insert-and-return" (manual_execution_handoff_v1):
\* no trigger aborts it.
RetryReturns == aborted = {}
=============================================================================
