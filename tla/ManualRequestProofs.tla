------------------------ MODULE ManualRequestProofs ------------------------
(***************************************************************************)
(* Proofs about the manual request pipeline, for any set of processes and  *)
(* requests and any wallets: type correctness, that what is planned is     *)
(* what was reserved, that PLANNED means a stored snapshot, that a request *)
(* is decided once, and that its state tells the truth as long as no two   *)
(* processes worked on it at once; last, that the pipeline implements the  *)
(* promise of ReserveOnce.                                                 *)
(***************************************************************************)
EXTENDS ManualRequest, TLAPS

-----------------------------------------------------------------------------
(* The inductive invariant.                                                *)

\* A process at rest holds no request and remembers nothing.
Resting ==
  \A p \in Processes : pc[p] = "idle" => cur[p] = NoRequest /\ seen[p] = "ABSENT"

\* What has been stored by the time a process reaches a step.
Stored ==
  \A p \in Processes :
    /\ pc[p] \in {"build", "insert"} => approval[cur[p]] # 0
    /\ pc[p] \in {"recover", "planned", "intake"} => plan[cur[p]] # 0

SafeInv == TypeOK /\ Resting /\ Stored /\ PlanIsReserved /\ PlannedHasSnapshot

\* Steps of process() between its reads and its last write.
OpenSteps == {"open", "lock", "decide", "block", "build", "insert", "reject"}
DraftSteps == OpenSteps \cup {"recover", "planned"}

\* Nobody but p works on its request.
Alone(p) == cur[p] \in Requests \ contested

\* What one process at a time may rely on while it works on a request.
AloneLocal ==
  \A p \in Processes : Alone(p) =>
    /\ \A q \in Processes : cur[q] = cur[p] => q = p
    /\ pc[p] = "findSnapshot" => request[cur[p]] = seen[p]
    /\ pc[p] \in DraftSteps => request[cur[p]] = "DRAFT"
    /\ pc[p] \in OpenSteps => plan[cur[p]] = 0
    /\ pc[p] \in {"lock", "decide", "block"} => approval[cur[p]] = 0
    /\ pc[p] = "intake" => request[cur[p]] = "PLANNED"

\* A request nobody has created has left no trace.
Untouched ==
  /\ \A r \in Requests : request[r] = "ABSENT" => approval[r] = 0 /\ plan[r] = 0
  /\ \A p \in Processes : cur[p] \in Requests => request[cur[p]] # "ABSENT"
  /\ \A p \in Processes :
       pc[p] = "findSnapshot" => seen[p] \in Reachable

AloneInv == AloneLocal /\ Untouched /\ AloneIsConsistent

IInv == SafeInv /\ AloneInv

-----------------------------------------------------------------------------
(* Type correctness.                                                       *)

\* What is granted of a free quantity is positive.
LEMMA GrantType ==
  ASSUME NEW r \in Requests, NEW q \in Nat \ {0}
  PROVE  Grant(r, q) \in Nat \ {0}
BY AskedAssumption DEF Grant

LEMMA TypeInit == Init => TypeOK
BY WalletsAssumption, NullAssumption
   DEF Init, TypeOK, RequestStates, Steps, Views, NothingRead

LEMMA TypeStep == TypeOK /\ [Next]_vars => TypeOK'
<1> SUFFICES ASSUME TypeOK, [Next]_vars PROVE TypeOK'
  OBVIOUS
<1> USE DEF TypeOK
<1>1. ASSUME NEW p \in Processes, FindSnapshot(p) \/ Open(p) \/ Build(p)
      PROVE  TypeOK'
  <2>1. cur[p] \in Requests
    BY <1>1 DEF FindSnapshot, Open, Build
  <2>2. CASE FindSnapshot(p) \/ Build(p)
    <3>1. /\ UNCHANGED <<dbVars, wallet, lock, view, history>>
          /\ \/ Return(p)
             \/ \E s \in {"recover", "reject", "open", "insert"} : GoTo(p, s)
      BY <2>2 DEF FindSnapshot, Build
    <3>2. pc[p] \in {"findSnapshot", "build"}
      BY <2>2 DEF FindSnapshot, Build
    <3> QED
      BY <2>1, <3>1, <3>2, NullAssumption
         DEF GoTo, Return, dbVars, history, Steps, RequestStates
  <2>3. CASE Open(p)
    <3>1. [wallet |-> wallet, approval |-> approval] \in Views
      BY WalletsAssumption DEF Views
    <3> QED
      BY <2>1, <2>3, <3>1, NullAssumption DEF Open, GoTo, dbVars, history, Steps
  <2> QED
    BY <1>1, <2>2, <2>3
<1>2. ASSUME NEW p \in Processes, NEW state \in Reachable,
             pc[p] \in {"recover", "block", "planned", "reject"},
             WriteState(p, state)
      PROVE  TypeOK'
  BY <1>2, NullAssumption
     DEF WriteState, Return, history, Steps, Reachable, RequestStates
<1>3. ASSUME NEW p \in Processes, Acquire(p) PROVE TypeOK'
  BY <1>3, NullAssumption DEF Acquire, GoTo, dbVars, history, Steps
<1>4. ASSUME NEW p \in Processes, Decide(p) PROVE TypeOK'
  <2>1. cur[p] \in Requests /\ lock = p /\ view[p].wallet \in Nat
    BY <1>4 DEF Decide, Views
  <2>2. approval' \in [Requests -> Nat]
    BY <1>4, <2>1, GrantType DEF Decide
  <2> QED
    BY <1>4, <2>1, <2>2, NullAssumption
       DEF Decide, GoTo, Return, history, Steps, RequestStates, Views, NothingRead
<1>5. ASSUME NEW p \in Processes, InsertSnapshot(p) PROVE TypeOK'
  BY <1>5, NullAssumption DEF InsertSnapshot, GoTo, Return, Steps, RequestStates
<1>6. ASSUME NEW p \in Processes, IntakeInsert(p) PROVE TypeOK'
  BY <1>6, NullAssumption DEF IntakeInsert, Return, Steps, RequestStates
<1>7. ASSUME NEW p \in Processes, Die(p) PROVE TypeOK'
  BY <1>7, NullAssumption
     DEF Die, Return, dbVars, history, Steps, RequestStates, Views, NothingRead
<1>8. ASSUME NEW p \in Processes, NEW r \in Requests,
             CreateRequest(p, r) \/ IntakeCheck(p, r)
      PROVE  TypeOK'
  BY <1>8, NullAssumption
     DEF CreateRequest, IntakeCheck, Take, dbVars, Steps, RequestStates, Reachable
<1>9. ASSUME NEW r \in Requests, Expire(r) PROVE TypeOK'
  BY <1>9 DEF Expire, history
<1>10. CASE SyncWallet
  BY <1>10 DEF SyncWallet, dbVars, history
<1>11. CASE UNCHANGED vars
  BY <1>11 DEF vars, dbVars, history
<1>12. ASSUME NEW p \in Processes, Step(p) PROVE TypeOK'
  BY <1>12, <1>1, <1>2, <1>3, <1>4, <1>5, <1>6, <1>7
     DEF Step, Recover, Block, MarkPlanned, Reject, Reachable
<1> QED
  BY <1>8, <1>9, <1>10, <1>11, <1>12 DEF Next

\* Every reachable state of the request pipeline is well typed, and exactly
\* the process that decides holds the row lock.
THEOREM TypeCorrect == Spec => []TypeOK
BY TypeInit, TypeStep, PTL DEF Spec

-----------------------------------------------------------------------------
(* Decided once.                                                           *)

\* Only a decision writes an approval, and only the first plan is stored.
LEMMA Permanent ==
  ASSUME TypeOK, [Next]_vars, NEW r \in Requests
  PROVE  /\ approval[r] # 0 => approval'[r] = approval[r]
         /\ plan[r] # 0 => plan'[r] = plan[r]
<1>1. ASSUME NEW p \in Processes, Decide(p) PROVE approval[r] # 0 => approval'[r] = approval[r]
  BY <1>1 DEF Decide, TypeOK
<1>2. ASSUME NEW p \in Processes, InsertSnapshot(p) PROVE plan[r] # 0 => plan'[r] = plan[r]
  BY <1>2 DEF InsertSnapshot, TypeOK
<1>3. ASSUME NEW p \in Processes, Step(p)
      PROVE  \/ UNCHANGED <<approval, plan>>
             \/ Decide(p) /\ UNCHANGED plan
             \/ InsertSnapshot(p) /\ UNCHANGED approval
  BY <1>3 DEF Step, FindSnapshot, Recover, Open, Acquire, Decide, Block, Build,
              InsertSnapshot, MarkPlanned, Reject, IntakeInsert, Die, WriteState, dbVars
<1>4. ASSUME NEW p \in Processes, NEW s \in Requests,
             CreateRequest(p, s) \/ IntakeCheck(p, s)
      PROVE  UNCHANGED <<approval, plan>>
  BY <1>4 DEF CreateRequest, IntakeCheck, dbVars
<1>5. ASSUME NEW s \in Requests, Expire(s) PROVE UNCHANGED <<approval, plan>>
  BY <1>5 DEF Expire
<1>6. SyncWallet \/ UNCHANGED vars => UNCHANGED <<approval, plan>>
  BY DEF SyncWallet, vars, dbVars
<1> QED
  BY <1>1, <1>2, <1>3, <1>4, <1>5, <1>6 DEF Next

\* The quantity approved for a request and the plan made from it never
\* change, however many processes retry the request and whatever the wallet
\* shows them: no retry decides again.
THEOREM NeverDecidedAgain == Spec => DecidedOnce
<1>1. TypeOK /\ [Next]_vars =>
        \A r \in Requests :
          /\ approval[r] # 0 => approval'[r] = approval[r]
          /\ plan[r] # 0 => plan'[r] = plan[r]
  BY Permanent
<1> QED
  BY <1>1, TypeCorrect, PTL DEF Spec, DecidedOnce

-----------------------------------------------------------------------------
(* What is planned was reserved, and what is PLANNED is stored.            *)

LEMMA SafeInit == Init => SafeInv
BY TypeInit, NullAssumption
   DEF Init, SafeInv, Resting, Stored, PlanIsReserved, PlannedHasSnapshot

LEMMA SafeStep == SafeInv /\ [Next]_vars => SafeInv'
<1> SUFFICES ASSUME SafeInv, [Next]_vars PROVE SafeInv'
  OBVIOUS
<1>1. /\ TypeOK /\ TypeOK' /\ Resting /\ Stored /\ PlanIsReserved /\ PlannedHasSnapshot
  BY TypeStep DEF SafeInv
<1>2. \A r \in Requests :
        /\ approval[r] # 0 => approval'[r] = approval[r]
        /\ plan[r] # 0 => plan'[r] = plan[r]
  BY <1>1, Permanent
<1> USE DEF TypeOK, Resting, Stored, PlanIsReserved, PlannedHasSnapshot
<1>3. ASSUME NEW p \in Processes, FindSnapshot(p) \/ Build(p)
      PROVE  SafeInv'
  BY <1>1, <1>2, <1>3 DEF SafeInv, FindSnapshot, Build, GoTo, Return, dbVars
<1>4. ASSUME NEW p \in Processes, Open(p) \/ Acquire(p)
      PROVE  SafeInv'
  BY <1>1, <1>2, <1>4 DEF SafeInv, Open, Acquire, GoTo, dbVars
<1>5. ASSUME NEW p \in Processes, NEW state \in Reachable,
             pc[p] \in {"recover", "block", "planned", "reject"},
             state = "PLANNED" => pc[p] \in {"recover", "planned"},
             WriteState(p, state)
      PROVE  SafeInv'
  BY <1>1, <1>2, <1>5 DEF SafeInv, WriteState, Return
<1>6. ASSUME NEW p \in Processes, Decide(p) PROVE SafeInv'
  <2>1. cur[p] \in Requests
    BY <1>1, <1>6 DEF Decide
  <2>2. \/ GoTo(p, "block") /\ UNCHANGED approval
        \/ Return(p) /\ UNCHANGED approval
        \/ /\ GoTo(p, "build")
           /\ approval'[cur[p]] # 0
           /\ \A r \in Requests \ {cur[p]} : approval'[r] = approval[r]
    BY <1>1, <1>6, <2>1, GrantType DEF Decide, Views
  <2>3. UNCHANGED <<request, plan, handoffs>>
    BY <1>6 DEF Decide
  <2>4. approval[cur[p]] = 0 => plan[cur[p]] = 0
    BY <1>1, <2>1
  <2> QED
    BY <1>1, <1>2, <1>6, <2>1, <2>2, <2>3, <2>4 DEF SafeInv, GoTo, Return, Decide
<1>7. ASSUME NEW p \in Processes, InsertSnapshot(p) PROVE SafeInv'
  BY <1>1, <1>2, <1>7 DEF SafeInv, InsertSnapshot, GoTo, Return
<1>8. ASSUME NEW p \in Processes, IntakeInsert(p) PROVE SafeInv'
  BY <1>1, <1>2, <1>8 DEF SafeInv, IntakeInsert, Return
<1>9. ASSUME NEW p \in Processes, Die(p) PROVE SafeInv'
  BY <1>1, <1>2, <1>9 DEF SafeInv, Die, Return, dbVars
<1>10. ASSUME NEW p \in Processes, NEW r \in Requests,
              CreateRequest(p, r) \/ IntakeCheck(p, r)
       PROVE  SafeInv'
  BY <1>1, <1>2, <1>10 DEF SafeInv, CreateRequest, IntakeCheck, Take, dbVars
<1>11. ASSUME NEW r \in Requests, Expire(r) PROVE SafeInv'
  BY <1>1, <1>11 DEF SafeInv, Expire
<1>12. SyncWallet \/ UNCHANGED vars => SafeInv'
  BY <1>1 DEF SafeInv, SyncWallet, vars, dbVars
<1>13. ASSUME NEW p \in Processes, Step(p) PROVE SafeInv'
  BY <1>13, <1>3, <1>4, <1>5, <1>6, <1>7, <1>8, <1>9
     DEF Step, Recover, Block, MarkPlanned, Reject, Reachable
<1> QED
  BY <1>10, <1>11, <1>12, <1>13 DEF Next

\* Every plan is for the quantity that was approved and reserved for its
\* request, and what the executor takes in is a stored plan.
THEOREM PlansAreReserved == Spec => []PlanIsReserved
<1>1. SafeInv => PlanIsReserved
  BY DEF SafeInv
<1> QED
  BY <1>1, SafeInit, SafeStep, PTL DEF Spec

\* A request is PLANNED only when its snapshot is stored, also in the eyes of
\* a process that read the request before it looks for the snapshot.
THEOREM PlannedIsStored == Spec => []PlannedHasSnapshot
<1>1. SafeInv => PlannedHasSnapshot
  BY DEF SafeInv
<1> QED
  BY <1>1, SafeInit, SafeStep, PTL DEF Spec

-----------------------------------------------------------------------------
(* One process at a time.                                                  *)

LEMMA AloneInit == Init => AloneInv
BY NullAssumption
   DEF Init, AloneInv, AloneLocal, Alone, Untouched, AloneIsConsistent, Reachable,
       DraftSteps, OpenSteps

\* A step that only moves process p on, or ends its call.
LEMMA AloneMove ==
  ASSUME IInv, NEW p \in Processes, pc[p] # "idle",
         UNCHANGED <<request, approval, plan, handoffs, contested>>,
         \/ Return(p)
         \/ \E s \in DraftSteps :
              /\ GoTo(p, s)
              /\ Alone(p) =>
                   /\ request[cur[p]] = "DRAFT"
                   /\ s \in OpenSteps => plan[cur[p]] = 0
                   /\ s \in {"lock", "decide", "block"} => approval[cur[p]] = 0
  PROVE  AloneInv'
<1>1. /\ cur[p] \in Requests
      /\ \A q \in Processes : pc[q] # "idle" => cur[q] \in Requests
      /\ cur \in [Processes -> Requests \cup {NoRequest}]
      /\ pc \in [Processes -> Steps] /\ seen \in [Processes -> RequestStates]
  BY DEF IInv, SafeInv, TypeOK
<1>2. AloneLocal /\ Untouched /\ AloneIsConsistent
  BY DEF IInv, AloneInv
<1>3. CASE Return(p)
  <2>1. AloneLocal'
    BY <1>1, <1>2, <1>3, NullAssumption DEF AloneLocal, Alone, Return, DraftSteps, OpenSteps
  <2>2. Untouched' /\ AloneIsConsistent'
    BY <1>1, <1>2, <1>3, NullAssumption DEF Untouched, AloneIsConsistent, Return
  <2> QED
    BY <2>1, <2>2 DEF AloneInv
<1>4. ASSUME NEW s \in DraftSteps, GoTo(p, s),
             Alone(p) =>
               /\ request[cur[p]] = "DRAFT"
               /\ s \in OpenSteps => plan[cur[p]] = 0
               /\ s \in {"lock", "decide", "block"} => approval[cur[p]] = 0
      PROVE  AloneInv'
  <2>1. s \notin {"findSnapshot", "intake", "idle"}
    BY DEF DraftSteps, OpenSteps
  <2>2. AloneLocal'
    BY <1>1, <1>2, <1>4, <2>1 DEF AloneLocal, Alone, GoTo
  <2>3. Untouched' /\ AloneIsConsistent'
    BY <1>1, <1>2, <1>4, <2>1 DEF Untouched, AloneIsConsistent, GoTo
  <2> QED
    BY <2>2, <2>3 DEF AloneInv
<1> QED
  BY <1>3, <1>4

\* The last write of a call.
LEMMA AloneWrite ==
  ASSUME IInv, NEW p \in Processes, NEW state \in Reachable,
         pc[p] \in {"recover", "block", "planned", "reject"},
         state = "PLANNED" <=> pc[p] \in {"recover", "planned"},
         state = "GATE_BLOCKED" <=> pc[p] = "block",
         WriteState(p, state)
  PROVE  /\ AloneInv'
         /\ \A r \in Requests \ contested :
              request[r] \notin {"ABSENT", "DRAFT"} => request'[r] = request[r]
<1>1. /\ cur[p] \in Requests
      /\ \A q \in Processes : pc[q] # "idle" => cur[q] \in Requests
      /\ cur \in [Processes -> Requests \cup {NoRequest}]
      /\ request \in [Requests -> RequestStates]
      /\ pc \in [Processes -> Steps] /\ seen \in [Processes -> RequestStates]
  BY DEF IInv, SafeInv, TypeOK
<1>2. AloneLocal /\ Untouched /\ AloneIsConsistent /\ Stored /\ Resting
  BY DEF IInv, AloneInv, SafeInv
<1>3. /\ request' = [request EXCEPT ![cur[p]] = state]
      /\ Return(p)
      /\ UNCHANGED <<approval, plan, handoffs, contested>>
  BY DEF WriteState, history
<1>4. Alone(p) =>
        /\ request[cur[p]] = "DRAFT"
        /\ pc[p] \in {"block", "reject"} => plan[cur[p]] = 0
        /\ pc[p] = "block" => approval[cur[p]] = 0
        /\ \A q \in Processes : cur[q] = cur[p] => q = p
  BY <1>2 DEF AloneLocal, DraftSteps, OpenSteps
<1>5. state # "ABSENT" /\ state \in {"PLANNED", "GATE_BLOCKED", "PLAN_REJECTED", "DRAFT"}
  BY DEF Reachable
<1>6. AloneLocal'
  <2> SUFFICES ASSUME NEW q \in Processes, Alone(q)'
               PROVE  /\ \A o \in Processes : cur'[o] = cur'[q] => o = q
                      /\ pc'[q] = "findSnapshot" => request'[cur'[q]] = seen'[q]
                      /\ pc'[q] \in DraftSteps => request'[cur'[q]] = "DRAFT"
                      /\ pc'[q] \in OpenSteps => plan'[cur'[q]] = 0
                      /\ pc'[q] \in {"lock", "decide", "block"} => approval'[cur'[q]] = 0
                      /\ pc'[q] = "intake" => request'[cur'[q]] = "PLANNED"
    BY DEF AloneLocal
  <2>1. q # p /\ cur'[q] = cur[q] /\ pc'[q] = pc[q] /\ seen'[q] = seen[q]
    BY <1>1, <1>3, NullAssumption DEF Alone, Return
  <2>2. Alone(q) /\ cur[q] # cur[p]
    BY <1>1, <1>2, <1>3, <2>1 DEF Alone, AloneLocal
  <2>3. request'[cur'[q]] = request[cur[q]]
    BY <1>1, <1>3, <2>1, <2>2 DEF Alone
  <2>4. \A o \in Processes : cur'[o] = cur'[q] => cur[o] = cur[q]
    BY <1>1, <1>3, <2>1, <2>2, NullAssumption DEF Return, Alone
  <2> QED
    BY <1>2, <1>3, <2>1, <2>2, <2>3, <2>4 DEF AloneLocal
<1>7. Untouched'
  BY <1>1, <1>2, <1>3, <1>5, NullAssumption DEF Untouched, Return
<1>8. /\ AloneIsConsistent'
      /\ \A r \in Requests \ contested :
           request[r] \notin {"ABSENT", "DRAFT"} => request'[r] = request[r]
  BY <1>1, <1>2, <1>3, <1>4, <1>5 DEF AloneIsConsistent, Alone
<1> QED
  BY <1>6, <1>7, <1>8 DEF AloneInv

\* The decision is committed or refused.
LEMMA AloneDecide ==
  ASSUME IInv, NEW p \in Processes, Decide(p)
  PROVE  AloneInv'
<1>1. /\ cur[p] \in Requests /\ pc[p] = "decide"
      /\ \A q \in Processes : pc[q] # "idle" => cur[q] \in Requests
      /\ cur \in [Processes -> Requests \cup {NoRequest}]
      /\ approval \in [Requests -> Nat]
      /\ pc \in [Processes -> Steps] /\ seen \in [Processes -> RequestStates]
      /\ view[p].wallet \in Nat
  BY DEF IInv, SafeInv, TypeOK, Decide, Views
<1>2. AloneLocal /\ Untouched /\ AloneIsConsistent
  BY DEF IInv, AloneInv
<1>3. UNCHANGED <<request, plan, handoffs, contested>>
  BY DEF Decide, history
<1>4. Alone(p) => /\ request[cur[p]] = "DRAFT" /\ plan[cur[p]] = 0 /\ approval[cur[p]] = 0
                  /\ \A q \in Processes : cur[q] = cur[p] => q = p
  BY <1>1, <1>2 DEF AloneLocal, DraftSteps, OpenSteps
<1>5. CASE (GoTo(p, "block") \/ Return(p)) /\ UNCHANGED approval
  BY <1>1, <1>3, <1>4, <1>5, AloneMove DEF DraftSteps, OpenSteps
<1>6. CASE /\ GoTo(p, "build")
           /\ \E q \in 1..view[p].wallet : approval' = [approval EXCEPT ![cur[p]] = Grant(cur[p], q)]
  <2>1. \A r \in Requests \ {cur[p]} : approval'[r] = approval[r]
    BY <1>1, <1>6
  <2>2. request[cur[p]] # "ABSENT"
    BY <1>1, <1>2 DEF Untouched
  <2>3. AloneLocal'
    BY <1>1, <1>2, <1>3, <1>4, <1>6, <2>1 DEF AloneLocal, Alone, GoTo, DraftSteps, OpenSteps
  <2>4. Untouched'
    BY <1>1, <1>2, <1>3, <1>6, <2>1, <2>2 DEF Untouched, GoTo
  <2>5. AloneIsConsistent'
    BY <1>1, <1>2, <1>3, <1>4, <2>1 DEF AloneIsConsistent, Alone
  <2> QED
    BY <2>3, <2>4, <2>5 DEF AloneInv
<1> QED
  BY <1>5, <1>6 DEF Decide

\* The snapshot is stored, or the trigger refuses to store another one.
LEMMA AloneInsert ==
  ASSUME IInv, NEW p \in Processes, InsertSnapshot(p)
  PROVE  AloneInv'
<1>1. /\ cur[p] \in Requests /\ pc[p] = "insert"
      /\ \A q \in Processes : pc[q] # "idle" => cur[q] \in Requests
      /\ cur \in [Processes -> Requests \cup {NoRequest}]
      /\ plan \in [Requests -> Nat]
      /\ pc \in [Processes -> Steps]
  BY DEF IInv, SafeInv, TypeOK, InsertSnapshot
<1>2. AloneLocal /\ Untouched /\ AloneIsConsistent
  BY DEF IInv, AloneInv
<1>3. UNCHANGED <<request, approval, handoffs, contested>>
  BY DEF InsertSnapshot
<1>4. Alone(p) => /\ request[cur[p]] = "DRAFT"
                  /\ \A q \in Processes : cur[q] = cur[p] => q = p
  BY <1>1, <1>2 DEF AloneLocal, DraftSteps, OpenSteps
<1>5. CASE Return(p) /\ UNCHANGED plan
  BY <1>1, <1>3, <1>5, AloneMove
<1>6. CASE GoTo(p, "planned") /\ plan' = [plan EXCEPT ![cur[p]] = approval[cur[p]]]
  <2>1. \A r \in Requests \ {cur[p]} : plan'[r] = plan[r]
    BY <1>1, <1>6
  <2>2. request[cur[p]] # "ABSENT"
    BY <1>1, <1>2 DEF Untouched
  <2>3. AloneLocal'
    BY <1>1, <1>2, <1>3, <1>4, <1>6, <2>1 DEF AloneLocal, Alone, GoTo, DraftSteps, OpenSteps
  <2>4. Untouched'
    BY <1>1, <1>2, <1>3, <1>6, <2>1, <2>2 DEF Untouched, GoTo
  <2>5. AloneIsConsistent'
    BY <1>1, <1>2, <1>3, <1>4, <2>1 DEF AloneIsConsistent, Alone
  <2> QED
    BY <2>3, <2>4, <2>5 DEF AloneInv
<1> QED
  BY <1>5, <1>6 DEF InsertSnapshot

\* A process takes up a request, which is contested if another has it.
LEMMA AloneTake ==
  ASSUME IInv, NEW p \in Processes, NEW r \in Requests,
         CreateRequest(p, r) \/ IntakeCheck(p, r)
  PROVE  /\ AloneInv'
         /\ \A s \in Requests \ contested' :
              request[s] \notin {"ABSENT", "DRAFT"} => request'[s] = request[s]
<1>1. /\ pc[p] = "idle" /\ cur[p] = NoRequest
      /\ \A q \in Processes : pc[q] # "idle" => cur[q] \in Requests
      /\ cur \in [Processes -> Requests \cup {NoRequest}]
      /\ request \in [Requests -> RequestStates]
      /\ pc \in [Processes -> Steps] /\ seen \in [Processes -> RequestStates]
  BY DEF IInv, SafeInv, TypeOK, Resting, CreateRequest, IntakeCheck, Take
<1>2. AloneLocal /\ Untouched /\ AloneIsConsistent
  BY DEF IInv, AloneInv
<1>3. /\ cur' = [cur EXCEPT ![p] = r]
      /\ contested \subseteq contested'
      /\ r \notin contested' => \A q \in Processes : cur[q] # r
      /\ UNCHANGED <<approval, plan, handoffs>>
  BY DEF CreateRequest, IntakeCheck, Take, dbVars
<1>4. /\ request' = [request EXCEPT ![r] = IF @ = "ABSENT" THEN "DRAFT" ELSE @]
      /\ request'[r] # "ABSENT"
  BY <1>1 DEF CreateRequest, IntakeCheck, dbVars
<1>5. \A s \in Requests : request'[s] = IF s = r /\ request[r] = "ABSENT" THEN "DRAFT" ELSE request[s]
  BY <1>1, <1>4
<1>6. \A q \in Processes \ {p} : pc'[q] = pc[q] /\ seen'[q] = seen[q] /\ cur'[q] = cur[q]
  BY <1>1, <1>3 DEF CreateRequest, IntakeCheck
<1>7. /\ cur'[p] = r
      /\ \/ pc'[p] = "findSnapshot" /\ seen'[p] = request'[r]
         \/ pc'[p] = "intake" /\ request'[r] = "PLANNED"
  BY <1>1, <1>3, <1>4 DEF CreateRequest, IntakeCheck, dbVars
<1>8. AloneLocal'
  <2> SUFFICES ASSUME NEW q \in Processes, Alone(q)'
               PROVE  /\ \A o \in Processes : cur'[o] = cur'[q] => o = q
                      /\ pc'[q] = "findSnapshot" => request'[cur'[q]] = seen'[q]
                      /\ pc'[q] \in DraftSteps => request'[cur'[q]] = "DRAFT"
                      /\ pc'[q] \in OpenSteps => plan'[cur'[q]] = 0
                      /\ pc'[q] \in {"lock", "decide", "block"} => approval'[cur'[q]] = 0
                      /\ pc'[q] = "intake" => request'[cur'[q]] = "PLANNED"
    BY DEF AloneLocal
  <2>1. CASE q = p
    <3>1. \A o \in Processes : cur[o] # r
      BY <1>3, <1>7, <2>1 DEF Alone
    <3> QED
      BY <1>6, <1>7, <2>1, <3>1 DEF DraftSteps, OpenSteps
  <2>2. CASE q # p
    <3>1. Alone(q)
      BY <1>3, <1>6, <2>2 DEF Alone
    <3>2. cur[q] # r
      BY <1>3, <1>6, <2>2 DEF Alone
    <3>3. request'[cur'[q]] = request[cur[q]]
      BY <1>5, <1>6, <2>2, <3>1, <3>2 DEF Alone
    <3>4. \A o \in Processes : cur'[o] = cur'[q] => o = q
      BY <1>2, <1>6, <1>7, <2>2, <3>1, <3>2 DEF AloneLocal
    <3> QED
      BY <1>2, <1>3, <1>6, <2>2, <3>1, <3>3, <3>4 DEF AloneLocal
  <2> QED
    BY <2>1, <2>2
<1>9. Untouched'
  <2>1. request'[r] \in Reachable
    BY <1>1, <1>4 DEF RequestStates, Reachable
  <2> QED
    BY <1>2, <1>3, <1>4, <1>5, <1>6, <1>7, <2>1 DEF Untouched
<1>10. AloneIsConsistent'
  BY <1>2, <1>3, <1>5 DEF AloneIsConsistent, Untouched
<1> QED
  BY <1>5, <1>8, <1>9, <1>10 DEF AloneInv

\* Every step keeps the invariant, and moves no settled request that one
\* process at a time works on.
LEMMA AloneStep ==
  ASSUME IInv, [Next]_vars
  PROVE  /\ AloneInv'
         /\ \A r \in Requests \ contested' :
              request[r] \notin {"ABSENT", "DRAFT"} => request'[r] = request[r]
<1> DEFINE Hop == \A r \in Requests \ contested' :
                    request[r] \notin {"ABSENT", "DRAFT"} => request'[r] = request[r]
<1>1. AloneLocal /\ Untouched /\ AloneIsConsistent /\ Resting
  BY DEF IInv, AloneInv, SafeInv
<1>2. \A q \in Processes : pc[q] # "idle" => cur[q] \in Requests
  BY DEF IInv, SafeInv, TypeOK
<1>3. ASSUME NEW p \in Processes, Step(p) PROVE AloneInv' /\ Hop
  <2>1. ASSUME pc[p] # "idle", UNCHANGED <<request, approval, plan, handoffs, contested>>, Return(p)
        PROVE  AloneInv' /\ Hop
    BY <2>1, AloneMove
  <2>2. CASE FindSnapshot(p)
    <3>1. /\ UNCHANGED <<request, approval, plan, handoffs, contested>>
          /\ pc[p] = "findSnapshot"
          /\ \/ Return(p)
             \/ /\ seen[p] = "DRAFT"
                /\ \/ GoTo(p, "recover")
                   \/ plan[cur[p]] = 0 /\ \E s \in {"reject", "open"} : GoTo(p, s)
      BY <2>2 DEF FindSnapshot, dbVars, history
    <3>2. Alone(p) => request[cur[p]] = seen[p]
      BY <1>1, <3>1 DEF AloneLocal
    <3> QED
      BY <3>1, <3>2, AloneMove DEF DraftSteps, OpenSteps
  <2>3. CASE Open(p) \/ Acquire(p) \/ Build(p)
    <3>1. /\ UNCHANGED <<request, approval, plan, handoffs, contested>>
          /\ pc[p] \in {"open", "lock", "build"}
          /\ \/ pc[p] \in {"open", "build"} /\ \E s \in {"build", "insert", "reject"} : GoTo(p, s)
             \/ approval[cur[p]] = 0 /\ GoTo(p, "lock")
             \/ pc[p] = "lock" /\ GoTo(p, "decide")
      BY <2>3 DEF Open, Acquire, Build, dbVars, history
    <3>2. Alone(p) => /\ request[cur[p]] = "DRAFT" /\ plan[cur[p]] = 0
                      /\ pc[p] = "lock" => approval[cur[p]] = 0
      BY <1>1, <3>1 DEF AloneLocal, DraftSteps, OpenSteps
    <3> QED
      BY <3>1, <3>2, AloneMove DEF DraftSteps, OpenSteps
  <2>4. CASE Decide(p)
    BY <2>4, AloneDecide DEF Decide
  <2>5. CASE InsertSnapshot(p)
    BY <2>5, AloneInsert DEF InsertSnapshot
  <2>6. CASE Recover(p) \/ Block(p) \/ MarkPlanned(p) \/ Reject(p)
    <3>1. PICK state \in Reachable :
            /\ pc[p] \in {"recover", "block", "planned", "reject"}
            /\ state = "PLANNED" <=> pc[p] \in {"recover", "planned"}
            /\ state = "GATE_BLOCKED" <=> pc[p] = "block"
            /\ WriteState(p, state)
      BY <2>6 DEF Recover, Block, MarkPlanned, Reject, Reachable
    <3>2. contested' = contested
      BY <3>1 DEF WriteState, history
    <3> QED
      BY <3>1, <3>2, AloneWrite
  <2>7. CASE IntakeInsert(p)
    <3>1. /\ handoffs' = handoffs \cup {cur[p]} /\ cur[p] \in Requests /\ pc[p] = "intake"
          /\ UNCHANGED <<request, approval, plan, contested>> /\ Return(p)
          /\ cur \in [Processes -> Requests \cup {NoRequest}]
          /\ pc \in [Processes -> Steps] /\ seen \in [Processes -> RequestStates]
      BY <1>2, <2>7 DEF IntakeInsert, IInv, SafeInv, TypeOK
    <3>2. Alone(p) => request[cur[p]] = "PLANNED"
      BY <1>1, <3>1 DEF AloneLocal
    <3>3. AloneLocal'
      BY <1>1, <1>2, <3>1, NullAssumption DEF AloneLocal, Alone, Return, DraftSteps, OpenSteps
    <3>4. Untouched'
      BY <1>1, <3>1, NullAssumption DEF Untouched, Return
    <3>5. AloneIsConsistent'
      BY <1>1, <3>1, <3>2 DEF AloneIsConsistent, Alone
    <3> QED
      BY <3>1, <3>3, <3>4, <3>5 DEF AloneInv
  <2>8. CASE Die(p)
    BY <2>1, <2>8 DEF Die, dbVars, history
  <2> QED
    BY <1>3, <2>2, <2>3, <2>4, <2>5, <2>6, <2>7, <2>8 DEF Step
<1>4. ASSUME NEW p \in Processes, NEW r \in Requests,
             CreateRequest(p, r) \/ IntakeCheck(p, r)
      PROVE  AloneInv' /\ Hop
  BY <1>4, AloneTake
<1>5. (\E r \in Requests : Expire(r)) \/ SyncWallet \/ UNCHANGED vars => AloneInv' /\ Hop
  <2>1. (\E r \in Requests : Expire(r)) \/ SyncWallet \/ UNCHANGED vars =>
          UNCHANGED <<request, approval, plan, handoffs, pc, cur, seen, contested>>
    BY DEF Expire, SyncWallet, vars, dbVars, history
  <2> QED
    BY <1>1, <2>1 DEF AloneInv, AloneLocal, Alone, Untouched, AloneIsConsistent
<1> QED
  BY <1>3, <1>4, <1>5 DEF Next

\* The whole invariant.
LEMMA Invariance == Spec => []IInv
<1>1. Init => IInv
  BY SafeInit, AloneInit DEF IInv
<1>2. IInv /\ [Next]_vars => IInv'
  BY SafeStep, AloneStep DEF IInv
<1> QED
  BY <1>1, <1>2, PTL DEF Spec

\* Of a request that no two processes worked on at once, the state tells the
\* truth across every crash and retry: blocked means nothing reserved, and a
\* stored snapshot or handoff is never contradicted.
THEOREM OutcomeIsTold == Spec => []AloneIsConsistent
<1>1. IInv => AloneIsConsistent
  BY DEF IInv, AloneInv
<1> QED
  BY <1>1, Invariance, PTL

\* The state of such a request leaves DRAFT once and for all, although the
\* UPDATE that writes it has no condition on the state it overwrites.
THEOREM SettledOnce == Spec => AloneIsSingleHop
<1>1. IInv /\ [Next]_vars =>
        \A r \in Requests \ contested' :
          request[r] \notin {"ABSENT", "DRAFT"} => request'[r] = request[r]
  BY AloneStep
<1> QED
  BY <1>1, Invariance, PTL DEF Spec, AloneIsSingleHop

-----------------------------------------------------------------------------
(* The abstract promise.                                                   *)

\* What a caller decides on is a quantity that the wallet had, or nothing.
ViewsAreWallets == \A p \in Processes : view[p].wallet \in Wallets \cup {0}

LEMMA ViewInit == Init => ViewsAreWallets
  BY DEF Init, ViewsAreWallets, NothingRead

LEMMA ViewStep ==
  ASSUME TypeOK, ViewsAreWallets, [Next]_vars
  PROVE  ViewsAreWallets'
<1> USE DEF TypeOK, ViewsAreWallets
<1>1. ASSUME NEW p \in Processes, Open(p) PROVE ViewsAreWallets'
  BY <1>1 DEF Open
<1>2. ASSUME NEW p \in Processes, Decide(p) \/ Die(p) PROVE ViewsAreWallets'
  BY <1>2 DEF Decide, Die, NothingRead
<1>3. ASSUME NEW p \in Processes, Step(p), ~Open(p), ~Decide(p), ~Die(p) PROVE view' = view
  BY <1>3 DEF Step, FindSnapshot, Recover, Acquire, Block, Build, InsertSnapshot,
              MarkPlanned, Reject, IntakeInsert, WriteState
<1>4. ASSUME NEW p \in Processes, NEW r \in Requests, CreateRequest(p, r) \/ IntakeCheck(p, r)
      PROVE  view' = view
  BY <1>4 DEF CreateRequest, IntakeCheck
<1>5. (\E r \in Requests : Expire(r)) \/ SyncWallet \/ UNCHANGED vars => view' = view
  BY DEF Expire, SyncWallet, vars
<1> QED
  BY <1>1, <1>2, <1>3, <1>4, <1>5 DEF Next

\* What is granted of a free quantity is within it and within what was asked.
LEMMA GrantFits ==
  ASSUME NEW r \in Requests, NEW w \in Nat, NEW q \in 1..w
  PROVE  Grant(r, q) \in 1..w /\ (Asked[r] = 0 \/ Grant(r, q) <= Asked[r])
BY AskedAssumption DEF Grant

LEMMA PromiseInit == Init => Promise!Init
  BY DEF Init, Promise!Init

LEMMA DecideReserves ==
  ASSUME IInv, ViewsAreWallets, NEW p \in Processes, Decide(p)
  PROVE  [Promise!Next]_(Promise!vars)
<1>1. PICK r \in Requests : r = cur[p]
  BY DEF Decide, IInv, SafeInv, TypeOK
<1>2. request[r] # "ABSENT" /\ UNCHANGED <<request, plan, handoffs>>
  BY <1>1 DEF Decide, IInv, AloneInv, Untouched
<1>3. CASE approval' = approval
  BY <1>2, <1>3 DEF Promise!vars
<1>4. ASSUME NEW q \in 1..view[p].wallet, approval[r] = 0,
             approval' = [approval EXCEPT ![r] = Grant(r, q)]
      PROVE  Promise!Next
  <2>1. view[p].wallet \in Wallets /\ view[p].wallet \in Nat
    <3>1. view[p].wallet \in Nat
      BY DEF IInv, SafeInv, TypeOK, Views
    <3>2. view[p].wallet # 0
      BY <1>4, <3>1
    <3> QED
      BY <3>1, <3>2 DEF ViewsAreWallets
  <2>2. Grant(r, q) \in 1..view[p].wallet /\ (Asked[r] = 0 \/ Grant(r, q) <= Asked[r])
    BY <1>4, <2>1, GrantFits
  <2>3. Promise!Reserve(r)
    BY <1>2, <1>4, <2>1, <2>2 DEF Promise!Reserve
  <2> QED
    BY <2>3 DEF Promise!Next
<1> QED
  BY <1>1, <1>3, <1>4 DEF Decide

LEMMA PromiseStep ==
  ASSUME IInv, ViewsAreWallets, [Next]_vars
  PROVE  [Promise!Next]_(Promise!vars)
<1>1. TypeOK /\ Stored /\ Untouched
  BY DEF IInv, SafeInv, AloneInv
<1>2. ASSUME NEW p \in Processes, Recover(p) \/ Block(p) \/ MarkPlanned(p) \/ Reject(p)
      PROVE  [Promise!Next]_(Promise!vars)
  <2>1. PICK s \in {"GATE_BLOCKED", "PLANNED", "PLAN_REJECTED"} :
          /\ WriteState(p, s)
          /\ s = "PLANNED" => pc[p] \in {"recover", "planned"}
          /\ pc[p] # "idle"
    BY <1>2 DEF Recover, Block, MarkPlanned, Reject
  <2>2. PICK r \in Requests : r = cur[p]
    BY <1>1, <2>1 DEF TypeOK
  <2>3. request[r] # "ABSENT" /\ (s = "PLANNED" => plan[r] # 0)
    BY <1>1, <2>1, <2>2 DEF Untouched, Stored
  <2>4. Promise!Tell(r, s)
    BY <2>1, <2>2, <2>3 DEF WriteState, Promise!Tell
  <2> QED
    BY <2>4 DEF Promise!Next
<1>3. ASSUME NEW p \in Processes, InsertSnapshot(p) PROVE [Promise!Next]_(Promise!vars)
  <2>1. PICK r \in Requests : r = cur[p]
    BY <1>1, <1>3 DEF InsertSnapshot, TypeOK
  <2>2. approval[r] # 0 /\ UNCHANGED <<request, approval, handoffs>>
    BY <1>1, <1>3, <2>1 DEF InsertSnapshot, Stored
  <2>3. CASE plan' = plan
    BY <2>2, <2>3 DEF Promise!vars
  <2>4. CASE plan[r] = 0 /\ plan' = [plan EXCEPT ![r] = approval[r]]
    <3>1. Promise!Store(r)
      BY <2>2, <2>4 DEF Promise!Store
    <3> QED
      BY <3>1 DEF Promise!Next
  <2> QED
    BY <1>3, <2>1, <2>3, <2>4 DEF InsertSnapshot
<1>4. ASSUME NEW p \in Processes, IntakeInsert(p) PROVE [Promise!Next]_(Promise!vars)
  <2>1. PICK r \in Requests : r = cur[p]
    BY <1>1, <1>4 DEF IntakeInsert, TypeOK
  <2>2. /\ plan[r] # 0 /\ handoffs' = handoffs \cup {r}
        /\ UNCHANGED <<request, approval, plan>>
    BY <1>1, <1>4, <2>1 DEF IntakeInsert, Stored
  <2>3. CASE r \in handoffs
    <3>1. handoffs' = handoffs
      BY <2>2, <2>3
    <3> QED
      BY <2>2, <3>1 DEF Promise!vars
  <2>4. CASE r \notin handoffs
    <3>1. Promise!TakeIn(r)
      BY <2>2, <2>4 DEF Promise!TakeIn
    <3> QED
      BY <3>1 DEF Promise!Next
  <2> QED
    BY <2>3, <2>4
<1>5. ASSUME NEW p \in Processes, NEW r \in Requests, CreateRequest(p, r)
      PROVE  [Promise!Next]_(Promise!vars)
  <2>1. UNCHANGED <<approval, plan, handoffs>>
    BY <1>5 DEF CreateRequest
  <2>2. CASE request[r] = "ABSENT"
    <3>1. Promise!Ask(r)
      BY <1>5, <2>1, <2>2 DEF CreateRequest, Promise!Ask
    <3> QED
      BY <3>1 DEF Promise!Next
  <2>3. CASE request[r] # "ABSENT"
    <3>1. request' = request
      BY <1>1, <1>5, <2>3 DEF CreateRequest, TypeOK
    <3> QED
      BY <2>1, <3>1 DEF Promise!vars
  <2> QED
    BY <2>2, <2>3
<1>6. ASSUME \/ \E p \in Processes :
                  \/ FindSnapshot(p) \/ Open(p) \/ Acquire(p) \/ Build(p) \/ Die(p)
                  \/ \E r \in Requests : IntakeCheck(p, r)
             \/ \E r \in Requests : Expire(r)
             \/ SyncWallet
             \/ UNCHANGED vars
      PROVE  UNCHANGED Promise!vars
  BY <1>6 DEF FindSnapshot, Open, Acquire, Build, Die, IntakeCheck, Expire, SyncWallet,
              vars, dbVars, Promise!vars
<1> QED
  BY <1>2, <1>3, <1>4, <1>5, <1>6, DecideReserves DEF Next, Step

\* Every behaviour of the pipeline is one of the abstract promise: a request
\* is reserved once, planned once for that quantity, and announced and taken
\* in only with its plan stored.
THEOREM ReservedAndPlannedOnce == Spec => ImplementsReserveOnce
<1>1. TypeOK /\ ViewsAreWallets /\ [Next]_vars => ViewsAreWallets'
  BY ViewStep
<1>2. IInv => TypeOK
  BY DEF IInv, SafeInv
<1>3. Spec => []ViewsAreWallets
  BY <1>1, <1>2, ViewInit, Invariance, PTL DEF Spec
<1>4. IInv /\ ViewsAreWallets /\ [Next]_vars => [Promise!Next]_(Promise!vars)
  BY PromiseStep
<1> QED
  BY <1>3, <1>4, Invariance, PromiseInit, PTL DEF Spec, ImplementsReserveOnce, Promise!Spec
=============================================================================
