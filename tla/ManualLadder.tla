---------------------------- MODULE ManualLadder ----------------------------
(***************************************************************************)
(* The manual SELL ladder: an operator starts the submission of one        *)
(* persisted plan, possibly several times and in several processes, and    *)
(* each process submits the legs to Bitvavo in order, reconciles a leg in  *)
(* doubt by its clientOrderId and, when the broker knows no such order,    *)
(* resets the leg and submits it again (src/executor/manual_execution_     *)
(* submission_orchestrator_v1.py, manual_execution_submission_leg_v1.py,   *)
(* manual_execution_bitvavo_order_adapter_v1.py,                           *)
(* manual_execution_live_submission_v1.py and                              *)
(* run_manual_execution_submission_v1.py).                                 *)
(*                                                                         *)
(* Handoffs share no leg rows, so one handoff is modelled.  Each database  *)
(* transaction is one action; a POST leaves, arrives and is answered in    *)
(* separate steps, and outlives the process that sent it.                  *)
(***************************************************************************)
EXTENDS Naturals, FiniteSets

CONSTANTS
  Processes,  \* concurrent invocations of run_manual_execution_submission
  NumLegs,    \* legs of the plan, attempted in the order 1..NumLegs
  MaxResets,  \* bound: resets of one leg
  MaxPosts    \* bound: POSTs of one leg

Legs == 1..NumLegs
Posts == Legs \X (1..MaxPosts)

\* SUBMITTED is the only accepted state this code writes, REJECTED the only
\* terminal failure.
LegStates == {"ABSENT", "PREPARED", "SUBMISSION_UNCERTAIN", "SUBMITTED", "REJECTED"}
Outcomes == {"SUBMITTED", "REJECTED"}

ASSUME ProcessesAssumption == IsFiniteSet(Processes)
ASSUME BoundsAssumption ==
  /\ NumLegs \in Nat \ {0}
  /\ MaxResets \in Nat
  /\ MaxPosts \in Nat \ {0}

VARIABLES
  granted,  \* a manual_execution_live_authority row exists for the handoff
  leg,      \* manual_execution_submission_leg.submission_state, per leg
  resets,   \* times a leg went back to PREPARED
  pc,       \* the next step of each process
  ix,       \* the leg index a process is working on
  obs,      \* the outcome a process is about to persist
  want,     \* the re-read states its last write accepts
  mine,     \* the number of the POST a process is waiting for
  report,   \* what submit_manual_sell_ladder last returned
  fate,     \* what became of the n-th POST of a leg
  order     \* the broker's order for the leg's clientOrderId

dbVars == <<granted, leg, resets>>
processVars == <<pc, ix, obs, want, mine, report>>
brokerVars == <<fate, order>>
vars == <<dbVars, processVars, brokerVars>>

Steps == {"idle", "leg", "begin", "send", "await", "resolve", "lookup",
          "reset", "reread"}
Fates == {"none", "sent", "created", "refused", "lost"}

\* Every variable has its type.
TypeOK ==
  /\ granted \in BOOLEAN
  /\ leg \in [Legs -> LegStates]
  /\ resets \in [Legs -> Nat]
  /\ pc \in [Processes -> Steps]
  /\ ix \in [Processes -> Legs]
  /\ obs \in [Processes -> Outcomes]
  /\ want \in [Processes -> SUBSET LegStates]
  /\ mine \in [Processes -> 0..MaxPosts]
  /\ report \in [Processes -> {"none", "stopped", "accepted"}]
  /\ fate \in [Posts -> Fates]
  /\ order \in [Legs -> {"ABSENT", "OPEN", "GONE"}]

Init ==
  /\ granted = FALSE
  /\ leg = [l \in Legs |-> "ABSENT"]
  /\ resets = [l \in Legs |-> 0]
  /\ pc = [p \in Processes |-> "idle"]
  /\ ix = [p \in Processes |-> 1]
  /\ obs = [p \in Processes |-> "SUBMITTED"]
  /\ want = [p \in Processes |-> {}]
  /\ mine = [p \in Processes |-> 0]
  /\ report = [p \in Processes |-> "none"]
  /\ fate = [m \in Posts |-> "none"]
  /\ order = [l \in Legs |-> "ABSENT"]

NumPosts(l) == Cardinality({n \in 1..MaxPosts : fate[<<l, n>>] # "none"})

-----------------------------------------------------------------------------
(* How a process moves on.                                                 *)

GoTo(p, step) ==
  /\ pc' = [pc EXCEPT ![p] = step]
  /\ UNCHANGED <<ix, obs, want, mine, report>>

\* Persist outcome s next.
GoResolve(p, s) ==
  /\ pc' = [pc EXCEPT ![p] = "resolve"]
  /\ obs' = [obs EXCEPT ![p] = s]
  /\ mine' = [mine EXCEPT ![p] = 0]
  /\ UNCHANGED <<ix, want, report>>

\* find_by_id, which must then show one of the states ok.
GoReread(p, ok) ==
  /\ pc' = [pc EXCEPT ![p] = "reread"]
  /\ want' = [want EXCEPT ![p] = ok]
  /\ mine' = [mine EXCEPT ![p] = 0]
  /\ UNCHANGED <<ix, obs, report>>

\* The process ends: it returned result r, raised an exception or was killed.
Leave(p, r) ==
  /\ pc' = [pc EXCEPT ![p] = "idle"]
  /\ ix' = [ix EXCEPT ![p] = 1]
  /\ obs' = [obs EXCEPT ![p] = "SUBMITTED"]
  /\ want' = [want EXCEPT ![p] = {}]
  /\ mine' = [mine EXCEPT ![p] = 0]
  /\ report' = [report EXCEPT ![p] = r]

NextLeg(p) ==
  /\ pc' = [pc EXCEPT ![p] = "leg"]
  /\ ix' = [ix EXCEPT ![p] = @ + 1]
  /\ UNCHANGED <<obs, want, mine, report>>

\* Mutant: only a rejected leg stops the ladder.
AdvanceUnlessRejected(p, s) ==
  \/ s # "REJECTED" /\ ix[p] < NumLegs /\ NextLeg(p)
  \/ s # "REJECTED" /\ ix[p] = NumLegs /\ Leave(p, "accepted")
  \/ s = "REJECTED" /\ Leave(p, "stopped")

\* Mutant: the loop runs one leg too far.
AdvancePastEnd(p, s) ==
  \/ s = "SUBMITTED" /\ ix[p] <= NumLegs /\ NextLeg(p)
  \/ s # "SUBMITTED" /\ Leave(p, "stopped")

\* The loop over the legs: only an accepted one leads to the next.
Advance(p, s) ==
  \/ s = "SUBMITTED" /\ ix[p] < NumLegs /\ NextLeg(p)
  \/ s = "SUBMITTED" /\ ix[p] = NumLegs /\ Leave(p, "accepted")
  \/ s # "SUBMITTED" /\ Leave(p, "stopped")

-----------------------------------------------------------------------------
(* The operator's invocations and the steps of a process.                  *)

\* --grant-live-authority, an invocation of its own.
Grant ==
  /\ ~granted
  /\ granted' = TRUE
  /\ UNCHANGED <<leg, resets, processVars, brokerVars>>

\* --mode live with the confirmation and the activation variable given.
Start(p) ==
  /\ pc[p] = "idle"
  /\ granted
  /\ pc' = [pc EXCEPT ![p] = "leg"]
  /\ report' = [report EXCEPT ![p] = "none"]
  /\ UNCHANGED <<ix, obs, want, mine, dbVars, brokerVars>>

\* claim_prepared inserts the row or reads the one already there, and
\* _resolve_leg chooses by its state.
ClaimPrepared(p) ==
  LET s == IF leg[ix[p]] = "ABSENT" THEN "PREPARED" ELSE leg[ix[p]]
  IN /\ pc[p] = "leg"
     /\ leg' = [leg EXCEPT ![ix[p]] = s]
     /\ \/ s = "PREPARED" /\ GoTo(p, "begin")
        \/ s = "SUBMISSION_UNCERTAIN" /\ GoTo(p, "lookup")
        \/ s \in Outcomes /\ Advance(p, s)
     /\ UNCHANGED <<granted, resets, brokerVars>>

\* Mutant: whoever sees the leg in doubt counts as the winner.
BeginAttemptAnyWinner(p) ==
  /\ pc[p] = "begin"
  /\ IF leg[ix[p]] \in {"PREPARED", "SUBMISSION_UNCERTAIN"}
     THEN leg' = [leg EXCEPT ![ix[p]] = "SUBMISSION_UNCERTAIN"] /\ GoTo(p, "send")
     ELSE GoReread(p, LegStates) /\ UNCHANGED leg
  /\ UNCHANGED <<granted, resets, brokerVars>>

\* begin_attempt: the compare-and-set from PREPARED before any broker call.
BeginAttempt(p) ==
  /\ pc[p] = "begin"
  /\ IF leg[ix[p]] = "PREPARED"
     THEN leg' = [leg EXCEPT ![ix[p]] = "SUBMISSION_UNCERTAIN"] /\ GoTo(p, "send")
     ELSE GoReread(p, LegStates) /\ UNCHANGED leg
  /\ UNCHANGED <<granted, resets, brokerVars>>

\* place_order.
Send(p) ==
  LET n == NumPosts(ix[p]) + 1
  IN /\ pc[p] = "send"
     /\ n <= MaxPosts
     /\ fate' = [fate EXCEPT ![<<ix[p], n>>] = "sent"]
     /\ mine' = [mine EXCEPT ![p] = n]
     /\ pc' = [pc EXCEPT ![p] = "await"]
     /\ UNCHANGED <<ix, obs, want, report, order, dbVars>>

\* The broker-write permission of the environment is missing: the client
\* raises before the request, which is treated like any other exception.
SendDenied(p) ==
  /\ pc[p] = "send"
  /\ GoReread(p, LegStates)
  /\ UNCHANGED <<dbVars, brokerVars>>

Answered(p) ==
  /\ pc[p] = "await"
  /\ \/ fate[<<ix[p], mine[p]>>] = "created" /\ GoResolve(p, "SUBMITTED")
     \/ fate[<<ix[p], mine[p]>>] = "refused" /\ GoResolve(p, "REJECTED")
  /\ UNCHANGED <<dbVars, brokerVars>>

\* Mutant: a timeout is taken for an acknowledgement.
UncertainIsAccepted(p) ==
  /\ pc[p] = "await"
  /\ GoResolve(p, "SUBMITTED")
  /\ UNCHANGED <<dbVars, brokerVars>>

\* Mutant: a timeout is taken for a refusal.
UncertainIsRejected(p) ==
  /\ pc[p] = "await"
  /\ GoResolve(p, "REJECTED")
  /\ UNCHANGED <<dbVars, brokerVars>>

\* Timeout, connection loss, 5xx or an answer without an orderId; whatever
\* becomes of the POST, the leg stays in doubt.
Uncertain(p) ==
  /\ pc[p] = "await"
  /\ GoReread(p, LegStates)
  /\ UNCHANGED <<dbVars, brokerVars>>

\* _resolve_from_uncertain; the loser accepts the same outcome only.
Resolve(p) ==
  /\ pc[p] = "resolve"
  /\ IF leg[ix[p]] = "SUBMISSION_UNCERTAIN"
     THEN leg' = [leg EXCEPT ![ix[p]] = obs[p]] /\ GoReread(p, LegStates)
     ELSE GoReread(p, {obs[p]}) /\ UNCHANGED leg
  /\ UNCHANGED <<granted, resets, brokerVars>>

\* Get Order finds the order; a gone one it may find.
LookupFound(p) ==
  /\ pc[p] = "lookup"
  /\ order[ix[p]] # "ABSENT"
  /\ GoResolve(p, "SUBMITTED")
  /\ UNCHANGED <<dbVars, brokerVars>>

\* 404/240: the order does not exist or is no longer active.
LookupNothing(p) ==
  /\ pc[p] = "lookup"
  /\ order[ix[p]] # "OPEN"
  /\ GoTo(p, "reset")
  /\ UNCHANGED <<dbVars, brokerVars>>

\* Any exception of the lookup leaves the leg in doubt.
LookupFailed(p) ==
  /\ pc[p] = "lookup"
  /\ GoReread(p, LegStates)
  /\ UNCHANGED <<dbVars, brokerVars>>

\* reset_to_prepared: the winner attempts the leg again.
Reset(p) ==
  /\ pc[p] = "reset"
  /\ IF leg[ix[p]] = "SUBMISSION_UNCERTAIN"
     THEN /\ resets[ix[p]] < MaxResets
          /\ leg' = [leg EXCEPT ![ix[p]] = "PREPARED"]
          /\ resets' = [resets EXCEPT ![ix[p]] = @ + 1]
          /\ GoTo(p, "begin")
     ELSE GoReread(p, LegStates) /\ UNCHANGED <<leg, resets>>
  /\ UNCHANGED <<granted, brokerVars>>

\* The find_by_id that follows; a conflict is an exception of the process.
Reread(p) ==
  /\ pc[p] = "reread"
  /\ IF leg[ix[p]] \in want[p] THEN Advance(p, leg[ix[p]]) ELSE Leave(p, "none")
  /\ UNCHANGED <<dbVars, brokerVars>>

\* The process is killed or its database connection breaks.
Crash(p) ==
  /\ pc[p] # "idle"
  /\ Leave(p, "none")
  /\ UNCHANGED <<dbVars, brokerVars>>

-----------------------------------------------------------------------------
(* The broker.  It is taken to hold one open order per clientOrderId.      *)

BrokerCreates(m) ==
  /\ fate[m] = "sent"
  /\ order[m[1]] # "OPEN"
  /\ fate' = [fate EXCEPT ![m] = "created"]
  /\ order' = [order EXCEPT ![m[1]] = "OPEN"]
  /\ UNCHANGED <<dbVars, processVars>>

\* A 4xx answer: a duplicate clientOrderId, too little balance, a bad price.
BrokerRefuses(m) ==
  /\ fate[m] = "sent"
  /\ fate' = [fate EXCEPT ![m] = "refused"]
  /\ UNCHANGED <<order, dbVars, processVars>>

PostLost(m) ==
  /\ fate[m] = "sent"
  /\ fate' = [fate EXCEPT ![m] = "lost"]
  /\ UNCHANGED <<order, dbVars, processVars>>

\* The order is filled or canceled.
OrderEnds(l) ==
  /\ order[l] = "OPEN"
  /\ order' = [order EXCEPT ![l] = "GONE"]
  /\ UNCHANGED <<fate, dbVars, processVars>>

Next ==
  \/ Grant
  \/ \E p \in Processes :
       \/ Start(p) \/ ClaimPrepared(p) \/ BeginAttempt(p) \/ Send(p)
       \/ SendDenied(p) \/ Answered(p) \/ Uncertain(p) \/ Resolve(p)
       \/ LookupFound(p) \/ LookupNothing(p) \/ LookupFailed(p)
       \/ Reset(p) \/ Reread(p) \/ Crash(p)
  \/ \E m \in Posts : BrokerCreates(m) \/ BrokerRefuses(m) \/ PostLost(m)
  \/ \E l \in Legs : OrderEnds(l)

Spec == Init /\ [][Next]_vars

-----------------------------------------------------------------------------
(* What holds.                                                             *)

\* A leg is posted only when every earlier leg is recorded as accepted, in
\* whichever processes the legs were submitted (the loop of
\* submit_manual_sell_ladder).
LadderOrder ==
  \A i, j \in Legs : j < i /\ NumPosts(i) > 0 => leg[j] = "SUBMITTED"

\* Each POST of a leg beyond the first is paid for by a reset of its own,
\* those still to be sent included: no two processes win the same attempt.
PostsPaidByResets ==
  \A l \in Legs :
    NumPosts(l) + Cardinality({p \in Processes : pc[p] = "send" /\ ix[p] = l})
      <= 1 + resets[l]

\* A leg recorded as submitted did become an order.
SubmittedIsReal ==
  \A l \in Legs : leg[l] = "SUBMITTED" => order[l] # "ABSENT"

\* A result without a stopped_reason is returned only for a ladder whose legs
\* are all accepted.
ReportIsTrue ==
  \A p \in Processes : report[p] = "accepted" =>
    \A l \in Legs : leg[l] = "SUBMITTED"

\* A leg that was posted once is REJECTED only if it has no order and never
\* had one: "a real response was received; the order was never created"
\* (resolve_rejected).  After a reset it may be the second POST of its
\* clientOrderId that was refused, because the first had arrived after all.
FirstRejectionIsHonest ==
  \A l \in Legs : leg[l] = "REJECTED" /\ resets[l] = 0 => order[l] = "ABSENT"

\* What the state of a leg stands for in the abstract ladder.
Phase(l) ==
  CASE leg[l] = "SUBMISSION_UNCERTAIN" -> "committed"
    [] leg[l] = "SUBMITTED"            -> "accepted"
    [] leg[l] = "REJECTED"             -> "closed"
    [] OTHER                           -> "idle"

Ladder == INSTANCE SubmitAgain WITH
  phase  <- [l \in Legs |-> Phase(l)],
  posted <- [l \in Legs |-> NumPosts(l)],
  again  <- resets,
  told   <- {p \in Processes : report[p] = "accepted"}

\* Whatever processes submit the ladder at once, and wherever they die: each
\* leg is committed after the ones before it were accepted, each POST of it
\* beyond the first was bought by a reset, what is resolved was posted and
\* stays resolved, and only an accepted ladder is reported as one.
ImplementsSubmitAgain == Ladder!Spec

-----------------------------------------------------------------------------
(* What the comments of the code say and the code does not keep.           *)

\* A process resubmits only what "the broker definitively confirms" absent,
\* so no leg becomes an order twice.
OneOrderPerLeg ==
  \A l \in Legs :
    Cardinality({n \in 1..MaxPosts : fate[<<l, n>>] = "created"}) <= 1
=============================================================================
