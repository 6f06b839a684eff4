--------------------------- MODULE SharedExecutor ---------------------------
(***************************************************************************)
(* The shared executor: workers that discover persisted handoffs, claim    *)
(* one under a token-guarded lease, and submit its ladder of legs to the   *)
(* broker, one leg after the other (src/executor/shared_execution_         *)
(* consumer_v1.py, execution_handoff_v1.py, execution_leg_v1.py,           *)
(* execution_submission_orchestrator_v1.py,                                *)
(* execution_order_reconciliation_v1.py and the Bitvavo and dry-run order  *)
(* adapters).                                                              *)
(*                                                                         *)
(* Each database transaction is one action, and so is each broker call's   *)
(* departure, arrival and return.  Between any two of them another worker  *)
(* may run, a lease may run out, a process may die, and the LIVE authority *)
(* may be withdrawn.                                                       *)
(***************************************************************************)
EXTENDS Naturals, FiniteSets

CONSTANTS
  Workers,      \* processes running consume_once
  NumHandoffs,  \* handoff ids are 1..NumHandoffs (AUTO_INCREMENT)
  NumLegs,      \* legs of every plan, attempted in the order 1..NumLegs
  BatchLimit,   \* the LIMIT of discover_eligible
  ClaimLease,   \* lease of a claim, which never passes lease_seconds on
  Lease,        \* lease of a renewal (lease_seconds)
  Mode,         \* executor_mode of the runtime, "LIVE" or "DRY_RUN"
  BrokerStates, \* the order states this instance of the broker reports
  Unbuildable,  \* handoffs whose hydration or adapter construction raises
  NoWorker      \* the NULL claim token

Handoffs == 1..NumHandoffs
LegIndexes == 1..NumLegs
Legs == Handoffs \X LegIndexes

Accepted == {"ACTIVE", "PARTIALLY_FILLED", "FILLED"}
Closed == {"CANCELED", "EXPIRED", "REJECTED"}
Unresolved == {"SUBMISSION_UNCERTAIN", "RECONCILIATION_REQUIRED"}
LegStates == {"ABSENT", "PREPARED"} \cup Unresolved \cup Accepted \cup Closed

ASSUME WorkersAssumption == NoWorker \notin Workers
ASSUME SizeAssumption ==
  /\ NumHandoffs \in Nat \ {0}
  /\ NumLegs \in Nat \ {0}
  /\ BatchLimit \in Nat \ {0}
ASSUME LeaseAssumption == ClaimLease \in Nat \ {0} /\ Lease \in Nat \ {0}
ASSUME ModeAssumption == Mode \in {"LIVE", "DRY_RUN"}
ASSUME BrokerAssumption ==
  BrokerStates \subseteq (Accepted \cup Closed) \ {"REJECTED"}

VARIABLES
  consumption,  \* executor_execution_handoff_consumption.state, per handoff
  claimToken,   \* the worker whose current token is stored, per handoff
  lease,        \* time left until claim_expires_ts_utc, per handoff
  leg,          \* executor_execution_leg.state, per leg
  pc,           \* the next step of each worker
  batch,        \* the discovered handoffs a worker has still to visit
  hd,           \* the handoff a worker is working on, 0 for none
  ix,           \* the leg index it is working on
  obs,          \* the leg or broker state it observed and is about to act on
  want,         \* the re-read states its last write accepts as an outcome
  done,         \* the "completed" flag it will finish the claim with
  posts,        \* number of place_order delegate calls made, per leg
  wire,         \* legs whose POST has left and has not reached the broker
  order,        \* the order the broker holds for the leg's clientOrderId
  reply,        \* the broker's answer to the leg's POST
  authorized,   \* what the credential, kill-switch and grant checks answer
  late          \* POSTs each worker sent since the authority was withdrawn

dbVars == <<consumption, claimToken, lease, leg>>
workerVars == <<pc, batch, hd, ix, obs, want, done>>
brokerVars == <<posts, wire, order, reply>>
gateVars == <<authorized, late>>
vars == <<dbVars, workerVars, brokerVars, gateVars>>

\* A worker that still owns the right to POST: it won the submission CAS.
AttemptSteps == {"renewPost", "gate", "send"}
LegSteps == {"leg", "preflight", "claimSubmission", "await", "persistPost",
             "renewLookup", "lookup", "markRequired", "persistFound",
             "reread", "rereadPost", "conflict"} \cup AttemptSteps
ClaimSteps == {"renewClaim", "hydrate"} \cup LegSteps
Steps == {"idle", "claim", "finish"} \cup ClaimSteps

Cur(w) == <<hd[w], ix[w]>>

DbTypeOK ==
  /\ consumption \in
       [Handoffs -> {"ABSENT", "PENDING", "CLAIMED", "COMPLETED"}]
  /\ claimToken \in [Handoffs -> Workers \cup {NoWorker}]
  /\ lease \in [Handoffs -> Nat]
  /\ leg \in [Legs -> LegStates]

WorkerTypeOK ==
  /\ pc \in [Workers -> Steps]
  /\ batch \in [Workers -> SUBSET Handoffs]
  /\ hd \in [Workers -> Handoffs \cup {0}]
  /\ ix \in [Workers -> LegIndexes]
  /\ obs \in [Workers -> LegStates]
  /\ want \in [Workers -> SUBSET LegStates]
  /\ done \in [Workers -> BOOLEAN]
  /\ \A w \in Workers : pc[w] \in ClaimSteps \cup {"finish"} => hd[w] \in Handoffs

BrokerTypeOK ==
  /\ posts \in [Legs -> Nat]
  /\ wire \in SUBSET Legs
  /\ order \in [Legs -> BrokerStates \cup {"ABSENT"}]
  /\ reply \in [Legs -> BrokerStates \cup {"ABSENT", "REJECTED"}]
  /\ authorized \in BOOLEAN
  /\ late \in [Workers -> Nat]

\* Every variable has its type, and a worker at a step of a handoff has one.
TypeOK == DbTypeOK /\ WorkerTypeOK /\ BrokerTypeOK

Init ==
  /\ consumption = [h \in Handoffs |-> "ABSENT"]
  /\ claimToken = [h \in Handoffs |-> NoWorker]
  /\ lease = [h \in Handoffs |-> 0]
  /\ leg = [l \in Legs |-> "ABSENT"]
  /\ pc = [w \in Workers |-> "idle"]
  /\ batch = [w \in Workers |-> {}]
  /\ hd = [w \in Workers |-> 0]
  /\ ix = [w \in Workers |-> 1]
  /\ obs = [w \in Workers |-> "ABSENT"]
  /\ want = [w \in Workers |-> {}]
  /\ done = [w \in Workers |-> FALSE]
  /\ posts = [l \in Legs |-> 0]
  /\ wire = {}
  /\ order = [l \in Legs |-> "ABSENT"]
  /\ reply = [l \in Legs |-> "ABSENT"]
  /\ authorized = TRUE
  /\ late = [w \in Workers |-> 0]

-----------------------------------------------------------------------------
(* How a worker moves on.                                                  *)

GoTo(w, step) ==
  /\ pc' = [pc EXCEPT ![w] = step]
  /\ UNCHANGED <<batch, hd, ix, obs, want, done>>

\* Re-read the leg, which must then be in one of the states ok.
GoReread(w, step, ok) ==
  /\ pc' = [pc EXCEPT ![w] = step]
  /\ want' = [want EXCEPT ![w] = ok]
  /\ obs' = [obs EXCEPT ![w] = "ABSENT"]
  /\ UNCHANGED <<batch, hd, ix, done>>

\* Act next on the state s just observed.
GoWith(w, step, s) ==
  /\ pc' = [pc EXCEPT ![w] = step]
  /\ obs' = [obs EXCEPT ![w] = s]
  /\ UNCHANGED <<batch, hd, ix, want, done>>

\* Mutant: the finally clause no longer knows which handoff it must finish.
GoFinishForgetting(w, completed, rest) ==
  /\ pc' = [pc EXCEPT ![w] = "finish"]
  /\ done' = [done EXCEPT ![w] = completed]
  /\ batch' = [batch EXCEPT ![w] = rest]
  /\ hd' = [hd EXCEPT ![w] = 0]
  /\ UNCHANGED <<ix, obs, want>>

\* Leave the handoff for the finally clause, which finishes the claim;
\* rest is the part of the batch that consume_once still visits.
GoFinish(w, completed, rest) ==
  /\ pc' = [pc EXCEPT ![w] = "finish"]
  /\ done' = [done EXCEPT ![w] = completed]
  /\ batch' = [batch EXCEPT ![w] = rest]
  /\ obs' = [obs EXCEPT ![w] = "ABSENT"]
  /\ want' = [want EXCEPT ![w] = {}]
  /\ UNCHANGED <<hd, ix>>

\* ExecutionClaimLostError is caught: the batch goes on with the next handoff.
ClaimLost(w) == GoFinish(w, FALSE, batch[w])

\* Mutant: the completed flag is only cleared by a result, not by an exception.
RaiseCompletes(w) == GoFinish(w, TRUE, {})

\* Any other exception leaves consume_once: the rest of the batch is dropped.
Raise(w) == GoFinish(w, FALSE, {})

\* Mutant: the ladder goes on past a leg whose outcome is unknown.
ResolvedGoesOn(w, s) ==
  IF s \notin Closed /\ ix[w] < NumLegs
  THEN /\ pc' = [pc EXCEPT ![w] = "leg"]
       /\ ix' = [ix EXCEPT ![w] = @ + 1]
       /\ obs' = [obs EXCEPT ![w] = "ABSENT"]
       /\ want' = [want EXCEPT ![w] = {}]
       /\ UNCHANGED <<batch, hd, done>>
  ELSE GoFinish(w, s \notin Unresolved, batch[w])

\* The ladder's loop: an accepted leg leads to the next one, any other state
\* stops the ladder, and an unresolved one leaves the handoff incomplete.
Resolved(w, s) ==
  IF s \in Accepted /\ ix[w] < NumLegs
  THEN /\ pc' = [pc EXCEPT ![w] = "leg"]
       /\ ix' = [ix EXCEPT ![w] = @ + 1]
       /\ obs' = [obs EXCEPT ![w] = "ABSENT"]
       /\ want' = [want EXCEPT ![w] = {}]
       /\ UNCHANGED <<batch, hd, done>>
  ELSE GoFinish(w, s \notin Unresolved, batch[w])

-----------------------------------------------------------------------------
(* Intake, discovery and the claim.                                        *)

\* One transaction inserts the handoff, its immutable legs and the PENDING
\* consumption row; a retry of the same plan finds them and changes nothing.
Intake(h) ==
  /\ consumption[h] = "ABSENT"
  /\ Mode = "LIVE" => authorized
  /\ consumption' = [consumption EXCEPT ![h] = "PENDING"]
  /\ UNCHANGED <<claimToken, lease, leg, workerVars, brokerVars, gateVars>>

\* Mutant: a claim whose holder died is never taken over.
ClaimablePendingOnly(h) == consumption[h] = "PENDING"

Claimable(h) ==
  \/ consumption[h] = "PENDING"
  \/ consumption[h] = "CLAIMED" /\ lease[h] = 0

\* The oldest claimable handoffs, at most BatchLimit of them.
Eligible ==
  {h \in Handoffs : Claimable(h)
     /\ Cardinality({g \in Handoffs : g < h /\ Claimable(g)}) < BatchLimit}

Discover(w) ==
  /\ pc[w] = "idle"
  /\ Eligible # {}
  /\ batch' = [batch EXCEPT ![w] = Eligible]
  /\ pc' = [pc EXCEPT ![w] = "claim"]
  /\ UNCHANGED <<hd, ix, obs, want, done, dbVars, brokerVars, gateVars>>

IsNext(w, h) == h \in batch[w] /\ \A g \in batch[w] : h <= g

AfterHandoff(rest) == IF rest = {} THEN "idle" ELSE "claim"

\* The guarded UPDATE of claim(); a lost claim skips the handoff.
Claim(w) ==
  /\ pc[w] = "claim"
  /\ \E h \in Handoffs :
       /\ IsNext(w, h)
       /\ batch' = [batch EXCEPT ![w] = @ \ {h}]
       /\ IF Claimable(h)
          THEN /\ consumption' = [consumption EXCEPT ![h] = "CLAIMED"]
               /\ claimToken' = [claimToken EXCEPT ![h] = w]
               /\ lease' = [lease EXCEPT ![h] = ClaimLease]
               /\ hd' = [hd EXCEPT ![w] = h]
               /\ pc' = [pc EXCEPT ![w] = "renewClaim"]
          ELSE /\ pc' = [pc EXCEPT ![w] = AfterHandoff(batch[w] \ {h})]
               /\ UNCHANGED <<consumption, claimToken, lease, hd>>
  /\ UNCHANGED <<ix, obs, want, done, leg, brokerVars, gateVars>>

\* Mutant: renew_claim and finish_claim do not compare the token.
HoldsClaimAnyToken(w, h) == consumption[h] = "CLAIMED" /\ lease[h] > 0

\* The guard of renew_claim and finish_claim: current, unexpired, own token.
HoldsClaim(w, h) ==
  /\ consumption[h] = "CLAIMED"
  /\ claimToken[h] = w
  /\ lease[h] > 0

\* renew_claim, then the next step; a lease that is gone raises ClaimLost.
RenewThen(w, step) ==
  /\ IF HoldsClaim(w, hd[w])
     THEN lease' = [lease EXCEPT ![hd[w]] = Lease] /\ GoTo(w, step)
     ELSE ClaimLost(w) /\ UNCHANGED lease
  /\ UNCHANGED <<consumption, claimToken, leg, brokerVars, gateVars>>

RenewClaim(w) == pc[w] = "renewClaim" /\ RenewThen(w, "hydrate")

\* hydrate_approved_execution_plan and adapter_for_handoff.
Hydrate(w) ==
  /\ pc[w] = "hydrate"
  /\ IF hd[w] \in Unbuildable THEN Raise(w) ELSE GoTo(w, "leg")
  /\ UNCHANGED <<dbVars, brokerVars, gateVars>>

\* The finally clause.  Only the holder of an unexpired claim changes the row.
FinishClaim(w) ==
  /\ pc[w] = "finish"
  /\ IF HoldsClaim(w, hd[w])
     THEN /\ consumption' = [consumption EXCEPT
                               ![hd[w]] = IF done[w] THEN "COMPLETED" ELSE "PENDING"]
          /\ claimToken' = [claimToken EXCEPT ![hd[w]] = NoWorker]
          /\ lease' = [lease EXCEPT ![hd[w]] = 0]
     ELSE UNCHANGED <<consumption, claimToken, lease>>
  /\ pc' = [pc EXCEPT ![w] = AfterHandoff(batch[w])]
  /\ hd' = [hd EXCEPT ![w] = 0]
  /\ ix' = [ix EXCEPT ![w] = 1]
  /\ done' = [done EXCEPT ![w] = FALSE]
  /\ UNCHANGED <<batch, obs, want, leg, brokerVars, gateVars>>

-----------------------------------------------------------------------------
(* One leg: persist it, then submit it or reconcile it.                    *)

\* persist_prepared inserts the row or finds the one already there, and
\* _resolve_leg chooses by the state it sees.
PersistPrepared(w) ==
  LET s == IF leg[Cur(w)] = "ABSENT" THEN "PREPARED" ELSE leg[Cur(w)]
  IN /\ pc[w] = "leg"
     /\ leg' = [leg EXCEPT ![Cur(w)] = s]
     /\ \/ s = "PREPARED" /\ GoTo(w, "preflight")
        \/ s \in Unresolved /\ GoWith(w, "renewLookup", s)
        \/ s \in Accepted \cup Closed /\ Resolved(w, s)
     /\ UNCHANGED <<consumption, claimToken, lease, brokerVars, gateVars>>

Preflight(w) == pc[w] = "preflight" /\ RenewThen(w, "claimSubmission")

\* Compare-and-set of the leg's state, as every repository write is.
MoveLeg(l, from, to) ==
  leg' = IF leg[l] \in from THEN [leg EXCEPT ![l] = to] ELSE leg

ClaimSubmission(w) ==
  /\ pc[w] = "claimSubmission"
  /\ MoveLeg(Cur(w), {"PREPARED"}, "SUBMISSION_UNCERTAIN")
  /\ IF leg[Cur(w)] = "PREPARED"
     THEN GoTo(w, "renewPost")
     ELSE GoReread(w, "reread", LegStates)
  /\ UNCHANGED <<consumption, claimToken, lease, brokerVars, gateVars>>

\* The heartbeat adapter renews once more before it delegates place_order.
RenewPost(w) == pc[w] = "renewPost" /\ RenewThen(w, "gate")

\* After a failed or ambiguous placement, mark_uncertain re-reads the leg.
PlacementFailed(w) == GoReread(w, "rereadPost", {"SUBMISSION_UNCERTAIN"})

\* Mutant: the authority is checked once for the whole ladder.
GateFirstLegOnly(w) ==
  /\ pc[w] = "gate"
  /\ IF Mode = "LIVE" /\ ~authorized /\ ix[w] = 1
     THEN PlacementFailed(w)
     ELSE GoTo(w, "send")
  /\ UNCHANGED <<dbVars, brokerVars, gateVars>>

\* _fresh_client re-checks credential scope, kill switch and grant.
Gate(w) ==
  /\ pc[w] = "gate"
  /\ IF Mode = "LIVE" /\ ~authorized THEN PlacementFailed(w) ELSE GoTo(w, "send")
  /\ UNCHANGED <<dbVars, brokerVars, gateVars>>

\* The POST leaves.  The dry-run adapter answers ACTIVE without a broker.
Send(w) ==
  /\ pc[w] = "send"
  /\ posts' = [posts EXCEPT ![Cur(w)] = @ + 1]
  /\ IF Mode = "LIVE"
     THEN /\ wire' = wire \cup {Cur(w)}
          /\ late' = [late EXCEPT ![w] = IF authorized THEN @ ELSE @ + 1]
          /\ GoTo(w, "await")
     ELSE GoWith(w, "persistPost", "ACTIVE") /\ UNCHANGED <<wire, late>>
  /\ UNCHANGED <<order, reply, authorized, dbVars>>

\* The POST returns a classified acknowledgement.
PostAnswered(w) ==
  /\ pc[w] = "await"
  /\ reply[Cur(w)] # "ABSENT"
  /\ GoWith(w, "persistPost", reply[Cur(w)])
  /\ UNCHANGED <<dbVars, brokerVars, gateVars>>

\* Mutant: a timed-out POST is recorded as rejected.
PostUncertainRejects(w) ==
  /\ pc[w] = "await"
  /\ GoWith(w, "persistPost", "REJECTED")
  /\ UNCHANGED <<dbVars, brokerVars, gateVars>>

\* Timeout, transport error, 5xx or an AMBIGUOUS answer; the request may
\* still be on its way.
PostUncertain(w) ==
  /\ pc[w] = "await"
  /\ PlacementFailed(w)
  /\ UNCHANGED <<dbVars, brokerVars, gateVars>>

\* Mutant: a late acknowledgement resolves RECONCILIATION_REQUIRED too.
PersistPostOverwrites(w) ==
  /\ pc[w] = "persistPost"
  /\ MoveLeg(Cur(w), Unresolved, obs[w])
  /\ GoReread(w, "rereadPost", LegStates)
  /\ UNCHANGED <<consumption, claimToken, lease, brokerVars, gateVars>>

\* The winner's acknowledgement: only SUBMISSION_UNCERTAIN may be resolved.
PersistPost(w) ==
  /\ pc[w] = "persistPost"
  /\ MoveLeg(Cur(w), {"SUBMISSION_UNCERTAIN"}, obs[w])
  /\ IF leg[Cur(w)] = "SUBMISSION_UNCERTAIN"
     THEN GoReread(w, "rereadPost", LegStates)
     ELSE GoReread(w, "rereadPost", {obs[w]})
  /\ UNCHANGED <<consumption, claimToken, lease, brokerVars, gateVars>>

RenewLookup(w) == pc[w] = "renewLookup" /\ RenewThen(w, "lookup")

\* Get Order answers "not found" for an order that does not exist or is no
\* longer active; the dry-run adapter never finds one.
NotResolvable(l) == Mode = "DRY_RUN" \/ order[l] \notin Accepted \ {"FILLED"}

LookupNothing(w) ==
  /\ pc[w] = "lookup"
  /\ Mode = "LIVE" => authorized
  /\ NotResolvable(Cur(w))
  /\ IF obs[w] = "SUBMISSION_UNCERTAIN"
     THEN GoTo(w, "markRequired")
     ELSE GoReread(w, "reread", LegStates)
  /\ UNCHANGED <<dbVars, brokerVars, gateVars>>

LookupFound(w) ==
  /\ pc[w] = "lookup"
  /\ Mode = "LIVE" /\ authorized
  /\ order[Cur(w)] # "ABSENT"
  /\ GoWith(w, "persistFound", order[Cur(w)])
  /\ UNCHANGED <<dbVars, brokerVars, gateVars>>

\* Denied authority, any other exception, or an AMBIGUOUS answer.
LookupFailed(w) ==
  /\ pc[w] = "lookup"
  /\ Mode = "LIVE"
  /\ GoReread(w, "reread", LegStates)
  /\ UNCHANGED <<dbVars, brokerVars, gateVars>>

\* Mutant: a lookup that finds nothing rearms the leg.
MarkRequiredRearms(w) ==
  /\ pc[w] = "markRequired"
  /\ MoveLeg(Cur(w), {"SUBMISSION_UNCERTAIN"}, "PREPARED")
  /\ GoReread(w, "reread", LegStates)
  /\ UNCHANGED <<consumption, claimToken, lease, brokerVars, gateVars>>

MarkRequired(w) ==
  /\ pc[w] = "markRequired"
  /\ MoveLeg(Cur(w), {"SUBMISSION_UNCERTAIN"}, "RECONCILIATION_REQUIRED")
  /\ IF leg[Cur(w)] = "SUBMISSION_UNCERTAIN"
     THEN GoReread(w, "reread", LegStates)
     ELSE GoReread(w, "reread", {"RECONCILIATION_REQUIRED"})
  /\ UNCHANGED <<consumption, claimToken, lease, brokerVars, gateVars>>

\* A found order resolves the leg from either unresolved state.
PersistFound(w) ==
  /\ pc[w] = "persistFound"
  /\ MoveLeg(Cur(w), Unresolved, obs[w])
  /\ IF leg[Cur(w)] \in Unresolved
     THEN GoReread(w, "reread", LegStates)
     ELSE GoReread(w, "reread", {obs[w]})
  /\ UNCHANGED <<consumption, claimToken, lease, brokerVars, gateVars>>

\* Every repository write is followed by a find() in a second transaction;
\* a state that is not the expected one raises ExecutionLegConflictError,
\* which only the placement path catches.
Reread(w) ==
  /\ pc[w] \in {"reread", "rereadPost"}
  /\ IF leg[Cur(w)] \in want[w] THEN Resolved(w, leg[Cur(w)])
     ELSE IF pc[w] = "rereadPost" THEN GoTo(w, "conflict")
     ELSE Raise(w)
  /\ UNCHANGED <<dbVars, brokerVars, gateVars>>

\* The placement path finds the leg once more and accepts the dead end.
Conflict(w) ==
  /\ pc[w] = "conflict"
  /\ IF leg[Cur(w)] = "RECONCILIATION_REQUIRED"
     THEN Resolved(w, leg[Cur(w)])
     ELSE Raise(w)
  /\ UNCHANGED <<dbVars, brokerVars, gateVars>>

-----------------------------------------------------------------------------
(* The broker, time, the authority, and what can go wrong with a worker.   *)

\* The broker creates the order; a post-only order may be canceled at once.
BrokerAccepts(l) ==
  /\ l \in wire
  /\ wire' = wire \ {l}
  /\ \E s \in BrokerStates :
       order' = [order EXCEPT ![l] = s] /\ reply' = [reply EXCEPT ![l] = s]
  /\ UNCHANGED <<posts, dbVars, workerVars, gateVars>>

\* A 4xx answer.
BrokerRefuses(l) ==
  /\ l \in wire
  /\ wire' = wire \ {l}
  /\ reply' = [reply EXCEPT ![l] = "REJECTED"]
  /\ UNCHANGED <<posts, order, dbVars, workerVars, gateVars>>

PostLost(l) ==
  /\ l \in wire
  /\ wire' = wire \ {l}
  /\ UNCHANGED <<posts, order, reply, dbVars, workerVars, gateVars>>

\* The order is filled, canceled or expires at the broker.
OrderMoves(l) ==
  /\ order[l] \in {"ACTIVE", "PARTIALLY_FILLED"}
  /\ \E s \in BrokerStates \ {"ACTIVE", order[l]} : order' = [order EXCEPT ![l] = s]
  /\ UNCHANGED <<posts, wire, reply, dbVars, workerVars, gateVars>>

\* Leases are only ever compared with the clock, so each keeps its time left.
Tick ==
  /\ \E h \in Handoffs : lease[h] > 0
  /\ lease' = [h \in Handoffs |-> IF lease[h] > 0 THEN lease[h] - 1 ELSE 0]
  /\ UNCHANGED <<consumption, claimToken, leg, workerVars, brokerVars, gateVars>>

\* Kill switch engaged, grant revoked or expired, credential scope withdrawn.
AuthorityWithdrawn ==
  /\ Mode = "LIVE"
  /\ authorized
  /\ authorized' = FALSE
  /\ UNCHANGED <<late, dbVars, workerVars, brokerVars>>

AuthorityRestored ==
  /\ ~authorized
  /\ authorized' = TRUE
  /\ late' = [w \in Workers |-> 0]
  /\ UNCHANGED <<dbVars, workerVars, brokerVars>>

\* The process dies: no finally clause runs and its memory is gone.
Crash(w) ==
  /\ pc[w] # "idle"
  /\ pc' = [pc EXCEPT ![w] = "idle"]
  /\ batch' = [batch EXCEPT ![w] = {}]
  /\ hd' = [hd EXCEPT ![w] = 0]
  /\ ix' = [ix EXCEPT ![w] = 1]
  /\ obs' = [obs EXCEPT ![w] = "ABSENT"]
  /\ want' = [want EXCEPT ![w] = {}]
  /\ done' = [done EXCEPT ![w] = FALSE]
  /\ UNCHANGED <<dbVars, brokerVars, gateVars>>

\* SIGTERM, or a database error: the exception leaves through finally.
Interrupt(w) ==
  /\ pc[w] \in ClaimSteps
  /\ Raise(w)
  /\ UNCHANGED <<dbVars, brokerVars, gateVars>>

-----------------------------------------------------------------------------
\* The steps a healthy worker takes by itself.
Works(w) ==
  \/ Discover(w) \/ Claim(w) \/ RenewClaim(w) \/ Hydrate(w) \/ FinishClaim(w)
  \/ PersistPrepared(w) \/ Preflight(w) \/ ClaimSubmission(w) \/ RenewPost(w)
  \/ Gate(w) \/ Send(w) \/ PostAnswered(w) \/ PersistPost(w)
  \/ RenewLookup(w) \/ LookupNothing(w) \/ LookupFound(w) \/ MarkRequired(w)
  \/ PersistFound(w) \/ Reread(w) \/ Conflict(w)

\* The faults of its network, its process and its host.
Fails(w) == PostUncertain(w) \/ LookupFailed(w) \/ Crash(w) \/ Interrupt(w)

Broker == \E l \in Legs :
  BrokerAccepts(l) \/ BrokerRefuses(l) \/ PostLost(l) \/ OrderMoves(l)

Next ==
  \/ \E h \in Handoffs : Intake(h)
  \/ \E w \in Workers : Works(w) \/ Fails(w)
  \/ Broker
  \/ Tick
  \/ AuthorityWithdrawn
  \/ AuthorityRestored

Spec == Init /\ [][Next]_vars

-----------------------------------------------------------------------------
(* What must hold.                                                         *)

\* However workers crash, time out, overtake each other or lose their claim,
\* place_order is delegated at most once per leg (consumer, orchestrator and
\* the claim_submission compare-and-set together).
AtMostOnePost == \A l \in Legs : posts[l] <= 1

\* No order is placed for a leg before every earlier leg of its ladder is
\* durably recorded as accepted (the loop of submit_execution_plan).
LadderOrder ==
  \A h \in Handoffs : \A i, j \in LegIndexes :
    j < i /\ posts[<<h, i>>] > 0 => leg[<<h, j>>] \in Accepted

\* A recorded outcome is true at the broker: an accepted leg has an order
\* there, and a rejected one has none, none in flight, and no worker that is
\* still going to post it.
AckTruth ==
  Mode = "LIVE" =>
    \A l \in Legs :
      /\ leg[l] \in Accepted => order[l] # "ABSENT"
      /\ leg[l] = "REJECTED" =>
           /\ order[l] = "ABSENT" /\ l \notin wire
           /\ \A w \in Workers : ~(pc[w] \in AttemptSteps /\ Cur(w) = l)

\* Only what a lookup found resolves RECONCILIATION_REQUIRED; the late answer
\* to the POST never does (the comment on the conflict of persist_order_ack).
LateAckNeverWins ==
  [][\A l \in Legs :
       leg[l] = "RECONCILIATION_REQUIRED" /\ leg'[l] # leg[l] =>
         \E w \in Workers : pc[w] = "persistFound" /\ Cur(w) = l]_vars

\* The inserts, and the updates trg_eel_immutable allows among those made here.
TriggerAllows ==
  \A l \in Legs : leg'[l] # leg[l] =>
    \/ leg[l] = "ABSENT" /\ leg'[l] = "PREPARED"
    \/ leg[l] = "PREPARED" /\ leg'[l] = "SUBMISSION_UNCERTAIN"
    \/ leg[l] = "SUBMISSION_UNCERTAIN"
         /\ leg'[l] \in {"RECONCILIATION_REQUIRED"} \cup Accepted \cup Closed
    \/ leg[l] = "RECONCILIATION_REQUIRED" /\ leg'[l] \in Accepted \cup Closed

\* Every change of a leg is one the database trigger trg_eel_immutable lets
\* through: no update of any interleaving is aborted by it.
TriggerNeverFires == [][TriggerAllows]_vars

\* The legs before i are accepted; the ladder has come to its end.
Passed(h, i) == \A j \in LegIndexes : j < i => leg[<<h, j>>] \in Accepted

Ended(h) ==
  \/ \A i \in LegIndexes : leg[<<h, i>>] \in Accepted
  \/ \E i \in LegIndexes : leg[<<h, i>>] \in Closed /\ Passed(h, i)

\* A handoff is completed only when its ladder was accepted to its end or was
\* stopped by a closed leg: nothing unresolved is ever left behind.
CompletedIsResolved ==
  \A h \in Handoffs : consumption[h] = "COMPLETED" => Ended(h)

\* While a lease lasts nobody but its holder ends the claim, and a lease that
\* ran out only comes back through a new claim: a stale worker neither
\* renews nor finalizes a reclaimed handoff.
ClaimDiscipline ==
  [][\A h \in Handoffs :
       /\ lease[h] > 0 /\ claimToken'[h] # claimToken[h] =>
            \E w \in Workers : claimToken[h] = w /\ pc[w] = "finish" /\ hd[w] = h
       /\ lease'[h] > lease[h] =>
            \E w \in Workers : claimToken'[h] = w /\ hd'[w] = h
       /\ lease[h] = 0 /\ lease'[h] > 0 =>
            \E w \in Workers : pc[w] = "claim" /\ hd'[w] = h]_vars

\* After the authority is withdrawn a worker still sends at most the one POST
\* whose check it had already passed, however long its ladder.
StopBounded == \A w \in Workers : late[w] <= 1

\* The abstract promise, and the state of it that a database and broker state
\* stands for.
Phase(l) ==
  CASE leg[l] \in {"ABSENT", "PREPARED"} -> "idle"
    [] leg[l] \in Unresolved -> "committed"
    [] leg[l] \in Accepted -> "accepted"
    [] OTHER -> "closed"

Abstract == INSTANCE SubmitOnce WITH
  phase <- [l \in Legs |-> Phase(l)],
  posted <- posts,
  finished <- {h \in Handoffs : consumption[h] = "COMPLETED"}

\* Every behaviour of the workers is one of the abstract submission.
ImplementsSubmitOnce == Abstract!Spec
=============================================================================
