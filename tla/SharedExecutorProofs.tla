------------------------ MODULE SharedExecutorProofs ------------------------
(***************************************************************************)
(* Proofs about the shared executor for any number of workers, handoffs    *)
(* and legs, any leases and either mode.                                   *)
(***************************************************************************)
EXTENDS SharedExecutor, TLAPS

-----------------------------------------------------------------------------
(* Facts about the state sets.                                             *)

LEMMA ModelSets ==
  /\ Accepted \subseteq LegStates /\ Closed \subseteq LegStates
  /\ Unresolved \subseteq LegStates
  /\ BrokerStates \subseteq LegStates
  /\ 1 \in LegIndexes
  /\ LegIndexes \subseteq Nat \ {0} /\ Handoffs \subseteq Nat \ {0}
  /\ {"renewPost", "gate", "send"} = AttemptSteps
  /\ AttemptSteps \subseteq LegSteps /\ LegSteps \subseteq ClaimSteps
  /\ ClaimSteps \subseteq Steps
BY SizeAssumption, BrokerAssumption
   DEF Accepted, Closed, Unresolved, LegStates, LegIndexes, Handoffs,
       AttemptSteps, LegSteps, ClaimSteps, Steps

LEMMA CurInLegs ==
  ASSUME WorkerTypeOK, NEW w \in Workers, pc[w] \in ClaimSteps
  PROVE  hd[w] \in Handoffs /\ Cur(w) \in Legs
BY DEF WorkerTypeOK, Cur, Legs

-----------------------------------------------------------------------------
(* Type correctness.  A worker's move is typed by the way it moves on.     *)

LEMMA GoToType ==
  ASSUME WorkerTypeOK, NEW w \in Workers, NEW step \in Steps,
         hd[w] \in Handoffs, GoTo(w, step)
  PROVE  WorkerTypeOK'
BY DEF WorkerTypeOK, GoTo

LEMMA GoRereadType ==
  ASSUME WorkerTypeOK, NEW w \in Workers, NEW step \in Steps,
         NEW ok \in SUBSET LegStates, hd[w] \in Handoffs, GoReread(w, step, ok)
  PROVE  WorkerTypeOK'
BY DEF WorkerTypeOK, GoReread, LegStates

LEMMA GoWithType ==
  ASSUME WorkerTypeOK, NEW w \in Workers, NEW step \in Steps,
         NEW s \in LegStates, hd[w] \in Handoffs, GoWith(w, step, s)
  PROVE  WorkerTypeOK'
BY DEF WorkerTypeOK, GoWith

LEMMA GoFinishType ==
  ASSUME WorkerTypeOK, NEW w \in Workers, NEW completed \in BOOLEAN,
         NEW rest \in SUBSET Handoffs, hd[w] \in Handoffs,
         GoFinish(w, completed, rest)
  PROVE  WorkerTypeOK'
BY DEF WorkerTypeOK, GoFinish, Steps, LegStates

LEMMA RaiseType ==
  ASSUME WorkerTypeOK, NEW w \in Workers, hd[w] \in Handoffs,
         ClaimLost(w) \/ Raise(w)
  PROVE  WorkerTypeOK'
<1>1. batch[w] \in SUBSET Handoffs /\ {} \in SUBSET Handoffs
  BY DEF WorkerTypeOK
<1> QED
  BY <1>1, GoFinishType DEF ClaimLost, Raise

LEMMA ResolvedType ==
  ASSUME WorkerTypeOK, NEW w \in Workers, NEW s \in LegStates,
         hd[w] \in Handoffs, Resolved(w, s)
  PROVE  WorkerTypeOK'
<1>1. CASE s \in Accepted /\ ix[w] < NumLegs
  <2>1. ix[w] + 1 \in LegIndexes
    BY <1>1, SizeAssumption DEF WorkerTypeOK, LegIndexes
  <2> QED
    BY <1>1, <2>1
       DEF Resolved, WorkerTypeOK, LegStates, Steps, ClaimSteps, LegSteps
<1>2. CASE ~(s \in Accepted /\ ix[w] < NumLegs)
  <2>1. batch[w] \in SUBSET Handoffs /\ (s \notin Unresolved) \in BOOLEAN
    BY DEF WorkerTypeOK
  <2>2. GoFinish(w, s \notin Unresolved, batch[w])
    BY <1>2 DEF Resolved
  <2> QED
    BY <2>1, <2>2, GoFinishType
<1> QED
  BY <1>1, <1>2

LEMMA RenewThenType ==
  ASSUME TypeOK, NEW w \in Workers, NEW step \in Steps, hd[w] \in Handoffs,
         RenewThen(w, step)
  PROVE  TypeOK'
<1>1. WorkerTypeOK'
  BY GoToType, RaiseType DEF RenewThen, TypeOK
<1>2. DbTypeOK'
  BY LeaseAssumption DEF RenewThen, TypeOK, DbTypeOK
<1>3. BrokerTypeOK'
  BY DEF RenewThen, TypeOK, BrokerTypeOK, brokerVars, gateVars
<1> QED
  BY <1>1, <1>2, <1>3 DEF TypeOK

LEMMA MoveLegType ==
  ASSUME DbTypeOK, NEW l \in Legs, NEW from, NEW to \in LegStates,
         MoveLeg(l, from, to), UNCHANGED <<consumption, claimToken, lease>>
  PROVE  DbTypeOK'
BY DEF DbTypeOK, MoveLeg

LEMMA FrameType ==
  /\ DbTypeOK /\ UNCHANGED dbVars => DbTypeOK'
  /\ WorkerTypeOK /\ UNCHANGED workerVars => WorkerTypeOK'
  /\ BrokerTypeOK /\ UNCHANGED <<brokerVars, gateVars>> => BrokerTypeOK'
BY DEF DbTypeOK, WorkerTypeOK, BrokerTypeOK, dbVars, workerVars, brokerVars, gateVars

LEMMA TypeInit == Init => TypeOK
BY ModelSets
   DEF Init, TypeOK, DbTypeOK, WorkerTypeOK, BrokerTypeOK,
       Steps, ClaimSteps, LegSteps, AttemptSteps, LegStates

LEMMA StepNames ==
  /\ ClaimSteps \subseteq Steps
  /\ {"idle", "claim", "finish"} \subseteq Steps
  /\ {"renewClaim", "hydrate", "leg", "preflight", "claimSubmission",
       "renewPost", "gate", "send", "await", "persistPost", "renewLookup",
       "lookup", "markRequired", "persistFound", "reread", "rereadPost",
       "conflict"} = ClaimSteps
BY DEF Steps, ClaimSteps, LegSteps, AttemptSteps

LEMMA WorkerTypeStep ==
  ASSUME TypeOK, NEW w \in Workers, Works(w)
  PROVE  TypeOK'
<1> USE ModelSets, StepNames
<1>0. DbTypeOK /\ WorkerTypeOK /\ BrokerTypeOK
  BY DEF TypeOK
<1>1. CASE Discover(w)
  <2>1. WorkerTypeOK'
    BY <1>0, <1>1 DEF Discover, Eligible, WorkerTypeOK
  <2> QED
    BY <1>0, <1>1, <2>1, FrameType DEF Discover, TypeOK
<1>2. CASE Claim(w)
  <2>1. WorkerTypeOK'
    BY <1>0, <1>2 DEF Claim, AfterHandoff, WorkerTypeOK
  <2>2. DbTypeOK'
    BY <1>0, <1>2, LeaseAssumption DEF Claim, DbTypeOK
  <2> QED
    BY <1>0, <1>2, <2>1, <2>2, FrameType DEF Claim, TypeOK
<1>3. CASE RenewClaim(w) \/ Preflight(w) \/ RenewPost(w) \/ RenewLookup(w)
  <2>1. hd[w] \in Handoffs
    BY <1>0, <1>3, CurInLegs DEF RenewClaim, Preflight, RenewPost, RenewLookup
  <2> QED
    BY <1>3, <2>1, RenewThenType DEF RenewClaim, Preflight, RenewPost, RenewLookup
<1>4. CASE Hydrate(w)
  <2>1. hd[w] \in Handoffs
    BY <1>0, <1>4, CurInLegs DEF Hydrate
  <2> QED
    BY <1>0, <1>4, <2>1, GoToType, RaiseType, FrameType DEF Hydrate, TypeOK
<1>5. CASE FinishClaim(w)
  <2>1. WorkerTypeOK'
    BY <1>0, <1>5 DEF FinishClaim, AfterHandoff, WorkerTypeOK
  <2>2. DbTypeOK'
    BY <1>0, <1>5 DEF FinishClaim, DbTypeOK
  <2> QED
    BY <1>0, <1>5, <2>1, <2>2, FrameType DEF FinishClaim, TypeOK
<1>6. CASE PersistPrepared(w)
  <2> DEFINE s == IF leg[Cur(w)] = "ABSENT" THEN "PREPARED" ELSE leg[Cur(w)]
  <2>1. hd[w] \in Handoffs /\ Cur(w) \in Legs
    BY <1>0, <1>6, CurInLegs DEF PersistPrepared
  <2>2. s \in LegStates
    BY <1>0, <2>1 DEF DbTypeOK, LegStates
  <2>3. GoTo(w, "preflight") \/ GoWith(w, "renewLookup", s) \/ Resolved(w, s)
    BY <1>6 DEF PersistPrepared
  <2>4. WorkerTypeOK'
    BY <1>0, <2>1, <2>2, <2>3, GoToType, GoWithType, ResolvedType
  <2>5. DbTypeOK'
    BY <1>0, <1>6, <2>2 DEF PersistPrepared, DbTypeOK
  <2> QED
    BY <1>0, <1>6, <2>4, <2>5, FrameType DEF PersistPrepared, TypeOK
<1>7. CASE ClaimSubmission(w) \/ MarkRequired(w) \/ PersistPost(w) \/ PersistFound(w)
  <2> USE <1>7 DEF ClaimSubmission, MarkRequired, PersistPost, PersistFound
  <2>1. hd[w] \in Handoffs /\ Cur(w) \in Legs
    BY <1>0, CurInLegs
  <2>2. obs[w] \in LegStates
    BY <1>0 DEF WorkerTypeOK
  <2>3. \/ GoTo(w, "renewPost")
        \/ \E step \in {"reread", "rereadPost"}, ok \in SUBSET LegStates :
             GoReread(w, step, ok)
    BY <2>2 DEF LegStates, Unresolved
  <2>4. WorkerTypeOK'
    BY <1>0, <2>1, <2>3, GoToType, GoRereadType
  <2>5. \E from \in SUBSET LegStates, to \in LegStates :
          MoveLeg(Cur(w), from, to) /\ UNCHANGED <<consumption, claimToken, lease>>
    BY <2>2 DEF LegStates, Unresolved
  <2>6. DbTypeOK'
    BY <1>0, <2>1, <2>5, MoveLegType
  <2>7. UNCHANGED <<brokerVars, gateVars>>
    OBVIOUS
  <2> QED
    BY <1>0, <2>4, <2>6, <2>7, FrameType DEF TypeOK
<1>8. CASE Gate(w)
  <2>1. hd[w] \in Handoffs
    BY <1>0, <1>8, CurInLegs DEF Gate
  <2>2. {"SUBMISSION_UNCERTAIN"} \in SUBSET LegStates
    BY DEF LegStates, Unresolved
  <2>3. WorkerTypeOK'
    BY <1>0, <1>8, <2>1, <2>2, GoToType, GoRereadType DEF Gate, PlacementFailed
  <2> QED
    BY <1>0, <1>8, <2>3, FrameType DEF Gate, TypeOK
<1>9. CASE Send(w)
  <2>1. hd[w] \in Handoffs /\ Cur(w) \in Legs
    BY <1>0, <1>9, CurInLegs DEF Send
  <2>2. "ACTIVE" \in LegStates
    BY DEF LegStates, Accepted
  <2>3. WorkerTypeOK'
    BY <1>0, <1>9, <2>1, <2>2, GoToType, GoWithType DEF Send
  <2>4. BrokerTypeOK'
    BY <1>0, <1>9, <2>1 DEF Send, BrokerTypeOK
  <2> QED
    BY <1>0, <1>9, <2>3, <2>4, FrameType DEF Send, TypeOK
<1>10. CASE PostAnswered(w) \/ LookupFound(w) \/ LookupNothing(w)
  <2> USE <1>10 DEF PostAnswered, LookupFound, LookupNothing
  <2>1. hd[w] \in Handoffs /\ Cur(w) \in Legs
    BY <1>0, CurInLegs
  <2>2. reply[Cur(w)] \in LegStates /\ order[Cur(w)] \in LegStates
    BY <1>0, <2>1 DEF BrokerTypeOK, LegStates, Closed
  <2>3. LegStates \in SUBSET LegStates
    OBVIOUS
  <2>4. WorkerTypeOK'
    BY <1>0, <2>1, <2>2, <2>3, GoToType, GoWithType, GoRereadType
  <2> QED
    BY <1>0, <2>4, FrameType DEF TypeOK
<1>11. CASE Reread(w) \/ Conflict(w)
  <2> USE <1>11 DEF Reread, Conflict
  <2>1. hd[w] \in Handoffs /\ Cur(w) \in Legs
    BY <1>0, CurInLegs
  <2>2. leg[Cur(w)] \in LegStates
    BY <1>0, <2>1 DEF DbTypeOK
  <2>3. WorkerTypeOK'
    BY <1>0, <2>1, <2>2, GoToType, ResolvedType, RaiseType
  <2> QED
    BY <1>0, <2>3, FrameType DEF TypeOK
<1> QED
  BY <1>1, <1>2, <1>3, <1>4, <1>5, <1>6, <1>7, <1>8, <1>9, <1>10, <1>11 DEF Works

LEMMA TypeStep == TypeOK /\ [Next]_vars => TypeOK'
<1> SUFFICES ASSUME TypeOK, [Next]_vars PROVE TypeOK'
  OBVIOUS
<1> USE ModelSets, StepNames
<1>0. DbTypeOK /\ WorkerTypeOK /\ BrokerTypeOK
  BY DEF TypeOK
<1>1. ASSUME NEW h \in Handoffs, Intake(h) PROVE TypeOK'
  <2>1. DbTypeOK'
    BY <1>0, <1>1 DEF Intake, DbTypeOK
  <2> QED
    BY <1>0, <1>1, <2>1, FrameType DEF Intake, TypeOK
<1>2. ASSUME NEW w \in Workers, Fails(w) PROVE TypeOK'
  <2>1. CASE Crash(w)
    <3>1. WorkerTypeOK'
      BY <1>0, <2>1 DEF Crash, WorkerTypeOK, LegStates
    <3> QED
      BY <1>0, <2>1, <3>1, FrameType DEF Crash, TypeOK
  <2>2. CASE PostUncertain(w) \/ LookupFailed(w) \/ Interrupt(w)
    <3> USE <2>2 DEF PostUncertain, LookupFailed, Interrupt
    <3>1. hd[w] \in Handoffs
      BY <1>0, CurInLegs
    <3>2. {"SUBMISSION_UNCERTAIN"} \in SUBSET LegStates /\ LegStates \in SUBSET LegStates
      BY DEF LegStates, Unresolved
    <3>3. WorkerTypeOK'
      BY <1>0, <3>1, <3>2, GoRereadType, RaiseType DEF PlacementFailed
    <3> QED
      BY <1>0, <3>3, FrameType DEF TypeOK
  <2> QED
    BY <1>2, <2>1, <2>2 DEF Fails
<1>3. CASE Broker
  <2>1. BrokerTypeOK'
    BY <1>0, <1>3
       DEF Broker, BrokerAccepts, BrokerRefuses, PostLost, OrderMoves, BrokerTypeOK,
           gateVars
  <2> QED
    BY <1>0, <1>3, <2>1, FrameType
       DEF Broker, BrokerAccepts, BrokerRefuses, PostLost, OrderMoves, TypeOK
<1>4. CASE Tick
  <2>1. DbTypeOK'
    BY <1>0, <1>4 DEF Tick, DbTypeOK
  <2> QED
    BY <1>0, <1>4, <2>1, FrameType DEF Tick, TypeOK
<1>5. CASE AuthorityWithdrawn \/ AuthorityRestored
  <2>1. BrokerTypeOK'
    <3>1. authorized' = FALSE \/ authorized' = TRUE
      BY <1>5, Zenon DEF AuthorityWithdrawn, AuthorityRestored
    <3>2. late' = late \/ late' = [w \in Workers |-> 0]
      BY <1>5 DEF AuthorityWithdrawn, AuthorityRestored
    <3>3. late' \in [Workers -> Nat]
      BY <1>0, <3>2 DEF BrokerTypeOK
    <3>4. UNCHANGED brokerVars
      BY <1>5 DEF AuthorityWithdrawn, AuthorityRestored
    <3>5. authorized' \in BOOLEAN
      BY <3>1, Zenon
    <3> QED
      BY <1>0, <3>3, <3>4, <3>5 DEF BrokerTypeOK, brokerVars
  <2>2. UNCHANGED dbVars /\ UNCHANGED workerVars
    BY <1>5 DEF AuthorityWithdrawn, AuthorityRestored
  <2> QED
    BY <1>0, <2>1, <2>2, FrameType DEF TypeOK
<1>6. CASE UNCHANGED vars
  BY <1>0, <1>6, FrameType DEF vars, TypeOK
<1> QED
  BY <1>1, <1>2, <1>3, <1>4, <1>5, <1>6, WorkerTypeStep DEF Next

\* Every variable of a behaviour keeps its type.
THEOREM TypeCorrect == Spec => []TypeOK
<1> QED
  BY TypeInit, TypeStep, PTL DEF Spec

-----------------------------------------------------------------------------
(* The inductive invariant.                                                *)

Uncommitted == {"ABSENT", "PREPARED"}
Outcomes == Accepted \cup Closed
CommittedSteps == LegSteps \ {"leg", "preflight", "claimSubmission"}
StartSteps == {"idle", "claim", "renewClaim", "hydrate"}

\* What a worker at each step may rely on, whatever the others do meanwhile.
Local(w) ==
  /\ pc[w] \in LegSteps \ {"leg"} => leg[Cur(w)] # "ABSENT"
  /\ pc[w] \in CommittedSteps => leg[Cur(w)] \notin Uncommitted
  /\ pc[w] \in AttemptSteps => posts[Cur(w)] = 0
  /\ pc[w] \in {"await", "persistPost", "persistFound"} => posts[Cur(w)] = 1
  /\ pc[w] \in {"persistPost", "persistFound"} => obs[w] \in Outcomes
  /\ pc[w] \in LegSteps => Passed(hd[w], ix[w])
  /\ pc[w] \in StartSteps => ix[w] = 1
  /\ done[w] = TRUE => pc[w] = "finish" /\ Ended(hd[w])

\* Only one worker at a time owns the right to post a leg.
SoleOwner ==
  \A v, w \in Workers :
    v # w /\ pc[v] \in AttemptSteps /\ pc[w] \in AttemptSteps => Cur(v) # Cur(w)

\* No order before the commitment, and no trace of one without a POST.
PostsMatch ==
  \A l \in Legs :
    /\ leg[l] \in Uncommitted => posts[l] = 0
    /\ order[l] # "ABSENT" \/ l \in wire \/ reply[l] # "ABSENT" \/ leg[l] \in Outcomes
         => posts[l] = 1

\* A leg exists only when the legs before it are accepted.
Prefix ==
  \A h \in Handoffs, i \in LegIndexes :
    leg[<<h, i>>] # "ABSENT" => Passed(h, i)

IInv ==
  /\ TypeOK
  /\ \A w \in Workers : Local(w)
  /\ SoleOwner
  /\ PostsMatch
  /\ Prefix
  /\ AtMostOnePost
  /\ CompletedIsResolved

LEMMA Disjoint ==
  /\ Accepted \cap Closed = {} /\ Accepted \cap Unresolved = {}
  /\ Closed \cap Unresolved = {}
  /\ Uncommitted \cap (Accepted \cup Closed \cup Unresolved) = {}
  /\ LegStates = Uncommitted \cup Accepted \cup Closed \cup Unresolved
  /\ BrokerStates \subseteq Outcomes /\ "REJECTED" \in Outcomes
  /\ "ACTIVE" \in Outcomes
BY BrokerAssumption
   DEF Accepted, Closed, Unresolved, Uncommitted, Outcomes, LegStates

LEMMA StepSets ==
  /\ AttemptSteps = {"renewPost", "gate", "send"}
  /\ StartSteps = {"idle", "claim", "renewClaim", "hydrate"}
  /\ CommittedSteps = {"renewPost", "gate", "send", "await", "persistPost",
                       "renewLookup", "lookup", "markRequired", "persistFound",
                       "reread", "rereadPost", "conflict"}
  /\ LegSteps = CommittedSteps \cup {"leg", "preflight", "claimSubmission"}
BY DEF AttemptSteps, StartSteps, CommittedSteps, LegSteps

LEMMA InitIInv == Init => IInv
<1> SUFFICES ASSUME Init PROVE IInv
  OBVIOUS
<1>1. TypeOK
  BY TypeInit
<1>2. \A w \in Workers : Local(w)
  BY StepSets DEF Init, Local
<1>3. SoleOwner
  BY StepSets DEF Init, SoleOwner
<1>4. PostsMatch
  BY DEF Init, PostsMatch, Outcomes, Accepted, Closed
<1>5. Prefix
  BY DEF Init, Prefix, Legs
<1>6. AtMostOnePost /\ CompletedIsResolved
  BY DEF Init, AtMostOnePost, CompletedIsResolved
<1> QED
  BY <1>1, <1>2, <1>3, <1>4, <1>5, <1>6 DEF IInv

-----------------------------------------------------------------------------
(* Who writes the shared state.                                            *)

WritesLeg(w) ==
  \/ PersistPrepared(w) \/ ClaimSubmission(w) \/ MarkRequired(w)
  \/ PersistPost(w) \/ PersistFound(w)

LEMMA Writers ==
  ASSUME [Next]_vars
  PROVE  /\ leg' = leg \/ \E w \in Workers : WritesLeg(w)
         /\ posts' = posts \/ \E w \in Workers : Send(w)
<1>1. ASSUME NEW w \in Workers, Works(w)
      PROVE  (leg' = leg \/ WritesLeg(w)) /\ (posts' = posts \/ Send(w))
  BY <1>1
     DEF Works, WritesLeg, Discover, Claim, RenewClaim, Hydrate, FinishClaim,
         PersistPrepared, Preflight, ClaimSubmission, RenewPost, RenewThen, Gate,
         Send, PostAnswered, PersistPost, RenewLookup, LookupNothing, LookupFound,
         MarkRequired, PersistFound, Reread, Conflict, dbVars, brokerVars
<1>2. ASSUME NEW w \in Workers, Fails(w) PROVE leg' = leg /\ posts' = posts
  BY <1>2 DEF Fails, PostUncertain, LookupFailed, Crash, Interrupt, dbVars, brokerVars
<1>3. ASSUME Broker \/ Tick \/ AuthorityWithdrawn \/ AuthorityRestored
             \/ \E h \in Handoffs : Intake(h)
      PROVE  leg' = leg /\ posts' = posts
  BY <1>3
     DEF Broker, BrokerAccepts, BrokerRefuses, PostLost, OrderMoves, Tick, Intake,
         AuthorityWithdrawn, AuthorityRestored, dbVars, brokerVars
<1>4. CASE UNCHANGED vars
  BY <1>4 DEF vars, dbVars, brokerVars
<1> QED
  BY <1>1, <1>2, <1>3, <1>4 DEF Next

LEMMA ForwardStep ==
  ASSUME IInv, [Next]_vars
  PROVE  TriggerAllows
<1>1. CASE leg' = leg
  BY <1>1 DEF TriggerAllows
<1>2. ASSUME NEW w \in Workers, WritesLeg(w) PROVE TriggerAllows
  <2>1. TypeOK /\ DbTypeOK /\ WorkerTypeOK /\ Local(w)
    BY DEF IInv, TypeOK
  <2>2. Cur(w) \in Legs
    BY <1>2, <2>1, CurInLegs, StepNames
       DEF WritesLeg, PersistPrepared, ClaimSubmission, MarkRequired, PersistPost,
           PersistFound
  <2>3. CASE PersistPrepared(w)
    BY <2>1, <2>2, <2>3 DEF PersistPrepared, DbTypeOK, TriggerAllows
  <2>4. CASE ClaimSubmission(w) \/ MarkRequired(w)
    BY <2>1, <2>2, <2>4
       DEF ClaimSubmission, MarkRequired, MoveLeg, DbTypeOK, TriggerAllows
  <2>5. CASE PersistPost(w) \/ PersistFound(w)
    <3>1. obs[w] \in Outcomes
      BY <2>1, <2>5 DEF Local, PersistPost, PersistFound
    <3> QED
      BY <2>1, <2>2, <2>5, <3>1
         DEF PersistPost, PersistFound, MoveLeg, DbTypeOK, TriggerAllows, Outcomes,
             Unresolved
  <2> QED
    BY <1>2, <2>3, <2>4, <2>5 DEF WritesLeg
<1> QED
  BY <1>1, <1>2, Writers

LEMMA Stable ==
  ASSUME IInv, [Next]_vars
  PROVE  /\ \A l \in Legs : leg[l] # "ABSENT" => leg'[l] # "ABSENT"
         /\ \A l \in Legs : leg[l] \notin Uncommitted => leg'[l] \notin Uncommitted
         /\ \A l \in Legs : leg[l] \in Accepted => leg'[l] \in Accepted
         /\ \A l \in Legs : leg[l] \in Closed => leg'[l] \in Closed
         /\ \A h \in Handoffs, i \in LegIndexes : Passed(h, i) => Passed(h, i)'
         /\ \A h \in Handoffs : Ended(h) => Ended(h)'
<1>1. /\ \A l \in Legs : leg[l] # "ABSENT" => leg'[l] # "ABSENT"
      /\ \A l \in Legs : leg[l] \notin Uncommitted => leg'[l] \notin Uncommitted
      /\ \A l \in Legs : leg[l] \in Accepted => leg'[l] \in Accepted
      /\ \A l \in Legs : leg[l] \in Closed => leg'[l] \in Closed
  BY ForwardStep DEF TriggerAllows, Uncommitted, Accepted, Closed
<1>2. \A h \in Handoffs, i \in LegIndexes : <<h, i>> \in Legs
  BY DEF Legs
<1>3. \A h \in Handoffs, i \in LegIndexes : Passed(h, i) => Passed(h, i)'
  BY <1>1, <1>2 DEF Passed
<1>4. \A h \in Handoffs : Ended(h) => Ended(h)'
  BY <1>1, <1>2, <1>3 DEF Ended
<1> QED
  BY <1>1, <1>3, <1>4

-----------------------------------------------------------------------------
(* What a worker relies on survives the steps of everybody else.           *)

Stays(v) ==
  /\ pc'[v] = pc[v] /\ hd'[v] = hd[v] /\ ix'[v] = ix[v]
  /\ obs'[v] = obs[v] /\ done'[v] = done[v]

LEMMA OthersStay ==
  ASSUME WorkerTypeOK, NEW w \in Workers, Works(w) \/ Fails(w),
         NEW v \in Workers, v # w
  PROVE  Stays(v)
<1> USE DEF WorkerTypeOK, Stays
<1>1. CASE Discover(w) \/ Claim(w) \/ FinishClaim(w) \/ Crash(w)
  BY <1>1 DEF Discover, Claim, FinishClaim, Crash
<1>2. CASE RenewClaim(w) \/ Preflight(w) \/ RenewPost(w) \/ RenewLookup(w) \/ Hydrate(w)
  BY <1>2
     DEF RenewClaim, Preflight, RenewPost, RenewLookup, RenewThen, Hydrate,
         GoTo, ClaimLost, Raise, GoFinish
<1>3. CASE PersistPrepared(w)
  <2> DEFINE t == IF leg[Cur(w)] = "ABSENT" THEN "PREPARED" ELSE leg[Cur(w)]
  <2>1. GoTo(w, "preflight") \/ GoWith(w, "renewLookup", t) \/ Resolved(w, t)
    BY <1>3 DEF PersistPrepared
  <2> QED
    BY <2>1 DEF GoTo, GoWith, Resolved, GoFinish
<1>4. CASE ClaimSubmission(w) \/ MarkRequired(w) \/ PersistPost(w) \/ PersistFound(w)
  BY <1>4
     DEF ClaimSubmission, MarkRequired, PersistPost, PersistFound, GoTo, GoReread
<1>5. CASE Gate(w) \/ Send(w) \/ PostAnswered(w) \/ LookupNothing(w) \/ LookupFound(w)
  BY <1>5
     DEF Gate, Send, PostAnswered, LookupNothing, LookupFound, PlacementFailed,
         GoTo, GoReread, GoWith
<1>6. CASE Reread(w) \/ Conflict(w)
  BY <1>6 DEF Reread, Conflict, Resolved, Raise, GoTo, GoFinish
<1>7. CASE PostUncertain(w) \/ LookupFailed(w) \/ Interrupt(w)
  BY <1>7
     DEF PostUncertain, LookupFailed, Interrupt, PlacementFailed, GoReread, Raise,
         GoFinish
<1> QED
  BY <1>1, <1>2, <1>3, <1>4, <1>5, <1>6, <1>7 DEF Works, Fails

LEMMA StaysOrActs ==
  ASSUME WorkerTypeOK, [Next]_vars, NEW v \in Workers
  PROVE  Stays(v) \/ Works(v) \/ Fails(v)
<1>1. ASSUME NEW w \in Workers, Works(w) \/ Fails(w), ~(Works(v) \/ Fails(v))
      PROVE  Stays(v)
  BY <1>1, OthersStay
<1>2. ASSUME \/ Broker \/ Tick \/ AuthorityWithdrawn \/ AuthorityRestored
             \/ (\E h \in Handoffs : Intake(h)) \/ UNCHANGED vars
      PROVE  Stays(v)
  BY <1>2
     DEF Broker, BrokerAccepts, BrokerRefuses, PostLost, OrderMoves, Tick, Intake,
         AuthorityWithdrawn, AuthorityRestored, vars, workerVars, Stays
<1> QED
  BY <1>1, <1>2 DEF Next

LEMMA Bystander ==
  ASSUME IInv, [Next]_vars, NEW v \in Workers, Stays(v), ~Send(v)
  PROVE  Local(v)'
<1>0. TypeOK /\ DbTypeOK /\ WorkerTypeOK /\ BrokerTypeOK /\ Local(v)
  BY DEF IInv, TypeOK
<1>1. Cur(v)' = Cur(v)
  BY DEF Stays, Cur
<1>2. pc[v] \in ClaimSteps => hd[v] \in Handoffs /\ Cur(v) \in Legs
  BY <1>0, CurInLegs
<1>3. ix[v] \in LegIndexes
  BY <1>0 DEF WorkerTypeOK
<1>4. pc[v] \in AttemptSteps \cup {"await", "persistPost", "persistFound"}
        => posts'[Cur(v)] = posts[Cur(v)]
  <2>1. ASSUME NEW w \in Workers, Send(w),
               pc[v] \in AttemptSteps \cup {"await", "persistPost", "persistFound"}
        PROVE  posts'[Cur(v)] = posts[Cur(v)]
    <3>1. w # v /\ Local(w) /\ pc[w] \in AttemptSteps /\ Cur(w) \in Legs
      BY <1>0, <2>1, StepSets, CurInLegs, StepNames DEF IInv, Send
    <3>2. posts[Cur(w)] = 0
      BY <3>1 DEF Local
    <3>3. Cur(v) # Cur(w)
      BY <1>0, <2>1, <3>1, <3>2 DEF Local, IInv, SoleOwner
    <3> QED
      BY <1>0, <1>2, <2>1, <3>1, <3>3, ModelSets, StepSets, StepNames
         DEF Send, BrokerTypeOK
  <2> QED
    BY <2>1, Writers
<1>5. pc[v] \in LegSteps => pc[v] \in ClaimSteps
  BY ModelSets
<1>6. done[v] = TRUE => Ended(hd[v]) /\ hd[v] \in Handoffs
  BY <1>0 DEF Local, WorkerTypeOK
<1>7. pc[v] \in LegSteps => Passed(hd[v], ix[v])'
  BY <1>0, <1>2, <1>3, <1>5, Stable DEF Local, Stays, Passed
<1>8. done[v] = TRUE => Ended(hd[v])'
  BY <1>6, Stable DEF Stays, Ended, Passed
<1>9. /\ pc[v] \in CommittedSteps => leg'[Cur(v)] \notin Uncommitted
      /\ pc[v] \in LegSteps \ {"leg"} => leg'[Cur(v)] # "ABSENT"
  BY <1>0, <1>2, <1>5, Stable, StepSets DEF Local
<1> QED
  BY <1>0, <1>1, <1>4, <1>7, <1>8, <1>9 DEF Local, Stays

-----------------------------------------------------------------------------
(* A worker's own steps establish what its next step relies on.            *)

LEMMA FinishLocal ==
  ASSUME WorkerTypeOK, NEW w \in Workers, ClaimLost(w) \/ Raise(w)
  PROVE  Local(w)'
BY StepSets DEF ClaimLost, Raise, GoFinish, WorkerTypeOK, Local

LEMMA ResolvedLocal ==
  ASSUME IInv, NEW w \in Workers, UNCHANGED leg, pc[w] \in LegSteps,
         leg[Cur(w)] \notin Uncommitted, Resolved(w, leg[Cur(w)])
  PROVE  Local(w)'
<1>0. TypeOK /\ DbTypeOK /\ WorkerTypeOK /\ Local(w) /\ Passed(hd[w], ix[w])
  BY DEF IInv, TypeOK, Local
<1>1. hd[w] \in Handoffs /\ Cur(w) \in Legs /\ ix[w] \in LegIndexes
  BY <1>0, CurInLegs, ModelSets DEF WorkerTypeOK
<1>2. CASE leg[Cur(w)] \in Accepted /\ ix[w] < NumLegs
  <2>1. /\ pc'[w] = "leg" /\ hd'[w] = hd[w] /\ ix'[w] = ix[w] + 1
        /\ done'[w] = done[w]
    BY <1>0, <1>2 DEF Resolved, WorkerTypeOK
  <2>2. Passed(hd[w], ix[w] + 1)
    <3> SUFFICES ASSUME NEW j \in LegIndexes, j < ix[w] + 1
                 PROVE  leg[<<hd[w], j>>] \in Accepted
      BY DEF Passed
    <3>0. j \in Nat /\ ix[w] \in Nat
      BY <1>1 DEF LegIndexes
    <3>1. j < ix[w] \/ j = ix[w]
      BY <3>0
    <3> QED
      BY <1>0, <1>2, <3>1 DEF Passed, Cur
  <2>3. Passed(hd[w], ix[w])'
    BY <2>1, <2>2 DEF Passed
  <2>4. done'[w] # TRUE
    BY <1>0, <2>1, StepSets DEF Local
  <2> QED
    BY <2>1, <2>3, <2>4, StepSets DEF Local
<1>3. CASE ~(leg[Cur(w)] \in Accepted /\ ix[w] < NumLegs)
  <2>1. /\ pc'[w] = "finish" /\ hd'[w] = hd[w]
        /\ done'[w] = (leg[Cur(w)] \notin Unresolved)
    BY <1>0, <1>3 DEF Resolved, GoFinish, WorkerTypeOK
  <2>2. ASSUME leg[Cur(w)] \notin Unresolved PROVE Ended(hd[w])
    <3>1. leg[Cur(w)] \in Accepted \/ leg[Cur(w)] \in Closed
      BY <1>0, <1>1, <2>2, Disjoint DEF DbTypeOK
    <3>2. CASE leg[Cur(w)] \in Closed
      BY <1>0, <1>1, <3>2 DEF Ended, Cur
    <3>3. CASE leg[Cur(w)] \in Accepted
      <4>1. ix[w] = NumLegs
        BY <1>1, <1>3, <3>3, SizeAssumption DEF LegIndexes
      <4> QED
        BY <1>0, <4>1, <3>3, SizeAssumption DEF Ended, Passed, Cur, LegIndexes
    <3> QED
      BY <3>1, <3>2, <3>3
  <2>3. done'[w] = TRUE => Ended(hd[w])'
    BY <2>1, <2>2 DEF Ended, Passed
  <2> QED
    BY <2>1, <2>3, StepSets DEF Local
<1> QED
  BY <1>2, <1>3

LEMMA Mover ==
  ASSUME IInv, NEW w \in Workers, Works(w) \/ Fails(w)
  PROVE  Local(w)'
<1>0. /\ TypeOK /\ DbTypeOK /\ WorkerTypeOK /\ BrokerTypeOK /\ Local(w)
      /\ PostsMatch
  BY DEF IInv, TypeOK
<1>1. pc[w] \in ClaimSteps => hd[w] \in Handoffs /\ Cur(w) \in Legs
  BY <1>0, CurInLegs
<1>2. ix[w] \in LegIndexes /\ obs[w] \in LegStates
  BY <1>0 DEF WorkerTypeOK
<1>3. CASE Discover(w) \/ Claim(w) \/ FinishClaim(w) \/ Crash(w)
  <2>1. /\ pc'[w] \in StartSteps /\ ix'[w] = 1 /\ done'[w] # TRUE
    BY <1>0, <1>3, StepSets
       DEF Discover, Claim, FinishClaim, Crash, AfterHandoff, WorkerTypeOK, Local
  <2> QED
    BY <2>1, StepSets DEF Local
<1>4. CASE RenewClaim(w) \/ Hydrate(w)
  <2>1. CASE GoTo(w, "hydrate") \/ GoTo(w, "leg")
    <3>1. /\ pc'[w] \in {"hydrate", "leg"} /\ ix'[w] = 1 /\ done'[w] # TRUE
      BY <1>0, <1>4, <2>1, StepSets
         DEF RenewClaim, Hydrate, RenewThen, GoTo, WorkerTypeOK, Local
    <3>2. \A j \in LegIndexes : ~(j < ix'[w])
      <4>1. ix'[w] = 1
        BY <3>1
      <4> QED
        BY <4>1 DEF LegIndexes
    <3>3. Passed(hd[w], ix[w])'
      BY <3>2 DEF Passed
    <3> QED
      BY <3>1, <3>3, StepSets DEF Local
  <2> QED
    BY <1>0, <1>4, <2>1, FinishLocal DEF RenewClaim, Hydrate, RenewThen
<1>5. CASE Preflight(w) \/ RenewPost(w) \/ RenewLookup(w)
  <2>1. CASE \/ Preflight(w) /\ GoTo(w, "claimSubmission")
             \/ RenewPost(w) /\ GoTo(w, "gate")
             \/ RenewLookup(w) /\ GoTo(w, "lookup")
    <3>1. /\ hd'[w] = hd[w] /\ ix'[w] = ix[w] /\ done'[w] = done[w]
          /\ UNCHANGED <<leg, posts>>
      BY <2>1
         DEF GoTo, Preflight, RenewPost, RenewLookup, RenewThen, brokerVars
    <3>2. \/ pc[w] = "preflight" /\ pc'[w] = "claimSubmission"
          \/ pc[w] = "renewPost" /\ pc'[w] = "gate"
          \/ pc[w] = "renewLookup" /\ pc'[w] = "lookup"
      BY <1>0, <2>1 DEF GoTo, Preflight, RenewPost, RenewLookup, WorkerTypeOK
    <3> QED
      BY <1>0, <3>1, <3>2, StepSets DEF Local, Cur, Passed, Ended
  <2> QED
    BY <1>0, <1>5, <2>1, FinishLocal DEF Preflight, RenewPost, RenewLookup, RenewThen
<1>6. CASE PersistPrepared(w)
  <2> DEFINE t == IF leg[Cur(w)] = "ABSENT" THEN "PREPARED" ELSE leg[Cur(w)]
  <2>1. /\ pc[w] = "leg" /\ leg' = [leg EXCEPT ![Cur(w)] = t]
        /\ \/ t = "PREPARED" /\ GoTo(w, "preflight")
           \/ t \in Unresolved /\ GoWith(w, "renewLookup", t)
           \/ t \in Accepted \cup Closed /\ Resolved(w, t)
        /\ posts' = posts
    BY <1>6 DEF PersistPrepared, brokerVars
  <2>2. hd[w] \in Handoffs /\ Cur(w) \in Legs /\ pc[w] \in LegSteps
    BY <1>1, <2>1, StepNames, StepSets
  <2>3. Passed(hd[w], ix[w]) /\ done[w] # TRUE
    BY <1>0, <2>1, <2>2 DEF Local
  <2>4. CASE t = "PREPARED"
    <3>1. GoTo(w, "preflight") /\ leg'[Cur(w)] = "PREPARED"
      BY <1>0, <2>1, <2>2, <2>4, Disjoint DEF Uncommitted, DbTypeOK
    <3>2. pc'[w] = "preflight" /\ hd' = hd /\ ix' = ix /\ done' = done
      BY <1>0, <3>1 DEF GoTo, WorkerTypeOK
    <3>3. \A l \in Legs : leg[l] \in Accepted => leg'[l] \in Accepted
      BY <1>0, <2>1, <2>2, <2>4 DEF DbTypeOK, Accepted
    <3>4. Passed(hd[w], ix[w])'
      BY <2>2, <2>3, <3>2, <3>3 DEF Passed, Legs
    <3> QED
      BY <2>3, <3>1, <3>2, <3>4, StepSets DEF Local, Cur
  <2>5. CASE t # "PREPARED"
    <3>1. leg' = leg /\ t = leg[Cur(w)] /\ leg[Cur(w)] \notin Uncommitted
      BY <1>0, <2>1, <2>2, <2>5 DEF DbTypeOK, Uncommitted
    <3>2. CASE t \in Unresolved
      <4>1. GoWith(w, "renewLookup", t)
        BY <2>1, <2>5, <3>2, Disjoint
      <4>2. pc'[w] = "renewLookup" /\ hd' = hd /\ ix' = ix /\ done' = done
        BY <1>0, <4>1 DEF GoWith, WorkerTypeOK
      <4> QED
        BY <2>3, <3>1, <4>2, StepSets DEF Local, Passed, Cur, Uncommitted
    <3>3. CASE t \notin Unresolved
      <4>1. Resolved(w, leg[Cur(w)])
        BY <2>1, <2>5, <3>1, <3>3
      <4> QED
        BY <2>2, <3>1, <4>1, ResolvedLocal
    <3> QED
      BY <3>2, <3>3
  <2> QED
    BY <2>4, <2>5
<1>7. CASE ClaimSubmission(w) \/ MarkRequired(w) \/ PersistPost(w) \/ PersistFound(w)
  <2> USE DEF ClaimSubmission, MarkRequired, PersistPost, PersistFound
  <2>1. pc[w] \in LegSteps /\ Cur(w) \in Legs /\ hd[w] \in Handoffs
    BY <1>1, <1>7, StepNames, StepSets
  <2>2. [Next]_vars /\ posts' = posts
    BY <1>7 DEF Next, Works, brokerVars
  <2>3. Passed(hd[w], ix[w]) /\ done[w] # TRUE
    BY <1>0, <1>7, <2>1 DEF Local
  <2>4. hd' = hd /\ ix' = ix /\ done' = done
    BY <1>7 DEF GoTo, GoReread
  <2>5. Passed(hd[w], ix[w])'
    BY <1>2, <2>1, <2>2, <2>3, <2>4, Stable DEF Passed
  <2>6. CASE ClaimSubmission(w) /\ leg[Cur(w)] = "PREPARED"
    <3>1. pc'[w] = "renewPost" /\ leg'[Cur(w)] = "SUBMISSION_UNCERTAIN"
      BY <1>0, <2>1, <2>6 DEF GoTo, MoveLeg, WorkerTypeOK, DbTypeOK
    <3>2. posts[Cur(w)] = 0
      BY <1>0, <2>1, <2>6 DEF PostsMatch, Uncommitted
    <3>3. leg'[Cur(w)] \notin Uncommitted
      BY <3>1 DEF Uncommitted
    <3> QED
      BY <2>2, <2>3, <2>4, <2>5, <3>1, <3>2, <3>3, StepSets DEF Local, Cur
  <2>7. CASE ~(ClaimSubmission(w) /\ leg[Cur(w)] = "PREPARED")
    <3>1. pc'[w] \in {"reread", "rereadPost"}
      BY <1>0, <1>7, <2>7 DEF GoReread, WorkerTypeOK
    <3>2. leg[Cur(w)] \notin Uncommitted
      BY <1>0, <1>7, <2>1, <2>7, StepSets DEF Local, Uncommitted
    <3>3. leg'[Cur(w)] \notin Uncommitted
      BY <2>1, <2>2, <3>2, Stable
    <3> QED
      BY <2>2, <2>3, <2>4, <2>5, <3>1, <3>3, StepSets DEF Local, Cur, Uncommitted
  <2> QED
    BY <2>6, <2>7
<1>8. CASE Gate(w) \/ LookupNothing(w) \/ PostUncertain(w) \/ LookupFailed(w)
  <2> USE DEF Gate, LookupNothing, PostUncertain, LookupFailed, PlacementFailed
  <2>1. /\ hd' = hd /\ ix' = ix /\ done' = done
        /\ leg' = leg /\ posts' = posts
    BY <1>8 DEF GoTo, GoReread, dbVars, brokerVars
  <2>2. \/ pc[w] = "gate" /\ pc'[w] = "send"
        \/ pc[w] \in CommittedSteps
             /\ pc'[w] \in {"reread", "rereadPost", "markRequired"}
    BY <1>0, <1>8, StepSets DEF GoTo, GoReread, WorkerTypeOK
  <2> QED
    BY <1>0, <2>1, <2>2, StepSets DEF Local, Cur, Passed
<1>9. CASE Send(w)
  <2>1. /\ hd' = hd /\ ix' = ix /\ done' = done /\ leg' = leg
        /\ posts' = [posts EXCEPT ![Cur(w)] = @ + 1] /\ pc[w] = "send"
    BY <1>9 DEF Send, GoTo, GoWith, dbVars
  <2>2. \/ pc'[w] = "await"
        \/ pc'[w] = "persistPost" /\ obs'[w] = "ACTIVE"
    BY <1>0, <1>9 DEF Send, GoTo, GoWith, WorkerTypeOK
  <2>3. posts'[Cur(w)] = 1
    BY <1>0, <1>1, <2>1, StepSets, StepNames DEF Local, BrokerTypeOK
  <2> QED
    BY <1>0, <2>1, <2>2, <2>3, StepSets, Disjoint DEF Local, Cur, Passed
<1>10. CASE PostAnswered(w) \/ LookupFound(w)
  <2> USE DEF PostAnswered, LookupFound
  <2>1. /\ hd' = hd /\ ix' = ix /\ done' = done /\ leg' = leg /\ posts' = posts
        /\ pc[w] \in {"await", "lookup"}
    BY <1>10 DEF GoWith, dbVars, brokerVars
  <2>2. Cur(w) \in Legs
    BY <1>1, <2>1, StepNames
  <2>3. /\ pc'[w] \in {"persistPost", "persistFound"} /\ obs'[w] \in Outcomes
        /\ posts[Cur(w)] = 1
    <3>1. CASE PostAnswered(w)
      BY <1>0, <2>2, <3>1, Disjoint DEF GoWith, WorkerTypeOK, BrokerTypeOK, PostsMatch
    <3>2. CASE LookupFound(w)
      BY <1>0, <2>2, <3>2, Disjoint DEF GoWith, WorkerTypeOK, BrokerTypeOK, PostsMatch
    <3> QED
      BY <1>10, <3>1, <3>2
  <2> QED
    BY <1>0, <2>1, <2>3, StepSets DEF Local, Cur, Passed
<1>11. CASE Reread(w) \/ Conflict(w)
  <2>1. leg' = leg /\ posts' = posts /\ pc[w] \in CommittedSteps
    BY <1>11, StepSets DEF Reread, Conflict, dbVars, brokerVars
  <2>2. leg[Cur(w)] \notin Uncommitted /\ pc[w] \in LegSteps
    BY <1>0, <2>1, StepSets DEF Local
  <2>3. CASE Resolved(w, leg[Cur(w)])
    BY <2>1, <2>2, <2>3, ResolvedLocal
  <2>4. CASE Raise(w)
    BY <1>0, <2>4, FinishLocal
  <2>5. CASE GoTo(w, "conflict")
    <3>1. pc'[w] = "conflict" /\ hd' = hd /\ ix' = ix /\ done' = done
      BY <1>0, <2>5 DEF GoTo, WorkerTypeOK
    <3> QED
      BY <1>0, <2>1, <2>2, <3>1, StepSets DEF Local, Cur, Passed
  <2> QED
    BY <1>11, <2>3, <2>4, <2>5 DEF Reread, Conflict
<1>12. CASE Interrupt(w)
  BY <1>0, <1>12, FinishLocal DEF Interrupt
<1> QED
  BY <1>3, <1>4, <1>5, <1>6, <1>7, <1>8, <1>9, <1>10, <1>11, <1>12 DEF Works, Fails

-----------------------------------------------------------------------------
(* The invariant is inductive.                                             *)

LEMMA LocalStep ==
  ASSUME IInv, [Next]_vars
  PROVE  \A v \in Workers : Local(v)'
<1> SUFFICES ASSUME NEW v \in Workers PROVE Local(v)'
  OBVIOUS
<1>1. WorkerTypeOK
  BY DEF IInv, TypeOK
<1>2. CASE Works(v) \/ Fails(v)
  BY <1>2, Mover
<1>3. CASE ~(Works(v) \/ Fails(v))
  <2>1. ~Send(v)
    BY <1>3 DEF Works
  <2>2. Stays(v)
    BY <1>1, <1>3, StaysOrActs
  <2> QED
    BY <2>1, <2>2, Bystander
<1> QED
  BY <1>2, <1>3

\* A worker enters the attempt only by winning the compare-and-set.
LEMMA EntersAttempt ==
  ASSUME IInv, [Next]_vars, NEW w \in Workers,
         pc'[w] \in AttemptSteps, pc[w] \notin AttemptSteps
  PROVE  /\ ClaimSubmission(w) /\ leg[Cur(w)] = "PREPARED"
         /\ Cur(w)' = Cur(w)
<1>0. WorkerTypeOK
  BY DEF IInv, TypeOK
<1>1. ~Stays(w)
  BY DEF Stays
<1>2. Works(w) \/ Fails(w)
  BY <1>0, <1>1, StaysOrActs
<1>3. ~(RenewPost(w) \/ Gate(w) \/ Send(w))
  BY StepSets DEF RenewPost, Gate, Send
<1>4. CASE Discover(w) \/ Claim(w) \/ FinishClaim(w) \/ Crash(w)
  BY <1>0, <1>4, StepSets
     DEF Discover, Claim, FinishClaim, Crash, AfterHandoff, WorkerTypeOK
<1>5. CASE RenewClaim(w) \/ Preflight(w) \/ RenewLookup(w) \/ Hydrate(w)
  BY <1>0, <1>5, StepSets
     DEF RenewClaim, Preflight, RenewLookup, RenewThen, Hydrate, GoTo, ClaimLost,
         Raise, GoFinish, WorkerTypeOK
<1>6. CASE PersistPrepared(w)
  <2>1. \E t : GoTo(w, "preflight") \/ GoWith(w, "renewLookup", t) \/ Resolved(w, t)
    BY <1>6 DEF PersistPrepared
  <2> QED
    BY <1>0, <2>1, StepSets DEF GoTo, GoWith, Resolved, GoFinish, WorkerTypeOK
<1>7. CASE MarkRequired(w) \/ PersistPost(w) \/ PersistFound(w)
  BY <1>0, <1>7, StepSets
     DEF MarkRequired, PersistPost, PersistFound, GoReread, WorkerTypeOK
<1>8. CASE PostAnswered(w) \/ LookupNothing(w) \/ LookupFound(w)
  BY <1>0, <1>8, StepSets
     DEF PostAnswered, LookupNothing, LookupFound, GoTo, GoReread, GoWith,
         WorkerTypeOK
<1>9. CASE Reread(w) \/ Conflict(w)
  BY <1>0, <1>9, StepSets
     DEF Reread, Conflict, Resolved, Raise, GoTo, GoFinish, WorkerTypeOK
<1>10. CASE PostUncertain(w) \/ LookupFailed(w) \/ Interrupt(w)
  BY <1>0, <1>10, StepSets
     DEF PostUncertain, LookupFailed, Interrupt, PlacementFailed, GoReread, Raise,
         GoFinish, WorkerTypeOK
<1>11. ClaimSubmission(w)
  BY <1>2, <1>3, <1>4, <1>5, <1>6, <1>7, <1>8, <1>9, <1>10 DEF Works, Fails
<1>12. leg[Cur(w)] = "PREPARED" /\ hd' = hd /\ ix' = ix
  BY <1>0, <1>11, StepSets DEF ClaimSubmission, GoTo, GoReread, WorkerTypeOK
<1> QED
  BY <1>11, <1>12 DEF Cur

LEMMA SoleOwnerStep ==
  ASSUME IInv, [Next]_vars
  PROVE  SoleOwner'
<1> SUFFICES ASSUME NEW v \in Workers, NEW w \in Workers, v # w,
                    pc'[v] \in AttemptSteps, pc'[w] \in AttemptSteps
             PROVE  Cur(v)' # Cur(w)'
  BY DEF SoleOwner
<1>1. WorkerTypeOK /\ Local(v) /\ Local(w)
  BY DEF IInv, TypeOK
<1>2. ASSUME NEW x \in Workers, NEW y \in Workers, x # y,
             pc'[x] \in AttemptSteps, pc[x] \notin AttemptSteps,
             pc'[y] \in AttemptSteps
      PROVE  Cur(x)' # Cur(y)'
  <2>1. ClaimSubmission(x) /\ leg[Cur(x)] = "PREPARED" /\ Cur(x)' = Cur(x)
    BY <1>2, EntersAttempt
  <2>2. Stays(y)
    BY <1>1, <1>2, <2>1, OthersStay DEF Works
  <2>3. leg[Cur(y)] \notin Uncommitted
    BY <1>2, <2>2, StepSets DEF Stays, Local, IInv
  <2> QED
    BY <2>1, <2>2, <2>3 DEF Stays, Cur, Uncommitted
<1>3. CASE pc[v] \in AttemptSteps /\ pc[w] \in AttemptSteps
  <2>1. ASSUME NEW x \in Workers, pc[x] \in AttemptSteps, pc'[x] \in AttemptSteps
        PROVE  Cur(x)' = Cur(x)
    <3>1. CASE Stays(x)
      BY <3>1 DEF Stays, Cur
    <3>2. CASE RenewPost(x) \/ Gate(x) \/ Send(x) \/ Crash(x) \/ Interrupt(x)
      BY <1>1, <2>1, <3>2, StepSets
         DEF RenewPost, RenewThen, Gate, Send, Crash, Interrupt, Raise, GoTo, GoWith,
             ClaimLost, GoFinish, PlacementFailed, GoReread, WorkerTypeOK, Cur
    <3>3. CASE Works(x) \/ Fails(x)
      BY <2>1, <3>2, <3>3, StepSets
         DEF Works, Fails, Discover, Claim, RenewClaim, Hydrate, FinishClaim,
             PersistPrepared, Preflight, ClaimSubmission, PostAnswered, PersistPost,
             RenewLookup, LookupNothing, LookupFound, MarkRequired, PersistFound,
             Reread, Conflict, PostUncertain, LookupFailed
    <3> QED
      BY <1>1, <3>1, <3>3, StaysOrActs
  <2> QED
    BY <1>3, <2>1 DEF IInv, SoleOwner
<1> QED
  BY <1>2, <1>3

LEMMA PostsMatchStep ==
  ASSUME IInv, [Next]_vars
  PROVE  PostsMatch' /\ AtMostOnePost'
<1>0. TypeOK /\ DbTypeOK /\ WorkerTypeOK /\ BrokerTypeOK /\ PostsMatch /\ AtMostOnePost
  BY DEF IInv, TypeOK
<1>1. \A l \in Legs : leg[l] \notin Uncommitted => leg'[l] \notin Uncommitted
  BY Stable
<1>2. \A l \in Legs : posts[l] \in Nat /\ (posts[l] = 0 \/ posts[l] = 1)
  BY <1>0 DEF BrokerTypeOK, AtMostOnePost
<1>3. ASSUME NEW w \in Workers, Send(w) PROVE PostsMatch' /\ AtMostOnePost'
  <2>1. Local(w) /\ pc[w] = "send" /\ Cur(w) \in Legs
    BY <1>0, <1>3, CurInLegs, StepNames DEF IInv, Send
  <2>2. posts[Cur(w)] = 0 /\ leg[Cur(w)] \notin Uncommitted
    BY <2>1, StepSets DEF Local
  <2>3. /\ posts' = [posts EXCEPT ![Cur(w)] = 1] /\ leg' = leg
        /\ order' = order /\ reply' = reply /\ (wire' = wire \/ wire' = wire \cup {Cur(w)})
    BY <1>0, <1>3, <2>1, <2>2 DEF Send, dbVars, BrokerTypeOK
  <2> QED
    BY <1>0, <2>1, <2>2, <2>3 DEF PostsMatch, AtMostOnePost, BrokerTypeOK
<1>4. CASE posts' = posts
  <2>1. AtMostOnePost'
    BY <1>0, <1>4 DEF AtMostOnePost
  <2>2. \A l \in Legs : leg'[l] \in Uncommitted => posts'[l] = 0
    BY <1>0, <1>1, <1>4 DEF PostsMatch
  <2>3. \A l \in Legs : leg'[l] \in Outcomes => posts[l] = 1
    <3>1. CASE leg' = leg
      BY <1>0, <3>1 DEF PostsMatch
    <3>2. ASSUME NEW w \in Workers, WritesLeg(w)
          PROVE  \A l \in Legs : leg'[l] \in Outcomes => posts[l] = 1
      <4>1. Local(w) /\ Cur(w) \in Legs
        BY <1>0, <3>2, CurInLegs, StepNames
           DEF IInv, WritesLeg, PersistPrepared, ClaimSubmission, MarkRequired,
               PersistPost, PersistFound
      <4>2. \A l \in Legs : l # Cur(w) => leg'[l] = leg[l]
        BY <1>0, <3>2, <4>1
           DEF WritesLeg, PersistPrepared, ClaimSubmission, MarkRequired, PersistPost,
               PersistFound, MoveLeg, DbTypeOK
      <4>3. CASE PersistPost(w) \/ PersistFound(w)
        <5>1. posts[Cur(w)] = 1
          BY <4>1, <4>3 DEF Local, PersistPost, PersistFound
        <5> QED
          BY <1>0, <4>2, <5>1 DEF PostsMatch
      <4>4. CASE PersistPrepared(w) \/ ClaimSubmission(w) \/ MarkRequired(w)
        <5>1. leg'[Cur(w)] \in Outcomes => leg'[Cur(w)] = leg[Cur(w)]
          BY <1>0, <4>1, <4>4, Disjoint
             DEF PersistPrepared, ClaimSubmission, MarkRequired, MoveLeg, DbTypeOK,
                 Outcomes, Uncommitted, Unresolved
        <5> QED
          BY <1>0, <4>2, <5>1 DEF PostsMatch
      <4> QED
        BY <3>2, <4>3, <4>4 DEF WritesLeg
    <3> QED
      BY <3>1, <3>2, Writers
  <2>4. CASE wire' = wire /\ order' = order /\ reply' = reply
    BY <1>0, <1>4, <2>1, <2>2, <2>3, <2>4 DEF PostsMatch
  <2>5. CASE Broker
    BY <1>0, <1>4, <2>1, <2>2, <2>3, <2>5
       DEF Broker, BrokerAccepts, BrokerRefuses, PostLost, OrderMoves, PostsMatch,
           BrokerTypeOK
  <2>6. ASSUME NEW w \in Workers, Works(w) \/ Fails(w), ~Send(w)
        PROVE  wire' = wire /\ order' = order /\ reply' = reply
    BY <2>6
       DEF Works, Fails, Discover, Claim, RenewClaim, Hydrate, FinishClaim,
           PersistPrepared, Preflight, ClaimSubmission, RenewPost, RenewThen, Gate,
           PostAnswered, PersistPost, RenewLookup, LookupNothing, LookupFound,
           MarkRequired, PersistFound, Reread, Conflict, PostUncertain, LookupFailed,
           Crash, Interrupt, brokerVars
  <2>7. ASSUME \/ Tick \/ AuthorityWithdrawn \/ AuthorityRestored
               \/ (\E h \in Handoffs : Intake(h)) \/ UNCHANGED vars
        PROVE  wire' = wire /\ order' = order /\ reply' = reply
    BY <2>7 DEF Tick, AuthorityWithdrawn, AuthorityRestored, Intake, vars, brokerVars
  <2> QED
    BY <1>3, <2>4, <2>5, <2>6, <2>7 DEF Next
<1> QED
  BY <1>3, <1>4, Writers

LEMMA PrefixStep ==
  ASSUME IInv, [Next]_vars
  PROVE  Prefix'
<1> SUFFICES ASSUME NEW h \in Handoffs, NEW i \in LegIndexes,
                    leg'[<<h, i>>] # "ABSENT"
             PROVE  Passed(h, i)'
  BY DEF Prefix
<1>0. TypeOK /\ DbTypeOK /\ WorkerTypeOK /\ <<h, i>> \in Legs
  BY DEF IInv, TypeOK, Legs
<1>1. CASE leg[<<h, i>>] # "ABSENT"
  BY <1>1, Stable DEF IInv, Prefix
<1>2. CASE leg[<<h, i>>] = "ABSENT"
  <2>1. PICK w \in Workers : WritesLeg(w)
    BY <1>2, Writers
  <2>2. Local(w) /\ Cur(w) \in Legs /\ hd[w] \in Handoffs /\ ix[w] \in LegIndexes
    BY <1>0, <2>1, CurInLegs, StepNames
       DEF IInv, WritesLeg, PersistPrepared, ClaimSubmission, MarkRequired,
           PersistPost, PersistFound, WorkerTypeOK
  <2>3. Cur(w) = <<h, i>>
    BY <1>0, <1>2, <2>1, <2>2
       DEF WritesLeg, PersistPrepared, ClaimSubmission, MarkRequired, PersistPost,
           PersistFound, MoveLeg, DbTypeOK
  <2>4. pc[w] \in LegSteps
    BY <2>1, StepSets
       DEF WritesLeg, PersistPrepared, ClaimSubmission, MarkRequired, PersistPost,
           PersistFound
  <2>5. Passed(h, i)
    BY <2>2, <2>3, <2>4 DEF Local, Cur
  <2> QED
    BY <2>5, Stable
<1> QED
  BY <1>1, <1>2

LEMMA CompletedStep ==
  ASSUME IInv, [Next]_vars
  PROVE  CompletedIsResolved'
<1> SUFFICES ASSUME NEW h \in Handoffs, consumption'[h] = "COMPLETED"
             PROVE  Ended(h)'
  BY DEF CompletedIsResolved
<1>0. TypeOK /\ DbTypeOK /\ WorkerTypeOK
  BY DEF IInv, TypeOK
<1>1. CASE consumption[h] = "COMPLETED"
  BY <1>1, Stable DEF IInv, CompletedIsResolved
<1>2. CASE consumption[h] # "COMPLETED"
  <2>1. ASSUME NEW w \in Workers, FinishClaim(w) PROVE Ended(h)
    <3>1. done[w] = TRUE /\ hd[w] = h
      BY <1>0, <1>2, <2>1 DEF FinishClaim, DbTypeOK, WorkerTypeOK
    <3> QED
      BY <3>1 DEF IInv, Local
  <2>2. ASSUME NEW w \in Workers, Works(w) \/ Fails(w), ~FinishClaim(w), ~Claim(w)
        PROVE  consumption' = consumption
    BY <2>2
       DEF Works, Fails, Discover, RenewClaim, Hydrate, PersistPrepared, Preflight,
           ClaimSubmission, RenewPost, RenewThen, Gate, Send, PostAnswered,
           PersistPost, RenewLookup, LookupNothing, LookupFound, MarkRequired,
           PersistFound, Reread, Conflict, PostUncertain, LookupFailed, Crash,
           Interrupt, dbVars
  <2>3. ASSUME NEW w \in Workers, Claim(w) PROVE consumption'[h] # "COMPLETED"
    BY <1>0, <1>2, <2>3 DEF Claim, DbTypeOK
  <2>4. ASSUME NEW g \in Handoffs, Intake(g) PROVE consumption'[h] # "COMPLETED"
    BY <1>0, <1>2, <2>4 DEF Intake, DbTypeOK
  <2>5. ASSUME \/ Broker \/ Tick \/ AuthorityWithdrawn \/ AuthorityRestored
               \/ UNCHANGED vars
        PROVE  consumption' = consumption
    BY <2>5
       DEF Broker, BrokerAccepts, BrokerRefuses, PostLost, OrderMoves, Tick,
           AuthorityWithdrawn, AuthorityRestored, vars, dbVars
  <2>6. Ended(h)
    BY <1>2, <2>1, <2>2, <2>3, <2>4, <2>5 DEF Next
  <2> QED
    BY <2>6, Stable
<1> QED
  BY <1>1, <1>2

LEMMA IInvStep == IInv /\ [Next]_vars => IInv'
<1> SUFFICES ASSUME IInv, [Next]_vars PROVE IInv'
  OBVIOUS
<1>1. TypeOK'
  BY TypeStep DEF IInv
<1> QED
  BY <1>1, LocalStep, SoleOwnerStep, PostsMatchStep, PrefixStep, CompletedStep
     DEF IInv

\* The inductive invariant: what a worker at each step relies on, who may post,
\* what was posted and in which order, and what a completed handoff leaves.
THEOREM Invariance == Spec => []IInv
<1> QED
  BY InitIInv, IInvStep, PTL DEF Spec

\* However many workers crash, lose their claim or overtake each other,
\* place_order is delegated at most once per leg.
THEOREM NeverPostedTwice == Spec => []AtMostOnePost
<1>1. IInv => AtMostOnePost
  BY DEF IInv
<1> QED
  BY <1>1, Invariance, PTL

\* No order is placed before the earlier legs of its ladder were accepted.
THEOREM LadderInOrder == Spec => []LadderOrder
<1>1. IInv => LadderOrder
  <2> SUFFICES ASSUME IInv, NEW h \in Handoffs, NEW i \in LegIndexes,
                      NEW j \in LegIndexes, j < i, posts[<<h, i>>] > 0
               PROVE  leg[<<h, j>>] \in Accepted
    BY DEF LadderOrder
  <2>1. <<h, i>> \in Legs
    BY DEF Legs
  <2>2. leg[<<h, i>>] \notin Uncommitted
    BY <2>1 DEF IInv, PostsMatch
  <2> QED
    BY <2>2 DEF IInv, Prefix, Passed, Uncommitted
<1> QED
  BY <1>1, Invariance, PTL

\* A completed handoff has no unresolved leg.
THEOREM NothingLeftBehind == Spec => []CompletedIsResolved
<1>1. IInv => CompletedIsResolved
  BY DEF IInv
<1> QED
  BY <1>1, Invariance, PTL

\* No update of an interleaving is aborted by the leg's database trigger.
THEOREM LegsMoveForward == Spec => TriggerNeverFires
<1>1. IInv /\ [Next]_vars => [TriggerAllows]_vars
  BY ForwardStep
<1> QED
  BY <1>1, Invariance, PTL DEF Spec, TriggerNeverFires
=============================================================================
