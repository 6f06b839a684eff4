----------------------- MODULE SharedExecutorPromise -----------------------
(***************************************************************************)
(* Further proofs about the shared executor: it implements the abstract    *)
(* submission of SubmitOnce, recorded outcomes are true at the broker, a   *)
(* late answer resolves nothing, a claim is respected while it lasts, and  *)
(* a withdrawn authority stops every worker after one POST.                *)
(***************************************************************************)
EXTENDS SharedExecutorProofs

-----------------------------------------------------------------------------
(* The abstract submission.                                                *)

\* A write of a leg changes that leg only, and neither posts nor finishes.
LEMMA LegWrite ==
  ASSUME IInv, NEW w \in Workers, WritesLeg(w)
  PROVE  /\ Cur(w) \in Legs /\ hd[w] \in Handoffs /\ ix[w] \in LegIndexes
         /\ \A l \in Legs : l # Cur(w) => leg'[l] = leg[l]
         /\ UNCHANGED <<posts, consumption>>
<1>1. DbTypeOK /\ WorkerTypeOK
  BY DEF IInv, TypeOK
<1>2. Cur(w) \in Legs /\ hd[w] \in Handoffs /\ ix[w] \in LegIndexes
  BY <1>1, CurInLegs, StepNames
     DEF WritesLeg, PersistPrepared, ClaimSubmission, MarkRequired, PersistPost,
         PersistFound, WorkerTypeOK
<1>3. \A l \in Legs : l # Cur(w) => leg'[l] = leg[l]
  BY <1>1, <1>2
     DEF WritesLeg, PersistPrepared, ClaimSubmission, MarkRequired, PersistPost,
         PersistFound, MoveLeg, DbTypeOK
<1>4. UNCHANGED <<posts, consumption>>
  BY DEF WritesLeg, PersistPrepared, ClaimSubmission, MarkRequired, PersistPost,
         PersistFound, brokerVars
<1> QED
  BY <1>2, <1>3, <1>4

\* The abstract variables, and what the phases say of the states.
phaseBar == [l \in Legs |-> Phase(l)]
finishedBar == {h \in Handoffs : consumption[h] = "COMPLETED"}

LEMMA Phases ==
  ASSUME TypeOK, NEW l \in Legs
  PROVE  /\ Phase(l) = "idle" <=> leg[l] \in Uncommitted
         /\ Phase(l) = "committed" <=> leg[l] \in Unresolved
         /\ Phase(l) = "accepted" <=> leg[l] \in Accepted
         /\ Phase(l) = "closed" <=> leg[l] \in Closed
         /\ Phase(l) \in {"idle", "committed", "accepted", "closed"}
<1>1. leg[l] \in Uncommitted \cup Accepted \cup Closed \cup Unresolved
  BY Disjoint DEF TypeOK, DbTypeOK
<1> QED
  BY <1>1, Disjoint DEF Phase, Uncommitted

\* The same of the next state.
LEMMA NextPhases ==
  ASSUME TypeOK', NEW l \in Legs
  PROVE  /\ Phase(l)' = "idle" <=> leg'[l] \in Uncommitted
         /\ Phase(l)' = "committed" <=> leg'[l] \in Unresolved
         /\ Phase(l)' = "accepted" <=> leg'[l] \in Accepted
         /\ Phase(l)' = "closed" <=> leg'[l] \in Closed
<1>1. leg'[l] \in Uncommitted \cup Accepted \cup Closed \cup Unresolved
  BY Disjoint DEF TypeOK, DbTypeOK
<1> QED
  BY <1>1, Disjoint DEF Phase, Uncommitted

LEMMA PromiseInit == Init => Abstract!Init
<1> SUFFICES ASSUME Init PROVE Abstract!Init
  OBVIOUS
<1>1. Abstract!Legs = Legs
  BY DEF Abstract!Legs, Legs
<1>2. \A l \in Legs : Phase(l) = "idle"
  BY TypeInit, Phases DEF Init, Uncommitted
<1> QED
  BY <1>1, <1>2 DEF Init, Abstract!Init

\* What is abstractly reached and ended is what the legs say.
LEMMA Reaching ==
  ASSUME TypeOK, NEW h \in Handoffs
  PROVE  /\ \A i \in LegIndexes : Passed(h, i) =>
              \A j \in LegIndexes : j < i => phaseBar[<<h, j>>] = "accepted"
         /\ Ended(h) =>
              \/ \A i \in LegIndexes : phaseBar[<<h, i>>] = "accepted"
              \/ \E i \in LegIndexes :
                   /\ phaseBar[<<h, i>>] = "closed"
                   /\ \A j \in LegIndexes : j < i => phaseBar[<<h, j>>] = "accepted"
<1>1. \A i \in LegIndexes : <<h, i>> \in Legs
  BY DEF Legs
<1>2. \A i \in LegIndexes :
        /\ leg[<<h, i>>] \in Accepted => phaseBar[<<h, i>>] = "accepted"
        /\ leg[<<h, i>>] \in Closed => phaseBar[<<h, i>>] = "closed"
  BY <1>1, Phases DEF phaseBar
<1>3. \A i \in LegIndexes : Passed(h, i) =>
        \A j \in LegIndexes : j < i => phaseBar[<<h, j>>] = "accepted"
  BY <1>2 DEF Passed
<1> QED
  BY <1>2, <1>3 DEF Ended

\* A write of a leg commits it, resolves it, or is invisible.
LEMMA WriteImplements ==
  ASSUME IInv, IInv', [Next]_vars, NEW w \in Workers, WritesLeg(w)
  PROVE  [Abstract!Next]_(Abstract!vars)
<1>0. PICK h \in Handoffs, i \in LegIndexes : Cur(w) = <<h, i>>
  BY LegWrite DEF Cur
<1>1. /\ <<h, i>> \in Legs
      /\ \A l \in Legs : l # <<h, i>> => leg'[l] = leg[l]
      /\ UNCHANGED <<posts, consumption>>
  BY <1>0, LegWrite
<1>2. TypeOK /\ TypeOK' /\ Prefix /\ PostsMatch' /\ TriggerAllows
  BY ForwardStep DEF IInv
<1>3. \A l \in Legs : l # <<h, i>> => Phase(l)' = Phase(l)
  BY <1>1 DEF Phase
<1>4. UNCHANGED finishedBar
  BY <1>1 DEF finishedBar
<1>5. CASE Phase(<<h, i>>)' = Phase(<<h, i>>)
  <2>1. phaseBar' = phaseBar
    BY <1>3, <1>5 DEF phaseBar
  <2> QED
    BY <1>1, <1>4, <2>1 DEF Abstract!vars, phaseBar, finishedBar
<1>6. CASE Phase(<<h, i>>)' # Phase(<<h, i>>)
  <2>1. leg'[<<h, i>>] # leg[<<h, i>>]
    BY <1>6 DEF Phase
  <2>2. phaseBar' = [phaseBar EXCEPT ![<<h, i>>] = Phase(<<h, i>>)']
    BY <1>1, <1>3 DEF phaseBar
  <2>3. CASE leg[<<h, i>>] = "PREPARED" /\ leg'[<<h, i>>] = "SUBMISSION_UNCERTAIN"
    <3>1. Phase(<<h, i>>) = "idle" /\ Phase(<<h, i>>)' = "committed"
      BY <1>1, <1>2, <2>3, Phases, NextPhases DEF Uncommitted, Unresolved
    <3>2. Passed(h, i)
      BY <1>1, <1>2, <2>3 DEF Prefix
    <3>3. Abstract!Reached(h, i)
      BY <1>1, <1>2, <3>2, Reaching DEF Abstract!Reached, phaseBar
    <3>4. Abstract!Commit(h, i)
      BY <1>1, <1>4, <2>2, <3>1, <3>3 DEF Abstract!Commit, phaseBar, finishedBar
    <3> QED
      BY <1>1, <3>4 DEF Abstract!Next
  <2>4. CASE leg[<<h, i>>] \in Unresolved /\ leg'[<<h, i>>] \in Outcomes
    <3>1. Phase(<<h, i>>) = "committed" /\ Phase(<<h, i>>)' \in {"accepted", "closed"}
      BY <1>1, <1>2, <2>4, Phases, NextPhases DEF Outcomes
    <3>2. posts[<<h, i>>] = 1
      BY <1>1, <1>2, <2>4 DEF PostsMatch
    <3>3. Abstract!Resolve(h, i)
      BY <1>1, <1>4, <2>2, <3>1, <3>2 DEF Abstract!Resolve, phaseBar, finishedBar
    <3> QED
      BY <1>1, <3>3 DEF Abstract!Next
  <2>5. CASE leg[<<h, i>>] = "ABSENT" /\ leg'[<<h, i>>] = "PREPARED"
    BY <1>1, <1>2, <1>6, <2>5, Phases, NextPhases DEF Uncommitted
  <2>6. CASE leg[<<h, i>>] = "SUBMISSION_UNCERTAIN" /\ leg'[<<h, i>>] = "RECONCILIATION_REQUIRED"
    BY <1>1, <1>2, <1>6, <2>6, Phases, NextPhases DEF Unresolved
  <2> QED
    BY <1>1, <1>2, <2>1, <2>3, <2>4, <2>5, <2>6 DEF TriggerAllows, Unresolved, Outcomes
<1> QED
  BY <1>5, <1>6

\* A POST is the first one of a committed leg.
LEMMA SendImplements ==
  ASSUME IInv, NEW w \in Workers, Send(w)
  PROVE  Abstract!Next
<1>1. TypeOK /\ DbTypeOK /\ WorkerTypeOK /\ BrokerTypeOK /\ Local(w) /\ PostsMatch
  BY DEF IInv, TypeOK
<1>2. pc[w] = "send" /\ Cur(w) \in Legs
  BY <1>1, CurInLegs, StepNames DEF Send, WorkerTypeOK
<1>3. PICK h \in Handoffs, i \in LegIndexes : Cur(w) = <<h, i>>
  BY <1>2 DEF Legs
<1>4. /\ posts[<<h, i>>] = 0 /\ leg[<<h, i>>] \notin Uncommitted
  BY <1>1, <1>2, <1>3, StepSets DEF Local
<1>5. leg[<<h, i>>] \in Unresolved
  BY <1>1, <1>2, <1>3, <1>4, Disjoint DEF PostsMatch, DbTypeOK, Outcomes
<1>6. phaseBar[<<h, i>>] = "committed"
  BY <1>1, <1>2, <1>3, <1>5, Phases DEF phaseBar
<1>7. /\ posts' = [posts EXCEPT ![<<h, i>>] = 1] /\ UNCHANGED <<leg, consumption>>
  BY <1>1, <1>2, <1>3, <1>4 DEF Send, dbVars, BrokerTypeOK
<1>8. phaseBar' = phaseBar /\ finishedBar' = finishedBar
  BY <1>7 DEF phaseBar, finishedBar, Phase
<1>9. Abstract!Post(h, i)
  BY <1>4, <1>6, <1>7, <1>8 DEF Abstract!Post, phaseBar, finishedBar
<1> QED
  BY <1>2, <1>9 DEF Abstract!Next

\* A step that neither writes a leg nor posts finishes a handoff whose ladder
\* has ended, or is invisible.
LEMMA FinishImplements ==
  ASSUME IInv, [Next]_vars, leg' = leg, posts' = posts
  PROVE  [Abstract!Next]_(Abstract!vars)
<1>1. TypeOK /\ DbTypeOK /\ WorkerTypeOK
  BY DEF IInv, TypeOK
<1>2. phaseBar' = phaseBar
  BY DEF phaseBar, Phase
<1>3. CASE UNCHANGED finishedBar
  BY <1>2, <1>3 DEF Abstract!vars, phaseBar, finishedBar
<1>4. ASSUME NEW w \in Workers, FinishClaim(w)
      PROVE  [Abstract!Next]_(Abstract!vars)
  <2>1. CASE HoldsClaim(w, hd[w]) /\ done[w]
    <3>1. PICK h \in Handoffs : h = hd[w] /\ Ended(h)
      BY <1>1, <1>4, <2>1, StepNames DEF FinishClaim, IInv, Local, WorkerTypeOK
    <3>2. h \notin finishedBar /\ finishedBar' = finishedBar \cup {h}
      BY <1>1, <1>4, <2>1, <3>1 DEF FinishClaim, HoldsClaim, finishedBar, DbTypeOK
    <3>3. Abstract!Ended(h)
      BY <1>1, <3>1, Reaching DEF Abstract!Ended, Abstract!Reached, phaseBar
    <3>4. Abstract!Finish(h)
      BY <1>2, <3>2, <3>3 DEF Abstract!Finish, phaseBar, finishedBar
    <3> QED
      BY <3>1, <3>4 DEF Abstract!Next
  <2>2. CASE ~(HoldsClaim(w, hd[w]) /\ done[w])
    <3>1. UNCHANGED finishedBar
      BY <1>1, <1>4, <2>2 DEF FinishClaim, HoldsClaim, finishedBar, DbTypeOK
    <3> QED
      BY <1>3, <3>1
  <2> QED
    BY <2>1, <2>2
<1>5. ASSUME NEW w \in Workers, Works(w) \/ Fails(w), ~FinishClaim(w)
      PROVE  UNCHANGED finishedBar
  <2>1. CASE Claim(w)
    BY <1>1, <2>1 DEF Claim, Claimable, finishedBar, DbTypeOK
  <2>2. CASE ~Claim(w)
    BY <1>5, <2>2
       DEF Works, Fails, Discover, RenewClaim, Hydrate, PersistPrepared, Preflight,
           ClaimSubmission, RenewPost, RenewThen, Gate, Send, PostAnswered,
           PersistPost, RenewLookup, LookupNothing, LookupFound, MarkRequired,
           PersistFound, Reread, Conflict, PostUncertain, LookupFailed, Crash,
           Interrupt, dbVars, finishedBar
  <2> QED
    BY <2>1, <2>2
<1>6. ASSUME NEW h \in Handoffs, Intake(h) PROVE UNCHANGED finishedBar
  BY <1>1, <1>6 DEF Intake, finishedBar, DbTypeOK
<1>7. ASSUME Broker \/ Tick \/ AuthorityWithdrawn \/ AuthorityRestored \/ UNCHANGED vars
      PROVE  UNCHANGED finishedBar
  BY <1>7
     DEF Broker, BrokerAccepts, BrokerRefuses, PostLost, OrderMoves, Tick,
         AuthorityWithdrawn, AuthorityRestored, vars, dbVars, finishedBar
<1> QED
  BY <1>3, <1>4, <1>5, <1>6, <1>7 DEF Next

\* Every behaviour of the shared executor is one of the abstract submission:
\* legs are committed in order, posted once after that, resolved only when
\* posted, and handoffs finished only when their ladder has ended.
THEOREM KeepsThePromise == Spec => ImplementsSubmitOnce
<1>1. IInv /\ IInv' /\ [Next]_vars => [Abstract!Next]_(Abstract!vars)
  <2> SUFFICES ASSUME IInv, IInv', [Next]_vars PROVE [Abstract!Next]_(Abstract!vars)
    OBVIOUS
  <2>1. CASE \E w \in Workers : WritesLeg(w)
    BY <2>1, WriteImplements
  <2>2. CASE \E w \in Workers : Send(w)
    BY <2>2, SendImplements
  <2>3. CASE leg' = leg /\ posts' = posts
    BY <2>3, FinishImplements
  <2> QED
    BY <2>1, <2>2, <2>3, Writers
<1> QED
  BY <1>1, PromiseInit, Invariance, PTL DEF Spec, ImplementsSubmitOnce, Abstract!Spec

-----------------------------------------------------------------------------
(* Late answers.                                                           *)

\* Only what a lookup found moves a leg out of RECONCILIATION_REQUIRED: a
\* late answer to the POST never does, whoever waits for it.
THEOREM LateAnswersLose == Spec => LateAckNeverWins
<1>1. ASSUME IInv, [Next]_vars, NEW l \in Legs,
             leg[l] = "RECONCILIATION_REQUIRED", leg'[l] # leg[l]
      PROVE  \E w \in Workers : pc[w] = "persistFound" /\ Cur(w) = l
  <2>1. PICK w \in Workers : WritesLeg(w)
    BY <1>1, Writers
  <2>2. Cur(w) = l
    BY <1>1, <2>1, LegWrite
  <2>3. DbTypeOK
    BY <1>1 DEF IInv, TypeOK
  <2>4. ~(PersistPrepared(w) \/ ClaimSubmission(w) \/ MarkRequired(w) \/ PersistPost(w))
    BY <1>1, <2>2, <2>3
       DEF PersistPrepared, ClaimSubmission, MarkRequired, PersistPost, MoveLeg, DbTypeOK
  <2> QED
    BY <2>1, <2>2, <2>4 DEF WritesLeg, PersistFound
<1>2. IInv /\ [Next]_vars =>
        \A l \in Legs : leg[l] = "RECONCILIATION_REQUIRED" /\ leg'[l] # leg[l] =>
          \E w \in Workers : pc[w] = "persistFound" /\ Cur(w) = l
  BY <1>1
<1> QED
  BY <1>2, Invariance, PTL DEF Spec, LateAckNeverWins

-----------------------------------------------------------------------------
(* Claims.                                                                 *)

\* Only a claimed handoff has a lease.
LeaseInv ==
  TypeOK /\ \A h \in Handoffs : consumption[h] # "CLAIMED" => lease[h] = 0

\* Who changes a claim: the taker, the holder who renews, and the holder who
\* ends it; time only shortens a lease.
ClaimMoves(h) ==
  /\ lease[h] > 0 /\ claimToken'[h] # claimToken[h] =>
       \E w \in Workers : claimToken[h] = w /\ pc[w] = "finish" /\ hd[w] = h
  /\ lease'[h] > lease[h] =>
       \E w \in Workers : claimToken'[h] = w /\ hd'[w] = h
  /\ lease[h] = 0 /\ lease'[h] > 0 =>
       \E w \in Workers : pc[w] = "claim" /\ hd'[w] = h

LEMMA LeaseStep ==
  ASSUME LeaseInv, [Next]_vars
  PROVE  LeaseInv' /\ \A h \in Handoffs : ClaimMoves(h)
<1>1. TypeOK /\ TypeOK' /\ DbTypeOK /\ WorkerTypeOK
  BY TypeStep DEF LeaseInv, TypeOK
<1> DEFINE Keeps == /\ \A h \in Handoffs : consumption'[h] # "CLAIMED" => lease'[h] = 0
                    /\ \A h \in Handoffs : ClaimMoves(h)
<1>2. ASSUME UNCHANGED <<consumption, claimToken, lease>> PROVE Keeps
  <2>1. \A h \in Handoffs : lease[h] \in Nat
    BY <1>1 DEF DbTypeOK
  <2> QED
    BY <1>1, <1>2, <2>1 DEF LeaseInv, ClaimMoves
<1>3. ASSUME NEW w \in Workers, Claim(w) PROVE Keeps
  <2>1. PICK g \in Handoffs :
          \/ UNCHANGED <<consumption, claimToken, lease>>
          \/ /\ Claimable(g)
             /\ consumption' = [consumption EXCEPT ![g] = "CLAIMED"]
             /\ claimToken' = [claimToken EXCEPT ![g] = w]
             /\ lease' = [lease EXCEPT ![g] = ClaimLease]
             /\ hd' = [hd EXCEPT ![w] = g] /\ pc[w] = "claim"
    BY <1>3 DEF Claim
  <2>2. CASE UNCHANGED <<consumption, claimToken, lease>>
    BY <1>1, <2>2 DEF LeaseInv, ClaimMoves, DbTypeOK
  <2>3. CASE /\ Claimable(g)
             /\ consumption' = [consumption EXCEPT ![g] = "CLAIMED"]
             /\ claimToken' = [claimToken EXCEPT ![g] = w]
             /\ lease' = [lease EXCEPT ![g] = ClaimLease]
             /\ hd' = [hd EXCEPT ![w] = g] /\ pc[w] = "claim"
    <3>1. lease[g] = 0 /\ claimToken'[g] = w /\ hd'[w] = g
      BY <1>1, <2>3 DEF LeaseInv, Claimable, DbTypeOK, WorkerTypeOK
    <3>2. \A h \in Handoffs \ {g} : /\ consumption'[h] = consumption[h]
                                    /\ claimToken'[h] = claimToken[h] /\ lease'[h] = lease[h]
      BY <1>1, <2>3 DEF DbTypeOK
    <3>3. consumption'[g] = "CLAIMED"
      BY <1>1, <2>3 DEF DbTypeOK
    <3>4. \A h \in Handoffs : lease[h] \in Nat
      BY <1>1 DEF DbTypeOK
    <3> QED
      BY <2>3, <3>1, <3>2, <3>3, <3>4 DEF LeaseInv, ClaimMoves
  <2> QED
    BY <2>1, <2>2, <2>3
<1>4. ASSUME NEW w \in Workers, NEW step \in Steps, RenewThen(w, step), hd[w] \in Handoffs
      PROVE  Keeps
  <2>1. CASE HoldsClaim(w, hd[w])
    <3>1. /\ lease' = [lease EXCEPT ![hd[w]] = Lease] /\ hd' = hd
          /\ UNCHANGED <<consumption, claimToken>>
      BY <1>4, <2>1 DEF RenewThen, GoTo
    <3>2. \A h \in Handoffs : lease[h] \in Nat
      BY <1>1 DEF DbTypeOK
    <3>3. \A h \in Handoffs \ {hd[w]} : lease'[h] = lease[h]
      BY <1>1, <3>1 DEF DbTypeOK
    <3> QED
      BY <1>4, <2>1, <3>1, <3>2, <3>3 DEF LeaseInv, ClaimMoves, HoldsClaim
  <2>2. CASE ~HoldsClaim(w, hd[w])
    BY <1>2, <1>4, <2>2 DEF RenewThen
  <2> QED
    BY <2>1, <2>2
<1>5. ASSUME NEW w \in Workers, FinishClaim(w) PROVE Keeps
  <2>1. CASE HoldsClaim(w, hd[w])
    <3>1. /\ hd[w] \in Handoffs /\ pc[w] = "finish" /\ claimToken[hd[w]] = w
          /\ lease'[hd[w]] = 0
          /\ \A h \in Handoffs \ {hd[w]} :
               /\ consumption'[h] = consumption[h] /\ claimToken'[h] = claimToken[h]
               /\ lease'[h] = lease[h]
      BY <1>1, <1>5, <2>1, StepNames DEF FinishClaim, HoldsClaim, DbTypeOK, WorkerTypeOK
    <3>2. \A h \in Handoffs : lease[h] \in Nat
      BY <1>1 DEF DbTypeOK
    <3> QED
      BY <3>1, <3>2 DEF LeaseInv, ClaimMoves
  <2>2. CASE ~HoldsClaim(w, hd[w])
    BY <1>2, <1>5, <2>2 DEF FinishClaim
  <2> QED
    BY <2>1, <2>2
<1>6. ASSUME NEW w \in Workers, Works(w) \/ Fails(w) PROVE Keeps
  <2>1. CASE RenewClaim(w) \/ Preflight(w) \/ RenewPost(w) \/ RenewLookup(w)
    <3>1. hd[w] \in Handoffs
      BY <1>1, <2>1, CurInLegs, StepNames
         DEF RenewClaim, Preflight, RenewPost, RenewLookup
    <3>2. {"hydrate", "claimSubmission", "gate", "lookup"} \subseteq Steps
      BY DEF Steps, ClaimSteps, LegSteps, AttemptSteps
    <3> QED
      BY <1>4, <2>1, <3>1, <3>2 DEF RenewClaim, Preflight, RenewPost, RenewLookup
  <2>2. CASE /\ ~(RenewClaim(w) \/ Preflight(w) \/ RenewPost(w) \/ RenewLookup(w))
             /\ ~Claim(w) /\ ~FinishClaim(w)
    <3>1. UNCHANGED <<consumption, claimToken, lease>>
      BY <1>6, <2>2
         DEF Works, Fails, Discover, Hydrate, PersistPrepared, ClaimSubmission, Gate,
             Send, PostAnswered, PersistPost, LookupNothing, LookupFound, MarkRequired,
             PersistFound, Reread, Conflict, PostUncertain, LookupFailed, Crash,
             Interrupt, dbVars
    <3> QED
      BY <1>2, <3>1
  <2> QED
    BY <1>3, <1>5, <2>1, <2>2
<1>7. ASSUME NEW g \in Handoffs, Intake(g) PROVE Keeps
  <2>1. \A h \in Handoffs : consumption'[h] # "CLAIMED" => consumption[h] # "CLAIMED"
    BY <1>1, <1>7 DEF Intake, DbTypeOK
  <2> QED
    BY <1>1, <1>7, <2>1 DEF Intake, LeaseInv, ClaimMoves, DbTypeOK
<1>8. ASSUME Tick PROVE Keeps
  <2>1. \A h \in Handoffs : lease[h] \in Nat /\ lease'[h] <= lease[h] /\ (lease[h] = 0 => lease'[h] = 0)
    BY <1>1, <1>8 DEF Tick, DbTypeOK
  <2>2. \A h \in Handoffs : lease'[h] \in Nat
    BY <1>1 DEF TypeOK, DbTypeOK
  <2> QED
    BY <1>8, <2>1, <2>2 DEF Tick, LeaseInv, ClaimMoves
<1>9. ASSUME Broker \/ AuthorityWithdrawn \/ AuthorityRestored \/ UNCHANGED vars
      PROVE  Keeps
  <2>1. UNCHANGED <<consumption, claimToken, lease>>
    BY <1>9 DEF Broker, BrokerAccepts, BrokerRefuses, PostLost, OrderMoves,
                AuthorityWithdrawn, AuthorityRestored, vars, dbVars
  <2> QED
    BY <1>2, <2>1
<1> QED
  BY <1>1, <1>6, <1>7, <1>8, <1>9 DEF Next, LeaseInv

\* While a lease lasts nobody but its holder ends the claim, and a lease that
\* ran out only comes back through a new claim.
THEOREM ClaimsAreRespected == Spec => ClaimDiscipline
<1>1. Init => LeaseInv
  BY TypeInit DEF Init, LeaseInv
<1>2. LeaseInv /\ [Next]_vars => LeaseInv'
  BY LeaseStep
<1>3. LeaseInv /\ [Next]_vars =>
        \A h \in Handoffs :
          /\ lease[h] > 0 /\ claimToken'[h] # claimToken[h] =>
               \E w \in Workers : claimToken[h] = w /\ pc[w] = "finish" /\ hd[w] = h
          /\ lease'[h] > lease[h] =>
               \E w \in Workers : claimToken'[h] = w /\ hd'[w] = h
          /\ lease[h] = 0 /\ lease'[h] > 0 =>
               \E w \in Workers : pc[w] = "claim" /\ hd'[w] = h
  BY LeaseStep DEF ClaimMoves
<1> QED
  BY <1>1, <1>2, <1>3, PTL DEF Spec, ClaimDiscipline

-----------------------------------------------------------------------------
(* How a worker comes to send and to record.                               *)

LEMMA Enters ==
  ASSUME WorkerTypeOK, NEW w \in Workers, Works(w) \/ Fails(w)
  PROVE  /\ pc'[w] = "send" => Gate(w)
         /\ pc'[w] = "persistPost" => PostAnswered(w) \/ Send(w)
         /\ pc'[w] = "persistFound" => LookupFound(w)
<1> DEFINE Other == pc'[w] \notin {"send", "persistPost", "persistFound"}
<1>1. CASE Gate(w)
  BY <1>1 DEF Gate, PlacementFailed, GoReread, GoTo, WorkerTypeOK
<1>2. CASE PostAnswered(w) \/ Send(w)
  BY <1>2 DEF PostAnswered, Send, GoTo, GoWith, WorkerTypeOK
<1>3. CASE LookupFound(w)
  BY <1>3 DEF LookupFound, GoWith, WorkerTypeOK
<1>4. ASSUME Discover(w) \/ Claim(w) \/ FinishClaim(w) \/ Crash(w) PROVE Other
  BY <1>4 DEF Discover, Claim, FinishClaim, Crash, AfterHandoff, WorkerTypeOK
<1>5. ASSUME \/ RenewClaim(w) \/ Preflight(w) \/ RenewPost(w) \/ RenewLookup(w)
             \/ Hydrate(w)
      PROVE  Other
  BY <1>5
     DEF RenewClaim, Preflight, RenewPost, RenewLookup, RenewThen, Hydrate, GoTo,
         ClaimLost, Raise, GoFinish, WorkerTypeOK
<1>6. ASSUME PersistPrepared(w) PROVE Other
  <2>1. \E t : GoTo(w, "preflight") \/ GoWith(w, "renewLookup", t) \/ Resolved(w, t)
    BY <1>6 DEF PersistPrepared
  <2> QED
    BY <2>1 DEF GoTo, GoWith, Resolved, GoFinish, WorkerTypeOK
<1>7. ASSUME ClaimSubmission(w) \/ MarkRequired(w) \/ PersistPost(w) \/ PersistFound(w)
      PROVE  Other
  BY <1>7
     DEF ClaimSubmission, MarkRequired, PersistPost, PersistFound, GoTo, GoReread,
         WorkerTypeOK
<1>8. ASSUME LookupNothing(w) \/ Reread(w) \/ Conflict(w) PROVE Other
  BY <1>8
     DEF LookupNothing, Reread, Conflict, Resolved, Raise, GoTo, GoReread, GoFinish,
         WorkerTypeOK
<1>9. ASSUME PostUncertain(w) \/ LookupFailed(w) \/ Interrupt(w) PROVE Other
  BY <1>9
     DEF PostUncertain, LookupFailed, Interrupt, PlacementFailed, GoReread, Raise,
         GoFinish, WorkerTypeOK
<1> QED
  BY <1>1, <1>2, <1>3, <1>4, <1>5, <1>6, <1>7, <1>8, <1>9 DEF Works, Fails

-----------------------------------------------------------------------------
(* Stopping.                                                               *)

\* A worker is about to send only after a check that the authority passed.
StopInv ==
  /\ TypeOK
  /\ Mode = "DRY_RUN" => authorized
  /\ authorized => \A w \in Workers : late[w] = 0
  /\ \A w \in Workers : pc[w] = "send" => late[w] = 0
  /\ StopBounded

LEMMA StopStep == StopInv /\ [Next]_vars => StopInv'
<1> SUFFICES ASSUME StopInv, [Next]_vars PROVE StopInv'
  OBVIOUS
<1>1. TypeOK /\ TypeOK' /\ WorkerTypeOK /\ BrokerTypeOK
  BY TypeStep DEF StopInv, TypeOK
<1>2. CASE UNCHANGED <<gateVars, workerVars>>
  BY <1>1, <1>2 DEF StopInv, StopBounded, gateVars, workerVars
<1>3. ASSUME NEW w \in Workers, Send(w) PROVE StopInv'
  <2>1. /\ pc[w] = "send" /\ pc'[w] # "send" /\ authorized' = authorized
        /\ \A v \in Workers \ {w} : pc'[v] = pc[v] /\ late'[v] = late[v]
    BY <1>1, <1>3 DEF Send, GoTo, GoWith, WorkerTypeOK, BrokerTypeOK
  <2>2. late'[w] = IF Mode = "LIVE" /\ ~authorized THEN 1 ELSE late[w]
    BY <1>1, <1>3, <2>1 DEF Send, StopInv, BrokerTypeOK
  <2> QED
    BY <1>1, <2>1, <2>2 DEF StopInv, StopBounded
<1>4. ASSUME NEW w \in Workers, Works(w) \/ Fails(w), ~Send(w) PROVE StopInv'
  <2>1. UNCHANGED gateVars
    BY <1>4
       DEF Works, Fails, Discover, Claim, RenewClaim, Hydrate, FinishClaim,
           PersistPrepared, Preflight, ClaimSubmission, RenewPost, RenewThen, Gate,
           PostAnswered, PersistPost, RenewLookup, LookupNothing, LookupFound,
           MarkRequired, PersistFound, Reread, Conflict, PostUncertain, LookupFailed,
           Crash, Interrupt
  <2>2. pc'[w] = "send" => authorized
    <3>1. pc'[w] = "send" => Gate(w)
      BY <1>1, <1>4, Enters
    <3>2. Gate(w) /\ pc'[w] = "send" => authorized
      BY <1>1, ModeAssumption DEF Gate, PlacementFailed, GoReread, WorkerTypeOK, StopInv
    <3> QED
      BY <3>1, <3>2
  <2>3. \A v \in Workers \ {w} : pc'[v] = pc[v]
    BY <1>1, <1>4, OthersStay DEF Stays
  <2> QED
    BY <1>1, <2>1, <2>2, <2>3 DEF StopInv, StopBounded, gateVars
<1>5. CASE AuthorityWithdrawn
  BY <1>1, <1>5 DEF AuthorityWithdrawn, StopInv, StopBounded, workerVars
<1>6. CASE AuthorityRestored
  BY <1>1, <1>6 DEF AuthorityRestored, StopInv, StopBounded, workerVars
<1>7. ASSUME Broker \/ Tick \/ (\E h \in Handoffs : Intake(h)) \/ UNCHANGED vars
      PROVE  UNCHANGED <<gateVars, workerVars>>
  BY <1>7 DEF Broker, BrokerAccepts, BrokerRefuses, PostLost, OrderMoves, Tick, Intake,
              vars
<1> QED
  BY <1>2, <1>3, <1>4, <1>5, <1>6, <1>7 DEF Next

\* After the authority is withdrawn a worker sends at most the one POST whose
\* check it had already passed, however long its ladder.
THEOREM StopsAfterOne == Spec => []StopBounded
<1>1. Init => StopInv
  BY TypeInit DEF Init, StopInv, StopBounded
<1>2. StopInv => StopBounded
  BY DEF StopInv
<1> QED
  BY <1>1, <1>2, StopStep, PTL DEF Spec

-----------------------------------------------------------------------------
(* The truth of the records.                                               *)

\* What the broker has answered is what it holds, and what a worker is about
\* to record is one or the other.
BrokerTells ==
  /\ \A l \in Legs : l \in wire => reply[l] = "ABSENT" /\ order[l] = "ABSENT"
  /\ \A l \in Legs : order[l] # "ABSENT" <=> reply[l] \notin {"ABSENT", "REJECTED"}

WorkerKnows(w) ==
  /\ pc[w] = "persistPost" => obs[w] = reply[Cur(w)]
  /\ pc[w] = "persistFound" => obs[w] # "REJECTED" /\ order[Cur(w)] # "ABSENT"

RecordIsTrue ==
  \A l \in Legs :
    /\ leg[l] \in Accepted => order[l] # "ABSENT"
    /\ leg[l] = "REJECTED" => reply[l] = "REJECTED"

AckInv == IInv /\ BrokerTells /\ (\A w \in Workers : WorkerKnows(w)) /\ RecordIsTrue

LEMMA AckStep ==
  ASSUME Mode = "LIVE", AckInv, [Next]_vars
  PROVE  AckInv'
<1>1. /\ IInv /\ IInv' /\ TypeOK /\ DbTypeOK /\ WorkerTypeOK /\ BrokerTypeOK
      /\ BrokerTells /\ (\A w \in Workers : WorkerKnows(w)) /\ RecordIsTrue
  BY IInvStep DEF AckInv, IInv, TypeOK
<1>2. \A s \in BrokerStates : s \notin {"ABSENT", "REJECTED"}
  BY BrokerAssumption DEF Accepted, Closed
\* The broker's side.
<1>3. BrokerTells' /\ \A l \in Legs : /\ reply[l] # "ABSENT" => reply'[l] = reply[l]
                                      /\ order[l] # "ABSENT" => order'[l] # "ABSENT"
  <2>1. CASE UNCHANGED <<wire, order, reply>>
    BY <1>1, <2>1 DEF BrokerTells
  <2>2. ASSUME NEW l \in Legs, BrokerAccepts(l) PROVE <1>3!:
    BY <1>1, <1>2, <2>2 DEF BrokerAccepts, BrokerTells, BrokerTypeOK
  <2>3. ASSUME NEW l \in Legs, BrokerRefuses(l) PROVE <1>3!:
    BY <1>1, <2>3 DEF BrokerRefuses, BrokerTells, BrokerTypeOK
  <2>4. ASSUME NEW l \in Legs, PostLost(l) PROVE <1>3!:
    BY <1>1, <2>4 DEF PostLost, BrokerTells
  <2>5. ASSUME NEW l \in Legs, OrderMoves(l) PROVE <1>3!:
    BY <1>1, <1>2, <2>5 DEF OrderMoves, BrokerTells, BrokerTypeOK
  <2>6. ASSUME NEW w \in Workers, Send(w) PROVE <1>3!:
    <3>1. Local(w) /\ pc[w] = "send" /\ Cur(w) \in Legs
      BY <1>1, <2>6, CurInLegs, StepNames DEF IInv, Send
    <3>2. order[Cur(w)] = "ABSENT" /\ reply[Cur(w)] = "ABSENT"
      BY <1>1, <3>1, StepSets DEF Local, IInv, PostsMatch
    <3> QED
      BY <1>1, <2>6, <3>1, <3>2 DEF Send, BrokerTells
  <2>7. ASSUME NEW w \in Workers, Works(w) \/ Fails(w), ~Send(w)
        PROVE  UNCHANGED <<wire, order, reply>>
    BY <2>7
       DEF Works, Fails, Discover, Claim, RenewClaim, Hydrate, FinishClaim,
           PersistPrepared, Preflight, ClaimSubmission, RenewPost, RenewThen, Gate,
           PostAnswered, PersistPost, RenewLookup, LookupNothing, LookupFound,
           MarkRequired, PersistFound, Reread, Conflict, PostUncertain, LookupFailed,
           Crash, Interrupt, brokerVars
  <2>8. ASSUME \/ Tick \/ AuthorityWithdrawn \/ AuthorityRestored
               \/ (\E h \in Handoffs : Intake(h)) \/ UNCHANGED vars
        PROVE  UNCHANGED <<wire, order, reply>>
    BY <2>8 DEF Tick, AuthorityWithdrawn, AuthorityRestored, Intake, vars, brokerVars
  <2> QED
    BY <2>1, <2>2, <2>3, <2>4, <2>5, <2>6, <2>7, <2>8 DEF Next, Broker
\* What the workers are about to record.
<1>4. ASSUME NEW w \in Workers PROVE WorkerKnows(w)'
  <2>1. CASE Stays(w)
    <3>1. Cur(w)' = Cur(w)
      BY <2>1 DEF Stays, Cur
    <3>2. pc[w] \in {"persistPost", "persistFound"} => Cur(w) \in Legs
      BY <1>1, CurInLegs, StepNames
    <3>3. pc[w] = "persistPost" => obs[w] \in Outcomes
      BY <1>1 DEF IInv, Local
    <3>4. "ABSENT" \notin Outcomes
      BY DEF Outcomes, Accepted, Closed
    <3> QED
      BY <1>1, <1>3, <2>1, <3>1, <3>2, <3>3, <3>4 DEF Stays, WorkerKnows
  <2>2. CASE Works(w) \/ Fails(w)
    <3>1. ASSUME pc'[w] = "persistPost" PROVE WorkerKnows(w)'
      <4>1. PostAnswered(w)
        BY <1>1, <2>2, <3>1, Enters DEF Send, GoTo, WorkerTypeOK
      <4> QED
        BY <1>1, <3>1, <4>1
           DEF PostAnswered, GoWith, WorkerKnows, Cur, brokerVars, WorkerTypeOK
    <3>2. ASSUME pc'[w] = "persistFound" PROVE WorkerKnows(w)'
      <4>1. LookupFound(w)
        BY <1>1, <2>2, <3>2, Enters
      <4>2. Cur(w) \in Legs
        BY <1>1, <4>1, CurInLegs, StepNames DEF LookupFound
      <4>3. order[Cur(w)] # "REJECTED"
        BY <1>1, <1>2, <4>2 DEF BrokerTypeOK
      <4> QED
        BY <1>1, <3>2, <4>1, <4>3
           DEF LookupFound, GoWith, WorkerKnows, Cur, brokerVars, WorkerTypeOK
    <3> QED
      BY <3>1, <3>2 DEF WorkerKnows
  <2> QED
    BY <1>1, <2>1, <2>2, StaysOrActs
\* What is recorded.
<1>5. RecordIsTrue'
  <2>1. CASE leg' = leg
    BY <1>1, <1>3, <2>1 DEF RecordIsTrue
  <2>2. ASSUME NEW w \in Workers, WritesLeg(w) PROVE RecordIsTrue'
    <3>1. Cur(w) \in Legs /\ \A l \in Legs : l # Cur(w) => leg'[l] = leg[l]
      BY <1>1, <2>2, LegWrite
    <3>2. leg'[Cur(w)] = leg[Cur(w)] \/ leg'[Cur(w)] \notin Outcomes \/ leg'[Cur(w)] = obs[w]
      BY <1>1, <2>2, <3>1
         DEF WritesLeg, PersistPrepared, ClaimSubmission, MarkRequired, PersistPost,
             PersistFound, MoveLeg, DbTypeOK, Outcomes, Accepted, Closed
    <3>3. leg'[Cur(w)] \in Outcomes /\ leg'[Cur(w)] # leg[Cur(w)] =>
            PersistPost(w) \/ PersistFound(w)
      BY <1>1, <2>2, <3>1
         DEF WritesLeg, PersistPrepared, ClaimSubmission, MarkRequired, MoveLeg,
             DbTypeOK, Outcomes, Accepted, Closed
    <3>4. ASSUME leg'[Cur(w)] \in Outcomes, leg'[Cur(w)] # leg[Cur(w)]
          PROVE  /\ leg'[Cur(w)] \in Accepted => order[Cur(w)] # "ABSENT"
                 /\ leg'[Cur(w)] = "REJECTED" => reply[Cur(w)] = "REJECTED"
      BY <1>1, <3>1, <3>2, <3>3, <3>4
         DEF WorkerKnows, BrokerTells, PersistPost, PersistFound, Accepted
    <3>5. "REJECTED" \in Outcomes /\ Accepted \subseteq Outcomes
      BY DEF Outcomes, Closed
    <3> QED
      BY <1>1, <1>3, <3>1, <3>4, <3>5 DEF RecordIsTrue
  <2> QED
    BY <2>1, <2>2, Writers
<1> QED
  BY <1>1, <1>3, <1>4, <1>5 DEF AckInv

\* A recorded outcome is true at the broker: an accepted leg has an order, a
\* rejected one has none and will never have one.
THEOREM RecordsAreTrue == Spec => []AckTruth
<1> DEFINE LiveInv == Mode = "LIVE" => AckInv
<1>1. Init => LiveInv
  BY InitIInv
     DEF Init, AckInv, BrokerTells, WorkerKnows, RecordIsTrue, Accepted
<1>2. LiveInv /\ [Next]_vars => LiveInv'
  BY AckStep
<1>3. LiveInv => AckTruth
  <2> SUFFICES ASSUME Mode = "LIVE", AckInv, NEW l \in Legs
               PROVE  /\ leg[l] \in Accepted => order[l] # "ABSENT"
                      /\ leg[l] = "REJECTED" =>
                           /\ order[l] = "ABSENT" /\ l \notin wire
                           /\ \A w \in Workers : ~(pc[w] \in AttemptSteps /\ Cur(w) = l)
    BY DEF AckTruth
  <2>1. leg[l] = "REJECTED" => posts[l] = 1
    BY DEF AckInv, IInv, PostsMatch, Outcomes, Closed
  <2>2. \A w \in Workers : pc[w] \in AttemptSteps => posts[Cur(w)] = 0
    BY DEF AckInv, IInv, Local
  <2> QED
    BY <2>1, <2>2 DEF AckInv, BrokerTells, RecordIsTrue
<1> QED
  BY <1>1, <1>2, <1>3, PTL DEF Spec
=============================================================================
