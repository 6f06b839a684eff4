------------------------- MODULE ManualLadderProofs -------------------------
(***************************************************************************)
(* Proofs about the manual SELL ladder, for any finite set of processes,   *)
(* any number of legs and any bounds on resets and POSTs: type             *)
(* correctness, the finality of outcomes, the order of the ladder, the     *)
(* truth of what is recorded and reported, and the count of POSTs.         *)
(***************************************************************************)
EXTENDS ManualLadder, FiniteSetTheorems, TLAPS

-----------------------------------------------------------------------------
(* Counting.                                                               *)

Sent(l) == {n \in 1..MaxPosts : fate[<<l, n>>] # "none"}
Senders(l) == {p \in Processes : pc[p] = "send" /\ ix[p] = l}

\* POSTs and senders of a leg are finitely many.
LEMMA Finite ==
  ASSUME NEW l \in Legs
  PROVE  /\ IsFiniteSet(Sent(l)) /\ IsFiniteSet(Senders(l))
         /\ NumPosts(l) = Cardinality(Sent(l))
         /\ NumPosts(l) \in Nat /\ Cardinality(Senders(l)) \in Nat
<1>1. IsFiniteSet(1..MaxPosts)
  BY BoundsAssumption, FS_Interval
<1>2. IsFiniteSet(Sent(l))
  BY <1>1, FS_Subset DEF Sent
<1>3. IsFiniteSet(Senders(l))
  BY ProcessesAssumption, FS_Subset DEF Senders
<1> QED
  BY <1>2, <1>3, FS_CardinalityType DEF NumPosts, Sent

\* One more element, one more at most.
LEMMA OneMore ==
  ASSUME NEW S, NEW x, IsFiniteSet(S)
  PROVE  /\ Cardinality(S \cup {x}) \in Nat
         /\ Cardinality(S \cup {x}) <= Cardinality(S) + 1
<1>1. Cardinality(S) \in Nat
  BY FS_CardinalityType
<1>2. Cardinality(S \cup {x}) = IF x \in S THEN Cardinality(S) ELSE Cardinality(S) + 1
  BY FS_AddElement
<1> QED
  BY <1>1, <1>2

\* A leg that was posted has a POST with a fate.
LEMMA PostedLeg ==
  ASSUME NEW l \in Legs
  PROVE  NumPosts(l) > 0 <=> Sent(l) # {}
BY Finite, FS_EmptySet

-----------------------------------------------------------------------------
(* Type correctness.                                                       *)

LEMMA TypeInit == Init => TypeOK
<1>1. 1 \in Legs /\ 0 \in 0..MaxPosts /\ "SUBMITTED" \in Outcomes /\ "ABSENT" \in LegStates
  BY BoundsAssumption DEF Legs, Outcomes, LegStates
<1>2. CASE Init
  <2>1. /\ granted \in BOOLEAN
        /\ leg \in [Legs -> LegStates]
        /\ resets \in [Legs -> Nat]
        /\ fate \in [Posts -> Fates]
        /\ order \in [Legs -> {"ABSENT", "OPEN", "GONE"}]
    BY <1>1, <1>2 DEF Init, Fates
  <2>2. /\ pc \in [Processes -> Steps]
        /\ ix \in [Processes -> Legs]
        /\ obs \in [Processes -> Outcomes]
        /\ mine \in [Processes -> 0..MaxPosts]
        /\ report \in [Processes -> {"none", "stopped", "accepted"}]
    BY <1>1, <1>2 DEF Init, Steps
  <2>3. want \in [Processes -> SUBSET LegStates]
    BY <1>2 DEF Init
  <2> QED
    BY <2>1, <2>2, <2>3 DEF TypeOK
<1> QED
  BY <1>2

\* Where a process may go next.
Moves(p) ==
  \/ \E s \in Steps : GoTo(p, s)
  \/ \E s \in Outcomes : GoResolve(p, s)
  \/ \E ok \in SUBSET LegStates : GoReread(p, ok)
  \/ \E r \in {"none", "stopped", "accepted"} : Leave(p, r)
  \/ ix[p] < NumLegs /\ NextLeg(p)

ProcessTypeOK ==
  /\ pc \in [Processes -> Steps]
  /\ ix \in [Processes -> Legs]
  /\ obs \in [Processes -> Outcomes]
  /\ want \in [Processes -> SUBSET LegStates]
  /\ mine \in [Processes -> 0..MaxPosts]
  /\ report \in [Processes -> {"none", "stopped", "accepted"}]

\* A process that moves on keeps its state well typed.
LEMMA ProcessType ==
  ASSUME TypeOK, NEW p \in Processes, Moves(p)
  PROVE  ProcessTypeOK'
<1>1. ProcessTypeOK
  BY DEF TypeOK, ProcessTypeOK
<1>2. /\ 1 \in Legs /\ 0 \in 0..MaxPosts /\ "SUBMITTED" \in Outcomes
      /\ ix[p] < NumLegs => ix[p] + 1 \in Legs
  BY <1>1, BoundsAssumption DEF ProcessTypeOK, Legs, Outcomes
<1>3. CASE \E s \in Steps : GoTo(p, s)
  BY <1>1, <1>3 DEF ProcessTypeOK, GoTo
<1>4. CASE \E s \in Outcomes : GoResolve(p, s)
  BY <1>1, <1>2, <1>4 DEF ProcessTypeOK, GoResolve, Steps
<1>5. CASE \E ok \in SUBSET LegStates : GoReread(p, ok)
  BY <1>1, <1>2, <1>5 DEF ProcessTypeOK, GoReread, Steps
<1>6. CASE \E r \in {"none", "stopped", "accepted"} : Leave(p, r)
  BY <1>1, <1>2, <1>6 DEF ProcessTypeOK, Leave, Steps
<1>7. CASE ix[p] < NumLegs /\ NextLeg(p)
  BY <1>1, <1>2, <1>7 DEF ProcessTypeOK, NextLeg, Steps
<1> QED
  BY <1>3, <1>4, <1>5, <1>6, <1>7 DEF Moves

\* The loop over the legs moves the process.
LEMMA AdvanceMoves ==
  ASSUME NEW p \in Processes, NEW s \in LegStates, Advance(p, s)
  PROVE  Moves(p)
BY DEF Advance, Moves

\* One step of one process: it moves on, or starts, or sends; at most its own
\* leg changes.
LEMMA TypeStep == TypeOK /\ [Next]_vars => TypeOK'
<1> SUFFICES ASSUME TypeOK, [Next]_vars PROVE TypeOK'
  OBVIOUS
<1>1. ASSUME NEW p \in Processes, Moves(p), UNCHANGED brokerVars,
             granted' = granted, leg' \in [Legs -> LegStates],
             resets' \in [Legs -> Nat]
      PROVE  TypeOK'
  BY <1>1, ProcessType DEF TypeOK, ProcessTypeOK, brokerVars
<1>2. ASSUME NEW p \in Processes, Moves(p), UNCHANGED <<dbVars, brokerVars>>
      PROVE  TypeOK'
  BY <1>1, <1>2 DEF TypeOK, dbVars
<1>3. ASSUME NEW p \in Processes, ClaimPrepared(p) PROVE TypeOK'
  <2>1. \E s \in LegStates :
          /\ leg' = [leg EXCEPT ![ix[p]] = s]
          /\ GoTo(p, "begin") \/ GoTo(p, "lookup") \/ Advance(p, s)
          /\ UNCHANGED <<granted, resets, brokerVars>>
    <3> DEFINE s == IF leg[ix[p]] = "ABSENT" THEN "PREPARED" ELSE leg[ix[p]]
    <3>1. s \in LegStates
      BY DEF TypeOK, LegStates
    <3> QED
      BY <1>3, <3>1 DEF ClaimPrepared
  <2>2. Moves(p)
    BY <2>1, AdvanceMoves DEF Moves, Steps
  <2> QED
    BY <1>1, <2>1, <2>2 DEF TypeOK
<1>4. ASSUME NEW p \in Processes, BeginAttempt(p) PROVE TypeOK'
  <2>1. Moves(p)
    BY <1>4 DEF BeginAttempt, Moves, Steps
  <2> QED
    BY <1>1, <1>4, <2>1 DEF BeginAttempt, TypeOK, LegStates
<1>5. ASSUME NEW p \in Processes, Send(p) PROVE TypeOK'
  <2>1. NumPosts(ix[p]) + 1 \in 1..MaxPosts
    BY <1>5, Finite, BoundsAssumption DEF Send, TypeOK
  <2>2. NumPosts(ix[p]) + 1 \in 0..MaxPosts
    BY <2>1, BoundsAssumption
  <2>3. mine' \in [Processes -> 0..MaxPosts] /\ pc' \in [Processes -> Steps]
    BY <1>5, <2>2 DEF Send, TypeOK, Steps
  <2>4. fate' \in [Posts -> Fates]
    BY <1>5 DEF Send, TypeOK, Fates
  <2> QED
    BY <1>5, <2>3, <2>4 DEF Send, TypeOK, dbVars
<1>6. ASSUME NEW p \in Processes, Resolve(p) PROVE TypeOK'
  <2>1. obs[p] \in Outcomes /\ Outcomes \subseteq LegStates
    BY DEF TypeOK, Outcomes, LegStates
  <2>2. Moves(p)
    BY <1>6, <2>1 DEF Resolve, Moves
  <2> QED
    BY <1>1, <1>6, <2>1, <2>2 DEF Resolve, TypeOK
<1>7. ASSUME NEW p \in Processes, Reset(p) PROVE TypeOK'
  <2>1. Moves(p)
    BY <1>7 DEF Reset, Moves, Steps
  <2> QED
    BY <1>1, <1>7, <2>1 DEF Reset, TypeOK, LegStates
<1>8. ASSUME NEW p \in Processes,
             \/ SendDenied(p) \/ Answered(p) \/ Uncertain(p) \/ LookupFound(p)
             \/ LookupNothing(p) \/ LookupFailed(p) \/ Reread(p) \/ Crash(p)
      PROVE  TypeOK'
  <2>1. UNCHANGED <<dbVars, brokerVars>>
    BY <1>8 DEF SendDenied, Answered, Uncertain, LookupFound, LookupNothing,
                LookupFailed, Reread, Crash
  <2>2. leg[ix[p]] \in LegStates
    BY DEF TypeOK
  <2>3. Moves(p)
    BY <1>8, <2>2, AdvanceMoves
       DEF SendDenied, Answered, Uncertain, LookupFound, LookupNothing,
           LookupFailed, Reread, Crash, Moves, Steps, Outcomes
  <2> QED
    BY <1>2, <2>1, <2>3
<1>9. ASSUME NEW p \in Processes, Start(p) PROVE TypeOK'
  BY <1>9 DEF Start, TypeOK, dbVars, brokerVars, Steps
<1>10. CASE Grant
  BY <1>10 DEF Grant, TypeOK, processVars, brokerVars
<1>11. ASSUME NEW m \in Posts, BrokerCreates(m) \/ BrokerRefuses(m) \/ PostLost(m)
       PROVE  TypeOK'
  BY <1>11 DEF BrokerCreates, BrokerRefuses, PostLost, TypeOK, dbVars, processVars, Fates
<1>12. ASSUME NEW l \in Legs, OrderEnds(l) PROVE TypeOK'
  BY <1>12 DEF OrderEnds, TypeOK, dbVars, processVars
<1>13. CASE UNCHANGED vars
  BY <1>13 DEF vars, dbVars, processVars, brokerVars, TypeOK
<1> QED
  BY <1>3, <1>4, <1>5, <1>6, <1>7, <1>8, <1>9, <1>10, <1>11, <1>12, <1>13 DEF Next

\* Every reachable state of the manual ladder is well typed.
THEOREM TypeCorrect == Spec => []TypeOK
BY TypeInit, TypeStep, PTL DEF Spec

-----------------------------------------------------------------------------
(* Outcomes are final.                                                     *)

\* The ways one step may change a leg.
LegMoves(l) ==
  \/ leg'[l] = leg[l]
  \/ leg[l] = "ABSENT" /\ leg'[l] = "PREPARED"
  \/ leg[l] = "PREPARED" /\ leg'[l] = "SUBMISSION_UNCERTAIN"
  \/ leg[l] = "SUBMISSION_UNCERTAIN" /\ leg'[l] \in Outcomes \cup {"PREPARED"}

LEMMA LegStep ==
  ASSUME TypeOK, [Next]_vars, NEW l \in Legs
  PROVE  LegMoves(l)
<1>1. ASSUME NEW p \in Processes,
             ClaimPrepared(p) \/ BeginAttempt(p) \/ Resolve(p) \/ Reset(p)
      PROVE  LegMoves(l)
  BY <1>1 DEF ClaimPrepared, BeginAttempt, Resolve, Reset, LegMoves, TypeOK
<1>2. ASSUME NEW p \in Processes,
             \/ Start(p) \/ Send(p) \/ SendDenied(p) \/ Answered(p) \/ Uncertain(p)
             \/ LookupFound(p) \/ LookupNothing(p) \/ LookupFailed(p)
             \/ Reread(p) \/ Crash(p)
      PROVE  UNCHANGED leg
  BY <1>2 DEF Start, Send, SendDenied, Answered, Uncertain, LookupFound,
              LookupNothing, LookupFailed, Reread, Crash, dbVars
<1>3. ASSUME NEW m \in Posts, BrokerCreates(m) \/ BrokerRefuses(m) \/ PostLost(m)
      PROVE  UNCHANGED leg
  BY <1>3 DEF BrokerCreates, BrokerRefuses, PostLost, dbVars
<1>4. ASSUME NEW k \in Legs, OrderEnds(k) PROVE UNCHANGED leg
  BY <1>4 DEF OrderEnds, dbVars
<1>5. Grant \/ UNCHANGED vars => UNCHANGED leg
  BY DEF Grant, vars, dbVars
<1> QED
  BY <1>1, <1>2, <1>3, <1>4, <1>5 DEF Next, LegMoves

\* Accepted and rejected legs stay as they are, and no answer, however late,
\* resolves a leg that is not in doubt, in any interleaving of processes.
THEOREM OutcomesAreFinal ==
  Spec => [][\A l \in Legs : leg'[l] # leg[l] =>
               /\ leg[l] \notin Outcomes
               /\ leg'[l] \in Outcomes => leg[l] = "SUBMISSION_UNCERTAIN"]_vars
<1>1. TypeOK /\ [Next]_vars =>
        \A l \in Legs : leg'[l] # leg[l] =>
          /\ leg[l] \notin Outcomes
          /\ leg'[l] \in Outcomes => leg[l] = "SUBMISSION_UNCERTAIN"
  <2> SUFFICES ASSUME TypeOK, [Next]_vars, NEW l \in Legs, leg'[l] # leg[l]
               PROVE  /\ leg[l] \notin Outcomes
                      /\ leg'[l] \in Outcomes => leg[l] = "SUBMISSION_UNCERTAIN"
    OBVIOUS
  <2> QED
    BY LegStep DEF LegMoves, Outcomes
<1> QED
  BY <1>1, TypeCorrect, PTL DEF Spec

-----------------------------------------------------------------------------
(* The ladder, the records and the reports.                                *)

\* The legs before the one a process works on are accepted.
Climbed ==
  \A p \in Processes : \A l \in Legs : l < ix[p] => leg[l] = "SUBMITTED"

\* A process that found or was told of an order has one.
ToldOfOrder ==
  /\ \A m \in Posts : fate[m] = "created" => order[m[1]] # "ABSENT"
  /\ \A p \in Processes : pc[p] = "await" => mine[p] # 0
  /\ \A p \in Processes :
       pc[p] = "resolve" /\ obs[p] = "SUBMITTED" => order[ix[p]] # "ABSENT"

LadderInv ==
  TypeOK /\ Climbed /\ LadderOrder /\ ToldOfOrder /\ SubmittedIsReal /\ ReportIsTrue

LEMMA LadderInit == Init => LadderInv
<1> SUFFICES ASSUME Init PROVE LadderInv
  OBVIOUS
<1>1. ASSUME NEW l \in Legs PROVE NumPosts(l) = 0
  <2>1. Sent(l) = {}
    BY DEF Init, Sent, Posts
  <2> QED
    BY <2>1, Finite, FS_EmptySet
<1>2. Climbed /\ LadderOrder
  BY <1>1 DEF Init, Climbed, LadderOrder, Legs
<1>3. ToldOfOrder /\ SubmittedIsReal /\ ReportIsTrue
  BY DEF Init, ToldOfOrder, SubmittedIsReal, ReportIsTrue
<1> QED
  BY <1>2, <1>3, TypeInit DEF LadderInv

\* A process that moves on by the loop over the legs, its leg being s.
LEMMA AdvanceStep ==
  ASSUME LadderInv, NEW p \in Processes, NEW s \in LegStates,
         Advance(p, s), leg'[ix[p]] = s
  PROVE  /\ \A l \in Legs : l < ix'[p] => leg[l] = "SUBMITTED" \/ leg'[l] = "SUBMITTED"
         /\ report'[p] = "accepted" =>
              \/ report[p] = "accepted"
              \/ \A l \in Legs : leg[l] = "SUBMITTED" \/ leg'[l] = "SUBMITTED"
<1> USE BoundsAssumption DEF LadderInv, TypeOK, Legs
<1>1. CASE s = "SUBMITTED" /\ ix[p] < NumLegs /\ NextLeg(p)
  BY <1>1 DEF NextLeg, Climbed
<1>2. CASE s = "SUBMITTED" /\ ix[p] = NumLegs /\ Leave(p, "accepted")
  BY <1>2 DEF Leave, Climbed
<1>3. CASE s # "SUBMITTED" /\ Leave(p, "stopped")
  BY <1>3 DEF Leave
<1> QED
  BY <1>1, <1>2, <1>3 DEF Advance

\* An accepted leg stays accepted.
LEMMA SubmittedStays ==
  ASSUME LadderInv, [Next]_vars, NEW l \in Legs, leg[l] = "SUBMITTED"
  PROVE  leg'[l] = "SUBMITTED"
BY LegStep DEF LadderInv, LegMoves

\* A step of one process that sends nothing keeps the invariant if it climbs
\* accepted legs, records and reports what is so.
LEMMA LadderMove ==
  ASSUME LadderInv, [Next]_vars, NEW p \in Processes, UNCHANGED brokerVars,
         \A q \in Processes \ {p} :
           /\ pc'[q] = pc[q] /\ ix'[q] = ix[q] /\ obs'[q] = obs[q]
           /\ mine'[q] = mine[q] /\ report'[q] = report[q],
         \A l \in Legs : leg'[l] = "SUBMITTED" => order[l] # "ABSENT",
         \A l \in Legs : l < ix'[p] => leg'[l] = "SUBMITTED",
         report'[p] = "accepted" =>
           report[p] = "accepted" \/ \A l \in Legs : leg'[l] = "SUBMITTED",
         pc'[p] # "await",
         pc'[p] = "resolve" /\ obs'[p] = "SUBMITTED" => order[ix'[p]] # "ABSENT"
  PROVE  LadderInv'
<1>1. TypeOK /\ TypeOK'
  BY TypeStep DEF LadderInv
<1>2. UNCHANGED <<fate, order>>
  BY DEF brokerVars
<1>3. \A l \in Legs : leg[l] = "SUBMITTED" => leg'[l] = "SUBMITTED"
  BY SubmittedStays
<1>4. Climbed'
  BY <1>3 DEF LadderInv, Climbed
<1>5. LadderOrder'
  BY <1>2, <1>3 DEF LadderInv, LadderOrder, NumPosts
<1>6. ToldOfOrder'
  BY <1>2 DEF LadderInv, ToldOfOrder
<1>7. SubmittedIsReal'
  BY <1>2 DEF SubmittedIsReal
<1>8. ReportIsTrue'
  BY <1>3 DEF LadderInv, ReportIsTrue
<1> QED
  BY <1>1, <1>4, <1>5, <1>6, <1>7, <1>8 DEF LadderInv

\* A POST is sent for the leg of a process that climbed to it.
LEMMA LadderSend ==
  ASSUME LadderInv, [Next]_vars, NEW p \in Processes, Send(p)
  PROVE  LadderInv'
<1>1. TypeOK /\ TypeOK'
  BY TypeStep DEF LadderInv
<1>2. /\ ix[p] \in Legs
      /\ NumPosts(ix[p]) + 1 \in 1..MaxPosts
  BY Finite, BoundsAssumption DEF Send, LadderInv, TypeOK
<1>3. /\ UNCHANGED <<leg, order, ix, obs, report>>
      /\ fate' = [fate EXCEPT ![<<ix[p], NumPosts(ix[p]) + 1>>] = "sent"]
      /\ mine' = [mine EXCEPT ![p] = NumPosts(ix[p]) + 1]
      /\ pc' = [pc EXCEPT ![p] = "await"]
  BY DEF Send, dbVars
<1>4. \A l \in Legs \ {ix[p]} : NumPosts(l)' = NumPosts(l)
  BY <1>1, <1>2, <1>3 DEF NumPosts, TypeOK, Posts
<1>5. LadderOrder'
  <2> SUFFICES ASSUME NEW i \in Legs, NEW j \in Legs, j < i, NumPosts(i)' > 0
               PROVE  leg'[j] = "SUBMITTED"
    BY DEF LadderOrder
  <2>1. CASE i = ix[p]
    BY <1>3, <2>1 DEF LadderInv, Climbed
  <2>2. CASE i # ix[p]
    BY <1>3, <1>4, <2>2 DEF LadderInv, LadderOrder
  <2> QED
    BY <2>1, <2>2
<1>6. ToldOfOrder'
  <2>1. \A m \in Posts : fate'[m] = "created" => order'[m[1]] # "ABSENT"
    BY <1>1, <1>3 DEF LadderInv, ToldOfOrder, TypeOK
  <2>2. NumPosts(ix[p]) + 1 # 0
    BY <1>2
  <2>3. \A q \in Processes : pc'[q] = "await" => mine'[q] # 0
    BY <1>1, <1>3, <2>2 DEF LadderInv, ToldOfOrder, TypeOK
  <2>4. \A q \in Processes :
          pc'[q] = "resolve" /\ obs'[q] = "SUBMITTED" => order'[ix'[q]] # "ABSENT"
    BY <1>1, <1>3 DEF LadderInv, ToldOfOrder, TypeOK
  <2> QED
    BY <2>1, <2>3, <2>4 DEF ToldOfOrder
<1>7. Climbed' /\ SubmittedIsReal' /\ ReportIsTrue'
  BY <1>3 DEF LadderInv, Climbed, SubmittedIsReal, ReportIsTrue
<1> QED
  BY <1>1, <1>5, <1>6, <1>7 DEF LadderInv

\* The broker and the network end a POST or an order; no order is forgotten.
LEMMA LadderBroker ==
  ASSUME LadderInv, [Next]_vars,
         \/ \E m \in Posts : BrokerCreates(m) \/ BrokerRefuses(m) \/ PostLost(m)
         \/ \E l \in Legs : OrderEnds(l)
  PROVE  LadderInv'
<1>1. TypeOK /\ TypeOK'
  BY TypeStep DEF LadderInv
<1>2. /\ UNCHANGED <<leg, pc, ix, obs, mine, report>>
      /\ \A m \in Posts : \/ fate'[m] = fate[m]
                          \/ /\ fate[m] = "sent" /\ fate'[m] \in Fates \ {"none"}
                             /\ fate'[m] = "created" => order'[m[1]] # "ABSENT"
      /\ \A l \in Legs : order[l] # "ABSENT" => order'[l] # "ABSENT"
  <2>1. ASSUME NEW m \in Posts, BrokerCreates(m) PROVE <1>2!:
    BY <1>1, <2>1 DEF BrokerCreates, TypeOK, dbVars, processVars, Fates, Posts
  <2>2. ASSUME NEW m \in Posts, BrokerRefuses(m) \/ PostLost(m) PROVE <1>2!:
    BY <1>1, <2>2 DEF BrokerRefuses, PostLost, TypeOK, dbVars, processVars, Fates
  <2>3. ASSUME NEW l \in Legs, OrderEnds(l) PROVE <1>2!:
    BY <1>1, <2>3 DEF OrderEnds, TypeOK, dbVars, processVars
  <2> QED
    BY <2>1, <2>2, <2>3
<1>3. \A l \in Legs : NumPosts(l)' = NumPosts(l)
  <2> SUFFICES ASSUME NEW l \in Legs PROVE Sent(l)' = Sent(l)
    BY DEF Sent, NumPosts
  <2> QED
    BY <1>2 DEF Sent, Posts
<1>4. LadderOrder' /\ Climbed' /\ ReportIsTrue'
  BY <1>2, <1>3 DEF LadderInv, LadderOrder, Climbed, ReportIsTrue
<1>5. SubmittedIsReal'
  BY <1>2 DEF LadderInv, SubmittedIsReal
<1>6. ToldOfOrder'
  <2>1. \A m \in Posts : m[1] \in Legs
    BY DEF Posts
  <2> QED
    BY <1>1, <1>2, <2>1 DEF LadderInv, ToldOfOrder, TypeOK
<1> QED
  BY <1>1, <1>4, <1>5, <1>6 DEF LadderInv

LEMMA LadderStep == LadderInv /\ [Next]_vars => LadderInv'
<1> SUFFICES ASSUME LadderInv, [Next]_vars PROVE LadderInv'
  OBVIOUS
<1>1. /\ TypeOK /\ Climbed /\ ToldOfOrder /\ SubmittedIsReal /\ ReportIsTrue
      /\ \A l \in Legs : leg[l] = "SUBMITTED" => leg'[l] = "SUBMITTED"
  BY SubmittedStays DEF LadderInv
<1>2. \A p \in Processes : ix[p] \in Legs /\ leg[ix[p]] \in LegStates
  BY <1>1 DEF TypeOK
\* Moves of a process that neither send nor climb nor change its leg.
<1>3. ASSUME NEW p \in Processes, UNCHANGED <<leg, brokerVars>>,
             \/ \E s \in Steps \ {"await", "resolve"} : GoTo(p, s)
             \/ \E s \in Outcomes : /\ GoResolve(p, s)
                                    /\ s = "SUBMITTED" => order[ix[p]] # "ABSENT"
             \/ \E ok \in SUBSET LegStates : GoReread(p, ok)
             \/ Leave(p, "none")
             \/ Advance(p, leg[ix[p]])
      PROVE  LadderInv'
  <2>1. /\ \A q \in Processes \ {p} :
             /\ pc'[q] = pc[q] /\ ix'[q] = ix[q] /\ obs'[q] = obs[q]
             /\ mine'[q] = mine[q] /\ report'[q] = report[q]
        /\ pc'[p] # "await"
        /\ pc'[p] = "resolve" /\ obs'[p] = "SUBMITTED" => order[ix'[p]] # "ABSENT"
    BY <1>1, <1>3
       DEF TypeOK, GoTo, GoResolve, GoReread, Leave, Advance, NextLeg
  <2>2. \A l \in Legs : l < ix'[p] => leg'[l] = "SUBMITTED"
    <3>1. CASE Advance(p, leg[ix[p]])
      BY <1>1, <1>2, <1>3, <3>1, AdvanceStep
    <3>2. CASE ix'[p] = ix[p] \/ ix'[p] = 1
      BY <1>1, <3>2 DEF Climbed, Legs
    <3> QED
      BY <1>1, <1>3, <3>1, <3>2 DEF TypeOK, GoTo, GoResolve, GoReread, Leave
  <2>3. report'[p] = "accepted" =>
          report[p] = "accepted" \/ \A l \in Legs : leg'[l] = "SUBMITTED"
    <3>1. CASE Advance(p, leg[ix[p]])
      BY <1>1, <1>2, <1>3, <3>1, AdvanceStep
    <3>2. CASE report'[p] = report[p] \/ report'[p] = "none"
      BY <3>2
    <3> QED
      BY <1>1, <1>3, <3>1, <3>2 DEF TypeOK, GoTo, GoResolve, GoReread, Leave
  <2>4. \A l \in Legs : leg'[l] = "SUBMITTED" => order[l] # "ABSENT"
    BY <1>1, <1>3 DEF SubmittedIsReal
  <2> QED
    BY <1>3, <2>1, <2>2, <2>3, <2>4, LadderMove
<1>4. ASSUME NEW p \in Processes,
             \/ SendDenied(p) \/ Answered(p) \/ Uncertain(p) \/ LookupFound(p)
             \/ LookupNothing(p) \/ LookupFailed(p) \/ Reread(p) \/ Crash(p)
      PROVE  LadderInv'
  <2>1. UNCHANGED <<leg, brokerVars>>
    BY <1>4 DEF SendDenied, Answered, Uncertain, LookupFound, LookupNothing,
                LookupFailed, Reread, Crash, dbVars
  <2>2. CASE Answered(p) \/ LookupFound(p)
    <3>1. pc[p] = "await" => <<ix[p], mine[p]>> \in Posts
      BY <1>1, <1>2, BoundsAssumption DEF ToldOfOrder, TypeOK, Posts
    <3>2. \E s \in Outcomes : /\ GoResolve(p, s)
                              /\ s = "SUBMITTED" => order[ix[p]] # "ABSENT"
      BY <1>1, <2>2, <3>1 DEF Answered, LookupFound, ToldOfOrder, Outcomes
    <3> QED
      BY <1>3, <2>1, <3>2
  <2>3. CASE \/ SendDenied(p) \/ Uncertain(p) \/ LookupNothing(p)
             \/ LookupFailed(p) \/ Reread(p) \/ Crash(p)
    BY <1>3, <2>1, <2>3
       DEF SendDenied, Uncertain, LookupNothing, LookupFailed, Reread, Crash, Steps
  <2> QED
    BY <1>4, <2>2, <2>3
<1>5. ASSUME NEW p \in Processes, ClaimPrepared(p) PROVE LadderInv'
  <2> DEFINE s == IF leg[ix[p]] = "ABSENT" THEN "PREPARED" ELSE leg[ix[p]]
  <2>1. /\ s \in LegStates /\ UNCHANGED brokerVars
        /\ leg' = [leg EXCEPT ![ix[p]] = s] /\ leg'[ix[p]] = s
        /\ GoTo(p, "begin") \/ GoTo(p, "lookup") \/ Advance(p, s)
    BY <1>1, <1>2, <1>5 DEF ClaimPrepared, TypeOK, LegStates
  <2>2. /\ \A q \in Processes \ {p} :
             /\ pc'[q] = pc[q] /\ ix'[q] = ix[q] /\ obs'[q] = obs[q]
             /\ mine'[q] = mine[q] /\ report'[q] = report[q]
        /\ pc'[p] \notin {"await", "resolve"}
    BY <1>1, <2>1 DEF TypeOK, GoTo, Leave, Advance, NextLeg
  <2>3. \A l \in Legs : leg'[l] = "SUBMITTED" => leg[l] = "SUBMITTED"
    BY <1>1, <1>2, <2>1 DEF TypeOK
  <2> HIDE DEF s
  <2>4. \A l \in Legs : l < ix'[p] => leg'[l] = "SUBMITTED"
    <3>1. CASE Advance(p, s)
      BY <1>1, <2>1, <3>1, AdvanceStep
    <3> QED
      BY <1>1, <2>1, <3>1 DEF Climbed, GoTo
  <2>5. report'[p] = "accepted" =>
          report[p] = "accepted" \/ \A l \in Legs : leg'[l] = "SUBMITTED"
    <3>1. CASE Advance(p, s)
      BY <1>1, <2>1, <3>1, AdvanceStep
    <3> QED
      BY <2>1, <3>1 DEF GoTo
  <2> QED
    BY <1>1, <2>1, <2>2, <2>3, <2>4, <2>5, LadderMove DEF SubmittedIsReal
<1>6. ASSUME NEW p \in Processes, BeginAttempt(p) \/ Resolve(p) \/ Reset(p)
      PROVE  LadderInv'
  <2>1. /\ UNCHANGED brokerVars
        /\ GoTo(p, "send") \/ GoTo(p, "begin") \/ \E ok \in SUBSET LegStates : GoReread(p, ok)
        /\ \A l \in Legs : leg'[l] = "SUBMITTED" => order[l] # "ABSENT"
    BY <1>1, <1>2, <1>6
       DEF BeginAttempt, Resolve, Reset, TypeOK, ToldOfOrder, SubmittedIsReal,
           Outcomes, LegStates
  <2>2. /\ \A q \in Processes \ {p} :
             /\ pc'[q] = pc[q] /\ ix'[q] = ix[q] /\ obs'[q] = obs[q]
             /\ mine'[q] = mine[q] /\ report'[q] = report[q]
        /\ pc'[p] \notin {"await", "resolve"}
        /\ ix'[p] = ix[p] /\ report'[p] = report[p]
    BY <1>1, <2>1 DEF TypeOK, GoTo, GoReread
  <2> QED
    BY <1>1, <2>1, <2>2, LadderMove DEF Climbed
<1>7. ASSUME NEW p \in Processes, Start(p) PROVE LadderInv'
  <2>1. /\ UNCHANGED <<leg, ix, brokerVars>>
        /\ \A q \in Processes \ {p} :
             /\ pc'[q] = pc[q] /\ ix'[q] = ix[q] /\ obs'[q] = obs[q]
             /\ mine'[q] = mine[q] /\ report'[q] = report[q]
        /\ pc'[p] = "leg" /\ report'[p] = "none"
    BY <1>1, <1>7 DEF Start, TypeOK, dbVars
  <2> QED
    BY <1>1, <2>1, LadderMove DEF Climbed, SubmittedIsReal
<1>8. Grant \/ UNCHANGED vars => LadderInv'
  <2>1. Grant \/ UNCHANGED vars => UNCHANGED <<leg, processVars, brokerVars>>
    BY DEF Grant, vars, dbVars
  <2>2. TypeOK'
    BY <1>1, TypeStep
  <2> QED
    BY <2>1, <2>2
       DEF LadderInv, Climbed, LadderOrder, ToldOfOrder, SubmittedIsReal,
           ReportIsTrue, NumPosts, processVars, brokerVars
<1> QED
  BY <1>4, <1>5, <1>6, <1>7, <1>8, LadderSend, LadderBroker DEF Next

LEMMA LadderInvariance == Spec => []LadderInv
BY LadderInit, LadderStep, PTL DEF Spec

\* A leg is posted only after every earlier leg was recorded as accepted,
\* whichever processes submitted them and whichever of them died.
THEOREM LadderInOrder == Spec => []LadderOrder
<1>1. LadderInv => LadderOrder
  BY DEF LadderInv
<1> QED
  BY <1>1, LadderInvariance, PTL

\* A leg recorded as submitted did become an order, by an answer or by a
\* lookup of whatever process.
THEOREM RecordsAreReal == Spec => []SubmittedIsReal
<1>1. LadderInv => SubmittedIsReal
  BY DEF LadderInv
<1> QED
  BY <1>1, LadderInvariance, PTL

\* A ladder is reported accepted only when every leg of it is.
THEOREM ReportsAreTrue == Spec => []ReportIsTrue
<1>1. LadderInv => ReportIsTrue
  BY DEF LadderInv
<1> QED
  BY <1>1, LadderInvariance, PTL

-----------------------------------------------------------------------------
(* The count of POSTs.                                                     *)

\* A leg that may still be won by begin_attempt is good for one more POST.
Credit(l) == IF leg[l] \in {"ABSENT", "PREPARED"} THEN 1 ELSE 0

PaidFor(l) == NumPosts(l) + Cardinality(Senders(l)) + Credit(l) <= 1 + resets[l]

PaidInv == TypeOK /\ \A l \in Legs : PaidFor(l)

LEMMA PaidInit == Init => PaidInv
<1> SUFFICES ASSUME Init, NEW l \in Legs PROVE PaidFor(l)
  BY TypeInit DEF PaidInv
<1>1. Sent(l) = {} /\ Senders(l) = {}
  BY DEF Init, Sent, Senders, Posts
<1>2. NumPosts(l) = 0 /\ Cardinality(Senders(l)) = 0
  BY <1>1, Finite, FS_EmptySet
<1> QED
  BY <1>2 DEF Init, PaidFor, Credit

\* A step after which a leg has no new POST, sender or credit.
LEMMA QuietStep ==
  ASSUME PaidInv, TypeOK', NEW l \in Legs, Sent(l)' = Sent(l),
         Senders(l)' \subseteq Senders(l), Credit(l)' - Credit(l) <= resets'[l] - resets[l]
  PROVE  PaidFor(l)'
<1>1. NumPosts(l)' = NumPosts(l)
  BY DEF NumPosts, Sent
<1>2. Cardinality(Senders(l))' <= Cardinality(Senders(l)) /\ Cardinality(Senders(l))' \in Nat
  BY Finite, FS_Subset, FS_CardinalityType
<1>3. PaidFor(l) /\ resets[l] \in Nat /\ resets'[l] \in Nat
  BY DEF PaidInv, TypeOK
<1> QED
  BY <1>1, <1>2, <1>3, Finite DEF PaidFor, Credit

LEMMA PaidStep == PaidInv /\ [Next]_vars => PaidInv'
<1> SUFFICES ASSUME PaidInv, [Next]_vars, NEW l \in Legs PROVE PaidFor(l)'
  BY TypeStep DEF PaidInv
<1>1. TypeOK /\ TypeOK' /\ PaidFor(l)
  BY TypeStep DEF PaidInv
<1>2. /\ NumPosts(l) \in Nat /\ Cardinality(Senders(l)) \in Nat
      /\ IsFiniteSet(Sent(l)) /\ IsFiniteSet(Senders(l))
      /\ resets[l] \in Nat /\ resets'[l] \in Nat
      /\ NumPosts(l) = Cardinality(Sent(l))
  BY <1>1, Finite DEF TypeOK
\* One process goes anywhere but to "send", no POST leaves.
<1>3. ASSUME NEW p \in Processes, UNCHANGED fate, pc'[p] # "send",
             \A q \in Processes \ {p} : pc'[q] = pc[q] /\ ix'[q] = ix[q],
             Credit(l)' - Credit(l) <= resets'[l] - resets[l]
      PROVE  PaidFor(l)'
  <2>1. Sent(l)' = Sent(l) /\ Senders(l)' \subseteq Senders(l)
    BY <1>3 DEF Sent, Senders
  <2> QED
    BY <1>1, <1>3, <2>1, QuietStep
<1>4. ASSUME NEW p \in Processes,
             \/ Start(p) \/ SendDenied(p) \/ Answered(p) \/ Uncertain(p)
             \/ LookupFound(p) \/ LookupNothing(p) \/ LookupFailed(p)
             \/ Reread(p) \/ Crash(p)
      PROVE  PaidFor(l)'
  <2>1. UNCHANGED <<leg, resets, fate>>
    BY <1>4 DEF Start, SendDenied, Answered, Uncertain, LookupFound, LookupNothing,
                LookupFailed, Reread, Crash, dbVars, brokerVars
  <2>2. /\ pc'[p] # "send"
        /\ \A q \in Processes \ {p} : pc'[q] = pc[q] /\ ix'[q] = ix[q]
    BY <1>1, <1>4
       DEF Start, SendDenied, Answered, Uncertain, LookupFound, LookupNothing,
           LookupFailed, Reread, Crash, Advance, NextLeg, GoTo, GoResolve, GoReread,
           Leave, TypeOK
  <2>3. Credit(l)' - Credit(l) <= resets'[l] - resets[l]
    BY <1>2, <2>1 DEF Credit
  <2> QED
    BY <1>3, <2>1, <2>2, <2>3
<1>5. ASSUME NEW p \in Processes, ClaimPrepared(p) \/ Resolve(p) \/ Reset(p)
      PROVE  PaidFor(l)'
  <2>1. UNCHANGED fate
    BY <1>5 DEF ClaimPrepared, Resolve, Reset, brokerVars
  <2>2. /\ pc'[p] # "send"
        /\ \A q \in Processes \ {p} : pc'[q] = pc[q] /\ ix'[q] = ix[q]
    BY <1>1, <1>5
       DEF ClaimPrepared, Resolve, Reset, Advance, NextLeg, GoTo, GoReread, Leave, TypeOK
  <2>3. Credit(l)' - Credit(l) <= resets'[l] - resets[l]
    <3>1. CASE leg'[l] = leg[l] /\ resets'[l] = resets[l]
      BY <1>2, <3>1 DEF Credit
    <3>2. CASE l = ix[p] /\ Reset(p) /\ resets'[l] # resets[l]
      BY <1>1, <1>2, <3>2 DEF Reset, Credit, TypeOK
    <3>3. CASE l = ix[p] /\ resets' = resets /\ (ClaimPrepared(p) \/ Resolve(p))
      BY <1>1, <1>2, <3>3 DEF ClaimPrepared, Resolve, Credit, TypeOK, Outcomes
    <3> QED
      BY <1>1, <1>5, <3>1, <3>2, <3>3 DEF ClaimPrepared, Resolve, Reset, TypeOK
  <2> QED
    BY <1>3, <2>1, <2>2, <2>3
\* The winner of the compare-and-set takes the credit.
<1>6. ASSUME NEW p \in Processes, BeginAttempt(p) PROVE PaidFor(l)'
  <2>1. UNCHANGED <<resets, fate>>
    BY <1>6 DEF BeginAttempt, brokerVars
  <2>2. CASE l = ix[p] /\ leg[ix[p]] = "PREPARED"
    <3>1. Credit(l) = 1 /\ Credit(l)' = 0
      BY <1>1, <1>6, <2>2 DEF BeginAttempt, Credit, TypeOK
    <3>2. Senders(l)' = Senders(l) \cup {p}
      BY <1>1, <1>6, <2>2 DEF BeginAttempt, GoTo, Senders, TypeOK
    <3>3. Cardinality(Senders(l))' <= Cardinality(Senders(l)) + 1 /\ Cardinality(Senders(l))' \in Nat
      BY <1>2, <3>2, OneMore
    <3>4. NumPosts(l)' = NumPosts(l)
      BY <2>1 DEF NumPosts
    <3> QED
      BY <1>1, <1>2, <2>1, <3>1, <3>3, <3>4 DEF PaidFor
  <2>3. CASE l # ix[p] /\ leg[ix[p]] = "PREPARED"
    <3>1. Sent(l)' = Sent(l) /\ Senders(l)' \subseteq Senders(l)
      BY <1>1, <1>6, <2>1, <2>3 DEF BeginAttempt, GoTo, Sent, Senders, TypeOK
    <3>2. Credit(l)' - Credit(l) <= resets'[l] - resets[l]
      BY <1>1, <1>2, <1>6, <2>1, <2>3 DEF BeginAttempt, Credit, TypeOK
    <3> QED
      BY <1>1, <3>1, <3>2, QuietStep
  <2>4. CASE leg[ix[p]] # "PREPARED"
    <3>1. /\ pc'[p] # "send" /\ UNCHANGED leg
          /\ \A q \in Processes \ {p} : pc'[q] = pc[q] /\ ix'[q] = ix[q]
      BY <1>1, <1>6, <2>4 DEF BeginAttempt, GoReread, TypeOK
    <3>2. Credit(l)' - Credit(l) <= resets'[l] - resets[l]
      BY <1>2, <2>1, <3>1 DEF Credit
    <3> QED
      BY <1>3, <2>1, <3>1, <3>2
  <2> QED
    BY <2>2, <2>3, <2>4
\* The sender becomes a POST.
<1>7. ASSUME NEW p \in Processes, Send(p) PROVE PaidFor(l)'
  <2> DEFINE n == NumPosts(ix[p]) + 1
  <2>1. /\ n \in 1..MaxPosts /\ ix[p] \in Legs
        /\ UNCHANGED <<leg, resets, ix>>
        /\ fate' = [fate EXCEPT ![<<ix[p], n>>] = "sent"]
        /\ pc[p] = "send" /\ pc' = [pc EXCEPT ![p] = "await"]
    BY <1>1, <1>7, Finite, BoundsAssumption DEF Send, TypeOK, dbVars
  <2> HIDE DEF n
  <2>2. Credit(l)' = Credit(l) /\ Credit(l) \in {0, 1}
    BY <2>1 DEF Credit
  <2>3. CASE l = ix[p]
    <3>1. Sent(l)' = Sent(l) \cup {n}
      BY <1>1, <2>1, <2>3 DEF Sent, TypeOK, Posts
    <3>2. Senders(l)' = Senders(l) \ {p} /\ p \in Senders(l)
      BY <1>1, <2>1, <2>3 DEF Senders, TypeOK
    <3>3. NumPosts(l)' = Cardinality(Sent(l)')
      BY DEF NumPosts, Sent
    <3>4. NumPosts(l)' <= NumPosts(l) + 1 /\ NumPosts(l)' \in Nat
      BY <1>2, <3>1, <3>3, OneMore
    <3>5. Cardinality(Senders(l))' = Cardinality(Senders(l)) - 1
      BY <1>2, <3>2, FS_RemoveElement
    <3> QED
      BY <1>1, <1>2, <2>1, <2>2, <3>4, <3>5 DEF PaidFor
  <2>4. CASE l # ix[p]
    <3>1. Sent(l)' = Sent(l)
      BY <1>1, <2>1, <2>4 DEF Sent, TypeOK, Posts
    <3>2. Senders(l)' \subseteq Senders(l)
      BY <1>1, <2>1 DEF Senders, TypeOK
    <3>3. Credit(l)' - Credit(l) <= resets'[l] - resets[l]
      BY <1>2, <2>1, <2>2
    <3> QED
      BY <1>1, <3>1, <3>2, <3>3, QuietStep
  <2> QED
    BY <2>3, <2>4
\* Nothing but the fate of a POST that has left changes.
<1>8. ASSUME UNCHANGED <<leg, resets, pc, ix>>,
             \A m \in Posts : fate'[m] # "none" <=> fate[m] # "none"
      PROVE  PaidFor(l)'
  <2>1. Sent(l)' = Sent(l) /\ Senders(l)' = Senders(l)
    BY <1>8 DEF Sent, Senders, Posts
  <2>2. Credit(l)' - Credit(l) <= resets'[l] - resets[l]
    BY <1>2, <1>8 DEF Credit
  <2> QED
    BY <1>1, <2>1, <2>2, QuietStep
<1>9. ASSUME NEW m \in Posts, BrokerCreates(m) \/ BrokerRefuses(m) \/ PostLost(m)
      PROVE  PaidFor(l)'
  <2>1. UNCHANGED <<leg, resets, pc, ix>>
    BY <1>9 DEF BrokerCreates, BrokerRefuses, PostLost, dbVars, processVars
  <2>2. \A k \in Posts : fate'[k] # "none" <=> fate[k] # "none"
    BY <1>1, <1>9 DEF BrokerCreates, BrokerRefuses, PostLost, TypeOK
  <2> QED
    BY <1>8, <2>1, <2>2
<1>10. (\E k \in Legs : OrderEnds(k)) \/ Grant \/ UNCHANGED vars =>
         UNCHANGED <<leg, resets, pc, ix, fate>>
  BY DEF OrderEnds, Grant, vars, dbVars, processVars, brokerVars
<1> QED
  BY <1>4, <1>5, <1>6, <1>7, <1>8, <1>9, <1>10 DEF Next

\* Each POST of a leg beyond the first is paid for by a reset of its own, the
\* POSTs still to be sent included: however many processes work on a leg, no
\* two win the same attempt.
THEOREM EveryPostIsPaid == Spec => []PostsPaidByResets
<1>1. PaidInv => PostsPaidByResets
  <2> SUFFICES ASSUME PaidInv, NEW l \in Legs
               PROVE  NumPosts(l) + Cardinality(Senders(l)) <= 1 + resets[l]
    BY DEF PostsPaidByResets, Senders
  <2>1. PaidFor(l) /\ resets[l] \in Nat
    BY DEF PaidInv, TypeOK
  <2> QED
    BY <2>1, Finite DEF PaidFor, Credit
<1> QED
  BY <1>1, PaidInit, PaidStep, PTL DEF Spec

-----------------------------------------------------------------------------
(* What a refusal proves.                                                  *)

\* The POSTs of a leg are numbered without gaps.
Packed == \A l \in Legs : Sent(l) = 1..NumPosts(l)

Some(l, f) == \E n \in 1..MaxPosts : fate[<<l, n>>] = f

\* A rejection, recorded or about to be, is the answer to a POST, and so is
\* an order.
Answers ==
  /\ \A l \in Legs : leg[l] = "REJECTED" => Some(l, "refused")
  /\ \A p \in Processes :
       pc[p] = "resolve" /\ obs[p] = "REJECTED" => Some(ix[p], "refused")
  /\ \A l \in Legs : order[l] # "ABSENT" => Some(l, "created")

AnswerInv == LadderInv /\ Packed /\ Answers

LEMMA AnswerInit == Init => AnswerInv
<1> SUFFICES ASSUME Init PROVE Packed /\ Answers
  BY LadderInit DEF AnswerInv
<1>1. Answers
  BY DEF Init, Answers
<1>2. ASSUME NEW l \in Legs PROVE Sent(l) = 1..NumPosts(l)
  <2>1. Sent(l) = {}
    BY DEF Init, Sent, Posts
  <2>2. NumPosts(l) = 0
    BY <2>1, Finite, FS_EmptySet
  <2> QED
    BY <2>1, <2>2
<1> QED
  BY <1>1, <1>2 DEF Packed

\* The next POST of a leg takes a number that no POST has.
LEMMA SendIsNew ==
  ASSUME AnswerInv, NEW p \in Processes, Send(p)
  PROVE  /\ fate[<<ix[p], NumPosts(ix[p]) + 1>>] = "none"
         /\ Packed'
<1> DEFINE n == NumPosts(ix[p]) + 1
<1>1. TypeOK /\ Packed /\ ix[p] \in Legs
  BY DEF AnswerInv, LadderInv, TypeOK
<1>2. /\ n \in 1..MaxPosts
      /\ fate' = [fate EXCEPT ![<<ix[p], n>>] = "sent"]
      /\ NumPosts(ix[p]) \in Nat /\ Sent(ix[p]) = 1..NumPosts(ix[p])
  BY <1>1, Finite, BoundsAssumption DEF Send, Packed
<1>3. n \notin Sent(ix[p])
  BY <1>2
<1> HIDE DEF n
<1>4. ASSUME NEW l \in Legs PROVE Sent(l)' = 1..NumPosts(l)'
  <2>1. NumPosts(l)' = Cardinality(Sent(l)')
    BY DEF NumPosts, Sent
  <2>2. CASE l = ix[p]
    <3>1. Sent(l)' = Sent(l) \cup {n}
      BY <1>1, <1>2, <2>2 DEF Sent, TypeOK, Posts
    <3>2. Sent(l)' = 1..n
      BY <1>2, <2>2, <3>1 DEF n
    <3>3. Cardinality(1..n) = n
      BY <1>2, FS_Interval, BoundsAssumption
    <3> QED
      BY <2>1, <3>2, <3>3
  <2>3. CASE l # ix[p]
    <3>1. Sent(l)' = Sent(l)
      BY <1>1, <1>2, <2>3 DEF Sent, TypeOK, Posts
    <3> QED
      BY <1>1, <2>1, <3>1, Finite DEF Packed
  <2> QED
    BY <2>2, <2>3
<1>5. fate[<<ix[p], n>>] = "none"
  BY <1>2, <1>3 DEF Sent
<1> QED
  BY <1>4, <1>5 DEF Packed, n

\* A step that keeps the fates which are answers, and the numbers.
LEMMA AnswerMove ==
  ASSUME AnswerInv, [Next]_vars,
         \A l \in Legs : Sent(l)' = Sent(l),
         \A l \in Legs : Some(l, "refused") => Some(l, "refused")',
         \A l \in Legs : Some(l, "created") => Some(l, "created")',
         \A l \in Legs : order'[l] # "ABSENT" => order[l] # "ABSENT" \/ Some(l, "created")',
         \A l \in Legs : leg'[l] = "REJECTED" => leg[l] = "REJECTED" \/ Some(l, "refused"),
         \A p \in Processes : pc'[p] = "resolve" /\ obs'[p] = "REJECTED" =>
           \/ pc[p] = "resolve" /\ obs[p] = "REJECTED" /\ ix'[p] = ix[p]
           \/ Some(ix'[p], "refused")
  PROVE  AnswerInv'
<1>1. LadderInv' /\ TypeOK'
  BY LadderStep DEF AnswerInv, LadderInv
<1>2. Packed'
  <2>1. \A l \in Legs : NumPosts(l)' = NumPosts(l)
    BY DEF NumPosts, Sent
  <2> QED
    BY <2>1 DEF AnswerInv, Packed
<1>3. \A p \in Processes : ix'[p] \in Legs
  BY <1>1 DEF TypeOK
<1>4. Answers'
  BY <1>3 DEF AnswerInv, Answers
<1> QED
  BY <1>1, <1>2, <1>4 DEF AnswerInv

LEMMA AnswerStep == AnswerInv /\ [Next]_vars => AnswerInv'
<1> SUFFICES ASSUME AnswerInv, [Next]_vars PROVE AnswerInv'
  OBVIOUS
<1>1. /\ TypeOK /\ TypeOK' /\ ToldOfOrder /\ Answers
      /\ \A p \in Processes : ix[p] \in Legs
  BY TypeStep DEF AnswerInv, LadderInv, TypeOK
\* A step that leaves the broker alone.
<1>2. ASSUME UNCHANGED brokerVars,
             \A l \in Legs : leg'[l] = "REJECTED" => leg[l] = "REJECTED" \/ Some(l, "refused"),
             \A p \in Processes : pc'[p] = "resolve" /\ obs'[p] = "REJECTED" =>
               \/ pc[p] = "resolve" /\ obs[p] = "REJECTED" /\ ix'[p] = ix[p]
               \/ Some(ix'[p], "refused")
      PROVE  AnswerInv'
  <2>1. /\ \A l \in Legs : Sent(l)' = Sent(l) /\ order'[l] = order[l]
        /\ \A l \in Legs : Some(l, "refused")' = Some(l, "refused")
        /\ \A l \in Legs : Some(l, "created")' = Some(l, "created")
    BY <1>2 DEF brokerVars, Sent, Some
  <2> QED
    BY <1>2, <2>1, AnswerMove
<1>3. ASSUME NEW p \in Processes,
             \/ Start(p) \/ ClaimPrepared(p) \/ BeginAttempt(p) \/ SendDenied(p)
             \/ Uncertain(p) \/ LookupFound(p) \/ LookupNothing(p) \/ LookupFailed(p)
             \/ Reset(p) \/ Reread(p) \/ Crash(p)
      PROVE  AnswerInv'
  <2>1. UNCHANGED brokerVars
    BY <1>3 DEF Start, ClaimPrepared, BeginAttempt, SendDenied, Uncertain, LookupFound,
                LookupNothing, LookupFailed, Reset, Reread, Crash
  <2>2. \A l \in Legs : leg'[l] = "REJECTED" => leg[l] = "REJECTED"
    BY <1>1, <1>3
       DEF Start, ClaimPrepared, BeginAttempt, SendDenied, Uncertain, LookupFound,
           LookupNothing, LookupFailed, Reset, Reread, Crash, dbVars, TypeOK
  <2>3. \A q \in Processes : pc'[q] = "resolve" /\ obs'[q] = "REJECTED" =>
          pc[q] = "resolve" /\ obs[q] = "REJECTED" /\ ix'[q] = ix[q]
    BY <1>1, <1>3
       DEF Start, ClaimPrepared, BeginAttempt, SendDenied, Uncertain, LookupFound,
           LookupNothing, LookupFailed, Reset, Reread, Crash, GoTo, GoReread, GoResolve,
           Advance, NextLeg, Leave, TypeOK
  <2> QED
    BY <1>2, <2>1, <2>2, <2>3
<1>4. ASSUME NEW p \in Processes, Answered(p) PROVE AnswerInv'
  <2>1. UNCHANGED <<leg, brokerVars>>
    BY <1>4 DEF Answered, dbVars
  <2>2. mine[p] \in 1..MaxPosts
    BY <1>1, <1>4, BoundsAssumption DEF Answered, ToldOfOrder, TypeOK
  <2>3. \A q \in Processes : pc'[q] = "resolve" /\ obs'[q] = "REJECTED" =>
          \/ pc[q] = "resolve" /\ obs[q] = "REJECTED" /\ ix'[q] = ix[q]
          \/ Some(ix'[q], "refused")
    BY <1>1, <1>4, <2>2 DEF Answered, GoResolve, TypeOK, Some
  <2> QED
    BY <1>2, <2>1, <2>3
<1>5. ASSUME NEW p \in Processes, Resolve(p) PROVE AnswerInv'
  <2>1. UNCHANGED brokerVars
    BY <1>5 DEF Resolve
  <2>2. \A l \in Legs : leg'[l] = "REJECTED" => leg[l] = "REJECTED" \/ Some(l, "refused")
    BY <1>1, <1>5 DEF Resolve, Answers, TypeOK
  <2>3. \A q \in Processes : pc'[q] = "resolve" /\ obs'[q] = "REJECTED" =>
          pc[q] = "resolve" /\ obs[q] = "REJECTED" /\ ix'[q] = ix[q]
    BY <1>1, <1>5 DEF Resolve, GoReread, TypeOK
  <2> QED
    BY <1>2, <2>1, <2>2, <2>3
<1>6. ASSUME NEW p \in Processes, Send(p) PROVE AnswerInv'
  <2> DEFINE n == NumPosts(ix[p]) + 1
  <2>1. /\ n \in 1..MaxPosts
        /\ fate' = [fate EXCEPT ![<<ix[p], n>>] = "sent"]
        /\ fate[<<ix[p], n>>] = "none"
        /\ UNCHANGED <<leg, order, ix, obs>> /\ pc' = [pc EXCEPT ![p] = "await"]
    <3>1. fate[<<ix[p], n>>] = "none"
      BY <1>6, SendIsNew
    <3>2. NumPosts(ix[p]) \in Nat
      BY <1>1, Finite
    <3>3. n \in 1..MaxPosts
      BY <1>6, <3>2, BoundsAssumption DEF Send
    <3>4. /\ fate' = [fate EXCEPT ![<<ix[p], n>>] = "sent"]
          /\ UNCHANGED <<leg, order, ix, obs>> /\ pc' = [pc EXCEPT ![p] = "await"]
      BY <1>6, Zenon DEF Send, dbVars
    <3> QED
      BY <3>1, <3>3, <3>4
  <2>2. Packed' /\ LadderInv'
    BY <1>6, SendIsNew, LadderStep DEF AnswerInv
  <2> HIDE DEF n
  <2>3. \A l \in Legs : \A k \in 1..MaxPosts :
          fate[<<l, k>>] # "none" => fate'[<<l, k>>] = fate[<<l, k>>]
    BY <1>1, <2>1 DEF TypeOK, Posts
  <2>4. ASSUME NEW l \in Legs, NEW f \in {"refused", "created"}, Some(l, f) PROVE Some(l, f)'
    BY <2>3, <2>4 DEF Some
  <2>5. \A q \in Processes : pc'[q] = "resolve" /\ obs'[q] = "REJECTED" =>
          pc[q] = "resolve" /\ obs[q] = "REJECTED" /\ ix'[q] = ix[q]
    BY <1>1, <2>1 DEF TypeOK
  <2>6. Answers'
    BY <1>1, <2>1, <2>4, <2>5 DEF Answers
  <2> QED
    BY <2>2, <2>6 DEF AnswerInv
<1>7. ASSUME NEW m \in Posts, BrokerCreates(m) \/ BrokerRefuses(m) \/ PostLost(m)
      PROVE  AnswerInv'
  <2>1. /\ UNCHANGED <<leg, pc, ix, obs>>
        /\ fate[m] = "sent"
        /\ \A k \in Posts \ {m} : fate'[k] = fate[k]
        /\ fate'[m] # "none"
    BY <1>1, <1>7
       DEF BrokerCreates, BrokerRefuses, PostLost, TypeOK, dbVars, processVars
  <2>2. \A l \in Legs : Sent(l)' = Sent(l)
    BY <2>1 DEF Sent, Posts
  <2>3. ASSUME NEW l \in Legs, NEW f \in {"refused", "created"}, Some(l, f) PROVE Some(l, f)'
    BY <2>1, <2>3 DEF Some, Posts
  <2>4. \A l \in Legs : order'[l] # "ABSENT" => order[l] # "ABSENT" \/ Some(l, "created")'
    <3>1. m = <<m[1], m[2]>> /\ m[1] \in Legs /\ m[2] \in 1..MaxPosts
      BY DEF Posts
    <3>2. CASE BrokerCreates(m)
      <4>1. fate'[<<m[1], m[2]>>] = "created"
        BY <1>1, <3>1, <3>2 DEF BrokerCreates, TypeOK
      <4>2. Some(m[1], "created")'
        BY <3>1, <4>1 DEF Some
      <4> QED
        BY <1>1, <3>2, <4>2 DEF BrokerCreates, TypeOK
    <3>3. CASE BrokerRefuses(m) \/ PostLost(m)
      BY <3>3 DEF BrokerRefuses, PostLost
    <3> QED
      BY <1>7, <3>2, <3>3
  <2> QED
    BY <2>1, <2>2, <2>3, <2>4, AnswerMove
<1>8. ASSUME NEW k \in Legs, OrderEnds(k) PROVE AnswerInv'
  <2>1. UNCHANGED <<leg, fate, pc, ix, obs>>
    BY <1>8 DEF OrderEnds, dbVars, processVars
  <2>2. \A l \in Legs : order'[l] # "ABSENT" => order[l] # "ABSENT"
    BY <1>1, <1>8 DEF OrderEnds, TypeOK
  <2>3. \A l \in Legs : /\ Sent(l)' = Sent(l) /\ Some(l, "refused")' = Some(l, "refused")
                       /\ Some(l, "created")' = Some(l, "created")
    BY <2>1 DEF Sent, Some
  <2> QED
    BY <2>1, <2>2, <2>3, AnswerMove
<1>9. Grant \/ UNCHANGED vars => AnswerInv'
  <2>1. Grant \/ UNCHANGED vars => UNCHANGED <<leg, pc, ix, obs, brokerVars>>
    BY DEF Grant, vars, dbVars, processVars
  <2> QED
    BY <1>2, <2>1
<1> QED
  BY <1>3, <1>4, <1>5, <1>6, <1>7, <1>8, <1>9 DEF Next

\* A leg that was never reset is recorded as rejected only if its order was
\* never created: a refusal and an order are answers to two POSTs, and the
\* second POST is paid for by a reset.
THEOREM RefusalIsProof == Spec => []FirstRejectionIsHonest
<1>1. AnswerInv /\ PaidInv => FirstRejectionIsHonest
  <2> SUFFICES ASSUME AnswerInv, PaidInv, NEW l \in Legs, leg[l] = "REJECTED",
                      resets[l] = 0, order[l] # "ABSENT"
               PROVE  FALSE
    BY DEF FirstRejectionIsHonest
  <2>1. PICK i \in 1..MaxPosts : fate[<<l, i>>] = "refused"
    BY DEF AnswerInv, Answers, Some
  <2>2. PICK j \in 1..MaxPosts : fate[<<l, j>>] = "created"
    BY DEF AnswerInv, Answers, Some
  <2>3. i \in Sent(l) /\ j \in Sent(l) /\ i # j
    BY <2>1, <2>2 DEF Sent
  <2>4. i \in 1..NumPosts(l) /\ j \in 1..NumPosts(l)
    BY <2>3 DEF AnswerInv, Packed
  <2>5. NumPosts(l) <= 1
    <3>1. PaidFor(l)
      BY DEF PaidInv
    <3> QED
      BY <3>1, Finite DEF PaidFor, Credit
  <2> QED
    BY <2>3, <2>4, <2>5, Finite
<1> QED
  BY <1>1, AnswerInit, AnswerStep, PaidInit, PaidStep, PTL DEF Spec

\* A leg becomes one order more than it was reset at most: where the code does
\* not keep to one order per leg, a reset has preceded.
THEOREM OrdersPaidByResets ==
  Spec => [](\A l \in Legs :
               Cardinality({n \in 1..MaxPosts : fate[<<l, n>>] = "created"}) <= 1 + resets[l])
<1>1. ASSUME PaidInv, NEW l \in Legs
      PROVE  Cardinality({n \in 1..MaxPosts : fate[<<l, n>>] = "created"}) <= 1 + resets[l]
  <2>1. PICK C : C = {n \in 1..MaxPosts : fate[<<l, n>>] = "created"}
    OBVIOUS
  <2>2. C \subseteq Sent(l)
    BY <2>1 DEF Sent
  <2>3. Cardinality(C) <= Cardinality(Sent(l)) /\ Cardinality(C) \in Nat
    BY <2>2, Finite, FS_Subset, FS_CardinalityType
  <2>4. PaidFor(l) /\ resets[l] \in Nat
    BY <1>1 DEF PaidInv, TypeOK
  <2>5. Cardinality(C) <= 1 + resets[l]
    BY <2>3, <2>4, Finite DEF PaidFor, Credit
  <2> QED
    BY <2>1, <2>5
<1>2. PaidInv => \A l \in Legs :
        Cardinality({n \in 1..MaxPosts : fate[<<l, n>>] = "created"}) <= 1 + resets[l]
  BY <1>1
<1> QED
  BY <1>2, PaidInit, PaidStep, PTL DEF Spec

-----------------------------------------------------------------------------
(* The abstract ladder.                                                    *)

phaseBar == [l \in Legs |-> Phase(l)]
postedBar == [l \in Legs |-> NumPosts(l)]
toldBar == {p \in Processes : report[p] = "accepted"}

\* The abstract values that the state of a leg stands for.
LEMMA Phases ==
  ASSUME NEW l \in Legs
  PROVE  /\ leg[l] \in {"ABSENT", "PREPARED"} => Phase(l) = "idle"
         /\ leg[l] = "SUBMISSION_UNCERTAIN" => Phase(l) = "committed"
         /\ leg[l] = "SUBMITTED" => Phase(l) = "accepted"
         /\ leg[l] = "REJECTED" => Phase(l) = "closed"
  BY DEF Phase

LEMMA NextPhases ==
  ASSUME NEW l \in Legs
  PROVE  /\ leg'[l] \in {"ABSENT", "PREPARED"} => Phase(l)' = "idle"
         /\ leg'[l] = "SUBMISSION_UNCERTAIN" => Phase(l)' = "committed"
         /\ leg'[l] = "SUBMITTED" => Phase(l)' = "accepted"
         /\ leg'[l] = "REJECTED" => Phase(l)' = "closed"
         /\ leg'[l] = leg[l] => Phase(l)' = Phase(l)
  BY DEF Phase

\* At most one leg changes its phase, at most one is posted.
LEMMA OneLeg ==
  ASSUME NEW l \in Legs
  PROVE  /\ phaseBar[l] = Phase(l) /\ postedBar[l] = NumPosts(l)
         /\ (\A k \in Legs : k # l => Phase(k)' = Phase(k)) =>
              phaseBar' = [phaseBar EXCEPT ![l] = Phase(l)']
         /\ (\A k \in Legs : k # l => NumPosts(k)' = NumPosts(k)) =>
              postedBar' = [postedBar EXCEPT ![l] = NumPosts(l)']
<1>1. phaseBar[l] = Phase(l) /\ postedBar[l] = NumPosts(l)
  BY DEF phaseBar, postedBar
<1>2. ASSUME \A k \in Legs : k # l => Phase(k)' = Phase(k)
      PROVE  phaseBar' = [phaseBar EXCEPT ![l] = Phase(l)']
  BY <1>2 DEF phaseBar
<1>3. ASSUME \A k \in Legs : k # l => NumPosts(k)' = NumPosts(k)
      PROVE  postedBar' = [postedBar EXCEPT ![l] = NumPosts(l)']
  BY <1>3 DEF postedBar
<1> QED
  BY <1>1, <1>2, <1>3

\* A step that leaves the fates, or the legs, as they are.
LEMMA SamePosts ==
  ASSUME fate' = fate
  PROVE  /\ postedBar' = postedBar
         /\ \A l \in Legs : NumPosts(l)' = NumPosts(l)
  BY DEF postedBar, NumPosts

LEMMA SamePhases ==
  ASSUME leg' = leg
  PROVE  /\ phaseBar' = phaseBar
         /\ \A l \in Legs : Phase(l)' = Phase(l)
  BY DEF phaseBar, Phase

\* The legs before the one a process works on are abstractly accepted.
LEMMA ClimbedReached ==
  ASSUME LadderInv, NEW p \in Processes
  PROVE  \A j \in Legs : j < ix[p] => phaseBar[j] = "accepted"
  BY Phases, OneLeg DEF LadderInv, Climbed

LEMMA AbstractInit == Init => Ladder!Init
<1> SUFFICES ASSUME Init PROVE Ladder!Init
  OBVIOUS
<1>1. ASSUME NEW l \in Legs PROVE NumPosts(l) = 0
  <2>1. Sent(l) = {}
    BY DEF Init, Sent, Posts
  <2> QED
    BY <2>1, Finite, FS_EmptySet
<1>2. \A l \in Legs : Phase(l) = "idle"
  BY Phases DEF Init
<1>3. toldBar = {}
  BY DEF Init, toldBar
<1> QED
  BY <1>1, <1>2, <1>3 DEF Init, Ladder!Init, toldBar

\* One process at most is told something else, and nothing else changes.
LEMMA AbstractTold ==
  ASSUME LadderInv, [Next]_vars, NEW p \in Processes,
         UNCHANGED <<phaseBar, postedBar, resets>>,
         \A q \in Processes \ {p} : report'[q] = report[q]
  PROVE  [Ladder!Next]_(Ladder!vars)
<1>1. CASE report'[p] = "accepted" /\ report[p] # "accepted"
  <2>1. \A l \in Legs : leg'[l] = "SUBMITTED"
    BY <1>1, LadderStep DEF LadderInv, ReportIsTrue
  <2>2. \A l \in Legs : phaseBar[l] = "accepted"
    <3>1. \A l \in Legs : Phase(l)' = "accepted"
      BY <2>1, NextPhases
    <3>2. \A l \in Legs : phaseBar'[l] = "accepted"
      BY <3>1 DEF phaseBar
    <3> QED
      BY <3>2
  <2>3. toldBar' = toldBar \cup {p}
    BY <1>1 DEF toldBar
  <2>4. Ladder!Tell(p)
    BY <2>2, <2>3 DEF Ladder!Tell, phaseBar, postedBar, toldBar
  <2> QED
    BY <2>4 DEF Ladder!Next
<1>2. CASE report'[p] # "accepted" /\ report[p] = "accepted"
  <2>1. toldBar' = toldBar \ {p}
    BY <1>2 DEF toldBar
  <2>2. Ladder!Forget(p)
    BY <2>1 DEF Ladder!Forget, phaseBar, postedBar, toldBar
  <2> QED
    BY <2>2 DEF Ladder!Next
<1>3. CASE report'[p] = "accepted" <=> report[p] = "accepted"
  <2>1. toldBar' = toldBar
    BY <1>3 DEF toldBar
  <2> QED
    BY <2>1 DEF Ladder!vars, phaseBar, postedBar, toldBar
<1> QED
  BY <1>1, <1>2, <1>3

\* The winner of begin_attempt commits the leg.
LEMMA AbstractBegin ==
  ASSUME LadderInv, NEW p \in Processes, BeginAttempt(p), leg[ix[p]] = "PREPARED"
  PROVE  Ladder!Next
<1>1. PICK l \in Legs : l = ix[p]
  BY DEF LadderInv, TypeOK
<1>2. /\ leg' = [leg EXCEPT ![l] = "SUBMISSION_UNCERTAIN"]
      /\ UNCHANGED <<resets, fate, report>>
  BY <1>1 DEF BeginAttempt, GoTo, brokerVars
<1>3. leg'[l] = "SUBMISSION_UNCERTAIN" /\ \A k \in Legs : k # l => leg'[k] = leg[k]
  BY <1>2 DEF LadderInv, TypeOK
<1>4. phaseBar[l] = "idle" /\ phaseBar' = [phaseBar EXCEPT ![l] = "committed"]
  BY <1>1, <1>3, Phases, NextPhases, OneLeg
<1>5. postedBar' = postedBar /\ toldBar' = toldBar
  BY <1>2, SamePosts DEF toldBar
<1>6. Ladder!Reached(l)
  BY <1>1, ClimbedReached DEF Ladder!Reached, phaseBar
<1>7. Ladder!Commit(l)
  BY <1>2, <1>4, <1>5, <1>6 DEF Ladder!Commit, phaseBar, postedBar, toldBar
<1> QED
  BY <1>7 DEF Ladder!Next

\* A POST leaves; the promise of one more was made to its sender.
LEMMA AbstractSend ==
  ASSUME AnswerInv, PaidInv, NEW p \in Processes, Send(p)
  PROVE  Ladder!Next
<1>1. PICK l \in Legs : l = ix[p]
  BY DEF PaidInv, TypeOK
<1>2. /\ UNCHANGED <<leg, resets, report>>
      /\ NumPosts(l) + 1 <= MaxPosts
      /\ fate' = [fate EXCEPT ![<<l, NumPosts(l) + 1>>] = "sent"]
  BY <1>1, Zenon DEF Send, dbVars
<1>3. /\ TypeOK /\ LadderInv /\ NumPosts(l) \in Nat /\ resets[l] \in Nat
      /\ IsFiniteSet(Sent(l)) /\ NumPosts(l) = Cardinality(Sent(l))
      /\ fate[<<l, NumPosts(l) + 1>>] = "none"
  BY <1>1, Finite, SendIsNew DEF AnswerInv, PaidInv, TypeOK
<1>4. PICK n \in 1..MaxPosts : n = NumPosts(l) + 1
  BY <1>2, <1>3, BoundsAssumption
<1>5. n \notin Sent(l) /\ Sent(l)' = Sent(l) \cup {n}
  BY <1>2, <1>3, <1>4 DEF Sent, TypeOK, Posts
<1>6. NumPosts(l)' = NumPosts(l) + 1
  <2>1. NumPosts(l)' = Cardinality(Sent(l)')
    BY DEF NumPosts, Sent
  <2> QED
    BY <1>3, <1>5, <2>1, FS_AddElement
<1>7. \A k \in Legs : k # l => NumPosts(k)' = NumPosts(k)
  BY <1>2, <1>3, <1>4 DEF NumPosts, TypeOK, Posts
<1>8. postedBar[l] = NumPosts(l) /\ postedBar' = [postedBar EXCEPT ![l] = NumPosts(l) + 1]
  BY <1>6, <1>7, OneLeg
<1>9. phaseBar' = phaseBar /\ toldBar' = toldBar
  BY <1>2, SamePhases DEF toldBar
<1>10. Cardinality(Senders(l)) \in Nat \ {0}
  <2>1. p \in Senders(l)
    BY <1>1 DEF Senders, Send
  <2> QED
    BY <2>1, Finite, FS_EmptySet
<1>11. NumPosts(l) <= resets[l] /\ (phaseBar[l] # "idle" \/ resets[l] > 0)
  <2>1. PaidFor(l)
    BY DEF PaidInv
  <2>2. leg[l] \notin {"ABSENT", "PREPARED"} => Phase(l) # "idle"
    BY <1>3, Phases DEF TypeOK, LegStates
  <2> QED
    BY <1>3, <1>10, <2>1, <2>2, OneLeg DEF PaidFor, Credit
<1>12. Ladder!Reached(l)
  BY <1>1, <1>3, ClimbedReached DEF Ladder!Reached, phaseBar
<1>13. Ladder!Post(l)
  BY <1>2, <1>8, <1>9, <1>11, <1>12 DEF Ladder!Post, phaseBar, postedBar, toldBar
<1> QED
  BY <1>13 DEF Ladder!Next

\* Every recorded outcome is the outcome of a POST.
LEMMA OutcomesWerePosted ==
  ASSUME AnswerInv, NEW p \in Processes, pc[p] = "resolve"
  PROVE  NumPosts(ix[p]) > 0
<1>1. ix[p] \in Legs /\ obs[p] \in Outcomes
  BY DEF AnswerInv, LadderInv, TypeOK
<1>2. Some(ix[p], "created") \/ Some(ix[p], "refused")
  BY <1>1 DEF AnswerInv, LadderInv, ToldOfOrder, Answers, Outcomes
<1>3. Sent(ix[p]) # {}
  BY <1>2 DEF Some, Sent
<1> QED
  BY <1>1, <1>3, PostedLeg

LEMMA AbstractResolve ==
  ASSUME AnswerInv, NEW p \in Processes, Resolve(p), leg[ix[p]] = "SUBMISSION_UNCERTAIN"
  PROVE  Ladder!Next
<1>1. PICK l \in Legs : l = ix[p]
  BY DEF AnswerInv, LadderInv, TypeOK
<1>2. /\ leg' = [leg EXCEPT ![l] = obs[p]]
      /\ UNCHANGED <<resets, fate, report>>
  BY <1>1 DEF Resolve, GoReread, brokerVars
<1>3. leg'[l] \in {"SUBMITTED", "REJECTED"} /\ \A k \in Legs : k # l => leg'[k] = leg[k]
  BY <1>2 DEF AnswerInv, LadderInv, TypeOK, Outcomes
<1>4. PICK s \in {"accepted", "closed"} : Phase(l)' = s
  BY <1>3, NextPhases
<1>5. phaseBar[l] = "committed" /\ phaseBar' = [phaseBar EXCEPT ![l] = s]
  BY <1>1, <1>3, <1>4, Phases, NextPhases, OneLeg
<1>6. postedBar' = postedBar /\ toldBar' = toldBar
  BY <1>2, SamePosts DEF toldBar
<1>7. postedBar[l] > 0
  BY <1>1, OutcomesWerePosted, OneLeg DEF Resolve
<1>8. Ladder!Resolve(l)
  BY <1>2, <1>5, <1>6, <1>7 DEF Ladder!Resolve, phaseBar, postedBar, toldBar
<1> QED
  BY <1>8 DEF Ladder!Next

\* The winner of reset_to_prepared takes the leg back.
LEMMA AbstractReset ==
  ASSUME LadderInv, NEW p \in Processes, Reset(p), leg[ix[p]] = "SUBMISSION_UNCERTAIN"
  PROVE  Ladder!Next
<1>1. PICK l \in Legs : l = ix[p]
  BY DEF LadderInv, TypeOK
<1>2. /\ leg' = [leg EXCEPT ![l] = "PREPARED"]
      /\ resets' = [resets EXCEPT ![l] = @ + 1]
      /\ UNCHANGED <<fate, report>>
  BY <1>1 DEF Reset, GoTo, brokerVars
<1>3. leg'[l] = "PREPARED" /\ \A k \in Legs : k # l => leg'[k] = leg[k]
  BY <1>2 DEF LadderInv, TypeOK
<1>4. phaseBar[l] = "committed" /\ phaseBar' = [phaseBar EXCEPT ![l] = "idle"]
  BY <1>1, <1>3, Phases, NextPhases, OneLeg
<1>5. postedBar' = postedBar /\ toldBar' = toldBar
  BY <1>2, SamePosts DEF toldBar
<1>6. Ladder!TakeBack(l)
  BY <1>2, <1>4, <1>5 DEF Ladder!TakeBack, phaseBar, postedBar, toldBar
<1> QED
  BY <1>6 DEF Ladder!Next

\* claim_prepared: an inserted row is as idle as none.
LEMMA ClaimIsQuiet ==
  ASSUME LadderInv, NEW p \in Processes, ClaimPrepared(p)
  PROVE  /\ UNCHANGED <<phaseBar, postedBar, resets>>
         /\ \A q \in Processes \ {p} : report'[q] = report[q]
<1>1. TypeOK /\ ix[p] \in Legs
  BY DEF LadderInv, TypeOK
<1>2. UNCHANGED <<resets, fate>>
  BY DEF ClaimPrepared, brokerVars
<1>3. \A l \in Legs : \/ leg'[l] = leg[l]
                    \/ (leg[l] = "ABSENT" /\ leg'[l] = "PREPARED")
  BY <1>1 DEF ClaimPrepared, TypeOK
<1>4. \A l \in Legs : Phase(l)' = Phase(l)
  BY <1>3, Phases, NextPhases
<1>5. phaseBar' = phaseBar
  BY <1>4 DEF phaseBar
<1>6. \A q \in Processes \ {p} : report'[q] = report[q]
  BY <1>1 DEF ClaimPrepared, GoTo, Advance, NextLeg, Leave, TypeOK
<1> QED
  BY <1>2, <1>5, <1>6, SamePosts

LEMMA AbstractStep ==
  ASSUME AnswerInv, PaidInv, [Next]_vars
  PROVE  [Ladder!Next]_(Ladder!vars)
<1>1. TypeOK /\ LadderInv
  BY DEF AnswerInv, PaidInv
\* Nothing that the abstract ladder shows changes.
<1>2. ASSUME UNCHANGED <<leg, resets, fate, report>> PROVE UNCHANGED Ladder!vars
  <2>1. phaseBar' = phaseBar /\ postedBar' = postedBar /\ toldBar' = toldBar
    BY <1>2, SamePhases, SamePosts DEF toldBar
  <2> QED
    BY <1>2, <2>1 DEF Ladder!vars, phaseBar, postedBar, toldBar
<1>3. ASSUME NEW p \in Processes,
             \/ Start(p) \/ SendDenied(p) \/ Answered(p) \/ Uncertain(p) \/ LookupFound(p)
             \/ LookupNothing(p) \/ LookupFailed(p) \/ Reread(p) \/ Crash(p)
      PROVE  [Ladder!Next]_(Ladder!vars)
  <2>1. UNCHANGED <<leg, resets, fate>>
    BY <1>3 DEF Start, SendDenied, Answered, Uncertain, LookupFound, LookupNothing,
                LookupFailed, Reread, Crash, dbVars, brokerVars
  <2>2. \A q \in Processes \ {p} : report'[q] = report[q]
    BY <1>1, <1>3
       DEF Start, SendDenied, Answered, Uncertain, LookupFound, LookupNothing,
           LookupFailed, Reread, Crash, Advance, NextLeg, GoTo, GoResolve, GoReread,
           Leave, TypeOK
  <2>3. UNCHANGED <<phaseBar, postedBar, resets>>
    BY <2>1, SamePhases, SamePosts
  <2> QED
    BY <1>1, <2>2, <2>3, AbstractTold
<1>4. ASSUME NEW p \in Processes, ClaimPrepared(p) PROVE [Ladder!Next]_(Ladder!vars)
  BY <1>1, <1>4, ClaimIsQuiet, AbstractTold
<1>5. ASSUME NEW p \in Processes, BeginAttempt(p) \/ Resolve(p) \/ Reset(p)
      PROVE  [Ladder!Next]_(Ladder!vars)
  <2>1. \/ BeginAttempt(p) /\ leg[ix[p]] = "PREPARED"
        \/ Resolve(p) /\ leg[ix[p]] = "SUBMISSION_UNCERTAIN"
        \/ Reset(p) /\ leg[ix[p]] = "SUBMISSION_UNCERTAIN"
        \/ UNCHANGED <<leg, resets, fate, report>>
    BY <1>5 DEF BeginAttempt, Resolve, Reset, GoReread, brokerVars
  <2> QED
    BY <1>1, <1>2, <2>1, AbstractBegin, AbstractResolve, AbstractReset
<1>6. ASSUME NEW m \in Posts, BrokerCreates(m) \/ BrokerRefuses(m) \/ PostLost(m)
      PROVE  UNCHANGED Ladder!vars
  <2>1. UNCHANGED <<leg, resets, report>>
    BY <1>6 DEF BrokerCreates, BrokerRefuses, PostLost, dbVars, processVars
  <2>2. \A k \in Posts : fate'[k] # "none" <=> fate[k] # "none"
    BY <1>1, <1>6 DEF BrokerCreates, BrokerRefuses, PostLost, TypeOK
  <2>3. \A l \in Legs : NumPosts(l)' = NumPosts(l)
    <3> SUFFICES ASSUME NEW l \in Legs PROVE Sent(l)' = Sent(l)
      BY DEF Sent, NumPosts
    <3> QED
      BY <2>2 DEF Sent, Posts
  <2>4. phaseBar' = phaseBar /\ postedBar' = postedBar /\ toldBar' = toldBar
    BY <2>1, <2>3, SamePhases DEF postedBar, toldBar
  <2> QED
    BY <2>1, <2>4 DEF Ladder!vars, phaseBar, postedBar, toldBar
<1>7. (\E l \in Legs : OrderEnds(l)) \/ Grant \/ UNCHANGED vars =>
        UNCHANGED <<leg, resets, fate, report>>
  BY DEF OrderEnds, Grant, vars, dbVars, processVars, brokerVars
<1> QED
  BY <1>2, <1>3, <1>4, <1>5, <1>6, <1>7, AbstractSend DEF Next

\* Every behaviour of the manual ladder is one of the abstract ladder: legs
\* are committed and posted in order, a POST beyond the first of a leg is
\* bought by taking the leg back, outcomes are those of POSTs and final, and
\* a process is told of an accepted ladder only when it is one.
THEOREM ResubmittedInOrder == Spec => ImplementsSubmitAgain
<1>1. Init => AnswerInv /\ PaidInv
  BY AnswerInit, PaidInit
<1>2. AnswerInv /\ PaidInv /\ [Next]_vars => (AnswerInv /\ PaidInv)'
  BY AnswerStep, PaidStep
<1>3. AnswerInv /\ PaidInv /\ [Next]_vars => [Ladder!Next]_(Ladder!vars)
  BY AbstractStep
<1> QED
  BY <1>1, <1>2, <1>3, AbstractInit, PTL DEF Spec, ImplementsSubmitAgain, Ladder!Spec
=============================================================================
