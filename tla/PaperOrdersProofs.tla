--------------------------- MODULE PaperOrdersProofs ---------------------------
(***************************************************************************)
(* Proofs about PAPER orders, for any calls, legs, prices and quotes: the  *)
(* leg and the record of its placement agree, a recorded acknowledgement   *)
(* and a fill survive the call that made them, and a fill is earned.       *)
(***************************************************************************)
EXTENDS PaperOrders, TLAPS

-----------------------------------------------------------------------------
(* What each step of a call knows.                                         *)

\* The winner of the claim is alone with a leg that has no placement.
Placing(c) ==
  /\ pc[c] \in {"place", "record"} => /\ placement[cur[c]] = NoAck
                                      /\ leg[cur[c]] \in InDoubt
  /\ pc[c] \in {"claim", "place", "record"} => seen[c] = "PREPARED"
  /\ pc[c] = "record" => ack[c] \in Acks
  /\ pc[c] = "persist" => /\ placement[cur[c]] # NoAck
                          /\ placement[cur[c]].state = ack[c]
  /\ pc[c] = "lookup" => seen[c] \in InDoubt

Alone(c, d) ==
  pc[c] \in {"place", "record"} /\ pc[d] \in {"place", "record"} => cur[c] # cur[d]

\* A call climbs the ladder over accepted legs.
Climbing(c) ==
  /\ pc[c] \in SubmitSteps => \A k \in 1..(cur[c] - 1) : leg[k] \in Accepted
  /\ pc[c] \in SubmitSteps \ {"prepare"} => leg[cur[c]] # "none"

\* What rested before the call is not what the call has placed.
Rested(c) ==
  /\ \A l \in resting[c] : leg[l] \in Accepted
  /\ resting[c] \cap mine[c] = {}
  /\ pc[c] \in {"idle", "before"} => mine[c] = {}
  /\ pc[c] \in {"evidence", "fill"} => cur[c] \in resting[c]

\* A quote is evidence about the placement of the leg.
Earns(q, l) ==
  /\ q # NoQuote
  /\ placement[l] # NoAck
  /\ q.at > placement[l].at
  /\ PricedThrough(l, q)

Shown(c) == pc[c] = "fill" => Earns(quote[c], cur[c])

\* A leg with a placement is looked up, and not placed again.
Knows(c) ==
  /\ \A k \in known[c] : placement[k] # NoAck
  /\ \/ pc[c] \in {"claim", "place", "record", "uncertain", "missing"}
     \/ pc[c] = "persist" /\ seen[c] = "PREPARED"
     => cur[c] \notin known[c]
  /\ pc[c] \in FillSteps =>
       \A k \in known[c] : leg[k] \in Accepted \cup {"REJECTED"} \/ k \in unanswered[c]

\* The fills the call began with are bridged up to where it is.
Owes(c) ==
  /\ \A k \in owed[c] : leg[k] = "FILLED"
  /\ pc[c] \in {"look", "evidence", "fill"} =>
       \A k \in owed[c] : k < cur[c] => k \in bridged \cup pending[c]
  /\ pc[c] \in {"evidence", "fill"} => cur[c] \notin owed[c]
  /\ pc[c] = "commit" => owed[c] \subseteq bridged \cup pending[c]

CallInv(c) == /\ Placing(c) /\ Climbing(c) /\ Rested(c)
              /\ Shown(c) /\ Knows(c) /\ Owes(c)

IInv ==
  /\ TypeOK /\ AckTruth /\ FillsAreEarned
  /\ \A c \in Calls : CallInv(c)
  /\ \A c, d \in Calls : c # d => Alone(c, d)

-----------------------------------------------------------------------------
(* Types, in two parts: what is shared and what a call holds.              *)

SharedType ==
  /\ side \in Sides
  /\ now \in Times
  /\ market \in Observed \cup {NoQuote}
  /\ leg \in [Legs -> States]
  /\ placement \in [Legs -> [state : Acks, at : Times] \cup {NoAck}]
  /\ bridged \in SUBSET Legs
  /\ calls \in 0..MaxCalls
  /\ fill \in [Legs -> [quote : Observed, own : BOOLEAN] \cup {NoQuote}]

LocalType ==
  /\ pc \in [Calls -> Steps]
  /\ cur \in [Calls -> Legs]
  /\ resting \in [Calls -> SUBSET Legs]
  /\ seen \in [Calls -> States]
  /\ ack \in [Calls -> Acks \cup {NoAck}]
  /\ quote \in [Calls -> Observed \cup {NoQuote}]
  /\ pending \in [Calls -> SUBSET Legs]
  /\ mine \in [Calls -> SUBSET Legs]
  /\ unanswered \in [Calls -> SUBSET Legs]
  /\ known \in [Calls -> SUBSET Legs]
  /\ owed \in [Calls -> SUBSET Legs]

LEMMA TypeParts == TypeOK <=> SharedType /\ LocalType
  BY DEF TypeOK, SharedType, LocalType

LEMMA TypePartsNext == TypeOK' <=> SharedType' /\ LocalType'
  BY DEF TypeOK, SharedType, LocalType

LEMMA ObservedType ==
  \A q \in Observed : /\ q \in [at : Times, bid : Int, ask : Int]
                      /\ q # NoQuote
  BY PriceAssumption, NoneAssumption DEF Observed

LEMMA PlacementType ==
  ASSUME TypeOK, NEW l \in Legs
  PROVE  placement[l] # NoAck => placement[l] \in [state : Acks, at : Times]
  BY DEF TypeOK

-----------------------------------------------------------------------------
(* What a step leaves of the other calls.                                  *)

\* What d holds is what it held.
Held(d) ==
  /\ pc'[d] = pc[d] /\ cur'[d] = cur[d] /\ resting'[d] = resting[d]
  /\ seen'[d] = seen[d] /\ ack'[d] = ack[d] /\ quote'[d] = quote[d]
  /\ pending'[d] = pending[d] /\ mine'[d] = mine[d]
  /\ unanswered'[d] = unanswered[d] /\ known'[d] = known[d] /\ owed'[d] = owed[d]

\* Accepted, filled and rejected legs, placements and inventory rows stay.
Grows ==
  /\ side' = side
  /\ bridged \subseteq bridged'
  /\ \A l \in Legs :
       /\ leg[l] \in Accepted => leg'[l] \in Accepted
       /\ leg[l] = "FILLED" => leg'[l] = "FILLED"
       /\ leg[l] = "REJECTED" => leg'[l] = "REJECTED"
       /\ leg[l] # "none" => leg'[l] # "none"
       /\ placement[l] # NoAck => placement'[l] = placement[l]

\* Nobody touches a leg that d is placing.
LetPlace(d) ==
  pc[d] \in {"place", "record"} => /\ placement'[cur[d]] = NoAck
                                   /\ leg'[cur[d]] \in InDoubt

LEMMA HeldKeeps ==
  ASSUME TypeOK, NEW d \in Calls, CallInv(d), Held(d), Grows, LetPlace(d)
  PROVE  CallInv(d)'
<1>1. /\ cur[d] \in Legs /\ resting[d] \subseteq Legs /\ known[d] \subseteq Legs
      /\ owed[d] \subseteq Legs
      /\ \A k \in 1..(cur[d] - 1) : k \in Legs
  BY BoundAssumption DEF TypeOK, Legs
<1>2. Placing(d)'
  BY <1>1 DEF CallInv, Placing, Held, Grows, LetPlace
<1>3. Climbing(d)'
  BY <1>1 DEF CallInv, Climbing, Held, Grows
<1>4. Rested(d)'
  BY <1>1 DEF CallInv, Rested, Held, Grows
<1>5. Shown(d)'
  BY <1>1 DEF CallInv, Shown, Earns, PricedThrough, Held, Grows
<1>6. Knows(d)'
  BY <1>1 DEF CallInv, Knows, Held, Grows, FillSteps
<1>7. Owes(d)'
  BY <1>1 DEF CallInv, Owes, Held, Grows
<1> QED
  BY <1>2, <1>3, <1>4, <1>5, <1>6, <1>7 DEF CallInv

\* A call that has ended knows nothing that could be wrong.
LEMMA ReturnCall ==
  ASSUME TypeOK, NEW c \in Calls, Return(c)
  PROVE  /\ LocalType'
         /\ CallInv(c)'
         /\ pc'[c] = "idle"
         /\ \A d \in Calls : d # c => Held(d)
<1>1. LocalType'
  BY BoundAssumption DEF TypeOK, LocalType, Return, Steps, States, Legs
<1>2. /\ pc'[c] = "idle" /\ resting'[c] = {} /\ mine'[c] = {}
      /\ known'[c] = {} /\ owed'[c] = {}
  BY DEF TypeOK, Return
<1>3. \A d \in Calls : d # c => Held(d)
  BY DEF TypeOK, Return, Held
<1>4. CallInv(c)'
  BY <1>2 DEF CallInv, Placing, Climbing, Rested, Shown, Knows, Owes, SubmitSteps, FillSteps
<1> QED
  BY <1>1, <1>2, <1>3, <1>4

\* The step of one call keeps the invariant if the call knows what it must
\* and lets the others be.
LEMMA StepKeeps ==
  ASSUME IInv, NEW c \in Calls,
         TypeOK', AckTruth', FillsAreEarned', CallInv(c)', Grows,
         \A d \in Calls : d # c => Held(d) /\ LetPlace(d) /\ Alone(c, d)'
  PROVE  IInv'
<1>1. \A d \in Calls : CallInv(d)'
  BY HeldKeeps DEF IInv
<1>2. ASSUME NEW d \in Calls, NEW e \in Calls, d # e PROVE Alone(d, e)'
  BY <1>2 DEF IInv, Alone, Held
<1> QED
  BY <1>1, <1>2 DEF IInv

\* A step that writes to no leg and no placement disturbs nobody.
LEMMA QuietKeeps ==
  ASSUME IInv, side' = side, leg' = leg, placement' = placement, fill' = fill,
         bridged \subseteq bridged'
  PROVE  /\ Grows /\ AckTruth' /\ FillsAreEarned'
         /\ \A d \in Calls : LetPlace(d)
<1>1. Grows
  BY DEF Grows
<1>2. AckTruth'
  BY DEF IInv, AckTruth
<1>3. FillsAreEarned'
  BY DEF IInv, FillsAreEarned, PricedThrough
<1>4. \A d \in Calls : LetPlace(d)
  BY DEF IInv, CallInv, Placing, LetPlace
<1> QED
  BY <1>1, <1>2, <1>3, <1>4

\* A call that is given a leg goes on with the next if the leg is accepted,
\* and otherwise to its fills: then no later leg has a row.
LEMMA ResolvedCall ==
  ASSUME IInv, NEW c \in Calls, pc[c] \in SubmitSteps,
         NEW state, state = leg'[cur[c]], Resolved(c, state), Grows,
         mine' \in [Calls -> SUBSET Legs],
         \A d \in Calls : d # c => mine'[d] = mine[d],
         mine'[c] \cap resting[c] = {},
         unanswered' \in [Calls -> SUBSET Legs],
         \A d \in Calls : d # c => unanswered'[d] = unanswered[d],
         cur[c] \in known[c] => \/ state \in Accepted \cup {"REJECTED"}
                               \/ cur[c] \in unanswered'[c]
  PROVE  /\ LocalType'
         /\ CallInv(c)'
         /\ pc'[c] \in {"prepare", "look"}
         /\ \A d \in Calls : d # c => Held(d)
<1> DEFINE l == cur[c]
<1>1. /\ LocalType /\ CallInv(c) /\ AckTruth
      /\ l \in Legs /\ l \in 1..NumLegs /\ NumLegs \in Nat \ {0}
      /\ known[c] \subseteq Legs
  BY BoundAssumption, TypeParts DEF IInv, LocalType, Legs
<1>2. LocalType'
  <2>1. pc' \in [Calls -> Steps] /\ cur' \in [Calls -> Legs]
    <3>1. CASE state \in Accepted /\ l < NumLegs
      <4>1. pc' = [pc EXCEPT ![c] = "prepare"] /\ cur' = [cur EXCEPT ![c] = l + 1]
        BY <3>1 DEF Resolved, Goto
      <4> QED
        BY <1>1, <3>1, <4>1 DEF LocalType, Legs, Steps, SubmitSteps
    <3>2. CASE ~(state \in Accepted /\ l < NumLegs)
      <4>1. pc' = [pc EXCEPT ![c] = "look"] /\ cur' = [cur EXCEPT ![c] = 1]
        BY <3>2 DEF Resolved, Goto
      <4> QED
        BY <1>1, <4>1 DEF LocalType, Legs, Steps, FillSteps
    <3> QED
      BY <3>1, <3>2
  <2>2. /\ seen' \in [Calls -> States]
        /\ ack' \in [Calls -> Acks \cup {NoAck}]
    BY <1>1 DEF LocalType, Resolved, States
  <2> QED
    BY <1>1, <2>1, <2>2 DEF LocalType, Resolved
<1>3. \A d \in Calls : d # c => Held(d)
  BY <1>1 DEF LocalType, Resolved, Goto, Held
<1>4. /\ resting'[c] = resting[c] /\ known'[c] = known[c] /\ owed'[c] = owed[c]
      /\ seen'[c] = "none"
  BY <1>1 DEF LocalType, Resolved
<1>5. \A k \in known[c] : placement[k] # NoAck
  BY <1>1 DEF CallInv, Knows
<1>6. \A k \in 1..(l - 1) : k \in Legs /\ leg[k] \in Accepted /\ leg'[k] \in Accepted
  BY <1>1 DEF CallInv, Climbing, Grows, Legs
<1>7. CASE state \in Accepted /\ l < NumLegs
  <2>1. pc'[c] = "prepare" /\ cur'[c] = l + 1
    BY <1>1, <1>7 DEF LocalType, Resolved, Goto
  <2>2. Climbing(c)'
    BY <1>1, <1>6, <1>7, <2>1 DEF Climbing
  <2>3. Placing(c)' /\ Shown(c)'
    BY <2>1 DEF Placing, Shown
  <2>4. Rested(c)'
    BY <1>1, <1>4, <2>1 DEF CallInv, Rested, Grows, LocalType
  <2>5. Knows(c)' /\ Owes(c)'
    BY <1>1, <1>4, <1>5, <2>1 DEF CallInv, Knows, Owes, Grows, FillSteps, LocalType
  <2> QED
    BY <1>2, <1>3, <2>1, <2>2, <2>3, <2>4, <2>5 DEF CallInv
<1>8. CASE ~(state \in Accepted /\ l < NumLegs)
  <2>1. pc'[c] = "look" /\ cur'[c] = 1
    BY <1>1, <1>8 DEF LocalType, Resolved, Goto
  <2>2. \A k \in known[c] : k <= l
    <3> SUFFICES ASSUME NEW k \in known[c], ~(k <= l) PROVE FALSE
      OBVIOUS
    <3>1. k \in Legs /\ l \in 1..(k - 1) /\ l < NumLegs
      BY <1>1 DEF Legs
    <3>2. leg[l] \notin Accepted
      BY <1>1, <1>8, <3>1 DEF Grows
    <3>3. leg[k] = "none"
      BY <1>1, <3>1, <3>2 DEF AckTruth
    <3> QED
      BY <1>1, <1>5, <3>1, <3>3 DEF AckTruth, InDoubt, Accepted
  <2>3. \A k \in known[c] :
          leg'[k] \in Accepted \cup {"REJECTED"} \/ k \in unanswered'[c]
    <3> SUFFICES ASSUME NEW k \in known[c]
                 PROVE  leg'[k] \in Accepted \cup {"REJECTED"} \/ k \in unanswered'[c]
      OBVIOUS
    <3>1. k = l \/ k \in 1..(l - 1)
      BY <1>1, <2>2 DEF Legs
    <3> QED
      BY <1>6, <3>1
  <2>4. Placing(c)' /\ Climbing(c)' /\ Shown(c)'
    BY <2>1 DEF Placing, Climbing, Shown, SubmitSteps
  <2>5. Rested(c)'
    BY <1>1, <1>4, <2>1 DEF CallInv, Rested, Grows, LocalType
  <2>6. Knows(c)'
    BY <1>1, <1>4, <1>5, <2>1, <2>3 DEF Knows, Grows
  <2>7. Owes(c)'
    BY <1>1, <1>4, <2>1 DEF CallInv, Owes, Grows, LocalType, Legs
  <2> QED
    BY <1>2, <1>3, <2>1, <2>4, <2>5, <2>6, <2>7 DEF CallInv
<1> QED
  BY <1>7, <1>8

\* A call that leaves a leg of its loop over the fills has bridged it if the
\* leg was FILLED when the call began.
LEMMA NextLegCall ==
  ASSUME IInv, NEW c \in Calls, pc[c] \in {"look", "evidence", "fill"},
         NextLeg(c), Grows,
         pending' \in [Calls -> SUBSET Legs],
         \A d \in Calls : d # c => pending'[d] = pending[d],
         pending[c] \subseteq pending'[c],
         cur[c] \in owed[c] => cur[c] \in bridged' \cup pending'[c]
  PROVE  /\ LocalType'
         /\ CallInv(c)'
         /\ pc'[c] \in {"look", "commit"}
         /\ \A d \in Calls : d # c => Held(d)
<1> DEFINE l == cur[c]
<1>1. /\ LocalType /\ CallInv(c)
      /\ l \in Legs /\ l \in 1..NumLegs /\ NumLegs \in Nat \ {0}
      /\ known[c] \subseteq Legs /\ owed[c] \subseteq Legs /\ resting[c] \subseteq Legs
  BY BoundAssumption, TypeParts DEF IInv, LocalType, Legs
<1>2. /\ pc' \in [Calls -> Steps] /\ cur' \in [Calls -> Legs]
      /\ pc'[c] \in {"look", "commit"}
      /\ pc'[c] = "look" => cur'[c] = l + 1
      /\ pc'[c] = "commit" => l = NumLegs
      /\ \A d \in Calls : d # c => pc'[d] = pc[d] /\ cur'[d] = cur[d]
  <2>1. CASE l < NumLegs
    <3>1. pc' = [pc EXCEPT ![c] = "look"] /\ cur' = [cur EXCEPT ![c] = l + 1]
      BY <2>1 DEF NextLeg, Goto
    <3> QED
      BY <1>1, <2>1, <3>1 DEF LocalType, Legs, Steps, FillSteps
  <2>2. CASE ~(l < NumLegs)
    <3>1. pc' = [pc EXCEPT ![c] = "commit"] /\ cur' = cur
      BY <2>2 DEF NextLeg, Goto
    <3> QED
      BY <1>1, <2>2, <3>1 DEF LocalType, Legs, Steps, FillSteps
  <2> QED
    BY <2>1, <2>2
<1>3. LocalType'
  <2>1. quote' \in [Calls -> Observed \cup {NoQuote}]
    BY <1>1 DEF LocalType, NextLeg
  <2> QED
    BY <1>1, <1>2, <2>1 DEF LocalType, NextLeg, history
<1>4. \A d \in Calls : d # c => Held(d)
  BY <1>1, <1>2 DEF LocalType, NextLeg, history, Held
<1>5. /\ resting'[c] = resting[c] /\ known'[c] = known[c] /\ owed'[c] = owed[c]
      /\ mine'[c] = mine[c] /\ unanswered'[c] = unanswered[c]
  BY <1>1 DEF NextLeg, history
<1>6. Placing(c)' /\ Climbing(c)' /\ Shown(c)'
  BY <1>2 DEF Placing, Climbing, Shown, SubmitSteps
<1>7. Rested(c)'
  BY <1>1, <1>2, <1>5 DEF CallInv, Rested, Grows
<1>8. Knows(c)'
  BY <1>1, <1>2, <1>5 DEF CallInv, Knows, Grows, FillSteps
<1>9. Owes(c)'
  <2>1. \A k \in owed[c] : leg'[k] = "FILLED"
    BY <1>1 DEF CallInv, Owes, Grows
  <2>2. \A k \in owed[c] : k < l => k \in bridged' \cup pending'[c]
    BY <1>1 DEF CallInv, Owes, Grows
  <2>3. \A k \in owed[c] : k < l \/ k = l \/ (k > l /\ l < NumLegs)
    BY <1>1 DEF Legs
  <2> QED
    BY <1>1, <1>2, <1>5, <2>1, <2>2, <2>3 DEF Owes, Legs
<1> QED
  BY <1>2, <1>3, <1>4, <1>6, <1>7, <1>8, <1>9 DEF CallInv

-----------------------------------------------------------------------------
(* The invariant is inductive.                                             *)

LEMMA InitInv == Init => IInv
<1> SUFFICES ASSUME Init PROVE IInv
  OBVIOUS
<1>1. TypeOK
  BY BoundAssumption DEF Init, TypeOK, Times, States, Steps, Legs
<1>2. AckTruth /\ FillsAreEarned
  BY DEF Init, AckTruth, FillsAreEarned
<1>3. \A c \in Calls : CallInv(c)
  BY DEF Init, CallInv, Placing, Climbing, Rested, Shown, Knows, Owes,
         SubmitSteps, FillSteps
<1>4. \A c, d \in Calls : Alone(c, d)
  BY DEF Init, Alone
<1> QED
  BY <1>1, <1>2, <1>3, <1>4 DEF IInv

\* The market moves, or nothing does.
LEMMA WorldKeeps ==
  ASSUME IInv, Tick \/ Publish \/ UNCHANGED vars
  PROVE  IInv'
<1>1. /\ side' = side /\ leg' = leg /\ placement' = placement /\ fill' = fill
      /\ bridged' = bridged /\ calls' = calls
      /\ UNCHANGED <<pc, cur, resting, seen, ack, quote, pending, mine, unanswered, known, owed>>
  BY DEF Tick, Publish, vars, world, local, history
<1>2. now' \in Times /\ market' \in Observed \cup {NoQuote}
  BY BoundAssumption DEF IInv, TypeOK, Tick, Publish, vars, world, Times, Observed
<1>3. TypeOK'
  BY <1>1, <1>2 DEF IInv, TypeOK
<1>4. \A d \in Calls : Held(d)
  BY <1>1 DEF Held
<1>5. /\ Grows /\ AckTruth' /\ FillsAreEarned'
      /\ \A d \in Calls : LetPlace(d)
  BY <1>1, QuietKeeps
<1>6. \A d \in Calls : CallInv(d)'
  BY <1>4, <1>5, HeldKeeps DEF IInv
<1>7. \A c, d \in Calls : c # d => Alone(c, d)'
  BY <1>4 DEF IInv, Alone, Held
<1> QED
  BY <1>3, <1>5, <1>6, <1>7 DEF IInv

LEMMA BeginKeeps ==
  ASSUME IInv, NEW c \in Calls, Begin(c)
  PROVE  IInv'
<1>1. /\ side' = side /\ leg' = leg /\ placement' = placement /\ fill' = fill
      /\ bridged' = bridged /\ now' = now /\ market' = market
      /\ UNCHANGED <<cur, resting, seen, ack, quote, pending, mine, unanswered>>
      /\ pc[c] = "idle"
  BY DEF Begin, world, local
<1>2. TypeOK /\ CallInv(c)
  BY DEF IInv
<1>3. /\ pc' = [pc EXCEPT ![c] = "before"]
      /\ known' = [known EXCEPT ![c] = {l \in Legs : placement[l] # NoAck}]
      /\ owed' = [owed EXCEPT ![c] = {l \in Legs : leg[l] = "FILLED"}]
  BY DEF Begin, Goto
<1>4. SharedType'
  BY <1>1, <1>2, BoundAssumption DEF TypeOK, SharedType, Begin
<1>5. LocalType'
  BY <1>1, <1>2, <1>3 DEF TypeOK, LocalType, Steps
<1>6. /\ Grows /\ AckTruth' /\ FillsAreEarned'
      /\ \A d \in Calls : LetPlace(d)
  BY <1>1, QuietKeeps
<1>7. /\ pc'[c] = "before" /\ resting'[c] = resting[c] /\ mine'[c] = mine[c]
      /\ known'[c] = {l \in Legs : placement[l] # NoAck}
      /\ owed'[c] = {l \in Legs : leg[l] = "FILLED"}
  BY <1>1, <1>2, <1>3 DEF TypeOK
<1>8. CallInv(c)'
  BY <1>1, <1>2, <1>7 DEF CallInv, Placing, Climbing, Rested, Shown, Knows, Owes,
                          SubmitSteps, FillSteps
<1>9. \A d \in Calls : d # c => Held(d) /\ Alone(c, d)'
  BY <1>1, <1>2, <1>3, <1>7 DEF TypeOK, Held, Alone
<1> QED
  BY <1>4, <1>5, <1>6, <1>8, <1>9, StepKeeps, TypePartsNext

LEMMA LookBeforeKeeps ==
  ASSUME IInv, NEW c \in Calls, LookBefore(c)
  PROVE  IInv'
<1>1. /\ side' = side /\ leg' = leg /\ placement' = placement /\ fill' = fill
      /\ bridged' = bridged /\ now' = now /\ market' = market /\ calls' = calls
      /\ UNCHANGED <<seen, ack, quote, pending, mine, unanswered, known, owed>>
      /\ pc[c] = "before"
  BY DEF LookBefore, world, history
<1>2. LocalType /\ SharedType /\ CallInv(c) /\ cur[c] \in Legs /\ NumLegs \in Nat \ {0}
  BY BoundAssumption, TypeParts DEF IInv, LocalType
<1>3. SharedType'
  BY <1>1, <1>2 DEF SharedType
<1>4. /\ pc' \in [Calls -> Steps] /\ cur' \in [Calls -> Legs]
      /\ pc'[c] \in {"before", "prepare"}
      /\ pc'[c] = "prepare" => cur'[c] = 1
      /\ \A d \in Calls : d # c => pc'[d] = pc[d] /\ cur'[d] = cur[d]
  <2>1. CASE cur[c] < NumLegs
    <3>1. pc' = pc /\ cur' = [cur EXCEPT ![c] = cur[c] + 1]
      BY <2>1 DEF LookBefore
    <3> QED
      BY <1>1, <1>2, <2>1, <3>1 DEF LocalType, Legs
  <2>2. CASE ~(cur[c] < NumLegs)
    <3>1. pc' = [pc EXCEPT ![c] = "prepare"] /\ cur' = [cur EXCEPT ![c] = 1]
      BY <2>2 DEF LookBefore, Goto
    <3> QED
      BY <1>2, <3>1 DEF LocalType, Legs, Steps, SubmitSteps
  <2> QED
    BY <2>1, <2>2
<1>5. /\ resting' \in [Calls -> SUBSET Legs]
      /\ \A l \in resting'[c] : l \in resting[c] \/ leg[l] = "ACTIVE"
      /\ \A d \in Calls : d # c => resting'[d] = resting[d]
  BY <1>2 DEF LookBefore, LocalType
<1>6. LocalType'
  BY <1>1, <1>2, <1>4, <1>5 DEF LocalType
<1>7. /\ Grows /\ AckTruth' /\ FillsAreEarned'
      /\ \A d \in Calls : LetPlace(d)
  BY <1>1, QuietKeeps
<1>8. CallInv(c)'
  <2>1. Placing(c)' /\ Climbing(c)' /\ Shown(c)'
    BY <1>4 DEF Placing, Climbing, Shown, SubmitSteps
  <2>2. Rested(c)'
    BY <1>1, <1>2, <1>4, <1>5 DEF CallInv, Rested, Accepted
  <2>3. Knows(c)' /\ Owes(c)'
    BY <1>1, <1>2, <1>4 DEF CallInv, Knows, Owes, FillSteps
  <2> QED
    BY <2>1, <2>2, <2>3 DEF CallInv
<1>9. \A d \in Calls : d # c => Held(d) /\ Alone(c, d)'
  BY <1>1, <1>4, <1>5 DEF Held, Alone
<1> QED
  BY <1>3, <1>6, <1>7, <1>8, <1>9, StepKeeps, TypePartsNext

\* A step that ends the call and writes at most to the inventory.
LEMMA EndKeeps ==
  ASSUME IInv, NEW c \in Calls, Return(c),
         UNCHANGED <<world, leg, placement, calls, fill>>,
         bridged \subseteq bridged', bridged' \subseteq Legs
  PROVE  IInv'
<1>1. TypeOK /\ side' = side /\ leg' = leg /\ placement' = placement /\ fill' = fill
  BY DEF IInv, world
<1>2. SharedType'
  BY <1>1 DEF TypeOK, SharedType, world
<1>3. /\ LocalType' /\ CallInv(c)' /\ pc'[c] = "idle"
      /\ \A d \in Calls : d # c => Held(d)
  BY <1>1, ReturnCall
<1>4. /\ Grows /\ AckTruth' /\ FillsAreEarned'
      /\ \A d \in Calls : LetPlace(d)
  BY <1>1, QuietKeeps
<1>5. \A d \in Calls : Alone(c, d)'
  BY <1>3 DEF Alone
<1> QED
  BY <1>2, <1>3, <1>4, <1>5, StepKeeps, TypePartsNext

LEMMA CommitKeeps ==
  ASSUME IInv, NEW c \in Calls, Commit(c)
  PROVE  IInv'
<1>1. bridged \subseteq bridged' /\ bridged' \subseteq Legs
  BY DEF IInv, TypeOK, Commit
<1> QED
  BY <1>1, EndKeeps DEF Commit, world

LEMMA DieKeeps ==
  ASSUME IInv, NEW c \in Calls, Die(c)
  PROVE  IInv'
<1>1. bridged' = bridged /\ bridged \subseteq Legs
  BY DEF IInv, TypeOK, Die
<1> QED
  BY <1>1, EndKeeps DEF Die, world

\* A step that only moves the leg at which its call is.
MovesLeg(c, state) ==
  /\ leg' = [leg EXCEPT ![cur[c]] = state]
  /\ UNCHANGED <<world, placement, bridged, calls, fill>>

LEMMA MovesLegType ==
  ASSUME IInv, NEW c \in Calls, NEW state \in States, MovesLeg(c, state)
  PROVE  /\ SharedType'
         /\ leg'[cur[c]] = state
         /\ \A k \in Legs : k # cur[c] => leg'[k] = leg[k]
         /\ side' = side /\ placement' = placement /\ fill' = fill /\ bridged' = bridged
  BY TypeParts DEF IInv, MovesLeg, SharedType, LocalType, world

LEMMA PrepareKeeps ==
  ASSUME IInv, NEW c \in Calls, Prepare(c)
  PROVE  IInv'
<1> DEFINE l == cur[c]
           state == IF leg[l] = "none" THEN "PREPARED" ELSE leg[l]
<1>1. /\ SharedType /\ LocalType /\ AckTruth /\ FillsAreEarned /\ CallInv(c)
      /\ l \in Legs /\ l \in 1..NumLegs /\ NumLegs \in Nat \ {0}
      /\ known[c] \subseteq Legs
      /\ pc[c] = "prepare" /\ state \in States /\ MovesLeg(c, state)
      /\ mine' = mine /\ unanswered' = unanswered
  BY BoundAssumption, TypeParts DEF IInv, LocalType, SharedType, Legs, States, Prepare,
                                    MovesLeg, world
<1>2. /\ SharedType' /\ leg'[l] = state
      /\ \A k \in Legs : k # l => leg'[k] = leg[k]
      /\ side' = side /\ placement' = placement /\ fill' = fill /\ bridged' = bridged
  BY <1>1, MovesLegType
<1>3. \A k \in Legs : leg[k] # "none" => leg'[k] = leg[k]
  BY <1>2
<1>4. Grows
  BY <1>2, <1>3 DEF Grows, Accepted
<1>5. \A k \in 1..(l - 1) : k \in Legs /\ leg[k] \in Accepted
  BY <1>1 DEF CallInv, Climbing, SubmitSteps, Legs
<1>6. AckTruth'
  <2> SUFFICES ASSUME NEW k \in Legs
               PROVE  /\ placement[k] = NoAck => leg'[k] \in {"none", "PREPARED"} \cup InDoubt
                      /\ placement[k] # NoAck =>
                           leg'[k] \in InDoubt \cup (IF placement[k].state = "ACTIVE"
                                                     THEN Accepted ELSE {"REJECTED"})
                      /\ leg'[k] # "none" => \A j \in 1..(k - 1) : leg'[j] \in Accepted
    BY <1>2 DEF AckTruth
  <2>1. \A j \in 1..(k - 1) : j \in Legs
    BY <1>1 DEF Legs
  <2>2. leg'[k] = leg[k] \/ (k = l /\ leg[k] = "none" /\ leg'[k] = "PREPARED")
    BY <1>2, <1>3
  <2>3. leg'[k] # "none" => \A j \in 1..(k - 1) : leg'[j] \in Accepted
    BY <1>1, <1>4, <1>5, <2>1, <2>2 DEF AckTruth, Grows
  <2>4. leg[k] = "none" => placement[k] = NoAck
    BY <1>1 DEF AckTruth, InDoubt, Accepted
  <2> QED
    BY <1>1, <2>2, <2>3, <2>4 DEF AckTruth
<1>7. FillsAreEarned'
  BY <1>1, <1>2 DEF FillsAreEarned, PricedThrough
<1>8. \A d \in Calls : LetPlace(d)
  BY <1>2, <1>3, TypeParts DEF IInv, LocalType, CallInv, Placing, LetPlace, InDoubt
<1>9. state \in {"PREPARED"} => l \notin known[c]
  BY <1>1 DEF CallInv, Knows, AckTruth, InDoubt, Accepted
<1>10. CASE state \notin {"PREPARED"} \cup InDoubt
  <2>1. Resolved(c, state)
    BY <1>10 DEF Prepare
  <2>2. state \in Accepted \cup {"REJECTED"}
    BY <1>1, <1>10 DEF States
  <2>3. /\ mine' \in [Calls -> SUBSET Legs] /\ unanswered' \in [Calls -> SUBSET Legs]
        /\ mine'[c] \cap resting[c] = {}
    BY <1>1 DEF CallInv, Rested, LocalType
  <2>4. /\ LocalType' /\ CallInv(c)' /\ pc'[c] \in {"prepare", "look"}
        /\ \A d \in Calls : d # c => Held(d)
    BY <1>1, <1>2, <1>4, <2>1, <2>2, <2>3, ResolvedCall DEF SubmitSteps
  <2>5. \A d \in Calls : Alone(c, d)'
    BY <2>4 DEF Alone
  <2> QED
    BY <1>2, <1>4, <1>6, <1>7, <1>8, <2>4, <2>5, StepKeeps, TypePartsNext
<1>11. CASE state \in {"PREPARED"} \cup InDoubt
  <2>1. /\ pc' = [pc EXCEPT ![c] = IF state = "PREPARED" THEN "claim" ELSE "lookup"]
        /\ seen' = [seen EXCEPT ![c] = state]
        /\ UNCHANGED <<cur, resting, ack, quote, pending, mine, unanswered, known, owed>>
    BY <1>1, <1>11 DEF Prepare, Goto
  <2>2. LocalType'
    BY <1>1, <2>1 DEF LocalType, Steps, SubmitSteps
  <2>3. /\ pc'[c] = IF state = "PREPARED" THEN "claim" ELSE "lookup"
        /\ seen'[c] = state
    BY <1>1, <2>1 DEF LocalType
  <2>4. Placing(c)' /\ Shown(c)'
    BY <1>11, <2>3 DEF Placing, Shown
  <2>5. Climbing(c)'
    BY <1>1, <1>2, <1>4, <1>5, <1>11, <2>1 DEF Climbing, Grows, InDoubt
  <2>6. Rested(c)'
    BY <1>1, <1>4, <2>1, <2>3 DEF CallInv, Rested, Grows, LocalType
  <2>7. Knows(c)' /\ Owes(c)'
    BY <1>1, <1>2, <1>4, <1>9, <2>1, <2>3 DEF CallInv, Knows, Owes, Grows, FillSteps, LocalType
  <2>8. CallInv(c)'
    BY <2>4, <2>5, <2>6, <2>7 DEF CallInv
  <2>9. \A d \in Calls : d # c => Held(d) /\ Alone(c, d)'
    BY <1>1, <2>1, <2>3 DEF LocalType, Held, Alone
  <2> QED
    BY <1>2, <1>4, <1>6, <1>7, <1>8, <2>2, <2>8, <2>9, StepKeeps, TypePartsNext
<1> QED
  BY <1>10, <1>11

\* A step that ends with a leg resolved.
LEMMA ResolvedKeeps ==
  ASSUME IInv, NEW c \in Calls, pc[c] \in SubmitSteps, SharedType',
         Grows, AckTruth', FillsAreEarned', \A d \in Calls : d # c => LetPlace(d),
         Resolved(c, leg'[cur[c]]),
         mine' \in [Calls -> SUBSET Legs],
         \A d \in Calls : d # c => mine'[d] = mine[d],
         mine'[c] \cap resting[c] = {},
         unanswered' \in [Calls -> SUBSET Legs],
         \A d \in Calls : d # c => unanswered'[d] = unanswered[d],
         cur[c] \in known[c] => \/ leg'[cur[c]] \in Accepted \cup {"REJECTED"}
                               \/ cur[c] \in unanswered'[c]
  PROVE  IInv'
<1>1. /\ LocalType' /\ CallInv(c)' /\ pc'[c] \in {"prepare", "look"}
      /\ \A d \in Calls : d # c => Held(d)
  BY ResolvedCall
<1>2. \A d \in Calls : Alone(c, d)'
  BY <1>1 DEF Alone
<1> QED
  BY <1>1, <1>2, StepKeeps, TypePartsNext

\* The same, when the step writes nothing.
LEMMA ResolvedQuietKeeps ==
  ASSUME IInv, NEW c \in Calls, pc[c] \in SubmitSteps, Resolved(c, leg[cur[c]]),
         UNCHANGED <<world, leg, placement, bridged, calls, mine, fill>>,
         unanswered' \in [Calls -> SUBSET Legs],
         \A d \in Calls : d # c => unanswered'[d] = unanswered[d],
         cur[c] \in known[c] => \/ leg[cur[c]] \in Accepted \cup {"REJECTED"}
                               \/ cur[c] \in unanswered'[c]
  PROVE  IInv'
<1>1. /\ TypeOK /\ CallInv(c)
      /\ side' = side /\ leg' = leg /\ placement' = placement /\ fill' = fill
      /\ mine' = mine /\ bridged' = bridged
  BY DEF IInv, world
<1>2. SharedType'
  BY <1>1 DEF TypeOK, SharedType, world
<1>3. /\ Grows /\ AckTruth' /\ FillsAreEarned'
      /\ \A d \in Calls : LetPlace(d)
  BY <1>1, QuietKeeps
<1>4. mine' \in [Calls -> SUBSET Legs] /\ mine'[c] \cap resting[c] = {}
  BY <1>1 DEF TypeOK, CallInv, Rested
<1> QED
  BY <1>1, <1>2, <1>3, <1>4, ResolvedKeeps

\* The same for a leg that had no placement when the call began, or that is
\* resolved.
LEMMA ResolvedSilentKeeps ==
  ASSUME IInv, NEW c \in Calls, pc[c] \in SubmitSteps, Resolved(c, leg[cur[c]]),
         UNCHANGED <<world, leg, placement, bridged, calls, mine, unanswered, fill>>,
         cur[c] \in known[c] => leg[cur[c]] \in Accepted \cup {"REJECTED"}
  PROVE  IInv'
<1>1. unanswered' \in [Calls -> SUBSET Legs]
  BY DEF IInv, TypeOK
<1> QED
  BY <1>1, ResolvedQuietKeeps

LEMMA ClaimKeeps ==
  ASSUME IInv, NEW c \in Calls, Claim(c)
  PROVE  IInv'
<1> DEFINE l == cur[c]
<1>1. /\ SharedType /\ LocalType /\ AckTruth /\ FillsAreEarned /\ CallInv(c)
      /\ l \in Legs /\ known[c] \subseteq Legs /\ pc[c] = "claim"
      /\ l \notin known[c] /\ seen[c] = "PREPARED"
  BY TypeParts DEF IInv, LocalType, CallInv, Knows, Placing, Claim
<1>2. CASE leg[l] # "PREPARED"
  <2>1. /\ Resolved(c, leg[l])
        /\ UNCHANGED <<world, leg, placement, bridged, calls, mine, unanswered, fill>>
    BY <1>2 DEF Claim, Resolved, history
  <2> QED
    BY <1>1, <2>1, ResolvedSilentKeeps DEF SubmitSteps
<1>3. CASE leg[l] = "PREPARED"
  <2>1. /\ MovesLeg(c, "SUBMISSION_UNCERTAIN")
        /\ pc' = [pc EXCEPT ![c] = "place"]
        /\ UNCHANGED <<cur, resting, seen, ack, quote, pending, mine, unanswered, known, owed>>
    BY <1>3 DEF Claim, MovesLeg, Goto, local, history
  <2>2. /\ SharedType' /\ leg'[l] = "SUBMISSION_UNCERTAIN"
        /\ \A k \in Legs : k # l => leg'[k] = leg[k]
        /\ side' = side /\ placement' = placement /\ fill' = fill /\ bridged' = bridged
    BY <2>1, MovesLegType DEF States, InDoubt
  <2>3. Grows
    BY <1>3, <2>2 DEF Grows, Accepted
  <2>4. placement[l] = NoAck
    BY <1>1, <1>3 DEF AckTruth, InDoubt, Accepted
  <2>5. AckTruth'
    <3> SUFFICES ASSUME NEW k \in Legs
                 PROVE  /\ placement[k] = NoAck => leg'[k] \in {"none", "PREPARED"} \cup InDoubt
                        /\ placement[k] # NoAck =>
                             leg'[k] \in InDoubt \cup (IF placement[k].state = "ACTIVE"
                                                       THEN Accepted ELSE {"REJECTED"})
                        /\ leg'[k] # "none" => \A j \in 1..(k - 1) : leg'[j] \in Accepted
      BY <2>2 DEF AckTruth
    <3>1. \A j \in 1..(k - 1) : j \in Legs
      BY BoundAssumption DEF Legs
    <3>2. leg'[k] # "none" => \A j \in 1..(k - 1) : leg'[j] \in Accepted
      BY <1>1, <1>3, <2>2, <2>3, <3>1 DEF AckTruth, Grows
    <3>3. CASE k = l
      BY <2>2, <2>4, <3>2, <3>3 DEF InDoubt
    <3>4. CASE k # l
      BY <1>1, <2>2, <3>2, <3>4 DEF AckTruth
    <3> QED
      BY <3>3, <3>4
  <2>6. FillsAreEarned'
    BY <1>1, <1>3, <2>2 DEF FillsAreEarned, PricedThrough
  <2>7. \A d \in Calls : LetPlace(d) /\ (pc[d] \in {"place", "record"} => cur[d] # l)
    BY <1>3, <2>2, TypeParts DEF IInv, LocalType, CallInv, Placing, LetPlace, InDoubt
  <2>8. LocalType'
    BY <1>1, <2>1 DEF LocalType, Steps, SubmitSteps
  <2>9. pc'[c] = "place"
    BY <1>1, <2>1 DEF LocalType
  <2>10. CallInv(c)'
    <3>1. Placing(c)' /\ Shown(c)'
      BY <1>1, <2>1, <2>2, <2>4, <2>9 DEF Placing, Shown, InDoubt
    <3>2. \A k \in 1..(l - 1) : k \in Legs
      BY <1>1, BoundAssumption DEF Legs
    <3>3. Climbing(c)'
      BY <1>1, <2>1, <2>2, <2>3, <3>2 DEF CallInv, Climbing, SubmitSteps, Grows
    <3>4. Rested(c)'
      BY <1>1, <2>1, <2>3, <2>9 DEF CallInv, Rested, Grows, LocalType
    <3>5. Knows(c)' /\ Owes(c)'
      BY <1>1, <2>1, <2>2, <2>3, <2>9 DEF CallInv, Knows, Owes, Grows, FillSteps, LocalType
    <3> QED
      BY <3>1, <3>3, <3>4, <3>5 DEF CallInv
  <2>11. \A d \in Calls : d # c => Held(d) /\ Alone(c, d)'
    BY <1>1, <2>1, <2>7, <2>9 DEF LocalType, Held, Alone
  <2> QED
    BY <2>2, <2>3, <2>5, <2>6, <2>7, <2>8, <2>10, <2>11, StepKeeps, TypePartsNext
<1> QED
  BY <1>2, <1>3

\* A step of the submission that writes nothing and stays with its leg.
LEMMA StayKeeps ==
  ASSUME IInv, NEW c \in Calls, pc[c] \in SubmitSteps \ {"prepare"},
         NEW step \in SubmitSteps \ {"prepare"}, Goto(c, step),
         UNCHANGED <<world, leg, placement, bridged, calls, fill>>,
         UNCHANGED <<cur, resting, seen, quote, pending, history>>,
         ack' \in [Calls -> Acks \cup {NoAck}],
         \A d \in Calls : d # c => ack'[d] = ack[d],
         step \in {"place", "record"} => pc[c] \in {"place", "record"},
         Placing(c)', Knows(c)'
  PROVE  IInv'
<1>1. /\ TypeOK /\ LocalType /\ CallInv(c)
      /\ side' = side /\ leg' = leg /\ placement' = placement /\ fill' = fill
      /\ bridged' = bridged /\ pc' = [pc EXCEPT ![c] = step]
      /\ UNCHANGED <<cur, resting, seen, quote, pending, mine, unanswered, known, owed>>
  BY TypeParts DEF IInv, world, history, Goto
<1>2. SharedType'
  BY <1>1 DEF TypeOK, SharedType, world
<1>3. LocalType'
  BY <1>1 DEF LocalType, Steps
<1>4. /\ Grows /\ AckTruth' /\ FillsAreEarned'
      /\ \A d \in Calls : LetPlace(d)
  BY <1>1, QuietKeeps
<1>5. pc'[c] = step
  BY <1>1 DEF LocalType
<1>6. Climbing(c)' /\ Rested(c)' /\ Shown(c)' /\ Owes(c)'
  BY <1>1, <1>5 DEF CallInv, Climbing, Rested, Shown, Owes, SubmitSteps
<1>7. CallInv(c)'
  BY <1>6 DEF CallInv
<1>8. \A d \in Calls : d # c => Held(d) /\ Alone(c, d)'
  BY <1>1, <1>5 DEF IInv, LocalType, Held, Alone
<1> QED
  BY <1>2, <1>3, <1>4, <1>7, <1>8, StepKeeps, TypePartsNext

LEMMA PlaceKeeps ==
  ASSUME IInv, NEW c \in Calls, Place(c)
  PROVE  IInv'
<1> DEFINE decided == IF WouldCross(cur[c], market) THEN "REJECTED" ELSE "ACTIVE"
<1>1. /\ LocalType /\ CallInv(c) /\ pc[c] = "place" /\ cur[c] \notin known[c]
      /\ Goto(c, "record") /\ ack' = [ack EXCEPT ![c] = decided]
      /\ UNCHANGED <<world, leg, placement, bridged, calls, fill>>
      /\ UNCHANGED <<cur, resting, seen, quote, pending, mine, unanswered, known, owed>>
  BY TypeParts DEF IInv, CallInv, Knows, Place, history
<1>2. /\ pc'[c] = "record" /\ ack'[c] \in Acks
      /\ ack' \in [Calls -> Acks \cup {NoAck}]
      /\ \A d \in Calls : d # c => ack'[d] = ack[d]
  BY <1>1 DEF LocalType, Goto, Acks
<1>3. Placing(c)' /\ Knows(c)'
  BY <1>1, <1>2 DEF CallInv, Placing, Knows, FillSteps
<1> QED
  BY <1>1, <1>2, <1>3, StayKeeps DEF SubmitSteps, history

LEMMA PlaceFailsKeeps ==
  ASSUME IInv, NEW c \in Calls, PlaceFails(c)
  PROVE  IInv'
<1>1. /\ LocalType /\ CallInv(c) /\ pc[c] \in {"place", "record"}
      /\ cur[c] \notin known[c]
      /\ Goto(c, "uncertain") /\ ack' = [ack EXCEPT ![c] = NoAck]
      /\ UNCHANGED <<world, leg, placement, bridged, calls, fill>>
      /\ UNCHANGED <<cur, resting, seen, quote, pending, mine, unanswered, known, owed>>
  BY TypeParts DEF IInv, CallInv, Knows, PlaceFails, Raised, history
<1>2. /\ pc'[c] = "uncertain"
      /\ ack' \in [Calls -> Acks \cup {NoAck}]
      /\ \A d \in Calls : d # c => ack'[d] = ack[d]
  BY <1>1 DEF LocalType, Goto
<1>3. Placing(c)' /\ Knows(c)'
  BY <1>1, <1>2 DEF CallInv, Placing, Knows, FillSteps
<1> QED
  BY <1>1, <1>2, <1>3, StayKeeps DEF SubmitSteps, history

\* What became of a placement that raised is left to a later call.
LEMMA MarkUncertainKeeps ==
  ASSUME IInv, NEW c \in Calls, MarkUncertain(c)
  PROVE  IInv'
<1> DEFINE l == cur[c]
<1>1. /\ TypeOK /\ CallInv(c) /\ pc[c] = "uncertain" /\ l \notin known[c]
      /\ UNCHANGED <<world, leg, placement, bridged, calls, fill>>
  BY DEF IInv, CallInv, Knows, MarkUncertain
<1>2. CASE Resolved(c, leg[l]) /\ UNCHANGED <<mine, unanswered>>
  BY <1>1, <1>2, ResolvedSilentKeeps DEF SubmitSteps, world
<1>3. CASE Return(c)
  BY <1>1, <1>3, EndKeeps DEF TypeOK, world
<1> QED
  BY <1>2, <1>3 DEF MarkUncertain

\* A lookup that failed leaves the leg to a later call.
LEMMA LookupFailedKeeps ==
  ASSUME IInv, NEW c \in Calls, LookupFailed(c)
  PROVE  IInv'
<1>1. /\ LocalType /\ cur[c] \in Legs /\ pc[c] = "lookup"
      /\ unanswered' = [unanswered EXCEPT ![c] = @ \cup {cur[c]}]
  BY TypeParts DEF IInv, LocalType, LookupFailed
<1>2. /\ unanswered' \in [Calls -> SUBSET Legs]
      /\ \A d \in Calls : d # c => unanswered'[d] = unanswered[d]
      /\ cur[c] \in unanswered'[c]
  BY <1>1 DEF LocalType
<1> QED
  BY <1>1, <1>2, ResolvedQuietKeeps DEF LookupFailed, SubmitSteps, world

LEMMA LookupKeeps ==
  ASSUME IInv, NEW c \in Calls, Lookup(c)
  PROVE  IInv'
<1> DEFINE l == cur[c]
<1>1. /\ TypeOK /\ LocalType /\ CallInv(c) /\ pc[c] = "lookup" /\ l \in Legs
      /\ seen[c] \in InDoubt
      /\ UNCHANGED <<world, leg, placement, bridged, calls, fill>>
      /\ UNCHANGED <<cur, resting, seen, quote, pending, mine, unanswered, known, owed>>
  BY TypeParts DEF IInv, CallInv, Placing, Lookup, history, LocalType
<1>2. CASE placement[l] # NoAck
  <2>1. Goto(c, "persist") /\ ack' = [ack EXCEPT ![c] = placement[l].state]
    BY <1>2 DEF Lookup
  <2>2. placement[l].state \in Acks
    BY <1>1, <1>2, PlacementType
  <2>3. /\ pc'[c] = "persist" /\ ack'[c] = placement[l].state
        /\ ack' \in [Calls -> Acks \cup {NoAck}]
        /\ \A d \in Calls : d # c => ack'[d] = ack[d]
    BY <1>1, <2>1, <2>2 DEF LocalType, Goto
  <2>4. Placing(c)' /\ Knows(c)'
    BY <1>1, <1>2, <2>3 DEF CallInv, Placing, Knows, FillSteps, InDoubt
  <2> QED
    BY <1>1, <2>1, <2>3, <2>4, StayKeeps DEF SubmitSteps, history
<1>3. CASE placement[l] = NoAck
  <2>1. Goto(c, "missing") /\ ack' = ack
    BY <1>3 DEF Lookup
  <2>2. pc'[c] = "missing" /\ ack' \in [Calls -> Acks \cup {NoAck}]
    BY <1>1, <2>1 DEF LocalType, Goto
  <2>3. Placing(c)' /\ Knows(c)'
    BY <1>1, <1>3, <2>2 DEF CallInv, Placing, Knows, FillSteps
  <2> QED
    BY <1>1, <2>1, <2>2, <2>3, StayKeeps DEF SubmitSteps, history
<1> QED
  BY <1>2, <1>3

\* Only the winner of the claim records a placement, and it is the first.
LEMMA RecordKeeps ==
  ASSUME IInv, NEW c \in Calls, Record(c)
  PROVE  IInv'
<1> DEFINE l == cur[c]
           row == [state |-> ack[c], at |-> now]
<1>1. /\ TypeOK /\ SharedType /\ LocalType /\ AckTruth /\ FillsAreEarned /\ CallInv(c)
      /\ pc[c] = "record" /\ l \in Legs /\ placement[l] = NoAck /\ leg[l] \in InDoubt
      /\ ack[c] \in Acks /\ seen[c] = "PREPARED" /\ l \notin known[c]
      /\ placement' = [placement EXCEPT ![l] = row]
      /\ mine' = [mine EXCEPT ![c] = @ \cup {l}]
      /\ UNCHANGED <<world, leg, bridged, calls, fill>>
      /\ \/ pc' = [pc EXCEPT ![c] = "persist"] /\ ack' = ack
         \/ pc' = [pc EXCEPT ![c] = "uncertain"] /\ ack' = [ack EXCEPT ![c] = NoAck]
  BY TypeParts DEF IInv, LocalType, CallInv, Placing, Knows, Record, Raised, Goto
<1>2. /\ side' = side /\ leg' = leg /\ fill' = fill /\ bridged' = bridged
      /\ UNCHANGED <<cur, resting, seen, quote, pending, unanswered, known, owed>>
  BY DEF Record, world
<1>3. row \in [state : Acks, at : Times] /\ row # NoAck /\ row.state = ack[c]
  BY <1>1, NoneAssumption DEF TypeOK, Acks
<1>4. /\ placement'[l] = row
      /\ placement' \in [Legs -> [state : Acks, at : Times] \cup {NoAck}]
      /\ \A k \in Legs : k # l => placement'[k] = placement[k]
  BY <1>1, <1>3 DEF SharedType
<1>5. SharedType'
  BY <1>1, <1>4 DEF SharedType, world
<1>6. Grows
  BY <1>1, <1>2, <1>4 DEF Grows
<1>7. AckTruth'
  <2> SUFFICES ASSUME NEW k \in Legs
               PROVE  /\ placement'[k] = NoAck => leg[k] \in {"none", "PREPARED"} \cup InDoubt
                      /\ placement'[k] # NoAck =>
                           leg[k] \in InDoubt \cup (IF placement'[k].state = "ACTIVE"
                                                    THEN Accepted ELSE {"REJECTED"})
                      /\ leg[k] # "none" => \A j \in 1..(k - 1) : leg[j] \in Accepted
    BY <1>2 DEF AckTruth
  <2>1. leg[k] # "none" => \A j \in 1..(k - 1) : leg[j] \in Accepted
    BY <1>1 DEF AckTruth
  <2>2. CASE k = l
    BY <1>1, <1>3, <1>4, <2>1, <2>2
  <2>3. CASE k # l
    BY <1>1, <1>4, <2>1, <2>3 DEF AckTruth
  <2> QED
    BY <2>2, <2>3
<1>8. FillsAreEarned'
  BY <1>1, <1>2, <1>4 DEF FillsAreEarned, PricedThrough
<1>9. /\ LocalType'
      /\ \/ pc'[c] = "persist" /\ ack'[c] = ack[c]
         \/ pc'[c] = "uncertain"
      /\ mine'[c] = mine[c] \cup {l}
      /\ \A d \in Calls : d # c => /\ pc'[d] = pc[d] /\ ack'[d] = ack[d]
                                   /\ mine'[d] = mine[d]
  BY <1>1, <1>2 DEF LocalType, Steps, SubmitSteps
<1>10. CallInv(c)'
  <2>1. Placing(c)' /\ Shown(c)'
    BY <1>1, <1>2, <1>3, <1>4, <1>9 DEF Placing, Shown
  <2>2. Climbing(c)' /\ Owes(c)'
    BY <1>1, <1>2, <1>9 DEF CallInv, Climbing, Owes, SubmitSteps
  <2>3. Rested(c)'
    BY <1>1, <1>2, <1>9 DEF CallInv, Rested, InDoubt, Accepted
  <2>4. Knows(c)'
    BY <1>1, <1>2, <1>3, <1>4, <1>9 DEF CallInv, Knows, FillSteps, LocalType
  <2> QED
    BY <2>1, <2>2, <2>3, <2>4 DEF CallInv
<1>11. \A d \in Calls : d # c => Held(d) /\ Alone(c, d)'
  BY <1>1, <1>2, <1>9 DEF LocalType, Held, Alone
<1>12. \A d \in Calls : d # c => LetPlace(d)
  BY <1>1, <1>2, <1>4 DEF IInv, CallInv, Placing, Alone, LetPlace, LocalType
<1> QED
  BY <1>5, <1>6, <1>7, <1>8, <1>9, <1>10, <1>11, <1>12, StepKeeps, TypePartsNext

\* A leg in doubt moves on, without contradicting its placement.
LEMMA DoubtMoves ==
  ASSUME IInv, NEW c \in Calls, NEW state \in InDoubt \cup Acks,
         MovesLeg(c, state), leg[cur[c]] \in InDoubt,
         \/ state \in InDoubt
         \/ placement[cur[c]] # NoAck /\ placement[cur[c]].state = state
  PROVE  /\ SharedType' /\ Grows /\ AckTruth' /\ FillsAreEarned'
         /\ \A d \in Calls : LetPlace(d)
         /\ leg'[cur[c]] = state
<1> DEFINE l == cur[c]
<1>1. /\ SharedType /\ LocalType /\ AckTruth /\ FillsAreEarned
      /\ l \in Legs /\ state \in States
  BY TypeParts DEF IInv, LocalType, States, Acks, Accepted
<1>2. /\ SharedType' /\ leg'[l] = state
      /\ \A k \in Legs : k # l => leg'[k] = leg[k]
      /\ side' = side /\ placement' = placement /\ fill' = fill /\ bridged' = bridged
  BY <1>1, MovesLegType
<1>3. Grows
  BY <1>2 DEF Grows, InDoubt, Acks, Accepted
<1>4. AckTruth'
  <2> SUFFICES ASSUME NEW k \in Legs
               PROVE  /\ placement[k] = NoAck => leg'[k] \in {"none", "PREPARED"} \cup InDoubt
                      /\ placement[k] # NoAck =>
                           leg'[k] \in InDoubt \cup (IF placement[k].state = "ACTIVE"
                                                     THEN Accepted ELSE {"REJECTED"})
                      /\ leg'[k] # "none" => \A j \in 1..(k - 1) : leg'[j] \in Accepted
    BY <1>2 DEF AckTruth
  <2>1. \A j \in 1..(k - 1) : j \in Legs
    BY BoundAssumption DEF Legs
  <2>2. leg'[k] # "none" => \A j \in 1..(k - 1) : leg'[j] \in Accepted
    BY <1>1, <1>2, <1>3, <2>1 DEF AckTruth, Grows, InDoubt
  <2>3. CASE k = l
    BY <1>2, <2>2, <2>3 DEF Accepted, Acks
  <2>4. CASE k # l
    BY <1>1, <1>2, <2>2, <2>4 DEF AckTruth
  <2> QED
    BY <2>3, <2>4
<1>5. FillsAreEarned'
  BY <1>1, <1>2 DEF FillsAreEarned, PricedThrough, InDoubt, Acks
<1>6. \A d \in Calls : LetPlace(d)
  <2> SUFFICES ASSUME NEW d \in Calls, pc[d] \in {"place", "record"}
               PROVE  placement'[cur[d]] = NoAck /\ leg'[cur[d]] \in InDoubt
    BY DEF LetPlace
  <2>1. cur[d] \in Legs /\ placement[cur[d]] = NoAck /\ leg[cur[d]] \in InDoubt
    BY <1>1 DEF IInv, LocalType, CallInv, Placing
  <2> QED
    BY <1>2, <2>1
<1> QED
  BY <1>2, <1>3, <1>4, <1>5, <1>6

LEMMA MissingKeeps ==
  ASSUME IInv, NEW c \in Calls, Missing(c)
  PROVE  IInv'
<1> DEFINE l == cur[c]
<1>1. /\ TypeOK /\ LocalType /\ CallInv(c) /\ pc[c] = "missing"
      /\ l \in Legs /\ l \notin known[c]
      /\ UNCHANGED <<world, placement, bridged, calls, fill>>
  BY TypeParts DEF IInv, LocalType, CallInv, Knows, Missing
<1>2. CASE /\ seen[c] = "SUBMISSION_UNCERTAIN"
           /\ leg[l] = "SUBMISSION_UNCERTAIN"
           /\ leg' = [leg EXCEPT ![l] = "RECONCILIATION_REQUIRED"]
           /\ seen' = [seen EXCEPT ![c] = "RECONCILIATION_REQUIRED"]
           /\ UNCHANGED <<pc, cur, resting, ack, quote, pending, history>>
  <2>1. /\ MovesLeg(c, "RECONCILIATION_REQUIRED")
        /\ UNCHANGED <<pc, cur, resting, ack, quote, pending, mine, unanswered, known, owed>>
    BY <1>1, <1>2 DEF MovesLeg, history
  <2>2. /\ SharedType' /\ Grows /\ AckTruth' /\ FillsAreEarned'
        /\ \A d \in Calls : LetPlace(d)
        /\ leg'[l] = "RECONCILIATION_REQUIRED"
    BY <1>2, <2>1, DoubtMoves DEF InDoubt
  <2>3. LocalType'
    BY <1>1, <1>2, <2>1 DEF LocalType, States, InDoubt
  <2>4. \A k \in 1..(l - 1) : k \in Legs
    BY <1>1, BoundAssumption DEF Legs
  <2>5. Placing(c)' /\ Shown(c)'
    BY <1>1, <2>1 DEF Placing, Shown
  <2>6. Climbing(c)'
    BY <1>1, <2>1, <2>2, <2>4 DEF CallInv, Climbing, Grows, SubmitSteps
  <2>7. Rested(c)' /\ Knows(c)' /\ Owes(c)'
    BY <1>1, <2>1, <2>2 DEF CallInv, Rested, Knows, Owes, Grows, FillSteps, LocalType
  <2>8. \A d \in Calls : d # c => Held(d) /\ Alone(c, d)'
    BY <1>1, <1>2, <2>1 DEF LocalType, Held, Alone
  <2> QED
    BY <2>2, <2>3, <2>5, <2>6, <2>7, <2>8, StepKeeps, TypePartsNext DEF CallInv
<1>3. CASE Resolved(c, leg[l]) /\ UNCHANGED <<leg, mine, unanswered>>
  BY <1>1, <1>3, ResolvedSilentKeeps DEF SubmitSteps, world
<1>4. CASE Return(c) /\ UNCHANGED leg
  BY <1>1, <1>4, EndKeeps DEF TypeOK, world
<1> QED
  BY <1>2, <1>3, <1>4 DEF Missing

LEMMA PersistKeeps ==
  ASSUME IInv, NEW c \in Calls, Persist(c)
  PROVE  IInv'
<1> DEFINE l == cur[c]
<1>1. /\ TypeOK /\ LocalType /\ CallInv(c) /\ AckTruth /\ pc[c] = "persist" /\ l \in Legs
      /\ placement[l] # NoAck /\ placement[l].state = ack[c] /\ ack[c] \in Acks
      /\ UNCHANGED <<world, placement, bridged, calls, fill>>
  BY TypeParts, PlacementType DEF IInv, LocalType, CallInv, Placing, Persist
<1>2. CASE /\ leg[l] \in Replaceable(c)
           /\ leg' = [leg EXCEPT ![l] = ack[c]]
           /\ Resolved(c, ack[c])
           /\ mine' = IF ack[c] = "ACTIVE" THEN [mine EXCEPT ![c] = @ \cup {l}] ELSE mine
           /\ UNCHANGED unanswered
  <2>1. leg[l] \in InDoubt
    BY <1>2 DEF Replaceable, InDoubt
  <2>2. MovesLeg(c, ack[c])
    BY <1>1, <1>2 DEF MovesLeg, world
  <2>3. /\ SharedType' /\ Grows /\ AckTruth' /\ FillsAreEarned'
        /\ \A d \in Calls : LetPlace(d)
        /\ leg'[l] = ack[c]
    BY <1>1, <2>1, <2>2, DoubtMoves
  <2>4. /\ mine' \in [Calls -> SUBSET Legs]
        /\ \A d \in Calls : d # c => mine'[d] = mine[d]
        /\ mine'[c] \subseteq mine[c] \cup {l}
        /\ unanswered' \in [Calls -> SUBSET Legs]
    BY <1>1, <1>2 DEF LocalType
  <2>5. mine'[c] \cap resting[c] = {}
    BY <1>1, <2>1, <2>4 DEF CallInv, Rested, InDoubt, Accepted
  <2> QED
    BY <1>1, <1>2, <2>3, <2>4, <2>5, ResolvedKeeps DEF SubmitSteps, Acks, Accepted
<1>3. CASE /\ leg[l] \notin Replaceable(c)
           /\ leg[l] \in {ack[c], "RECONCILIATION_REQUIRED"}
           /\ Resolved(c, leg[l])
           /\ UNCHANGED <<leg, mine, unanswered>>
  <2>1. l \in known[c] => leg[l] \in Accepted \cup {"REJECTED"}
    BY <1>1, <1>3 DEF CallInv, Knows, Replaceable, InDoubt, Acks, Accepted
  <2> QED
    BY <1>1, <1>3, <2>1, ResolvedSilentKeeps DEF SubmitSteps, world
<1>4. CASE Return(c) /\ UNCHANGED leg
  BY <1>1, <1>4, EndKeeps DEF TypeOK, world
<1> QED
  BY <1>2, <1>3, <1>4 DEF Persist

LEMMA BridgeType ==
  ASSUME TypeOK, NEW c \in Calls, Bridge(c)
  PROVE  /\ bridged \subseteq bridged' /\ bridged' \subseteq Legs
         /\ pending' \in [Calls -> SUBSET Legs]
         /\ \A d \in Calls : d # c => pending'[d] = pending[d]
         /\ pending[c] \subseteq pending'[c]
         /\ cur[c] \in bridged' \cup pending'[c]
<1>1. CASE side = "BUY"
  BY <1>1 DEF TypeOK, Bridge
<1>2. CASE side = "SELL"
  BY <1>2 DEF TypeOK, Bridge
<1> QED
  BY <1>1, <1>2 DEF Bridge

\* A step of the loop over the fills that moves no leg and goes to the next.
LEMMA LoopKeeps ==
  ASSUME IInv, NEW c \in Calls, pc[c] \in {"look", "evidence", "fill"}, NextLeg(c),
         UNCHANGED <<world, leg, placement, calls, fill>>,
         Bridge(c) \/ (cur[c] \notin owed[c] /\ UNCHANGED <<bridged, pending>>)
  PROVE  IInv'
<1>1. TypeOK /\ side' = side /\ leg' = leg /\ placement' = placement /\ fill' = fill
  BY DEF IInv, world
<1>2. /\ bridged \subseteq bridged' /\ bridged' \subseteq Legs
      /\ pending' \in [Calls -> SUBSET Legs]
      /\ \A d \in Calls : d # c => pending'[d] = pending[d]
      /\ pending[c] \subseteq pending'[c]
      /\ cur[c] \in owed[c] => cur[c] \in bridged' \cup pending'[c]
  <2>1. CASE Bridge(c)
    BY <1>1, <2>1, BridgeType
  <2>2. CASE cur[c] \notin owed[c] /\ UNCHANGED <<bridged, pending>>
    BY <1>1, <2>2 DEF TypeOK
  <2> QED
    BY <2>1, <2>2
<1>3. SharedType'
  BY <1>1, <1>2 DEF TypeOK, SharedType, world
<1>4. /\ Grows /\ AckTruth' /\ FillsAreEarned'
      /\ \A d \in Calls : LetPlace(d)
  BY <1>1, <1>2, QuietKeeps
<1>5. /\ LocalType' /\ CallInv(c)' /\ pc'[c] \in {"look", "commit"}
      /\ \A d \in Calls : d # c => Held(d)
  BY <1>2, <1>4, NextLegCall
<1>6. \A d \in Calls : Alone(c, d)'
  BY <1>5 DEF Alone
<1> QED
  BY <1>3, <1>4, <1>5, <1>6, StepKeeps, TypePartsNext

\* A step of the loop over the fills that stays with its leg.
LEMMA LoopStayKeeps ==
  ASSUME IInv, NEW c \in Calls, pc[c] \in {"look", "evidence"},
         NEW step \in {"evidence", "fill"}, Goto(c, step),
         UNCHANGED <<world, leg, placement, bridged, calls, fill>>,
         UNCHANGED <<cur, resting, seen, ack, pending, history>>,
         quote' \in [Calls -> Observed \cup {NoQuote}],
         \A d \in Calls : d # c => quote'[d] = quote[d],
         cur[c] \in resting[c], cur[c] \notin owed[c], Shown(c)'
  PROVE  IInv'
<1>1. /\ TypeOK /\ LocalType /\ CallInv(c)
      /\ side' = side /\ leg' = leg /\ placement' = placement /\ fill' = fill
      /\ bridged' = bridged /\ pc' = [pc EXCEPT ![c] = step]
      /\ UNCHANGED <<cur, resting, seen, ack, pending, mine, unanswered, known, owed>>
  BY TypeParts DEF IInv, world, history, Goto
<1>2. SharedType'
  BY <1>1 DEF TypeOK, SharedType, world
<1>3. LocalType'
  BY <1>1 DEF LocalType, Steps, FillSteps
<1>4. /\ Grows /\ AckTruth' /\ FillsAreEarned'
      /\ \A d \in Calls : LetPlace(d)
  BY <1>1, QuietKeeps
<1>5. pc'[c] = step
  BY <1>1 DEF LocalType
<1>6. Placing(c)' /\ Climbing(c)'
  BY <1>5 DEF Placing, Climbing, SubmitSteps
<1>7. Rested(c)' /\ Knows(c)' /\ Owes(c)'
  BY <1>1, <1>5 DEF CallInv, Rested, Knows, Owes, FillSteps
<1>8. CallInv(c)'
  BY <1>6, <1>7 DEF CallInv
<1>9. \A d \in Calls : d # c => Held(d) /\ Alone(c, d)'
  BY <1>1, <1>5 DEF LocalType, Held, Alone
<1> QED
  BY <1>2, <1>3, <1>4, <1>8, <1>9, StepKeeps, TypePartsNext

LEMMA LookKeeps ==
  ASSUME IInv, NEW c \in Calls, Look(c)
  PROVE  IInv'
<1> DEFINE l == cur[c]
<1>1. /\ LocalType /\ CallInv(c) /\ pc[c] = "look"
      /\ leg[l] # "FILLED" => l \notin owed[c]
      /\ UNCHANGED <<world, leg, placement, calls, fill>>
  BY TypeParts DEF IInv, CallInv, Owes, Look
<1>2. CASE leg[l] = "FILLED" /\ Bridge(c) /\ NextLeg(c)
  BY <1>1, <1>2, LoopKeeps
<1>3. CASE /\ leg[l] = "ACTIVE" /\ l \in resting[c]
           /\ Goto(c, "evidence")
           /\ UNCHANGED <<bridged, local, history>>
  <2>1. pc'[c] = "evidence" /\ UNCHANGED <<cur, resting, seen, ack, quote, pending>>
    BY <1>1, <1>3 DEF LocalType, Goto, local
  <2>2. Shown(c)' /\ quote' \in [Calls -> Observed \cup {NoQuote}]
    BY <1>1, <2>1 DEF Shown, LocalType
  <2> QED
    BY <1>1, <1>3, <2>1, <2>2, LoopStayKeeps
<1>4. CASE leg[l] # "FILLED" /\ NextLeg(c) /\ UNCHANGED <<bridged, pending>>
  BY <1>1, <1>4, LoopKeeps
<1> QED
  BY <1>2, <1>3, <1>4 DEF Look

LEMMA EvidenceKeeps ==
  ASSUME IInv, NEW c \in Calls, Evidence(c)
  PROVE  IInv'
<1> DEFINE l == cur[c]
<1>1. /\ TypeOK /\ LocalType /\ CallInv(c) /\ pc[c] = "evidence"
      /\ l \notin owed[c] /\ l \in resting[c]
      /\ UNCHANGED <<world, leg, placement, calls, fill>>
  BY TypeParts DEF IInv, CallInv, Owes, Rested, Evidence
<1>2. CASE leg[l] = "FILLED" /\ Bridge(c) /\ NextLeg(c)
  BY <1>1, <1>2, LoopKeeps
<1>3. CASE /\ Evident(l)
           /\ Goto(c, "fill")
           /\ quote' = [quote EXCEPT ![c] = market]
           /\ UNCHANGED <<bridged, cur, resting, seen, ack, pending, history>>
  <2>1. /\ quote' \in [Calls -> Observed \cup {NoQuote}]
        /\ quote'[c] = market
        /\ \A d \in Calls : d # c => quote'[d] = quote[d]
    BY <1>1, <1>3 DEF TypeOK
  <2>2. Shown(c)'
    BY <1>1, <1>3, <2>1 DEF Shown, Earns, Evident, Fresh, PricedThrough, world
  <2> QED
    BY <1>1, <1>3, <2>1, <2>2, LoopStayKeeps
<1>4. CASE ~Evident(l) /\ NextLeg(c) /\ UNCHANGED <<bridged, pending>>
  BY <1>1, <1>4, LoopKeeps
<1> QED
  BY <1>2, <1>3, <1>4 DEF Evidence

LEMMA FillKeeps ==
  ASSUME IInv, NEW c \in Calls, Fill(c)
  PROVE  IInv'
<1> DEFINE l == cur[c]
           row == [quote |-> quote[c], own |-> l \in mine[c]]
<1>1. /\ TypeOK /\ SharedType /\ LocalType /\ AckTruth /\ FillsAreEarned /\ CallInv(c)
      /\ pc[c] = "fill" /\ l \in Legs /\ l \in resting[c] /\ l \notin mine[c]
      /\ Earns(quote[c], l)
      /\ Bridge(c) /\ NextLeg(c)
      /\ UNCHANGED <<world, placement, calls>>
  BY TypeParts DEF IInv, LocalType, CallInv, Rested, Shown, Fill
<1>2. CASE leg[l] = "FILLED" /\ UNCHANGED <<leg, fill>>
  BY <1>1, <1>2, LoopKeeps
<1>3. CASE /\ leg[l] = "ACTIVE"
           /\ leg' = [leg EXCEPT ![l] = "FILLED"]
           /\ fill' = [fill EXCEPT ![l] = row]
  <2>1. quote[c] \in Observed /\ quote[c] # NoQuote
    BY <1>1 DEF LocalType, Earns
  <2>2. /\ row \in [quote : Observed, own : BOOLEAN]
        /\ row.quote = quote[c] /\ ~row.own
        /\ row # NoQuote
    <3>1. (l \in mine[c]) = FALSE
      BY <1>1
    <3>2. row = [quote |-> quote[c], own |-> FALSE]
      BY <3>1, Zenon
    <3>3. row \in [quote : Observed, own : BOOLEAN]
      BY <2>1, <3>2
    <3>4. row \in [quote : [at : Times, bid : Int, ask : Int], own : BOOLEAN]
      BY <2>1, <3>2, ObservedType
    <3> QED
      BY <3>2, <3>3, <3>4, NoneAssumption
  <2>3. /\ leg' \in [Legs -> States]
        /\ leg'[l] = "FILLED" /\ fill'[l] = row
        /\ \A k \in Legs : k # l => leg'[k] = leg[k] /\ fill'[k] = fill[k]
        /\ side' = side /\ placement' = placement
    BY <1>1, <1>3 DEF SharedType, States, Accepted, world
  <2>4. /\ bridged \subseteq bridged' /\ bridged' \subseteq Legs
        /\ pending' \in [Calls -> SUBSET Legs]
        /\ \A d \in Calls : d # c => pending'[d] = pending[d]
        /\ pending[c] \subseteq pending'[c]
        /\ l \in bridged' \cup pending'[c]
    BY <1>1, BridgeType
  <2>5. fill' \in [Legs -> [quote : Observed, own : BOOLEAN] \cup {NoQuote}]
    BY <1>1, <1>3, <2>2 DEF SharedType
  <2>6. SharedType'
    BY <1>1, <2>3, <2>4, <2>5 DEF SharedType, world
  <2>7. Grows
    BY <1>3, <2>3, <2>4 DEF Grows, Accepted
  <2>8. AckTruth'
    <3> SUFFICES ASSUME NEW k \in Legs
                 PROVE  /\ placement[k] = NoAck => leg'[k] \in {"none", "PREPARED"} \cup InDoubt
                        /\ placement[k] # NoAck =>
                             leg'[k] \in InDoubt \cup (IF placement[k].state = "ACTIVE"
                                                       THEN Accepted ELSE {"REJECTED"})
                        /\ leg'[k] # "none" => \A j \in 1..(k - 1) : leg'[j] \in Accepted
      BY <2>3 DEF AckTruth
    <3>1. \A j \in 1..(k - 1) : j \in Legs
      BY BoundAssumption DEF Legs
    <3>2. leg'[k] # "none" => \A j \in 1..(k - 1) : leg'[j] \in Accepted
      BY <1>1, <1>3, <2>3, <2>7, <3>1 DEF AckTruth, Grows
    <3>3. CASE k = l
      BY <1>1, <1>3, <2>3, <3>2, <3>3 DEF AckTruth, InDoubt, Accepted
    <3>4. CASE k # l
      BY <1>1, <2>3, <3>2, <3>4 DEF AckTruth
    <3> QED
      BY <3>3, <3>4
  <2>9. FillsAreEarned'
    <3> SUFFICES ASSUME NEW k \in Legs
                 PROVE  /\ leg'[k] = "FILLED" <=> fill'[k] # NoQuote
                        /\ fill'[k] # NoQuote =>
                             /\ placement[k] # NoAck
                             /\ fill'[k].quote.at > placement[k].at
                             /\ PricedThrough(k, fill'[k].quote)
                             /\ ~fill'[k].own
      BY <2>3 DEF FillsAreEarned, PricedThrough
    <3>1. CASE k = l
      BY <1>1, <2>2, <2>3, <3>1 DEF Earns
    <3>2. CASE k # l
      BY <1>1, <2>3, <3>2 DEF FillsAreEarned
    <3> QED
      BY <3>1, <3>2
  <2>10. \A d \in Calls : LetPlace(d)
    BY <1>1, <1>3, <2>3 DEF IInv, LocalType, CallInv, Placing, LetPlace, InDoubt
  <2>11. /\ LocalType' /\ CallInv(c)' /\ pc'[c] \in {"look", "commit"}
         /\ \A d \in Calls : d # c => Held(d)
    BY <1>1, <2>4, <2>7, NextLegCall
  <2>12. \A d \in Calls : Alone(c, d)'
    BY <2>11 DEF Alone
  <2> QED
    BY <2>6, <2>7, <2>8, <2>9, <2>10, <2>11, <2>12, StepKeeps, TypePartsNext
<1> QED
  BY <1>2, <1>3 DEF Fill

LEMMA StepInv == IInv /\ [Next]_vars => IInv'
<1> SUFFICES ASSUME IInv, [Next]_vars PROVE IInv'
  OBVIOUS
<1>1. CASE Tick \/ Publish \/ UNCHANGED vars
  BY <1>1, WorldKeeps
<1>2. ASSUME NEW c \in Calls, Begin(c) \/ LookBefore(c) \/ Die(c) PROVE IInv'
  BY <1>2, BeginKeeps, LookBeforeKeeps, DieKeeps
<1>3. ASSUME NEW c \in Calls, Submit(c) PROVE IInv'
  BY <1>3, PrepareKeeps, ClaimKeeps, PlaceKeeps, RecordKeeps, PlaceFailsKeeps,
     MarkUncertainKeeps, LookupKeeps, LookupFailedKeeps, MissingKeeps, PersistKeeps
     DEF Submit
<1>4. ASSUME NEW c \in Calls, Reconcile(c) PROVE IInv'
  BY <1>4, LookKeeps, EvidenceKeeps, FillKeeps, CommitKeeps DEF Reconcile
<1> QED
  BY <1>1, <1>2, <1>3, <1>4 DEF Next

LEMMA Invariance == Spec => []IInv
  BY InitInv, StepInv, PTL DEF Spec

-----------------------------------------------------------------------------
(* The theorems.                                                           *)

\* Every reachable state is well typed.
THEOREM TypeCorrect == Spec => []TypeOK
<1>1. IInv => TypeOK
  BY DEF IInv
<1> QED
  BY <1>1, Invariance, PTL

\* The legs and the placements of the PAPER adapter never contradict each
\* other, however many calls claim, place, record, look up, persist and die.
THEOREM LegsTellTheTruth == Spec => []AckTruth
<1>1. IInv => AckTruth
  BY DEF IInv
<1> QED
  BY <1>1, Invariance, PTL

\* A call that gets to its fills has resolved every leg whose placement was
\* recorded when it began and whose lookup did not fail: no acknowledgement is
\* lost with the call it was for, or with the answer of its commit.
THEOREM NoAckLost == Spec => []AckRecovered
<1>1. IInv => AckRecovered
  BY DEF IInv, CallInv, Knows, AckRecovered
<1> QED
  BY <1>1, Invariance, PTL

\* A PAPER fill has a quote that is later than the placement and through the
\* price, and is never made by the call that placed the order.
THEOREM FillsEarned == Spec => []FillsAreEarned
<1>1. IInv => FillsAreEarned
  BY DEF IInv
<1> QED
  BY <1>1, Invariance, PTL

\* A call that completes commits every fill that was there when it began.
THEOREM FillsReachInventory == Spec => []NoFillForgotten
<1>1. IInv => NoFillForgotten
  BY DEF IInv, CallInv, Owes, NoFillForgotten
<1> QED
  BY <1>1, Invariance, PTL

-----------------------------------------------------------------------------
(* The abstract submission.                                                *)

\* The abstract variables.
PlanLegs == {"plan"} \X Legs
phaseBar == [l \in PlanLegs |-> Phase(l[2])]
postedBar == [l \in PlanLegs |-> Placed(l[2])]

\* What the phases say of the states.
LEMMA Phases ==
  ASSUME NEW l \in Legs
  PROVE  /\ leg[l] \in {"none", "PREPARED"} => Phase(l) = "idle"
         /\ leg[l] \in InDoubt => Phase(l) = "committed"
         /\ leg[l] \in Accepted => Phase(l) = "accepted"
         /\ leg[l] = "REJECTED" => Phase(l) = "closed"
  BY DEF Phase, InDoubt, Accepted

LEMMA NextPhases ==
  ASSUME NEW l \in Legs
  PROVE  /\ leg'[l] \in {"none", "PREPARED"} => Phase(l)' = "idle"
         /\ leg'[l] \in InDoubt => Phase(l)' = "committed"
         /\ leg'[l] \in Accepted => Phase(l)' = "accepted"
         /\ leg'[l] = "REJECTED" => Phase(l)' = "closed"
  BY DEF Phase, InDoubt, Accepted

\* One leg changes its phase, or has its order recorded.
LEMMA OneLeg ==
  ASSUME NEW l \in Legs
  PROVE  /\ <<"plan", l>> \in PlanLegs
         /\ phaseBar[<<"plan", l>>] = Phase(l) /\ postedBar[<<"plan", l>>] = Placed(l)
         /\ (\A k \in Legs : k # l => Phase(k)' = Phase(k)) =>
              phaseBar' = [phaseBar EXCEPT ![<<"plan", l>>] = Phase(l)']
         /\ (\A k \in Legs : k # l => Placed(k)' = Placed(k)) =>
              postedBar' = [postedBar EXCEPT ![<<"plan", l>>] = Placed(l)']
<1>1. /\ <<"plan", l>> \in PlanLegs /\ <<"plan", l>>[2] = l
      /\ \A k \in PlanLegs : k[2] \in Legs /\ (k # <<"plan", l>> => k[2] # l)
  BY DEF PlanLegs
<1>2. /\ phaseBar[<<"plan", l>>] = Phase(l) /\ postedBar[<<"plan", l>>] = Placed(l)
  BY <1>1 DEF phaseBar, postedBar
<1>3. ASSUME \A k \in Legs : k # l => Phase(k)' = Phase(k)
      PROVE  phaseBar' = [phaseBar EXCEPT ![<<"plan", l>>] = Phase(l)']
  <2>1. \A k \in PlanLegs :
          Phase(k[2])' = IF k = <<"plan", l>> THEN Phase(l)' ELSE phaseBar[k]
    BY <1>1, <1>3 DEF phaseBar
  <2> QED
    BY <2>1 DEF phaseBar
<1>4. ASSUME \A k \in Legs : k # l => Placed(k)' = Placed(k)
      PROVE  postedBar' = [postedBar EXCEPT ![<<"plan", l>>] = Placed(l)']
  <2>1. \A k \in PlanLegs :
          Placed(k[2])' = IF k = <<"plan", l>> THEN Placed(l)' ELSE postedBar[k]
    BY <1>1, <1>4 DEF postedBar
  <2> QED
    BY <2>1 DEF postedBar
<1> QED
  BY <1>1, <1>2, <1>3, <1>4

LEMMA SubmissionInit == Init => Submission!Init
<1> SUFFICES ASSUME Init PROVE Submission!Init
  OBVIOUS
<1>1. \A l \in Legs : Phase(l) = "idle"
  BY Phases DEF Init
<1>2. \A l \in Legs : Placed(l) = 0
  BY DEF Init, Placed
<1> QED
  BY <1>1, <1>2 DEF Submission!Init, Submission!Legs

\* A step that writes to no leg and no placement is invisible.
LEMMA QuietImplements ==
  ASSUME leg' = leg, placement' = placement
  PROVE  UNCHANGED Submission!vars
<1>1. \A l \in Legs : Phase(l)' = Phase(l) /\ Placed(l)' = Placed(l)
  BY DEF Phase, Placed
<1>2. phaseBar' = phaseBar /\ postedBar' = postedBar
  BY <1>1 DEF phaseBar, postedBar, PlanLegs
<1> QED
  BY <1>2 DEF Submission!vars, phaseBar, postedBar, PlanLegs

\* What a write of a leg may do: nothing visible, commit the leg that has been
\* reached, or resolve the one whose order was recorded.
Unseen(l, state) ==
  \E S \in {{"none", "PREPARED"}, InDoubt, Accepted, {"REJECTED"}} : leg[l] \in S /\ state \in S

Commits(l, state) ==
  /\ leg[l] = "PREPARED" /\ state \in InDoubt
  /\ \A k \in Legs : k < l => leg[k] \in Accepted

Resolves(l, state) ==
  leg[l] \in InDoubt /\ state \in Acks /\ placement[l] # NoAck

LEMMA MoveImplements ==
  ASSUME TypeOK, NEW l \in Legs, NEW state,
         leg' = [leg EXCEPT ![l] = state], placement' = placement,
         Unseen(l, state) \/ Commits(l, state) \/ Resolves(l, state)
  PROVE  [Submission!Next]_(Submission!vars)
<1>1. /\ leg'[l] = state
      /\ \A k \in Legs : k # l => leg'[k] = leg[k]
  BY DEF TypeOK
<1>2. /\ \A k \in Legs : k # l => Phase(k)' = Phase(k)
      /\ \A k \in Legs : Placed(k)' = Placed(k)
  BY <1>1 DEF Phase, Placed
<1>3. /\ postedBar' = postedBar
      /\ phaseBar' = [phaseBar EXCEPT ![<<"plan", l>>] = Phase(l)']
  <2>1. postedBar' = postedBar
    BY <1>2 DEF postedBar, PlanLegs
  <2> QED
    BY <1>2, <2>1, OneLeg
<1>4. CASE Unseen(l, state)
  <2>1. Phase(l)' = Phase(l)
    BY <1>1, <1>4, Phases, NextPhases DEF Unseen
  <2>2. phaseBar' = phaseBar
    BY <1>2, <2>1 DEF phaseBar, PlanLegs
  <2> QED
    BY <1>3, <2>2 DEF Submission!vars, phaseBar, postedBar, PlanLegs
<1>5. CASE Commits(l, state)
  <2>1. Phase(l) = "idle" /\ Phase(l)' = "committed"
    BY <1>1, <1>5, Phases, NextPhases DEF Commits
  <2>2. \A k \in Legs : k < l => phaseBar[<<"plan", k>>] = "accepted"
    BY <1>5, Phases DEF Commits, phaseBar, PlanLegs
  <2>3. phaseBar[<<"plan", l>>] = "idle"
    BY <2>1 DEF phaseBar, PlanLegs
  <2>4. Submission!Commit("plan", l)
    BY <1>3, <2>1, <2>2, <2>3
       DEF Submission!Commit, Submission!Reached, phaseBar, postedBar, PlanLegs
  <2> QED
    BY <2>4 DEF Submission!Next
<1>6. CASE Resolves(l, state)
  <2>1. Phase(l) = "committed" /\ Phase(l)' \in {"accepted", "closed"}
    BY <1>1, <1>6, Phases, NextPhases DEF Resolves, Acks, Accepted
  <2>2. phaseBar[<<"plan", l>>] = "committed" /\ postedBar[<<"plan", l>>] = 1
    BY <1>6, <2>1 DEF Resolves, phaseBar, postedBar, PlanLegs, Placed
  <2>3. Submission!Resolve("plan", l)
    BY <1>3, <2>1, <2>2 DEF Submission!Resolve, phaseBar, postedBar, PlanLegs
  <2> QED
    BY <2>3 DEF Submission!Next
<1> QED
  BY <1>4, <1>5, <1>6

\* An order is recorded for a leg in doubt that has none.
LEMMA PostImplements ==
  ASSUME NEW l \in Legs, leg[l] \in InDoubt, leg' = leg,
         Placed(l) = 0, Placed(l)' = 1,
         \A k \in Legs : k # l => Placed(k)' = Placed(k)
  PROVE  Submission!Next
<1>1. phaseBar' = phaseBar
  <2>1. \A k \in Legs : Phase(k)' = Phase(k)
    BY DEF Phase
  <2> QED
    BY <2>1 DEF phaseBar, PlanLegs
<1>2. /\ postedBar' = [postedBar EXCEPT ![<<"plan", l>>] = 1]
      /\ phaseBar[<<"plan", l>>] = "committed" /\ postedBar[<<"plan", l>>] = 0
  BY OneLeg, Phases
<1>3. Submission!Post("plan", l)
  BY <1>1, <1>2 DEF Submission!Post, phaseBar, postedBar, PlanLegs
<1> QED
  BY <1>3 DEF Submission!Next

LEMMA RecordImplements ==
  ASSUME IInv, NEW c \in Calls, Record(c)
  PROVE  Submission!Next
<1>1. PICK l \in Legs : l = cur[c]
  BY DEF IInv, TypeOK
<1>2. /\ placement[l] = NoAck /\ leg[l] \in InDoubt
      /\ placement \in [Legs -> [state : Acks, at : Times] \cup {NoAck}]
      /\ ack[c] \in Acks /\ now \in Times
  BY <1>1 DEF IInv, TypeOK, CallInv, Placing, Record
<1>3. /\ leg' = leg
      /\ placement' = [placement EXCEPT ![l] = [state |-> ack[c], at |-> now]]
  BY <1>1 DEF Record
<1>4. [state |-> ack[c], at |-> now] # NoAck
  BY <1>2, NoneAssumption DEF Acks
<1>5. /\ \A k \in Legs : k # l => placement'[k] = placement[k]
      /\ placement'[l] # NoAck
  BY <1>2, <1>3, <1>4
<1>6. Placed(l) = 0 /\ Placed(l)' = 1 /\ \A k \in Legs : k # l => Placed(k)' = Placed(k)
  BY <1>2, <1>5 DEF Placed
<1> QED
  BY <1>2, <1>3, <1>6, PostImplements

\* Every other step of a call writes at most to the leg it is at.
LEMMA SubmitImplements ==
  ASSUME IInv, NEW c \in Calls, Submit(c)
  PROVE  [Submission!Next]_(Submission!vars)
<1> DEFINE l == cur[c]
<1>1. /\ TypeOK /\ AckTruth /\ CallInv(c)
      /\ l \in Legs /\ leg \in [Legs -> States] /\ NumLegs \in Nat
  BY BoundAssumption DEF IInv, TypeOK
<1>2. CASE Prepare(c)
  <2>1. CASE leg[l] = "none"
    BY <1>1, <1>2, <2>1, MoveImplements DEF Prepare, Unseen
  <2>2. CASE leg[l] # "none"
    BY <1>1, <1>2, <2>2, QuietImplements DEF Prepare
  <2> QED
    BY <2>1, <2>2
<1>3. CASE Claim(c)
  <2>1. CASE leg[l] = "PREPARED"
    <3>1. \A k \in Legs : k < l => leg[k] \in Accepted
      BY <1>1, <1>3 DEF Claim, CallInv, Climbing, SubmitSteps, Legs
    <3> QED
      BY <1>1, <1>3, <2>1, <3>1, MoveImplements DEF Claim, Commits, InDoubt
  <2>2. CASE leg[l] # "PREPARED"
    BY <1>3, <2>2, QuietImplements DEF Claim
  <2> QED
    BY <2>1, <2>2
<1>4. CASE Place(c) \/ PlaceFails(c) \/ MarkUncertain(c) \/ Lookup(c) \/ LookupFailed(c)
  BY <1>4, QuietImplements DEF Place, PlaceFails, MarkUncertain, Lookup, LookupFailed
<1>5. CASE Record(c)
  BY <1>5, RecordImplements
<1>6. CASE Missing(c)
  <2>1. CASE leg' = leg
    BY <1>6, <2>1, QuietImplements DEF Missing
  <2>2. CASE leg' # leg
    <3>1. /\ leg[l] = "SUBMISSION_UNCERTAIN"
          /\ leg' = [leg EXCEPT ![l] = "RECONCILIATION_REQUIRED"]
          /\ placement' = placement
      BY <1>6, <2>2 DEF Missing
    <3> QED
      BY <1>1, <3>1, MoveImplements DEF Unseen, InDoubt
  <2> QED
    BY <2>1, <2>2
<1>7. CASE Persist(c)
  <2>1. CASE leg' = leg
    BY <1>7, <2>1, QuietImplements DEF Persist
  <2>2. CASE leg' # leg
    <3>1. /\ leg[l] \in Replaceable(c)
          /\ leg' = [leg EXCEPT ![l] = ack[c]]
          /\ placement' = placement /\ pc[c] = "persist"
      BY <1>7, <2>2 DEF Persist
    <3>2. placement[l] # NoAck /\ ack[c] \in Acks
      BY <1>1, <3>1 DEF CallInv, Placing, TypeOK
    <3>3. leg[l] \in InDoubt
      BY <3>1 DEF Replaceable, InDoubt
    <3> QED
      BY <1>1, <3>1, <3>2, <3>3, MoveImplements DEF Resolves
  <2> QED
    BY <2>1, <2>2
<1> QED
  BY <1>2, <1>3, <1>4, <1>5, <1>6, <1>7 DEF Submit

LEMMA ReconcileImplements ==
  ASSUME IInv, NEW c \in Calls, Reconcile(c)
  PROVE  [Submission!Next]_(Submission!vars)
<1>1. CASE leg' = leg
  <2>1. placement' = placement
    BY DEF Reconcile, Look, Evidence, Fill, Commit
  <2> QED
    BY <1>1, <2>1, QuietImplements
<1>2. CASE leg' # leg
  <2>1. /\ leg[cur[c]] = "ACTIVE" /\ leg' = [leg EXCEPT ![cur[c]] = "FILLED"]
        /\ placement' = placement
    BY <1>2 DEF Reconcile, Look, Evidence, Fill, Commit
  <2> QED
    BY <2>1, MoveImplements DEF IInv, TypeOK, Unseen, Accepted
<1> QED
  BY <1>1, <1>2

\* The calls on a PAPER plan keep the promise of the shared executor without
\* its claims and leases: legs are committed in order and once, an order is
\* recorded once and after that, and only then is its leg resolved.
THEOREM CallsKeepThePromise == Spec => ImplementsSubmitOnce
<1>1. IInv /\ [Next]_vars => [Submission!Next]_(Submission!vars)
  <2> SUFFICES ASSUME IInv, [Next]_vars PROVE [Submission!Next]_(Submission!vars)
    OBVIOUS
  <2>1. ASSUME NEW c \in Calls, Submit(c) PROVE [Submission!Next]_(Submission!vars)
    BY <2>1, SubmitImplements
  <2>2. ASSUME NEW c \in Calls, Reconcile(c) PROVE [Submission!Next]_(Submission!vars)
    BY <2>2, ReconcileImplements
  <2>3. ASSUME NEW c \in Calls, Begin(c) \/ LookBefore(c) \/ Die(c)
        PROVE  [Submission!Next]_(Submission!vars)
    <3>1. leg' = leg /\ placement' = placement
      BY <2>3 DEF Begin, LookBefore, Die
    <3> QED
      BY <3>1, QuietImplements
  <2>4. CASE Tick \/ Publish \/ UNCHANGED vars
    <3>1. leg' = leg /\ placement' = placement
      BY <2>4 DEF Tick, Publish, vars
    <3> QED
      BY <3>1, QuietImplements
  <2> QED
    BY <2>1, <2>2, <2>3, <2>4 DEF Next
<1> QED
  BY <1>1, SubmissionInit, Invariance, PTL DEF Spec, ImplementsSubmitOnce, Submission!Spec

\* The record of a placement is written once: no call replaces or removes it.
THEOREM PlacementsStay == Spec => PlacedOnce
<1>1. IInv /\ [Next]_vars =>
        \A l \in Legs : placement[l] # NoAck => placement'[l] = placement[l]
  <2> SUFFICES ASSUME IInv, [Next]_vars, NEW l \in Legs, placement[l] # NoAck
               PROVE  placement'[l] = placement[l]
    OBVIOUS
  <2>1. CASE placement' = placement
    BY <2>1
  <2>2. ASSUME NEW c \in Calls, Record(c) PROVE placement'[l] = placement[l]
    BY <2>2 DEF IInv, TypeOK, CallInv, Placing, Record
  <2>3. ASSUME NEW c \in Calls, Begin(c) \/ LookBefore(c) \/ Reconcile(c) \/ Die(c)
        PROVE  placement' = placement
    BY <2>3 DEF Begin, LookBefore, Reconcile, Look, Evidence, Fill, Commit, Die
  <2>4. ASSUME NEW c \in Calls, Submit(c), ~Record(c) PROVE placement' = placement
    BY <2>4 DEF Submit, Prepare, Claim, Place, PlaceFails, MarkUncertain, Lookup,
                LookupFailed, Missing, Persist
  <2>5. ASSUME Tick \/ Publish \/ UNCHANGED vars PROVE placement' = placement
    BY <2>5 DEF Tick, Publish, vars
  <2> QED
    BY <2>1, <2>2, <2>3, <2>4, <2>5 DEF Next
<1> QED
  BY <1>1, Invariance, PTL DEF Spec, PlacedOnce
================================================================================
