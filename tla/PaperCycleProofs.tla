-------------------------- MODULE PaperCycleProofs --------------------------
(***************************************************************************)
(* Proofs about the PAPER path, for any processes, assets, equity and      *)
(* number of plans: type correctness, that the sleeve's books balance,     *)
(* that a closed plan stays closed, what may hold capital back, and that   *)
(* only two processes at one row plan it twice or without its capital.     *)
(***************************************************************************)
EXTENDS PaperCycle, FiniteSetTheorems, TLAPS

-----------------------------------------------------------------------------
(* Type correctness.                                                       *)

LEMMA TypeInit == Init => TypeOK
<1> SUFFICES ASSUME Init PROVE TypeOK
  OBVIOUS
<1>1. /\ state \in [Plans -> PlanStates]
      /\ action \in [Plans -> Actions]
      /\ asset \in [Plans -> Assets \cup {NoAsset}]
      /\ reservation \in [Plans -> {"NONE", "ACTIVE", "RELEASED"}]
      /\ \A p \in Plans : state[p] # "ABSENT" <=> asset[p] \in Assets
  BY AssetsAssumption DEF Init, PlanStates, Actions
<1>2. sleeve \in Sleeves /\ position \in [Assets -> Nat] /\ fills \in SUBSET Plans
  BY EquityAssumption DEF Init, Sleeves
<1>3. /\ pc \in [Processes -> Steps]
      /\ program \in [Processes -> {"planner", "cycle"}]
      /\ rows \in [Processes -> SUBSET Assets]
      /\ queue \in [Processes -> SUBSET Plans]
      /\ cur \in [Processes -> Assets \cup {NoAsset}]
      /\ intent \in [Processes -> Intents]
      /\ target \in [Processes -> Plans \cup {0}]
      /\ seen \in [Processes -> Nat]
      /\ raced \in SUBSET Assets
      /\ orphaned \in SUBSET Plans
  BY DEF Init, Steps, Intents
<1>4. \A w \in Processes : pc[w] = "idle" /\ queue[w] = {}
  BY DEF Init
<1> QED
  BY <1>1, <1>2, <1>3, <1>4 DEF TypeOK, Planning

\* The loops, as a step of a process uses them.
Continue(w) ==
  \/ Return(w)
  \/ \E a \in Assets : NextRow(w, a)
  \/ \E p \in Plans, step \in {"fill", "abort"} : NextPlan(w, p, step)

\* The loops leave the control of a process well typed.
LEMMA ControlType ==
  ASSUME TypeOK, NEW w \in Processes, Continue(w)
  PROVE  /\ pc' \in [Processes -> Steps]
         /\ program' \in [Processes -> {"planner", "cycle"}]
         /\ rows' \in [Processes -> SUBSET Assets]
         /\ queue' \in [Processes -> SUBSET Plans]
         /\ cur' \in [Processes -> Assets \cup {NoAsset}]
         /\ intent' \in [Processes -> Intents]
         /\ target' \in [Processes -> Plans \cup {0}]
         /\ seen' \in [Processes -> Nat]
         /\ pc'[w] \in {"idle", "gate", "fetch", "fill", "abort"}
         /\ queue'[w] \subseteq queue[w]
         /\ \A v \in Processes \ {w} :
              /\ pc'[v] = pc[v] /\ cur'[v] = cur[v] /\ target'[v] = target[v]
              /\ queue'[v] = queue[v] /\ intent'[v] = intent[v]
<1> USE DEF TypeOK, Steps, Planning, Intents
<1>1. CASE Return(w)
  BY <1>1 DEF Return
<1>2. ASSUME NEW a \in Assets, NextRow(w, a), ~Return(w)
      PROVE  /\ rows' = [rows EXCEPT ![w] = @ \ {a}]
             /\ \E step \in {"fetch", "gate"} : pc' = [pc EXCEPT ![w] = step]
             /\ \E n \in Nat : seen' = [seen EXCEPT ![w] = n]
             /\ cur' = [cur EXCEPT ![w] = NoAsset]
             /\ intent' = [intent EXCEPT ![w] = "NONE"]
             /\ target' = [target EXCEPT ![w] = 0]
             /\ UNCHANGED <<program, queue>>
  BY <1>2 DEF NextRow
<1>3. ASSUME NEW p \in Plans, NEW step \in {"fill", "abort"}, NextPlan(w, p, step), ~Return(w)
      PROVE  /\ queue' = [queue EXCEPT ![w] = @ \ {p}]
             /\ pc' = [pc EXCEPT ![w] = step]
             /\ target' = [target EXCEPT ![w] = 0]
             /\ UNCHANGED <<program, rows, cur, intent, seen>>
  BY <1>3 DEF NextPlan
<1>4. CASE \E a \in Assets : NextRow(w, a) /\ ~Return(w)
  <2>1. PICK a \in Assets, step \in {"fetch", "gate"}, n \in Nat :
          /\ rows' = [rows EXCEPT ![w] = @ \ {a}]
          /\ pc' = [pc EXCEPT ![w] = step]
          /\ seen' = [seen EXCEPT ![w] = n]
    BY <1>2, <1>4
  <2>2. /\ cur' = [cur EXCEPT ![w] = NoAsset]
        /\ intent' = [intent EXCEPT ![w] = "NONE"]
        /\ target' = [target EXCEPT ![w] = 0]
        /\ UNCHANGED <<program, queue>>
    BY <1>2, <1>4
  <2> QED
    BY <2>1, <2>2
<1>5. CASE \E p \in Plans, step \in {"fill", "abort"} : NextPlan(w, p, step) /\ ~Return(w)
  BY <1>3, <1>5
<1> QED
  BY <1>1, <1>4, <1>5 DEF Continue

\* A sleeve is what its columns are.
LEMMA SleeveFields ==
  ASSUME sleeve \in Sleeves
  PROVE  /\ sleeve.available \in Nat /\ sleeve.reserved \in Nat /\ sleeve.deployed \in Nat
         /\ Less(sleeve.reserved) \in Nat
<1>1. sleeve.available \in Nat /\ sleeve.reserved \in Nat /\ sleeve.deployed \in Nat
  BY DEF Sleeves
<1> QED
  BY <1>1 DEF Less

LEMMA SleeveUpdate ==
  ASSUME sleeve \in Sleeves, NEW r \in Nat, NEW n \in Nat
  PROVE  /\ [sleeve EXCEPT !.reserved = r, !.available = n] \in Sleeves
         /\ [sleeve EXCEPT !.reserved = r, !.deployed = n] \in Sleeves
<1>1. [sleeve EXCEPT !.reserved = r, !.available = n] \in Sleeves
  BY DEF Sleeves
<1>2. [sleeve EXCEPT !.reserved = r, !.deployed = n] \in Sleeves
  BY DEF Sleeves
<1> QED
  BY <1>1, <1>2

\* The plans and the books keep their types when one plan is written.
LEMMA ContinueType ==
  ASSUME TypeOK, NEW w \in Processes, Continue(w),
         state' \in [Plans -> PlanStates],
         action' \in [Plans -> Actions],
         asset' \in [Plans -> Assets \cup {NoAsset}],
         reservation' \in [Plans -> {"NONE", "ACTIVE", "RELEASED"}],
         sleeve' \in Sleeves, position' \in [Assets -> Nat], fills' \in SUBSET Plans,
         raced' \in SUBSET Assets, orphaned' \in SUBSET Plans,
         \A p \in Plans : state'[p] # "ABSENT" <=> asset'[p] \in Assets,
         \A p \in Plans : state[p] # "ABSENT" => state'[p] # "ABSENT"
  PROVE  TypeOK'
<1>1. /\ pc' \in [Processes -> Steps]
      /\ program' \in [Processes -> {"planner", "cycle"}]
      /\ rows' \in [Processes -> SUBSET Assets]
      /\ queue' \in [Processes -> SUBSET Plans]
      /\ cur' \in [Processes -> Assets \cup {NoAsset}]
      /\ intent' \in [Processes -> Intents]
      /\ target' \in [Processes -> Plans \cup {0}]
      /\ seen' \in [Processes -> Nat]
  BY ControlType
<1>2. /\ pc'[w] \notin Planning \ {"gate"}
      /\ pc'[w] \notin {"cancel", "update", "release"}
      /\ queue'[w] \subseteq queue[w]
  BY ControlType DEF Planning
<1>3. \A v \in Processes \ {w} :
        pc'[v] = pc[v] /\ cur'[v] = cur[v] /\ target'[v] = target[v] /\ queue'[v] = queue[v]
  BY ControlType
<1>4. \A v \in Processes :
        /\ pc'[v] \in Planning \ {"gate"} => cur'[v] \in Assets
        /\ pc'[v] \in {"cancel", "update", "release"} =>
             target'[v] \in Plans /\ state'[target'[v]] # "ABSENT"
        /\ \A p \in queue'[v] : state'[p] # "ABSENT"
  BY <1>2, <1>3 DEF TypeOK
<1> QED
  BY <1>1, <1>4 DEF TypeOK

LEMMA TypeStep == TypeOK /\ [Next]_vars => TypeOK'
<1> SUFFICES ASSUME TypeOK, [Next]_vars PROVE TypeOK'
  OBVIOUS
<1>1. ASSUME NEW w \in Processes, NEW kind \in {"planner", "cycle"}, StartPlanning(w, kind)
      PROVE  TypeOK'
  BY <1>1 DEF StartPlanning, TypeOK, plans, books, history, Sleeves, Steps, Planning
<1>2. ASSUME NEW w \in Processes, NEW a \in Assets, Gate(w, a) PROVE TypeOK'
  <2>1. CASE NextRow(w, a)
    BY <1>2, <2>1, ContinueType DEF Gate, Continue, TypeOK, plans, books, history
  <2>2. CASE ~NextRow(w, a)
    <3>1. PICK i \in Intents :
            /\ pc' = [pc EXCEPT ![w] = IF program[w] = "cycle" THEN "create" ELSE "existing"]
            /\ cur' = [cur EXCEPT ![w] = a]
            /\ intent' = [intent EXCEPT ![w] = i]
            /\ UNCHANGED <<program, rows, queue, target, seen>>
      BY <1>2, <2>2 DEF Gate, Decisions, IntentOf, Selections, Intents
    <3> QED
      BY <1>2, <3>1 DEF Gate, TypeOK, plans, books, history, Steps, Planning
  <2> QED
    BY <2>1, <2>2
<1>3. ASSUME NEW w \in Processes, Existing(w) PROVE TypeOK'
  <2>1. cur[w] \in Assets /\ pc[w] = "existing" /\ UNCHANGED <<plans, books, history>>
    BY <1>3 DEF Existing, TypeOK, Planning
  <2>2. CASE NextRow(w, cur[w])
    BY <2>1, <2>2, ContinueType DEF Continue, TypeOK, plans, books, history
  <2>3. CASE ~NextRow(w, cur[w])
    <3>1. \/ \E p \in Plans, step \in {"cancel", "update"} :
               state[p] # "ABSENT" /\ GoTo(w, step, p)
          \/ GoTo(w, "create", 0)
      BY <1>3, <2>3 DEF Existing, OpenPlans, Open
    <3>2. PICK step \in {"cancel", "update", "create"}, p \in Plans \cup {0} :
            /\ step # "create" => p \in Plans /\ state[p] # "ABSENT"
            /\ pc' = [pc EXCEPT ![w] = step]
            /\ target' = [target EXCEPT ![w] = p]
            /\ UNCHANGED <<program, rows, cur, intent, seen, queue>>
      BY <3>1 DEF GoTo
    <3> QED
      BY <2>1, <3>2 DEF TypeOK, plans, books, history, Steps, Planning
  <2> QED
    BY <2>2, <2>3
<1>4. ASSUME NEW w \in Processes, Cancel(w) PROVE TypeOK'
  <2>1. cur[w] \in Assets /\ target[w] \in Plans /\ state[target[w]] # "ABSENT"
    BY <1>4 DEF Cancel, TypeOK, Planning
  <2>2. /\ state' \in [Plans -> PlanStates]
        /\ \A p \in Plans : state'[p] # "ABSENT" <=> state[p] # "ABSENT"
    BY <1>4, <2>1 DEF Cancel, TypeOK, PlanStates
  <2> QED
    BY <1>4, <2>1, <2>2, ContinueType DEF Cancel, Continue, TypeOK, books, history
<1>5. ASSUME NEW w \in Processes, Update(w) PROVE TypeOK'
  <2>1. cur[w] \in Assets /\ action' \in [Plans -> Actions]
    BY <1>5 DEF Update, TypeOK, Planning, Actions
  <2> QED
    BY <1>5, <2>1, ContinueType DEF Update, Continue, TypeOK, books, history
<1>6. ASSUME NEW w \in Processes, Create(w) PROVE TypeOK'
  <2>1. cur[w] \in Assets
    BY <1>6 DEF Create, TypeOK, Planning
  <2>2. ASSUME NEW p \in Plans, InsertPlan(w, p)
        PROVE  /\ state' \in [Plans -> PlanStates]
               /\ action' \in [Plans -> Actions]
               /\ asset' \in [Plans -> Assets \cup {NoAsset}]
               /\ \A q \in Plans : state'[q] # "ABSENT" <=> asset'[q] \in Assets
               /\ \A q \in Plans : state[q] # "ABSENT" => state'[q] # "ABSENT"
    BY <2>1, <2>2 DEF InsertPlan, TypeOK, PlanStates, Open, Actions
  <2>3. sleeve' \in Sleeves /\ reservation' \in [Plans -> {"NONE", "ACTIVE", "RELEASED"}]
    <3>1. \/ sleeve' = sleeve
          \/ /\ sleeve.available >= 1
             /\ sleeve' = [sleeve EXCEPT !.reserved = sleeve.reserved + 1,
                                         !.available = sleeve.available - 1]
      BY <1>6 DEF Create
    <3>2. sleeve \in Sleeves
      BY DEF TypeOK
    <3>3. sleeve.available \in Nat /\ sleeve.reserved \in Nat
      BY <3>2, SleeveFields
    <3>4. sleeve' \in Sleeves
      <4>1. sleeve.available >= 1 =>
              sleeve.reserved + 1 \in Nat /\ sleeve.available - 1 \in Nat
        BY <3>3
      <4> QED
        BY <3>1, <3>2, <4>1, SleeveUpdate
    <3>5. \/ reservation' = reservation
          \/ \E p \in Plans : reservation' = [reservation EXCEPT ![p] = "ACTIVE"]
      BY <1>6 DEF Create, plans
    <3> QED
      BY <3>4, <3>5 DEF TypeOK
  <2>4. Continue(w)
    BY <1>6, <2>1 DEF Create, Continue
  <2>5. /\ position' = position /\ fills' = fills
        /\ raced' = raced /\ orphaned' = orphaned
    BY <1>6 DEF Create, history
  <2>6. \/ \E p \in Plans : InsertPlan(w, p)
        \/ UNCHANGED <<state, action, asset>>
    BY <1>6 DEF Create, plans
  <2> QED
    BY <2>2, <2>3, <2>4, <2>5, <2>6, ContinueType DEF TypeOK
<1>7. ASSUME NEW w \in Processes, FetchOpen(w) PROVE TypeOK'
  <2>1. CASE Return(w)
    BY <1>7, <2>1, ContinueType DEF FetchOpen, Continue, TypeOK, plans, books, history
  <2>2. CASE ~Return(w)
    BY <1>7, <2>2
       DEF FetchOpen, TypeOK, plans, books, history, local, Steps, Planning, Open
  <2> QED
    BY <2>1, <2>2
<1>8. ASSUME NEW w \in Processes, FetchInvalidatable(w) PROVE TypeOK'
  <2>1. PICK doomed \in SUBSET Plans :
          /\ \A p \in doomed : state[p] # "ABSENT"
          /\ queue' = [queue EXCEPT ![w] = doomed]
    BY <1>8 DEF FetchInvalidatable, OpenPlans, Open
  <2> QED
    BY <1>8, <2>1
       DEF FetchInvalidatable, TypeOK, plans, books, history, local, Steps, Planning
<1>9. ASSUME NEW w \in Processes, NEW p \in Plans, Fill(w, p) PROVE TypeOK'
  <2>1. Continue(w) /\ UNCHANGED history /\ state[p] # "ABSENT" /\ asset[p] \in Assets
    BY <1>9 DEF Fill, Continue, IsNext, TypeOK
  <2>2. CASE Deploy(p)
    <3>1. /\ sleeve' \in Sleeves /\ position' \in [Assets -> Nat]
          /\ fills' \in SUBSET Plans
      <4>1. sleeve \in Sleeves
        BY DEF TypeOK
      <4>2. sleeve.deployed + 1 \in Nat /\ Less(sleeve.reserved) \in Nat
        BY <4>1, SleeveFields
      <4>3. sleeve' = [sleeve EXCEPT !.reserved = Less(sleeve.reserved),
                                    !.deployed = sleeve.deployed + 1]
        BY <2>2 DEF Deploy
      <4> QED
        <5>1. sleeve' \in Sleeves
          BY <4>1, <4>2, <4>3, SleeveUpdate
        <5> QED
          BY <2>1, <2>2, <5>1 DEF Deploy, TypeOK
    <3>2. /\ state' \in [Plans -> PlanStates]
          /\ reservation' \in [Plans -> {"NONE", "ACTIVE", "RELEASED"}]
          /\ UNCHANGED <<action, asset>>
          /\ \A q \in Plans : state'[q] # "ABSENT" <=> state[q] # "ABSENT"
      BY <2>1, <2>2 DEF Deploy, TypeOK, PlanStates
    <3> QED
      BY <2>1, <3>1, <3>2, ContinueType DEF TypeOK, history
  <2>3. CASE UNCHANGED <<plans, books>>
    BY <2>1, <2>3, ContinueType DEF TypeOK, plans, books, history
  <2> QED
    BY <1>9, <2>2, <2>3 DEF Fill
<1>10. ASSUME NEW w \in Processes, NEW p \in Plans, Abort(w, p) PROVE TypeOK'
  <2>1. state[p] # "ABSENT"
    BY <1>10 DEF Abort, IsNext, TypeOK
  <2>2. /\ state' \in [Plans -> PlanStates]
        /\ \A q \in Plans : state'[q] # "ABSENT" <=> state[q] # "ABSENT"
    BY <1>10, <2>1 DEF Abort, TypeOK, PlanStates
  <2> QED
    BY <1>10, <2>1, <2>2 DEF Abort, GoTo, TypeOK, books, history, Steps, Planning
<1>11. ASSUME NEW w \in Processes, Release(w) PROVE TypeOK'
  <2>1. target[w] \in Plans /\ Continue(w)
    BY <1>11 DEF Release, TypeOK, Continue
  <2>2. sleeve' \in Sleeves /\ reservation' \in [Plans -> {"NONE", "ACTIVE", "RELEASED"}]
    <3>1. sleeve \in Sleeves
      BY DEF TypeOK
    <3>2. sleeve.available + 1 \in Nat /\ Less(sleeve.reserved) \in Nat
      BY <3>1, SleeveFields
    <3>3. \/ sleeve' = sleeve /\ reservation' = reservation
          \/ /\ sleeve' = [sleeve EXCEPT !.reserved = Less(sleeve.reserved),
                                         !.available = sleeve.available + 1]
             /\ reservation' = [reservation EXCEPT ![target[w]] = "RELEASED"]
      BY <1>11 DEF Release
    <3> QED
      <4>1. [sleeve EXCEPT !.reserved = Less(sleeve.reserved),
                           !.available = sleeve.available + 1] \in Sleeves
        BY <3>1, <3>2, SleeveUpdate, Zenon
      <4> QED
        BY <2>1, <3>1, <3>3, <4>1 DEF TypeOK
  <2> QED
    BY <1>11, <2>1, <2>2, ContinueType DEF Release, TypeOK, history
<1>12. ASSUME NEW w \in Processes, Die(w) PROVE TypeOK'
  <2>1. orphaned' \in SUBSET Plans
    BY <1>12 DEF Die, TypeOK
  <2> QED
    BY <1>12, <2>1, ContinueType DEF Die, Continue, TypeOK, plans, books
<1>13. CASE UNCHANGED vars
  BY <1>13 DEF vars, plans, books, local, history, TypeOK
<1> QED
  BY <1>1, <1>2, <1>3, <1>4, <1>5, <1>6, <1>7, <1>8, <1>9, <1>10, <1>11, <1>12, <1>13
     DEF Next, Step

\* Every reachable state of the PAPER path is well typed: the sleeve never
\* has less than nothing available, and a process works on rows that exist.
THEOREM TypeCorrect == Spec => []TypeOK
BY TypeInit, TypeStep, PTL DEF Spec

-----------------------------------------------------------------------------
(* The books of the sleeve.                                                *)

\* What a plan has booked: nothing before it exists, and one fill releases
\* its reservation for good.
Booked ==
  /\ \A p \in Plans : state[p] = "ABSENT" => reservation[p] = "NONE"
  /\ \A p \in fills : reservation[p] = "RELEASED"

BooksInv == BooksBalance /\ Booked

LEMMA PlansFinite == \A S \in SUBSET Plans : IsFiniteSet(S) /\ Cardinality(S) \in Nat
<1>1. IsFiniteSet(Plans)
  BY BoundAssumption, FS_Interval DEF Plans
<1> QED
  BY <1>1, FS_Subset, FS_CardinalityType

LEMMA BooksInit == Init => BooksInv
<1> SUFFICES ASSUME Init PROVE BooksInv
  OBVIOUS
<1>1. Held = {} /\ fills = {} /\ \A a \in Assets : {p \in fills : asset[p] = a} = {}
  BY DEF Init, Held
<1>2. Cardinality({}) = 0
  BY FS_EmptySet
<1>3. /\ sleeve.available = Equity /\ sleeve.reserved = 0 /\ sleeve.deployed = 0
      /\ \A a \in Assets : position[a] = 0
  BY DEF Init
<1>4. BooksBalance
  BY <1>1, <1>2, <1>3, EquityAssumption DEF BooksBalance
<1> QED
  BY <1>1, <1>4 DEF BooksInv, Booked, Init

\* A step that books nothing.
LEMMA BooksSame ==
  ASSUME BooksInv, UNCHANGED <<asset, reservation, sleeve, position, fills>>,
         \A p \in Plans : state'[p] = "ABSENT" => state[p] = "ABSENT"
  PROVE  BooksInv'
BY DEF BooksInv, BooksBalance, Booked, Held

\* A new plan, with or without a reservation.
LEMMA BooksCreate ==
  ASSUME TypeOK, BooksInv, NEW w \in Processes, Create(w)
  PROVE  BooksInv'
<1>1. CASE UNCHANGED plans /\ UNCHANGED sleeve
  BY <1>1, BooksSame DEF Create, plans
<1>2. ASSUME NEW p \in Plans, InsertPlan(w, p),
             UNCHANGED <<position, fills>>
      PROVE  /\ state[p] = "ABSENT" /\ reservation[p] = "NONE"
             /\ p \notin Held /\ p \notin fills
             /\ \A q \in Plans : state'[q] = "ABSENT" => state[q] = "ABSENT"
             /\ \A a \in Assets : {q \in fills' : asset'[q] = a} = {q \in fills : asset[q] = a}
  <2>1. state[p] = "ABSENT" /\ reservation[p] = "NONE"
    BY <1>2 DEF InsertPlan, IsNew, BooksInv, Booked
  <2>2. p \notin Held /\ p \notin fills
    BY <2>1 DEF Held, BooksInv, Booked
  <2>3. \A q \in fills : asset'[q] = asset[q]
    BY <1>2, <2>2 DEF InsertPlan, TypeOK
  <2>4. \A q \in Plans : state'[q] = "ABSENT" => state[q] = "ABSENT"
    BY <1>2 DEF InsertPlan, TypeOK
  <2> QED
    BY <1>2, <2>1, <2>2, <2>3, <2>4
<1>3. ASSUME NEW p \in Plans, InsertPlan(w, p),
             UNCHANGED <<reservation, sleeve, position, fills>>
      PROVE  BooksInv'
  <2>1. Held' = Held
    BY <1>3 DEF Held
  <2> QED
    BY <1>2, <1>3, <2>1 DEF BooksInv, BooksBalance, Booked
<1>4. ASSUME NEW p \in Plans, InsertPlan(w, p), UNCHANGED <<position, fills>>,
             reservation' = [reservation EXCEPT ![p] = "ACTIVE"],
             sleeve' = [sleeve EXCEPT !.reserved = @ + 1, !.available = @ - 1]
      PROVE  BooksInv'
  <2>1. Held' = Held \cup {p} /\ p \notin Held
    BY <1>2, <1>4 DEF Held, TypeOK
  <2>2. Cardinality(Held') = Cardinality(Held) + 1
    BY <2>1, PlansFinite, FS_AddElement DEF Held
  <2>3. /\ sleeve.available \in Nat /\ sleeve.reserved \in Nat /\ sleeve.deployed \in Nat
        /\ sleeve'.reserved = sleeve.reserved + 1
        /\ sleeve'.available = sleeve.available - 1
        /\ sleeve'.deployed = sleeve.deployed
    BY <1>4, SleeveFields DEF TypeOK, Sleeves
  <2>4. BooksBalance'
    BY <1>2, <1>4, <2>2, <2>3, EquityAssumption DEF BooksInv, BooksBalance
  <2>5. Booked'
    BY <1>2, <1>4 DEF BooksInv, Booked, TypeOK, InsertPlan
  <2> QED
    BY <2>4, <2>5 DEF BooksInv
<1> QED
  BY <1>1, <1>3, <1>4 DEF Create

\* A fill turns what one plan has reserved into what one plan has deployed.
LEMMA BooksDeploy ==
  ASSUME TypeOK, BooksInv, NEW p \in Plans, Fillable(p), Deploy(p)
  PROVE  BooksInv'
<1>1. p \in Held /\ p \notin fills /\ asset[p] \in Assets
  BY DEF Fillable, Held, BooksInv, Booked, TypeOK, Open
<1>2. Held' = Held \ {p} /\ fills' = fills \cup {p}
  BY DEF Deploy, Held, TypeOK
<1>3. /\ Cardinality(Held') = Cardinality(Held) - 1
      /\ Cardinality(fills') = Cardinality(fills) + 1
      /\ Cardinality(Held) \in Nat /\ Cardinality(Held') \in Nat
      /\ Cardinality(fills) \in Nat
  <2>1. Held \in SUBSET Plans /\ fills \in SUBSET Plans /\ Held' \in SUBSET Plans
    BY <1>2 DEF Held, TypeOK
  <2> QED
    BY <1>1, <1>2, <2>1, PlansFinite, FS_AddElement, FS_RemoveElement
<1>4. /\ sleeve.available \in Nat /\ sleeve.reserved \in Nat /\ sleeve.deployed \in Nat
      /\ sleeve'.reserved = Less(sleeve.reserved)
      /\ sleeve'.deployed = sleeve.deployed + 1
      /\ sleeve'.available = sleeve.available
  BY SleeveFields DEF Deploy, TypeOK, Sleeves
<1>5. sleeve'.reserved = sleeve.reserved - 1
  BY <1>3, <1>4 DEF Less, BooksInv, BooksBalance
<1>6. \A a \in Assets : position'[a] = Cardinality({q \in fills' : asset'[q] = a})
  <2> SUFFICES ASSUME NEW a \in Assets
               PROVE  position'[a] = Cardinality({q \in fills' : asset'[q] = a})
    OBVIOUS
  <2> DEFINE Old == {q \in fills : asset[q] = a}
             New == {q \in fills' : asset'[q] = a}
  <2>1. position[a] = Cardinality(Old) /\ Old \in SUBSET Plans
    BY DEF BooksInv, BooksBalance, TypeOK
  <2>2. CASE asset[p] = a
    <3>1. New = Old \cup {p} /\ p \notin Old
      BY <1>1, <1>2, <2>2 DEF Deploy
    <3>2. Cardinality(New) = Cardinality(Old) + 1
      BY <2>1, <3>1, PlansFinite, FS_AddElement
    <3> QED
      BY <2>1, <2>2, <3>2 DEF Deploy, TypeOK
  <2>3. CASE asset[p] # a
    <3>1. New = Old
      BY <1>2, <2>3 DEF Deploy
    <3> QED
      BY <1>1, <2>1, <2>3, <3>1 DEF Deploy, TypeOK
  <2> QED
    BY <2>2, <2>3
<1>7. BooksBalance'
  <2>1. /\ sleeve.available + sleeve.reserved + sleeve.deployed = Equity
        /\ sleeve.reserved = Cardinality(Held) /\ sleeve.deployed = Cardinality(fills)
    BY DEF BooksInv, BooksBalance
  <2>2. sleeve'.available + sleeve'.reserved + sleeve'.deployed = Equity
    BY <1>4, <1>5, <2>1
  <2>3. sleeve'.reserved = Cardinality(Held') /\ sleeve'.deployed = Cardinality(fills')
    BY <1>3, <1>4, <1>5, <2>1
  <2> QED
    BY <1>6, <2>2, <2>3 DEF BooksBalance
<1>8. Booked'
  BY DEF Deploy, BooksInv, Booked, TypeOK, Fillable, Open
<1> QED
  BY <1>7, <1>8 DEF BooksInv

\* A release gives back what one plan has reserved.
LEMMA BooksRelease ==
  ASSUME TypeOK, BooksInv, NEW w \in Processes, Release(w)
  PROVE  BooksInv'
<1> DEFINE p == target[w]
<1>1. p \in Plans
  BY DEF Release, TypeOK
<1>2. CASE reservation[p] # "ACTIVE"
  BY <1>2, BooksSame DEF Release
<1>3. CASE reservation[p] = "ACTIVE"
  <2>1. p \in Held /\ Held' = Held \ {p}
    BY <1>1, <1>3 DEF Release, Held, TypeOK
  <2>2. /\ Cardinality(Held') = Cardinality(Held) - 1
        /\ Cardinality(Held) \in Nat /\ Cardinality(Held') \in Nat
    <3>1. Held \in SUBSET Plans /\ Held' \in SUBSET Plans
      BY <2>1 DEF Held
    <3> QED
      BY <2>1, <3>1, PlansFinite, FS_RemoveElement
  <2>3. /\ sleeve.available \in Nat /\ sleeve.reserved \in Nat /\ sleeve.deployed \in Nat
        /\ sleeve'.reserved = Less(sleeve.reserved)
        /\ sleeve'.available = sleeve.available + 1
        /\ sleeve'.deployed = sleeve.deployed
    BY <1>3, SleeveFields DEF Release, TypeOK, Sleeves
  <2>4. sleeve'.reserved = sleeve.reserved - 1
    BY <2>2, <2>3 DEF Less, BooksInv, BooksBalance
  <2>5. BooksBalance'
    BY <2>2, <2>3, <2>4, EquityAssumption DEF BooksInv, BooksBalance, Release
  <2>6. Booked'
    BY <1>1, <1>3 DEF Release, BooksInv, Booked, TypeOK
  <2> QED
    BY <2>5, <2>6 DEF BooksInv
<1> QED
  BY <1>2, <1>3

\* No step makes a plan row disappear.
LEMMA RowsStay ==
  ASSUME TypeOK, [Next]_vars
  PROVE  \A p \in Plans : state'[p] = "ABSENT" => state[p] = "ABSENT"
<1>1. ASSUME NEW w \in Processes, NEW p \in Plans, InsertPlan(w, p)
      PROVE  \A q \in Plans : state'[q] = "ABSENT" => state[q] = "ABSENT"
  BY <1>1 DEF InsertPlan, TypeOK
<1>2. ASSUME NEW w \in Processes, Create(w)
      PROVE  \A q \in Plans : state'[q] = "ABSENT" => state[q] = "ABSENT"
  BY <1>1, <1>2 DEF Create, plans
<1>3. ASSUME NEW w \in Processes, Cancel(w) \/ Update(w)
      PROVE  \A q \in Plans : state'[q] = "ABSENT" => state[q] = "ABSENT"
  BY <1>3 DEF Cancel, Update, TypeOK
<1>4. ASSUME NEW w \in Processes, NEW p \in Plans, Fill(w, p) \/ Abort(w, p)
      PROVE  \A q \in Plans : state'[q] = "ABSENT" => state[q] = "ABSENT"
  BY <1>4 DEF Fill, Abort, Deploy, TypeOK, plans
<1>5. ASSUME NEW w \in Processes,
             \/ \E kind \in {"planner", "cycle"} : StartPlanning(w, kind)
             \/ \E a \in Assets : Gate(w, a)
             \/ Existing(w) \/ FetchOpen(w) \/ FetchInvalidatable(w) \/ Release(w) \/ Die(w)
      PROVE  state' = state
  BY <1>5 DEF StartPlanning, Gate, Existing, FetchOpen, FetchInvalidatable, Release, Die, plans
<1> QED
  BY <1>2, <1>3, <1>4, <1>5 DEF Next, Step, vars, plans

LEMMA BooksStep == TypeOK /\ BooksInv /\ [Next]_vars => BooksInv'
<1> SUFFICES ASSUME TypeOK, BooksInv, [Next]_vars PROVE BooksInv'
  OBVIOUS
<1>1. ASSUME NEW w \in Processes, NEW p \in Plans, Fill(w, p) PROVE BooksInv'
  <2>1. CASE Fillable(p) /\ Deploy(p)
    BY <2>1, BooksDeploy
  <2>2. CASE UNCHANGED <<plans, books>>
    BY <2>2, BooksSame DEF plans, books
  <2> QED
    BY <1>1, <2>1, <2>2 DEF Fill
<1>2. ASSUME NEW w \in Processes,
             \/ \E kind \in {"planner", "cycle"} : StartPlanning(w, kind)
             \/ \E a \in Assets : Gate(w, a)
             \/ Existing(w) \/ Cancel(w) \/ Update(w)
             \/ FetchOpen(w) \/ FetchInvalidatable(w) \/ Die(w)
             \/ \E p \in Plans : Abort(w, p)
      PROVE  UNCHANGED <<asset, reservation, sleeve, position, fills>>
  BY <1>2 DEF StartPlanning, Gate, Existing, Cancel, Update, FetchOpen, FetchInvalidatable,
              Die, Abort, plans, books
<1>3. CASE UNCHANGED vars
  BY <1>3, BooksSame DEF vars, plans, books
<1> QED
  BY <1>1, <1>2, <1>3, RowsStay, BooksSame, BooksCreate, BooksRelease DEF Next, Step

\* Whatever the equity and however many processes plan, fill, abort and
\* release at once, every unit of it is available, reserved by one plan or
\* deployed by one fill.
THEOREM BooksAlwaysBalance == Spec => []BooksBalance
<1>1. Init => TypeOK /\ BooksInv
  BY TypeInit, BooksInit
<1>2. TypeOK /\ BooksInv /\ [Next]_vars => (TypeOK /\ BooksInv)'
  BY TypeStep, BooksStep
<1>3. BooksInv => BooksBalance
  BY DEF BooksInv
<1> QED
  BY <1>1, <1>2, <1>3, PTL DEF Spec

-----------------------------------------------------------------------------
(* Closed plans and held capital.                                          *)

LEMMA ClosedStep ==
  ASSUME TypeOK, [Next]_vars
  PROVE  \A p \in Plans :
           state[p] \notin Open \cup {"ABSENT"} =>
             /\ state'[p] \notin Open
             /\ state'[p] = "FILLED" => state[p] = "FILLED"
<1> SUFFICES ASSUME NEW p \in Plans, state[p] \notin Open \cup {"ABSENT"}
             PROVE  \/ state'[p] = state[p]
                    \/ state'[p] = "ABORTED"
  BY DEF Open
<1>1. ASSUME NEW w \in Processes, Create(w) PROVE state'[p] = state[p]
  <2>1. ASSUME NEW q \in Plans, InsertPlan(w, q) PROVE state'[p] = state[p]
    BY <2>1 DEF InsertPlan, IsNew, TypeOK
  <2> QED
    BY <1>1, <2>1 DEF Create, plans
<1>2. ASSUME NEW w \in Processes, Cancel(w) \/ Update(w) PROVE state'[p] = state[p]
  BY <1>2 DEF Cancel, Update, TypeOK, Open
<1>3. ASSUME NEW w \in Processes, NEW q \in Plans, Fill(w, q) PROVE state'[p] = state[p]
  BY <1>3 DEF Fill, Fillable, Deploy, TypeOK, plans
<1>4. ASSUME NEW w \in Processes, NEW q \in Plans, Abort(w, q)
      PROVE  state'[p] = state[p] \/ state'[p] = "ABORTED"
  BY <1>4 DEF Abort, TypeOK
<1>5. ASSUME NEW w \in Processes,
             \/ \E kind \in {"planner", "cycle"} : StartPlanning(w, kind)
             \/ \E a \in Assets : Gate(w, a)
             \/ Existing(w) \/ FetchOpen(w) \/ FetchInvalidatable(w) \/ Release(w) \/ Die(w)
      PROVE  state' = state
  BY <1>5 DEF StartPlanning, Gate, Existing, FetchOpen, FetchInvalidatable, Release, Die, plans
<1> QED
  BY <1>1, <1>2, <1>3, <1>4, <1>5 DEF Next, Step, vars, plans

\* No plan is reopened, and none that was given up is filled, by any schedule.
THEOREM ClosedForGood == Spec => ClosedStaysClosed
<1>1. TypeOK /\ [Next]_vars =>
        [\A p \in Plans :
           state[p] \notin Open \cup {"ABSENT"} =>
             /\ state'[p] \notin Open
             /\ state'[p] = "FILLED" => state[p] = "FILLED"]_vars
  BY ClosedStep
<1> QED
  BY <1>1, TypeInit, TypeStep, PTL DEF Spec, ClosedStaysClosed

\* A step of one process leaves the control of the others alone.
LEMMA OthersStand ==
  ASSUME TypeOK, NEW w \in Processes, Step(w)
  PROVE  \A v \in Processes \ {w} :
           pc'[v] = pc[v] /\ cur'[v] = cur[v] /\ target'[v] = target[v] /\ intent'[v] = intent[v]
<1> SUFFICES ASSUME NEW v \in Processes \ {w}
             PROVE  pc'[v] = pc[v] /\ cur'[v] = cur[v] /\ target'[v] = target[v] /\ intent'[v] = intent[v]
  OBVIOUS
<1>1. CASE Continue(w)
  BY <1>1, ControlType
<1>2. CASE \E p \in Plans \cup {0}, step \in Steps : GoTo(w, step, p)
  BY <1>2 DEF GoTo, TypeOK
<1>3. ASSUME NEW a \in Assets, Gate(w, a), ~Continue(w)
      PROVE  /\ \E step \in {"create", "existing"} : pc' = [pc EXCEPT ![w] = step]
             /\ cur' = [cur EXCEPT ![w] = a]
             /\ \E i \in Decisions(w, a) : intent' = [intent EXCEPT ![w] = i]
             /\ target' = target
  BY <1>3 DEF Gate, Continue
<1>4. CASE \E a \in Assets : Gate(w, a) /\ ~Continue(w)
  BY <1>3, <1>4 DEF TypeOK
<1>5. CASE \/ \E kind \in {"planner", "cycle"} : StartPlanning(w, kind)
           \/ FetchInvalidatable(w)
           \/ FetchOpen(w) /\ ~Continue(w)
  BY <1>5 DEF StartPlanning, FetchOpen, FetchInvalidatable, Continue, local, TypeOK
<1>6. ASSUME Existing(w)
      PROVE  \/ Continue(w)
             \/ \E p \in Plans \cup {0}, step \in Steps : GoTo(w, step, p)
  BY <1>6 DEF Existing, OpenPlans, Continue, Steps, Planning, TypeOK
<1>7. ASSUME NEW p \in Plans, Abort(w, p)
      PROVE  \E q \in Plans \cup {0}, step \in Steps : GoTo(w, step, q)
  BY <1>7 DEF Abort, Steps, Planning
<1>8. ASSUME \/ Cancel(w) \/ Update(w) \/ Create(w) \/ Release(w) \/ Die(w)
             \/ \E p \in Plans : Fill(w, p)
      PROVE  Continue(w)
  BY <1>8 DEF Cancel, Update, Create, Release, Die, Fill, Continue, TypeOK, Planning
<1> QED
  BY <1>1, <1>2, <1>4, <1>5, <1>6, <1>7, <1>8 DEF Step

LEMMA HeldStep == TypeOK /\ HeldBackOnlyBy /\ [Next]_vars => HeldBackOnlyBy'
<1> SUFFICES ASSUME TypeOK, HeldBackOnlyBy, [Next]_vars PROVE HeldBackOnlyBy'
  OBVIOUS
<1>1. CASE UNCHANGED vars
  BY <1>1 DEF vars, plans, history, HeldBackOnlyBy, Held
<1>2. ASSUME NEW w \in Processes, Step(w), NEW p \in Plans, p \in Held, p \in Held',
             orphaned \subseteq orphaned', state'[p] = state[p],
             pc[w] # "release" \/ target[w] # p
      PROVE  \/ state'[p] \in Open \cup {"CANCELLED"}
             \/ p \in orphaned'
             \/ \E v \in Processes : pc'[v] = "release" /\ target'[v] = p
  BY <1>2, OthersStand DEF HeldBackOnlyBy
<1>3. ASSUME NEW w \in Processes, NEW q \in Plans, Abort(w, q) PROVE HeldBackOnlyBy'
  <2>1. Held' = Held /\ orphaned' = orphaned /\ pc[w] = "abort" /\ Step(w)
    BY <1>3 DEF Abort, Held, history, Step
  <2>2. pc'[w] = "release" /\ target'[w] = q
    BY <1>3 DEF Abort, GoTo, TypeOK
  <2>3. \A p \in Plans : p # q => state'[p] = state[p]
    BY <1>3 DEF Abort, TypeOK
  <2> QED
    BY <1>2, <2>1, <2>2, <2>3 DEF HeldBackOnlyBy, Held
<1>4. ASSUME NEW w \in Processes, Release(w) PROVE HeldBackOnlyBy'
  <2>1. Step(w) /\ state' = state /\ orphaned' = orphaned /\ target[w] \in Plans
    BY <1>4 DEF Release, history, Step, TypeOK
  <2>2. Held' \subseteq Held /\ target[w] \notin Held'
    BY <1>4, <2>1 DEF Release, Held, TypeOK
  <2> QED
    BY <1>2, <2>1, <2>2 DEF HeldBackOnlyBy, Held
<1>5. ASSUME NEW w \in Processes, Die(w) PROVE HeldBackOnlyBy'
  <2>1. /\ Step(w) /\ state' = state /\ Held' = Held /\ orphaned \subseteq orphaned'
        /\ pc[w] = "release" => target[w] \in orphaned'
    BY <1>5 DEF Die, plans, Held, Step
  <2> QED
    BY <1>2, <2>1 DEF HeldBackOnlyBy, Held
<1>6. ASSUME NEW w \in Processes, Create(w) PROVE HeldBackOnlyBy'
  <2>1. Step(w) /\ orphaned' = orphaned /\ pc[w] = "create"
    BY <1>6 DEF Create, history, Step
  <2>2. ASSUME NEW q \in Plans, InsertPlan(w, q),
               \/ reservation' = reservation
               \/ reservation' = [reservation EXCEPT ![q] = "ACTIVE"]
        PROVE  /\ state'[q] \in Open
               /\ \A p \in Plans : p # q => state'[p] = state[p] /\ (p \in Held' => p \in Held)
    BY <2>2 DEF InsertPlan, TypeOK, Held, Open
  <2>3. CASE UNCHANGED plans
    BY <1>2, <2>1, <2>3 DEF HeldBackOnlyBy, Held, plans
  <2>4. CASE \E q \in Plans : /\ InsertPlan(w, q)
                              /\ \/ reservation' = reservation
                                 \/ reservation' = [reservation EXCEPT ![q] = "ACTIVE"]
    BY <1>2, <2>1, <2>2, <2>4 DEF HeldBackOnlyBy, Held
  <2> QED
    BY <1>6, <2>3, <2>4 DEF Create
<1>7. ASSUME NEW w \in Processes, NEW q \in Plans, Fill(w, q) PROVE HeldBackOnlyBy'
  <2>1. Step(w) /\ orphaned' = orphaned /\ pc[w] = "fill"
    BY <1>7 DEF Fill, history, Step
  <2>2. CASE UNCHANGED plans
    BY <1>2, <2>1, <2>2 DEF HeldBackOnlyBy, Held, plans
  <2>3. CASE Deploy(q)
    <3>1. /\ Held' \subseteq Held \ {q}
          /\ \A p \in Plans : p # q => state'[p] = state[p]
      BY <2>3 DEF Deploy, Held, TypeOK
    <3> QED
      BY <1>2, <2>1, <3>1 DEF HeldBackOnlyBy, Held
  <2> QED
    BY <1>7, <2>2, <2>3 DEF Fill
<1>8. ASSUME NEW w \in Processes, Cancel(w) PROVE HeldBackOnlyBy'
  <2>1. Step(w) /\ orphaned' = orphaned /\ Held' = Held /\ pc[w] = "cancel"
    BY <1>8 DEF Cancel, Held, history, Step
  <2>2. \A p \in Plans : state'[p] = state[p] \/ state'[p] = "CANCELLED"
    BY <1>8 DEF Cancel, TypeOK
  <2> QED
    BY <1>2, <2>1, <2>2 DEF HeldBackOnlyBy, Held
<1>9. ASSUME NEW w \in Processes,
             \/ \E kind \in {"planner", "cycle"} : StartPlanning(w, kind)
             \/ \E a \in Assets : Gate(w, a)
             \/ Existing(w) \/ Update(w) \/ FetchOpen(w) \/ FetchInvalidatable(w)
      PROVE  HeldBackOnlyBy'
  <2>1. /\ Step(w) /\ state' = state /\ reservation' = reservation /\ orphaned' = orphaned
        /\ pc[w] # "release"
    BY <1>9 DEF StartPlanning, Gate, Existing, Update, FetchOpen, FetchInvalidatable,
                plans, history, Step
  <2> QED
    BY <1>2, <2>1 DEF HeldBackOnlyBy, Held
<1> QED
  BY <1>1, <1>3, <1>4, <1>5, <1>6, <1>7, <1>8, <1>9 DEF Next, Step

\* Capital that no open plan holds is that of a cancelled preplan, or is on
\* its way back, or has lost the process that would have given it back.
THEOREM CapitalHeldBack == Spec => []HeldBackOnlyBy
<1>1. Init => HeldBackOnlyBy
  BY DEF Init, HeldBackOnlyBy, Held
<1> QED
  BY <1>1, TypeInit, TypeStep, HeldStep, PTL DEF Spec

-----------------------------------------------------------------------------
(* One planner at a row.                                                   *)

\* The gate would let the asset pass.
Clear(a) == OpenPlans(a) = {} /\ position[a] = 0

PlansAlone(a) ==
  /\ \A p, q \in OpenPlans(a) : p = q
  /\ OpenPlans(a) # {} => position[a] = 0
  /\ \A p \in OpenPlans(a) : action[p] = "SPREAD_CAPTURE_PASSIVE" => p \in Held

\* What a process that is alone at a row may rely on between its calls.  It
\* never finds a plan to promote: the gate has denied the row because of it.
PlannerAlone(a) ==
  /\ \A v, w \in Processes : cur[v] = a /\ cur[w] = a => v = w
  /\ \A w \in Processes : cur[w] = a =>
       /\ pc[w] \in {"existing", "create"} /\ intent[w] # "NONE" => Clear(a)
       /\ pc[w] = "create" => intent[w] # "NONE"
       /\ pc[w] # "update"

\* A reservation is released after its plan was closed.
ReleaseClosed ==
  \A w \in Processes : pc[w] = "release" => state[target[w]] \notin Open

\* The plan that is promoted is one of the asset of the row.
TargetInRow ==
  \A w \in Processes : pc[w] = "update" => asset[target[w]] = cur[w]

AloneInv ==
  /\ ReleaseClosed /\ TargetInRow
  /\ \A a \in Assets \ raced : PlansAlone(a) /\ PlannerAlone(a)

\* What every step but a creation and a promotion at its row does to the open
\* plans of an asset.
Shrinks(a) ==
  /\ \A p \in OpenPlans(a)' :
       p \in OpenPlans(a) /\ action'[p] = action[p] /\ (p \in Held => p \in Held')
  /\ position'[a] # position[a] => \E p \in OpenPlans(a) : state'[p] \notin Open

LEMMA ShrinksKeeps ==
  ASSUME TypeOK, NEW a \in Assets, Shrinks(a)
  PROVE  /\ PlansAlone(a) => PlansAlone(a)'
         /\ Clear(a) => Clear(a)'
<1>1. OpenPlans(a)' \subseteq OpenPlans(a)
  BY DEF Shrinks
<1>2. Clear(a) => Clear(a)'
  BY <1>1 DEF Shrinks, Clear
<1>3. ASSUME PlansAlone(a), NEW p \in OpenPlans(a)' PROVE position'[a] = 0
  <2>1. p \in OpenPlans(a) /\ position[a] = 0 /\ state'[p] \in Open
    BY <1>1, <1>3 DEF PlansAlone, OpenPlans
  <2>2. \A q \in OpenPlans(a) : q = p
    BY <1>3, <2>1 DEF PlansAlone
  <2> QED
    BY <2>1, <2>2 DEF Shrinks
<1>4. ASSUME PlansAlone(a) PROVE \A p, q \in OpenPlans(a)' : p = q
  BY <1>1, <1>4 DEF PlansAlone
<1>5. ASSUME PlansAlone(a), NEW p \in OpenPlans(a)', action'[p] = "SPREAD_CAPTURE_PASSIVE"
      PROVE  p \in Held'
  BY <1>5 DEF PlansAlone, Shrinks
<1> QED
  BY <1>2, <1>3, <1>4, <1>5 DEF PlansAlone

LEMMA StepShrinks ==
  ASSUME TypeOK, ReleaseClosed, TargetInRow, NEW w \in Processes, Step(w), NEW a \in Assets,
         cur[w] = a => ~Create(w) /\ ~Update(w)
  PROVE  Shrinks(a)
<1>1. ASSUME \/ \E kind \in {"planner", "cycle"} : StartPlanning(w, kind)
             \/ \E b \in Assets : Gate(w, b)
             \/ Existing(w) \/ FetchOpen(w) \/ FetchInvalidatable(w) \/ Die(w)
      PROVE  Shrinks(a)
  <2>1. UNCHANGED <<plans, books>>
    BY <1>1 DEF StartPlanning, Gate, Existing, FetchOpen, FetchInvalidatable, Die
  <2> QED
    BY <2>1 DEF plans, books, Shrinks, OpenPlans, Held
<1>2. ASSUME Cancel(w) PROVE Shrinks(a)
  BY <1>2 DEF Cancel, books, Shrinks, OpenPlans, Held, TypeOK, Open
<1>3. ASSUME NEW p \in Plans, Abort(w, p) PROVE Shrinks(a)
  BY <1>3 DEF Abort, books, Shrinks, OpenPlans, Held, TypeOK, Open
<1>4. ASSUME Release(w) PROVE Shrinks(a)
  <2>1. /\ state' = state /\ position' = position /\ asset' = asset /\ action' = action
        /\ target[w] \in Plans /\ state[target[w]] \notin Open
    BY <1>4 DEF Release, TypeOK, ReleaseClosed
  <2>2. \A p \in Plans : p # target[w] => reservation'[p] = reservation[p]
    BY <1>4 DEF Release, TypeOK
  <2> QED
    BY <2>1, <2>2 DEF Shrinks, OpenPlans, Held
<1>5. ASSUME NEW p \in Plans, Fill(w, p) PROVE Shrinks(a)
  <2>1. CASE UNCHANGED <<plans, books>>
    BY <2>1 DEF plans, books, Shrinks, OpenPlans, Held
  <2>2. CASE Fillable(p) /\ Deploy(p)
    <3>1. /\ asset' = asset /\ action' = action
          /\ state[p] \in Open /\ state'[p] = "FILLED" /\ asset[p] \in Assets
          /\ \A q \in Plans : q # p => state'[q] = state[q] /\ reservation'[q] = reservation[q]
          /\ position'[a] # position[a] => a = asset[p]
      BY <2>2 DEF Fillable, Deploy, TypeOK, Open
    <3> QED
      BY <3>1 DEF Shrinks, Held, OpenPlans, Open
  <2> QED
    BY <1>5, <2>1, <2>2 DEF Fill
<1>6. ASSUME Create(w), cur[w] # a PROVE Shrinks(a)
  <2>1. position' = position
    BY <1>6 DEF Create
  <2>2. CASE UNCHANGED plans
    BY <2>1, <2>2 DEF plans, Shrinks, OpenPlans, Held
  <2>3. ASSUME NEW p \in Plans, InsertPlan(w, p),
               \/ reservation' = [reservation EXCEPT ![p] = "ACTIVE"]
               \/ reservation' = reservation
        PROVE  Shrinks(a)
    <3>1. /\ asset'[p] = cur[w]
          /\ \A q \in Plans : q # p =>
               state'[q] = state[q] /\ asset'[q] = asset[q] /\ action'[q] = action[q]
      BY <2>3 DEF InsertPlan, TypeOK
    <3>2. \A q \in Held : q \in Held'
      BY <2>3 DEF Held, TypeOK
    <3> QED
      BY <1>6, <2>1, <3>1, <3>2 DEF Shrinks, OpenPlans
  <2> QED
    BY <1>6, <2>2, <2>3 DEF Create
<1>7. ASSUME Update(w), cur[w] # a PROVE Shrinks(a)
  <2>1. /\ state' = state /\ asset' = asset /\ reservation' = reservation /\ position' = position
        /\ asset[target[w]] = cur[w]
        /\ \A p \in Plans : p # target[w] => action'[p] = action[p]
    BY <1>7 DEF Update, TargetInRow, books, TypeOK
  <2> QED
    BY <1>7, <2>1 DEF Shrinks, OpenPlans, Held
<1> QED
  BY <1>1, <1>2, <1>3, <1>4, <1>5, <1>6, <1>7 DEF Step

LEMMA ReleaseClosedStep == TypeOK /\ ReleaseClosed /\ [Next]_vars => ReleaseClosed'
<1> SUFFICES ASSUME TypeOK, ReleaseClosed, [Next]_vars PROVE ReleaseClosed'
  OBVIOUS
<1>1. \A p \in Plans : state[p] \notin Open \cup {"ABSENT"} => state'[p] \notin Open
  BY ClosedStep
<1>2. CASE UNCHANGED vars
  BY <1>2 DEF vars, plans, ReleaseClosed
<1>3. ASSUME NEW w \in Processes, Step(w), pc'[w] # "release" PROVE ReleaseClosed'
  BY <1>1, <1>3, OthersStand DEF ReleaseClosed, TypeOK
<1>4. ASSUME NEW w \in Processes, NEW q \in Plans, Abort(w, q) PROVE ReleaseClosed'
  <2>1. Step(w) /\ target'[w] = q /\ state'[q] = "ABORTED"
    BY <1>4 DEF Abort, GoTo, Step, TypeOK
  <2> QED
    BY <1>1, <2>1, OthersStand DEF ReleaseClosed, TypeOK, Open
<1>5. ASSUME NEW w \in Processes,
             \/ \E kind \in {"planner", "cycle"} : StartPlanning(w, kind)
             \/ FetchInvalidatable(w)
             \/ FetchOpen(w) /\ ~Continue(w)
      PROVE  pc'[w] # "release"
  BY <1>5 DEF StartPlanning, FetchInvalidatable, FetchOpen, Continue, TypeOK
<1>6. ASSUME NEW w \in Processes, Continue(w) PROVE pc'[w] # "release"
  BY <1>6, ControlType
<1>7. ASSUME NEW w \in Processes, NEW a \in Assets, Gate(w, a), ~Continue(w)
      PROVE  pc'[w] # "release"
  BY <1>7 DEF Gate, Continue, TypeOK
<1>8. ASSUME NEW w \in Processes, Existing(w), ~Continue(w) PROVE pc'[w] # "release"
  BY <1>8 DEF Existing, Continue, GoTo, TypeOK, Planning
<1>9. ASSUME NEW w \in Processes,
             \/ Cancel(w) \/ Update(w) \/ Create(w) \/ Release(w) \/ Die(w)
             \/ \E p \in Plans : Fill(w, p)
      PROVE  Continue(w)
  BY <1>9 DEF Cancel, Update, Create, Release, Die, Fill, Continue, TypeOK, Planning
<1>10. ASSUME NEW w \in Processes, Step(w), ~(\E q \in Plans : Abort(w, q))
       PROVE  ReleaseClosed'
  BY <1>3, <1>5, <1>6, <1>7, <1>8, <1>9, <1>10 DEF Step
<1> QED
  BY <1>2, <1>4, <1>10 DEF Next

\* A plan keeps its asset.
LEMMA AssetsStay ==
  ASSUME TypeOK, NEW w \in Processes, Step(w)
  PROVE  \A p \in Plans : state[p] # "ABSENT" => asset'[p] = asset[p]
<1>1. ASSUME Create(w)
      PROVE  \A p \in Plans : state[p] # "ABSENT" => asset'[p] = asset[p]
  <2>1. UNCHANGED plans \/ \E q \in Plans : InsertPlan(w, q)
    BY <1>1 DEF Create, plans
  <2> QED
    BY <2>1 DEF InsertPlan, IsNew, TypeOK, plans
<1>2. ASSUME ~Create(w) PROVE asset' = asset
  BY <1>2 DEF Step, StartPlanning, Gate, Existing, Cancel, Update, FetchOpen,
              FetchInvalidatable, Fill, Deploy, Abort, Release, Die, plans
<1> QED
  BY <1>1, <1>2

\* Only the second look leads to a promotion.
LEMMA UpdateComes ==
  ASSUME TypeOK, NEW w \in Processes, Step(w), pc'[w] = "update"
  PROVE  Existing(w) /\ ~Continue(w)
<1>1. ~Continue(w)
  BY ControlType
<1>2. ~ \/ Cancel(w) \/ Update(w) \/ Create(w) \/ Release(w) \/ Die(w)
        \/ \E p \in Plans : Fill(w, p)
  BY <1>1 DEF Cancel, Update, Create, Release, Die, Fill, Continue, TypeOK, Planning
<1>3. ~ \/ \E kind \in {"planner", "cycle"} : StartPlanning(w, kind)
        \/ FetchInvalidatable(w) \/ FetchOpen(w)
        \/ \E p \in Plans : Abort(w, p)
  BY <1>1 DEF StartPlanning, FetchInvalidatable, FetchOpen, Abort, GoTo, Continue, TypeOK
<1>4. ~ \E a \in Assets : Gate(w, a)
  BY <1>1 DEF Gate, Continue, TypeOK
<1> QED
  BY <1>1, <1>2, <1>3, <1>4 DEF Step

\* Where the row of a process comes from.
LEMMA AtRow ==
  ASSUME TypeOK, NEW w \in Processes, Step(w), NEW a \in Assets, cur'[w] = a
  PROVE  \/ Gate(w, a) /\ ~Continue(w)
         \/ cur[w] = a /\ Existing(w) /\ ~Continue(w)
         \/ cur[w] = a /\ pc'[w] \notin {"existing", "create", "update"}
<1>1. CASE Continue(w)
  <2>1. pc'[w] \notin {"existing", "create", "update"}
    BY <1>1, ControlType
  <2>2. cur'[w] \in {NoAsset, cur[w]}
    BY <1>1 DEF Continue, Return, NextRow, NextPlan, TypeOK
  <2> QED
    BY <2>1, <2>2, AssetsAssumption
<1>2. ASSUME NEW b \in Assets, Gate(w, b), ~Continue(w) PROVE b = a
  BY <1>2 DEF Gate, Continue, TypeOK
<1>3. CASE Existing(w) /\ ~Continue(w)
  <2>1. cur[w] \in Assets
    BY <1>3 DEF Existing, TypeOK, Planning
  <2>2. cur' = cur
    BY <1>3, <2>1 DEF Existing, Continue, GoTo
  <2> QED
    BY <1>3, <2>2
<1>4. CASE /\ ~Continue(w)
           /\ \/ \E kind \in {"planner", "cycle"} : StartPlanning(w, kind)
              \/ FetchInvalidatable(w) \/ FetchOpen(w)
              \/ \E p \in Plans : Abort(w, p)
  BY <1>4 DEF StartPlanning, FetchOpen, FetchInvalidatable, Abort, GoTo, Continue, local, TypeOK
<1>5. ASSUME \/ Cancel(w) \/ Update(w) \/ Create(w) \/ Release(w) \/ Die(w)
             \/ \E p \in Plans : Fill(w, p)
      PROVE  Continue(w)
  BY <1>5 DEF Cancel, Update, Create, Release, Die, Fill, Continue, TypeOK, Planning
<1> QED
  BY <1>1, <1>2, <1>3, <1>4, <1>5 DEF Step

LEMMA TargetInRowStep == TypeOK /\ TargetInRow /\ [Next]_vars => TargetInRow'
<1> SUFFICES ASSUME TypeOK, TargetInRow, [Next]_vars PROVE TargetInRow'
  OBVIOUS
<1>1. CASE UNCHANGED vars
  BY <1>1 DEF vars, plans, local, TargetInRow
<1>2. ASSUME NEW w \in Processes, Step(w) PROVE TargetInRow'
  <2>1. \A p \in Plans : state[p] # "ABSENT" => asset'[p] = asset[p]
    BY <1>2, AssetsStay
  <2>2. ASSUME pc'[w] = "update" PROVE asset'[target'[w]] = cur'[w]
    <3>1. Existing(w) /\ ~Continue(w)
      BY <1>2, <2>2, UpdateComes
    <3>2. cur[w] \in Assets /\ pc[w] = "existing" /\ asset' = asset
      BY <3>1 DEF Existing, TypeOK, Planning, plans
    <3>3. PICK p \in OpenPlans(cur[w]) : GoTo(w, "update", p)
      BY <2>2, <3>1, <3>2 DEF Existing, Continue, GoTo, TypeOK
    <3> QED
      BY <3>2, <3>3 DEF GoTo, OpenPlans, TypeOK
  <2>3. ASSUME NEW v \in Processes \ {w}, pc'[v] = "update" PROVE asset'[target'[v]] = cur'[v]
    BY <1>2, <2>1, <2>3, OthersStand DEF TargetInRow, TypeOK
  <2> QED
    BY <2>2, <2>3 DEF TargetInRow
<1> QED
  BY <1>1, <1>2 DEF Next

\* A process that is alone at a row creates a plan only if the gate let the
\* asset pass.
LEMMA CreateAlone ==
  ASSUME TypeOK, NEW w \in Processes, Create(w), NEW c \in Assets, cur[w] = c,
         PlansAlone(c), PlannerAlone(c)
  PROVE  PlansAlone(c)'
<1>1. Clear(c) /\ pc[w] = "create"
  BY DEF Create, PlannerAlone
<1>2. CASE UNCHANGED <<plans, sleeve>>
  BY <1>2 DEF Create, plans, PlansAlone, OpenPlans, Held
<1>3. ASSUME NEW p \in Plans, InsertPlan(w, p),
             position' = position,
             \/ reservation' = [reservation EXCEPT ![p] = "ACTIVE"]
             \/ reservation' = reservation /\ intent[w] # "EXECUTE"
      PROVE  PlansAlone(c)'
  <2>1. \A q \in Plans : q # p => state'[q] = state[q] /\ asset'[q] = asset[q]
    BY <1>3 DEF InsertPlan, TypeOK
  <2>2. action'[p] = "SPREAD_CAPTURE_PASSIVE" => p \in Held'
    BY <1>3 DEF InsertPlan, TypeOK, Held
  <2>3. OpenPlans(c)' \subseteq {p}
    BY <1>1, <2>1 DEF OpenPlans, Clear
  <2> QED
    BY <1>1, <1>3, <2>2, <2>3 DEF PlansAlone, Clear
<1> QED
  BY <1>2, <1>3 DEF Create

LEMMA PlannerStep ==
  ASSUME TypeOK, ReleaseClosed, TargetInRow, NEW w \in Processes, Step(w),
         NEW a \in Assets \ raced', PlannerAlone(a)
  PROVE  PlannerAlone(a)'
<1>1. ASSUME NEW v \in Processes, cur[v] = a, v # w PROVE cur[w] # a
  BY <1>1 DEF PlannerAlone
<1>2. cur[w] # a /\ Clear(a) => Clear(a)'
  BY StepShrinks, ShrinksKeeps
<1>3. ASSUME Gate(w, a) PROVE \A v \in Processes : cur[v] # a
  BY <1>3 DEF Gate
<1>4. \A v, u \in Processes : cur'[v] = a /\ cur'[u] = a => v = u
  BY <1>3, AtRow, OthersStand DEF PlannerAlone
<1>5. ASSUME NEW v \in Processes \ {w}, cur'[v] = a
      PROVE  /\ pc'[v] \in {"existing", "create"} /\ intent'[v] # "NONE" => Clear(a)'
             /\ pc'[v] = "create" => intent'[v] # "NONE"
             /\ pc'[v] # "update"
  <2>1. cur[v] = a /\ pc'[v] = pc[v] /\ intent'[v] = intent[v]
    BY <1>5, OthersStand
  <2> QED
    BY <1>1, <1>2, <2>1 DEF PlannerAlone
<1>6. ASSUME cur'[w] = a
      PROVE  /\ pc'[w] \in {"existing", "create"} /\ intent'[w] # "NONE" => Clear(a)'
             /\ pc'[w] = "create" => intent'[w] # "NONE"
             /\ pc'[w] # "update"
  <2>1. CASE Gate(w, a) /\ ~Continue(w)
    <3>1. PICK i \in Decisions(w, a) :
            /\ program[w] = "cycle" => i \in {"PREPARE", "EXECUTE"}
            /\ pc' = [pc EXCEPT ![w] = IF program[w] = "cycle" THEN "create" ELSE "existing"]
            /\ intent' = [intent EXCEPT ![w] = i]
      BY <2>1 DEF Gate, Continue
    <3>2. i # "NONE" => Clear(a)
      BY <3>1 DEF Decisions, Passes, Clear
    <3>3. /\ intent'[w] = i
          /\ pc'[w] \in {"create", "existing"} /\ (pc'[w] = "create" => i # "NONE")
      BY <3>1 DEF TypeOK
    <3>4. Clear(a) => Clear(a)'
      BY <2>1 DEF Gate, plans, books, Clear, OpenPlans
    <3> QED
      BY <3>2, <3>3, <3>4
  <2>2. CASE cur[w] = a /\ Existing(w) /\ ~Continue(w)
    <3>1. pc[w] = "existing" /\ (Clear(a) => Clear(a)')
      BY <2>2 DEF Existing, plans, books, Clear, OpenPlans
    <3>2. CASE OpenPlans(a) # {}
      <4>1. intent[w] = "NONE"
        BY <2>2, <3>1, <3>2 DEF PlannerAlone, Clear
      <4>2. pc'[w] = "cancel"
        BY <2>2, <3>1, <3>2, <4>1 DEF Existing, Continue, GoTo, TypeOK
      <4> QED
        BY <4>2
    <3>3. CASE OpenPlans(a) = {}
      <4>1. pc'[w] = "create" /\ intent[w] # "NONE" /\ intent'[w] = intent[w]
        BY <2>2, <3>1, <3>3 DEF Existing, Continue, GoTo, TypeOK
      <4> QED
        BY <2>2, <3>1, <4>1 DEF PlannerAlone
    <3> QED
      BY <3>2, <3>3
  <2>3. CASE pc'[w] \notin {"existing", "create", "update"}
    BY <2>3
  <2> QED
    BY <1>6, <2>1, <2>2, <2>3, AtRow
<1> QED
  BY <1>4, <1>5, <1>6 DEF PlannerAlone, Clear, OpenPlans

LEMMA AloneStep == TypeOK /\ AloneInv /\ [Next]_vars => AloneInv'
<1> SUFFICES ASSUME TypeOK, AloneInv, [Next]_vars PROVE AloneInv'
  OBVIOUS
<1>1. ReleaseClosed' /\ TargetInRow'
  BY ReleaseClosedStep, TargetInRowStep DEF AloneInv
<1>2. CASE UNCHANGED vars
  BY <1>1, <1>2 DEF vars, plans, books, local, history, AloneInv, PlansAlone, PlannerAlone,
                    OpenPlans, Clear, Held
<1>3. ASSUME NEW w \in Processes, Step(w), NEW a \in Assets \ raced'
      PROVE  PlansAlone(a)' /\ PlannerAlone(a)'
  <2>1. a \notin raced
    BY <1>3 DEF Step, StartPlanning, Gate, Existing, Cancel, Update, Create, FetchOpen,
                FetchInvalidatable, Fill, Abort, Release, Die, history
  <2>2. PlansAlone(a) /\ PlannerAlone(a) /\ ReleaseClosed /\ TargetInRow
    BY <2>1 DEF AloneInv
  <2>3. PlannerAlone(a)'
    BY <1>3, <2>2, PlannerStep
  <2>4. CASE Create(w) /\ cur[w] = a
    BY <2>2, <2>3, <2>4, CreateAlone
  <2>5. CASE ~(Create(w) /\ cur[w] = a)
    <3>1. ~(Update(w) /\ cur[w] = a)
      BY <2>2 DEF PlannerAlone, Update
    <3>2. Shrinks(a)
      BY <1>3, <2>2, <2>5, <3>1, StepShrinks
    <3> QED
      BY <2>2, <2>3, <3>2, ShrinksKeeps
  <2> QED
    BY <2>3, <2>4, <2>5
<1> QED
  BY <1>1, <1>2, <1>3 DEF Next, AloneInv

LEMMA AloneInit == Init => AloneInv
BY AssetsAssumption DEF Init, AloneInv, ReleaseClosed, TargetInRow, PlansAlone, PlannerAlone,
                        OpenPlans, Open

LEMMA AloneAlways == Spec => []AloneInv
BY AloneInit, AloneStep, TypeInit, TypeStep, PTL DEF Spec

\* The duplicate prevention of the gate fails for an asset only when two
\* processes were at its row at once, however many planners, executors and
\* lifecycles are at work.
THEOREM DuplicatesRaced == Spec => []DuplicateOnlyRaced
<1>1. AloneInv => DuplicateOnlyRaced
  BY DEF AloneInv, DuplicateOnlyRaced, PlansAlone
<1> QED
  BY <1>1, AloneAlways, PTL

\* What the executor will fetch has its capital, unless two processes were at
\* the row of its asset at once.
THEOREM UnreservedRaced == Spec => []UnreservedOnlyRaced
<1>1. TypeOK /\ AloneInv => UnreservedOnlyRaced
  BY DEF TypeOK, Open, AloneInv, UnreservedOnlyRaced, PlansAlone, OpenPlans
<1> QED
  BY <1>1, AloneAlways, TypeCorrect, PTL

-----------------------------------------------------------------------------
(* The abstract capital.                                                   *)

\* The abstract variables.
lifeBar == [p \in Plans |-> Life(p)]
moneyBar == [p \in Plans |-> Money(p)]

\* What is about to be released belongs to a plan that was withdrawn.
Releasing ==
  \A w \in Processes : pc[w] = "release" => state[target[w]] \in {"ABORTED", "CANCELLED"}

LEMMA OnlyAbortReleases ==
  ASSUME TypeOK, NEW w \in Processes, Step(w), pc'[w] = "release"
  PROVE  \E p \in Plans : Abort(w, p)
<1>1. ~Continue(w)
  BY ControlType
<1>2. ASSUME NEW kind \in {"planner", "cycle"}, StartPlanning(w, kind) PROVE FALSE
  BY <1>2 DEF StartPlanning, TypeOK
<1>3. ASSUME NEW a \in Assets, Gate(w, a) PROVE FALSE
  <2>1. ~NextRow(w, a)
    BY <1>1 DEF Continue
  <2> QED
    BY <1>3, <2>1 DEF Gate, TypeOK
<1>4. ~Existing(w)
  <2>1. ASSUME Existing(w) PROVE FALSE
    <3>1. cur[w] \in Assets
      BY <2>1 DEF Existing, TypeOK, Planning
    <3>2. ~NextRow(w, cur[w])
      BY <1>1, <3>1 DEF Continue
    <3>3. \E p \in Plans \cup {0}, step \in {"cancel", "update", "create"} : GoTo(w, step, p)
      BY <2>1, <3>2 DEF Existing, OpenPlans
    <3> QED
      BY <3>3 DEF GoTo, TypeOK
  <2> QED
    BY <2>1
<1>5. ~(FetchOpen(w) \/ FetchInvalidatable(w))
  BY <1>1 DEF FetchOpen, FetchInvalidatable, Continue, TypeOK
<1>6. ASSUME \/ Cancel(w) \/ Update(w) \/ Create(w) \/ Release(w) \/ Die(w)
             \/ \E p \in Plans : Fill(w, p)
      PROVE  Continue(w)
  BY <1>6 DEF Cancel, Update, Create, Release, Die, Fill, Continue, TypeOK, Planning
<1> QED
  BY <1>1, <1>2, <1>3, <1>4, <1>5, <1>6 DEF Step

LEMMA ReleasingStep ==
  ASSUME TypeOK, Releasing, [Next]_vars
  PROVE  Releasing'
<1>1. ASSUME NEW p \in Plans, state[p] \in {"ABORTED", "CANCELLED"}
      PROVE  state'[p] \in {"ABORTED", "CANCELLED"}
  <2>1. state'[p] \in PlanStates
    BY TypeStep DEF TypeOK
  <2> QED
    BY <1>1, <2>1, ClosedStep, RowsStay DEF PlanStates, Open
<1>2. ASSUME NEW v \in Processes, pc'[v] = "release", pc'[v] = pc[v], target'[v] = target[v]
      PROVE  state'[target'[v]] \in {"ABORTED", "CANCELLED"}
  BY <1>1, <1>2 DEF Releasing, TypeOK
<1>3. CASE UNCHANGED vars
  BY <1>2, <1>3 DEF Releasing, vars
<1>4. ASSUME NEW w \in Processes, Step(w) PROVE Releasing'
  <2>1. ASSUME pc'[w] = "release"
        PROVE  state'[target'[w]] \in {"ABORTED", "CANCELLED"}
    <3>1. PICK p \in Plans : Abort(w, p)
      BY <1>4, <2>1, OnlyAbortReleases
    <3> QED
      BY <3>1 DEF Abort, GoTo, TypeOK
  <2> QED
    BY <1>2, <1>4, <2>1, OthersStand DEF Releasing
<1> QED
  BY <1>3, <1>4 DEF Next

\* The abstract values that the columns of a plan stand for.
LEMMA Lives ==
  ASSUME NEW p \in Plans
  PROVE  /\ state[p] = "ABSENT" => Life(p) = "absent"
         /\ state[p] \in Open => Life(p) = "open"
         /\ state[p] = "FILLED" => Life(p) = "filled"
         /\ state[p] \in {"ABORTED", "CANCELLED"} => Life(p) = "withdrawn"
  BY DEF Life, Open

LEMMA NextLives ==
  ASSUME NEW p \in Plans
  PROVE  /\ state'[p] \in Open => Life(p)' = "open"
         /\ state'[p] = "FILLED" => Life(p)' = "filled"
         /\ state'[p] \in {"ABORTED", "CANCELLED"} => Life(p)' = "withdrawn"
         /\ state'[p] = state[p] => Life(p)' = Life(p)
  BY DEF Life, Open

LEMMA Moneys ==
  ASSUME NEW p \in Plans
  PROVE  /\ reservation[p] = "NONE" => Money(p) = "none"
         /\ reservation[p] = "ACTIVE" => Money(p) = "reserved"
  BY DEF Money

LEMMA NextMoneys ==
  ASSUME NEW p \in Plans
  PROVE  /\ reservation'[p] = "ACTIVE" => Money(p)' = "reserved"
         /\ reservation'[p] = "RELEASED" /\ p \in fills' => Money(p)' = "spent"
         /\ reservation'[p] = "RELEASED" /\ p \notin fills' => Money(p)' = "returned"
         /\ reservation'[p] = reservation[p] /\ (p \in fills' <=> p \in fills) =>
              Money(p)' = Money(p)
<1>1. /\ reservation'[p] = "ACTIVE" => Money(p)' = "reserved"
      /\ reservation'[p] = "RELEASED" /\ p \in fills' => Money(p)' = "spent"
      /\ reservation'[p] = "RELEASED" /\ p \notin fills' => Money(p)' = "returned"
  BY DEF Money
<1>2. ASSUME reservation'[p] = reservation[p], p \in fills' <=> p \in fills
      PROVE  Money(p)' = Money(p)
  <2>1. CASE p \in fills
    BY <1>2, <2>1 DEF Money
  <2>2. CASE p \notin fills
    BY <1>2, <2>2 DEF Money
  <2> QED
    BY <2>1, <2>2
<1> QED
  BY <1>1, <1>2

LEMMA CapitalInit == Init => Capital!Init
<1> SUFFICES ASSUME Init PROVE Capital!Init
  OBVIOUS
<1>1. \A p \in Plans : Life(p) = "absent"
  BY Lives DEF Init
<1>2. \A p \in Plans : Money(p) = "none"
  BY Moneys DEF Init
<1> QED
  BY <1>1, <1>2 DEF Init, Capital!Init

\* At most one plan changes its life, at most one its money.
LEMMA OnePlan ==
  ASSUME NEW p \in Plans
  PROVE  /\ lifeBar[p] = Life(p) /\ moneyBar[p] = Money(p)
         /\ (\A q \in Plans : q # p => Life(q)' = Life(q)) =>
              lifeBar' = [lifeBar EXCEPT ![p] = Life(p)']
         /\ (\A q \in Plans : q # p => Money(q)' = Money(q)) =>
              moneyBar' = [moneyBar EXCEPT ![p] = Money(p)']
<1>1. lifeBar[p] = Life(p) /\ moneyBar[p] = Money(p)
  BY DEF lifeBar, moneyBar
<1>2. ASSUME \A q \in Plans : q # p => Life(q)' = Life(q)
      PROVE  lifeBar' = [lifeBar EXCEPT ![p] = Life(p)']
  BY <1>2 DEF lifeBar
<1>3. ASSUME \A q \in Plans : q # p => Money(q)' = Money(q)
      PROVE  moneyBar' = [moneyBar EXCEPT ![p] = Money(p)']
  BY <1>3 DEF moneyBar
<1> QED
  BY <1>1, <1>2, <1>3

\* A step that writes to no plan's state, no reservation and no book.
LEMMA CapitalSame ==
  ASSUME UNCHANGED <<state, reservation, sleeve, fills>>
  PROVE  UNCHANGED Capital!vars
<1>1. \A p \in Plans : Life(p)' = Life(p) /\ Money(p)' = Money(p)
  BY DEF Life, Money
<1>2. lifeBar' = lifeBar /\ moneyBar' = moneyBar
  BY <1>1 DEF lifeBar, moneyBar
<1> QED
  BY <1>2 DEF Capital!vars, lifeBar, moneyBar

\* A plan of the code is made.
LEMMA CapitalMake ==
  ASSUME TypeOK, BooksInv, NEW w \in Processes, Create(w)
  PROVE  [Capital!Next]_(Capital!vars)
<1>1. CASE UNCHANGED <<plans, sleeve>>
  BY <1>1, CapitalSame DEF Create, plans
<1>2. ASSUME NEW p \in Plans, InsertPlan(w, p), fills' = fills,
             \/ UNCHANGED <<reservation, sleeve>>
             \/ /\ sleeve.available >= 1
                /\ reservation' = [reservation EXCEPT ![p] = "ACTIVE"]
                /\ sleeve' = [sleeve EXCEPT !.reserved = @ + 1, !.available = @ - 1]
      PROVE  Capital!Next
  <2>1. /\ state[p] = "ABSENT" /\ reservation[p] = "NONE"
        /\ state'[p] \in Open /\ \A q \in Plans : q # p => state'[q] = state[q]
    BY <1>2 DEF InsertPlan, IsNew, BooksInv, Booked, TypeOK, Open
  <2>2. /\ Life(p) = "absent" /\ Life(p)' = "open" /\ Money(p) = "none"
        /\ \A q \in Plans : q # p => Life(q)' = Life(q)
    BY <2>1, Lives, NextLives, Moneys
  <2>3. /\ lifeBar' = [lifeBar EXCEPT ![p] = "open"]
        /\ lifeBar[p] = "absent" /\ moneyBar[p] = "none"
    BY <2>2, OnePlan
  <2>4. CASE UNCHANGED <<reservation, sleeve>>
    <3>1. moneyBar' = moneyBar
      BY <1>2, <2>4 DEF moneyBar, Money
    <3>2. Capital!Make(p)
      BY <2>3, <2>4, <3>1 DEF Capital!Make, lifeBar, moneyBar
    <3> QED
      BY <3>2 DEF Capital!Next
  <2>5. CASE /\ sleeve.available >= 1
             /\ reservation' = [reservation EXCEPT ![p] = "ACTIVE"]
             /\ sleeve' = [sleeve EXCEPT !.reserved = @ + 1, !.available = @ - 1]
    <3>1. reservation'[p] = "ACTIVE" /\ \A q \in Plans : q # p => reservation'[q] = reservation[q]
      BY <2>5 DEF TypeOK
    <3>2. Money(p)' = "reserved" /\ \A q \in Plans : q # p => Money(q)' = Money(q)
      BY <1>2, <3>1, NextMoneys
    <3>3. moneyBar' = [moneyBar EXCEPT ![p] = "reserved"]
      BY <3>2, OnePlan
    <3>4. Capital!MakeFunded(p)
      BY <2>3, <2>5, <3>3 DEF Capital!MakeFunded, lifeBar, moneyBar
    <3> QED
      BY <3>4 DEF Capital!Next
  <2> QED
    BY <1>2, <2>4, <2>5
<1> QED
  BY <1>1, <1>2 DEF Create

\* The clamped difference of what somebody has reserved is the difference.
LEMMA NothingClamped ==
  ASSUME TypeOK, BooksInv, NEW p \in Held
  PROVE  Less(sleeve.reserved) = sleeve.reserved - 1
<1>1. Held \in SUBSET Plans
  BY DEF Held
<1>2. IsFiniteSet(Held) /\ Held # {}
  BY <1>1, PlansFinite
<1>3. Cardinality(Held) \in Nat /\ Cardinality(Held) # 0
  BY <1>2, FS_EmptySet, FS_CardinalityType
<1> QED
  BY <1>3 DEF Less, BooksInv, BooksBalance

LEMMA CapitalFill ==
  ASSUME TypeOK, BooksInv, NEW p \in Plans, Fillable(p), Deploy(p)
  PROVE  Capital!Next
<1>1. p \in Held /\ p \notin fills
  BY DEF Fillable, Held, BooksInv, Booked
<1>2. /\ state'[p] = "FILLED" /\ \A q \in Plans : q # p => state'[q] = state[q]
      /\ reservation'[p] = "RELEASED" /\ \A q \in Plans : q # p => reservation'[q] = reservation[q]
      /\ fills' = fills \cup {p}
  BY DEF Deploy, TypeOK
<1>3. /\ Life(p) = "open" /\ Life(p)' = "filled"
      /\ \A q \in Plans : q # p => Life(q)' = Life(q)
  BY <1>2, Lives, NextLives DEF Fillable
<1>4. /\ Money(p) = "reserved" /\ Money(p)' = "spent"
      /\ \A q \in Plans : q # p => Money(q)' = Money(q)
  BY <1>2, Moneys, NextMoneys DEF Fillable
<1>5. /\ lifeBar[p] = "open" /\ moneyBar[p] = "reserved"
      /\ lifeBar' = [lifeBar EXCEPT ![p] = "filled"]
      /\ moneyBar' = [moneyBar EXCEPT ![p] = "spent"]
  BY <1>3, <1>4, OnePlan
<1>6. sleeve' = [sleeve EXCEPT !.reserved = @ - 1, !.deployed = @ + 1]
  BY <1>1, NothingClamped DEF Deploy
<1>7. Capital!Fill(p)
  BY <1>5, <1>6 DEF Capital!Fill, lifeBar, moneyBar
<1> QED
  BY <1>7 DEF Capital!Next

\* A plan is cancelled or aborted.
LEMMA CapitalWithdraw ==
  ASSUME TypeOK, NEW p \in Plans, state[p] # "ABSENT", NEW s \in {"ABORTED", "CANCELLED"},
         state' = [state EXCEPT ![p] = s], UNCHANGED <<reservation, sleeve, fills>>
  PROVE  [Capital!Next]_(Capital!vars)
<1>1. state'[p] = s /\ \A q \in Plans : q # p => state'[q] = state[q]
  BY DEF TypeOK
<1>2. /\ Life(p) \in {"open", "filled", "withdrawn"} /\ Life(p)' = "withdrawn"
      /\ \A q \in Plans : q # p => Life(q)' = Life(q)
  BY <1>1 DEF Life, Open
<1>3. moneyBar' = moneyBar
  BY DEF moneyBar, Money
<1>4. lifeBar' = [lifeBar EXCEPT ![p] = "withdrawn"] /\ lifeBar[p] = Life(p)
  BY <1>2, OnePlan
<1>5. CASE Life(p) = "withdrawn"
  <2>1. \A q \in Plans : Life(q)' = Life(q)
    BY <1>2, <1>5
  <2>2. lifeBar' = lifeBar
    BY <2>1 DEF lifeBar
  <2> QED
    BY <1>3, <2>2 DEF Capital!vars, lifeBar, moneyBar
<1>6. CASE Life(p) # "withdrawn"
  <2>1. Capital!Withdraw(p)
    BY <1>2, <1>3, <1>4, <1>6 DEF Capital!Withdraw, lifeBar, moneyBar
  <2> QED
    BY <2>1 DEF Capital!Next
<1> QED
  BY <1>5, <1>6

LEMMA CapitalRelease ==
  ASSUME TypeOK, BooksInv, Releasing, NEW w \in Processes, Release(w)
  PROVE  [Capital!Next]_(Capital!vars)
<1>1. PICK p \in Plans : p = target[w]
  BY DEF Release, TypeOK
<1>2. CASE reservation[p] # "ACTIVE"
  BY <1>1, <1>2, CapitalSame DEF Release
<1>3. CASE reservation[p] = "ACTIVE"
  <2>1. /\ reservation' = [reservation EXCEPT ![p] = "RELEASED"]
        /\ sleeve' = [sleeve EXCEPT !.reserved = Less(@), !.available = @ + 1]
        /\ UNCHANGED <<state, fills>>
    BY <1>1, <1>3 DEF Release
  <2>2. p \in Held /\ p \notin fills /\ state[p] \in {"ABORTED", "CANCELLED"}
    BY <1>1, <1>3 DEF Held, BooksInv, Booked, Releasing, Release
  <2>3. reservation'[p] = "RELEASED" /\ \A q \in Plans : q # p => reservation'[q] = reservation[q]
    BY <2>1 DEF TypeOK
  <2>4. /\ Money(p) = "reserved" /\ Money(p)' = "returned"
        /\ \A q \in Plans : q # p => Money(q)' = Money(q)
    BY <1>3, <2>1, <2>2, <2>3, Moneys, NextMoneys
  <2>5. /\ lifeBar[p] = "withdrawn" /\ moneyBar[p] = "reserved"
        /\ moneyBar' = [moneyBar EXCEPT ![p] = "returned"]
    BY <2>2, <2>4, OnePlan, Lives
  <2>6. lifeBar' = lifeBar
    BY <2>1 DEF lifeBar, Life
  <2>7. sleeve' = [sleeve EXCEPT !.reserved = @ - 1, !.available = @ + 1]
    BY <2>1, <2>2, NothingClamped
  <2>8. Capital!GiveBack(p)
    BY <2>5, <2>6, <2>7 DEF Capital!GiveBack, lifeBar, moneyBar
  <2> QED
    BY <2>8 DEF Capital!Next
<1> QED
  BY <1>2, <1>3

LEMMA CapitalStep ==
  ASSUME TypeOK, BooksInv, Releasing, [Next]_vars
  PROVE  [Capital!Next]_(Capital!vars)
<1>1. ASSUME NEW w \in Processes, NEW p \in Plans, Fill(w, p)
      PROVE  [Capital!Next]_(Capital!vars)
  BY <1>1, CapitalFill, CapitalSame DEF Fill, plans, books
<1>2. ASSUME NEW w \in Processes, NEW p \in Plans, Abort(w, p)
      PROVE  [Capital!Next]_(Capital!vars)
  <2>1. /\ state[p] # "ABSENT" /\ state' = [state EXCEPT ![p] = "ABORTED"]
        /\ UNCHANGED <<reservation, sleeve, fills>>
    BY <1>2 DEF Abort, IsNext, TypeOK, books
  <2> QED
    BY <2>1, CapitalWithdraw
<1>3. ASSUME NEW w \in Processes, Cancel(w) PROVE [Capital!Next]_(Capital!vars)
  <2>1. PICK p \in Plans : p = target[w]
    BY <1>3 DEF Cancel, TypeOK
  <2>2. UNCHANGED <<reservation, sleeve, fills>>
    BY <1>3 DEF Cancel, books
  <2>3. CASE state' = state
    BY <2>2, <2>3, CapitalSame
  <2>4. CASE state[p] # "ABSENT" /\ state' = [state EXCEPT ![p] = "CANCELLED"]
    BY <2>2, <2>4, CapitalWithdraw
  <2> QED
    BY <1>3, <2>1, <2>3, <2>4 DEF Cancel
<1>4. ASSUME NEW w \in Processes,
             \/ \E kind \in {"planner", "cycle"} : StartPlanning(w, kind)
             \/ \E a \in Assets : Gate(w, a)
             \/ Existing(w) \/ Update(w)
             \/ FetchOpen(w) \/ FetchInvalidatable(w) \/ Die(w)
      PROVE  UNCHANGED <<state, reservation, sleeve, fills>>
  BY <1>4 DEF StartPlanning, Gate, Existing, Update, FetchOpen, FetchInvalidatable,
              Die, plans, books
<1>5. CASE UNCHANGED vars
  BY <1>5, CapitalSame DEF vars, plans, books
<1> QED
  BY <1>1, <1>2, <1>3, <1>4, <1>5, CapitalSame, CapitalMake, CapitalRelease DEF Next, Step

\* Every behaviour of the PAPER path is one of the abstract capital: a unit is
\* reserved with its plan, and spent by one fill or given back once.
THEOREM SpentOrReturnedOnce == Spec => ImplementsCapitalOnce
<1>1. Init => TypeOK /\ BooksInv /\ Releasing
  BY TypeInit, BooksInit DEF Init, Releasing
<1>2. TypeOK /\ BooksInv /\ Releasing /\ [Next]_vars => (TypeOK /\ BooksInv /\ Releasing)'
  BY TypeStep, BooksStep, ReleasingStep
<1>3. TypeOK /\ BooksInv /\ Releasing /\ [Next]_vars => [Capital!Next]_(Capital!vars)
  BY CapitalStep
<1> QED
  BY <1>1, <1>2, <1>3, CapitalInit, PTL DEF Spec, ImplementsCapitalOnce, Capital!Spec
=============================================================================
