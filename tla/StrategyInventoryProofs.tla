------------------------ MODULE StrategyInventoryProofs ------------------------
(***************************************************************************)
(* Proofs about the strategy-owned inventory, for any callers, BUY plans   *)
(* and exit plans: type correctness, that a fill is counted once, that no  *)
(* trade is oversold, and that only the two named races break the replay   *)
(* of the log or split a position over two trades; last, that the callers  *)
(* implement the ledger of OwnershipLedger.                                *)
(***************************************************************************)
EXTENDS StrategyInventory, FiniteSetTheorems, TLAPS

-----------------------------------------------------------------------------
(* Type correctness.                                                       *)

\* What a caller holds at each of its steps.  A caller that sells has
\* nothing pending, and what is pending are BUY events.
Shape ==
  \A p \in Callers :
    /\ pc[p] \in {"idle", "leg", "commit"} => cur[p] = NoOrder
    /\ pc[p] \in {"load", "append", "lock"} => cur[p] \in Orders /\ stamp[p] \in 1..MaxClock
    /\ pc[p] = "lock" => cur[p] \in Sells
    /\ pc[p] = "append" => opened[p]
    /\ pc[p] \in {"idle", "lock"} => ~opened[p]
    /\ pc[p] = "load" /\ cur[p] \in Sells => ~opened[p]
    /\ cur[p] \in Sells => exitOf[cur[p]] \in Trades /\ pending[p] = {}
    /\ ~opened[p] => view[p] = {} /\ pending[p] = {}
    /\ view[p] \subseteq events
    /\ \A e \in pending[p] : e.order \in Buys

TInv == TypeOK /\ Shape

LEMMA TInit == Init => TInv
<1> SUFFICES ASSUME Init PROVE TInv
  OBVIOUS
<1>1. TypeOK
  <2>1. /\ exitOf \in [Sells -> Trades \cup {NoTrade}]
        /\ clock \in 0..MaxClock /\ stamp \in [Callers -> 0..MaxClock]
        /\ pc \in [Callers -> Steps]
        /\ cur \in [Callers -> Orders \cup {NoOrder}]
    BY BoundAssumption DEF Init, Steps
  <2>2. /\ todo \in [Callers -> SUBSET Buys]
        /\ opened \in [Callers -> BOOLEAN]
        /\ view \in [Callers -> SUBSET Events]
        /\ pending \in [Callers -> SUBSET Events]
        /\ events = {} /\ filled = {}
        /\ raced = {} /\ overtaken = {}
    BY Zenon DEF Init
  <2> QED
    BY <2>1, <2>2 DEF TypeOK
<1>2. Shape
  BY OrdersAssumption, Zenon DEF Init, Shape, Orders
<1> QED
  BY <1>1, <1>2 DEF TInv

LEMMA FactType ==
  ASSUME NEW p \in Callers, NEW o \in Orders, NEW t \in Trades, stamp[p] \in 1..MaxClock
  PROVE  /\ Fact(p, o, t) \in Events
         /\ Fact(p, o, t).order = o /\ Fact(p, o, t).trade = t /\ Fact(p, o, t).at = stamp[p]
  BY DEF Fact, Events

\* A caller that returns holds nothing any more.
LEMMA ReturnShape ==
  ASSUME TInv, NEW p \in Callers, Return(p), UNCHANGED exitOf, events \subseteq events'
  PROVE  /\ Shape'
         /\ pc' \in [Callers -> Steps]
         /\ todo' \in [Callers -> SUBSET Buys]
         /\ cur' \in [Callers -> Orders \cup {NoOrder}]
         /\ stamp' \in [Callers -> 0..MaxClock]
         /\ opened' \in [Callers -> BOOLEAN]
         /\ view' \in [Callers -> SUBSET Events]
         /\ pending' \in [Callers -> SUBSET Events]
<1>1. /\ todo' \in [Callers -> SUBSET Buys]
      /\ opened' \in [Callers -> BOOLEAN]
      /\ view' \in [Callers -> SUBSET Events]
      /\ pending' \in [Callers -> SUBSET Events]
  BY Zenon DEF TInv, TypeOK, Return
<1>2. /\ pc' \in [Callers -> Steps]
      /\ cur' \in [Callers -> Orders \cup {NoOrder}]
      /\ stamp' \in [Callers -> 0..MaxClock]
  BY BoundAssumption DEF TInv, TypeOK, Return, Steps
<1>3. /\ pc'[p] = "idle" /\ cur'[p] = NoOrder /\ ~opened'[p]
      /\ view'[p] = {} /\ pending'[p] = {}
  BY DEF TInv, TypeOK, Return
<1>4. \A q \in Callers \ {p} :
        /\ pc'[q] = pc[q] /\ cur'[q] = cur[q] /\ opened'[q] = opened[q]
        /\ stamp'[q] = stamp[q] /\ view'[q] = view[q] /\ pending'[q] = pending[q]
  BY DEF TInv, TypeOK, Return
<1>5. Shape'
  BY <1>3, <1>4, OrdersAssumption DEF TInv, Shape, Orders
<1> QED
  BY <1>1, <1>2, <1>5

\* So does one that goes on to its next leg, perhaps with a BUY event more.
LEMMA NextLegShape ==
  ASSUME TInv, NEW p \in Callers, NEW left \in SUBSET Buys, NextLeg(p, left),
         UNCHANGED <<log, opened, view, history>>, pc[p] = "append",
         \/ UNCHANGED pending
         \/ \E e \in Events : e.order \in Buys /\ pending' = [pending EXCEPT ![p] = @ \cup {e}]
  PROVE  TInv'
<1>1. /\ todo' \in [Callers -> SUBSET Buys]
      /\ pending' \in [Callers -> SUBSET Events]
  <2>1. todo' \in [Callers -> SUBSET Buys]
    BY Zenon DEF TInv, TypeOK, NextLeg
  <2>2. ASSUME NEW e \in Events, pending' = [pending EXCEPT ![p] = @ \cup {e}]
        PROVE  pending' \in [Callers -> SUBSET Events]
    BY <2>2 DEF TInv, TypeOK
  <2> QED
    BY <2>1, <2>2 DEF TInv, TypeOK
<1>2. /\ pc' \in [Callers -> Steps]
      /\ cur' \in [Callers -> Orders \cup {NoOrder}]
      /\ stamp' \in [Callers -> 0..MaxClock]
  BY BoundAssumption DEF TInv, TypeOK, NextLeg, Steps
<1>3. /\ pc'[p] \in {"commit", "leg"} /\ cur'[p] = NoOrder /\ opened[p]
      /\ \A e \in pending'[p] : e.order \in Buys
  BY DEF TInv, TypeOK, Shape, NextLeg
<1>4. \A q \in Callers \ {p} :
        /\ pc'[q] = pc[q] /\ cur'[q] = cur[q]
        /\ stamp'[q] = stamp[q] /\ pending'[q] = pending[q]
  BY DEF TInv, TypeOK, NextLeg
<1>5. Shape'
  BY <1>3, <1>4, OrdersAssumption DEF TInv, Shape, Orders, log
<1> QED
  BY <1>1, <1>2, <1>5 DEF TInv, TypeOK, log, history

LEMMA TStep == TInv /\ [Next]_vars => TInv'
<1> SUFFICES ASSUME TInv, [Next]_vars PROVE TInv'
  OBVIOUS
<1> USE BoundAssumption, OrdersAssumption
<1>1. ASSUME NEW p \in Callers, NEW t \in Trades, BeginBuy(p, t) PROVE TInv'
  BY <1>1 DEF BeginBuy, NextLeg, TInv, TypeOK, Shape, Steps, log, history
<1>2. ASSUME NEW p \in Callers, BuyLeg(p) PROVE TInv'
  <2>1. PICK b \in todo[p] :
          \/ NextLeg(p, todo[p] \ {b}) /\ UNCHANGED <<clock, filled>>
          \/ Observe(p, b, "load") /\ UNCHANGED todo
    BY <1>2 DEF BuyLeg
  <2>2. b \in Buys /\ b \in Orders /\ b \notin Sells /\ pc[p] = "leg"
    BY <1>2 DEF BuyLeg, TInv, TypeOK, Orders
  <2>3. UNCHANGED <<events, exitOf, opened, view, pending, history>>
    BY <1>2 DEF BuyLeg
  <2>4. CASE NextLeg(p, todo[p] \ {b}) /\ UNCHANGED <<clock, filled>>
    BY <2>2, <2>3, <2>4 DEF NextLeg, TInv, TypeOK, Shape, Steps, history
  <2>5. CASE Observe(p, b, "load") /\ UNCHANGED todo
    BY <2>2, <2>3, <2>5 DEF Observe, TInv, TypeOK, Shape, Steps, history
  <2> QED
    BY <2>1, <2>4, <2>5
<1>3. ASSUME NEW p \in Callers, Load(p) PROVE TInv'
  <2>1. CASE opened[p]
    BY <1>3, <2>1 DEF Load, TInv, TypeOK, Shape, Steps, log, history
  <2>2. CASE ~opened[p]
    <3>1. /\ opened' \in [Callers -> BOOLEAN]
          /\ view' \in [Callers -> SUBSET Events]
      <4>1. /\ opened' = [opened EXCEPT ![p] = TRUE]
            /\ view' = [view EXCEPT ![p] = events]
        BY <1>3, <2>2 DEF Load
      <4> QED
        BY <4>1 DEF TInv, TypeOK
    <3>2. pc' = [pc EXCEPT ![p] = "append"] /\ pc' \in [Callers -> Steps]
      BY <1>3 DEF Load, TInv, TypeOK, Steps
    <3>3. /\ opened' = [opened EXCEPT ![p] = TRUE]
          /\ view' = [view EXCEPT ![p] = events]
          /\ UNCHANGED <<log, todo, cur, stamp, pending, history>>
      BY <1>3, <2>2 DEF Load
    <3>4. Shape'
      BY <1>3, <3>2, <3>3 DEF Load, TInv, TypeOK, Shape, log
    <3> QED
      BY <3>1, <3>2, <3>3, <3>4 DEF TInv, TypeOK, log, history
  <2> QED
    BY <2>1, <2>2
<1>4. ASSUME NEW p \in Callers, BuyAppend(p) PROVE TInv'
  <2> DEFINE b == cur[p]
  <2>1. pc[p] = "append" /\ b \in Buys /\ b \in Orders /\ b \notin Sells /\ stamp[p] \in 1..MaxClock
    BY <1>4 DEF BuyAppend, TInv, Shape, Orders
  <2>2. todo[p] \ {b} \in SUBSET Buys
    BY DEF TInv, TypeOK
  <2>3. CASE Return(p)
    BY <1>4, <2>3, ReturnShape DEF BuyAppend, TInv, TypeOK, log, history
  <2>4. CASE NextLeg(p, todo[p] \ {b}) /\ UNCHANGED <<opened, view, pending>>
    BY <1>4, <2>1, <2>4, <2>2, NextLegShape DEF BuyAppend
  <2>5. ASSUME NEW t \in Trades,
               pending' = [pending EXCEPT ![p] = @ \cup {Fact(p, b, t)}],
               NextLeg(p, todo[p] \ {b}), UNCHANGED <<opened, view>>
        PROVE  TInv'
    <3>1. Fact(p, b, t) \in Events /\ Fact(p, b, t).order \in Buys
      BY <2>1, FactType
    <3> QED
      BY <1>4, <2>1, <2>5, <2>2, <3>1, NextLegShape DEF BuyAppend
  <2> QED
    BY <1>4, <2>3, <2>4, <2>5 DEF BuyAppend
<1>5. ASSUME NEW p \in Callers, Commit(p) PROVE TInv'
  <2>1. UNCHANGED <<filled, exitOf, clock, overtaken>> /\ events' = events \cup pending[p]
    BY <1>5 DEF Commit
  <2>2. events' \in SUBSET Events
    BY <2>1 DEF TInv, TypeOK
  <2>3. \A e \in events' : e.order \in Sells => e.trade = exitOf'[e.order]
    BY <2>1 DEF TInv, TypeOK, Shape
  <2>4. raced' \in SUBSET (SUBSET Trades)
    BY <1>5 DEF Commit, Unseen, TInv, TypeOK, Events
  <2> QED
    BY <1>5, <2>1, <2>2, <2>3, <2>4, ReturnShape DEF Commit, TInv, TypeOK
<1>6. ASSUME NEW p \in Callers, NEW s \in Sells, BeginSell(p, s) PROVE TInv'
  <2>1. s \in Orders /\ exitOf[s] \in Trades
    BY <1>6 DEF BeginSell, TInv, TypeOK, Orders
  <2> QED
    BY <1>6, <2>1 DEF BeginSell, Observe, TInv, TypeOK, Shape, Steps, history
<1>7. ASSUME NEW p \in Callers, Lock(p) PROVE TInv'
  <2>1. CASE Return(p)
    BY <1>7, <2>1, ReturnShape DEF Lock, TInv, TypeOK, log, history
  <2>2. CASE pc' = [pc EXCEPT ![p] = "load"] /\ UNCHANGED local
    BY <1>7, <2>2 DEF Lock, TInv, TypeOK, Shape, Steps, log, local, history
  <2> QED
    BY <1>7, <2>1, <2>2 DEF Lock
<1>8. ASSUME NEW p \in Callers, SellAppend(p) PROVE TInv'
  <2> DEFINE s == cur[p]
  <2>1. s \in Sells /\ s \in Orders /\ exitOf[s] \in Trades /\ stamp[p] \in 1..MaxClock
    BY <1>8 DEF SellAppend, TInv, Shape, Orders
  <2>2. /\ Fact(p, s, exitOf[s]) \in Events
        /\ Fact(p, s, exitOf[s]).order = s /\ Fact(p, s, exitOf[s]).trade = exitOf[s]
    BY <2>1, FactType
  <2>3. /\ events' \in {events, events \cup {Fact(p, s, exitOf[s])}}
        /\ overtaken' \in SUBSET Events
    BY <1>8, <2>2 DEF SellAppend, TInv, TypeOK
  <2>4. /\ events' \in SUBSET Events
        /\ \A e \in events' : e.order \in Sells => e.trade = exitOf[e.order]
    BY <2>2, <2>3 DEF TInv, TypeOK
  <2>5. Return(p) /\ UNCHANGED <<filled, exitOf, clock, raced>> /\ events \subseteq events'
    BY <1>8, <2>3 DEF SellAppend
  <2> QED
    BY <2>3, <2>4, <2>5, ReturnShape DEF TInv, TypeOK
<1>9. ASSUME NEW p \in Callers, Die(p) PROVE TInv'
  BY <1>9, ReturnShape DEF Die, TInv, TypeOK, log, history
<1>10. ASSUME NEW s \in Sells, NEW t \in Trades, PlanExit(s, t) PROVE TInv'
  <2>1. \A e \in events : e.order = s => FALSE
    BY <1>10 DEF PlanExit, TInv, TypeOK, Events
  <2>2. \A p \in Callers : cur[p] # s
    BY <1>10 DEF PlanExit, TInv, Shape
  <2> QED
    BY <1>10, <2>1, <2>2 DEF PlanExit, TInv, TypeOK, Shape, local, history
<1>11. CASE UNCHANGED vars
  BY <1>11 DEF TInv, TypeOK, Shape, vars, log, local, history
<1> QED
  BY <1>1, <1>2, <1>3, <1>4, <1>5, <1>6, <1>7, <1>8, <1>9, <1>10, <1>11 DEF Next, Step

\* Every variable keeps its type and a SELL reduces the trade of its plan.
THEOREM TypeCorrect == Spec => []TypeOK
<1>1. TInv => TypeOK
  BY DEF TInv
<1> QED
  BY <1>1, TInit, TStep, PTL DEF Spec

-----------------------------------------------------------------------------
(* The lock of a lineage.                                                  *)

\* One caller at most holds the lock of a trade.
Exclusive ==
  \A p, q \in Callers, t \in Trades : LockedBy(p, t) /\ LockedBy(q, t) => p = q

\* While it does, no SELL of that trade is recorded that it has not seen.
HeldView ==
  \A p \in Callers :
    pc[p] = "append" /\ cur[p] \in Sells => Sold(events, exitOf[cur[p]]) \subseteq view[p]

LInv == TInv /\ Exclusive /\ HeldView

\* How a step changes the control of a caller that reduces a trade: it keeps
\* or loses the lock, or takes it when it is free; it keeps or loses its
\* view, or opens it.
LEMMA SellControl ==
  ASSUME TInv, [Next]_vars, NEW q \in Callers,
         pc'[q] \in {"load", "append"}, cur'[q] \in Sells
  PROVE  /\ cur'[q] = cur[q] /\ exitOf'[cur[q]] = exitOf[cur[q]]
         /\ \/ pc'[q] = pc[q] /\ view'[q] = view[q]
            \/ /\ pc[q] = "load" /\ pc'[q] = "append"
               /\ view'[q] = events /\ events' = events
            \/ /\ pc'[q] = "load" /\ IsFree(q, exitOf[cur[q]])
               /\ \A p \in Callers \ {q} : pc'[p] = pc[p] /\ cur'[p] = cur[p]
               /\ exitOf' = exitOf
<1> USE DEF TInv, TypeOK, log, local, history
<1>1. ASSUME NEW p \in Callers, Return(p)
      PROVE  /\ p # q
             /\ pc'[q] = pc[q] /\ cur'[q] = cur[q] /\ view'[q] = view[q]
  BY <1>1 DEF Return
<1>2. ASSUME NEW p \in Callers, NEW left \in SUBSET Buys, NextLeg(p, left), UNCHANGED view
      PROVE  /\ p # q
             /\ pc'[q] = pc[q] /\ cur'[q] = cur[q] /\ view'[q] = view[q]
  BY <1>2 DEF NextLeg
<1>3. ASSUME NEW p \in Callers, NEW t \in Trades, BeginBuy(p, t)
      PROVE  pc'[q] = pc[q] /\ cur'[q] = cur[q] /\ view'[q] = view[q] /\ exitOf' = exitOf
  BY <1>2, <1>3 DEF BeginBuy
<1>4. ASSUME NEW p \in Callers, BuyLeg(p)
      PROVE  pc'[q] = pc[q] /\ cur'[q] = cur[q] /\ view'[q] = view[q] /\ exitOf' = exitOf
  BY <1>2, <1>4, OrdersAssumption DEF BuyLeg, Observe
<1>5. ASSUME NEW p \in Callers, BuyAppend(p)
      PROVE  pc'[q] = pc[q] /\ cur'[q] = cur[q] /\ view'[q] = view[q] /\ exitOf' = exitOf
  <2>1. \/ Return(p)
        \/ NextLeg(p, todo[p] \ {cur[p]}) /\ UNCHANGED view
    BY <1>5 DEF BuyAppend
  <2> QED
    BY <1>1, <1>2, <1>5, <2>1 DEF BuyAppend
<1>6. ASSUME NEW p \in Callers, Commit(p) \/ Die(p) \/ SellAppend(p)
      PROVE  pc'[q] = pc[q] /\ cur'[q] = cur[q] /\ view'[q] = view[q] /\ exitOf' = exitOf
  BY <1>1, <1>6 DEF Commit, Die, SellAppend
<1>7. ASSUME NEW p \in Callers, NEW s \in Sells, BeginSell(p, s)
      PROVE  pc'[q] = pc[q] /\ cur'[q] = cur[q] /\ view'[q] = view[q] /\ exitOf' = exitOf
  BY <1>7 DEF BeginSell, Observe
<1>8. ASSUME NEW s \in Sells, NEW t \in Trades, PlanExit(s, t)
      PROVE  /\ pc'[q] = pc[q] /\ cur'[q] = cur[q] /\ view'[q] = view[q]
             /\ exitOf'[cur[q]] = exitOf[cur[q]]
  BY <1>8, OrdersAssumption DEF PlanExit, Shape
<1>9. ASSUME NEW p \in Callers, Load(p)
      PROVE  /\ cur'[q] = cur[q] /\ exitOf' = exitOf /\ events' = events
             /\ \/ pc'[q] = pc[q] /\ view'[q] = view[q]
                \/ pc[q] = "load" /\ pc'[q] = "append" /\ view'[q] = events
  BY <1>9 DEF Load, Shape
<1>10. ASSUME NEW p \in Callers, Lock(p)
       PROVE  /\ cur'[q] = cur[q] /\ exitOf' = exitOf
              /\ \/ pc'[q] = pc[q] /\ view'[q] = view[q]
                 \/ /\ pc'[q] = "load" /\ IsFree(q, exitOf[cur[q]])
                    /\ \A r \in Callers \ {q} : pc'[r] = pc[r] /\ cur'[r] = cur[r]
  BY <1>1, <1>10 DEF Lock
<1>11. CASE UNCHANGED vars
  BY <1>11 DEF vars
<1> QED
  BY <1>3, <1>4, <1>5, <1>6, <1>7, <1>8, <1>9, <1>10, <1>11 DEF Next, Step

\* A step adds its own fact of a SELL, or no SELL.
LEMMA SellsRecorded ==
  ASSUME TInv, [Next]_vars
  PROVE  \/ \A e \in events' : e \in events \/ e.order \in Buys
         \/ \E p \in Callers :
              /\ pc[p] = "append" /\ cur[p] \in Sells /\ pc'[p] = "idle"
              /\ events' = events \cup {Fact(p, cur[p], exitOf[cur[p]])}
<1>1. ASSUME NEW p \in Callers, SellAppend(p)
      PROVE  \/ events' = events
             \/ /\ pc[p] = "append" /\ cur[p] \in Sells /\ pc'[p] = "idle"
                /\ events' = events \cup {Fact(p, cur[p], exitOf[cur[p]])}
  BY <1>1 DEF SellAppend, Return, TInv, TypeOK
<1>2. ASSUME NEW p \in Callers, Commit(p)
      PROVE  \A e \in events' : e \in events \/ e.order \in Buys
  BY <1>2 DEF Commit, TInv, Shape
<1>3. ASSUME NEW p \in Callers, BuyLeg(p) \/ Load(p) \/ BuyAppend(p) \/ Lock(p) \/ Die(p)
      PROVE  events' = events
  BY <1>3 DEF BuyLeg, Load, BuyAppend, Lock, Die, log
<1>4. ASSUME NEW p \in Callers, NEW t \in Trades, BeginBuy(p, t) PROVE events' = events
  BY <1>4 DEF BeginBuy, log
<1>5. ASSUME NEW p \in Callers, NEW s \in Sells, BeginSell(p, s) PROVE events' = events
  BY <1>5 DEF BeginSell
<1>6. ASSUME NEW s \in Sells, NEW t \in Trades, PlanExit(s, t) PROVE events' = events
  BY <1>6 DEF PlanExit
<1>7. CASE UNCHANGED vars
  BY <1>7 DEF vars, log
<1> QED
  BY <1>1, <1>2, <1>3, <1>4, <1>5, <1>6, <1>7 DEF Next, Step

LEMMA LInit == Init => LInv
  BY TInit DEF Init, LInv, Exclusive, HeldView, LockedBy

LEMMA LStep == LInv /\ [Next]_vars => LInv'
<1> SUFFICES ASSUME LInv, [Next]_vars PROVE LInv'
  OBVIOUS
<1>1. TInv /\ TInv'
  BY TStep DEF LInv
<1>2. ASSUME NEW p \in Callers, NEW t \in Trades, LockedBy(p, t)'
      PROVE  \/ LockedBy(p, t)
             \/ /\ IsFree(p, t)
                /\ \A q \in Callers \ {p} : LockedBy(q, t)' => LockedBy(q, t)
  <2>1. pc'[p] \in {"load", "append"} /\ cur'[p] \in Sells /\ exitOf'[cur'[p]] = t
    BY <1>2 DEF LockedBy
  <2>2. cur'[p] = cur[p] /\ exitOf'[cur[p]] = exitOf[cur[p]]
    BY <1>1, <2>1, SellControl
  <2>3. CASE pc[p] \in {"load", "append"}
    BY <2>1, <2>2, <2>3 DEF LockedBy
  <2>4. CASE pc[p] \notin {"load", "append"}
    <3>1. /\ IsFree(p, exitOf[cur[p]])
          /\ \A q \in Callers \ {p} : pc'[q] = pc[q] /\ cur'[q] = cur[q]
          /\ exitOf' = exitOf
      BY <1>1, <2>1, <2>4, SellControl
    <3> QED
      BY <2>1, <2>2, <3>1 DEF LockedBy
  <2> QED
    BY <2>3, <2>4
<1>3. Exclusive'
  <2> SUFFICES ASSUME NEW p \in Callers, NEW q \in Callers, NEW t \in Trades,
                      LockedBy(p, t)', LockedBy(q, t)', p # q
               PROVE  FALSE
    BY DEF Exclusive
  <2> QED
    BY <1>2 DEF LInv, Exclusive, IsFree, Unlocked
<1>4. HeldView'
  <2> SUFFICES ASSUME NEW p \in Callers, pc'[p] = "append", cur'[p] \in Sells,
                      NEW e \in Sold(events', exitOf'[cur'[p]])
               PROVE  e \in view'[p]
    BY DEF HeldView, Sold
  <2>1. cur'[p] = cur[p] /\ exitOf'[cur[p]] = exitOf[cur[p]] /\ cur[p] \in Sells
    BY <1>1, SellControl
  <2>2. \/ pc[p] = "append" /\ view'[p] = view[p]
        \/ view'[p] = events /\ events' = events
    BY <1>1, SellControl
  <2>3. e \in events' /\ e.order \in Sells /\ e.trade = exitOf[cur[p]] /\ e.order \notin Buys
    BY <2>1, OrdersAssumption DEF Sold
  <2>4. CASE e \in events
    <3>1. e \in Sold(events, exitOf[cur[p]])
      BY <2>3, <2>4 DEF Sold
    <3> QED
      BY <2>1, <2>2, <2>4, <3>1 DEF LInv, HeldView
  <2>5. CASE e \notin events
    <3>1. PICK q \in Callers :
            /\ pc[q] = "append" /\ cur[q] \in Sells /\ pc'[q] = "idle"
            /\ events' = events \cup {Fact(q, cur[q], exitOf[cur[q]])}
      BY <1>1, <2>3, <2>5, SellsRecorded
    <3>2. e = Fact(q, cur[q], exitOf[cur[q]])
      BY <2>3, <2>5, <3>1
    <3>3. exitOf[cur[q]] = exitOf[cur[p]] /\ exitOf[cur[q]] \in Trades
      BY <1>1, <2>3, <3>1, <3>2 DEF Fact, TInv, Shape
    <3>4. pc[p] = "append"
      BY <2>2, <2>3, <2>5
    <3>5. LockedBy(p, exitOf[cur[p]]) /\ LockedBy(q, exitOf[cur[p]])
      BY <2>1, <3>1, <3>3, <3>4 DEF LockedBy
    <3> QED
      BY <3>1, <3>3, <3>5 DEF LInv, Exclusive
  <2> QED
    BY <2>4, <2>5
<1> QED
  BY <1>1, <1>3, <1>4 DEF LInv

-----------------------------------------------------------------------------
(* A fill is counted once.                                                 *)

\* No order has two events, committed or pending, of one caller or of two.
EachOnce ==
  /\ CountedOnce
  /\ \A p \in Callers : \A e \in pending[p] : ~Recorded(events, e.order)
  /\ \A p, q \in Callers : \A e \in pending[p], f \in pending[q] :
       e.order = f.order => p = q /\ e = f

\* What a BUY caller appends is new to everybody.
NewBuy(p, t) ==
  /\ pc[p] = "append" /\ cur[p] \in Buys /\ t \in Trades
  /\ ~Recorded(Known(p), cur[p]) /\ Resolves(p, cur[p], t)
  /\ ~Recorded(events, cur[p])
  /\ \A q \in Callers : ~Recorded(pending[q], cur[p])
  /\ pending' = [pending EXCEPT ![p] = @ \cup {Fact(p, cur[p], t)}]
  /\ pc'[p] \in {"leg", "commit"} /\ cur'[p] = NoOrder
  /\ \A q \in Callers \ {p} : cur'[q] = cur[q]
  /\ UNCHANGED <<log, opened, view, history>>

\* What a SELL caller records was authorized by what it has read.
NewSell(p) ==
  /\ pc[p] = "append" /\ cur[p] \in Sells
  /\ ~Recorded(view[p], cur[p]) /\ Authorized(p)
  /\ events' = events \cup {Fact(p, cur[p], exitOf[cur[p]])}
  /\ overtaken' = IF \E e \in Bought(events, exitOf[cur[p]]) : stamp[p] < e.at
                    THEN overtaken \cup {Fact(p, cur[p], exitOf[cur[p]])} ELSE overtaken
  /\ Return(p) /\ UNCHANGED <<exitOf, raced>>

\* Every other step leaves the committed events alone, and adds none to
\* those that are pending.
Silent ==
  /\ events' = events /\ overtaken' = overtaken /\ raced' = raced
  /\ \A q \in Callers : pending'[q] \in {pending[q], {}}

\* Appending a BUY leg ends the call, changes nothing of the log, or adds one.
LEMMA BuyAppends ==
  ASSUME TInv, NEW p \in Callers, BuyAppend(p)
  PROVE  \/ Return(p)
         \/ UNCHANGED <<view, pending>>
         \/ \E t \in Trades : NewBuy(p, t)
<1> USE DEF TInv, TypeOK, log, local, history
<1>1. UNCHANGED <<log, history>> /\ pc[p] = "append" /\ cur[p] \in Buys
  BY DEF BuyAppend
<1>2. ASSUME NEW t \in Trades,
             ~Recorded(Known(p), cur[p]), Resolves(p, cur[p], t), ~Recorded(events, cur[p]),
             \A q \in Callers : ~Recorded(pending[q], cur[p]),
             pending' = [pending EXCEPT ![p] = @ \cup {Fact(p, cur[p], t)}],
             NextLeg(p, todo[p] \ {cur[p]}), UNCHANGED <<opened, view>>
      PROVE  NewBuy(p, t)
  <2>1. pc'[p] \in {"leg", "commit"} /\ cur'[p] = NoOrder
    BY <1>2 DEF NextLeg
  <2>2. \A q \in Callers \ {p} : cur'[q] = cur[q]
    BY <1>2 DEF NextLeg
  <2> QED
    BY <1>1, <1>2, <2>1, <2>2 DEF NewBuy
<1> QED
  BY <1>2 DEF BuyAppend

LEMMA Writes ==
  ASSUME TInv, [Next]_vars
  PROVE  \/ Silent
         \/ \E p \in Callers, t \in Trades : NewBuy(p, t)
         \/ \E p \in Callers : Commit(p)
         \/ \E p \in Callers : NewSell(p)
<1> USE DEF TInv, TypeOK, log, local, history
<1>1. ASSUME NEW p \in Callers, Return(p)
      PROVE  \A q \in Callers : pending'[q] \in {pending[q], {}}
  BY <1>1 DEF Return
<1>2. ASSUME NEW p \in Callers, NEW t \in Trades, BeginBuy(p, t) PROVE Silent
  BY <1>2 DEF BeginBuy, Silent
<1>3. ASSUME NEW p \in Callers, BuyLeg(p) \/ Load(p) PROVE Silent
  BY <1>3 DEF BuyLeg, Load, Silent
<1>4. ASSUME NEW p \in Callers, BuyAppend(p) PROVE Silent \/ \E t \in Trades : NewBuy(p, t)
  <2>1. UNCHANGED <<log, history>>
    BY <1>4 DEF BuyAppend
  <2>2. CASE Return(p)
    BY <1>1, <2>1, <2>2 DEF Silent
  <2>3. CASE UNCHANGED pending
    BY <2>1, <2>3 DEF Silent
  <2> QED
    BY <1>4, <2>2, <2>3, BuyAppends
<1>5. ASSUME NEW p \in Callers, NEW s \in Sells, BeginSell(p, s) PROVE Silent
  BY <1>5 DEF BeginSell, Silent
<1>6. ASSUME NEW p \in Callers, Lock(p) \/ Die(p) PROVE Silent
  BY <1>1, <1>6 DEF Lock, Die, Silent
<1>7. ASSUME NEW p \in Callers, SellAppend(p) PROVE Silent \/ NewSell(p)
  BY <1>1, <1>7 DEF SellAppend, NewSell, Silent
<1>8. ASSUME NEW s \in Sells, NEW t \in Trades, PlanExit(s, t) PROVE Silent
  BY <1>8 DEF PlanExit, Silent
<1>9. CASE UNCHANGED vars
  BY <1>9 DEF vars, Silent
<1> QED
  BY <1>2, <1>3, <1>4, <1>5, <1>6, <1>7, <1>8, <1>9 DEF Next, Step

CInv == LInv /\ EachOnce

LEMMA CInit == Init => CInv
  BY LInit DEF Init, CInv, EachOnce, CountedOnce

\* A SELL that its caller has not read under the lock is not recorded.
LEMMA SellIsNew ==
  ASSUME LInv, NEW p \in Callers, pc[p] = "append", cur[p] \in Sells,
         ~Recorded(view[p], cur[p])
  PROVE  ~Recorded(events, cur[p])
<1> SUFFICES ASSUME NEW e \in events, e.order = cur[p] PROVE FALSE
  BY DEF Recorded
<1>1. e \in Sold(events, exitOf[cur[p]])
  BY DEF LInv, TInv, TypeOK, Sold
<1> QED
  BY <1>1 DEF LInv, HeldView, Recorded

LEMMA CStep == CInv /\ [Next]_vars => CInv'
<1> SUFFICES ASSUME CInv, [Next]_vars PROVE EachOnce'
  BY LStep DEF CInv
<1>1. LInv /\ TInv /\ EachOnce
  BY DEF CInv, LInv
<1>2. CASE Silent
  BY <1>1, <1>2 DEF Silent, EachOnce, CountedOnce, Recorded
<1>3. ASSUME NEW p \in Callers, NEW t \in Trades, NewBuy(p, t) PROVE EachOnce'
  <2> DEFINE new == Fact(p, cur[p], t)
  <2>1. new.order = cur[p] /\ events' = events
    BY <1>3 DEF NewBuy, Fact, log
  <2>2. /\ pending'[p] = pending[p] \cup {new}
        /\ \A q \in Callers \ {p} : pending'[q] = pending[q]
    BY <1>1, <1>3 DEF NewBuy, TInv, TypeOK
  <2>3. ~Recorded(events, new.order) /\ \A q \in Callers : ~Recorded(pending[q], new.order)
    BY <1>3, <2>1 DEF NewBuy
  <2> HIDE DEF new
  <2> QED
    BY <1>1, <2>1, <2>2, <2>3 DEF EachOnce, CountedOnce, Recorded
<1>4. ASSUME NEW p \in Callers, Commit(p) PROVE EachOnce'
  <2>1. events' = events \cup pending[p] /\ pending' = [pending EXCEPT ![p] = {}]
    BY <1>4 DEF Commit, Return
  <2>2. pending'[p] = {} /\ \A q \in Callers \ {p} : pending'[q] = pending[q]
    BY <1>1, <2>1 DEF TInv, TypeOK
  <2> QED
    BY <1>1, <2>1, <2>2 DEF EachOnce, CountedOnce, Recorded
<1>5. ASSUME NEW p \in Callers, NewSell(p) PROVE EachOnce'
  <2> DEFINE new == Fact(p, cur[p], exitOf[cur[p]])
  <2>1. new.order = cur[p] /\ events' = events \cup {new} /\ cur[p] \notin Buys
    BY <1>5, OrdersAssumption DEF NewSell, Fact
  <2>2. pending'[p] = {} /\ \A q \in Callers \ {p} : pending'[q] = pending[q]
    BY <1>1, <1>5 DEF NewSell, Return, TInv, TypeOK
  <2>3. ~Recorded(events, new.order)
    BY <1>1, <1>5, <2>1, SellIsNew DEF NewSell
  <2>4. \A q \in Callers : \A e \in pending[q] : e.order # new.order
    BY <1>1, <2>1 DEF TInv, Shape
  <2> HIDE DEF new
  <2> QED
    BY <1>1, <2>1, <2>2, <2>3, <2>4 DEF EachOnce, CountedOnce, Recorded
<1> QED
  BY <1>1, <1>2, <1>3, <1>4, <1>5, Writes

\* A fill is counted once, however often and by however many callers its leg
\* is reconciled.
THEOREM FillsCountedOnce == Spec => []CountedOnce
<1>1. CInv => CountedOnce
  BY DEF CInv, EachOnce
<1> QED
  BY <1>1, CInit, CStep, PTL DEF Spec

-----------------------------------------------------------------------------
(* No trade is oversold.                                                   *)

LEMMA Counts ==
  ASSUME NEW E, IsFiniteSet(E), NEW t
  PROVE  /\ IsFiniteSet(Bought(E, t)) /\ Cardinality(Bought(E, t)) \in Nat
         /\ IsFiniteSet(Sold(E, t)) /\ Cardinality(Sold(E, t)) \in Nat
<1>1. Bought(E, t) \in SUBSET E /\ Sold(E, t) \in SUBSET E
  BY DEF Bought, Sold
<1> QED
  BY <1>1, FS_Subset, FS_CardinalityType

\* With more bought and not more sold, what was covered stays covered and
\* what was open stays open.
LEMMA MoreBought ==
  ASSUME NEW E, NEW F, IsFiniteSet(E), IsFiniteSet(F), NEW t,
         Bought(E, t) \subseteq Bought(F, t), Sold(F, t) \subseteq Sold(E, t)
  PROVE  /\ Covered(E, t) => Covered(F, t)
         /\ IsOpen(E, t) => IsOpen(F, t)
<1>1. /\ Cardinality(Bought(E, t)) <= Cardinality(Bought(F, t))
      /\ Cardinality(Sold(F, t)) <= Cardinality(Sold(E, t))
  BY Counts, FS_Subset
<1> QED
  BY <1>1, Counts DEF Covered, IsOpen

\* What an open trade has left covers one more unit.
LEMMA OneMore ==
  ASSUME NEW E, NEW F, IsFiniteSet(E), IsFiniteSet(F), NEW t, NEW f,
         IsOpen(E, t), Bought(E, t) \subseteq Bought(F, t),
         Sold(F, t) \subseteq Sold(E, t) \cup {f}
  PROVE  Covered(F, t)
<1>1. Cardinality(Bought(E, t)) <= Cardinality(Bought(F, t))
  BY Counts, FS_Subset
<1>2. /\ IsFiniteSet(Sold(E, t) \cup {f})
      /\ Cardinality(Sold(E, t) \cup {f}) \in Nat
      /\ Cardinality(Sold(E, t) \cup {f}) <= Cardinality(Sold(E, t)) + 1
  <2>1. IsFiniteSet(Sold(E, t)) /\ Cardinality(Sold(E, t)) \in Nat
    BY Counts
  <2>2. /\ IsFiniteSet(Sold(E, t) \cup {f})
        /\ Cardinality(Sold(E, t) \cup {f})
             = IF f \in Sold(E, t) THEN Cardinality(Sold(E, t)) ELSE Cardinality(Sold(E, t)) + 1
    BY <2>1, FS_AddElement
  <2> QED
    BY <2>1, <2>2
<1>3. Cardinality(Sold(F, t)) <= Cardinality(Sold(E, t) \cup {f})
  BY <1>2, FS_Subset
<1> QED
  BY <1>1, <1>2, <1>3, Counts DEF Covered, IsOpen

\* The tables are finite.
Finite == IsFiniteSet(events) /\ \A p \in Callers : IsFiniteSet(pending[p])

SInv == LInv /\ Finite /\ NeverOversold

LEMMA SInit == Init => SInv
<1> SUFFICES ASSUME Init PROVE SInv
  OBVIOUS
<1>1. events = {} /\ \A p \in Callers : pending[p] = {}
  BY DEF Init
<1>2. Finite
  BY <1>1, FS_EmptySet DEF Finite
<1>3. \A t \in Trades : Sold(events, t) = {} /\ Bought(events, t) = {}
  BY <1>1 DEF Sold, Bought
<1>4. NeverOversold
  BY <1>3, FS_EmptySet DEF NeverOversold, Covered
<1> QED
  BY <1>2, <1>4, LInit DEF SInv

\* What a caller that sells has read is all that was sold of the trade, so
\* that its reduction is covered when it is recorded.
LEMMA SellCovered ==
  ASSUME LInv, Finite, NEW p \in Callers, NewSell(p)
  PROVE  /\ exitOf[cur[p]] \in Trades
         /\ Sold(events, exitOf[cur[p]]) \subseteq view[p]
         /\ IsFiniteSet(events')
         /\ Covered(events', exitOf[cur[p]])
<1> DEFINE t == exitOf[cur[p]]
           f == Fact(p, cur[p], t)
<1>1. t \in Trades /\ view[p] \subseteq events
  BY DEF NewSell, LInv, TInv, Shape
<1>2. Sold(events, t) \subseteq view[p]
  BY DEF NewSell, LInv, HeldView
<1>3. IsFiniteSet(view[p])
  BY <1>1, FS_Subset DEF Finite
<1>4. events' = events \cup {f} /\ IsFiniteSet(events')
  BY FS_AddElement DEF NewSell, Finite
<1>5. /\ Bought(view[p], t) \subseteq Bought(events', t)
      /\ Sold(events', t) \subseteq Sold(view[p], t) \cup {f}
  <2> HIDE DEF f
  <2> QED
    BY <1>1, <1>2, <1>4 DEF Bought, Sold
<1>6. IsOpen(view[p], t)
  BY DEF NewSell, Authorized
<1>7. Covered(events', t)
  <2> HIDE DEF f, t
  <2> QED
    BY <1>3, <1>4, <1>5, <1>6, OneMore
<1> QED
  BY <1>1, <1>2, <1>4, <1>7

LEMMA FiniteStep == TInv /\ Finite /\ [Next]_vars => Finite'
<1> SUFFICES ASSUME TInv, Finite, [Next]_vars PROVE Finite'
  OBVIOUS
<1>1. CASE Silent
  BY <1>1, FS_EmptySet DEF Silent, Finite
<1>2. ASSUME NEW p \in Callers, NEW t \in Trades, NewBuy(p, t) PROVE Finite'
  <2>1. \A e : IsFiniteSet(pending[p] \cup {e})
    BY FS_AddElement DEF Finite
  <2>2. /\ pending'[p] = pending[p] \cup {Fact(p, cur[p], t)}
        /\ \A q \in Callers \ {p} : pending'[q] = pending[q]
        /\ events' = events
    BY <1>2 DEF NewBuy, TInv, TypeOK, log
  <2> QED
    BY <2>1, <2>2 DEF Finite
<1>3. ASSUME NEW p \in Callers, Commit(p) PROVE Finite'
  <2>1. events' = events \cup pending[p] /\ \A q \in Callers : pending'[q] \in {pending[q], {}}
    BY <1>3 DEF Commit, Return, TInv, TypeOK
  <2> QED
    BY <2>1, FS_Union, FS_EmptySet DEF Finite
<1>4. ASSUME NEW p \in Callers, NewSell(p) PROVE Finite'
  <2>1. \A q \in Callers : pending'[q] \in {pending[q], {}}
    BY <1>4 DEF NewSell, Return, TInv, TypeOK
  <2>2. IsFiniteSet(events')
    BY <1>4, FS_AddElement DEF NewSell, Finite
  <2> QED
    BY <2>1, <2>2, FS_EmptySet DEF Finite
<1> QED
  BY <1>1, <1>2, <1>3, <1>4, Writes

LEMMA SStep == SInv /\ [Next]_vars => SInv'
<1> SUFFICES ASSUME SInv, [Next]_vars PROVE NeverOversold'
  BY LStep, FiniteStep DEF SInv, LInv
<1>1. LInv /\ TInv /\ Finite /\ Finite' /\ NeverOversold
  BY FiniteStep DEF SInv, LInv
<1>2. CASE events' = events
  BY <1>1, <1>2 DEF NeverOversold
<1>3. ASSUME NEW p \in Callers, Commit(p) PROVE NeverOversold'
  <2>1. \A e \in pending[p] : e.order \notin Sells
    BY <1>1, OrdersAssumption DEF TInv, Shape
  <2>2. events' = events \cup pending[p]
    BY <1>3 DEF Commit
  <2>3. \A t \in Trades : /\ Bought(events, t) \subseteq Bought(events', t)
                          /\ Sold(events', t) \subseteq Sold(events, t)
    BY <2>1, <2>2 DEF Bought, Sold
  <2> QED
    BY <1>1, <2>3, MoreBought DEF NeverOversold, Finite
<1>4. ASSUME NEW p \in Callers, NewSell(p) PROVE NeverOversold'
  <2> DEFINE f == Fact(p, cur[p], exitOf[cur[p]])
  <2>1. f.trade = exitOf[cur[p]] /\ f.order \notin Buys /\ events' = events \cup {f}
    BY <1>4, OrdersAssumption DEF NewSell, Fact
  <2> HIDE DEF f
  <2>2. Covered(events', exitOf[cur[p]])
    BY <1>1, <1>4, SellCovered
  <2>3. \A t \in Trades \ {exitOf[cur[p]]} :
          Bought(events, t) \subseteq Bought(events', t) /\ Sold(events', t) \subseteq Sold(events, t)
    BY <2>1 DEF Bought, Sold
  <2>4. \A t \in Trades \ {exitOf[cur[p]]} : Covered(events', t)
    BY <1>1, <2>3, MoreBought DEF NeverOversold, Finite
  <2> QED
    BY <2>2, <2>4 DEF NeverOversold
<1> QED
  BY <1>1, <1>2, <1>3, <1>4, Writes DEF Silent, NewBuy, log

\* No trade is sold further than it was bought.
THEOREM TradesNeverOversold == Spec => []NeverOversold
<1>1. SInv => NeverOversold
  BY DEF SInv
<1> QED
  BY <1>1, SInit, SStep, PTL DEF Spec

-----------------------------------------------------------------------------
(* The log can be replayed.                                                *)

RInv == SInv /\ ReplayBreaksOnlyAtOvertaken

LEMMA RInit == Init => RInv
  BY SInit DEF Init, RInv, ReplayBreaksOnlyAtOvertaken

LEMMA RStep == RInv /\ [Next]_vars => RInv'
<1> SUFFICES ASSUME RInv, [Next]_vars PROVE ReplayBreaksOnlyAtOvertaken'
  BY SStep DEF RInv
<1>1. /\ LInv /\ TInv /\ Finite /\ Finite' /\ TInv' /\ NeverOversold'
      /\ ReplayBreaksOnlyAtOvertaken /\ events \subseteq Events /\ events' \subseteq Events
  BY SStep DEF RInv, SInv, LInv, TInv, TypeOK
<1>2. CASE UNCHANGED <<events, overtaken>>
  BY <1>1, <1>2 DEF ReplayBreaksOnlyAtOvertaken
<1>3. ASSUME NEW time PROVE IsFiniteSet(UpTo(events, time)) /\ IsFiniteSet(UpTo(events', time))
  <2>1. UpTo(events, time) \in SUBSET events /\ UpTo(events', time) \in SUBSET events'
    BY DEF UpTo
  <2> QED
    BY <1>1, <2>1, FS_Subset DEF Finite
<1>4. ASSUME NEW p \in Callers, Commit(p) PROVE ReplayBreaksOnlyAtOvertaken'
  <2>1. \A e \in pending[p] : e.order \notin Sells
    BY <1>1, OrdersAssumption DEF TInv, Shape
  <2>2. events' = events \cup pending[p] /\ overtaken' = overtaken
    BY <1>4 DEF Commit
  <2> SUFFICES ASSUME NEW e \in events', e.order \in Sells,
                      ~ \E o \in overtaken : o.trade = e.trade /\ o.at <= e.at
               PROVE  Covered(UpTo(events', e.at), e.trade)
    BY <2>2 DEF ReplayBreaksOnlyAtOvertaken
  <2>3. Covered(UpTo(events, e.at), e.trade)
    BY <1>1, <2>1, <2>2 DEF ReplayBreaksOnlyAtOvertaken
  <2>4. /\ Bought(UpTo(events, e.at), e.trade) \subseteq Bought(UpTo(events', e.at), e.trade)
        /\ Sold(UpTo(events', e.at), e.trade) \subseteq Sold(UpTo(events, e.at), e.trade)
    BY <2>1, <2>2 DEF Bought, Sold, UpTo
  <2> QED
    BY <1>3, <2>3, <2>4, MoreBought
<1>5. ASSUME NEW p \in Callers, NewSell(p) PROVE ReplayBreaksOnlyAtOvertaken'
  <2> DEFINE t == exitOf[cur[p]]
             f == Fact(p, cur[p], t)
  <2>1. /\ f.trade = t /\ f.order \notin Buys /\ f.order \in Sells /\ f.at = stamp[p]
        /\ events' = events \cup {f} /\ stamp[p] \in 1..MaxClock /\ t \in Trades
    BY <1>1, <1>5, OrdersAssumption DEF NewSell, Fact, TInv, Shape
  <2> SUFFICES ASSUME NEW e \in events', e.order \in Sells,
                      ~ \E o \in overtaken' : o.trade = e.trade /\ o.at <= e.at
               PROVE  Covered(UpTo(events', e.at), e.trade)
    BY DEF ReplayBreaksOnlyAtOvertaken
  <2>2. /\ overtaken' \in {overtaken, overtaken \cup {f}}
        /\ f \in overtaken' \/ \A b \in Bought(events, t) : ~(stamp[p] < b.at)
    BY <1>5 DEF NewSell
  <2>3. \A b \in Bought(events', t) : b \in Bought(events, t) /\ b.at \in 1..MaxClock
    <3> HIDE DEF f, t
    <3> QED
      BY <1>1, <2>1 DEF Bought, Events
  <2> HIDE DEF f, t
  <2>4. e.at \in Int /\ stamp[p] \in Int
    BY <1>1, <2>1, BoundAssumption DEF Events
  <2>5. CASE e.trade = t /\ stamp[p] <= e.at
    <3>0. \A b \in Bought(events', t) : b.at <= stamp[p] /\ b.at \in Int
      BY <2>1, <2>2, <2>3, <2>4, <2>5
    <3>1. /\ Bought(events', t) \subseteq Bought(UpTo(events', e.at), t)
          /\ Sold(UpTo(events', e.at), t) \subseteq Sold(events', t)
      BY <2>4, <2>5, <3>0 DEF Bought, Sold, UpTo
    <3>2. Covered(events', t)
      BY <1>1, <2>1 DEF NeverOversold
    <3> QED
      BY <1>1, <1>3, <2>5, <3>1, <3>2, MoreBought DEF Finite
  <2>6. CASE ~(e.trade = t /\ stamp[p] <= e.at)
    <3>1. e \in events
      BY <2>1, <2>4, <2>6
    <3>2. /\ Bought(UpTo(events, e.at), e.trade) \subseteq Bought(UpTo(events', e.at), e.trade)
          /\ Sold(UpTo(events', e.at), e.trade) \subseteq Sold(UpTo(events, e.at), e.trade)
      BY <2>1, <2>4, <2>6 DEF Bought, Sold, UpTo
    <3>3. Covered(UpTo(events, e.at), e.trade)
      BY <1>1, <2>2, <3>1 DEF ReplayBreaksOnlyAtOvertaken
    <3> QED
      BY <1>3, <3>2, <3>3, MoreBought
  <2> QED
    BY <2>5, <2>6
<1> QED
  BY <1>1, <1>2, <1>4, <1>5, Writes DEF Silent, NewBuy, log, history

\* The projection raises for no SELL but one that, or one before which in its
\* trade, is older than a BUY that authorized it.
THEOREM LogReplays == Spec => []ReplayBreaksOnlyAtOvertaken
<1>1. RInv => ReplayBreaksOnlyAtOvertaken
  BY DEF RInv
<1> QED
  BY <1>1, RInit, RStep, PTL DEF Spec

-----------------------------------------------------------------------------
(* The abstract ledger.                                                    *)

\* What a transaction has bought so far belongs to one trade, the one that is
\* open in what it knows; the trade was in its view or is started by one of
\* its own orders.  Its view is a log that was never oversold.
OneTrade ==
  \A p \in Callers :
    /\ \A e \in pending[p] : OpenTrades(Known(p)) = {e.trade}
    /\ \A e \in pending[p] :
         \/ \E f \in view[p] : f.trade = e.trade
         \/ \E f \in pending[p] : e.trade = Genesis[f.order]
    /\ \A t \in Trades : Covered(view[p], t)

OInv == CInv /\ SInv /\ OneTrade

LEMMA NothingCovered == \A t : Covered({}, t)
<1> SUFFICES ASSUME NEW t PROVE Covered({}, t)
  OBVIOUS
<1>1. Sold({}, t) = {} /\ Bought({}, t) = {}
  BY DEF Sold, Bought
<1> QED
  BY <1>1, FS_EmptySet DEF Covered

LEMMA OInit == Init => OInv
<1> SUFFICES ASSUME Init PROVE OneTrade
  BY CInit, SInit DEF OInv
<1>1. \A p \in Callers : pending[p] = {} /\ view[p] = {}
  BY DEF Init
<1> QED
  BY <1>1, NothingCovered DEF OneTrade

\* What a step does to the view of a caller and to what it has pending.
LEMMA Reads ==
  ASSUME TInv, [Next]_vars, NEW q \in Callers
  PROVE  \/ view'[q] = view[q] /\ pending'[q] = pending[q]
         \/ view'[q] = {} /\ pending'[q] = {}
         \/ view'[q] = events /\ pending'[q] = {}
         \/ \E t \in Trades : NewBuy(q, t)
<1> USE DEF TInv, TypeOK, log, local, history
<1>1. ASSUME NEW p \in Callers, Return(p)
      PROVE  \/ view'[q] = view[q] /\ pending'[q] = pending[q]
             \/ view'[q] = {} /\ pending'[q] = {}
  BY <1>1 DEF Return
<1>2. ASSUME NEW p \in Callers, Load(p)
      PROVE  \/ view'[q] = view[q] /\ pending'[q] = pending[q]
             \/ view'[q] = events /\ pending'[q] = {}
  BY <1>2 DEF Load, Shape
<1>3. ASSUME NEW p \in Callers, BuyAppend(p)
      PROVE  \/ view'[q] = view[q] /\ pending'[q] = pending[q]
             \/ view'[q] = {} /\ pending'[q] = {}
             \/ \E t \in Trades : NewBuy(q, t)
  <2>1. CASE Return(p)
    BY <1>1, <2>1
  <2>2. CASE ~Return(p) /\ q = p
    BY <1>3, <2>2, BuyAppends
  <2>3. CASE ~Return(p) /\ q # p
    BY <1>3, <2>3, BuyAppends DEF NewBuy
  <2> QED
    BY <2>1, <2>2, <2>3
<1>4. ASSUME NEW p \in Callers, Lock(p)
      PROVE  \/ view'[q] = view[q] /\ pending'[q] = pending[q]
             \/ view'[q] = {} /\ pending'[q] = {}
  BY <1>1, <1>4 DEF Lock
<1>5. ASSUME NEW p \in Callers, Commit(p) \/ SellAppend(p) \/ Die(p) PROVE Return(p)
  BY <1>5 DEF Commit, SellAppend, Die
<1>6. ASSUME NEW p \in Callers,
             BuyLeg(p) \/ (\E t \in Trades : BeginBuy(p, t)) \/ \E s \in Sells : BeginSell(p, s)
      PROVE  view'[q] = view[q] /\ pending'[q] = pending[q]
  BY <1>6 DEF BuyLeg, BeginBuy, BeginSell
<1>7. ASSUME NEW s \in Sells, NEW t \in Trades, PlanExit(s, t)
      PROVE  view'[q] = view[q] /\ pending'[q] = pending[q]
  BY <1>7 DEF PlanExit
<1>8. CASE UNCHANGED vars
  BY <1>8 DEF vars
<1> QED
  BY <1>1, <1>2, <1>3, <1>4, <1>5, <1>6, <1>7, <1>8 DEF Next, Step

\* An open trade has an event.
LEMMA OpenHasEvent ==
  ASSUME NEW E, IsFiniteSet(E), NEW t, IsOpen(E, t)
  PROVE  \E e \in E : e.trade = t
<1>1. Bought(E, t) # {}
  BY Counts, FS_EmptySet DEF IsOpen
<1> QED
  BY <1>1 DEF Bought

\* A covered trade with one unit bought more is open.
LEMMA OneBought ==
  ASSUME NEW E, IsFiniteSet(E), NEW t, NEW f, f \notin E, f.trade = t,
         f.order \in Buys, f.order \notin Sells, Covered(E, t)
  PROVE  IsOpen(E \cup {f}, t)
<1>1. Bought(E \cup {f}, t) = Bought(E, t) \cup {f} /\ f \notin Bought(E, t)
  BY DEF Bought
<1>2. Sold(E \cup {f}, t) = Sold(E, t)
  BY DEF Sold
<1>3. Cardinality(Bought(E \cup {f}, t)) = Cardinality(Bought(E, t)) + 1
  BY <1>1, Counts, FS_AddElement
<1> QED
  BY <1>2, <1>3, Counts DEF Covered, IsOpen

\* The trade of a BUY that is added is the one open trade, then.
LEMMA BuyOpens ==
  ASSUME OInv, NEW p \in Callers, NEW t \in Trades, NewBuy(p, t)
  PROVE  /\ OpenTrades(Known(p) \cup {Fact(p, cur[p], t)}) = {t}
         /\ IsFiniteSet(Known(p))
<1> DEFINE f == Fact(p, cur[p], t)
           K == Known(p)
<1>1. TInv /\ Finite /\ \A u \in Trades : Covered(view[p], u)
  BY DEF OInv, SInv, LInv, OneTrade
<1>2. f.trade = t /\ f.order = cur[p] /\ cur[p] \in Buys /\ cur[p] \notin Sells
  BY OrdersAssumption DEF NewBuy, Fact
<1>3. f \notin K
  BY <1>2 DEF NewBuy, Recorded
<1>4. /\ IsFiniteSet(view[p]) /\ IsFiniteSet(K)
      /\ view[p] \subseteq K /\ \A e \in K : e \in view[p] \/ e.order \notin Sells
  <2>1. view[p] \in SUBSET events
    BY <1>1 DEF TInv, Shape
  <2>2. IsFiniteSet(view[p])
    BY <1>1, <2>1, FS_Subset DEF Finite
  <2>3. \A e \in pending[p] : e.order \notin Sells
    BY <1>1, OrdersAssumption DEF TInv, Shape
  <2> QED
    BY <1>1, <2>2, <2>3, FS_Union DEF Finite, Known
<1> HIDE DEF f, K
<1>5. Covered(K, t)
  <2>1. Bought(view[p], t) \subseteq Bought(K, t) /\ Sold(K, t) \subseteq Sold(view[p], t)
    BY <1>4 DEF Bought, Sold
  <2> QED
    BY <1>1, <1>4, <2>1, MoreBought
<1>6. IsOpen(K \cup {f}, t)
  BY <1>2, <1>3, <1>4, <1>5, OneBought
<1>7. ASSUME NEW u \in Trades, u # t PROVE ~IsOpen(K \cup {f}, u)
  <2>1. OpenTrades(K) \subseteq {t}
    BY DEF NewBuy, Resolves, K
  <2>2. ~IsOpen(K, u)
    BY <1>7, <2>1 DEF OpenTrades
  <2>3. IsFiniteSet(K \cup {f})
    BY <1>4, FS_AddElement
  <2>4. /\ Bought(K \cup {f}, u) \subseteq Bought(K, u)
        /\ Sold(K, u) \subseteq Sold(K \cup {f}, u)
    BY <1>2, <1>7 DEF Bought, Sold
  <2> QED
    BY <1>4, <2>2, <2>3, <2>4, MoreBought
<1> QED
  BY <1>4, <1>6, <1>7 DEF OpenTrades, f, K

LEMMA OStep == OInv /\ [Next]_vars => OInv'
<1> SUFFICES ASSUME OInv, [Next]_vars PROVE OneTrade'
  BY CStep, SStep DEF OInv
<1>1. TInv /\ Finite /\ NeverOversold /\ OneTrade
  BY DEF OInv, SInv, LInv
<1> SUFFICES ASSUME NEW q \in Callers
             PROVE  /\ \A e \in pending'[q] : OpenTrades(view'[q] \cup pending'[q]) = {e.trade}
                    /\ \A e \in pending'[q] :
                         \/ \E f \in view'[q] : f.trade = e.trade
                         \/ \E f \in pending'[q] : e.trade = Genesis[f.order]
                    /\ \A t \in Trades : Covered(view'[q], t)
  BY DEF OneTrade, Known, OpenTrades, IsOpen, Covered, Bought, Sold
<1>2. CASE view'[q] = view[q] /\ pending'[q] = pending[q]
  BY <1>1, <1>2 DEF OneTrade, Known
<1>3. CASE view'[q] = {} /\ pending'[q] = {}
  BY <1>3, NothingCovered
<1>4. CASE view'[q] = events /\ pending'[q] = {}
  BY <1>1, <1>4 DEF NeverOversold
<1>5. ASSUME NEW t \in Trades, NewBuy(q, t)
      PROVE  /\ \A e \in pending'[q] : OpenTrades(view'[q] \cup pending'[q]) = {e.trade}
             /\ \A e \in pending'[q] :
                  \/ \E f \in view'[q] : f.trade = e.trade
                  \/ \E f \in pending'[q] : e.trade = Genesis[f.order]
             /\ \A u \in Trades : Covered(view'[q], u)
  <2> DEFINE f == Fact(q, cur[q], t)
  <2>1. /\ view'[q] = view[q] /\ pending'[q] = pending[q] \cup {f}
        /\ f.trade = t /\ f.order = cur[q]
    BY <1>1, <1>5 DEF NewBuy, Fact, TInv, TypeOK
  <2>2. /\ OpenTrades(view'[q] \cup pending'[q]) = {t}
        /\ IsFiniteSet(Known(q))
    <3>1. view'[q] \cup pending'[q] = Known(q) \cup {f}
      BY <2>1 DEF Known
    <3> QED
      BY <1>5, <3>1, BuyOpens
  <2>3. \/ OpenTrades(Known(q)) = {t}
        \/ OpenTrades(Known(q)) = {} /\ t = Genesis[cur[q]]
    BY <1>5 DEF NewBuy, Resolves
  <2> HIDE DEF f
  <2>4. \A e \in pending'[q] : e.trade = t
    BY <1>1, <2>1, <2>3 DEF OneTrade
  <2>5. \/ \E g \in view'[q] : g.trade = t
        \/ \E g \in pending'[q] : t = Genesis[g.order]
    <3>1. CASE OpenTrades(Known(q)) = {t}
      <4>1. IsOpen(Known(q), t)
        BY <3>1 DEF OpenTrades
      <4>2. PICK e \in Known(q) : e.trade = t
        BY <2>2, <4>1, OpenHasEvent
      <4> QED
        <5>1. CASE e \in view[q]
          BY <2>1, <4>2, <5>1
        <5>2. CASE e \in pending[q]
          <6>1. \/ \E g \in view[q] : g.trade = e.trade
                \/ \E g \in pending[q] : e.trade = Genesis[g.order]
            BY <1>1, <5>2 DEF OneTrade
          <6> QED
            BY <2>1, <4>2, <6>1
        <5> QED
          BY <5>1, <5>2 DEF Known
    <3>2. CASE t = Genesis[cur[q]]
      BY <2>1, <3>2
    <3> QED
      BY <2>3, <3>1, <3>2
  <2> QED
    BY <1>1, <2>1, <2>2, <2>4, <2>5 DEF OneTrade
<1> QED
  BY <1>1, <1>2, <1>3, <1>4, <1>5, Reads

-----------------------------------------------------------------------------
(* Two open trades.                                                        *)

\* A transaction that has bought for one trade while another is open has not
\* seen a purchase of that other trade.
MissesOthers ==
  \A p \in Callers : \A f \in pending[p], t \in Trades :
    t # f.trade /\ IsOpen(events, t) => \E e \in Unseen(p) : e.trade = t

AInv == OInv /\ MissesOthers /\ TwoOpenOnlyRaced

LEMMA AInit == Init => AInv
<1> SUFFICES ASSUME Init PROVE MissesOthers /\ TwoOpenOnlyRaced
  BY OInit DEF AInv
<1>1. events = {} /\ \A p \in Callers : pending[p] = {}
  BY DEF Init
<1>2. \A t \in Trades : ~IsOpen(events, t)
  BY <1>1, FS_EmptySet, OpenHasEvent
<1> QED
  BY <1>1, <1>2 DEF MissesOthers, TwoOpenOnlyRaced, OpenTrades

\* A trade that a step opens is one that the step has bought for.
LEMMA OpenedIsBought ==
  ASSUME NEW E, NEW F, IsFiniteSet(E), IsFiniteSet(F), E \subseteq F, NEW t,
         IsOpen(F, t), ~IsOpen(E, t)
  PROVE  \E e \in F \ E : e.trade = t /\ e.order \in Buys
<1> SUFFICES ASSUME \A e \in F \ E : ~(e.trade = t /\ e.order \in Buys) PROVE FALSE
  OBVIOUS
<1>1. Bought(F, t) \subseteq Bought(E, t) /\ Sold(E, t) \subseteq Sold(F, t)
  BY DEF Bought, Sold
<1> QED
  BY <1>1, MoreBought

\* What was bought is added to the open trade, if there is one in the view: a
\* transaction can start another only when it has not seen all purchases.
LEMMA BuyMisses ==
  ASSUME TInv, Finite, NEW p \in Callers, NEW t \in Trades, NewBuy(p, t),
         NEW u \in Trades, u # t, IsOpen(events, u)
  PROVE  \E e \in Unseen(p) : e.trade = u
<1> SUFFICES ASSUME \A e \in Unseen(p) : e.trade # u PROVE FALSE
  OBVIOUS
<1>1. /\ view[p] \subseteq events
      /\ \A e \in pending[p] : e.order \in Buys /\ e.order \notin Sells
  BY OrdersAssumption DEF TInv, Shape
<1>2. IsFiniteSet(events) /\ IsFiniteSet(Known(p))
  <2>1. view[p] \in SUBSET events
    BY <1>1
  <2>2. IsFiniteSet(view[p])
    BY <2>1, FS_Subset DEF Finite
  <2> QED
    BY <2>2, FS_Union DEF Finite, Known
<1>3. /\ Bought(events, u) \subseteq Bought(Known(p), u)
      /\ Sold(Known(p), u) \subseteq Sold(events, u)
  BY <1>1 DEF Bought, Sold, Known, Unseen
<1>4. u \in OpenTrades(Known(p))
  BY <1>2, <1>3, MoreBought DEF OpenTrades
<1> QED
  BY <1>4 DEF NewBuy, Resolves

\* The log grows, by BUY events when a BUY transaction commits.
LEMMA Grows ==
  ASSUME TInv, [Next]_vars
  PROVE  /\ events \subseteq events' /\ raced \subseteq raced'
         /\ \A e \in events' \ events : e.order \in Buys =>
              \E p \in Callers : Commit(p) /\ e \in pending[p]
<1>1. CASE Silent \/ \E p \in Callers, t \in Trades : NewBuy(p, t)
  BY <1>1 DEF Silent, NewBuy, log, history
<1>2. ASSUME NEW p \in Callers, Commit(p)
      PROVE  /\ events \subseteq events' /\ raced \subseteq raced'
             /\ \A e \in events' \ events : e \in pending[p]
  <2>1. events' = events \cup pending[p]
    BY <1>2, Zenon DEF Commit
  <2>2. raced \subseteq raced'
    <3>1. ASSUME NEW r \in raced PROVE r \in raced'
      BY <1>2, <3>1, SMT DEF Commit
    <3> QED
      BY <3>1
  <2> QED
    BY <2>1, <2>2
<1>3. ASSUME NEW p \in Callers, NewSell(p)
      PROVE  /\ events \subseteq events' /\ raced' = raced
             /\ \A e \in events' \ events : e.order \notin Buys
  BY <1>3, OrdersAssumption DEF NewSell, Fact
<1> QED
  BY <1>1, <1>2, <1>3, Writes

LEMMA AStep == AInv /\ [Next]_vars => AInv'
<1> SUFFICES ASSUME AInv, [Next]_vars PROVE MissesOthers' /\ TwoOpenOnlyRaced'
  BY OStep DEF AInv
<1>1. /\ TInv /\ TInv' /\ Finite /\ Finite' /\ OneTrade /\ OneTrade'
      /\ MissesOthers /\ TwoOpenOnlyRaced
  BY OStep DEF AInv, OInv, CInv, LInv, SInv
<1>2. IsFiniteSet(events) /\ IsFiniteSet(events')
  BY <1>1 DEF Finite
<1>3. /\ events \subseteq events' /\ raced \subseteq raced'
      /\ \A e \in events' \ events : e.order \in Buys =>
           \E p \in Callers : Commit(p) /\ e \in pending[p]
  BY <1>1, Grows
<1>4. MissesOthers'
  <2> SUFFICES ASSUME NEW q \in Callers, NEW f \in pending'[q], NEW t \in Trades,
                      t # f.trade, IsOpen(events', t)
               PROVE  \E e \in events' : /\ e.order \in Buys /\ e \notin view'[q]
                                        /\ e.trade = t
    BY DEF MissesOthers, Unseen, IsOpen, Bought, Sold
  <2>1. CASE view'[q] = view[q] /\ pending'[q] = pending[q]
    <3>1. CASE IsOpen(events, t)
      <4>1. PICK e \in Unseen(q) : e.trade = t
        BY <1>1, <2>1, <3>1 DEF MissesOthers
      <4> QED
        BY <1>3, <2>1, <4>1 DEF Unseen
    <3>2. CASE ~IsOpen(events, t)
      <4>1. PICK e \in events' \ events : e.trade = t /\ e.order \in Buys
        BY <1>2, <1>3, <3>2, OpenedIsBought
      <4>2. view[q] \subseteq events
        BY <1>1 DEF TInv, Shape
      <4> QED
        BY <2>1, <4>1, <4>2
    <3> QED
      BY <3>1, <3>2
  <2>2. ASSUME NEW u \in Trades, NewBuy(q, u)
        PROVE  \E e \in events' : /\ e.order \in Buys /\ e \notin view'[q]
                                 /\ e.trade = t
    <3>1. events' = events /\ view'[q] = view[q]
      BY <2>2 DEF NewBuy, log
    <3>2. Fact(q, cur[q], u) \in pending'[q] /\ Fact(q, cur[q], u).trade = u
      BY <1>1, <2>2 DEF NewBuy, Fact, TInv, TypeOK
    <3>3. f.trade = u
      <4>1. {f.trade} = {u}
        BY <1>1, <3>2, Zenon DEF OneTrade
      <4> QED
        BY <4>1
    <3>4. PICK e \in Unseen(q) : e.trade = t
      BY <1>1, <2>2, <3>1, <3>3, BuyMisses
    <3> QED
      BY <3>1, <3>4 DEF Unseen
  <2> QED
    BY <1>1, <2>1, <2>2, Reads
<1>5. TwoOpenOnlyRaced'
  <2>1. ASSUME NEW t \in Trades, NEW u \in Trades, t # u,
               IsOpen(events', t), IsOpen(events', u), ~IsOpen(events, t)
        PROVE  {t, u} \in raced'
    <3>1. PICK f \in events' \ events : f.trade = t /\ f.order \in Buys
      BY <1>2, <1>3, <2>1, OpenedIsBought
    <3>2. PICK p \in Callers : Commit(p) /\ f \in pending[p]
      BY <1>3, <3>1
    <3>3. \A e \in pending[p] : e.trade = t
      <4>1. OpenTrades(Known(p)) = {t}
        BY <1>1, <3>1, <3>2, Zenon DEF OneTrade
      <4>2. \A e \in pending[p] : OpenTrades(Known(p)) = {e.trade}
        BY <1>1, Zenon DEF OneTrade
      <4> QED
        BY <4>1, <4>2
    <3>4. IsOpen(events, u)
      <4> SUFFICES ASSUME ~IsOpen(events, u) PROVE FALSE
        OBVIOUS
      <4>1. PICK g \in events' \ events : g.trade = u /\ g.order \in Buys
        BY <1>2, <1>3, <2>1, OpenedIsBought
      <4>2. g \in pending[p]
        BY <3>2, <4>1 DEF Commit
      <4> QED
        BY <2>1, <3>3, <4>1, <4>2
    <3>5. PICK e \in Unseen(p) : e.trade = u
      BY <1>1, <2>1, <3>1, <3>2, <3>4 DEF MissesOthers
    <3>6. {e.trade, f.trade} \in raced'
      BY <3>2, <3>5 DEF Commit
    <3>7. {e.trade, f.trade} = {t, u}
      BY <3>1, <3>5
    <3> QED
      BY <3>6, <3>7
  <2>2. ASSUME NEW t \in Trades, NEW u \in Trades, t # u,
               IsOpen(events', t), IsOpen(events', u)
        PROVE  {t, u} \in raced'
    <3>1. CASE IsOpen(events, t) /\ IsOpen(events, u)
      BY <1>1, <1>3, <2>2, <3>1 DEF TwoOpenOnlyRaced, OpenTrades
    <3>2. {t, u} = {u, t}
      OBVIOUS
    <3> QED
      BY <2>1, <2>2, <3>1, <3>2
  <2> QED
    BY <2>2 DEF TwoOpenOnlyRaced, OpenTrades, IsOpen, Bought, Sold
<1> QED
  BY <1>4, <1>5

\* Two trades are open at once only when the one was bought by a transaction
\* that had not seen a purchase of the other.
THEOREM OpenTradesRaced == Spec => []TwoOpenOnlyRaced
<1>1. AInv => TwoOpenOnlyRaced
  BY DEF AInv
<1> QED
  BY <1>1, AInit, AStep, PTL DEF Spec

-----------------------------------------------------------------------------
(* The steps of the abstract ledger.                                       *)

\* The table of the exit plans is written by its planner only.
LEMMA ExitsPlanned ==
  ASSUME [Next]_vars
  PROVE  exitOf' = exitOf \/ \E s \in Sells, t \in Trades : PlanExit(s, t)
<1>1. ASSUME NEW p \in Callers, Step(p) PROVE exitOf' = exitOf
  <2>1. ASSUME Commit(p) PROVE exitOf' = exitOf
    BY <2>1, Zenon DEF Commit
  <2> QED
    BY <1>1, <2>1 DEF Step, BeginBuy, BuyLeg, Load, BuyAppend, BeginSell, Lock,
                      SellAppend, Die, log
<1>2. CASE UNCHANGED vars
  BY <1>2 DEF vars, log
<1> QED
  BY <1>1, <1>2 DEF Next

\* What is left of a trade reads the same in the abstract ledger.
LEMMA HasLeftIsOpen == \A t : Ownership!HasLeft(t) <=> IsOpen(events, t)
  BY DEF Ownership!HasLeft, IsOpen, Sold, Bought, Cardinality, Ownership!Cardinality

LEMMA OwnershipInit == Init => Ownership!Init
  BY DEF Init, Ownership!Init

\* What a BUY transaction has bought becomes owned at its commit.
LEMMA CommitBuys ==
  ASSUME OInv, NEW p \in Callers, Commit(p), exitOf' = exitOf
  PROVE  [Ownership!Next]_(Ownership!vars)
<1>1. events' = events \cup pending[p]
  BY DEF Commit
<1>2. /\ TInv /\ OneTrade /\ EachOnce /\ pending[p] \in SUBSET Events
      /\ view[p] \subseteq events /\ \A e \in pending[p] : e.order \in Buys
  BY DEF OInv, CInv, SInv, LInv, TInv, TypeOK, Shape
<1>3. CASE pending[p] = {}
  BY <1>1, <1>3 DEF Ownership!vars
<1>4. ASSUME NEW e \in pending[p] PROVE Ownership!Buy(e.trade) /\ e.trade \in Trades
  <2>1. e.trade \in Trades
    BY <1>2, <1>4 DEF Events
  <2>2. events' \ events = pending[p]
    BY <1>1, <1>2 DEF EachOnce, Recorded
  <2>3. \A f \in pending[p] : f.trade = e.trade
    BY <1>2 DEF OneTrade
  <2>4. \A f \in pending[p] : ~ \E g \in events : g.order = f.order
    BY <1>2 DEF EachOnce, Recorded
  <2>5. \A f, g \in pending[p] : f.order = g.order => f = g
    BY <1>2 DEF EachOnce
  <2>6. (\E f \in events : f.trade = e.trade) \/ \E f \in pending[p] : e.trade = Genesis[f.order]
    BY <1>2 DEF OneTrade
  <2>7. Ownership!Added = pending[p]
    BY <2>2 DEF Ownership!Added
  <2> QED
    BY <1>1, <1>2, <2>1, <2>3, <2>4, <2>5, <2>6, <2>7 DEF Ownership!Buy, Ownership!IsRecorded
<1> QED
  BY <1>3, <1>4 DEF Ownership!Next

\* A SELL is recorded once and takes what is left of its trade.
LEMMA NewSellSells ==
  ASSUME OInv, NEW p \in Callers, NewSell(p)
  PROVE  [Ownership!Next]_(Ownership!vars)
<1> DEFINE s == cur[p]
           t == exitOf[s]
           f == Fact(p, s, t)
<1>1. LInv /\ TInv /\ Finite /\ s \in Sells /\ exitOf' = exitOf
  BY DEF OInv, SInv, LInv, NewSell
<1>2. events' = events \cup {f} /\ f.order = s /\ f.trade = t
  BY DEF NewSell, Fact
<1>3. ~Recorded(events, s)
  BY <1>1, SellIsNew DEF NewSell
<1>4. IsOpen(events, t)
  <2>1. IsOpen(view[p], t) /\ view[p] \in SUBSET events
    BY <1>1 DEF NewSell, Authorized, TInv, Shape
  <2>2. Sold(events, t) \subseteq view[p]
    BY <1>1 DEF NewSell, LInv, HeldView
  <2>3. Bought(view[p], t) \subseteq Bought(events, t) /\ Sold(events, t) \subseteq Sold(view[p], t)
    BY <2>1, <2>2 DEF Bought, Sold
  <2>4. IsFiniteSet(view[p]) /\ IsFiniteSet(events)
    BY <1>1, <2>1, FS_Subset DEF Finite
  <2> HIDE DEF t
  <2> QED
    BY <2>1, <2>3, <2>4, MoreBought
<1> HIDE DEF f
<1>5. Ownership!Sell(s)
  BY <1>1, <1>2, <1>3, <1>4, HasLeftIsOpen DEF Ownership!Sell, Ownership!IsRecorded, Recorded
<1> QED
  BY <1>1, <1>5 DEF Ownership!Next

LEMMA OwnershipStep ==
  ASSUME OInv, [Next]_vars
  PROVE  [Ownership!Next]_(Ownership!vars)
<1>1. TInv
  BY DEF OInv, SInv, LInv
<1>2. ASSUME NEW s \in Sells, NEW t \in Trades, PlanExit(s, t)
      PROVE  [Ownership!Next]_(Ownership!vars)
  <2>1. Ownership!Plan(s, t)
    BY <1>2, HasLeftIsOpen DEF PlanExit, Ownership!Plan
  <2> QED
    BY <2>1 DEF Ownership!Next
<1>3. CASE exitOf' = exitOf /\ events' = events
  BY <1>3 DEF Ownership!vars
<1> QED
  BY <1>1, <1>2, <1>3, ExitsPlanned, Writes, CommitBuys, NewSellSells DEF Silent, NewBuy, log

\* Every behaviour of the callers is one of the abstract ledger.
THEOREM OwnershipKept == Spec => ImplementsOwnership
<1>1. OInv /\ [Next]_vars => [Ownership!Next]_(Ownership!vars)
  BY OwnershipStep
<1> QED
  BY <1>1, OInit, OStep, OwnershipInit, PTL DEF Spec, ImplementsOwnership, Ownership!Spec
=============================================================================
