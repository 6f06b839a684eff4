--------------------------- MODULE StrategyInventory ---------------------------
(***************************************************************************)
(* Strategy-owned inventory: what a strategy owns is not read from a       *)
(* wallet but replayed from an append-only table of events, one for each   *)
(* filled PAPER order.  Two functions write them, each called with the     *)
(* connection of its caller, by any number of processes at once:           *)
(*                                                                         *)
(*   BUY   src/entry_policy/automatic_buy_paper_fill_execution_v1.py       *)
(*   SELL  src/orchestration/fib_map_bound_exit_paper_fill_execution_v1.py *)
(*                                                                         *)
(* The BUY side takes no lock and leaves the commit to its caller, so that *)
(* all legs of one call are one transaction, whose view of the table is    *)
(* fixed by its first read.  The SELL side locks the rows of the lineage   *)
(* it reduces and commits each leg.                                        *)
(*                                                                         *)
(* One account and one strategy; a lineage is then a trade.  An order is   *)
(* one rung of a ladder and its quantity the unit.  The evidence of a      *)
(* filled leg is one snapshot of a stable identity, hence at most one fact *)
(* and one event per order, which are written together: the model keeps    *)
(* the event.  Two calls of now_fn() return different times.               *)
(***************************************************************************)
EXTENDS Integers, FiniteSets

CONSTANTS
  Callers,     \* invocations of the two functions
  NumBuys,     \* BUY orders are 1..NumBuys, in the order of their legs
  Genesis,     \* the plan of a BUY order, which is also its new trade_id
  Sells,       \* SELL orders: exit plans of one leg
  MaxClock,    \* bound: calls of now_fn()
  NoTrade,     \* the exit plan does not exist yet
  NoOrder      \* the caller is at no leg

Buys == 1..NumBuys
Trades == {Genesis[b] : b \in Buys}
Orders == Buys \cup Sells
Events == [order : Orders, trade : Trades, at : 1..MaxClock]

ASSUME BoundAssumption == NumBuys \in Nat /\ MaxClock \in Nat
ASSUME OrdersAssumption == /\ Buys \cap Sells = {}
                           /\ NoOrder \notin Orders
                           /\ NoTrade \notin Trades

VARIABLES
  events,      \* committed rows of strategy_owned_inventory_event_v1
  filled,      \* orders whose leg is FILLED
  exitOf,      \* the trade that an exit plan reduces
  clock,       \* the last time returned by now_fn()
  pc,          \* the next step of each caller
  todo,        \* BUY legs of its plan that it has yet to look at
  cur,         \* the order it is at
  stamp,       \* observed_ts_utc of that order's evidence
  opened,      \* its transaction has a read view
  view,        \* that view: the events committed at its first read
  pending,     \* its own events, not committed
  raced,       \* history: pairs of trades, of which one was bought by a
               \* transaction that had not seen a purchase of the other
  overtaken    \* history: SELL events older than a BUY that authorized them

log == <<events, filled, exitOf, clock>>
local == <<todo, cur, stamp, opened, view, pending>>
history == <<raced, overtaken>>
vars == <<log, pc, local, history>>

Steps == {"idle", "leg", "load", "append", "commit", "lock"}

\* Every variable has its type, and a SELL event reduces the trade of its plan.
TypeOK ==
  /\ events \in SUBSET Events
  /\ filled \in SUBSET Orders
  /\ exitOf \in [Sells -> Trades \cup {NoTrade}]
  /\ clock \in 0..MaxClock
  /\ pc \in [Callers -> Steps]
  /\ todo \in [Callers -> SUBSET Buys]
  /\ cur \in [Callers -> Orders \cup {NoOrder}]
  /\ stamp \in [Callers -> 0..MaxClock]
  /\ opened \in [Callers -> BOOLEAN]
  /\ view \in [Callers -> SUBSET Events]
  /\ pending \in [Callers -> SUBSET Events]
  /\ raced \in SUBSET (SUBSET Trades)
  /\ overtaken \in SUBSET Events
  /\ \A e \in events : e.order \in Sells => e.trade = exitOf[e.order]

Init ==
  /\ events = {}
  /\ filled = {}
  /\ exitOf = [s \in Sells |-> NoTrade]
  /\ clock = 0
  /\ pc = [p \in Callers |-> "idle"]
  /\ todo = [p \in Callers |-> {}]
  /\ cur = [p \in Callers |-> NoOrder]
  /\ stamp = [p \in Callers |-> 0]
  /\ opened = [p \in Callers |-> FALSE]
  /\ view = [p \in Callers |-> {}]
  /\ pending = [p \in Callers |-> {}]
  /\ raced = {}
  /\ overtaken = {}

-----------------------------------------------------------------------------
(* The projection of events into owned quantities. *)

Bought(E, t) == {e \in E : e.trade = t /\ e.order \in Buys}
Sold(E, t) == {e \in E : e.trade = t /\ e.order \in Sells}

UpTo(E, time) == {e \in E : e.at <= time}

\* Nothing is sold that is not there: the quantity owned is not negative.
Covered(E, t) == Cardinality(Sold(E, t)) <= Cardinality(Bought(E, t))

\* project_strategy_owned_inventory_v1 replays the events in the order of
\* their times and raises at a SELL that its trade does not cover by then:
\* for all positions of the account, whichever is asked for.
Projects(E) ==
  \A e \in E : e.order \in Sells => Covered(UpTo(E, e.at), e.trade)

\* owned_base_quantity > 0.
IsOpen(E, t) == Cardinality(Sold(E, t)) < Cardinality(Bought(E, t))

OpenTrades(E) == {t \in Trades : IsOpen(E, t)}

\* What a caller reads: its view, and what it has written itself.
Known(p) == view[p] \cup pending[p]

Recorded(E, o) == \E e \in E : e.order = o

-----------------------------------------------------------------------------
(* The control of one call. *)

\* The call ends; what it has not committed is rolled back.
Return(p) ==
  /\ pc' = [pc EXCEPT ![p] = "idle"]
  /\ todo' = [todo EXCEPT ![p] = {}]
  /\ cur' = [cur EXCEPT ![p] = NoOrder]
  /\ stamp' = [stamp EXCEPT ![p] = 0]
  /\ opened' = [opened EXCEPT ![p] = FALSE]
  /\ view' = [view EXCEPT ![p] = {}]
  /\ pending' = [pending EXCEPT ![p] = {}]

\* The loop over the legs goes on; the caller commits after the last.
NextLeg(p, left) ==
  /\ todo' = [todo EXCEPT ![p] = left]
  /\ pc' = [pc EXCEPT ![p] = IF left = {} THEN "commit" ELSE "leg"]
  /\ cur' = [cur EXCEPT ![p] = NoOrder]
  /\ stamp' = [stamp EXCEPT ![p] = 0]

\* now_fn() for the evidence of a FILLED leg.
Observe(p, o, step) ==
  /\ clock < MaxClock
  /\ clock' = clock + 1
  /\ filled' = filled \cup {o}
  /\ cur' = [cur EXCEPT ![p] = o]
  /\ stamp' = [stamp EXCEPT ![p] = clock + 1]
  /\ pc' = [pc EXCEPT ![p] = step]

\* The rows of a trade are locked by the SELL that reduces it: an insert of that
\* lineage waits for the lock, and the lock for an insert that is not committed.
\* Two inserts do not wait for each other, unless they are of the same order.
LockedBy(q, t) ==
  pc[q] \in {"load", "append"} /\ cur[q] \in Sells /\ exitOf[cur[q]] = t

Unlocked(p, t) == \A q \in Callers \ {p} : ~LockedBy(q, t)

IsFree(p, t) == Unlocked(p, t) /\ \A q \in Callers \ {p} : \A e \in pending[q] : e.trade # t

-----------------------------------------------------------------------------
(* Filled BUY legs: submit_and_reconcile_automatic_buy_paper_plan_v1. *)

BeginBuy(p, t) ==
  /\ pc[p] = "idle"
  /\ NextLeg(p, {b \in Buys : Genesis[b] = t})
  /\ UNCHANGED <<log, opened, view, pending, history>>

\* The next leg rests, and is left out, or it is FILLED by now.
BuyLeg(p) ==
  /\ pc[p] = "leg"
  /\ \E b \in todo[p] :
       /\ \A c \in todo[p] : b <= c
       /\ \/ /\ b \notin filled
             /\ NextLeg(p, todo[p] \ {b})
             /\ UNCHANGED <<clock, filled>>
          \/ /\ Observe(p, b, "load")
             /\ UNCHANGED todo
  /\ UNCHANGED <<events, exitOf, opened, view, pending, history>>

\* The facts and the events are read: the first read opens the view.
Load(p) ==
  /\ pc[p] = "load"
  /\ pc' = [pc EXCEPT ![p] = "append"]
  /\ IF opened[p] THEN UNCHANGED <<opened, view>> ELSE
       /\ opened' = [opened EXCEPT ![p] = TRUE]
       /\ view' = [view EXCEPT ![p] = events]
  /\ UNCHANGED <<log, todo, cur, stamp, pending, history>>

\* resolve_automatic_buy_fill_lineage_v1: the open trade, or the plan's own.
Resolves(p, b, t) ==
  /\ Projects(Known(p))
  /\ \/ OpenTrades(Known(p)) = {t}
     \/ OpenTrades(Known(p)) = {} /\ t = Genesis[b]

Fact(p, b, t) == [order |-> b, trade |-> t, at |-> stamp[p]]

\* Mutant: an existing fact is not looked for, and no key forbids a second.
BuyAppendTwice(p) ==
  LET b == cur[p] IN
  /\ pc[p] = "append" /\ b \in Buys
  /\ \/ \E t \in Trades :
          /\ Resolves(p, b, t)
          /\ Unlocked(p, t)
          /\ pending' = [pending EXCEPT ![p] = @ \cup {Fact(p, b, t)}]
          /\ NextLeg(p, todo[p] \ {b})
          /\ UNCHANGED <<opened, view>>
     \/ (~ \E t \in Trades : Resolves(p, b, t)) /\ Return(p)
  /\ UNCHANGED <<log, history>>

\* Mutant: every plan starts a trade of its own.
BuyAppendFresh(p) ==
  LET b == cur[p] IN
  /\ pc[p] = "append" /\ b \in Buys
  /\ \/ /\ ~Recorded(Known(p) \cup events, b)
        /\ Unlocked(p, Genesis[b])
        /\ \A q \in Callers : ~Recorded(pending[q], b)
        /\ pending' = [pending EXCEPT ![p] = @ \cup {Fact(p, b, Genesis[b])}]
        /\ NextLeg(p, todo[p] \ {b})
        /\ UNCHANGED <<opened, view>>
     \/ Recorded(Known(p) \cup events, b) /\ Return(p)
  /\ UNCHANGED <<log, history>>

\* A leg with a fact of the same lineage is done; one without is appended,
\* unless the key of the fact exists by now outside of the view.  An insert
\* of the same key by somebody else is waited for.  Everything else raises:
\* more than one open trade, a log that does not project, or a fact that
\* names another trade than the one that was resolved.
BuyAppend(p) ==
  LET b == cur[p] IN
  /\ pc[p] = "append" /\ b \in Buys
  /\ \/ \E e \in Known(p) :
          /\ e.order = b /\ Resolves(p, b, e.trade)
          /\ NextLeg(p, todo[p] \ {b})
          /\ UNCHANGED <<opened, view, pending>>
     \/ \E t \in Trades :
          /\ ~Recorded(Known(p), b) /\ Resolves(p, b, t)
          /\ Unlocked(p, t)
          /\ \A q \in Callers : ~Recorded(pending[q], b)
          /\ IF Recorded(events, b) THEN Return(p) ELSE
               /\ pending' = [pending EXCEPT ![p] = @ \cup {Fact(p, b, t)}]
               /\ NextLeg(p, todo[p] \ {b})
               /\ UNCHANGED <<opened, view>>
     \/ /\ \A t \in Trades :
             Resolves(p, b, t) => \E e \in Known(p) : e.order = b /\ e.trade # t
        /\ Return(p)
  /\ UNCHANGED <<log, history>>

\* BUY events that were committed after the view was opened.
Unseen(p) == {e \in events : e.order \in Buys /\ e \notin view[p]}

\* The caller's commit.
Commit(p) ==
  /\ pc[p] = "commit"
  /\ events' = events \cup pending[p]
  /\ raced' = raced \cup {{e.trade, f.trade} : e \in Unseen(p), f \in pending[p]}
  /\ Return(p)
  /\ UNCHANGED <<filled, exitOf, clock, overtaken>>

-----------------------------------------------------------------------------
(* Filled SELL legs: submit_and_reconcile_fib_map_bound_exit_paper_plan_v1. *)

\* An exit plan is made for a position that is open when it is made.
PlanExit(s, t) ==
  /\ exitOf[s] = NoTrade
  /\ Projects(events)
  /\ IsOpen(events, t)
  /\ exitOf' = [exitOf EXCEPT ![s] = t]
  /\ UNCHANGED <<events, filled, clock, pc, local, history>>

BeginSell(p, s) ==
  /\ pc[p] = "idle"
  /\ exitOf[s] # NoTrade
  /\ Observe(p, s, "lock")
  /\ UNCHANGED <<events, exitOf, todo, opened, view, pending, history>>

\* Mutant: the lineage is not locked.
LockNothing(p) ==
  /\ pc[p] = "lock"
  /\ pc' = [pc EXCEPT ![p] = "load"]
  /\ UNCHANGED <<log, local, history>>

\* _lock_exact_inventory_lineage_v1: without a row to lock it raises.
Lock(p) ==
  LET t == exitOf[cur[p]] IN
  /\ pc[p] = "lock"
  /\ IsFree(p, t)
  /\ IF \E e \in events : e.trade = t
       THEN pc' = [pc EXCEPT ![p] = "load"] /\ UNCHANGED local
       ELSE Return(p)
  /\ UNCHANGED <<log, history>>

\* authorize_strategy_owned_reduction_v1: the trade covers one more unit.
Authorized(p) == Projects(view[p]) /\ IsOpen(view[p], exitOf[cur[p]])

\* Mutant: the reduction is not authorized.
SellAppendFreely(p) ==
  LET s == cur[p] IN
  /\ pc[p] = "append" /\ s \in Sells
  /\ events' = events \cup IF Recorded(view[p], s) THEN {}
                           ELSE {Fact(p, s, exitOf[s])}
  /\ Return(p)
  /\ UNCHANGED <<filled, exitOf, clock, history>>

\* Mutant: the reduction is taken from whichever trade is open.
SellAppendAnywhere(p) ==
  LET s == cur[p] IN
  /\ pc[p] = "append" /\ s \in Sells
  /\ \E t \in OpenTrades(view[p]) : events' = events \cup {Fact(p, s, t)}
  /\ Return(p)
  /\ UNCHANGED <<filled, exitOf, clock, history>>

\* A leg with a fact is done; an authorized reduction is appended; both are
\* committed.  Everything else raises and is rolled back.
SellAppend(p) ==
  LET s == cur[p]  t == exitOf[s] IN
  /\ pc[p] = "append" /\ s \in Sells
  /\ IF ~Recorded(view[p], s) /\ Authorized(p)
       THEN /\ events' = events \cup {Fact(p, s, t)}
            /\ overtaken' = IF \E e \in Bought(events, t) : stamp[p] < e.at
                              THEN overtaken \cup {Fact(p, s, t)} ELSE overtaken
       ELSE UNCHANGED <<events, overtaken>>
  /\ Return(p)
  /\ UNCHANGED <<filled, exitOf, clock, raced>>

-----------------------------------------------------------------------------

\* The process dies, or the database ends its transaction (a deadlock, a lock
\* that is waited for too long).
Die(p) ==
  /\ pc[p] # "idle"
  /\ Return(p)
  /\ UNCHANGED <<log, history>>

Step(p) ==
  \/ \E t \in Trades : BeginBuy(p, t)
  \/ BuyLeg(p) \/ Load(p) \/ BuyAppend(p) \/ Commit(p)
  \/ \E s \in Sells : BeginSell(p, s)
  \/ Lock(p) \/ SellAppend(p)
  \/ Die(p)

Next ==
  \/ \E p \in Callers : Step(p)
  \/ \E s \in Sells, t \in Trades : PlanExit(s, t)

Spec == Init /\ [][Next]_vars

-----------------------------------------------------------------------------
(* Properties. *)

\* A fill is counted once, however often and by however many callers its leg
\* is reconciled ("exact snapshot replay remains idempotent").
CountedOnce == \A e, f \in events : e.order = f.order => e = f

\* No trade is sold further than it was bought: of two exits that were planned
\* for the same position only one finds it covered.
NeverOversold == \A t \in Trades : Covered(events, t)

\* "More than one open position ... correct accounting should never produce":
\* two trades are open at once only when the purchases of one were committed by
\* a transaction that had not seen a purchase of the other.  However else BUY
\* and SELL transactions overlap, the next fill can be attributed.
TwoOpenOnlyRaced ==
  \A t, u \in OpenTrades(events) : t = u \/ {t, u} \in raced

\* The replay raises at a SELL only when it, or one at an earlier time of the
\* same trade, was authorized by a BUY that is later in the replay.  All before
\* that, and all other trades, are replayed as they were authorized.
ReplayBreaksOnlyAtOvertaken ==
  \A e \in events : e.order \in Sells =>
    \/ Covered(UpTo(events, e.at), e.trade)
    \/ \E o \in overtaken : o.trade = e.trade /\ o.at <= e.at

Ownership == INSTANCE OwnershipLedger WITH ledger <- events, exit <- exitOf

\* However many callers reconcile the same legs at once, with whatever views,
\* and wherever they die: each order is entered once ("exact snapshot replay
\* remains idempotent"), a transaction buys for one trade, which was known or
\* is started by it, and a SELL takes what is left of the trade of its plan.
ImplementsOwnership == Ownership!Spec
=============================================================================
