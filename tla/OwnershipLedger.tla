--------------------------- MODULE OwnershipLedger ---------------------------
(***************************************************************************)
(* What the strategy-owned inventory promises of its table of events,      *)
(* without callers, transactions, views, locks and crashes.  Entries are   *)
(* added and never changed, one for each order.  What a transaction buys   *)
(* belongs to one trade, known before or started by one of its own orders; *)
(* one unit at a time is sold, from the trade that its exit plan was made  *)
(* for, and only while that trade has a unit left                          *)
(* (src/entry_policy/automatic_buy_paper_fill_execution_v1.py and          *)
(* src/orchestration/fib_map_bound_exit_paper_fill_execution_v1.py).       *)
(***************************************************************************)
EXTENDS Naturals, FiniteSets

CONSTANTS Buys, Sells, Trades, Genesis, NoTrade

VARIABLES
  ledger,   \* entries of an order and its trade
  exit      \* the trade that a SELL order reduces

vars == <<ledger, exit>>

\* Some of the trade is left.
HasLeft(t) ==
  Cardinality({e \in ledger : e.trade = t /\ e.order \in Sells})
    < Cardinality({e \in ledger : e.trade = t /\ e.order \in Buys})

IsRecorded(o) == \E e \in ledger : e.order = o

Init ==
  /\ ledger = {}
  /\ exit = [s \in Sells |-> NoTrade]

Plan(s, t) ==
  /\ exit[s] = NoTrade
  /\ HasLeft(t)
  /\ exit' = [exit EXCEPT ![s] = t]
  /\ UNCHANGED ledger

Added == ledger' \ ledger

Buy(t) ==
  /\ ledger \subseteq ledger'
  /\ \A e \in Added : e.order \in Buys /\ e.trade = t /\ ~IsRecorded(e.order)
  /\ \A e, f \in Added : e.order = f.order => e = f
  /\ (\E e \in ledger : e.trade = t) \/ \E e \in Added : t = Genesis[e.order]
  /\ UNCHANGED exit

Sell(s) ==
  /\ ~IsRecorded(s)
  /\ HasLeft(exit[s])
  /\ \E e \in ledger' :
       e.order = s /\ e.trade = exit[s] /\ ledger' = ledger \cup {e}
  /\ UNCHANGED exit

Next ==
  \/ \E t \in Trades : Buy(t)
  \/ \E s \in Sells : Sell(s) \/ \E t \in Trades : Plan(s, t)

Spec == Init /\ [][Next]_vars
=============================================================================
