------------------------------ MODULE PaperOrders ------------------------------
(***************************************************************************)
(* PAPER orders: one call of                                               *)
(*                                                                         *)
(*   src/entry_policy/automatic_buy_paper_fill_execution_v1.py       (BUY) *)
(*   src/orchestration/fib_map_bound_exit_paper_fill_execution_v1.py(SELL) *)
(*                                                                         *)
(* submits the legs of one plan through the shared orchestrator with the   *)
(* PAPER adapter, then looks at the legs again: one that rested before the *)
(* call is filled if the market has since priced through it, and every     *)
(* FILLED leg is reconciled into the strategy's inventory.  Nothing keeps  *)
(* a call to itself: it has no claim on the handoff and no lease, only the *)
(* compare-and-swap updates of a leg's state.  It is repeated for as long  *)
(* as legs rest, two calls may overlap, and any may die between two steps. *)
(*                                                                         *)
(* A statement on a leg or a placement is a transaction of its own, hence  *)
(* a step.  The inventory's rows of a BUY are committed by the caller at   *)
(* the end, those of a SELL by each reduction (StrategyInventory has what  *)
(* happens inside those transactions).                                     *)
(***************************************************************************)
EXTENDS Integers

CONSTANTS
  Calls,       \* processes that make one call after the other
  NumLegs,     \* the legs of the plan are 1..NumLegs, in leg_index order
  Price,       \* the limit price of a leg
  Quotes,      \* [bid, ask]: what the market may show
  MaxAge,      \* max_quote_age_seconds
  MaxTime,     \* bound: ticks of the clock
  MaxCalls,    \* bound: calls made
  NoQuote,     \* the market shows nothing yet, or a call has no quote
  NoAck        \* no placement recorded, or a call has no acknowledgement

Legs == 1..NumLegs
Times == 0..MaxTime
Sides == {"BUY", "SELL"}

ASSUME BoundAssumption ==
  /\ NumLegs \in Nat \ {0}
  /\ MaxAge \in Nat
  /\ MaxTime \in Nat
  /\ MaxCalls \in Nat
ASSUME PriceAssumption == /\ Price \in [Legs -> Int]
                          /\ Quotes \subseteq [bid : Int, ask : Int]
ASSUME NoneAssumption ==
  /\ NoQuote \notin [at : Times, bid : Int, ask : Int]
  /\ NoQuote \notin [quote : [at : Times, bid : Int, ask : Int], own : BOOLEAN]
  /\ NoAck \notin {"ACTIVE", "REJECTED"}
  /\ NoAck \notin [state : {"ACTIVE", "REJECTED"}, at : Times]

VARIABLES
  side,        \* the side of the plan
  now,         \* the clock, of the market and of the executor
  market,      \* latest_quote: the last quote and when it was observed
  leg,         \* state of the rows of executor_execution_leg
  placement,   \* rows of executor_paper_order_placement
  bridged,     \* legs whose fill is committed to the inventory
  calls,       \* calls made so far
  pc,          \* the next step of each call
  cur,         \* the leg it is at
  resting,     \* pre_submit_active_leg_indices
  seen,        \* the state of the leg when _resolve_leg was given it
  ack,         \* the acknowledgement it holds
  quote,       \* the quote that shows its leg priced through
  pending,     \* fills it has written to the inventory, not committed
  mine,        \* history: legs it has placed, or whose order it has found ACTIVE
  unanswered,  \* history: legs whose lookup failed
  known,       \* history: legs that had a placement when the call began
  owed,        \* history: legs that were FILLED when the call began
  fill         \* history: the quote each FILLED leg was filled at

world == <<side, now, market>>
local == <<cur, resting, seen, ack, quote, pending>>
history == <<mine, unanswered, known, owed>>
vars == <<world, leg, placement, bridged, calls, pc, local, history, fill>>

Accepted == {"ACTIVE", "FILLED"}
InDoubt == {"SUBMISSION_UNCERTAIN", "RECONCILIATION_REQUIRED"}
States == {"none", "PREPARED", "REJECTED"} \cup Accepted \cup InDoubt
Acks == {"ACTIVE", "REJECTED"}
Observed == {[at |-> t, bid |-> q.bid, ask |-> q.ask] : t \in Times, q \in Quotes}

SubmitSteps == {"prepare", "claim", "place", "record", "uncertain", "persist",
                "lookup", "missing"}
FillSteps == {"look", "evidence", "fill", "commit"}
Steps == {"idle", "before"} \cup SubmitSteps \cup FillSteps

\* Every variable has its type.
TypeOK ==
  /\ side \in Sides
  /\ now \in Times
  /\ market \in Observed \cup {NoQuote}
  /\ leg \in [Legs -> States]
  /\ placement \in [Legs -> [state : Acks, at : Times] \cup {NoAck}]
  /\ bridged \in SUBSET Legs
  /\ calls \in 0..MaxCalls
  /\ pc \in [Calls -> Steps]
  /\ cur \in [Calls -> Legs]
  /\ resting \in [Calls -> SUBSET Legs]
  /\ seen \in [Calls -> States]
  /\ ack \in [Calls -> Acks \cup {NoAck}]
  /\ quote \in [Calls -> Observed \cup {NoQuote}]
  /\ pending \in [Calls -> SUBSET Legs]
  /\ mine \in [Calls -> SUBSET Legs]
  /\ unanswered \in [Calls -> SUBSET Legs]
  /\ known \in [Calls -> SUBSET Legs]
  /\ owed \in [Calls -> SUBSET Legs]
  /\ fill \in [Legs -> [quote : Observed, own : BOOLEAN] \cup {NoQuote}]

Init ==
  /\ side \in Sides
  /\ now = 0
  /\ market = NoQuote
  /\ leg = [l \in Legs |-> "none"]
  /\ placement = [l \in Legs |-> NoAck]
  /\ bridged = {}
  /\ calls = 0
  /\ pc = [c \in Calls |-> "idle"]
  /\ cur = [c \in Calls |-> 1]
  /\ resting = [c \in Calls |-> {}]
  /\ seen = [c \in Calls |-> "none"]
  /\ ack = [c \in Calls |-> NoAck]
  /\ quote = [c \in Calls |-> NoQuote]
  /\ pending = [c \in Calls |-> {}]
  /\ mine = [c \in Calls |-> {}]
  /\ unanswered = [c \in Calls |-> {}]
  /\ known = [c \in Calls |-> {}]
  /\ owed = [c \in Calls |-> {}]
  /\ fill = [l \in Legs |-> NoQuote]

-----------------------------------------------------------------------------
(* The market. *)

\* A quote is evidence while it is not in the future and not too old.
Fresh(q) == q # NoQuote /\ now - q.at >= 0 /\ now - q.at <= MaxAge

\* A post-only order that would trade at once is rejected...
WouldCross(l, q) == IF side = "BUY" THEN Price[l] >= q.ask ELSE Price[l] <= q.bid

\* ...and one that rests trades when the market is strictly through it.
PricedThrough(l, q) == IF side = "BUY" THEN q.ask < Price[l] ELSE q.bid > Price[l]

Tick ==
  /\ now < MaxTime
  /\ now' = now + 1
  /\ UNCHANGED <<side, market, leg, placement, bridged, calls, pc, local, history, fill>>

Publish ==
  /\ \E q \in Quotes : market' = [at |-> now, bid |-> q.bid, ask |-> q.ask]
  /\ UNCHANGED <<side, now, leg, placement, bridged, calls, pc, local, history, fill>>

-----------------------------------------------------------------------------
(* The control of one call. *)

\* The call ends; what it has not committed is rolled back.
Return(c) ==
  /\ pc' = [pc EXCEPT ![c] = "idle"]
  /\ cur' = [cur EXCEPT ![c] = 1]
  /\ resting' = [resting EXCEPT ![c] = {}]
  /\ seen' = [seen EXCEPT ![c] = "none"]
  /\ ack' = [ack EXCEPT ![c] = NoAck]
  /\ quote' = [quote EXCEPT ![c] = NoQuote]
  /\ pending' = [pending EXCEPT ![c] = {}]
  /\ mine' = [mine EXCEPT ![c] = {}]
  /\ unanswered' = [unanswered EXCEPT ![c] = {}]
  /\ known' = [known EXCEPT ![c] = {}]
  /\ owed' = [owed EXCEPT ![c] = {}]

Goto(c, step) == pc' = [pc EXCEPT ![c] = step]

\* Mutant: the orchestrator goes on whatever became of the leg.
ResolvedAnyway(c, state) ==
  /\ IF cur[c] < NumLegs
     THEN Goto(c, "prepare") /\ cur' = [cur EXCEPT ![c] = @ + 1]
     ELSE Goto(c, "look") /\ cur' = [cur EXCEPT ![c] = 1]
  /\ seen' = [seen EXCEPT ![c] = "none"]
  /\ ack' = [ack EXCEPT ![c] = NoAck]
  /\ UNCHANGED <<resting, quote, pending, known, owed>>

\* _resolve_leg has returned a leg in that state: the orchestrator goes on
\* with the next leg if it is accepted, and otherwise stops.
Resolved(c, state) ==
  /\ IF state \in Accepted /\ cur[c] < NumLegs
     THEN Goto(c, "prepare") /\ cur' = [cur EXCEPT ![c] = @ + 1]
     ELSE Goto(c, "look") /\ cur' = [cur EXCEPT ![c] = 1]
  /\ seen' = [seen EXCEPT ![c] = "none"]
  /\ ack' = [ack EXCEPT ![c] = NoAck]
  /\ UNCHANGED <<resting, quote, pending, known, owed>>

\* Mutant: the loop runs one leg too far.
NextLegTooFar(c) ==
  /\ IF cur[c] <= NumLegs
     THEN Goto(c, "look") /\ cur' = [cur EXCEPT ![c] = @ + 1]
     ELSE Goto(c, "commit") /\ UNCHANGED cur
  /\ quote' = [quote EXCEPT ![c] = NoQuote]
  /\ UNCHANGED <<resting, seen, ack, history>>

\* The loop over the fills goes on with the next leg.
NextLeg(c) ==
  /\ IF cur[c] < NumLegs
     THEN Goto(c, "look") /\ cur' = [cur EXCEPT ![c] = @ + 1]
     ELSE Goto(c, "commit") /\ UNCHANGED cur
  /\ quote' = [quote EXCEPT ![c] = NoQuote]
  /\ UNCHANGED <<resting, seen, ack, history>>

-----------------------------------------------------------------------------
(* Which legs rested before: read one by one, before anything is submitted. *)

Begin(c) ==
  /\ pc[c] = "idle"
  /\ calls < MaxCalls
  /\ calls' = calls + 1
  /\ Goto(c, "before")
  /\ known' = [known EXCEPT ![c] = {l \in Legs : placement[l] # NoAck}]
  /\ owed' = [owed EXCEPT ![c] = {l \in Legs : leg[l] = "FILLED"}]
  /\ UNCHANGED <<world, leg, placement, bridged, local, mine, unanswered, fill>>

LookBefore(c) ==
  /\ pc[c] = "before"
  /\ resting' = IF leg[cur[c]] = "ACTIVE"
                THEN [resting EXCEPT ![c] = @ \cup {cur[c]}] ELSE resting
  /\ IF cur[c] < NumLegs
     THEN UNCHANGED pc /\ cur' = [cur EXCEPT ![c] = @ + 1]
     ELSE Goto(c, "prepare") /\ cur' = [cur EXCEPT ![c] = 1]
  /\ UNCHANGED <<world, leg, placement, bridged, calls, seen, ack, quote, pending,
                 history, fill>>

-----------------------------------------------------------------------------
(* submit_execution_plan, one leg after the other. *)

\* persist_prepared, and what _resolve_leg does with the state it returns.
Prepare(c) ==
  LET l == cur[c]
      state == IF leg[l] = "none" THEN "PREPARED" ELSE leg[l]
  IN  /\ pc[c] = "prepare"
      /\ leg' = [leg EXCEPT ![l] = state]
      /\ \/ /\ state \notin {"PREPARED"} \cup InDoubt
            /\ Resolved(c, state)
         \/ /\ state \in {"PREPARED"} \cup InDoubt
            /\ Goto(c, IF state = "PREPARED" THEN "claim" ELSE "lookup")
            /\ seen' = [seen EXCEPT ![c] = state]
            /\ UNCHANGED <<cur, resting, ack, quote, pending, known, owed>>
      /\ UNCHANGED <<world, placement, bridged, calls, mine, unanswered, fill>>

\* Mutant: the update does not ask for the state it was read in.
ClaimAnyway(c) ==
  /\ pc[c] = "claim"
  /\ leg' = [leg EXCEPT ![cur[c]] = "SUBMISSION_UNCERTAIN"]
  /\ Goto(c, "place")
  /\ UNCHANGED <<world, placement, bridged, calls, local, history, fill>>

\* claim_submission: one call wins the leg and will place its order.
Claim(c) ==
  /\ pc[c] = "claim"
  /\ \/ /\ leg[cur[c]] = "PREPARED"
        /\ leg' = [leg EXCEPT ![cur[c]] = "SUBMISSION_UNCERTAIN"]
        /\ Goto(c, "place")
        /\ UNCHANGED local
     \/ /\ leg[cur[c]] # "PREPARED"
        /\ Resolved(c, leg[cur[c]])
        /\ UNCHANGED leg
  /\ UNCHANGED <<world, placement, bridged, calls, history, fill>>

\* place_order up to its decision, which needs evidence.  A leg is claimed
\* once, so a placement to recover is never there yet.
Place(c) ==
  /\ pc[c] = "place"
  /\ Fresh(market)
  /\ ack' = [ack EXCEPT ![c] = IF WouldCross(cur[c], market) THEN "REJECTED" ELSE "ACTIVE"]
  /\ Goto(c, "record")
  /\ UNCHANGED <<world, leg, placement, bridged, calls, cur, resting, seen, quote,
                 pending, history, fill>>

\* An exception of place_order is caught; an acknowledgement is lost with it.
Raised(c) == Goto(c, "uncertain") /\ ack' = [ack EXCEPT ![c] = NoAck]

\* record_placement: the row is durable before the acknowledgement returns,
\* and stays when the answer of its commit is lost, which place_order raises.
Record(c) ==
  LET l == cur[c] IN
  /\ pc[c] = "record"
  /\ placement' = [placement EXCEPT ![l] = [state |-> ack[c], at |-> now]]
  /\ mine' = [mine EXCEPT ![c] = @ \cup {l}]
  /\ \/ Goto(c, "persist") /\ UNCHANGED ack
     \/ Raised(c)
  /\ UNCHANGED <<world, leg, bridged, calls, cur, resting, seen, quote, pending,
                 unanswered, known, owed, fill>>

\* place_order raises and has placed nothing: there is no evidence, or one of
\* its statements fails.
PlaceFails(c) ==
  /\ pc[c] \in {"place", "record"}
  /\ Raised(c)
  /\ UNCHANGED <<world, leg, placement, bridged, calls, cur, resting, seen, quote,
                 pending, history, fill>>

\* mark_uncertain, and what _resolve_leg makes of its conflict: a leg in doubt
\* stops the ladder, one that another call has resolved meanwhile raises.
MarkUncertain(c) ==
  LET l == cur[c] IN
  /\ pc[c] = "uncertain"
  /\ \/ leg[l] \in InDoubt /\ Resolved(c, leg[l]) /\ UNCHANGED <<mine, unanswered>>
     \/ leg[l] \notin InDoubt /\ Return(c)
  /\ UNCHANGED <<world, leg, placement, bridged, calls, fill>>

\* reconcile_execution_leg asks the adapter for the order of a leg in doubt.
Lookup(c) ==
  LET l == cur[c] IN
  /\ pc[c] = "lookup"
  /\ IF placement[l] # NoAck
     THEN Goto(c, "persist") /\ ack' = [ack EXCEPT ![c] = placement[l].state]
     ELSE Goto(c, "missing") /\ UNCHANGED ack
  /\ UNCHANGED <<world, leg, placement, bridged, calls, cur, resting, seen, quote,
                 pending, history, fill>>

\* The query fails, which is swallowed: the leg is read again and taken as it
\* is by then.
LookupFailed(c) ==
  LET l == cur[c] IN
  /\ pc[c] = "lookup"
  /\ Resolved(c, leg[l])
  /\ unanswered' = [unanswered EXCEPT ![c] = @ \cup {l}]
  /\ UNCHANGED <<world, leg, placement, bridged, calls, mine, fill>>

\* There is none: mark_reconciliation_required, then the leg is read again.
\* It raises when the leg has been acknowledged in between.
Missing(c) ==
  LET l == cur[c] IN
  /\ pc[c] = "missing"
  /\ \/ /\ seen[c] = "SUBMISSION_UNCERTAIN"
        /\ leg[l] = "SUBMISSION_UNCERTAIN"
        /\ leg' = [leg EXCEPT ![l] = "RECONCILIATION_REQUIRED"]
        /\ seen' = [seen EXCEPT ![c] = "RECONCILIATION_REQUIRED"]
        /\ UNCHANGED <<pc, cur, resting, ack, quote, pending, history>>
     \/ /\ \/ seen[c] = "RECONCILIATION_REQUIRED"
           \/ leg[l] = "RECONCILIATION_REQUIRED"
        /\ Resolved(c, leg[l])
        /\ UNCHANGED <<leg, mine, unanswered>>
     \/ /\ seen[c] = "SUBMISSION_UNCERTAIN"
        /\ leg[l] \notin InDoubt
        /\ Return(c)
        /\ UNCHANGED leg
  /\ UNCHANGED <<world, placement, bridged, calls, fill>>

\* Mutant: a leg that requires reconciliation is no longer updated.
ReplaceableUncertain(c) == {"SUBMISSION_UNCERTAIN"}

\* The states an acknowledgement may replace: the winner of the claim holds
\* one for a leg it made uncertain, a reconciliation for any leg in doubt.
Replaceable(c) == IF seen[c] = "PREPARED" THEN {"SUBMISSION_UNCERTAIN"} ELSE InDoubt

\* persist_order_ack.  A late acknowledgement does not overwrite a leg that a
\* concurrent call has put into reconciliation; any other state is a conflict
\* and raises.
Persist(c) ==
  LET l == cur[c] IN
  /\ pc[c] = "persist"
  /\ \/ /\ leg[l] \in Replaceable(c)
        /\ leg' = [leg EXCEPT ![l] = ack[c]]
        /\ Resolved(c, ack[c])
        /\ mine' = IF ack[c] = "ACTIVE" THEN [mine EXCEPT ![c] = @ \cup {l}] ELSE mine
        /\ UNCHANGED unanswered
     \/ /\ leg[l] \notin Replaceable(c)
        /\ leg[l] \in {ack[c], "RECONCILIATION_REQUIRED"}
        /\ Resolved(c, leg[l])
        /\ UNCHANGED <<leg, mine, unanswered>>
     \/ /\ leg[l] \notin Replaceable(c) \cup {ack[c], "RECONCILIATION_REQUIRED"}
        /\ Return(c)
        /\ UNCHANGED leg
  /\ UNCHANGED <<world, placement, bridged, calls, fill>>

-----------------------------------------------------------------------------
(* The fills. *)

\* The fill of a leg is written to the inventory: a BUY in the transaction of
\* the caller, a SELL in one of its own.
Bridge(c) ==
  \/ /\ side = "BUY"
     /\ pending' = [pending EXCEPT ![c] = @ \cup {cur[c]}]
     /\ UNCHANGED bridged
  \/ /\ side = "SELL"
     /\ bridged' = bridged \cup {cur[c]}
     /\ UNCHANGED pending

\* Mutant: every ACTIVE leg is looked at, and not those that rested before.
LookAtAll(c) ==
  LET l == cur[c] IN
  /\ pc[c] = "look"
  /\ \/ leg[l] = "FILLED" /\ Bridge(c) /\ NextLeg(c)
     \/ /\ leg[l] = "ACTIVE"
        /\ Goto(c, "evidence")
        /\ UNCHANGED <<bridged, local, history>>
     \/ leg[l] \notin Accepted /\ NextLeg(c) /\ UNCHANGED <<bridged, pending>>
  /\ UNCHANGED <<world, leg, placement, calls, fill>>

\* Mutant: only a leg that rested before the call can have a fill.
LookAtResting(c) ==
  LET l == cur[c] IN
  /\ pc[c] = "look"
  /\ \/ leg[l] = "FILLED" /\ l \in resting[c] /\ Bridge(c) /\ NextLeg(c)
     \/ /\ leg[l] = "ACTIVE" /\ l \in resting[c]
        /\ Goto(c, "evidence")
        /\ UNCHANGED <<bridged, local, history>>
     \/ l \notin resting[c] /\ NextLeg(c) /\ UNCHANGED <<bridged, pending>>
  /\ UNCHANGED <<world, leg, placement, calls, fill>>

\* find_by_handoff_and_index: a FILLED leg is reconciled, whoever filled it;
\* an ACTIVE one is looked into only if it rested before this call.
Look(c) ==
  LET l == cur[c] IN
  /\ pc[c] = "look"
  /\ \/ leg[l] = "FILLED" /\ Bridge(c) /\ NextLeg(c)
     \/ /\ leg[l] = "ACTIVE" /\ l \in resting[c]
        /\ Goto(c, "evidence")
        /\ UNCHANGED <<bridged, local, history>>
     \/ /\ leg[l] # "FILLED"
        /\ ~(leg[l] = "ACTIVE" /\ l \in resting[c])
        /\ NextLeg(c)
        /\ UNCHANGED <<bridged, pending>>
  /\ UNCHANGED <<world, leg, placement, calls, fill>>

\* Mutant: a quote as old as the placement is evidence, too.
EvidentAtOnce(l) ==
  /\ Fresh(market)
  /\ placement[l] # NoAck
  /\ placement[l].state = "ACTIVE"
  /\ market.at >= placement[l].at
  /\ PricedThrough(l, market)

\* The quote shows that the market came through the order after its placement.
Evident(l) ==
  /\ Fresh(market)
  /\ placement[l] # NoAck
  /\ placement[l].state = "ACTIVE"
  /\ market.at > placement[l].at
  /\ PricedThrough(l, market)

\* reconcile_paper_resting_leg_v1 up to its update.  It reads the leg again,
\* before it reads the quote: another call may have filled it before that, or
\* only since.
Evidence(c) ==
  LET l == cur[c] IN
  /\ pc[c] = "evidence"
  /\ \/ leg[l] = "FILLED" /\ Bridge(c) /\ NextLeg(c)
     \/ /\ Evident(l)
        /\ Goto(c, "fill")
        /\ quote' = [quote EXCEPT ![c] = market]
        /\ UNCHANGED <<bridged, cur, resting, seen, ack, pending, history>>
     \/ ~Evident(l) /\ NextLeg(c) /\ UNCHANGED <<bridged, pending>>
  /\ UNCHANGED <<world, leg, placement, calls, fill>>

\* mark_active_filled_price_through: the leg is ACTIVE, or FILLED already.
Fill(c) ==
  LET l == cur[c] IN
  /\ pc[c] = "fill"
  /\ \/ /\ leg[l] = "ACTIVE"
        /\ leg' = [leg EXCEPT ![l] = "FILLED"]
        /\ fill' = [fill EXCEPT ![l] = [quote |-> quote[c], own |-> l \in mine[c]]]
     \/ leg[l] = "FILLED" /\ UNCHANGED <<leg, fill>>
  /\ Bridge(c)
  /\ NextLeg(c)
  /\ UNCHANGED <<world, placement, calls>>

\* The caller commits what the call has written to the inventory.
Commit(c) ==
  /\ pc[c] = "commit"
  /\ bridged' = bridged \cup pending[c]
  /\ Return(c)
  /\ UNCHANGED <<world, leg, placement, calls, fill>>

\* The call dies, or the database fails it: what is committed stays.
Die(c) ==
  /\ pc[c] # "idle"
  /\ Return(c)
  /\ UNCHANGED <<world, leg, placement, bridged, calls, fill>>

Submit(c) == \/ Prepare(c) \/ Claim(c) \/ Place(c) \/ Record(c) \/ PlaceFails(c)
             \/ MarkUncertain(c) \/ Lookup(c) \/ LookupFailed(c) \/ Missing(c)
             \/ Persist(c)

Reconcile(c) == Look(c) \/ Evidence(c) \/ Fill(c) \/ Commit(c)

Next == \/ Tick \/ Publish
        \/ \E c \in Calls : \/ Begin(c) \/ LookBefore(c) \/ Submit(c)
                            \/ Reconcile(c) \/ Die(c)

Spec == Init /\ [][Next]_vars

-----------------------------------------------------------------------------
(* Properties. *)

\* The leg and the record of its placement never contradict each other, in
\* whatever order calls claim, place, record, look up and die: a leg without a
\* recorded order is at most in doubt, a leg whose order was accepted is never
\* shown as rejected nor the reverse, and a leg has a row only once all legs
\* before it are accepted.
AckTruth ==
  \A l \in Legs :
    /\ placement[l] = NoAck => leg[l] \in {"none", "PREPARED"} \cup InDoubt
    /\ placement[l] # NoAck =>
         leg[l] \in InDoubt \cup (IF placement[l].state = "ACTIVE"
                                  THEN Accepted ELSE {"REJECTED"})
    /\ leg[l] # "none" => \A k \in 1..(l - 1) : leg[k] \in Accepted

\* An acknowledgement recorded by a call that died, or that lost the answer of
\* its commit, is not lost: a call that gets as far as its fills has brought
\* every leg that had a placement when it began out of doubt, also one another
\* call marked for reconciliation.  The one exception is a leg whose own lookup
\* failed; a failure or an unresolved leg elsewhere on the ladder is none.
AckRecovered ==
  \A c \in Calls :
    pc[c] \in FillSteps =>
      \A l \in known[c] : leg[l] \in Accepted \cup {"REJECTED"} \/ l \in unanswered[c]

\* A leg is FILLED only on a quote that is later than its placement and
\* strictly through its price, and never by the call that placed it.
FillsAreEarned ==
  \A l \in Legs :
    /\ leg[l] = "FILLED" <=> fill[l] # NoQuote
    /\ fill[l] # NoQuote =>
         /\ placement[l] # NoAck
         /\ fill[l].quote.at > placement[l].at
         /\ PricedThrough(l, fill[l].quote)
         /\ ~fill[l].own

\* A fill whose call died before its inventory rows were committed is not
\* forgotten: the next call that completes commits it.
NoFillForgotten ==
  \A c \in Calls : pc[c] = "commit" => owed[c] \subseteq bridged \cup pending[c]

-----------------------------------------------------------------------------
(* What the calls promise together: the submission of SubmitOnce, although *)
(* nobody holds the plan.                                                  *)

Phase(l) ==
  CASE leg[l] \in {"none", "PREPARED"} -> "idle"
    [] leg[l] \in InDoubt              -> "committed"
    [] leg[l] \in Accepted             -> "accepted"
    [] OTHER                           -> "closed"

Placed(l) == IF placement[l] = NoAck THEN 0 ELSE 1

\* One plan, which is never finished: its calls are repeated.
Submission == INSTANCE SubmitOnce WITH
  Handoffs   <- {"plan"},
  LegIndexes <- Legs,
  phase      <- [l \in {"plan"} \X Legs |-> Phase(l[2])],
  posted     <- [l \in {"plan"} \X Legs |-> Placed(l[2])],
  finished   <- {}

\* However calls overlap, overtake each other and die, a leg is committed in
\* the order of the ladder and by one call, its order is recorded once and
\* after that, and it is resolved only once its order is recorded (the
\* orchestrator, the PAPER adapter and the compare-and-swap updates of a leg
\* together).
ImplementsSubmitOnce == Submission!Spec

\* A recorded placement is never recorded again or taken back.
PlacedOnce ==
  [][\A l \in Legs : placement[l] # NoAck => placement'[l] = placement[l]]_vars
================================================================================
