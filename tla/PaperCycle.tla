----------------------------- MODULE PaperCycle -----------------------------
(***************************************************************************)
(* The legacy PAPER path: the planner turns gate decisions into rows of    *)
(* execution_plan with a capital_reservation, the executor fills the plans *)
(* that can be executed, the plan lifecycle aborts those whose selection   *)
(* no longer holds and releases their capital.  All of it is booked in one *)
(* portfolio_sleeve.  Four programs work on these tables, each started by  *)
(* hand or by a chain, any number of them at once:                         *)
(*                                                                         *)
(*   planner    src/execution_planner/run_execution_planner_v1.py          *)
(*   cycle      src/orchestration/run_paper_cycle_v1.py                    *)
(*   executor   src/executor/run_executor_v1.py                            *)
(*   lifecycle  src/plan_lifecycle/run_plan_lifecycle.py                   *)
(*                                                                         *)
(* Each repository call has a connection of its own and is one action: the *)
(* calls that move money lock every row they read (SELECT ... FOR UPDATE). *)
(* Between two calls anything can happen, and an error that a program does *)
(* not catch ends it there.                                                *)
(*                                                                         *)
(* All plans are PAPER BUY plans of one account, sleeve and venue, for the *)
(* same max_notional_eur, which is the unit of every amount below.  A SELL *)
(* is refused everywhere on this path, so no position is ever closed.      *)
(***************************************************************************)
EXTENDS Integers, FiniteSets

CONSTANTS
  Processes,  \* invocations of the four programs
  Assets,     \* the assets with a selection row
  MaxPlans,   \* bound: rows of execution_plan
  Equity,     \* allocated equity of the sleeve
  MinEquity,  \* DecisionGateConfig.min_available_equity_eur
  NoAsset     \* the process is at no selection row

Plans == 1..MaxPlans
Selections == {"IGNORE", "WATCHLIST", "PREPARE", "BUY_READY"}
Open == {"IDLE", "PLANNED"}
PlanStates == {"ABSENT", "FILLED", "ABORTED", "CANCELLED"} \cup Open
Actions == {"PREPARE_PLAN", "SPREAD_CAPTURE_PASSIVE"}
Intents == {"NONE", "WATCHLIST_PREPLAN", "PREPARE", "EXECUTE"}

ASSUME BoundAssumption == MaxPlans \in Nat
ASSUME EquityAssumption == Equity \in Nat /\ MinEquity \in Nat
ASSUME AssetsAssumption == Assets # {} /\ NoAsset \notin Assets

VARIABLES
  state,        \* execution_plan.plan_state
  action,       \* execution_plan.desired_action
  asset,        \* execution_plan.asset_id
  reservation,  \* capital_reservation.reservation_state of the plan
  sleeve,       \* the equity columns of portfolio_sleeve
  position,     \* portfolio_position.market_value_eur
  fills,        \* plans with a PAPER_FILL_PASSIVE row in execution_event
  pc,           \* the next call of each process
  program,      \* "planner" or "cycle" while the process plans
  rows,         \* assets whose selection row it has yet to look at
  queue,        \* plans it has fetched and yet to work on
  cur,          \* the asset of the row it is at
  intent,       \* the decision on that row
  target,       \* the plan it cancels, updates or releases, 0 for none
  seen,         \* the available equity it has read with them
  raced,        \* history: assets whose row two processes were at, at once
  orphaned      \* history: plans whose release died with its process

plans == <<state, action, asset, reservation>>
books == <<sleeve, position, fills>>
local == <<program, rows, cur, intent, seen>>
history == <<raced, orphaned>>
vars == <<plans, books, pc, local, queue, target, history>>

Planning == {"gate", "existing", "cancel", "update", "create"}
Steps == Planning \cup {"idle", "fetch", "fill", "abort", "release"}

Sleeves == [available : Nat, reserved : Nat, deployed : Nat]

\* Every variable has its type; a plan row exists when its asset is known.
TypeOK ==
  /\ state \in [Plans -> PlanStates]
  /\ action \in [Plans -> Actions]
  /\ asset \in [Plans -> Assets \cup {NoAsset}]
  /\ reservation \in [Plans -> {"NONE", "ACTIVE", "RELEASED"}]
  /\ sleeve \in Sleeves
  /\ position \in [Assets -> Nat]
  /\ fills \in SUBSET Plans
  /\ pc \in [Processes -> Steps]
  /\ program \in [Processes -> {"planner", "cycle"}]
  /\ rows \in [Processes -> SUBSET Assets]
  /\ queue \in [Processes -> SUBSET Plans]
  /\ cur \in [Processes -> Assets \cup {NoAsset}]
  /\ intent \in [Processes -> Intents]
  /\ target \in [Processes -> Plans \cup {0}]
  /\ seen \in [Processes -> Nat]
  /\ raced \in SUBSET Assets
  /\ orphaned \in SUBSET Plans
  /\ \A p \in Plans : state[p] # "ABSENT" <=> asset[p] \in Assets
  /\ \A w \in Processes :
       /\ pc[w] \in Planning \ {"gate"} => cur[w] \in Assets
       /\ pc[w] \in {"cancel", "update", "release"} =>
            target[w] \in Plans /\ state[target[w]] # "ABSENT"
       /\ \A p \in queue[w] : state[p] # "ABSENT"

Init ==
  /\ state = [p \in Plans |-> "ABSENT"]
  /\ action = [p \in Plans |-> "PREPARE_PLAN"]
  /\ asset = [p \in Plans |-> NoAsset]
  /\ reservation = [p \in Plans |-> "NONE"]
  /\ sleeve = [available |-> Equity, reserved |-> 0, deployed |-> 0]
  /\ position = [a \in Assets |-> 0]
  /\ fills = {}
  /\ pc = [w \in Processes |-> "idle"]
  /\ program = [w \in Processes |-> "planner"]
  /\ rows = [w \in Processes |-> {}]
  /\ queue = [w \in Processes |-> {}]
  /\ cur = [w \in Processes |-> NoAsset]
  /\ intent = [w \in Processes |-> "NONE"]
  /\ target = [w \in Processes |-> 0]
  /\ seen = [w \in Processes |-> 0]
  /\ raced = {}
  /\ orphaned = {}

-----------------------------------------------------------------------------
(* The control of one invocation. *)

\* The invocation ends, at the end of its program or by an exception.
Return(w) ==
  /\ pc' = [pc EXCEPT ![w] = "idle"]
  /\ program' = [program EXCEPT ![w] = "planner"]
  /\ rows' = [rows EXCEPT ![w] = {}]
  /\ queue' = [queue EXCEPT ![w] = {}]
  /\ cur' = [cur EXCEPT ![w] = NoAsset]
  /\ intent' = [intent EXCEPT ![w] = "NONE"]
  /\ target' = [target EXCEPT ![w] = 0]
  /\ seen' = [seen EXCEPT ![w] = 0]

GoTo(w, step, p) ==
  /\ pc' = [pc EXCEPT ![w] = step]
  /\ target' = [target EXCEPT ![w] = p]
  /\ UNCHANGED <<program, rows, cur, intent, seen, queue>>

\* The loop over the selection rows goes on; a cycle then executes.
NextRow(w, a) ==
  LET left == rows[w] \ {a} IN
  IF left = {} /\ program[w] = "planner" THEN Return(w) ELSE
    /\ rows' = [rows EXCEPT ![w] = left]
    /\ pc' = [pc EXCEPT ![w] = IF left = {} THEN "fetch" ELSE "gate"]
    /\ seen' = [seen EXCEPT ![w] = IF left = {} THEN 0 ELSE @]
    /\ cur' = [cur EXCEPT ![w] = NoAsset]
    /\ intent' = [intent EXCEPT ![w] = "NONE"]
    /\ target' = [target EXCEPT ![w] = 0]
    /\ UNCHANGED <<program, queue>>

\* Plans are worked on in the order of their ids.
IsNext(w, p) == p \in queue[w] /\ \A q \in queue[w] : p <= q

\* The loop over the fetched plans goes on.
NextPlan(w, p, step) ==
  LET left == queue[w] \ {p} IN
  IF left = {} THEN Return(w) ELSE
    /\ queue' = [queue EXCEPT ![w] = left]
    /\ pc' = [pc EXCEPT ![w] = step]
    /\ target' = [target EXCEPT ![w] = 0]
    /\ UNCHANGED <<program, rows, cur, intent, seen>>

-----------------------------------------------------------------------------
(* The planner, and the first stage of a cycle. *)

OpenPlans(a) == {p \in Plans : asset[p] = a /\ state[p] \in Open}

\* The sleeve is read once, before the loop over the selection rows.
StartPlanning(w, kind) ==
  /\ pc[w] = "idle"
  /\ pc' = [pc EXCEPT ![w] = "gate"]
  /\ program' = [program EXCEPT ![w] = kind]
  /\ rows' = [rows EXCEPT ![w] = Assets]
  /\ seen' = [seen EXCEPT ![w] = sleeve.available]
  /\ UNCHANGED <<plans, books, cur, intent, queue, target, history>>

IntentOf(s) == CASE s = "WATCHLIST" -> "WATCHLIST_PREPLAN"
                 [] s = "PREPARE"   -> "PREPARE"
                 [] s = "BUY_READY" -> "EXECUTE"
                 [] OTHER           -> "NONE"

\* The gate's own checks: no active plan, no open position, enough equity as
\* it was before the loop.
Passes(w, a) ==
  /\ OpenPlans(a) = {}
  /\ position[a] = 0
  /\ seen[w] >= MinEquity

\* evaluate_selection_for_account.  The selection of an asset may be anything
\* at any time; the gate may also deny a row for a reason that is not
\* modelled: the sleeve's status, the setup filter, an open order; so may the
\* context policy of the planner.
Decisions(w, a) ==
  {"NONE"} \cup IF Passes(w, a) THEN {IntentOf(s) : s \in Selections} ELSE {}

\* A cycle acts on a PREPARE or BUY_READY row only.
Gate(w, a) ==
  /\ pc[w] = "gate"
  /\ a \in rows[w]
  /\ \E i \in Decisions(w, a) :
       IF program[w] = "cycle" /\ i \notin {"PREPARE", "EXECUTE"}
         THEN NextRow(w, a)
         ELSE /\ pc' = [pc EXCEPT ![w] =
                          IF program[w] = "cycle" THEN "create" ELSE "existing"]
              /\ cur' = [cur EXCEPT ![w] = a]
              /\ intent' = [intent EXCEPT ![w] = i]
              /\ UNCHANGED <<program, rows, queue, target, seen>>
  /\ raced' = IF \E v \in Processes : cur[v] = a THEN raced \cup {a} ELSE raced
  /\ UNCHANGED <<plans, books, orphaned>>

\* _is_stale_idle_preplan: also true when the gate denied the row because of
\* this very plan.
Stale(p, i) == action[p] = "PREPARE_PLAN" /\ state[p] = "IDLE" /\ i = "NONE"

\* The planner looks for the latest active plan a second time, after the
\* gate did, and believes this answer.
Existing(w) ==
  LET found == OpenPlans(cur[w]) IN
  /\ pc[w] = "existing"
  /\ \/ \E p \in found :
          /\ \A q \in found : q <= p
          /\ CASE Stale(p, intent[w])                 -> GoTo(w, "cancel", p)
               [] intent[w] \in {"PREPARE", "EXECUTE"} -> GoTo(w, "update", p)
               [] OTHER                                -> NextRow(w, cur[w])
     \/ found = {} /\ intent[w] = "NONE" /\ NextRow(w, cur[w])
     \/ found = {} /\ intent[w] # "NONE" /\ GoTo(w, "create", 0)
  /\ UNCHANGED <<plans, books, history>>

\* cancel_stale_preplan: the UPDATE has the state in its condition.  The
\* reservation is not looked at.
Cancel(w) ==
  LET p == target[w] IN
  /\ pc[w] = "cancel"
  /\ state' = IF state[p] = "IDLE" /\ action[p] = "PREPARE_PLAN"
                THEN [state EXCEPT ![p] = "CANCELLED"] ELSE state
  /\ NextRow(w, cur[w])
  /\ UNCHANGED <<action, asset, reservation, books, history>>

\* update_plan: any plan of that id becomes what was decided, whatever its
\* state by now, and nothing is reserved for it.
Update(w) ==
  /\ pc[w] = "update"
  /\ action' = [action EXCEPT ![target[w]] =
                  IF intent[w] = "EXECUTE" THEN "SPREAD_CAPTURE_PASSIVE"
                                           ELSE "PREPARE_PLAN"]
  /\ NextRow(w, cur[w])
  /\ UNCHANGED <<state, asset, reservation, books, history>>

\* The next AUTO_INCREMENT id.
IsNew(p) == state[p] = "ABSENT" /\ \A q \in Plans : q < p => state[q] # "ABSENT"

InsertPlan(w, p) ==
  /\ IsNew(p)
  /\ asset' = [asset EXCEPT ![p] = cur[w]]
  /\ state' = [state EXCEPT ![p] = IF intent[w] = "EXECUTE" THEN "PLANNED" ELSE "IDLE"]
  /\ action' = [action EXCEPT ![p] =
                  IF intent[w] = "EXECUTE" THEN "SPREAD_CAPTURE_PASSIVE"
                                           ELSE "PREPARE_PLAN"]

\* Mutant: the available equity is not read again under the lock.
CreateUnchecked(w) ==
  /\ pc[w] = "create"
  /\ \E p \in Plans : InsertPlan(w, p) /\
       IF program[w] = "planner" /\ intent[w] # "EXECUTE"
         THEN UNCHANGED <<reservation, sleeve>>
         ELSE /\ reservation' = [reservation EXCEPT ![p] = "ACTIVE"]
              /\ sleeve' = [sleeve EXCEPT !.reserved = @ + 1, !.available = @ - 1]
  /\ NextRow(w, cur[w])
  /\ UNCHANGED <<position, fills, history>>

\* Mutant: an executable plan is created without a reservation.
CreateUnreserved(w) ==
  /\ pc[w] = "create"
  /\ \E p \in Plans : InsertPlan(w, p)
  /\ NextRow(w, cur[w])
  /\ UNCHANGED <<reservation, books, history>>

\* create_plan_with_reservation locks the sleeve and refuses what it cannot
\* pay, with an exception that ends the invocation; the preplan of the
\* planner is created without a reservation, the one of a cycle with it.
Create(w) ==
  /\ pc[w] = "create"
  /\ \/ /\ program[w] = "planner" /\ intent[w] # "EXECUTE"
        /\ \E p \in Plans : InsertPlan(w, p)
        /\ NextRow(w, cur[w])
        /\ UNCHANGED <<reservation, sleeve>>
     \/ /\ program[w] = "cycle" \/ intent[w] = "EXECUTE"
        /\ sleeve.available >= 1
        /\ \E p \in Plans : /\ InsertPlan(w, p)
                            /\ reservation' = [reservation EXCEPT ![p] = "ACTIVE"]
        /\ sleeve' = [sleeve EXCEPT !.reserved = @ + 1, !.available = @ - 1]
        /\ NextRow(w, cur[w])
     \/ /\ program[w] = "cycle" \/ intent[w] = "EXECUTE"
        /\ sleeve.available < 1
        /\ Return(w)
        /\ UNCHANGED <<plans, sleeve>>
  /\ UNCHANGED <<position, fills, history>>

-----------------------------------------------------------------------------
(* The executor, and the second stage of a cycle. *)

\* fetch_open_plans.  What an executor starts with, a cycle goes on with.
FetchOpen(w) ==
  LET found == {p \in Plans : state[p] \in Open /\ action[p] = "SPREAD_CAPTURE_PASSIVE"} IN
  /\ pc[w] \in {"idle", "fetch"}
  /\ \/ /\ found = {} /\ pc[w] = "fetch"
        /\ Return(w)
     \/ /\ found # {}
        /\ pc' = [pc EXCEPT ![w] = "fill"]
        /\ queue' = [queue EXCEPT ![w] = found]
        /\ UNCHANGED <<local, target>>
  /\ UNCHANGED <<plans, books, history>>

\* What _lock_and_validate_paper_plan and the reservation lock find.
Fillable(p) ==
  /\ state[p] \in Open
  /\ action[p] = "SPREAD_CAPTURE_PASSIVE"
  /\ reservation[p] = "ACTIVE"

\* A clamped difference, as the updates of the sleeve compute it.
Less(n) == IF n >= 1 THEN n - 1 ELSE 0

Deploy(p) ==
  /\ state' = [state EXCEPT ![p] = "FILLED"]
  /\ fills' = fills \cup {p}
  /\ position' = [position EXCEPT ![asset[p]] = @ + 1]
  /\ reservation' = [reservation EXCEPT ![p] = "RELEASED"]
  /\ sleeve' = [sleeve EXCEPT !.reserved = Less(@), !.deployed = @ + 1]
  /\ UNCHANGED <<action, asset>>

\* Mutant: the executor trusts the row it has fetched.
FillTrusting(w, p) ==
  /\ pc[w] = "fill"
  /\ IsNext(w, p)
  /\ \/ NextPlan(w, p, "fill") /\ UNCHANGED <<plans, books>>
     \/ Deploy(p) /\ NextPlan(w, p, "fill")
  /\ UNCHANGED history

\* Mutant: only the reservation is locked and looked at.
FillUnvalidated(w, p) ==
  /\ pc[w] = "fill"
  /\ IsNext(w, p)
  /\ \/ NextPlan(w, p, "fill") /\ UNCHANGED <<plans, books>>
     \/ reservation[p] = "ACTIVE" /\ Deploy(p) /\ NextPlan(w, p, "fill")
     \/ reservation[p] # "ACTIVE" /\ Return(w) /\ UNCHANGED <<plans, books>>
  /\ UNCHANGED history

\* execute_plan_paper: without a candle nothing happens, otherwise the plan is
\* filled or, no longer being what was fetched, raises: the invocation ends,
\* and with it the rest of the queue.  A cycle ends here in any case: its
\* lifecycle stage calls expire_due_plans, which the repository does not have.
Fill(w, p) ==
  /\ pc[w] = "fill"
  /\ IsNext(w, p)
  /\ \/ NextPlan(w, p, "fill") /\ UNCHANGED <<plans, books>>
     \/ Fillable(p) /\ Deploy(p) /\ NextPlan(w, p, "fill")
     \/ ~Fillable(p) /\ Return(w) /\ UNCHANGED <<plans, books>>
  /\ UNCHANGED history

-----------------------------------------------------------------------------
(* The plan lifecycle. *)

\* fetch_invalidatable_plans and should_abort: the open plans of the assets
\* whose selection is gone, not eligible or of too low a score.
FetchInvalidatable(w) ==
  /\ pc[w] = "idle"
  /\ \E bad \in SUBSET Assets :
       LET doomed == UNION {OpenPlans(a) : a \in bad} IN
       /\ doomed # {}
       /\ queue' = [queue EXCEPT ![w] = doomed]
  /\ pc' = [pc EXCEPT ![w] = "abort"]
  /\ UNCHANGED <<plans, books, local, target, history>>

\* Mutant: an aborted plan is put back for the next planning.
AbortReopens(w, p) ==
  /\ pc[w] = "abort"
  /\ IsNext(w, p)
  /\ state' = [state EXCEPT ![p] = "IDLE"]
  /\ GoTo(w, "release", p)
  /\ UNCHANGED <<action, asset, reservation, books, history>>

\* Mutant: the reservation is not released with the plan.
AbortOnly(w, p) ==
  /\ pc[w] = "abort"
  /\ IsNext(w, p)
  /\ state' = [state EXCEPT ![p] = "ABORTED"]
  /\ NextPlan(w, p, "abort")
  /\ UNCHANGED <<action, asset, reservation, books, history>>

\* abort_plan: the UPDATE has only the id in its condition.
Abort(w, p) ==
  /\ pc[w] = "abort"
  /\ IsNext(w, p)
  /\ state' = [state EXCEPT ![p] = "ABORTED"]
  /\ GoTo(w, "release", p)
  /\ UNCHANGED <<action, asset, reservation, books, history>>

\* release_reservation_for_plan: only an ACTIVE reservation is locked.
Release(w) ==
  LET p == target[w] IN
  /\ pc[w] = "release"
  /\ IF reservation[p] = "ACTIVE"
       THEN /\ reservation' = [reservation EXCEPT ![p] = "RELEASED"]
            /\ sleeve' = [sleeve EXCEPT !.reserved = Less(@), !.available = @ + 1]
       ELSE UNCHANGED <<reservation, sleeve>>
  /\ NextPlan(w, p, "abort")
  /\ UNCHANGED <<state, action, asset, position, fills, history>>

-----------------------------------------------------------------------------
(* The environment. *)

\* The process dies, or a database error ends it: nothing of the call it was
\* at is committed.
Die(w) ==
  /\ pc[w] # "idle"
  /\ Return(w)
  /\ orphaned' = IF pc[w] = "release" THEN orphaned \cup {target[w]} ELSE orphaned
  /\ UNCHANGED <<plans, books, raced>>

Step(w) ==
  \/ \E kind \in {"planner", "cycle"} : StartPlanning(w, kind)
  \/ \E a \in Assets : Gate(w, a)
  \/ Existing(w) \/ Cancel(w) \/ Update(w) \/ Create(w)
  \/ FetchOpen(w) \/ FetchInvalidatable(w)
  \/ \E p \in Plans : Fill(w, p) \/ Abort(w, p)
  \/ Release(w)
  \/ Die(w)

Next == \E w \in Processes : Step(w)

Spec == Init /\ [][Next]_vars

-----------------------------------------------------------------------------
(* Properties. *)

Held == {p \in Plans : reservation[p] = "ACTIVE"}

\* "Prevents overcommitting the capital" (docs/core/capital_reservation_v1.md):
\* every unit of the sleeve's equity is available, reserved by one plan that
\* holds it, or deployed by one fill, and the positions are worth the fills,
\* whoever plans, fills, aborts and releases at the same time.
BooksBalance ==
  /\ sleeve.available + sleeve.reserved + sleeve.deployed = Equity
  /\ sleeve.reserved = Cardinality(Held)
  /\ sleeve.deployed = Cardinality(fills)
  /\ \A a \in Assets : position[a] = Cardinality({p \in fills : asset[p] = a})

\* A plan that left the open states is never open again, and one that was
\* aborted or cancelled is never filled, also by an executor that fetched it
\* before.  (FILLED itself may become ABORTED, see abort_plan.)
ClosedStaysClosed ==
  [][\A p \in Plans :
       state[p] \notin Open \cup {"ABSENT"} =>
         /\ state'[p] \notin Open
         /\ state'[p] = "FILLED" => state[p] = "FILLED"]_vars

\* Capital is held back by a plan that nobody will execute in two cases only:
\* the planner cancelled a preplan that a cycle had reserved for, or a
\* lifecycle died between abort_plan and release_reservation_for_plan.
HeldBackOnlyBy ==
  \A p \in Held :
    \/ state[p] \in Open \cup {"CANCELLED"}
    \/ p \in orphaned
    \/ \E w \in Processes : pc[w] = "release" /\ target[w] = p

\* The duplicate prevention of the gate (docs/core/decision_gate_v1.md: "Block
\* if active execution plan exists, open position exists") fails for an asset
\* only when two processes were at its row at once.  Planners that overlap
\* on other rows, executors and lifecycles do not break it.
DuplicateOnlyRaced ==
  \A a \in Assets \ raced :
    /\ \A p, q \in OpenPlans(a) : p = q
    /\ OpenPlans(a) # {} => position[a] = 0

\* Every plan the executor will fetch holds the capital it is filled from, so
\* that none of them stops its queue, unless two processes were at the row of
\* its asset at once: one may then promote the preplan of the other.
UnreservedOnlyRaced ==
  \A p \in Plans :
    state[p] \in Open /\ action[p] = "SPREAD_CAPTURE_PASSIVE" =>
      p \in Held \/ asset[p] \in raced

-----------------------------------------------------------------------------
(* What the programs promise together: the capital of CapitalOnce. *)

Life(p) ==
  CASE state[p] = "ABSENT" -> "absent"
    [] state[p] \in Open   -> "open"
    [] state[p] = "FILLED" -> "filled"
    [] OTHER               -> "withdrawn"

Money(p) ==
  CASE reservation[p] = "NONE"   -> "none"
    [] reservation[p] = "ACTIVE" -> "reserved"
    [] OTHER                     -> IF p \in fills THEN "spent" ELSE "returned"

Capital == INSTANCE CapitalOnce WITH
  life  <- [p \in Plans |-> Life(p)],
  money <- [p \in Plans |-> Money(p)]

\* Whoever plans, fills, aborts and releases at the same time, and wherever a
\* program dies: capital is reserved only with its plan, it is spent by one
\* fill of a plan that is still open or given back once after the plan was
\* withdrawn, no closed plan is opened or filled, and the clamped updates of
\* the sleeve's columns never clamp.
ImplementsCapitalOnce == Capital!Spec
=============================================================================
