# Formal models of Synth v2's order path

TLA+ models of the part of Synth v2 that turns an approved plan into orders and
fills, and keeps the books of what was bought: model-checked with TLC on small
instances and, for the safety properties, proved with TLAPS for every value of
the parameters.  Every
definition is translated from the code under `src/`; `PROJECT.json` maps each
one to the file and lines it stands for.

Contents

1. [The system](#1-the-system): the parts, their state, how they interact
2. [What is hard](#2-what-is-hard)
3. [The modules](#3-the-modules) and how they correspond to the code
4. [The runs](#4-the-runs): what each shows, bounds, fairness
5. [The proofs](#5-the-proofs)
6. [Where the code departs from its documentation](#6-where-the-code-departs-from-its-documentation)
7. [What is abstracted, and what is not modelled](#7-what-is-abstracted-and-what-is-not-modelled)
8. [What is left](#8-what-is-left)

## 1. The system

Synth v2 trades crypto assets.  Candidates are *selected* from market data, a
*decision gate* approves or blocks each one, an *execution planner* makes a
ladder of order legs of an approved decision, and an *executor* submits the
ladder to the broker (Bitvavo) or, in PAPER mode, to a table of simulated
orders.  The components are processes started by timers or by an operator; they
share no memory and talk through MariaDB tables.  What protects the money is
therefore spread over unique keys, compare-and-set updates, row locks, triggers,
leases and the broker's own `clientOrderId`.  Paths below are relative to
`src/src/`.

| Part | State it keeps | Operations | Talks to |
|---|---|---|---|
| Shared executor (`executor/shared_execution_consumer_v1.py`, `execution_handoff_v1.py`, `execution_leg_v1.py`, `execution_submission_orchestrator_v1.py`, `execution_order_reconciliation_v1.py`) | handoff, its consumption row (PENDING, CLAIMED, COMPLETED; claim token, expiry), one row per leg with its state | intake, discover, claim, renew, hydrate, persist, claim submission, place, acknowledge, look up, mark for reconciliation, finish | order adapters, LIVE authority, the automatic buy and exit orchestrators that hand plans off |
| Order adapters (`executor/bitvavo_order_adapter_v1.py`, `dry_run_order_adapter_v1.py`, `paper_order_adapter_v1.py`) | none (PAPER: its placement rows) | place an order, find one by `clientOrderId` | Bitvavo, the price table |
| LIVE authority (`executor/execution_live_authority_v1.py`, `execution_kill_switch_v1.py`) | grants, revocations, kill-switch events | fresh check before each broker call | operators |
| Credentials (`account_provisioning/trade_execution_*.py`, `existing_trade_execution_credential_binding_v1.py`, `executor/execution_credential_scope_v1.py`) | one TRADE_EXECUTION credential per account and venue, a binding per executor | provision, bind, rotate, validate; resolve, load | operators, Bitvavo, both executors |
| Manual request (`manual_execution/`, `decision_gate/manual_execution_gate_v1.py`, `sell_reservation_v1.py`) | request, reservation, approval, plan snapshot | create, approve and reserve, build, store the snapshot, write the state | gate, planner, the manual handoff |
| Manual SELL ladder (`executor/manual_execution_submission_orchestrator_v1.py`, `manual_execution_submission_leg_v1.py`, `manual_execution_handoff_v1.py`, `manual_execution_live_authority_v1.py`) | manual handoff, LIVE authority, one row per leg | intake, grant, claim, begin, resolve, reset | Bitvavo, an operator's command line |
| PAPER orders (`entry_policy/automatic_buy_paper_fill_execution_v1.py`, `orchestration/fib_map_bound_exit_paper_fill_execution_v1.py`, `executor/paper_*.py`) | placements, leg states | submit a plan, look up, fill resting legs, hand the fills on | shared orchestrator, prices, inventory |
| Strategy inventory (`decision_gate/strategy_owned_*.py`, `automatic_buy_fill_reconciliation*.py`, `fib_map_bound_exit_fill_reconciliation*.py`) | an append-only log of ownership events | resolve lineage, authorize a reduction, append, replay | PAPER orders, exit planner |
| PAPER cycle (`execution_planner/`, `executor/run_executor_v1.py`, `executor/repository.py`, `plan_lifecycle/`, `orchestration/run_paper_cycle_v1.py`) | plans, capital reservations, the sleeve's books, positions | plan, reserve, cancel, fill, abort, release | selection rows, prices |
| Operator intent (`operator_intent/`) | intents | open, close | nothing calls it |
| Account protection, automatic gates, entry and exit policies | evaluations of one snapshot, an audit row each | evaluate, orchestrate | hand plans to the shared executor |
| Selection, features, market context, market data, research, backtests, reporting, web, operations | derived data, files, read-only output | pipelines | the database |

What makes each of the central parts correct:

* **Shared executor**: a leg is posted at most once; a later leg is not posted
  before the earlier ones are accepted; a recorded outcome is true at the
  broker; a handoff is completed only when nothing unresolved is left; a stale
  worker does not disturb a reclaimed handoff; a withdrawn authority stops the
  ladder; a handoff whose worker died is taken over.
* **Credentials**: VALID is only said of a key the venue accepted; no rotation
  overwrites one its operator has not seen; a client is built from what was
  checked.
* **Manual SELL ladder**: each POST is one won attempt; the ladder climbs only
  over accepted legs; outcomes are final and real; a reported success is one.
* **Manual request**: a request is decided once; what is planned is what was
  reserved; PLANNED means stored; what is reserved fits in the wallet.
* **PAPER orders**: legs and placements agree; an acknowledgement or a fill
  outlives the call that made it; a fill has a later quote through its price.
* **Strategy inventory**: a fill is counted once; nothing is oversold; one
  trade is open at most; the log can be replayed.
* **PAPER cycle**: every unit of equity is available, reserved or deployed; a
  closed plan stays closed; no asset is planned twice.

## 2. What is hard

`PROJECT.json` lists the hazards with their lines.  They are of these kinds.

* Two workers hold the same handoff one after the other, because a lease ran
  out while its holder slept in a broker call, and both reach the same leg.
* A POST is lost, lands late, or lands and its answer is lost; somebody looks
  the order up in between; the answer arrives after the record changed.
* The broker answers "not found" both for an order that never existed and for
  one that is no longer active.
* A process dies between any two database transactions, and a retry starts
  from what happened to be committed.
* A decision is made on a read view that is older than the lock taken to
  protect it, or than the row another connection has just checked.
* A row is read, something slow is done (a broker call, a probe, a loop over
  other rows), and the row is updated: by its id only, or compared with what
  was read.
* What one statement establishes another relies on, with other programs'
  transactions in between: the gate's answer and the insert of the plan, the
  abort of a plan and the release of its capital, a fill and its inventory row.
* A time is taken before the lock that is meant to order events is.
* Database triggers refuse transitions, also those an upsert did not mean.
* A kill switch is engaged in the middle of a ladder.

Four hazards have no property, and their notes say why: with one worker, a
handoff that raises in every cycle starves all later ones, because discovery is
by id and the exception drops the rest of the batch, at any LIMIT
(`execution_handoff_v1.py:312`); two callers of one manual request may
overwrite each other's state (`manual_execution_request_v1.py:629`;
`AloneIsConsistent` says of which requests the state can be trusted); a refused
plan leaves its reservation and nothing releases it
(`manual_execution_service_v1.py:293`, accepted by its docstring); and the
repeated reconciliation of a sold trade raises
(`strategy_owned_fill_reconciliation_v1.py:132`; the model has the step).

## 3. The modules

| Module | Contents |
|---|---|
| `SubmitOnce` | abstract specification: what the shared executor and the PAPER calls promise of a set of ladders |
| `SharedExecutor` | the shared executor, its adapters, the broker, time and faults |
| `SharedExecutorProgress` | the same under fairness: what is eventually achieved |
| `SubmitAgain` | abstract specification of the manual ladder, in which a leg may be taken back |
| `ManualLadder` | the manual SELL ladder: concurrent invocations of the submission command and the broker |
| `ReserveOnce` | abstract specification of the manual request |
| `ManualRequest` | the manual request from creation to the executor's intake |
| `CredentialRegister` | abstract specification of the credential, each operator command one step |
| `TradeCredential` | the TRADE_EXECUTION credential: operator commands and the executors' use of it |
| `PaperOrders` | one PAPER plan: submission, lookup, fills, hand-over to the inventory |
| `OwnershipLedger` | abstract specification of the inventory, without transactions |
| `StrategyInventory` | the log of strategy-owned inventory and the transactions that append to it |
| `CapitalOnce` | abstract specification of a sleeve's capital |
| `PaperCycle` | plans, capital reservations and fills of the PAPER cycle |
| `MCSharedExecutor`, `MCManualLadder`, `MCManualRequest`, `MCTradeCredential`, `MCPaperOrders`, `MCStrategyInventory`, `MCPaperCycle` | constants and symmetry sets of the TLC instances |
| `SharedExecutorProofs`, `SharedExecutorPromise`, and one `...Proofs` for each other component | theorems and proofs |

How they compose: `PaperOrders` submits through the orchestrator that
`SharedExecutor` models with the Bitvavo adapter, with placement rows in the
broker's place; what it hands over (`bridged`) are the orders that
`StrategyInventory` appends, whose transactions are modelled there in detail.
`SharedExecutor` sees the outcome of `TradeCredential` and of the LIVE
authority as the flag `authorized`.

Every component implements an abstract specification: a small module without
processes, transactions, locks, views, retries and crashes, that says what one
may rely on without knowing them.  The detailed module instantiates it with a
mapping of its state, and the property `Implements...` says that each of its
behaviours is one of the abstract module's.  `SubmitOnce` is implemented twice,
by two programs with the same promise; that the manual ladder cannot implement
it, because it takes legs back, is what `SubmitAgain` and finding 1 are about.

One database transaction is one action, except where the order of its reads,
locks and writes matters (`ManualRequest`, `TradeCredential`,
`StrategyInventory`).  A broker call is several: the request
leaves, arrives or is lost, and is answered or times out.  Between any two of
them any other process may run, die, or lose its lease.  Each module keeps the
mutated definitions that its properties were tried against next to the
definition they mutate; they are marked "Mutant" and no specification uses
them.

### SharedExecutor

State: `consumption`, `claimToken` and `lease` are the consumption row of each
handoff, `leg` is `executor_execution_leg.state`; `pc`, `batch`, `hd`, `ix`,
`obs`, `want`, `done` are the local state of a worker in `consume_once`;
`wire`, `order`, `reply` are the network and the broker; `authorized` is what
the checks of credential scope, kill switch and grant answer.  `posts` and
`late` count POSTs for the properties.

| Code | Actions |
|---|---|
| `intake`, `discover_eligible`, `claim`, `renew_claim`, `finish_claim` | `Intake`, `Discover`, `Claim`, `RenewClaim`, `FinishClaim` |
| `hydrate_approved_execution_plan`, adapter construction | `Hydrate` |
| `persist_prepared` and the choice by state in `_resolve_leg` | `PersistPrepared` |
| `before_submission_attempt`, `claim_submission`, the renewal inside the heartbeat adapter | `Preflight`, `ClaimSubmission`, `RenewPost` |
| `_fresh_client` | `Gate` |
| `place_order` and its classification of answers | `Send`, `PostAnswered`, `PostUncertain` |
| `persist_order_ack`, the re-read after every write and the conflict handler | `PersistPost`, `Reread`, `Conflict` |
| reconciliation by `clientOrderId` | `RenewLookup`, `LookupNothing`, `LookupFound`, `LookupFailed`, `MarkRequired`, `PersistFound` |
| process, signals and database errors | `Crash`, `Interrupt` |
| Bitvavo, the clock, the operators | `BrokerAccepts`, `BrokerRefuses`, `PostLost`, `OrderMoves`, `Tick`, `AuthorityWithdrawn`, `AuthorityRestored` |

A lease is the time that is left of it: the code compares the expiry with the
clock and nothing else.  The claim is renewed with the configured lease, but
first taken with the default one, hence the two constants `ClaimLease` and
`Lease`.  A worker's token is new in every claim; a worker has at most one
claim that is still current, so the worker stands for its token.

`SharedExecutor` implements `SubmitOnce` under the mapping `Abstract`:
PREPARED is still idle, both unresolved states are committed, and finished
means COMPLETED.

### ManualLadder

One handoff (handoffs share no leg rows), any number of invocations.  `leg` is
the leg's `submission_state`; `fate` is what became of each POST, and `order`
the broker's order for the leg's `clientOrderId`.  `ClaimPrepared`,
`BeginAttempt`, `Send`, `Answered`, `Uncertain`, `Resolve`, `LookupFound`,
`LookupNothing`, `Reset` and `Reread` are the calls of
`submit_manual_sell_ladder`, `_resolve_leg`, `_attempt_submit` and
`_reconcile_uncertain_leg` in their order; `Advance` is the loop over the
legs.  `MaxResets` and `MaxPosts` bound the retries of one leg; the proofs
hold for all their values.

It implements `SubmitAgain`: PREPARED is idle, a leg in doubt is committed, a
reset takes it back and buys one POST more, and who has been told of an
accepted ladder is `told`.  A POST may leave after its leg was taken back, by
a sender that was slow, which is why `Post` does not ask for a committed leg.

The broker is taken to hold at most one open order per `clientOrderId`, which
is the assumption the code makes of Bitvavo; without it the findings below
would only be worse.

### ManualRequest

`request`, `approval`, `plan`, `handoffs` are the four tables a request leaves
rows in.  The requests compete for one wallet of one account and one row of
`manual_execution_sell_lock`.  `approve_and_reserve` is one transaction in
three actions, because the order of its reads matters: `Open` is its first
plain read, which fixes the read view of the transaction (MariaDB's default
isolation level, which `db_core_v1.py` does not change), `Acquire` the row
lock, and `Decide` the totals, the two inserts and the commit.  `contested`
remembers the requests two processes worked on at once, because some
guarantees are given to the others only; `aborted` remembers that a trigger
refused an insert.  Deadlocks and other database errors end a call and roll
its transaction back, as `Die` does.

A request whose mode is not PAPER returns before anything is stored, so only
PAPER requests are modelled.  The four tables
are the state of `ReserveOnce`.  `consume`, `fail` and
`reconcile_reservation_state` have no caller in production; a reservation
therefore stays, and a handoff stays CLAIMED.

### TradeCredential

`current` and `state` are the ACTIVE row's payload and validation state, `key`
the api key in each payload ever stored; payloads are numbered, because each is
encrypted with a fresh nonce.  An operator's command is two or three steps:
its first read fixes what its transaction sees (`seen`), then come the
statements that are compared with the latest row, and the commit.

| Code | Actions |
|---|---|
| `provision_trade_execution_credential`, `bind_existing_trade_execution_credential` | `Provision` or `Bind`, then `Insert` |
| `rotate_trade_execution_credential_v1`, `rotate_exact` | `Rotate`, then `RotateExact` |
| `revalidate`, the two calls of the validator, `update_validation_state` | `Revalidate`, `Probe`, `Record` |
| `adapter_for_handoff`, the opening of the submission command's connection | `Open` |
| `_resolve`, `load_account_credential_by_id` in both clients | `Resolve`, `Load` |
| death, an unavailable probe, the end of a cycle | `GiveUp`, `Close` |

`update_validation_state` compares the fingerprint of the api key, which does
not cover the secret; `rotate_exact` compares the whole envelope.  Hence the
two properties differ: a verdict belongs to a *key*, a rotation to a *payload*.
A shared executor's connection keeps the view of its first read for a whole
cycle, while each scope check has a connection of its own.  After a rotation
and a validation in the middle of a cycle the check therefore speaks of the new
payload and the client is built from the old one, although the adapter's
docstring says that each operation re-resolves credentials; `ClientIsVouched`
is stated for cycles without a rotation.  Of two concurrent validations the
later verdict stays, and a binding can be inserted for a credential that lost
its VALID meanwhile, which the executors' own check makes harmless.

### PaperOrders

`leg`, `placement`, `fill` are the tables; `bridged` the fills whose inventory
rows are committed and `pending` those in the open transaction of a BUY call.
A call is `Begin`, `LookBefore` (which legs rest, leg by leg), the
orchestrator's loop (`Submit`: prepare, claim, place, record, persist or look
up), then the loop over the fills (`Look`, `Evidence`, `Fill`, `Bridge`) and
`Commit`.  A BUY hands its fills to the caller's transaction, a SELL commits
each.  Calls overlap and die anywhere.  Two kinds of failure are survived, as in
the code: `place_order` raises (`PlaceFails`; or in `Record` after its commit,
whose answer is lost) and `MarkUncertain` follows; the lookup of a leg in doubt
raises (`LookupFailed`), which is swallowed, and the call goes on to its fills
with the leg as it is.  Every other raise, also in the re-read after a lost
compare-and-set, is a death.  `Tick` and `Publish` are the clock and the
market.  The branches for an existing placement never fire, because a leg's
submission is claimed once; they are left out.

### StrategyInventory

`events` is the committed log; each caller has a `view` fixed by its first read,
pending events and, on the SELL side, the row locks it holds.  `BuyAppend`
resolves the trade of a leg (the lineage its order already has, else the only
open trade, else a new one; more than one open trade raises).  A SELL is `BeginSell`, which
takes its time, `Lock`, which takes the rows of the lineage, and `SellAppend`,
which authorizes the reduction against the current rows and appends it.
`PlanExit` is the exit planner.  An insert waits for the locks of a SELL and for
a pending insert of the same order, a locking read also for every pending insert
of its trade; two inserts of different orders do not wait for each other.

Two histories remember the schedules under which a guarantee is not given:
`raced` the pairs of trades one of which was bought by a transaction that could
not see a BUY event of the other, because it was committed after its view was
opened; `overtaken` the SELL events whose time is before that of a BUY of the
same trade which was part of what authorized them.

### PaperCycle

`state`, `action`, `asset`, `reservation` are the plan and its reservation;
`sleeve`, `position`, `fills` the books.  Each repository call is one action:
`Gate`, `Existing`, `Cancel`, `Update`, `Create` of a planner or cycle for one
selection row after the other, `Fill` of an executor over the plans it fetched,
`Abort` and `Release` of a lifecycle
(`FetchOpen` and `FetchInvalidatable` are the fetches).  The sleeve is read once before the loop.
While one process is at a row, the branch that promotes a preplan cannot be
reached, because the gate blocks a row that has an active plan; with two it can.
`raced` remembers the assets at whose row two processes were at once.

## 4. The runs

| Run | Instance | Shows |
|---|---|---|
| `shared_live` | two LIVE workers, one handoff, two legs; 145,000 states | all safety properties of the shared executor |
| `shared_dry_run` | two DRY_RUN workers, two handoffs of two legs, one of which cannot be hydrated; 46,000 states | the refinement of `SubmitOnce` by the composed dry-run runtime; a raised exception drops the rest of a batch and completes nothing |
| `shared_progress` | one LIVE worker, two handoffs; 133,000 states | each pending handoff is completed or rests in the dead end that waits for an operator |
| `manual_ladder` | two invocations, two legs, one reset and two POSTs per leg; 264,000 states | what the manual path keeps |
| `manual_one_order` | one invocation | finding 1 |
| `manual_request` | two callers, two requests, a wallet of one or two units; 362,000 states | the manual request pipeline |
| `manual_over_reserve` | two callers, a wallet that does not move | finding 2 |
| `manual_intake_retry` | one caller | finding 3 |
| `trade_credential` | two operators, two api keys, four payloads, both executors; 885,000 states | the credential and its use |
| `paper_orders` | two callers, two legs, two quotes, three calls in all, one tick; 1,044,000 states | PAPER submission and fills |
| `strategy_inventory` | two callers, two BUY plans of two legs and one, two exits; 804,000 states | the ownership log |
| `paper_cycle` | two processes, two assets, two plans, equity for one; 1,564,000 states | the PAPER cycle's books |

### Properties

* Shared executor: `AtMostOnePost`, `LadderOrder`, `AckTruth`,
  `CompletedIsResolved`, `StopBounded`, `TriggerNeverFires`,
  `LateAckNeverWins`, `ClaimDiscipline`, `ImplementsSubmitOnce`,
  `EventuallyResolved`.
* Manual ladder: `SubmittedIsReal`, `FirstRejectionIsHonest`,
  `ImplementsSubmitAgain`.
* Manual request: `AloneIsConsistent`, `ImplementsReserveOnce`.
* Credential: `ValidWasProbed`, `NoRotationLost`, `ClientIsVouched`,
  `ImplementsRegister`.
* PAPER orders: `AckTruth`, `AckRecovered`, `FillsAreEarned`,
  `NoFillForgotten`, `ImplementsSubmitOnce`.
* Strategy inventory: `TwoOpenOnlyRaced`, `ReplayBreaksOnlyAtOvertaken`,
  `ImplementsOwnership`.
* PAPER cycle: `BooksBalance`, `HeldBackOnlyBy`, `DuplicateOnlyRaced`,
  `UnreservedOnlyRaced`, `ImplementsCapitalOnce`.

Properties that follow from a refinement are not checked beside it but are
theorems of their own: `LadderOrder`, `PostsPaidByResets` and `ReportIsTrue` of
the manual ladder, `PlanIsReserved`, `PlannedHasSnapshot` and `DecidedOnce` of
the request, `CountedOnce` and `NeverOversold` of the inventory,
`ClosedStaysClosed` of the PAPER cycle, `PlacedOnce` of the PAPER orders.

Each is stated in words above its definition.  `TypeOK` is the type invariant
of each module.  Each property was tried against a mutant of the code that
breaks it: the pairs are listed in `PROJECT.json`.

Some guarantees fail under a race that the code allows.  Their properties do
not leave the race out: they name the rows, trades, requests or legs it touched
(`raced`, `overtaken`, `contested`, `unanswered`) and state the guarantee for
all others of the same run.  What a race costs its own row, trade or request is
only said by the refinement beside it.

### Bounds, and why they are enough

The safety results of the passing runs are also proved without bounds
(section 5), so the bounds matter only for the runs as a check of the
statements themselves, and for `EventuallyResolved`.

* Two workers are the fewest that can overtake each other; a third only takes
  the role of one of the two.  Two legs are the fewest with an order between
  them.
* A lease of one unit runs out at any moment, which is the worst case for
  safety: a longer one removes behaviours.
* `BatchLimit` is 2 in the progress run and covers all handoffs, and none of
  them is unbuildable.  With one worker, a handoff that always raises keeps
  later ones from being visited at any limit, since its exception ends the
  batch; this is listed as a hazard.
* Two POSTs and one reset of a manual leg are what the findings need.  A
  second reset repeats the first from the same state of the leg.
* A wallet of two units lets one request take all or leave a unit to the
  other; one request asks for everything, the other for one unit.

* Four payloads and two keys let a key be replaced and put back during one
  probe or rotation; with fewer the fingerprint and the envelope cannot differ.
* Two legs, three calls and one tick of the clock let a call die, a second
  one find its traces while a third still runs, and a quote be published after
  a placement and go through its price, or away from it.  `MaxAge` is 0, so that the
  one tick also makes a quote stale.
* Three BUY orders in two plans are two first fills that can open two trades
  and a second leg that must join one; two exits compete for one position.
* Equity for one plan makes the two assets compete for the money.

Workers, invocations and operators are interchangeable, and the runs of safety
properties use that symmetry; the progress run does not.  Deadlock is checked
except in `shared_dry_run`, `shared_progress`, `paper_orders` and
`strategy_inventory`, where everything may be completed, or every bounded call
made, and nothing is left to do.

### Fairness

`ProgressSpec` assumes what the deployment provides.  A systemd timer starts
the workers again and again, so a worker's own steps are weakly fair; a request
in flight ends by an answer, a loss or the HTTP timeout; plans are handed off;
an operator restores a withdrawn authority.  Faults may happen as long as they
like, but stop at some point (`Settle`); without that a crash loop prevents
everything and nothing could be promised.  From then on a lease only runs out
when its holder has stopped working on the handoff (`OnlyAbandonedExpire`):
renewals are placed so that a lease covers each piece of work, and only a
fault makes a piece longer.  Time is *strongly* fair, because a step of the
clock is disabled again and again while another worker is about to renew.
`EventuallyResolved` then says that a pending handoff is completed or has a
leg in RECONCILIATION_REQUIRED that no lookup can resolve.

## 5. The proofs

No theorem bounds the number of processes, handoffs, legs, requests, posts or
the sizes of wallets; the assumptions on the constants are the ASSUMEs of the
modules.  Of them only `ProcessesAssumption` of `ManualLadder` (finitely many
invocations) is more than a statement of types.  Every safety property of a
passing run has a theorem, the refinements included.

| Theorem | States |
|---|---|
| `TypeCorrect` in each proof module but `SharedExecutorPromise` | `TypeOK` of each module |
| `SharedExecutorProofs!Invariance` | the inductive invariant `IInv` |
| `NeverPostedTwice`, `LadderInOrder`, `NothingLeftBehind`, `LegsMoveForward` | `AtMostOnePost`, `LadderOrder`, `CompletedIsResolved`, `TriggerNeverFires` |
| `SharedExecutorPromise!KeepsThePromise` | `Spec => ImplementsSubmitOnce`, the refinement, in every mode |
| `RecordsAreTrue`, `LateAnswersLose`, `ClaimsAreRespected`, `StopsAfterOne` | `AckTruth`, `LateAckNeverWins`, `ClaimDiscipline`, `StopBounded` |
| `ManualLadderProofs!ResubmittedInOrder` | `Spec => ImplementsSubmitAgain` |
| `EveryPostIsPaid`, `LadderInOrder`, `RecordsAreReal`, `RefusalIsProof` | `PostsPaidByResets`, `LadderOrder`, `SubmittedIsReal`, `FirstRejectionIsHonest` |
| `OrdersPaidByResets` | a leg becomes one order more than it was reset at most |
| `ManualLadderProofs!ReportsAreTrue`, `OutcomesAreFinal` | a reported success is one; only a leg in doubt changes its outcome |
| `ManualRequestProofs!ReservedAndPlannedOnce` | `Spec => ImplementsReserveOnce` |
| `NeverDecidedAgain`, `PlansAreReserved`, `OutcomeIsTold` | `DecidedOnce`, `PlanIsReserved`, `AloneIsConsistent` |
| `PlannedIsStored`, `SettledOnce` | PLANNED means stored; an uncontested state leaves DRAFT once |
| `TradeCredentialProofs!CommandsAreAtomic` | `Spec => ImplementsRegister` |
| `ValidityIsEarned`, `RotationsAreExact`, `ClientsAreVouched` | `ValidWasProbed`, `NoRotationLost`, `ClientIsVouched` |
| `PaperOrdersProofs!CallsKeepThePromise`, `PlacementsStay` | `Spec => ImplementsSubmitOnce`, `PlacedOnce` |
| `LegsTellTheTruth`, `NoAckLost`, `FillsEarned`, `FillsReachInventory` | `AckTruth`, `AckRecovered`, `FillsAreEarned`, `NoFillForgotten` |
| `StrategyInventoryProofs!OwnershipKept` | `Spec => ImplementsOwnership` |
| `FillsCountedOnce`, `TradesNeverOversold`, `LogReplays`, `OpenTradesRaced` | `CountedOnce`, `NeverOversold`, `ReplayBreaksOnlyAtOvertaken`, `TwoOpenOnlyRaced` |
| `PaperCycleProofs!SpentOrReturnedOnce` | `Spec => ImplementsCapitalOnce` |
| `BooksAlwaysBalance`, `ClosedForGood`, `CapitalHeldBack`, `DuplicatesRaced`, `UnreservedRaced` | `BooksBalance`, `ClosedStaysClosed`, `HeldBackOnlyBy`, `DuplicateOnlyRaced`, `UnreservedOnlyRaced` |

**Shared executor.**  `AtMostOnePost` is not inductive: a worker at `send`
with a leg already posted would break it.  `IInv` adds what each worker relies
on (`Local`: at which steps its leg is committed, not yet posted, or posted,
and that the ladder below is accepted), that at most one worker holds the
right to post a leg (`SoleOwner`), that nothing is posted before the
commitment and no trace of an order exists without a POST (`PostsMatch`), and
that a leg exists only above accepted ones (`Prefix`).  The heart of it is
that a leg never returns to PREPARED: whoever won the compare-and-set was the
only one, and what a worker has read of a leg can only have moved forward
(`Stable`).  A step is then either the worker's own (`Mover`) or somebody
else's (`Bystander`).

The refinement uses `IInv` before and after a step: a leg write commits
(`Prefix` gives the reached ladder) or resolves (`PostsMatch` gives the POST)
or is invisible, a `Send` is the abstract `Post`, `FinishClaim` with its
completed flag is `Finish`, and every other step stutters.  `AckTruth` needs
that the broker's answer and its order agree and that a worker about to record
knows one of them (`AckInv`); `StopBounded` that a worker at `send` has passed
a check since the authority was last withdrawn (`StopInv`); `ClaimDiscipline`
that an unclaimed handoff has no lease (`LeaseInv`).

**Manual ladder.**  `LadderInv` says that a process has climbed over accepted
legs (`Climbed`), and that a process which was told of an order has one
(`ToldOfOrder`).  The count of POSTs needs a credit: a leg that
`begin_attempt` can still win is good for one POST, the winner takes the credit
to `send`, `Send` turns it into a POST, and only a reset gives a new one
(`PaidFor`).  A refusal and an order of the same leg are answers to two POSTs;
the second was paid for by a reset, so a leg without one that is REJECTED has
no order (`AnswerInv`).

The refinement of `SubmitAgain` combines the three: `Climbed` gives the ladder
below, `PaidFor` that a `Send` was bought, also of a leg which was taken back
meanwhile (the leg is idle again, so its credit is open, and with the sender
counted only a reset can have paid), and `AnswerInv` that what is resolved was
posted.  That POSTs are numbered without gaps (`Packed`) makes `Send` raise the
count by exactly one.  Moves of a process change at most who has been told.

**Manual request.**  `SafeInv` adds what has been stored by the time a process
reaches a step (`Stored`).  `AloneInv` is about the requests that are not
contested: nobody else works on them, so what the process read is still so at
each of its later steps, although `update_request_state` compares nothing.
A process that died left the request as a retry may find it.

The refinement of `ReserveOnce` needs in addition that the quantity a caller
decides on is one that the wallet had (`ViewsAreWallets`), however old: within
*some* wallet is what is promised of one request, and no more can be, as
finding 2 shows for two.

**Credential.**  Keys of stored payloads never change and acceptances only
accumulate, so what was `Probed` stays so.  `OperatorInv` says what a command
in the middle has seen: a VALID verdict is of an accepted payload, and the
fingerprint comparison carries it to the current one.  `Quiet` describes a
cycle that saw no rotation: whatever it has read is the current payload.
`CommandsAreAtomic` adds that a rotation under way was asked to bring another
key than the one it saw (`RotatesAway`), which stays so because stored payloads
keep their keys; when it commits, what it saw is what it replaces.

**PAPER orders.**  The invariant is per call: what it has claimed and not yet
placed (`Placing`), that the legs below are accepted (`Climbing`), which legs
it saw resting (`Rested`), the evidence it holds (`Shown`), the placements it
must resolve, or whose lookup failed in it (`Knows`), and the fills it must hand over (`Owes`), each stable
under the steps of other calls because a leg's state only moves forward.  No
two calls are placing the same leg (`Alone`), because its submission is claimed
once.  The own-call clause of `FillsAreEarned` follows from `Rested`: what
rested before a call is not what the call has placed.  The refinement of
`SubmitOnce` takes the recording of a placement for the POST: `Placing` says
that its leg was claimed and has no placement, `LegsTellTheTruth` that a leg
resolved by an answer or a lookup has one.

**Strategy inventory.**  A lock gives its holder the current rows of its trade
(`HeldView`) and keeps others from reducing it (`Exclusive`), which makes a
SELL new and covered (`NeverOversold`).  `CountedOnce` is inductive over
committed and pending events together.  `ReplayBreaksOnlyAtOvertaken` is
inductive with `NeverOversold`: a SELL that was not overtaken is later than all
that was bought of its trade, so the replay up to it, or up to any later SELL,
has all BUYs of the trade and no more SELLs than the whole log.  The refinement
of `OwnershipLedger` is at the commits: what a BUY transaction has pending is of
one trade, known or started by itself (`OneTrade`), and `Exclusive` gives a SELL
that what it saw left is still left.  For `TwoOpenOnlyRaced`, a transaction that
has bought for one trade while another is open has not seen a BUY event of that
other (`MissesOthers`): it bought for the only trade it knew to be open, or
found none open.

**PAPER cycle.**  The identity of the books is inductive because each call that
moves money changes a reservation, the sleeve and the fills under the same row
locks.  `DuplicateOnlyRaced` is about one asset: as long as no second process
was at its row, whoever is there finds the asset as the gate left it
(`PlannerAlone`), because every other step only takes from its open plans
(`Shrinks`).  The refinement of
`CapitalOnce` maps the state of a plan to its life, and its reservation and fill
to what became of its money; `Booked` (a filled plan has released its
reservation for good, an absent one has none) tells the two apart, `Releasing` that a lifecycle
gives back only after its abort, and the clamping of the sleeve's columns at
zero never takes effect because the books balance (`NothingClamped`).

Only model-checked: `EventuallyResolved`, since liveness under fairness and
ENABLED are outside the prover's reach.  The three documented statements that
do not hold are refuted by TLC.  The models use no recursion over data, so
nothing else is left to TLC.

## 6. Where the code departs from its documentation

Each is a run that TLC must find violated; the quotations are in
`PROJECT.json`.

1. **Two orders for one leg** (`manual_one_order`, `OneOrderPerLeg`).  "Not
   found" also means "no longer active": an order filled before its lookup is
   posted again, by a single process.
2. **Reserved twice** (`manual_over_reserve`, `ReservedWithinWallet`).  The
   first read of `approve_and_reserve` precedes the row lock and fixes the
   read view, so the totals read under the lock are those from before it.
   The gate's concurrency test runs against a fake without read views.
3. **A retried intake** (`manual_intake_retry`, `RetryReturns`).  The upsert
   of the manual handoff meets a trigger that refuses the update.

Weaker guarantees that no document contradicts are part of the properties: a
leg that was reset and is REJECTED may have an order, because the second POST
of its `clientOrderId` is refused when the first arrives late
(`FirstRejectionIsHonest` excludes exactly that); two planners at the same row
may duplicate its plan; two BUY transactions neither of which sees the other
may open two trades; a SELL overtaken by a BUY of its trade may stop the replay
of that trade and with it the projection of the account; a PAPER call whose
lookup failed goes on to its fills with the leg still in doubt.

The shared executor does not share 1: it never returns a leg to PREPARED and
marks what it cannot find as RECONCILIATION_REQUIRED, at the price of the dead
end that `EventuallyResolved` names.

## 7. What is abstracted, and what is not modelled

Abstractions of the modelled parts:

* Identifiers, hashes, validation of fields, evidence payloads and logging are
  left out.  Validation failures appear as `Unbuildable` handoffs or as the
  `reject` branch of a request.
* Quantities and amounts are units: one leg is one unit of an inventory, one
  plan one unit of equity.  Prices appear only in `PaperOrders`, as numbers to
  compare a quote with.
* Reading the clock and the guarded UPDATE that uses the time are one step.
  The gap between the two only shortens a lease further, which the lease of one
  unit covers.
* In `SharedExecutor`, credential scope, kill switch and grants are one flag
  that may change at any moment, which includes every answer the tables behind
  it can give.
* A handoff's intake inserts several rows in one transaction and is one step;
  a repeated intake changes nothing and is left out.
* `mark_reconciled` of the manual leg writes a timestamp only.
* The identity comparison of the manual LIVE authority is left out: the
  authority is a grant that exists or not.
* Encryption is left out: an envelope is a number, its fingerprint its key.

Not modelled, with the reason:

* **Expiry of due plans**: `run_plan_lifecycle_v1`, the last stage of the PAPER
  cycles, calls `expire_due_plans` and `fetch_releasable_plans`, which
  `PlanLifecycleRepository` does not define; it raises before it changes
  anything.
* **LIVE authority tables**: the flag covers their answers; a model of grant
  overlap and revocation would be about SQL predicates over time intervals
  rather than about steps.
* **Operator intent**: nothing in the sources calls the service, and that only
  one intent per scope is open rests on gap locks the code does not show.
* **Automatic buy and exit orchestrators, gates, account protection**: each run
  evaluates one snapshot and appends an idempotent audit row; what they hand
  over is any plan (`Intake`).
* **Native-short scope administration** (market data): the audit keeps
  `REMOVAL_CONTRACT_MISSING` active
  (`market_data/native_short_multi_asset_audit_v1.py:180-188`), so removal and
  reactivation cannot be reached in this version.
* **SELL activation controller, operations tooling**: read-only reports.
* **Private-read credentials, account creation, web registration**: outside of
  the order path.
* **Market data, features, selection, market context, research, backtests,
  reporting**: numerical pipelines and read-only output.  They are by far most
  of the repository's 312,717 implementation lines (research and
  reporting alone are about half), have no concurrent state to model, and are the
  reason why the share of mapped lines is small however much of the order path
  is covered.

## 8. What is left

The order path from an approved plan to fills and books is modelled, checked
and proved.  What could be added:

1. A composition of `PaperOrders` with `StrategyInventory`, in which the
   hand-over of a fill is the transaction rather than one step.
2. The tables of the LIVE authority as a refinement of the flag `authorized`.
3. Progress of the PAPER path under repeated calls, once a scheduler for them
   exists in the sources: today only tests call its entry points.
4. Expiry of due plans, once the repository defines the two missing methods.
