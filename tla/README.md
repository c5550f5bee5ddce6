# A verification project for GYB

GYB is a TypeScript monorepo for cross-border payments. This directory models
the parts of it that move money or decide about it, checks the models with TLC on
small instances and proves the most important results with TLAPS for every value of
the constants. Everything is translated from the code; comments and documents of
the repository are used only as statements to check the code against.

* [The system](#the-system)
* [The modules](#the-modules)
* [The runs](#the-runs)
* [The proofs](#the-proofs)
* [Where code and documents disagree](#where-code-and-documents-disagree)
* [The plan](#the-plan)
* [Not modelled](#not-modelled)

## The system

The repository has three layers that hardly touch one another.

* `src/src` is the payment backend: a REST server (`main.ts`, `app.ts`, `api/v1`), the domains
  `transaction`, `wallet`, `ledger`, `routing`, `settlement` and `treasury`, and
  repositories in memory and over PostgreSQL. `PaymentController` wires
  the latter; the tests of the payment flow wire the former.
* `src/packages` holds more than 800 packages. Most are placeholders of a few lines.
  About sixty carry real logic: the general ledger, the liquidity network, messaging,
  the native rail, connectors, routing, compliance, limits and netting.
* `src/apps` is a web application for remittances and a demonstration gateway with
  records in memory.

Everything is single-threaded JavaScript. Concurrency means that calls
interleave where they `await`: between two awaits a call runs alone. Every
module below therefore has one action per stretch of code between two awaits; over
PostgreSQL an action is one SQL statement, and in the browser one event.

### Components

| Component | State | Operations | Talks to | What is hard | What makes it correct |
|---|---|---|---|---|---|
| Payment flow: `PaymentOrchestrator`, `WalletService`, `LedgerService`, `BlockchainSettlementAdapter` | balances, holds, ledger entries, emitted events | `initiatePayment` with eight awaits | repositories, routing, providers, event bus | a balance checked before an await and used after it; errors after the funds moved; answers that are not final | no overdraft by interleaving; nothing is sent that is not secured, and it stays so whatever the caller is told |
| Persistent wallet and ledger (PostgreSQL) | rows, row locks, constraints | reserve, release, record entries, statement by statement | payment flow | double release or move of one hold, statements that fail half-way, lost connections, lock order | the rows are what callers were told; every call ends |
| Liquidity network: `LiquidityGraph`, `ReservationEngine`, `ReserveEngine`, `RebalancingEngine` | pools, reservations, policies, undelivered alerts | `reserve`, `commit`, `rollback`, `setPolicy`, `checkReserves`, the alert handler | event bus; scheduler | alerts delivered late, when pools have changed; fallback to a parent pool | balances equal the reservations; no money appears or vanishes |
| Settlement scheduler | queue of tasks | `schedule`, `executeNext`, `processBatch` | `ReservationEngine.commit`, `rollback` | overlapping batches select the same tasks; the rollback in a catch block throws | no reservation is settled twice; no task is stranded |
| General ledger: `PostingEngine`, `Ledger`, `PeriodManager`, `ChartOfAccounts`, projections | accounts, periods, journals, two counters | `registerAccount`, `createPeriod`, `closePeriod`, `validateAndPost` | event bus | a period that closes while a call awaits; entry objects that calls share | trial balances balance; numbering without gaps; closed books settle |
| Routing and treasury: `RoutingEngine`, `TreasuryService`, providers, `SimulationEngine` | country pools, transfers, transactions on the chain | route, send, poll, record a settlement | chain SDK | liquidity checked when routed and taken when recorded; lost broadcasts | thresholds kept; confirmed means landed |
| Route planning: `ProviderRegistry`, `RouteGenerator`, `SimulationEngine`, `RouteOptimizer`, `ProviderRouter`, reputation | registered providers, quotes under way, reputations | register, generate, simulate, rank, find the best provider | providers | quotes of different moments; answers that change between awaits | what is ranked was quoted; the best of those asked |
| Native rail: E2E orchestrator, `RailTransactionEngine`, clearing, sandbox network, reconciliation | transaction objects and the store of them | `execute` | sandbox network | resubmission, overlapping executions, refused transitions that are ignored | what shows as settled was paid; a lone result is true |
| Financial connectivity: UK and India connectors, FX, approvals, limits, health, `ReconciliationEngineV2` | connectors, approvals, usage, legs of a transaction | fund, quote, lock, execute, approve, settle, reconcile | sandboxes | unknown outcomes; approvals in any order; check and record in two calls | matched means paid; rejected means never paid |
| Real providers: Onfido, Modulr, Currencycloud, Cashfree | a session; the rest is at the providers | verify, fund, convert, pay out | external | lost answers, repeated calls, the real-money switch | paid once, and only what was funded |
| Outbox and message delivery | journals, outbox rows, clients of the pool, dead letters | unit of work, `processPending` on a timer | PostgreSQL, handlers | overlapping polls, crash between publish and mark, handlers that fail half-way, leaked clients | at-least-once, in order, nothing lost |
| Clearing house, netting, compression; exposure limits | obligations, cycles, reserved and current exposure | ingest, trigger a cycle, compress; set a limit, reserve, confirm, release | event bus | obligations that come in while a cycle runs, self-obligations, limits set late | positions preserved; limits kept |
| Compliance decision: `DecisionEngine` and its engines | registries of lists, analysts and rules | `evaluate` | lists, providers, AI | registries change during an evaluation; the AI's score replaces the composite one | nobody approved who was on a list; AI only makes stricter |
| API gateway package: rate limiter, `IdempotencyManager`, `RestRouter` | buckets, idempotency records | `handleRequest` | handlers | overlapping requests of one key; failed requests | a key's handler runs once |
| Remittance web application and its gateway | session, mounted page, users, quotes, orders | every page and endpoint | HTTP | lost answers, pages left under way, reloads, restarts | forms never stay disabled; no silent duplicate transfer |
| Settlement orchestrator and sagas, locks, cases, readiness, webhooks, console, placeholders | | | | see [Not modelled](#not-modelled) | |

`PROJECT.json` lists them with their source files and what is modelled, and
under `hazards` every place where such a thing can go wrong, with its line.

## The modules

| Module | Models | Extends |
|---|---|---|
| `Totals` | sums over finite sets, with the lemmas on a changed element, a grown or split set, a partition by a key, a renaming | |
| `WalletPromise` | abstract: funds are checked and taken in one step, then sent; only a negative amount puts any back | |
| `PaymentFlow` | `initiatePayment` and all it calls | `Totals` |
| `PaymentFlowProofs` | theorems about `PaymentFlow` | `PaymentFlow` |
| `WalletPostgres` | the PostgreSQL repositories, one SQL statement per step | `Totals` |
| `SerialWallet` | abstract: calls that change balances, holds and entries one after the other; releases of one hold may overlap | |
| `WalletPostgresProofs` | theorems about `WalletPostgres` | `WalletPostgres` |
| `LiquidityPromise` | abstract: one pot of money with reservations | |
| `Liquidity` | the four engines of the liquidity network | `Totals` |
| `SettlementScheduler` | the scheduler composed with the network: its next-state relation contains `Liquidity!Next` | `Liquidity` |
| `LiquidityProofs` | theorems about `Liquidity` and `SettlementScheduler` | `SettlementScheduler` |
| `GeneralLedger` | posting, periods, chart of accounts, trial balance | `Totals` |
| `TreasuryRouting` | a transfer over the rails of `src/src`, the pools and an external chain; the simulated ranking | |
| `RoutePlanning` | routes, quotes, rankings, the choice of one provider, reputations | |
| `RailPayment` | `EndToEndTransactionOrchestrator.execute` and the engines under it | |
| `RailsProofs` | theorems about `RailPayment`, `TreasuryRouting` and `RoutePlanning` | all three, `Totals` |
| `Connectivity` | the sandbox connectors with approvals, limits, health and reconciliation | |
| `RealProviders` | the four real connectors and what stands behind them | |
| `DeliveryPromise` | abstract: what is recorded is told to every handler at least once, or given up openly | |
| `Outbox` | units of work, the pool, the dispatcher, retries, handlers, dead letters | |
| `Clearing` | clearing house, netting, compression, exposure limits | `Totals` |
| `BooksProofs` | theorems about `GeneralLedger` and `Clearing` | both |
| `Compliance` | the decision of `ComplianceGateway`'s engines | |
| `ConnectivityProofs` | theorems about `Connectivity`, `RealProviders` and `Compliance` | all three |
| `Gateway` | the demonstration gateway: one step per handler | |
| `RemittanceApp` | one browser window of the web application, composed with the gateway | `Gateway` |
| `PaymentApi` | the gateway package: buckets, idempotency, routes | |
| `OutboxProofs` | theorems about `Outbox`, `PaymentApi` and `RemittanceApp` | all three |
| `MC...` | the instances for TLC | the modules of that name |

Three instances hold several specifications that share no state and are never
deployed together. A constant variable chooses one of them at the start: `wired` in
`MCRails` (`RailPayment`, `TreasuryRouting` or one of three parts of `RoutePlanning`),
`constructed` in `MCConnectivity` (the sandboxes or the real providers), and
`serves` in `MCRemittanceApp` (the web application or the gateway package). Each
choice is explored in full; nothing of one constrains another.

`PROJECT.json` pairs each property with a plausible mistake (`SettleAgain`,
`Uncompared`, `IsLastMatch`, ...), which stands next to the definition it varies and
which no specification uses. Putting it in place of the real definition makes
TLC find the property violated. A property that survives every mistake would say
nothing.

### PaymentFlow

A call `p` goes through `stage[p]`, named for what it does next:

| Stage, action | Code |
|---|---|
| `new` `Initiate` | `initiatePayment` up to its first await: TransactionCreated, CompliancePassed |
| `check` `CheckBalance` | `WalletService.checkSufficientBalance`; an unknown wallet has no balance |
| `hold` `CreateHold` | `InMemoryWalletRepository.createHold`, which only records the hold |
| `move` `UpdateBalances` | `updateBalances`, which compares again and throws when either balance would be negative; a negative amount moves back what others locked |
| `book` `CreateProvisionalEntries` | LiquidityReserved; refuses amounts that are not positive, after the funds moved |
| `route` `FindOptimalRoute` | any candidate, or an error: how routes are ranked is left open |
| `dispatch` `Dispatch` | looks the provider up by the route's name; not every name is registered |
| `send` `Settle` | the provider answers success, pending or failed; a failed broadcast may still be in flight |
| `finalize` `Commit` | `finalizeEntries`, LedgerCommitted, `commitFunds` |
| `credit` `Complete` | WalletCredited |

`Fail` is the catch block: it emits PaymentFailed and undoes nothing.
`ChainResolves` is the external chain. The balances of a wallet are the live
object that `getById` returns, so `available` and `locked` are shared state. Event
sets are kept per call, and `OutcomeIsConsistent` relates them to the rest.

Amounts are whole numbers of the `Decimal` class's smallest unit and of either sign,
since `PaymentController.ts:67` passes on whatever the request's body holds. An amount
that is not positive is refused by `createProvisionalEntries` only, after its update of
the balances: a negative one has by then moved funds that other payments locked back to
the available balance. `Taken` and `PutBack` are what an update takes and what it
puts back, and the properties bound the latter's effect instead of excluding it.

Assumptions, with their reasons: wallets are created before the first payment, with
balances that are not negative. `Routes` contains names that `Registered` does not, because a
route names the provider's class while whoever composes the system chooses the keys
of the provider map: the test uses `MockSettlementProvider`, `PaymentController` uses
`solana`, under which no route of its only provider is found.

Two differences between the model and the program a reader should know:

* Events and entries belong to a call here; in the code they carry a transaction id
  made of the time in milliseconds, which two calls of one millisecond share.
* With the PostgreSQL repositories a payment ends in `createHold`, since its id is
  not the UUID that the schema wants. `WalletPostgres` models the repositories under
  callers with and without such ids.

### Liquidity and SettlementScheduler

Each engine changes the pools before its first await, so one call is one action.
`alerts` are the `ReserveThresholdExceeded` events between their publication and
their delivery in a later timer task. `Serves` says which pool serves a request:
the one it names, or, in `emergency_mode`, the first ancestor with enough.
`HandleEmergencyRebalance` takes the deficit of the moment of delivery from the
parent, or nothing.

`SettlementScheduler` adds the queue and workers; a worker is one call of
`executeNext` or `processBatch`. `todo` holds the tasks it selected when it was
called and `phase` whether its current `commit` returns (`committing`) or throws
(`failing`). Since `ReservationEngine.commit` has its effect before its first
await, `Start` performs `Liquidity!Commit` and the following `Completed` or
`Failed` is the continuation after the await. Between them other workers run,
also on the same tasks.

Assumptions: `LevelAssumption` says that parents form a forest, which
`registerPool` does not check and without which `findFallbackPool` may not
terminate. Amounts are natural numbers and ratios are parts of a whole, so that
the arithmetic is exact.

### GeneralLedger

`validateAndPost` is `Validate` and `Post`, with the await of the
JournalValidated event in between. `status` belongs to the entry object and is
shared by the calls that post it: one may reject an entry that another has
validated and is about to append. `AppendJournal` is `Ledger.appendJournal` with
the copy it makes; `IsPeriodClosed` keeps the rule that the first period containing
the day decides. The trial balance is translated from `BalanceProjector` and
`TrialBalanceGenerator` down to the two sign changes that put a balance into its
column.

Assumptions: accounts are frozen objects built as ACTIVE, so they are constants
once registered; `InMemoryEventBus.publish` never rejects; amounts are natural
numbers of the smallest unit.

### WalletPostgres

A call of `WalletService` or `LedgerService` is in `pc[c]`, the last statement that
took effect. PostgreSQL runs at READ COMMITTED: a query sees committed rows, an
UPDATE waits for the row's lock (`walletLock`, `holdLock`) and works on the row as
committed last, a CHECK of the schema that fails ends the transaction. `CheckBalance`
and `ReadHold` are queries without a lock; `UpdateBalances` is the second movement
that `reserveFunds` makes in a statement of its own; `Rollback` is what a failed
statement leaves, or a connection that breaks before the COMMIT. A COMMIT, like a
statement without a transaction, may also take effect and lose its answer: the call then
ends with an error and its rows changed (`heldUntold`, `movedUntold`, `releasedUntold`,
`recordedUntold`). In `onceHeld` only the second movement of a reservation failed: the
call throws at `WalletService.ts:29` and leaves its hold and one movement.
`InsertHold` may fail for any amount, because the
id may be no UUID. Updating a ledger entry always throws, since the schema makes the
table append-only by a rule under which PostgreSQL refuses `UPDATE ... RETURNING`.

`SerialWallet` is what calls that run in turn would do, with one exception that it names:
a release first finds its hold open and gives the amount back in a later step (`FindOpen`,
`GiveBack`). Releases that overlap may so have found one hold open, and then all give it
back; one that comes after the first of them finds nothing, as
`PostgresWalletRepository.ts:82-84` has it.

### RailPayment

`state` belongs to a transaction object and `store` says which object each id leads
to; `createTransaction` resets the one and replaces the other. An execution `e` is
`Accept` (readiness, corridor, all transitions up to CLEARING, the call of `quote`),
`LockFx`, `ExternallySettled` and `Reconcile`, or `Fail` where the network throws or
refuses. The network decides when it is called (`QuoteAnswer`, `SettlementAnswer`) and
answers later. `TransitionState` refuses an invalid transition silently, as the engine
does, and transitions always go to the object stored now. `overlapped` is history: the
executions that another of their id overlapped.

### TreasuryRouting and RoutePlanning

In `TreasuryRouting` a transfer goes through `CheckLiquidity`, `FindOptimalRoute`,
then `SendInternally`, `SendToMock` or `Build` and `Broadcast`, with `GetStatus` for
the pending and `RecordInflow`, `RecordOutflow` for what was netted. The desk that
calls them is the only part that the code leaves to its user. `FindOptimalRoute`,
which takes the one of `Options` that `Precedes` the others, and `SimulateAllRoutes` are
the two rankings, with costs as whole numbers of their smallest
unit. The chain is external: what was broadcast lands, lands with an error, or drops.
A transfer has two amounts of any sign: `amount`, in the sender's currency, is what
`RoutingEngine.ts:50` asks the recipient's pool for and what `recordTransfer` adds to the
sender's pool; `delivered`, in the recipient's currency, is what it takes out.

`RoutePlanning` has three parts. The planner generates routes from the registered
providers, simulates them at a time with one await per hop (`Simulate`), and ranks the
results; providers are registered again meanwhile. A route is known by its place in the
generated list, direct routes before hybrid ones and the bridged route last, and `totals`
are the two sums that its simulation adds up; the sort is stable, so equal scores keep
the order of their places. From a hundred seconds on every route scores 0 for speed, at
exactly a hundred as well. The router asks one provider after
another for its capabilities, which change between the awaits, and leaves out whoever has
too little capacity or liquidity (`Eligible`). The reputation engine
counts failures.

### Connectivity and RealProviders

`Connectivity` has an action per method of the connectors and engines, with the guards
of environment, status and real-money switch. A journey is their caller, in the order of
the repository's connectivity tests: it stops at a call that threw, and settles once
`isFullyApproved`. `leg[j]` holds what each call answered, `funded` and `payout` what
really happened. A sandbox's injected failure is any at every call. `contended` marks
two evaluations that were open at a time.

`RealProviders` has the calls of four connectors, each of which may take effect and
lose its answer, and a remittance that repeats what failed or threw. Cashfree's
deduplication by `transferId` is external and assumed: the connector relies on it. The
applicant's check, deposits and payouts resolve in their own time.

### Outbox

A writer is one transaction of `StressTester`: `Start` (client and BEGIN), `SaveJournal`,
`SaveEvent`, `Commit` or `Rollback`. `free` and `leaked` are the clients of the pool. A
poll fetches a batch (`BeginPoll`), then runs each event through topic, validator and
handlers (`Unroutable`, `Invalid`, `Deliver`) with `RetryEngine`'s attempts, and marks
the whole batch at its end (`MarkProcessed`). `shape` is what an event looks like to the
reading side: only an integration event has all that the validator asks for. `GiveUp` is
the way to the dead letters: without retries for an event that has no topic and for a
`PoisonMessageError`, after the last retry otherwise.
`Crash` loses the open transactions, the polls and the dead letters, which are kept in
memory; `forgotten` is history, the dead letters of earlier processes.

### Clearing

`BeginIngestion` and `Ingest` are the two halves of `ingestObligation`, around an await;
`TriggerNettingCycle`, `Net` and `Finish` the parts of a cycle. `NetBalance` keeps the
balances that `MultiLevelNetting` reads before it writes either, and `NetObligations`
states the outcome of its greedy matching by cumulated amounts: debtors and creditors
stand in one of the `Rankings` by amount, which leave open the order of equal ones, each
covers a `Span` of units, and a payment is what the spans of two share. A desk compresses
what finished cycles produced and asks `ExposureLimitManager` for the room of each item.

### Compliance

`evaluate` is a sequence of engines, each of whose awaits is a step: AML with
velocity, fraud, one step for each watchlist, the wallet screening, the composite risk,
the AI, and the rules with the decision. Watchlists, analysts and rules are registered
between any two of them. Thresholds and weights are the code's; scores are whole
numbers and probabilities percents, rounded as `Math.round` does.

### Gateway, RemittanceApp and PaymentApi

`Gateway` is one step per handler of `apps/api-gateway`. `RemittanceApp` is one window:
`view` is the mounted page with its hooks, `net` the exchanges under way, and `mounted`
says whether the page that asked still listens. Pages change, forms are submitted,
answers come or are lost, the document is reloaded (`Reload`, up to the first effects
that restore the session), and the gateway restarts and forgets.

`PaymentApi` is `handleRequest` of `packages/api-gateway` between its awaits: rate
limit, lookup of the key, handler, completion or failure. A request sent again is
another call with the same key. Records and buckets end with a life of the process.

## The runs

| Run | Instance | States | Shows |
|---|---|---|---|
| `payment_flow` | 3 payments of -1, 0 or 2 units, one wallet with 3 units and one unknown, three routes of which two are registered | 76,374 | the safety of `PaymentFlow`, that every call ends, and that it implements `WalletPromise` |
| `liquidity` | a chain of three pools, 2 reservations of 4 or 8 units, ratios 1/2 and 1, 2 alerts | 80,694 | the accounting of the pools, and that the network implements one pot of money |
| `settlement_scheduler` | 1 pool, 2 reservations, 3 tasks, 3 workers | 141,438 | nothing is settled twice, stranded or failed with its money held |
| `general_ledger` | 3 calls, 4 entries (two good, one unbalanced, one in the wrong currency), 3 accounts of 2 currencies, 2 days, 2 periods | 35,584 | trial balances, numbering, period close |
| `wallet_postgres` | 3 calls, amounts -1 to 2, funding 3, 2 entries per record | 78,460 | the rows are what callers were told and change as if calls ran in turn; every call ends |
| `rails` | one of: 3 executions over 3 objects and 2 ids; 2 transfers of 2 sends over 3 pools; 4 registrations of 5 providers; a fleet of 3; failures of 2 providers | 249,911 | the engines that route, send, settle and reconcile |
| `connectivity` | one of: 2 journeys, 2 officers, limits of 2, degraded after 2 failures; 2 remittances with 2 conversions each | 1,402,068 | what matched was paid; what was rejected was not; limits; one payout |
| `outbox` | 2 transactions, 2 overlapping polls of 2 events, 1 retry, 2 handlers, 1 client, 2 faults | 133,075 | atomic writing, delivery in order, progress, and that it implements `DeliveryPromise` |
| `clearing` | 3 parties, a ring of obligations and one to oneself, 2 cycles, limit 2 (3 in an emergency) | 345,056 | positions and limits |
| `compliance` | 1 evaluation, 2 lists, 2 analysts, 3 rules; amounts around every threshold | 1,088,640 | screening and the AI's say |
| `remittance_app` | one of: 1 customer, 2 amounts, 1 quote, 2 orders, 2 exchanges at a time, 1 restart; 3 calls, 1 key, a bucket of 2 refilled by 1, 2 lives | 593,369 | the web client under lost answers and restarts; idempotency keys |
| `paid_once` | as `rails` | | a statement on idempotency that the rail does not keep |

Why the bounds are enough to be of interest:

* **payment_flow.** Payments of 2 units against 3 units of funds: one is covered, two are
  not, and the second can slip in at each await of the first. With -1 in between, two are
  sent, 4 units in all: `PayoutsCovered` is reached with equality. Amounts that are not
  positive take the path that fails after the reservation, the unknown wallet the one that
  fails before it.
* **liquidity.** Three pools make a fallback over two levels and a rebalance of a pool
  that has itself just paid for one; two alerts make one that is stale because of the
  other. Amounts are multiples of 4 and ratios halves, so that two divisions in
  a row stay exact and the results do not depend on rounding.
* **settlement_scheduler.** Three workers and three tasks let one batch be overtaken by
  another in its middle while a third settles the task it has not reached. Tasks may
  share a reservation and may name none.
* **general_ledger.** Two days and two periods give every overlap of periods; three calls
  on four entries include two that share an entry and a rejected one between them.
* **wallet_postgres.** Three calls give a hold and two releases of it, or a hold whose
  second movement is refused because another call came between. A zero amount is the
  CHECK that fails after the balance was found sufficient; a negative one always is
  found covered, and refused by the same CHECK.
* **rails.** Three executions: one that is overlapped, one that overlaps, and one
  after both, of the same object or of another with the same id. Two transfers may share
  a pool, drain it, or send twice; one
  delivers more than the amount that was checked, so that it alone takes a pool below its
  threshold. A catalogue holds two versions of a provider, so
  that a registration between two hops changes what is quoted.
* **connectivity.** A journey of 1 unit and one of 2 against a daily limit of 2: each
  fits, both do not. The sandbox executes 2 units whatever was asked, so one
  journey's conversion is right by luck and the other's is not. Two officers may be maker
  and checker in either order or the same one twice.
* **outbox.** Two polls of two events each overlap in every way, and one retry gives a
  handler that is called again after it failed. A pool of one client is the smallest in
  which a leaked client stops everything, and with two faults a publish can fail for good.
* **clearing.** The ring of 3, 2 and 1 does not cancel out; the obligation of A to itself
  is the case that `MultiLevelNetting` gets wrong. Two cycles split the ring at any
  place. Items of 1 and 2 fit the limit alone and not together.
* **compliance.** Amounts lie on both sides of every threshold, a hit stands
  first or last in the lists, and an AI answers lighter or stricter than the engines.
* **remittance_app.** One quote and two orders are what a duplicate needs. Two exchanges
  at a time are one that is late and one that replaced it. Three calls of one key are one
  that runs, one that overlaps it and one that comes after.

Where a run says `CHECK_DEADLOCK FALSE`, calls, tasks, messages or identifiers are
finite in the model, and when all have ended the system may stop. `Liquidity` never
stops, since policies can always be set, and is checked for deadlock. Symmetry is used
over calls, workers, officers, executions, transfers and remittances, which the
specifications treat alike, and never in a run that checks liveness.

### The properties

`PaymentFlow`
: `WalletAccounting` (what left a wallet's available balance is locked and belongs
  to payments whose events say they reserved it), `SendsAreSecured` (`PayoutsCovered`:
  providers are asked for no more than a wallet held and negative amounts put back into
  it; `SentOnlyWhenSecured`: by no payment whose funds were not taken),
  `OutcomeIsConsistent`, `ChainIsCovered` (what the chain was given is still locked or was
  put back by a negative amount, also for a payment reported as failed that lands later
  and for one reported as completed that is dropped), `KeepsPromise` (refinement of
  `WalletPromise`), `EveryPaymentEnds`.

`WalletPostgres`
: `OutcomesMatchRows` (balances, holds and entries are the sum of what the calls did:
  all of it for a call that returned, nothing for one that threw, but for a reservation
  whose second movement failed and for answers that were lost), `RunsInTurn` (refinement
  of `SerialWallet`: each call takes effect on the balances of that moment, or has none),
  `EveryCallEnds`.

`Liquidity`
: `PoolsAreAccounted` (no balance is negative, and those that are reserved or committed
  are the sums of the reservations), `NeverOverfills` (a stale alert never lifts a pool above its
  ratio), `KeepsPromise` (refinement of `LiquidityPromise`: the sum of the
  available balances is one pot that only reservations change).

`SettlementScheduler`
: `SettledOnce`, `TasksAreAccounted` (a task in processing has a worker, and a failed
  one holds no money).

`GeneralLedger`
: `TrialBalances`, `PostingsAreOrderly` (gap-free numbers, and each call posts once or
  leaves nothing), `ClosedStaysClosed`, `ClosedBooksSettle` (only calls validated before
  the close can still post).

`RailPayment`
: `SettledWasPaid` (overlapping executions never show a failed settlement as a settled
  one), `LoneResultIsTrue` (an execution that nothing overlapped returns the truth).

`TreasuryRouting`, `RoutePlanning`
: `TransfersHold` (pools that no two open transfers share, and from which none takes more
  than was checked, keep their thresholds;
  confirmed means landed, in the asset asked for; two landings need a lost answer; the
  simulated ranking is by cost up to risk), `ProvidersAreJudged` (what is ranked was
  quoted hop by hop, what is left out was refused, the provider found was the best of
  those asked, reputations are counts).

`Connectivity`, `RealProviders`
: `MatchedWasPaid`, `RejectedNeverPaid` (an officer's rejection, before or after,
  excludes a payout), `DailyLimitKept` (unless two evaluations are open at a time),
  `PaidOnceAndFunded`.

`Outbox`
: `OutboxAgrees` (journal and event appear together, no handler hears of an uncommitted
  journal, no client is lost but to a failed BEGIN), `NoOvertaking`, `KeepsPromise`
  (refinement of `DeliveryPromise`: only what was recorded is told, an event leaves the
  queue when every handler was told or it was made a dead letter, also across restarts,
  and nothing is undone),
  `EveryEventIsProcessed`.

`Clearing`
: `PositionsPreserved`, `CyclesReduce` (nobody both pays and is paid, volume never
  grows), `LimitKept`.

`Compliance`
: `ApprovedWasScreened`, `AiNeverLightens`.

`RemittanceApp`, `PaymentApi`
: `AppTypeOK` (buttons are disabled exactly while the exchange they wait for is under
  way), `TransfersAreTold` (the receipt is what was reviewed; a quote has two orders
  only if the customer was told the first had failed), `KeysAreKept`.

Several properties carry a condition, and it is where the code gives less than one would
wish: what negative amounts put back in `SendsAreSecured` and `ChainIsCovered`, lost
answers and half reservations in `OutcomesMatchRows`, overlapping releases in `RunsInTurn`,
`contended` in `DailyLimitKept` and `TransfersHold`, a delivery larger than what was
checked in `TransfersHold`, `overlapped` in `LoneResultIsTrue`, a failure that was shown in
`TransfersAreTold`, dead letters in `KeepsPromise` of the outbox, self-obligations in `PositionsPreserved`, capacity granted before a
limit in `LimitKept`, a silenced rule in `AiNeverLightens`, a leaked pool in
`EveryEventIsProcessed`. Each condition is a part of the model's state and is reached by
the run, so that both sides of it are explored. The hazards that these conditions carve out
are listed in `PROJECT.json` as covered by no property.

### Fairness

`PaymentFlow!FairSpec` assumes weak fairness of each call's steps: the event loop
runs every continuation that is ready, the in-memory repositories resolve at once,
the mock provider resolves on its timer and the adapter's RPC calls return or
throw. Nothing is assumed of the chain: `ChainResolves` is not fair, since a
transaction that was broadcast may stay in flight for ever. `WalletPostgres!FairSpec`
assumes that a statement of a call that has begun is executed once its row is free; no
call has to begin, and no connection has to break. `Outbox!Spec` assumes the same of each
writer's and poll's steps (the interval timer fires) and that a dispatcher that was
stopped or lost is started again; faults and restarts are not fair and are bounded.
No other liveness is claimed: no code obliges the owner of a reservation to commit it or
to roll it back, reservations do not expire, the customer need not go on, and nothing
retries a transaction of the rail. `Liquidity!FairSpec`, the timer that delivers an
alert, is there for whoever states a property of the alerts.

## The proofs

All theorems hold for every value of the constants that satisfies the named
assumptions of the module: any finite sets of calls, workers, parties or journeys, any
amounts, any bounds on faults and restarts. Each rests on an inductive invariant, which
TLC checked on the instances above.

| Theorem | Module | Establishes |
|---|---|---|
| `TypeCorrect`, `AccountingHolds`, `SendsStaySecured`, `OutcomesAreConsistent` | `PaymentFlowProofs` | the invariants of `payment_flow` |
| `ChainStaysCovered` | `PaymentFlowProofs` | `ChainIsCovered` |
| `Refinement` | `PaymentFlowProofs` | `Spec => KeepsPromise` |
| `RowsAreTrue`, `CallsRunInTurn` | `WalletPostgresProofs` | `OutcomesMatchRows`; `Spec => RunsInTurn` |
| `AccountingHolds` | `LiquidityProofs` | `PoolsAreAccounted` |
| `RebalanceNeverOverfills`, `Refinement` | `LiquidityProofs` | `NeverOverfills` and `KeepsPromise` |
| `SettlesOnce`, `AccountsForTasks` | `LiquidityProofs` | `SettledOnce` and `TasksAreAccounted` of the scheduler |
| `SchedulerRefinesNetwork`, `ScheduledPoolsKeepPromise` | `LiquidityProofs` | `SchedulerSpec => Spec`, and with it all that is proved of the network |
| `TypeCorrect`, `PostingsStayOrderly`, `JournalsBalance`, `TrialAlwaysBalances` | `BooksProofs` | the invariants of the ledger, and that every journal balances |
| `ClosedDaysStayClosed`, `ClosedDaysSettle` | `BooksProofs` | the two action properties of period close |
| `PositionsStayPreserved`, `CyclesAlwaysReduce`, `LimitsAreKept` | `BooksProofs` | the invariants of `clearing` |
| `SettledIsPaid`, `LoneResultHolds` | `RailsProofs` | `SettledWasPaid`, and the action property `LoneResultIsTrue` |
| `TransfersAreHeld` | `RailsProofs` | `TransfersHold` |
| `ProvidersAreJudgedRightly`, `SimulationsAreSound` | `RailsProofs` | `ProvidersAreJudged`; that every hop of a route was found and every total is the sum of its quotes |
| `MatchedIsPaid`, `RejectedIsNeverPaid`, `DailyLimitIsKept`, `RemittanceIsPaidOnce` | `ConnectivityProofs` | the invariants of `connectivity` |
| `ApprovedIsScreened`, `AiOnlyAdds` | `ConnectivityProofs` | the invariants of `compliance` |
| `OutboxKeepsAgreeing`, `NothingIsOvertaken` | `OutboxProofs` | the invariants of `outbox` |
| `ProcessedWasDelivered`, `DeliveryIsKept` | `OutboxProofs` | that what is PROCESSED reached every handler or is a dead letter; `Spec => KeepsPromise` |
| `KeysStayKept` | `OutboxProofs` | `KeysAreKept` |
| `FormsStayUsable`, `TransfersStayTold` | `OutboxProofs` | `AppTypeOK` and `TransfersAreTold` |
| `TotalUpdate` and others | `Totals` | what a changed element or a grown set does to a sum |

`SendsStaySecured` joins `PayoutsAreCovered` and `SentIsSecured`, and
`PostingsStayOrderly` joins `NumberingIsGapFree` and `CallsPostOnce`, which are theorems
of their own. Modules that share no state share a file of proofs where their names do
not collide; no theorem about one mentions the other.

The arguments:

* **PaymentFlow.** `TypeOK /\ WalletAccounting` is not inductive. Events and
  holds are evidence of how far a call came, and `Progress` ties them to its stage:
  which stages have LiquidityReserved, SettlementStarted and SettlementConfirmed
  out, which have an open hold, that only `failed` has PaymentFailed. With it the
  step `UpdateBalances` adds exactly one element to `ReservedOn(w)`, and the lemmas
  of `Totals` turn this into the change of two sums, of what was taken and of what negative
  amounts put back; every other step leaves both alone. `PayoutsCovered` and
  `ChainIsCovered` follow since what was sent, or has reached the chain, was reserved. The
  refinement maps a call to `taken` or `put_back` when its update ran and to `sent` at
  `Dispatch`, which only a positive amount reaches; all other steps are stutters or
  `GiveUp`.
* **WalletPostgres.** That a committed row passes the CHECK of the schema is not in the
  row: it was checked when a transaction updated its own copy. `LockIsHeld` says that the
  transactions between update and commit hold the row's lock, hence are at most one, and
  `RowIsChecked` that their copy still passes. `HoldWasRead` keeps the hold a release read,
  since two releases may read the same one and the schema does not stop the second. A
  commit then changes one element of the sum of what was moved, or of what was returned,
  whether or not its answer arrives. For `RunsInTurn` a call
  takes effect where it commits: `RowIsChecked` is the guard of the abstract step, and
  `OfItsHold` says that the amount a release read is still that of its hold. A release's
  reading is `FindOpen` and its rollback `Abandon`. All other
  statements change nothing that a row shows (`Quiet`).
* **Liquidity.** `PoolAccounting` needs `HeldSomewhere`: a reservation exists
  exactly if its pool is known. That a commit or rollback never makes a balance
  negative is then `ReservedCovers`: an element of a sum of natural numbers is at
  most the sum. `NeverOverfills` is arithmetic: the quotient times the divisor is at
  most the dividend, and both balances are those of the moment of delivery, which
  is why staleness does not matter. In the refinement a rebalance moves money
  between two elements of one sum.
* **SettlementScheduler.** `SchedulerInv` speaks of what a worker knows between `Start` and
  its continuation: a reservation it has committed is committed by it alone and for no
  completed task, and one that it failed to commit cannot be committed. Overlapping batches
  may hold the same task; `Liquidity!Commit` succeeds for one of them, and the invariant
  carries that fact over the await. Batch steps are proved in two halves, the end of one
  task and the start of the next, with the worker outside of the invariant in between.
  `SchedulerRefinesNetwork` needs of all this only that tasks name calls: `Start` is
  `Liquidity!Commit` or leaves the pools alone.
* **GeneralLedger.** `EachCallPostsOnce` compares two cardinalities that a
  successful `Post` increases together. `BooksAreSound` says that a VALIDATED entry
  balances over registered accounts; it is inductive because accounts are never
  removed and because a status only becomes VALIDATED by a validation, even if
  other calls rejected the entry before. `ClosedDaysStayClosed` uses that new
  periods come last and the first match decides. The trial balance counts the units of
  all postings of a side twice: partitioned by account they are the columns, and
  partitioned by journal they are the entries, each of which balances.
* **Clearing.** The spans of the debtors tile the units from 1 to the total debt, those
  of the creditors the same number, so each unit lies in one span of each: summed over
  the other party, what two spans share is a party's whole debt or credit. This makes a
  batch's net obligations preserve its positions for any ranking. `NothingIsLost` is about
  every set of obligations, not only those of a party, because a step that moves an
  obligation between list and batch disturbs all of them alike; `ItemsCarry` follows
  what compression groups. For the limits `ReservationsFit` keeps the books of `current`
  and `reserved` against the reservations.
* **RailPayment.** The object a transition goes to is looked up when the transition is made.
  `LoneFacts` says that an execution that nothing overlapped finds its own object, in the state it
  left it in; it is inductive because whoever replaces or moves that object is an execution of
  the same id, hence overlaps. `SettledFacts` holds without that: whoever brings a state
  to a settled one has its own success in hand.
* **TreasuryRouting.** `PoolsCanPay` is about `Sound` pools, which are not contended and
  from which no recorded transfer took more than was checked: such a pool has at most one
  transfer between check and record, and can pay what was checked for it two awaits
  before. `AnswersAreKept` ties a confirmation to the
  transfer's last broadcast.
* **RoutePlanning.** Routes stand at the places 1 to n, ranked by how many others come
  before them. `PlacesAreTaken` is the pigeonhole argument that a strict total order on a
  finite set takes every place once, so that a rank names one route and a
  shorter list leaves out only what was refused. `totals` are the sums the simulation
  accumulates, and `SumsOfAppend` ties them to the quotes. The search's `BestFits` speaks
  of the providers heard so far, and `ReputationFits` adds to the counts that seeded providers
  stay recorded, without which an unknown one would get another seed.
* **Connectivity.** Journeys interleave at every call but write their own leg only. `usage`
  is shared, and `OpenEvaluationFits` speaks of the evaluation that is open as well: as long
  as there was never a second one it still fits. `OneDecisionPerType` is why a rejection that
  comes after the payout cannot contradict it.
* **RealProviders.** `ChainHolds` goes backwards from a payout to conversion, deposit,
  account and check: what a session was told may be behind what stands at the provider and
  never ahead of it.
* **Compliance.** `FoundFacts` says for the list whose answer is awaited that all before it
  were clear, although lists are registered meanwhile, and that the composite risk stays
  below the score at which it would count: this is why the AI's score in its place does
  not lighten a decision unless it silences a rule.
* **Outbox.** A batch is given by ranks: a row is fetched at the place of the number of older
  pending rows. That every rank below the number of rows is taken is a pigeonhole argument over
  finite sets. `InOrder` then says of each poll, for every pending row that was committed
  before its fetch, that it stands before all younger ones of its batch or was dealt with,
  and survives other polls because rows only cease to be pending. In the refinement COMMIT
  records a fact, whether or not its answer arrives; an attempt tells of it, or gives it
  up, or both; the UPDATE at the end of a poll drops what the poll had finished with. What
  was given up are the dead letters of all processes, so that a crash is a stutter, as are
  fetches, failures and restarts, and a fact recorded after one still has to be told.
* **PaymentApi.** A key is STARTED exactly while a call that took it is under way, at most
  one call took it in a life of the process, and the record's response names that call.
  Tokens are counted against the calls that were served.
* **RemittanceApp.** `NoSilentDuplicate` needs to know that the quote on show was not
  transferred. `PageIsNew` says so for a page that shows a quote nobody is transferring and whose
  transfer was not reported as failed, and `QuotesAreNew` for a quote that is
  still on its way. They are inductive with `FormsFit`: at most one exchange is waited for, so
  that no second confirmation of the same quote leaves the page. `TransfersFit` is why the
  receipt matches even when a restarted gateway prices the transfer anew.

Only model-checked:

* `EveryPaymentEnds`, `WalletPostgres!EveryCallEnds` and `EveryEventIsProcessed`: liveness
  is out of the prover's reach.

Every safety property and every refinement that a passing run checks is also the statement
of a theorem.

## Where code and documents disagree

The run `paid_once` expects a violation. `docs/ms25-uk-india-corridor.md:17` says that a
transaction submitted again locks no FX and requests no settlement again, but
`createTransaction` resets the stored transaction to CREATED and `execute` looks at no
key: the network settles it a second time.

Others were met while modelling; the models follow the code.

* Payments: `LedgerService.finalizeEntries` says it marks entries as committed and changes
  none, while LedgerCommitted is emitted. `commitFunds` is said to deduct permanently, and
  the amount of a completed payment stays in the locked balance. SettlementConfirmed is
  emitted for a broadcast that is pending and may be dropped. The catch block says where
  the hold would be released, and does not release it. A negative amount is refused only
  after it has given locked funds of other payments back. `PaymentController` gives the
  routing a `TreasuryService({})`, whose repository has no methods.
* PostgreSQL: `reserveFunds` moves an amount in the transaction of `createHold` and again
  in `updateBalances`; a hold that two calls release at a time is paid back twice.
* Liquidity: a rebalance is said to restore the minimum ratio and falls short of
  it, since the money it moves enlarges the assets the ratio applies to.
  `findFallbackPool` does not end when parents form a cycle.
* Ledger: `PostingEngine.ts:19` refuses postings to a closed period, but the period is
  checked before an await and not again when the journal is appended. Debits and
  credits of different currencies are added up as if they were one.
* Treasury: `TreasuryService.ts:21` says that a pool "Must have balance above minThreshold
  after this transfer". `RoutingEngine.ts:50` asks it for the sender's amount, in the
  sender's currency, and `recordTransfer` takes out the recipient's, so that between two
  currencies a single transfer may break the threshold. The comment at
  `RoutingEngine.ts:30` ranks equal costs by settlement speed, and the code
  by confidence. `SolanaProvider` sends an asset that its registry does not know as SOL.
* Route planning: `tests/integration/RoutingEngine.test.ts:183-200` expects that a provider of
  ruined reputation is not in the selected route. The `makeDecision` it calls does not
  exist any more, and nothing that ranks routes or providers reads
  `ProviderReputationEngine`; in the model reputations and rankings share no state either.
* Rail: the orchestrator imports a readiness engine that its file does not export.
* Connectivity: maker and checker are compared only when the checker comes second, and a
  decision may come after the settlement it is about. A connector of the production
  environment starts SUSPENDED and is said to fail closed
  (`UkSettlementConnector.ts:18-20`, `docs/ms26-connectivity-architecture.md:19`); a
  health check turns it into DEGRADED, which the guard of its operations lets through.
* Real providers: Cashfree's status is always COMPLETED, and a payout that is reported
  as FAILED may have been accepted. Currencycloud keeps an expired token, always asks
  for 500 GBP and is not gated by the real-money switch.
* Gateway package: a key whose request failed is answered "Request in progress" for ever,
  while a request that overlaps another of its key makes `handleRequest` throw; keys are
  not scoped by route; and the path `/v1/payments/{id}` is compared literally.
* Clearing: an obligation of a party to itself credits it, so that a cycle that contains
  one does not preserve positions; capacity that was granted before a limit was set drives
  the limit's reserved exposure below zero.
* Outbox: a client whose BEGIN failed is never given back to the pool.
* Compliance: the AI's score replaces the composite risk for the rules, so that it may
  silence one of them.

## The plan

Done: every component of the table above but its last line, theorems about every safety
property of the passing runs, and four refinements of abstract specifications. What could come next:

1. `RailPayment` as a refinement of what it promises where nothing overlaps (a payment
   that is settled at most once per request), stated as an abstract specification as
   `SerialWallet` and `DeliveryPromise` are.
2. A clock in `PaymentFlow`, for the ids that payments of one millisecond share.

## Not modelled

* Settlement orchestrator and sagas: every orchestration throws in its second statement,
  since no state may change to CREATED (`SettlementOrchestrator.ts:33`). The runner of the
  graph, its retries and its compensations are never reached.
* `InMemoryLockManager`: no code takes a lock. `CaseManager`: no engine opens a case, and
  an operator's calls overwrite its status unconditionally. `WebhookDispatcher`: nothing
  constructs it. `PostgresTransactionRepository`: `LedgerService` calls no method of it.
* Readiness gates: constants and two readings of one environment variable;
  `RailPayment` takes any answer.
* Other chain services: stubs, and a monitor that tracks nothing.
* The operations console: static pages without requests. The many packages of AI,
  analytics, governance, marketplace, operations and plugins: placeholders of a line or
  fixed values, on which no state of the payment system depends.
* Kafka, NATS and Redis brokers, `publishBatch` and replay: empty methods.

Within the modelled components:

* `WalletService.lockFundsForSettlement` is empty; `releaseFunds` and
  `recordCrossCurrencyEntries` have no caller in the payment flow (`WalletPostgres` models
  them under any). Creating wallets and accounts, and the trial balance in SQL.
* `ChartOfAccounts` keeps a list of children that nothing reads. Currencies in
  `findFallbackPool`, which it does not compare. Expiry of reservations and of idempotency
  records: stored, never read.
* Netting cycles of the treasury (no caller, and `triggerNettingCycle` is a stub),
  `CorridorIntelligence` (looked up, not used), the risk and probability of a route (read
  by no one).
* Credentials and their rotation, beneficiaries of the sandboxes and of the web
  application, profile and health endpoints with fixed answers.
* Settlement windows of the clearing house (a map with an event), other counters of its
  reports, projected exposure (never changed), more than one dimension of exposure.
* Evidence, traces and events of the compliance decision: nothing reads them.
