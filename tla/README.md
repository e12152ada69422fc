# A verified model of the stateful parts of boilerplate-testing

The repository is a collection of testing patterns. Many of its directories
measure something that keeps no state between two steps: they render a table,
validate a schema, compare an image. The others contain a program in its own
right, with state, an order of steps, concurrency or failure:

| directory | the program |
| --- | --- |
| `idempotency/` | a charge service with eight ways of handling a retried request, the transactional store underneath and the payment gateway beyond it |
| `concurrency/` | a ledger with a hand-written mutex over an asynchronous store without transactions |
| `ephemeral/` | preview environments deployed and torn down by workflow runs that race, die and are cancelled |
| `authstate/` | workers that share signed-in sessions through a server that allows one live session per account |
| `dbisolation/` | a subject whose transactions are rewritten into savepoints, and eight strategies that reset a database between tests |
| `chaos/` | six policies around one fetch, with budgets, retries and a circuit breaker, against a dependency that goes wrong |
| `pact/` | a consumer and a provider released through a broker that must stop a breaking change |
| `containers/` | suites that share a started container, within a run and across runs |
| `impact/` | the suites to run for a diff, by a walk backwards over importers |
| `fuzz/`, `property/`, `determinism/` | a minimiser, set operations on time ranges, and session renewal on a manual clock |

This project models those, checks them with TLC, and proves the central facts
about all of them but `pact/` with TLAPS. `PROJECT.json` is the index: which definition
stands for which lines, which run checks which property, which changed
definition ("slip") breaks it, what was found, and which hazards of the code the
properties answer. Its line references are to the repository at the commit the
modules were written from.

- [Inventory](#inventory)
- [Modules](#modules)
- [Runs](#runs)
- [Proofs](#proofs)
- [Findings](#findings)
- [What is only model-checked, and what is not modelled](#what-is-only-model-checked-and-what-is-not-modelled)
- [Plan](#plan)

## Inventory

### idempotency

**Store** (`store.ts`). State: committed rows; per transaction its buffered
rows, the list of its reservations and whether it is settled; per index value
the holder and a queue of waiters; who waits on what. Operations: `insert`,
`update`, `commit`, `rollback`, `killDelivery`. An `insert` suspends twice, in
its hook and in `acquire`, and looks at the committed rows only after the second
await. Hard: the reservation is taken before an await and relied upon after it;
a woken waiter runs a microtask later; a wait can close a cycle; a delivery can
die with a call in flight. Correct when no two committed rows share an index
value, no lock outlives its transaction, no wake-up is lost, and every insert
comes back.

**Handlers** (`service.ts`). Each of `none`, `natural-key`, `memo-after`,
`memo-before`, `lease`, `lease-recovering` (and `retry-backoff`, which is `none`
with a patient client) is a different order of the same three things: claim the
key, charge through the gateway, record the answer. State: the committed
`idempotency_keys` and `charges`. `atomic-outbox` records the intent instead of
calling, and a drain sends it. Interactions: the store (blocking), the gateway
(outside every transaction), the clock (lease and key TTLs), the client (retries).
Hard: death after the gateway answered and before the commit; take-over of an
expired lease from a row read in another transaction; two drains reading the same
pending row. Correct when an operation's money moves once, nobody is told of a
charge that is not there or not theirs, and every delivery ends.

**Gateway and clock** (`gateway.ts`, `clock.ts`). Calls are remembered for ever,
by dedup key if there is one. Time moves when the client waits.

**Harness** (`harness.ts`). Delivers requests, parks them at named points, kills
them, reconciles. Its scripted orders are replaced by every order.

### concurrency

**Ledger** (`ledger.ts`). State: the store's balances; the mutex (`held`,
`waiting`); the balance reads in flight, shared by whoever asks meanwhile.
Operations: `balance`, `deposit`, `transfer`, `settle`. Hard: the critical
section is four awaits long; the lock is handed over a microtask before its new
holder runs; a read that has been answered can still be joined for one hop; a
store call can reject between the debit and the credit. Correct when calls look
atomic, nobody overtakes, no balance is staler than what its reader already saw
returned, and every call ends.

**Runtime** (`runtime.ts`). The free and the scheduled runner decide when a store
call settles. Here it may settle at any moment.

### ephemeral

**Cloud, seeds** (`cloud.ts`, `seeds.ts`). Resources, some inside a namespace
that takes them along when it is deleted; one dataset per environment or one for
all. **Deployer** (`deployer.ts`): a state file that records what a deploy
created. **Harness and wirings** (`harness.ts`, `strategies.ts`): pull-request
events register workflow runs; a run takes effect when it finishes; it can be
cancelled by a newer one or die; a scheduled sweep reaps by age or by whether the
pull request is open. Hard: runs that land out of order, a deploy in flight at
the close, a teardown that dies, resources the platform made and no record
names. Correct when the record and the cloud agree, the newest run decides, data
is not shared by accident, and a wiring with a reaper leaks nothing for ever.

### authstate

**Origin** (`origin.ts`, `server.ts`). State: accounts with their one live
session and their notes, live sessions, a ledger, named barriers holding the
resolvers of parked requests, and (in the server) a deadline per parked request.
**Fixture** (`strategies.ts`, `fixture/`): a worker restores a saved state file or
signs in, under five strategies; tests meet at barriers; a failed test discards
its worker and the next one has a new `workerIndex` at the same `parallelIndex`.
**Driver** (`runs.test.ts`, `derive.ts`, `isolation.ts`): two runs per strategy,
and a verdict derived from the rows they filed. Hard: which of two workers signs
in last; a party that dies before a barrier, or comes after a deadline; a
replacement that inherits. Correct when the verdicts do not depend on the order,
the two maps of sessions agree, the barriers order what they are there to order,
and every run ends.

### dbisolation

**Rewriting** (`rewrite.ts`). State: the depth counter, beside the stack of
savepoints PostgreSQL keeps. Operations: one per statement of the subject; BEGIN,
COMMIT and ROLLBACK become SAVEPOINT, RELEASE and ROLLBACK TO. Hard: the counter
moves before the statement has succeeded; ROLLBACK TO leaves its savepoint
behind, so names come back; a subject may send a COMMIT it never opened, or spell
one so that the first word does not tell. Correct when the harness's own transaction
is not ended by a subject that commits and rolls back by the bare keywords, and such a
subject's transactions nest.
**Strategies, subject, suite, probes** (`strategies.ts`, `orders.ts`, `schema.ts`,
`behaviours.ts`, `leakage.ts`, `matrix.ts`, `scoring.ts`). State: tables,
sequences, an index, the connection of the test; what a test leaves is what the
next one measures. Correct when each strategy catches, refuses and leaks exactly
what the tables publish.

### chaos

**Policies, transports, origin, runs** (`policies.ts`, `faults.ts`, `layers.ts`,
`origin.ts`, `timings.ts`, `runs.ts`, `outcomes.ts`). State: of a call, its attempt,
budget and deadline; of a series, the breaker's count of failures; of the origin,
what it has seen. Hard: a race that ends while the body is still to come, a signal
nobody listens to at the stub, a count shared by attempts and calls. Correct when
a signal bounds a call, an open breaker sends nothing, and every cell is what
the code does.

### pact

**Pipeline, provider, contracts** (`pipeline/run.ts`, `pipeline/scenarios.ts`,
`provider/app.ts`, `provider/states.ts`, `broker/client.ts`). State: what is published,
what was verified, what is deployed. Hard: what is verified is not what is
deployed; a contract may be pending; two sides ship in some order. Correct when a
change that would break the consumer in production stops at the published stage,
and nothing else does.

### containers

**Strategies and workload** (`isolation.ts`, `workload.ts`, `matrix.ts`): two suites
per strategy on one PostgreSQL, Redis or Kafka; the second finds what the first
one's strategy did not name. **Suite fixture** (`suite.ts`, `daemon.ts`): one promise
of a started container per store and run, a namespace per suite, databases handed
out until there are none. Hard: a run dies with its hooks unrun and the next one
adopts the container; a start that was rejected. Correct when a suite sees only
what it wrote.

### impact

**Diff, graph, edges, selection** (`diff.ts`, `graph.ts`, `edges.ts`, `triggers.ts`,
`select.ts`). State: of the walk, its frontier and what it has reached. Hard: the
graph is read off the tree as it is now, in which nothing imports what is gone; a
new file may come in ahead of another candidate of the same specifier. Correct when
a suite that is not selected could not have noticed the change.

### fuzz, property, determinism

**Minimiser** (`minimise.ts`): ddmin and a sweep; correct when the result still fails
and has no character to spare. **Availability** (`availability.ts`): union, intersect
and subtract on lists of half-open ranges; correct when the points are those of the
set operation, in canonical form. **Sessions** (`session.ts`, `environment.ts`):
refreshes on a clock with two readings, callbacks that schedule callbacks; correct
when a refresh comes when it is due and before its session expires.

### Everything else

Listed in `PROJECT.json` under `components`, each with the reason it is not
modelled: pure computation over files (`shape`, `mutation`, `openapi`, `flake`),
budgets over reports (`lighthouse`, `k6`, `bundlesize`, `a11y`), what a third-party
tool does (`playwright`, `vitest`, `trace`, `matrix`), one request at a time through a
table or an array (`intercept`, `msw`, `factories`, `prisma`, `supertest`), rendering
(`snapshot`, `visual`, `ct`, `storybook`, `react`), exercises (`tdd`). Also left out,
inside the directories that are modelled: cost measurements, rendered tables, a
random search and its corpus (`fuzz`), generators and what they shrink to
(`property`), audits of the sources (`determinism`).

## Modules

| module | models | composed of |
| --- | --- | --- |
| `UniqueIndex` | what the store promises: an insert of a value another open transaction has is one whose step is not enabled | |
| `IdempotencyStore` | `store.ts`, one action per stretch between two awaits | implements `UniqueIndex` |
| `IdempotencyStoreProofs` | theorems | `IdempotencyStore` |
| `PaymentGateway` | `gateway.ts` | |
| `ChargeService` | the handlers that answer after the gateway | `PaymentGateway` |
| `AtomicOutbox` | the `atomic-outbox` handler, `drainOutbox` and the reconciler | `ChargeService` |
| `Service` | the endpoint as the harness runs it: every handler and the outbox, deaths and time, with its properties | `AtomicOutbox`; implements `OneOperation` |
| `OneOperation` | what an idempotency key is for: no rows, leases, clock, locks or deaths | |
| `ServiceProofs` | theorems | `Service` |
| `ServiceRefinementProofs` | that `lease`, `lease-recovering` and `atomic-outbox` implement `OneOperation` | `ServiceProofs` |
| `AtomicLedger` | what the ledger promises: each line in one piece | |
| `Ledger` | `ledger.ts` over the runtime's store, at the grain of the microtask | implements `AtomicLedger` |
| `LedgerProofs`, `LedgerBalanceProofs` | theorems; the second about shared reads, from the first's invariant | `Ledger` |
| `Cloud`, `Deployer`, `Environments` | `cloud.ts` + `seeds.ts`; `deployer.ts`; `harness.ts` + `strategies.ts` | each extends the one before |
| `EnvironmentsProofs` | theorems | `Environments` |
| `Origin` | `origin.ts` behind `server.ts` | |
| `Verdicts` | `derive.ts`, as operators on a sequence of rows | |
| `AuthState` | the fixture, the runner's discards and retries, the driver | `Origin`, `Verdicts` |
| `AuthStateProofs` | theorems | `AuthState` |
| `Postgres` | transactions and savepoints of one session, as the database answers them | |
| `SavepointRewriting` | `rewrite.ts` under any subject | `Postgres` |
| `DbIsolation` | strategies, subject, suite, probes | `SavepointRewriting` |
| `Chaos` | policies, transports, origin, series | |
| `PactPipeline` | the pipeline, the provider, the broker as it is used | |
| `ContainerSuites`, `SuiteFixture` | the residue suites; the fixture for suites that share a container | |
| `Minimiser` | `minimise.ts`, one candidate per step | |
| `ImpactSelection` | diff, graph, walk | |
| `Availability` | the set operations, one iteration per step | |
| `SessionClock` | sessions on the manual clock and scheduler | |
| `Harnesses` | the ten parts above that share no state (the rewriting, and the nine after it), one per behaviour | `DbIsolation` to `SessionClock` |
| `HarnessesProofs` | theorems about seven of them: the selection, the sessions, the fixture, the minimiser, the policies, the rewriting and the set operations | `Harnesses` |
| `MC*` | instances for TLC | |

How state and actions correspond:

- **One step is what runs without interruption.** The code is asynchronous
  JavaScript, so that is the code between two awaits. `pc` names the await at
  which a transaction, a delivery, a task or a worker is suspended. In `Ledger`
  even the order in which due continuations run is kept, as a FIFO of jobs,
  because whether a reader may join a read is decided by one hop through it. In
  `IdempotencyStore` the woken waiters are such a FIFO (`ready`).
- **Handlers use the store by its promise.** `ChargeService` and `AtomicOutbox`
  do not contain wait queues: an insert blocked by another open transaction is
  not enabled. That is exactly `UniqueIndex`, and that the store implements it is
  run (`store_crossed`) and proved (`StoreImplementsIndex`).
- **Data is cut down to what is told apart.** A request is principal, key, order,
  amount. The text that principal and key are joined to is `Joined`, which may send
  two of them to one. A charge row is named by the delivery that wrote it. A workflow run's
  commit is a number and a schema. A session is its counter value. Wording,
  identifiers and rendering are left out.
- **One behaviour is one cell of a matrix.** The strategy, or wiring, and the
  requests are chosen at the start and never change. So one run covers all rows of
  a table, and a property says which rows it speaks of (`Uses({...})`,
  `wiring.cancelInFlight`, ...).
- **Published tables are properties, and nothing of the model is read from them.**
  `MeasuredAsPublished`, `CellsAsPublished`, `PactCellsAsPublished`,
  `ResidueAsPublished` and `AsDeclared` compare what the modelled code comes to with
  the cells the README of the directory prints. The faults, statements, policies
  and commands come from the code.
- **What is not in the repository is external.** PostgreSQL's savepoints, the
  gateway, the broker and the container are modelled from how the code uses them;
  `PROJECT.json` marks their definitions `external`.
- **Death is an action** wherever the code has a story about it: a delivery, a
  reconciler, a workflow run, a worker. What it had committed stays; its locks go
  with its connection.
- **A "Slip"** is a definition nobody uses, placed before the one it is a plausible
  wrong version of: a dropped guard, an off-by-one, a missing reset. For each
  property a slip put in the place of the right definition makes TLC report that
  property violated. `PROJECT.json` pairs them under `mutants`.

## Runs

Every run is `tlc -config X.cfg M`. Twelve in all: seven that pass, five that
exhibit a [finding](#findings). State counts are distinct states.

| run | asks | states |
| --- | --- | --- |
| `store_ordered` | with the one reservation order `service.ts` uses, deaths between calls: do locks die with their transactions, is nobody refused as a deadlock, does every insert return | 17 k |
| `store_crossed` | clients in opposite orders, real cycles, deaths in flight: is it still a unique index | 5.6 k |
| `service` | every handler, against a retry and a third request that differs in one thing, and for the outbox a reconciler that reads the same rows and dies anywhere: does each strategy keep what it promises, is a key one operation, and is every intent sent | 71 k |
| `ledger_calls` | readers around a deposit, a late arrival at the lock, a race for a whole balance, two rejected store calls anywhere: atomic, in order, not stale, always ending | 13 k |
| `environments` | eight wirings, runs landing or dying in any order, the platform, the clock and the sweep | 281 k |
| `authstate_table` | five strategies, both runs, any order of two workers, two deaths, any missed deadline: is the table what is measured, do the barriers order what they are there to order, do cleared hazards stay cleared in runs that went wrong, and does every run end | 271 k |
| `harnesses` | `Harnesses`: every subject of six statements through the rewriting; every cell of the isolation, chaos, contract and residue tables; weather that changes with every request; every small predicate, pair of range sets and diff; three runs of the fixture; every short schedule of refreshes | 634 k |
| `store_splice`, `service_text`, `ledger_itself`, `authstate_late`, `authstate_retry` | the findings | |

### What the properties say

*Store.* `ImplementsIndex`: behind the reservations, the queue and the two awaits
of an insert there is a unique index (so no two committed rows share a value, and a
buffered row keeps its reservation until its transaction settles; both are also
proved as theorems of their own). `NoLockOutlivesItsTransaction`, `NeverDeadlocked`
(one order of reservation never closes a cycle), `InsertReturns`.

*Handlers.* `MoneyMovedOnce` for `lease-recovering` and the outbox, whatever
take-overs, expiries and repeated drains happen; `ChargeBackedByMoney` (no phantom
row); `ToldTheTruth` (an answer names a committed charge, of the same principal,
and of what was asked where the fingerprint is compared); `OneWorkerPerKey` until
the first lease can expire; `OneChargeEach`; `RecordedAnswerStable`;
`EveryDeliveryEnds`; for the outbox `NothingLeavesUncommitted`,
`EveryIntentIsSent`. `ImplementsOnce`: for `lease`, `lease-recovering` and
`atomic-outbox` a key means what its first accepted request asked for, its payment is
decided once, and every answer is about that operation. How often it is booked is in
the abstract `Book`, which counts charge rows by the delivery that wrote them: one row
by `lease` and `atomic-outbox`; by `lease-recovering` a row for every delivery that was
given the key, as `idempotency/README.md:171-178` publishes (two charges, one gateway
effect). It promises nothing in a cell where two operations have one dedup text
(`Apart`); what happens there is `OwnMoney`, in `service_text`.

*Ledger.* `NoLostUpdate` (what is
written was computed from what is stored now); `NoStaleBalance` (never less than
what had returned when the reader asked); `NobodyOvertakes`; `EveryTaskSettles`;
`ImplementsAtomic`. Mutual exclusion, the hand-over included, is a theorem.

*Environments.* `TornDownForGood`; `NewestRunDecides`; `OwnData`;
`NothingLeaksForEver`.

*Authstate.* `AsDeclared` (the derived row equals `EXPECTED_ISOLATION` in every
order); `NobodyGoesAhead` (while two workers meet, nobody is past a barrier that
the other has yet to reach, unless the other will never come); `ClearedStaysCleared`
(no row of any run, whatever died and whichever deadline was missed, shows a hazard
its strategy is cleared of: nobody but `shared-lazy` is ever signed out, and an account
that is new to a test holds nothing else's); `EveryRunEnds`.

*Dbisolation.* `WrapperHolds` (until the subject sends a COMMIT or ROLLBACK in a
spelling the rewriting does not read, the harness's transaction is open and no other
session sees the test); `RewritingNests` (reads, rollbacks and
the counter agree with nested transactions, for a subject that answers a refusal
with ROLLBACK); `MeasuredAsPublished`.

*Chaos.* `CellsAsPublished` (with what the origin counted); `SignalBoundsTheCall`
and `OpenBreakerIsSilent`, which hold in changing weather too, where every request
of a series meets a fault of its own.

*Pact.* `PactCellsAsPublished`: the stage that stops each change, and that where a
broker lets one through, every consumer that can meet every provider on the way is
answered as its contract says.

*Containers.* `ResidueAsPublished`; `SuiteSeesOnlyItsOwn` (deaths, reuse and the
other suites of the run included).

*Impact.* `SelectionIsSafe`: a suite that is not selected reaches the same files
with the same texts as at the merge base.

*Fuzz, property, determinism.* `ReportIsMinimal`, `AnswersAreSets`,
`RefreshedInTime` (while nobody corrects the wall clock).

### Bounds, and why they are enough

- *Store*: four transactions and two values. A cycle needs two transactions and
  two values, a queue with an order needs three, and a third that is woken by
  the second's settlement a fourth. The safety properties are proved for every
  number.
- *Handlers*: three deliveries (a first, its retry, and one that differs in
  amount, principal, order or key). `LeaseTTL = 1`, `KeyTTL = 2`, time up to 4:
  room for two take-overs and one expiry of a finished key. Other handlers do not
  read the clock. Two amounts and a malformed one. `MayDecline = {d1}`: only
  the first caller's charge may be refused, so that a retry can find both a
  success and a refusal. Two customers may have texts that join to one.
  The safety properties are proved for every number of deliveries, keys, orders,
  amounts and reconcilers, every bound on time and every set of refusals.
- *Ledger*: three tasks, up to two calls each, three accounts, two rejected calls
  (a rejected debit, a rejected credit, or one of each task). The proofs cover
  every number and every program.
- *Environments*: one pull request with three runs and one with a single one that
  is only there to share; two commits with different schemas; `TTL = 1` with ages
  capped at the TTL, since nothing distinguishes older ones. The safety properties
  are proved for every number of pull requests, runs and commits and every TTL.
- *Authstate*: the sizes are the code's own, two workers, two parties, one retry.
  `MaxDeaths = 2` lets a worker die in each phase, or both workers of one. The two
  invariants are proved for any number of deaths and of parties.
- *Rewriting*: six statements and three contents: two levels of nesting with a
  write in each, a rollback that leaves its name behind and a name that comes back.
  Proved for every number.
- *Isolation, chaos, pact, residue*: every cell, with the code's own sizes: seven
  behaviours, ten faults, five probes; three calls of three attempts; twelve
  changes; two suites per strategy.
- *Fixture*: three suites over two databases, so that one is refused; three runs,
  so that what a run that died left is still there in the one after the next.
  Proved for every number of each.
- *Minimiser*: every predicate over three characters, and over five and eight those
  that need all of a set of positions, or either of two: ddmin has then up to three
  granularities, and chunks of unequal length. Proved for inputs of every length
  and every predicate.
- *Availability*: operands of up to two ranges with ends up to 3, empty and inverted
  ones too, and normalised operands with up to three ranges up to 6. Proved for
  every horizon and all lists.
- *Impact*: two suites over a module that may or may not be there, imported through
  a specifier with one candidate or with two, a declared edge and a trigger that
  imports, is imported by a suite and is the importer of an edge; every pair of such
  trees with one edit. Proved for all trees.
- *Sessions*: three sessions, the smallest and the largest draw, a short tick and
  one longer than any refresh, up to 700 ms, one correction backwards by 300 ms.
  Proved for every number of sessions, every draw, tick and correction.

`CHECK_DEADLOCK FALSE` throughout: every one of these systems comes to rest (all
requests answered, all runs over), so a state without a successor is no error.
That nobody rests too early is what the liveness properties check.

### Fairness, and why the code justifies it

- *Store, ledger, handlers*: weak fairness for the steps of a handler, task or
  transaction that has been entered. A promise that is resolved is continued by
  the event loop. No fairness for requests to arrive, clients to commit out of
  turn, deaths, or time. In `IdempotencyStore` a client whose call has returned
  goes on to its next call, commit or rollback, as every handler of `service.ts`
  does on every path.
- *Outbox*: only the reconciler is fair. It is run again and again
  (`harness.ts:387` runs it after the deliveries), which is weak fairness of its
  drain. It reads every pending row and goes down the list, and it may die on the
  way, but not at the same row for ever: strong fairness, per row, of the call to
  the gateway and of the mark. An inline drain may die every time.
- *Environments*: the clock advances and the scheduled sweep fires. That a run
  finishes is not assumed.
- *Authstate*: the runner keeps its workers going, timers fire, and the driver
  awaits each run. That a partner comes to a barrier is not assumed.
- *Harnesses*: safety only; their properties are about what is reached, and no
  fairness is stated.

## Proofs

For every value of the constants under the named assumptions of the modules. Where a
theorem assumes more, it says so. Eight modules hold theorems.

**`IdempotencyStoreProofs`** (1202 obligations): `StoreTypeOK`, `StoreUniqueRows`,
`StorePendingProtected`, `StoreImplementsIndex`, for any number of transactions
and values, deadlocks and deaths in flight included. Assumed: `SentinelAssumption`
(the two "nobody" constants are no transaction and no value) and `PlanAssumption`
(no transaction inserts one value twice, as no handler does). Neither `UniqueRows`
nor `PendingProtected` is inductive. `IInv` adds that a client is where its plan
says (`PlanOK`), that what is buffered is what its finished inserts asked for,
once (`PendingFromPlan`), and the fact everything turns on, `CheckHolds`: between
`acquire()` and the look at the committed rows the reservation is the
transaction's, as long as it is open. The clause "as long as it is open" is
needed: a killed delivery breaks it (see the [observations](#findings)), and the
index survives that because a settled transaction inserts nothing. The refinement
maps an open transaction's buffered values to `owns`; one lemma sends each action
to a step of the abstract index or to a stutter.

Two more, each for the plans it is true of. `StoreNeverDeadlocked` assumes `Ranked`
(all plans insert in one order) and finitely many transactions. The invariant `OInv`
says that whoever holds a value has inserted it or is about to (`HeldEarlier`), and
waits only for what its plan wants next (`WaitsForWanted`); so along the chain of
holders that `detectCycle` walks the wanted values rise, and the chain never comes
back. `store_crossed` has plans that are not ranked, and real deadlocks.
`StoreNoLockOutlives` assumes `Together` (a value that is somebody's second insert
comes, wherever it is inserted, with the value it came with there, as an outbox row
with its key) and that no death finds a call in flight. Then a refusal is always of a first
insert, the list the stray `splice` works on is empty, and whatever is held is listed
(`LInv`: `Listed`, `SettledGone`, `ListedLater`, `PlanPending`, `CommittedWhole`).
Both hypotheses are needed: `store_splice` and `MCStore_killed.cfg` show what happens
without.

**`ServiceProofs`** (2006 obligations): all seven safety properties of the
`service` run and `ServiceInvariant`, for any deliveries, reconcilers, requests and
times. Assumed: `CellAssumption`, `TimeAssumption` (LEASE_TTL_MS does not exceed
KEY_TTL_MS, as in `service.ts`), `JoinAssumption` (having no dedup
key is none of the texts; two names may well make one text) and `SentinelAssumption`. `IInv` has,
over the types and where the deliveries of each strategy may be suspended (`Placed`):

- `Locks`: an open transaction that will write a key has it reserved, and no row is
  there yet (`Reserved`); a row that was found or written stays (`RowThere`); nobody
  takes over before the first lease can have expired (`NoTakeOverYet`), so whoever is
  past the claim is alone there (`OneWorkerPerKey`); by `lease` its row is in progress
  (`InProgress`), by `lease-recovering` marked with what it was asked (`Marked`).
- `Money`: the gateway performs one call per dedup key (`CallsOnce`), and whoever
  remembers a success has such a call behind it (`AnsweredByMoney`).
- `Committed`: a charge row is committed before it is answered, queued or drained.
- `Recorded201`, `ToldTheTruth`: what a row records as done, and what a client was
  told, names a committed charge of the same key.
- `Once`: one charge row for a key, or an order, and nobody on the way to a second.

The parts lean on one another: `Once` needs `OneWorkerPerKey`, which needs the rows,
which need the reservations; `MoneyMovedOnce` is `CallsOnce` alone, because the
lease may run out and two workers may be there, and it is the gateway's dedup that
holds then. There is one lemma per handler and part. `ChargesBacked` needs, for
`atomic-outbox` alone, that no two operations of the behaviour make one text.

**`ServiceRefinementProofs`** (1538 obligations): `KeyIsOneOperation`, that every
behaviour of `Service` is one of `OneOperation`, and `ChargesAreOwn`: where operations
have texts of their own, money moved for every committed charge's own operation, so
that the joined texts of `service_text` are all that can break it. Nothing further is
assumed; in a cell without `Apart`, or of another strategy, the abstract manner is
"nothing promised". `meaning` is mapped to the mark of a key's row, `effects` to the
gateway's calls, `booked` to charge rows with the delivery that wrote each, and `heard`
to answers. That `lease` books once is `LeaseBooksOnce`, from `OneChargeEach`. The first claim that
commits a key's row is the abstract `Bind`; later claims, leases, take-overs, the
clock, the drain's bookkeeping and deaths are stutters. The argument is that whoever
has done anything for a key asked for what its row is marked with (`MeansIt`), and that
a row, once there, keeps its mark, although a take-over rewrites it and an expired key
starts over. `RInv` adds to `IInv` and `Apart`: `CalledOnce` (`lease` passes no dedup
key, so nobody may be on the way to a second call), `Decision` (the answer a handler
holds is one the gateway gave for its key), `Recalled` (what a row would replay has
happened), `Unheard`, `Paying`, `IntentsOnly`.

**`LedgerProofs`** (2632 obligations): `LedgerTypeOK`, `LedgerMutualExclusion`,
`LedgerNoLostUpdate`, `LedgerNobodyOvertakes`, `LedgerImplementsAtomic`, for any number
of tasks and accounts, any programs and any number of rejected store calls. Assumed:
`ScenarioAssumption` (a deposit has no `from`, a transfer has) and `NameAssumption`
(sentinels, and amounts that are natural numbers). `IInv` is `TypeOK` and five parts: a
task is inside its program (`Positioned`); whoever is in the critical section holds the
lock, and only one is (`LockInv`); who is queued is at the await of the queue, once
(`QueueInv`); who shares a read asks for that account (`SharersInv`); and `DataInv`:
what the holder has read is what is stored. `MutualExclusion` needs `QueueInv`, because
the lock is passed on without `held` ever becoming false, so the one that is
woken must be nobody else's successor. `NoLostUpdate` follows from `DataInv` and
`MutualExclusion`: nobody else writes.

The refinement needs `RInv`: an exception on its way out has a rejected store call
behind it (`Calm`), a transfer past its check is covered by its source, which a debit
leaves so (`Funded`), and nobody waits for a lock that is free (`Needed`). Each line takes
effect at its last write, or at its look when it is refused; every other step is a
stutter.
`LedgerImplementsAtomic` assumes `TwoAccounts`: a transfer from an account to itself
creates money, which is the `ledger_itself` finding.

**`LedgerBalanceProofs`** (1982 obligations): `LedgerNoStaleBalance`. A balance may
be answered from a read that somebody else began, and why that read is not too old is
a matter of hops through the job queue. `SInv` says that a task has one job in it at
most (`OneJobEach`), who owns and who shares a read (`Owners`), that a deposit that
has landed is counted before the next holder is past its hand-over (`Turn`,
`OneLanded`), that what is counted is in the store (`Counted`), and that an owner has read all that
is counted and all that will be before its read is cleared (`Fresh`): a deposit that
overtook the read is counted by a job behind the one that clears it, and whoever asks
after that does not find it.

**`EnvironmentsProofs`** (1923 obligations): `EnvironmentsTornDownForGood`,
`EnvironmentsNewestRunDecides`, `EnvironmentsOwnData`, for any number of pull requests,
runs, commits and wirings of `strategies.ts`. Assumed: `NoneAssumption`,
`BoundAssumption`, `ShaAssumption`, `WiringAssumption`. `CInv` is about the cloud:
ids are new and nobody's twice (`Numbered`), what a record names and what lies in it
is labelled with its pull request (`Owned`), an environment's namespace survives a push
(`Nested`), what the deployer made is recorded (`Recorded`), and after a teardown only
what the platform added to a flat stack is left (`Torn`). `QInv` is about the queue:
with cancel-in-progress only the last run registered can be pending
(`OnlyLastPending`), that run is for the head commit, and while the pull request is
open it is a deployment, of somebody who may deploy (`LastIsHead`). The clause "while
it is open" is needed: a fork nobody approved has no run at all until it is closed,
and then a teardown.

**`AuthStateProofs`** (3377 obligations): `AuthStateTypes`, `AuthStateNobodyGoesAhead`,
`AuthStateClearedStaysCleared`, for any bound on deaths, any number of parties a barrier
is opened for and any choice of strategies. Assumed: `CellAssumption` and
`PartiesAssumption`. Neither property is inductive, and they need different things.

- *Who has what to do.* The setup project comes first and alone; in the parallel run a
  slot has its own one test or nothing left, in the other only the first slot has any
  (`Staged`). No two slots have one worker, and every worker has been counted
  (`Numbered`).
- *Whose session it is.* An account's session and a session's account name each other
  (`Agree`). But under `shared-lazy` nobody signs in to an account whose session somebody
  still holds, or a file keeps, so those are alive and their owners' (`Held`); hence no
  401 (`Taken`).
- *What a note is worth.* An account that is new to a test has no note but the test's own
  (`Unused`, `Clean`), and so have the rows that were filed (`Filed`).
- *Who asked at a barrier.* No request bears the name of a worker that is still to come to
  the barrier (`Unasked`), so a 200 to one worker means that the other has come, or never
  will: what opens a barrier is somebody else's request (`Opens`). A worker that has died
  still counts through the request it left, which is why the property cannot say "the
  other is there".

**`HarnessesProofs`** (3337 obligations): seven parts that share no state, each
with an invariant of its own, and one lemma that a step of all of them is a step of
each (`OneAtATime`).

- *Selection* (`HarnessesSelectionIsSafe`), for all trees, edges, triggers and diffs.
  Assumed: `ImpactAssumption`. Triggers may import and be imported, and be importers of
  edges, as `impact/**` is. The theorem says that where nothing is selected for a
  suite, what it reaches is as it was and so is every file that a trigger matches
  (`TriggersUntouched`); of what such a file imports it says nothing (see the
  observations). The invariant of the walk
  (`WalkInv`): what has been reached is tracked, contains every changed path, and is
  closed under importers but for the frontier. When the frontier is empty, the files of
  a suite that was not reached are unchanged and their specifiers resolve as before, so
  its set of reachable files is the same in both trees.
- *Sessions* (`HarnessesRefreshedInTime`). Assumed: `ClockAssumption`. What nobody
  corrected since it was queued is due on both clocks alike, not before now and before
  its expiry (`InStep`). Running the earliest first is what keeps that: the clock is
  never moved past something queued.
- *Fixture* (`HarnessesSuiteSeesOnlyItsOwn`). Assumed: `FixtureAssumption`. A Redis
  database is given to one suite and holds what it wrote since (`Databases`); a name has
  its run in it, and nothing is in a name of a later run (`Names`).
- *Minimiser* (`HarnessesReportIsMinimal`). Assumed: `SearchAssumption`. There are never more pieces
  than characters (`Pieces`), so that no round is empty; and when the pieces are single
  characters, what has been tried so far is what the sweep would try (`Tried`).
- *Policies* (`HarnessesSignalBoundsTheCall`, `HarnessesOpenBreakerIsSilent`). Assumed:
  `ColumnAssumption`. Every attempt has a budget from its own request on
  (`WithinBudgets`), and no answer is awaited behind an open breaker (`ClosedWhenAsked`).
- *Rewriting* (`HarnessesWrapperHolds`, `HarnessesTransactionsNest`), for any contents and
  any number of statements. Assumed: `SeededAssumption` and `SentAssumption`. What the
  connection can be (`Wired`) holds whatever is sent; that the transaction is the
  harness's and its contents are the seeded ones, until `bypassed`. The counter
  and PostgreSQL's savepoints are not equal: ROLLBACK TO keeps its savepoint while the
  counter goes down. What is inductive is that names never fall along the stack, that
  none is more than one above the counter, and that the *last* savepoint of each name up
  to the counter has the state the subject would go back to (`Stacked`). Two lemmas say
  how that survives a savepoint more (`StackPushed`) and a cut at the last one of a name
  (`StackCut`), and each BEGIN, COMMIT and ROLLBACK is one of the two.
- *Set operations* (`HarnessesAnswersAreSets`), for any horizon, any operands, and any
  permutation the sort may return. Assumed: `HorizonAssumption`, `QuestionAssumption`. One
  part of the invariant per loop says what the result covers so far and what is left
  (`Merging`, `Overlapping`, `Removing`), and one that what was normalised is the operand
  and canonical (`Operands`).

The earliest callback, the first candidate that resolves and the chain of
holders need induction. The library's induction theorems take an operator and cannot be
instantiated here; what is used instead is that a nonempty set of natural numbers has a
least element (`LeastExists`, from `WFMin`), and a set of positions a last one
(`GreatestExists`).

## Findings

Each is a run in which TLC reports the property violated.

1. **`store_splice`** — `store.ts:294`. A refused insert runs
   `reserved.splice(reserved.indexOf(value), 1)` before the value was pushed.
   `indexOf` gives -1, and `splice(-1, 1)` takes the *last other* reservation off
   the list that settling releases. That reservation outlives its transaction. With
   names as the corpus has them no handler hits it, since the outbox handler's first
   insert is the one that collides. Where two operations have one dedup text (the next
   finding) its second insert collides, and the reservation of its key stays.
2. **`service_text`** — `service.ts:576`. The dedup key is the text
   `${principal}:${key}`. Two customers whose parts join to one text (`a` and `b:c`,
   `a:b` and `c`) have one dedup key at the gateway: the second one's charge is answered
   from the first one's, no money moves, and a charge row is committed for it. The
   names the corpus uses hold no `:`. `store.ts:63` guards its own index values against
   this.
3. **`ledger_itself`** — `ledger.ts:168`. A transfer from an account to itself
   reads both balances before it writes either; the credit overwrites the debit
   and money is created.
4. **`authstate_late`** — `server.ts:107`. A 504 leaves its request's resolver on
   the barrier. If the last party comes after that deadline, the request is
   answered again: `writeHead` throws inside a promise nobody handles, in the
   process of the test run.
5. **`authstate_retry`** — `derive.ts:113`. `isolation.ts:76-78` reads
   `restart-inheritance` off any two rows of different workers at one slot with
   one account. `replacements()` compares only each worker's first row, so under
   `per-test` the retry that signs in to the failed attempt's account and reads
   its note is scored `fresh`.

Observations without a run of their own:

- `store.ts:536`: a delivery killed while blocked takes the reservation when it is
  woken, after it was settled; nobody releases it, and the next insert of that value
  waits for ever. No document promises otherwise, and the harness kills at park points
  outside the store. `MCStore_killed.cfg` shows it:
  `tlc -config MCStore_killed.cfg MCStore`.
- `gateway.ts:52` says of `effects` that money actually moved, while the getter
  (`gateway.ts:64-69`) also returns declined calls. What the scoring counts
  (`fixture.ts:48`) filters on `ok`.
- `rewrite.ts`: after a refused statement, COMMIT ends a real transaction by rolling
  it back and saying so; rewritten it is a RELEASE, which is refused, and the
  subject stays aborted until it sends ROLLBACK. A refused statement outside every
  transaction of the subject's costs the rest of the test, not that statement
  alone. After a refused BEGIN the counter counts a savepoint that is not there.
  `RewritingNests` excludes a subject that goes on so (`astray`).
- `rewrite.ts:34` takes the text up to the first white space for the keyword and line 57
  forwards what it does not know: `END`, `ABORT`, `commit;` and `rollback;` reach
  PostgreSQL as they are and end the harness's transaction, so that what follows is
  committed. `MCRewriting_unread.cfg` shows it in two steps:
  `tlc -config MCRewriting_unread.cfg SavepointRewriting`. The repository states the
  premise: its subjects send bare keywords (`orders.ts:84-89`, `double.ts:27-31`).
  `SendUnread` models such statements; `WrapperHolds` is stated up to the first that
  ends a transaction (`bypassed`), `RewritingNests` up to any (`astray`). A subject's
  own `SAVEPOINT` and `ROLLBACK TO` are not modelled; the latter would be read as
  ROLLBACK.
- `minimise.ts:32-38` credits the sweep with another 30 % (`minimise.test.ts:48-50`
  measures it). For a predicate that answers a candidate the same way every time,
  the last round of ddmin has tried every single character already, and the sweep
  never shortens a result longer than one: `ReportIsMinimal` holds before it starts.
- `suite.ts:18-22` says every namespace carries a per-run nonce; the Redis database
  and prefix carry none. The flush on the way in keeps successive runs apart. A
  rejected start stays in the map, so every later suite of the run is refused too.
  The slug is cut at 24 characters, which can make two suites one.
- `triggers.ts` fires on changed paths only: a module that a trigger-matched file
  imports selects its importers and not every suite, although the trigger stands for
  all of them. `mutation/vitest.config.ts` imports `reach.ts` and `scope.ts` (lines
  49-50), and `impact/check.ts:44` imports `../shape/collect.ts`.
- `environment.ts:146` says the scheduler keeps its own timeline; due times are
  taken from the wall reading of the clock, so a correction moves them.
  `RefreshedInTime` is about sessions queued and fired without one.
- `deployer.ts:26-28` says that a redeploy leaves the database standing because
  the data is the expensive part. The database resource stands; a per-environment
  dataset is provisioned anew all the same. `OwnData` holds either way.
- Under `namespace-reconciled` a label applied after the close cancels the pending
  teardown and deploys again. Only the sweep removes it (`NothingLeaksForEver`).
- A sweep by age takes an environment that was redeployed a moment ago: the
  database keeps its age. `NewestRunDecides` allows exactly this.

## What is only model-checked, and what is not modelled

Every safety invariant and action property of the passing runs is proved, but for the
five that compare a computation with a table: `MeasuredAsPublished`,
`CellsAsPublished`, `PactCellsAsPublished`, `ResidueAsPublished`, `AsDeclared`. Those
are about the finitely many cells the repository publishes, which the runs go through
completely; there is no larger instance to prove them for. (`AsDeclared` counts
rows, logins and accounts, and its two causes, the barriers' order and whose session and
notes a test meets, are what `AuthStateProofs` proves.)

Liveness is checked on the instances above and not proved: `InsertReturns`,
`EveryDeliveryEnds`, `EveryIntentIsSent`, `EveryTaskSettles`, `NothingLeaksForEver`,
`EveryRunEnds`. Fairness is about ENABLED, which the prover does not reason about.
The isolation strategies, pact and the residue suites have no other properties than
these tables, and so are model-checked only.

Left out of the modelled components: what rows contain beyond their index values
(in the store), identifiers, response wording, validation other than of the
amount; the scripted park points of the harnesses; the choosers and budgets of
the schedulers; opening a pull request twice; a state file torn by a death in the
middle of its write; the origin's pages, its answers to malformed requests and a
barrier joined for different numbers of parties.

Of the later directories: what SQL statements compute beyond the columns told apart;
wall-clock jitter (an answer over loopback takes no time, the budget is 1); runs that
overlap on one reused container;
selection strategies that promise nothing (`all`, `changed-tests`, `same-directory`,
`importers-direct`, `coverage`); predicates of the minimiser that answer the same
candidate differently; the command model of `property/`, which is fast-check's loop.

The rendered tables are not modelled; a verdict is what a property says. Where a
directory publishes cells, a property compares them.

Of the lines the project does not cover, most are outside the reach of a state
machine: reports, renderers, schemas, configuration and measurements, listed one by
one under `components`. They keep no state between two steps and meet no
interleaving, so a module for them would restate them.

## Plan

Done, in this order: the store, since every handler leans on it; the handlers and
the outbox over its promise; the ledger; the environments; authstate; then the
rewriting and the strategies of `dbisolation`, the policies of `chaos`, the pipeline
of `pact`, the containers, and the algorithms of `fuzz`, `property`, `impact` and
`determinism`. Then the proofs: the store, the handlers, the ledger and its refinement,
the environments, and every algorithm and fixture with a property of its own. Last,
the abstract service that a key stands for one operation of, with its refinement, and
the sessions, notes and barriers of authstate.

Next, most important first:

1. The handlers over the store itself instead of its promise: `StoreImplementsIndex`
   and `KeyIsOneOperation` are the two halves of that argument.
2. `AsDeclared` for any number of workers: `Held`, `Clean` and `Opens` say of each
   strategy what a test meets; what is left is to count the rows.
3. Runs of the suite fixture that overlap on one reused container.

New questions are asked in the runs there are, by widening an instance or by
replacing a shallower property.
