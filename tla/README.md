# Verification of the flower vending machine

TLA+ models of this repository, checked with TLC on small instances and proved
with TLAPS where a statement should hold for every instance. Paths below are
relative to `src/flower_vending/` unless they start with `tests/`, `docs/` or
`README`.

The core of the program is a cash sale: a customer taps a bouquet, inserts
bills, receives change, a motor releases the product into a delivery window, the
customer confirms the pickup and the window closes. Money and goods move, every
step is an `await` on a device or on the event bus, and a dozen coroutines share
one event loop, one `Transaction` object per sale and one state machine. That is
modelled most closely. Around it stand the parts it rests on: change and money,
device commands and serial links, the catalog, the health monitor, the kiosk's
session, the database, restart after a power failure, the process itself.

## 1. Inventory

| Component | State it keeps | Operations |
|---|---|---|
| State machine, `app/fsm` | the machine state | `transition` (guarded by a table, raises), `can_transition`, `force_state` (unguarded) |
| Transaction and payment session, `domain/entities/transaction.py`, `payment_session.py` | seven statuses, accepted amount, change due, reserve | one method per event of a sale; only three of them can refuse |
| Transaction coordinator, `app/orchestrators/transaction_coordinator.py` | all transactions, the active one | create, get active, clear active, unresolved, restore |
| Vending controller, `app/orchestrators/vending_controller.py` | none of its own | start a purchase, release an authorised product, confirm the pickup, cancel |
| Payment coordinator, `app/orchestrators/payment_coordinator.py` | none of its own | start a cash session, process a validator event, complete a payment (disable, change, refund), cancel (disable, refund) |
| Pickup timeout supervisor, `app/orchestrators/pickup_timeout_coordinator.py` | deadlines, the sale being handled | poll: close the window, mark the sale for review |
| Idle timeout supervisor, `app/orchestrators/idle_timeout_coordinator.py` | the sale remembered from the last activity | touch; poll: cancel the abandoned sale |
| Recovery manager, `app/orchestrators/recovery_manager.py` | none of its own | assess and recover a sale; detect unresolved ones at start |
| Service mode coordinator, `app/orchestrators/service_mode_coordinator.py` | wrong-PIN attempts and lock-out | enter, leave |
| Health monitor, `app/orchestrators/health_monitor.py` | last fault per device | poll the devices, block and unblock sales |
| Machine status, `app/services/machine_status_service.py`, `domain/entities/machine_status.py` | projected machine state, sale blockers, service mode | set the state, block, unblock, may a sale start |
| Journal and database, `app/journal.py`, `infrastructure/persistence` | intents, outcomes, projections; the open database transaction | append once per key; join an outer transaction; roll back |
| Event bus, command bus, `app/event_bus.py`, `app/command_bus.py` | subscribers | publish: critical subscribers first, their exceptions propagate |
| Change manager and money inventory, `payments/change_manager.py`, `domain/entities/money_inventory.py` | coins and bills by denomination, reserves, drift flag | plan, reserve, finalise, dispense, refund |
| Device command runner, `devices/command_policy.py` | replay cache by idempotency key, health | run with attempts and time-outs, reconcile, replay |
| Bill validator, `devices/dbv300sd` | acceptance flag, queue of events | enable, disable, poll |
| Kiosk presenter and facade, `ui/presenters/kiosk_presenter.py`, `ui/facade.py` | the screen, the current purchase | the taps; what it does on every domain event |
| Background tasks, `app/bootstrap.py` | one asyncio task per loop | validator event loop, supervisors, health loop |
| Inventory service and catalog, `app/services/inventory_service.py`, `ui/views/catalog_screen.py`, admin catalogue | products, slots, cart | select, vend, hide, remove, refill, fill the cart |
| Projection and restore, `runtime/bootstrap.py`, `runtime/production.py`, `infrastructure/persistence/sqlite` | rows of sales, money, machine status, catalog | save on some events, load and lock at start |
| Arduino link, `devices/arduino` | the port, the remembered window position | one line per command, under a lock |
| Display rotation, `app/orchestrators/display_rotation_controller.py` | whether it believes the drum to turn | poll, start, stop |
| Simulated devices, `simulators` | fault plans, the world they simulate | inject, strike, clear |
| 1C client and telemetry, `integration` | sales kept for later, a bounded buffer | export, flush, emit |
| Processes, `runtime/cli.py`, `runtime/production.py` | devices started, loops, connection | build, start, run, stop; tools on the same store |

How they interact. The presenter calls the two controllers through the facade
and is itself a subscriber of every event. The validator's event loop calls
`process_validator_event`, which calls `complete_payment`, which publishes
`vend_authorized`, to which `handle_vend_authorized` is a *critical* subscriber:
the whole way from a bill to the open window is one coroutine, and an exception
anywhere on it ends the validator task for good (`app/bootstrap.py:140`).
Cancellations come from the presenter, from the idle supervisor, from the admin
order list and from recovery, in tasks of their own. All of them read and write
the same transaction, the same state machine and the same journal.

What is hard in it.

- *Interleaving.* A coroutine checks the status of a sale, awaits, and acts on
  what it saw; or it awaits and overwrites whatever status it finds, because the
  entity's methods hardly ever refuse.
- *Atomicity.* The kiosk's cancellation holds a database transaction across its
  awaits, and other tasks' journal records join it and roll back with it.
- *Partial failure.* A payout that failed half-way, a window that did not close,
  a state machine that refuses after the entity has already changed.
- *Replay.* A device command with a known correlation id is answered from a
  cache and does not reach the device.
- *Timeouts* that race a late confirmation, and *late bills* that arrive after
  the threshold.
- *Liveness.* A confirmed payment must end in something; an abandoned sale must
  not keep the machine.
- *Crash and restart* between an intent and its outcome, in the middle of a
  migration or of seeding; what the projection never wrote.
- *Shared lines.* The poll loop and the commands of the validator share a port
  without a lock; a reader thread that was given up on outlives its command.

The full list, each entry at its line, is under `hazards` in `PROJECT.json`.

What makes a component correct: the state machine never leaves its table except
by force; a sale is released once and only when paid and its change settled; the
machine never pays out more than it took in; cash is accounted for when nothing
is in progress; the validator accepts bills for a sale only; a new sale does not
start over an unsettled one; each intent gets its outcome, and is on disk before
the hardware moves; opened windows close; confirmed payments settle; what left
the machine is found after a restart, and what was interrupted locks it; change
is planned exactly and booked exactly; a command moves its device once; what the
monitor sees is what blocks sales; a bouquet that was paid for is there.

## 2. Modules

### The sale

| Module | Models |
|---|---|
| `MachineFsm` | states, table, `MayEnter` (= `transition` does not raise), `CanTransition` |
| `SaleTransaction` | `Transaction` and `PaymentSession`: a record, one operator per method, a predicate for each refusal |
| `SaleState` | the shared variables, tasks, machine status, journal |
| `VendingController` | purchase, release, pickup |
| `PaymentCoordinator` | cash session, validator events, completion, change, refund, cancellation; dispenser and validator replay |
| `PickupTimeout`, `IdleTimeout` | the two supervisors |
| `Technician` | recovery, service mode, drift, health blockers |
| `SaleFlow` | the composition: `Next`, `Spec`, fairness, `FairSpec` |
| `SaleProperties` | the properties of a sale and the inductive invariants behind those of payment and release |
| `SaleContract` | what a sale promises: purchase, cash, change, one product, or an operator |
| `SaleRefinement` | the refinement mapping from `SaleFlow` to `SaleContract`; `MeetsContract`; the inductive invariants of contract and settlement |
| `DurableSale` | `SaleFlow` with the rows its events save, power failures, and both ways of starting again; its inductive invariants |
| `MCSaleFlow`, `MCDurableSale` | what TLC needs |

**Tasks and atomicity.** asyncio switches coroutines at an `await` that really
suspends. One action of the model is the stretch of code between two such
awaits, with everything it changes: entity, state machine, projected status,
journal, events. `pc[k]` names what task `k` awaits and `on[k]` for which sale;
the tasks are `checkout`, `validator`, `cancel` (the kiosk's), `idle` (the
supervisor's cancellation), `confirm`, `timeout` and `recover`. An action named
`XDone` or `XFails` is the continuation after the device answered.

**Exceptions.** A coroutine that raises stops where it is and leaves what it has
changed: the disjuncts in which `MayEnter` is false and the task goes to `rest`,
or to `dead` for the validator task, which nobody restarts.

**Journal.** Records have a unique key and are inserted with OR IGNORE, so the
journal is a set of `<<sale, step, "intent" | "outcome">>`. Only the kiosk's
cancellation opens a database transaction over awaits (`txnOpen`); what other
tasks write meanwhile joins it, and `GiveUp` rolls all of it back. `Durable` is
what a restart would find.

**Power.** `DurableSale` lets every action of `SaleFlow` save what the projector
saves for the events it publishes, and nothing when it publishes none of
`PERSISTENCE_EVENT_TYPES`. `PowerLoss` may come in any state: the open database
transaction, queue, caches and tasks are gone, and a device that was moving has
moved or not, a refund that was being paid has left or not. `PowerReturns` restores as the simulator assembly does (rows and
intents) or as the production assembly does (rows only; it never reads the
intents), chosen by `assembly`.

**Devices.** A device command succeeds, or fails when its name is in `Faults`;
a failed command may or may not have taken effect. The validator and the
dispenser sit behind a `DeviceCommandRunner` and replay by correlation id
(`cached`, `answers`). Motor and window are the Arduino adapters, which do not
replay. The dispenser of both assemblies of this version is the mock one.

**Actors.** `Actors` selects who is at work besides the customer who buys and
pays: customers who confirm, who cancel, who hurry (a bill before the last one is
counted), the two supervisors, technicians, the admin order list, the health
monitor. Many properties hold only while some of them are absent, and the runs
say so by their constants.

Abstractions of the sale. Amounts are small naturals; identifiers, timestamps,
texts and denominations are left out; whether change can be planned is
nondeterministic (`no_plan`). An await may take arbitrarily long, except that the
idle supervisor (120 s, `infrastructure/config/models.py:24`) fires only when no
other task is at work and no sale waits for its pickup (60 s, line 23): `Quiet`.

### The parts around it

| Module | Models |
|---|---|
| `ChangeManager` | plans, reserves, payouts and refunds by denomination, drift; a payer and a canceller for each purchase |
| `CommandRunner` | attempts, time-outs, retries, the LRU replay cache, health; callers that share one runner |
| `ValidatorLink` | the DBV-300-SD poll loop and commands on one port, frames, overlapping exchanges, `stop` in its stages (poll task cancelled, acceptance off, port closed) with the commands that go on meanwhile, port errors |
| `ArduinoLink` | commands under the transport's lock, the board's queue, stray readers, board resets, the remembered window |
| `Turntable` | the display rotation and the drum it shares with the sale |
| `Catalog` | products and slots, cart and cards, checkout and vend against an admin who edits at any time, restart |
| `Supervision` | a poll of the health monitor await by await, sensor alarms, the loop's end, the watchdog |
| `Kiosk` | the presenter's session and navigation: taps suspended in the core, domain events, ways home, service actions |
| `Store` | migration, the one connection and its with-blocks, cancelled coroutines, power failures |
| `Ledger` | what is in the tables and how it comes back: mappers, seeding, projection, status command, recent events |
| `Lifecycle` | a kiosk process and a tool on one store: build, start, run, stop, each step may raise |
| `Accounts` | the 1C client's kept sales and the telemetry buffer |
| `Simulator` | fault plans and their hits under concurrent, retried and replayed commands |
| `MCParts` | one specification whose initial state selects one of them (1C and telemetry separately): fourteen systems in one run |

The parts share no variable, so `MCParts` explores their union, not their
product: the initial state chooses `part`, the others rest. Where a part touches
the sale, the sale is seen through the little it needs (a stage, a reserve, a
product), and the sale model sees the part through its outcomes (a plan exists or
not, a command succeeds or fails). Each part can also be checked by itself with
its own `...Spec`.

| Module(s) ending in | Proves about |
|---|---|
| `SaleFlow_proofs` | types, from the entity's methods up; payment and release: paid first, once, change first, intent first |
| `SaleContract_proofs` | the refinement of `SaleContract`, and what its invariant gives |
| `SaleSettlement_proofs` | money, intents and new sales when every customer collects |
| `DurableSale_proofs` | the sale under power failures |
| `Devices_proofs` | `CommandRunner`, `ArduinoLink`, `ValidatorLink`, `Simulator`, and their types |
| `ChangeManager_proofs` | `ChangeManager` and its types, with the lemmas on recursion and sums it needs |
| `Records_proofs` | `Store`, `Catalog`, `Accounts`, `Ledger`, and their types |
| `Runtime_proofs` | `Supervision`, `Lifecycle`, `Kiosk`; types of these and of `Turntable`; the parts together (`MCParts`) |

Each sale module of these extends the one before it, except that `DurableSale_proofs`
rests on `SaleFlow_proofs`. `Devices_proofs` and `Records_proofs` extend
`ChangeManager_proofs` for its lemmas on least elements, subsets and sums, and
`Runtime_proofs` extends the three of them.

## 3. What is checked

| Run | Actors besides the buyer | Question |
|---|---|---|
| `sales` | pickup, health | two sales one after the other, every single-device failure: is every step one that `SaleContract` allows (`MeetsContract`), is the money accounted for, are intents resolved, is acceptance off, does no sale start over an unsettled one or an open window? |
| `cancel_race` | pickup, canceller, orders, hasty | cancellations and forced completions at any await of the payment, the payout and the release: nothing unpaid, change before product |
| `operators` | pickup, technician, health, timeout, hasty | service mode, recovery and blockers at any await, every failure: the inductive invariant, the motor's intent on disk first |
| `idle` | pickup, idle, hasty | repeated cancellations by the idle supervisor: nothing twice; under fairness an abandoned sale ends |
| `settles` | pickup, timeout | under fairness a confirmed payment settles and an opened window closes or its sale is flagged |
| `restart` | pickup, technician, timeout | the power fails at any step: what left the machine is on disk, no sale over an interrupted release until an operator has recovered one, payouts with an intent, no release for a sale of an earlier boot |
| `parts` | - | the fourteen parts, one property or more each |

What `parts` asks, by module:

| Module | Properties |
|---|---|
| `ChangeManager` | `ReservesBalance` (booked coins are those of open reserves, and owned), `PlansAreExact` (a plan is found iff some selection makes the amount), `SupportedSaleFindsChange` (an accepted sale finds its plan with any bills), `CountsAreTrue` (accounting differs from the hopper only with drift to show for it) |
| `CommandRunner` | `OneMovePerKey` |
| `ValidatorLink` | `BillsAnnouncedOnce`, `StoppedMeansOff` (a stopped validator that takes bills had a late enable, a switch refused or not written, or a crash) |
| `ArduinoLink` | `OwnAnswers` (an answer belongs to the command that returns it), `WindowRemembered` |
| `Catalog` | `BouquetIsThere` (a sale is stranded after the motor only by an edit; an authorised one has its bouquet) |
| `Supervision` | `WhatIsSeenIsBlocked`, `FaultsAreNoticed` (liveness) |
| `Kiosk` | `PurchaseKeptWhileCollecting` |
| `Store` | `BlocksAreAtomic`, `JournalRowsKept` |
| `Ledger` | `RowsComeBack` |
| `Lifecycle` | `OrderlyEnd` |
| `Accounts` | `NothingForgotten` |
| `Simulator` | `HitsAreSpent` |
| `Turntable` | `DrumStops` (liveness) |

Five runs expect a violation; each is a finding in `PROJECT.json`:

| Run | Property | What TLC shows |
|---|---|---|
| `cancelled_cash` | `CancelledCashRefunded` | a cancellation that begins before the last bill is counted reads the payment status after its await, finds it confirmed, and keeps the cash |
| `confirm_timeout` | `CompletedIsFinal` | a pickup confirmed while the timeout's event is published completes the sale, and the timeout then overwrites it |
| `idle_cancel` | `CancelledMachineIsIdle` | the idle supervisor leaves the machine in CANCELLED, from which no purchase starts |
| `partial_payout` | `NeverOverpays` | a partially paid change is followed by a refund of the whole amount |
| `restart_cash` | `CashSurvivesRestart` | bills counted before `payment_confirmed` are in no row; after a power failure the sale is unknown |

Properties that hold in one run and fail with other actors, seen while the runs
were chosen; the runs above are the configurations in which they hold:

- `MeetsContract`, `MoneyAccounted` and `IntentsResolved` fail with customers who
  cancel or with the idle supervisor: a sale cancelled twice after its payment is
  refunded although the product was delivered, because the first cancellation
  sets the payment status to cancelled before the state machine refuses it.
- `AcceptsOnlyForSale` fails when a cancellation overtakes the enabling of the
  validator.
- `AtMostOneVend` is checked for one sale with hasty customers: it fails with two
  and a bill that is held back across a whole later checkout. Without hasty
  customers it is proved for any number of sales.
- `MotorIntentDurable`, `PayoutIntentDurable` and `ReleaseIsOnDisk` fail with the
  kiosk's cancellation, whose database transaction the intents and rows join.
- `PayoutIntentDurable` fails with `no_plan`: that refund has no intent.
- `NoSaleOverInterruptedRelease` fails with the idle supervisor, and with the
  kiosk's cancellation: a sale that is cancelled while its last bill completes it
  has a cancelled row, so that a restart does not look for its open motor intent.
  It excuses sales begun after a technician has recovered a sale since the restart:
  there is one `recovery_pending` blocker for all restored sales, and the recovery
  of any of them takes it away (three sales show it: one recovered before the
  failure, whose row is unfinished still, one interrupted at the motor, and the
  one that starts once the first has been recovered again).
- `WindowCloses` fails with the ways back home of the kiosk: a sale cancelled
  while it waits for its customer has no pickup deadline any more.
- `AbandonedSaleEnds` fails with two sales: the supervisor's own cancellation ends
  by forgetting the activity of a purchase begun meanwhile.

What properties of `parts` excuse by name is code behaviour of the same kind:

- `ReservesBalance`: `dispense` consumes a reserve and leaves it on the
  transaction; a later cancellation releases it once more
  (`payments/change_manager.py:102`).
- `OneMovePerKey`: a time-out that was a success, two calls with one key (the
  runner has no lock), an evicted answer. An ambiguous answer is cached and later
  replayed without its exception, and any replay sets the health to READY.
- `BillsAnnouncedOnce`: overlapping exchanges; a command that reads the frame of a
  bill drops it.
- `StoppedMeansOff`: `_started` stays set while `stop` shuts the port down
  (`dbv300sd/adapter.py:144`), so an enable that is not yet written, or comes then,
  may be written after the disable; a refused disable, or one that the port does
  not write, is swallowed (`protocol/jcm_serial.py:146`).
- `NothingForgotten`: a client that is not set to export counts a sale as pending and
  keeps it nowhere (`integration/1c/__init__.py:231`).
- `OwnAnswers`, `WindowRemembered`: the late OK of a command given up on; the boot
  line of a restarted board; a door found open at the start, when the class assumes
  it closed; `STATUS` never corrects the remembered window
  (`devices/arduino/window_controller.py:70`).
- `DrumStops`: a start that raised after it took effect is never stopped.
- `BlocksAreAtomic`: blocks inside another coroutine's, or of a cancelled one.
- `RowsComeBack`: a catalog torn by a power failure while it was seeded.

Behaviour of the code that shaped the models and a maintainer should know:

- Only the first line of a cart is charged and vended, while the screen shows the
  sum of all lines. `mark_vended` checks again after the motor has turned
  (`vending_controller.py:226`).
- The admin catalogue's edit and add raise (`Amount` has no `currency_code`
  parameter, `ui/facade.py:356`, `374`); its stock field passes a product id where a
  slot id is expected (`kiosk_presenter.py:437`); its show/hide button sends an action
  without the state it needs. `Catalog` has them as they are.
- Slots are saved when the catalog is seeded and never again.
- Nothing in the program calls `ArduinoSerialTransport.open`, so a board it would
  talk to never gets a command; `ArduinoLink` has `OpenPort` as the transport
  offers it. The production assembly pays change from a mock dispenser with an
  empty hopper (`runtime/bootstrap.py:1074`).
- A first checkout command that succeeds and a second that raises leave an active
  sale the kiosk's session does not know (`ui/facade.py:224`); no event handler
  compares an event's sale with the session's.
- A database cut between the renaming and the new journal table refuses every
  later start (`RenameJournal`); no row is lost.

**Bounds of the sale.** `Tx` has two sales in `sales` and `restart` (a second one is
needed for what starts over what) and one elsewhere (the races are between tasks
of one sale). `Price` 2, bills 1 and 2, `MaxCash` 3: exact payment in one or two
bills, and one unit of change; `partial_payout` takes a bill of 4 so that a partial
payout lies strictly between nothing and everything; `restart` takes bills of 3,
so that every sale has change to pay. `QueueCap` 2: a bill behind the one being
processed. `Stock` 1 or 2: an empty slot when the motor has turned. `BeginCancel`
is disabled once `paid[t] > MaxCash`, and one kiosk cancellation runs at a time.
`MaxLosses` 1: after the restart a whole further sale may run. The largest of these
runs, `restart`, has 1.8 million distinct states.

**Bounds of the parts** (`parts.cfg`, 0.6 million distinct states together). Two
actors wherever actors race (callers, senders, clients, writers, taps, a kiosk and
a tool), one or two objects for them to race about, one or two faults or power
cuts. Coins of 1, 3 and 5 make greedy plans that fail where another exists; the
hopper of three is filled twice. A replay cache of one entry with two keys evicts.
`MaxAsked` 3 gives the Arduino line a command given up on, one between and one
after. `MaxCuts` 1 with the migration's five stages and two writers. `MaxDrumFaults`
3: a stop that fails again and again.

**Deadlock** is not checked: the modelled machine may really stop, when the
validator task is dead or all of the finite set of sales have been used, and the
parts stop at their bounds.

**Fairness.** `SaleFlow!Fairness`: weak fairness of every task's continuations.
A device command ends because the runner gives each attempt a time-out, published
events are delivered by the loop, and the supervisors poll forever. Nothing is
assumed of customers, operators, faults or the health monitor, so each liveness
property has to hold also when the customer walks away. `PollStep` and `DrumLoop`
are weakly fair: `WithTimeOut` and the serial transport end every command, and
the two loops of `app/bootstrap.py` poll until they are stopped or raise.

## 4. What is proved

Every theorem holds for every value of its module's constants under the assumptions
the modules name: a price is not negative (`PriceAssumption`,
`domain/value_objects/amount.py:16`); the markers `NoTx` and `Unarmed` are not
sales and a bill is a positive number (`StateAssumption`); numbers of faults, cuts,
retries and objects are natural; the sensors that are read are managed devices
(`SupervisionAssumption`, `runtime/bootstrap.py:172`). So the number of sales, the
price, the bills, the faults and the clients are arbitrary; what a theorem needs
besides is in the last column, and is a hypothesis of the theorem itself.

The sale:

| Theorem | Module | Statement | Hypotheses |
|---|---|---|---|
| `TypeCorrect` | `SaleFlow_proofs` | `Spec => []TypeOK` | - |
| `InvariantHolds` | `SaleFlow_proofs` | `Spec => []SaleInvariant` | - |
| `NoVendUnpaid` | `SaleFlow_proofs` | `Spec => []PaidBeforeVend` | - |
| `ReleasedOnce` | `SaleFlow_proofs` | `Spec => []AtMostOneVend` | `UnhurriedCustomers` |
| `ChangeBeforeRelease` | `SaleFlow_proofs` | `Spec => ChangeSettledBeforeVend` | `UnhurriedCustomers` |
| `IntentBeforeMotor` | `SaleFlow_proofs` | `Spec => MotorIntentDurable` | `NoKioskCancellation` |
| `ContractKept` | `SaleContract_proofs` | `Spec => MeetsContract` | `Undisturbed`, `WholeChange` |
| `NeverMoreOutThanIn` | `SaleContract_proofs` | `Spec => []NeverOverpays` | `Undisturbed`, `WholeChange` |
| `BillsOnlyForSales` | `SaleContract_proofs` | `Spec => []AcceptsOnlyForSale` | `Undisturbed`, `WholeChange` |
| `NoSessionWithOpenWindow` | `SaleContract_proofs` | `Spec => NoSaleWithOpenWindow` | `Undisturbed`, `WholeChange` |
| `MoneyIsAccounted` | `SaleSettlement_proofs` | `Spec => []MoneyAccounted` | the same two, `PromptPickup` |
| `IntentsGetOutcomes` | `SaleSettlement_proofs` | `Spec => []IntentsResolved` | the same two, `PromptPickup` |
| `NewSalesFindNothingOpen` | `SaleSettlement_proofs` | `Spec => NoSaleOverUnsettled` | the same two, `PromptPickup` |
| `DurableTypeCorrect` | `DurableSale_proofs` | `DurableSpec => []DurableTypeOK` | - |
| `OldSalesAreNotReleased` | `DurableSale_proofs` | `DurableSpec => NoReleaseAfterRestart` | - |
| `ReleasedSalesAreOnDisk` | `DurableSale_proofs` | `DurableSpec => []ReleaseIsOnDisk` | `NoKioskCancellation` |
| `PayoutsHaveIntents` | `DurableSale_proofs` | `DurableSpec => PayoutIntentDurable` | `NoKioskCancellation`, `ChangeHasPlan` |
| `InterruptedReleasesLock` | `DurableSale_proofs` | `DurableSpec => NoSaleOverInterruptedRelease` | `UnhurriedCustomers`, `NoKioskCancellation`, `NoIdleSupervisor` |

The parts, all but one without a hypothesis:

| Theorem | Module | Statement |
|---|---|---|
| `PlansAlwaysExact` | `ChangeManager_proofs` | `ChangeSpec => []PlanIsExact` |
| `ReservesAlwaysBalance` | `ChangeManager_proofs` | `ChangeSpec => []ReservesBalance` |
| `BooksAreTrue` | `ChangeManager_proofs` | `ChangeSpec => []CountsAreTrue` |
| `SupportedSalesFindChange` | `ChangeManager_proofs` | `ChangeSpec => SupportedSaleFindsChange` |
| `MovesOnce` | `Devices_proofs` | `RunnerSpec => []OneMovePerKey` |
| `AnswersAreOwn` | `Devices_proofs` | `ArduinoSpec => []OwnAnswers` |
| `DoorIsRemembered` | `Devices_proofs` | `ArduinoSpec => []WindowRemembered` |
| `BillsAreAnnouncedOnce` | `Devices_proofs` | `LinkSpec => []BillsAnnouncedOnce` |
| `StoppedIsOff` | `Devices_proofs` | `LinkSpec => []StoppedMeansOff` |
| `FaultsBiteAsTold` | `Devices_proofs` | `SimulatorSpec => []HitsAreSpent` |
| `AtomicBlocks` | `Records_proofs` | `StoreSpec => []BlocksAreAtomic` |
| `JournalSurvives` | `Records_proofs` | `StoreSpec => []JournalRowsKept` |
| `ABouquetIsThere` | `Records_proofs` | `CatalogSpec => []BouquetIsThere` |
| `NothingIsForgotten` | `Records_proofs` | `AccountsSpec => []NothingForgotten`, assuming `OneFlusher` |
| `WhatWasSavedComesBack` | `Records_proofs` | `LedgerSpec => []RowsComeBack` |
| `SeenIsBlocked` | `Runtime_proofs` | `SupervisionSpec => []WhatIsSeenIsBlocked` |
| `ProcessesEndInOrder` | `Runtime_proofs` | `LifecycleSpec => []OrderlyEnd` |
| `PurchaseIsKept` | `Runtime_proofs` | `KioskSpec => PurchaseKeptWhileCollecting` |
| `PartsKeepTheirTypes` | `Runtime_proofs` | `PartsSpec => []PartsTypeOK` |
| `PlannedChangeIsExact` | `Runtime_proofs` | `PartsSpec => []PlansAreExact` |

`PlanIsExact` is what `PlansAreExact` says of the part that `parts` selects. With these
two every invariant of the passing runs is stated by a theorem, and so is every
property of theirs but those of liveness.

### The hypotheses

But for one none of them is there for the prover's sake: without each of them TLC
shows the statement false (section 3), because the code behaves so. The exception
is `UnhurriedCustomers` in `InterruptedReleasesLock`: that argument builds on
`OnceInvariant`, which hasty customers break, while the property itself holds in
an instance with two of their sales.

- `UnhurriedCustomers` (no `hasty`): nobody inserts a bill before the last one is
  counted. A bill held back across a later checkout is credited to a paid sale.
- `NoKioskCancellation` (no `canceller`, no `orders`): the kiosk's cancellation
  holds a database transaction over its awaits, and rolls back the intents and
  rows that other tasks wrote meanwhile.
- `NoIdleSupervisor` (no `idle`): its cancellation ends a sale in memory and on disk
  that the validator task goes on to release.
- `Undisturbed` (`Actors` within `pickup`, `health`, `timeout`): with hasty
  customers or a technician `MeetsContract` fails; a recovery that unlocks the
  machine lets a purchase start over an unfinished sale; a sale that is cancelled
  twice after its payment is refunded although it was delivered.
- `WholeChange` (no `change_partial`, no `change_error`): the dispenser pays a plan
  whole or not at all. Run `partial_payout` shows what happens otherwise.
- `PromptPickup` (no `timeout`): the pickup supervisor's closing and the customer's
  confirmation may both be under way, one then takes the outcome of the other. The
  refinement and the other theorems of `SaleContract_proofs` hold with the
  supervisor at work.
- `ChangeHasPlan` (no `no_plan`): where no coins make up the change, the whole
  amount is refunded without an intent.
- `OneFlusher` (one coroutine calls `flush_pending_sales`): of two that overlap, each
  replaces the list by what it kept of the one it began with, and a sale that was
  added between the two ends is lost.

### The arguments

*Type correctness.* `TypeOK` is not inductive: a continuation updates
`tx[on[k]]`, and `TakeEvent`'s continuation reads the head of the queue. `Basic`
adds `TasksHaveSales` (a task past its first await works for a sale) and
`EventInQueue`. The proof has a lemma for each operation that actions are built
from (`Put`, `Go`, `Write`, `Dispense`, ...) and then one case per action, with a
step for each conjunct that the action can disturb.

*No product before its price.* `PaidBeforeVend` is not inductive either: the
decision that the price is reached is taken six awaits before the motor turns.
`CompletingPaid` keeps it for a validator task past the threshold. That needs
cash never to shrink; every method of the entity is shown to *advance* a record
(`Advances`), and the only assignment that resets one,
`create_transaction`, meets a sale without cash by `FreshSales`, which must in
turn survive all that others do while the inventory check is awaited.

*Once, and change first.* What makes a release happen once is not the release but
the bill before it: `complete_payment` starts whenever a bill reaches the
threshold. `OnceInvariant` says that at most one bill waits, and for a sale that
cannot be confirmed yet (`BillsOneByOne`); that the sale in the validator task's
hands has neither been released nor had its change (`CompletesOnce`); and that the
change due is what was counted above the price, and has left the machine when the
motor is asked (`ChangeIsDue`), through the replay of a dispenser's answer and
cancellations by the kiosk and the idle supervisor at any await.

*The intent is on disk first.* `JournalCommits`: without the kiosk's cancellation
no transaction is open, so that what the journal has is durable; and a task that
awaits the motor has journalled it.

*The contract.* `ContractInvariant` says for each task where the sale in its hands
stands (`CheckoutAt`, `ValidatorAt`, `ClosersAt`), what a record tells of the money
and the product (`SalesTell`), that an unfinished sale is the active one unless the
machine is locked, that a bill on its way belongs to the sale in progress, and who
the validator and the window are open for. The refinement is then proved action by
action: each takes a step of `SaleContract` or none, for the sale it touches, while
the lemmas of the first part of the module say what is kept of all other sales.
Acceptance, the window and the two-sided balance of money are read off the same
invariant.

*Settlement.* With every customer collecting, the validator task either is dead,
and then the machine is locked or stuck with the sale whose slot was empty when
the motor had turned (`DeadStops`); or it lives, and then every unfinished sale
has its place (`InPlace`), the state machine is where the next transition needs it
so that nothing raises (`NothingRefuses`), and every intent has its outcome or a task
that awaits it (`OutcomesFollow`). `BooksBalance` adds that what a sale kept is the
price of what it released. The alternative is essential: the exceptions that end
the validator task for good (`app/bootstrap.py:140`) are reachable, and the money is
accounted for only because nothing is at rest afterwards in a state that says so.

*Power failures.* A step between two failures is one of `SaleFlow`, so what is proved
of steps is used again; added is what `PowerLoss` and `PowerReturns` keep.
`OldSalesRest`: while a sale of an earlier boot is the active one, acceptance is off,
no bill is queued, no checkout is past its sensor check, and the validator task has
nothing of it in hand but faults. `RowsFollow`: rows lag behind sales and never show
more cash; `payment_confirmed` saved the row before the motor was asked.
`PayoutsAnnounced`: who is about to pay has journalled it.

*An interrupted release locks.* A release record is opened by the validator task and
closed by the same task or never, so an open one belongs to the sale in its hands, to
a task that died, or to an earlier boot (`OneRelease`). The sale of one is kept for
an operator, in memory and on disk, from before the record was written
(`ConfirmedGoesOn`, `InterruptedAreKept`), which in the production assembly is all
that a restart looks at; a pickup that is confirmed or that times out is never its
own (`PickupsApart`), and a technician who meets it is refused (`RecoveryStops`). So
each start restores it and raises the blocker, and the machine is `Locked`: tasks
that could sell are at rest, no cash is queued, and every sale that exists belongs to
an earlier boot (`KnownSales`). The only step out of `Locked` is the end of a recovery,
which `byHand` remembers until the next start.

*Exact plans.* `plan_change` is a recursion over the denominations, largest first, that
backs up. Its table is a CHOSEN fixpoint, so the first thing to show is that one
exists (`TableExists`, from `RecursionOnSubsets`). `TableIsExact` then goes up the
subsets of denominations: the entry for some coins and a rest is a selection of
these coins that makes the rest, or no selection does. The induction needs no
operator parameter: `AllSubsets` says that a *set* which contains each subset of `D`
whenever it contains those with one element less, contains them all; it follows from
the least element of a set of sizes. Sums over denominations and over reserves
(`SumChanges`, `SumBounds`) are obtained in the same way.

*Reserves and books.* `StagesOf` says where the three reserves of a purchase are by how
far its payer and its canceller have come: the change reserve is open exactly while
it is attached, a refund is reserved once. With it the booked coins are those of the
open reserves after each of the nine actions (`Balanced`), and the `max(0, ...)` of
release and consume never has anything to cut off, until a cancellation releases a
reserve that was consumed. `Accounted` is the same for what has left the machine.

*A supported sale finds its change.* `OthersIdle`: only the active purchase may still book,
pay or refund; the others are over, or a cancellation has settled them. So while a sale
takes cash, what is available to it besides its own worst-case reserve never shrinks
(`StillForeseen`), and more coins never make an amount impossible (`MoreCoinsPay`).
`Foreseen` follows the cash: it is a sum that bills can make below the price
(`UnderpaidGrows`), or one bill more, and that change was checked.

*No sale is forgotten.* With one flusher, the list it runs over is the current one; what
it has passed is in the books or among what it keeps (`FlushesCurrentList`), so
replacing the list loses nothing. The telemetry's batch is what the buffer begins
with until the buffer has been full.

*A purchase is kept.* A suspended coroutine works for a sale, and at most one sale is open:
a tap that ends another sale than the active one finds that one not collecting.

*One move per key.* `RunnerInv` adds, for keys that nothing excuses, that a command
under way has neither moved nor been cached, that no two callers run it, and that
one that moved is cached. Eviction keeps it because an evicted key is excused.

*An answer of one's own.* While nothing is excused, at most one client has the line, and
the line carries nothing, its command, or the answer to it (`Carries`). The
remembered door needs more: what the client will remember when it has read its
answer (`Owed`) is what the board has or will have.

*The validator's line.* `BillsAnnouncedOnce` counts: bills stacked are the credited
ones and those still in a frame, a reply or a queue. While nothing has disturbed
the line, one exchange is under way at a time, that of `stop` included (`Orderly`).
`StoppedMeansOff` needs none of that order: `SwitchedOff` follows `stop` through its stages,
a command that may still write an enable having been noted when `stop` began or when
it was asked for, and so holds through overlaps, cut reads and commands given up. Frames are counted by
cardinalities of sets of positions, which makes counting after an append, a
concatenation and a read into lemmas about finite sets.

*Faults bite as told.* The hits still to come are a fold over the plans of a code.
`HitsAreSummed` turns it into a sum over positions, for which lemmas say what the
first plan with a hit, its removal when spent and a new plan change
(`SimulatorInv`: `Tallied` for the hits, `Blamed` for the devices at fault). A code
that strikes is shown to have a hit to take (`StruckBites`). `Attempted` was
found by the proof: a bill is put in by hand, not by the command runner, and only because
it is never tried again is it defined what each further attempt does to the world.

*Atomic blocks.* `StoreInv` follows the rows: the journal is in exactly one of the
two tables at each stage of the migration, at most one block owns the connection's
transaction, its rows are in that transaction and in no table, and nobody has one
before the schema is ready. Both theorems read off it.

*What was saved comes back.* `LedgerInv` says of each table which value in memory it is
the conversion of, and `MoneyComesBack` and `SaleComesBack` that the conversions
have an inverse on what the program saves. A list "by `updated_at`" is a choice,
so an order has to exist: `TimesDiffer` gives that no two sales share a time, also
one in memory and another on disk, and `OrderExists` goes up the subsets of sales. `SeedingSo` follows the catalog through
the writes of the seeding, any of which may be the last before the power fails.
The notes in each list ascend and together are all that were made (`NotedSo`), so
of each list the latest are enough for the latest of all (`LatestAre`).

*A bouquet is there.* What is not miscounted is what is inside, and what is being
paid for may still be sold unless somebody has edited it: the check at the
beginning of a sale is still good at its end.

*What is seen is blocked.* In the middle of a poll only some of the devices have
been judged again. `SupervisionInv` states the property of those (`Judged`,
`ReadBy`) and of the alarms throughout; the keys of different blockers are
shown to differ (`KeysApart`).

*An orderly end.* `Holds`, `Stopped` and `Left` say for each stage of a process what it
still runs and has open, which devices are still to be stopped, and what it owes
the store. Processes share only the store, so a step of one keeps all three for
the others.

*The parts together.* The modules that `parts` runs share no variable, and its
specification lets one of them move at a time: `PartsAreTheirModules` shows that each of
its behaviours is, leaving fairness aside, one of every module, so what is proved of a
module holds of `parts`. The types (`ChangeTypes`, `RunnerTypes`, ...) are inductive as
they stand only for `CommandRunner` and `Turntable`. The others build on the invariant
of the module's safety proof, or on one that is found for them:
a flush under way is at a place of its list, however many flushers there are
(`FlushesShaped`); a cart has no line of none (`InTheCart`); the tables have one
configuration for each start, and the starts are bounded by the outages (`StageShaped`).

Every inductive invariant of the sale was an invariant of a TLC run before its
proof: `SaleInvariant` is one of `operators`, `ContractInvariant` and
`SettledInvariant` were checked on instances like `sales` (the former with the pickup
supervisor too, 59,813 states), those of `DurableSale` on instances like `restart`
(1,812,049 and 91,921 states; `ReleaseInvariant` with the health monitor too, and
without a violation as far as it went with two power failures or three sales).

### Model-checked only

- Liveness under fairness (`PaidSaleSettles`, `WindowCloses`,
  `AbandonedSaleEnds`, `FaultsAreNoticed`, `DrumStops`) and whatever needs `ENABLED`.
- The five statements that fail, and everything with more actors than a theorem's
  hypotheses allow, as far as section 3 says that it holds.

## 5. What is not modelled, and the plan

`PROJECT.json` lists each component with its status and the reason.

1. Further theorems: `InterruptedReleasesLock` with hasty customers.
2. The PIN and its lock-out in service mode: the count of wrong attempts runs from
   the first of them (`app/orchestrators/service_mode_coordinator.py:55`).
3. Larger instances: two cancellers of one sale, two power losses, two flushers.

Left out for good: Qt layout, widgets, styles and the pages of the checkout view,
configuration parsing, logging, printer and card terminal (nothing in the sale
constructs them), firmware beyond the answers it gives, packaging, documentation
scripts, and the scripted scenarios, which are tests.
