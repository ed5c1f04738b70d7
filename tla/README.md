# A verification project for the maintenance server

TLA+ modules, TLC configurations and TLAPS proofs for the server in `src/`: a Go
process that tracks battery cabins, the maintenance orders that repair them, spare
parts, inspections and dual-confirmation grid operations.

## The system

One process, one in-memory `Store`. Concurrency comes from two sides:

* `net/http` runs one goroutine per request; the handler calls one method of
  `Service`, which calls one or two methods of `Store`;
* `scheduler.Scheduler` runs one goroutine, whose `tick` calls
  `CheckOverdueTransfers`, `CheckInventory` and `CheckOverdueDispatches` one after the other.

Every `Store` method holds the store's one `RWMutex` for its whole body, callbacks
included, so **a call of a store method is atomic, and the interleavings are those of
store calls** (`Responses` models the lock itself and the fields written under it, and shows
so for the inspection orders). The hard places are where a service method enters the
store twice, or does something after the unlock with what it learnt under the lock:
sends messages, or encodes the live record. Nothing is persisted, nothing is retried, and no message is received: there is no crash recovery
to model; a restart is `Init`.

| Component | State | Operations | Met by | Hard behaviour | Correct when |
|---|---|---|---|---|---|
| Cabins (`domain/cabin.go`) | status, lock order, limit, last readings | register, submit readings, lock, start maintenance, unlock | handlers; orders | readings arrive in the middle of a repair; two records change as one | a cabin is held by exactly the order that is out with an engineer, until that order is accepted |
| Maintenance orders (`domain/workorder.go`) | status, three engineers, signatures, duplicates, audit trail | report, dispatch, arrive, complete, accept, transfer | handlers; scheduler; cabins | concurrent reports; `ReportAlarm` checks and writes under different locks; `UpdateOrderAndCabin` rolls nothing back | one open order per cabin, no report lost, an error has changed nothing, the trail tells the status |
| Transfer to the backup | the scheduler's list; messages owed | list overdue, transfer, send twice | scheduler; handlers; notifier | the list is stale when acted on; the messages read the live order after the unlock | only overdue orders are taken, an engineer who arrived stays, both are told once, nobody waits for ever |
| Spare parts (`domain/inventory.go`) | stock, safety line, requests | add, consume, scan, ensure, announce | handlers; scheduler; notifier | handler and scan find the same shortage; int arithmetic | one pending request per part, every shortage ordered, every request announced once |
| Dual-confirmation operations (`domain/operation.go`) | status, names, flags, audit trail | initiate, confirm, execute, cancel | handlers | repeated and racing calls of several clients | ordered and agreed to before carried out; carried out or called off, never both |
| Inspection orders (`domain/workorder.go`) | status, time of completion, readings, audit trail | dispatch, start, record, complete, list | handlers; cabins | steps out of order; the cabin is looked up under one lock, the order saved under another; the answer is read without a lock | the handlers are atomic, the trail tells the status, an answer is not older than its call, completion is final |
| Scheduler (`scheduler`) | stop and done channels | start, tick, stop | `main` | dropped ticks; `stopCh` and a tick ready at once; `Stop` before the goroutine has run; an interval of 0 | `Stop` drains, no client holds up the ticks, only a bad interval panics |
| Notifier (`notify`) | the messages sent | send, copy | service | its own mutex | it is there when a goroutine owes a message (in Transfers, Inventory and Lifecycle) |
| HTTP API (`httpapi`) | none | decode, call, encode | clients | encodes the live record after the unlock; slow clients; error to status | every call is answered; the answer's age and consistency (Responses); the status of a consumption (Inventory) |
| Start and shutdown (`cmd/server`) | configuration, seed data | load, seed, serve, shut down | signals | four kinds of goroutine in any order; the ten seconds; a listener that fails | a signal ends the process, only the late are cut off, nothing begins after the stop |

`PROJECT.json` lists the components with their status, and under `hazards` every place
that is hard to test, each at its line and with the properties that cover it.

## The modules

| Module | Models | Specification it implements |
|---|---|---|
| `Maintenance` | cabins and maintenance orders: domain, store and service | `RepairDesk` |
| `RepairDesk` | *abstract*: one entry per cabin, at most one open repair, which alone can hold the cabin | |
| `Transfers` | `Maintenance`, and what a transfer does outside the lock: the scheduler's list, the timeout, the messages | `Maintenance` |
| `Inventory` | spare parts, requests, scan, messages, status of a consumption | |
| `Operations` | dual-confirmation operations | `DualControl` |
| `DualControl` | *abstract*: ordered, agreed to, then carried out or called off | |
| `Responses` | the handlers of the inspection orders: the lock, the fields written one by one under it, the answer encoded field by field without it | `Inspections` |
| `Inspections` | *abstract*: one step per call of the store | |
| `Lifecycle` | `main`, the goroutine that listens, the scheduler's, the connections; what they do is reduced to the steps that can be interrupted | |
| `MC*` | the values of the constants, and the symmetry sets | |
| `<Module>Proofs` | the theorems of `Maintenance`, `Transfers`, `Inventory`, `Operations`, `Responses` and `Lifecycle` | |
| `RecordsProofs` | more theorems of `Maintenance`: what its orders keep a record of | |

### How state and actions correspond to the code

* A map of the store is a function from every id that can occur to a record; an id that
  is no key has the status `absent` (or `known` FALSE). `NextID` never returns an id
  twice, so a creation picks any `absent` id; **an exhausted pool of ids bounds the model**.
* A method of a domain type is an operator from a record to a record, and its early
  returns are an operator `Can...` beside it; both keep the method's name. The wrappers
  `UpdateCabin`, `UpdateMaintenanceOrder`, `UpdateOrderAndCabin` and `UpdateOperation`
  are the store's, with the callback's verdict and result as arguments.
  `UpdateOrderAndCabin` is modelled as it is: the order is written first, and is *not*
  restored when the cabin refuses.
* An action is a service method, or its part between two locks: `BeginReport` and
  `ReportAlarm` are the two halves of `Service.ReportAlarm`; `ManualTransfer`/`AutoTransfer`
  and `Send` are the halves of `Service.TransferOrder`; `ConsumePart`/`Announce` and
  `EnsureReplenishment`/`AnnounceScanned` those of the consumption and of the scan.
  Failed calls are steps too: they set `reply` or `answer`.
* `reporting`, `texting`, `todo`, `owing` and `notices` are the local variables of
  goroutines that are between two critical sections.
  A report carries nothing into its second section but the cabin's id and names that no
  guard reads, so counting the reports in flight for each cabin is enough.
* `received` in `Maintenance` is a history variable. `late` in `Transfers` replaces the
  clock: `now - DispatchedAt > TransferTimeout` may become true at any time after the
  dispatch and stays true, because `DispatchedAt` is written once. Likewise the flag
  `late` of `DispatchMaintenance` is the answer of `IsDispatchSLABreached`.
* In `Responses` a call has a program counter: it waits for the lock, writes the fields
  its method assigns in the order it assigns them, unlocks, and encodes the fields in
  the order of the struct. A field that is being assigned without its reader holding the
  lock may give the old value, the new one, or (Go promises nothing for a data race) a
  `torn` string, or a slice whose new entry is not filled in. A list's answer follows one order;
  it has no effect of its own, so `AnswerIsNotOlder` says nothing about it.
  The refinement mapping is `Locked`: **a call takes effect when it gets the lock**; from then
  until the unlock the order counts as what the holder makes of it.
* In `Lifecycle` a handler is a program of the steps `read` (the client sends the body),
  `store` (one critical section), `send` (one message) and `write` (the client takes the
  answer); `Handlers` lists the programs of all handlers, and `Ticks` those of a tick
  that follows at most one overdue order and one short part: a longer tick repeats the
  same steps. Seconds become a `time.Duration` as in the code (`Duration`), by an int64
  multiplication that wraps.
  `net/http`, `time.Ticker` and the signals are external, modelled by what
  `cmd/server` and the scheduler rely on. `Shutdown`'s flag and the closing of the
  listener are one step; `config` keeps the port and the interval.
* Data is cut to what is compared: humidity, voltage, descriptions, phone texts and times
  are left out; temperatures, limits, stocks and quantities are integers, in `Inventory`
  of a fixed width (`Wrap`).
* Operators with a suffix (`Unlock_KeepsTheHolder`, ...) are plausible mistakes in that
  method. Each property is tested by putting one in the method's place: TLC then finds
  the property violated. The specifications never use them.

## The runs

| Run | Question | Instance | States |
|---|---|---|---|
| `maintenance` (`MCMaintenance.cfg`) | do cabin and order stay in step, is no report lost, does an error change nothing, does the trail tell the status? | 2 cabins, 2 orders, 2 engineers, 2 reports | 75,375 |
| `repair_desk` (`MCRepairDesk.cfg`) | do the two records implement the repair desk? | the same with 1 engineer | 18,965 |
| `maintenance_breach` | does a breach always raise the alarm? **No** | 1 cabin, 1 order | |
| `transfers` (`MCTransfers.cfg`) | is only the overdue order taken, does the engineer who arrived stay, are both told once? | 1 cabin, 2 orders, 2 engineers | 53,655 |
| `transfers_live` (`MCTransfersLive.cfg`) | is every overdue order transferred at last, do both messages go out? | 2 cabins, 2 orders, 1 engineer | 159,946 |
| `inventory` (`MCInventory.cfg`) | one request per shortage, announced once, never for too much, every shortage ordered at last? | 2 parts, 2 requests, 6-bit ints | 14,932 |
| `inventory_status` | is a shortage answered with 409? **No** | the same | |
| `responses` (`MCResponses.cfg`) | do handlers that write field by field implement the atomic inspections; how old is an answer, and is it final when it completed the order; is every call answered? | 1 cabin, 1 order, 1 inspector, 2 calls at once, 2 readings | 63,193 |
| `responses_torn` | is an answer a state of the order? **No** | the same with 1 reading | |
| `lifecycle` (`MCLifecycle.cfg`) | does a signal end the process, is what was asked in time finished, does the scheduler keep ticking? | 2 connections, 4 files, 2 programs of handlers, every program of `Ticks`, 10-bit ints | 111,283 |
| `operations` (`MCOperations.cfg`) | is every operation under dual control, do flags, names, status and trail agree? | 2 operations, 3 people, trails of 5 | 722 |
| `operations_cancel` | is only an open operation cancelled? **No** | the same | |

### The bounds, and why they are enough

* `MaxReports = 2`: two reports race for the same cabin, or one for each cabin, or one
  becomes a duplicate at any stage of the repair or a second order after the close. A third report meets
  no state of the cabin that the second does not.
* Two orders: a closed one and an open one of the same cabin, and open ones of two cabins
  at the same time. Two cabins: an order that touches the wrong one would show.
* Two engineers, each possibly primary and backup at once, and the empty backup: all
  combinations `Dispatch` tells apart; with the empty string a third, who is nobody.
* `MCTemps = {1}` at the limit `1`, which is no breach, with the insulation flag as the
  breach. `MCLimits` has 0, which is refused. Readings are left out of `MCTransfers`:
  no order depends on them.
* Transfers are checked twice: one cabin under symmetry, with every choice of primary
  and backup, one repair following the other; and two cabins with one engineer without
  symmetry (it is unsound for liveness), so that the scheduler has a list of two and the
  one in front may be refused.
* `Inventory`: ints from -32 to 31. The sample has negative and zero values, and a line
  of 31, where the quantity of a request wraps: `NeverOverOrdered` says when it may.
* `Responses`: two calls at once meet in every way that a third could add to: one writes
  while the other waits, reads, or finishes between two fields; goroutines come back, so
  there is no bound on the calls of a run. Orders share nothing but the lock, so that one
  order is the worst case. A second reading tells a late answer from the call's own.
* `Lifecycle`: two connections, so that one handler holds the lock, or stays with its
  client, when another begins. `MCRequests` has a handler that a client can hold up before
  its critical section, and one that owes two messages after it; the others are
  shorter versions of these, and the theorems hold for all of them. The files are a sample too. An int has 10 bits and a second 12 nanoseconds, so that 30
  seconds fit a duration, 60 wrap to a negative one and 100 to a shorter positive one.
  `MCFiles` has a good file with a port and an interval of 0, and one with 60 seconds, which
  both panic; one with 100 seconds, which does not, and a port in use; and one of the wrong
  types, whose values must not be taken. `CHECK_DEADLOCK FALSE`: the process ends.
* `MaxAudit = 5` leaves room for all entries of an executed operation and for at least two
  cancellations of each other one: an operation can be cancelled again and again, and only
  its trail grows.

### Fairness

Safety properties need none. The liveness properties assume:

* weak fairness of the scheduler's steps in `Transfers` and `Inventory`: `Scheduler.run`
  loops over its ticker until it is stopped, and calls `tick` in the same goroutine. These
  two modules describe a server that is not shut down; that its ticks then come again
  and again is itself checked, as `TicksGoOn` of `Lifecycle`;
* weak fairness of the rest of a handler after its unlock: nothing there waits, the
  notifier only takes its own mutex;
* strong fairness of taking the store's lock, in `Responses` and `Lifecycle`: the lock
  becomes free again and again, and `sync.RWMutex` starves no waiter. Strong fairness too of
  the stop in the scheduler's `select`, which picks at random among what is ready;
* weak fairness of the goroutines of `main` and of the listener, and of the clocks (the
  ticker, the ten seconds); of the closing of idle connections during a shutdown;
* in `Responses`, that an answer is finished: the server's write timeout ends one that no
  client takes. `Lifecycle` assumes not even that: a client may take for ever to send a
  body or take an answer.

Nothing else is assumed of the clients: no engineer need ever arrive. Nor is it assumed that a
transfer's timeout passes: that is an antecedent.

## What the checks found

1. **A shortage answers 400, not 409** (`inventory_status`). `Store.ConsumePart` wraps
   the part's error with `%s`, so `errors.Is` no longer finds `ErrInsufficientStock` in
   `handleConsumePart`. The test beside the handler expects 409.
2. **A breach during a repair raises no alarm** (`maintenance_breach`). `ApplyReadings`
   moves only a normal cabin to `alarm`; `Unlock` makes it normal whatever was measured,
   so a cabin can leave its repair normal with breaching readings on record.
3. **What is cancelled can be cancelled again** (`operations_cancel`): `Cancel` refuses
   only executed operations, against its comment.
4. **An answer can mix two states of an order** (`responses_torn`). The store hands out
   pointers to its records, and `writeJSON` encodes them after the unlock. What the
   passing run `responses` shows is weaker: an answer is never older than its call, and the
   answer to a completion is whole, because nothing changes a completed order.

Noted, and promised by nobody, so no property is about them: a backup engineer who
does not arrive is never overdue; nothing keeps one person from confirming both legs of
an operation; the quantity of a pending request is that of the first shortage (it may be too little,
`NeverOverOrdered` says it is never too much), no code ever fulfils a request, and near
the largest int it wraps; an interval of more than 9223372036 seconds panics when its
nanoseconds wrap to a negative number, and is a short interval when they wrap to a positive one; a breached dispatch SLA is only logged; when the listener fails,
`log.Fatalf` ends the process without the deferred `Stop`, in the middle of a tick or a handler if need
be, and so does a ticker that panics. `StopDrains` and `OnlyTheLateAreCutOff` are therefore about
the exit through `Shutdown` and `Stop` only; `Lifecycle` has the other ends (`Ends`).

## What is proved

Every safety property that a passing run checks is a theorem too. All theorems hold for every value of the constants that the modules' ASSUMEs
admit: any number of cabins, orders, engineers and reports. The assumptions say that
the empty string is no id, which constants are numbers, that an int is wide enough
for the ten that a replenishment request adds, and that the default interval, in nanoseconds,
fits one.

**`MaintenanceProofs`.** `TypeOK` is inductive. None of the others is: that
`Lock` cannot refuse follows only if no *other* order holds the cabin; that needs one
open order per cabin; and that the arriving engineer's cabin is locked, and the accepted
order's cabin its own, needs both records in step. So the invariant is

    IInv == TypeOK /\ OneActiveOrderPerCabin /\ CabinFollowsOrder /\ OrderHasCabin

The lemma `CabinNeverRefuses` draws from it that the second half of
`UpdateOrderAndCabin`, which nothing rolls back, never refuses once the first half has
changed the order. Every step is then of one of few shapes (`OneOrderMoves`: one order
moves along its statuses, its cabin with it), and the invariant is preserved shape by
shape. From it:

* `TypeCorrect`, `OneOpenOrder`, `CabinInStep`, `OrdersHaveCabins`: the four parts;
* `RefusalsChangeNothing`: a call that answers an error has changed nothing;
* `AlarmsEndInDispatch`, `CabinsAreHeldUntilAccepted`: how a cabin leaves the alarm,
  and its repair.
* `EngineersOfRecord`: with the lemma `OneOrderBecomes`, which says what one step can make
  of an order, that the engineer an order is out with is its primary, or after one
  transfer its backup.

* `ImplementsRepairDesk`: the refinement. The mapping CHOOSEs a cabin's open order, and
  `OneActiveOrderPerCabin` leaves it nothing to choose (`TheOne`). A report, a dispatch, an
  arrival and an acceptance map to Open, Hold, Work and Close; every other step, refusals and
  transfers included, to stuttering (`DeskSteps`).

**`RecordsProofs`** extends it. For `ReportsAreNeverLost` the reports in flight and the reports
on record are two finite sets of pairs (`InFlight`, `Recorded`), which a step
changes by at most one element each: a report that arrives adds one to the first, and its second half
takes one from the first (`ReportTakesOff`) and adds one to the second, as a duplicate or
as a new order (`ReportLands`, `ReportIsRecorded`); all others leave both alone.
`TrailsTellStatuses` rests on an invariant of one order, `TrailTells`: its trail follows
some repair of `Repairs` for `n` steps, and the `n`th step leaves an order in the status it has. A
duplicate is no step (`DuplicateIsNoStep`), any other entry is the next one (`EntryIsNextStep`),
and from every status there is a repair that began the same way and goes on as the order does
(`RepairGoesOn`: an order that is dispatched does not know yet whether it will be transferred). The
trail has no bound. `RecordsAreKept` is an action property no run checks: no call changes a
closed order, replaces who was dispatched, or loses a duplicate or an entry of a trail.

**`TransfersProofs`.** `OnlyTheOverdueAreTaken` is inductive with `listed \subseteq late`:
the list is old when the scheduler acts on it, but what was overdue stays so. For the
messages the lemma `HandlersAreQuiet` says what every other handler leaves alone: the number
of transfers, the names of an order that has been transferred, the engineer who has
arrived (`Quiet`). An order is transferred at most once, so a transfer finds no message owed or sent
(`TransferOwes`), and `ToldAsOwed` relates the messages sent to those still owed until both have
gone (`SendTells`): `EachIsToldOnce`, `TypeCorrect` and `TheArrivedStay` follow.
`ImplementsMaintenance` is the composition: every step of the server with its scheduler is a step of
`Maintenance` or leaves cabins and orders alone. With it the theorems of `Maintenance`, proved
without scheduler, clock and messages, hold with them (`DeskKeepsItsPromises` for the invariants,
`DeskMovesAsPromised` for the action properties, `ImplementsRepairDesk` for the refinement).

**`OperationsProofs`.** `TypeCorrect`, and the refinement `ImplementsDualControl`. Its
invariant, `NamesAgree`, is the part of `RecordAgrees` the mapping needs: a name is
there exactly when its flag is, and what is pending has no station yet. `Steps` reduces a
step of the store to one new record of one operation; initiate, the first confirmation,
execute and the first cancellation map to Order, Agree, CarryOut and CallOff; a repeated
confirmation or cancellation, and a refusal, map to stuttering. `RecordsAgree` is about the whole of
`RecordAgrees`: `Agreement` names, for each status, the trails that may lead to it, and
`CancelProlongs` deals with the cancellations that can be repeated without end. `NothingIsTakenBack`
is about what stays: the names, once given, what is carried out or called off, and every
entry of the trail.

**`InventoryProofs`.** `TypeOK` needs one companion, `UnknownIsEmpty`, only for the
action properties (adding a part is no consumption). `RequestSteps` reduces a step
to nothing, or one new request, made from the stock of its own critical section for a
part without a pending one. From it follow `OneRequestPerShortage` and `ShortagesAreOrdered`.
`OneMessagePerRequest` is inductive: a new request adds one message to come, sending moves it.
`NothingIsOverOrdered` is about every width of an int: a new quantity is more than ten and fits what is
missing, or has wrapped to a negative number (`NewQuantityFits`), and it stays so because the
stock of a part only falls while a request is pending (`StockFalls`).

**`ResponsesProofs`.** `HandlersImplementInspections` holds for any number of goroutines.
Its invariant is

    IInv == TypeOK /\ LockOK /\ WriterOK /\ DispatchOK /\ OrderOK

who writes holds the lock, and nobody else writes; what the writer has still to assign is
exactly where the record in memory differs from what it makes of it; a waiting dispatch
names a registered cabin, and an order no other call has. So `Locked` is the memory when the lock is free
(`LockedWhenFree`) and the writer's record when it is held (`LockedWhenHeld`): writes and unlocks are
invisible, and each step that takes the lock is one step of `Inspections`.
`TrailsTellStatus` is proved of the abstract steps.
`AnswersAreNotOlder` needs one more invariant (`CallOK`): memory is behind the call that writes it,
and ahead of the calls that answer, field by field (`NotOlder`); the methods only move a record
forward (`MadeIsNotOlder`), and a torn read is never behind what is there (`ReadIsNotOlder`).
`CompletionsAreFinal` adds `FinalOf`: while the answer to a completion is encoded, memory is what the call
made of it, and who holds the lock for the same order has nothing to write.

**`LifecycleProofs`.** The invariant beside `TypeOK`: who holds the lock is in the middle of
a critical section (`TheHolderIsInside`); only a busy connection has steps to do, and its
last is the answer (`OnlyTheBusyWork`); how far `main` and the connections can be apart
during a shutdown (`Draining`); the scheduler works only within its loop (`Ticking`);
where the configuration comes from (`Configured`). That a duration that is not positive comes from
an interval that is not, or that does not fit, is `PositiveDuration`. From it `TheSchedulerIsDrained`,
`TheOthersAreServed`, `PanicsAreConfigured` and, as an action property, `NothingBegins`,
for any number of connections and all programs of `Handlers`.

## What is only model-checked

Liveness: `OverdueIsTransferred` and `TransferIsTold` of `Transfers`, `ShortPartsAreOrdered`
and `RequestsAreAnnounced` of `Inventory`, `EveryCallIsAnswered` of `Responses`, and
`SignalEndsTheProcess` and `TicksGoOn` of `Lifecycle`. They rest on fairness, and so on ENABLED, which is
beyond the prover. Nor can it do an induction over data, because the induction theorems of the library take
an operator as a parameter: so the properties about trails and sums are stated with sets and
their cardinalities, of which a step adds or removes an element. No module that is proved about
declares a RECURSIVE operator, which would cost the prover its SMT backend.

## What is not modelled, and what is left

Decoding and the encoding of JSON (but for the order in which fields are read), logging,
texts and phone numbers, the clock's values, the container image. Reading handlers change
nothing: `Lifecycle` has their steps, and `Responses` the list of the inspection orders.
Of the HTTP statuses only those of a consumption are modelled: the others are a fixed status for
each handler's error, with nothing in between that could go wrong. What `seedData` puts into the
store is left out: it runs before any other goroutine, and the other modules start
from an empty store and make every call the seeding makes.

All modules of the first plan exist: `Maintenance` with `RepairDesk`, `Transfers`, `Inventory`,
`Operations` with `DualControl`, `Lifecycle`, `Responses` with `Inspections`. Still worth doing:
`Responses` for the maintenance orders, whose joint update writes two records under one lock.
