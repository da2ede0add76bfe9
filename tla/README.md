# Verification of HyperShell

TLA+ models of two halves of the repository: the Go control plane (the services
in `src/internal` and the committed STEGO runtime in `src/out` that they run on),
and the web console that people use it through (the pages in
`src/packages/gateway-management-ui`, the adapters in
`src/components/web-console`, the generated client in `src/out/tssdk` and the
telemetry runtime in `src/console/out/browsertelemetry`).

## The system

| Part | State it keeps | Operations | Interacts with |
|---|---|---|---|
| Service accounts (`internal/serviceaccounts`) | one row per account: status, role, creator, quota slot, soft deletion | `Create`, `Change` (revoke, delete), `Recover`, the sweep `Run`, `RecoverGatewayCleanup` | gateway row lock, provisioner RPC |
| Provisioner and Keycloak lifecycle (`internal/serviceaccountkeycloak`, `out/keycloak`) | a sealed journal per client, an in-process gate, the client in Keycloak | `ProvisionServiceAccount`, `ReconcileServiceAccount`, `DeleteServiceAccount` | journal RPCs back to the API, Keycloak |
| Gateways (`internal/gateways`) | gateway rows, grants, cleanup observations, provider state, SQL bindings, counts | `Create`, `Update`, `Delete`, `CreateGrant`, `DeleteGrant`, `RecordCleanup`, scan cycles | every controller |
| Controllers (`gatewayidentity`, `gatewayworkload`, `namespaceallocation`, `sandboxcount`) | a keyed queue in memory | `reconcile` per key | keyed runtime, gateways |
| Keyed runtime (`out/controller`) | bounded queue with delays, scan schedule, workers | `add`, `addWait`, `take`, `finishResult`, `restart` | watch streams, scans |
| Outbox (`out/outbox`) | leased rows in PostgreSQL | `Enqueue`, `Claim`, `Acknowledge`, `Retry`, `Purge` | transactions, publishers |
| Storage (`out/storage`) | PostgreSQL rows, row locks, sealed scopes | `WithTransaction`, `WithLockedResource`, `SealResourceStateScope` | all |
| Service-account dialog and its tab (`service-accounts/`) | the form, the handed-over secret, a deferred navigation | open, submit, acknowledge, close, leave, reload | router blocker, tabs, list polls |
| Collections (`gateways-page`, `service-accounts-page`, list state) | the URL, a query per request, an open row action | search, turn pages, poll, revoke, delete | query cache, API |
| Gateway page (`gateway-pages.tsx`, `gateway-data.ts`) | the polled record, the console wait, dialogs | poll, rename, delete, leave | query cache, API |
| Gateway creation (`gateway-placement-select.tsx`) | the typeahead and the form | type, search, choose, clear, submit | query cache, API |
| Connection commands (`editable-command.tsx`, setup view) | slots in the DOM, highlighted parts, clipboard writes | edit, highlight, copy | polled record |
| Client and operations (`out/tssdk/index.js`, `gateway-operations.ts`) | request slots, one timer per call, the session | every call, its probes, its failure mapping | API, sign-in, the runtime that its composition creates |
| Browser telemetry (`browsertelemetry/index.js`) | live instances, one pending export per signal, callbacks | record, flush, export, shut down, observe | OpenTelemetry SDK, collector, the operations' failure count |

What is hard here: a request commits intent, calls an external provider while it
holds a row lock, and commits again; each of these may fail, time out or lose its
result; the provider goes on after its caller gave up; requests to Keycloak may
be applied late; several replicas and an unending sweep work on the same rows.
In the browser, state that was rendered, queued, polled and typed differs for a
moment each time one of them changes; answers arrive after the page they were
asked for has gone; and a write whose answer is lost may have been carried out.
`PROJECT.json` lists every hazard with the line where it bites.

What makes each part correct:

* service accounts: a credential is returned only for a committed account; a
  released account never has access again; a role is never raised; every intent
  ends;
* gateway deletion: finalization happens once, after every owner reported the
  cleanup of the current version; keys outlive the databases they open; nothing is
  left behind;
* keyed runtime: one action per key, no lost invalidation, no bypassed delay,
  the capacity holds across reconnects;
* outbox: per-key order, at-least-once delivery, a stale lease changes nothing;
* scan cycles: a failure on any page is still known when the cycle ends;
* pages: a secret is readable during one period that ends knowingly; what is sent
  is what is shown; a copied command is read by a shell as it was meant; what the
  server accepted is what the page shows; no wait is endless;
* client and telemetry: nothing false is said about a write, and slots, spans,
  instances and losses are accounted for exactly.

## Modules and plan

| Module | Part | State |
|---|---|---|
| `ServiceAccounts` | account rows, provisioner jobs, Keycloak | checked, proved in `ServiceAccountsProofs` |
| `KeyedQueue` | `keyed.go`, `watch_keyed.go` | checked, proved in `KeyedQueueProofs` |
| `Outbox` | queue and worker | checked, proved in `OutboxProofs` |
| `GatewayCleanup` | deletion of a gateway across its owners | checked, proved in `GatewayCleanupProofs` |
| `SecretHandoff`, `OneTimeSecret` | the service-account dialog and what it promises | checked and proved, by refinement |
| `GatewayCreate` | the creation page | checked, proved |
| `ShellCommands`, `CommandBlocks` | building, showing and copying commands | checked, proved |
| `ConsolePages` | the three above, one page at a time | composition, proved in `ConsolePagesProofs` |
| `ListState`, `SearchTerms`, `CollectionView` | tables, their URLs and searches | checked, proved in `CollectionViewProofs` |
| `GatewayDetail` | the page of one gateway | checked, proved in `GatewayDetailProofs` |
| `GatewayOperations`, `TelemetryExport`, `BoundedMeter` | calls, exports, meter | checked, proved |
| `BrowserRuntime` | the three above | composition, proved in `BrowserRuntimeProofs` |

Left, in this order:

1. `ClientLifecycle`: journal phases, migration and compare-and-swap, shown to
   implement the provisioner part of `ServiceAccounts`.
2. `ScanCycle` and the identity condition, the last-owner rule, `AccountScope`
   (the sealed scope and scan behind the accounts owner), sandbox counts.

Every safety property of the passing runs is a theorem; liveness stays with TLC
(see "What is proved"). Every module with state has a type invariant; those of
`ServiceAccounts`, `KeyedQueue`, `Outbox`, `GatewayCleanup`, `SecretHandoff`,
`CollectionView` and `GatewayDetail` are proved with the invariants they are part of.

### What is proved

A theorem holds for every value of the constants that satisfies the named
assumptions of its module, which TLC evaluates on each run: sets of accounts, keys,
messages, calls and the like are arbitrary (finite where something is counted), and
every bound that makes a run finite is arbitrary too.

| Proofs | Theorems | Properties |
|---|---|---|
| `ServiceAccountsProofs` | `TypeCorrect`, `ClosedForGood`, `SecretsAreCommitted`, `TerminalIsFinal`, `RolesAreCapped`, `ReadyMeansUsable` | `TypeOK`, `NoAccessAfterClosure`, `DeliveredIsCommitted`, `NeverReenabled`, `RoleCeiling`, `ReadyIsUsable` |
| `KeyedQueueProofs` | `BooksAgree`, `NobodySleepsThroughWork`, `ChangesAreTracked`, `BackoffIsKept` | `QueueIsConsistent`, `NoLostWakeup`, `NoLostInvalidation`, `DelayKept` |
| `OutboxProofs` | `DeliveredInOrder`, `ReceiptsAreExclusive`, `NothingIsLost`, `LocksDoNotDeadlock` | `OrderKept`, `OneReceiptPerKey`, `AtLeastOnce`, `NoLockCycle` |
| `GatewayCleanupProofs` | `CleanupLeavesNoDatabase`, `KeysOutliveDatabases`, `DeletionPublishedOnce` | `NoOrphanDatabase`, `StateOutlivesDatabase`, `FinalizedOnce` |
| `ConsolePagesProofs` | `RequestsMatchTheField`, `ChoicesAreSearched`, `CommandsAreReadRight`, `ArgumentsArriveWhole`, `CopiesAreWhatIsShown`, `ButtonsSayWhatHappened`, `SecretIsHandedOverOnce` | `SentAsShown`, `ChosenFromSearch`, `CommandsReadAsMeant`, `CopiesAreHonest`, the refinement `SecretShownOnce` |
| `CollectionViewProofs` | `AcceptedActionsAreShown`, `TablesSurviveReload`, `SearchesAreLiteral`, `TextsReadAsTyped` | `AcceptedIsShown`, `TableSurvivesReload`, `SearchIsLiteral` |
| `GatewayDetailProofs` | `NoConsoleIsGivenUpEarly`, `AcceptedMutationsAreShown` | `UnavailableIsEarned`, `MutationsAreShown` |
| `BrowserRuntimeProofs` | `AnswersHold`, `SlotsAreExact`, `ProbesAreAccounted`, `LossesAreAccounted`, `TelemetryLimitsHold` | `AnswersAreTrue`, `SlotsExact`, `ProbesAccounted`, `LossesAccounted`, `LimitsHold` |

Each proof has one shape: an invariant (`IInv`, or one per page or signal), the
initial states satisfy it, every action preserves it, it implies the property.
The sections below say why each invariant is stronger than its property.

What a text reads as. Some properties say what a program makes of every text: how a
shell splits a line, how a search is escaped and read again, how a command with
markers is cut into parts. The functions are recursive over the places of a text, and
the library's induction theorems take an operator as parameter, which the provers
cannot instantiate. The proofs use the least element of a set of numbers instead
(`LeastNumber`, from `WFMin`): `TextInduction` says that a set of texts that holds the
empty one, and with a text each that is one character longer, holds all. A reader of texts is an
automaton, a record of states, characters and a next state (`IsAutomaton`); it has
exactly one trace on a text (`IsTrace`), so its last state (`End`) exists, and what it
does on `l \o m` is what it does on `m` from where it came on `l`. Each recursive
function of the model is shown to be such an automaton. These lemmas are in
`CollectionViewProofs` and in `ConsolePagesProofs`, which extend components with
constants of their own.

Model-checked only is liveness: `RecoveryCompletes`, `Settles`, `Delivers`,
`Finalizes`, `LeavesNothing`, `PagesSettle`, `TransitionsEnd`, `WaitIsBounded`,
`DeadlinesHold`. Fairness and `ENABLED` are outside the prover's reach.

## ServiceAccounts

One gateway, its accounts, the request handlers and sweep workers of all API
replicas, the provisioner and Keycloak.

| Variable | Code |
|---|---|
| `gatewayDeleted` | `deleted_at` of the gateway row |
| `access` | the strongest gateway grant of a user (`accessForUser`) |
| `row` | the `ServiceAccount` row; `age` is now against `created_time + ReclaimAfter` and `expires_at` |
| `journal` | the sealed lifecycle record: none, open, closed |
| `made`, `client`, `sent` | the create request, the Keycloak client, enable requests under way |
| `late` | accounts with a disable request under way that its job gave up |
| `cut` | history: accounts that such a request disabled, until the next enable request lands |
| `job` | the lifecycle call that holds the account's gate in the provisioner; `tried` once it sent its enable request |
| `worker` | where a handler or sweep worker stands |
| `delivered` | accounts whose secret was returned |
| `faults` | failures so far (a bound, not code) |

A transaction is one action. A transaction that calls the provider is two, and
the worker is in `Holding` between them: the gateway row lock is held, so no
other locked transaction commits, but journal writes of the provisioner do, since
`checkAccountProviderState` takes no lock. `Abandon` is a crash or an error
return at any point. `CreateLands`, `EnableLands` and `DisableLands` let Keycloak apply
a request at any later time. A role assignment and the enable request that follows it
are one request here: its role takes effect when it lands.

The journal keeps the three stages that decide what a job may do; the phases of
ownership migration are left to the planned `ClientLifecycle`. Reads are left
out. Grants change freely (other owners exist), always under the gateway lock.

Initial states include rows written by an earlier version: degraded with the
admin role still stored, as `Recover` expects.

### Runs

| Run | Instance | Shows |
|---|---|---|
| `accounts` | 1 account, 1 user, 1 handler, 1 sweep worker, 1 fault, fair; 106,417 states | `NoAccessAfterClosure`, `RoleCeiling`, `DeliveredIsCommitted`, `ReadyIsUsable`, `NeverReenabled`, `RecoveryCompletes` |

`RecoveryCompletes` is three promises: every intent is carried out, a client that
appears late is removed, and a creator who lost the grant loses access.

`ReadyIsUsable` has one exception, which the code has. A failed access repair disables
the client within five seconds (`access_lifecycle.go:39` to 54), and a repair that finds
the wrong access disables it before it begins (69). The request is a PUT like the others
(`out/keycloak/clients.go:160` to 196): given up after its time, it may still be applied.
When a second repair makes the row ready in between, the late request cuts the account
off, and the row stays ready until an intent or another repair reaches it. `cut` names
these accounts; no other ready account of a live gateway lacks its access.

Bounds. Accounts interact only through the quotas and the gateway lock, so the
per-account properties need one account with two workers racing on it. One fault
may strike at any point, a provider call, its compensation or the recovery; the
theorems below hold for any number of accounts, workers and faults. Quotas are
not checked: one transaction counts and inserts under the gateway lock, so that
they hold is the shape of the model. Deadlock is not checked: a gateway deleted
before anything was reserved leaves nothing to do.

Fairness. `Run` starts a new round for ever, so `SweepRow` and `CallPurge` are
strongly fair (a row may be out of reach while another worker holds the lock).
A worker that began goes on: PostgreSQL grants the row lock and the gate's channel
serves its waiters. The provisioner, Keycloak and the first fifteen minutes
progress weakly. Nothing is assumed of users, expiry or outcomes, except that
faults are finitely many: an outage ends.

### Proofs

`ServiceAccountsProofs` proves, for every set of accounts, users, handlers and
sweep workers, all quotas and any number of faults:

* `TypeCorrect`: `Spec => []TypeOK`;
* `ClosedForGood`: `Spec => []NoAccessAfterClosure`;
* `SecretsAreCommitted`: `Spec => []DeliveredIsCommitted`;
* `TerminalIsFinal`: `Spec => NeverReenabled`;
* `RolesAreCapped`: `Spec => []RoleCeiling`;
* `ReadyMeansUsable`: `Spec => []ReadyIsUsable`.

The first four rest on the inductive invariant `IInv`. `NoAccessAfterClosure` is not
inductive: a client may be absent while a create or an enable request is under
way. `Shut` is the stable form: the journal is closed, and the client is absent,
or is disabled with no enable request outstanding. It is stable because a closed
journal stops `JobEnable`, and because an enable request is sent only after the
create was acknowledged (`SentInv`), so a late create finds no enable request
behind it. `ClosedInv` carries `Shut` from a confirmed deletion to the released
row. `LockInv` says what the gateway lock protects between the two halves of a
transaction, `RoleInv` that a repair asks for the lower role, `CreateInv` that
one request owns an account until its secret is out. The assumptions are the
named ones of `ServiceAccounts`. Every conjunct of `IInv` is preserved action by
action; records are opened once, in the lemmas on the operators that write them.

The last two add `AccessInv`, which relates the Keycloak client to the row and to
everything still in flight. A reservation is provisioned with the role of its row and
no other. A degraded account is only ever reduced: once its client has the user role,
no create, enable request or job is left that could raise it, and until then the
repair is what is under way. An account is written "ready" by a transaction that
holds the gateway lock, after the provider confirmed the client, and from then on no
job or request touches it until a transaction takes the status away or the gateway is
deleted. A disable request that an earlier job gave up is no exception to the first
sentences, since it raises nothing, and the only one to the last (`CutOff`): it may
land between the provider's inspection and the commit, or at any time after it.
`AccessInv` is conditional on `IInv`, which bounds what may be in flight.

## KeyedQueue

One controller: its watch sessions, receivers, scan loop, queue and workers.

| Variable | Code |
|---|---|
| `session`, `open`, `stream` | where `RunKeyedWatchesWithResult` stands; the open subscriptions and the events they hold |
| `ready`, `dirty`, `active`, `delay`, `retrying` | the fields of `keyQueue` and its entries |
| `ripe`, `later` | the heap, split at the present time |
| `worker` | a worker goroutine: looping, asleep on `changed` with or without a timer, or in an action |
| `emit`, `admission`, `full` | each emitter's key, the order of admission tokens in `addWait`, the holder asleep on a full queue |
| `scan`, `todo` | `scanSchedule` and the keys the running scan has yet to list |
| `stale` | history: keys changed since the read of their last successful action |

Each critical section of `q.mu` is one action, and everything that sleeps outside
the lock is a place of its own, so a lost wakeup would show. Time is only an
order: `Elapse` moves the first delayed key to the due ones, and a failed action
may be inserted anywhere among the delayed keys, since delays carry jitter. An
action has a read (`Read`) and an outcome; `Change` is external and makes a read
old. `ProcessRestart` also stands for terminal errors, after which the process
starts anew. Metrics and notices are left out.

| Run | Instance | Shows |
|---|---|---|
| `keyed` | 2 keys fed by 1 subscription and the scan, 1 worker, capacity 1, delays 1..2, fair; 239,553 states | `NoLostInvalidation`, `DelayKept`, `Settles` |
| `keyed_workers` | 2 keys, that feed and one without events, 2 workers, capacity 2; 2,112,242 states up to symmetry | `QueueIsConsistent`, `NoLostWakeup` |

`QueueIsConsistent` says that each key has at most one action, that the capacity
holds across reconnects and that the retry gauge is exact, and holds the types.
`Settles` says that every changed key is reconciled and that no emitter waits for
ever in `addWait`.

Bounds. The state space is finite without a limit on failures: a delay is capped
by `RetryMax`, an entry is dirty or not, and a stream that holds an event twice
marks its key once more. Two keys and one slot are the smallest queue where an
emitter waits for another key; two workers with two slots the smallest where
two actions overlap. Two delay values make the backoff grow and reach its cap.
The second feed is there because the failure of one subscription ends the
others; it needs no events for that.

Fairness. Every goroutine (session loop, scan loop, receiver, worker) and every
timer is weakly fair: Go schedules runnable goroutines, and contexts with
timeouts end every action. The premise `Quiet` says that from some time on
nothing fails, changes or asks for a recheck. Rechecks are part of it because a
key that asks for one after every action keeps its slot for ever, and with
capacity 1 other keys starve; that is how `RecheckAfter` is meant to work.

### Proofs

`KeyedQueueProofs` proves the four safety properties for any finite set of keys,
sources and workers, any capacity and any delays. None of them is inductive alone,
and `IInv` joins them:

* `BooksInv`: due, delayed and active keys are apart, no key is queued twice, the
  entries fit the capacity, the gauge counts the entries with a delay, and a
  key without an entry has none. Every operation of the queue adds, moves or removes
  one key, and the lemmas about sizes (`PushBooks`, `TakeBooks`, `ElapseBooks`,
  `FinishBooks`) are about those moves;
* `WorkersInv`: a worker in an action holds an active key of its own, so that the
  end of an action finds its entry;
* `AdmissionInv`: an emitter waits for the token at most once and with a key, so that
  the holder that sleeps on a full queue is the one a freed slot wakes;
* `SessionInv`: between two sessions no worker, emitter or active key is left, and
  the scan is due or scheduled. That is what makes the loss of a session's memory
  harmless to `NoLostInvalidation`: a changed key that nobody holds any more will be
  listed by a scan.

`BackoffIsKept` is an action property of the same invariant. The assumptions are
`KeysAssumption` and `OptionsAssumption`, the checks of `KeyedOptions.validate` among them.

## Outbox

The table `stego_outbox`, the application transactions that call `Enqueue` and
the workers of all replicas.

| Variable | Code |
|---|---|
| `table`, `before`, `committed` | the rows, the order of their sequence numbers, and which of them others can see |
| `msg` | `available_at`, `lease_until`, `lease_token`, `attempts` and `last_error` of a row |
| `tx` | a transaction: its place and the advisory locks it holds |
| `worker` | a worker: handling, acknowledging or retrying, its receipt, and whether its lease time has passed |
| `delivered` | history: messages whose handler reported success |

Each SQL statement and each transaction end is one action. `Rollback` and `Drop`
are failures at any place, `ClaimUnanswered` a claim that was committed and whose
answer was lost. `Overrun` and `Expire` let lease time pass for a worker that
still runs and for one that is gone. A slot of `Msgs` is used again after its
message left the table, so the runs are endless; a new claim takes a token that
nobody holds, as a random UUID does. `attempts` counts to the threshold of
`Purge`. The optional fence that `Claim` consults is left out: this service builds its queue
without one (`out/events/runtime.go:67`).

| Run | Instance | Shows |
|---|---|---|
| `outbox` | 2 messages of 1 key, 2 transactions, 2 workers, `Purge` at 2 attempts; 194,976 states up to symmetry | `OneReceiptPerKey`, `OrderKept`, `AtLeastOnce` |
| `outbox_live` | 4 messages, 2 transactions naming 2 keys in opposite orders, 1 worker, fair; 72,996 states | `NoLockCycle`, `Delivers` |
| `outbox_purge_in_flight` | as `outbox`, without symmetry | `KeyExclusive` fails: `Purge` runs beside a delivery |

Order and exclusion concern two messages of one key and two workers, and every
failure is unlimited.

Fairness. A transaction that holds its locks ends; a worker goes on polling and
reporting; leases and delays run out. A lock wait is not fair, since the caller
may give up. The premise `Calm` says that from some time on no answer is lost, no
handler fails and no worker dies or overruns its lease.

Finding. `Purge` selects rows by `attempts` and `available_at` and does not look
at `lease_until`, so it can delete a message while its last attempt runs; the next
message of the key is then delivered beside it. The comment on `Claim`
(`queue.go:158`) says "An earlier message blocks that key during delivery and
retry." What always holds is `OneReceiptPerKey`: of two deliveries of one key at
most one has a receipt that `Acknowledge` or `Retry` still accepts.

### Proofs

`OutboxProofs` proves the safety properties for any finite sets of messages,
transactions and workers, any keys and batches and any purge threshold.
`OutboxAssumption` says that every message belongs to one place of one batch and that
lock identifiers are numbers, as `pg_advisory_xact_lock` has them.

* `LockInv`: a transaction holds its locks in ascending order (`Enqueue` sorts them)
  and nobody else holds them. A cycle of waits would need a lock below itself:
  `LocksDoNotDeadlock` proves that along waiting transactions the lock that is waited
  for grows (`WaitsAscend`), which excludes cycles of any length; `NoLockCycle`, what
  the run checks, is the case of two;
* `RowsInv`: a row that is not committed belongs to a transaction that has inserted
  it and still holds all its locks;
* `OrderInv`: sequence numbers are total, and behind an uncommitted row no row of
  its key is visible. This is the heart of the ordering: numbers are drawn before the
  commit, and only the key's lock keeps a later number from being seen first;
* `ReceiptInv`: a worker's receipt is its own, a claimed row has an attempt, and a
  worker that acknowledges has delivered, as long as its receipt is accepted.
  `AtLeastOnce` follows from it, and `OneReceiptPerKey` from it and `OrderKept`: of
  two rows of a key in the table the later one has no attempt, hence no receipt.

## GatewayCleanup

One gateway on one cluster from its creation to the end of its deletion: the row,
the namespace allocation controller, the workload controllers, the other cleanup
owners, Kubernetes and the SQL server.

| Variable | Code |
|---|---|
| `row` | `deleted_at`, `stego_finalized_at`, and the owners whose `stego_cleanup` is true |
| `fresh` | which processes hold a snapshot with the row's present version |
| `events` | history: `gateway.deleted` notifications |
| `alloc`, `work`, `view` | the allocation controller, the workload controllers, the other owners: place, result so far, observations in the snapshot |
| `ns`, `late` | the four namespaces, and creation requests whose caller gave up |
| `secret` | a component's state Secret with its marker: none, made, pinned on the namespace |
| `binding`, `completed` | the SQL effect bindings and the console's completion |
| `ledger`, `db` | the row of `stego_provisioning.resources`, and the database |
| `calm` | failures have ended (for liveness, not code) |

A reconciliation reads the row, then takes its external steps one by one, and
ends with a write under the version it read. A version is only compared for
equality, so the model keeps who is up to date instead of numbers: every write of
the row empties `fresh`. Each RPC transaction, namespace request and ledger or
DDL statement group is one action. `pg_try_advisory_lock` is `Busy`. Failures at
any place either end the process or let the observation report an error; a
failed gateway request does not keep the allocator from the sandbox, and a failed
console database does not keep the gateway's from its turn. Controllers run as a
single replica; two workload controllers are a replacement that overlaps with
its predecessor. The accounts and identity owners are seen by their records
only. Objects inside the gateway namespace go with it. `Update` refuses another
cluster, so the gateway has one target.

| Run | Instance | Shows |
|---|---|---|
| `cleanup` | 2 workload controllers, no console, 1 other owner, no late creation; 1,352,695 states up to symmetry | `NoOrphanDatabase`, `StateOutlivesDatabase`, `FinalizedOnce` |
| `cleanup_live` | 1 controller, console, 1 late creation at a time, fair; 342,387 states | `Finalizes`, `LeavesNothing` |

Bounds. Failures and retries are unlimited; the state space is finite because
everything external is present or absent. `MaxLate` bounds creation requests
under way at one time, not in a behaviour. Two controllers are needed for a late
`EnsureDatabase` beside a deletion. Owners whose external state is not in the
model differ only by name, so one of them is enough. An observation may be taken
back because of a failure (`cleanup`) or of a late creation (`cleanup_live`).

What the runs show about the design: a worker that bound its digest before the
deletion may still call `EnsureDatabase` long after it. The binding's closure
tells the deleting worker that a database may exist, and the tombstone in the
ledger stops the late call; a deletion that ignored the tombstone leaves an
orphan (the mutant `ReserveAgain`). The state namespaces are removed only on a
snapshot that shows SQL cleanup, and after that no database can appear, so keys
outlive databases. The waits form a chain (namespaces, databases, workload
record, state namespaces), and closing the chain to a circle is the mutant
`GoneWithState`.

Fairness. The keyed runtime rescans without end, so each controller keeps taking
steps, and Kubernetes ends a namespace deletion. A late creation is never forced.
`Settle` may happen at any time after the deletion, or never; `Finalizes` and `LeavesNothing` speak
of behaviours where it did.

### Proofs

`GatewayCleanupProofs` proves the three safety properties for any number of workload
controllers and other owners, with or without a console and with any number of late
creations (`CleanupAssumption`).

`NoOrphanDatabase` is not inductive: a controller that read the live row may be
anywhere between `load` and `ready` when SQL cleanup is recorded. The stable form is
`Buried`: the binding is empty for good, or is closed and the ledger holds a
tombstone. `StateInv` ties the database to the ledger, and the ledger to the binding
and the keys (`Keyed`). `PlaceInv` says what a controller may rely on at each place,
though the others moved meanwhile: before `reserve` the keys are there or the component is
buried, and between `reserve` and `ready` the ledger still says "reserved", which the
session lock guarantees (`Exclusive`: two controllers never work on one database).
`ChainInv` carries the order of the removal: a success so far at the gateway's
database covers the console's, and a successful observation covers all. `AllocInv`
says that the allocator holds a snapshot with SQL cleanup when it removes a state
namespace, from which `StateOutlivesDatabase` follows; `RowInv` counts the
notifications against `stego_finalized_at`.

## ConsolePages: three pages of the console

`ConsolePages` composes `GatewayCreate`, `CommandBlocks` and `SecretHandoff`. The
route mounts one page, so `open` is chosen once and the other two keep their
first state; they share no variable. What a page shares with others through the
query cache or the router is part of its own module.

React in these models: a handler queues state, a commit renders it and runs its
effects. A click reaches a settled page. Everything a promise, a timer, a poll
or the router does falls anywhere between commits.

| Variable | Code |
|---|---|
| `st`, `committed` (`SecretHandoff`) | the state hooks of `ServiceAccountCreateDialog`, queued and as last committed; the refs and guards follow the second |
| `decision`, `blocker`, `held`, `effectDue` | `pendingLeaveRef`; the router's `useBlocker` and the route effect that answers it |
| `host`, `loc`, `cur`, `fate`, `leaving` | the accounts tab, the location; history of each request's secret and of a confirmed departure |
| `box`, `form`, `debounced`, `cache` (`GatewayCreate`) | the typeahead's state hooks, the form field, the debounced search and the queries |
| `requests`, `visit`, `onPage` | mutations under way with what the field showed when they were sent, and the visit they belong to |
| `record`, `template`, `values` (`CommandBlocks`) | the polled record, the commands with markers in their slots, the page's value of each marker |
| `dom`, `active`, `parts`, `jobs` | the slots in the DOM, the focused one, what was highlighted last and what is being highlighted |
| `shifted` | history: slots that had the focus when a slot of another marker, of another value, came to their place |
| `writes`, `copied`, `failed`, `outcome` | clipboard writes, what the buttons say, history of the last write |

`OneTimeSecret` is the abstract promise: a secret is coming, then readable, then
ended as acknowledged, given up, or where no guard reaches, and never readable
again. `SecretHandoff` implements it under the mapping `ShownPhase`, `ShownAck`,
which reads the dialog's state and not its history; `SecretShownOnce` is that
refinement. Two ends have no guard: the page that hosts the dialog is withdrawn
(the gateway starts deleting, or the list fails), and a departure between the
submission and its first commit.

`ShellCommands` has the pure functions: quoting, building, withholding, cleaning
and splitting. `ShellRead` is the reference, how a shell splits a line, and
`CommandsReadAsMeant` compares the two for every command shown.

| Run | Instance | Shows |
|---|---|---|
| `console_pages` | 2 clusters of which each search finds one, 2 visits, 1 text typed; 6 records and 3 texts for the slots, 1 change of the record, 2 clipboard writes; 2 requests for accounts; fair; 146,702 states | `SentAsShown`, `CommandsReadAsMeant`, `CopiesAreHonest`, `ChosenFromSearch`, `PagesSettle`, `SecretShownOnce` |

`SentAsShown`: the request for a gateway names the cluster that the field shows,
and the form never holds a choice that the field does not. `ChosenFromSearch`: a
cluster becomes the choice only if the API found it for the text in the field, or
if Escape restores it. `CopiesAreHonest`: what the clipboard receives is the
command shown once its highlighting has arrived, slots of one marker agree (two
exceptions below), and what a button of the setup view
says is how the last write of its block went.
`PagesSettle`: the list of clusters leaves "loading", commands get highlighted,
and the dialog and a navigation it deferred come to an end.

Bounds. Two visits are what a late answer needs to reach the wrong page; one text
with its cleared and its blank form separates typed, searched and debounced. The
records hold each character class that quoting tells apart, a blank text and a
missing value; between two of them the slot of the model comes to the place where the
slot of the provider was. Two requests are needed for a secret that comes back. Deadlock is
not checked: a page may rest.

Fairness. Commits, effects and the debounce timer run, highlighting ends, and a
request is answered or fails, because the client has a deadline of its own
(`BrowserRuntime`). Users and navigation owe nothing.

What the code does that a reader may not expect, and the model keeps:

* The comment on `ServiceAccountLeaveDecision` (create dialog, lines 42 to 46)
  asks for an answer to every deferred navigation. `requestClose` and
  `clearAndClose` (278 to 293) close the dialog and drop `pendingLeaveRef`
  unanswered; the route effect resets the blocker, so navigation still works.
* The options under a highlighted index may change, and Enter takes what is at
  the index then. The menu and the clear button work while a request is pending.
  A creation that succeeds navigates wherever the user is. Labels are assumed to
  be unique. A second submission during asynchronous validation is not modelled.
* An emptied slot leaves a command whose next word takes its place; the comment
  in `editable-command.tsx:14` ("no quoting ever needed") is about characters.
  `CommandsReadAsMeant` is stated for slots that hold something.
* While a changed command is highlighted again, the old parts stay on screen.
  `EditableCommand` says "copied" also when the browser refuses the write; the
  setup view does not, and `CopiesAreHonest` speaks of its buttons.
* Parts have their place as key (`editable-command.tsx`, 186 to 201), and a slot
  with the focus is not overwritten (57 to 69). If the polled record brings a
  slot of another marker, of another value, to the place of the focused one, that slot
  keeps the old text while the copy button emits the new value, though lines 114 to 117
  say that the slots of a marker are "kept in lockstep". It lasts until the value
  changes again or the slot is remounted. `shifted` has these slots, and
  `MirroredSlotsAgree` and `SettledIsCopied` except them.
* A value of the record that contains a marker would be cut into a slot. The comment
  in `gateway-connection-steps.tsx:25` counts on markers that are "clear of any real
  command text"; `SettledIsCopied` says so for the setup script (`Unmarked`).

### Proofs

`ConsolePagesProofs` proves, of the composition and so of each page while the others
stutter (`PagesStep`):

* `SecretIsHandedOverOnce`, the refinement: every step of the dialog, its host and the
  router is a step of `OneTimeSecret` or changes nothing that it speaks of, for any
  number of requests. The mapping reads the dialog's state, the steps are cut by the
  history of each request, and `CurrentInv` makes the two agree: at most one request
  is alive, it is the mounted dialog's, and its state tells how far it is. `GuardInv`
  says that the guards that are armed (as of the last commit) are those of the dialog
  that holds it, without which a departure could end a secret silently. Each
  action is shown to keep every phase (`Kept`) or to end one request in one of the
  permitted ways (`Ended`);
* `RequestsMatchTheField` and `ChoicesAreSearched`, for any clusters, texts, searches
  and visits: field and form change together or the form holds nothing
  (`ChoiceInv`), and an answer belongs to its search (`CacheInv`), so that what is
  found for the debounced search is offered only while that is the search in the
  field (`OptionsFacts`);
* `CommandsAreReadRight`, for any characters, records, markers and pasted texts. What a
  line is read as composes over `++` (`Reads`), so a command is read argument by
  argument. `ArgumentReads` says of every text that its quoted form is read as
  that one word, and `CleanedIsSafe` that a cleaned text has safe characters only; both go by
  `TextInduction`. The invariant is `TextsInv`: values are safe texts.
  `ArgumentsArriveWhole` is the same fact for any text and apart from the pages;
* `CopiesAreWhatIsShown`, for the same constants. What is shown composes over `++` too
  (`ShowsAs`), because a token ends at a space (`TokensAfterSpace`): a marker is one
  slot (`SplitMarker`) and a text without markers shows itself
  (`UnmarkedShowsItself`), so that the command made of markers, cut and filled with the
  values, is the command made of the values. This speaks of one command; the
  invariant `CopyInv` carries it over the steps: parts, and those still being made,
  are those of some line (`BlockParts`), the DOM has a slot for each field
  (`SlotsFit`), and each slot that is not in `shifted` has the value of its marker
  (`SlotsHold`). The last is what makes the late highlightings harmless: whichever
  template the parts are of, their slots have the values of now;
* `ButtonsSayWhatHappened`, for any number of writes: the part of `CopiesAreHonest`
  about what the buttons say (`FeedbackIsTrue`).

`CommandsAssumption` asks that no marker begins another one and that the plain word of the
model is not a marker, as is so of the three markers of the code.

## CollectionView: tables

The gateways page and the accounts tab have one shape: the URL holds the table's
state, a debounced search reaches the request, every request is a query with its
own key, a page with unsettled rows is polled, and an action on a row invalidates
the collection.

| Variable | Code |
|---|---|
| `log` | the server's rows, one entry per version |
| `url`, `debounced` | the list state in the URL; the search the request uses |
| `cache` | the queries by key: version held, request under way and the version it read, invalidated, failed |
| `dialog`, `known` | the row action; history: the newest version an accepted action told of |
| `early` | history: queries whose first load was read before that action and not dropped by it |

`ListState` has both parsers and serializers as functions of the parameters'
texts, `SearchTerms` the escaping of a search, with `ReadLiteral` and
`ReadPattern` as reference for how the API and `ILIKE` read it.

| Run | Instance | Shows |
|---|---|---|
| `collection` | 2 rows, a page of 1, a search that finds the second, 3 versions, 2 moves, fair; 344,394 states | `AcceptedIsShown`, `TableSurvivesReload`, `SearchIsLiteral`, `TransitionsEnd` |

Three versions let an action, another change and an older answer overlap; two
moves leave a page and come back to its old query. Texts for the parsers and for
searches are enumerated in the modules: quotes, wildcards, backslashes, leading
zeros, numbers out of range. Fairness: the debounce and poll timers run, and a
request on the shown key that is sent again and again is read and answered at
some time, which strong fairness says: failures and changes of key may interrupt
each single one.

`AcceptedIsShown` has one exception. `invalidateQueries` drops a running request only
when the query has data to go on with. A first load that the server read before the
action therefore goes on, its success clears the mark, and the old rows are shown as
current until the query is 30 seconds old (`staleTime`, `root.tsx:36`) and is looked at
again, or is polled, refreshed or invalidated. It takes a user who turns to a new page or
search while the action is unanswered. `early` names the query until its next answer.

### Proofs

`CollectionViewProofs` proves `AcceptedIsShown` for any rows, page size and bounds.
The property speaks of the key on the page; the invariant must speak of all keys,
since the user may come back to any. `StaleInv`: a query whose data are older than
the newest accepted action is marked invalid, whichever key the page shows, or was
answered by a first load in `early`.
`FetchInv`: only the key on the page has a request, because turning away aborts it.
`ReadInv`: a request that was read before the action was dropped with it, unless it is
such a first load.
`ShownInv`: a marked query on the page is being fetched, or its request failed and
the page says so.

`TextsReadAsTyped` says of every text that the API reads the escaped search as the text that
was typed: each replacement and each reader is an automaton, and the induction is over
the text with the reader's state. `SearchesAreLiteral` is that for the searches the page
sends. `TablesSurviveReload` is for the pages and the two searches that the model can be in, and
for every size, sort, order and status, whatever was in the accounts URL before: both
parsers give back what was serialized, parameter by parameter
(`GatewayTableReadsBack`, `AccountTableReadsBack`, also for page 50).

## GatewayDetail: the page of one gateway

| Variable | Code |
|---|---|
| `server`, `changes` | the record in the control plane, and its changes so far |
| `data`, `fetch`, `failed`, `invalid`, `armed` | the query of the record, and its `refetchInterval` as last computed |
| `waited`, `tip` | `useConsoleWaitTracker`, the console button as last rendered |
| `dialog`, `page` | the rename and delete dialogs of a visit |
| `mutations` | the requests of dialogs under way, each with its sender: this visit, an earlier one, or the gateway's row in the collection |
| `seen`, `renamed`, `accepted` | history: the wait, the newest accepted name, the accepted deletion |
| `overlap`, `undone`, `strayed` | history: what the exceptions below are about |

A dialog knows only the mutation it sent itself (`isPending`), and forgets it when the
page is left. The mutation goes on and its answer is handled all the same, so a dialog of
the next visit may send another one beside it, and so may the row in the collection.

| Run | Instance | Shows |
|---|---|---|
| `gateway_detail` | 4 lifecycles (waiting, degraded, with console, failed) and deletion, a window of 1 tick, 2 changes, 2 renames, 2 mutations at once, fair; 170,499 states | `UnavailableIsEarned`, `MutationsAreShown`, `WaitIsBounded` |

A change is a published lifecycle or a mutation that is sent. Two lifecycles are what a
wait needs to be broken and begin anew; two mutations at once are what it takes for one
to be overtaken. One tick is a part of the window, and any number of polls fits in it.
Fairness: time passes, the poll timer fires while it is armed, and requests end.

Exceptions that `MutationsAreShown` names, each until the next answer:

* `overlap`: `setQueryData` of a rename cancels nothing, so a request that the server
  read before it may arrive after it and show the old name. Likewise a first load that
  was read before a deletion, which `invalidateQueries` does not drop.
* `undone` and `strayed`: the late answer of a rename is written over whatever was
  accepted since it was sent (`gateway-rename-dialog.tsx:51`). An accepted deletion
  or a newer name then gives way to the old record, unmarked, for up to 30 seconds if
  it is not polled (`staleTime`, `root.tsx:36`). This needs a mutation left behind with
  the page or sent from the collection. While there is none, the property holds without
  this exception, and that part is what the dialogs' `isPending` is for.

What else the code does: a gateway whose record is gone while the page holds
"deleting" is polled until the page is left; an open rename dialog stays open when the
gateway starts deleting; a deletion accepted after the page was left navigates all the
same when the page is open again. A query that no page has looked at for five minutes is
dropped from the cache, which is left out.
The comment in `gateway-data.ts:19` says that "the UI surfaces a terminal
'console unavailable' state" once the window elapses; it does so with the next
render, and an unchanged record renders nothing.

### Proofs

`GatewayDetailProofs` proves `UnavailableIsEarned` and `MutationsAreShown` for any
lifecycles, window and number of changes, renames and mutations at once. `WaitInv`: the tracker of the
render counts what the history counts, and only while the page holds a gateway that
waits. `NameInv`: the server, an answer that was read, and the record on the page each
have the accepted name or a later one, but for the request that a rename overtook and the
rename that another one overtook; the server has no older name than any rename it has
answered. `DeletionInv`: an accepted deletion is final at the server and in every answer,
and the record on the page shows it or is marked invalid, with the same exceptions.
`OwnInv`: a visit has at most one mutation under way, that of its open dialog.
`StrayInv` draws the conclusion: until a mutation has strayed, the one of the visit is the
only one, nothing newer than its answer was accepted, and nothing is undone.

## BrowserRuntime: calls and telemetry

`GatewayOperations` follows a call from `execute()` with its probes, through the
adapter that maps failures and the generated client, to the server and back.
`TelemetryExport` is the telemetry runtime's export of one signal, `BoundedMeter`
its meter. `BrowserRuntime` composes them as `gateway-composition.ts` does: it creates
one runtime for the operations, and what this runtime reports as lost, and each invalid
record of its meter, raises the fan-out's `deliveryFailureCount` through
`reportDeliveryFailure`, with no probe published
(`fan-out-domain-probe-publisher.ts:102` to 111, `gateway-trace-sink.ts:220` to 229).
The parts interleave freely; `parts` says which ones a behaviour follows.

| Variable | Code |
|---|---|
| `call`, `active` | an invocation as the browser holds it; `activeRequests` of the client |
| `wire`, `applied`, `signedIn`, `ended` | each request at the server and its answer, the writes carried out, the session; external |
| `login`, `probes` | the redirect to sign-in; the fan-out's probes, deliveries and `deliveryFailureCount`, and the trace sink's spans |
| `config`, `instances`, `tele` | the page's meta elements, `liveInstances`, and each runtime: queue, pending export, reports |
| `instruments`, `registered`, `callbackCount`, `remaining`, `buffered`, `invalid` | the bounded meter, one collection of the SDK, the records it refused |
| `parts` | the parts that the behaviour follows (not code) |

A write makes two requests under one timer: the session for its CSRF token, then
the operation. The server may handle a request at any time after it was sent,
also after the browser gave up, or never.

| Run | Instance | Shows |
|---|---|---|
| `browser_runtime` | each part alone: 2 calls in five pairs of operations, 1 slot, refusals 400, 403, 404, 409 and troubles 408, 500, sinks that fail at one pair of probes; 2 runtimes of which 1 may live, a queue of 2, 3 records; 2 instruments and 2 callbacks with a budget of 1; and the calls joined with the exporter, and with the meter; fair; 449,519 states | `AnswersAreTrue`, `SlotsExact`, `ProbesAccounted`, `LossesAccounted`, `LimitsHold`, `DeadlinesHold` |

`AnswersAreTrue`: a definite failure (denied, not found, conflict) means that a
write was not and never will be carried out, success that it was, and the sign-in
is asked for if and only if the session has ended. `ProbesAccounted`: the count of failures is
exactly the deliveries of probes that did not happen, the losses reported by the
composition's runtime and the invalid records of its meter, in whatever order they come;
so a sink that throws keeps no other sink from a probe, and no report is lost or counted
twice. A span left open has a missed delivery of its own. `LossesAccounted`: every record that does not reach the collector is
reported once, and a shutdown that resolves has lost none unreported.
`LimitsHold`: instances, callbacks, buffered observations and the share of traces.
`DeadlinesHold`: every call and every shutdown settles.

Bounds. Two calls contend for one slot, which is the limit's boundary; statuses
are one of each class the mapping tells apart. The pairs of operations have each of the
seven in it at least once, and a write beside a read, a write, and the session. Sinks
may fail at both probes that one step publishes, so up to four deliveries are missed;
after `MaxLosses` = 1 of them no further step fails. Three records fill a queue of two
behind one in flight. Joined parts are bounded more narrowly (`JointUses` to
`JointCallbacks`): what they share is one counter, and one call, one runtime and
one record bring its two sources into every order. The theorems have no such bounds.
Fairness: timers run out and promise reactions run; the
server, the network and the user owe nothing.

Details kept: an aborted call has the failure kind "unknown", because a cancelled
client error has no status; a trace sink that fails at the completion of a
workflow keeps its entry, and the failure is counted; the session endpoint
answers 200 or with trouble. A flush that hands over a second batch while one is
pending loses it and reports it; a runtime that lost a batch may reject its
shutdown; records made after it are ignored.

### Proofs

`BrowserRuntimeProofs` proves, for every finite set of calls, runtimes and callbacks,
every assignment of operations, any limits and any statuses of the two classes:

* `AnswersHold`: `RuntimeSpec => []AnswersAreTrue`;
* `SlotsAreExact`: `RuntimeSpec => [](SlotsExact /\ active \in 0..Slots)`;
* `ProbesAreAccounted`: `RuntimeSpec => []ProbesAccounted`;
* `LossesAreAccounted`: `RuntimeSpec => []LossesAccounted`;
* `TelemetryLimitsHold`: `RuntimeSpec => []LimitsHold`.

What the page is told depends on what the client was told, and that on what the
server did, so `IInv` follows a call through its places. `ServerInv`: a write is
carried out only with an answer that admits it. `OpenInv`: until a call settles
its record says nothing. `SettlingInv`: an error's status is the server's answer,
or none; a 401 is either that answer or the client's own, before anything was
sent. `DoneInv`: what the page was told. `RejectInv` covers every rejection by one
predicate, `Founded`. The second theorem adds that `active` is the number of
`Holders`, which every action changes by adding or removing its own call.

`ProbesInv(n)` counts: the failures are the missed deliveries and `n` more, the spans
left open are no more than the missed deliveries, and a call that was not probed has no
span. The operations preserve it for every `n`; the composition preserves it for the
reports of its runtime and the invalid records of its meter, which only grow. The sets
of parts that may be joined and the bounds on them are arbitrary, so the theorem holds
for all three interleaved. `ExportInv` balances each runtime's records: queued, in flight, exported
and reported as lost add up to what was made (`Balanced`), a runtime that resolved
its shutdown holds none, and `instances` is the number of live runtimes. `MeterInv`
makes the count of callbacks exact and bounds what a collection has buffered: a budget
for each callback that is no longer to run, and what the running one has spent. The
assumptions are `OperationsAssumption`, `TelemetryAssumption`, `MeterAssumption` and
`CompositionAssumption`.

## Not modelled

HTTP, gRPC and CLI adapters, the Go SDK, deployment files and tests keep no state
that these properties concern. The comparison of Keycloak representations and SQL
text are abstracted to their outcome. The layout, messages and charts of the
console are presentation. Of the client, the sign-out and the mapping of one
record type to another are left out; of telemetry, the trace ID generator, the
bounded logger and callbacks that observe after they returned. The other
components of the table above are in the plan; `PROJECT.json` gives each one's
status.
