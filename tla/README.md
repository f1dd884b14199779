# A TLA+ model of the ecommerce services

The repository is an e-commerce back end of four FastAPI services (order,
payment, product, user) that reserve stock over gRPC, store their data in
MySQL and MongoDB, and carry an order from PENDING to COMPLETED or CANCELLED
through events: each service writes an outbox row in the transaction that
changes its tables, Debezium relays the rows to Kafka, and consumer loops
call the handlers of the next service.

These modules model that path - the order saga, the inventory under it, the
gRPC clients and consumer loops that drive it - and what surrounds it: the
catalogue that fills the inventory, its search index and categories, the HTTP
interface of the payments, the directory of users, and the start and end of the
pods.  They have these parts as the code has them, check them with TLC on small
instances, and prove their safety for every instance with TLAPS.
All paths below are relative to `src/`.

## The system

| part | state | operations | talks to |
|---|---|---|---|
| Inventory, `fastapi_product/app/services/product_service.py:236-356` | MySQL rows (stock, stock_reserved), row locks, sessions | reserve, release, confirm, through `_manage_inventory` | called over gRPC by the order service, and by ProductManager |
| OrderManager, `fastapi_order/app/services/order_manager.py` | orders, outbox | `create_order`, `handle_payment_success`, `handle_payment_failed`, `update_order_status` | user and product services (gRPC), payment events |
| PaymentManager, `fastapi_payment/app/services/payment_manager.py`, and `PaymentService.create_payment` | payments, outbox | `handle_order_created`, `create_compensation_event` | order events |
| ProductManager, `fastapi_product/app/services/product_manager.py` | none of its own | `handle_order_success`, `handle_order_failed` | order events, inventory |
| Kafka consumers, `*/app/config/*kafka*.py` | offsets, the loop | fetch, handle, commit | one group per service, two replicas each |
| Outbox and Debezium | outbox rows, Kafka log | relay | one table `outbox` for all services |
| gRPC clients and servers | channels, retries, circuit breakers | reserve, get product, get user | order to product and user |
| Product catalogue | MongoDB documents beside MySQL rows | create, update, delete, read | HTTP |
| Payment HTTP API, `fastapi_payment/app/api/endpoints/payment_api.py`, `PaymentService` | payments and charges on a primary, a secondary that follows | create, process, charge, update, read | HTTP; its payments enter the saga |
| Search, `fastapi_product/app/services/elasticsearch_service.py` | two Elasticsearch indices, an alias, the time of the last reindex | create index, full and incremental reindex, status, searches | HTTP; Monstache copies MongoDB to the first index |
| Categories, `fastapi_product/app/services/category_service.py` | MySQL rows: a tree of paths, links to products | create, associate, query | HTTP |
| Users, `fastapi_user/app` | MongoDB replica set: a primary, two secondaries | register, look up | HTTP; gRPC from `create_order` |
| Lifecycle, `*/app/main.py` | tables, the consumer and gRPC tasks of a pod, its probes | start up, answer probes, shut down | Kubernetes, MySQL, Kafka |

What is hard about it:

* **Interleaving.** Sessions of several replicas work on one inventory row.
  Handlers of one order run side by side when their events have different keys
  (`payment_success` is keyed by payment, `payment_failed` by order). Status
  reads take no lock.
* **Partial failure.** `create_order` spans a gRPC call per item and a local
  transaction. A commit may succeed and its caller see an error.
* **Delivery.** Events are delivered at least once; a crash between a handler
  and its offset commit repeats the handler; a reset to the end of the log
  skips events.
* **Progress.** The consume loop may end without its process ending; an event
  that fails may have nobody left to retry it.
* **Lag.** MySQL's and MongoDB's secondaries and Monstache's copy follow some
  time later, and what they answer is used at once: a user may order, a time
  stamp says which changes a reindex has seen.
* **Swallowed errors.** Exceptions are logged and startup goes on, or they hit
  after a commit and the caller is told of a failure that did not happen.

The full list, with lines and the properties that cover each item, is under
"hazards" in `PROJECT.json`.

## Modules

| module | models |
|---|---|
| `StockRow` | the row and the three operations as pure operators |
| `AtomicInventory` | abstract: what an inventory call promises |
| `Inventory` | `_manage_inventory` step by step with locks and transactions |
| `Inventory_proofs` | the theorems about `Inventory` |
| `ProductCatalog`, `ProductCatalog_proofs` | create, update and delete of products over MongoDB and MySQL; the theorems about it |
| `GrpcClient` | one decorated method of the order service's gRPC clients |
| `EventConsumer` | a consumer group: replicas, their loops, the broker's assignment |
| `SagaState` | the saga's variables, the outbox and Kafka, the faults |
| `OrderManager`, `PaymentManager`, `ProductManager` | one service's part of the saga each |
| `OrderPromise` | abstract: what the saga promises of an order |
| `OrderSaga`, `OrderSaga_proofs` | the composition, its properties; the theorems about it |
| `PaymentApi`, `PaymentApi_proofs` | the payment service's HTTP requests over a primary and a secondary; the theorems about it |
| `SearchIndex`, `SearchIndex_proofs` | the search index: rebuilds, reindexes, their metadata, Monstache; the theorems about it |
| `Categories`, `Categories_proofs` | the two transactions on categories, with InnoDB's locks; the theorems about it |
| `UserDirectory` | registration, lookups, and the order service's check of a user |
| `ServiceLifecycle` | startup, probes and end of the pods of all four services |
| `MCRequests`, `MCReplicas` | several of these components side by side, as TLC runs them |
| `Requests_proofs` | the theorems about `GrpcClient` and `MCRequests` |
| `Replicas_proofs` | the theorems about `EventConsumer`, `UserDirectory`, `ServiceLifecycle` and `MCReplicas` |
| other `MC...` | instances of the modules for TLC |

`PROJECT.json` maps every definition to the lines it stands for. Definitions
named "Mutant of ..." in a comment are plausible bugs used to test that a
property can fail; no specification uses them.

### Inventory

`pc[s]` is where session `s` is in `_manage_inventory`; `img[s]` is the ORM
object between the locking read and the end of the transaction. `Select` is
`SELECT ... FOR UPDATE`: it waits until no other transaction holds the row.
`Act` is the operation's closure; `Commit` writes the object and frees the
locks, and may lose its acknowledgement; `Refresh` is `db.refresh`, whose
failure turns a committed call into the answer False. `NotFound` returns with
the transaction open and the gap of the missing key locked. Sessions are
persistent (the gRPC server) or die (`Crash`), which rolls back.

A session serves one call at a time. The gRPC server of a replica shares one
session among its concurrent calls (`grpc/product_server.py:259`); what
overlapping calls do to each other depends on SQLAlchemy and is not modelled
here. Quantities are positive in this module and its proofs; nothing on the
path checks them (`schemas/order.py:6`), and what an order of a negative one
does is in the saga (run `signed_quantity`).

### Product catalogue

`create[c]` is where request `c` is in `create_product`: insert the document,
then the row, and after a lock wait timeout the whole body again, under the new
id MongoDB gives the second document. Either store may carry out a write whose
caller sees an error. `edit[e]` is a request to `update_product`: look the
document up, write, read it again. Deletions come between any of its steps.
Ids are pairs <<request, number of timeouts>>, which says no more than that
MongoDB's ids are fresh. A document whose row was never inserted stays for
ever, and `DeleteProduct` leaves the row: both are part of the model, and the
repository promises nothing else.

### gRPC clients

`call[c]` is one call of a method that is decorated with `@circuit` and
`@retry`. `wire[c]` holds the attempts the server may still carry out, also
after their deadline. The decorators see what leaves the method's body:
`Converted` is the except clauses, which turn every error into a value or an
HTTPException, so that the branch of `Fail` that sends again is never taken.
It stays in the model because it is what the decorators do, and because it is
what makes `ReservedAtMostOnce` a property of the except clauses: without them
(mutant `ConvertedNot`) the decorators reserve twice. The circuit opens in
no behaviour of the code, so its recovery is not modelled.

### Event consumers

`loop[r]` is the consume loop of replica `r`: polling, handling, committing, or
dead after a commit that raised. The group coordinator is external: while
`rejoining` nothing is assigned and a commit raises; `Assign` gives each
partition an owner, which starts from the stored offset, or from the end of
the log if none is stored. `missed` records events such a reset skips.

### The order saga

Inventory calls are atomic here, as `AtomicInventory` promises and `Inventory`
implements, and may fail with or without effect. Each transaction of the order
and payment services is one action that writes its table and its outbox row.
A handler that first reads and then writes is two actions (`ReadOrder`,
`UpdateOrder`), because the read takes no lock. Events of one order and one
key are handled in order; events with different keys in any order and side by
side. `effects` is a history variable that counts how often each operation
took effect for each item of an order. `EditStatus` (PUT
/orders/{id}/status) and `PostPayment` (POST /payments, /payments/process) are
requests by hand, at most `MaxEdits` of them; what the gateway answers to
`process_payment` comes after its `payment_success` and changes nothing the
saga sees.

Faults come from the set `Faults`, at most `MaxFaults` in a behaviour. A request
that breaks off is told from a handler that does, since nobody repeats the
request: of the two only `crash` makes anything happen twice.

| fault | what it stands for |
|---|---|
| `user` | `get_user` fails |
| `lookup` | `get_product` fails after the reservation |
| `call`, `lostReply` | an inventory call fails, without or with effect |
| `db`, `uncertain` | a transaction fails, or commits while its caller sees an error |
| `crash` | a process dies, or loses its partition, before it acknowledged what it handled |
| `abort` | a request to create an order breaks off: its process dies, or its client is gone |
| `repeat` | Debezium repeats a row after a restart |

The quantity of an item is any integer, as the schema has it: a negative
reservation passes the test and lowers `stock_reserved`, and `ValidItem` passes
such an item over at the settlement.

Simplifications: the delay of the relay is merged with the delay of the
consumer; rows nobody consumes (`order_compensation`,
`product_inventory_adjustment...`, `failed_events`) have no variable; a handler
whose partition was taken away does not run on beside its repetition;
malformed payloads are not produced by the services and not modelled.

### Payment HTTP API

A request has its own session. `log` is the primary: the commits in their
order, a payment together with its outbox row; `replicated` is how much of it
the secondary, which every read uses, has. `req[r]` is where request `r` is in
its endpoint: in the service, at the gateway, or answered.

Read with the code in hand, the interface answers 500 nearly always, also after
it stored what it was asked to: the endpoints read `created_payment.id`,
`payment.id`, `transaction.id` and `.status`, which the schemas and rows do not
have. `update_payment` of the service and the last part of `process_payment`
(setting the payment PAID or FAILED) are therefore never reached, and a payment
stays PENDING whatever the gateway says. `GET /payments/{id}/transactions` is
the exception: it answers 200 for a payment that has charges, unless one of
them has data, which is stored as JSON text and which
`TransactionResponse.from_orm` wants as a dict (`Listable`). The model has these
answers, since a client that is told 500 sends its request again;
`ChargesFollowPayments` is what holds nevertheless.

### Search

Four copies of a product follow one another: MongoDB, Monstache's index
`my_db.products` (`source`), the index searches use (`target`), and what
`.reindex_metadata` believes. A version is the `updated_at` of the document. A
change is stamped (`StampChange`) before it is written (`WriteChange`) and
carried on (`Sync`), so a time taken in between tells the wrong story. Each
call to Elasticsearch is an action: a rebuild deletes the index, creates it,
and sets the alias; a reindex reads a snapshot and writes it later, and the
write makes an index that is missing, without the mapping (`"auto"`). Reading
the status of the last reindex creates the metadata, too (`GET
/admin/reindex-status`).

Queries only read `target` through the alias and are not modelled. Of the
endpoints, four of the five searches hand `hits.hits` of an object that has
been unwrapped already to their common helper and answer 500, the advanced
search drops its price filter, and `reindex-specific` and `debug-dates` call
methods the service does not have. None of these changes any state.

### Categories

`txn[c]` is the transaction of a request: what its first SELECT saw, the rows
and gaps it has locked, and what it has written. Sessions do not flush by
themselves (`config/database.py:59`), so the association's own row is written
after the UPDATE of the others. Locks are the weakest InnoDB may take: the
UPDATE locks the rows and gaps it scans but not the request's own row. Deadlocks
and lock wait timeouts end a transaction (`Rollback`), so nothing waits for
ever. One product is enough, since requests for others only add waits.

### Users

`users` is the primary's collection, `applied[s]` how much of it secondary `s`
has. An insert is acknowledged when a majority of the members has it, so a user
may have its id while one secondary does not know it. `answer[c]` holds the
last answer over each of three channels: by id, by name, and the check
`create_order` makes, which turns every failure into the same refusal. A
malformed id is not modelled: `ObjectId` raises an error that is no ValueError,
so it is answered like a failing call.

### Service lifecycle

`at[r]` is the step of `lifespan` pod `r` is at; the module's header has the
order of the steps of each service. `Raise` is what an exception does: the
order and payment services end and are started again, the product service logs
it and goes on with the next part. `create_all(checkfirst=True)` looks first
and creates later, so pods race for the tables. `ServeGrpc` is the gRPC server's
task, whose exception nobody sees. `Ready` is each service's readiness
endpoint, and `Probe` the kubelet acting on it. The loops of consumers that run
are the subject of `EventConsumer`.

## Runs

| run | what it shows | instance |
|---|---|---|
| `inventory` | no overselling, no lost update, lock discipline, refinement of `AtomicInventory`, every row lock is released | 1 product, 3 sessions, unit quantities, stock 2 |
| `saga_faults` | settlements have a cause, payment events are caused once, an order whose events are handled is decided and settled | 1 order, 3 failed or unacknowledged transactions or crashes, 1 request by hand |
| `saga_promise` | refinement of `OrderPromise`, stored orders are reserved, pending units stay reserved | 3 orders, 1 fault after which nothing is done twice |
| `saga_redelivery` | no mixed outcome, decisions are final, stored orders are decided and settled | 2 orders, 1 crash or repeated row |
| `requests`, catalogue | a row has its document, one row per request, updates and deletions do not undo each other | 2 requests to create, 1 to update, any deletions |
| `requests`, gRPC clients | no call reserves twice, True means reserved | 2 reservations, 1 call of each lookup |
| `requests`, payment API | charges follow announced payments, refused requests leave no row | 3 requests of any kind |
| `requests`, categories | one primary category at most, products are found under their ancestors only | 2 clients, 3 categories |
| `replicas`, consumers | offsets pass only finished or missed events; at most one event in flight per partition; none is missed after the first stored offset; events are handled while a loop lives | 2 replicas, 2 partitions, 2 events each, 1 crash or spontaneous rebalance |
| `replicas`, users | registration races end, a told id is found by a majority at once and by every secondary in the end | 2 clients, 2 secondaries, 3 documents, 1 failing call |
| `replicas`, lifecycle | pods of order and payment end up serving and wired; an outage takes them out of traffic; the race for the tables is harmless in product although its errors are swallowed | 2 pods, of any two services or of one; 1 outage, 1 stop |
| `replicas`, search | the alias is on a mapped index, repeated full reindexes repair whatever happened | 1 product, 2 changes, an operator and a timer |

`MCRequests` and `MCReplicas` each hold several components that have no variable
in common and whose properties are each about one of them. What one of them
does next to the others is therefore what it does alone, and TLC need not
interleave them: the variable `part` picks the component that moves, once, at
the start. The others keep their initial state, in which their properties hold
(for the lifecycle that is a state without MySQL and Kafka, in which nothing is
promised). The safety runs share `MCRequests`, in which the payment requests are
interchangeable (symmetry); the modules with liveness share `MCReplicas`, which
restates the fairness of each for the behaviours in which it moves.

Violations, each a disagreement between the code and what the repository says
of it (quoted under "findings"):

| run | what TLC finds |
|---|---|
| `consumer_abnormal_pod` | a commit during a rebalance ends the loop for good, no probe notices |
| `rejected_order` | a rejected request keeps its first item reserved: the compensation calls a method that does not exist |
| `completed_cancelled` | a completed order is cancelled by a late `payment_failed` |
| `pending_units` | a repeated `order_failed` frees the units of another order |
| `signed_quantity` | an order for minus one unit lowers the reserved units, so that with a stock of 3 orders for 3 units and for 1 are both accepted and pending |
| `grpc_outage` | a service that fails every call opens no circuit: the errors are converted before the decorators see them |

Other behaviour of the same kind is part of the models and has no run of its
own: events published before a group's first stored offset are skipped
(`missed` in `EventConsumer`); two payments of one order may both announce
`order_success`, since `handle_payment_success` reads the status without a
lock; one failed transaction in `handle_payment_failed`, or four in
`handle_payment_success`, leave an order PENDING, as `failed_events` and
`order_compensation` have no reader (`MayBeLost` names these cases, and
`HandledOrderIsSettled` says that fewer failures lose no order); a status set by
hand is not announced; the reservations of a request that dies, and those of an
item whose `confirm_inventory` or `release_inventory` fails, stay for ever.
In `PaymentApi` a payment is announced before the gateway is asked, and stays
announced when the gateway declines it. In `SearchIndex` a change that was
stamped before an incremental reindex ended, and reached the source index after
it was read, is older than `last_reindex_time` and left to a full reindex;
a rebuild deletes the index searches use before it fills the new one. In
`Categories` two overlapping requests for different primary categories may leave
the product without one: the one that finds its link primary already writes
nothing for it, and the other's UPDATE clears it. In `UserDirectory` the order
of a user just registered may be refused. In `ServiceLifecycle` a product pod
that could not start its consumer serves all the same, and no probe notices.

**Bounds.** Three sessions on one row let one hold the lock, one wait and one
arrive after the first has ended; stock 2 with single units lets calls
succeed, exhaust the stock and be refused (the proofs cover every quantity).
Starts of replicas rebalance the group as well, so one further crash or
rebalance lets a partition change hands twice while an old owner still works
on an event. Order `o1` wants two products and `o2`, `o3` compete for one of
them; stock 3 is too little for all. `o2` is the order whose payment is
refused. In `saga_promise` one fault reaches every error path while other
orders compete; in `saga_faults` a single order meets three, which is enough
for `create_payment` to fail in all its attempts, or to commit unnoticed, crash
and be repeated, and as many as `handle_payment_success` can take and still
decide the order in its last attempt. The properties of this run relate the
parts of one order, so a second order adds only competition, which the other two
have. The violation runs combine up to three faults. `MaxPayEvents` is one event
plus one per fault and per posted payment: no order ever has more (theorem
`PaymentsAreCaused`). Two creating
requests are as many as the catalogue needs: they share no id, and the update
and the deletions meet both. `MaxRetries` and the attempts of the gRPC clients
are the code's own numbers; four calls put two in one method and so under one
circuit.

Three requests to the payment service let one be charged, repeated and read.
In the search, two changes of a product let one be stamped before and one after
any step of a reindex, and be written in either order; nothing relates two
products but that a call may copy one and not the other, and
then moves `last_reindex_time`, which a full reindex does not look at. The
operator's requests and the timer's overlap, one of each at a time. Three
documents are one more than the clients that register, for a repeated
registration. Three categories form every shape of a tree that has two levels
of ancestors, and of two clients one holds the locks and the other waits, or
creates a category. In the lifecycle, two pods of a service race and two pods of different
services show that they do not disturb one another; an outage and a stop may
fall on any step. The bounds on changes, documents and faults only limit what
the environment does, and the properties with `<>[]` are about what follows
when it has stopped.

Deadlock checking is off where the system may really stop: every order
settled, every event consumed. The inventory is checked for deadlock.

**Fairness.** Weak fairness of each coroutine's next step: an asyncio task that
can run is run, a lock wait ends with the lock or with
`innodb_lock_wait_timeout`. For consumers, Kubernetes restarts a process that
exited and the group finishes its rebalances; for the saga, committed outbox
rows reach a live consumer. Requests, publications, faults and crashes owe
nothing. Monstache and the secondaries carry every change in the end. In the
lifecycle the coroutines, the kubelet and the replication go on, while an outage
need not end: `EveryPodIsWired` is about behaviours in which MySQL and Kafka
are back for good, `OutageCutsTraffic` about those in which MySQL stays away, and
`RaceLeavesTables` about those in which it never is.
`FullReindexRepairs` assumes that somebody goes on asking for full reindexes that
succeed and nobody rebuilds the index any more; the scheduling of these
requests is not part of the code.

## Proofs

`Inventory_proofs` proves, for any products, sessions, quantities and stocks
(assumptions: quantities are positive and some exist, stocks are natural, the
null session is not a session):

* `TypeCorrect`, `NeverOversold`, `NoUpdateIsLost`, `LocksAreDisciplined`:
  the invariants of the run `inventory`. None but the type invariant is
  inductive alone. A commit keeps the row sound because what it writes is the
  operation's effect on the row *as it is now* (`NoLostUpdate`); that holds
  because nobody else has written the row since it was read, which is so
  because the session holds the lock and no other session at work does
  (`LockDiscipline`); and the two together need the lock to be on the product
  the session works on. The inductive invariant is the conjunction of the
  four, and the step proof has one case per action.
* `Refinement`: `Inventory` implements `AtomicInventory`. A call takes effect
  at its commit; the steps before it, and the rollback, map to stuttering or
  to the answer False.

`ProductCatalog_proofs` proves, for any sets of requests and editors:

* `CatalogTypeCorrect`, `AtMostOneRow`, `SoldIsShown`, `UpdatesAreReal`: the
  invariants of the run `requests` about the catalogue, from one inductive
  invariant. At most one row: a request that has inserted its row is over (`RowEndsRequest`), because only
  a lock wait timeout is tried again and such a transaction inserted nothing.
  Sold is shown: a request on its way to the row has stored the document of its
  current id (`RowFollowsDocument`). Both need that a request inserting a
  document has attempts left (`DocumentBeforeTimeouts`). An update under way
  has seen its document, and if the document is still there after the write it
  was there at the write (`EditSawDocument`): a deleted one never returns,
  because an insertion uses an id no document has had (`UnusedIdsAreFree`).
* `NoResurrection`: the action property `DeletedStaysDeleted`, from the same
  invariant: an insertion uses an id that has no document yet.

`Requests_proofs` proves, for any set of calls, each of any method:

* `ClientTypeCorrect`, `NeverReservedTwice`, `TrueMeansReserved`: the invariants
  of the run `requests` about the clients. A call makes a single attempt
  (`OneAttempt`), since no error its decorators repeat it for leaves the method's body
  (`ConvertedIsUnexpected`); the attempt is still under way, with no effect, or
  carried out, once. A True on its way back comes after the effect
  (`YesIsReserved`).
* `RequestsAreIndependent`: a step of `MCRequests` is a step, or a stutter, of each
  of the four modules in it, so that every behaviour of it is one of each of their
  specifications, and all that is proved of these holds of what the run checks.
  `RequestsTypeCorrect` (`RequestsTypeOK`) follows.

`Replicas_proofs` proves, for any replicas and partitions and any number
of events, crashes and rebalances (assumptions: the bounds are natural numbers,
the null owner is no replica):

* `ConsumerTypeCorrect`, `AtLeastOnce`, `RepeatsAtMostOne`: the invariants of the
  run `replicas` about the loops. A commit stores the positions of *all*
  partitions the caller owns, whatever event it has just handled, also one it
  fetched before the last rebalance. This is safe because a position is as good
  as a stored offset whenever its owner handles nothing (`PositionsAreEarned`), and
  because an owner that polls stands at the stored offset (`InStep`). The
  inductive invariant is these two with the type invariant, `WorksOnEvent` and
  `CommitsOnlyFinished` itself; `OneEventInFlight` is a part of `InStep`.
* `MissesOnlyAtFirst`: the action property `MissedBeforeFirstCommit`.

for any clients and any finite set of secondaries, with any number of failing
calls:

* `UserTypeCorrect`.
* `MajorityFindsUser`: `ToldIdsAreFound`. A registration that is answered with an
  id was acknowledged by a majority (`ToldIsHeld`), and secondaries only gain
  documents, so the majority stays (`HoldersStay`); whoever has the document
  finds it by its id, and by its name, because it was inserted under the name of
  the client that asks (`UserIsInserted`).

for any pods, each of any service, and any number of outages and stops:

* `LifecycleTypeCorrect`.
* `ServingIsStarted`: `ServingPodsAreWired`, that a pod of order or payment that
  serves has its tables and its consumer, payment also the tables on its
  secondary. No run has it, since the proof covers it for all pods. The inductive form is
  about every step of a startup, not about its end: what a step needs is what the steps before it made, and nothing takes it away
  (`StartupIsEarned`).
* `RaceIsWonByOne`: `RaceLeavesTables`, that of the product pods that race for the
  tables the losers, who go on after their failure, serve with those the winner
  made (`RaceIsHarmless`, which a step keeps while MySQL can be reached).

and, for all of them side by side with the search, `ReplicasTypeCorrect`
(`ReplicasTypeOK`).

`OrderSaga_proofs` proves, for any orders of any items, any stocks, any set of
faults and any number of them (assumptions: finitely many orders, each with at
least one item, stocks are natural numbers, refused orders are orders). Under
*all* faults:

* `SagaTypeCorrect` and `StoredIsReserved` (`RInv`: a request has reserved each
  item before the one it is at, once).
* `SettledForCause`, from the chain of causes `CInv`: a payment, its event, the
  order event written for it, the item settled for that. Each link is a row of
  a log, and a log only grows, so what is once caused stays so.
* `AnnouncedUnlessEdited`: without an edit by hand, the status is one that the
  order's events have announced (`StatusIsAnnounced`; no run has it).
* `HandledIsDecided`: `HandledOrderIsDecided`, without requests by hand. When the
  loops are done with the events of an order, it is decided or `MayBeLost`. The
  inductive `DInv` follows the events: an `order_created` that is handled has
  led to a payment event (`CreatedIsAnswered`), a payment event that is handled to
  a decision (`DoneIsDecided`), each unless its last attempt has failed; and as
  every attempt costs a fault (`HandlerCost`, `GiveUpCost`), so many faults are
  then counted that the order may be lost.
* `PaymentsAreCaused`: `PaymentEventsAreCaused`. What `order_created` leads to is
  counted before it happens (`CountInv`): the payment events of an order,
  together with those owed for an `order_created` not yet handled (`Due`) and the
  one a request that has not stored its order yet will lead to (`Coming`), are
  never more than one and one for every fault and request. A redelivery or a
  repeated row adds one to what is owed and is itself a fault; an unacknowledged
  commit writes an event, leaves owed what was, and is a fault, too.
* `RowsStaySound`: if no quantity is negative, a row is sound whatever is repeated.

Under *some* faults, named in the hypothesis of the theorem:

* `SoldOrFreed`, `DecisionsAreFinal` and `CompletedStaysCompleted` (`NoMixedOutcome`,
  `DecisionIsFinal`, `CompletedOrderIsNotCancelled`), as long as nobody sets a
  status or pays by hand, if a payment is not given up without being refused
  (`NoGivingUp`) or if nothing happens twice. A payment is given up when
  `create_payment` has failed `MaxAttempts` times, so it is not if the
  transactions do not fail, and neither if there are fewer faults, of *any*
  kinds, than attempts: each attempt of an order that is not refused costs a
  fault (`TriesCost`). Then one order has one kind of payment events
  (`OneDecision`), all its handlers set the same status, and all items
  are settled in the same way. The number is tight: the run `completed_cancelled`
  breaks `CompletedOrderIsNotCancelled`, and with it `DecisionIsFinal`, with
  exactly as many faults as attempts.
* Where nothing happens twice (`NothingTwice`: no commit that looks like a
  failure, no crash of a handler, no repeated row, nothing by hand; services,
  calls and transactions may still fail, requests break off and replies get lost,
  any number of times):
  * `KeepsOrderPromise`: the saga implements `OrderPromise`. `ReserveItem` maps to
    Reserve, the commit of `create_order` to Place, that of a payment to Pay, the
    two status updates to Complete and Cancel, the settlement of an item to
    Settle, and all other steps stutter. Of the invariant `PromiseInv`, `OnceInv`
    is the part that makes each of these happen at most once and in that
    order, and `TakenIsAccounted` the part that gives Reserve its units.
  * `PendingStaysReserved` and `PendingStaysInStock`, when no quantity is
    negative (`NoRefunds`): what is pending at the same time is reserved, and in
    stock, at the same time.

  The hypotheses are not there for the provers' sake: the runs `pending_units`,
  `signed_quantity` and `completed_cancelled` break these properties by a
  repetition, a negative quantity or a late event. The run `saga_promise`
  allows the same kinds of faults as `NothingTwice`, one of them in a behaviour;
  the theorems are about any number.

The statements about units rest on two laws of conservation, which hold under
*all* faults: `ReservedIsHeld` (the reserved units of a product are, to the unit,
those that the effects of the operations have left to the orders) and
`TakenIsAccounted` (so is what has left the stock). They are sums over the orders
and their items, written with the folds of the community modules. What such a
sum is follows from its recursive function (`Total`), and that it exists, does
not depend on the order, and changes by what one member changes, is proved by
looking at the smallest set for which it would not hold; the library's
induction theorems cannot be used here (see below).

`PaymentApi_proofs` proves, for any finite set of requests, whatever the
secondary has:

* `ApiTypeCorrect`, `ChargesAreOfPayments`, `RefusedRequestsStoreNothing`. A request
  appends at most one payment and one charge (`OncePerRequest`), since it leaves
  the state in which it appends with the same step, whatever it is told then
  (`Writers`). Therefore two charges of `process_payment` are never of one
  payment, and the ids suffice, which is the reason for the assumption that
  the requests are finitely many.

`Categories_proofs` proves, for any clients and any number of categories:

* `CategoriesTypeCorrect`.
* `OnePrimaryCategory`: a transaction that has cleared the other rows leaves none
  of them primary but those it writes itself, and until it ends nobody else
  inserts or changes one, since its locks cover the rows it has scanned and the
  gaps between them (`OthersAreCleared`). The weakest locks InnoDB may take suffice.
* `FoundUnderAllAncestors`: a query for the path prefix finds what the recursion
  over the parents finds. Each path lists the categories above its own, and the
  part of it up to one of them is the path of that one (`PathsAreOfAncestors`);
  an id is higher than that of its parent, so the recursion `Ancestors` is one
  down the ids.

`SearchIndex_proofs` proves, for any products, clients and changes:

* `SearchTypeCorrect`: in particular every copy of a product is a version that
  was stamped, and every time kept in the metadata one of the clock.
* `AliasStaysMapped`: `AliasOnMappedIndex`, if only one client makes indices
  (`OneMaker`, as in the run): between its creation and `put_alias` an index can
  then only be replaced by another that makes its own (`MadeIndexStays`). With
  two such clients it is false: one deletes the index between the other's
  creation and its `put_alias`, and a late reindex makes it again without a
  mapping.

Only model-checked:

* All liveness (`StoredOrderSettled`, `RowLockReleased`, `EventuallyFinished`,
  `CreationRaceEnds`, `RegisteredUsersAreFound`, `EveryPodIsWired`,
  `OutageCutsTraffic`, `FullReindexRepairs`): weak fairness is
  stated with ENABLED, which is out of TLAPS' reach.
* The saga's properties outside the hypotheses of their theorems.
* The second half of `HandledOrderIsSettled`, that the items of the order are
  settled. It is about orders that do not compete and whose inventory calls
  answer, as in the run `saga_faults`; in general it is false (`pending_units`).

Induction over data is otherwise out of reach: the library's induction theorems
take an operator as a parameter, which the provers do not instantiate. Where it
could not be avoided (the sums of the saga, the tree of the categories), the
argument is one about a smallest counterexample, which is first-order.

## What is left

Every component that keeps state has a module, and every safety and action
property a run checks has a theorem, except the half of `HandledOrderIsSettled`
named above. What could still be said:

1. `NoGivingUp` counts the faults of all kinds and orders. What matters are the
   transactions of `create_payment` that fail in one handling of one
   `order_created`; a fault count for each order would let the theorem say so.
2. `KeepsOrderPromise` with repetitions: `OrderPromise` would have to say which
   of its promises a repeated `order_failed` or a second payment breaks.
3. `AliasStaysMapped` for more than one maker of indices, under the condition
   on their overlap that makes it true.

## Not modelled

* Overlapping gRPC calls of one replica on the AsyncSession they share
  (`grpc/product_server.py:259`): what they do to each other is decided inside
  SQLAlchemy and aiomysql, and this code gives no line to translate it from.
* Reads and listings that change nothing and that no property is about; the
  scores and analyzers of a search.
* `OrderManager.update_order` and `delete_order`, which no endpoint calls.
* The recovery of an open circuit: in this code no circuit opens.
* Debezium, Kafka, MySQL, MongoDB, Elasticsearch and Kubernetes themselves:
  the actions marked external say what is assumed of them.
* Configuration, tracing, logging, deployment manifests other than what they
  say of probes and replicas, load tests and test data.
