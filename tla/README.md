# Verification of the order service

TLA+ models of the order service in `src/`, the TLC runs that check them and
the theorems about them that TLAPS proves. Paths below are relative to the
application root `src/src/`; line numbers of every modelled definition are in
`PROJECT.json`.

## The system

A FastAPI application manages orders with line items in PostgreSQL. A request
passes the correlation middleware, a route, the mediator with its two
behaviors, and reaches one of six handlers. Each handler runs in a unit of work
of its own: a SQLAlchemy `AsyncSession` on a connection of a bounded pool. All
requests run as tasks of one event loop, so they interleave wherever a handler
awaits, which is where it sends a statement; other processes of the same
application may share the database.

| Component | State | Operations | Correct when |
|---|---|---|---|
| Order aggregate (`domain/entities`) | status, address, items, timestamps, recorded events | add and remove item, confirm, ship, deliver, cancel, update address, mark created | guards keep the lifecycle; a refused call changes nothing |
| Domain events (`domain/events.py`) | list per entity | add, clear | an event recorded is there to be published after the commit |
| Handlers (`application/use_cases/orders`) | one command, one entity | create, update, change status, delete, get, list | reply and stored state agree, also under concurrency |
| Repository (`order_repository.py`) | identity map of the session | get, get all, add, update, delete | writes what the handler decided, on the row it decided it for |
| Unit of work (`unit_of_work.py`) | session, transaction | enter, commit, rollback, exit | all or nothing; nothing held afterwards |
| Tables and pool (`persistence`) | rows, locks, id sequence, connections | statements, commit, checkout, checkin | order and items together; ids not reused; no leak, no deadlock |
| Mappers (`mappers.py`, twice) | none | rows to entity, entity to row, entity to DTO | identity, status and items survive |
| DTOs (`order_dtos.py`) | none | validation | what passes fits the table and the rules |
| Routes, exception handlers (`presentation`) | none | one route per use case, one reply per exception | each failure has its documented code |
| Correlation middleware | context variable | bind, echo | log lines and reply of a request carry its id |
| Container, mediator, behaviors | singletons, handler per request | resolve, wrap | no state shared between requests; the log says what the client was told |
| Factory, lifespan (`main.py`) | engine, catalogue of the database | start, stop | tables are whole and exist before the first request, also when processes race or die |
| Settings, logging, health, Alembic | constants | none | - |

What interacts: handlers call repository and unit of work directly; different
requests meet only in the database (rows, row locks, the sequence) and in the
pool. What is hard: a status is decided on a row read earlier; a read of an
order is two statements, and so are an insert and a delete; an update and a delete of
one row wait for each other; the identity map is weak, so a second `get` may or
may not read again; statements, commits and the process may fail at every
await; connections are limited; what validation accepts must be what entity and
columns take, and what the handler returns must still be rendered when the log has
called it handled; processes that start together race for the tables; each request
binds its id in a context that tasks inherit by copy. The hazards are listed one
by one, each at its line, in `PROJECT.json`.

## The modules

* `OrderEntity` - the aggregate root as operators on a record: a `Can...`
  operator is the guard of a method, the operator with the method's name its
  effect, `ActionAllowed` and `ApplyAction` the `match` of the status handler.
* `OrderMappers` - rows to entities and back, and the assignments of the update.
* `OrderDtos` - the rules of the request bodies. A text (`Text`) is its length and
  the length of what `str.strip` leaves of it, an `Item` a name, a quantity and a
  price.
* `OrderAggregate` - one order from the body of its request on: `Create` is
  validation, `to_entity`, insert and `mark_created`; `Fetch`, the methods, `Save`
  and `Drop` follow in any order, which is more than the use cases do. `row` and
  `row_items` are what is stored, `order` is the entity in memory; `shown`,
  `visited` and `changed` only watch.
* `ErrorReplies` - the exception classes, the handlers `main.py` registers and
  which of them answers. Starlette looks for the most derived class that has a
  handler; the order of registration, which the comment at `main.py:125` calls
  important, does not matter.
* `RequestPipeline` - one request through the layers of `create_app`. `stage` is
  how far it has come, `correlation_id` the local variable of `dispatch`,
  `context` what is bound in the task of the middleware and in the task that
  `BaseHTTPMiddleware` makes for what is inside of it, `lines` the log lines of
  the layers, `outcome` what comes back through `call_next`. The order routes are
  three kinds: those that write a line of their own before they call the mediator
  (`order_routes.py:77`, 142 and 171), those that only read, and the delete, which
  returns no body. A use case ends by returning (`HandlerReturns`), by raising
  (`HandlerRaises`), or by returning what the route then cannot render
  (`RenderingFails`): FastAPI applies the `response_model` when the behaviors are
  over, so the "handled" line has been written by then.
* `Lifespan` - start and stop of the processes, statement by statement of
  `create_all`; `missing` is what a process did not find, `created` what its
  open transaction has created.
* `Application` - `Lifespan` and `RequestPipeline` together: `Accept` gives a
  serving process a request, `Advance` is a step of a request, `Live` what a
  process does by itself, `Environment` starts, stops, faults and deaths.
* `OrderService` - the service. One slot is one request task; `pc` is how far
  its handler has come, `cmd` the request, `model` and `model_items` the rows in
  its session, `order` the handler's entity, `exc` the exception that unwinds
  it, `response` the reply. Shared are the committed tables `orders` and
  `items`, the sequence `next_id`, the row locks with the uncommitted versions
  of the rows they cover (`staged`, `staged_items`), and the connections in use
  (`conns`). An action is what runs between two awaits, a statement with the
  code that follows it:

  | Handler | Actions in order |
  |---|---|
  | all | `Begin` ... `Deliver` |
  | create | `AddOrder` (INSERT of the order) or `AddFails`, `AddItems` (INSERT of its items), `Commit`, `Respond` |
  | get, list | `SelectOrders`, `SelectItems` or `SelectNothing`, `AnswerQuery` |
  | update | `SelectOrders`, `SelectItems`, `HandleUpdate`, `GetCached` or `GetAgain`, `ReloadItems` or `GetNothing`, `FlushNothing` or `FlushUpdate` or `FlushStale`, `Commit`, `Respond` |
  | status | the same with `HandleStatus` |
  | delete | `SelectOrders`, `SelectItems`, the second get as above, `FlushDeleteItems`, `FlushDeleteOrder`, `Commit`, `Respond` |
  | any, failing | `Raise` within the action that fails, then `Rollback` |

  `PoolTimeout`, `StatementFails`, `CommitReplyLost` and `Crash` are the
  faults, `Tick` is time. A definition marked as a faulty variant is in no step:
  it is the next definition with a plausible mistake, kept to confirm that the
  properties notice it.
* `OrderStages` - `OrderService` with a record of the statuses each order has
  had in the committed table.
* `OrderRegistry` - abstract: how orders live and die, whatever overlaps and
  fails. `OrdersLiveAndDieWhole` is the statement that the service implements it.
* `OrderOverlap` - `OrderService` with a record of the update and status requests
  that have been overtaken: another transaction has changed the order since the
  request read it. The record watches and influences nothing
  (`OverlapRefinesService`).
* `OrderApi` - abstract: every request is one atomic step along the lifecycle, and
  `Overwrite` is the one exception, open only to orders that an overtaken request
  is about to write. `RequestsLookAtomicUnlessOvertaken` says that the service
  implements it.
* Inductive invariants, each checked by a run before it was proved:
  `OrderServiceInvariant`, `OrderStagesInvariant`, `OrderOverlapInvariant`,
  `OrderAggregateInvariant`, `ApplicationInvariant`.
* Proofs: `OrderServiceProofs`, and on top of it `OrderReplyProofs`,
  `OrderRegistryProofs`, `OrderStagesProofs` and `OrderOverlapProofs`;
  `OrderAggregateProofs`; `ApplicationProofs`.
* `MCOrderService`, `MCOrderStages`, `MCOrderOverlap`, `MCOrderAggregate`,
  `MCApplication` - the modules TLC runs.

### What is taken from libraries

These are not in the repository and are modelled as the code relies on them:

* PostgreSQL at READ COMMITTED (`database.py` sets no isolation level): a
  statement sees the rows committed when it starts; an `UPDATE` or `DELETE`
  waits while another transaction holds the row and then acts on the newest
  version, or on none; waiting transactions are served in order; sequence values
  are not given back by a rollback.
* SQLAlchemy: a session takes its connection at the first statement and returns
  it at commit, rollback or close; the identity map refers to rows weakly;
  `lazy="selectin"` is a second statement; a flush updates only columns whose
  value differs from the loaded one and raises `StaleDataError` when the
  `UPDATE` matches no row, while a `DELETE` that matches none only warns;
  `cascade="all, delete-orphan"` deletes the loaded items first; a flush inserts an
  order before its items.
* The foreign key's `ON DELETE CASCADE` (`models.py:56`): the `DELETE` of an order
  takes along the items that are still there (`FlushDeleteOrder`).
* The default pool: at most `pool_size + max_overflow` connections, a queue in
  front of them, `TimeoutError` after a while.
* pydantic: the `Field` constraints see the value as it was sent, a
  `field_validator` runs after them and its result is what the DTO holds.
* `create_all` looks for the tables, then for the enum type, then creates what
  it missed. PostgreSQL runs DDL in the transaction: others see it after the
  commit, a second creation of a name waits for the first and fails if that
  commits.
* FastAPI renders what a route function returned, by its `response_model`, after the
  function has ended, and `JSONResponse` refuses infinite numbers with a
  `ValueError`, which the registered handler answers with 400. A body with quantity
  2 and price 1e308 passes validation, and its total is infinite. A version of
  FastAPI that renders infinity as null has one way to end less, which the model
  also contains: a step `RenderingFails` is possible, never necessary.
* Starlette: an exception without a handler of its own passes
  `ExceptionMiddleware` and the correlation middleware, and the handler of
  `Exception` answers in `ServerErrorMiddleware`, the outermost layer. The inner
  application of a `BaseHTTPMiddleware` runs in a task with a copy of the context.
* uvicorn: requests are accepted between start-up and shutdown of the lifespan,
  the shutdown waits for those under way, every request has a task with an
  empty context.
* `uuid4` returns what nobody else has. Which id a request draws makes no difference,
  so each task has one (`uuid4[t]`) for all its requests.

### Abstractions

A name, an address and a list of line items are each a value of a small set:
the code never looks into them after validation. The items of an order are one
value because the API writes and deletes them only together, so `items` also
stands for all rows of `order_items` with that order id. Row locks on items are
one lock per order for the same reason. `created_at`, totals and item ids are
left out. Reads by key are always of ids the sequence can produce.

`OrderAggregate` has no concurrency; it keeps the text lengths and the items one
by one that `OrderService` abstracts. No rule looks at letters, so two numbers
stand for a text; characters PostgreSQL stores in no text (NUL) are left out, and
prices that are themselves infinite. `MaxInteger` stands for 2^31 - 1: the
column is the only place where the size of a quantity matters. A save is update and commit in one.
In `RequestPipeline` a use case is how it ends, 200 stands for every 2xx, and the
lines written are those of the routes and layers at the default log level, not those of
the use cases. Any use case with a body may fail to be rendered: whether it does
depends on totals, which are left out; `OrderService` ends where the use case has
returned its DTO. A handler that is slow and then raises leaves no warning in the code
(`behaviors.py:65`) and none in the model. Clients that disconnect before the
reply are left out.

## The runs

Each run finishes within two minutes or so with two workers.

| Run | Bounds | Shows |
|---|---|---|
| `core` | 2 tasks, 1 order id, pool of 2, all routes, faults | types and the inductive invariants (`ServiceInvariant`, `Replies`, `StagesInvariant`); orders and items together; nothing held at rest; replies without items only of deleted orders; 204 means gone; an update on its way to 200 has written what it answers, with the stored items, or had nothing to write; no stage is ever skipped; `OrderRegistry` is implemented |
| `two_orders` | 3 tasks, 2 ids, 2 baskets, clock to 2, create, delete, list, faults | the same of tables and lists when orders with different items come and go |
| `pool` | 3 tasks, pool of 2, create, delete, list, faults, fairness | no connection leaks, every request is answered |
| `row_locks` | 2 tasks, create, update, status, delete, no faults, fairness | waiting for rows ends without the help of a timeout or a failure |
| `overlap` | 2 tasks, 1 order id, pool of 2, 2 addresses, create, update, status, delete, faults | with overlap the documented behaviour is lost only where an overtaken request commits: legal transitions, partial updates, `OrderApi`; and the invariant they follow from |
| `aggregate` | 5 names, 4 addresses, 6 items at the boundaries, up to 2 items, clock to 2, `MaxInteger` 3 | accepted bodies are stored, except for quantities beyond the column; stored orders make sense whatever was called; a load finds what the last reply showed; events tell the history; what `updated_at` means |
| `application` | 2 processes, 2 tasks, 1 upstream id, a handled and an unhandled failure, fairness | the schema is whole through races, failures and deaths; requests are served with tables and connections; one id per request; log and reply agree, but for responses that cannot be rendered; starts and stops end |
| `missing_id` | 1 process, 1 task, all failures | violation: the 500 of the catch-all carries no id |
| `illegal_transition` | 2 tasks, pool of 2 | violation: cancelled becomes confirmed |
| `lost_field` | 2 tasks, pool of 2 | violation: an update takes back a change it was not asked for |
| `event_lost` | 2 tasks, pool of 2 | violation: no event is left after the commit |
| `itemless_list` | 2 tasks, pool of 2 | violation: the list shows an order without items |

Why the bounds are enough. The conflicts are between two transactions on one
row, so two tasks and one id exhibit them, and a task serves any number of
requests one after the other, so the runs cover any history of requests with
two (or three) under way at a time. The third task in `pool` makes one wait
while two hold connections and row locks. The second id in `two_orders` lets an
order be created while another is deleted and lets a list see both. `MaxOrderId`
is also the end of the sequence, so `AddFails` is exercised. `MaxClock` 1
leaves one change of `updated_at`, from none to 1, so an update may or may not find
the timestamp changed; later times differ only in what `OrderApi` says of them,
that they do not go back, and the proof covers those. In `overlap` the two
addresses let one request overwrite the other's and the status is the second
field that can be lost; a name is written the same way. Slots are interchangeable and
reduced by symmetry in the runs without liveness properties. In `aggregate` the texts and items are one for each way to
pass or to fail a rule (too short, too long, blank, one letter after stripping);
two items let one be removed and one stay and let two have the same name; a
clock of 2 tells the time of an update from the time of a change; calls are not
bounded in number. In `application` two processes are what a race for a name
needs, and two requests can be in one process or in two; the two failures are
one that a handler takes and one that only the catch-all takes, all others go
the same ways, and `missing_id` has them all. The routes that only read are left to
`missing_id` and the proof: they open the log as the delete does and are rendered
as those that write are, and both of these are in `application`. Deadlock checking
is on everywhere: no state is without a next step, because clients may always send
or a task go on.

Fairness. `FairSpec` asks strong fairness of each task's own steps. The event
loop runs every ready task; a task that is not ready waits for a connection or
a row lock and both have a queue, so it is not passed over for ever, which weak
fairness would allow since other tasks may take the connection again and again.
In `Application` each request's step has weak fairness, since a task of the event
loop that is ready is run, and each process's own steps strong fairness, since a
creation that waits for another transaction is served in turn. That a use case
ends is assumed there and is what `RequestsAnswered` shows of the service.
Clients, operators, time and faults are not assumed to do anything.

### Findings

* `illegal_transition`: the status is checked on a row read without a lock and
  written unconditionally. "cancelled" to "confirmed" happens with the cached row
  and with the row read anew (`order_repository.py:47`).
* `lost_field`: the update writes every field of the entity. When the second
  `get` reads the row anew, what others changed since differs from the entity
  and is written back, even for an empty body (`order_repository.py:45-48`).
  With the cached row only changed columns are written and the same requests do
  no harm, so the outcome depends on garbage collection.
* `event_lost`: `update` returns a new entity, so events of confirm and cancel
  are gone at commit (`order_repository.py:50`); nothing publishes events.
* `itemless_list`: two statements, two snapshots (`models.py:38`). The run
  `core` shows the limit of this: only orders that are gone are ever shown so.
* `missing_id`: the header is written after `call_next`, which raises when no
  handler takes the exception (`correlation_id.py:51`). Each such 500 is
  nevertheless in the log under its id (`UnmarkedRepliesAreInTheLog`).

Worth knowing, though nothing in the repository says otherwise: an order whose total
overflows is stored and logged as handled, and its client is told 400, as is every
client that lists or reads it from then on (`RenderingFails`); of processes that
start together on an empty database one may fail and must be started again
(`SchemaIsWhole` says that it succeeds then); a quantity beyond 32 bits is
answered 500; a name may be stored with one letter, since its length is
checked before it is stripped, or with none after an update, which does not
strip; a change of the name alone leaves `updated_at` as it is unless it was empty.

## The proofs

The theorems hold for every value of the constants: any number of tasks, orders
and connections, any names, addresses and baskets, with and without faults; any
texts, items and bodies; any number of processes and requests.

| Theorem | States |
|---|---|
| `ServiceInvariantHolds`, `TypeCorrect` | `[]ServiceInvariant`, `[]TypeOK` of the service |
| `OrdersAndItemsTogether` | `[]StoredOrdersHaveItems` |
| `NothingLeaks` | `[]NothingHeldAtRest` |
| `RepliesHold` | `[]Replies`, what replies are made of |
| `StoredOrdersAreShownWhole` | `[]ItemlessRepliesAreOfDeletedOrders` |
| `DeletionsAreFinal` | `[]DeletedOrdersAreGone` |
| `UpdatesAnswerWhatTheyWrite` | `[]UpdatesAreWrittenOrRefused` |
| `ServiceImplementsRegistry` | `Spec => OrdersLiveAndDieWhole`, the refinement of `OrderRegistry` |
| `StagesInvariantHolds`, `StagesAreNotSkipped` | `[]StagesInvariant`, `[]NoStageSkipped` |
| `OverlapInvariantHolds` | `[]OverlapInvariant` |
| `LifecycleUnlessOvertaken` | `OnlyTheOvertakenLeaveTheLifecycle` |
| `OtherFieldsUnlessOvertaken` | `OnlyTheOvertakenChangeOtherFields` |
| `AtomicUnlessOvertaken` | `OverlapSpec => RequestsLookAtomicUnlessOvertaken`, the refinement of `OrderApi` |
| `AggregateInvariantHolds`, `AggregateTypeCorrect` | `[]AggregateInvariant`, `[]TypeOK` of the aggregate |
| `AcceptedBodiesDoNotFail`, `OrdersStaySound`, `RepliesSurviveTheReload`, `EventsTellAll`, `UpdatedAtTellsTheChange` | the five properties of the run `aggregate` |
| `ApplicationInvariantHolds`, `ApplicationTypeCorrect` | `[]ApplicationInvariant`, `[]TypeOK` of the application |
| `SchemaIsNeverPartial`, `HandlersHaveTables`, `IdsIdentify`, `LogTellsTheReply`, `CatchAllIsLogged` | the five safety properties of the run `application` |

Assumed are only the named assumptions of the modules. Of `OrderService`: bounds
are numbers, `NULL` is no row, name, address or task, the empty list is no
basket. Of `OrderAggregate`: `None` is none of the values it stands beside
(`NoneIsNoRow`), the clients send texts and items. Of `RequestPipeline`:
`NoId` is no id, no client sends a fresh uuid as its id, and there are at least as
many uuids as request tasks (`EnoughUuids`; `uuid4` has 2^122 of them). Of
`Application`: `NoServer` is no process. No theorem limits the pool or the
overlap of requests. That the last three theorems on the service must except the
overtaken is what the runs `illegal_transition` and
`lost_field` show: what they state without the exception is violated.

### The service

`StoredOrdersHaveItems` is not inductive: a commit applies what
was staged statements ago, to rows others may have changed. `RowLocks` says what a
transaction that holds a row is about to do to it (a create holds the order row of
an absent order and, once it has inserted them, its items, and only with both can
it commit; an update holds a stored row; a delete
holds both halves of a stored one), so each commit keeps order and items
together (`CommitEffect`, `StoredStep`). For a delete this needs that it holds
the items whenever it locks a stored order, that is, that items it did not find
belong to an order that is gone; `RowsSeen` says so, and follows because what
was read once is stored or `Gone`, and what is gone stays gone (`GoneStep`),
since ids are not drawn twice (`UnusedIds`). `Control` and `Staging` say what a
task has in hand at each point, `PoolUse` that connections are out only inside
transactions. `StepIsLocal` and `StepKinds` reduce the 26 actions of a task: a step
leaves the local state of the other tasks alone, and only seven kinds of step
touch tables or locks. Each part of the invariant has one lemma `...Step`; `Tick`,
`Crash` and stuttering are dealt with apart.

Replies. What a reply shows was read long before it is sent, so `Replies` follows
the items from the session through the entity to the reply: they are those of
a stored order, or the order is `Gone` (`TrueTo`), and either stays so, since
items are never changed (`TrueToStep` rests on `CommitEffect` and `GoneStep`).
`DeletionOf` does the same for a delete that found nothing to lock.

`OrderRegistry`. The only steps that the registry sees are those that burn ids and
the commits of creates and deletes. That a commit is one step in the life of
one order needs `OneRowEach`, a transaction holds at most one order row; then
`PlacingCommit`, `RemovingCommit` and `OtherCommit` say which registry step it is.

`NoStageSkipped`. A status may be overwritten by a stale one, but a stale status
was committed once: `StagesInvariant` says that every status in a session is
among those the order has had and that every status staged comes from one of
them by one step of the lifecycle (`Derived`).

`UpdatesAreWrittenOrRefused`. An update that holds a row found the order stored when
it locked it, and nobody else can commit to a locked row, so the order is not
`Gone` and the items it read are the stored ones. The other half, that an update
which holds no row answers with what it has read, is in `Replies` (`ItemsTrueOf`).

Overlap. As long as a request has not been overtaken, the row it has read is the one
that is stored (`UpToDateOf`), so what the entity makes of it is what the request
may make of the stored row (`IntentOf`, `Permitted`), to which `HeldRowOf` adds that
it is written to the row of the request. Neither needs anything of the other
tasks: a commit of another task either leaves the row as it is (`RowsStand`) or
makes the request an overtaken one. `ChangingCommit` draws the conclusion for the
commit, from which the two action properties follow. For the refinement of
`OrderApi` each commit is one atomic step: of a request that was not overtaken the
one it was sent for, of an overtaken one `Overwrite`, of a create or delete the
same as for the registry, now with the row that is created; ids that creations
draw and lose, one by one or all at once in a crash, are `LoseIds`. That times do
not go back is `NothingFromTheFuture`.

### The aggregate

`AggregateInvariant` adds to the five properties what links entity, row and reply:
the entity in memory always fits the columns (`EntityFits`), so no save fails
after any calls; its time is that of its last change (`EntityTime`); and the
last reply shows the rows as they are (`ReplyShowsRow`), which the entity need not.
`EventsTellTheHistory` says that an increasing map takes the events to the
statuses on whose arrival they were recorded; the proof extends that map by one
pair for each accepted call (`HistoryGoesOn`).

### The application

A start creates what it missed when it looked, statements ago. `StartOf` says what
an open transaction has missed and created at each statement of `create_all`, and
`StartsApart` that no two have created one name, so the first that commits
commits everything and every other fails (`SchemaIsWhole`). `IdOf` and `LogOf`
say what id a request carries and which lines it has written at each stage, with
both orders of success and refusal; that no two requests draw one id follows from
`uuid4` being apart for the tasks.

### Only model-checked

Liveness (`RequestsAnswered`, `PhasesEnd`) is out of the prover's reach. The five
runs that end in a violation need no proof. Every other property of the runs is
stated by a theorem.

## Not modelled

* Alembic: `env.py` is tooling without any migration; the tables come from
  `create_all`.
* Settings: constants. Log formats; only the id of a line is modelled.
* The reason of a status change: it enters an event that nobody reads. Totals,
  counts, `created_at`, item ids. The bodies of error replies.
* Parsing of JSON and of path parameters, and the OpenAPI pages, which are
  FastAPI's.
* A rollback that itself fails (`unit_of_work.py:28`): what remains then depends
  on how SQLAlchemy closes the connection.

## Plan

1. Done: `OrderEntity`, `OrderService`, its abstract specifications and runs,
   the invariant and its proof.
2. Done: `OrderDtos` and `OrderAggregate`; `ErrorReplies`, `RequestPipeline`,
   `Lifespan` and `Application`.
3. Done: proofs of all safety and action properties and of both refinements.
4. Left: a rollback that fails, and clients that disconnect before their reply
   and so cancel their task; then the lemmas of `OrderServiceProofs` for these
   steps.
