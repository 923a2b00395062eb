---------------------------- MODULE OrderService ----------------------------
(***************************************************************************)
(* The order service under concurrent requests: every use case of          *)
(* src/application/use_cases/orders as a request task that runs its        *)
(* handler statement by statement in a unit of work of its own, against    *)
(* the connection pool and the PostgreSQL tables all tasks share.          *)
(*                                                                         *)
(* A step is what runs between two awaits: a handler gives up control only *)
(* where it sends a statement, so one action is one statement together     *)
(* with the Python code that runs once its result is there.  PostgreSQL    *)
(* runs each statement at READ COMMITTED (database.py sets no isolation    *)
(* level): a SELECT reads the committed rows of its own instant, and an    *)
(* UPDATE or DELETE waits for the transaction that holds the row.          *)
(*                                                                         *)
(* A definition introduced as a faulty variant is part of no step: it is   *)
(* what the definition after it would be with a plausible mistake in the   *)
(* code, and the properties have to tell the two apart.                    *)
(***************************************************************************)
EXTENDS OrderMappers, ErrorReplies, FiniteSets

CONSTANTS
    Slots,        \* request tasks; a slot serves one request after another
    MaxOrderId,   \* the sequence of orders.id ends here
    PoolLimit,    \* pool_size + max_overflow: connections in use at a time
    Names,        \* customer names
    Addresses,    \* shipping addresses
    Baskets,      \* non-empty lists of line items
    MaxClock,     \* bound on the clock that datetime.now reads
    Operations,   \* the routes that clients call
    Faults,       \* whether statements, commits and the process may fail
    NULL          \* no value: a missing row, field, lock, request or reply

OrderIds == 1 .. MaxOrderId
Routes == {"create", "update", "status", "delete", "get", "list"}

ASSUME ParametersAreNumbers ==
    /\ MaxOrderId \in Nat
    /\ PoolLimit \in Nat \ {0}
    /\ MaxClock \in Nat \ {0}
    /\ Operations \subseteq Routes
    /\ Faults \in BOOLEAN

\* A row of the table orders; created_at is left out, nothing reads it back.
Row == [customer_name : Names, shipping_address : Addresses,
        status : OrderStatus, updated_at : 0 .. MaxClock]

ASSUME EmptyListIsNoBasket == NoItems \notin Baskets

ASSUME NullIsNoValue ==
    /\ NULL \notin Row
    /\ NULL \notin Names
    /\ NULL \notin Addresses
    /\ NULL \notin Slots

VARIABLES
    orders,        \* committed rows of the table orders, by id
    items,         \* committed rows of order_items, by order id
    next_id,       \* the sequence behind orders.id
    order_lock,    \* the transaction with an uncommitted version of the order row
    item_lock,     \* the transaction with an uncommitted version of its items
    staged,        \* per transaction: its version of the order row it holds
    staged_items,  \* per transaction: its version of the items it holds
    conns,         \* the tasks that hold a pooled connection
    clock,         \* what datetime.now(timezone.utc) returns
    pc,            \* per task: how far its handler has come
    cmd,           \* per task: the command or query it handles
    model,         \* per task: the OrderModel rows in its session
    model_items,   \* per task: the items those rows were loaded with
    order,         \* per task: the Order entity of the handler
    exc,           \* per task: the exception that unwinds the handler
    response       \* per task: the reply, until the client has it

database    == <<orders, items, next_id>>
locks       == <<order_lock, item_lock>>
writes      == <<staged, staged_items>>
session     == <<model, model_items>>
vars == <<orders, items, next_id, order_lock, item_lock, staged, staged_items,
          conns, clock, pc, cmd, model, model_items, order, exc, response>>

-----------------------------------------------------------------------------
(* Requests, after routing and validation of the body.                     *)

CreateCommand == [op : {"create"}, customer_name : Names, shipping_address : Addresses,
                  items : Baskets]
UpdateCommand == [op : {"update"}, order_id : OrderIds, customer_name : Names \cup {NULL},
                  shipping_address : Addresses \cup {NULL}]
StatusCommand == [op : {"status"}, order_id : OrderIds, action : OrderStatusAction]
DeleteCommand == [op : {"delete"}, order_id : OrderIds]
GetByIdQuery  == [op : {"get"}, order_id : OrderIds]
GetAllQuery   == [op : {"list"}]

Requests == {c \in UNION {CreateCommand, UpdateCommand, StatusCommand,
                          DeleteCommand, GetByIdQuery, GetAllQuery} :
                c.op \in Operations}

Op(s) == cmd[s].op
Id(s) == cmd[s].order_id

\* The status codes of the routes' decorators.
SuccessCode == [create |-> 201, update |-> 200, status |-> 200, delete |-> 204,
                get |-> 200, list |-> 200]

\* OrderResponseDto, as far as the properties look.
to_response_dto(o) == [id |-> o.id, status |-> o.status, items |-> o.items]

Reply(code, body) == [code |-> code, body |-> body]

-----------------------------------------------------------------------------
(* Rows in a session and in a flush.                                       *)

NoRows     == [o \in OrderIds |-> NULL]
NoItemRows == [o \in OrderIds |-> NoItems]

\* The flush writes only the columns whose value differs from the loaded one.
Column(loaded, assigned, current) == IF assigned = loaded THEN current ELSE assigned

Updated(loaded, assigned, current) ==
    [customer_name |-> Column(loaded.customer_name, assigned.customer_name,
                              current.customer_name),
     shipping_address |-> Column(loaded.shipping_address, assigned.shipping_address,
                                 current.shipping_address),
     status |-> Column(loaded.status, assigned.status, current.status),
     updated_at |-> Column(loaded.updated_at, assigned.updated_at, current.updated_at)]

-----------------------------------------------------------------------------
(* Steps shared by the actions.                                            *)

PoolHasRoom == Cardinality(conns) < PoolLimit

Goto(s, label) == pc' = [pc EXCEPT ![s] = label]

\* The session's identity map and the handler's local entity.
Forget(s) ==
    /\ model' = [model EXCEPT ![s] = NoRows]
    /\ model_items' = [model_items EXCEPT ![s] = NoItemRows]
    /\ order' = [order EXCEPT ![s] = NULL]

\* An exception leaves the handler's try-less body for __aexit__.
Raise(s, e) ==
    /\ exc' = [exc EXCEPT ![s] = e]
    /\ Goto(s, "unwinding")
    /\ Forget(s)

\* Faulty variant: the session is not closed, so the connection stays out.
EndWithoutClose(s) ==
    /\ order_lock' = [o \in OrderIds |-> IF order_lock[o] = s THEN NULL ELSE order_lock[o]]
    /\ item_lock' = [o \in OrderIds |-> IF item_lock[o] = s THEN NULL ELSE item_lock[o]]
    /\ staged' = [staged EXCEPT ![s] = NULL]
    /\ staged_items' = [staged_items EXCEPT ![s] = NoItems]
    /\ UNCHANGED conns

\* Faulty variant: the connection goes back with its transaction still open.
EndWithoutRelease(s) == conns' = conns \ {s} /\ UNCHANGED <<locks, writes>>

\* The transaction is over: its row locks and its connection are given back.
EndTransaction(s) ==
    /\ order_lock' = [o \in OrderIds |-> IF order_lock[o] = s THEN NULL ELSE order_lock[o]]
    /\ item_lock' = [o \in OrderIds |-> IF item_lock[o] = s THEN NULL ELSE item_lock[o]]
    /\ staged' = [staged EXCEPT ![s] = NULL]
    /\ staged_items' = [staged_items EXCEPT ![s] = NoItems]
    /\ conns' = conns \ {s}

Answer(s, code, body) ==
    /\ response' = [response EXCEPT ![s] = Reply(code, body)]
    /\ Goto(s, "done")

-----------------------------------------------------------------------------
Init ==
    /\ orders = [o \in OrderIds |-> NULL]
    /\ items = [o \in OrderIds |-> NoItems]
    /\ next_id = 1
    /\ order_lock = [o \in OrderIds |-> NULL]
    /\ item_lock = [o \in OrderIds |-> NULL]
    /\ staged = [s \in Slots |-> NULL]
    /\ staged_items = [s \in Slots |-> NoItems]
    /\ conns = {}
    /\ clock = 1
    /\ pc = [s \in Slots |-> "idle"]
    /\ cmd = [s \in Slots |-> NULL]
    /\ model = [s \in Slots |-> NoRows]
    /\ model_items = [s \in Slots |-> NoItemRows]
    /\ order = [s \in Slots |-> NULL]
    /\ exc = [s \in Slots |-> NULL]
    /\ response = [s \in Slots |-> NULL]

-----------------------------------------------------------------------------
(* A request arrives; send_async makes a handler with a fresh unit of work *)
(* and its __aenter__ makes a session.  No connection is taken yet.        *)
Begin(s) ==
    /\ pc[s] = "idle"
    /\ \E c \in Requests : cmd' = [cmd EXCEPT ![s] = c]
    /\ Goto(s, "begun")
    /\ UNCHANGED <<database, locks, writes, conns, clock, session, order, exc, response>>

\* The row that order_entity_to_model makes of a create request.
NewRow(s) == order_entity_to_model(
                 NewOrder(cmd[s].customer_name, cmd[s].shipping_address, cmd[s].items))

\* Faulty variant: the connection commits every statement by itself.
AddOrderAtOnce(s) ==
    /\ pc[s] = "begun"
    /\ Op(s) = "create"
    /\ PoolHasRoom
    /\ next_id <= MaxOrderId
    /\ conns' = conns \cup {s}
    /\ next_id' = next_id + 1
    /\ order_lock' = [order_lock EXCEPT ![next_id] = s]
    /\ staged' = [staged EXCEPT ![s] = NewRow(s)]
    /\ orders' = [orders EXCEPT ![next_id] = NewRow(s)]
    /\ Goto(s, "adding")
    /\ UNCHANGED <<items, item_lock, staged_items, clock, cmd, session, order, exc, response>>

(* CreateOrderCommandHandler: to_entity, then add, whose flush first sends *)
(* INSERT INTO orders; the id comes back from the sequence.                *)
AddOrder(s) ==
    /\ pc[s] = "begun"
    /\ Op(s) = "create"
    /\ PoolHasRoom
    /\ next_id <= MaxOrderId
    /\ conns' = conns \cup {s}
    /\ next_id' = next_id + 1
    /\ order_lock' = [order_lock EXCEPT ![next_id] = s]
    /\ staged' = [staged EXCEPT ![s] = NewRow(s)]
    /\ Goto(s, "adding")
    /\ UNCHANGED <<orders, items, item_lock, staged_items, clock, cmd, session, order, exc,
                   response>>

(* The flush goes on with INSERT INTO order_items, under the id of the new *)
(* row; then add maps the model back to an entity, and mark_created.       *)
AddItems(s) ==
    /\ pc[s] = "adding"
    /\ \E o \in OrderIds :
          /\ order_lock[o] = s
          /\ item_lock' = [item_lock EXCEPT ![o] = s]
          /\ order' = [order EXCEPT ![s] =
                 mark_created(order_model_to_entity(o, staged[s], cmd[s].items))]
    /\ staged_items' = [staged_items EXCEPT ![s] = cmd[s].items]
    /\ Goto(s, "flushed")
    /\ UNCHANGED <<database, order_lock, staged, conns, clock, cmd, session, exc, response>>

\* The sequence has no value left: nextval raises and so does the flush.
AddFails(s) ==
    /\ pc[s] = "begun"
    /\ Op(s) = "create"
    /\ PoolHasRoom
    /\ next_id > MaxOrderId
    /\ conns' = conns \cup {s}
    /\ Raise(s, "DBAPIError")
    /\ UNCHANGED <<database, locks, writes, clock, cmd, response>>

\* The rows the SELECT on orders returns: one by its key, or the whole table.
Selected(s) ==
    [o \in OrderIds |-> IF Op(s) = "list" \/ o = Id(s) THEN orders[o] ELSE NULL]

(* The first statement of get_by_id and of get_all, which also takes the   *)
(* connection from the pool.                                               *)
SelectOrders(s) ==
    /\ pc[s] = "begun"
    /\ Op(s) # "create"
    /\ PoolHasRoom
    /\ Selected(s) # NoRows
    /\ conns' = conns \cup {s}
    /\ model' = [model EXCEPT ![s] = Selected(s)]
    /\ Goto(s, "loading")
    /\ UNCHANGED <<database, locks, writes, clock, cmd, model_items, order, exc, response>>

\* No row: get_all goes on with an empty list, the other handlers raise.
SelectNothing(s) ==
    /\ pc[s] = "begun"
    /\ Op(s) # "create"
    /\ PoolHasRoom
    /\ Selected(s) = NoRows
    /\ conns' = conns \cup {s}
    /\ IF Op(s) = "list"
       THEN Goto(s, "loaded") /\ UNCHANGED <<session, order, exc>>
       ELSE Raise(s, "NotFoundException")
    /\ UNCHANGED <<database, locks, writes, clock, cmd, response>>

\* Faulty variant: the relationship is not loaded with its rows.
ItemsNotLoaded(rows) == [o \in OrderIds |-> NoItems]

\* The items of the rows in `rows', as a SELECT issued now finds them.
ItemsOf(rows) == [o \in OrderIds |-> IF rows[o] = NULL THEN NoItems ELSE items[o]]

(* lazy="selectin": a second statement, with a snapshot of its own, loads  *)
(* the items of the rows; then the rows are mapped to entities.  The       *)
(* delete handler only looks whether there is an entity.                   *)
SelectItems(s) ==
    /\ pc[s] = "loading"
    /\ model_items' = [model_items EXCEPT ![s] = ItemsOf(model[s])]
    /\ IF Op(s) = "list"
       THEN UNCHANGED order
       ELSE order' = [order EXCEPT ![s] =
                order_model_to_entity(Id(s), model[s][Id(s)], ItemsOf(model[s])[Id(s)])]
    /\ Goto(s, IF Op(s) = "delete" THEN "persisting" ELSE "loaded")
    /\ UNCHANGED <<database, locks, writes, conns, clock, cmd, model, exc, response>>

-----------------------------------------------------------------------------
\* The two query handlers: the reply is built inside the unit of work, then
\* the session is closed.
Loaded(s) ==
    {order_model_to_entity(o, model[s][o], model_items[s][o]) :
        o \in {x \in OrderIds : model[s][x] # NULL}}

AnswerQuery(s) ==
    /\ pc[s] = "loaded"
    /\ Op(s) \in {"get", "list"}
    /\ Answer(s, SuccessCode[Op(s)], {to_response_dto(o) : o \in Loaded(s)})
    /\ EndTransaction(s)
    /\ Forget(s)
    /\ UNCHANGED <<database, clock, cmd, exc>>

\* Faulty variant: a field that is None is assigned as well.
RenamedAlways(o, name) == [o EXCEPT !.customer_name = name]

\* UpdateOrderCommandHandler: the fields of the body that are not None.
Renamed(o, name) == IF name = NULL THEN o ELSE [o EXCEPT !.customer_name = name]

HandleUpdate(s) ==
    LET renamed == Renamed(order[s], cmd[s].customer_name)
        address == cmd[s].shipping_address
    IN  /\ pc[s] = "loaded"
        /\ Op(s) = "update"
        /\ IF address = NULL \/ CanUpdateAddress(renamed)
           THEN /\ order' = [order EXCEPT ![s] =
                       IF address = NULL THEN renamed
                       ELSE update_shipping_address(renamed, address, clock)]
                /\ Goto(s, "persisting")
                /\ UNCHANGED <<session, exc>>
           ELSE Raise(s, "BusinessRuleViolationException")
        /\ UNCHANGED <<database, locks, writes, conns, clock, cmd, response>>

\* ChangeOrderStatusCommandHandler: the entity accepts the action or raises.
HandleStatus(s) ==
    /\ pc[s] = "loaded"
    /\ Op(s) = "status"
    /\ IF ActionAllowed(cmd[s].action, order[s])
       THEN /\ order' = [order EXCEPT ![s] = ApplyAction(cmd[s].action, order[s], clock)]
            /\ Goto(s, "persisting")
            /\ UNCHANGED <<session, exc>>
       ELSE Raise(s, "BusinessRuleViolationException")
    /\ UNCHANGED <<database, locks, writes, conns, clock, cmd, response>>

-----------------------------------------------------------------------------
(* OrderRepository.update and .delete ask the session for the row again.   *)
(* Its identity map holds rows weakly and the handler kept only the        *)
(* entity, so the row may still be there, and no statement is sent, or has *)
(* been collected, and the row is read anew with its items.                *)
GetCached(s) ==
    /\ pc[s] = "persisting"
    /\ Goto(s, "flushing")
    /\ UNCHANGED <<database, locks, writes, conns, clock, cmd, session, order, exc, response>>

GetAgain(s) ==
    /\ pc[s] = "persisting"
    /\ orders[Id(s)] # NULL
    /\ model' = [model EXCEPT ![s][Id(s)] = orders[Id(s)]]
    /\ Goto(s, "reloading")
    /\ UNCHANGED <<database, locks, writes, conns, clock, cmd, model_items, order, exc, response>>

\* The row is gone by now: update raises, delete has nothing left to do.
GetNothing(s) ==
    /\ pc[s] = "persisting"
    /\ orders[Id(s)] = NULL
    /\ IF Op(s) = "delete"
       THEN Goto(s, "flushed") /\ UNCHANGED <<session, order, exc>>
       ELSE Raise(s, "ValueError")
    /\ UNCHANGED <<database, locks, writes, conns, clock, cmd, response>>

ReloadItems(s) ==
    /\ pc[s] = "reloading"
    /\ model_items' = [model_items EXCEPT ![s] = ItemsOf(model[s])]
    /\ Goto(s, "flushing")
    /\ UNCHANGED <<database, locks, writes, conns, clock, cmd, model, order, exc, response>>

-----------------------------------------------------------------------------
(* The flush of OrderRepository.update, which then maps the model to a new *)
(* entity.                                                                 *)
Flushing(s) == pc[s] = "flushing" /\ Op(s) \in {"update", "status"}

Existing(s) == model[s][Id(s)]

\* The values assigned just before the flush, which is where they are used.
NewValues(s) == Assigned(order[s], clock)

Persisted(s) == order_model_to_entity(Id(s), NewValues(s), model_items[s][Id(s)])

\* No column differs from the loaded row, so no statement is sent.
FlushNothing(s) ==
    /\ Flushing(s)
    /\ NewValues(s) = Existing(s)
    /\ order' = [order EXCEPT ![s] = Persisted(s)]
    /\ Goto(s, "flushed")
    /\ UNCHANGED <<database, locks, writes, conns, clock, cmd, session, exc, response>>

\* Faulty variant: the row is merged, so a row that is gone is inserted again.
FlushUpsert(s) ==
    /\ Flushing(s)
    /\ NewValues(s) # Existing(s)
    /\ order_lock[Id(s)] = NULL
    /\ order_lock' = [order_lock EXCEPT ![Id(s)] = s]
    /\ staged' = [staged EXCEPT ![s] = NewValues(s)]
    /\ order' = [order EXCEPT ![s] = Persisted(s)]
    /\ Goto(s, "flushed")
    /\ UNCHANGED <<database, item_lock, staged_items, conns, clock, cmd, session, exc, response>>

\* UPDATE orders SET <changed columns> WHERE id = ..., once the row is free.
FlushUpdate(s) ==
    /\ Flushing(s)
    /\ NewValues(s) # Existing(s)
    /\ order_lock[Id(s)] = NULL
    /\ orders[Id(s)] # NULL
    /\ order_lock' = [order_lock EXCEPT ![Id(s)] = s]
    /\ staged' = [staged EXCEPT ![s] = Updated(Existing(s), NewValues(s), orders[Id(s)])]
    /\ order' = [order EXCEPT ![s] = Persisted(s)]
    /\ Goto(s, "flushed")
    /\ UNCHANGED <<database, item_lock, staged_items, conns, clock, cmd, session, exc, response>>

\* Faulty variant: nobody looks how many rows the UPDATE has matched.
FlushUnmatched(s) ==
    /\ Flushing(s)
    /\ NewValues(s) # Existing(s)
    /\ order_lock[Id(s)] = NULL
    /\ orders[Id(s)] = NULL
    /\ order' = [order EXCEPT ![s] = Persisted(s)]
    /\ Goto(s, "flushed")
    /\ UNCHANGED <<database, locks, writes, conns, clock, cmd, session, exc, response>>

\* The UPDATE matches no row: the flush raises StaleDataError.
FlushStale(s) ==
    /\ Flushing(s)
    /\ NewValues(s) # Existing(s)
    /\ order_lock[Id(s)] = NULL
    /\ orders[Id(s)] = NULL
    /\ Raise(s, "StaleDataError")
    /\ UNCHANGED <<database, locks, writes, conns, clock, cmd, response>>

(* The flush of OrderRepository.delete: cascade="all, delete-orphan"       *)
(* deletes the items the session knows of, then the order.  A DELETE that  *)
(* matches no row is only a warning.                                       *)
FlushDeleteItems(s) ==
    LET known == model_items[s][Id(s)] # NoItems
    IN  /\ pc[s] = "flushing"
        /\ Op(s) = "delete"
        /\ known => item_lock[Id(s)] = NULL
        /\ item_lock' = [item_lock EXCEPT ![Id(s)] =
               IF known /\ items[Id(s)] # NoItems THEN s ELSE @]
        /\ Goto(s, "items_deleted")
        /\ UNCHANGED <<database, order_lock, writes, conns, clock, cmd, session, order, exc,
                       response>>

\* Faulty variant: only the items are deleted.
FlushKeepOrder(s) ==
    /\ pc[s] = "items_deleted"
    /\ Goto(s, "flushed")
    /\ UNCHANGED <<database, locks, writes, conns, clock, cmd, session, order, exc, response>>

(* Once the row is free, DELETE FROM orders.  The foreign key's ON DELETE  *)
(* CASCADE takes the items that are still there, once they are free.       *)
FlushDeleteOrder(s) ==
    LET stored == orders[Id(s)] # NULL
    IN  /\ pc[s] = "items_deleted"
        /\ order_lock[Id(s)] = NULL
        /\ stored => item_lock[Id(s)] \in {s, NULL}
        /\ order_lock' = [order_lock EXCEPT ![Id(s)] = IF stored THEN s ELSE NULL]
        /\ item_lock' = [item_lock EXCEPT ![Id(s)] =
               IF stored /\ items[Id(s)] # NoItems THEN s ELSE @]
        /\ Goto(s, "flushed")
        /\ UNCHANGED <<database, writes, conns, clock, cmd, session, order, exc, response>>

-----------------------------------------------------------------------------
\* PostgreSQL makes the rows the transaction holds visible in one step.
ApplyWrites(s) ==
    /\ orders' = [o \in OrderIds |-> IF order_lock[o] = s THEN staged[s] ELSE orders[o]]
    /\ items' = [o \in OrderIds |-> IF item_lock[o] = s THEN staged_items[s] ELSE items[o]]

Commit(s) ==
    /\ pc[s] = "flushed"
    /\ ApplyWrites(s)
    /\ EndTransaction(s)
    /\ Goto(s, "committed")
    /\ UNCHANGED <<next_id, clock, cmd, session, order, exc, response>>

\* __aexit__ closes the session, the handler maps its entity to the reply.
Respond(s) ==
    /\ pc[s] = "committed"
    /\ Answer(s, SuccessCode[Op(s)],
              IF Op(s) = "delete" THEN {} ELSE {to_response_dto(order[s])})
    /\ Forget(s)
    /\ UNCHANGED <<database, locks, writes, conns, clock, cmd, exc>>

\* Faulty variant: the id a create request has drawn is given back.
RollbackWithId(s) ==
    /\ pc[s] = "unwinding"
    /\ EndTransaction(s)
    /\ Answer(s, HttpStatus(exc[s]), {})
    /\ exc' = [exc EXCEPT ![s] = NULL]
    /\ next_id' = IF Op(s) = "create" /\ staged[s] # NULL THEN next_id - 1 ELSE next_id
    /\ UNCHANGED <<orders, items, clock, cmd, session, order>>

\* __aexit__ rolls back and closes; main.py's handler for the exception replies.
Rollback(s) ==
    /\ pc[s] = "unwinding"
    /\ EndTransaction(s)
    /\ Answer(s, HttpStatus(exc[s]), {})
    /\ exc' = [exc EXCEPT ![s] = NULL]
    /\ UNCHANGED <<database, clock, cmd, session, order>>

\* The client has the reply; the task can serve the next request.
Deliver(s) ==
    /\ pc[s] = "done"
    /\ cmd' = [cmd EXCEPT ![s] = NULL]
    /\ response' = [response EXCEPT ![s] = NULL]
    /\ Goto(s, "idle")
    /\ UNCHANGED <<database, locks, writes, conns, clock, session, order, exc>>

-----------------------------------------------------------------------------
(* The environment: time, and the faults the code must live with.          *)

Tick ==
    /\ clock < MaxClock
    /\ clock' = clock + 1
    /\ UNCHANGED <<database, locks, writes, conns, pc, cmd, session, order, exc, response>>

\* No connection became free within the pool's timeout.
PoolTimeout(s) ==
    /\ Faults
    /\ pc[s] = "begun"
    /\ ~PoolHasRoom
    /\ Raise(s, "TimeoutError")
    /\ UNCHANGED <<database, locks, writes, conns, clock, cmd, response>>

\* A connection attempt, a statement or a COMMIT fails and takes no effect.
\* When it is the first statement, its connection has been taken by then.
StatementFails(s) ==
    /\ Faults
    /\ pc[s] \in {"begun", "adding", "loading", "persisting", "reloading", "flushing",
                  "items_deleted", "flushed"}
    /\ \/ UNCHANGED conns
       \/ pc[s] = "begun" /\ PoolHasRoom /\ conns' = conns \cup {s}
    /\ Raise(s, "DBAPIError")
    /\ UNCHANGED <<database, locks, writes, clock, cmd, response>>

\* The COMMIT took effect and the connection broke before the reply to it.
CommitReplyLost(s) ==
    /\ Faults
    /\ pc[s] = "flushed"
    /\ ApplyWrites(s)
    /\ EndTransaction(s)
    /\ Raise(s, "DBAPIError")
    /\ UNCHANGED <<next_id, clock, cmd, response>>

\* The process dies: PostgreSQL rolls back what was not committed.
Crash ==
    /\ Faults
    /\ order_lock' = [o \in OrderIds |-> NULL]
    /\ item_lock' = [o \in OrderIds |-> NULL]
    /\ staged' = [s \in Slots |-> NULL]
    /\ staged_items' = [s \in Slots |-> NoItems]
    /\ conns' = {}
    /\ pc' = [s \in Slots |-> "idle"]
    /\ cmd' = [s \in Slots |-> NULL]
    /\ model' = [s \in Slots |-> NoRows]
    /\ model_items' = [s \in Slots |-> NoItemRows]
    /\ order' = [s \in Slots |-> NULL]
    /\ exc' = [s \in Slots |-> NULL]
    /\ response' = [s \in Slots |-> NULL]
    /\ UNCHANGED <<database, clock>>

-----------------------------------------------------------------------------
Load(s) == SelectOrders(s) \/ SelectNothing(s) \/ SelectItems(s)

Handle(s) == AnswerQuery(s) \/ HandleUpdate(s) \/ HandleStatus(s)

Reload(s) == GetCached(s) \/ GetAgain(s) \/ GetNothing(s) \/ ReloadItems(s)

Flush(s) == \/ AddOrder(s) \/ AddFails(s) \/ AddItems(s)
            \/ FlushNothing(s) \/ FlushUpdate(s) \/ FlushStale(s)
            \/ FlushDeleteItems(s) \/ FlushDeleteOrder(s)

Finish(s) == Commit(s) \/ Respond(s) \/ Rollback(s) \/ Deliver(s)

\* What a task does on its own once its request is there.
Progress(s) == Load(s) \/ Handle(s) \/ Reload(s) \/ Flush(s) \/ Finish(s)

Fault(s) == PoolTimeout(s) \/ StatementFails(s) \/ CommitReplyLost(s)

Next ==
    \/ \E s \in Slots : Begin(s) \/ Progress(s) \/ Fault(s)
    \/ Tick
    \/ Crash

Spec == Init /\ [][Next]_vars

(* The event loop runs every task that can run.  A task that waits for a   *)
(* connection or a row lock is served in the order of a queue, of the pool *)
(* or of PostgreSQL, so it is not passed over for ever: strong fairness.   *)
(* Nothing is assumed of clients, time and faults.                         *)
Fairness == \A s \in Slots : SF_vars(Progress(s))

FairSpec == Spec /\ Fairness

-----------------------------------------------------------------------------
(* Properties.                                                             *)

Labels == {"idle", "begun", "adding", "loading", "loaded", "persisting", "reloading", "flushing",
           "items_deleted", "flushed", "committed", "unwinding", "done"}

Exceptions == {"NotFoundException", "BusinessRuleViolationException", "ValueError",
               "StaleDataError", "DBAPIError", "TimeoutError"}

ItemList == Baskets \cup {NoItems}

Event == [kind : EventKind, order_id : OrderIds]

Entity == [id : OrderIds, customer_name : Names, shipping_address : Addresses,
           status : OrderStatus, updated_at : 0 .. MaxClock, items : ItemList,
           events : Seq(Event)]

OrderResponseDto == [id : OrderIds, status : OrderStatus, items : ItemList]

Response == [code : {200, 201, 204, 400, 404, 409, 422, 500}, body : SUBSET OrderResponseDto]

\* Every variable holds a value of its type.
TypeOK ==
    /\ orders \in [OrderIds -> Row \cup {NULL}]
    /\ items \in [OrderIds -> ItemList]
    /\ next_id \in 1 .. MaxOrderId + 1
    /\ order_lock \in [OrderIds -> Slots \cup {NULL}]
    /\ item_lock \in [OrderIds -> Slots \cup {NULL}]
    /\ staged \in [Slots -> Row \cup {NULL}]
    /\ staged_items \in [Slots -> ItemList]
    /\ conns \subseteq Slots
    /\ clock \in 1 .. MaxClock
    /\ pc \in [Slots -> Labels]
    /\ cmd \in [Slots -> Requests \cup {NULL}]
    /\ model \in [Slots -> [OrderIds -> Row \cup {NULL}]]
    /\ model_items \in [Slots -> [OrderIds -> ItemList]]
    /\ order \in [Slots -> Entity \cup {NULL}]
    /\ exc \in [Slots -> Exceptions \cup {NULL}]
    /\ response \in [Slots -> Response \cup {NULL}]

(* An order and its items live and die together: whatever statements of    *)
(* concurrent requests, failures and crashes come between, the committed   *)
(* tables hold no order without items and no items without their order.    *)
(* create_order.py and delete_order.py write the two tables one by one.    *)
StoredOrdersHaveItems == \A o \in OrderIds : orders[o] = NULL <=> items[o] = NoItems

(* A request at rest holds nothing of what requests share: whichever way   *)
(* its unit of work was left, its connection is back in the pool and its   *)
(* row locks are released; and the pool never hands out more connections   *)
(* than it has.                                                            *)
NothingHeldAtRest ==
    /\ Cardinality(conns) <= PoolLimit
    /\ \A s \in Slots : pc[s] \in {"idle", "begun", "committed", "done"} =>
          /\ s \notin conns
          /\ \A o \in OrderIds : order_lock[o] # s /\ item_lock[o] # s

\* An order that was there once and is there no more.
Gone(o) == o < next_id /\ orders[o] = NULL /\ order_lock[o] = NULL

(* get_by_id and get_all read an order and its items by two statements, so *)
(* a reply can show an order without items.  It does so only when the      *)
(* order has been deleted meanwhile: of an order that is still stored no   *)
(* reply ever leaves out the items.                                        *)
ItemlessRepliesAreOfDeletedOrders ==
    \A s \in Slots : pc[s] = "done" =>
        \A dto \in response[s].body : dto.items = NoItems => Gone(dto.id)

(* A DELETE that is answered 204 has removed the order for good, also when *)
(* another request deleted the row first and when the row was read while   *)
(* it was being changed.                                                   *)
DeletedOrdersAreGone ==
    \A s \in Slots :
        pc[s] = "done" /\ Op(s) = "delete" /\ response[s].code = 204 => Gone(Id(s))

(* An update or status request that goes on to its answer 200 answers with *)
(* what its transaction has written, and shows the items that are stored   *)
(* with it; if it has written nothing, it answers with what it has read.   *)
(* An order that is deleted while it is read makes it fail instead.        *)
UpdatesAreWrittenOrRefused ==
    \A s \in Slots : pc[s] = "flushed" /\ Op(s) \in {"update", "status"} =>
        IF order_lock[Id(s)] = s
        THEN order[s].items = items[Id(s)] /\ order[s].items # NoItems
        ELSE order[s] = order_model_to_entity(Id(s), model[s][Id(s)], model_items[s][Id(s)])

(* The stored orders live as OrderRegistry says: whole, under ids that are *)
(* never used again, with the items they were created with.  An id that an *)
(* uncommitted INSERT has drawn is still fresh: nobody can see its row.    *)
FreshIds == {o \in OrderIds : o >= next_id \/ (orders[o] = NULL /\ order_lock[o] # NULL)}

Registry == INSTANCE OrderRegistry
    WITH Ids <- OrderIds, fresh <- FreshIds,
         shelf <- [o \in OrderIds |-> IF orders[o] = NULL THEN NoItems ELSE items[o]]

OrdersLiveAndDieWhole == Registry!RSpec

(* Every request that reached its handler is answered: no cycle of waits   *)
(* on the pool and on row locks ever stops one for ever.                   *)
RequestsAnswered == \A s \in Slots : pc[s] = "begun" ~> pc[s] \in {"done", "idle"}

-----------------------------------------------------------------------------
(* What the documentation promises; with requests that overlap each of     *)
(* these has a counterexample.                                             *)

(* The status of a stored order moves along the lifecycle only: "Domain    *)
(* entity enforces valid transitions" (order_routes.py).                   *)
LegalTransitions ==
    [][\A o \in OrderIds :
          orders[o] # NULL /\ orders'[o] # NULL /\ orders'[o].status # orders[o].status
             => <<orders[o].status, orders'[o].status>> \in Lifecycle]_vars

(* The commit of an update request changes no field that its body left     *)
(* out: "Only provided fields are updated" (order_routes.py).              *)
OnlyProvidedFieldsChange ==
    [][\A s \in Slots :
          pc[s] = "flushed" /\ pc'[s] = "committed" /\ Op(s) = "update" =>
             LET before == orders[Id(s)]
                 after  == orders'[Id(s)]
             IN  before # NULL /\ after # NULL =>
                    /\ after.status = before.status
                    /\ cmd[s].customer_name = NULL =>
                          after.customer_name = before.customer_name
                    /\ cmd[s].shipping_address = NULL =>
                          after.shipping_address = before.shipping_address]_vars

(* When the transaction of a confirm or cancel request has committed, the  *)
(* handler's entity still carries the event it recorded: "The entity       *)
(* records events; the handler publishes them after commit" (events.py).   *)
EventsReachCommit ==
    \A s \in Slots :
        pc[s] = "committed" /\ Op(s) = "status" /\ cmd[s].action \in {"confirm", "cancel"}
            => order[s].events # <<>>

(* Every order in the reply to GET /api/orders has its items: "Returns all *)
(* orders with their line items" (order_routes.py).                        *)
ListedOrdersHaveItems ==
    \A s \in Slots : pc[s] = "done" /\ Op(s) = "list" =>
        \A dto \in response[s].body : dto.items # NoItems

=============================================================================
