----------------------- MODULE OrderServiceInvariant -----------------------
(***************************************************************************)
(* The inductive invariant of OrderService: what has to be known of a task *)
(* at each point of its handler, of the rows it holds and of the rows it   *)
(* has seen, for the safety properties to follow.                          *)
(***************************************************************************)
EXTENDS OrderService

Writing == {"create", "update", "status", "delete"}
Changing == {"update", "status"}

(* Where a handler is tells which request it serves and what it has in     *)
(* hand: a row once get_by_id has found one, an entity until it replies.   *)
ControlOf(s) ==
    /\ pc[s] # "idle" => cmd[s] \in Requests
    /\ pc[s] \in {"loading", "loaded"} => Op(s) # "create"
    /\ pc[s] \in {"persisting", "reloading", "flushing"} => Op(s) \in Changing \cup {"delete"}
    /\ pc[s] = "adding" => Op(s) = "create" /\ staged[s] # NULL
    /\ pc[s] = "items_deleted" => Op(s) = "delete"
    /\ pc[s] \in {"flushed", "committed"} => Op(s) \in Writing
    /\ pc[s] \in {"loading", "loaded"} /\ Op(s) # "list" => model[s][Id(s)] # NULL
    /\ pc[s] \in {"persisting", "reloading", "flushing"} => model[s][Id(s)] # NULL
    /\ pc[s] \in {"loaded", "persisting", "reloading", "flushing"} /\ Op(s) \in Changing =>
          order[s] \in Entity
    /\ pc[s] \in {"flushed", "committed"} /\ Op(s) # "delete" => order[s] \in Entity

Control == \A s \in Slots : ControlOf(s)

(* A version of a row is staged only from the flush to the end of the      *)
(* transaction, and a delete stages the absence of the row.                *)
Staging ==
    \A s \in Slots :
        pc[s] \notin {"adding", "flushed", "unwinding"} \/ Op(s) = "delete" =>
            staged[s] = NULL /\ staged_items[s] = NoItems

\* What a transaction that holds an order row is about to do to it.
OrderLockOf(o, s) ==
    order_lock[o] = s =>
        /\ pc[s] \in {"adding", "flushed", "unwinding"}
        /\ Op(s) \in Writing
        /\ Op(s) = "create" => orders[o] = NULL /\ staged[s] # NULL
        /\ Op(s) = "create" /\ pc[s] = "flushed" =>
              item_lock[o] = s /\ staged_items[s] # NoItems
        /\ pc[s] = "adding" => \A p \in OrderIds : order_lock[p] = s => p = o
        /\ Op(s) \in Changing => orders[o] # NULL /\ staged[s] # NULL
        /\ Op(s) = "delete" => orders[o] # NULL /\ item_lock[o] = s

\* What a transaction that holds the items of an order is about to do to them.
ItemLockOf(o, s) ==
    item_lock[o] = s =>
        /\ pc[s] \in {"items_deleted", "flushed", "unwinding"}
        /\ Op(s) \in {"create", "delete"}
        /\ Op(s) = "create" => order_lock[o] = s
        /\ Op(s) = "delete" =>
              /\ o = Id(s)
              /\ orders[o] # NULL
              /\ pc[s] = "flushed" => order_lock[o] = s

RowLocks == \A o \in OrderIds : \A s \in Slots : OrderLockOf(o, s) /\ ItemLockOf(o, s)

\* Nothing is known of an id that the sequence has not drawn yet.
UnusedIds ==
    \A o \in OrderIds : o >= next_id =>
        orders[o] = NULL /\ order_lock[o] = NULL /\ item_lock[o] = NULL

(* A row that a session has read is still stored or gone for good, and it  *)
(* is gone if its items were not found, or are found missing by a delete.  *)
SeenOf(s) ==
    /\ \A o \in OrderIds : model[s][o] # NULL => orders[o] # NULL \/ Gone(o)
    /\ /\ pc[s] \in {"loaded", "persisting", "flushing"}
       /\ Op(s) # "list"
       /\ model_items[s][Id(s)] = NoItems
       => Gone(Id(s))
    /\ pc[s] = "items_deleted" /\ item_lock[Id(s)] # s => Gone(Id(s))

RowsSeen == \A s \in Slots : SeenOf(s)

\* Connections are out only with the tasks that are inside their transaction.
AtRest(s) == pc[s] \in {"idle", "begun", "committed", "done"}

PoolUse ==
    /\ IsFiniteSet(conns)
    /\ Cardinality(conns) <= PoolLimit
    /\ \A s \in conns : ~AtRest(s)

(* The conjunction that every step of the service preserves.               *)
ServiceInvariant ==
    /\ TypeOK
    /\ Control
    /\ Staging
    /\ RowLocks
    /\ UnusedIds
    /\ RowsSeen
    /\ PoolUse
    /\ StoredOrdersHaveItems

-----------------------------------------------------------------------------
(* What replies are made of.  A list of items is true to an order that is  *)
(* stored with just these items; of an order that is gone any list is.     *)
TrueTo(o, basket) == Gone(o) \/ (orders[o] # NULL /\ items[o] = basket)

\* A task has no rows in its session before its first statement and once the
\* unit of work is left with an exception or with the reply.
EmptySessionOf(s) ==
    pc[s] \in {"idle", "begun", "unwinding", "done"} => model[s] = NoRows

\* The items in a session are true, and so are those of the entity that an
\* update returns; a create returns the items of its request.
ItemsTrueOf(s) ==
    /\ pc[s] \in {"loaded", "persisting", "reloading", "flushing"} =>
          \A o \in OrderIds : model[s][o] # NULL => TrueTo(o, model_items[s][o])
    /\ pc[s] \in {"flushed", "committed"} /\ Op(s) \in Changing =>
          order[s].id = Id(s) /\ TrueTo(Id(s), order[s].items)
    /\ pc[s] \in {"flushed", "committed"} /\ Op(s) = "create" => order[s].items # NoItems
    /\ pc[s] = "flushed" /\ Op(s) \in Changing /\ order_lock[Id(s)] # s =>
          order[s] = order_model_to_entity(Id(s), model[s][Id(s)], model_items[s][Id(s)])
    /\ pc[s] = "done" =>
          \A dto \in response[s].body : dto.items = NoItems => dto.id \in OrderIds /\ Gone(dto.id)

\* A delete that goes on to its reply holds the row or has nothing to delete.
DeletionOf(s) ==
    pc[s] # "idle" /\ Op(s) = "delete" =>
        /\ pc[s] = "flushed" => order_lock[Id(s)] = s \/ Gone(Id(s))
        /\ pc[s] = "committed" => Gone(Id(s))
        /\ pc[s] = "done" /\ response[s].code = 204 => Gone(Id(s))

RepliesOf(s) == EmptySessionOf(s) /\ ItemsTrueOf(s) /\ DeletionOf(s)

(* What has to be known besides ServiceInvariant for the replies to be     *)
(* right when they are sent.                                               *)
Replies == \A s \in Slots : RepliesOf(s)

(* A transaction writes one order at a time: it holds the row of one order *)
(* at most, so that its commit is one step in the life of one order.       *)
OneRowEach ==
    \A o, p \in OrderIds :
        order_lock[o] # NULL /\ order_lock[o] = order_lock[p] => o = p

=============================================================================
