---------------------------- MODULE OrderMappers ----------------------------
(***************************************************************************)
(* What lies between an entity and the rows it is stored in: the mappers   *)
(* of src/infrastructure/repositories/mappers.py and the assignments of    *)
(* OrderRepository.update.  A row of the table orders is a record without  *)
(* its id; the rows of order_items that belong to it are one list.         *)
(***************************************************************************)
EXTENDS OrderEntity

\* Faulty variant: the entity is made without its id.
EntityWithoutId(id, row, basket) ==
    [id |-> NoId, customer_name |-> row.customer_name,
     shipping_address |-> row.shipping_address, status |-> row.status,
     updated_at |-> row.updated_at, items |-> basket, events |-> <<>>]

\* order_model_to_entity: a fresh entity, so without recorded events.
order_model_to_entity(id, row, basket) ==
    [id |-> id, customer_name |-> row.customer_name,
     shipping_address |-> row.shipping_address, status |-> row.status,
     updated_at |-> row.updated_at, items |-> basket, events |-> <<>>]

\* order_entity_to_model: the id and both timestamps are left to the database.
order_entity_to_model(o) ==
    [customer_name |-> o.customer_name, shipping_address |-> o.shipping_address,
     status |-> o.status, updated_at |-> NoTime]

\* Faulty variant: every update moves updated_at.
AssignedNow(o, now) ==
    [customer_name |-> o.customer_name, shipping_address |-> o.shipping_address,
     status |-> o.status, updated_at |-> now]

\* The four assignments of OrderRepository.update.
Assigned(o, now) ==
    [customer_name |-> o.customer_name, shipping_address |-> o.shipping_address,
     status |-> o.status,
     updated_at |-> IF o.updated_at = NoTime THEN now ELSE o.updated_at]

=============================================================================
