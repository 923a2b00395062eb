------------------------------ MODULE OrderApi ------------------------------
(***************************************************************************)
(* The order service as its documentation describes it: every request is   *)
(* one atomic step on the stored orders, and the domain entity lets only   *)
(* the transitions of the order lifecycle through.  The one exception to   *)
(* it is named: an order that has been changed since a request read it may *)
(* be overwritten by that request.                                         *)
(***************************************************************************)
EXTENDS OrderEntity

CONSTANTS Ids, Names, Addresses, Baskets, MaxClock, NULL

VARIABLES fresh,    \* the ids that no order has had
          orders,   \* the stored orders by id
          items,    \* their items
          stale     \* the orders that a request is about to overwrite

avars == <<fresh, orders, items>>

AInit ==
    /\ fresh = Ids
    /\ orders = [i \in Ids |-> NULL]
    /\ items = [i \in Ids |-> NoItems]

Stored(i) == orders[i] # NULL

CreateOrder(i) ==
    /\ i \in fresh
    /\ fresh' = fresh \ {i}
    /\ \E name \in Names, address \in Addresses, basket \in Baskets :
          /\ orders' = [orders EXCEPT ![i] =
                 [customer_name |-> name, shipping_address |-> address,
                  status |-> "pending", updated_at |-> NoTime]]
          /\ items' = [items EXCEPT ![i] = basket]

\* The name can always be changed, the address only before shipping.
UpdateOrder(i) ==
    /\ Stored(i)
    /\ \E name \in Names, address \in Addresses, t \in orders[i].updated_at .. MaxClock :
          /\ \/ address = orders[i].shipping_address
             \/ orders[i].status \notin {"shipped", "delivered"}
          /\ orders' = [orders EXCEPT ![i].customer_name = name,
                                      ![i].shipping_address = address,
                                      ![i].updated_at = t]
    /\ UNCHANGED <<fresh, items>>

ChangeOrderStatus(i) ==
    /\ Stored(i)
    /\ \E to \in OrderStatus, t \in orders[i].updated_at .. MaxClock :
          /\ <<orders[i].status, to>> \in Lifecycle
          /\ orders' = [orders EXCEPT ![i].status = to, ![i].updated_at = t]
    /\ UNCHANGED <<fresh, items>>

DeleteOrder(i) ==
    /\ Stored(i)
    /\ orders' = [orders EXCEPT ![i] = NULL]
    /\ items' = [items EXCEPT ![i] = NoItems]
    /\ UNCHANGED fresh

\* Whatever was stored, but the order stays, and so do its items.
Overwrite(i) ==
    /\ i \in stale
    /\ Stored(i)
    /\ \E row \in [customer_name : Names, shipping_address : Addresses,
                   status : OrderStatus, updated_at : 0 .. MaxClock] :
          orders' = [orders EXCEPT ![i] = row]
    /\ UNCHANGED <<fresh, items>>

\* Creations that fail after they drew their ids, one by one or in a crash.
LoseIds(lost) ==
    /\ lost \subseteq fresh
    /\ fresh' = fresh \ lost
    /\ UNCHANGED <<orders, items>>

ANext ==
    \/ \E i \in Ids : \/ CreateOrder(i) \/ UpdateOrder(i) \/ ChangeOrderStatus(i)
                      \/ DeleteOrder(i) \/ Overwrite(i)
    \/ \E lost \in SUBSET Ids : LoseIds(lost)

ASpec == AInit /\ [][ANext]_avars

=============================================================================
