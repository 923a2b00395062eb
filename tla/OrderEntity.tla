---------------------------- MODULE OrderEntity ----------------------------
(***************************************************************************)
(* The aggregate root, src/domain/entities/order.py, as operators on a     *)
(* value: an order is a record, a method that mutates it is an operator    *)
(* that returns the mutated record, and the condition under which a method *)
(* raises BusinessRuleViolationException is the negation of a Can operator.*)
(*                                                                         *)
(* The line items of a stored order are never edited through the API, only *)
(* written once and deleted together, so a list of items is one value of   *)
(* Baskets (a constant of the modules that use this one) or NoItems, the   *)
(* empty list.  A timestamp is a natural number and NoTime stands for None.*)
(***************************************************************************)
EXTENDS Naturals, Sequences

CONSTANT NoItems    \* the empty list of items

NoId == 0
NoTime == 0

OrderStatus == {"pending", "confirmed", "shipped", "delivered", "cancelled"}
OrderStatusAction == {"confirm", "ship", "deliver", "cancel"}
EventKind == {"OrderCreated", "OrderConfirmed", "OrderCancelled"}

-----------------------------------------------------------------------------
\* Order.__init__ with the items added by OrderMapper.to_entity.
NewOrder(name, address, basket) ==
    [id |-> NoId, customer_name |-> name, shipping_address |-> address,
     status |-> "pending", updated_at |-> NoTime, items |-> basket,
     events |-> <<>>]

add_domain_event(order, kind) ==
    [order EXCEPT !.events = Append(@, [kind |-> kind, order_id |-> order.id])]

mark_created(order) == add_domain_event(order, "OrderCreated")

-----------------------------------------------------------------------------
(* The guards of the methods.  A Weak guard is a faulty variant of the one *)
(* that follows it: it forgets one of the statuses.                        *)

CanConfirm(order) == order.status = "pending" /\ order.items # NoItems

WeakCanShip(order) == order.status \in {"pending", "confirmed"}
CanShip(order) == order.status = "confirmed"

CanDeliver(order) == order.status = "shipped"

WeakCanCancel(order) == order.status \notin {"delivered", "cancelled"}
CanCancel(order) == order.status \notin {"shipped", "delivered", "cancelled"}

WeakCanUpdateAddress(order) == order.status # "delivered"
CanUpdateAddress(order) == order.status \notin {"shipped", "delivered"}

-----------------------------------------------------------------------------
\* The effects of the methods once their guard holds, at the time `now'.
Touch(order, now) == [order EXCEPT !.updated_at = now]

confirm(order, now) ==
    add_domain_event(Touch([order EXCEPT !.status = "confirmed"], now), "OrderConfirmed")

ship(order, now) == Touch([order EXCEPT !.status = "shipped"], now)

deliver(order, now) == Touch([order EXCEPT !.status = "delivered"], now)

cancel(order, now) ==
    add_domain_event(Touch([order EXCEPT !.status = "cancelled"], now), "OrderCancelled")

update_shipping_address(order, address, now) ==
    Touch([order EXCEPT !.shipping_address = address], now)

-----------------------------------------------------------------------------
(* The match statement of ChangeOrderStatusCommandHandler.handle, as the   *)
(* condition under which the chosen method returns and as its effect.      *)
ActionAllowed(action, order) ==
    \/ action = "confirm" /\ CanConfirm(order)
    \/ action = "ship"    /\ CanShip(order)
    \/ action = "deliver" /\ CanDeliver(order)
    \/ action = "cancel"  /\ CanCancel(order)

ApplyAction(action, order, now) ==
    CASE action = "confirm" -> confirm(order, now)
      [] action = "ship"    -> ship(order, now)
      [] action = "deliver" -> deliver(order, now)
      [] action = "cancel"  -> cancel(order, now)

-----------------------------------------------------------------------------
(* The lifecycle the guards are meant to keep an order in, for the         *)
(* specifications and properties that speak of it.                         *)
Lifecycle == {<<"pending", "confirmed">>, <<"confirmed", "shipped">>,
              <<"shipped", "delivered">>,
              <<"pending", "cancelled">>, <<"confirmed", "cancelled">>}

=============================================================================
