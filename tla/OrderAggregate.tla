--------------------------- MODULE OrderAggregate ---------------------------
(***************************************************************************)
(* One order from the body of its POST request through its life: the DTO   *)
(* validates, OrderMapper.to_entity builds the aggregate, the repository   *)
(* stores it; later the entity is loaded, its methods are called in any    *)
(* number and order, and it is saved or dropped.  One caller at a time:    *)
(* what overlapping callers do to each other is the subject of             *)
(* OrderService.                                                           *)
(*                                                                         *)
(* The use cases call some of the methods only, and never two of them      *)
(* before a save; the class allows any sequence, and so does this module.  *)
(***************************************************************************)
EXTENDS OrderDtos

CONSTANTS
    Names, Addresses,   \* texts that clients send, good ones and bad ones
    BodyItems,          \* line items that clients send
    MaxBodyItems,       \* bound on the list of a body
    NewItems,           \* arguments of add_item
    MaxItems,           \* bound on the list of the entity in memory
    MaxClock,           \* bound on the clock that datetime.now reads
    MaxInteger          \* the largest value of an Integer column, 2^31 - 1

ASSUME ClientsSendTexts ==
    /\ Names \cup Addresses \subseteq Text
    /\ BodyItems \cup NewItems \subseteq Item
    /\ None \notin Names \cup Addresses

ASSUME BoundsAreNumbers ==
    /\ MaxBodyItems \in Nat /\ MaxItems \in Nat
    /\ MaxClock \in Nat \ {0}
    /\ MaxInteger \in Nat \ {0}

INSTANCE OrderMappers WITH NoItems <- <<>>

\* A row of the table orders; created_at is left out, nothing reads it back.
Row == [customer_name : Text, shipping_address : Text, status : OrderStatus,
        updated_at : NoTime .. MaxClock]

ASSUME NoneIsNoRow == None \notin Row

VARIABLES
    row,         \* the row of the order, None before it is stored
    row_items,   \* its rows of order_items
    order,       \* the entity in memory, None when there is none
    body,        \* the body of the POST request, None before it
    result,      \* how the last call ended
    clock,       \* what datetime.now(timezone.utc) returns
    shown,       \* watched: the last reply made from an order that was stored
    visited,     \* watched: the statuses of the entity since it was loaded
    changed      \* watched: when status or address of the entity, and of the
                 \* row, last changed, and when the row was first updated

vars == <<row, row_items, order, body, result, clock, shown, visited, changed>>
stored == <<row, row_items, body, shown>>

OrderId == 1

Bodies == [customer_name : Names, shipping_address : Addresses,
           items : UNION {[1 .. n -> BodyItems] : n \in 0 .. MaxBodyItems}]

-----------------------------------------------------------------------------
(* Order.add_item and remove_item, which ask nothing of the status.        *)

CanAddItem(item) == item.quantity > 0 /\ item.unit_price >= 0

add_item(o, item) == [o EXCEPT !.items = Append(@, item)]

Positions(o, product_name) == {i \in DOMAIN o.items : o.items[i].product_name = product_name}

\* The first item of that name goes; list.remove finds the same one again,
\* because items are equal only when they have the same id.
remove_item(o, product_name) ==
    LET first == CHOOSE i \in Positions(o, product_name) :
                    \A j \in Positions(o, product_name) : i <= j
    IN  [o EXCEPT !.items = [k \in 1 .. Len(@) - 1 |-> IF k < first THEN @[k] ELSE @[k + 1]]]

\* OrderMapper.to_entity adds the items one by one; the first that add_item
\* refuses ends it.
to_entity_raises(dto) == \E i \in DOMAIN dto.items : ~CanAddItem(dto.items[i])
to_entity(dto) == NewOrder(dto.customer_name, dto.shipping_address, dto.items)

\* What a reply shows of an order: everything but its events.
to_response_dto(o) ==
    [id |-> o.id, customer_name |-> o.customer_name, shipping_address |-> o.shipping_address,
     status |-> o.status, updated_at |-> o.updated_at, items |-> o.items]

\* The column types of models.py, which the database enforces.
FitsColumns(r, list) ==
    /\ r.customer_name.len <= 100
    /\ r.shipping_address.len <= 300
    /\ \A i \in DOMAIN list : list[i].product_name.len <= 200 /\ list[i].quantity <= MaxInteger

-----------------------------------------------------------------------------
NotChanged == [entity |-> NoTime, row |-> NoTime, first |-> NoTime]

Init ==
    /\ row = None
    /\ row_items = <<>>
    /\ order = None
    /\ body = None
    /\ result = "none"
    /\ clock = 1
    /\ shown = None
    /\ visited = <<>>
    /\ changed = NotChanged

\* The body is not accepted: FastAPI answers 422 and no handler runs.
RejectCreate(b) ==
    /\ row = None
    /\ ~AcceptsCreate(b)
    /\ body' = b
    /\ result' = "rejected"
    /\ UNCHANGED <<row, row_items, order, clock, shown, visited, changed>>

\* CreateOrderCommandHandler: to_entity raises, or the INSERT does, or the
\* order is stored and the entity comes back from its rows.
Create(b) ==
    LET dto   == CreateOrderDto(b)
        new   == to_entity(dto)
        model == order_entity_to_model(new)
    IN  /\ row = None
        /\ AcceptsCreate(b)
        /\ body' = b
        /\ IF to_entity_raises(dto) \/ ~FitsColumns(model, new.items)
           THEN /\ result' = IF to_entity_raises(dto) THEN "refused" ELSE "failed"
                /\ UNCHANGED <<row, row_items, order, shown, visited>>
           ELSE /\ result' = "created"
                /\ row' = model
                /\ row_items' = new.items
                /\ order' = mark_created(order_model_to_entity(OrderId, model, new.items))
                /\ shown' = to_response_dto(order')
                /\ visited' = <<"pending">>
        /\ UNCHANGED <<clock, changed>>

\* OrderRepository.get_by_id, in a new session.
Fetch ==
    /\ order = None
    /\ row # None
    /\ order' = order_model_to_entity(OrderId, row, row_items)
    /\ visited' = <<row.status>>
    /\ changed' = [changed EXCEPT !.entity = changed.row]
    /\ result' = "fetched"
    /\ UNCHANGED <<stored, clock>>

\* The handler is left without a save: it replied or it raised.
Drop ==
    /\ order # None
    /\ order' = None
    /\ visited' = <<>>
    /\ result' = "dropped"
    /\ UNCHANGED <<stored, clock, changed>>

-----------------------------------------------------------------------------
\* A method that raises leaves the entity as it is.
Refused == result' = "refused" /\ UNCHANGED <<order, visited, changed>>

\* ChangeOrderStatusCommandHandler's match: confirm, ship, deliver, cancel.
ChangeStatus(action) ==
    /\ order # None
    /\ IF ActionAllowed(action, order)
       THEN /\ order' = ApplyAction(action, order, clock)
            /\ visited' = Append(visited, order'.status)
            /\ changed' = [changed EXCEPT !.entity = clock]
            /\ result' = "done"
       ELSE Refused
    /\ UNCHANGED <<stored, clock>>

\* UpdateOrderCommandHandler assigns the name and calls the method for the
\* address, for what the body gives.
Update(name, address) ==
    LET renamed == IF name = None THEN order ELSE [order EXCEPT !.customer_name = name]
    IN  /\ order # None
        /\ AcceptsUpdate([customer_name |-> name, shipping_address |-> address])
        /\ IF address = None \/ CanUpdateAddress(renamed)
           THEN /\ order' = IF address = None THEN renamed
                            ELSE update_shipping_address(renamed, address, clock)
                /\ changed' = IF address = None THEN changed
                              ELSE [changed EXCEPT !.entity = clock]
                /\ result' = "done"
           ELSE /\ order' = renamed
                /\ result' = "refused"
                /\ UNCHANGED changed
        /\ UNCHANGED <<stored, clock, visited>>

AddItem(item) ==
    /\ order # None
    /\ Len(order.items) < MaxItems
    /\ IF CanAddItem(item)
       THEN order' = add_item(order, item) /\ result' = "done" /\ UNCHANGED <<visited, changed>>
       ELSE Refused
    /\ UNCHANGED <<stored, clock>>

RemoveItem(product_name) ==
    /\ order # None
    /\ IF Positions(order, product_name) # {}
       THEN /\ order' = remove_item(order, product_name)
            /\ result' = "done"
            /\ UNCHANGED <<visited, changed>>
       ELSE Refused
    /\ UNCHANGED <<stored, clock>>

\* HasDomainEvents.clear_domain_events.
ClearEvents ==
    /\ order # None
    /\ order' = [order EXCEPT !.events = <<>>]
    /\ visited' = <<order.status>>
    /\ result' = "done"
    /\ UNCHANGED <<stored, clock, changed>>

\* Faulty variant: update hands back the entity it was given.
SaveGiven ==
    /\ order # None
    /\ row' = Assigned(order, clock)
    /\ shown' = to_response_dto(order)
    /\ UNCHANGED <<order, visited>>
    /\ changed' = [changed EXCEPT !.row = changed.entity,
                                  !.first = IF @ = NoTime THEN clock ELSE @]
    /\ result' = "saved"
    /\ UNCHANGED <<row_items, body, clock>>

\* OrderRepository.update and the commit: four columns are written, no item,
\* and the entity that comes back is made from the row.
Save ==
    /\ order # None
    /\ IF FitsColumns(Assigned(order, clock), <<>>)
       THEN /\ row' = Assigned(order, clock)
            /\ order' = order_model_to_entity(OrderId, row', row_items)
            /\ shown' = to_response_dto(order')
            /\ visited' = <<order.status>>
            /\ changed' = [changed EXCEPT !.row = changed.entity,
                                          !.first = IF @ = NoTime THEN clock ELSE @]
            /\ result' = "saved"
       ELSE /\ order' = None
            /\ visited' = <<>>
            /\ result' = "failed"
            /\ UNCHANGED <<row, shown, changed>>
    /\ UNCHANGED <<row_items, body, clock>>

Tick ==
    /\ clock < MaxClock
    /\ clock' = clock + 1
    /\ UNCHANGED <<stored, order, result, visited, changed>>

Methods ==
    \/ \E action \in OrderStatusAction : ChangeStatus(action)
    \/ \E name \in Names \cup {None}, address \in Addresses \cup {None} : Update(name, address)
    \/ \E item \in NewItems : AddItem(item) \/ RemoveItem(item.product_name)
    \/ ClearEvents

Next ==
    \/ \E b \in Bodies : RejectCreate(b) \/ Create(b)
    \/ Fetch
    \/ Methods
    \/ Save
    \/ Drop
    \/ Tick

Spec == Init /\ [][Next]_vars

-----------------------------------------------------------------------------
(* Properties.                                                             *)

Times == NoTime .. MaxClock

Results == {"none", "rejected", "refused", "failed", "created", "fetched", "done", "saved",
            "dropped"}

Event == [kind : EventKind, order_id : {OrderId}]

Entity == [id : {OrderId}, customer_name : Text, shipping_address : Text,
           status : OrderStatus, updated_at : Times, items : Seq(Item), events : Seq(Event)]

OrderResponseDto == [id : {OrderId}, customer_name : Text, shipping_address : Text,
                     status : OrderStatus, updated_at : Times, items : Seq(Item)]

\* Every variable holds a value of its type.
TypeOK ==
    /\ row \in Row \cup {None}
    /\ row_items \in Seq(Item)
    /\ order \in Entity \cup {None}
    /\ body \in Bodies \cup {None}
    /\ result \in Results
    /\ clock \in 1 .. MaxClock
    /\ shown \in OrderResponseDto \cup {None}
    /\ visited \in Seq(OrderStatus)
    /\ changed \in [entity : Times, row : Times, first : Times]

(* What validation lets through is what the layers behind it can take: an  *)
(* accepted body is never refused by add_item, and the database refuses it *)
(* only for a quantity beyond the 32 bits of its column, which no rule of  *)
(* OrderItemCreateDto excludes.  Renaming and a new address never fail in  *)
(* the database.                                                           *)
AcceptedBodiesAreStored ==
    /\ row = None => result # "refused"
    /\ result = "failed" =>
          row = None /\ \E i \in DOMAIN body.items : body.items[i].quantity > MaxInteger

(* A stored order makes sense whatever was called on its entity: it has    *)
(* items, each of a whole number of named products, even when the entity   *)
(* in memory was emptied after its confirmation; its texts fit; and until  *)
(* an update replaces them, name and address carry no blanks at the ends.  *)
(* Less holds than the DTOs announce: a stored name may have one letter.   *)
StoredOrdersAreSound ==
    row # None =>
        /\ row.customer_name.len \in 1 .. 100
        /\ row.shipping_address.len \in 1 .. 300
        /\ row_items # <<>>
        /\ \A i \in DOMAIN row_items :
              /\ row_items[i].quantity \in 1 .. MaxInteger
              /\ row_items[i].product_name.core = row_items[i].product_name.len
              /\ row_items[i].product_name.len \in 1 .. 200
        /\ changed.first = NoTime =>
              /\ row.customer_name.core = row.customer_name.len
              /\ row.shipping_address.core = row.shipping_address.len

(* What a reply has shown is what the next request finds: whatever was done*)
(* to entities in memory in between and dropped, and although an item added*)
(* or removed in memory is never written, a load after a create or a save  *)
(* brings back the order as its reply showed it.                           *)
SavesShowWhatIsStored ==
    result = "fetched" => to_response_dto(order) = shown

\* The event that is recorded on arrival at a status, where there is one.
EventOf == [confirmed |-> "OrderConfirmed", cancelled |-> "OrderCancelled"]

\* Each status follows from the one before.
FollowsLifecycle(statuses) ==
    \A k \in 1 .. Len(statuses) - 1 : <<statuses[k], statuses[k + 1]>> \in Lifecycle

\* An event recorded on arrival at the k-th status.
RecordedAt(event, k, statuses) ==
    IF k = 1 THEN event.kind = "OrderCreated"
    ELSE statuses[k] \in DOMAIN EventOf /\ event.kind = EventOf[statuses[k]]

\* Each event has a status it was recorded on arrival at, in the order of the
\* events, and each status on whose arrival one is due has its event.
Tells(events, statuses) ==
    \E at \in [DOMAIN events -> DOMAIN statuses] :
        /\ \A i \in DOMAIN at : RecordedAt(events[i], at[i], statuses)
        /\ \A i, j \in DOMAIN at : i < j => at[i] < at[j]
        /\ \A k \in 2 .. Len(statuses) :
              statuses[k] \in DOMAIN EventOf => \E i \in DOMAIN at : at[i] = k

(* The events of an entity tell its history since it was loaded or cleared *)
(* exactly: each was recorded when it became confirmed or cancelled (or was*)
(* created), in order, none is missing, and a call that raised left none;  *)
(* and this history follows the lifecycle.                                 *)
EventsTellTheHistory ==
    order # None =>
        /\ visited # <<>> /\ visited[Len(visited)] = order.status
        /\ FollowsLifecycle(visited)
        /\ Tells(order.events, visited)

(* updated_at is the time of the last change of status or address and not  *)
(* of the last update: one that only renames keeps the older time, unless  *)
(* nothing has changed before, when it is the time of the first update.    *)
UpdatedAtIsOfTheLastChange ==
    row # None => row.updated_at = IF changed.row # NoTime THEN changed.row ELSE changed.first

=============================================================================
