------------------------ MODULE OrderAggregateProofs ------------------------
(***************************************************************************)
(* Proof that AggregateInvariant is an invariant of OrderAggregate, and of *)
(* the properties in it: for all texts, numbers and lengths of lists, and  *)
(* for any sequence of calls, saves and reloads.                           *)
(***************************************************************************)
EXTENDS OrderAggregateInvariant, SequenceTheorems, TLAPS

(* What the validators leave of an item is an item, named without blanks.  *)
LEMMA StrippedItem ==
    ASSUME NEW item \in Item, AcceptsItem(item)
    PROVE  LET kept == [item EXCEPT !.product_name = strip(@)]
           IN  /\ kept \in Item
               /\ kept.quantity = item.quantity /\ kept.unit_price = item.unit_price
               /\ kept.product_name.core = kept.product_name.len
               /\ kept.product_name.len \in 1 .. 200
               /\ CanAddItem(kept)
  <1>1. item.product_name \in Text /\ item.quantity \in Int /\ item.unit_price \in Int
    BY DEF Item
  <1>2. /\ strip(item.product_name) \in Text
        /\ strip(item.product_name).core = strip(item.product_name).len
        /\ strip(item.product_name).len \in 1 .. 200
    BY <1>1 DEF AcceptsItem, Between, not_whitespace, Text, strip
  <1>. DEFINE kept == [item EXCEPT !.product_name = strip(@)]
  <1>3. kept = [product_name |-> strip(item.product_name), quantity |-> item.quantity,
                unit_price |-> item.unit_price]
    BY DEF Item
  <1>. HIDE DEF kept
  <1>4. /\ kept.product_name = strip(item.product_name)
        /\ kept.quantity = item.quantity /\ kept.unit_price = item.unit_price
    BY <1>3
  <1>5. kept \in Item
    BY <1>1, <1>2, <1>3 DEF Item
  <1>6. CanAddItem(kept)
    BY <1>4 DEF AcceptsItem, CanAddItem
  <1>. QED
    BY <1>2, <1>4, <1>5, <1>6 DEF kept

(* A body is a record of texts and of a list of items.                     *)
LEMMA BodyTypes ==
    ASSUME NEW b \in Bodies
    PROVE  /\ b.customer_name \in Text /\ b.shipping_address \in Text
           /\ b.items \in Seq(Item)
           /\ DOMAIN b.items = 1 .. Len(b.items)
  <1>1. /\ b.customer_name \in Names /\ b.shipping_address \in Addresses
        /\ b.items \in UNION {[1 .. n -> BodyItems] : n \in 0 .. MaxBodyItems}
    BY DEF Bodies
  <1>2. PICK n \in 0 .. MaxBodyItems : b.items \in [1 .. n -> BodyItems]
    BY <1>1
  <1>3. n \in Nat
    BY BoundsAreNumbers
  <1>4. b.items \in [1 .. n -> Item]
    BY <1>2, ClientsSendTexts
  <1>5. b.items \in Seq(Item)
    BY <1>3, <1>4
  <1>. QED
    BY <1>1, <1>5, ClientsSendTexts

(* The DTO of an accepted body: texts without blanks that fit their        *)
(* columns, and items that add_item takes, in number and quantity those of *)
(* the body.                                                               *)
LEMMA AcceptedBody ==
    ASSUME NEW b \in Bodies, AcceptsCreate(b)
    PROVE  LET dto == CreateOrderDto(b)
           IN  /\ dto.customer_name \in Text /\ dto.shipping_address \in Text
               /\ dto.customer_name.len \in 1 .. 100
               /\ dto.shipping_address.len \in 1 .. 300
               /\ dto.customer_name.core = dto.customer_name.len
               /\ dto.shipping_address.core = dto.shipping_address.len
               /\ dto.items \in Seq(Item) /\ dto.items # <<>>
               /\ DOMAIN dto.items = DOMAIN b.items
               /\ \A i \in DOMAIN dto.items :
                     /\ dto.items[i].quantity = b.items[i].quantity
                     /\ dto.items[i].product_name.core = dto.items[i].product_name.len
                     /\ dto.items[i].product_name.len \in 1 .. 200
                     /\ CanAddItem(dto.items[i])
  <1>. DEFINE dto == CreateOrderDto(b)
              kept(item) == [item EXCEPT !.product_name = strip(@)]
  <1>1. /\ dto.customer_name = strip(b.customer_name)
        /\ dto.shipping_address = strip(b.shipping_address)
        /\ dto.items = [i \in DOMAIN b.items |-> kept(b.items[i])]
    BY DEF CreateOrderDto
  <1>2. \A v \in Text : strip(v) \in Text /\ strip(v).len = v.core /\ strip(v).core = v.core
    BY DEF Text, strip
  <1>. DEFINE name == b.customer_name
              address == b.shipping_address
  <1>3. name.core \in 1 .. 100 /\ address.core \in 1 .. 300
    <2>1. /\ name.len \in 2 .. 100 /\ name.core > 0
          /\ address.len \in 5 .. 300 /\ address.core > 0
      BY DEF AcceptsCreate, Between, not_whitespace
    <2>2. name \in Text /\ address \in Text
      BY BodyTypes
    <2>. HIDE DEF name, address
    <2>. QED
      BY <2>1, <2>2 DEF Text
  <1>4. \A i \in DOMAIN b.items : b.items[i] \in Item /\ AcceptsItem(b.items[i])
    BY BodyTypes DEF AcceptsCreate
  <1>5. \A i \in DOMAIN b.items :
            /\ kept(b.items[i]) \in Item
            /\ kept(b.items[i]).quantity = b.items[i].quantity
            /\ kept(b.items[i]).product_name.core = kept(b.items[i]).product_name.len
            /\ kept(b.items[i]).product_name.len \in 1 .. 200
            /\ CanAddItem(kept(b.items[i]))
    BY <1>4, StrippedItem
  <1>6. Len(b.items) \in Nat /\ Len(b.items) >= 1 /\ DOMAIN b.items = 1 .. Len(b.items)
    BY BodyTypes DEF AcceptsCreate
  <1>. HIDE DEF kept
  <1>7. /\ DOMAIN dto.items = DOMAIN b.items
        /\ \A i \in DOMAIN b.items : dto.items[i] = kept(b.items[i])
    BY <1>1
  <1>. HIDE DEF dto
  <1>8. dto.items \in [1 .. Len(b.items) -> Item]
    BY <1>1, <1>5, <1>6, <1>7
  <1>9. dto.items \in Seq(Item) /\ dto.items # <<>>
    BY <1>6, <1>8
  <1>10. \A i \in DOMAIN dto.items :
            /\ dto.items[i].quantity = b.items[i].quantity
            /\ dto.items[i].product_name.core = dto.items[i].product_name.len
            /\ dto.items[i].product_name.len \in 1 .. 200
            /\ CanAddItem(dto.items[i])
    BY <1>5, <1>7
  <1>11. /\ dto.customer_name \in Text /\ dto.shipping_address \in Text
         /\ dto.customer_name.len \in 1 .. 100
         /\ dto.shipping_address.len \in 1 .. 300
         /\ dto.customer_name.core = dto.customer_name.len
         /\ dto.shipping_address.core = dto.shipping_address.len
    <2>1. name \in Text /\ address \in Text
      BY BodyTypes
    <2>. HIDE DEF name, address
    <2>2. dto.customer_name = strip(name) /\ dto.shipping_address = strip(address)
      BY <1>1 DEF name, address
    <2>. QED
      BY <1>2, <1>3, <2>1, <2>2
  <1>. QED
    BY <1>7, <1>9, <1>10, <1>11 DEF dto

-----------------------------------------------------------------------------
(* An entity made from a row shows the row, and has no events.             *)
LEMMA EntityOfRow ==
    ASSUME NEW r \in Row, NEW list \in Seq(Item)
    PROVE  LET o == order_model_to_entity(OrderId, r, list)
           IN  /\ o \in Entity
               /\ o.customer_name = r.customer_name
               /\ o.shipping_address = r.shipping_address
               /\ o.status = r.status /\ o.updated_at = r.updated_at
               /\ o.items = list /\ o.events = <<>>
  <1>1. /\ r.customer_name \in Text /\ r.shipping_address \in Text
        /\ r.status \in OrderStatus /\ r.updated_at \in Times
    BY DEF Row, Times
  <1>2. <<>> \in Seq(Event)
    OBVIOUS
  <1>. QED
    BY <1>1, <1>2 DEF order_model_to_entity, Entity, OrderId

(* The fields of an entity.                                                *)
LEMMA EntityFields ==
    ASSUME NEW o \in Entity
    PROVE  /\ o.id = OrderId
           /\ o.customer_name \in Text /\ o.shipping_address \in Text
           /\ o.status \in OrderStatus /\ o.updated_at \in Times
           /\ o.items \in Seq(Item) /\ o.events \in Seq(Event)
  BY DEF Entity

(* to_response_dto makes a reply of an entity.                             *)
LEMMA ReplyOfEntity ==
    ASSUME NEW o \in Entity
    PROVE  to_response_dto(o) \in OrderResponseDto
  BY EntityFields DEF to_response_dto, OrderResponseDto

(* add_domain_event adds an event of the order and nothing else.           *)
LEMMA EventAdded ==
    ASSUME NEW o \in Entity, NEW kind \in EventKind
    PROVE  /\ add_domain_event(o, kind) \in Entity
           /\ add_domain_event(o, kind).customer_name = o.customer_name
           /\ add_domain_event(o, kind).shipping_address = o.shipping_address
           /\ add_domain_event(o, kind).status = o.status
           /\ add_domain_event(o, kind).updated_at = o.updated_at
           /\ add_domain_event(o, kind).items = o.items
           /\ \E event : /\ add_domain_event(o, kind).events = Append(o.events, event)
                         /\ event.kind = kind
           /\ to_response_dto(add_domain_event(o, kind)) = to_response_dto(o)
  <1>. DEFINE event == [kind |-> kind, order_id |-> o.id]
              told  == Append(o.events, event)
              n     == [o EXCEPT !.events = told]
  <1>1. event \in Event
    BY EntityFields DEF Event
  <1>. HIDE DEF event
  <1>2. told \in Seq(Event)
    BY <1>1, EntityFields
  <1>. HIDE DEF told
  <1>3. /\ n \in Entity
        /\ n.id = o.id /\ n.customer_name = o.customer_name
        /\ n.shipping_address = o.shipping_address /\ n.status = o.status
        /\ n.updated_at = o.updated_at /\ n.items = o.items /\ n.events = told
    BY <1>2 DEF Entity
  <1>. HIDE DEF n
  <1>4. to_response_dto(n) = to_response_dto(o)
    BY <1>3 DEF to_response_dto
  <1>5. add_domain_event(o, kind) = n
    BY DEF add_domain_event, n, told, event
  <1>6. told = Append(o.events, event) /\ event.kind = kind
    BY DEF told, event
  <1>. QED
    BY <1>3, <1>4, <1>5, <1>6

(* A status method that returns moves the status along the lifecycle, sets *)
(* the timestamp, leaves the texts alone and records the event of the new  *)
(* status, if it has one.                                                  *)
LEMMA MethodApplied ==
    ASSUME NEW o \in Entity, NEW action \in OrderStatusAction, NEW now \in Times,
           ActionAllowed(action, o)
    PROVE  LET applied == ApplyAction(action, o, now)
           IN  /\ applied \in Entity
               /\ applied.customer_name = o.customer_name
               /\ applied.shipping_address = o.shipping_address
               /\ applied.updated_at = now
               /\ <<o.status, applied.status>> \in Lifecycle
               /\ \/ applied.status \notin DOMAIN EventOf /\ applied.events = o.events
                  \/ /\ applied.status \in DOMAIN EventOf
                     /\ \E event : /\ applied.events = Append(o.events, event)
                                   /\ event.kind = EventOf[applied.status]
  <1>. DEFINE Moved(status) == Touch([o EXCEPT !.status = status], now)
  <1>1. \A status \in OrderStatus :
            /\ Moved(status) \in Entity
            /\ Moved(status).customer_name = o.customer_name
            /\ Moved(status).shipping_address = o.shipping_address
            /\ Moved(status).updated_at = now
            /\ Moved(status).status = status
            /\ Moved(status).events = o.events
    BY DEF Touch, Entity
  <1>2. /\ confirm(o, now) = add_domain_event(Moved("confirmed"), "OrderConfirmed")
        /\ ship(o, now) = Moved("shipped")
        /\ deliver(o, now) = Moved("delivered")
        /\ cancel(o, now) = add_domain_event(Moved("cancelled"), "OrderCancelled")
    BY DEF confirm, ship, deliver, cancel
  <1>. HIDE DEF Moved
  <1>3. \A status \in OrderStatus, kind \in EventKind :
            /\ add_domain_event(Moved(status), kind) \in Entity
            /\ add_domain_event(Moved(status), kind).customer_name = o.customer_name
            /\ add_domain_event(Moved(status), kind).shipping_address = o.shipping_address
            /\ add_domain_event(Moved(status), kind).updated_at = now
            /\ add_domain_event(Moved(status), kind).status = status
            /\ \E event : /\ add_domain_event(Moved(status), kind).events =
                                Append(o.events, event)
                          /\ event.kind = kind
    BY <1>1, EventAdded, SMTT(30)
  <1>4. /\ "OrderConfirmed" \in EventKind /\ "OrderCancelled" \in EventKind
        /\ {"confirmed", "shipped", "delivered", "cancelled"} \subseteq OrderStatus
        /\ DOMAIN EventOf = {"confirmed", "cancelled"}
        /\ EventOf["confirmed"] = "OrderConfirmed" /\ EventOf["cancelled"] = "OrderCancelled"
    BY DEF EventKind, OrderStatus, EventOf
  <1>5. CASE action = "confirm"
    <2>1. ApplyAction(action, o, now) = add_domain_event(Moved("confirmed"), "OrderConfirmed")
      BY <1>2, <1>5 DEF ApplyAction
    <2>2. o.status = "pending"
      BY <1>5 DEF ActionAllowed, CanConfirm
    <2>3. <<"pending", "confirmed">> \in Lifecycle
      BY DEF Lifecycle
    <2>. DEFINE n == add_domain_event(Moved("confirmed"), "OrderConfirmed")
    <2>4. /\ n \in Entity
          /\ n.customer_name = o.customer_name
          /\ n.shipping_address = o.shipping_address
          /\ n.updated_at = now /\ n.status = "confirmed"
          /\ \E event : n.events = Append(o.events, event) /\ event.kind = "OrderConfirmed"
      BY <1>3, <1>4
    <2>. HIDE DEF n
    <2>. QED
      BY <1>4, <2>1, <2>2, <2>3, <2>4 DEF n
  <1>6. CASE action = "ship"
    <2>1. ApplyAction(action, o, now) = Moved("shipped")
      BY <1>2, <1>6 DEF ApplyAction
    <2>2. o.status = "confirmed"
      BY <1>6 DEF ActionAllowed, CanShip
    <2>. QED
      BY <1>1, <1>4, <2>1, <2>2 DEF Lifecycle
  <1>7. CASE action = "deliver"
    <2>1. ApplyAction(action, o, now) = Moved("delivered")
      BY <1>2, <1>7 DEF ApplyAction
    <2>2. o.status = "shipped"
      BY <1>7 DEF ActionAllowed, CanDeliver
    <2>. QED
      BY <1>1, <1>4, <2>1, <2>2 DEF Lifecycle
  <1>8. CASE action = "cancel"
    <2>1. ApplyAction(action, o, now) = add_domain_event(Moved("cancelled"), "OrderCancelled")
      BY <1>2, <1>8 DEF ApplyAction
    <2>2. o.status \in {"pending", "confirmed"}
      BY <1>8, EntityFields DEF ActionAllowed, CanCancel, OrderStatus
    <2>. QED
      BY <1>3, <1>4, <2>1, <2>2, SMTT(30) DEF Lifecycle
  <1>. QED
    BY <1>5, <1>6, <1>7, <1>8 DEF OrderStatusAction

(* remove_item leaves a list of items, one shorter.                        *)
LEMMA ItemRemoved ==
    ASSUME NEW o \in Entity, NEW product_name, Positions(o, product_name) # {}
    PROVE  /\ remove_item(o, product_name) \in Entity
           /\ remove_item(o, product_name).customer_name = o.customer_name
           /\ remove_item(o, product_name).shipping_address = o.shipping_address
           /\ remove_item(o, product_name).updated_at = o.updated_at
           /\ remove_item(o, product_name).status = o.status
           /\ remove_item(o, product_name).events = o.events
  <1>. DEFINE first == CHOOSE i \in Positions(o, product_name) :
                          \A j \in Positions(o, product_name) : i <= j
              list  == [k \in 1 .. Len(o.items) - 1 |->
                           IF k < first THEN o.items[k] ELSE o.items[k + 1]]
              n     == [o EXCEPT !.items = list]
  <1>1. remove_item(o, product_name) = n
    BY DEF remove_item
  <1>2. o.items \in Seq(Item) /\ Len(o.items) \in Nat /\ DOMAIN o.items = 1 .. Len(o.items)
    BY EntityFields
  <1>3. Len(o.items) - 1 \in Nat
    BY <1>2 DEF Positions
  <1>. HIDE DEF first
  <1>4. \A k \in 1 .. Len(o.items) - 1 : o.items[k] \in Item /\ o.items[k + 1] \in Item
    BY <1>2
  <1>5. list \in [1 .. Len(o.items) - 1 -> Item]
    BY <1>4
  <1>. HIDE DEF list
  <1>6. list \in Seq(Item)
    BY <1>3, <1>5
  <1>. QED
    BY <1>1, <1>6 DEF Entity

-----------------------------------------------------------------------------
(* What is known of an entity in memory and of the row it belongs to.      *)
LEMMA InMemory ==
    ASSUME AggregateInvariant, order # None
    PROVE  order \in Entity /\ row \in Row /\ row # None
  BY DEF AggregateInvariant, TypeOK, NothingBeforeTheRow

(* What tells the history still does when neither events nor statuses      *)
(* change.                                                                 *)
LEMMA HistoryKept ==
    ASSUME EventsTellTheHistory, order # None,
           order'.events = order.events, order'.status = order.status, visited' = visited
    PROVE  EventsTellTheHistory'
  BY DEF EventsTellTheHistory

(* An entity that has not moved since has nothing to tell, but perhaps that*)
(* it was created.                                                         *)
LEMMA NothingToTell ==
    ASSUME NEW status, NEW events,
           \/ events = <<>>
           \/ \E event : events = <<event>> /\ event.kind = "OrderCreated"
    PROVE  FollowsLifecycle(<<status>>) /\ Tells(events, <<status>>)
  <1>1. Len(<<status>>) = 1 /\ DOMAIN <<status>> = {1}
    OBVIOUS
  <1>2. (\A k \in 1 .. 1 - 1 : FALSE) /\ \A k \in 2 .. 1 : FALSE
    OBVIOUS
  <1>3. FollowsLifecycle(<<status>>)
    BY <1>1, <1>2 DEF FollowsLifecycle
  <1>4. PICK at : at = [i \in DOMAIN events |-> 1]
    OBVIOUS
  <1>5. /\ at \in [DOMAIN events -> {1}] /\ DOMAIN at = DOMAIN events
        /\ \A i \in DOMAIN at : at[i] = 1
    BY <1>4
  <1>6. /\ \A i \in DOMAIN events : events[i].kind = "OrderCreated" /\ i = 1
    OBVIOUS
  <1>7. \A i \in DOMAIN at : RecordedAt(events[i], at[i], <<status>>)
    BY <1>5, <1>6 DEF RecordedAt
  <1>8. \A i, j \in DOMAIN at : i < j => at[i] < at[j]
    BY <1>5, <1>6
  <1>. QED
    BY <1>1, <1>2, <1>3, <1>5, <1>7, <1>8 DEF Tells

(* A fresh entity without events has nothing to tell yet.                  *)
LEMMA HistoryBegins ==
    ASSUME order'.events = <<>>, visited' = <<order'.status>>
    PROVE  EventsTellTheHistory'
  <1>1. FollowsLifecycle(visited') /\ Tells(order'.events, visited')
    BY NothingToTell
  <1>2. visited' # <<>> /\ visited'[Len(visited')] = order'.status
    OBVIOUS
  <1>. QED
    BY <1>1, <1>2 DEF EventsTellTheHistory

(* A status is arrived at: the events tell it if its own is added, or when *)
(* it has none.                                                            *)
LEMMA MoreToTell ==
    ASSUME NEW statuses \in Seq(OrderStatus), NEW events \in Seq(Event),
           NEW status \in OrderStatus, NEW more,
           statuses # <<>>, Tells(events, statuses),
           \/ status \notin DOMAIN EventOf /\ more = events
           \/ /\ status \in DOMAIN EventOf
              /\ \E event : more = Append(events, event) /\ event.kind = EventOf[status]
    PROVE  Tells(more, Append(statuses, status))
  <1>. DEFINE S == Append(statuses, status)
  <1>1. PICK m \in Nat, n \in Nat : m = Len(statuses) /\ n = Len(events)
    OBVIOUS
  <1>2. /\ m > 0 /\ DOMAIN statuses = 1 .. m /\ DOMAIN events = 1 .. n
    BY <1>1
  <1>3. /\ Len(S) = m + 1 /\ DOMAIN S = 1 .. m + 1
        /\ \A k \in 1 .. m : S[k] = statuses[k]
        /\ S[m + 1] = status
    BY <1>1
  <1>4. PICK at \in [1 .. n -> 1 .. m] :
            /\ \A i \in 1 .. n : RecordedAt(events[i], at[i], statuses)
            /\ \A i, j \in 1 .. n : i < j => at[i] < at[j]
            /\ \A k \in 2 .. m : statuses[k] \in DOMAIN EventOf => \E i \in 1 .. n : at[i] = k
    BY ONLY <1>1, <1>2, Tells(events, statuses), Zenon DEF Tells
  <1>5. \A i \in 1 .. n : at[i] \in 1 .. m
    BY <1>4
  <1>. HIDE DEF S
  <1>6. \A i \in 1 .. n : RecordedAt(events[i], at[i], S)
    BY ONLY <1>3, <1>4, <1>5 DEF RecordedAt
  <1>7. CASE status \notin DOMAIN EventOf /\ more = events
    <2>1. at \in [DOMAIN more -> DOMAIN S] /\ DOMAIN at = 1 .. n
      BY ONLY <1>1, <1>2, <1>3, <1>4, <1>5, <1>7
    <2>2. \A k \in 2 .. Len(S) : S[k] \in DOMAIN EventOf => \E i \in 1 .. n : at[i] = k
      <3>. SUFFICES ASSUME NEW k \in 2 .. Len(S), S[k] \in DOMAIN EventOf
                    PROVE  \E i \in 1 .. n : at[i] = k
        OBVIOUS
      <3>1. k # m + 1
        BY ONLY <1>3, <1>7, S[k] \in DOMAIN EventOf
      <3>2. k \in 2 .. m
        BY ONLY <1>1, <1>3, <3>1, k \in 2 .. Len(S)
      <3>. QED
        BY ONLY <1>1, <1>3, <1>4, <3>2, S[k] \in DOMAIN EventOf
    <2>3. Tells(more, S)
      BY ONLY <1>4, <1>6, <1>7, <2>1, <2>2 DEF Tells
    <2>. QED
      BY <2>3 DEF S
  <1>8. CASE status \in DOMAIN EventOf
    <2>1. PICK event : more = Append(events, event) /\ event.kind = EventOf[status]
      BY <1>8
    <2>2. /\ DOMAIN more = 1 .. n + 1
          /\ \A i \in 1 .. n : more[i] = events[i]
          /\ more[n + 1] = event
      BY <1>1, <2>1
    <2>3. PICK after : after = [i \in 1 .. n + 1 |-> IF i = n + 1 THEN m + 1 ELSE at[i]]
      OBVIOUS
    <2>4. /\ DOMAIN after = 1 .. n + 1 /\ after[n + 1] = m + 1
          /\ \A i \in 1 .. n : after[i] = at[i]
      BY ONLY <1>1, <2>3
    <2>5. \A i \in 1 .. n + 1 : i = n + 1 \/ i \in 1 .. n
      BY ONLY <1>1
    <2>6. after \in [DOMAIN more -> DOMAIN S]
      BY ONLY <1>1, <1>3, <1>5, <2>2, <2>3
    <2>7. \A i \in 1 .. n + 1 : RecordedAt(more[i], after[i], S)
      <3>1. RecordedAt(more[n + 1], after[n + 1], S)
        BY ONLY <1>1, <1>2, <1>3, <1>8, <2>1, <2>2, <2>4 DEF RecordedAt
      <3>. QED
        BY ONLY <1>6, <2>2, <2>4, <2>5, <3>1
    <2>8. \A i, j \in 1 .. n + 1 : i < j => after[i] < after[j]
      BY ONLY <1>1, <1>4, <1>5, <2>4, <2>5
    <2>9. \A k \in 2 .. Len(S) : \/ S[k] \notin DOMAIN EventOf
                                 \/ \E i \in 1 .. n + 1 : after[i] = k
      <3>. SUFFICES ASSUME NEW k \in 2 .. Len(S), S[k] \in DOMAIN EventOf
                    PROVE  \E i \in 1 .. n + 1 : after[i] = k
        OBVIOUS
      <3>1. CASE k = m + 1
        BY ONLY <1>1, <2>4, <3>1
      <3>2. CASE k # m + 1
        <4>1. k \in 2 .. m /\ S[k] = statuses[k]
          BY ONLY <1>1, <1>3, <3>2, k \in 2 .. Len(S)
        <4>2. PICK i \in 1 .. n : at[i] = k
          BY ONLY <1>4, <4>1, S[k] \in DOMAIN EventOf
        <4>3. i \in 1 .. n + 1 /\ after[i] = k
          BY ONLY <1>1, <2>4, <4>2, i \in 1 .. n
        <4>. QED
          BY <4>3
      <3>. QED
        BY <3>1, <3>2
    <2>10. Tells(more, S)
      BY ONLY <2>2, <2>4, <2>6, <2>7, <2>8, <2>9 DEF Tells
    <2>. QED
      BY <2>10 DEF S
  <1>. QED
    BY <1>7, <1>8

(* A legal step goes on with a legal history.                              *)
LEMMA LifecycleFollowed ==
    ASSUME NEW statuses \in Seq(OrderStatus), NEW status \in OrderStatus,
           statuses # <<>>, FollowsLifecycle(statuses),
           <<statuses[Len(statuses)], status>> \in Lifecycle
    PROVE  FollowsLifecycle(Append(statuses, status))
  <1>1. PICK m \in Nat : m = Len(statuses)
    OBVIOUS
  <1>2. PICK S : S = Append(statuses, status)
    OBVIOUS
  <1>3. /\ m > 0 /\ Len(S) = m + 1 /\ S[m + 1] = status
        /\ \A k \in 1 .. m : S[k] = statuses[k]
    BY <1>1, <1>2
  <1>4. \A k \in 1 .. m - 1 : <<statuses[k], statuses[k + 1]>> \in Lifecycle
    BY <1>1 DEF FollowsLifecycle
  <1>5. \A k \in 1 .. m : k = m \/ (k \in 1 .. m - 1 /\ k + 1 \in 1 .. m)
    BY ONLY <1>1
  <1>6. m \in 1 .. m /\ <<statuses[m], status>> \in Lifecycle
    BY <1>1, <1>3
  <1>7. \A k \in 1 .. m : <<S[k], S[k + 1]>> \in Lifecycle
    BY ONLY <1>3, <1>4, <1>5, <1>6
  <1>8. Len(S) - 1 = m
    BY ONLY <1>1, <1>3
  <1>. QED
    BY ONLY <1>2, <1>7, <1>8 DEF FollowsLifecycle

(* A method that moves the status and records the event of it, if there is *)
(* one, keeps events and history together.                                 *)
LEMMA HistoryGoesOn ==
    ASSUME EventsTellTheHistory, order # None,
           visited \in Seq(OrderStatus), order.events \in Seq(Event),
           order'.status \in OrderStatus,
           <<order.status, order'.status>> \in Lifecycle,
           visited' = Append(visited, order'.status),
           \/ order'.status \notin DOMAIN EventOf /\ order'.events = order.events
           \/ /\ order'.status \in DOMAIN EventOf
              /\ \E event : /\ order'.events = Append(order.events, event)
                            /\ event.kind = EventOf[order'.status]
    PROVE  EventsTellTheHistory'
  <1>1. /\ visited # <<>> /\ visited[Len(visited)] = order.status
        /\ FollowsLifecycle(visited) /\ Tells(order.events, visited)
    BY DEF EventsTellTheHistory
  <1>2. FollowsLifecycle(visited')
    BY <1>1, LifecycleFollowed
  <1>3. Tells(order'.events, visited')
    BY <1>1, MoreToTell
  <1>4. visited' # <<>> /\ visited'[Len(visited')] = order'.status
    OBVIOUS
  <1>. QED
    BY <1>2, <1>3, <1>4 DEF EventsTellTheHistory

(* A call changes nothing but the entity: it is enough that the entity     *)
(* still fits its columns and that its time and events are accounted for.  *)
LEMMA CallPreserves ==
    ASSUME AggregateInvariant, order # None,
           order' \in Entity,
           order'.customer_name.len \in 1 .. 100,
           order'.shipping_address.len \in 1 .. 300,
           changed' \in [entity : Times, row : Times, first : Times],
           changed'.row = changed.row, changed'.first = changed.first,
           order'.updated_at =
              IF changed'.entity # NoTime THEN changed'.entity ELSE changed'.first,
           visited' \in Seq(OrderStatus),
           result' \in {"done", "refused"},
           EventsTellTheHistory',
           UNCHANGED <<stored, clock>>
    PROVE  AggregateInvariant'
  <1>1. UNCHANGED <<row, row_items, body, shown, clock>> /\ row # None
    BY InMemory DEF stored
  <1>2. result' \in Results /\ result' # "failed" /\ result' # "fetched"
    BY DEF Results
  <1>3. TypeOK'
    BY <1>1, <1>2 DEF AggregateInvariant, TypeOK
  <1>4. NothingBeforeTheRow' /\ AcceptedBodiesAreStored' /\ SavesShowWhatIsStored'
    BY <1>1, <1>2 DEF NothingBeforeTheRow, AcceptedBodiesAreStored, SavesShowWhatIsStored
  <1>5. EntityFits' /\ EntityTime'
    BY DEF EntityFits, EntityTime
  <1>6. ReplyShowsRow' /\ StoredOrdersAreSound' /\ UpdatedAtIsOfTheLastChange'
    BY <1>1 DEF AggregateInvariant, ReplyShowsRow, StoredOrdersAreSound,
                UpdatedAtIsOfTheLastChange
  <1>. QED
    BY <1>3, <1>4, <1>5, <1>6 DEF AggregateInvariant

(* The same for a call that raises.                                        *)
LEMMA RefusalPreserves ==
    ASSUME AggregateInvariant, order # None, Refused, UNCHANGED <<stored, clock>>
    PROVE  AggregateInvariant'
  <1>1. order' = order /\ changed' = changed /\ visited' = visited /\ result' = "refused"
    BY DEF Refused
  <1>2. order \in Entity
    BY InMemory
  <1>3. /\ changed \in [entity : Times, row : Times, first : Times]
        /\ visited \in Seq(OrderStatus)
        /\ order.customer_name.len \in 1 .. 100
        /\ order.shipping_address.len \in 1 .. 300
        /\ order.updated_at = IF changed.entity # NoTime THEN changed.entity ELSE changed.first
    BY DEF AggregateInvariant, TypeOK, EntityFits, EntityTime
  <1>4. EventsTellTheHistory'
    BY <1>1, HistoryKept DEF AggregateInvariant
  <1>. QED
    BY <1>1, <1>2, <1>3, <1>4, CallPreserves

(* confirm, ship, deliver and cancel keep the invariant.                   *)
LEMMA ChangeStatusPreserves ==
    ASSUME AggregateInvariant, NEW action \in OrderStatusAction, ChangeStatus(action)
    PROVE  AggregateInvariant'
  <1>1. order # None /\ UNCHANGED <<stored, clock>>
    BY DEF ChangeStatus
  <1>2. CASE ~ActionAllowed(action, order)
    BY <1>1, <1>2, RefusalPreserves DEF ChangeStatus
  <1>3. CASE ActionAllowed(action, order)
    <2>1. /\ order' = ApplyAction(action, order, clock)
          /\ visited' = Append(visited, order'.status)
          /\ changed' = [changed EXCEPT !.entity = clock]
          /\ result' = "done"
      BY <1>3 DEF ChangeStatus
    <2>2. order \in Entity
      BY <1>1, InMemory
    <2>3. clock \in Times /\ clock # NoTime
      BY DEF AggregateInvariant, TypeOK, Times, NoTime
    <2>4. /\ order' \in Entity
          /\ order'.customer_name = order.customer_name
          /\ order'.shipping_address = order.shipping_address
          /\ order'.updated_at = clock
          /\ <<order.status, order'.status>> \in Lifecycle
          /\ \/ order'.status \notin DOMAIN EventOf /\ order'.events = order.events
             \/ /\ order'.status \in DOMAIN EventOf
                /\ \E event : /\ order'.events = Append(order.events, event)
                              /\ event.kind = EventOf[order'.status]
      BY <1>3, <2>1, <2>2, <2>3, MethodApplied
    <2>5. /\ changed' \in [entity : Times, row : Times, first : Times]
          /\ changed'.row = changed.row /\ changed'.first = changed.first
          /\ changed'.entity = clock
      BY <2>1, <2>3 DEF AggregateInvariant, TypeOK
    <2>6. visited' \in Seq(OrderStatus)
      <3>1. visited \in Seq(OrderStatus) /\ order'.status \in OrderStatus
        BY <2>4, EntityFields DEF AggregateInvariant, TypeOK
      <3>. QED
        BY <2>1, <3>1
    <2>7. /\ order'.customer_name.len \in 1 .. 100
          /\ order'.shipping_address.len \in 1 .. 300
      BY <1>1, <2>4 DEF AggregateInvariant, EntityFits
    <2>8. EventsTellTheHistory'
      <3>1. /\ EventsTellTheHistory /\ visited \in Seq(OrderStatus)
            /\ order.events \in Seq(Event) /\ order'.status \in OrderStatus
        BY <2>2, <2>4, EntityFields DEF AggregateInvariant, TypeOK
      <3>. QED
        BY <1>1, <2>1, <2>4, <3>1, HistoryGoesOn
    <2>. QED
      BY <1>1, <2>1, <2>3, <2>4, <2>5, <2>6, <2>7, <2>8, CallPreserves
  <1>. QED
    BY <1>2, <1>3

(* The changes of an update body keep it.                                  *)
LEMMA UpdatePreserves ==
    ASSUME AggregateInvariant,
           NEW name \in Names \cup {None}, NEW address \in Addresses \cup {None},
           Update(name, address)
    PROVE  AggregateInvariant'
  <1>. DEFINE renamed == IF name = None THEN order ELSE [order EXCEPT !.customer_name = name]
              moved   == update_shipping_address(renamed, address, clock)
  <1>1. /\ order # None /\ UNCHANGED <<stored, clock, visited>>
        /\ AcceptsUpdate([customer_name |-> name, shipping_address |-> address])
        /\ result' \in {"done", "refused"}
    BY DEF Update
  <1>2. \/ order' = renamed /\ changed' = changed
        \/ address # None /\ order' = moved /\ changed' = [changed EXCEPT !.entity = clock]
    BY DEF Update
  <1>3. /\ order \in Entity
        /\ order.customer_name.len \in 1 .. 100 /\ order.shipping_address.len \in 1 .. 300
        /\ order.updated_at = IF changed.entity # NoTime THEN changed.entity ELSE changed.first
        /\ changed \in [entity : Times, row : Times, first : Times]
        /\ visited' \in Seq(OrderStatus)
        /\ clock \in Times /\ clock # NoTime
    BY <1>1, InMemory DEF AggregateInvariant, TypeOK, EntityFits, EntityTime, Times, NoTime
  <1>4. /\ name # None => name \in Text /\ name.len \in 1 .. 100
        /\ address # None => address \in Text /\ address.len \in 1 .. 300
    BY <1>1, ClientsSendTexts DEF AcceptsUpdate, Between
  <1>5. /\ renamed \in Entity /\ renamed.updated_at = order.updated_at
        /\ renamed.status = order.status /\ renamed.events = order.events
        /\ renamed.customer_name.len \in 1 .. 100
        /\ renamed.shipping_address.len \in 1 .. 300
    <2>1. CASE name = None
      BY <1>3, <2>1
    <2>2. CASE name # None
      <3>1. renamed = [order EXCEPT !.customer_name = name]
        BY <2>2
      <3>. HIDE DEF renamed
      <3>2. /\ renamed \in Entity /\ renamed.updated_at = order.updated_at
            /\ renamed.status = order.status /\ renamed.events = order.events
            /\ renamed.customer_name = name
            /\ renamed.shipping_address = order.shipping_address
        BY <1>3, <1>4, <2>2, <3>1 DEF Entity
      <3>. QED
        BY <1>3, <1>4, <2>2, <3>2
    <2>. QED
      BY <2>1, <2>2
  <1>. HIDE DEF renamed
  <1>6. address # None =>
            /\ moved \in Entity /\ moved.updated_at = clock
            /\ moved.status = order.status /\ moved.events = order.events
            /\ moved.customer_name.len \in 1 .. 100
            /\ moved.shipping_address.len \in 1 .. 300
    <2>. SUFFICES ASSUME address # None
                  PROVE  /\ moved \in Entity /\ moved.updated_at = clock
                         /\ moved.status = order.status /\ moved.events = order.events
                         /\ moved.customer_name.len \in 1 .. 100
                         /\ moved.shipping_address.len \in 1 .. 300
      OBVIOUS
    <2>1. moved = [[renamed EXCEPT !.shipping_address = address] EXCEPT !.updated_at = clock]
      BY DEF update_shipping_address, Touch
    <2>. HIDE DEF moved
    <2>2. /\ moved \in Entity /\ moved.updated_at = clock
          /\ moved.status = renamed.status /\ moved.events = renamed.events
          /\ moved.customer_name = renamed.customer_name
          /\ moved.shipping_address = address
      BY <1>3, <1>4, <1>5, <2>1 DEF Entity
    <2>. QED
      BY <1>4, <1>5, <2>2
  <1>. HIDE DEF moved
  <1>7. EventsTellTheHistory'
    BY <1>1, <1>2, <1>5, <1>6, HistoryKept DEF AggregateInvariant
  <1>8. CASE order' = renamed /\ changed' = changed
    BY <1>1, <1>3, <1>5, <1>7, <1>8, CallPreserves
  <1>9. CASE address # None /\ order' = moved /\ changed' = [changed EXCEPT !.entity = clock]
    <2>1. /\ changed' \in [entity : Times, row : Times, first : Times]
          /\ changed'.row = changed.row /\ changed'.first = changed.first
          /\ changed'.entity = clock
      BY <1>3, <1>9
    <2>. QED
      BY <1>1, <1>3, <1>6, <1>7, <1>9, <2>1, CallPreserves
  <1>. QED
    BY <1>2, <1>8, <1>9

(* The calls that leave texts and time alone.                              *)
LEMMA TextsAndTimeKept ==
    ASSUME AggregateInvariant, order # None,
           order' \in Entity,
           order'.customer_name = order.customer_name,
           order'.shipping_address = order.shipping_address,
           order'.updated_at = order.updated_at,
           visited' \in Seq(OrderStatus), result' = "done", EventsTellTheHistory',
           UNCHANGED <<stored, clock, changed>>
    PROVE  AggregateInvariant'
  <1>1. /\ changed \in [entity : Times, row : Times, first : Times]
        /\ order.customer_name.len \in 1 .. 100 /\ order.shipping_address.len \in 1 .. 300
        /\ order.updated_at = IF changed.entity # NoTime THEN changed.entity ELSE changed.first
    BY DEF AggregateInvariant, TypeOK, EntityFits, EntityTime
  <1>. QED
    BY <1>1, CallPreserves

(* add_item keeps it.                                                      *)
LEMMA AddItemPreserves ==
    ASSUME AggregateInvariant, NEW item \in NewItems, AddItem(item)
    PROVE  AggregateInvariant'
  <1>1. order # None /\ UNCHANGED <<stored, clock>>
    BY DEF AddItem
  <1>2. CASE ~CanAddItem(item)
    BY <1>1, <1>2, RefusalPreserves DEF AddItem
  <1>3. CASE CanAddItem(item)
    <2>1. /\ order' = add_item(order, item) /\ result' = "done"
          /\ visited' = visited /\ changed' = changed
      BY <1>3 DEF AddItem
    <2>2. order \in Entity /\ visited \in Seq(OrderStatus)
      BY <1>1, InMemory DEF AggregateInvariant, TypeOK
    <2>. DEFINE list == Append(order.items, item)
    <2>3. list \in Seq(Item)
      BY <2>2, EntityFields, ClientsSendTexts
    <2>4. order' = [order EXCEPT !.items = list]
      BY <2>1 DEF add_item
    <2>. HIDE DEF list
    <2>5. /\ order' \in Entity
          /\ order'.customer_name = order.customer_name
          /\ order'.shipping_address = order.shipping_address
          /\ order'.updated_at = order.updated_at
          /\ order'.status = order.status /\ order'.events = order.events
      BY <2>2, <2>3, <2>4 DEF Entity
    <2>6. EventsTellTheHistory'
      BY <1>1, <2>1, <2>5, HistoryKept DEF AggregateInvariant
    <2>. QED
      BY <1>1, <2>1, <2>2, <2>5, <2>6, TextsAndTimeKept
  <1>. QED
    BY <1>2, <1>3

(* remove_item keeps it.                                                   *)
LEMMA RemoveItemPreserves ==
    ASSUME AggregateInvariant, NEW product_name, RemoveItem(product_name)
    PROVE  AggregateInvariant'
  <1>1. order # None /\ UNCHANGED <<stored, clock>>
    BY DEF RemoveItem
  <1>2. CASE Positions(order, product_name) = {}
    BY <1>1, <1>2, RefusalPreserves DEF RemoveItem
  <1>3. CASE Positions(order, product_name) # {}
    <2>1. /\ order' = remove_item(order, product_name) /\ result' = "done"
          /\ visited' = visited /\ changed' = changed
      BY <1>3 DEF RemoveItem
    <2>2. order \in Entity /\ visited \in Seq(OrderStatus)
      BY <1>1, InMemory DEF AggregateInvariant, TypeOK
    <2>3. /\ order' \in Entity
          /\ order'.customer_name = order.customer_name
          /\ order'.shipping_address = order.shipping_address
          /\ order'.updated_at = order.updated_at
          /\ order'.status = order.status /\ order'.events = order.events
      BY <1>3, <2>1, <2>2, ItemRemoved
    <2>4. EventsTellTheHistory'
      BY <1>1, <2>1, <2>3, HistoryKept DEF AggregateInvariant
    <2>. QED
      BY <1>1, <2>1, <2>2, <2>3, <2>4, TextsAndTimeKept
  <1>. QED
    BY <1>2, <1>3

(* clear_domain_events keeps it.                                           *)
LEMMA ClearEventsPreserves ==
    ASSUME AggregateInvariant, ClearEvents
    PROVE  AggregateInvariant'
  <1>1. /\ order # None /\ UNCHANGED <<stored, clock, changed>>
        /\ order' = [order EXCEPT !.events = <<>>]
        /\ visited' = <<order.status>> /\ result' = "done"
    BY DEF ClearEvents
  <1>2. order \in Entity
    BY <1>1, InMemory
  <1>3. visited' \in Seq(OrderStatus)
    BY <1>1, <1>2, EntityFields
  <1>4. <<>> \in Seq(Event)
    OBVIOUS
  <1>5. /\ order' \in Entity
        /\ order'.customer_name = order.customer_name
        /\ order'.shipping_address = order.shipping_address
        /\ order'.updated_at = order.updated_at
        /\ order'.status = order.status /\ order'.events = <<>>
    BY <1>1, <1>2, <1>4 DEF Entity
  <1>6. EventsTellTheHistory'
    BY <1>1, <1>5, HistoryBegins
  <1>. QED
    BY <1>1, <1>3, <1>5, <1>6, TextsAndTimeKept

-----------------------------------------------------------------------------
(* A body that is not valid leaves everything as it is.                    *)
LEMMA RejectCreatePreserves ==
    ASSUME AggregateInvariant, NEW b \in Bodies, RejectCreate(b)
    PROVE  AggregateInvariant'
  <1>1. /\ UNCHANGED <<row, row_items, order, clock, shown, visited, changed>>
        /\ body' = b /\ result' = "rejected" /\ row = None
    BY DEF RejectCreate
  <1>2. TypeOK'
    BY <1>1 DEF AggregateInvariant, TypeOK, Results
  <1>3. /\ NothingBeforeTheRow' /\ EntityFits' /\ EntityTime' /\ ReplyShowsRow'
        /\ AcceptedBodiesAreStored' /\ StoredOrdersAreSound' /\ SavesShowWhatIsStored'
        /\ EventsTellTheHistory' /\ UpdatedAtIsOfTheLastChange'
    BY <1>1 DEF AggregateInvariant, NothingBeforeTheRow, EntityFits, EntityTime, ReplyShowsRow,
                AcceptedBodiesAreStored, StoredOrdersAreSound, SavesShowWhatIsStored,
                EventsTellTheHistory, UpdatedAtIsOfTheLastChange
  <1>. QED
    BY <1>2, <1>3 DEF AggregateInvariant

(* An accepted body is stored, or a quantity is too large for its column;  *)
(* add_item refuses none of its items.                                     *)
LEMMA CreatePreserves ==
    ASSUME AggregateInvariant, NEW b \in Bodies, Create(b)
    PROVE  AggregateInvariant'
  <1>. DEFINE dto   == CreateOrderDto(b)
              new   == to_entity(dto)
              model == order_entity_to_model(new)
              first == order_model_to_entity(OrderId, model, new.items)
  <1>1. /\ row = None /\ AcceptsCreate(b) /\ body' = b
        /\ UNCHANGED <<clock, changed>>
    BY DEF Create
  <1>2. /\ dto.customer_name \in Text /\ dto.shipping_address \in Text
        /\ dto.customer_name.len \in 1 .. 100
        /\ dto.shipping_address.len \in 1 .. 300
        /\ dto.customer_name.core = dto.customer_name.len
        /\ dto.shipping_address.core = dto.shipping_address.len
        /\ dto.items \in Seq(Item) /\ dto.items # <<>>
        /\ DOMAIN dto.items = DOMAIN b.items
        /\ \A i \in DOMAIN dto.items :
              /\ dto.items[i].quantity = b.items[i].quantity
              /\ dto.items[i].product_name.core = dto.items[i].product_name.len
              /\ dto.items[i].product_name.len \in 1 .. 200
              /\ CanAddItem(dto.items[i])
    BY ONLY <1>1, AcceptedBody
  <1>3. \A i \in DOMAIN dto.items :
            /\ dto.items[i].quantity = b.items[i].quantity
            /\ dto.items[i].product_name.core = dto.items[i].product_name.len
            /\ dto.items[i].product_name.len \in 1 .. 200
            /\ CanAddItem(dto.items[i])
    BY ONLY <1>2
  <1>4. ~to_entity_raises(dto)
    BY <1>3 DEF to_entity_raises
  <1>5. /\ IF ~FitsColumns(model, new.items)
           THEN result' = "failed" /\ UNCHANGED <<row, row_items, order, shown, visited>>
           ELSE /\ result' = "created"
                /\ row' = model
                /\ row_items' = new.items
                /\ order' = mark_created(first)
                /\ shown' = to_response_dto(order')
                /\ visited' = <<"pending">>
    BY <1>4 DEF Create
  <1>. HIDE DEF dto
  <1>6. /\ new.items = dto.items
        /\ model = [customer_name |-> dto.customer_name,
                    shipping_address |-> dto.shipping_address,
                    status |-> "pending", updated_at |-> NoTime]
    BY DEF to_entity, NewOrder, order_entity_to_model
  <1>. HIDE DEF new, model
  <1>7. /\ model.customer_name = dto.customer_name
        /\ model.shipping_address = dto.shipping_address
        /\ model.status = "pending" /\ model.updated_at = NoTime
    BY <1>6
  <1>8. NoTime \in Times /\ NoTime \in NoTime .. MaxClock /\ "pending" \in OrderStatus
    BY BoundsAreNumbers DEF Times, NoTime, OrderStatus
  <1>9. model \in Row
    BY <1>2, <1>6, <1>8 DEF Row
  <1>10. /\ order = None /\ changed = NotChanged /\ clock \in 1 .. MaxClock
         /\ row_items \in Seq(Item) /\ visited \in Seq(OrderStatus)
         /\ shown \in OrderResponseDto \cup {None}
    BY <1>1 DEF AggregateInvariant, TypeOK, NothingBeforeTheRow
  <1>11. /\ changed' = NotChanged
         /\ changed' \in [entity : Times, row : Times, first : Times]
         /\ changed'.entity = NoTime /\ changed'.first = NoTime /\ changed'.row = NoTime
    BY <1>1, <1>8, <1>10 DEF NotChanged
  <1>12. /\ model.customer_name.len \in 1 .. 100
         /\ model.shipping_address.len \in 1 .. 300
         /\ model.customer_name.core = model.customer_name.len
         /\ model.shipping_address.core = model.shipping_address.len
    <2>1. /\ dto.customer_name.len \in 1 .. 100
          /\ dto.shipping_address.len \in 1 .. 300
          /\ dto.customer_name.core = dto.customer_name.len
          /\ dto.shipping_address.core = dto.shipping_address.len
      BY ONLY <1>2
    <2>. QED
      BY ONLY <2>1, <1>7
  <1>13. CASE ~FitsColumns(model, new.items)
    <2>1. /\ result' = "failed" /\ row' = None /\ order' = None
          /\ UNCHANGED <<row_items, shown, visited>>
      BY <1>1, <1>5, <1>10, <1>13
    <2>2. \E i \in DOMAIN b.items : b.items[i].quantity > MaxInteger
      <3>1. PICK i \in DOMAIN dto.items :
               ~(dto.items[i].product_name.len <= 200 /\ dto.items[i].quantity <= MaxInteger)
        <4>1. ~(\A i \in DOMAIN dto.items :
                  dto.items[i].product_name.len <= 200 /\ dto.items[i].quantity <= MaxInteger)
          <5>1. model.customer_name.len <= 100 /\ model.shipping_address.len <= 300
            BY ONLY <1>12
          <5>. QED
            BY ONLY <5>1, <1>6, <1>13 DEF FitsColumns
        <4>. QED
          BY ONLY <4>1
      <3>2. /\ dto.items[i].quantity \in Int /\ dto.items[i].quantity = b.items[i].quantity
            /\ dto.items[i].product_name.len \in 1 .. 200
            /\ i \in DOMAIN b.items
        <4>1. dto.items[i] \in Item
          BY <1>2
        <4>. QED
          BY <1>2, <1>3, <4>1 DEF Item
      <3>. QED
        BY <3>1, <3>2, BoundsAreNumbers
    <2>3. TypeOK'
      BY <1>1, <1>10, <1>11, <2>1 DEF TypeOK, Results
    <2>4. AcceptedBodiesAreStored'
      BY <1>1, <2>1, <2>2 DEF AcceptedBodiesAreStored
    <2>5. /\ NothingBeforeTheRow' /\ EntityFits' /\ EntityTime' /\ ReplyShowsRow'
          /\ StoredOrdersAreSound' /\ SavesShowWhatIsStored' /\ EventsTellTheHistory'
          /\ UpdatedAtIsOfTheLastChange'
      BY <1>11, <2>1 DEF NothingBeforeTheRow, EntityFits, EntityTime, ReplyShowsRow,
                         StoredOrdersAreSound, SavesShowWhatIsStored, EventsTellTheHistory,
                         UpdatedAtIsOfTheLastChange
    <2>. QED
      BY <2>3, <2>4, <2>5 DEF AggregateInvariant
  <1>14. CASE FitsColumns(model, new.items)
    <2>1. /\ result' = "created" /\ row' = model /\ row_items' = dto.items
          /\ order' = add_domain_event(first, "OrderCreated")
          /\ shown' = to_response_dto(order') /\ visited' = <<"pending">>
      BY <1>5, <1>6, <1>14 DEF mark_created
    <2>2. /\ first \in Entity
          /\ first.customer_name = dto.customer_name
          /\ first.shipping_address = dto.shipping_address
          /\ first.updated_at = NoTime
          /\ first.status = "pending" /\ first.events = <<>>
      BY <1>2, <1>6, <1>7, <1>9, EntityOfRow
    <2>3. first = order_model_to_entity(OrderId, row', row_items')
      BY <1>6, <2>1
    <2>. HIDE DEF first
    <2>4. "OrderCreated" \in EventKind
      BY DEF EventKind
    <2>5. /\ order' \in Entity
          /\ order'.customer_name = dto.customer_name
          /\ order'.shipping_address = dto.shipping_address
          /\ order'.updated_at = NoTime
          /\ order'.status = "pending"
          /\ \E event : order'.events = Append(<<>>, event) /\ event.kind = "OrderCreated"
          /\ to_response_dto(order') = to_response_dto(first)
      BY <2>1, <2>2, <2>4, EventAdded
    <2>6. row' # None
      BY <1>9, <2>1, NoneIsNoRow
    <2>7. TypeOK'
      <3>1. shown' \in OrderResponseDto
        BY <2>1, <2>5, ReplyOfEntity
      <3>2. visited' \in Seq(OrderStatus)
        BY <1>8, <2>1
      <3>. QED
        BY <1>1, <1>2, <1>9, <1>10, <1>11, <2>1, <2>5, <3>1, <3>2 DEF TypeOK, Results
    <2>8. ReplyShowsRow'
      BY <2>1, <2>3, <2>5 DEF ReplyShowsRow
    <2>9. EntityFits' /\ EntityTime'
      BY <1>2, <1>11, <2>5 DEF EntityFits, EntityTime
    <2>10. StoredOrdersAreSound'
      <3>1. \A i \in DOMAIN dto.items :
              /\ dto.items[i].quantity \in 1 .. MaxInteger
              /\ dto.items[i].product_name.core = dto.items[i].product_name.len
              /\ dto.items[i].product_name.len \in 1 .. 200
        <4>. TAKE i \in DOMAIN dto.items
        <4>1. dto.items[i] \in Item
          BY <1>2
        <4>2. dto.items[i].quantity \in Int
          BY <4>1 DEF Item
        <4>3. dto.items[i].quantity <= MaxInteger
          BY <1>6, <1>14 DEF FitsColumns
        <4>. QED
          BY <1>3, <4>2, <4>3, BoundsAreNumbers DEF CanAddItem
      <3>2. dto.items # <<>>
        BY ONLY <1>2
      <3>. QED
        BY ONLY <1>12, <2>1, <3>1, <3>2 DEF StoredOrdersAreSound
    <2>11. /\ NothingBeforeTheRow' /\ AcceptedBodiesAreStored' /\ SavesShowWhatIsStored'
           /\ UpdatedAtIsOfTheLastChange'
      BY <1>7, <1>11, <2>1, <2>6 DEF NothingBeforeTheRow, AcceptedBodiesAreStored,
                                     SavesShowWhatIsStored, UpdatedAtIsOfTheLastChange
    <2>12. EventsTellTheHistory'
      <3>1. \E event : order'.events = <<event>> /\ event.kind = "OrderCreated"
        BY <2>5
      <3>2. FollowsLifecycle(visited') /\ Tells(order'.events, visited')
        BY <2>1, <3>1, NothingToTell
      <3>3. visited' # <<>> /\ visited'[Len(visited')] = order'.status
        BY <2>1, <2>5
      <3>. QED
        BY <3>2, <3>3 DEF EventsTellTheHistory
    <2>. QED
      BY <2>7, <2>8, <2>9, <2>10, <2>11, <2>12 DEF AggregateInvariant
  <1>. QED
    BY <1>13, <1>14

(* A load shows what is stored.                                            *)
LEMMA FetchPreserves ==
    ASSUME AggregateInvariant, Fetch
    PROVE  AggregateInvariant'
  <1>1. /\ row # None /\ UNCHANGED <<row, row_items, body, shown, clock>>
        /\ order' = order_model_to_entity(OrderId, row, row_items)
        /\ visited' = <<row.status>> /\ result' = "fetched"
        /\ changed' = [changed EXCEPT !.entity = changed.row]
    BY DEF Fetch, stored
  <1>2. /\ row \in Row /\ row_items \in Seq(Item)
        /\ changed \in [entity : Times, row : Times, first : Times]
    BY <1>1 DEF AggregateInvariant, TypeOK
  <1>3. /\ order' \in Entity
        /\ order'.customer_name = row.customer_name
        /\ order'.shipping_address = row.shipping_address
        /\ order'.updated_at = row.updated_at
        /\ order'.status = row.status /\ order'.events = <<>>
    BY <1>1, <1>2, EntityOfRow
  <1>4. /\ changed' \in [entity : Times, row : Times, first : Times]
        /\ changed'.entity = changed.row /\ changed'.row = changed.row
        /\ changed'.first = changed.first
    BY <1>1, <1>2
  <1>5. TypeOK'
    <2>1. row.status \in OrderStatus
      BY <1>2 DEF Row
    <2>2. visited' \in Seq(OrderStatus)
      BY <1>1, <2>1
    <2>. QED
      BY <1>1, <1>3, <1>4, <2>2 DEF AggregateInvariant, TypeOK, Results
  <1>6. NothingBeforeTheRow' /\ ReplyShowsRow' /\ SavesShowWhatIsStored'
    BY <1>1 DEF AggregateInvariant, NothingBeforeTheRow, ReplyShowsRow, SavesShowWhatIsStored
  <1>7. EntityFits' /\ EntityTime' /\ UpdatedAtIsOfTheLastChange'
    BY <1>1, <1>3, <1>4 DEF AggregateInvariant, EntityFits, EntityTime, StoredOrdersAreSound,
                            UpdatedAtIsOfTheLastChange
  <1>8. AcceptedBodiesAreStored' /\ StoredOrdersAreSound'
    BY <1>1, <1>4 DEF AggregateInvariant, AcceptedBodiesAreStored, StoredOrdersAreSound
  <1>9. EventsTellTheHistory'
    BY <1>1, <1>3, HistoryBegins
  <1>. QED
    BY <1>5, <1>6, <1>7, <1>8, <1>9 DEF AggregateInvariant

(* Letting the entity go loses nothing that is stored.                     *)
LEMMA DropPreserves ==
    ASSUME AggregateInvariant, Drop
    PROVE  AggregateInvariant'
  <1>1. /\ UNCHANGED <<row, row_items, body, shown, clock, changed>> /\ row # None
        /\ order' = None /\ visited' = <<>> /\ result' = "dropped"
    BY InMemory DEF Drop, stored
  <1>2. TypeOK'
    <2>1. <<>> \in Seq(OrderStatus)
      OBVIOUS
    <2>. QED
      BY <1>1, <2>1 DEF AggregateInvariant, TypeOK, Results
  <1>3. /\ NothingBeforeTheRow' /\ EntityFits' /\ EntityTime' /\ ReplyShowsRow'
        /\ AcceptedBodiesAreStored' /\ StoredOrdersAreSound' /\ SavesShowWhatIsStored'
        /\ EventsTellTheHistory' /\ UpdatedAtIsOfTheLastChange'
    BY <1>1 DEF AggregateInvariant, NothingBeforeTheRow, EntityFits, EntityTime, ReplyShowsRow,
                AcceptedBodiesAreStored, StoredOrdersAreSound, SavesShowWhatIsStored,
                EventsTellTheHistory, UpdatedAtIsOfTheLastChange
  <1>. QED
    BY <1>2, <1>3 DEF AggregateInvariant

(* A save never fails: whatever was called, the entity fits the columns.   *)
LEMMA SavePreserves ==
    ASSUME AggregateInvariant, Save
    PROVE  AggregateInvariant'
  <1>. DEFINE new == Assigned(order, clock)
              time == IF changed.first = NoTime THEN clock ELSE changed.first
  <1>1. order # None /\ UNCHANGED <<row_items, body, clock>>
    BY DEF Save
  <1>2. /\ order \in Entity /\ row # None /\ row_items \in Seq(Item)
        /\ clock \in Times /\ clock # NoTime
        /\ changed \in [entity : Times, row : Times, first : Times]
    BY <1>1, InMemory DEF AggregateInvariant, TypeOK, Times, NoTime
  <1>3. /\ new.customer_name = order.customer_name
        /\ new.shipping_address = order.shipping_address
        /\ new.status = order.status
        /\ new.updated_at = (IF order.updated_at = NoTime THEN clock ELSE order.updated_at)
        /\ new = [customer_name |-> new.customer_name,
                  shipping_address |-> new.shipping_address,
                  status |-> new.status, updated_at |-> new.updated_at]
    BY DEF Assigned
  <1>4. /\ order.customer_name.len \in 1 .. 100 /\ order.shipping_address.len \in 1 .. 300
        /\ order.updated_at = IF changed.entity # NoTime THEN changed.entity ELSE changed.first
    BY <1>1 DEF AggregateInvariant, EntityFits, EntityTime
  <1>5. FitsColumns(new, <<>>)
    BY <1>3, <1>4 DEF FitsColumns
  <1>6. /\ row' = new
        /\ order' = order_model_to_entity(OrderId, row', row_items)
        /\ shown' = to_response_dto(order')
        /\ visited' = <<order.status>>
        /\ changed' = [changed EXCEPT !.row = changed.entity, !.first = time]
        /\ result' = "saved"
    BY <1>2, <1>5 DEF Save
  <1>. HIDE DEF new
  <1>7. new \in Row
    <2>1. /\ new.customer_name \in Text /\ new.shipping_address \in Text
          /\ new.status \in OrderStatus /\ new.updated_at \in NoTime .. MaxClock
      BY <1>2, <1>3, EntityFields DEF Times
    <2>. QED
      BY <1>3, <2>1 DEF Row
  <1>8. /\ order' \in Entity
        /\ order'.customer_name = new.customer_name
        /\ order'.shipping_address = new.shipping_address
        /\ order'.updated_at = new.updated_at
        /\ order'.status = order.status /\ order'.events = <<>>
    BY <1>2, <1>3, <1>6, <1>7, EntityOfRow
  <1>9. time \in Times /\ time # NoTime
    BY <1>2
  <1>. HIDE DEF time
  <1>10. /\ changed' \in [entity : Times, row : Times, first : Times]
         /\ changed'.entity = changed.entity /\ changed'.row = changed.entity
         /\ changed'.first = time
    BY <1>2, <1>6, <1>9
  <1>11. row' # None
    BY <1>6, <1>7, NoneIsNoRow
  <1>12. TypeOK'
    <2>1. shown' \in OrderResponseDto
      BY <1>6, <1>8, ReplyOfEntity
    <2>2. order.status \in OrderStatus
      BY <1>2, EntityFields
    <2>3. visited' \in Seq(OrderStatus)
      BY <1>6, <2>2
    <2>. QED
      BY <1>1, <1>6, <1>7, <1>8, <1>10, <2>1, <2>3 DEF AggregateInvariant, TypeOK, Results
  <1>13. new.updated_at = IF changed.entity # NoTime THEN changed.entity ELSE time
    BY <1>2, <1>3, <1>4 DEF time
  <1>14. EntityFits' /\ EntityTime' /\ UpdatedAtIsOfTheLastChange'
    BY <1>3, <1>4, <1>6, <1>8, <1>10, <1>13 DEF EntityFits, EntityTime,
                                                UpdatedAtIsOfTheLastChange
  <1>15. ReplyShowsRow'
    BY <1>1, <1>6 DEF ReplyShowsRow
  <1>16. StoredOrdersAreSound'
    <2>1. StoredOrdersAreSound
      BY ONLY AggregateInvariant DEF AggregateInvariant
    <2>. QED
      BY ONLY <1>1, <1>2, <1>3, <1>4, <1>6, <1>9, <1>10, <2>1, SMTT(30) DEF StoredOrdersAreSound
  <1>17. NothingBeforeTheRow' /\ AcceptedBodiesAreStored' /\ SavesShowWhatIsStored'
    BY <1>6, <1>11 DEF NothingBeforeTheRow, AcceptedBodiesAreStored, SavesShowWhatIsStored
  <1>18. EventsTellTheHistory'
    BY <1>6, <1>8, HistoryBegins
  <1>. QED
    BY <1>12, <1>14, <1>15, <1>16, <1>17, <1>18 DEF AggregateInvariant

(* The clock is read by no part of the invariant but its type.             *)
LEMMA OnlyTheClockMoves ==
    ASSUME AggregateInvariant, clock' \in 1 .. MaxClock,
           UNCHANGED <<row, row_items, order, body, result, shown, visited, changed>>
    PROVE  AggregateInvariant'
  BY DEF AggregateInvariant, TypeOK, NothingBeforeTheRow, EntityFits, EntityTime,
         ReplyShowsRow, AcceptedBodiesAreStored, StoredOrdersAreSound,
         SavesShowWhatIsStored, EventsTellTheHistory,
         UpdatedAtIsOfTheLastChange

-----------------------------------------------------------------------------
(* Before the order is created the invariant holds.                        *)
LEMMA AggregateInvariantInit == Init => AggregateInvariant
  <1>. SUFFICES ASSUME Init PROVE AggregateInvariant
    OBVIOUS
  <1>1. /\ row = None /\ row_items = <<>> /\ order = None /\ body = None
        /\ result = "none" /\ clock = 1 /\ shown = None /\ visited = <<>>
        /\ changed = NotChanged
    BY DEF Init
  <1>2. TypeOK
    <2>1. NoTime \in Times /\ 1 \in 1 .. MaxClock
      BY BoundsAreNumbers DEF Times, NoTime
    <2>2. <<>> \in Seq(Item) /\ <<>> \in Seq(OrderStatus)
      OBVIOUS
    <2>. QED
      BY <1>1, <2>1, <2>2 DEF TypeOK, NotChanged, Results
  <1>. QED
    BY <1>1, <1>2 DEF AggregateInvariant, NothingBeforeTheRow, EntityFits, EntityTime,
                      ReplyShowsRow, AcceptedBodiesAreStored, StoredOrdersAreSound,
                      SavesShowWhatIsStored, EventsTellTheHistory, UpdatedAtIsOfTheLastChange

(* Every step of the aggregate keeps the invariant.                        *)
LEMMA AggregateInvariantNext == AggregateInvariant /\ [Next]_vars => AggregateInvariant'
  <1>. SUFFICES ASSUME AggregateInvariant, [Next]_vars PROVE AggregateInvariant'
    OBVIOUS
  <1>1. ASSUME NEW b \in Bodies, RejectCreate(b) \/ Create(b) PROVE AggregateInvariant'
    BY <1>1, RejectCreatePreserves, CreatePreserves
  <1>2. CASE Fetch
    BY <1>2, FetchPreserves
  <1>3. CASE Methods
    <2>1. ASSUME NEW action \in OrderStatusAction, ChangeStatus(action)
          PROVE  AggregateInvariant'
      BY <2>1, ChangeStatusPreserves
    <2>2. ASSUME NEW name \in Names \cup {None}, NEW address \in Addresses \cup {None},
                 Update(name, address)
          PROVE  AggregateInvariant'
      BY <2>2, UpdatePreserves
    <2>3. ASSUME NEW item \in NewItems, AddItem(item) \/ RemoveItem(item.product_name)
          PROVE  AggregateInvariant'
      BY <2>3, AddItemPreserves, RemoveItemPreserves
    <2>4. CASE ClearEvents
      BY <2>4, ClearEventsPreserves
    <2>. QED
      BY <1>3, <2>1, <2>2, <2>3, <2>4 DEF Methods
  <1>4. CASE Save
    BY <1>4, SavePreserves
  <1>5. CASE Drop
    BY <1>5, DropPreserves
  <1>6. CASE Tick
    <2>1. clock' \in 1 .. MaxClock
      BY <1>6, BoundsAreNumbers DEF Tick, AggregateInvariant, TypeOK
    <2>. QED
      BY <1>6, <2>1, OnlyTheClockMoves DEF Tick, stored
  <1>7. CASE UNCHANGED vars
    <2>1. clock' \in 1 .. MaxClock
      BY <1>7 DEF vars, AggregateInvariant, TypeOK
    <2>. QED
      BY <1>7, <2>1, OnlyTheClockMoves DEF vars
  <1>. QED
    BY <1>1, <1>2, <1>3, <1>4, <1>5, <1>6, <1>7 DEF Next

(* The inductive invariant: what is in memory, stored and replied belongs  *)
(* together after any sequence of calls, saves and reloads.                *)
THEOREM AggregateInvariantHolds == Spec => []AggregateInvariant
  BY AggregateInvariantInit, AggregateInvariantNext, PTL DEF Spec

(* Every variable keeps its type.                                          *)
THEOREM AggregateTypeCorrect == Spec => []TypeOK
  <1>1. AggregateInvariant => TypeOK
    BY DEF AggregateInvariant
  <1>. QED
    BY <1>1, AggregateInvariantHolds, PTL

(* A body that validation lets through is stored, unless a quantity has    *)
(* more than the 32 bits of its column; no later update can fail.          *)
THEOREM AcceptedBodiesDoNotFail == Spec => []AcceptedBodiesAreStored
  <1>1. AggregateInvariant => AcceptedBodiesAreStored
    BY DEF AggregateInvariant
  <1>. QED
    BY <1>1, AggregateInvariantHolds, PTL

(* No sequence of calls and saves stores an order without items, with an   *)
(* item that makes no sense or with a text that does not fit.              *)
THEOREM OrdersStaySound == Spec => []StoredOrdersAreSound
  <1>1. AggregateInvariant => StoredOrdersAreSound
    BY DEF AggregateInvariant
  <1>. QED
    BY <1>1, AggregateInvariantHolds, PTL

(* A load brings back the order as the last create or save replied it.     *)
THEOREM RepliesSurviveTheReload == Spec => []SavesShowWhatIsStored
  <1>1. AggregateInvariant => SavesShowWhatIsStored
    BY DEF AggregateInvariant
  <1>. QED
    BY <1>1, AggregateInvariantHolds, PTL

(* The events of the entity tell the history of its status, in order and   *)
(* without gaps, and this history follows the lifecycle.                   *)
THEOREM EventsTellAll == Spec => []EventsTellTheHistory
  <1>1. AggregateInvariant => EventsTellTheHistory
    BY DEF AggregateInvariant
  <1>. QED
    BY <1>1, AggregateInvariantHolds, PTL

(* updated_at of the row is the time of the last change of status or       *)
(* address that was saved, or else of the first update.                    *)
THEOREM UpdatedAtTellsTheChange == Spec => []UpdatedAtIsOfTheLastChange
  <1>1. AggregateInvariant => UpdatedAtIsOfTheLastChange
    BY DEF AggregateInvariant
  <1>. QED
    BY <1>1, AggregateInvariantHolds, PTL

=============================================================================
