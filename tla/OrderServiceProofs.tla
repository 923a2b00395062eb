------------------------- MODULE OrderServiceProofs -------------------------
(***************************************************************************)
(* Proofs that OrderService keeps its invariant, for every number of       *)
(* tasks, orders and connections.                                          *)
(***************************************************************************)
EXTENDS OrderServiceInvariant, TLAPS, FiniteSetTheorems

-----------------------------------------------------------------------------
(* The types of what a step reads and computes.                            *)

(* Whatever escapes a handler is answered with an error status.            *)
LEMMA HttpStatusRange ==
    ASSUME NEW e
    PROVE  HttpStatus(e) \in {400, 404, 409, 422, 500}
  <1>1. \A class \in DOMAIN ExceptionHandlers :
            ExceptionHandlers[class] \in {400, 404, 409, 422}
    BY DEF ExceptionHandlers
  <1>. QED
    BY <1>1 DEF HttpStatus, IsHandled

(* A request carries the fields its use case reads.                        *)
LEMMA RequestTypes ==
    ASSUME NEW c \in Requests
    PROVE  /\ c.op \in Routes
           /\ c.op = "create" => /\ c.customer_name \in Names
                                 /\ c.shipping_address \in Addresses
                                 /\ c.items \in Baskets
           /\ c.op = "update" => /\ c.customer_name \in Names \cup {NULL}
                                 /\ c.shipping_address \in Addresses \cup {NULL}
           /\ c.op = "status" => c.action \in OrderStatusAction
           /\ c.op \in {"update", "status", "delete", "get"} => c.order_id \in OrderIds
  BY DEF Requests, CreateCommand, UpdateCommand, StatusCommand, DeleteCommand, GetByIdQuery,
         GetAllQuery, Routes

(* order_model_to_entity makes an entity of a stored row and its items.    *)
LEMMA MappedEntityType ==
    ASSUME NEW id \in OrderIds, NEW row \in Row, NEW basket \in ItemList
    PROVE  order_model_to_entity(id, row, basket) \in Entity
  BY DEF order_model_to_entity, Entity, Row

(* Recording an event changes nothing but the list of events.              *)
LEMMA RecordedEventType ==
    ASSUME NEW o \in Entity, NEW kind \in EventKind
    PROVE  add_domain_event(o, kind) \in Entity
  <1>1. [kind |-> kind, order_id |-> o.id] \in Event
    BY DEF Entity, Event
  <1>2. o.events \in Seq(Event)
    BY DEF Entity
  <1>3. Append(o.events, [kind |-> kind, order_id |-> o.id]) \in Seq(Event)
    BY <1>1, <1>2
  <1>. QED
    BY <1>3 DEF add_domain_event, Entity

(* The methods of the entity keep it an entity.                            *)
LEMMA TouchedType ==
    ASSUME NEW o \in Entity, NEW now \in 1 .. MaxClock
    PROVE  Touch(o, now) \in Entity
  BY ParametersAreNumbers DEF Touch, Entity

(* An accepted action yields an entity, with its event recorded.           *)
LEMMA AppliedActionType ==
    ASSUME NEW o \in Entity, NEW action \in OrderStatusAction, NEW now \in 1 .. MaxClock
    PROVE  ApplyAction(action, o, now) \in Entity
  <1>1. \A new \in OrderStatus : [o EXCEPT !.status = new] \in Entity
    BY DEF Entity
  <1>2. \A new \in OrderStatus : Touch([o EXCEPT !.status = new], now) \in Entity
    BY <1>1, TouchedType
  <1>3. /\ confirm(o, now) \in Entity
        /\ cancel(o, now) \in Entity
    BY <1>2, RecordedEventType DEF confirm, cancel, OrderStatus, EventKind
  <1>4. /\ ship(o, now) \in Entity
        /\ deliver(o, now) \in Entity
    BY <1>2 DEF ship, deliver, OrderStatus
  <1>. QED
    BY <1>3, <1>4 DEF ApplyAction, OrderStatusAction

(* The edits of an update request yield an entity.                         *)
LEMMA EditedType ==
    ASSUME NEW o \in Entity, NEW name \in Names \cup {NULL}, NEW address \in Addresses,
           NEW now \in 1 .. MaxClock
    PROVE  /\ Renamed(o, name) \in Entity
           /\ update_shipping_address(Renamed(o, name), address, now) \in Entity
  <1>1. Renamed(o, name) \in Entity
    BY DEF Renamed, Entity
  <1>2. [Renamed(o, name) EXCEPT !.shipping_address = address] \in Entity
    BY <1>1 DEF Entity
  <1>. QED
    BY <1>1, <1>2, TouchedType DEF update_shipping_address

(* What update and add write are rows.                                     *)
LEMMA WrittenRowType ==
    /\ \A o \in Entity : \A now \in 1 .. MaxClock : Assigned(o, now) \in Row
    /\ \A loaded, assigned, current \in Row : Updated(loaded, assigned, current) \in Row
    /\ \A name \in Names : \A address \in Addresses : \A basket \in Baskets :
          order_entity_to_model(NewOrder(name, address, basket)) \in Row
  <1>1. \A o \in Entity : \A now \in 1 .. MaxClock : Assigned(o, now) \in Row
    BY ParametersAreNumbers DEF Assigned, Entity, Row
  <1>2. \A loaded, assigned, current \in Row : Updated(loaded, assigned, current) \in Row
    BY DEF Updated, Column, Row
  <1>3. \A name \in Names : \A address \in Addresses : \A basket \in Baskets :
           order_entity_to_model(NewOrder(name, address, basket)) \in Row
    BY ParametersAreNumbers DEF order_entity_to_model, NewOrder, Row, NoTime, OrderStatus
  <1>. QED
    BY <1>1, <1>2, <1>3

-----------------------------------------------------------------------------
(* The types of what the shared parts of the actions leave behind.         *)

(* A session that forgets its rows is left well typed.                     *)
LEMMA ForgetType ==
    ASSUME NEW s \in Slots, TypeOK, Forget(s)
    PROVE  /\ model' \in [Slots -> [OrderIds -> Row \cup {NULL}]]
           /\ model_items' \in [Slots -> [OrderIds -> ItemList]]
           /\ order' \in [Slots -> Entity \cup {NULL}]
  BY DEF TypeOK, Forget, NoRows, NoItemRows, ItemList

(* So is a handler that raises.                                            *)
LEMMA RaiseType ==
    ASSUME NEW s \in Slots, NEW e \in Exceptions, TypeOK, Raise(s, e)
    PROVE  /\ model' \in [Slots -> [OrderIds -> Row \cup {NULL}]]
           /\ model_items' \in [Slots -> [OrderIds -> ItemList]]
           /\ order' \in [Slots -> Entity \cup {NULL}]
           /\ exc' \in [Slots -> Exceptions \cup {NULL}]
           /\ pc' \in [Slots -> Labels]
  BY ForgetType DEF TypeOK, Raise, Goto, Labels

(* The end of a transaction leaves locks and pool well typed.              *)
LEMMA EndTransactionType ==
    ASSUME NEW s \in Slots, TypeOK, EndTransaction(s)
    PROVE  /\ order_lock' \in [OrderIds -> Slots \cup {NULL}]
           /\ item_lock' \in [OrderIds -> Slots \cup {NULL}]
           /\ staged' \in [Slots -> Row \cup {NULL}]
           /\ staged_items' \in [Slots -> ItemList]
           /\ conns' \subseteq Slots
  BY DEF TypeOK, EndTransaction, ItemList

(* A reply built from a code and response DTOs is a Response.              *)
LEMMA AnswerType ==
    ASSUME NEW s \in Slots, NEW code \in {200, 201, 204, 400, 404, 409, 422, 500},
           NEW body \in SUBSET OrderResponseDto, TypeOK, Answer(s, code, body)
    PROVE  /\ response' \in [Slots -> Response \cup {NULL}]
           /\ pc' \in [Slots -> Labels]
  BY DEF TypeOK, Answer, Reply, Response, Goto, Labels

(* A commit writes rows and items of their types.                          *)
LEMMA ApplyWritesType ==
    ASSUME NEW s \in Slots, TypeOK, ApplyWrites(s)
    PROVE  /\ orders' \in [OrderIds -> Row \cup {NULL}]
           /\ items' \in [OrderIds -> ItemList]
  BY DEF TypeOK, ApplyWrites

(* A SELECT finds rows or nothing, and lists of items.                     *)
LEMMA SelectType ==
    ASSUME NEW s \in Slots, TypeOK
    PROVE  /\ Selected(s) \in [OrderIds -> Row \cup {NULL}]
           /\ ItemsOf(model[s]) \in [OrderIds -> ItemList]
  BY DEF TypeOK, Selected, ItemsOf, ItemList

(* to_response_dto makes an OrderResponseDto of an entity.                 *)
LEMMA DtoType ==
    ASSUME NEW o \in Entity
    PROVE  to_response_dto(o) \in OrderResponseDto
  BY DEF to_response_dto, OrderResponseDto, Entity

-----------------------------------------------------------------------------
(* What the handler has in hand at each point of its way.                  *)

(* A task that is not idle serves a request, and its id is an order id.    *)
LEMMA RequestInHand ==
    ASSUME NEW s \in Slots, TypeOK, Control, pc[s] # "idle"
    PROVE  /\ cmd[s] \in Requests
           /\ Op(s) \in Routes
           /\ Op(s) \in {"update", "status", "delete", "get"} => Id(s) \in OrderIds
  BY RequestTypes DEF TypeOK, Control, ControlOf, Op, Id

(* AddOrder draws an id of the sequence and stages a row.                  *)
LEMMA NewEntity ==
    ASSUME NEW s \in Slots, TypeOK, Control, AddOrder(s)
    PROVE  /\ next_id \in OrderIds
           /\ staged'[s] \in Row
  <1>1. NewRow(s) \in Row
    BY RequestInHand, RequestTypes, WrittenRowType DEF AddOrder, Op, NewRow
  <1>2. next_id \in OrderIds
    BY ParametersAreNumbers DEF AddOrder, TypeOK, OrderIds
  <1>. QED
    BY <1>1, <1>2 DEF AddOrder, TypeOK

(* AddItems stages the items of the request and makes an entity.           *)
LEMMA AddedItems ==
    ASSUME NEW s \in Slots, TypeOK, Control, AddItems(s)
    PROVE  /\ staged_items'[s] \in Baskets
           /\ order'[s] \in Entity
  <1>1. cmd[s].items \in Baskets /\ staged[s] \in Row
    BY RequestInHand, RequestTypes DEF AddItems, Control, ControlOf, Op, TypeOK
  <1>2. \A o \in OrderIds :
           mark_created(order_model_to_entity(o, staged[s], cmd[s].items)) \in Entity
    BY <1>1, MappedEntityType, RecordedEventType DEF mark_created, EventKind, ItemList
  <1>. QED
    BY <1>1, <1>2 DEF AddItems, TypeOK

(* get_by_id maps a row that was found to an entity.                       *)
LEMMA LoadedEntity ==
    ASSUME NEW s \in Slots, TypeOK, Control, SelectItems(s), Op(s) # "list"
    PROVE  /\ Id(s) \in OrderIds
           /\ model[s][Id(s)] \in Row
           /\ order'[s] \in Entity
  <1>1. Id(s) \in OrderIds
    BY RequestInHand DEF SelectItems, Control, ControlOf, Routes
  <1>2. model[s][Id(s)] \in Row
    BY <1>1 DEF SelectItems, Control, ControlOf, TypeOK
  <1>3. order_model_to_entity(Id(s), model[s][Id(s)], ItemsOf(model[s])[Id(s)]) \in Entity
    BY <1>1, <1>2, SelectType, MappedEntityType
  <1>. QED
    BY <1>1, <1>2, <1>3 DEF SelectItems, TypeOK

(* HandleUpdate leaves an entity when the address may change.              *)
LEMMA EditedEntity ==
    ASSUME NEW s \in Slots, TypeOK, Control, HandleUpdate(s),
           \/ cmd[s].shipping_address = NULL
           \/ CanUpdateAddress(Renamed(order[s], cmd[s].customer_name))
    PROVE  order'[s] \in Entity
  <1>1. /\ order[s] \in Entity
        /\ cmd[s].customer_name \in Names \cup {NULL}
        /\ cmd[s].shipping_address \in Addresses \cup {NULL}
    BY RequestInHand, RequestTypes DEF HandleUpdate, Control, ControlOf, Changing, Op, TypeOK
  <1>2. CASE cmd[s].shipping_address = NULL
    <2>1. Renamed(order[s], cmd[s].customer_name) \in Entity
      BY <1>1 DEF Renamed, Entity
    <2>. QED
      BY <1>2, <2>1 DEF HandleUpdate, TypeOK
  <1>3. CASE cmd[s].shipping_address # NULL
    <2>1. update_shipping_address(Renamed(order[s], cmd[s].customer_name),
                                  cmd[s].shipping_address, clock) \in Entity
      BY <1>1, <1>3, EditedType DEF TypeOK
    <2>. QED
      BY <1>3, <2>1 DEF HandleUpdate, TypeOK
  <1>. QED
    BY <1>2, <1>3

(* HandleStatus leaves an entity when the action is allowed.               *)
LEMMA MovedEntity ==
    ASSUME NEW s \in Slots, TypeOK, Control, HandleStatus(s),
           ActionAllowed(cmd[s].action, order[s])
    PROVE  order'[s] \in Entity
  <1>1. order[s] \in Entity /\ cmd[s].action \in OrderStatusAction
    BY RequestInHand, RequestTypes DEF HandleStatus, Control, ControlOf, Changing, Op, TypeOK
  <1>2. ApplyAction(cmd[s].action, order[s], clock) \in Entity
    BY <1>1, AppliedActionType DEF TypeOK
  <1>. QED
    BY <1>2 DEF HandleStatus, TypeOK

(* A flush of update has a row to write and an entity to return.           *)
LEMMA FlushedEntity ==
    ASSUME NEW s \in Slots, TypeOK, Control, Flushing(s)
    PROVE  /\ Id(s) \in OrderIds
           /\ Existing(s) \in Row
           /\ NewValues(s) \in Row
           /\ Persisted(s) \in Entity
  <1>1. Id(s) \in OrderIds
    BY RequestInHand DEF Flushing
  <1>2. Existing(s) \in Row
    BY <1>1 DEF Flushing, Existing, Control, ControlOf, TypeOK
  <1>3. order[s] \in Entity
    BY DEF Flushing, Control, ControlOf, Changing, TypeOK
  <1>4. NewValues(s) \in Row
    BY <1>3, WrittenRowType DEF NewValues, TypeOK
  <1>5. Persisted(s) \in Entity
    BY <1>1, <1>4, MappedEntityType DEF Persisted, TypeOK
  <1>. QED
    BY <1>1, <1>2, <1>4, <1>5

(* FlushUpdate stages a row.                                               *)
LEMMA StagedUpdate ==
    ASSUME NEW s \in Slots, TypeOK, Control, FlushUpdate(s)
    PROVE  /\ Id(s) \in OrderIds
           /\ staged'[s] \in Row
           /\ order'[s] \in Entity
  <1>1. /\ Id(s) \in OrderIds
        /\ Existing(s) \in Row
        /\ NewValues(s) \in Row
        /\ Persisted(s) \in Entity
    BY FlushedEntity DEF FlushUpdate
  <1>2. Updated(Existing(s), NewValues(s), orders[Id(s)]) \in Row
    BY <1>1, WrittenRowType DEF FlushUpdate, TypeOK
  <1>. QED
    BY <1>1, <1>2 DEF FlushUpdate, TypeOK

-----------------------------------------------------------------------------
(* Every step of a task keeps the types.                                   *)
LEMMA TypeStep ==
    ASSUME NEW s \in Slots, TypeOK, Control,
           Begin(s) \/ Progress(s) \/ Fault(s)
    PROVE  TypeOK'
<1>. USE DEF database, locks, writes, session, Goto
<1>1. CASE Begin(s)
  BY <1>1 DEF Begin, TypeOK, Labels
<1>2. CASE AddOrder(s)
  <2>1. next_id' \in 1 .. MaxOrderId + 1
    BY <1>2, ParametersAreNumbers DEF AddOrder, TypeOK
  <2>2. staged' \in [Slots -> Row \cup {NULL}]
    BY <1>2, NewEntity DEF AddOrder, TypeOK
  <2>. QED
    BY <1>2, <2>1, <2>2, NewEntity DEF AddOrder, TypeOK, Labels
<1>3. CASE AddFails(s)
  BY <1>3, RaiseType DEF AddFails, TypeOK, Exceptions
<1>4. CASE SelectOrders(s)
  BY <1>4, SelectType DEF SelectOrders, TypeOK, Labels
<1>5. CASE SelectNothing(s)
  <2>1. CASE Op(s) = "list"
    BY <1>5, <2>1 DEF SelectNothing, TypeOK, Labels
  <2>2. CASE Op(s) # "list"
    BY <1>5, <2>2, RaiseType DEF SelectNothing, TypeOK, Exceptions
  <2>. QED
    BY <2>1, <2>2
<1>6. CASE SelectItems(s)
  <2>1. order' \in [Slots -> Entity \cup {NULL}]
    BY <1>6, LoadedEntity DEF SelectItems, TypeOK
  <2>. QED
    BY <1>6, <2>1, SelectType DEF SelectItems, TypeOK, Labels
<1>7. CASE AnswerQuery(s)
  <2>1. Loaded(s) \subseteq Entity
    BY MappedEntityType DEF Loaded, TypeOK
  <2>2. {to_response_dto(o) : o \in Loaded(s)} \in SUBSET OrderResponseDto
    BY <2>1, DtoType
  <2>3. SuccessCode[Op(s)] = 200
    BY <1>7 DEF AnswerQuery, SuccessCode
  <2>4. /\ response' \in [Slots -> Response \cup {NULL}]
        /\ pc' \in [Slots -> Labels]
    <3>1. Answer(s, 200, {to_response_dto(o) : o \in Loaded(s)})
      BY <1>7, <2>3 DEF AnswerQuery
    <3>. HIDE DEF Goto
    <3>. QED
      BY <2>2, <3>1, AnswerType
  <2>. QED
    BY <1>7, <2>4, EndTransactionType, ForgetType DEF AnswerQuery, TypeOK
<1>8. CASE HandleUpdate(s)
  <2>1. CASE \/ cmd[s].shipping_address = NULL
             \/ CanUpdateAddress(Renamed(order[s], cmd[s].customer_name))
    BY <1>8, <2>1, EditedEntity DEF HandleUpdate, TypeOK, Labels
  <2>2. CASE /\ cmd[s].shipping_address # NULL
             /\ ~CanUpdateAddress(Renamed(order[s], cmd[s].customer_name))
    BY <1>8, <2>2, RaiseType DEF HandleUpdate, TypeOK, Exceptions
  <2>. QED
    BY <2>1, <2>2
<1>9. CASE HandleStatus(s)
  <2>1. CASE ActionAllowed(cmd[s].action, order[s])
    BY <1>9, <2>1, MovedEntity DEF HandleStatus, TypeOK, Labels
  <2>2. CASE ~ActionAllowed(cmd[s].action, order[s])
    BY <1>9, <2>2, RaiseType DEF HandleStatus, TypeOK, Exceptions
  <2>. QED
    BY <2>1, <2>2
<1>10. CASE GetCached(s)
  BY <1>10 DEF GetCached, TypeOK, Labels
<1>11. CASE GetAgain(s)
  <2>1. Id(s) \in OrderIds
    BY <1>11, RequestInHand DEF GetAgain, Control, ControlOf, Changing
  <2>2. model' \in [Slots -> [OrderIds -> Row \cup {NULL}]]
    BY <1>11, <2>1 DEF GetAgain, TypeOK
  <2>. QED
    BY <1>11, <2>2 DEF GetAgain, TypeOK, Labels
<1>12. CASE GetNothing(s)
  <2>1. CASE Op(s) = "delete"
    BY <1>12, <2>1 DEF GetNothing, TypeOK, Labels
  <2>2. CASE Op(s) # "delete"
    BY <1>12, <2>2, RaiseType DEF GetNothing, TypeOK, Exceptions
  <2>. QED
    BY <2>1, <2>2
<1>13. CASE ReloadItems(s)
  BY <1>13, SelectType DEF ReloadItems, TypeOK, Labels
<1>14. CASE FlushNothing(s)
  BY <1>14, FlushedEntity DEF FlushNothing, TypeOK, Labels
<1>15. CASE FlushUpdate(s)
  BY <1>15, StagedUpdate DEF FlushUpdate, TypeOK, Labels
<1>16. CASE FlushStale(s)
  BY <1>16, RaiseType DEF FlushStale, TypeOK, Exceptions
<1>17. CASE FlushDeleteItems(s)
  BY <1>17 DEF FlushDeleteItems, TypeOK, Labels
<1>18. CASE FlushDeleteOrder(s)
  BY <1>18 DEF FlushDeleteOrder, TypeOK, Labels
<1>19. CASE Commit(s)
  BY <1>19, ApplyWritesType, EndTransactionType DEF Commit, TypeOK, Labels
<1>20. CASE Respond(s)
  <2>. DEFINE body == IF Op(s) = "delete" THEN {} ELSE {to_response_dto(order[s])}
  <2>1. Op(s) \in Writing /\ (Op(s) # "delete" => order[s] \in Entity)
    BY <1>20 DEF Respond, Control, ControlOf, TypeOK
  <2>2. body \in SUBSET OrderResponseDto
    BY <2>1, DtoType
  <2>3. SuccessCode[Op(s)] \in {200, 201, 204}
    BY <2>1 DEF SuccessCode, Writing
  <2>4. /\ response' \in [Slots -> Response \cup {NULL}]
        /\ pc' \in [Slots -> Labels]
    <3>1. Answer(s, SuccessCode[Op(s)], body)
      BY <1>20 DEF Respond
    <3>. HIDE DEF Goto, body
    <3>. QED
      BY <2>2, <2>3, <3>1, AnswerType
  <2>. QED
    BY <1>20, <2>4, ForgetType DEF Respond, TypeOK
<1>21. CASE Rollback(s)
  <2>1. HttpStatus(exc[s]) \in {400, 404, 409, 422, 500}
    BY HttpStatusRange
  <2>2. exc' \in [Slots -> Exceptions \cup {NULL}]
    BY <1>21 DEF Rollback, TypeOK
  <2>3. /\ response' \in [Slots -> Response \cup {NULL}]
        /\ pc' \in [Slots -> Labels]
    <3>1. Answer(s, HttpStatus(exc[s]), {})
      BY <1>21 DEF Rollback
    <3>. HIDE DEF Goto
    <3>. QED
      BY <2>1, <3>1, AnswerType
  <2>. QED
    BY <1>21, <2>2, <2>3, EndTransactionType DEF Rollback, TypeOK
<1>22. CASE Deliver(s)
  BY <1>22 DEF Deliver, TypeOK, Labels
<1>23. CASE PoolTimeout(s)
  BY <1>23, RaiseType DEF PoolTimeout, TypeOK, Exceptions
<1>24. CASE StatementFails(s)
  BY <1>24, RaiseType DEF StatementFails, TypeOK, Exceptions
<1>25. CASE CommitReplyLost(s)
  BY <1>25, ApplyWritesType, EndTransactionType, RaiseType
     DEF CommitReplyLost, TypeOK, Exceptions
<1>26. CASE AddItems(s)
  <2>1. /\ order' \in [Slots -> Entity \cup {NULL}]
        /\ staged_items' \in [Slots -> ItemList]
    BY <1>26, AddedItems DEF AddItems, TypeOK, ItemList
  <2>. QED
    BY <1>26, <2>1 DEF AddItems, TypeOK, Labels
<1>. QED
  BY <1>1, <1>2, <1>3, <1>4, <1>5, <1>6, <1>7, <1>8, <1>9, <1>10, <1>11, <1>12, <1>13, <1>14,
     <1>15, <1>16, <1>17, <1>18, <1>19, <1>20, <1>21, <1>22, <1>23, <1>24, <1>25, <1>26
     DEF Progress, Fault, Load, Handle, Reload, Flush, Finish

-----------------------------------------------------------------------------
(* A step of a task leaves the local state of every other task alone.      *)
OthersUnchanged(s) ==
    \A t \in Slots : t # s =>
        /\ pc'[t] = pc[t]
        /\ cmd'[t] = cmd[t]
        /\ model'[t] = model[t]
        /\ model_items'[t] = model_items[t]
        /\ order'[t] = order[t]
        /\ staged'[t] = staged[t]
        /\ staged_items'[t] = staged_items[t]
        /\ response'[t] = response[t]

(* No step of a task writes to the local state of another task.            *)
LEMMA StepIsLocal ==
    ASSUME NEW s \in Slots, TypeOK, Begin(s) \/ Progress(s) \/ Fault(s)
    PROVE  OthersUnchanged(s)
<1>. USE DEF OthersUnchanged, database, locks, writes, session, Goto, Raise, Forget, Answer,
             EndTransaction, TypeOK
<1>1. CASE Begin(s)
  BY <1>1 DEF Begin
<1>2. CASE AddOrder(s)
  BY <1>2 DEF AddOrder
<1>3. CASE AddFails(s)
  BY <1>3 DEF AddFails
<1>4. CASE SelectOrders(s)
  BY <1>4 DEF SelectOrders
<1>5. CASE SelectNothing(s)
  BY <1>5 DEF SelectNothing
<1>6. CASE SelectItems(s)
  BY <1>6 DEF SelectItems
<1>7. CASE AnswerQuery(s)
  BY <1>7 DEF AnswerQuery
<1>8. CASE HandleUpdate(s)
  BY <1>8 DEF HandleUpdate
<1>9. CASE HandleStatus(s)
  BY <1>9 DEF HandleStatus
<1>10. CASE GetCached(s)
  BY <1>10 DEF GetCached
<1>11. CASE GetAgain(s)
  BY <1>11 DEF GetAgain
<1>12. CASE GetNothing(s)
  BY <1>12 DEF GetNothing
<1>13. CASE ReloadItems(s)
  BY <1>13 DEF ReloadItems
<1>14. CASE FlushNothing(s)
  BY <1>14 DEF FlushNothing
<1>15. CASE FlushUpdate(s)
  BY <1>15 DEF FlushUpdate
<1>16. CASE FlushStale(s)
  BY <1>16 DEF FlushStale
<1>17. CASE FlushDeleteItems(s)
  BY <1>17 DEF FlushDeleteItems
<1>18. CASE FlushDeleteOrder(s)
  BY <1>18 DEF FlushDeleteOrder
<1>19. CASE Commit(s)
  BY <1>19 DEF Commit
<1>20. CASE Respond(s)
  BY <1>20 DEF Respond
<1>21. CASE Rollback(s)
  BY <1>21 DEF Rollback
<1>22. CASE Deliver(s)
  BY <1>22 DEF Deliver
<1>23. CASE PoolTimeout(s)
  BY <1>23 DEF PoolTimeout
<1>24. CASE StatementFails(s)
  BY <1>24 DEF StatementFails
<1>25. CASE CommitReplyLost(s)
  BY <1>25 DEF CommitReplyLost
<1>26. CASE AddItems(s)
  BY <1>26 DEF AddItems
<1>. QED
  BY <1>1, <1>2, <1>3, <1>4, <1>5, <1>6, <1>7, <1>8, <1>9, <1>10, <1>11, <1>12, <1>13, <1>14,
     <1>15, <1>16, <1>17, <1>18, <1>19, <1>20, <1>21, <1>22, <1>23, <1>24, <1>25, <1>26
     DEF Progress, Fault, Load, Handle, Reload, Flush, Finish

(* Every step of a task keeps Control.                                     *)
LEMMA ControlStep ==
    ASSUME NEW s \in Slots, TypeOK, Control, Begin(s) \/ Progress(s) \/ Fault(s)
    PROVE  Control'
<1>. SUFFICES ControlOf(s)'
  <2>1. \A t \in Slots : t # s => ControlOf(t)'
    BY StepIsLocal DEF OthersUnchanged, Control, ControlOf, Op, Id
  <2>. QED
    BY <2>1 DEF Control
<1>. USE DEF ControlOf, Op, Id, Writing, Changing, database, locks, writes, session, Goto
<1>a. pc[s] # "idle" => Op(s) \in Routes
  BY RequestInHand
<1>b. ControlOf(s)
  BY DEF Control
<1>1. CASE Begin(s)
  <2>1. cmd'[s] \in Requests /\ pc'[s] = "begun"
    BY <1>1 DEF Begin, TypeOK
  <2>. QED
    BY <2>1
<1>2. CASE AddOrder(s)
  BY <1>2, <1>a, <1>b, NewEntity, NullIsNoValue DEF AddOrder, Raise, Answer, TypeOK, Routes
<1>3. CASE AddFails(s)
  BY <1>3, <1>a, <1>b DEF AddFails, Raise, Answer, TypeOK, Routes
<1>4. CASE SelectOrders(s)
  <2>1. Op(s) # "list" => Selected(s)[Id(s)] # NULL
    <3>1. \A o \in OrderIds : Op(s) # "list" /\ o # Id(s) => Selected(s)[o] = NULL
      BY DEF Selected
    <3>2. Selected(s) # NoRows
      BY <1>4 DEF SelectOrders
    <3>3. (\A o \in OrderIds : Selected(s)[o] = NULL) => Selected(s) = NoRows
      BY DEF Selected, NoRows
    <3>. QED
      BY <3>1, <3>2, <3>3
  <2>2. /\ pc'[s] = "loading"
        /\ cmd' = cmd
        /\ model'[s] = Selected(s)
    BY <1>4 DEF SelectOrders, TypeOK
  <2>. QED
    BY <1>4, <1>b, <2>1, <2>2 DEF SelectOrders
<1>5. CASE SelectNothing(s)
  BY <1>5, <1>a, <1>b DEF SelectNothing, Raise, Answer, TypeOK, Routes
<1>6. CASE SelectItems(s)
  BY <1>6, <1>a, <1>b, LoadedEntity DEF SelectItems, Raise, Answer, TypeOK, Routes
<1>7. CASE AnswerQuery(s)
  BY <1>7, <1>a, <1>b DEF AnswerQuery, Raise, Answer, TypeOK, Routes
<1>8. CASE HandleUpdate(s)
  <2>1. CASE \/ cmd[s].shipping_address = NULL
             \/ CanUpdateAddress(Renamed(order[s], cmd[s].customer_name))
    <3>1. /\ pc'[s] = "persisting"
          /\ UNCHANGED <<cmd, session>>
          /\ order'[s] \in Entity
      BY <1>8, <2>1, EditedEntity DEF HandleUpdate, TypeOK
    <3>. QED
      BY <1>8, <1>b, <3>1 DEF HandleUpdate
  <2>2. CASE /\ cmd[s].shipping_address # NULL
             /\ ~CanUpdateAddress(Renamed(order[s], cmd[s].customer_name))
    <3>1. pc'[s] = "unwinding" /\ cmd' = cmd
      BY <1>8, <2>2 DEF HandleUpdate, Raise, TypeOK
    <3>. QED
      BY <1>8, <1>b, <3>1 DEF HandleUpdate
  <2>. QED
    BY <2>1, <2>2
<1>9. CASE HandleStatus(s)
  <2>1. CASE ActionAllowed(cmd[s].action, order[s])
    <3>1. /\ pc'[s] = "persisting"
          /\ UNCHANGED <<cmd, session>>
          /\ order'[s] \in Entity
      BY <1>9, <2>1, MovedEntity DEF HandleStatus, TypeOK
    <3>. QED
      BY <1>9, <1>b, <3>1 DEF HandleStatus
  <2>2. CASE ~ActionAllowed(cmd[s].action, order[s])
    <3>1. pc'[s] = "unwinding" /\ cmd' = cmd
      BY <1>9, <2>2 DEF HandleStatus, Raise, TypeOK
    <3>. QED
      BY <1>9, <1>b, <3>1 DEF HandleStatus
  <2>. QED
    BY <2>1, <2>2
<1>10. CASE GetCached(s)
  BY <1>10, <1>a, <1>b DEF GetCached, Raise, Answer, TypeOK, Routes
<1>11. CASE GetAgain(s)
  BY <1>11, <1>a, <1>b DEF GetAgain, Raise, Answer, TypeOK, Routes
<1>12. CASE GetNothing(s)
  BY <1>12, <1>a, <1>b DEF GetNothing, Raise, Answer, TypeOK, Routes
<1>13. CASE ReloadItems(s)
  BY <1>13, <1>a, <1>b DEF ReloadItems, Raise, Answer, TypeOK, Routes
<1>14. CASE FlushNothing(s)
  <2>1. /\ pc'[s] = "flushed"
        /\ cmd' = cmd
        /\ order'[s] \in Entity
    BY <1>14, FlushedEntity DEF FlushNothing, TypeOK
  <2>. QED
    BY <1>14, <1>b, <2>1 DEF FlushNothing, Flushing
<1>15. CASE FlushUpdate(s)
  <2>1. /\ pc'[s] = "flushed"
        /\ cmd' = cmd
        /\ order'[s] \in Entity
    BY <1>15, StagedUpdate DEF FlushUpdate, TypeOK
  <2>. QED
    BY <1>15, <1>b, <2>1 DEF FlushUpdate, Flushing
<1>16. CASE FlushStale(s)
  <2>1. pc'[s] = "unwinding" /\ cmd' = cmd
    BY <1>16 DEF FlushStale, Raise, TypeOK
  <2>. QED
    BY <1>16, <1>b, <2>1 DEF FlushStale, Flushing
<1>17. CASE FlushDeleteItems(s)
  BY <1>17, <1>a, <1>b DEF FlushDeleteItems, Raise, Answer, TypeOK, Routes
<1>18. CASE FlushDeleteOrder(s)
  BY <1>18, <1>a, <1>b DEF FlushDeleteOrder, Raise, Answer, TypeOK, Routes
<1>19. CASE Commit(s)
  BY <1>19, <1>a, <1>b DEF Commit, Raise, Answer, TypeOK, Routes
<1>20. CASE Respond(s)
  BY <1>20, <1>a, <1>b DEF Respond, Raise, Answer, TypeOK, Routes
<1>21. CASE Rollback(s)
  BY <1>21, <1>a, <1>b DEF Rollback, Raise, Answer, TypeOK, Routes
<1>22. CASE Deliver(s)
  BY <1>22, <1>a, <1>b DEF Deliver, Raise, Answer, TypeOK, Routes
<1>23. CASE PoolTimeout(s)
  BY <1>23, <1>a, <1>b DEF PoolTimeout, Raise, Answer, TypeOK, Routes
<1>24. CASE StatementFails(s)
  BY <1>24, <1>a, <1>b DEF StatementFails, Raise, Answer, TypeOK, Routes
<1>25. CASE CommitReplyLost(s)
  BY <1>25, <1>a, <1>b DEF CommitReplyLost, Raise, Answer, TypeOK, Routes
<1>26. CASE AddItems(s)
  <2>1. /\ pc'[s] = "flushed"
        /\ cmd' = cmd
        /\ order'[s] \in Entity
    BY <1>26, AddedItems DEF AddItems, TypeOK
  <2>. QED
    BY <1>26, <1>b, <2>1 DEF AddItems
<1>. QED
  BY <1>1, <1>2, <1>3, <1>4, <1>5, <1>6, <1>7, <1>8, <1>9, <1>10, <1>11, <1>12, <1>13, <1>14,
     <1>15, <1>16, <1>17, <1>18, <1>19, <1>20, <1>21, <1>22, <1>23, <1>24, <1>25, <1>26
     DEF Progress, Fault, Load, Handle, Reload, Flush, Finish

(* Every step of a task keeps Staging.                                     *)
LEMMA StagingStep ==
    ASSUME NEW s \in Slots, TypeOK, Control, Staging, Begin(s) \/ Progress(s) \/ Fault(s)
    PROVE  Staging'
<1>. DEFINE StagingOf(t) == pc[t] \notin {"adding", "flushed", "unwinding"} \/ Op(t) = "delete" =>
                               staged[t] = NULL /\ staged_items[t] = NoItems
<1>. SUFFICES StagingOf(s)'
  <2>1. \A t \in Slots : t # s => StagingOf(t)'
    BY StepIsLocal DEF OthersUnchanged, Staging, Op
  <2>. QED
    BY <2>1 DEF Staging
<1>. USE DEF Op, database, locks, writes, session, Goto
<1>a. StagingOf(s) /\ ControlOf(s)
  BY DEF Staging, Control
<1>1. CASE Begin(s)
  BY <1>1, <1>a DEF Begin, Raise, Answer, EndTransaction, ControlOf, TypeOK, Flushing, Changing
<1>2. CASE AddOrder(s)
  BY <1>2, <1>a DEF AddOrder, Raise, Answer, EndTransaction, ControlOf, TypeOK, Flushing, Changing
<1>3. CASE AddFails(s)
  BY <1>3, <1>a DEF AddFails, Raise, Answer, EndTransaction, ControlOf, TypeOK, Flushing, Changing
<1>4. CASE SelectOrders(s)
  BY <1>4, <1>a DEF SelectOrders, Raise, Answer, EndTransaction, ControlOf, TypeOK, Flushing, Changing
<1>5. CASE SelectNothing(s)
  BY <1>5, <1>a DEF SelectNothing, Raise, Answer, EndTransaction, ControlOf, TypeOK, Flushing, Changing
<1>6. CASE SelectItems(s)
  BY <1>6, <1>a DEF SelectItems, Raise, Answer, EndTransaction, ControlOf, TypeOK, Flushing, Changing
<1>7. CASE AnswerQuery(s)
  BY <1>7, <1>a DEF AnswerQuery, Raise, Answer, EndTransaction, ControlOf, TypeOK, Flushing, Changing
<1>8. CASE HandleUpdate(s)
  BY <1>8, <1>a DEF HandleUpdate, Raise, Answer, EndTransaction, ControlOf, TypeOK, Flushing, Changing
<1>9. CASE HandleStatus(s)
  BY <1>9, <1>a DEF HandleStatus, Raise, Answer, EndTransaction, ControlOf, TypeOK, Flushing, Changing
<1>10. CASE GetCached(s)
  BY <1>10, <1>a DEF GetCached, Raise, Answer, EndTransaction, ControlOf, TypeOK, Flushing, Changing
<1>11. CASE GetAgain(s)
  BY <1>11, <1>a DEF GetAgain, Raise, Answer, EndTransaction, ControlOf, TypeOK, Flushing, Changing
<1>12. CASE GetNothing(s)
  BY <1>12, <1>a DEF GetNothing, Raise, Answer, EndTransaction, ControlOf, TypeOK, Flushing, Changing
<1>13. CASE ReloadItems(s)
  BY <1>13, <1>a DEF ReloadItems, Raise, Answer, EndTransaction, ControlOf, TypeOK, Flushing, Changing
<1>14. CASE FlushNothing(s)
  BY <1>14, <1>a DEF FlushNothing, Raise, Answer, EndTransaction, ControlOf, TypeOK, Flushing, Changing
<1>15. CASE FlushUpdate(s)
  BY <1>15, <1>a DEF FlushUpdate, Raise, Answer, EndTransaction, ControlOf, TypeOK, Flushing, Changing
<1>16. CASE FlushStale(s)
  BY <1>16, <1>a DEF FlushStale, Raise, Answer, EndTransaction, ControlOf, TypeOK, Flushing, Changing
<1>17. CASE FlushDeleteItems(s)
  BY <1>17, <1>a DEF FlushDeleteItems, Raise, Answer, EndTransaction, ControlOf, TypeOK, Flushing, Changing
<1>18. CASE FlushDeleteOrder(s)
  BY <1>18, <1>a DEF FlushDeleteOrder, Raise, Answer, EndTransaction, ControlOf, TypeOK, Flushing, Changing
<1>19. CASE Commit(s)
  BY <1>19, <1>a DEF Commit, Raise, Answer, EndTransaction, ControlOf, TypeOK, Flushing, Changing
<1>20. CASE Respond(s)
  BY <1>20, <1>a DEF Respond, Raise, Answer, EndTransaction, ControlOf, TypeOK, Flushing, Changing
<1>21. CASE Rollback(s)
  BY <1>21, <1>a DEF Rollback, Raise, Answer, EndTransaction, ControlOf, TypeOK, Flushing, Changing
<1>22. CASE Deliver(s)
  BY <1>22, <1>a DEF Deliver, Raise, Answer, EndTransaction, ControlOf, TypeOK, Flushing, Changing
<1>23. CASE PoolTimeout(s)
  BY <1>23, <1>a DEF PoolTimeout, Raise, Answer, EndTransaction, ControlOf, TypeOK, Flushing, Changing
<1>24. CASE StatementFails(s)
  BY <1>24, <1>a DEF StatementFails, Raise, Answer, EndTransaction, ControlOf, TypeOK, Flushing, Changing
<1>25. CASE CommitReplyLost(s)
  BY <1>25, <1>a DEF CommitReplyLost, Raise, Answer, EndTransaction, ControlOf, TypeOK, Flushing, Changing
<1>26. CASE AddItems(s)
  BY <1>26, <1>a DEF AddItems, Raise, Answer, EndTransaction, ControlOf, TypeOK, Flushing, Changing
<1>. QED
  BY <1>1, <1>2, <1>3, <1>4, <1>5, <1>6, <1>7, <1>8, <1>9, <1>10, <1>11, <1>12, <1>13, <1>14,
     <1>15, <1>16, <1>17, <1>18, <1>19, <1>20, <1>21, <1>22, <1>23, <1>24, <1>25, <1>26
     DEF Progress, Fault, Load, Handle, Reload, Flush, Finish

-----------------------------------------------------------------------------
(* As far as the tables and the locks are concerned, the steps of a task   *)
(* are of these kinds; most of them touch neither.                         *)

Shared == <<orders, items, next_id, order_lock, item_lock>>

QuietStep(s) ==
    /\ pc[s] \notin {"adding", "items_deleted", "flushed", "unwinding"}
    /\ UNCHANGED Shared

FailingStep(s) ==
    /\ pc'[s] = "unwinding"
    /\ cmd'[s] = cmd[s]
    /\ UNCHANGED Shared
    /\ UNCHANGED writes

EndingStep(s) == EndTransaction(s) /\ UNCHANGED database

CommittingStep(s) ==
    /\ pc[s] = "flushed"
    /\ ApplyWrites(s)
    /\ EndTransaction(s)
    /\ UNCHANGED next_id

(* Every step of a task is of one of the kinds above or takes locks.       *)
LEMMA StepKinds ==
    ASSUME NEW s \in Slots, TypeOK, Begin(s) \/ Progress(s) \/ Fault(s)
    PROVE  \/ QuietStep(s) \/ FailingStep(s) \/ EndingStep(s) \/ CommittingStep(s)
           \/ AddOrder(s) \/ AddItems(s)
           \/ FlushUpdate(s) \/ FlushDeleteItems(s) \/ FlushDeleteOrder(s)
<1>. USE DEF Shared, database, locks, writes
<1>1. CASE Begin(s)
  BY <1>1 DEF Begin, QuietStep, Flushing
<1>3. CASE AddFails(s)
  BY <1>3 DEF AddFails, QuietStep, Flushing
<1>4. CASE SelectOrders(s)
  BY <1>4 DEF SelectOrders, QuietStep, Flushing
<1>5. CASE SelectNothing(s)
  BY <1>5 DEF SelectNothing, QuietStep, Flushing
<1>6. CASE SelectItems(s)
  BY <1>6 DEF SelectItems, QuietStep, Flushing
<1>7. CASE AnswerQuery(s)
  BY <1>7 DEF AnswerQuery, EndingStep
<1>8. CASE HandleUpdate(s)
  BY <1>8 DEF HandleUpdate, QuietStep, Flushing
<1>9. CASE HandleStatus(s)
  BY <1>9 DEF HandleStatus, QuietStep, Flushing
<1>10. CASE GetCached(s)
  BY <1>10 DEF GetCached, QuietStep, Flushing
<1>11. CASE GetAgain(s)
  BY <1>11 DEF GetAgain, QuietStep, Flushing
<1>12. CASE GetNothing(s)
  BY <1>12 DEF GetNothing, QuietStep, Flushing
<1>13. CASE ReloadItems(s)
  BY <1>13 DEF ReloadItems, QuietStep, Flushing
<1>14. CASE FlushNothing(s)
  BY <1>14 DEF FlushNothing, QuietStep, Flushing
<1>16. CASE FlushStale(s)
  BY <1>16 DEF FlushStale, QuietStep, Flushing
<1>19. CASE Commit(s)
  BY <1>19 DEF Commit, CommittingStep
<1>20. CASE Respond(s)
  BY <1>20 DEF Respond, QuietStep, Flushing
<1>21. CASE Rollback(s)
  BY <1>21 DEF Rollback, EndingStep
<1>22. CASE Deliver(s)
  BY <1>22 DEF Deliver, QuietStep, Flushing
<1>23. CASE PoolTimeout(s)
  BY <1>23 DEF PoolTimeout, QuietStep, Flushing
<1>24. CASE StatementFails(s)
  BY <1>24 DEF StatementFails, FailingStep, Raise, Goto, TypeOK
<1>25. CASE CommitReplyLost(s)
  BY <1>25 DEF CommitReplyLost, CommittingStep
<1>. QED
  BY <1>1, <1>3, <1>4, <1>5, <1>6, <1>7, <1>8, <1>9, <1>10, <1>11, <1>12, <1>13, <1>14, <1>16,
     <1>19, <1>20, <1>21, <1>22, <1>23, <1>24, <1>25
     DEF Progress, Fault, Load, Handle, Reload, Flush, Finish

(* The rows in a session come from the committed table.                    *)
LEMMA SessionRows ==
    ASSUME NEW s \in Slots, NEW o \in OrderIds, TypeOK, Begin(s) \/ Progress(s) \/ Fault(s)
    PROVE  model'[s][o] \in {NULL, model[s][o], orders[o]}
<1>. USE DEF TypeOK, session, Raise, Forget, NoRows
<1>1. CASE Begin(s) \/ Load(s)
  BY <1>1 DEF Begin, Load, SelectOrders, SelectNothing, SelectItems, Selected
<1>2. CASE Handle(s)
  BY <1>2 DEF Handle, AnswerQuery, HandleUpdate, HandleStatus
<1>3. CASE Reload(s)
  BY <1>3 DEF Reload, GetCached, GetAgain, GetNothing, ReloadItems
<1>4. CASE Flush(s)
  BY <1>4 DEF Flush, AddOrder, AddItems, AddFails, FlushNothing, FlushUpdate, FlushStale,
              FlushDeleteItems, FlushDeleteOrder
<1>5. CASE Finish(s)
  BY <1>5 DEF Finish, Commit, Respond, Rollback, Deliver
<1>6. CASE Fault(s)
  BY <1>6 DEF Fault, PoolTimeout, StatementFails, CommitReplyLost
<1>. QED
  BY <1>1, <1>2, <1>3, <1>4, <1>5, <1>6 DEF Progress

(* Only the flushes of an INSERT and of an UPDATE stage a row.             *)
LEMMA StagedRows ==
    ASSUME NEW s \in Slots, TypeOK, Begin(s) \/ Progress(s) \/ Fault(s)
    PROVE  staged'[s] \in {NULL, staged[s]} \/ AddOrder(s) \/ FlushUpdate(s)
<1>. USE DEF TypeOK, writes, Raise, EndTransaction
<1>1. CASE Begin(s) \/ Load(s)
  BY <1>1 DEF Begin, Load, SelectOrders, SelectNothing, SelectItems
<1>2. CASE Handle(s)
  BY <1>2 DEF Handle, AnswerQuery, HandleUpdate, HandleStatus
<1>3. CASE Reload(s)
  BY <1>3 DEF Reload, GetCached, GetAgain, GetNothing, ReloadItems
<1>4. CASE Flush(s)
  BY <1>4 DEF Flush, AddItems, AddFails, FlushNothing, FlushStale, FlushDeleteItems,
              FlushDeleteOrder
<1>5. CASE Finish(s)
  BY <1>5 DEF Finish, Commit, Respond, Rollback, Deliver
<1>6. CASE Fault(s)
  BY <1>6 DEF Fault, PoolTimeout, StatementFails, CommitReplyLost
<1>. QED
  BY <1>1, <1>2, <1>3, <1>4, <1>5, <1>6 DEF Progress

(* Locks are held only from the flush to the end of the transaction.       *)
LEMMA NoLocks ==
    ASSUME NEW s \in Slots, RowLocks,
           pc[s] \notin {"adding", "items_deleted", "flushed", "unwinding"}
    PROVE  \A o \in OrderIds : order_lock[o] # s /\ item_lock[o] # s
  BY DEF RowLocks, OrderLockOf, ItemLockOf

(* What a commit does to an order, by the rows its transaction holds.      *)
LEMMA CommitEffect ==
    ASSUME NEW s \in Slots, NEW o \in OrderIds, TypeOK, Control, Staging, RowLocks,
           CommittingStep(s)
    PROVE  /\ order_lock[o] # s => /\ item_lock[o] # s
                                   /\ orders'[o] = orders[o]
                                   /\ items'[o] = items[o]
                                   /\ order_lock'[o] = order_lock[o]
                                   /\ item_lock'[o] = item_lock[o]
           /\ order_lock[o] = s => /\ order_lock'[o] = NULL
                                   /\ item_lock'[o] # s
                                   /\ item_lock[o] # s => item_lock'[o] = item_lock[o]
           /\ order_lock[o] = s /\ Op(s) = "create" =>
                 orders'[o] # NULL /\ items'[o] # NoItems
           /\ order_lock[o] = s /\ Op(s) \in Changing =>
                 orders'[o] # NULL /\ items'[o] = items[o]
           /\ order_lock[o] = s /\ Op(s) = "delete" =>
                 orders'[o] = NULL /\ items'[o] = NoItems
  <1>1. /\ orders'[o] = IF order_lock[o] = s THEN staged[s] ELSE orders[o]
        /\ items'[o] = IF item_lock[o] = s THEN staged_items[s] ELSE items[o]
        /\ order_lock'[o] = IF order_lock[o] = s THEN NULL ELSE order_lock[o]
        /\ item_lock'[o] = IF item_lock[o] = s THEN NULL ELSE item_lock[o]
    BY DEF CommittingStep, ApplyWrites, EndTransaction
  <1>2. OrderLockOf(o, s) /\ ItemLockOf(o, s)
    BY DEF RowLocks
  <1>3. pc[s] = "flushed" /\ Op(s) \in Writing
    BY DEF CommittingStep, Control, ControlOf
  <1>4. order_lock[o] # s => item_lock[o] # s
    BY <1>2, <1>3 DEF ItemLockOf
  <1>5. Op(s) = "delete" => staged[s] = NULL /\ staged_items[s] = NoItems
    BY DEF Staging
  <1>6. NULL # s
    BY NullIsNoValue
  <1>. QED
    BY <1>1, <1>2, <1>3, <1>4, <1>5, <1>6 DEF OrderLockOf, ItemLockOf, Changing

(* What is gone stays gone, and what was stored once is stored or gone.    *)
LEMMA GoneStep ==
    ASSUME NEW s \in Slots, NEW o \in OrderIds, TypeOK, Control, Staging, RowLocks, UnusedIds,
           Begin(s) \/ Progress(s) \/ Fault(s)
    PROVE  /\ Gone(o) => Gone(o)'
           /\ orders[o] # NULL \/ Gone(o) => (orders[o] # NULL \/ Gone(o))'
<1>. USE DEF Gone, Shared, database
<1>a. NULL # s /\ next_id \in Nat /\ o \in Nat
  BY NullIsNoValue, ParametersAreNumbers DEF TypeOK, OrderIds
<1>1. CASE QuietStep(s) \/ FailingStep(s)
  BY <1>1 DEF QuietStep, FailingStep
<1>2. CASE EndingStep(s)
  BY <1>2 DEF EndingStep, EndTransaction
<1>3. CASE CommittingStep(s)
  <2>1. CASE order_lock[o] # s
    BY <1>3, <2>1, CommitEffect DEF CommittingStep
  <2>2. CASE order_lock[o] = s
    BY <1>a, <1>3, <2>2, CommitEffect DEF CommittingStep, UnusedIds
  <2>. QED
    BY <2>1, <2>2
<1>4. CASE AddOrder(s)
  BY <1>a, <1>4 DEF AddOrder, TypeOK, UnusedIds
<1>5. CASE FlushUpdate(s)
  BY <1>5 DEF FlushUpdate, TypeOK
<1>6. CASE AddItems(s) \/ FlushDeleteItems(s)
  BY <1>6 DEF AddItems, FlushDeleteItems
<1>7. CASE FlushDeleteOrder(s)
  BY <1>7 DEF FlushDeleteOrder, TypeOK
<1>. QED
  BY <1>1, <1>2, <1>3, <1>4, <1>5, <1>6, <1>7, StepKinds

(* Every step of a task keeps UnusedIds.                                   *)
LEMMA UnusedIdsStep ==
    ASSUME NEW s \in Slots, TypeOK, Control, Staging, RowLocks, UnusedIds, RowsSeen,
           Begin(s) \/ Progress(s) \/ Fault(s)
    PROVE  UnusedIds'
<1>. SUFFICES ASSUME NEW o \in OrderIds, o >= next_id'
              PROVE  orders'[o] = NULL /\ order_lock'[o] = NULL /\ item_lock'[o] = NULL
  BY DEF UnusedIds
<1>. USE DEF Shared, database
<1>a. NULL # s /\ next_id \in Nat /\ o \in Nat
  BY NullIsNoValue, ParametersAreNumbers DEF TypeOK, OrderIds
<1>1. CASE QuietStep(s) \/ FailingStep(s)
  BY <1>1 DEF QuietStep, FailingStep, UnusedIds
<1>2. CASE EndingStep(s)
  BY <1>2 DEF EndingStep, EndTransaction, UnusedIds
<1>3. CASE CommittingStep(s)
  BY <1>a, <1>3, CommitEffect DEF CommittingStep, UnusedIds
<1>4. CASE AddOrder(s)
  <2>1. o >= next_id /\ o # next_id
    BY <1>a, <1>4 DEF AddOrder
  <2>. QED
    BY <1>4, <2>1 DEF AddOrder, UnusedIds, TypeOK
<1>5. CASE FlushUpdate(s)
  BY <1>5 DEF FlushUpdate, UnusedIds, TypeOK
<1>6. CASE FlushDeleteItems(s)
  <2>1. Id(s) = o => Gone(o)
    BY <1>6 DEF FlushDeleteItems, Control, ControlOf, RowsSeen, SeenOf, UnusedIds
  <2>. QED
    BY <1>a, <1>6, <2>1 DEF FlushDeleteItems, UnusedIds, TypeOK, Gone
<1>7. CASE FlushDeleteOrder(s)
  BY <1>7 DEF FlushDeleteOrder, UnusedIds, TypeOK
<1>8. CASE AddItems(s)
  BY <1>a, <1>8 DEF AddItems, UnusedIds, TypeOK
<1>. QED
  BY <1>1, <1>2, <1>3, <1>4, <1>5, <1>6, <1>7, <1>8, StepKinds

(* Every step of a task keeps orders and items together.                   *)
LEMMA StoredStep ==
    ASSUME NEW s \in Slots, TypeOK, Control, Staging, RowLocks, StoredOrdersHaveItems,
           Begin(s) \/ Progress(s) \/ Fault(s)
    PROVE  StoredOrdersHaveItems'
<1>. SUFFICES ASSUME NEW o \in OrderIds
              PROVE  orders'[o] = NULL <=> items'[o] = NoItems
  BY DEF StoredOrdersHaveItems
<1>a. orders[o] = NULL <=> items[o] = NoItems
  BY DEF StoredOrdersHaveItems
<1>1. CASE UNCHANGED <<orders, items>>
  BY <1>1, <1>a
<1>2. CASE CommittingStep(s)
  <2>1. CASE order_lock[o] # s
    BY <1>2, <1>a, <2>1, CommitEffect
  <2>2. CASE order_lock[o] = s
    <3>1. Op(s) \in Writing /\ (Op(s) \in Changing => orders[o] # NULL)
      BY <2>2 DEF RowLocks, OrderLockOf
    <3>. QED
      BY <1>2, <1>a, <2>2, <3>1, CommitEffect DEF Writing, Changing
  <2>. QED
    BY <2>1, <2>2
<1>3. CommittingStep(s) \/ UNCHANGED <<orders, items>>
  BY StepKinds DEF QuietStep, FailingStep, EndingStep, AddOrder, AddItems, FlushUpdate,
                   FlushDeleteItems, FlushDeleteOrder, Shared, database
<1>. QED
  BY <1>1, <1>2, <1>3

(* A step of a task neither takes nor frees a lock of another task, and    *)
(* leaves the rows under such a lock as they are.                          *)
LEMMA OthersLocks ==
    ASSUME NEW s \in Slots, NEW t \in Slots \ {s}, NEW o \in OrderIds,
           TypeOK, Control, Staging, RowLocks, UnusedIds,
           Begin(s) \/ Progress(s) \/ Fault(s)
    PROVE  /\ order_lock'[o] = t => order_lock[o] = t
           /\ item_lock'[o] = t => item_lock[o] = t
           /\ order_lock[o] = t => order_lock'[o] = t /\ orders'[o] = orders[o]
           /\ item_lock[o] = t => item_lock'[o] = t /\ (orders[o] # NULL => orders'[o] # NULL)
<1>. USE DEF Shared, database
<1>a. NULL # s /\ NULL # t
  BY NullIsNoValue
<1>1. CASE QuietStep(s) \/ FailingStep(s)
  BY <1>1 DEF QuietStep, FailingStep
<1>2. CASE EndingStep(s)
  BY <1>a, <1>2 DEF EndingStep, EndTransaction
<1>3. CASE CommittingStep(s)
  <2>1. CASE order_lock[o] # s
    BY <1>3, <2>1, CommitEffect
  <2>2. CASE order_lock[o] = s
    <3>1. Op(s) \in Writing /\ (Op(s) = "delete" => item_lock[o] = s)
      BY <2>2 DEF RowLocks, OrderLockOf
    <3>2. order_lock'[o] = NULL
      BY <1>3, <2>2, CommitEffect
    <3>3. item_lock'[o] = IF item_lock[o] = s THEN NULL ELSE item_lock[o]
      BY <1>3 DEF CommittingStep, EndTransaction
    <3>4. item_lock[o] = t => orders'[o] # NULL
      BY <1>3, <2>2, <3>1, CommitEffect DEF Writing, Changing
    <3>. QED
      BY <1>a, <2>2, <3>2, <3>3, <3>4
  <2>. QED
    BY <2>1, <2>2
<1>4. CASE AddOrder(s)
  BY <1>a, <1>4 DEF AddOrder, TypeOK, UnusedIds
<1>5. CASE FlushUpdate(s)
  BY <1>a, <1>5 DEF FlushUpdate, TypeOK
<1>6. CASE FlushDeleteItems(s)
  <2>1. Id(s) = o => item_lock'[o] = item_lock[o] \/ (item_lock[o] = NULL /\ item_lock'[o] = s)
    BY <1>6 DEF FlushDeleteItems, TypeOK
  <2>2. Id(s) # o => item_lock'[o] = item_lock[o]
    BY <1>6 DEF FlushDeleteItems, TypeOK
  <2>. QED
    BY <1>a, <1>6, <2>1, <2>2 DEF FlushDeleteItems
<1>7. CASE FlushDeleteOrder(s)
  BY <1>a, <1>7 DEF FlushDeleteOrder, TypeOK
<1>8. CASE AddItems(s)
  <2>1. PICK p \in OrderIds : order_lock[p] = s /\ item_lock' = [item_lock EXCEPT ![p] = s]
    BY <1>8 DEF AddItems
  <2>2. item_lock[p] # t
    BY <1>8, <2>1 DEF RowLocks, OrderLockOf, ItemLockOf, AddItems, Control, ControlOf
  <2>. QED
    BY <1>8, <2>1, <2>2 DEF AddItems, TypeOK
<1>. QED
  BY <1>1, <1>2, <1>3, <1>4, <1>5, <1>6, <1>7, <1>8, StepKinds

(* Every step of a task keeps RowLocks: what the task takes is what its    *)
(* handler is about to change.                                             *)
LEMMA RowLocksStep ==
    ASSUME NEW s \in Slots, TypeOK, Control, Staging, RowLocks, UnusedIds, RowsSeen,
           StoredOrdersHaveItems, Begin(s) \/ Progress(s) \/ Fault(s)
    PROVE  RowLocks'
<1>. SUFFICES ASSUME NEW o \in OrderIds
              PROVE  OrderLockOf(o, s)' /\ ItemLockOf(o, s)'
  <2>1. ASSUME NEW o \in OrderIds, NEW t \in Slots \ {s}
        PROVE  OrderLockOf(o, t)' /\ ItemLockOf(o, t)'
    <3>1. OrderLockOf(o, t) /\ ItemLockOf(o, t)
      BY DEF RowLocks
    <3>2. /\ pc'[t] = pc[t]
          /\ cmd'[t] = cmd[t]
          /\ staged'[t] = staged[t]
          /\ staged_items'[t] = staged_items[t]
      BY StepIsLocal DEF OthersUnchanged
    <3>. QED
      BY <3>1, <3>2, OthersLocks DEF OrderLockOf, ItemLockOf, Op, Id
  <2>. QED
    BY <2>1 DEF RowLocks
<1>. USE DEF Shared, database, writes, Goto, Op, Id
<1>a. NULL # s
  BY NullIsNoValue
<1>b. OrderLockOf(o, s) /\ ItemLockOf(o, s)
  BY DEF RowLocks
<1>1. CASE QuietStep(s)
  BY <1>1, NoLocks DEF QuietStep, OrderLockOf, ItemLockOf
<1>2. CASE FailingStep(s)
  BY <1>2, <1>b DEF FailingStep, OrderLockOf, ItemLockOf
<1>3. CASE EndingStep(s) \/ CommittingStep(s)
  BY <1>a, <1>3 DEF EndingStep, CommittingStep, EndTransaction, OrderLockOf, ItemLockOf
<1>4. CASE AddOrder(s)
  <2>1. \A p \in OrderIds : order_lock[p] # s /\ item_lock[p] # s
    BY <1>4, NoLocks DEF AddOrder
  <2>2. /\ pc'[s] = "adding"
        /\ Op(s)' = "create"
        /\ orders' = orders
        /\ item_lock'[o] # s
        /\ \A p \in OrderIds : order_lock'[p] = s <=> p = next_id
    BY <1>4, <2>1, NewEntity DEF AddOrder, TypeOK
  <2>3. staged'[s] # NULL
    BY <1>4, NewEntity, NullIsNoValue
  <2>4. o = next_id => orders[o] = NULL
    BY ParametersAreNumbers DEF UnusedIds, OrderIds
  <2>. QED
    BY <2>2, <2>3, <2>4 DEF OrderLockOf, ItemLockOf, Writing, Changing
<1>8. CASE AddItems(s)
  <2>1. PICK p \in OrderIds : order_lock[p] = s /\ item_lock' = [item_lock EXCEPT ![p] = s]
    BY <1>8 DEF AddItems
  <2>2. \A x \in OrderIds : /\ order_lock[x] = s => x = p /\ orders[x] = NULL
                            /\ item_lock[x] # s
    BY <1>8, <2>1 DEF RowLocks, OrderLockOf, ItemLockOf, AddItems, Control, ControlOf
  <2>3. /\ pc'[s] = "flushed"
        /\ Op(s)' = "create"
        /\ orders' = orders
        /\ order_lock' = order_lock
        /\ staged' = staged
        /\ item_lock'[o] = s <=> o = p
    BY <1>8, <2>1, <2>2 DEF AddItems, TypeOK, Control, ControlOf
  <2>4. staged[s] # NULL /\ staged_items'[s] # NoItems
    BY <1>8, AddedItems, EmptyListIsNoBasket DEF AddItems, Control, ControlOf
  <2>. QED
    BY <2>1, <2>2, <2>3, <2>4 DEF OrderLockOf, ItemLockOf, Writing, Changing
<1>5. CASE FlushUpdate(s)
  <2>1. order_lock[o] # s /\ item_lock[o] # s
    BY <1>5, NoLocks DEF FlushUpdate, Flushing
  <2>2. /\ pc'[s] = "flushed"
        /\ Op(s)' \in {"update", "status"}
        /\ orders' = orders
        /\ item_lock'[o] # s
        /\ order_lock'[o] = s => o = Id(s) /\ orders[o] # NULL
    BY <1>5, <2>1 DEF FlushUpdate, Flushing, TypeOK
  <2>3. staged'[s] # NULL
    BY <1>5, StagedUpdate, NullIsNoValue
  <2>. QED
    BY <2>2, <2>3 DEF OrderLockOf, ItemLockOf, Writing, Changing
<1>6. CASE FlushDeleteItems(s)
  <2>1. order_lock[o] # s /\ item_lock[o] # s
    BY <1>6, NoLocks DEF FlushDeleteItems
  <2>2. /\ pc'[s] = "items_deleted"
        /\ Op(s)' = "delete"
        /\ Id(s)' = Id(s)
        /\ orders' = orders
        /\ order_lock'[o] # s
    BY <1>6, <2>1 DEF FlushDeleteItems, TypeOK
  <2>3. item_lock'[o] = s => o = Id(s) /\ items[o] # NoItems
    BY <1>6, <2>1 DEF FlushDeleteItems, TypeOK
  <2>. QED
    BY <2>2, <2>3 DEF OrderLockOf, ItemLockOf, StoredOrdersHaveItems
<1>7. CASE FlushDeleteOrder(s)
  <2>1. /\ order_lock[o] # s
        /\ Op(s) = "delete"
        /\ item_lock[o] = s => o = Id(s) /\ orders[o] # NULL
        /\ item_lock[Id(s)] # s => Gone(Id(s))
    BY <1>7, <1>b DEF FlushDeleteOrder, OrderLockOf, ItemLockOf, Control, ControlOf, RowsSeen, SeenOf
  <2>2. Id(s) \in OrderIds
    BY <1>7, <2>1, RequestInHand DEF FlushDeleteOrder
  <2>3. /\ pc'[s] = "flushed"
        /\ Op(s)' = Op(s)
        /\ Id(s)' = Id(s)
        /\ orders' = orders
        /\ item_lock'[o] = s <=> item_lock[o] = s
        /\ order_lock'[o] = IF o = Id(s) THEN (IF orders[o] # NULL THEN s ELSE NULL)
                            ELSE order_lock[o]
    BY <1>7, <2>1, <2>2 DEF FlushDeleteOrder, TypeOK, Gone
  <2>. QED
    BY <1>a, <2>1, <2>3 DEF OrderLockOf, ItemLockOf, Gone, Writing, Changing
<1>. QED
  BY <1>1, <1>2, <1>3, <1>4, <1>5, <1>6, <1>7, <1>8, StepKinds

(* What a second statement does not find belongs to an order that is gone. *)
LEMMA MissingItems ==
    ASSUME NEW s \in Slots, NEW o \in OrderIds, RowsSeen, StoredOrdersHaveItems,
           model[s][o] # NULL
    PROVE  /\ ItemsOf(model[s])[o] = NoItems => Gone(o)
           /\ items[o] = NoItems => Gone(o)
  BY DEF RowsSeen, SeenOf, StoredOrdersHaveItems, ItemsOf

(* Every step of a task keeps RowsSeen: a row is seen when it is read, and *)
(* found to be gone by a later statement that misses its items.            *)
LEMMA RowsSeenStep ==
    ASSUME NEW s \in Slots, TypeOK, Control, Staging, RowLocks, UnusedIds, RowsSeen,
           StoredOrdersHaveItems, Begin(s) \/ Progress(s) \/ Fault(s)
    PROVE  RowsSeen'
<1>. SUFFICES SeenOf(s)'
  <2>1. ASSUME NEW t \in Slots \ {s}
        PROVE  SeenOf(t)'
    <3>1. SeenOf(t)
      BY DEF RowsSeen
    <3>2. /\ pc'[t] = pc[t]
          /\ cmd'[t] = cmd[t]
          /\ model'[t] = model[t]
          /\ model_items'[t] = model_items[t]
      BY StepIsLocal DEF OthersUnchanged
    <3>3. \/ pc[t] \in {"loaded", "persisting", "flushing"} /\ Op(t) # "list"
          \/ pc[t] = "items_deleted"
          => Id(t) \in OrderIds
      BY RequestInHand DEF Control, ControlOf, Routes, Changing
    <3>4. \A o \in OrderIds : /\ Gone(o) => Gone(o)'
                              /\ orders[o] # NULL \/ Gone(o) => (orders[o] # NULL \/ Gone(o))'
      BY GoneStep
    <3>5. pc[t] = "items_deleted" /\ item_lock'[Id(t)] # t => item_lock[Id(t)] # t
      BY <3>3, OthersLocks
    <3>. QED
      BY <3>1, <3>2, <3>3, <3>4, <3>5 DEF SeenOf, Op, Id
  <2>. QED
    BY <2>1 DEF RowsSeen
<1>. USE DEF Op, Id, database, locks, writes, session, Goto
<1>a. SeenOf(s) /\ ControlOf(s)
  BY DEF RowsSeen, Control
<1>b. ASSUME NEW o \in OrderIds
      PROVE  /\ Gone(o) => Gone(o)'
             /\ orders[o] # NULL \/ Gone(o) => (orders[o] # NULL \/ Gone(o))'
  BY GoneStep
<1>c. \/ pc[s] \in {"loading", "loaded", "persisting", "reloading", "flushing"} /\ Op(s) # "list"
      \/ pc[s] = "items_deleted"
      => Id(s) \in OrderIds
  BY RequestInHand DEF Control, ControlOf, Routes, Changing
\* Elsewhere the session only forgets, and nothing is concluded from it.
<1>d. SUFFICES ASSUME \/ pc'[s] \in {"loaded", "persisting", "flushing", "items_deleted"}
                      \/ ~ \A o \in OrderIds : model'[s][o] \in {NULL, model[s][o]}
               PROVE  SeenOf(s)'
  BY <1>a, <1>b DEF SeenOf
<1>1. CASE SelectOrders(s)
  <2>1. /\ pc'[s] = "loading"
        /\ \A o \in OrderIds : model'[s][o] \in {NULL, orders[o]}
        /\ orders' = orders
    BY <1>1 DEF SelectOrders, Selected, TypeOK
  <2>. QED
    BY <2>1 DEF SeenOf
<1>2. CASE SelectItems(s)
  <2>1. /\ pc'[s] \in {"loaded", "persisting"}
        /\ UNCHANGED <<cmd, model, orders>>
        /\ model_items'[s] = ItemsOf(model[s])
    BY <1>2 DEF SelectItems, TypeOK
  <2>2. Op(s) # "list" => Id(s) \in OrderIds /\ model[s][Id(s)] # NULL
    BY <1>2, <1>a, <1>c DEF SelectItems, ControlOf
  <2>3. Op(s) # "list" /\ ItemsOf(model[s])[Id(s)] = NoItems => Gone(Id(s))'
    BY <2>1, <2>2, <1>b, MissingItems
  <2>. QED
    BY <1>a, <1>b, <2>1, <2>3 DEF SeenOf
<1>3. CASE \/ HandleUpdate(s) /\ pc'[s] = "persisting"
           \/ HandleStatus(s) /\ pc'[s] = "persisting"
           \/ GetCached(s)
  <2>1. /\ pc[s] \in {"loaded", "persisting"}
        /\ pc'[s] \in {"persisting", "flushing"}
        /\ UNCHANGED <<cmd, model, model_items>>
    BY <1>3 DEF HandleUpdate, HandleStatus, GetCached, Raise, TypeOK
  <2>. QED
    BY <1>a, <1>b, <1>c, <2>1 DEF SeenOf
<1>4. CASE GetAgain(s)
  <2>1. /\ pc'[s] = "reloading"
        /\ \A o \in OrderIds : model'[s][o] \in {orders[o], model[s][o]}
        /\ orders' = orders
    BY <1>4 DEF GetAgain, TypeOK
  <2>. QED
    BY <1>a, <1>b, <2>1 DEF SeenOf
<1>5. CASE ReloadItems(s)
  <2>1. /\ pc'[s] = "flushing"
        /\ UNCHANGED <<cmd, model, orders>>
        /\ model_items'[s] = ItemsOf(model[s])
    BY <1>5 DEF ReloadItems, TypeOK
  <2>2. Op(s) # "list" /\ Id(s) \in OrderIds /\ model[s][Id(s)] # NULL
    BY <1>5, <1>a, <1>c DEF ReloadItems, ControlOf, Changing
  <2>3. ItemsOf(model[s])[Id(s)] = NoItems => Gone(Id(s))'
    BY <2>1, <2>2, <1>b, MissingItems
  <2>. QED
    BY <1>a, <1>b, <2>1, <2>3 DEF SeenOf
<1>6. CASE FlushDeleteItems(s)
  <2>1. /\ pc'[s] = "items_deleted"
        /\ UNCHANGED <<cmd, model, orders>>
    BY <1>6 DEF FlushDeleteItems, TypeOK
  <2>2. Id(s) \in OrderIds /\ model[s][Id(s)] # NULL
    BY <1>6, <1>a, <1>c DEF FlushDeleteItems, ControlOf
  <2>3. item_lock'[Id(s)] # s => model_items[s][Id(s)] = NoItems \/ items[Id(s)] = NoItems
    BY <1>6, <2>2 DEF FlushDeleteItems, TypeOK
  <2>4. item_lock'[Id(s)] # s => Gone(Id(s))'
    BY <1>6, <1>a, <1>b, <2>2, <2>3, MissingItems DEF FlushDeleteItems, SeenOf
  <2>. QED
    BY <1>a, <1>b, <2>1, <2>4 DEF SeenOf
<1>7. CASE SelectNothing(s) /\ pc'[s] = "loaded"
  <2>1. /\ Op(s) = "list"
        /\ UNCHANGED <<cmd, model>>
        /\ pc'[s] = "loaded"
    BY <1>7 DEF SelectNothing, Raise, TypeOK
  <2>. QED
    BY <1>a, <1>b, <2>1 DEF SeenOf
<1>. USE DEF Raise, Forget, Answer, NoRows
<1>8. CASE Begin(s) \/ AnswerQuery(s) \/ Respond(s) \/ Rollback(s) \/ Deliver(s)
  BY <1>8, <1>d DEF Begin, AnswerQuery, Respond, Rollback, Deliver, TypeOK
<1>9. CASE \/ AddOrder(s) \/ AddItems(s) \/ AddFails(s)
           \/ FlushNothing(s) \/ FlushUpdate(s) \/ FlushStale(s)
  BY <1>9, <1>d DEF AddOrder, AddItems, AddFails, FlushNothing, FlushUpdate, FlushStale, TypeOK
<1>10. CASE Commit(s) \/ PoolTimeout(s) \/ StatementFails(s) \/ CommitReplyLost(s)
  BY <1>10, <1>d DEF Commit, PoolTimeout, StatementFails, CommitReplyLost, TypeOK
<1>11. CASE FlushDeleteOrder(s) \/ GetNothing(s)
  BY <1>11, <1>d DEF FlushDeleteOrder, GetNothing, TypeOK
<1>12. CASE /\ SelectNothing(s) \/ HandleUpdate(s) \/ HandleStatus(s)
            /\ pc'[s] \notin {"loaded", "persisting"}
  BY <1>12, <1>d DEF SelectNothing, HandleUpdate, HandleStatus, TypeOK
<1>13. SelectNothing(s) \/ HandleUpdate(s) \/ HandleStatus(s) =>
          /\ pc'[s] \in {"loaded", "persisting", "unwinding"}
          /\ SelectNothing(s) => pc'[s] # "persisting"
          /\ ~SelectNothing(s) => pc'[s] # "loaded"
  BY DEF SelectNothing, HandleUpdate, HandleStatus, TypeOK
<1>. QED
  BY <1>1, <1>2, <1>3, <1>4, <1>5, <1>6, <1>7, <1>8, <1>9, <1>10, <1>11, <1>12, <1>13
     DEF Progress, Fault, Load, Handle, Reload, Flush, Finish

(* A step takes a connection, gives one back, or leaves the pool alone, in *)
(* which case a task that comes to rest was at rest already.               *)
LEMMA PoolSteps ==
    ASSUME NEW s \in Slots, TypeOK, Begin(s) \/ Progress(s) \/ Fault(s)
    PROVE  \/ conns' = conns /\ (AtRest(s)' => AtRest(s))
           \/ PoolHasRoom /\ conns' = conns \cup {s} /\ ~AtRest(s)'
           \/ conns' = conns \ {s}
<1>. USE DEF AtRest, TypeOK, Goto, Raise, Answer, EndTransaction, Flushing
<1>1. CASE Begin(s) \/ Load(s)
  BY <1>1 DEF Begin, Load, SelectOrders, SelectNothing, SelectItems
<1>2. CASE Handle(s)
  BY <1>2 DEF Handle, AnswerQuery, HandleUpdate, HandleStatus
<1>3. CASE Reload(s)
  BY <1>3 DEF Reload, GetCached, GetAgain, GetNothing, ReloadItems
<1>4. CASE Flush(s)
  BY <1>4 DEF Flush, AddOrder, AddItems, AddFails, FlushNothing, FlushUpdate, FlushStale,
              FlushDeleteItems, FlushDeleteOrder
<1>5. CASE Finish(s)
  BY <1>5 DEF Finish, Commit, Respond, Rollback, Deliver
<1>6. CASE Fault(s)
  BY <1>6 DEF Fault, PoolTimeout, StatementFails, CommitReplyLost
<1>. QED
  BY <1>1, <1>2, <1>3, <1>4, <1>5, <1>6 DEF Progress

(* Every step of a task keeps PoolUse.                                     *)
LEMMA PoolUseStep ==
    ASSUME NEW s \in Slots, TypeOK, PoolUse, Begin(s) \/ Progress(s) \/ Fault(s)
    PROVE  PoolUse'
<1>1. /\ IsFiniteSet(conns)
      /\ Cardinality(conns) \in Nat
      /\ Cardinality(conns) <= PoolLimit
  BY FS_CardinalityType DEF PoolUse
<1>2. IsFiniteSet(conns') /\ Cardinality(conns') <= PoolLimit
  <2>1. CASE conns' = conns
    BY <1>1, <2>1
  <2>2. CASE PoolHasRoom /\ conns' = conns \cup {s}
    <3>1. /\ IsFiniteSet(conns \cup {s})
          /\ Cardinality(conns \cup {s}) \in {Cardinality(conns), Cardinality(conns) + 1}
      BY <1>1, FS_AddElement
    <3>. QED
      BY <1>1, <2>2, <3>1, ParametersAreNumbers DEF PoolHasRoom
  <2>3. CASE conns' = conns \ {s}
    <3>1. /\ IsFiniteSet(conns \ {s})
          /\ Cardinality(conns \ {s}) \in {Cardinality(conns), Cardinality(conns) - 1}
      BY <1>1, FS_RemoveElement
    <3>. QED
      BY <1>1, <2>3, <3>1, ParametersAreNumbers
  <2>. QED
    BY <2>1, <2>2, <2>3, PoolSteps
<1>3. ASSUME NEW t \in conns'
      PROVE  ~AtRest(t)'
  <2>1. CASE t = s
    BY <2>1, PoolSteps DEF PoolUse
  <2>2. CASE t # s
    <3>1. t \in conns
      BY <2>2, PoolSteps
    <3>2. t \in Slots
      BY <3>1 DEF TypeOK
    <3>3. pc'[t] = pc[t]
      BY <2>2, <3>2, StepIsLocal DEF OthersUnchanged
    <3>. QED
      BY <3>1, <3>3 DEF PoolUse, AtRest
  <2>. QED
    BY <2>1, <2>2
<1>. QED
  BY <1>2, <1>3 DEF PoolUse

-----------------------------------------------------------------------------
(* The empty service satisfies the invariant.                              *)
LEMMA InvariantInit == Init => ServiceInvariant
<1>. SUFFICES ASSUME Init
              PROVE  ServiceInvariant
  OBVIOUS
<1>. USE NullIsNoValue, ParametersAreNumbers DEF Init
<1>1. TypeOK
  BY DEF TypeOK, NoRows, NoItemRows, ItemList, Labels
<1>2. Control /\ Staging /\ RowLocks
  BY DEF Control, ControlOf, Staging, RowLocks, OrderLockOf, ItemLockOf
<1>3. UnusedIds /\ RowsSeen /\ StoredOrdersHaveItems
  BY DEF UnusedIds, RowsSeen, SeenOf, StoredOrdersHaveItems, NoRows
<1>4. PoolUse
  BY FS_EmptySet DEF PoolUse
<1>. QED
  BY <1>1, <1>2, <1>3, <1>4 DEF ServiceInvariant

(* A crash forgets every task and keeps the committed rows.                *)
LEMMA InvariantCrash ==
    ASSUME ServiceInvariant, Crash
    PROVE  ServiceInvariant'
<1>. USE NullIsNoValue DEF ServiceInvariant, Crash, database
<1>1. TypeOK'
  BY DEF TypeOK, NoRows, NoItemRows, ItemList, Labels
<1>2. Control' /\ Staging' /\ RowLocks'
  BY DEF Control, ControlOf, Staging, RowLocks, OrderLockOf, ItemLockOf
<1>3. UnusedIds' /\ RowsSeen' /\ StoredOrdersHaveItems'
  BY DEF UnusedIds, RowsSeen, SeenOf, StoredOrdersHaveItems, NoRows
<1>4. PoolUse'
  BY FS_EmptySet, ParametersAreNumbers DEF PoolUse
<1>. QED
  BY <1>1, <1>2, <1>3, <1>4

(* Time passing, and a step of anything else, leaves the invariant alone.  *)
LEMMA InvariantTick ==
    ASSUME ServiceInvariant, Tick \/ UNCHANGED vars
    PROVE  ServiceInvariant'
<1>. USE DEF ServiceInvariant, Tick, vars, database, locks, writes, session
<1>1. TypeOK'
  BY ParametersAreNumbers DEF TypeOK
<1>2. Control' /\ Staging' /\ RowLocks'
  BY DEF Control, ControlOf, Staging, RowLocks, OrderLockOf, ItemLockOf, Op, Id
<1>3. UnusedIds' /\ RowsSeen' /\ StoredOrdersHaveItems'
  BY DEF UnusedIds, RowsSeen, SeenOf, StoredOrdersHaveItems, Op, Id, Gone
<1>4. PoolUse'
  BY DEF PoolUse, AtRest
<1>. QED
  BY <1>1, <1>2, <1>3, <1>4

(* Every step of the service keeps the invariant.                          *)
LEMMA InvariantNext ==
    ASSUME ServiceInvariant, [Next]_vars
    PROVE  ServiceInvariant'
<1>1. ASSUME NEW s \in Slots, Begin(s) \/ Progress(s) \/ Fault(s)
      PROVE  ServiceInvariant'
  <2>. USE <1>1 DEF ServiceInvariant
  <2>1. TypeOK' /\ Control' /\ Staging'
    BY TypeStep, ControlStep, StagingStep
  <2>2. RowLocks' /\ UnusedIds' /\ RowsSeen'
    BY RowLocksStep, UnusedIdsStep, RowsSeenStep
  <2>3. PoolUse' /\ StoredOrdersHaveItems'
    BY PoolUseStep, StoredStep
  <2>. QED
    BY <2>1, <2>2, <2>3
<1>. QED
  BY <1>1, InvariantTick, InvariantCrash DEF Next

-----------------------------------------------------------------------------
(* The invariant holds throughout every behaviour of the service.          *)
THEOREM ServiceInvariantHolds == Spec => []ServiceInvariant
<1>1. ServiceInvariant /\ [Next]_vars => ServiceInvariant'
  BY InvariantNext
<1>. QED
  BY InvariantInit, <1>1, PTL DEF Spec

(* Type correctness.                                                       *)
THEOREM TypeCorrect == Spec => []TypeOK
<1>1. ServiceInvariant => TypeOK
  BY DEF ServiceInvariant
<1>. QED
  BY <1>1, ServiceInvariantHolds, PTL

(* No interleaving of statements, commits, failures and crashes leaves an  *)
(* order without its items, or items without their order.                  *)
THEOREM OrdersAndItemsTogether == Spec => []StoredOrdersHaveItems
<1>1. ServiceInvariant => StoredOrdersHaveItems
  BY DEF ServiceInvariant
<1>. QED
  BY <1>1, ServiceInvariantHolds, PTL

(* Every way out of a unit of work gives back the connection and the row   *)
(* locks, and the pool's limit is kept.                                    *)
THEOREM NothingLeaks == Spec => []NothingHeldAtRest
<1>1. ServiceInvariant => NothingHeldAtRest
  <2>. SUFFICES ASSUME ServiceInvariant
                PROVE  NothingHeldAtRest
    OBVIOUS
  <2>1. ASSUME NEW s \in Slots, AtRest(s)
        PROVE  /\ s \notin conns
               /\ \A o \in OrderIds : order_lock[o] # s /\ item_lock[o] # s
    BY <2>1, NoLocks DEF ServiceInvariant, PoolUse, AtRest
  <2>. QED
    BY <2>1 DEF NothingHeldAtRest, ServiceInvariant, PoolUse, AtRest
<1>. QED
  BY <1>1, ServiceInvariantHolds, PTL

=============================================================================
