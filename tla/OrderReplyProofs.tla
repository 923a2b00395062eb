-------------------------- MODULE OrderReplyProofs --------------------------
(***************************************************************************)
(* Proofs that what OrderService replies is right: of whom it leaves out   *)
(* the items, what a 204 means, what a committed update shows.             *)
(***************************************************************************)
EXTENDS OrderServiceProofs

(* True items stay true: a commit of another task either leaves them or    *)
(* removes their order for good.                                           *)
LEMMA TrueToStep ==
    ASSUME NEW s \in Slots, NEW o \in OrderIds, NEW basket, ServiceInvariant,
           Begin(s) \/ Progress(s) \/ Fault(s), TrueTo(o, basket)
    PROVE  TrueTo(o, basket)'
<1>. USE DEF ServiceInvariant
<1>1. CASE Gone(o)
  BY <1>1, GoneStep DEF TrueTo
<1>2. CASE orders[o] # NULL /\ items[o] = basket
  <2>1. CASE UNCHANGED <<orders, items>>
    BY <1>2, <2>1 DEF TrueTo
  <2>2. CASE CommittingStep(s)
    <3>1. orders'[o] # NULL => items'[o] = items[o]
      BY <1>2, <2>2, CommitEffect DEF RowLocks, OrderLockOf, Writing, Changing
    <3>2. orders'[o] = NULL => Gone(o)'
      BY <1>2, GoneStep
    <3>. QED
      BY <1>2, <3>1, <3>2 DEF TrueTo
  <2>3. CommittingStep(s) \/ UNCHANGED <<orders, items>>
    BY StepKinds DEF QuietStep, FailingStep, EndingStep, AddOrder, AddItems, FlushUpdate,
                     FlushDeleteItems, FlushDeleteOrder, Shared, database
  <2>. QED
    BY <2>1, <2>2, <2>3
<1>. QED
  BY <1>1, <1>2 DEF TrueTo

(* The items that a second statement finds are true to the rows of the     *)
(* first.                                                                  *)
LEMMA ItemsFoundAreTrue ==
    ASSUME NEW s \in Slots, NEW o \in OrderIds, ServiceInvariant, model[s][o] # NULL
    PROVE  TrueTo(o, ItemsOf(model[s])[o])
  BY DEF ServiceInvariant, RowsSeen, SeenOf, ItemsOf, TrueTo

(* A missing list is true of no stored order.                              *)
LEMMA NoItemsOfStored ==
    ASSUME NEW o \in OrderIds, StoredOrdersHaveItems, TrueTo(o, NoItems)
    PROVE  Gone(o)
  BY DEF StoredOrdersHaveItems, TrueTo

-----------------------------------------------------------------------------
(* What a task that does not move knows stays so while another one does.   *)
LEMMA OthersReplies ==
    ASSUME NEW s \in Slots, NEW t \in Slots \ {s}, ServiceInvariant, RepliesOf(t),
           Begin(s) \/ Progress(s) \/ Fault(s)
    PROVE  RepliesOf(t)'
<1>. USE DEF ServiceInvariant
<1>1. /\ pc'[t] = pc[t]
      /\ cmd'[t] = cmd[t]
      /\ model'[t] = model[t]
      /\ model_items'[t] = model_items[t]
      /\ order'[t] = order[t]
      /\ response'[t] = response[t]
  BY StepIsLocal DEF OthersUnchanged
<1>2. EmptySessionOf(t)'
  BY <1>1 DEF RepliesOf, EmptySessionOf
<1>3. pc[t] # "idle" /\ Op(t) \in {"update", "status", "delete"} => Id(t) \in OrderIds
  BY RequestInHand
<1>4. \A o \in OrderIds : Gone(o) => Gone(o)'
  BY GoneStep
<1>5. ItemsTrueOf(t)'
  <2>1. ASSUME pc[t] \in {"loaded", "persisting", "reloading", "flushing"},
               NEW o \in OrderIds, model[t][o] # NULL
        PROVE  TrueTo(o, model_items[t][o])'
    BY <1>1, <2>1, TrueToStep DEF RepliesOf, ItemsTrueOf, TrueTo, Gone
  <2>2. ASSUME pc[t] \in {"flushed", "committed"}, Op(t) \in Changing
        PROVE  TrueTo(Id(t), order[t].items)'
    <3>1. /\ Id(t) \in OrderIds
          /\ order[t].id = Id(t)
          /\ TrueTo(Id(t), order[t].items)
      BY <1>3, <2>2 DEF RepliesOf, ItemsTrueOf, Changing
    <3>2. Id(t)' = Id(t) /\ order[t]' = order[t]
      BY <1>1 DEF Id
    <3>. QED
      BY <3>1, <3>2, TrueToStep DEF TrueTo, Gone
  <2>3. ASSUME pc[t] = "done", NEW dto \in response[t].body, dto.items = NoItems
        PROVE  dto.id \in OrderIds /\ Gone(dto.id)'
    BY <1>4, <2>3 DEF RepliesOf, ItemsTrueOf
  <2>4. pc[t] \in {"flushed", "committed"} /\ Op(t) \in Changing => order[t].id = Id(t)
    BY DEF RepliesOf, ItemsTrueOf
  <2>5. Op(t)' = Op(t) /\ Id(t)' = Id(t)
    BY <1>1 DEF Op, Id
  <2>6. ASSUME pc[t] = "flushed", Op(t) \in Changing, order_lock'[Id(t)] # t
        PROVE  order[t] = order_model_to_entity(Id(t), model[t][Id(t)], model_items[t][Id(t)])
    <3>1. Id(t) \in OrderIds
      BY <1>3, <2>6 DEF Changing
    <3>2. order_lock[Id(t)] # t
      BY <2>6, <3>1, OthersLocks
    <3>. QED
      BY <2>6, <3>2 DEF RepliesOf, ItemsTrueOf
  <2>7. ASSUME pc'[t] = "flushed", Op(t)' \in Changing, (order_lock[Id(t)] # t)'
        PROVE  (order[t] = order_model_to_entity(Id(t), model[t][Id(t)],
                                                 model_items[t][Id(t)]))'
    <3>1. pc[t] = "flushed" /\ Op(t) \in Changing /\ order_lock'[Id(t)] # t
      BY <1>1, <2>5, <2>7
    <3>. QED
      BY <1>1, <2>5, <2>6, <3>1 DEF order_model_to_entity
  <2>. QED
    BY <1>1, <2>1, <2>2, <2>3, <2>4, <2>5, <2>7 DEF RepliesOf, ItemsTrueOf
<1>6. DeletionOf(t)'
  <2>1. pc[t] # "idle" /\ Op(t) = "delete" /\ order_lock[Id(t)] = t => order_lock'[Id(t)] = t
    BY <1>3, OthersLocks
  <2>. QED
    BY <1>1, <1>3, <1>4, <2>1 DEF RepliesOf, DeletionOf, Op, Id
<1>. QED
  BY <1>2, <1>5, <1>6 DEF RepliesOf

-----------------------------------------------------------------------------
(* A task that raises, or has its reply, forgets the rows of its session.  *)
LEMMA EmptySessionStep ==
    ASSUME NEW s \in Slots, ServiceInvariant, RepliesOf(s), Begin(s) \/ Progress(s) \/ Fault(s)
    PROVE  EmptySessionOf(s)'
<1>. USE DEF ServiceInvariant, TypeOK, RepliesOf, EmptySessionOf, database, locks, writes,
             session, Goto
<1>1. CASE Begin(s) \/ Deliver(s) \/ Rollback(s)
  BY <1>1 DEF Begin, Deliver, Rollback, Answer
<1>2. CASE AnswerQuery(s) \/ Respond(s)
  BY <1>2 DEF AnswerQuery, Respond, Answer, Forget
<1>3. CASE /\ pc'[s] = "unwinding"
           /\ model'[s] = NoRows
  BY <1>3
<1>4. CASE pc'[s] \notin {"idle", "begun", "unwinding", "done"}
  BY <1>4
<1>5. CASE Load(s)
  BY <1>3, <1>4, <1>5 DEF Load, SelectOrders, SelectNothing, SelectItems, Raise, Forget
<1>6. CASE HandleUpdate(s) \/ HandleStatus(s)
  BY <1>3, <1>4, <1>6 DEF HandleUpdate, HandleStatus, Raise, Forget
<1>7. CASE Reload(s)
  BY <1>3, <1>4, <1>7 DEF Reload, GetCached, GetAgain, GetNothing, ReloadItems, Raise, Forget
<1>8. CASE Flush(s)
  BY <1>3, <1>4, <1>8 DEF Flush, AddOrder, AddItems, AddFails, FlushNothing, FlushUpdate, FlushStale,
                          FlushDeleteItems, FlushDeleteOrder, Raise, Forget
<1>9. CASE Fault(s) \/ Commit(s)
  BY <1>3, <1>4, <1>9 DEF Fault, PoolTimeout, StatementFails, CommitReplyLost, Commit, Raise, Forget
<1>. QED
  BY <1>1, <1>2, <1>5, <1>6, <1>7, <1>8, <1>9 DEF Progress, Handle, Finish

(* A delete passes its flush with the row in its hands or with the order   *)
(* gone, and only its commit lets it answer 204.                           *)
LEMMA DeletionStep ==
    ASSUME NEW s \in Slots, ServiceInvariant, RepliesOf(s), Begin(s) \/ Progress(s) \/ Fault(s)
    PROVE  DeletionOf(s)'
<1>. USE DEF ServiceInvariant, database, locks, writes, session, Goto
<1>a. SUFFICES ASSUME pc'[s] \in {"flushed", "committed", "done"}, Op(s)' = "delete"
               PROVE  DeletionOf(s)'
  BY DEF DeletionOf
<1>b. pc[s] # "idle" /\ Op(s) = "delete" => Id(s) \in OrderIds
  BY RequestInHand
<1>c. \A o \in OrderIds : /\ Gone(o) => Gone(o)'
                          /\ orders[o] # NULL \/ Gone(o) => (orders[o] # NULL \/ Gone(o))'
  BY GoneStep
<1>d. SeenOf(s) /\ DeletionOf(s) /\ ControlOf(s)
  BY DEF RepliesOf, RowsSeen, Control
<1>1. CASE GetNothing(s)
  <2>1. pc[s] = "persisting" /\ orders[Id(s)] = NULL /\ cmd' = cmd
    BY <1>1, <1>a DEF GetNothing
  <2>2. Op(s) = "delete" /\ Id(s) \in OrderIds
    BY <1>a, <1>b, <2>1 DEF Op
  <2>3. Gone(Id(s))
    BY <1>d, <2>1, <2>2 DEF SeenOf, ControlOf
  <2>4. pc'[s] = "flushed" /\ Id(s)' = Id(s)
    BY <1>1, <2>1, <2>2 DEF GetNothing, TypeOK, Id
  <2>. QED
    BY <1>c, <2>2, <2>3, <2>4 DEF DeletionOf, Gone
<1>2. CASE FlushDeleteOrder(s)
  <2>1. /\ pc'[s] = "flushed"
        /\ Id(s)' = Id(s)
        /\ Op(s) = "delete"
        /\ Id(s) \in OrderIds
        /\ item_lock[Id(s)] # s => Gone(Id(s))
    BY <1>2, <1>b, <1>d DEF FlushDeleteOrder, TypeOK, Id, ControlOf, SeenOf
  <2>2. item_lock[Id(s)] = s => orders[Id(s)] # NULL
    BY <2>1 DEF RowLocks, ItemLockOf
  <2>3. order_lock'[Id(s)] = s \/ Gone(Id(s))
    BY <1>2, <2>1, <2>2 DEF FlushDeleteOrder, TypeOK
  <2>. QED
    BY <1>c, <2>1, <2>3 DEF DeletionOf, Gone
<1>3. CASE Commit(s)
  <2>1. /\ pc[s] = "flushed"
        /\ pc'[s] = "committed"
        /\ Op(s) = "delete"
        /\ Id(s)' = Id(s)
    BY <1>3, <1>a DEF Commit, TypeOK, Op, Id
  <2>2. Id(s) \in OrderIds /\ (order_lock[Id(s)] = s \/ Gone(Id(s)))
    BY <1>b, <1>d, <2>1 DEF DeletionOf
  <2>3. CommittingStep(s)
    BY <1>3 DEF Commit, CommittingStep
  <2>4. order_lock[Id(s)] = s => orders[Id(s)] # NULL /\ orders'[Id(s)] = NULL
    BY <2>1, <2>2, <2>3, CommitEffect DEF RowLocks, OrderLockOf
  <2>. QED
    BY <1>c, <2>1, <2>2, <2>4 DEF DeletionOf, Gone
<1>4. CASE Respond(s)
  <2>1. /\ pc[s] = "committed"
        /\ pc'[s] = "done"
        /\ Op(s) = "delete"
        /\ Id(s)' = Id(s)
    BY <1>4, <1>a DEF Respond, Answer, TypeOK, Op, Id
  <2>. QED
    BY <1>b, <1>c, <1>d, <2>1 DEF DeletionOf, Gone
<1>5. CASE Rollback(s)
  <2>1. pc'[s] = "done" /\ response'[s].code = HttpStatus(exc[s])
    BY <1>5 DEF Rollback, Answer, Reply, TypeOK
  <2>. QED
    BY <2>1, HttpStatusRange DEF DeletionOf
<1>6. ~Begin(s) /\ ~Deliver(s) /\ ~Load(s) /\ ~Handle(s) /\ ~Fault(s)
  BY <1>a DEF Begin, Deliver, Load, SelectOrders, SelectNothing, SelectItems, Handle, AnswerQuery,
              HandleUpdate, HandleStatus, Fault, PoolTimeout, StatementFails, CommitReplyLost,
              Raise, TypeOK, Op
<1>7. ~GetCached(s) /\ ~GetAgain(s) /\ ~ReloadItems(s)
  BY <1>a DEF GetCached, GetAgain, ReloadItems, TypeOK
<1>8. Flush(s) => FlushDeleteOrder(s)
  BY <1>a, <1>d DEF ControlOf, Flush, AddOrder, AddItems, AddFails, FlushNothing, FlushUpdate,
              FlushStale, FlushDeleteItems, Flushing, Raise, TypeOK, Op
<1>. QED
  BY <1>1, <1>2, <1>3, <1>4, <1>5, <1>6, <1>7, <1>8 DEF Progress, Reload, Finish

(* The items that a task reads, returns and replies are true.              *)
LEMMA ItemsTrueStep ==
    ASSUME NEW s \in Slots, ServiceInvariant, RepliesOf(s), Begin(s) \/ Progress(s) \/ Fault(s)
    PROVE  ItemsTrueOf(s)'
<1>. USE DEF ServiceInvariant, database, locks, writes, session, Goto
<1>a. SUFFICES ASSUME pc'[s] \in {"loaded", "persisting", "reloading", "flushing", "flushed",
                                   "committed", "done"}
               PROVE  ItemsTrueOf(s)'
  BY DEF ItemsTrueOf
<1>b. \A o \in OrderIds : Gone(o) => Gone(o)'
  BY GoneStep
<1>c. ASSUME NEW o \in OrderIds, NEW basket, TrueTo(o, basket)
      PROVE  TrueTo(o, basket)'
  BY <1>c, TrueToStep
<1>d. RepliesOf(s) /\ ControlOf(s)
  BY DEF Control
<1>e. pc[s] # "idle" /\ Op(s) \in {"update", "status", "delete", "get"} => Id(s) \in OrderIds
  BY RequestInHand
<1>f. pc[s] # "idle" => Op(s) \in Routes
  BY RequestInHand
<1>1. CASE SelectItems(s) \/ ReloadItems(s)
  <2>1. /\ pc'[s] \in {"loaded", "persisting", "flushing"}
        /\ model' = model
        /\ model_items'[s] = ItemsOf(model[s])
    BY <1>1 DEF SelectItems, ReloadItems, TypeOK
  <2>2. \A o \in OrderIds : model[s][o] # NULL => TrueTo(o, ItemsOf(model[s])[o])
    BY ItemsFoundAreTrue
  <2>. QED
    BY <1>c, <2>1, <2>2 DEF ItemsTrueOf, TrueTo, Gone
<1>2. CASE SelectNothing(s)
  <2>1. pc[s] = "begun" /\ pc'[s] = "loaded" /\ model' = model
    BY <1>2, <1>a DEF SelectNothing, Raise, TypeOK
  <2>2. \A o \in OrderIds : model[s][o] = NULL
    BY <1>d, <2>1 DEF RepliesOf, EmptySessionOf, NoRows
  <2>. QED
    BY <2>1, <2>2 DEF ItemsTrueOf
<1>3. CASE HandleUpdate(s) \/ HandleStatus(s) \/ GetCached(s)
  <2>1. /\ pc[s] \in {"loaded", "persisting"}
        /\ pc'[s] \in {"persisting", "flushing"}
        /\ UNCHANGED session
    BY <1>3, <1>a DEF HandleUpdate, HandleStatus, GetCached, Raise, TypeOK
  <2>. QED
    BY <1>c, <1>d, <2>1 DEF RepliesOf, ItemsTrueOf, TrueTo, Gone
<1>4. CASE GetAgain(s)
  <2>1. /\ pc[s] = "persisting"
        /\ pc'[s] = "reloading"
        /\ model_items' = model_items
        /\ Id(s) \in OrderIds
        /\ model[s][Id(s)] # NULL
    BY <1>4, <1>d, <1>e DEF GetAgain, TypeOK, ControlOf, Changing
  <2>2. \A o \in OrderIds : model'[s][o] # NULL => model[s][o] # NULL
    BY <1>4, <2>1 DEF GetAgain, TypeOK
  <2>. QED
    BY <1>c, <1>d, <2>1, <2>2 DEF RepliesOf, ItemsTrueOf, TrueTo, Gone
<1>5. CASE FlushNothing(s) \/ FlushUpdate(s)
  <2>1. /\ pc[s] = "flushing"
        /\ pc'[s] = "flushed"
        /\ cmd' = cmd
        /\ Op(s) \in Changing
        /\ order'[s] = Persisted(s)
    BY <1>5 DEF FlushNothing, FlushUpdate, Flushing, TypeOK, Changing
  <2>2. order'[s].id = Id(s) /\ order'[s].items = model_items[s][Id(s)]
    BY <2>1 DEF Persisted, order_model_to_entity
  <2>3. Id(s) \in OrderIds /\ model[s][Id(s)] # NULL
    BY <1>d, <1>e, <2>1 DEF ControlOf, Changing
  <2>4. TrueTo(Id(s), model_items[s][Id(s)])
    BY <1>d, <2>1, <2>3 DEF RepliesOf, ItemsTrueOf
  <2>5. Id(s)' = Id(s) /\ Op(s)' = Op(s) /\ UNCHANGED session
    BY <1>5 DEF FlushNothing, FlushUpdate, Id, Op
  <2>6. order_lock'[Id(s)] = s \/ order'[s] = order_model_to_entity(Id(s), model[s][Id(s)],
                                                                   model_items[s][Id(s)])
    <3>1. CASE FlushNothing(s)
      BY <2>1, <3>1 DEF FlushNothing, Persisted, Existing
    <3>2. CASE FlushUpdate(s)
      BY <2>3, <3>2 DEF FlushUpdate, TypeOK
    <3>. QED
      BY <1>5, <3>1, <3>2
  <2>7. (/\ order[s].id = Id(s)
         /\ TrueTo(Id(s), order[s].items))'
    BY <1>c, <2>1, <2>2, <2>3, <2>4, <2>5 DEF TrueTo, Gone
  <2>8. (\/ order_lock[Id(s)] = s
         \/ order[s] = order_model_to_entity(Id(s), model[s][Id(s)], model_items[s][Id(s)]))'
    BY <2>5, <2>6 DEF order_model_to_entity
  <2>. QED
    BY <2>1, <2>5, <2>7, <2>8 DEF ItemsTrueOf, Changing
<1>6. CASE AddItems(s)
  <2>1. /\ pc'[s] = "flushed"
        /\ Op(s)' = "create"
        /\ order'[s].items = cmd[s].items
    BY <1>6, <1>d DEF AddItems, TypeOK, ControlOf, Op, mark_created, add_domain_event,
                      order_model_to_entity
  <2>2. cmd[s].items \in Baskets
    BY <1>6, <1>d, RequestInHand, RequestTypes DEF AddItems, ControlOf, Op
  <2>. QED
    BY <2>1, <2>2, EmptyListIsNoBasket DEF ItemsTrueOf, Changing
<1>7. CASE FlushDeleteItems(s) \/ FlushDeleteOrder(s) \/ GetNothing(s)
  <2>1. pc'[s] = "flushed" /\ Op(s)' = "delete"
    BY <1>7, <1>a, <1>d DEF FlushDeleteItems, FlushDeleteOrder, GetNothing, Raise, TypeOK, Op, ControlOf
  <2>. QED
    BY <2>1 DEF ItemsTrueOf, Changing
<1>8. CASE Commit(s)
  <2>1. /\ pc[s] = "flushed"
        /\ pc'[s] = "committed"
        /\ UNCHANGED <<cmd, order>>
    BY <1>8 DEF Commit, TypeOK
  <2>. QED
    BY <1>c, <1>d, <1>e, <2>1 DEF RepliesOf, ItemsTrueOf, TrueTo, Gone, Op, Id, Changing
<1>9. CASE AnswerQuery(s)
  <2>1. /\ pc[s] = "loaded"
        /\ pc'[s] = "done"
        /\ response'[s].body = {to_response_dto(o) : o \in Loaded(s)}
    BY <1>9 DEF AnswerQuery, Answer, Reply, TypeOK
  <2>2. ASSUME NEW dto \in response'[s].body, dto.items = NoItems
        PROVE  dto.id \in OrderIds /\ Gone(dto.id)'
    <3>1. PICK o \in OrderIds : /\ model[s][o] # NULL
                                /\ dto.id = o
                                /\ dto.items = model_items[s][o]
      BY <2>1, <2>2 DEF Loaded, to_response_dto, order_model_to_entity
    <3>. QED
      BY <1>b, <1>d, <2>1, <2>2, <3>1, NoItemsOfStored DEF RepliesOf, ItemsTrueOf
  <2>. QED
    BY <2>1, <2>2 DEF ItemsTrueOf
<1>10. CASE Respond(s)
  <2>1. /\ pc[s] = "committed"
        /\ pc'[s] = "done"
        /\ Op(s) \in Writing
        /\ response'[s].body = IF Op(s) = "delete" THEN {} ELSE {to_response_dto(order[s])}
    BY <1>10, <1>d DEF Respond, Answer, Reply, TypeOK, ControlOf
  <2>2. ASSUME NEW dto \in response'[s].body, dto.items = NoItems
        PROVE  dto.id \in OrderIds /\ Gone(dto.id)'
    <3>1. Op(s) # "delete" /\ dto.id = order[s].id /\ dto.items = order[s].items
      BY <2>1, <2>2 DEF to_response_dto
    <3>2. Op(s) \in Changing
      BY <1>d, <2>1, <2>2, <3>1 DEF RepliesOf, ItemsTrueOf, Writing, Changing
    <3>3. dto.id \in OrderIds /\ TrueTo(dto.id, NoItems)
      BY <1>d, <1>e, <2>1, <2>2, <3>1, <3>2 DEF RepliesOf, ItemsTrueOf, Changing
    <3>. QED
      BY <1>b, <3>3, NoItemsOfStored
  <2>. QED
    BY <2>1, <2>2 DEF ItemsTrueOf
<1>11. CASE Rollback(s)
  <2>1. /\ pc'[s] = "done"
        /\ response'[s].body = {}
    BY <1>11 DEF Rollback, Answer, Reply, TypeOK
  <2>. QED
    BY <2>1 DEF ItemsTrueOf
<1>12. ~Begin(s) /\ ~Deliver(s) /\ ~SelectOrders(s) /\ ~Fault(s)
  BY <1>a DEF Begin, Deliver, SelectOrders, Fault, PoolTimeout, StatementFails, CommitReplyLost,
              Raise, TypeOK
<1>13. ~AddOrder(s) /\ ~AddFails(s) /\ ~FlushStale(s)
  BY <1>a DEF AddOrder, AddFails, FlushStale, Raise, TypeOK
<1>. QED
  BY <1>1, <1>2, <1>3, <1>4, <1>5, <1>6, <1>7, <1>8, <1>9, <1>10, <1>11, <1>12, <1>13
     DEF Progress, Load, Handle, Reload, Flush, Finish

-----------------------------------------------------------------------------
(* The empty service has told nobody anything.                             *)
LEMMA RepliesInit == Init => Replies
  BY DEF Init, Replies, RepliesOf, EmptySessionOf, ItemsTrueOf, DeletionOf

(* Every step of the service keeps what is known for the replies.          *)
LEMMA RepliesNext ==
    ASSUME ServiceInvariant, Replies, [Next]_vars
    PROVE  Replies'
<1>1. ASSUME NEW s \in Slots, Begin(s) \/ Progress(s) \/ Fault(s)
      PROVE  Replies'
  <2>1. RepliesOf(s)'
    BY <1>1, EmptySessionStep, ItemsTrueStep, DeletionStep DEF Replies, RepliesOf
  <2>2. \A t \in Slots \ {s} : RepliesOf(t)'
    BY <1>1, OthersReplies DEF Replies
  <2>. QED
    BY <2>1, <2>2 DEF Replies
<1>2. CASE Tick \/ UNCHANGED vars
  BY <1>2 DEF Tick, vars, database, locks, writes, session, Replies, RepliesOf, EmptySessionOf,
              ItemsTrueOf, DeletionOf, TrueTo, Gone, Op, Id
<1>3. CASE Crash
  BY <1>3 DEF Crash, Replies, RepliesOf, EmptySessionOf, ItemsTrueOf, DeletionOf
<1>. QED
  BY <1>1, <1>2, <1>3 DEF Next

(* What is known for the replies holds throughout every behaviour.         *)
THEOREM RepliesHold == Spec => []Replies
<1>1. ServiceInvariant /\ Replies /\ [Next]_vars => Replies'
  BY RepliesNext
<1>. QED
  BY RepliesInit, <1>1, ServiceInvariantHolds, PTL DEF Spec

(* A DELETE that is answered 204 has removed the order for good.           *)
THEOREM DeletionsAreFinal == Spec => []DeletedOrdersAreGone
<1>1. Replies => DeletedOrdersAreGone
  BY DEF Replies, RepliesOf, DeletionOf, DeletedOrdersAreGone
<1>. QED
  BY <1>1, RepliesHold, PTL

(* The only orders a reply shows without items are gone.                   *)
THEOREM StoredOrdersAreShownWhole == Spec => []ItemlessRepliesAreOfDeletedOrders
<1>1. Replies => ItemlessRepliesAreOfDeletedOrders
  BY DEF Replies, RepliesOf, ItemsTrueOf, ItemlessRepliesAreOfDeletedOrders
<1>. QED
  BY <1>1, RepliesHold, PTL

(* An update that goes on to its answer has written the row it answers     *)
(* with, and shows the items stored with it: that it holds the row means   *)
(* that the order is not gone, and then what it has read of the items is   *)
(* what is stored.  If it holds no row, it answers with what it has read.  *)
THEOREM UpdatesAnswerWhatTheyWrite == Spec => []UpdatesAreWrittenOrRefused
<1>1. ServiceInvariant /\ Replies => UpdatesAreWrittenOrRefused
  <2>. SUFFICES ASSUME ServiceInvariant, Replies,
                       NEW s \in Slots,
                       pc[s] = "flushed",
                       Op(s) \in {"update", "status"}
                PROVE  IF order_lock[Id(s)] = s
                       THEN order[s].items = items[Id(s)] /\ order[s].items # NoItems
                       ELSE order[s] = order_model_to_entity(Id(s), model[s][Id(s)],
                                                             model_items[s][Id(s)])
    BY DEF UpdatesAreWrittenOrRefused
  <2>1. Id(s) \in OrderIds /\ ItemsTrueOf(s)
    BY RequestInHand DEF ServiceInvariant, Replies, RepliesOf
  <2>2. CASE order_lock[Id(s)] = s
    <3>1. orders[Id(s)] # NULL
      BY <2>1, <2>2 DEF ServiceInvariant, RowLocks, OrderLockOf, Changing
    <3>2. TrueTo(Id(s), order[s].items)
      BY <2>1 DEF ItemsTrueOf, Changing
    <3>. QED
      BY <2>1, <2>2, <3>1, <3>2 DEF TrueTo, Gone, ServiceInvariant, StoredOrdersHaveItems
  <2>3. CASE order_lock[Id(s)] # s
    BY <2>1, <2>3 DEF ItemsTrueOf, Changing
  <2>. QED
    BY <2>2, <2>3
<1>. QED
  BY <1>1, RepliesHold, ServiceInvariantHolds, PTL

=============================================================================
