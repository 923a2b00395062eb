------------------------ MODULE OrderOverlapProofs ------------------------
(***************************************************************************)
(* Proofs of what holds of overlapping requests as long as none of them is *)
(* overtaken, for a pool of any size: the stored orders follow their       *)
(* lifecycle, an update writes only the fields of its body, and the        *)
(* service implements OrderApi, whose one exception is the overtaken.      *)
(***************************************************************************)
EXTENDS OrderRegistryProofs, OrderOverlapInvariant

-----------------------------------------------------------------------------
(* What a step does to the stored rows and to the clock.                   *)

(* Time passes only between the steps of the tasks.                        *)
LEMMA ClockStands ==
    ASSUME NEW s \in Slots, Begin(s) \/ Progress(s) \/ Fault(s)
    PROVE  clock' = clock
<1>1. CASE Begin(s) \/ Load(s)
  BY <1>1 DEF Begin, Load, SelectOrders, SelectNothing, SelectItems
<1>2. CASE Handle(s)
  BY <1>2 DEF Handle, AnswerQuery, HandleUpdate, HandleStatus
<1>3. CASE Reload(s)
  BY <1>3 DEF Reload, GetCached, GetAgain, GetNothing, ReloadItems
<1>4. CASE Flush(s)
  BY <1>4 DEF Flush, AddOrder, AddItems, AddFails, FlushNothing, FlushUpdate, FlushStale, FlushDeleteItems,
              FlushDeleteOrder
<1>5. CASE Finish(s)
  BY <1>5 DEF Finish, Commit, Respond, Rollback, Deliver
<1>6. CASE Fault(s)
  BY <1>6 DEF Fault, PoolTimeout, StatementFails, CommitReplyLost
<1>. QED
  BY <1>1, <1>2, <1>3, <1>4, <1>5, <1>6 DEF Progress

(* A stored row changes only by the commit of the task that holds it.      *)
LEMMA RowsStand ==
    ASSUME NEW s \in Slots, NEW o \in OrderIds, ServiceInvariant,
           Begin(s) \/ Progress(s) \/ Fault(s)
    PROVE  orders'[o] = orders[o] \/ (CommittingStep(s) /\ order_lock[o] = s)
<1>. USE DEF ServiceInvariant, Shared, database
<1>1. CASE CommittingStep(s)
  BY <1>1, CommitEffect
<1>2. CASE ~CommittingStep(s)
  BY <1>2, StepKinds DEF QuietStep, FailingStep, EndingStep, AddOrder, AddItems, FlushUpdate,
                         FlushDeleteItems, FlushDeleteOrder
<1>. QED
  BY <1>1, <1>2

(* A commit puts there what the transaction has staged.                    *)
LEMMA CommitStores ==
    ASSUME NEW s \in Slots, NEW o \in OrderIds, ServiceInvariant, CommittingStep(s),
           order_lock[o] = s
    PROVE  orders'[o] = staged[s]
  BY DEF CommittingStep, ApplyWrites

(* So what an update or status request commits that was not overtaken is   *)
(* what it may make of the stored row.                                     *)
LEMMA ChangingCommit ==
    ASSUME NEW s \in Slots, NEW o \in OrderIds, ServiceInvariant, OverlapInvariant,
           CommittingStep(s), order_lock[o] = s, Op(s) \in Changing, ~overtaken[s]
    PROVE  Permitted(cmd[s], orders'[o], orders[o])
<1>1. o = Id(s)
  BY DEF OverlapInvariant, HeldRowOf
<1>2. Permitted(cmd[s], staged[s], orders[o])
  BY <1>1 DEF OverlapInvariant, IntentOf, CommittingStep
<1>. QED
  BY <1>2, CommitStores

(* A request that is in hand and has not been overtaken now was not        *)
(* overtaken before, and its order was not changed meanwhile.              *)
LEMMA NotOvertaken ==
    ASSUME NEW s \in Slots, Watch, RowInHand(s), RowInHand(s)', ~overtaken'[s]
    PROVE  ~overtaken[s] /\ orders'[Id(s)] = orders[Id(s)]
  BY DEF Watch

-----------------------------------------------------------------------------
(* What the entity and the repository make of a row.                       *)

(* An accepted action moves the status along the lifecycle, now, and       *)
(* touches no other column.                                                *)
LEMMA AcceptedActionMoves ==
    ASSUME NEW o \in Entity, NEW action \in OrderStatusAction, NEW now \in 1 .. MaxClock,
           ActionAllowed(action, o)
    PROVE  /\ Moved(ApplyAction(action, o, now), o)
           /\ ApplyAction(action, o, now).updated_at = now
<1>. USE DEF Moved, Lifecycle, Touch, ApplyAction, Entity
<1>1. CASE action = "confirm"
  BY <1>1 DEF confirm, add_domain_event, ActionAllowed, CanConfirm
<1>2. CASE action = "ship"
  BY <1>2 DEF ship, ActionAllowed, CanShip
<1>3. CASE action = "deliver"
  BY <1>3 DEF deliver, ActionAllowed, CanDeliver
<1>4. CASE action = "cancel"
  BY <1>4 DEF cancel, add_domain_event, ActionAllowed, CanCancel, OrderStatus
<1>. QED
  BY <1>1, <1>2, <1>3, <1>4 DEF OrderStatusAction

(* An update request that raises nothing makes an edit it may make.        *)
LEMMA AcceptedEdit ==
    ASSUME NEW o \in Entity, NEW c \in Requests, c.op = "update", NEW now \in 1 .. MaxClock,
           c.shipping_address = NULL \/ CanUpdateAddress(Renamed(o, c.customer_name)),
           NEW new,
           new = IF c.shipping_address = NULL THEN Renamed(o, c.customer_name)
                 ELSE update_shipping_address(Renamed(o, c.customer_name), c.shipping_address, now)
    PROVE  Edited(c, new, o) /\ new.updated_at \in {o.updated_at, now}
<1>1. /\ c.customer_name \in Names \cup {NULL}
      /\ c.shipping_address \in Addresses \cup {NULL}
  BY RequestTypes
<1>2. /\ Renamed(o, c.customer_name).status = o.status
      /\ Renamed(o, c.customer_name).shipping_address = o.shipping_address
      /\ Renamed(o, c.customer_name).updated_at = o.updated_at
      /\ Renamed(o, c.customer_name).customer_name =
            IF c.customer_name = NULL THEN o.customer_name ELSE c.customer_name
      /\ Renamed(o, c.customer_name) \in Entity
  BY <1>1 DEF Renamed, Entity
<1>3. CASE c.shipping_address = NULL
  BY <1>2, <1>3 DEF Edited
<1>4. CASE c.shipping_address # NULL
  <2>1. /\ new.status = Renamed(o, c.customer_name).status
        /\ new.customer_name = Renamed(o, c.customer_name).customer_name
        /\ new.shipping_address = c.shipping_address
        /\ new.updated_at = now
    BY <1>2, <1>4 DEF update_shipping_address, Touch, Entity
  <2>2. CanUpdateAddress(o)
    BY <1>2, <1>4 DEF CanUpdateAddress
  <2>. QED
    BY <1>2, <2>1, <2>2 DEF Edited
<1>. QED
  BY <1>3, <1>4

(* Only the columns count for what a request may do.                       *)
LEMMA SameColumnsPermit ==
    ASSUME NEW c, NEW new, NEW old, NEW row, SameColumns(old, row), Permitted(c, new, old)
    PROVE  Permitted(c, new, row)
  BY DEF SameColumns, Permitted, Edited, Moved, CanUpdateAddress

-----------------------------------------------------------------------------
(* The tasks that do not step.                                             *)
LEMMA OthersOverlap ==
    ASSUME NEW s \in Slots, NEW t \in Slots \ {s}, ServiceInvariant, OverlapInvariant,
           Begin(s) \/ Progress(s) \/ Fault(s), Watch
    PROVE  UpToDateOf(t)' /\ IntentOf(t)' /\ HeldRowOf(t)' /\ TimesOf(t)'
<1>. USE DEF ServiceInvariant
<1>1. /\ pc'[t] = pc[t]
      /\ cmd'[t] = cmd[t]
      /\ model'[t] = model[t]
      /\ order'[t] = order[t]
      /\ staged'[t] = staged[t]
  BY StepIsLocal DEF OthersUnchanged
<1>2. clock' = clock
  BY ClockStands
<1>3. \A o \in OrderIds : order_lock'[o] = t => order_lock[o] = t
  BY OthersLocks
<1>4. UpToDateOf(t) /\ IntentOf(t) /\ HeldRowOf(t) /\ TimesOf(t)
  BY DEF OverlapInvariant, NothingFromTheFuture
<1>5. Op(t)' = Op(t) /\ Id(t)' = Id(t)
  BY <1>1 DEF Op, Id
<1>6. ASSUME pc[t] \in {"loading", "loaded", "persisting", "reloading", "flushing", "flushed"},
             Op(t) \in Changing, ~overtaken'[t]
      PROVE  ~overtaken[t] /\ orders'[Id(t)] = orders[Id(t)]
  <2>1. RowInHand(t) /\ RowInHand(t)'
    BY <1>1, <1>5, <1>6 DEF RowInHand, Changing
  <2>. QED
    BY <1>6, <2>1, NotOvertaken
<1>7. UpToDateOf(t)'
  <2>. SUFFICES ASSUME pc[t] \in {"loading", "loaded", "persisting", "reloading", "flushing"},
                       Op(t) \in Changing, ~overtaken'[t]
                PROVE  model[t][Id(t)] = orders'[Id(t)]
    BY <1>1, <1>5 DEF UpToDateOf
  <2>. QED
    BY <1>4, <1>6 DEF UpToDateOf
<1>8. IntentOf(t)'
  <2>. SUFFICES ASSUME pc[t] \in {"loaded", "persisting", "reloading", "flushing", "flushed"},
                       Op(t) \in Changing, ~overtaken'[t]
                PROVE  IntentOf(t)'
    BY <1>1, <1>5 DEF IntentOf
  <2>1. ~overtaken[t] /\ orders'[Id(t)] = orders[Id(t)]
    BY <1>6
  <2>2. order_lock'[Id(t)] = t => order_lock[Id(t)] = t
    BY <1>3, RequestInHand DEF Changing
  <2>. QED
    BY <1>1, <1>4, <1>5, <2>1, <2>2 DEF IntentOf
<1>9. HeldRowOf(t)'
  BY <1>1, <1>3, <1>4, <1>5 DEF HeldRowOf
<1>10. TimesOf(t)'
  BY <1>1, <1>2, <1>4, <1>5 DEF TimesOf
<1>. QED
  BY <1>7, <1>8, <1>9, <1>10

-----------------------------------------------------------------------------
(* The task that steps.                                                    *)

(* Where a task has nothing in hand that it might write to an order row.   *)
Resting == {"idle", "begun", "items_deleted", "committed", "unwinding", "done"}

(* Few steps of an update or status request lead elsewhere.                *)
LEMMA StepsInHand ==
    ASSUME NEW s \in Slots, TypeOK, Control, Begin(s) \/ Progress(s) \/ Fault(s),
           pc'[s] \notin Resting
    PROVE  \/ SelectOrders(s) \/ SelectItems(s)
           \/ HandleUpdate(s) \/ HandleStatus(s)
           \/ GetCached(s) \/ GetAgain(s) \/ ReloadItems(s)
           \/ FlushNothing(s) \/ FlushUpdate(s)
           \/ cmd'[s] = cmd[s] /\ pc[s] # "idle" /\ Op(s) \notin Changing
<1>. USE DEF Resting, TypeOK, Goto, Raise, Answer, Flushing
<1>1. CASE Begin(s) \/ Load(s)
  BY <1>1 DEF Begin, Load, SelectNothing, Changing
<1>2. CASE Handle(s)
  BY <1>2 DEF Handle, AnswerQuery
<1>3. CASE Reload(s)
  BY <1>3 DEF Reload, GetNothing, Changing
<1>4. CASE Flush(s)
  BY <1>4 DEF Flush, AddOrder, AddItems, AddFails, FlushStale, FlushDeleteItems, FlushDeleteOrder, Changing,
              Control, ControlOf
<1>5. CASE Finish(s)
  BY <1>5 DEF Finish, Commit, Respond, Rollback, Deliver
<1>6. CASE Fault(s)
  BY <1>6 DEF Fault, PoolTimeout, StatementFails, CommitReplyLost
<1>. QED
  BY <1>1, <1>2, <1>3, <1>4, <1>5, <1>6 DEF Progress

(* The row that the stepping task has read is the stored one.              *)
LEMMA UpToDateStep ==
    ASSUME NEW s \in Slots, ServiceInvariant, OverlapInvariant,
           Begin(s) \/ Progress(s) \/ Fault(s), Watch
    PROVE  UpToDateOf(s)'
<1>. SUFFICES ASSUME pc'[s] \in {"loading", "loaded", "persisting", "reloading", "flushing"},
                     Op(s)' \in Changing,
                     ~overtaken'[s]
              PROVE  model'[s][Id(s)'] = orders'[Id(s)']
  BY DEF UpToDateOf
<1>. USE DEF ServiceInvariant, TypeOK, database, session, Goto
<1>1. UpToDateOf(s)
  BY DEF OverlapInvariant
<1>2. pc[s] # "idle" /\ Op(s) \in Changing => Id(s) \in OrderIds
  BY RequestInHand DEF Changing
<1>3. CASE SelectOrders(s)
  <2>1. cmd'[s] = cmd[s] /\ orders' = orders /\ model'[s] = Selected(s)
    BY <1>3 DEF SelectOrders
  <2>2. pc[s] # "idle" /\ Op(s) \in Changing /\ Op(s) # "list"
    BY <1>3, <2>1 DEF SelectOrders, Op, Changing
  <2>3. Selected(s)[Id(s)] = orders[Id(s)]
    BY <1>2, <2>2 DEF Selected
  <2>. QED
    BY <2>1, <2>3 DEF Id
<1>4. CASE GetAgain(s)
  <2>1. /\ cmd'[s] = cmd[s]
        /\ orders' = orders
        /\ model' = [model EXCEPT ![s][Id(s)] = orders[Id(s)]]
        /\ pc[s] # "idle"
    BY <1>4 DEF GetAgain
  <2>2. Id(s) \in OrderIds
    BY <1>2, <2>1 DEF Op
  <2>. QED
    BY <2>1, <2>2 DEF Id
<1>5. CASE SelectItems(s) \/ HandleUpdate(s) \/ HandleStatus(s) \/ GetCached(s) \/ ReloadItems(s)
  <2>1. /\ pc[s] \in {"loading", "loaded", "persisting", "reloading"}
        /\ cmd' = cmd
        /\ orders' = orders
        /\ model' = model
    BY <1>5 DEF SelectItems, HandleUpdate, HandleStatus, GetCached, ReloadItems, Raise
  <2>2. RowInHand(s) /\ RowInHand(s)'
    BY <2>1 DEF RowInHand, Changing, Op
  <2>3. ~overtaken[s]
    BY <2>2, NotOvertaken
  <2>. QED
    BY <1>1, <2>1, <2>3 DEF UpToDateOf, Op, Id
<1>7. CASE FlushNothing(s) \/ FlushUpdate(s)
  BY <1>7 DEF FlushNothing, FlushUpdate
<1>8. CASE cmd'[s] = cmd[s] /\ pc[s] # "idle" /\ Op(s) \notin Changing
  BY <1>8 DEF Op
<1>. QED
  BY <1>3, <1>4, <1>5, <1>7, <1>8, StepsInHand DEF Resting

(* What a handler makes of its entity is what its request may make of it,  *)
(* and carries no time that has not come.                                  *)
LEMMA HandledOrder ==
    ASSUME NEW s \in Slots, ServiceInvariant, OverlapInvariant,
           HandleUpdate(s) \/ HandleStatus(s), pc'[s] = "persisting",
           order[s] \in Entity, cmd[s] \in Requests
    PROVE  /\ Permitted(cmd[s], order'[s], order[s])
           /\ order'[s].updated_at <= clock
<1>. USE DEF ServiceInvariant, Goto
<1>1. clock \in 1 .. MaxClock
  BY DEF TypeOK
<1>2. order[s].updated_at <= clock /\ order[s].updated_at \in Nat
  BY ParametersAreNumbers
     DEF OverlapInvariant, NothingFromTheFuture, TimesOf, HandleUpdate, HandleStatus, Changing, Entity
<1>3. CASE HandleUpdate(s)
  <2>1. /\ cmd[s].op = "update"
        /\ \/ cmd[s].shipping_address = NULL
           \/ CanUpdateAddress(Renamed(order[s], cmd[s].customer_name))
    BY <1>3 DEF HandleUpdate, Raise, TypeOK, Op
  <2>2. order'[s] = IF cmd[s].shipping_address = NULL
                    THEN Renamed(order[s], cmd[s].customer_name)
                    ELSE update_shipping_address(Renamed(order[s], cmd[s].customer_name),
                                                 cmd[s].shipping_address, clock)
    BY <1>3, <2>1 DEF HandleUpdate, TypeOK
  <2>3. Edited(cmd[s], order'[s], order[s]) /\ order'[s].updated_at \in {order[s].updated_at, clock}
    BY <1>1, <2>1, <2>2, AcceptedEdit
  <2>. QED
    BY <1>1, <1>2, <2>1, <2>3 DEF Permitted
<1>4. CASE HandleStatus(s)
  <2>1. /\ cmd[s].op = "status"
        /\ ActionAllowed(cmd[s].action, order[s])
        /\ cmd[s].action \in OrderStatusAction
    BY <1>4, RequestTypes DEF HandleStatus, Raise, TypeOK, Op
  <2>2. order'[s] = ApplyAction(cmd[s].action, order[s], clock)
    BY <1>4, <2>1 DEF HandleStatus, TypeOK
  <2>. QED
    BY <1>1, <1>2, <2>1, <2>2, AcceptedActionMoves DEF Permitted
<1>. QED
  BY <1>3, <1>4

(* What the stepping task is about to write is what its request may make   *)
(* of the stored row, unless it has been overtaken.                        *)
LEMMA IntentStep ==
    ASSUME NEW s \in Slots, ServiceInvariant, OverlapInvariant,
           Begin(s) \/ Progress(s) \/ Fault(s), Watch
    PROVE  IntentOf(s)'
<1>. SUFFICES ASSUME pc'[s] \in {"loaded", "persisting", "reloading", "flushing", "flushed"},
                     Op(s)' \in Changing,
                     ~overtaken'[s]
              PROVE  IntentOf(s)'
  BY DEF IntentOf
<1>. USE DEF ServiceInvariant, database, session, locks, writes, Goto
<1>a. UpToDateOf(s) /\ IntentOf(s) /\ TimesOf(s)
  BY DEF OverlapInvariant, NothingFromTheFuture
<1>b. clock' = clock /\ clock \in 1 .. MaxClock
  BY ClockStands DEF TypeOK
<1>c. pc[s] # "idle" /\ Op(s) \in Changing => Id(s) \in OrderIds
  BY RequestInHand DEF Changing
<1>d. ASSUME cmd'[s] = cmd[s],
             pc[s] \in {"loading", "loaded", "persisting", "reloading", "flushing"}
      PROVE  ~overtaken[s]
  <2>1. RowInHand(s) /\ RowInHand(s)'
    BY <1>d DEF RowInHand, Changing, Op
  <2>. QED
    BY <2>1, NotOvertaken
<1>1. CASE SelectOrders(s)
  BY <1>1 DEF SelectOrders, TypeOK
<1>2. CASE SelectItems(s)
  <2>1. /\ pc[s] = "loading"
        /\ cmd' = cmd
        /\ orders' = orders
        /\ pc'[s] = "loaded"
    BY <1>2 DEF SelectItems, TypeOK, Op, Changing
  <2>2. Op(s) \in Changing
    BY <2>1 DEF Op
  <2>3. order'[s] = order_model_to_entity(Id(s), model[s][Id(s)], ItemsOf(model[s])[Id(s)])
    BY <1>2, <2>2 DEF SelectItems, TypeOK, Changing
  <2>4. model[s][Id(s)] = orders[Id(s)]
    BY <1>a, <1>d, <2>1, <2>2 DEF UpToDateOf
  <2>5. SameColumns(order'[s], orders[Id(s)])
    BY <2>3, <2>4 DEF SameColumns, order_model_to_entity
  <2>. QED
    BY <2>1, <2>5 DEF IntentOf, Op, Id
<1>3. CASE HandleUpdate(s) \/ HandleStatus(s)
  <2>1. /\ pc[s] = "loaded"
        /\ cmd' = cmd
        /\ orders' = orders
        /\ Op(s) \in Changing
        /\ pc'[s] = "persisting"
        /\ ~overtaken[s]
    BY <1>3, <1>d DEF HandleUpdate, HandleStatus, Raise, TypeOK, Changing
  <2>2. /\ order[s] \in Entity
        /\ orders[Id(s)] \in Row
        /\ cmd[s] \in Requests
    BY <1>a, <1>c, <2>1 DEF Control, ControlOf, UpToDateOf, Changing, TypeOK
  <2>3. SameColumns(order[s], orders[Id(s)])
    BY <1>a, <2>1 DEF IntentOf
  <2>4. Permitted(cmd[s], order'[s], order[s])
    BY <1>3, <2>1, <2>2, HandledOrder
  <2>5. Permitted(cmd[s], order'[s], orders[Id(s)])
    BY <2>3, <2>4, SameColumnsPermit
  <2>. QED
    BY <2>1, <2>5 DEF IntentOf, Op, Id
<1>4. CASE GetCached(s) \/ GetAgain(s) \/ ReloadItems(s)
  <2>1. /\ pc[s] \in {"persisting", "reloading"}
        /\ pc'[s] \in {"reloading", "flushing"}
        /\ UNCHANGED <<cmd, orders, order>>
    BY <1>4 DEF GetCached, GetAgain, ReloadItems, TypeOK
  <2>. QED
    BY <1>a, <1>d, <2>1 DEF IntentOf, Op, Id
<1>5. CASE FlushNothing(s)
  <2>1. /\ pc[s] = "flushing"
        /\ pc'[s] = "flushed"
        /\ UNCHANGED <<cmd, order_lock>>
        /\ Op(s) \in Changing
    BY <1>5 DEF FlushNothing, Flushing, TypeOK, Changing
  <2>2. order_lock[Id(s)] # s
    BY <1>c, <2>1, NoLocks
  <2>. QED
    BY <2>1, <2>2 DEF IntentOf, Op, Id
<1>6. CASE FlushUpdate(s)
  <2>1. /\ pc[s] = "flushing"
        /\ pc'[s] = "flushed"
        /\ UNCHANGED <<cmd, orders>>
        /\ Op(s) \in Changing
        /\ staged'[s] = Updated(Existing(s), NewValues(s), orders[Id(s)])
    BY <1>6 DEF FlushUpdate, Flushing, TypeOK, Changing
  <2>2. /\ Permitted(cmd[s], order[s], orders[Id(s)])
        /\ Existing(s) = orders[Id(s)]
        /\ order[s] \in Entity
        /\ orders[Id(s)] \in Row
    BY <1>a, <1>c, <1>d, <2>1, FlushedEntity, <1>6
       DEF IntentOf, UpToDateOf, Existing, Control, ControlOf, FlushUpdate
  <2>3. /\ staged'[s].customer_name = NewValues(s).customer_name
        /\ staged'[s].shipping_address = NewValues(s).shipping_address
        /\ staged'[s].status = NewValues(s).status
        /\ staged'[s].updated_at = NewValues(s).updated_at
    BY <2>1, <2>2 DEF Updated, Column
  <2>4. /\ NewValues(s).customer_name = order[s].customer_name
        /\ NewValues(s).shipping_address = order[s].shipping_address
        /\ NewValues(s).status = order[s].status
        /\ NewValues(s).updated_at = IF order[s].updated_at = NoTime THEN clock
                                     ELSE order[s].updated_at
    BY DEF NewValues, Assigned
  <2>5. /\ order[s].updated_at \in Nat
        /\ orders[Id(s)].updated_at \in Nat
        /\ clock \in Nat
    BY <1>b, <2>2, ParametersAreNumbers DEF Entity, Row
  <2>6. order[s].updated_at <= clock
    BY <1>a, <2>1 DEF TimesOf
  <2>7. orders[Id(s)].updated_at <= staged'[s].updated_at
    BY <2>2, <2>3, <2>4, <2>5, <2>6 DEF Permitted, NoTime
  <2>8. Permitted(cmd[s], staged'[s], orders[Id(s)])
    BY <2>2, <2>3, <2>4, <2>7 DEF Permitted, Edited, Moved
  <2>. QED
    BY <2>1, <2>8 DEF IntentOf, Op, Id
<1>7. CASE cmd'[s] = cmd[s] /\ pc[s] # "idle" /\ Op(s) \notin Changing
  BY <1>7 DEF Op
<1>. QED
  BY <1>1, <1>2, <1>3, <1>4, <1>5, <1>6, <1>7, StepsInHand DEF Resting

(* The stepping task holds the row of its own request, or a new one.       *)
LEMMA HeldRowStep ==
    ASSUME NEW s \in Slots, ServiceInvariant, OverlapInvariant,
           Begin(s) \/ Progress(s) \/ Fault(s)
    PROVE  HeldRowOf(s)'
<1>. USE DEF ServiceInvariant, Shared, writes
<1>a. HeldRowOf(s)
  BY DEF OverlapInvariant
<1>1. CASE QuietStep(s) \/ FlushDeleteItems(s)
  BY <1>1 DEF QuietStep, FlushDeleteItems, HeldRowOf, RowLocks, OrderLockOf
<1>2. CASE FailingStep(s) \/ AddItems(s)
  BY <1>2, <1>a DEF FailingStep, AddItems, HeldRowOf, Op, Id
<1>3. CASE EndingStep(s) \/ CommittingStep(s)
  BY <1>3, NullIsNoValue DEF EndingStep, CommittingStep, EndTransaction, HeldRowOf
<1>4. CASE AddOrder(s)
  <2>1. Op(s)' = "create"
    BY <1>4 DEF AddOrder, Op
  <2>2. staged'[s].status = "pending" /\ staged'[s].updated_at = NoTime
    BY <1>4 DEF AddOrder, NewRow, TypeOK, order_entity_to_model, NewOrder
  <2>. QED
    BY <2>1, <2>2 DEF HeldRowOf, Changing
<1>5. CASE FlushUpdate(s)
  <2>1. /\ cmd' = cmd
        /\ order_lock' = [order_lock EXCEPT ![Id(s)] = s]
        /\ Op(s) \in Changing
        /\ \A o \in OrderIds : order_lock[o] # s
    BY <1>5, NoLocks DEF FlushUpdate, Flushing, Changing
  <2>. QED
    BY <2>1 DEF HeldRowOf, Changing, Op, Id, TypeOK
<1>6. CASE FlushDeleteOrder(s)
  <2>1. /\ cmd' = cmd
        /\ \A o \in OrderIds : o # Id(s) => order_lock'[o] = order_lock[o]
        /\ \A o \in OrderIds : order_lock[o] # s
        /\ Op(s) = "delete"
    BY <1>6, ZenonT(30) DEF FlushDeleteOrder, TypeOK, RowLocks, OrderLockOf, Control, ControlOf
  <2>. QED
    BY <2>1 DEF HeldRowOf, Op, Id
<1>. QED
  BY <1>1, <1>2, <1>3, <1>4, <1>5, <1>6, StepKinds

(* The stepping task has no time in hand that has not come.                *)
LEMMA TimesStep ==
    ASSUME NEW s \in Slots, ServiceInvariant, OverlapInvariant,
           Begin(s) \/ Progress(s) \/ Fault(s)
    PROVE  TimesOf(s)'
<1>. USE DEF ServiceInvariant, database, session, writes, Goto
<1>a. /\ TimesOf(s)
      /\ \A o \in OrderIds : orders[o] # NULL => orders[o].updated_at <= clock
  BY DEF OverlapInvariant, NothingFromTheFuture
<1>b. clock' = clock /\ clock \in 1 .. MaxClock /\ clock \in Nat
  BY ClockStands, ParametersAreNumbers DEF TypeOK
<1>c. pc[s] # "idle" /\ Op(s) \in Changing => Id(s) \in OrderIds /\ cmd[s] \in Requests
  BY RequestInHand DEF Changing, Control, ControlOf
<1>1. ASSUME NEW o \in OrderIds, model'[s][o] # NULL
      PROVE  model'[s][o].updated_at <= clock
  BY <1>a, <1>1, SessionRows DEF TimesOf
<1>2. ASSUME pc'[s] \in {"loaded", "persisting", "reloading", "flushing"}, Op(s)' \in Changing
      PROVE  order'[s].updated_at <= clock
  <2>1. CASE SelectOrders(s) \/ FlushNothing(s) \/ FlushUpdate(s)
    BY <1>2, <2>1 DEF SelectOrders, FlushNothing, FlushUpdate, TypeOK
  <2>2. CASE SelectItems(s)
    <3>1. /\ pc[s] = "loading"
          /\ cmd' = cmd
          /\ Op(s) \in Changing
      BY <1>2, <2>2 DEF SelectItems, Op
    <3>2. order'[s] = order_model_to_entity(Id(s), model[s][Id(s)], ItemsOf(model[s])[Id(s)])
      BY <2>2, <3>1 DEF SelectItems, TypeOK, Changing
    <3>3. model[s][Id(s)] # NULL /\ Id(s) \in OrderIds
      BY <1>c, <3>1 DEF Control, ControlOf, Changing
    <3>. QED
      BY <1>a, <3>2, <3>3 DEF TimesOf, order_model_to_entity
  <2>3. CASE HandleUpdate(s) \/ HandleStatus(s)
    <3>1. /\ pc[s] = "loaded"
          /\ pc'[s] = "persisting"
          /\ Op(s) \in Changing
      BY <1>2, <2>3 DEF HandleUpdate, HandleStatus, Raise, TypeOK, Changing
    <3>2. order[s] \in Entity /\ cmd[s] \in Requests
      BY <1>c, <3>1 DEF Control, ControlOf, Changing
    <3>. QED
      BY <2>3, <3>1, <3>2, HandledOrder
  <2>4. CASE GetCached(s) \/ GetAgain(s) \/ ReloadItems(s)
    <3>1. /\ pc[s] \in {"persisting", "reloading"}
          /\ UNCHANGED <<cmd, order>>
      BY <2>4 DEF GetCached, GetAgain, ReloadItems
    <3>. QED
      BY <1>a, <1>2, <3>1 DEF TimesOf, Op
  <2>5. CASE cmd'[s] = cmd[s] /\ pc[s] # "idle" /\ Op(s) \notin Changing
    BY <1>2, <2>5 DEF Op
  <2>. QED
    BY <1>2, <2>1, <2>2, <2>3, <2>4, <2>5, StepsInHand DEF Resting
<1>3. ASSUME staged'[s] # NULL
      PROVE  staged'[s].updated_at <= clock
  <2>1. CASE staged'[s] \in {NULL, staged[s]}
    BY <1>a, <1>3, <2>1 DEF TimesOf
  <2>2. CASE AddOrder(s)
    <3>1. staged'[s].updated_at = 0
      BY <2>2 DEF AddOrder, NewRow, TypeOK, order_entity_to_model, NoTime
    <3>. QED
      BY <1>b, <3>1
  <2>3. CASE FlushUpdate(s)
    <3>1. /\ staged'[s].updated_at \in {NewValues(s).updated_at, orders[Id(s)].updated_at}
          /\ NewValues(s).updated_at \in {clock, order[s].updated_at}
          /\ orders[Id(s)] # NULL
          /\ pc[s] = "flushing"
          /\ Op(s) \in Changing
      BY <2>3 DEF FlushUpdate, Flushing, Updated, Column, NewValues, Assigned, TypeOK, Changing
    <3>. QED
      BY <1>a, <1>b, <1>c, <3>1 DEF TimesOf
  <2>. QED
    BY <2>1, <2>2, <2>3, StagedRows
<1>. QED
  BY <1>b, <1>1, <1>2, <1>3 DEF TimesOf

-----------------------------------------------------------------------------
(* Every step of a task keeps OverlapInvariant.                            *)
LEMMA OverlapStep ==
    ASSUME NEW s \in Slots, ServiceInvariant, OverlapInvariant,
           Begin(s) \/ Progress(s) \/ Fault(s), Watch
    PROVE  OverlapInvariant'
<1>1. ASSUME NEW t \in Slots
      PROVE  UpToDateOf(t)' /\ IntentOf(t)' /\ HeldRowOf(t)' /\ TimesOf(t)'
  BY OthersOverlap, UpToDateStep, IntentStep, HeldRowStep, TimesStep
<1>2. ASSUME NEW o \in OrderIds, orders'[o] # NULL
      PROVE  orders'[o].updated_at <= clock
  BY <1>2, RowsStand, CommitStores DEF OverlapInvariant, NothingFromTheFuture, TimesOf
<1>3. overtaken' \in [Slots -> BOOLEAN]
  BY DEF Watch
<1>. QED
  BY <1>1, <1>2, <1>3, ClockStands DEF OverlapInvariant, NothingFromTheFuture

(* Nobody is overtaken in the empty service.                               *)
LEMMA OverlapInvariantInit == OverlapInit => OverlapInvariant
<1>. SUFFICES ASSUME OverlapInit
              PROVE  OverlapInvariant
  OBVIOUS
<1>1. ASSUME NEW s \in Slots
      PROVE  UpToDateOf(s) /\ IntentOf(s) /\ HeldRowOf(s) /\ TimesOf(s)
  BY NullIsNoValue DEF OverlapInit, Init, UpToDateOf, IntentOf, HeldRowOf, TimesOf, NoRows
<1>2. overtaken \in [Slots -> BOOLEAN]
  BY DEF OverlapInit
<1>. QED
  BY <1>1, <1>2 DEF OverlapInvariant, NothingFromTheFuture, OverlapInit, Init

(* A crash keeps the invariant.                                            *)
LEMMA OverlapCrash ==
    ASSUME ServiceInvariant, OverlapInvariant, Crash, Watch
    PROVE  OverlapInvariant'
<1>1. ASSUME NEW s \in Slots
      PROVE  UpToDateOf(s)' /\ IntentOf(s)' /\ HeldRowOf(s)' /\ TimesOf(s)'
  BY NullIsNoValue DEF Crash, UpToDateOf, IntentOf, HeldRowOf, TimesOf, NoRows
<1>2. overtaken' \in [Slots -> BOOLEAN]
  BY DEF Watch
<1>3. orders' = orders /\ clock' = clock
  BY DEF Crash, database
<1>. QED
  BY <1>1, <1>2, <1>3 DEF OverlapInvariant, NothingFromTheFuture

(* Time that passes makes no recorded time a future one.                   *)
LEMMA OverlapTick ==
    ASSUME ServiceInvariant, OverlapInvariant,
           (Tick /\ Watch) \/ UNCHANGED <<vars, overtaken>>
    PROVE  OverlapInvariant'
<1>. USE DEF ServiceInvariant
<1>1. /\ UNCHANGED <<orders, order_lock, pc, cmd, model, order, staged>>
      /\ clock \in Nat
      /\ clock' \in {clock, clock + 1}
  BY ParametersAreNumbers DEF Tick, vars, database, locks, writes, session, TypeOK
<1>2. \A n \in Nat : n <= clock => n <= clock'
  BY <1>1
<1>3. ASSUME NEW s \in Slots
      PROVE  RowInHand(s) /\ ~overtaken'[s] => ~overtaken[s]
  BY <1>1 DEF Watch, RowInHand, Op
<1>4. ASSUME NEW s \in Slots
      PROVE  UpToDateOf(s)' /\ IntentOf(s)' /\ HeldRowOf(s)'
  <2>1. UpToDateOf(s) /\ IntentOf(s) /\ HeldRowOf(s)
    BY DEF OverlapInvariant
  <2>2. UpToDateOf(s)'
    BY <1>1, <1>3, <2>1 DEF UpToDateOf, RowInHand, Changing, Op, Id
  <2>3. IntentOf(s)'
    BY <1>1, <1>3, <2>1 DEF IntentOf, RowInHand, Changing, Op, Id
  <2>4. HeldRowOf(s)'
    BY <1>1, <2>1 DEF HeldRowOf, Op, Id
  <2>. QED
    BY <2>2, <2>3, <2>4
<1>5. ASSUME NEW s \in Slots
      PROVE  TimesOf(s)'
  <2>1. TimesOf(s)
    BY DEF OverlapInvariant, NothingFromTheFuture
  <2>2. /\ \A o \in OrderIds : model[s][o] # NULL => model[s][o].updated_at \in Nat
        /\ staged[s] # NULL => staged[s].updated_at \in Nat
    BY ParametersAreNumbers DEF TypeOK, Row
  <2>3. pc[s] \in {"loaded", "persisting", "reloading", "flushing"} /\ Op(s) \in Changing =>
           order[s].updated_at \in Nat
    BY ParametersAreNumbers DEF Control, ControlOf, Entity
  <2>4. /\ model'[s] = model[s]
        /\ order'[s] = order[s]
        /\ staged'[s] = staged[s]
        /\ pc'[s] = pc[s]
        /\ cmd'[s] = cmd[s]
    BY <1>1
  <2>. QED
    BY ONLY <1>2, <2>1, <2>2, <2>3, <2>4 DEF TimesOf, Op
<1>6. \A o \in OrderIds : orders'[o] # NULL => orders'[o].updated_at <= clock'
  <2>1. \A o \in OrderIds : orders[o] # NULL => orders[o].updated_at \in Nat
    BY ParametersAreNumbers DEF TypeOK, Row
  <2>. QED
    BY <1>1, <1>2, <2>1 DEF OverlapInvariant, NothingFromTheFuture
<1>7. overtaken' \in [Slots -> BOOLEAN]
  BY DEF Watch, OverlapInvariant
<1>. QED
  BY <1>4, <1>5, <1>6, <1>7 DEF OverlapInvariant, NothingFromTheFuture

(* Every step of the service and its record keeps the invariant.           *)
LEMMA OverlapInvariantNext ==
    ASSUME ServiceInvariant, OverlapInvariant, [OverlapNext]_<<vars, overtaken>>
    PROVE  OverlapInvariant'
  BY OverlapStep, OverlapCrash, OverlapTick DEF OverlapNext, Next

(* The record watches OrderService and takes no part in it.                *)
THEOREM OverlapRefinesService == OverlapSpec => Spec
<1>1. OverlapInit => Init
  BY DEF OverlapInit
<1>2. [OverlapNext]_<<vars, overtaken>> => [Next]_vars
  BY DEF OverlapNext
<1>. QED
  BY <1>1, <1>2, PTL DEF OverlapSpec, Spec

(* What a request that was not overtaken has read, made and staged goes    *)
(* with the stored row, throughout every behaviour.                        *)
THEOREM OverlapInvariantHolds == OverlapSpec => []OverlapInvariant
<1>1. OverlapSpec => []ServiceInvariant
  BY OverlapRefinesService, ServiceInvariantHolds, PTL
<1>2. ServiceInvariant /\ OverlapInvariant /\ [OverlapNext]_<<vars, overtaken>> =>
         OverlapInvariant'
  BY OverlapInvariantNext
<1>. QED
  BY <1>1, <1>2, OverlapInvariantInit, PTL DEF OverlapSpec

-----------------------------------------------------------------------------
(* A step that changes the status of a stored order moves it along the     *)
(* lifecycle, unless the transaction that commits it was overtaken.        *)
LEMMA LegalStep ==
    ASSUME ServiceInvariant, OverlapInvariant, [Next]_vars, NEW o \in OrderIds,
           orders[o] # NULL, orders'[o] # NULL, orders'[o].status # orders[o].status,
           o \notin Stale
    PROVE  <<orders[o].status, orders'[o].status>> \in Lifecycle
<1>1. PICK s \in Slots : Begin(s) \/ Progress(s) \/ Fault(s)
  BY DEF Next, Tick, Crash, vars, database
<1>2. CommittingStep(s) /\ order_lock[o] = s
  BY <1>1, RowsStand
<1>3. Op(s) \in Changing
  BY <1>2, CommitStores DEF ServiceInvariant, RowLocks, OrderLockOf, Staging, Writing, Changing
<1>4. ~overtaken[s]
  BY <1>2 DEF Stale
<1>5. Permitted(cmd[s], orders'[o], orders[o])
  BY <1>2, <1>3, <1>4, ChangingCommit
<1>. QED
  BY <1>3, <1>5 DEF Permitted, Edited, Moved, Changing, Op

(* However many requests overlap, the status of a stored order leaves its  *)
(* lifecycle only where a request commits that was overtaken.              *)
THEOREM LifecycleUnlessOvertaken == OverlapSpec => OnlyTheOvertakenLeaveTheLifecycle
<1>1. OverlapSpec => []ServiceInvariant
  BY OverlapRefinesService, ServiceInvariantHolds, PTL
<1>2. ServiceInvariant /\ OverlapInvariant /\ [OverlapNext]_<<vars, overtaken>> =>
        [\A o \in OrderIds :
            orders[o] # NULL /\ orders'[o] # NULL /\ orders'[o].status # orders[o].status
               => o \in Stale \/ <<orders[o].status, orders'[o].status>> \in Lifecycle]_vars
  BY LegalStep DEF OverlapNext
<1>. QED
  BY <1>1, <1>2, OverlapInvariantHolds, PTL DEF OverlapSpec, OnlyTheOvertakenLeaveTheLifecycle

(* The commit of an update that was not overtaken leaves alone what its    *)
(* body left out.                                                          *)
LEMMA ProvidedFieldsStep ==
    ASSUME ServiceInvariant, OverlapInvariant, [Next]_vars, NEW s \in Slots,
           pc[s] = "flushed", pc'[s] = "committed", Op(s) = "update", ~overtaken[s],
           orders[Id(s)] # NULL, orders'[Id(s)] # NULL
    PROVE  /\ orders'[Id(s)].status = orders[Id(s)].status
           /\ cmd[s].customer_name = NULL =>
                 orders'[Id(s)].customer_name = orders[Id(s)].customer_name
           /\ cmd[s].shipping_address = NULL =>
                 orders'[Id(s)].shipping_address = orders[Id(s)].shipping_address
<1>. USE DEF ServiceInvariant
<1>1. PICK t \in Slots : Begin(t) \/ Progress(t) \/ Fault(t)
  BY DEF Next, Tick, Crash, vars
<1>2. t = s
  BY <1>1, StepIsLocal DEF OthersUnchanged
<1>3. Id(s) \in OrderIds
  BY RequestInHand
<1>4. CASE orders'[Id(s)] = orders[Id(s)]
  BY <1>4
<1>5. CASE CommittingStep(s) /\ order_lock[Id(s)] = s
  <2>1. Permitted(cmd[s], orders'[Id(s)], orders[Id(s)])
    BY <1>3, <1>5, ChangingCommit DEF Changing
  <2>2. orders'[Id(s)].shipping_address \in Addresses
    BY <1>3, <1>5, CommitStores DEF TypeOK, Row
  <2>. QED
    BY <2>1, <2>2, NullIsNoValue DEF Permitted, Edited, Op
<1>. QED
  BY <1>1, <1>2, <1>3, <1>4, <1>5, RowsStand

(* However many requests overlap, an update changes a field that its body  *)
(* left out only if it was overtaken.                                      *)
THEOREM OtherFieldsUnlessOvertaken == OverlapSpec => OnlyTheOvertakenChangeOtherFields
<1>1. OverlapSpec => []ServiceInvariant
  BY OverlapRefinesService, ServiceInvariantHolds, PTL
<1>2. ServiceInvariant /\ OverlapInvariant /\ [OverlapNext]_<<vars, overtaken>> =>
        [\A s \in Slots :
          pc[s] = "flushed" /\ pc'[s] = "committed" /\ Op(s) = "update" /\ ~overtaken[s] =>
             LET before == orders[Id(s)]
                 after  == orders'[Id(s)]
             IN  before # NULL /\ after # NULL =>
                    /\ after.status = before.status
                    /\ cmd[s].customer_name = NULL =>
                          after.customer_name = before.customer_name
                    /\ cmd[s].shipping_address = NULL =>
                          after.shipping_address = before.shipping_address]_vars
  BY ProvidedFieldsStep DEF OverlapNext
<1>. QED
  BY <1>1, <1>2, OverlapInvariantHolds, PTL DEF OverlapSpec, OnlyTheOvertakenChangeOtherFields

-----------------------------------------------------------------------------
(* The atomic API.                                                         *)

(* A commit leaves the orders that its transaction does not hold alone.    *)
LEMMA OtherOrdersStand ==
    ASSUME NEW s \in Slots, NEW o \in OrderIds, ServiceInvariant, OneRowEach,
           CommittingStep(s), order_lock[o] = s
    PROVE  \A p \in OrderIds \ {o} : orders'[p] = orders[p] /\ items'[p] = items[p]
<1>1. \A p \in OrderIds \ {o} : order_lock[p] # s
  BY NullIsNoValue DEF OneRowEach
<1>. QED
  BY <1>1, CommitEffect DEF ServiceInvariant

(* The commit of a create is the creation of its order.                    *)
LEMMA CreatingCommit ==
    ASSUME NEW s \in Slots, NEW o \in OrderIds, ServiceInvariant, OneRowEach, OverlapInvariant,
           CommittingStep(s), order_lock[o] = s, Op(s) = "create"
    PROVE  Api!CreateOrder(o)
<1>. USE DEF ServiceInvariant
<1>1. o \in FreshIds /\ FreshIds' = FreshIds \ {o}
  BY PlacingCommit DEF Registry!Place
<1>2. /\ item_lock[o] = s
      /\ staged[s] \in Row
      /\ staged_items[s] \in Baskets
  BY DEF RowLocks, OrderLockOf, CommittingStep, TypeOK, ItemList
<1>3. orders'[o] = staged[s] /\ items'[o] = staged_items[s]
  BY <1>2 DEF CommittingStep, ApplyWrites
<1>4. staged[s].status = "pending" /\ staged[s].updated_at = NoTime
  BY DEF OverlapInvariant, HeldRowOf
<1>5. PICK name \in Names, address \in Addresses :
         staged[s] = [customer_name |-> name, shipping_address |-> address,
                      status |-> "pending", updated_at |-> NoTime]
  BY <1>2, <1>4 DEF Row
<1>6. /\ orders' = [orders EXCEPT ![o] = staged[s]]
      /\ items' = [items EXCEPT ![o] = staged_items[s]]
  BY <1>3, OtherOrdersStand, ZenonT(30) DEF CommittingStep, ApplyWrites, TypeOK
<1>7. orders' = [orders EXCEPT ![o] = [customer_name |-> name, shipping_address |-> address,
                                       status |-> "pending", updated_at |-> NoTime]]
  BY <1>5, <1>6
<1>8. \E n \in Names, a \in Addresses, b \in Baskets :
         /\ orders' = [orders EXCEPT ![o] = [customer_name |-> n, shipping_address |-> a,
                                            status |-> "pending", updated_at |-> NoTime]]
         /\ items' = [items EXCEPT ![o] = b]
  <2>. USE <1>2
  <2>. WITNESS name \in Names, address \in Addresses, staged_items[s] \in Baskets
  <2>. QED
    BY <1>2, <1>6, <1>7
<1>. QED
  BY ONLY <1>1, <1>8 DEF Api!CreateOrder, Api!NoTime, NoTime

(* The commit of a delete is the deletion of its order.                    *)
LEMMA DeletingCommit ==
    ASSUME NEW s \in Slots, NEW o \in OrderIds, ServiceInvariant, OneRowEach,
           CommittingStep(s), order_lock[o] = s, Op(s) = "delete"
    PROVE  Api!DeleteOrder(o)
<1>. USE DEF ServiceInvariant
<1>1. FreshIds' = FreshIds
  BY RemovingCommit DEF Registry!Remove
<1>2. /\ orders[o] # NULL
      /\ item_lock[o] = s
      /\ staged[s] = NULL
      /\ staged_items[s] = NoItems
  BY DEF RowLocks, OrderLockOf, Staging
<1>3. orders'[o] = NULL /\ items'[o] = NoItems
  BY <1>2 DEF CommittingStep, ApplyWrites
<1>4. \A p \in OrderIds : /\ orders'[p] = IF p = o THEN NULL ELSE orders[p]
                          /\ items'[p] = IF p = o THEN NoItems ELSE items[p]
  BY <1>3, OtherOrdersStand
<1>5. /\ orders' = [orders EXCEPT ![o] = NULL]
      /\ items' = [items EXCEPT ![o] = NoItems]
  BY <1>4 DEF CommittingStep, ApplyWrites, TypeOK
<1>. QED
  BY <1>1, <1>2, <1>5 DEF Api!DeleteOrder, Api!Stored

(* The commit of an update or status request is the update of its order or *)
(* the change of its status; one that was overtaken overwrites the order.  *)
LEMMA ChangingCommitIsAtomic ==
    ASSUME NEW s \in Slots, NEW o \in OrderIds, ServiceInvariant, OneRowEach, OverlapInvariant,
           CommittingStep(s), order_lock[o] = s, Op(s) \in Changing
    PROVE  Api!UpdateOrder(o) \/ Api!ChangeOrderStatus(o) \/ Api!Overwrite(o)
<1>. USE DEF ServiceInvariant
<1>1. \A p \in OrderIds : order_lock[p] = s => p = o
  BY NullIsNoValue DEF OneRowEach
<1>2. FreshIds' = FreshIds
  BY OtherCommit
<1>3. items' = items
  <2>1. item_lock[o] # s
    BY DEF RowLocks, ItemLockOf, Changing
  <2>2. items'[o] = items[o]
    BY <2>1 DEF CommittingStep, ApplyWrites
  <2>. QED
    BY <2>2, OtherOrdersStand DEF CommittingStep, ApplyWrites, TypeOK
<1>4. /\ orders[o] \in Row
      /\ orders'[o] \in Row
      /\ orders'[o] = staged[s]
  <2>1. orders[o] # NULL /\ staged[s] # NULL
    BY DEF RowLocks, OrderLockOf
  <2>2. orders[o] \in Row \cup {NULL} /\ staged[s] \in Row \cup {NULL}
    BY DEF TypeOK
  <2>. QED
    BY <2>1, <2>2, CommitStores
<1>5. orders' = [orders EXCEPT ![o] = orders'[o]]
  BY OtherOrdersStand DEF CommittingStep, ApplyWrites, TypeOK
<1>6. Api!Stored(o)
  BY <1>4, NullIsNoValue DEF Api!Stored
<1>7. CASE overtaken[s]
  <2>1. o \in Stale
    BY <1>7 DEF Stale
  <2>2. \E row \in [customer_name : Names, shipping_address : Addresses,
                    status : OrderStatus, updated_at : 0 .. MaxClock] :
           orders' = [orders EXCEPT ![o] = row]
    BY <1>4, <1>5 DEF Row
  <2>3. Api!Overwrite(o)
    BY ONLY <1>2, <1>3, <1>6, <2>1, <2>2 DEF Api!Overwrite, Api!OrderStatus, OrderStatus
  <2>. QED
    BY <2>3
<1>a. ASSUME ~overtaken[s]
      PROVE  /\ Permitted(cmd[s], orders'[o], orders[o])
             /\ orders'[o].updated_at \in orders[o].updated_at .. MaxClock
  <2>1. Permitted(cmd[s], orders'[o], orders[o])
    BY <1>a, ChangingCommit
  <2>. QED
    BY <1>4, <2>1, ParametersAreNumbers DEF Row, Permitted
<1>8. CASE ~overtaken[s] /\ Op(s) = "update"
  <2>1. Edited(cmd[s], orders'[o], orders[o])
    BY <1>a, <1>8 DEF Permitted, Op
  <2>2. orders'[o] = [orders[o] EXCEPT !.customer_name = orders'[o].customer_name,
                                       !.shipping_address = orders'[o].shipping_address,
                                       !.updated_at = orders'[o].updated_at]
    BY <1>4, <2>1 DEF Row, Edited
  <2>3. \/ orders'[o].shipping_address = orders[o].shipping_address
        \/ orders[o].status \notin {"shipped", "delivered"}
    BY <2>1 DEF Edited, CanUpdateAddress
  <2>4. orders' = [orders EXCEPT ![o].customer_name = orders'[o].customer_name,
                                 ![o].shipping_address = orders'[o].shipping_address,
                                 ![o].updated_at = orders'[o].updated_at]
    BY <1>5, <2>2 DEF TypeOK
  <2>5. orders'[o].customer_name \in Names /\ orders'[o].shipping_address \in Addresses
    BY <1>4 DEF Row
  <2>6. \E name \in Names, address \in Addresses, t \in orders[o].updated_at .. MaxClock :
           /\ \/ address = orders[o].shipping_address
              \/ orders[o].status \notin {"shipped", "delivered"}
           /\ orders' = [orders EXCEPT ![o].customer_name = name,
                                       ![o].shipping_address = address,
                                       ![o].updated_at = t]
    <3>1. orders'[o].updated_at \in orders[o].updated_at .. MaxClock
      BY <1>a, <1>8
    <3>. USE <2>5, <3>1
    <3>. WITNESS orders'[o].customer_name \in Names, orders'[o].shipping_address \in Addresses,
                 orders'[o].updated_at \in orders[o].updated_at .. MaxClock
    <3>. QED
      BY <2>3, <2>4
  <2>7. Api!UpdateOrder(o)
    BY ONLY <1>2, <1>3, <1>6, <2>6 DEF Api!UpdateOrder
  <2>. QED
    BY <2>7
<1>9. CASE ~overtaken[s] /\ Op(s) = "status"
  <2>1. Moved(orders'[o], orders[o])
    BY <1>a, <1>9 DEF Permitted, Op
  <2>2. orders'[o] = [orders[o] EXCEPT !.status = orders'[o].status,
                                       !.updated_at = orders'[o].updated_at]
    BY <1>4, <2>1 DEF Row, Moved
  <2>3. orders' = [orders EXCEPT ![o].status = orders'[o].status,
                                 ![o].updated_at = orders'[o].updated_at]
    BY <1>5, <2>2 DEF TypeOK
  <2>4. orders'[o].status \in OrderStatus
    BY <1>4 DEF Row
  <2>a. orders'[o].updated_at \in orders[o].updated_at .. MaxClock
    BY <1>a, <1>9
  <2>5. \E to \in OrderStatus, t \in orders[o].updated_at .. MaxClock :
           /\ <<orders[o].status, to>> \in Lifecycle
           /\ orders' = [orders EXCEPT ![o].status = to, ![o].updated_at = t]
    <3>. USE <2>4, <2>a
    <3>. WITNESS orders'[o].status \in OrderStatus,
                 orders'[o].updated_at \in orders[o].updated_at .. MaxClock
    <3>. QED
      BY <2>1, <2>3 DEF Moved
  <2>6. Api!ChangeOrderStatus(o)
    BY ONLY <1>2, <1>3, <1>6, <2>5
       DEF Api!ChangeOrderStatus, Api!OrderStatus, OrderStatus, Api!Lifecycle, Lifecycle
  <2>. QED
    BY <2>6
<1>. QED
  BY <1>7, <1>8, <1>9 DEF Changing

(* A step that leaves the tables alone and takes no id out of use is a     *)
(* loss of fresh ids or nothing: so ends a creation that is not committed. *)
LEMMA LostIds ==
    ASSUME UNCHANGED <<orders, items>>, FreshIds' \subseteq FreshIds
    PROVE  Api!ANext
<1>. DEFINE lost == FreshIds \ FreshIds'
<1>1. /\ lost \in SUBSET OrderIds
      /\ lost \subseteq FreshIds
      /\ FreshIds' = FreshIds \ lost
  BY DEF FreshIds
<1>2. Api!LoseIds(lost)
  BY <1>1 DEF Api!LoseIds
<1>. QED
  BY <1>1, <1>2 DEF Api!ANext

(* Every step of a task is a step of the API or none.                      *)
LEMMA ApiStep ==
    ASSUME NEW s \in Slots, ServiceInvariant, OneRowEach, OverlapInvariant,
           Begin(s) \/ Progress(s) \/ Fault(s)
    PROVE  Api!ANext
<1>. USE DEF ServiceInvariant, Shared, database
<1>a. NULL # s /\ next_id \in Nat /\ \A o \in OrderIds : o \in Nat
  BY NullIsNoValue, ParametersAreNumbers DEF TypeOK, OrderIds
<1>1. CASE QuietStep(s) \/ FailingStep(s) \/ AddItems(s) \/ FlushDeleteItems(s)
  BY <1>1, LostIds DEF QuietStep, FailingStep, AddItems, FlushDeleteItems, FreshIds
<1>2. CASE EndingStep(s)
  BY <1>2, LostIds DEF EndingStep, EndTransaction, FreshIds
<1>3. CASE CommittingStep(s)
  <2>1. CASE \A o \in OrderIds : order_lock[o] # s
    <3>1. FreshIds' = FreshIds
      BY <1>3, <2>1, OtherCommit
    <3>2. \A o \in OrderIds : orders'[o] = orders[o] /\ items'[o] = items[o]
      BY <1>3, <2>1, CommitEffect
    <3>3. orders' = orders /\ items' = items
      BY <1>3, <3>2 DEF CommittingStep, ApplyWrites, TypeOK
    <3>. QED
      BY <3>1, <3>3, LostIds
  <2>2. CASE \E o \in OrderIds : order_lock[o] = s
    <3>1. PICK o \in OrderIds : order_lock[o] = s
      BY <2>2
    <3>2. Op(s) \in {"create", "delete"} \cup Changing
      BY <3>1 DEF RowLocks, OrderLockOf, Writing, Changing
    <3>3. \/ Api!CreateOrder(o) \/ Api!DeleteOrder(o)
          \/ Api!UpdateOrder(o) \/ Api!ChangeOrderStatus(o) \/ Api!Overwrite(o)
      BY <1>3, <3>1, <3>2, CreatingCommit, DeletingCommit, ChangingCommitIsAtomic
    <3>. QED
      BY <3>3 DEF Api!ANext
  <2>. QED
    BY <2>1, <2>2
<1>4. CASE AddOrder(s)
  <2>1. /\ next_id \in OrderIds
        /\ next_id' = next_id + 1
        /\ order_lock' = [order_lock EXCEPT ![next_id] = s]
        /\ UNCHANGED <<orders, items>>
    BY <1>4, NewEntity DEF AddOrder
  <2>2. ASSUME NEW o \in FreshIds'
        PROVE  o \in FreshIds
    <3>1. o \in OrderIds /\ order_lock'[o] = IF o = next_id THEN s ELSE order_lock[o]
      BY <2>1 DEF FreshIds, TypeOK
    <3>. QED
      BY <1>a, <2>1, <3>1 DEF FreshIds
  <2>. QED
    BY <2>1, <2>2, LostIds
<1>5. CASE FlushUpdate(s)
  BY <1>5, LostIds DEF FlushUpdate, FreshIds, TypeOK
<1>6. CASE FlushDeleteOrder(s)
  BY <1>6, LostIds DEF FlushDeleteOrder, FreshIds, TypeOK
<1>. QED
  BY <1>1, <1>2, <1>3, <1>4, <1>5, <1>6, StepKinds

(* Every step of the service is a step of the API or none.                 *)
LEMMA ApiNext ==
    ASSUME ServiceInvariant, OneRowEach, OverlapInvariant, [Next]_vars
    PROVE  [Api!ANext]_(Api!avars)
<1>1. CASE Tick \/ Crash \/ UNCHANGED vars
  <2>1. UNCHANGED <<orders, items, next_id>> /\ (order_lock' = order_lock \/ Crash)
    BY <1>1 DEF Tick, Crash, vars, database, locks
  <2>2. FreshIds' \subseteq FreshIds
    BY <2>1 DEF FreshIds, Crash
  <2>. QED
    BY <2>1, <2>2, LostIds
<1>. QED
  BY <1>1, ApiStep DEF Next

(* The empty service is the empty API.                                     *)
LEMMA ApiInit == Init => Api!AInit
  BY RegistryInit DEF Registry!RInit, Init, Api!AInit

(* However many requests overlap, the service implements the atomic API:   *)
(* every request takes effect in one step or not at all, and only one that *)
(* was overtaken may have an effect that the API does not grant it.        *)
THEOREM AtomicUnlessOvertaken == OverlapSpec => RequestsLookAtomicUnlessOvertaken
<1>1. OverlapSpec => []ServiceInvariant /\ []OneRowEach
  BY OverlapRefinesService, ServiceInvariantHolds, OneRowEachHolds, PTL
<1>2. ServiceInvariant /\ OneRowEach /\ OverlapInvariant /\ [OverlapNext]_<<vars, overtaken>> =>
         [Api!ANext]_(Api!avars)
  BY ApiNext DEF OverlapNext
<1>3. OverlapInit => Api!AInit
  BY ApiInit DEF OverlapInit
<1>. QED
  BY <1>1, <1>2, <1>3, OverlapInvariantHolds, PTL
     DEF OverlapSpec, RequestsLookAtomicUnlessOvertaken, Api!ASpec

=============================================================================
