------------------------- MODULE OrderStagesProofs -------------------------
(***************************************************************************)
(* Proof that no order skips a stage of its lifecycle, although concurrent *)
(* requests may write back a status that is no longer the latest.          *)
(***************************************************************************)
EXTENDS OrderStagesInvariant, OrderServiceProofs

(* The record of statuses only grows, by the status that is stored now.    *)
LEMMA WatchGrows ==
    ASSUME NEW o \in OrderIds, Watch
    PROVE  /\ reached'[o] = IF orders'[o] = NULL THEN reached[o]
                            ELSE reached[o] \cup {orders'[o].status}
           /\ reached[o] \subseteq reached'[o]
           /\ \A status : Derived(o, status) => Derived(o, status)'
  BY DEF Watch, Derived

(* An order enters a stage from the one before it: a status derived from   *)
(* the statuses reached so far can be added to them.                       *)
LEMMA DerivedInStages ==
    ASSUME NEW o \in OrderIds, NEW status, InStages(reached[o]),
           Derived(o, status) \/ status = "pending"
    PROVE  InStages(reached[o] \cup {status})
  BY DEF InStages, Derived, Lifecycle

(* The methods of the entity that change the status follow the lifecycle.  *)
LEMMA ActionsFollowLifecycle ==
    ASSUME NEW o \in Entity, NEW action \in OrderStatusAction, NEW now,
           ActionAllowed(action, o)
    PROVE  <<o.status, ApplyAction(action, o, now).status>> \in Lifecycle
  BY DEF Entity, ActionAllowed, CanConfirm, CanShip, CanDeliver, CanCancel, ApplyAction, confirm,
         ship, deliver, cancel, Touch, add_domain_event, Lifecycle, OrderStatus,
         OrderStatusAction

(* An edit of name and address leaves the status alone.                    *)
LEMMA EditsKeepStatus ==
    ASSUME NEW o \in Entity, NEW name, NEW address, NEW now
    PROVE  /\ Renamed(o, name).status = o.status
           /\ update_shipping_address(Renamed(o, name), address, now).status = o.status
  BY DEF Entity, Renamed, update_shipping_address, Touch

-----------------------------------------------------------------------------
(* What is known of the statuses of a task that does not move stays known. *)
LEMMA OthersStatuses ==
    ASSUME NEW s \in Slots, NEW t \in Slots \ {s}, ServiceInvariant, StagesInvariant, Watch,
           Begin(s) \/ Progress(s) \/ Fault(s)
    PROVE  StatusesOf(t)'
<1>. USE DEF ServiceInvariant
<1>1. /\ pc'[t] = pc[t]
      /\ cmd'[t] = cmd[t]
      /\ model'[t] = model[t]
      /\ order'[t] = order[t]
      /\ staged'[t] = staged[t]
  BY StepIsLocal DEF OthersUnchanged
<1>2. StatusesOf(t)
  BY DEF StagesInvariant
<1>3. ASSUME NEW o \in OrderIds
      PROVE  /\ reached[o] \subseteq reached'[o]
             /\ \A status : Derived(o, status) => Derived(o, status)'
             /\ order_lock'[o] = t => order_lock[o] = t
  BY WatchGrows, OthersLocks
<1>4. pc[t] # "idle" /\ Op(t) \in Changing => Id(t) \in OrderIds
  BY RequestInHand DEF Changing
<1>5. Op(t)' = Op(t) /\ Id(t)' = Id(t)
  BY <1>1 DEF Op, Id
<1>6. ASSUME NEW o \in OrderIds, model'[t][o] # NULL
      PROVE  model'[t][o].status \in reached'[o]
  BY <1>1, <1>2, <1>3, <1>6 DEF StatusesOf
<1>7. ASSUME pc'[t] # "idle", Op(t)' \in Changing
      PROVE  /\ pc'[t] = "loaded" => order'[t].status \in reached'[Id(t)]
             /\ pc'[t] \in {"persisting", "reloading", "flushing"} =>
                   Derived(Id(t), order[t].status)'
  BY <1>1, <1>2, <1>3, <1>4, <1>5, <1>7 DEF StatusesOf, Derived
<1>8. ASSUME NEW o \in OrderIds, order_lock'[o] = t
      PROVE  /\ Op(t)' = "create" => staged'[t].status = "pending"
             /\ Op(t)' \in Changing => Derived(o, staged[t].status)'
  BY <1>1, <1>2, <1>3, <1>5, <1>8 DEF StatusesOf, Derived
<1>. QED
  BY <1>5, <1>6, <1>7, <1>8 DEF StatusesOf

(* A task loads statuses that are stored, changes them by one step of the  *)
(* lifecycle and stages what it has made of them.                          *)
LEMMA OwnStatuses ==
    ASSUME NEW s \in Slots, ServiceInvariant, StagesInvariant, Watch,
           Begin(s) \/ Progress(s) \/ Fault(s)
    PROVE  StatusesOf(s)'
<1>. USE DEF ServiceInvariant, database, locks, writes, session, Goto
<1>a. StatusesOf(s) /\ ControlOf(s)
  BY DEF StagesInvariant, Control
<1>b. ASSUME NEW o \in OrderIds
      PROVE  /\ reached[o] \subseteq reached'[o]
             /\ \A status : Derived(o, status) => Derived(o, status)'
             /\ \A status \in reached[o] : Derived(o, status)
             /\ orders[o] # NULL => orders[o].status \in reached[o]
  BY WatchGrows DEF StagesInvariant, Derived
<1>c. pc[s] # "idle" /\ Op(s) \in Changing \cup {"delete", "get"} => Id(s) \in OrderIds
  BY RequestInHand DEF Changing
\* The rows in the session.
<1>1. ASSUME NEW o \in OrderIds, model'[s][o] # NULL
      PROVE  model'[s][o].status \in reached'[o]
  <2>1. model'[s][o] \in {NULL, model[s][o], orders[o]}
    BY SessionRows
  <2>. QED
    BY <1>a, <1>b, <1>1, <2>1 DEF StatusesOf
\* The entity of the handler.
<1>2. ASSUME pc'[s] # "idle", Op(s)' \in Changing
      PROVE  /\ pc'[s] = "loaded" => order'[s].status \in reached'[Id(s)']
             /\ pc'[s] \in {"persisting", "reloading", "flushing"} =>
                   Derived(Id(s), order[s].status)'
  <2>a. SUFFICES ASSUME pc'[s] \in {"loaded", "persisting", "reloading", "flushing"}
                 PROVE  /\ pc'[s] = "loaded" => order'[s].status \in reached'[Id(s)']
                        /\ pc'[s] \in {"persisting", "reloading", "flushing"} =>
                              Derived(Id(s), order[s].status)'
    OBVIOUS
  <2>1. CASE SelectItems(s)
    <3>1. /\ pc'[s] = "loaded"
          /\ Op(s) \in Changing
          /\ Id(s)' = Id(s)
          /\ Id(s) \in OrderIds
          /\ model[s][Id(s)] # NULL
          /\ order'[s].status = model[s][Id(s)].status
      BY <1>2, <1>a, <1>c, <2>1 DEF SelectItems, TypeOK, Op, Id, ControlOf, Changing,
                                    order_model_to_entity
    <3>. QED
      BY <1>a, <1>b, <3>1 DEF StatusesOf
  <2>2. CASE HandleUpdate(s) \/ HandleStatus(s)
    <3>1. /\ pc[s] = "loaded"
          /\ pc'[s] = "persisting"
          /\ Op(s) \in Changing
          /\ Id(s)' = Id(s)
          /\ Id(s) \in OrderIds
          /\ order[s] \in Entity
      BY <1>2, <1>a, <1>c, <2>2, <2>a DEF HandleUpdate, HandleStatus, Raise, TypeOK, Op, Id,
                                          ControlOf, Changing
    <3>2. order'[s].status = order[s].status \/ <<order[s].status, order'[s].status>> \in Lifecycle
      <4>1. CASE HandleUpdate(s)
        <5>1. order'[s] \in {Renamed(order[s], cmd[s].customer_name),
                              update_shipping_address(Renamed(order[s], cmd[s].customer_name),
                                                      cmd[s].shipping_address, clock)}
          BY <3>1, <4>1 DEF HandleUpdate, Raise, TypeOK
        <5>. QED
          BY <3>1, <5>1, EditsKeepStatus
      <4>2. CASE HandleStatus(s)
        <5>1. cmd[s].action \in OrderStatusAction
          BY <3>1, <4>2, RequestInHand, RequestTypes DEF HandleStatus, Op
        <5>. QED
          BY <3>1, <4>2, <5>1, ActionsFollowLifecycle DEF HandleStatus, Raise, TypeOK
      <4>. QED
        BY <2>2, <4>1, <4>2
    <3>3. order[s].status \in reached'[Id(s)]
      BY <1>a, <1>b, <3>1 DEF StatusesOf
    <3>. QED
      BY <3>1, <3>2, <3>3 DEF Derived
  <2>3. CASE GetCached(s) \/ GetAgain(s) \/ ReloadItems(s)
    <3>1. /\ pc[s] \in {"persisting", "reloading"}
          /\ pc'[s] \in {"reloading", "flushing"}
          /\ UNCHANGED <<cmd, order>>
      BY <2>3 DEF GetCached, GetAgain, ReloadItems, TypeOK
    <3>2. Op(s) \in Changing /\ Id(s)' = Id(s) /\ Id(s) \in OrderIds
      BY <1>2, <1>c, <3>1 DEF Op, Id
    <3>. QED
      BY <1>a, <1>b, <3>1, <3>2 DEF StatusesOf, Derived
  <2>4. ~Begin(s) /\ ~SelectOrders(s) /\ ~SelectNothing(s) /\ ~AnswerQuery(s) /\ ~GetNothing(s)
    BY <1>2, <2>a DEF Begin, SelectOrders, SelectNothing, AnswerQuery, Answer, GetNothing, Raise,
                      TypeOK, Changing, Op
  <2>5. ~Flush(s) /\ ~Finish(s) /\ ~Fault(s)
    BY <2>a DEF Flush, AddOrder, AddItems, AddFails, FlushNothing, FlushUpdate, FlushStale, FlushDeleteItems,
                FlushDeleteOrder, Finish, Commit, Respond, Rollback, Deliver, Answer, Fault,
                PoolTimeout, StatementFails, CommitReplyLost, Raise, TypeOK
  <2>. QED
    BY <2>1, <2>2, <2>3, <2>4, <2>5 DEF Progress, Load, Handle, Reload
\* The row that the transaction has staged.
<1>3. ASSUME NEW o \in OrderIds, order_lock'[o] = s
      PROVE  /\ Op(s)' = "create" => staged'[s].status = "pending"
             /\ Op(s)' \in Changing => Derived(o, staged[s].status)'
  <2>a. order_lock \in [OrderIds -> Slots \cup {NULL}] /\ staged \in [Slots -> Row \cup {NULL}]
    BY DEF TypeOK
  <2>1. CASE QuietStep(s) \/ FlushDeleteItems(s)
    <3>1. /\ order_lock'[o] = order_lock[o]
          /\ pc[s] \notin {"adding", "items_deleted", "flushed", "unwinding"}
      BY <2>1 DEF QuietStep, FlushDeleteItems, Shared
    <3>. QED
      BY <1>3, <3>1, NoLocks
  <2>2. CASE FailingStep(s) \/ AddItems(s)
    <3>1. cmd'[s] = cmd[s] /\ staged' = staged /\ order_lock[o] = s
      BY <1>3, <2>2 DEF FailingStep, AddItems, Shared
    <3>. QED
      BY <1>a, <1>b, <3>1 DEF StatusesOf, Op
  <2>3. CASE EndingStep(s) \/ CommittingStep(s)
    BY <1>3, <2>3, NullIsNoValue DEF EndingStep, CommittingStep, EndTransaction
  <2>4. CASE AddOrder(s)
    BY <2>4, <2>a DEF AddOrder, NewRow, order_entity_to_model, NewOrder, Op, Changing
  <2>5. CASE FlushUpdate(s)
    <3>1. /\ o = Id(s)
          /\ Id(s) \in OrderIds
      <4>1. order_lock[o] # s
        BY <2>5, NoLocks DEF FlushUpdate, Flushing
      <4>2. order_lock' = [order_lock EXCEPT ![Id(s)] = s]
        BY <2>5 DEF FlushUpdate
      <4>. QED
        BY <1>3, <2>a, <4>1, <4>2
    <3>2. /\ Op(s) \in Changing
          /\ Op(s)' = Op(s)
          /\ pc[s] = "flushing"
          /\ orders[Id(s)] # NULL
      BY <2>5 DEF FlushUpdate, Flushing, Op, Changing
    <3>3. staged'[s].status \in {order[s].status, orders[Id(s)].status}
      BY <2>5, <2>a DEF FlushUpdate, Updated, Column, NewValues, Assigned
    <3>4. \A status \in {order[s].status, orders[Id(s)].status} : Derived(o, status)
      BY <1>a, <1>b, <3>1, <3>2 DEF StatusesOf
    <3>. QED
      BY <1>b, <3>2, <3>3, <3>4 DEF Changing, Derived
  <2>6. CASE FlushDeleteOrder(s)
    BY <1>a, <2>6 DEF FlushDeleteOrder, ControlOf, Op, Changing
  <2>. QED
    BY <2>1, <2>2, <2>3, <2>4, <2>5, <2>6, StepKinds
<1>. QED
  BY <1>1, <1>2, <1>3 DEF StatusesOf

-----------------------------------------------------------------------------
(* No status has been reached before there are orders.                     *)
LEMMA StagesInvariantInit ==
    ASSUME StagesInit
    PROVE  StagesInvariant
<1>1. \A o \in OrderIds : reached[o] = {} /\ orders[o] = NULL
  BY DEF StagesInit, Init
<1>2. \A s \in Slots : pc[s] = "idle" /\ model[s] = NoRows
  BY DEF StagesInit, Init
<1>3. \A o \in OrderIds : \A s \in Slots : order_lock[o] # s
  BY NullIsNoValue DEF StagesInit, Init
<1>4. \A s \in Slots : StatusesOf(s)
  BY <1>2, <1>3 DEF StatusesOf, NoRows
<1>5. reached \in [OrderIds -> SUBSET OrderStatus]
  BY DEF StagesInit
<1>. QED
  BY <1>1, <1>4, <1>5 DEF StagesInvariant, InStages

(* What a commit writes is a status the order has had, one that follows    *)
(* from those or the one it begins with.                                   *)
LEMMA WrittenStatus ==
    ASSUME NEW s \in Slots, NEW o \in OrderIds, ServiceInvariant, StagesInvariant,
           Begin(s) \/ Progress(s) \/ Fault(s), orders'[o] # NULL
    PROVE  Derived(o, orders'[o].status) \/ orders'[o].status = "pending"
<1>. USE DEF ServiceInvariant
<1>1. orders'[o] = orders[o] => Derived(o, orders'[o].status)
  BY DEF StagesInvariant, Derived
<1>2. CASE CommittingStep(s)
  <2>1. orders'[o] = IF order_lock[o] = s THEN staged[s] ELSE orders[o]
    BY <1>2 DEF CommittingStep, ApplyWrites
  <2>2. ASSUME order_lock[o] = s
        PROVE  Derived(o, staged[s].status) \/ staged[s].status = "pending"
    <3>1. Op(s) \in Writing
      BY <2>2 DEF RowLocks, OrderLockOf
    <3>2. Op(s) # "delete"
      BY <1>2, <2>2, CommitEffect
    <3>. QED
      BY <2>2, <3>1, <3>2 DEF StagesInvariant, StatusesOf, Writing, Changing
  <2>. QED
    BY <1>1, <2>1, <2>2
<1>3. CASE ~CommittingStep(s)
  <2>1. orders' = orders
    BY <1>3, StepKinds DEF QuietStep, FailingStep, EndingStep, AddOrder, AddItems, FlushUpdate,
                           FlushDeleteItems, FlushDeleteOrder, Shared, database
  <2>. QED
    BY <1>1, <2>1
<1>. QED
  BY <1>2, <1>3

(* Every step keeps StagesInvariant.                                       *)
LEMMA StagesInvariantNext ==
    ASSUME ServiceInvariant, StagesInvariant, [StagesNext]_<<vars, reached>>
    PROVE  StagesInvariant'
<1>1. ASSUME NEW s \in Slots, Begin(s) \/ Progress(s) \/ Fault(s), Watch
      PROVE  StagesInvariant'
  <2>1. ServiceInvariant'
    BY <1>1, InvariantNext DEF Next
  <2>2. reached' \in [OrderIds -> SUBSET OrderStatus]
    BY <1>1, <2>1 DEF StagesInvariant, Watch, ServiceInvariant, TypeOK, Row
  <2>3. ASSUME NEW o \in OrderIds
        PROVE  /\ InStages(reached[o])'
               /\ orders'[o] # NULL => orders'[o].status \in reached'[o]
    <3>1. InStages(reached[o])
      BY DEF StagesInvariant
    <3>2. CASE orders'[o] = NULL
      BY <1>1, <3>1, <3>2, WatchGrows DEF InStages
    <3>3. CASE orders'[o] # NULL
      <4>1. reached'[o] = reached[o] \cup {orders'[o].status}
        BY <1>1, <3>3, WatchGrows
      <4>2. InStages(reached[o] \cup {orders'[o].status})
        BY <1>1, <3>1, <3>3, WrittenStatus, DerivedInStages
      <4>. QED
        BY <4>1, <4>2 DEF InStages
    <3>. QED
      BY <3>2, <3>3
  <2>4. \A t \in Slots : StatusesOf(t)'
    BY <1>1, OthersStatuses, OwnStatuses
  <2>. QED
    BY <2>2, <2>3, <2>4 DEF StagesInvariant
<1>2. ASSUME Tick, Watch
      PROVE  StagesInvariant'
  <2>1. reached' = reached
    BY <1>2 DEF Tick, database, Watch, StagesInvariant
  <2>. QED
    BY <1>2, <2>1 DEF StagesInvariant, StatusesOf, InStages, Derived, Tick, database, locks, writes,
                      session, Op, Id
<1>3. ASSUME Crash, Watch
      PROVE  StagesInvariant'
  <2>1. reached' = reached
    BY <1>3 DEF Crash, database, Watch, StagesInvariant
  <2>2. \A s \in Slots : StatusesOf(s)'
    BY <1>3, NullIsNoValue DEF Crash, StatusesOf, NoRows
  <2>. QED
    BY <1>3, <2>1, <2>2 DEF StagesInvariant, InStages, Crash, database
<1>4. ASSUME UNCHANGED <<vars, reached>>
      PROVE  StagesInvariant'
  BY <1>4 DEF StagesInvariant, StatusesOf, InStages, Derived, vars, Op, Id
<1>. QED
  BY <1>1, <1>2, <1>3, <1>4 DEF StagesNext, Next

(* The record watches OrderService and takes no part in it.                *)
THEOREM StagesRefineService == StagesSpec => Spec
<1>1. StagesInit => Init
  BY DEF StagesInit
<1>2. [StagesNext]_<<vars, reached>> => [Next]_vars
  BY DEF StagesNext
<1>. QED
  BY <1>1, <1>2, PTL DEF StagesSpec, Spec

(* All statuses in sessions and transactions come from a committed one by  *)
(* one step of the lifecycle at most.                                      *)
THEOREM StagesInvariantHolds == StagesSpec => []StagesInvariant
<1>1. StagesSpec => []ServiceInvariant
  BY StagesRefineService, ServiceInvariantHolds, PTL
<1>2. ServiceInvariant /\ StagesInvariant /\ [StagesNext]_<<vars, reached>> => StagesInvariant'
  BY StagesInvariantNext
<1>. QED
  BY <1>1, <1>2, StagesInvariantInit, PTL DEF StagesSpec

(* No order skips a stage of its lifecycle, however many requests overlap. *)
THEOREM StagesAreNotSkipped == StagesSpec => []NoStageSkipped
<1>1. StagesInvariant => NoStageSkipped
  BY DEF StagesInvariant, NoStageSkipped, InStages
<1>. QED
  BY <1>1, StagesInvariantHolds, PTL

=============================================================================
