------------------------ MODULE OrderRegistryProofs ------------------------
(***************************************************************************)
(* Proof that OrderService implements OrderRegistry: whatever overlaps and *)
(* fails, an order appears whole under a new id, keeps its items, and      *)
(* disappears whole and for good.                                          *)
(***************************************************************************)
EXTENDS OrderServiceProofs

(* Every step of a task keeps OneRowEach: it locks a row only when it      *)
(* holds none, at the flush.                                               *)
LEMMA OneRowEachStep ==
    ASSUME NEW s \in Slots, ServiceInvariant, OneRowEach, Begin(s) \/ Progress(s) \/ Fault(s)
    PROVE  OneRowEach'
<1>. USE DEF ServiceInvariant, Shared, database
<1>a. SUFFICES ASSUME NEW o \in OrderIds, NEW p \in OrderIds,
                      order_lock'[o] # NULL, order_lock'[o] = order_lock'[p]
               PROVE  o = p
  BY DEF OneRowEach
<1>b. \A q \in OrderIds : order_lock[q] \in Slots \cup {NULL}
  BY DEF TypeOK
<1>1. CASE QuietStep(s) \/ FailingStep(s) \/ AddItems(s) \/ FlushDeleteItems(s)
  BY <1>1, <1>a DEF QuietStep, FailingStep, AddItems, FlushDeleteItems, OneRowEach
<1>2. CASE EndingStep(s) \/ CommittingStep(s)
  BY <1>2, <1>a DEF EndingStep, CommittingStep, EndTransaction, OneRowEach
<1>3. CASE AddOrder(s)
  <2>1. /\ \A q \in OrderIds : order_lock[q] # s
        /\ next_id \in OrderIds
        /\ order_lock' = [order_lock EXCEPT ![next_id] = s]
    BY <1>3, NoLocks, NewEntity DEF AddOrder
  <2>. QED
    BY <1>a, <2>1 DEF OneRowEach, TypeOK
<1>4. CASE FlushUpdate(s)
  <2>1. /\ \A q \in OrderIds : order_lock[q] # s
        /\ order_lock' = [order_lock EXCEPT ![Id(s)] = s]
    BY <1>4, NoLocks DEF FlushUpdate, Flushing
  <2>. QED
    BY <1>a, <2>1 DEF OneRowEach, TypeOK
<1>5. CASE FlushDeleteOrder(s)
  <2>1. \A q \in OrderIds : order_lock[q] # s
    BY <1>5 DEF FlushDeleteOrder, RowLocks, OrderLockOf
  <2>2. \A q \in OrderIds : order_lock'[q] =
           IF q = Id(s) THEN (IF orders[q] # NULL THEN s ELSE NULL) ELSE order_lock[q]
    BY <1>5 DEF FlushDeleteOrder, TypeOK
  <2>. QED
    BY <1>a, <2>1, <2>2 DEF OneRowEach
<1>. QED
  BY <1>1, <1>2, <1>3, <1>4, <1>5, StepKinds

(* OneRowEach holds throughout every behaviour of the service.             *)
LEMMA OneRowEachHolds == Spec => []OneRowEach
<1>1. Init => OneRowEach
  BY DEF Init, OneRowEach
<1>2. ServiceInvariant /\ OneRowEach /\ [Next]_vars => OneRowEach'
  BY OneRowEachStep DEF Next, Tick, Crash, vars, locks, OneRowEach
<1>. QED
  BY <1>1, <1>2, ServiceInvariantHolds, PTL DEF Spec

-----------------------------------------------------------------------------
(* The two variables of the registry, as the refinement maps them.         *)
Shelf == [o \in OrderIds |-> IF orders[o] = NULL THEN NoItems ELSE items[o]]

(* The initial service is the initial registry.                            *)
LEMMA RegistryInit == Init => Registry!RInit
<1>. SUFFICES ASSUME Init
              PROVE  FreshIds = OrderIds /\ Shelf = [o \in OrderIds |-> NoItems]
  BY DEF Registry!RInit, Shelf
<1>1. \A o \in OrderIds : o >= next_id
  BY ParametersAreNumbers DEF Init, OrderIds
<1>. QED
  BY <1>1 DEF Init, FreshIds, Shelf

(* Ids may be burnt: a step that only takes fresh ids away implements Burn,*)
(* or nothing when it takes none.                                          *)
LEMMA BurntIds ==
    ASSUME FreshIds' \subseteq FreshIds, Shelf' = Shelf
    PROVE  Registry!RNext
<1>. DEFINE used == FreshIds \ FreshIds'
<1>1. /\ used \in SUBSET OrderIds
      /\ used \subseteq FreshIds
      /\ FreshIds' = FreshIds \ used
  BY DEF FreshIds
<1>2. Registry!Burn(used)
  BY <1>1 DEF Registry!Burn, Shelf
<1>. QED
  BY <1>1, <1>2 DEF Registry!RNext

(* The shelf is made of the committed tables alone.                        *)
LEMMA SameShelf ==
    ASSUME UNCHANGED <<orders, items>>
    PROVE  Shelf' = Shelf
  BY DEF Shelf

(* The commit of a create places its order.                                *)
LEMMA PlacingCommit ==
    ASSUME NEW s \in Slots, NEW o \in OrderIds, ServiceInvariant, OneRowEach,
           CommittingStep(s), order_lock[o] = s, Op(s) = "create"
    PROVE  \E basket \in Baskets : Registry!Place(o, basket)
<1>. USE DEF ServiceInvariant
<1>1. /\ orders[o] = NULL
      /\ item_lock[o] = s
      /\ staged_items[s] \in Baskets
  BY DEF RowLocks, OrderLockOf, CommittingStep, TypeOK, ItemList
<1>2. \A p \in OrderIds \ {o} : order_lock[p] # s
  BY NullIsNoValue DEF OneRowEach
<1>3. \A p \in OrderIds \ {o} : /\ orders'[p] = orders[p]
                                /\ items'[p] = items[p]
                                /\ order_lock'[p] = order_lock[p]
  BY <1>2, CommitEffect
<1>4. /\ orders'[o] # NULL
      /\ order_lock'[o] = NULL
      /\ items'[o] = staged_items[s]
      /\ next_id' = next_id
  BY <1>1, CommitEffect DEF CommittingStep, ApplyWrites
<1>5. ~(o >= next_id) /\ NULL # s
  BY NullIsNoValue DEF UnusedIds
<1>6. o \in FreshIds /\ FreshIds' = FreshIds \ {o}
  BY <1>1, <1>3, <1>4, <1>5 DEF FreshIds
<1>7. Shelf' = [Shelf EXCEPT ![o] = staged_items[s]]
  BY <1>3, <1>4 DEF Shelf
<1>. QED
  BY <1>1, <1>6, <1>7 DEF Registry!Place, Shelf

(* The commit of a delete removes its order.                               *)
LEMMA RemovingCommit ==
    ASSUME NEW s \in Slots, NEW o \in OrderIds, ServiceInvariant, OneRowEach,
           CommittingStep(s), order_lock[o] = s, Op(s) = "delete"
    PROVE  Registry!Remove(o)
<1>. USE DEF ServiceInvariant
<1>1. orders[o] # NULL /\ items[o] # NoItems
  BY DEF RowLocks, OrderLockOf, StoredOrdersHaveItems
<1>2. \A p \in OrderIds \ {o} : order_lock[p] # s
  BY NullIsNoValue DEF OneRowEach
<1>3. \A p \in OrderIds \ {o} : /\ orders'[p] = orders[p]
                                /\ items'[p] = items[p]
                                /\ order_lock'[p] = order_lock[p]
  BY <1>2, CommitEffect
<1>4. /\ orders'[o] = NULL
      /\ order_lock'[o] = NULL
      /\ next_id' = next_id
  BY CommitEffect DEF CommittingStep
<1>5. ~(o >= next_id)
  BY <1>1 DEF UnusedIds
<1>6. FreshIds' = FreshIds
  BY <1>1, <1>3, <1>4, <1>5 DEF FreshIds
<1>7. Shelf[o] # NoItems /\ Shelf' = [Shelf EXCEPT ![o] = NoItems]
  BY <1>1, <1>3, <1>4 DEF Shelf
<1>. QED
  BY <1>6, <1>7 DEF Registry!Remove, Shelf

(* Any other commit, of an update or of nothing, changes neither which     *)
(* orders are stored nor their items.                                      *)
LEMMA OtherCommit ==
    ASSUME NEW s \in Slots, ServiceInvariant, CommittingStep(s),
           \A o \in OrderIds : order_lock[o] = s => Op(s) \in Changing
    PROVE  FreshIds' = FreshIds /\ Shelf' = Shelf
<1>. USE DEF ServiceInvariant
<1>1. ASSUME NEW o \in OrderIds
      PROVE  /\ orders[o] = NULL <=> orders'[o] = NULL
             /\ items'[o] = items[o]
             /\ orders[o] = NULL => (order_lock'[o] = order_lock[o])
  <2>1. CASE order_lock[o] # s
    BY <2>1, CommitEffect
  <2>2. CASE order_lock[o] = s
    BY <2>2, CommitEffect DEF RowLocks, OrderLockOf
  <2>. QED
    BY <2>1, <2>2
<1>2. next_id' = next_id
  BY DEF CommittingStep
<1>3. FreshIds' = FreshIds
  BY <1>1, <1>2 DEF FreshIds
<1>4. Shelf' = Shelf
  BY <1>1 DEF Shelf
<1>. QED
  BY <1>3, <1>4

(* Every step of a task is a step of the registry or none.                 *)
LEMMA RegistryStep ==
    ASSUME NEW s \in Slots, ServiceInvariant, OneRowEach, Begin(s) \/ Progress(s) \/ Fault(s)
    PROVE  [Registry!RNext]_(Registry!rvars)
<1>. USE DEF ServiceInvariant, Shared, database
<1>a. NULL # s /\ next_id \in Nat /\ \A o \in OrderIds : o \in Nat
  BY NullIsNoValue, ParametersAreNumbers DEF TypeOK, OrderIds
<1>b. FreshIds' \subseteq FreshIds /\ Shelf' = Shelf => Registry!RNext
  BY BurntIds
<1>1. CASE QuietStep(s) \/ FailingStep(s) \/ AddItems(s) \/ FlushDeleteItems(s)
  BY <1>1, <1>b, SameShelf DEF QuietStep, FailingStep, AddItems, FlushDeleteItems, FreshIds
<1>2. CASE EndingStep(s)
  BY <1>2, <1>b, SameShelf DEF EndingStep, EndTransaction, FreshIds
<1>3. CASE CommittingStep(s)
  <2>1. CASE \A o \in OrderIds : order_lock[o] = s => Op(s) \in Changing
    BY <1>3, <1>b, <2>1, OtherCommit
  <2>2. CASE \E o \in OrderIds : order_lock[o] = s /\ Op(s) \notin Changing
    <3>1. PICK o \in OrderIds : order_lock[o] = s /\ Op(s) \notin Changing
      BY <2>2
    <3>2. Op(s) \in {"create", "delete"}
      BY <3>1 DEF RowLocks, OrderLockOf, Writing, Changing
    <3>3. CASE Op(s) = "create"
      BY <1>3, <3>1, <3>3, PlacingCommit DEF Registry!RNext
    <3>4. CASE Op(s) = "delete"
      BY <1>3, <3>1, <3>4, RemovingCommit DEF Registry!RNext
    <3>. QED
      BY <3>2, <3>3, <3>4
  <2>. QED
    BY <2>1, <2>2
<1>4. CASE AddOrder(s)
  <2>1. /\ next_id \in OrderIds
        /\ next_id' = next_id + 1
        /\ order_lock' = [order_lock EXCEPT ![next_id] = s]
        /\ UNCHANGED <<orders, items>>
    BY <1>4, NewEntity DEF AddOrder
  <2>2. ASSUME NEW o \in FreshIds'
        PROVE  o \in FreshIds
    <3>1. o \in OrderIds /\ order_lock'[o] = IF o = next_id THEN s ELSE order_lock[o]
      BY <2>1 DEF FreshIds, TypeOK
    <3>. QED
      BY <1>a, <2>1, <3>1 DEF FreshIds
  <2>. QED
    BY <1>b, <2>1, <2>2, SameShelf
<1>5. CASE FlushUpdate(s)
  BY <1>b, <1>5, SameShelf DEF FlushUpdate, FreshIds, TypeOK
<1>6. CASE FlushDeleteOrder(s)
  BY <1>b, <1>6, SameShelf DEF FlushDeleteOrder, FreshIds, TypeOK
<1>. QED
  BY <1>1, <1>2, <1>3, <1>4, <1>5, <1>6, StepKinds

(* Every step of the service is a step of the registry or none.            *)
LEMMA RegistryNext ==
    ASSUME ServiceInvariant, OneRowEach, [Next]_vars
    PROVE  [Registry!RNext]_(Registry!rvars)
<1>1. CASE \E s \in Slots : Begin(s) \/ Progress(s) \/ Fault(s)
  BY <1>1, RegistryStep
<1>2. CASE Tick \/ Crash \/ UNCHANGED vars
  <2>1. UNCHANGED <<orders, items, next_id>> /\ (order_lock' = order_lock \/ Crash)
    BY <1>2 DEF Tick, Crash, vars, database, locks
  <2>2. FreshIds' \subseteq FreshIds
    BY <2>1 DEF FreshIds, Crash
  <2>. QED
    BY <2>1, <2>2, SameShelf, BurntIds
<1>. QED
  BY <1>1, <1>2 DEF Next

(* The service implements the registry.                                    *)
THEOREM ServiceImplementsRegistry == Spec => OrdersLiveAndDieWhole
<1>1. ServiceInvariant /\ OneRowEach /\ [Next]_vars => [Registry!RNext]_(Registry!rvars)
  BY RegistryNext
<1>. QED
  BY RegistryInit, <1>1, ServiceInvariantHolds, OneRowEachHolds, PTL
     DEF Spec, OrdersLiveAndDieWhole, Registry!RSpec

=============================================================================
