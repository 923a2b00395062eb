---------------------------- MODULE OrderOverlap ----------------------------
(***************************************************************************)
(* OrderService with a record of who has been overtaken: an update or      *)
(* status request whose order another transaction has changed since the    *)
(* request read it.  Nothing in the code notices that: the UPDATE waits    *)
(* for the row and then writes what the handler made of the old one.  The  *)
(* record only watches, no step depends on it.                             *)
(***************************************************************************)
EXTENDS OrderService

VARIABLE overtaken    \* per task: whether its order was changed since it read it

\* An update or status request from the row it has read to its commit.
RowInHand(s) ==
    /\ pc[s] \in {"loading", "loaded", "persisting", "reloading", "flushing", "flushed"}
    /\ Op(s) \in {"update", "status"}

OverlapInit == Init /\ overtaken = [s \in Slots |-> FALSE]

Watch == overtaken' = [s \in Slots |->
    /\ RowInHand(s)
    /\ RowInHand(s)'
    /\ overtaken[s] \/ orders'[Id(s)] # orders[Id(s)]]

OverlapNext == Next /\ Watch

OverlapSpec == OverlapInit /\ [][OverlapNext]_<<vars, overtaken>>

-----------------------------------------------------------------------------
\* The orders that an overtaken request has locked to write to them.
Stale == {o \in OrderIds : \E s \in Slots : order_lock[o] = s /\ overtaken[s]}

(* The status of a stored order leaves its lifecycle only where a request  *)
(* commits that was overtaken; the entity's guards suffice for all others, *)
(* however many requests there are at a time.                              *)
OnlyTheOvertakenLeaveTheLifecycle ==
    [][\A o \in OrderIds :
          orders[o] # NULL /\ orders'[o] # NULL /\ orders'[o].status # orders[o].status
             => o \in Stale \/ <<orders[o].status, orders'[o].status>> \in Lifecycle]_vars

(* The commit of an update request changes a field that its body left out  *)
(* only if the request was overtaken.                                      *)
OnlyTheOvertakenChangeOtherFields ==
    [][\A s \in Slots :
          pc[s] = "flushed" /\ pc'[s] = "committed" /\ Op(s) = "update" /\ ~overtaken[s] =>
             LET before == orders[Id(s)]
                 after  == orders'[Id(s)]
             IN  before # NULL /\ after # NULL =>
                    /\ after.status = before.status
                    /\ cmd[s].customer_name = NULL =>
                          after.customer_name = before.customer_name
                    /\ cmd[s].shipping_address = NULL =>
                          after.shipping_address = before.shipping_address]_vars

(* The service behaves as the atomic API of OrderApi, which an overtaken   *)
(* request is allowed to break with the row it writes, and nothing else:   *)
(* also a request that waits for a row, one that is refused, fails or dies *)
(* and one that deletes takes effect in one step or not at all.            *)
Api == INSTANCE OrderApi WITH Ids <- OrderIds, fresh <- FreshIds, stale <- Stale

RequestsLookAtomicUnlessOvertaken == Api!ASpec

=============================================================================
