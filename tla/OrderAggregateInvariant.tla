---------------------- MODULE OrderAggregateInvariant ----------------------
(***************************************************************************)
(* The inductive invariant of OrderAggregate: what the entity in memory,   *)
(* the row it was loaded from and the last reply have to do with each other*)
(***************************************************************************)
EXTENDS OrderAggregate

\* Nothing is loaded or changed before the order is stored.
NothingBeforeTheRow == row = None => order = None /\ changed = NotChanged

(* The entity in memory always fits the columns of its row, so a save that *)
(* follows any calls succeeds.                                             *)
EntityFits ==
    order # None =>
        /\ order.customer_name.len \in 1 .. 100
        /\ order.shipping_address.len \in 1 .. 300

\* The entity has the time of its last change, or that of the first update.
EntityTime ==
    order # None =>
        order.updated_at = IF changed.entity # NoTime THEN changed.entity ELSE changed.first

\* The last reply shows the rows as they are, whatever is in memory.
ReplyShowsRow ==
    row # None => shown = to_response_dto(order_model_to_entity(OrderId, row, row_items))

(* The conjunction that every step of the aggregate preserves.             *)
AggregateInvariant ==
    /\ TypeOK
    /\ NothingBeforeTheRow
    /\ EntityFits
    /\ EntityTime
    /\ ReplyShowsRow
    /\ AcceptedBodiesAreStored
    /\ StoredOrdersAreSound
    /\ SavesShowWhatIsStored
    /\ EventsTellTheHistory
    /\ UpdatedAtIsOfTheLastChange

=============================================================================
