----------------------- MODULE OrderOverlapInvariant -----------------------
(***************************************************************************)
(* The inductive invariant of OrderOverlap.  As long as a request has not  *)
(* been overtaken, what it has read is what is stored, so what it is about *)
(* to write is what the request may do to the stored row.                  *)
(***************************************************************************)
EXTENDS OrderOverlap, OrderServiceInvariant

\* The row that get_by_id or update has read is the stored one.
UpToDateOf(s) ==
    /\ pc[s] \in {"loading", "loaded", "persisting", "reloading", "flushing"}
    /\ Op(s) \in Changing
    /\ ~overtaken[s]
    => model[s][Id(s)] = orders[Id(s)]

-----------------------------------------------------------------------------
\* The columns of a row, or the attributes of an entity.
SameColumns(new, old) ==
    /\ new.customer_name = old.customer_name
    /\ new.shipping_address = old.shipping_address
    /\ new.status = old.status
    /\ new.updated_at = old.updated_at

\* What an update request may make of a row.
Edited(c, new, old) ==
    /\ new.status = old.status
    /\ new.customer_name = IF c.customer_name = NULL THEN old.customer_name ELSE c.customer_name
    /\ \/ c.shipping_address = NULL /\ new.shipping_address = old.shipping_address
       \/ CanUpdateAddress(old) /\ new.shipping_address = c.shipping_address

\* What a status request may make of a row.
Moved(new, old) ==
    /\ <<old.status, new.status>> \in Lifecycle
    /\ new.customer_name = old.customer_name
    /\ new.shipping_address = old.shipping_address

Permitted(c, new, old) ==
    /\ c.op = "update" => Edited(c, new, old)
    /\ c.op = "status" => Moved(new, old)
    /\ old.updated_at <= new.updated_at

-----------------------------------------------------------------------------
\* What a handler that was not overtaken is about to write, from the load of
\* the row to its commit.
IntentOf(s) ==
    pc[s] # "idle" /\ Op(s) \in Changing /\ ~overtaken[s] =>
        /\ pc[s] = "loaded" => SameColumns(order[s], orders[Id(s)])
        /\ pc[s] \in {"persisting", "reloading", "flushing"} =>
              Permitted(cmd[s], order[s], orders[Id(s)])
        /\ pc[s] = "flushed" /\ order_lock[Id(s)] = s =>
              Permitted(cmd[s], staged[s], orders[Id(s)])

\* Which row a transaction holds, and what an INSERT puts there.
HeldRowOf(s) ==
    \A o \in OrderIds : order_lock[o] = s =>
        /\ Op(s) \in Changing \cup {"delete"} => o = Id(s)
        /\ Op(s) = "create" => staged[s].status = "pending" /\ staged[s].updated_at = NoTime

\* No row, read, in hand or staged, was updated at a time that has not come.
TimesOf(s) ==
    /\ \A o \in OrderIds : model[s][o] # NULL => model[s][o].updated_at <= clock
    /\ pc[s] \in {"loaded", "persisting", "reloading", "flushing"} /\ Op(s) \in Changing =>
          order[s].updated_at <= clock
    /\ staged[s] # NULL => staged[s].updated_at <= clock

NothingFromTheFuture ==
    /\ \A o \in OrderIds : orders[o] # NULL => orders[o].updated_at <= clock
    /\ \A s \in Slots : TimesOf(s)

(* The conjunction that every step preserves, given ServiceInvariant and   *)
(* OneRowEach.                                                             *)
OverlapInvariant ==
    /\ overtaken \in [Slots -> BOOLEAN]
    /\ \A s \in Slots : UpToDateOf(s) /\ IntentOf(s) /\ HeldRowOf(s)
    /\ NothingFromTheFuture

=============================================================================
