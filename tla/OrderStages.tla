---------------------------- MODULE OrderStages ----------------------------
(***************************************************************************)
(* OrderService with a record of the past: the statuses each order has had *)
(* in the committed table.  The record only watches, no step depends on it.*)
(***************************************************************************)
EXTENDS OrderService

VARIABLE reached    \* per id: the statuses its committed row has had

StagesInit == Init /\ reached = [o \in OrderIds |-> {}]

Watch == reached' = [o \in OrderIds |->
    IF orders'[o] = NULL THEN reached[o] ELSE reached[o] \cup {orders'[o].status}]

StagesNext == Next /\ Watch

StagesSpec == StagesInit /\ [][StagesNext]_<<vars, reached>>

(* No order skips a stage of its lifecycle, even when concurrent requests  *)
(* overwrite each other's status (a stale status may be written back, as   *)
(* the run illegal_transition shows): a status is only ever derived by the *)
(* entity from one that was committed, so what is delivered was shipped    *)
(* once, what is shipped was confirmed, and what is confirmed was pending. *)
NoStageSkipped ==
    \A o \in OrderIds :
        /\ orders[o] # NULL => orders[o].status \in reached[o]
        /\ "delivered" \in reached[o] => "shipped" \in reached[o]
        /\ "shipped" \in reached[o] => "confirmed" \in reached[o]
        /\ reached[o] # {} => "pending" \in reached[o]

=============================================================================
