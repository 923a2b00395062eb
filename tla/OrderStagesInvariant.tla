------------------------ MODULE OrderStagesInvariant ------------------------
(***************************************************************************)
(* What has to be known of the statuses that are under way in sessions and *)
(* transactions for no order to skip a stage: all of them come from one    *)
(* that was committed, by one step of the lifecycle at most.               *)
(***************************************************************************)
EXTENDS OrderStages, OrderServiceInvariant

\* One step of the lifecycle, or none, from a status the order has had.
Derived(o, status) ==
    \E from \in reached[o] : status = from \/ <<from, status>> \in Lifecycle

\* The stages before a status have been reached with it.
InStages(statuses) ==
    /\ "delivered" \in statuses => "shipped" \in statuses
    /\ "shipped" \in statuses => "confirmed" \in statuses
    /\ statuses # {} => "pending" \in statuses

StatusesOf(s) ==
    /\ \A o \in OrderIds : model[s][o] # NULL => model[s][o].status \in reached[o]
    /\ pc[s] # "idle" /\ Op(s) \in Changing =>
          /\ pc[s] = "loaded" => order[s].status \in reached[Id(s)]
          /\ pc[s] \in {"persisting", "reloading", "flushing"} =>
                Derived(Id(s), order[s].status)
    /\ \A o \in OrderIds : order_lock[o] = s =>
          /\ Op(s) = "create" => staged[s].status = "pending"
          /\ Op(s) \in Changing => Derived(o, staged[s].status)

(* The conjunction that every step keeps, together with ServiceInvariant.  *)
StagesInvariant ==
    /\ reached \in [OrderIds -> SUBSET OrderStatus]
    /\ \A o \in OrderIds : InStages(reached[o])
    /\ \A o \in OrderIds : orders[o] # NULL => orders[o].status \in reached[o]
    /\ \A s \in Slots : StatusesOf(s)

=============================================================================
