--------------------------- MODULE OrderRegistry ---------------------------
(***************************************************************************)
(* What the service promises about the lifetime of an order, whatever runs *)
(* concurrently and whatever fails: an order appears in one step with all  *)
(* its items under an id no order had before, keeps exactly these items    *)
(* while it is stored, and disappears in one step for good.  Ids may be    *)
(* used up without an order.                                               *)
(***************************************************************************)
CONSTANTS Ids, Baskets, NoItems

VARIABLES fresh,   \* the ids that no order has had
          shelf    \* the items of the stored orders, NoItems for the other ids

rvars == <<fresh, shelf>>

RInit == fresh = Ids /\ shelf = [i \in Ids |-> NoItems]

Place(i, basket) ==
    /\ i \in fresh
    /\ fresh' = fresh \ {i}
    /\ shelf' = [shelf EXCEPT ![i] = basket]

Remove(i) ==
    /\ shelf[i] # NoItems
    /\ shelf' = [shelf EXCEPT ![i] = NoItems]
    /\ UNCHANGED fresh

Burn(used) ==
    /\ used \subseteq fresh
    /\ fresh' = fresh \ used
    /\ UNCHANGED shelf

RNext ==
    \/ \E i \in Ids : Remove(i) \/ \E basket \in Baskets : Place(i, basket)
    \/ \E used \in SUBSET Ids : Burn(used)

RSpec == RInit /\ [][RNext]_rvars

=============================================================================
