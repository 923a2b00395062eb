----------------------------- MODULE OrderDtos -----------------------------
(***************************************************************************)
(* The rules of the request bodies, src/application/dtos/order_dtos.py.    *)
(*                                                                         *)
(* No rule looks at the letters of a text, only at how many there are.  A  *)
(* text is therefore its length and the length of what str.strip leaves of *)
(* it; a text of blanks has a core of 0.  Characters that no text column   *)
(* of PostgreSQL takes, NUL and lone surrogates, are left out.             *)
(***************************************************************************)
EXTENDS Integers, Sequences

CONSTANT None    \* a field that the body leaves out

Text == {v \in [len : Nat, core : Nat] : v.core <= v.len}

Item == [product_name : Text, quantity : Int, unit_price : Int]

\* Faulty variant: the validators only look at the text.
unstripped(v) == v
strip(v) == [len |-> v.core, core |-> v.core]

(* The Field constraints see the text as it was sent; the validators run   *)
(* after them, refuse what is blank and strip the rest.                    *)
Between(v, min_length, max_length) == v.len \in min_length .. max_length
not_whitespace(v) == v.core > 0

-----------------------------------------------------------------------------
\* OrderItemCreateDto.  Faulty variant: ge=0 where gt=0 is meant.
AcceptsItemOfZero(item) ==
    /\ Between(item.product_name, 1, 200)
    /\ not_whitespace(item.product_name)
    /\ item.quantity >= 0
    /\ item.unit_price >= 0

AcceptsItem(item) ==
    /\ Between(item.product_name, 1, 200)
    /\ not_whitespace(item.product_name)
    /\ item.quantity > 0
    /\ item.unit_price >= 0

\* CreateOrderDto: when a body is accepted and what the DTO then holds.
AcceptsCreate(body) ==
    /\ Between(body.customer_name, 2, 100)
    /\ not_whitespace(body.customer_name)
    /\ Between(body.shipping_address, 5, 300)
    /\ not_whitespace(body.shipping_address)
    /\ Len(body.items) >= 1
    /\ \A i \in DOMAIN body.items : AcceptsItem(body.items[i])

CreateOrderDto(body) ==
    [customer_name |-> strip(body.customer_name),
     shipping_address |-> strip(body.shipping_address),
     items |-> [i \in DOMAIN body.items |->
                   [body.items[i] EXCEPT !.product_name = strip(@)]]]

\* UpdateOrderDto has the constraints but not the validators.
AcceptsUpdate(body) ==
    /\ body.customer_name # None => Between(body.customer_name, 2, 100)
    /\ body.shipping_address # None => Between(body.shipping_address, 5, 300)

=============================================================================
