-------------------------- MODULE MCOrderAggregate --------------------------
(* OrderAggregate for TLC: texts, items and bodies at the boundaries of the*)
(* rules.                                                                  *)
EXTENDS OrderAggregateInvariant, TLC

Txt(len, core) == [len |-> len, core |-> core]

\* Two letters; one letter and a blank; blanks only; too short; too long.
SomeNames == {Txt(2, 2), Txt(2, 1), Txt(100, 0), Txt(1, 1), Txt(101, 101)}

SomeAddresses == {Txt(5, 5), Txt(300, 0), Txt(4, 4), Txt(301, 301)}

Line(product_name, quantity, unit_price) ==
    [product_name |-> product_name, quantity |-> quantity, unit_price |-> unit_price]

\* One that can be stored, and one for each way not to be accepted or stored.
SomeBodyItems == {Line(Txt(200, 2), MaxInteger, 1), Line(Txt(1, 1), MaxInteger + 1, 1),
                  Line(Txt(1, 1), 0, 1), Line(Txt(1, 1), 1, -1),
                  Line(Txt(3, 0), 1, 1), Line(Txt(201, 201), 1, 1)}

\* The name of the stored item, a new one, and what add_item refuses.
SomeNewItems == {Line(Txt(2, 2), 1, 1), Line(Txt(1, 1), 2, 0), Line(Txt(1, 1), 0, 1),
                 Line(Txt(2, 2), 1, -1)}

=============================================================================
