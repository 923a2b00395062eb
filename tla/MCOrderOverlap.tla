--------------------------- MODULE MCOrderOverlap ---------------------------
(* OrderService with the record of overtaken requests, for TLC.            *)
EXTENDS OrderOverlapInvariant, TLC

SlotSymmetry == Permutations(Slots)

=============================================================================
