--------------------------- MODULE MCOrderService ---------------------------
(* OrderService for TLC.  Slots are interchangeable: the runs that check no*)
(* liveness use their symmetry.                                            *)
EXTENDS OrderServiceInvariant, TLC

SlotSymmetry == Permutations(Slots)

=============================================================================
