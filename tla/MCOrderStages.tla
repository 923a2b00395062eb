---------------------------- MODULE MCOrderStages ----------------------------
(* OrderService with the record of past statuses, for TLC.                 *)
EXTENDS OrderStagesInvariant, TLC

SlotSymmetry == Permutations(Slots)

=============================================================================
