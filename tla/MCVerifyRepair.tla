---------------------------- MODULE MCVerifyRepair ----------------------------
(* Instances of VerifyRepair for TLC. Cycles are interchangeable; keys are  *)
(* not, since a check reads a window of them in their order.                *)
EXTENDS VerifyRepair, TLC

CycleSymmetry == Permutations(Cycles)

=============================================================================
