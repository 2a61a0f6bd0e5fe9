------------------------- MODULE MCIncrementalSync -------------------------
EXTENDS IncrementalSync, TLC

(* Row keys are interchangeable in the safety runs. *)
KeySymmetry == Permutations(Keys)

=============================================================================
