---------------------------- MODULE MCInitialLoad ----------------------------
(* Instances of InitialLoad for TLC: three primary key values.             *)
EXTENDS InitialLoad

MCKeys == 1 .. 3

=============================================================================
