------------------------- MODULE MCPipelineLifecycle -------------------------
(* Instances of PipelineLifecycle for TLC. Rows are interchangeable; so is  *)
(* nothing else, since Pipelines are handled in the order they are listed.  *)
EXTENDS PipelineLifecycle, TLC

RowSymmetry == Permutations(Keys)

=============================================================================
