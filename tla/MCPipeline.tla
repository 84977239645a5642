------------------------------ MODULE MCPipeline ------------------------------
(* Constants for the runs of Pipeline alone. *)
EXTENDS Pipeline, TLC

CONSTANTS i1, i2, i3

AllConfigurations == BOOLEAN \X SUBSET Scanners

ItemSymmetry == Permutations({i1, i2, i3})
===============================================================================
