--------------------------- MODULE MCExecutionStore ---------------------------
(* ExecutionStore for TLC: writers and encodings are interchangeable; the   *)
(* model compares them only for equality.                                  *)
EXTENDS ExecutionStore, TLC

Symmetry == Permutations(Writers) \cup Permutations(Encodings)
==============================================================================
