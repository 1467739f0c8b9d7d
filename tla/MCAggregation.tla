--------------------------- MODULE MCAggregation ----------------------------
(* Small instances of Aggregation.                                         *)
EXTENDS Aggregation, TLC

Symmetry == Permutations(Writer)
=============================================================================
