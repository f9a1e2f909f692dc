--------------------------- MODULE MCVectorIndex ---------------------------
(* Instances of VectorIndex for TLC.  Jobs are interchangeable;               *)
(* the symmetry is used in the runs without liveness only.                     *)
EXTENDS VectorIndex, TLC

Symmetry == Permutations(Jobs)
=============================================================================
