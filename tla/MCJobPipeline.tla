--------------------------- MODULE MCJobPipeline ---------------------------
(***************************************************************************)
(* Instances of JobPipeline for TLC.                                       *)
(***************************************************************************)
EXTENDS JobPipeline, TLC

CONSTANTS w1, w2, w3

WorkerSymmetry == Permutations(Workers)
=============================================================================
