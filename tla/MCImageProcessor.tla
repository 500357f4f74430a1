-------------------------- MODULE MCImageProcessor --------------------------
(* Small instances of ImageProcessor for TLC.                              *)
EXTENDS ImageProcessor, TLC

(* The calls differ in nothing but their names.                            *)
Symmetry == Permutations(Calls)
=============================================================================
