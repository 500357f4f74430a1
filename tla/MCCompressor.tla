---------------------------- MODULE MCCompressor ----------------------------
(* Pictures with fewer columns than threads, with as many, with more, with   *)
(* one lattice, two and three.                                               *)
EXTENDS Compressor

MCSizes == {[w |-> 1, h |-> 3], [w |-> 3, h |-> 2], [w |-> 4, h |-> 4], [w |-> 7, h |-> 6]}
=============================================================================
