-------------------------- MODULE MCImagesRegistry --------------------------
(* Small instances of ImagesRegistry for TLC.                              *)
EXTENDS ImagesRegistry, TLC

(* Nothing in the module distinguishes the members of these sets.          *)
Symmetry == Permutations(Files) \union Permutations(Images)
                \union Permutations(Clients) \union Permutations(Loaders)
=============================================================================
