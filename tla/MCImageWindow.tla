--------------------------- MODULE MCImageWindow ----------------------------
(* Small instances of ImageWindow for TLC.                                 *)
EXTENDS ImageWindow
=============================================================================
