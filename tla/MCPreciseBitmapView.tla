------------------------ MODULE MCPreciseBitmapView -------------------------
(* Small instances of PreciseBitmapView for TLC.                           *)
EXTENDS PreciseBitmapView
=============================================================================
