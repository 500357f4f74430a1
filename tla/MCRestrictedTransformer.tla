----------------------- MODULE MCRestrictedTransformer ----------------------
(* Small instances of RestrictedImageCoordinatesTransformer for TLC.       *)
EXTENDS RestrictedImageCoordinatesTransformer

MCPoints == -3 .. 3
=============================================================================
