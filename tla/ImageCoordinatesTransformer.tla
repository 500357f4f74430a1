-------------------- MODULE ImageCoordinatesTransformer ---------------------
(***************************************************************************)
(* com.cateye.core.ImageCoordinatesTransformer: where the image lies on    *)
(* the screen.  Every mutator ends in calculateMu, so that the cached mu   *)
(* is always the one of the current fields and is left out.                *)
(*                                                                         *)
(* The code's doubles are integers here.  A unit of the screen is small    *)
(* enough that pan and half the sizes are whole, zoom counts steps of a    *)
(* smallest zoom, and the sizes are kept as their halves.                  *)
(***************************************************************************)
EXTENDS Integers

Axes == {"x", "y"}

VARIABLES
    screenSize,     \* axis -> half the size of the screen
    imageSize,      \* axis -> half the size of the image
    pan,            \* axis -> pan
    zoom

vars == <<screenSize, imageSize, pan, zoom>>

Init ==
    /\ screenSize = [a \in Axes |-> 0]
    /\ imageSize = [a \in Axes |-> 0]
    /\ pan = [a \in Axes |-> 0]
    /\ zoom = 1

(* imageToScreen of (0, 0) and of the image's size, which lie half the     *)
(* size of the image w on the screen from its middle.                      *)
LeftTop(s, w, p) == s - w + p
RightBottom(s, w, p) == s + w + p

(* screenToImage of c, as a multiple of the zoom: (c / zoom + mu) * zoom.  *)
ScreenToImage(c, s, i, p, z) == c + i * z - s - p

(* The new pan of zoomUponScreenPoint, whose factor is z / zoom; a double  *)
(* has it always, an integer when the division is exact.                   *)
PanUponAverage(c, p, s, z) == (z * p + (zoom - z) * c) \div zoom
PanNumerator(c, p, s, z) == z * p + (zoom - z) * (c - s)
PanUponPoint(c, p, s, z) == PanNumerator(c, p, s, z) \div zoom
Exact(c, z) ==
    \A a \in Axes : PanNumerator(c[a], pan[a], screenSize[a], z) % zoom = 0
=============================================================================
