--------------- MODULE RestrictedImageCoordinatesTransformer ----------------
(***************************************************************************)
(* com.cateye.core.RestrictedImageCoordinatesTransformer, the transformer  *)
(* of both views: after each mutator of its superclass applyConstraints    *)
(* moves the image back onto the screen.                                   *)
(***************************************************************************)
EXTENDS ImageCoordinatesTransformer

CONSTANTS
    Sizes,          \* halves of the sizes that screens and images have
    Zooms,          \* zoom factors
    Points          \* coordinates that are panned by or zoomed upon

ASSUME SizesAssumption == Sizes \subseteq Nat
ASSUME ZoomsAssumption == 1 \in Zooms /\ Zooms \subseteq Nat \ {0}
ASSUME PointsAssumption == Points \subseteq Int

TypeOK ==
    /\ screenSize \in [Axes -> Nat]
    /\ imageSize \in [Axes -> Nat]
    /\ pan \in [Axes -> Int]
    /\ zoom \in Zooms

(* applyConstraints on one axis: s is half the screen, w half the image on *)
(* the screen.  An image smaller than the screen is centred and the rest   *)
(* skipped; else both tests use the corners as they were before either.    *)
ConstrainedLeft(s, w, p) ==
    IF w < s THEN 0
    ELSE p - IF LeftTop(s, w, p) > 0 THEN LeftTop(s, w, p) ELSE 0
ConstrainedToMiddle(s, w, p) ==
    IF w < s \/ LeftTop(s, w, p) > 0 \/ RightBottom(s, w, p) < 2 * s THEN 0 ELSE p
Constrained(s, w, p) ==
    LET lt == LeftTop(s, w, p)
        rb == RightBottom(s, w, p)
    IN  IF w < s THEN 0
        ELSE p - (IF lt > 0 THEN lt ELSE 0)
               + (IF rb < 2 * s THEN 2 * s - rb ELSE 0)

(* The pan on axis a when the fields get new values, the pan being p       *)
(* before it is constrained.                                               *)
ConstrainedPan(a, s, i, z, p) == Constrained(s[a], i[a] * z, p)

ApplyConstraints(s, i, z, p) ==
    /\ screenSize' = s
    /\ imageSize' = i
    /\ zoom' = z
    /\ pan' = [a \in Axes |-> ConstrainedPan(a, s, i, z, p[a])]

SetScreenSize(s) == ApplyConstraints(s, imageSize, zoom, pan)
SetImageSize(i) == ApplyConstraints(screenSize, i, zoom, pan)
SetPan(p) == ApplyConstraints(screenSize, imageSize, zoom, p)
AddPan(d) == SetPan([a \in Axes |-> pan[a] + d[a]])
SetZoom(z) == ApplyConstraints(screenSize, imageSize, z, pan)   \* and zoomBy

ZoomUponScreenPoint(c, z) ==
    /\ Exact(c, z)
    /\ ApplyConstraints(screenSize, imageSize, z,
          [a \in Axes |-> PanUponPoint(c[a], pan[a], screenSize[a], z)])

Next ==
    \/ \E v \in [Axes -> Sizes] : SetScreenSize(v) \/ SetImageSize(v)
    \/ \E v \in [Axes -> Points] : SetPan(v) \/ AddPan(v)
    \/ \E z \in Zooms :
        \/ SetZoom(z)
        \/ \E c \in [Axes -> Points] : ZoomUponScreenPoint(c, z)

Spec == Init /\ [][Next]_vars

-----------------------------------------------------------------------------
(* Properties.                                                             *)

(* The rules of the class comment, for half sizes s and w and a pan p: an  *)
(* image smaller than the screen is centred, and of another one the screen *)
(* shows nothing but image.                                                *)
Allowed(s, w, p) ==
    IF w < s THEN LeftTop(s, w, p) = 2 * s - RightBottom(s, w, p)
    ELSE LeftTop(s, w, p) <= 0 /\ RightBottom(s, w, p) >= 2 * s

(* Whatever was called in whatever order, the view obeys the rules.        *)
ViewInsideImage ==
    \A a \in Axes : Allowed(screenSize[a], imageSize[a] * zoom, pan[a])

(* Zooming upon a point keeps the image point under it, on each axis where *)
(* no rule had to move the image: where none of its edges has come to lie  *)
(* on the edge of the screen and it is not centred.  The pan q after the   *)
(* zoom is the one that ZoomUponScreenPoint assigns.                       *)
PointStaysInPlace ==
    \A a \in Axes, z \in Zooms, c \in Points :
        LET s == screenSize[a]
            i == imageSize[a]
            q == ConstrainedPan(a, screenSize, imageSize, z, PanUponPoint(c, pan[a], s, z))
        IN  PanNumerator(c, pan[a], s, z) % zoom = 0 =>
                \/ ScreenToImage(c, s, i, q, z) * zoom = ScreenToImage(c, s, i, pan[a], zoom) * z
                \/ i * z < s
                \/ LeftTop(s, i * z, q) = 0
                \/ RightBottom(s, i * z, q) = 2 * s

(* A drag goes as far as it can: of the allowed positions AddPan takes the *)
(* one nearest to what was asked for.                                      *)
Distance(p, q) == IF p > q THEN p - q ELSE q - p
AllowedPans(s, w) == {p \in - w .. w : Allowed(s, w, p)}
DragGoesToNearest ==
    \A a \in Axes, d \in Points :
        LET q == ConstrainedPan(a, screenSize, imageSize, zoom, pan[a] + d)
        IN  \A p \in AllowedPans(screenSize[a], imageSize[a] * zoom) :
                Distance(pan[a] + d, q) <= Distance(pan[a] + d, p)
=============================================================================
