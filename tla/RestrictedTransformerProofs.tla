--------------------- MODULE RestrictedTransformerProofs --------------------
(* Proofs about RestrictedImageCoordinatesTransformer, for all sizes, zoom *)
(* factors and points.                                                     *)
EXTENDS RestrictedImageCoordinatesTransformer, TLAPS

(* applyConstraints returns a pan that the rules allow.                    *)
LEMMA ConstrainedIsAllowed ==
    ASSUME NEW s \in Nat, NEW w \in Nat, NEW p \in Int
    PROVE  Constrained(s, w, p) \in Int /\ Allowed(s, w, Constrained(s, w, p))
BY DEF Constrained, Allowed, LeftTop, RightBottom

(* It leaves an allowed pan alone: applying it again changes nothing.      *)
LEMMA ConstrainedKeepsAllowed ==
    ASSUME NEW s \in Nat, NEW w \in Nat, NEW p \in Int, Allowed(s, w, p)
    PROVE  Constrained(s, w, p) = p
BY DEF Constrained, Allowed, LeftTop, RightBottom

(* No allowed pan is nearer to the one that was asked for.                 *)
LEMMA ConstrainedIsNearest ==
    ASSUME NEW s \in Nat, NEW w \in Nat, NEW p \in Int,
           NEW q \in Int, Allowed(s, w, q)
    PROVE  Distance(p, Constrained(s, w, p)) <= Distance(p, q)
BY DEF Constrained, Allowed, LeftTop, RightBottom, Distance

(* The half size on the screen is a natural number.                        *)
LEMMA OnScreenNat == \A i, z \in Nat : i * z \in Nat
OBVIOUS

(* applyConstraints, whatever the fields are set to, keeps the types and   *)
(* leaves the view obeying the rules.                                      *)
LEMMA ApplyConstraintsEstablishes ==
    ASSUME NEW s \in [Axes -> Nat], NEW i \in [Axes -> Nat], NEW z \in Zooms,
           NEW p \in [Axes -> Int], ApplyConstraints(s, i, z, p)
    PROVE  TypeOK' /\ ViewInsideImage'
<1>1. z \in Nat
  BY ZoomsAssumption
<1>2. ASSUME NEW a \in Axes
      PROVE  /\ pan'[a] = Constrained(s[a], i[a] * z, p[a])
             /\ pan'[a] \in Int
             /\ Allowed(s[a], i[a] * z, pan'[a])
  <2>1. s[a] \in Nat /\ i[a] * z \in Nat /\ p[a] \in Int
    BY <1>1, OnScreenNat
  <2>2. pan'[a] = Constrained(s[a], i[a] * z, p[a])
    BY DEF ApplyConstraints, ConstrainedPan
  <2> QED  BY <2>1, <2>2, ConstrainedIsAllowed
<1>3. screenSize' = s /\ imageSize' = i /\ zoom' = z
  BY DEF ApplyConstraints
<1>4. pan' \in [Axes -> Int]
  <2>1. pan' = [a \in Axes |-> ConstrainedPan(a, s, i, z, p[a])]
    BY DEF ApplyConstraints
  <2> QED  BY <1>2, <2>1
<1> QED  BY <1>2, <1>3, <1>4 DEF TypeOK, ViewInsideImage

LEMMA InitEstablishes == Init => TypeOK /\ ViewInsideImage
BY ZoomsAssumption DEF Init, TypeOK, ViewInsideImage, Allowed, LeftTop, RightBottom

LEMMA NextPreserves == TypeOK /\ Next => TypeOK' /\ ViewInsideImage'
<1> SUFFICES ASSUME TypeOK, Next  PROVE TypeOK' /\ ViewInsideImage'
  OBVIOUS
<1>0. Sizes \subseteq Nat /\ Points \subseteq Int /\ Zooms \subseteq Nat \ {0}
  BY SizesAssumption, PointsAssumption, ZoomsAssumption
<1>t. /\ screenSize \in [Axes -> Nat] /\ imageSize \in [Axes -> Nat]
      /\ pan \in [Axes -> Int] /\ zoom \in Zooms
  BY DEF TypeOK
<1>1. ASSUME NEW v \in [Axes -> Sizes], SetScreenSize(v)
      PROVE  TypeOK' /\ ViewInsideImage'
  <2>1. v \in [Axes -> Nat]
    BY <1>0
  <2> QED  BY <1>1, <2>1, <1>t, ApplyConstraintsEstablishes DEF SetScreenSize
<1>2. ASSUME NEW v \in [Axes -> Sizes], SetImageSize(v)
      PROVE  TypeOK' /\ ViewInsideImage'
  <2>1. v \in [Axes -> Nat]
    BY <1>0
  <2> QED  BY <1>2, <2>1, <1>t, ApplyConstraintsEstablishes DEF SetImageSize
<1>3. ASSUME NEW v \in [Axes -> Points], SetPan(v)
      PROVE  TypeOK' /\ ViewInsideImage'
  <2>1. v \in [Axes -> Int]
    BY <1>0
  <2> QED  BY <1>3, <2>1, <1>t, ApplyConstraintsEstablishes DEF SetPan
<1>4. ASSUME NEW v \in [Axes -> Points], AddPan(v)
      PROVE  TypeOK' /\ ViewInsideImage'
  <2> DEFINE q == [a \in Axes |-> pan[a] + v[a]]
  <2>1. q \in [Axes -> Int]
    <3>1. \A a \in Axes : pan[a] \in Int /\ v[a] \in Int
      BY <1>0, <1>t
    <3> QED  BY <3>1
  <2>2. ApplyConstraints(screenSize, imageSize, zoom, q)
    BY <1>4 DEF AddPan, SetPan
  <2> HIDE DEF q
  <2> QED  BY <2>1, <2>2, <1>t, ApplyConstraintsEstablishes
<1>5. ASSUME NEW z \in Zooms, SetZoom(z)
      PROVE  TypeOK' /\ ViewInsideImage'
  BY <1>5, <1>t, ApplyConstraintsEstablishes DEF SetZoom
<1>6. ASSUME NEW z \in Zooms, NEW c \in [Axes -> Points], ZoomUponScreenPoint(c, z)
      PROVE  TypeOK' /\ ViewInsideImage'
  <2> DEFINE q == [a \in Axes |-> PanUponPoint(c[a], pan[a], screenSize[a], z)]
  <2>1. q \in [Axes -> Int]
    <3>1. ASSUME NEW a \in Axes
          PROVE  PanUponPoint(c[a], pan[a], screenSize[a], z) \in Int
      <4>1. /\ c[a] \in Points /\ pan[a] \in Int /\ screenSize[a] \in Nat
            /\ z \in Nat \ {0} /\ zoom \in Nat \ {0}
        BY <1>0, <1>t
      <4>2. PanNumerator(c[a], pan[a], screenSize[a], z) \in Int
        <5>1. c[a] \in Int
          BY PointsAssumption, <4>1
        <5>2. \A d, p, t, y, x \in Int : x * p + (y - x) * (d - t) \in Int
          OBVIOUS
        <5> QED  BY <4>1, <5>1, <5>2 DEF PanNumerator
      <4> QED  BY <4>1, <4>2 DEF PanUponPoint
    <3> QED  BY <3>1
  <2>2. ApplyConstraints(screenSize, imageSize, z, q)
    BY <1>6 DEF ZoomUponScreenPoint
  <2> HIDE DEF q
  <2> QED  BY <2>1, <2>2, <1>t, ApplyConstraintsEstablishes
<1> QED  BY <1>1, <1>2, <1>3, <1>4, <1>5, <1>6 DEF Next

LEMMA StepPreserves ==
    TypeOK /\ ViewInsideImage /\ [Next]_vars => TypeOK' /\ ViewInsideImage'
<1>1. TypeOK /\ ViewInsideImage /\ UNCHANGED vars => TypeOK' /\ ViewInsideImage'
  BY DEF vars, TypeOK, ViewInsideImage
<1> QED  BY <1>1, NextPreserves

(* The types hold for ever.                                                *)
THEOREM TypeCorrect == Spec => []TypeOK
<1> QED  BY InitEstablishes, StepPreserves, PTL DEF Spec

(* Whatever was called in whatever order, an image smaller than the screen *)
(* is centred and the screen never shows the outside of a larger one.      *)
THEOREM ViewStaysInside == Spec => []ViewInsideImage
<1> QED  BY InitEstablishes, StepPreserves, PTL DEF Spec

LEMMA DragFromAnyState == TypeOK => DragGoesToNearest
<1> SUFFICES ASSUME TypeOK, NEW a \in Axes, NEW d \in Points,
                    NEW p \in AllowedPans(screenSize[a], imageSize[a] * zoom)
             PROVE  Distance(pan[a] + d,
                             Constrained(screenSize[a], imageSize[a] * zoom, pan[a] + d))
                    <= Distance(pan[a] + d, p)
  BY DEF DragGoesToNearest, ConstrainedPan
<1>1. screenSize[a] \in Nat /\ imageSize[a] \in Nat /\ zoom \in Nat /\ pan[a] + d \in Int
  BY ZoomsAssumption, PointsAssumption DEF TypeOK
<1>2. imageSize[a] * zoom \in Nat
  BY <1>1, OnScreenNat
<1>3. p \in Int /\ Allowed(screenSize[a], imageSize[a] * zoom, p)
  BY <1>2 DEF AllowedPans
<1> QED  BY <1>1, <1>2, <1>3, ConstrainedIsNearest

(* A drag always takes the view to the allowed position nearest to the one *)
(* that was asked for.                                                     *)
THEOREM DragIsNearest == Spec => []DragGoesToNearest
<1> QED  BY TypeCorrect, DragFromAnyState, PTL

(* A quotient without a remainder gives back its numerator.                *)
LEMMA ExactQuotient ==
    ASSUME NEW n \in Int, NEW z \in Nat \ {0}, n % z = 0
    PROVE  n \div z \in Int /\ (n \div z) * z = n
OBVIOUS

(* The formula of zoomUponScreenPoint keeps the point, before the rules.   *)
LEMMA ZoomFormulaKeepsPoint ==
    ASSUME NEW c \in Int, NEW s \in Int, NEW i \in Int, NEW p \in Int, NEW q \in Int,
           NEW y \in Int, NEW z \in Int, q * y = z * p + (y - z) * (c - s)
    PROVE  ScreenToImage(c, s, i, q, z) * y = ScreenToImage(c, s, i, p, y) * z
<1>1. (c + i * z - s - q) * y = (c - s) * y + i * z * y - q * y
  OBVIOUS
<1>2. (c + i * y - s - p) * z = (c - s) * z + i * z * y - z * p
  OBVIOUS
<1>3. (y - z) * (c - s) = (c - s) * y - (c - s) * z
  OBVIOUS
<1> QED  BY <1>1, <1>2, <1>3 DEF ScreenToImage

(* A rule that moves the image leaves it centred or with an edge on the    *)
(* edge of the screen.                                                     *)
LEMMA MovedMeansAtEdge ==
    ASSUME NEW s \in Nat, NEW w \in Nat, NEW p \in Int
    PROVE  \/ Constrained(s, w, p) = p
           \/ w < s
           \/ LeftTop(s, w, Constrained(s, w, p)) = 0
           \/ RightBottom(s, w, Constrained(s, w, p)) = 2 * s
BY DEF Constrained, LeftTop, RightBottom

LEMMA ZoomFromAnyState == TypeOK => PointStaysInPlace
<1> SUFFICES ASSUME TypeOK, NEW a \in Axes, NEW z \in Zooms, NEW c \in Points,
                    PanNumerator(c, pan[a], screenSize[a], z) % zoom = 0
             PROVE  LET s == screenSize[a]
                        i == imageSize[a]
                        q == Constrained(s, i * z, PanUponPoint(c, pan[a], s, z))
                    IN  \/ ScreenToImage(c, s, i, q, z) * zoom =
                               ScreenToImage(c, s, i, pan[a], zoom) * z
                        \/ i * z < s
                        \/ LeftTop(s, i * z, q) = 0
                        \/ RightBottom(s, i * z, q) = 2 * s
  BY DEF PointStaysInPlace, ConstrainedPan
<1> DEFINE s == screenSize[a]
           i == imageSize[a]
           p == PanUponPoint(c, pan[a], s, z)
<1>1. /\ s \in Nat /\ i \in Nat /\ pan[a] \in Int /\ c \in Int /\ z \in Nat
      /\ zoom \in Nat \ {0}
  BY ZoomsAssumption, PointsAssumption DEF TypeOK
<1>2. PanNumerator(c, pan[a], s, z) \in Int
  BY <1>1 DEF PanNumerator
<1>3. p \in Int /\ p * zoom = z * pan[a] + (zoom - z) * (c - s)
  <2>1. p \in Int /\ p * zoom = PanNumerator(c, pan[a], s, z)
    BY <1>1, <1>2, ExactQuotient DEF PanUponPoint
  <2> QED  BY <2>1 DEF PanNumerator
<1>4. i * z \in Nat
  BY <1>1, OnScreenNat
<1> HIDE DEF p, s, i
<1>5. ScreenToImage(c, s, i, p, z) * zoom = ScreenToImage(c, s, i, pan[a], zoom) * z
  BY <1>1, <1>3, ZoomFormulaKeepsPoint
<1>6. \/ Constrained(s, i * z, p) = p
      \/ i * z < s
      \/ LeftTop(s, i * z, Constrained(s, i * z, p)) = 0
      \/ RightBottom(s, i * z, Constrained(s, i * z, p)) = 2 * s
  BY <1>1, <1>3, <1>4, MovedMeansAtEdge
<1> QED  BY <1>5, <1>6 DEF s, i, p

(* Zooming keeps the image point under the finger, unless a rule moves the *)
(* image.                                                                  *)
THEOREM PointStays == Spec => []PointStaysInPlace
<1> QED  BY TypeCorrect, ZoomFromAnyState, PTL
=============================================================================
