CONSTANTS
    Sizes = {0, 1, 2}
    Zooms = {1, 2, 4}
    Points <- MCPoints
SPECIFICATION Spec
INVARIANTS ViewInsideImage PointStaysInPlace DragGoesToNearest
