SPECIFICATION Spec
CONSTANTS
    Handles <- AllHandles
    Blocks = {1, 2, 3, 4, 5, 6, 7, 8, 9, 10, 11, 12, 13, 14, 15, 16, 17,
              18, 19, 20, 21, 22, 23, 24, 25}
    None = 0
    Sizes <- MCSizes
    ThreadsNum = 3
    RowsPerReport = 2
    StepsMax = 4
INVARIANTS
    EachColumnComputed
    ColumnsAreFresh
    ArraysAreSafe
    SolutionFitsLattice
    CancelLeavesBitmap
PROPERTIES
    NoColumnTwice
    CompressReturns
