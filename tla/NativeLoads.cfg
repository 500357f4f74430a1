SPECIFICATION Spec
CONSTANTS
    Pointers <- MCPointers
    Files <- MCFiles
    MSIZE = 32
    MaxTiles = 2
    Builds = {"posix", "win32"}
INVARIANTS
    TypeOK
    FreedOnce
    NothingLeaks
    FailureIsReported
    CancelIsFinal
    ImageHoldsPicture
    PictureIsWhole
PROPERTIES
    ProgressNeverGoesBack
    LoadReturns
