CONSTANTS
    Calls = {j1, j2, j3}
    NULL = NULL
SPECIFICATION ProcessorSpec
SYMMETRY Symmetry
INVARIANTS ResultIsOwnCopy WorkIsLive SettledWhenOver
