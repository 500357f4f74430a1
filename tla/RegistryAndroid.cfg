CONSTANTS
    Files = {f1, f2}
    Images = {i1, i2}
    Clients = {c1, c2}
    Loaders = {t1, t2}
    NULL = NULL
    Failed = Failed
    MaxProgress = 1
    FrontEnd = "android"
    DecodeErrors = {"LibRawException", "NoSuchMethodError"}
SPECIFICATION Spec
SYMMETRY Symmetry
INVARIANTS TypeOK RegisteredBitmapsAreLive SettledStates 
PROPERTY NoCallbackAfterUnregister Delivers NullOnlyBetweenPuts
