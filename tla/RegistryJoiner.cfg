CONSTANTS
    Files = {f1}
    Images = {i1}
    Clients = {c1, c2}
    Loaders = {t1, t2}
    NULL = NULL
    Failed = Failed
    MaxProgress = 0
    FrontEnd = "android"
    DecodeErrors = {"NoSuchMethodError"}
SPECIFICATION FairSpec
PROPERTY EveryRequestAnswered
