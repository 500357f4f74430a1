CONSTANTS
    Files = {f1}
    Images = {i1}
    Clients = {c1, c2}
    Loaders = {t1}
    NULL = NULL
    Failed = Failed
    MaxProgress = 0
    FrontEnd = "android"
    DecodeErrors = {"NoSuchMethodError"}
SPECIFICATION Spec
INVARIANT NoNullSuccess
