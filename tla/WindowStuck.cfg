CONSTANTS
    Calls = {request}
    Request = request
    NULL = NULL
    DecodeErrors = {"NoSuchMethodError"}
SPECIFICATION Spec
PROPERTY ClosesAfterFailedLoad
