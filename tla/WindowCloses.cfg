CONSTANTS
    Calls = {request}
    Request = request
    NULL = NULL
    DecodeErrors = {"LibRawException", "NoSuchMethodError"}
SPECIFICATION Spec
PROPERTIES ClosesAtLast OneClosureThread WorkEndsAfterClose
