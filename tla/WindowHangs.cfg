CONSTANTS
    Calls = {request}
    Request = request
    NULL = NULL
    DecodeErrors = {"LibRawException"}
SPECIFICATION Spec
PROPERTY CallReturns
