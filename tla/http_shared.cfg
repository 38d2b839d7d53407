SPECIFICATION Spec
CONSTANTS
    Conns = {c1, c2}
    Uris <- PageAndLog
    Size <- MCSize
    MaxRead = 2
    MaxRetries = 2
    MaxRequests = 2
    MaxLog = 1
INVARIANT
    WholeResponse
