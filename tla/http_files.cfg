SPECIFICATION LiveSpec
CONSTANTS
    Conns = {c1, c2}
    Uris <- AllUris
    Size <- MCSize
    MaxRead = 2
    MaxRetries = 2
    MaxRequests = 2
    MaxLog = 2
INVARIANTS
    TypeOK
    WholeAlone
    LengthHonoured
PROPERTY
    ResponsesEnd
