SPECIFICATION Spec
CONSTANTS
    Conns = {c1}
    Users = {u1}
    Empty = Empty
    Garbled = Garbled
    MaxCrashes = 0
    MaxFailures = 0
    Requests <- Buttons
INVARIANT
    ErasedOnlyIfAsked
