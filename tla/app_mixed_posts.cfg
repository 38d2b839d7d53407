SPECIFICATION Spec
CONSTANTS
    Conns = {c1, c2}
    Users = {u1, u2}
    Empty = Empty
    Garbled = Garbled
    MaxCrashes = 0
    MaxFailures = 0
    Requests <- ConnectForm
INVARIANT
    SubmittedByOneClient
