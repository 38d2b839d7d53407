SPECIFICATION LiveSpec
CONSTANTS
    Conns = {c1}
    Users = {u1, u2}
    Empty = Empty
    Garbled = Garbled
    MaxCrashes = 1
    MaxFailures = 1
    Requests <- FormsAndButtons
INVARIANTS
    TypeOK
    JoinsOnlyKnown
    FreshCredentials
    ServersMatch
PROPERTY
    EventuallyUsable
