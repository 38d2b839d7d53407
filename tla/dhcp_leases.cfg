SPECIFICATION Spec
CONSTANTS
    Clients = {c1, c2}
    Nobody = Nobody
    MaxIp = 2
    Ticks = 32
    Unit = 4
    LeaseTime = 6
SYMMETRY Symmetry
INVARIANTS
    TypeOK
    HolderKnown
