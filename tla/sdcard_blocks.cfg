SPECIFICATION LiveSpec
CONSTANTS
    Sectors = 3
    BlockSize = 2
    AddressSpace = 8
    Data = {1, 2}
    MaxBlock = 3
    MaxTries = 1
INVARIANTS
    TypeOK
    OnlyOcrMisleads
PROPERTIES
    ImplementsBlockStore
    CallsReturn
