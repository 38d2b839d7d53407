SPECIFICATION LiveSpec
CONSTANT
    Pauses = {"before", "inside"}
INVARIANTS
    TypeOK
    
PROPERTY
    ReadingEnds
