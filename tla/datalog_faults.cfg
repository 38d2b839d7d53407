SPECIFICATION LiveSpec
CONSTANTS
    SectorSize = 4
    Sectors = 2
    FlushEvery = 2
    LineMax = 4
    Bytes <- MCBytes
    NL = "nl"
    Zero = "0"
    CsvHeader <- MCCsvHeader
    Lines <- MCOneLine
    Counts <- MCNoCount
    MaxLines = 3
    BlankCard = TRUE
    MayFail = {"write"}
INVARIANTS
    TypeOK
    DurablePrefix
PROPERTY
    CallsReturn
