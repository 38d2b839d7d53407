SPECIFICATION Spec
CONSTANTS
    SectorSize = 4
    Sectors = 6
    FlushEvery = 3
    LineMax = 3
    Bytes <- MCBytes
    NL = "nl"
    Zero = "0"
    CsvHeader <- MCCsvHeader
    Lines <- MCLines
    Counts <- MCCounts
    MaxLines = 6
    BlankCard = FALSE
    MayFail = {}
INVARIANTS
    Mirror
    LineCountExact
    DownloadExact
PROPERTY
    ImplementsCsvLog
