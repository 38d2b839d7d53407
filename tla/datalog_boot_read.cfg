SPECIFICATION Spec
CONSTANTS
    SectorSize = 4
    Sectors = 3
    FlushEvery = 2
    LineMax = 4
    Bytes <- MCBytes
    NL = "nl"
    Zero = "0"
    CsvHeader <- MCCsvHeader
    Lines <- MCLines
    Counts <- MCCounts
    MaxLines = 3
    BlankCard = FALSE
    MayFail = {"read"}
PROPERTY
    Resumes
