SPECIFICATION LiveSpec

CONSTANTS
    s1 = s1
    s2 = s2
    s3 = s3
    noName = noName
    Ssids <- McSsids
    NoName = noName
    Signals = {1, 2}
    WIFI_SCAN_MAX = 3
    EntrySize <- McEntrySize
    HtmlRoom = 3
    RescanAfter = 2
    ClockSize = 6
    MaxTurn = 2
    MobileInterval = 2
    StationaryInterval = 4
    LOG_LINES = 3
    LOG_LINE_LEN = 4
    LogsBuf = 13
    MaxOwed = 5
    Forms <- McForms
    FirstRegs <- McFirstRegs
    Cuts <- McCuts
    RawTemps <- McRawTemps

INVARIANTS
    PartsTypeOK
    ListFaithful
    OverdueOnlyAfterWrap
    AnswerIsOwn
    ClockTrue
    TemperatureShown
    ShownIsVisible
    CopyExact
    AllShown

PROPERTIES
    RescansPaced
    RescansGoOn
    PacedUnlessWrapped
    ImplementsRecentLines
