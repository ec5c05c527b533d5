SPECIFICATION Spec
CONSTANTS
    s1 = s1
    s2 = s2
    Symbol = {s1, s2}
    Query = {q1, q2}
    TradableSets <- OneOrBoth
    MarketChoices <- SomeMarkets
    HourLength = 2
    AlpacaLatency = 1
    Margin = 1
    FirstHour = 0
    FirstNow = 8
    MaxNow = 9
    DayHours = 2
    MaxDays = 2
    MaxLength = 2
    MaxAside = 1
    None = None
    Error = Error
INVARIANTS
    TypeOK
    CacheIsFinal
PROPERTIES
    KeepsPromise
CHECK_DEADLOCK FALSE
