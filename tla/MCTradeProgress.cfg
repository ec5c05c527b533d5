SPECIFICATION LiveSpec
CONSTANTS
    u1 = u1
    u2 = u2
    User = {u1, u2}
    t1 = t1
    t2 = t2
    Trade = {t1, t2}
    Run = {r1}
    None = None
    Owner <- MCOwner
    Rank <- MCRank
    OpenHours <- MCOpenHours
    Outcome <- MCOutcome
    Early <- MCEarly
    FirstHour = 2
    MaxHour = 3
    MaxFaults = 1
PROPERTIES
    RunsEnd
    CatchesUp
    OrdersClose
    StatesAreRecorded
CHECK_DEADLOCK FALSE
