SPECIFICATION Spec
CONSTANTS
    k1 = k1 k2 = k2 p1 = p1 p2 = p2 w1 = w1 w2 = w2
    run = run once = once trade = trade
    Row <- MCRow
    FirstVersions <- MCFirstVersions
    Key = {k1, k2}
    Predefined = k1
    Configurations <- Never
    Request = {}
    Pair = {p1, p2}
    Thread = {w1, w2}
    Torn = Torn
    Periodic = run
    Triggered = {once}
    None = None
INVARIANTS TypeOK ServesLatestSchema TokensAreAccepted
PROPERTIES NoTradeLost NothingStartsAfterStop KeepsRunning StopEnds
CHECK_DEADLOCK FALSE
