SPECIFICATION Spec
CONSTANTS
    u1 = u1
    t1 = t1
    t2 = t2
    User = {u1}
    Trade = {t1}
    Run = {r1, r2}
    None = None
    Owner <- MCOwner
    Rank <- MCRank
    OpenHours <- OverlapOpenHours
    Outcome <- OverlapOutcome
    FirstHour = 0
    MaxHour = 3
INVARIANT NothingLeftHalfDone
SYMMETRY RunSymmetry
