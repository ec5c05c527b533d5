SPECIFICATION Spec
CONSTANTS
    u1 = u1
    t1 = t1
    t2 = t2
    User = {u1}
    Trade = {t1, t2}
    Run = {r1}
    None = None
    Owner <- MCOwner
    Rank <- MCRank
    OpenHours <- SerialOpenHours
    Outcome <- SerialOutcome
    FirstHour = 0
    MaxHour = 4
INVARIANT NewPortfolioMissesNoHour
