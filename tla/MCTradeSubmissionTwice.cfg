SPECIFICATION Spec
CONSTANTS
    User = {u1, u2}
    Trade = {t1, t2, t3}
    Request = {q1, q2, q3}
    None = None
    DayLength = 2
    MaxNow = 2
SYMMETRY Symmetry
CHECK_DEADLOCK FALSE
INVARIANT OnePerDayBatch
