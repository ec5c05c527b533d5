SPECIFICATION Spec
CONSTANTS
    User = {u1, u2}
    Trade = {t1, t2}
    Request = {q1, q2}
    None = None
    DayLength = 2
    MaxNow = 2
INVARIANTS
    TypeOK
    AnswerIsTrue
    CancelledByOne
    NoSilentCancel
    OneBatchADayInTurn
PROPERTIES
    RecordedDayMovesOn
SYMMETRY Symmetry
CHECK_DEADLOCK FALSE
