SPECIFICATION Spec
CONSTANTS
    Key = {k1, k2, k3}
    Predefined = k1
    Configurations <- Either
    Request = {r1, r2}
    None = None
INVARIANTS
    TypeOK
    KeyRemains
    KeyIsHeld
    StartsOnWhatWasLeft
PROPERTIES
    DeactivationStands
CHECK_DEADLOCK FALSE
