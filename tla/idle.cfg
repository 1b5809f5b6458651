SPECIFICATION Spec
CONSTANTS
    Timeout = 4
    MaxHold = 6
INVARIANTS
    TypeOK
    IdleBounded
PROPERTY NotTooSoon
