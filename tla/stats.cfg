SPECIFICATION FairSpec
CONSTANTS
    Incs = {p, q}
    Retention = 1
    MaxMinute = 2
    MaxIncs = 1
    None = None
INVARIANTS
    NothingLost
    LoadedInBounds
PROPERTIES
    OldMinutesGo
