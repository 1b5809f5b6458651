SPECIFICATION Spec
CONSTANTS
    Environments <- SomeEnvironments
    FlagSets <- SomeFlags
    Statements <- SomeStatements
    MaxInflight = 2
    MaxLeaks = 1
INVARIANTS
    ReplicaIsOurs
    OrderlyShutdown
    
    RolesAreConfined
PROPERTY ProcessEnds
