SPECIFICATION Spec
CONSTANTS
    r1 = r1
    r2 = r2
    Reqs = {r1, r2}
    Monitor = Monitor
    Closer = Closer
    Conns = {c1}
    Kinds = {"begin", "commit", "rollback", "write"}
    Role <- RolesRWRW
    Owner <- OwnEach
    TxIdleTimeout = 1
    MaxOps <- Ops31
    Cancellable = {r1}
    None = None
INVARIANTS
    TypeOK
    Atomicity
    ConnectionInStep
    CountersBalance
    ClosedClean
    LocksReturned
PROPERTIES
    IdleRollbackDue
    ImplementsTxStore
