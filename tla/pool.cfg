SPECIFICATION Spec
CONSTANTS
    r1 = r1
    r2 = r2
    Reqs = {r1, r2}
    Monitor = Monitor
    Closer = Closer
    Conns = {c1}
    Kinds = {"begin", "create", "use", "read", "commit", "rawEnd"}
    Role <- RolesRWRO
    Owner <- OwnEach
    TxIdleTimeout = 1
    MaxOps <- Ops31
    Cancellable = {}
    None = None
INVARIANTS
    
    UnlockOwnLock
    ValidationHolds
    
    RoleInForce
    ReadOnlyNeverWrites
