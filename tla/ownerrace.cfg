SPECIFICATION Spec
CONSTANTS
    r1 = r1
    r2 = r2
    Reqs = {r1, r2}
    Monitor = Monitor
    Closer = Closer
    Conns = {c1}
    Kinds = {"begin", "commit"}
    Role <- RolesRWRW
    Owner <- OwnEach
    TxIdleTimeout = 1
    MaxOps <- Ops21
    Cancellable = {}
    None = None
INVARIANT OwnTransactionAccepted
