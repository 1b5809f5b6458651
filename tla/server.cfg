SPECIFICATION Spec
CONSTANTS
    a = a
    w = w
    o = o
    u = u
    r1 = r1
    r2 = r2
    Requests = {r1, r2}
    Secrets = {a, w, o, u}
    AuthTokens <- ThreeTokens
    Routes = {"rpc", "query", "execute", "status", "session", "health"}
    Scripts <- ClientScripts
    MaxScript = 2
    Cancellable = {r1, r2}
    None = None
INVARIANTS
    TransactionAllOrNothing
    OpenOnlyAfterFailedEnd
    OwnTransactionOnly
    ReadersNeverWrite
    GaugeMatches
SYMMETRY RequestSymmetry
