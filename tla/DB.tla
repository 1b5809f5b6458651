-------------------------------- MODULE DB ---------------------------------
(***************************************************************************)
(* The transaction manager of NSQLite: internal/db/db.go, over one         *)
(* read-write SQLite connection and a pool of read-only ones.              *)
(*                                                                         *)
(* A request goroutine p runs db.Query; the goroutine Monitor runs         *)
(* txIdleMonitor; the goroutine Closer runs the shutdown of main.go        *)
(* (Server.Stop, then DB.Close).  Each process advances from one shared    *)
(* access that another process can observe to the next; pc[p] names the    *)
(* place in the code where it is.                                          *)
(*                                                                         *)
(* The n-th request of p has the token <<p, n>>.  It stands for the row    *)
(* that the request writes, and for the UUID of the transaction that it    *)
(* begins: uuid.NewString() never returns the same value twice.            *)
(***************************************************************************)
EXTENDS Integers, FiniteSets, Authorizer

CONSTANTS
    Reqs,          \* request goroutines (one HTTP request at a time each)
    Monitor,       \* the idle monitor goroutine
    Closer,        \* the main goroutine, once it shuts the server down
    Conns,         \* connections of the read-only pool (MaxReadConns of them)
    Kinds,         \* the statements the clients send, a subset of AllKinds
    Role,          \* Role[p]: authorizer role of the requests of p
    Owner,         \* Owner[p]: principal of the requests of p, None without auth
    TxIdleTimeout, \* in ticks of Clock
    MaxOps,        \* bound: MaxOps[p] requests of p
    Cancellable,   \* bound: goroutines whose client may disconnect
    None           \* the empty string of txID and txOwner, and "no holder"

Procs == Reqs \cup {Monitor, Closer}
Tokens == Reqs \X Nat

\* Statements, told apart by the way the manager and SQLite treat them:
\*   begin, commit, rollback   recognised by their first word
\*   read, write               SELECT and INSERT/UPDATE/DELETE
\*   create                    a write that creates the table T
\*   use                       a write to T: it cannot be prepared without T
\*   failRollback              a write that fails in a way that makes SQLite
\*                             roll the open transaction back (OR ROLLBACK,
\*                             RAISE(ROLLBACK), disk full, I/O error)
\*   rawBegin, rawEnd          BEGIN and END/COMMIT not recognised by their
\*                             first word (a leading comment, or plain END)
ControlKinds == {"begin", "commit", "rollback"}
WriteKinds == {"write", "create", "use", "failRollback"}
AllKinds == ControlKinds \cup WriteKinds \cup {"read", "rawBegin", "rawEnd"}

\* Statements after which SQLite is still in the transaction it was in.
CleanKinds == ControlKinds \cup {"read", "write", "create", "use"}

Counters == {"begins", "commits", "rollbacks", "reads", "writes", "errors",
             "queuedBegins", "queuedWrites"}

ASSUME ConstantsAssumption ==
    /\ Monitor \notin Reqs /\ Closer \notin Reqs /\ Monitor # Closer
    /\ None \notin Procs /\ None \notin Tokens
    /\ Kinds \subseteq AllKinds
    /\ Role \in [Reqs -> Roles]
    /\ TxIdleTimeout \in Nat \ {0}
    /\ MaxOps \in [Reqs -> Nat]
    /\ Cancellable \subseteq Reqs

VARIABLES
    \* locals of the goroutines
    pc,          \* [Procs -> Labels]
    kind,        \* [Reqs -> AllKinds], Query.Query
    tx,          \* [Procs -> Tokens or None], Query.TxID and the loaded txID
    ops,         \* [Reqs -> Nat], requests started so far
    ctxDone,     \* SUBSET Reqs, requests whose context is cancelled
    deferUnlock, \* SUBSET Reqs, a deferred txMu.Unlock is still to run
    \* fields of DB
    txID, txOwner,
    usedAge,     \* time.Since(txLastUsed), saturating
    txMu,        \* token of the request that locked it, or None
    txOpMu, writeMu,
    \* the read-write connection and the database file
    rwTx,        \* token of the BEGIN of the open SQLite transaction, or None
    pending,     \* rows written by that transaction
    rwRole,      \* role in its authorizer context
    file,        \* committed rows
    \* the read-only pool
    roUser,      \* [Conns -> Reqs or None]
    roRole,      \* [Conns -> Roles]
    roMode,      \* [Conns -> {"auto", "begun", "pinned"}]
    roSnap,      \* [Conns -> SUBSET Tokens], snapshot of a pinned connection
    stats,       \* counters of DBStats
    \* history, read by no action
    known,       \* transaction ids that BEGIN returned to a client
    idleAge,     \* time since the open transaction was last active
    wrote,       \* <<row, txID>> of the successful writes sent with a txID
    committed    \* transactions that executeCommitQuery committed

procVars == <<pc, kind, tx, ops, ctxDone, deferUnlock>>
mgrVars == <<txID, txOwner, usedAge, txMu, txOpMu, writeMu>>
rwVars == <<rwTx, pending, rwRole, file>>
roVars == <<roUser, roRole, roMode, roSnap>>
histVars == <<known, idleAge, wrote, committed>>
vars == <<procVars, mgrVars, rwVars, roVars, stats, histVars>>
-----------------------------------------------------------------------------
Token(p) == <<p, ops[p]>>

\* The table T of "create" and "use", as a row of the schema table.
Table == <<None, 0>>
Rows == Tokens \cup {Table}
RowsOf(p) == IF kind[p] = "create" THEN {Table, Token(p)} ELSE {Token(p)}

\* What the authorizer is asked while a statement of this kind is prepared.
ActionsOf(k) ==
    IF k = "read" THEN {<<"select", "any">>, <<"read", "any">>}
    ELSE IF k = "create" THEN {<<"insert", "internal">>, <<"createTable", "any">>}
    ELSE IF k \in WriteKinds THEN {<<"insert", "user">>}
    ELSE {<<"transaction", "any">>}

\* sqlite3_prepare_v2 under a role, on a connection that sees these rows.
Prepares(role, k, rows) ==
    Permits(role, ActionsOf(k)) /\ (k = "use" => Table \in rows)

\* ClassifyQuery: control statements by their first word, the others by
\* sqlite3_stmt_readonly, which holds of BEGIN and of COMMIT.
QueryType(k) ==
    IF k \in ControlKinds THEN k ELSE IF k \in WriteKinds THEN "write" ELSE "read"

\* The monitor and Close only ever call executeRollbackQuery.
TypeOf(p) == IF p \in Reqs THEN QueryType(kind[p]) ELSE "rollback"

\* Mutant: the role of the request is not passed on.
RoleIgnored(p) == "admin"

RoleOf(p) == IF p \in Reqs THEN Role[p] ELSE "admin"

Older(age) == IF age > TxIdleTimeout THEN age ELSE age + 1
RoView(c) == IF roMode[c] = "pinned" THEN roSnap[c] ELSE file

Inc(st, counter) == [st EXCEPT ![counter] = @ + 1]
Dec(st, counter) == [st EXCEPT ![counter] = @ - 1]

\* Mutant: only the write queue is decremented.
DequeuedWrites(p) ==
    IF TypeOf(p) = "write" THEN Dec(stats, "queuedWrites") ELSE stats

\* The deferred DecQueuedBegins and DecQueuedWrites.
Dequeued(p) ==
    IF TypeOf(p) = "begin" THEN Dec(stats, "queuedBegins")
    ELSE IF TypeOf(p) = "write" THEN Dec(stats, "queuedWrites")
    ELSE stats

-----------------------------------------------------------------------------
\* Mutant: everybody goes back to the idle request.
AfterIdle(p) == "idle"

\* Where a process goes when the call it makes on the manager returns.
After(p) ==
    IF p = Monitor THEN "wait" ELSE IF p = Closer THEN "closePools" ELSE "idle"

\* Mutant: the use of a transaction is not recorded.
TouchForgotten(really) ==
    UNCHANGED usedAge /\ idleAge' = IF really THEN 0 ELSE idleAge

\* txLastUsed.Store(time.Now()), or not.
Touch(really) ==
    /\ usedAge' = IF really THEN 0 ELSE usedAge
    /\ idleAge' = IF really THEN 0 ELSE idleAge

\* The call goes on at label.
Continue(p, label, touch, st) ==
    /\ pc' = [pc EXCEPT ![p] = label]
    /\ stats' = st
    /\ Touch(touch)
    /\ UNCHANGED <<kind, tx, ctxDone, deferUnlock, txMu, txOpMu>>

\* The locals of a call that has returned.
Forget(p) ==
    /\ pc' = [pc EXCEPT ![p] = After(p)]
    /\ kind' = IF p \in Reqs THEN [kind EXCEPT ![p] = "read"] ELSE kind
    /\ tx' = [tx EXCEPT ![p] = None]
    /\ ctxDone' = ctxDone \ {p}
    /\ deferUnlock' = deferUnlock \ {p}

\* Mutant: txMu is not unlocked.
ReturnKeepsTxMu(p, ok, touch, st) ==
    /\ Forget(p)
    /\ stats' = IF ok \/ p \notin Reqs THEN st ELSE Inc(st, "errors")
    /\ Touch(touch)
    /\ UNCHANGED txMu
    /\ txOpMu' = IF txOpMu = p THEN None ELSE txOpMu

\* The call returns: the deferred txLastUsed.Store of a validated txID, the
\* deferred unlocks, and IncErrors in Query if there is an error.
Return(p, ok, touch, st) ==
    /\ Forget(p)
    /\ stats' = IF ok \/ p \notin Reqs THEN st ELSE Inc(st, "errors")
    /\ Touch(touch)
    /\ txMu' = IF p \in deferUnlock THEN None ELSE txMu
    /\ txOpMu' = IF txOpMu = p THEN None ELSE txOpMu

\* A request with a txID has been validated once it is past "validate".
Validated(p) == p \in Reqs /\ tx[p] # None

\* executeClassifiedQuery, up to the first lock or connection it waits for.
Execute(p, touch) ==
    \/ TypeOf(p) = "begin" /\ Return(p, FALSE, TRUE, stats)
    \/ /\ TypeOf(p) \in {"commit", "rollback"}
       /\ Continue(p, "rwLock", touch, stats)
    \/ /\ TypeOf(p) = "read"
       /\ Continue(p, IF tx[p] = None THEN "roLock" ELSE "rwLock", touch, stats)
    \/ /\ TypeOf(p) = "write"
       /\ Continue(p, "rwLock", touch, Inc(stats, "queuedWrites"))

-----------------------------------------------------------------------------
Init ==
    /\ pc = [p \in Procs |->
                IF p = Monitor THEN "wait" ELSE IF p = Closer THEN "run" ELSE "idle"]
    /\ kind = [p \in Reqs |-> "read"]
    /\ tx = [p \in Procs |-> None]
    /\ ops = [p \in Reqs |-> 0]
    /\ ctxDone = {} /\ deferUnlock = {}
    /\ txID = None /\ txOwner = None /\ usedAge = 0
    /\ txMu = None /\ txOpMu = None /\ writeMu = None
    /\ rwTx = None /\ pending = {} /\ rwRole = "admin" /\ file = {}
    /\ roUser = [c \in Conns |-> None]
    /\ roRole = [c \in Conns |-> "admin"]
    /\ roMode = [c \in Conns |-> "auto"]
    /\ roSnap = [c \in Conns |-> {}]
    /\ stats = [c \in Counters |-> 0]
    /\ known = {} /\ idleAge = 0 /\ wrote = {} /\ committed = {}

\* A client sends a statement: query, up to its first shared access.
Start(p, k, t, label) ==
    /\ pc[p] = "idle" /\ pc[Closer] = "run" /\ ops[p] < MaxOps[p]
    /\ ops' = [ops EXCEPT ![p] = @ + 1]
    /\ kind' = [kind EXCEPT ![p] = k]
    /\ tx' = [tx EXCEPT ![p] = t]
    /\ pc' = [pc EXCEPT ![p] = label]
    /\ UNCHANGED <<ctxDone, deferUnlock, mgrVars, rwVars, roVars, histVars>>

\* With a txID that a BEGIN returned to some client.
SubmitInTx(p, k, t) == Start(p, k, t, "opLock") /\ UNCHANGED stats

\* Without a txID: a statement to classify, a BEGIN (executeBeginQuery up to
\* its lock), or a COMMIT or ROLLBACK, refused at once with ErrTxIdRequired.
SubmitPlain(p, k) ==
    /\ k \notin ControlKinds
    /\ Start(p, k, None, "clsRO") /\ UNCHANGED stats

SubmitBegin(p) ==
    /\ Start(p, "begin", None, "txLock")
    /\ stats' = Inc(stats, "queuedBegins")

SubmitWithoutTx(p, k) ==
    /\ k \in {"commit", "rollback"}
    /\ Start(p, "read", None, "idle")
    /\ stats' = Inc(stats, "errors")

\* The client goes away: net/http cancels the context of the request.
Cancel(p) ==
    /\ p \in Cancellable \ ctxDone /\ pc[p] # "idle"
    /\ ctxDone' = ctxDone \cup {p}
    /\ UNCHANGED <<pc, kind, tx, ops, deferUnlock, mgrVars, rwVars, roVars,
                   stats, histVars>>

\* Time passes.
Clock ==
    /\ usedAge' = Older(usedAge) /\ idleAge' = Older(idleAge)
    /\ <<usedAge, idleAge>>' # <<usedAge, idleAge>>
    /\ UNCHANGED <<procVars, txID, txOwner, txMu, txOpMu, writeMu, rwVars, roVars,
                   stats, known, wrote, committed>>
-----------------------------------------------------------------------------
\* Requests that carry a txID, the monitor and Close: under txOpMu.

\* Mutant: there is no txOpMu.
OpLockFree(p) ==
    /\ pc[p] = "opLock"
    /\ pc' = [pc EXCEPT ![p] = IF p \in Reqs THEN "validate" ELSE "check"]
    /\ UNCHANGED <<kind, tx, ops, ctxDone, deferUnlock, mgrVars, rwVars, roVars,
                   stats, histVars>>

\* txOpMu.Lock
OpLock(p) ==
    /\ pc[p] = "opLock" /\ txOpMu = None
    /\ txOpMu' = p
    /\ pc' = [pc EXCEPT ![p] = IF p \in Reqs THEN "validate" ELSE "check"]
    /\ UNCHANGED <<kind, tx, ops, ctxDone, deferUnlock, txID, txOwner, usedAge,
                   txMu, writeMu, rwVars, roVars, stats, histVars>>

\* Mutant: any open transaction will do.
IsValidAny(p) == txID # None /\ (Owner[p] # None => Owner[p] = txOwner)

\* validateTxID: the txID of the request is the open transaction, and its
\* principal, if there is one, began it.
IsValid(p) ==
    /\ txID # None /\ tx[p] = txID
    /\ Owner[p] # None => Owner[p] = txOwner

\* queryWithType, up to the classification of a statement to prepare.
Validate(p) ==
    /\ pc[p] = "validate"
    /\ \/ ~IsValid(p) /\ Return(p, FALSE, FALSE, stats)
       \/ IsValid(p) /\ kind[p] \in ControlKinds /\ Execute(p, TRUE)
       \/ IsValid(p) /\ kind[p] \notin ControlKinds /\ Continue(p, "clsRW", TRUE, stats)
    /\ UNCHANGED <<ops, txID, txOwner, writeMu, rwVars, roVars,
                   known, wrote, committed>>

\* classifyQueryOnReadWriteConn: the statement is prepared under the admin
\* role, which stays on the connection.  writeMu is held throughout.
ClassifyRW(p) ==
    /\ pc[p] = "clsRW" /\ writeMu = None
    /\ IF p \in ctxDone
       THEN Return(p, FALSE, TRUE, stats) /\ UNCHANGED rwRole
       ELSE /\ rwRole' = "admin"
            /\ IF Prepares("admin", kind[p], file \cup pending)
               THEN Execute(p, FALSE)
               ELSE Return(p, FALSE, TRUE, stats)
    /\ UNCHANGED <<ops, txID, txOwner, writeMu, rwTx, pending, file, roVars,
                   known, wrote, committed>>

-----------------------------------------------------------------------------
\* Requests without a txID.

\* The first failure is not the last word, the second is.
ClassifyFailed(p) ==
    IF pc[p] = "clsRO" THEN Continue(p, "checkTx", FALSE, stats)
                       ELSE Return(p, FALSE, FALSE, stats)

\* classifyQueryOnReadOnlyConn on some free connection, for the first time or
\* (fbCls) again under txMu.
ClassifyRO(p) ==
    /\ pc[p] \in {"clsRO", "fbCls"}
    /\ \/ p \in ctxDone /\ ClassifyFailed(p) /\ UNCHANGED roRole
       \/ /\ p \notin ctxDone
          /\ \E c \in Conns :
               /\ roUser[c] = None
               /\ roRole' = [roRole EXCEPT ![c] = "admin"]
               /\ IF Prepares("admin", kind[p], RoView(c))
                  THEN IF pc[p] = "clsRO" /\ TypeOf(p) = "write"
                       THEN Continue(p, "txLock", FALSE, stats)
                       ELSE Execute(p, FALSE)
                  ELSE ClassifyFailed(p)
    /\ UNCHANGED <<ops, txID, txOwner, writeMu, rwVars,
                   roUser, roMode, roSnap, known, wrote, committed>>

\* The statement could not be prepared: what it needs may be in the
\* uncommitted part of the open transaction, if there is one.
CheckTx(p) ==
    /\ pc[p] = "checkTx"
    /\ IF txID # None THEN Continue(p, "fbLock", FALSE, stats)
                      ELSE Return(p, FALSE, FALSE, stats)
    /\ UNCHANGED <<ops, txID, txOwner, writeMu, rwVars, roVars,
                   known, wrote, committed>>

\* Mutant: BEGIN and plain writes do not wait for the open transaction.
LockTxNoWait(p) ==
    /\ pc[p] \in {"txLock", "fbLock"}
    /\ txMu' = Token(p)
    /\ deferUnlock' = deferUnlock \cup {p}
    /\ pc' = [pc EXCEPT ![p] = IF pc[p] = "fbLock" THEN "fbCls" ELSE "rwLock"]
    /\ stats' = IF pc[p] = "txLock" /\ TypeOf(p) = "write"
                THEN Inc(stats, "queuedWrites") ELSE stats
    /\ UNCHANGED <<kind, tx, ops, ctxDone, txID, txOwner, usedAge, txOpMu, writeMu,
                   rwVars, roVars, histVars>>

\* txMu.Lock by BEGIN, by a plain write, or before the second classification,
\* with its deferred unlock.
LockTx(p) ==
    /\ pc[p] \in {"txLock", "fbLock"} /\ txMu = None
    /\ txMu' = Token(p)
    /\ deferUnlock' = deferUnlock \cup {p}
    /\ pc' = [pc EXCEPT ![p] = IF pc[p] = "fbLock" THEN "fbCls" ELSE "rwLock"]
    /\ stats' = IF pc[p] = "txLock" /\ TypeOf(p) = "write"
                THEN Inc(stats, "queuedWrites") ELSE stats
    /\ UNCHANGED <<kind, tx, ops, ctxDone, txID, txOwner, usedAge, txOpMu, writeMu,
                   rwVars, roVars, histVars>>

\* executeReadQuery without a txID: take a connection of the pool ...
RoLock(p) ==
    /\ pc[p] = "roLock"
    /\ IF p \in ctxDone
       THEN Return(p, FALSE, FALSE, stats) /\ UNCHANGED <<roUser, roRole>>
       ELSE \E c \in Conns :
              /\ roUser[c] = None
              /\ roUser' = [roUser EXCEPT ![c] = p]
              /\ roRole' = [roRole EXCEPT ![c] = Role[p]]
              /\ Continue(p, "roExec", FALSE, stats)
    /\ UNCHANGED <<ops, txID, txOwner, writeMu, rwVars, roMode, roSnap,
                   known, wrote, committed>>

\* Whether SQLite accepts the statement on a connection in this mode.
RoAccepts(k, mode) ==
    (k = "rawBegin" => mode = "auto") /\ (k = "rawEnd" => mode # "auto")

\* The mode a statement leaves the connection in.  The first read after a BEGIN
\* fixes the snapshot; a read outside a transaction ends with its statement.
RoModeAfter(k, mode) ==
    IF k = "rawBegin" THEN "begun"
    ELSE IF k = "rawEnd" THEN "auto"
    ELSE IF k = "read" /\ mode = "begun" THEN "pinned"
    ELSE mode

\* ... run the statement and give the connection back, in whatever transaction
\* the statement left it: ResetSession does nothing.
RoExec(p) ==
    /\ pc[p] = "roExec"
    /\ \E c \in Conns :
         /\ roUser[c] = p
         /\ roUser' = [roUser EXCEPT ![c] = None]
         /\ LET ok == /\ Prepares(roRole[c], kind[p], RoView(c))
                      /\ RoAccepts(kind[p], roMode[c])
            IN  /\ Return(p, ok, FALSE, IF ok THEN Inc(stats, "reads") ELSE stats)
                /\ roMode' = [roMode EXCEPT ![c] = IF ok THEN RoModeAfter(kind[p], @) ELSE @]
                /\ roSnap' = [roSnap EXCEPT ![c] =
                      IF roMode'[c] = "pinned" THEN RoView(c) ELSE {}]
    /\ UNCHANGED <<ops, txID, txOwner, writeMu, rwVars, roRole,
                   known, wrote, committed>>
-----------------------------------------------------------------------------
\* withReadWriteConn: statements on the read-write connection, under writeMu.

\* Mutant: the role that the last classification left is not replaced.
RwLockKeepsRole(p) ==
    /\ pc[p] = "rwLock" /\ writeMu = None
    /\ IF p \in ctxDone
       THEN Return(p, FALSE, Validated(p), Dequeued(p)) /\ UNCHANGED writeMu
       ELSE writeMu' = p /\ Continue(p, "rwExec", FALSE, stats)
    /\ UNCHANGED <<ops, txID, txOwner, rwVars, roVars, known, wrote, committed>>

\* writeMu.Lock, the connection from the pool, SetAuthorizerRole.
RwLock(p) ==
    /\ pc[p] = "rwLock" /\ writeMu = None
    /\ IF p \in ctxDone
       THEN Return(p, FALSE, Validated(p), Dequeued(p)) /\ UNCHANGED <<writeMu, rwRole>>
       ELSE /\ writeMu' = p
            /\ rwRole' = RoleOf(p)
            /\ Continue(p, "rwExec", FALSE, stats)
    /\ UNCHANGED <<ops, txID, txOwner, rwTx, pending, file, roVars,
                   known, wrote, committed>>

\* What ends the SQLite transaction.
CommitRows == file' = file \cup pending /\ pending' = {} /\ rwTx' = None

DropRows == file' = file /\ pending' = {} /\ rwTx' = None

\* conn.Query("BEGIN TRANSACTION"), then writeMu.Unlock.
ExecBegin(p) ==
    /\ pc[p] = "rwExec" /\ TypeOf(p) = "begin"
    /\ writeMu' = None
    /\ IF Prepares(rwRole, "begin", file) /\ rwTx = None
       THEN /\ rwTx' = Token(p) /\ pending' = {} /\ idleAge' = 0
            /\ pc' = [pc EXCEPT ![p] = "pubID"]
            /\ UNCHANGED <<kind, tx, ctxDone, deferUnlock, txMu, txOpMu, usedAge, stats>>
       ELSE Return(p, FALSE, FALSE, Dequeued(p)) /\ UNCHANGED <<rwTx, pending>>
    /\ UNCHANGED <<ops, txID, txOwner, rwRole, file, roVars,
                   known, wrote, committed>>

\* conn.Query("COMMIT"): it can fail with the transaction still open (a
\* deferred constraint), and it does fail when there is none.
ExecCommit(p) ==
    /\ pc[p] = "rwExec" /\ TypeOf(p) = "commit"
    /\ writeMu' = None
    /\ \/ /\ Prepares(rwRole, "commit", file) /\ rwTx # None
          /\ CommitRows
          /\ committed' = committed \cup {tx[p]}
          /\ Continue(p, "clear", FALSE, stats)
       \/ /\ Return(p, FALSE, TRUE, stats)
          /\ UNCHANGED <<rwTx, pending, file, committed>>
    /\ UNCHANGED <<ops, txID, txOwner, rwRole, roVars, known, wrote>>

\* conn.Query("ROLLBACK"): it fails only when there is no transaction.
ExecRollback(p) ==
    /\ pc[p] = "rwExec" /\ TypeOf(p) = "rollback"
    /\ writeMu' = None
    /\ IF Prepares(rwRole, "rollback", file) /\ rwTx # None
       THEN DropRows /\ Continue(p, "clear", FALSE, stats)
       ELSE /\ Return(p, FALSE, Validated(p), stats)
            /\ UNCHANGED <<rwTx, pending, file>>
    /\ UNCHANGED <<ops, txID, txOwner, rwRole, roVars,
                   known, wrote, committed>>

\* executeReadQuery with a txID.
ExecRead(p) ==
    /\ pc[p] = "rwExec" /\ TypeOf(p) = "read"
    /\ writeMu' = None
    /\ LET ok == /\ Prepares(rwRole, kind[p], file \cup pending)
                 /\ kind[p] = "rawBegin" => rwTx = None
                 /\ kind[p] = "rawEnd" => rwTx # None
       IN  /\ Return(p, ok, TRUE, IF ok THEN Inc(stats, "reads") ELSE stats)
           /\ IF ok /\ kind[p] = "rawEnd" THEN CommitRows
              ELSE IF ok /\ kind[p] = "rawBegin"
              THEN rwTx' = Token(p) /\ pending' = {} /\ UNCHANGED file
              ELSE UNCHANGED <<rwTx, pending, file>>
    /\ UNCHANGED <<ops, txID, txOwner, rwRole, roVars,
                   known, wrote, committed>>

\* executeWriteQuery: the row joins the open SQLite transaction or, without
\* one, is committed by itself.  A write may fail and leave no effect.
ExecWrite(p) ==
    /\ pc[p] = "rwExec" /\ TypeOf(p) = "write"
    /\ writeMu' = None
    /\ \/ /\ Prepares(rwRole, kind[p], file \cup pending)
          /\ kind[p] # "failRollback"
          /\ IF rwTx = None
             THEN file' = file \cup RowsOf(p) /\ UNCHANGED pending
             ELSE pending' = pending \cup RowsOf(p) /\ UNCHANGED file
          /\ wrote' = IF tx[p] = None THEN wrote ELSE wrote \cup {<<Token(p), tx[p]>>}
          /\ Return(p, TRUE, Validated(p), Inc(Dequeued(p), "writes"))
          /\ UNCHANGED rwTx
       \/ /\ IF Prepares(rwRole, kind[p], file \cup pending) /\ kind[p] = "failRollback"
             THEN DropRows
             ELSE UNCHANGED <<rwTx, pending, file>>
          /\ Return(p, FALSE, Validated(p), Dequeued(p))
          /\ UNCHANGED wrote
    /\ UNCHANGED <<ops, txID, txOwner, rwRole, roVars, known, committed>>

-----------------------------------------------------------------------------
\* The end of executeBeginQuery: three stores that no mutex orders with the
\* monitor.

PublishID(p) ==
    /\ pc[p] = "pubID"
    /\ txID' = Token(p)
    /\ pc' = [pc EXCEPT ![p] = "pubOwner"]
    /\ UNCHANGED <<kind, tx, ops, ctxDone, deferUnlock, txOwner, usedAge, txMu, txOpMu,
                   writeMu, rwVars, roVars, stats, histVars>>

PublishOwner(p) ==
    /\ pc[p] = "pubOwner"
    /\ txOwner' = Owner[p]
    /\ pc' = [pc EXCEPT ![p] = "pubUsed"]
    /\ UNCHANGED <<kind, tx, ops, ctxDone, deferUnlock, txID, usedAge, txMu, txOpMu,
                   writeMu, rwVars, roVars, stats, histVars>>

\* txLastUsed.Store, IncBegins, shouldUnlockTx = false: the lock stays with
\* the transaction, whose id goes to the client.
PublishUsed(p) ==
    /\ pc[p] = "pubUsed"
    /\ usedAge' = 0
    /\ stats' = Inc(Dequeued(p), "begins")
    /\ known' = known \cup {Token(p)}
    /\ Forget(p)
    /\ UNCHANGED <<ops, txID, txOwner, txMu, txOpMu, writeMu, rwVars, roVars,
                   idleAge, wrote, committed>>

\* The end of executeCommitQuery and of executeRollbackQuery.

\* Mutant: the id is not cleared.
ClearNothing(p) ==
    /\ pc[p] = "clear"
    /\ pc' = [pc EXCEPT ![p] = "unlockTx"]
    /\ UNCHANGED <<kind, tx, ops, ctxDone, deferUnlock, mgrVars, rwVars, roVars,
                   stats, histVars>>

\* txID.Store("")
ClearID(p) ==
    /\ pc[p] = "clear"
    /\ txID' = None
    /\ pc' = [pc EXCEPT ![p] = "unlockTx"]
    /\ UNCHANGED <<kind, tx, ops, ctxDone, deferUnlock, txOwner, usedAge, txMu, txOpMu,
                   writeMu, rwVars, roVars, stats, histVars>>

UnlockTx(p) ==
    /\ pc[p] = "unlockTx"
    /\ txOwner' = None /\ usedAge' = 0
    /\ stats' = Inc(stats, IF TypeOf(p) = "commit" THEN "commits" ELSE "rollbacks")
    /\ txMu' = None /\ txOpMu' = None
    /\ Forget(p)
    /\ UNCHANGED <<ops, txID, writeMu, rwVars, roVars,
                   known, idleAge, wrote, committed>>
-----------------------------------------------------------------------------
\* txIdleMonitor and the shutdown.

stopClosed == pc[Closer] \notin {"run", "drain"}

\* The ticker fires.
Tick ==
    /\ pc[Monitor] = "wait"
    /\ pc' = [pc EXCEPT ![Monitor] = "opLock"]
    /\ UNCHANGED <<kind, tx, ops, ctxDone, deferUnlock, mgrVars, rwVars, roVars,
                   stats, histVars>>

MonitorStop ==
    /\ pc[Monitor] = "wait" /\ stopClosed
    /\ pc' = [pc EXCEPT ![Monitor] = "stopped"]
    /\ UNCHANGED <<kind, tx, ops, ctxDone, deferUnlock, mgrVars, rwVars, roVars,
                   stats, histVars>>

\* Mutant: off by one.
IdleMuchTooLong == usedAge > TxIdleTimeout + 1

\* time.Since(txLastUsed) > timeout
IdleTooLong == usedAge > TxIdleTimeout

\* Under txOpMu: is there a transaction to roll back?  The monitor wants it to
\* be idle, Close takes any.
Check(p) ==
    /\ pc[p] = "check"
    /\ IF txID # None /\ (p = Monitor => IdleTooLong)
       THEN /\ tx' = [tx EXCEPT ![p] = txID]
            /\ pc' = [pc EXCEPT ![p] = "rwLock"]
            /\ UNCHANGED <<kind, ctxDone, deferUnlock, usedAge, txMu, txOpMu, stats, idleAge>>
       ELSE Return(p, TRUE, FALSE, stats)
    /\ UNCHANGED <<ops, txID, txOwner, writeMu, rwVars, roVars,
                   known, wrote, committed>>

\* SIGTERM: Server.Stop accepts no more requests and waits for those in flight;
\* then Close closes txIdleMonitorStop and waits for the monitor.
CloserStep(from, to) ==
    /\ pc[Closer] = from
    /\ pc' = [pc EXCEPT ![Closer] = to]
    /\ UNCHANGED <<kind, tx, ops, ctxDone, deferUnlock, mgrVars, rwVars, roVars,
                   stats, histVars>>

Stop == CloserStep("run", "drain")

\* Mutant: Close does not wait for the requests in flight.
DrainedAtOnce == CloserStep("drain", "waitMonitor")

Drained == (\A p \in Reqs : pc[p] = "idle") /\ CloserStep("drain", "waitMonitor")
MonitorGone == pc[Monitor] = "stopped" /\ CloserStep("waitMonitor", "opLock")

\* Closing the pools closes their connections: SQLite rolls back what is open.
ClosePools ==
    /\ pc[Closer] = "closePools"
    /\ pc' = [pc EXCEPT ![Closer] = "closed"]
    /\ DropRows
    /\ roMode' = [c \in Conns |-> "auto"] /\ roSnap' = [c \in Conns |-> {}]
    /\ UNCHANGED <<kind, tx, ops, ctxDone, deferUnlock, mgrVars, rwRole, roUser, roRole,
                   stats, histVars>>

\* The process exits.
Exited == pc[Closer] = "closed" /\ UNCHANGED vars

-----------------------------------------------------------------------------
\* Acquiring a lock or a pooled connection, and the other steps of a process.
Acquire(p) ==
    \/ OpLock(p) \/ RwLock(p)
    \/ p \in Reqs /\ (ClassifyRW(p) \/ ClassifyRO(p) \/ LockTx(p) \/ RoLock(p))

Step(p) ==
    \/ ExecRollback(p) \/ ClearID(p) \/ UnlockTx(p)
    \/ p \in Reqs /\ \/ Validate(p) \/ CheckTx(p) \/ RoExec(p)
                     \/ ExecBegin(p) \/ ExecCommit(p) \/ ExecRead(p) \/ ExecWrite(p)
                     \/ PublishID(p) \/ PublishOwner(p) \/ PublishUsed(p)
    \/ p \in {Monitor, Closer} /\ Check(p)

Shutdown == Drained \/ MonitorStop \/ MonitorGone \/ ClosePools

Next ==
    \/ \E p \in Reqs, k \in Kinds :
          \/ \E t \in known : SubmitInTx(p, k, t)
          \/ SubmitPlain(p, k) \/ SubmitWithoutTx(p, k)
    \/ \E p \in Reqs : ("begin" \in Kinds /\ SubmitBegin(p)) \/ Cancel(p)
    \/ \E p \in Procs : Acquire(p) \/ Step(p)
    \/ Clock \/ Tick \/ Stop \/ Shutdown \/ Exited

Spec == Init /\ [][Next]_vars

\* Goroutines run, time passes and the ticker fires.  sync.Mutex in starvation
\* mode and the request queue of database/sql serve waiters in order, so who
\* waits for a lock or a connection that keeps being released gets it: strong
\* fairness.  So does select, which picks at random among what is ready.  No
\* fairness for the clients nor for SIGTERM (Stop).
Fairness ==
    /\ \A p \in Procs : SF_vars(Acquire(p) \/ Step(p))
    /\ WF_vars(Clock) /\ WF_vars(Tick) /\ SF_vars(Shutdown)

FairSpec == Spec /\ Fairness
-----------------------------------------------------------------------------
ReqLabels == {"idle", "opLock", "validate", "clsRW", "clsRO", "checkTx", "txLock",
              "fbLock", "fbCls", "rwLock", "rwExec", "roLock", "roExec",
              "pubID", "pubOwner", "pubUsed", "clear", "unlockTx"}
RollbackLabels == {"opLock", "check", "rwLock", "rwExec", "clear", "unlockTx"}

\* The type of every variable.
TypeOK ==
    /\ pc \in [Procs -> ReqLabels \cup RollbackLabels
                   \cup {"wait", "stopped", "run", "drain", "waitMonitor",
                         "closePools", "closed"}]
    /\ \A p \in Reqs : pc[p] \in ReqLabels
    /\ pc[Monitor] \in RollbackLabels \cup {"wait", "stopped"}
    /\ pc[Closer] \in RollbackLabels \cup
                      {"run", "drain", "waitMonitor", "closePools", "closed"}
    /\ kind \in [Reqs -> AllKinds]
    /\ tx \in [Procs -> Tokens \cup {None}]
    /\ ops \in [Reqs -> Nat]
    /\ ctxDone \subseteq Reqs /\ deferUnlock \subseteq Reqs
    /\ txID \in Tokens \cup {None}
    /\ txOwner \in {Owner[p] : p \in Reqs} \cup {None}
    /\ usedAge \in Nat /\ idleAge \in Nat
    /\ txMu \in Tokens \cup {None}
    /\ txOpMu \in Procs \cup {None} /\ writeMu \in Procs \cup {None}
    /\ rwTx \in Tokens \cup {None} /\ rwRole \in Roles
    /\ pending \subseteq Rows /\ file \subseteq Rows
    /\ roUser \in [Conns -> Reqs \cup {None}]
    /\ roRole \in [Conns -> Roles]
    /\ roMode \in [Conns -> {"auto", "begun", "pinned"}]
    /\ roSnap \in [Conns -> SUBSET Rows]
    /\ stats \in [Counters -> Int]
    /\ known \subseteq Tokens /\ committed \subseteq Tokens \cup {None}
    /\ wrote \subseteq Tokens \X Tokens

\* txMu is only ever released by the side that locked it: an open transaction
\* holds the lock that its own BEGIN took, the COMMIT or ROLLBACK that unlocks
\* it is the one of that transaction, and a deferred Unlock finds the lock of
\* its own request.  (Unlocking an unlocked sync.Mutex kills the process.)
UnlockOwnLock ==
    /\ txID # None => txMu = txID
    /\ \A p \in Procs : pc[p] \in {"clear", "unlockTx"} => txMu = tx[p]
    /\ \A p \in deferUnlock :
          pc[p] \notin {"pubOwner", "pubUsed"} => txMu = Token(p)

\* The transaction a statement was validated for is still the open one when
\* the statement is classified and when it runs: validateTxID reads txID once,
\* and the idle monitor, Close, COMMIT and ROLLBACK of other requests cannot
\* end the transaction in between.
ValidationHolds ==
    \A p \in Procs :
        tx[p] # None /\ pc[p] \in {"clsRW", "rwLock", "rwExec", "clear"} => txID = tx[p]

\* A statement sent without a txID never runs inside a transaction of the
\* read-write connection: a plain write is committed by itself.
PlainWriteOutside ==
    \A p \in Reqs : pc[p] = "rwExec" /\ tx[p] = None => rwTx = None

\* While a statement runs, the authorizer of its connection has the role of
\* the request, whatever role a classification left there.
RoleInForce ==
    /\ \A p \in Procs : pc[p] = "rwExec" => rwRole = RoleOf(p)
    /\ \A c \in Conns : roUser[c] # None => roRole[c] = Role[roUser[c]]

\* No row is ever written for a request of the read-only role, in a
\* transaction or out of one.
ReadOnlyNeverWrites ==
    \A p \in Reqs : Role[p] = "ro" => \A r \in file \cup pending : r[1] # p

\* A transaction is all or nothing: the rows acknowledged under its id are in
\* the database exactly when executeCommitQuery has committed it.
Atomicity == \A w \in wrote : w[1] \in file <=> w[2] \in committed

\* The connection is in the transaction that the manager believes is open.
ConnectionInStep ==
    txID # None /\ (\A p \in Procs : pc[p] # "clear") => rwTx = txID

\* When no request is in flight, every request has been counted once (with
\* "rollbacks" also counting those of the monitor and of Close), the queue
\* gauges are back at zero, and each begin is matched by a commit, a rollback
\* or the open transaction.
CountersBalance ==
    LET asked == Cardinality(UNION {{p} \X (1 .. ops[p]) : p \in Reqs})
        served == stats["reads"] + stats["writes"] + stats["begins"]
                  + stats["commits"] + stats["errors"]
    IN  (\A p \in Reqs : pc[p] = "idle") /\ (\A p \in Procs : pc[p] # "unlockTx") =>
            /\ stats["queuedBegins"] = 0 /\ stats["queuedWrites"] = 0
            /\ served <= asked /\ asked <= served + stats["rollbacks"]
            /\ stats["begins"] = stats["commits"] + stats["rollbacks"]
                                  + (IF txID = None THEN 0 ELSE 1)

\* When the process exits nothing is open and nothing is locked.
ClosedClean ==
    pc[Closer] = "closed" =>
        /\ txID = None /\ rwTx = None
        /\ txMu = None /\ txOpMu = None /\ writeMu = None

\* No lock and no pooled connection is left behind by a request that failed
\* half-way: when no request is in flight and no transaction is open, txMu and
\* all the read-only connections are free.
LocksReturned ==
    (\A p \in Reqs : pc[p] = "idle") /\ txID = None /\ (\A p \in Procs : pc[p] # "unlockTx") =>
        /\ txMu = None
        /\ \A c \in Conns : roUser[c] = None

\* The monitor picks the transaction of a client for rollback only if that
\* transaction has been idle for longer than TxIdleTimeout.
IdleRollbackDue ==
    [][pc[Monitor] = "check" /\ pc'[Monitor] = "rwLock" /\ txID \in known
       => idleAge > TxIdleTimeout]_vars

\* Every request is answered.
EveryRequestAnswered == \A p \in Reqs : pc[p] # "idle" ~> pc[p] = "idle"

\* After SIGTERM the process exits.
ShutdownCompletes == pc[Closer] = "drain" ~> pc[Closer] = "closed"
-----------------------------------------------------------------------------
\* What the documentation says and the code does not do.

\* "The `txId` does not match the open transaction" is the only meaning of
\* ErrTxNotMatch: a request with the id of the open transaction, from the
\* principal that began it, is not refused by validateTxID.
OwnTransactionAccepted ==
    \A p \in Reqs :
        pc[p] = "validate" /\ tx[p] = txID /\ Owner[p] = Owner[txID[1]] => IsValid(p)
=============================================================================
