# NSQLite in TLA+

NSQLite (`src/`) serves one SQLite database over HTTP. This directory holds TLA+
models of the parts of it that are hard to test, the TLC configurations that
check them, and machine-checked proofs of the properties that matter most.
`PROJECT.json` lists the components, the runs, the lines of code behind every
definition, the hazards, the findings and the theorems.

## 1. The system

| part | code | state it keeps | operations |
|---|---|---|---|
| transaction manager | `internal/db/db.go` | `txID`, `txOwner`, `txLastUsed`, the mutexes `txMu`, `txOpMu`, `writeMu` | `Query`, `txIdleMonitor`, `Close` |
| connectors, driver | `internal/db/connector.go`, `internal/sqlitedrv` | two `database/sql` pools: one read-write connection, `MaxReadConns` read-only ones | open, lend, `ResetSession` (a no-op) |
| SQLite wrapper | `internal/sqlite/sqlite.go` | the connection and its authorizer context | `Prepare`, `ReadOnly`, `Query`, bind, column, `SetAuthorizerRole` |
| authorizer | `internal/sqlite/sqlite.c` | the role of the connection | allow or deny one action of a statement |
| HTTP server | `internal/server` | tokens, token cache, requests in flight | `rpcHandler`, `executeQueries`, `handleRQLite`, `Stop` |
| value conversion | `internal/server/query_convert.go`, `rqlite.go`, `internal/sqlite` | none | JSON or VDL to Go to SQLite and back |
| statistics | `internal/stats` | buckets of counters per minute, queue gauges | `Inc*`, `Dec*`, `LoadStats`, cleanup worker |
| process | `cmd/nsqlite/main.go` | | start, SIGTERM: stop the server, then close the database |
| configuration | `internal/config` | | flags over variables over defaults, validation |
| container entrypoint | `cmd/entrypoint` | | plan: run NSQLite alone, or under Litestream with a configuration and credentials |
| RPC layer | `internal/vdl` | tables of procedures | generated: strict JSON types, dispatch, responses |

An HTTP request is a goroutine. It authenticates, which gives it a role and a
principal (a hash of its token), and calls `DB.Query` once for each statement.
`Query` classifies the statement by its first words or by preparing it, and then

* BEGIN takes `txMu` and **keeps** it: the lock belongs to the transaction, and
  whoever ends the transaction (COMMIT, ROLLBACK, the idle monitor, `Close`)
  unlocks it, in another goroutine;
* a write without a `txId` takes `txMu` for its own duration, and so waits for
  the open transaction;
* every statement with a `txId`, every tick of the monitor and `Close` run under
  `txOpMu`, validate the id first, and use the read-write connection under
  `writeMu`;
* a read without a `txId` takes a connection of the read-only pool and no mutex.

What is hard here: the lock that outlives its goroutine; the three separate
stores that publish a transaction (`txID`, `txOwner`, `txLastUsed`), which no
mutex orders with the monitor; a manager that tracks by itself whether SQLite is
in a transaction; an authorizer role that classification leaves behind on pooled
connections; clients that disconnect between any two of these steps; a shutdown
that needs the monitor to release queued requests and also stops the monitor;
a server that starts on a goroutine of its own and may be stopped before it is
there; connections that fail half-configured; lock-free statistics.

What makes each part correct:

* manager: one transaction at a time, all or nothing, only touched by its own id
  and principal; nobody unlocks a lock that is not theirs; every request is
  answered; the process exits when told to;
* authorizer: a read-only role changes nothing, each role includes the one below;
* server: a `transaction` request is all or nothing and its answer tells which;
  a request runs with the role of its token and leaves the gauges balanced;
* RPC: what is malformed runs nothing; what is answered is understood, and says
  of every statement what it did; both APIs say the same;
* values: what is sent is what comes back;
* process: the database is closed after the last request, nothing runs on a
  half-configured connection, the replica is of the file in use, the process ends;
* statistics: nothing counted is lost while its minute is kept.

## 2. Modules

| module | models | checked through |
|---|---|---|
| `Authorizer` | the decision of `cust_sqlite3_authorizer` | `MCProcess`, `MCDB` |
| `DB` | the transaction manager, the two pools and the shutdown sequence | `MCDB` |
| `DBInv` | the inductive invariants of `DB` (extends it) | `MCDB` |
| `TxStore` | abstract: what the manager promises its clients | |
| `DBRefinement` | the mapping under which `DB` implements `TxStore` (extends `DBInv`) | `MCDB` |
| `DBProofs` | theorems about `DB`: the lock protocol and the roles; locks and connections come back, the monitor is right | TLAPS |
| `DBTxProofs` | transactions are atomic; `DB` implements `TxStore`; the counters balance | TLAPS |
| `IdleClock` | the idle monitor, its ticker and `txOpMu` against a clock | `MCIdleClock` |
| `IdleClockProofs` | theorems about `IdleClock` | TLAPS |
| `Wire` | the generated types: decoding, validation, encoding | `MCRPC` |
| `RPC` | dispatch, the four procedures, results and answers of both APIs (extends `Wire`) | `MCRPC` |
| `RPCProofs` | theorems about `RPC` and the types of `Wire` | TLAPS |
| `Boot` | what entrypoint and configuration make of environment and flags | `MCProcess` |
| `Process` | the life of the process, its connections and what is prepared on them (extends `Boot`, `Authorizer`) | `MCProcess` |
| `ProcessProofs` | theorems about `Process` | TLAPS |
| `Server` | authentication, RPC batches and the rqlite API on top of `TxStore`, with the owner of a transaction | `MCServer` |
| `ServerInv` | the inductive invariants of `Server` (extends it) | `MCServer` |
| `ServerProofs` | theorems about `Server` | TLAPS |
| `Values` | parameters and columns, from the client to SQLite and back | `MCValues` |
| `ValuesProofs` | theorems about `Values` | TLAPS |
| `Stats` | minute buckets, cleanup, `LoadStats` | `MCStats` |
| `StatsProofs` | theorems about `Stats` | TLAPS |

### DB

A request goroutine `p` runs one `db.Query` after another, at most `MaxOps[p]` of
them. `pc[p]` is the place in the code; a step goes from one shared access to
the next, so that every interleaving another goroutine could observe is there:

    opLock -> validate -> clsRW -> rwLock -> rwExec          with a txId
    clsRO -> roLock -> roExec                                read without one
    clsRO -> txLock -> rwLock -> rwExec                      write without one
    clsRO -> checkTx -> fbLock -> fbCls -> ...               not preparable yet
    txLock -> rwLock -> rwExec -> pubID -> pubOwner -> pubUsed   BEGIN
    rwExec -> clear -> unlockTx                              COMMIT, ROLLBACK

The `Monitor` and the `Closer` go through `opLock -> check -> rwLock -> rwExec ->
clear -> unlockTx`. `txMu` records the token of the request that locked it, which
a Go mutex does not: that is what lets the properties speak of whose lock it is.
The token `<<p, n>>` of the n-th request of `p` also stands for the row that the
request writes and for the UUID of the transaction that it begins.

SQL is reduced to the kinds of statement that the manager or SQLite treats
differently: recognised control statements, reads, writes, a write that creates a
table and one that needs it (which cannot be prepared outside the transaction
that created it), a write whose failure makes SQLite roll back by itself, and
BEGIN or END that the prefix test does not recognise. SQLite is its observable
effect: `rwTx` and `pending` are the open transaction of the read-write
connection, `file` the committed rows, `roMode` and `roSnap` the state in which a
statement leaves a read-only connection. What the code does and one might not
expect: `END TRANSACTION` is handled as a ROLLBACK (a test,
`e2e/tests/query/transactions_test.go:515`, says so), and so is anything else
that starts with ROLLBACK, `ROLLBACK TO` included.

`known`, `idleAge`, `wrote` and `committed` are history: no guard reads them
except that clients only send ids from `known`.

### Server

A request is served once. `DB.Query` is one step, with the effects of `TxStore`:
`DBRefinement` is what justifies that for clean statements. Two things that `TxStore`
does not tell are kept apart, because the server can see them:

* BEGIN stores `txID` in one step and `txOwner` in the next (`PublishOwner`;
  `db.go:474-476`). The idle monitor may end the transaction in between and another
  request begin the next one, over whose owner the late store then goes: `stray`
  records that it did. This is `ownerrace` seen from the server;
* SQLite may roll back by itself (`failRollback`, an INSERT OR ROLLBACK that fails):
  `open` and `buf` are SQLite's transaction, `dbTxID` the one that the manager still
  has. COMMIT and ROLLBACK then fail (`db.go:524`), writes under the id are committed
  one by one, and a BEGIN or a plain write waits for ever (`Blocked`). A plain END,
  which does the same, stays with `DB`.

A statement without an id waits while the manager has a transaction if it is a BEGIN
or a write; a read, a write and a COMMIT (deferred constraints) may fail at any time.
The idle monitor may end the transaction at any moment. The cache of tokens is filled
in a step of its own, so that two requests can scan at once.

### Values

One statement, a SELECT of its own parameters, is sent through the conversions of
one API. The half-ranges of int32 and int64 (2^31 and 2^63 in the code) are the
constants `Half32` and `Half64`, of which only the order matters; the bytes of texts and blobs are kept, because zero matters. `Meaning` and `Meant`
state independently of the code what a client means by a value and by a name.

### Stats

The clock, `Load`, `LoadOrStore` and `Add` of an increment are separate steps, as
are the visits of the two `Range` loops. `sync.Map.Range` visits a key at most
once, and one that is there throughout exactly once; whether it sees a key that
comes or goes meanwhile is left open. One counter stands for the seven. `loaded` is
what a call of `LoadStats` has read of each minute, `before` (history) what was there
when it began.

### IdleClock

`DB` lets the ticker fire at any time, which is right for safety and says nothing
about how long an idle transaction lives. Here time is discrete and passes only
when no goroutine has something to do, except under a statement, which may take
up to `MaxHold` with `txOpMu` held. The ticker has the period of the timeout and a
channel with room for one tick. `waited` is the starvation mode of `sync.Mutex`:
a monitor that has waited gets the lock before the next request. Transactions
that the client uses without a `txId` do not exist, so only requests under
`txOpMu` matter. That the ROLLBACK of the monitor succeeds is assumed: section 6
says when it does not.

### Wire and RPC

The generator writes `pre`, `validate`, `transform` and `UnmarshalJSON` for each
type after one pattern. `Wire` has the pattern once, as a handful of combinators
(a required or optional field `At`, a scalar, an enumeration, a pointer, the items of
an array; the same for writing), and one `Decode...` and one `Encode...` for each type,
built from them. `RPC` takes one
request after another from the body to the answer, on one read-write connection
whose counters survive from statement to statement. Statements are kinds, chosen
by what they leave in those counters and by their columns: DDL, one or two rows,
RETURNING, no rows, two columns of the same name, declared and undeclared types,
a value that JSON cannot write. Any statement may fail.

### Boot and Process

`Boot` is pure: what an environment and a command line come to. Strings are
sequences of pieces, so that trimming spaces and slashes is what it is in the
code; `Join` takes a path to its names, in order. `Process` runs it: entrypoint, `MustParse`, `NewDB` with its two pings,
`Start` on its goroutine, a signal at any time, `Stop`, `Close`. `conn` is the set
of PRAGMAs, with their values, that have run on the idle connection of each pool;
durations are in microseconds, and `Pragmas` converts the busy timeout to whole
milliseconds as `newConnector` does. `late` records that
`Start` stored its `http.Server` after `Stop` had shut down the zero one: the data
race at `server.go:85` is modelled as the two orders of the store.

## 3. Runs

| run | what it shows | instance |
|---|---|---|
| `transactions` | all or nothing (`Atomicity`), in step with SQLite (`ConnectionInStep`), counters (`CountersBalance`), clean exit (`ClosedClean`), the monitor takes only idle transactions that a client knows of (`IdleRollbackDue`), a client that goes away at any point leaves no lock and no connection behind (`LocksReturned`), `DB` implements `TxStore` | two principals, 3 + 1 requests, one client cancels |
| `pool` | the lock protocol (`LockInv`, `UnlockOwnLock`, `ValidationHolds`, `PlainWriteOutside`) also when SQLite leaves the transaction behind the manager's back; the role in force is the role of the request (`RoleInForce`), a read-only principal writes nothing (`ReadOnlyNeverWrites`); second classification under `txMu` | admin and read-only principal, 3 + 1 requests, a plain END |
| `answers` | every request is answered (`EveryRequestAnswered`); after SIGTERM the process exits (`ShutdownCompletes`) | 2 + 1 requests that begin and commit, one client cancels, fairness |
| `idle` | a transaction whose client is gone is being rolled back within twice the timeout and one statement (`IdleBounded`), one that was served within the timeout never is (`NotTooSoon`) | timeout 4, statements of up to 6 |
| `server` | `TransactionAllOrNothing`, `ReadersNeverWrite`, `GaugeMatches`, `OwnTransactionOnly` (knowing an id is not enough to use a transaction), and `OpenOnlyAfterFailedEnd`: the ways in which the transaction of a request outlives it, a failing ROLLBACK among them | two requests on every kind of route, four secrets (one configured twice, one unknown), clients that disconnect, statements on which SQLite rolls back |
| `values` | `RoundTrip`, `RefusedExactlyBad` | up to two parameters, edges of both widths |
| `stats` | `NothingLost`, `LoadedInBounds`, `OldMinutesGo` | two goroutines, three minutes, fairness |
| `rpc` | a malformed batch runs nothing (`BadBatchRunsNothing`), the client's strict decoding gives what the handler returned (`AnswerUnderstood`), one item per query with the right counts (`ItemsMatchQueries`), the rqlite API says the same (`RQLiteTellsTheSame`), an error means that nothing ran, but for values JSON cannot write (`ErrorMeansNothingRan`) | two requests, batches of up to two statements, bodies that are wrong at every depth |
| `process` | the replica is of the file that is opened, with the configured key, secret and session token (`ReplicaIsOurs`), the database outlives the requests and handles are closed (`OrderlyShutdown`), every statement runs on a connection with the configured settings (`ConfiguredBeforeUse`), the roles permit what they say (`RolesAreConfined`), the process ends unless a request never does (`ProcessEnds`) | 22 environments, 3 command lines, two requests, one failing PRAGMA, statements of up to two actions, fairness |

Three more runs end in a violation and are the findings of section 6.

**Bounds.** Every conflict in the manager is between a transaction and one other
party (a request, the monitor, `Close`), so two request goroutines and the two
others meet in every order. One of the goroutines needs three requests (BEGIN, a
statement, COMMIT) and the other one to get in between; the fourth request
of `torn` is the write after the rollback. One read-only connection is the case
in which readers and classification compete for it. `TxIdleTimeout` is one tick
and ages saturate one past it, because only the comparison is ever read. The
proofs of section 5 remove these bounds for the properties they cover.
`answers` leaves plain writes out: they wait for `txMu` at the same place as BEGIN.
In `server` two requests suffice for one to hold a transaction and the other to
wait for it, to name its id or to fill the token cache at the same time; the owner
race happens, but only a third request could use a transaction whose owner was replaced,
so that exception of `OwnTransactionOnly` is the theorem's, not the run's. Requests are
symmetric. `/db/request` is left out of the run: it goes the way of `/db/execute`. So is
the server without tokens: every request is then an admin without principal, who
may use any transaction whose id it knows; the theorems of section 5 cover it, but
for `OwnTransactionOnly`, which is about tokens.
In `Values` the numbers are both ends of both widths and one step past them. In
`Stats` `Retention` is one minute of three: a minute is current, kept, and gone.
In `IdleClock` the longest statement is longer than the timeout, so that ticks are
dropped; the bound of `IdleBounded` is reached, so none smaller holds. In `RPC` one
request leaves the counters that the next one finds. In `Process` each thing that can be wrong with a setting
is wrong in one environment, and two requests are enough for one to be in flight
while the other's connection is returned; a statement of two actions is the
smallest that one action can spoil for the other.
Deadlock is checked in every run; the ends of a behaviour (`Exited`, `AllServed`,
`Over`) are stuttering steps, enabled only there.

**Mutants.** For each property of a passing run the modules define, beside the
definition, a mutated form of a definition (comment `Mutant:`): a dropped wait, a
missing reset, a lookup that is too generous. With it TLC finds the property
violated.

`Server` and `Stats` also state a type invariant, for the proofs of section 5; the
runs spend their invariants on what could be wrong.

## 4. Fairness

`DB`: strong fairness for the steps of each goroutine. Two facts of the runtime
justify it for steps that wait: `sync.Mutex` in starvation mode and the request
queue of `database/sql` hand over in order, so who waits for a lock that keeps
being released gets it, and `select` picks at random among what is ready, so the
monitor sees its stop channel. Weak fairness for the clock and the ticker. None
for clients: the holder of a transaction may never come back; that requests are
answered nevertheless is the point of `answers`. None for SIGTERM.

`Stats`: weak fairness for the cleanup worker, none for requests.

`Process`: weak fairness for the main goroutine and for that of `Start`. None for
signals, failures, the arrival of requests **and their end**: the `http.Server` has no
`ReadTimeout` (`server.go:85-89`), so a client may stall its body; a request may be
queued behind a transaction that nobody can end (section 6); and `Stop` waits without
a deadline (`server.go:106`). `ProcessEnds` says what remains: after a signal the
process ends or some request is in progress for ever, and it ends whenever `Start` has
returned and no request is left.

## 5. What is proved

Every safety invariant and every action property that a passing run checks is a
theorem, for every value of the constants; where one needs a hypothesis on what
clients send, the table says so. What is left to TLC is liveness: see the end of the
section. Each inductive invariant named here was first checked by TLC on the
instances of section 3. The proofs have one lemma `Next...` (or one named after the
action) for each part of an invariant, with one step per action that can disturb it,
and a few lemmas `...Steps` that say once what a step can do to a group of variables.

### The lock protocol

`DBProofs` proves, for any sets of requests and connections, any roles, any bound
on the number of requests and **any** kinds of statement:

| theorem | states |
|---|---|
| `TypeCorrect` | `Spec => []TypeOK` |
| `LockDiscipline` | `Spec => []LockInv` |
| `UnlocksOwnLock` | no goroutine unlocks a `txMu` that is not locked for its own request or transaction |
| `ValidationStays` | a validated `txID` is still the open transaction when the statement runs |
| `PlainWritesOutside` | a statement without `txId` never runs inside an open SQLite transaction |
| `RolesInForce` | a statement runs under the role of its own request |
| `ReadOnlyWritesNothing` | no row is ever written for a request of the read-only role |

The assumption is `ConstantsAssumption` of `DB`: the goroutines are distinct, the
roles are roles, the bounds are numbers. TLC evaluates it in every run.

`UnlockOwnLock` and `ValidationHolds` are not inductive by themselves. `LockInv`
adds what they rest on:

* `Paths`: which requests carry a `txId`, and which kinds, at each place;
* `OpHeld`, `WriteHeld`: who is between the lock and the unlock of `txOpMu` and
  `writeMu` holds it. With `Paths` this gives mutual exclusion (lemma
  `Exclusion`) of everything that can end a transaction;
* `IdsBegun`: an id in `txID`, in a request or known to a client comes from a
  BEGIN that has stored it. So a new BEGIN has a token that nobody can name yet
  (lemma `NotBegun`), and an id that has been cleared never becomes valid again;
* `Deferred`: where a deferred `txMu.Unlock` is pending. Without it a request
  that returns an error could unlock the lock of a transaction;
* `TxMuHeld`: the open transaction holds the lock its BEGIN took. The window
  between `txID.Store` and the last store of BEGIN, in which the monitor can
  already end the transaction, is why `UnlockOwnLock` excepts `pubOwner` and
  `pubUsed`;
* `RwTxOwned`: SQLite is in a transaction only if the manager has one or is about
  to. With `TxMuHeld` it gives `PlainWritesOutside`. The converse, that SQLite is
  in a transaction if the manager has one, is false: see `torn`;
* `RoleInForce`: while a connection is held, nobody else changes its role.

Each conjunct has its lemma `Next...`, one step per action.
`ReadOnlyWritesNothing` follows from `RoleInForce` and from what `Authorizer`
denies the read-only role (lemma `ReadOnlyDenied`).

### Locks are returned

`DBProofs`, same assumption:

| theorem | states |
|---|---|
| `HeldDiscipline` | `Spec => []HeldInv` |
| `LocksAreReturned` | `Spec => []LocksReturned` |
| `IdleRollbacksAreDue` | `Spec => IdleRollbackDue` |

`LockInv` says that who is inside a critical section holds its lock. `HeldInv` is the
converse: a lock that is held is held by somebody at a place that will release it
(`MutexesUsed`, `TxMuUsed`), a pooled connection that is out is with one request, at
`roExec` (`PoolUsed`). `TxMuUsed` is the case worth reading: `txMu` is the open
transaction's, or that of a deferred unlock, or is about to be unlocked by whoever
has just cleared `txID`. It holds whatever SQL is sent, also when SQLite has left the
transaction. `AgesOrdered` (the clock that the monitor reads never runs ahead of the
time a client has left its transaction unused) gives `IdleRollbackDue`.

### Transactions are atomic

`DBTxProofs`, under `CleanClients`: `Kinds \subseteq CleanKinds`, that is, no
statement ends or begins an SQLite transaction behind the manager's back. Without it
`Atomicity` is false: that is the finding `torn`.

| theorem | states |
|---|---|
| `CleanDiscipline` | `Spec => []TxInv` |
| `TransactionsAtomic` | `Spec => []Atomicity` |
| `ConnectionStaysInStep` | `Spec => []ConnectionInStep` |
| `ClosesClean` | `Spec => []ClosedClean` |
| `Implements` | `Spec => ImplementsTxStore` |

`TxInv` strengthens `Atomicity` by what is true before the transaction is decided
(`Buffered`): the rows acknowledged under the id of the open transaction are what
SQLite holds back, no other row is, and none of them is in the file. It needs that
manager and connection are in the same transaction (`InStep`), and that the row of a
new request and the id of a new BEGIN have never been seen (`Past`). `InStep` rests on
`LockInv`: a COMMIT or ROLLBACK that was validated still ends the transaction it
validated, and the ROLLBACK of monitor and `Close` runs under the admin role, for
which it always prepares (`AdminEnds`).

The refinement maps the open transaction of `TxStore` to that of SQLite and its
buffer to what the clients were told (`DBRefinement`). `NextEffect` reduces every step
of `DB` to one of a few effects on `file`, `rwTx`, `wrote` and `committed`;
`StepStore` matches each with an action of `TxStore` or a stuttering step. COMMIT is
where `Buffered` is needed: the rows that SQLite makes permanent are the buffer.

### The counters

`DBTxProofs`, for any clients: `CountDiscipline` (`Spec => []CountInv`) and
`CountersAreBalanced` (`Spec => []CountersBalance`). `CountInv` gives each gauge as
the number of requests between its increment and its decrement, the requests answered
as those asked less those in flight, and the transactions begun as those ended plus
the open one, with the BEGINs and COMMITs in the middle of their stores as the
correction. A step moves one goroutine, so each of these sets gains or loses at most
one element (`OneElement`); `StepDeltas` compares that with what the step does to the
counters. `Reqs` may be infinite: that the sets counted are finite is part of the
invariant.

### The clocked monitor

`IdleClockProofs` proves of `IdleClock`, for every timeout and every longest
statement (`IdleAssumption`: a positive and a natural number):

| theorem | states |
|---|---|
| `IdleTypeCorrect` | `Spec => []TypeOK` |
| `IdleTransactionsEnd` | `Spec => []IdleBounded` |
| `ActiveTransactionsStay` | `Spec => NotTooSoon` |

`IdleBounded` alone does not survive a step: whether the idle time may grow depends
on where the monitor is. `IdleInv` says it for each place. Waiting for a tick, idle
time and time to the tick add up to at most twice the timeout once the timeout has
passed; waiting for `txOpMu`, the excess is at most the time the lock has been held.
`UsedTellsIdle` ties `txLastUsed` to the idle time, so that a check that leaves the
transaction alone has found it young, and one that ends it has found it old.

### The server

`ServerProofs` proves of `Server`, for any number of requests, any tokens, routes and
scripts (`ServerAssumption`):

| theorem | states | if |
|---|---|---|
| `TypeCorrect` | `[]TypeOK` | |
| `AuthDiscipline` | `[]AuthInv` | |
| `GaugesAreExact` | `[]GaugeMatches` | |
| `ReadersDoNotWrite` | `[]ReadersNeverWrite` | |
| `TransactionsArePrivate` | `[]OwnTransactionOnly` | tokens are configured |
| `ScriptDiscipline` | `[]ScriptInv` | |
| `TransactionsAreEnded` | `[]OpenOnlyAfterFailedEnd` | |
| `HeldBackDiscipline` | `[]AllHeldBack` | `NoOwnCommit` |
| `RequestsAllOrNothing` | `[]TransactionAllOrNothing` | `NoOwnCommit` |

`AuthInv` follows a token from the lookup to the rows: the cache only holds roles that
some configured token of that value has, also when two requests scan at once
(`Authentic`); a request in its handler has the role and the principal of its token;
the manager's transaction is SQLite's, if SQLite has one (`Announced`); once its BEGIN
has stored the owner, the owner is one of its `Holders`, the principal that began it and
those of the BEGINs that came late, and who wrote under its id is one of them too
(`Owned`); a row is there because a request that may
write had it in its script (`Written`).

`ScriptInv` follows the loop of `executeRQLiteQueries`: no client can name the
transaction that the server began (`Unnamed`), which request has one and where
(`HasTx`), how many results there are at each place and whether one is an error
(`InLoop`), and that a transaction still with the manager after the answer is there for
one of the named reasons (`EndedOrFailed`). That SQLite has left it is the reason to
read: the transaction may still be open when the ROLLBACK is refused for its owner, and
gone when it fails. `AllHeldBack` adds the rows: while the transaction is open those that
succeeded are in its buffer, after an error none is in the store, and when the server's
own COMMIT succeeds they all are. The case that matters is the idle monitor ending the
transaction between two statements: the next one is then refused, because its id is
no longer open, and the loop stops.

`NoOwnCommit` (no script has both a COMMIT and a write) is needed: with
`<<"write", "commit">>` the script's COMMIT stores the row, the server's then fails,
and the answer reports an error for rows that are there (section 6).
Without tokens every request is the same nobody, so `OwnTransactionOnly` says nothing
true there.

### The statistics and the process

`StatsProofs`, for any goroutines, minutes and retention (`StatsAssumption`):
`BucketDiscipline` (`Spec => [](TypeOK /\ StatsInv)`) and `IncrementsAreKept`
(`Spec => []NothingLost`). `NothingLost` is preserved by `Add` only if the bucket that
the goroutine holds is the one in the map, and by `LoadOrStore` only if a bucket that
was just made is empty and nobody else's: `InItsMinute`, `OneMinute` and
`FreshUnused`. `CutoffOld` says that the cleanup worker, whose cutoff may be old by the
time it visits a minute, touches none that is kept.

The same module has `LoadDiscipline` (`Spec => []LoadInv`) and `LoadsAreBounded`
(`Spec => []LoadedInBounds`): of a minute that is kept a load sees at least what was
counted before it began, of no minute more than was counted, and its total is the sum
of what it read. `LoadInv` says so of the minutes visited so far. A bucket may hold
less than its minute counted, when the minute was deleted and came back
(`CountersCounted`), but by `NothingLost` not while it is kept. The sum is the number
of pairs of a minute and one of its increments (`SumOf`), so that reading one more
minute adds a set disjoint from the others, and no induction is needed.

`ProcessProofs`, for any environments, command lines and statements: `ProcessDiscipline`
(`Spec => []ProcessInv`), `ConfiguredFirst` (`[]ConfiguredBeforeUse`),
`ShutdownIsOrderly` (`[]OrderlyShutdown`), `RolesConfined` (`[]RolesAreConfined`).
`ProcessInv` says what main has done at each place (`ConfParsed`, `Lifecycle`), that a
connection in a pool has every PRAGMA of that pool with the configured value
(`Connections`, which needs that nothing is open while `MustParse` changes the
configuration), and that a handle
that is open is in a pool, under a statement, or dropped (`Handles`): at exit that
leaves the dropped ones. `RolesConfined` rests on the decision of `Authorizer` for each
action that a statement contains (`ReadOnlyActions`, `ReadWriteActions`).

`ReplicaAgrees` (`[]ReplicaIsOurs`) rests on `Replicated`: the plan is the one for the
environment, the configuration is read in the environment that the plan hands on, and
the database is the file which that configuration names. The rest is about paths: the
entrypoint and NSQLite join the same names although they trim differently. Of the
credentials, `ReplicaIsOurs` speaks of those that are configured: that an inherited
session token stays beside them is in section 6.

### The values

`ValuesProofs` proves of `Values`, for any statements, parameters, values and widths
(`ValuesAssumption`: int32 is narrower than int64, placeholders and names are pairs of
a prefix and a string, and no client uses the empty name, on which see section 6):

| theorem | states |
|---|---|
| `BindDiscipline` | `Spec => []ValuesInv` |
| `RefusesExactlyBad` | `Spec => []RefusedExactlyBad` |
| `ParametersComeBack` | `Spec => []RoundTrip` |

The named parameters of an rqlite request are taken in the order of a Go map, so the
invariant speaks of some order (`Orders`): in it, each parameter before `next` was
bound at its place, and every slot is NULL or holds what was meant for it
(`BoundInOrder`). Two lemmas carry the rest. `TargetIsMeant`: the search over the
prefixes finds the placeholder that `Meant` names, which is stated without a search.
`ShownAsMeant`: conversion, bind, column and encoding give back what `Meaning` says,
but for the exceptions that `RoundTrip` lists (section 6).

### The RPC layer

`RPCProofs` proves of `RPC`, for any bodies, any number of requests and batches of any
length, with the kinds of statement of section 2. `BodiesAssumption` says no more than
that the array of queries in a body is a sequence.

| theorem | states |
|---|---|
| `RequestDiscipline` | `Spec => []RPCInv` |
| `BadBatchesRunNothing` | `Spec => []BadBatchRunsNothing` |
| `ErrorsMeanNothingRan` | `Spec => []ErrorMeansNothingRan` |
| `ItemsAreTheQueries` | `Spec => []ItemsMatchQueries` |
| `AnswersAreUnderstood` | `Spec => []AnswerUnderstood` |
| `RQLiteAnswersTellTheSame` | `Spec => []RQLiteTellsTheSame` |

`RPCInv` follows a request: while it runs, the queries are those of a body that was
accepted, and each query tried has an error item, or the item of the statement it
asked for with the counters as that statement left them (`Outcome`). Two groups of
lemmas about the generated types do the work:

* `DecodeInputOK`, from `DecodeSqliteValueOK` upwards: the decoder accepts a body
  exactly if it is well formed at every depth. `WellFormed...` is stated field by
  field and does not call the decoder;
* `...RoundTrip`, from a value over rows, columns and results to the outputs of the
  four procedures: what is encoded and then decoded strictly is what it was.
  `ResultTyped` says that the handlers build only values of these types, and
  `ResultEncodes` that a result fails to encode only if it holds an infinite real.

For the associative form of the rqlite API, `LastOfName` says that a name is mapped
to the last column that has it.

### Only model-checked

Liveness: `EveryRequestAnswered`, `ShutdownCompletes`, `OldMinutesGo`,
`ProcessEnds`. Fairness and ENABLED are out of the prover's reach. The runs of
section 6 that end in a violation are counterexamples and have nothing to prove.

## 6. Findings

| run | the documentation says | the code does |
|---|---|---|
| `ownerrace` | the error "does not match" means that the id is not that of the open transaction | a BEGIN that the monitor has overtaken stores its owner over that of the next transaction, whose beginner is refused (`db.go:475`) |
| `torn` | a transaction is atomic | after SQLite has rolled back by itself, later writes under the same id are committed one by one (`db.go:552`) |
| `wideintegers` | `integer` is SQLite INTEGER | columns are read with 32 bits (`sqlite.go:632`) |

Seen on the way, without a run of their own:

* BEGIN stores `txID` before `txLastUsed` and holds no lock that the monitor takes:
  a tick in between rolls the new transaction back at once (`db.go:474`). It is the
  exception `publishing` in `NotTooSoon`, and how `ownerrace` begins.
* A plain `END` (`db.go:292` only knows "end transaction") with a `txId` is
  classified as a read and commits. COMMIT, ROLLBACK and the monitor then fail, and
  the manager keeps `txID` and `txMu` for ever (`db.go:524`): a queued BEGIN never
  returns. The run `answers` therefore leaves such statements out.
* `rowsAffected` and `lastInsertId` of a statement that changes no row, DDL for
  instance, are those of an earlier statement, possibly of another client, and both
  are 0 for INSERT ... RETURNING (`sqlite.go:220`): `ItemsMatchQueries` is about
  plain INSERTs.
* An infinite REAL in a result makes the answer `ok: false` although the whole
  batch has run (`vdl/server.go:147`): the exception in `ErrorMeansNothingRan`.
* In the associative form the last of several columns of the same name hides the
  others: the exception in `RQLiteTellsTheSame`.
* A signal before `Start` has stored its `http.Server` makes `Stop` shut down the
  zero one; the new one then serves while the database is closed (`server.go:85`):
  the exception `late` in `OrderlyShutdown`.
* If `Start` fails, the process ends with exit code 0 (`main.go:104`).
* `newConn` does not close a connection on which a PRAGMA has failed
  (`driver.go:87`): `leaked` in `OrderlyShutdown`.
* What an admin's PRAGMA sets on a connection stays there for later requests,
  because `ResetSession` is empty (`driver.go:127`).
* A BEGIN that the prefix test does not recognise (after a comment, say) is prepared as
  a read and runs on a pooled connection, and `ResetSession` does not end what it began
  (`driver.go:127`): reads of other clients on that connection then run in its
  transaction and miss what was committed since. `DB` has it (`rawBegin`), with one
  read-only connection, a read in the transaction, a write and a read of somebody else.
* An `AWS_SESSION_TOKEN` that is already in the environment stays when no session token
  is configured (`entrypoint/main.go:250`), next to the configured keys, although the
  comment at line 243 speaks of a single public name for each credential.
* A busy timeout under a millisecond passes the validation and becomes 0
  (`connector.go:19`); `configuration.md:46` says "Must be greater than zero". It is the
  condition in `ConfiguredBeforeUse`.
* NSQLite takes `--data-dir` and an untrimmed `NSQLITE_DATA_DIR`, the entrypoint a
  trimmed one, and "/" as the default: the replica is then of another file
  (`entrypoint/main.go:150`). These are the conditions in `ReplicaIsOurs`.
* `configuration.md:58` says of `NSQLITE_LITESTREAM_ENABLED` that any other value
  disables it; the entrypoint refuses to start (`entrypoint/main.go:320`).
* `MaxReadConns` of zero or less means no limit and no idle
  connection (`db.go:136`).
* A `transaction` request whose COMMIT fails is answered with the error and leaves
  its transaction open until it times out (`rqlite.go:162`); one in which SQLite has
  rolled back by itself stays with the manager for ever, as its ROLLBACK fails
  (`rqlite.go:156`, `db.go:524`): exceptions in `OpenOnlyAfterFailedEnd`.
* A client whose BEGIN was overtaken by the monitor may use the next transaction, of
  another token, if it knows its id (`db.go:475`): the exception in
  `OwnTransactionOnly`, and the other side of `ownerrace`.
* Nothing bounds how long a request may keep the process from ending (section 4).
* An empty blob is bound as NULL (`sqlite.go:473`), and a text is cut at its first
  NUL (`sqlite.go:459`): the exceptions in `RoundTrip`.
* An rqlite parameter object with the empty key binds that value by its position in
  the random order of a Go map (`rqlite.go:267`, `sqlite.go:203`): not modelled, as
  no name is meant by it.
* The comment at `stats.go:45` says that the cleanup worker runs every 10 seconds,
  its ticker says every minute.
* A COMMIT among the statements of a `transaction` request ends its transaction
  early, so that the statements before it stay when a later one fails:
  `TransactionAllOrNothing` is checked for lists that do not mix writes and COMMIT.

## 7. Not modelled

* Streams and middlewares of `internal/vdl`: the program registers none. Its
  getters. A body that is JSON but not an object reaches the procedures of System,
  which look at no input.
* The quoting of the command line that Litestream runs
  (`entrypoint/main.go:325`), YAML, the syntax of flags.
* The size limit of request bodies, hashing of tokens (a token matches or not),
  logging, timings and pretty-printing.
* Validation of hosts and ports (`internal/validate`): a value is valid or not.
* Crashes of the process: durability is SQLite's, and the manager persists
  nothing of its own. What Litestream does.

## 8. Plan

Done: the models of `Authorizer`, `DB`, `IdleClock`, `Server`, `Values`, `Stats`,
`Wire` and `RPC`, `Boot` and `Process`; proofs of every safety invariant and action
property that a passing run checks. Left, in the order of what it would say:

1. `TransactionAllOrNothing` without `NoOwnCommit`: what exactly stays when a script
   commits by itself;
2. `OwnTransactionOnly` and `ReadersNeverWrite` of a composition of `Server` with `DB`
   itself, where now `Server` uses `TxStore` and `Implements` connects the two;
3. the liveness properties, once the prover handles fairness.
