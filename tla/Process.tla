------------------------------ MODULE Process -------------------------------
(***************************************************************************)
(* The life of the process: the container entrypoint, cmd/nsqlite (run     *)
(* with its deferred calls, in order), NewDB with the connections that     *)
(* internal/db/connector.go and internal/sqlitedrv make, Server.Start on a *)
(* goroutine of its own, requests with their statements, a signal at any   *)
(* time, Server.Stop and DB.Close.                                         *)
(*                                                                         *)
(* What a request does with the transaction manager is in DB.tla.  Here it *)
(* takes a connection, sets the role of its token and prepares statements. *)
(***************************************************************************)
EXTENDS Boot, Authorizer

CONSTANTS
    Environments, \* environments of the container
    FlagSets,     \* command lines
    Statements,   \* statements, as the sets of actions that they need
    MaxInflight,  \* bound: requests at a time
    MaxLeaks      \* bound: connections whose PRAGMAs fail

\* A directory that is set is a string.
ASSUME ProcessAssumption ==
    \A e \in Environments : "dataDir" \in DOMAIN e => e["dataDir"] \in Seq(STRING)

Pools == {"rw", "ro"}

\* The post-connect queries that newConnector makes of a configuration: names
\* and values.  busyTimeout.Milliseconds() drops what is below a millisecond.
Pragmas(c, pool) ==
    {<<"BUSY_TIMEOUT", c.busyTimeout \div 1000>>,
     <<"CACHE_SIZE", -Max({c.cacheSizeKB, -c.cacheSizeKB})>>, <<"JOURNAL_MODE", "WAL">>,
     <<"SYNCHRONOUS", "NORMAL">>, <<"FOREIGN_KEYS", "true">>, <<"TEMP_STORE", "MEMORY">>,
     <<"MMAP_SIZE", "2GB">>}
    \cup (IF pool = "ro" THEN {<<"QUERY_ONLY", "true">>} ELSE {})

VARIABLES
    env, flags,   \* what the process was started with
    plan,         \* entrypointPlan
    conf,         \* Config
    main,         \* place of the main goroutine
    signalled,    \* ctx is done: SIGTERM, or stop() after a failed Start
    starter,      \* goroutine of Start: "none", "assign", "listen", "serving", "returned"
    httpServer,   \* s.httpServer: "zero", "fresh" or "shutdown"
    monitor,      \* idle monitor: "none", "running" or "stopped"
    inflight,     \* HTTP requests being handled
    conn,         \* [Pools -> PRAGMAs that ran on the idle connection, or Closed]
    stmt,         \* statement in progress: [pool, role, actions, prepared, pragmas]
    handles,      \* sqlite3 handles that are open
    exit,         \* exit code
    \* history, read by no action
    opened,       \* path of the database file that NewDB opened
    leaked,       \* handles dropped by newConn after a failed PRAGMA
    late          \* Start stored s.httpServer after Stop had run

bootVars == <<env, flags, plan, conf>>
serveVars == <<signalled, starter, httpServer, monitor, inflight, late>>
connVars == <<conn, stmt, handles, leaked>>
vars == <<bootVars, main, serveVars, connVars, exit, opened>>

Closed == {}   \* no connection, and so no PRAGMA
NoStmt == [pool |-> "none"]
NoConf == [f \in DOMAIN Defaults |-> 0]   \* the zero Config
NoPath == [absolute |-> FALSE, names |-> {}]

Init ==
    /\ env \in Environments /\ flags \in FlagSets /\ plan = NoReplica /\ conf = NoConf
    /\ main = "entry" /\ signalled = FALSE /\ starter = "none" /\ httpServer = "zero"
    /\ monitor = "none" /\ inflight = 0 /\ late = FALSE
    /\ conn = [p \in Pools |-> Closed] /\ stmt = NoStmt /\ handles = 0 /\ leaked = 0
    /\ exit = 0 /\ opened = NoPath
-----------------------------------------------------------------------------
\* The main goroutine.

Goto(label) == main' = label /\ UNCHANGED exit
Exit(code) == main' = "exited" /\ exit' = code

\* main of the entrypoint: the plan, and exec if there is nothing to prepare.
EntryRefuses ==
    /\ main = "entry" /\ PlanRefused(env) /\ Exit(1)
    /\ UNCHANGED <<bootVars, serveVars, connVars, opened>>

EntryPlans ==
    /\ main = "entry" /\ ~PlanRefused(env)
    /\ plan' = buildEntrypointPlan(env)
    /\ \/ Goto(IF plan'.replicate THEN "prepare" ELSE "parse")
       \/ ~plan'.replicate /\ Exit(1)   \* exec failed
    /\ UNCHANGED <<env, flags, conf, serveVars, connVars, opened>>

\* The files of Litestream, then exec.
prepareRuntimePaths ==
    /\ main = "prepare" /\ (Goto("parse") \/ Exit(1))
    /\ UNCHANGED <<bootVars, serveVars, connVars, opened>>

\* MustParse, in the environment that exec was given: log.Fatal, or go on.
MustParse ==
    /\ main = "parse"
    /\ LET c == Config(IF plan.replicate THEN plan.env ELSE env, flags) IN
       \/ Parses(c) /\ conf' = c /\ Goto("openRW")
       \/ ~Parses(c) /\ Exit(1) /\ UNCHANGED conf
    /\ UNCHANGED <<env, flags, plan, serveVars, connVars, opened>>

\* Mutant: a PRAGMA that fails is skipped.
newConnLenient(pool) ==
    {[pragmas |-> Closed, opened |-> 0, leaked |-> 0]}
    \cup {[pragmas |-> {p \in Pragmas(conf, pool) : p[1] # skipped}, opened |-> 1, leaked |-> 0] :
             skipped \in {"none", "QUERY_ONLY"}}

\* newConn: sqlite.Open fails, or opens a connection; when a PRAGMA then fails,
\* the connection is dropped without being closed.
newConn(pool) ==
    {[pragmas |-> Closed, opened |-> 0, leaked |-> 0],
     [pragmas |-> Pragmas(conf, pool), opened |-> 1, leaked |-> 0],
     [pragmas |-> Closed, opened |-> 1, leaked |-> 1]}

Connect(result) ==
    /\ leaked + result.leaked <= MaxLeaks
    /\ handles' = handles + result.opened /\ leaked' = leaked + result.leaked

\* NewDB: each pool is pinged, which makes its first connection.
\* SetMaxIdleConns closes it again if no connection may stay idle.
NewDBOpens(pool, from, to) ==
    /\ main = from /\ conf.txIdleTimeout > 0
    /\ \E result \in newConn(pool) :
          /\ Connect(result)
          /\ conn' = [conn EXCEPT ![pool] = result.pragmas]
          /\ IF result.pragmas = Closed THEN Exit(1) ELSE Goto(to)
    /\ opened' = Join(conf.dataDir)
    /\ UNCHANGED <<bootVars, serveVars, stmt>>

\* NewDB's own checks: MkdirAll, and the timeout once more.
NewDBRefuses ==
    /\ main = "openRW" /\ Exit(1)
    /\ UNCHANGED <<bootVars, serveVars, connVars, opened>>

KeepsIdle(pool) == pool = "rw" \/ conf.maxReadConns > 0

\* The pools are set up, NewDB starts the monitor, NewServer cannot fail, and
\* Start runs on its own goroutine.
StartGoroutines ==
    /\ main = "start" /\ Goto("wait")
    /\ conn' = IF KeepsIdle("ro") THEN conn ELSE [conn EXCEPT !["ro"] = Closed]
    /\ handles' = IF KeepsIdle("ro") THEN handles ELSE handles - 1
    /\ monitor' = "running" /\ starter' = "assign"
    /\ UNCHANGED <<bootVars, signalled, httpServer, inflight, late, stmt, leaked, opened>>

\* <-ctx.Done()
MainWakes ==
    /\ main = "wait" /\ signalled /\ Goto("stop")
    /\ UNCHANGED <<bootVars, serveVars, connVars, opened>>

\* Mutant: the server is closed without waiting.
StopAtOnce ==
    /\ main = "stop" /\ httpServer' = "shutdown" /\ Goto("close")
    /\ UNCHANGED <<bootVars, signalled, starter, monitor, inflight, late, connVars, opened>>

\* Stop: Shutdown closes the listeners of the server it finds, and waits for
\* its requests; on the zero server there is nothing to wait for.
Stop ==
    /\ main = "stop" /\ httpServer' = "shutdown"
    /\ Goto(IF httpServer = "zero" THEN "close" ELSE "drain")
    /\ UNCHANGED <<bootVars, signalled, starter, monitor, inflight, late, connVars, opened>>

StopReturns ==
    /\ main = "drain" /\ inflight = 0 /\ Goto("close")
    /\ UNCHANGED <<bootVars, serveVars, connVars, opened>>

\* DB.Close: close(txIdleMonitorStop), closeWg.Wait, the two pools.
CloseWaits ==
    /\ main = "close" /\ monitor' = "stopped" /\ Goto("closePools")
    /\ UNCHANGED <<bootVars, signalled, starter, httpServer, inflight, late, connVars, opened>>

ClosePools ==
    /\ main = "closePools" /\ Goto("closeStats")
    /\ conn' = [p \in Pools |-> Closed]
    /\ handles' = handles - Cardinality({p \in Pools : conn[p] # Closed})
    /\ UNCHANGED <<bootVars, serveVars, stmt, leaked, opened>>

\* dbStats.Close, and run returns nil, whatever made it return.
RunReturns ==
    /\ main = "closeStats" /\ Exit(0)
    /\ UNCHANGED <<bootVars, serveVars, connVars, opened>>
-----------------------------------------------------------------------------
\* The goroutine of Start.

StartAssigns ==
    /\ starter = "assign" /\ main # "exited"
    /\ starter' = "listen" /\ httpServer' = "fresh" /\ late' = (httpServer = "shutdown")
    /\ UNCHANGED <<bootVars, main, signalled, monitor, inflight, connVars, exit, opened>>

\* Mutant: nothing is done about the error of Start.
StartFailsQuietly ==
    /\ starter = "listen" /\ main # "exited"
    /\ starter' \in {"returned", "serving"}
    /\ UNCHANGED <<bootVars, main, signalled, httpServer, monitor, inflight, late, connVars,
                   exit, opened>>

\* ListenAndServe: http.ErrServerClosed, an error (stop() is called), or serving.
StartListens ==
    /\ starter = "listen" /\ main # "exited"
    /\ \/ httpServer = "shutdown" /\ starter' = "returned" /\ UNCHANGED signalled
       \/ httpServer = "fresh" /\ starter' = "serving" /\ UNCHANGED signalled
       \/ httpServer = "fresh" /\ starter' = "returned" /\ signalled' = TRUE
    /\ UNCHANGED <<bootVars, main, httpServer, monitor, inflight, late, connVars, exit, opened>>

StartReturns ==
    /\ starter = "serving" /\ httpServer = "shutdown" /\ starter' = "returned" /\ main # "exited"
    /\ UNCHANGED <<bootVars, main, signalled, httpServer, monitor, inflight, late, connVars,
                   exit, opened>>

\* SIGTERM or an interrupt, once signal.NotifyContext is there.
Signal ==
    /\ main \notin {"entry", "prepare", "exited"} /\ ~signalled /\ signalled' = TRUE
    /\ UNCHANGED <<bootVars, main, starter, httpServer, monitor, inflight, late, connVars,
                   exit, opened>>
-----------------------------------------------------------------------------
\* Requests.

RequestArrives ==
    /\ starter = "serving" /\ httpServer = "fresh" /\ main # "exited"
    /\ inflight < MaxInflight /\ inflight' = inflight + 1
    /\ UNCHANGED <<bootVars, main, signalled, starter, httpServer, monitor, late, connVars,
                   exit, opened>>

\* A connection from a pool that is open, made if there is none; the role of the
\* token; and the statement prepared under it.  Bound: one statement at a time.
PoolsOpen == monitor # "none" /\ main \notin {"closeStats", "exited"}

TakeConn(pool) ==
    IF conn[pool] = Closed THEN newConn(pool)
    ELSE {[pragmas |-> conn[pool], opened |-> 0, leaked |-> 0]}

Prepare(pool, role, actions) ==
    /\ inflight > 0 /\ stmt = NoStmt /\ PoolsOpen
    /\ \E result \in TakeConn(pool) :
          /\ Connect(result)
          /\ stmt' = IF result.pragmas = Closed THEN NoStmt
                     ELSE [pool |-> pool, role |-> role, actions |-> actions,
                           prepared |-> Permits(role, actions), pragmas |-> result.pragmas]
    /\ conn' = [conn EXCEPT ![pool] = Closed]
    /\ UNCHANGED <<bootVars, main, serveVars, exit, opened>>

\* The connection goes back as it is, ResetSession being empty, or is closed.
ReturnConn ==
    /\ stmt # NoStmt /\ main # "exited" /\ stmt' = NoStmt
    /\ IF KeepsIdle(stmt.pool) /\ PoolsOpen
       THEN conn' = [conn EXCEPT ![stmt.pool] = stmt.pragmas] /\ UNCHANGED handles
       ELSE handles' = handles - 1 /\ UNCHANGED conn
    /\ UNCHANGED <<bootVars, main, serveVars, leaked, exit, opened>>

RequestEnds ==
    /\ inflight > (IF stmt = NoStmt THEN 0 ELSE 1) /\ main # "exited" /\ inflight' = inflight - 1
    /\ UNCHANGED <<bootVars, main, signalled, starter, httpServer, monitor, late, connVars,
                   exit, opened>>

Exited == main = "exited" /\ UNCHANGED vars
-----------------------------------------------------------------------------
MainStep ==
    \/ EntryRefuses \/ EntryPlans \/ prepareRuntimePaths \/ MustParse \/ NewDBRefuses
    \/ NewDBOpens("rw", "openRW", "openRO") \/ NewDBOpens("ro", "openRO", "start")
    \/ StartGoroutines \/ MainWakes \/ Stop \/ StopReturns \/ CloseWaits \/ ClosePools \/ RunReturns

StarterStep == StartAssigns \/ StartListens \/ StartReturns

RequestStep == ReturnConn \/ RequestEnds

Next ==
    \/ MainStep \/ StarterStep \/ RequestStep
    \/ Signal \/ RequestArrives \/ Exited
    \/ \E pool \in Pools, role \in Roles, actions \in Statements : Prepare(pool, role, actions)

\* The goroutines of the process run.  Nothing makes a signal or a request
\* arrive, and nothing makes a request end: the http.Server has no ReadTimeout,
\* and a statement may wait for a transaction for ever (DB.tla).
Fairness == WF_vars(MainStep) /\ WF_vars(StarterStep)

Spec == Init /\ [][Next]_vars /\ Fairness
-----------------------------------------------------------------------------
\* A directory that both programs read alike: no surrounding spaces, and a name.
PlainDir == "dataDir" \in DOMAIN env =>
    TrimSpace(env.dataDir) = env.dataDir /\ TrimRight(env.dataDir, "/") # <<>>

\* Litestream replicates the file that NSQLite opens, as long as the directory
\* comes from NSQLITE_DATA_DIR and is written plainly (the entrypoint and
\* cmd/nsqlite each work it out for themselves), to the configured place and with
\* the key, the secret and the session token of its own settings, whatever AWS
\* variables were there before.  If no session token is configured, an
\* AWS_SESSION_TOKEN that was there stays: nothing is said of it.
ReplicaIsOurs ==
    plan.replicate =>
        /\ opened # NoPath /\ "dataDir" \notin DOMAIN flags /\ PlainDir =>
              plan.config.database = opened
        /\ \A key \in {"bucket", "endpoint", "region"} : plan.config[key] # <<>>
        /\ plan.env["AWS_ACCESS_KEY_ID"] = Trimmed(env, "accessKey")
        /\ plan.env["AWS_SECRET_ACCESS_KEY"] = Trimmed(env, "secretKey")
        /\ Trimmed(env, "session") # <<>> =>
              plan.env["AWS_SESSION_TOKEN"] = Trimmed(env, "session")

\* The database is not closed under a request: once Stop has returned there is
\* none, and when the process has shut down every connection is closed, but for
\* those that newConn drops when a PRAGMA fails.  The exception is a signal that
\* came before Start had stored its http.Server, which Stop then never saw.
OrderlyShutdown ==
    ~late =>
        /\ main \in {"close", "closePools", "closeStats", "exited"} =>
              inflight = 0 /\ stmt = NoStmt
        /\ main = "exited" /\ exit = 0 => handles = leaked

\* A connection in use waits for a lock that another one holds.
Waits == \E p \in stmt.pragmas : p[1] = "BUSY_TIMEOUT" /\ p[2] > 0

\* The monitor's ticker, which panics otherwise, only ever gets a timeout greater
\* than zero; no statement runs on a connection on which a PRAGMA of
\* newConnector failed, or that has other settings than the configured ones,
\* whenever the pool made it; and it waits for locks if the configured timeout
\* is not below a millisecond (below one, SQLite is given 0).
ConfiguredBeforeUse ==
    /\ monitor # "none" => conf.txIdleTimeout > 0
    /\ stmt # NoStmt =>
          /\ stmt.pragmas = Pragmas(conf, stmt.pool)
          /\ conf.busyTimeout >= 1000 => Waits

\* What SQLite changes, or lets later statements change, for each action.
Mutating == TableActions
    \cup {<<"pragma", "statelessSet">>, <<"pragma", "other">>}
    \cup ({"transaction", "savepoint", "createTable", "dropTable", "alterTable",
           "attach", "detach"} \X {"any"})

Prepared(role) == stmt # NoStmt /\ stmt.role = role /\ stmt.prepared

\* Whatever it is combined with in a statement, the read-only role changes
\* nothing, opens no transaction and calls no function outside the allow list;
\* the read-write role changes rows of user tables and nothing else, neither the
\* schema nor an internal table nor a setting of the connection; and what a role
\* may prepare, the stronger ones may.
RolesAreConfined ==
    /\ Prepared("ro") =>
          /\ stmt.actions \cap (Mutating \cup {<<"function", "unlisted">>}) = {}
          /\ Permits("rw", stmt.actions)
    /\ Prepared("rw") =>
          /\ stmt.actions \cap Mutating \subseteq
                ({"insert", "update", "delete"} \X {"user"})
                \cup ({"transaction", "savepoint"} \X {"any"})
          /\ Permits("admin", stmt.actions)

\* After a signal the process ends, unless some request is in progress for ever,
\* which Shutdown without a deadline then waits for; and it ends after a Start
\* that failed, and whenever Start has returned and no request is left.
ProcessEnds ==
    /\ (signalled ~> main = "exited") \/ <>[](inflight > 0)
    /\ starter = "returned" /\ inflight = 0 ~> main = "exited"
-----------------------------------------------------------------------------
\* The inductive invariants behind the safety properties.

Early == {"entry", "prepare", "parse", "openRW", "openRO", "start"}
Stopped == {"close", "closePools", "closeStats", "exited"}

\* The configuration was parsed before anything was opened or started with it.
ConfParsed ==
    /\ main \in {"openRW", "openRO", "start", "wait", "stop", "drain", "close", "closePools",
                 "closeStats"} => Parses(conf)
    /\ monitor # "none" => Parses(conf) /\ main \notin Early

\* A statement as Prepare made it: on a connection with every PRAGMA of its
\* pool, and authorized for its role.
AsPrepared ==
    \E pool \in Pools, role \in Roles, actions \in Statements :
        stmt = [pool |-> pool, role |-> role, actions |-> actions,
                prepared |-> Permits(role, actions), pragmas |-> Pragmas(conf, pool)]

Connections ==
    /\ conn \in [Pools -> {Closed, Pragmas(conf, "rw"), Pragmas(conf, "ro")}]
    /\ \A p \in Pools : conn[p] \in {Closed, Pragmas(conf, p)}
    /\ stmt = NoStmt \/ AsPrepared

\* Which server Stop finds, and which requests there can be.
Lifecycle ==
    /\ inflight \in Nat /\ late \in BOOLEAN
    /\ main \in Early => starter = "none" /\ httpServer = "zero"
    /\ starter \in {"none", "assign"} => inflight = 0 /\ ~late
    /\ httpServer = "zero" => starter \in {"none", "assign"}
    /\ main \in {"drain"} \cup Stopped => httpServer = "shutdown" \/ late \/ starter = "none"
    /\ stmt # NoStmt => inflight > 0 /\ monitor # "none"
    /\ main \in Stopped /\ ~late => inflight = 0

\* The handles that are open are in the pools, in use, or dropped.
Busy(p) == IF conn[p] = Closed THEN 0 ELSE 1

Handles ==
    /\ handles \in Int /\ leaked \in Int
    /\ handles = leaked + Busy("rw") + Busy("ro") + (IF stmt = NoStmt THEN 0 ELSE 1)
    /\ main \in {"openRW", "openRO"} => conn["ro"] = Closed
    /\ main \in {"entry", "prepare", "parse", "openRW"} =>
          conn["rw"] = Closed /\ conn["ro"] = Closed
    /\ main = "start" => conn["ro"] # Closed
    /\ stmt # NoStmt => conn[stmt.pool] = Closed
    /\ main = "closeStats" \/ (main = "exited" /\ exit = 0) => \A p \in Pools : conn[p] = Closed

\* The plan is the one for the environment, the configuration is read in the
\* environment that exec was given, and the database is the one it names.
Replicated ==
    /\ env \in Environments
    /\ plan = NoReplica \/ (~PlanRefused(env) /\ plan = buildEntrypointPlan(env))
    /\ main \in {"entry", "prepare", "parse"} => opened = NoPath
    /\ main \notin {"entry", "prepare", "parse", "exited"} \/ opened # NoPath =>
          conf = Config(IF plan.replicate THEN plan.env ELSE env, flags)
    /\ opened = NoPath \/ opened = Join(conf.dataDir)

ProcessInv == ConfParsed /\ Connections /\ Lifecycle /\ Handles
=============================================================================
