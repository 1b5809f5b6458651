--------------------------- MODULE ProcessProofs ----------------------------
(***************************************************************************)
(* Proofs about Process: the configuration is parsed before it is used,    *)
(* connections get all their PRAGMAs, roles are confined, an orderly       *)
(* shutdown closes the database under nobody, and the replica is of the    *)
(* database that is open.                                                  *)
(***************************************************************************)
EXTENDS Process, FiniteSetTheorems, NaturalsInduction, WellFoundedInduction, TLAPS

\* A statement is never taken for no statement, nor the PRAGMAs of a pool for a
\* closed connection.
LEMMA Distinct ==
  /\ \A pool \in Pools : \A role, actions, prepared, pragmas :
        [pool |-> pool, role |-> role, actions |-> actions, prepared |-> prepared,
         pragmas |-> pragmas] # NoStmt
  /\ \A c, pool : Pragmas(c, pool) # Closed
  <1>1. ASSUME NEW pool \in Pools, NEW role, NEW actions, NEW prepared, NEW pragmas
        PROVE  [pool |-> pool, role |-> role, actions |-> actions, prepared |-> prepared,
                pragmas |-> pragmas] # NoStmt
    <2> DEFINE s == [pool |-> pool, role |-> role, actions |-> actions, prepared |-> prepared,
                     pragmas |-> pragmas]
    <2>1. s.pool = pool /\ NoStmt.pool = "none" /\ pool # "none"
      BY DEF NoStmt, Pools
    <2> QED
      BY <2>1
  <1>2. ASSUME NEW c, NEW pool PROVE Pragmas(c, pool) # Closed
    <2>1. <<"JOURNAL_MODE", "WAL">> \in Pragmas(c, pool)
      BY DEF Pragmas
    <2> QED
      BY <2>1 DEF Closed
  <1> QED
    BY <1>1, <1>2

\* The statement in progress has a pool.
LEMMA StatementPool ==
  ASSUME AsPrepared
  PROVE  stmt.pool \in Pools /\ stmt.pragmas = Pragmas(conf, stmt.pool) /\ stmt # NoStmt
  BY Distinct DEF AsPrepared

\* Nothing is started before the configuration is parsed.
LEMMA NextConfParsed == ASSUME ConfParsed, [Next]_vars PROVE ConfParsed'
  <1> USE DEF ConfParsed, Early
  <1>1. CASE MustParse
    BY <1>1 DEF MustParse, Goto, Exit, serveVars
  <1>2. CASE UNCHANGED <<conf, main, monitor>>
    BY <1>2
  <1>3. CASE EntryRefuses \/ EntryPlans \/ prepareRuntimePaths
    BY <1>3 DEF EntryRefuses, EntryPlans, prepareRuntimePaths, Goto, Exit, bootVars, serveVars
  <1>4. CASE NewDBRefuses \/ MainWakes \/ StopReturns \/ RunReturns \/ ClosePools
    BY <1>4 DEF NewDBRefuses, MainWakes, StopReturns, RunReturns, ClosePools, Goto, Exit, bootVars,
                serveVars
  <1>5. CASE NewDBOpens("rw", "openRW", "openRO") \/ NewDBOpens("ro", "openRO", "start")
    BY <1>5 DEF NewDBOpens, Goto, Exit, bootVars, serveVars
  <1>6. CASE StartGoroutines \/ Stop \/ CloseWaits
    BY <1>6 DEF StartGoroutines, Stop, CloseWaits, Goto, bootVars
  <1> QED
    BY <1>1, <1>2, <1>3, <1>4, <1>5, <1>6
    DEF Next, MainStep, StarterStep, RequestStep, StartAssigns, StartListens, StartReturns,
        ReturnConn, RequestEnds, Signal, RequestArrives, Exited, Prepare, vars, bootVars, serveVars

\* What a step does to the connections and to the statement in progress.
LEMMA ConnectionSteps ==
  ASSUME Connections, [Next]_vars
  PROVE  \/ UNCHANGED connVars
         \/ \E pool \in Pools : \E result \in newConn(pool) :
               /\ Connect(result) /\ UNCHANGED stmt
               /\ conn' = [conn EXCEPT ![pool] = result.pragmas]
               /\ \/ pool = "rw" /\ main = "openRW"
                  \/ pool = "ro" /\ main = "openRO"
               /\ main' = IF result.pragmas = Closed THEN "exited"
                          ELSE IF pool = "rw" THEN "openRO" ELSE "start"
         \/ /\ main = "start" /\ main' = "wait" /\ conn' = [conn EXCEPT !["ro"] = Closed]
            /\ handles' = handles - 1 /\ UNCHANGED <<stmt, leaked>>
         \/ ClosePools
         \/ \E pool \in Pools, role \in Roles, actions \in Statements : Prepare(pool, role, actions)
         \/ ReturnConn
  BY DEF Next, MainStep, StarterStep, RequestStep, EntryRefuses, EntryPlans, prepareRuntimePaths,
         MustParse, NewDBRefuses, NewDBOpens, StartGoroutines, MainWakes, Stop, StopReturns,
         CloseWaits, RunReturns, StartAssigns, StartListens, StartReturns, RequestEnds, Signal,
         RequestArrives, Exited, vars, connVars, Goto, Exit, Pools

\* The configuration only changes in MustParse.
LEMMA ConfSteps == ASSUME [Next]_vars PROVE MustParse \/ UNCHANGED conf
  BY DEF Next, MainStep, StarterStep, RequestStep, EntryRefuses, EntryPlans, prepareRuntimePaths,
         NewDBRefuses, NewDBOpens, StartGoroutines, MainWakes, Stop, StopReturns, CloseWaits,
         ClosePools, RunReturns, StartAssigns, StartListens, StartReturns, ReturnConn, RequestEnds,
         Signal, RequestArrives, Prepare, Exited, vars, bootVars

\* A connection has all its PRAGMAs or is closed, and a statement runs on one
\* that has them.
LEMMA NextConnections ==
  ASSUME Connections, Lifecycle, Handles, [Next]_vars PROVE Connections'
  <1>1. CASE MustParse
    <2>1. UNCHANGED <<conn, stmt>> /\ stmt = NoStmt
      BY <1>1 DEF MustParse, connVars, Lifecycle, Early
    <2>2. \A p \in Pools : conn[p] = Closed
      BY <1>1 DEF MustParse, Handles, Pools
    <2> QED
      BY <2>1, <2>2 DEF Connections
  <1>2. CASE UNCHANGED conf
    <2>0. /\ conn = [p \in Pools |-> conn[p]] /\ Pools = {"rw", "ro"}
          /\ \A p \in Pools : conn[p] \in {Closed, Pragmas(conf, p)}
          /\ stmt = NoStmt \/ AsPrepared
      BY DEF Connections, Pools
    <2>1. ASSUME NEW pool \in Pools, NEW v \in {Closed, Pragmas(conf, pool)},
                 conn' = [conn EXCEPT ![pool] = v]
          PROVE  /\ conn' \in [Pools -> {Closed, Pragmas(conf, "rw"), Pragmas(conf, "ro")}]
                 /\ \A p \in Pools : conn'[p] \in {Closed, Pragmas(conf, p)}
      BY <2>0, <2>1
    <2>2. UNCHANGED stmt => (stmt' = NoStmt \/ AsPrepared')
      BY <1>2, <2>0 DEF AsPrepared
    <2>3. CASE UNCHANGED connVars
      BY <1>2, <2>2, <2>3 DEF connVars, Connections
    <2>4. ASSUME NEW pool \in Pools, NEW result \in newConn(pool),
                 conn' = [conn EXCEPT ![pool] = result.pragmas], UNCHANGED stmt
          PROVE  Connections'
      <3>1. result.pragmas \in {Closed, Pragmas(conf, pool)}
        BY <2>4 DEF newConn
      <3> QED
        BY <1>2, <2>1, <2>2, <2>4, <3>1 DEF Connections
    <2>5. CASE conn' = [conn EXCEPT !["ro"] = Closed] /\ UNCHANGED stmt
      BY <1>2, <2>0, <2>1, <2>2, <2>5 DEF Connections
    <2>6. CASE ClosePools
      BY <1>2, <2>0, <2>2, <2>6 DEF ClosePools, Connections
    <2>7. ASSUME NEW pool \in Pools, NEW role \in Roles, NEW actions \in Statements,
                 Prepare(pool, role, actions)
          PROVE  Connections'
      <3>1. PICK result \in TakeConn(pool) :
               stmt' = IF result.pragmas = Closed THEN NoStmt
                       ELSE [pool |-> pool, role |-> role, actions |-> actions,
                             prepared |-> Permits(role, actions), pragmas |-> result.pragmas]
        BY <2>7 DEF Prepare
      <3>2. result.pragmas \in {Closed, Pragmas(conf, pool)}
        BY <2>0, <3>1 DEF TakeConn, newConn
      <3>3. stmt' = NoStmt \/ AsPrepared'
        BY <1>2, <3>1, <3>2 DEF AsPrepared
      <3>4. conn' = [conn EXCEPT ![pool] = Closed]
        BY <2>7 DEF Prepare
      <3> QED
        BY <1>2, <2>1, <3>3, <3>4 DEF Connections
    <2>8. CASE ReturnConn
      <3>1. stmt' = NoStmt /\ stmt.pool \in Pools /\ stmt.pragmas = Pragmas(conf, stmt.pool)
        BY <2>0, <2>8, StatementPool DEF ReturnConn
      <3>2. UNCHANGED conn \/ conn' = [conn EXCEPT ![stmt.pool] = stmt.pragmas]
        BY <2>8 DEF ReturnConn
      <3>3. PICK pool \in Pools : pool = stmt.pool
        BY <3>1
      <3> QED
        BY <1>2, <2>1, <3>1, <3>2, <3>3 DEF Connections
    <2> QED
      BY <2>3, <2>4, <2>5, <2>6, <2>7, <2>8, ConnectionSteps
  <1> QED
    BY <1>1, <1>2, ConfSteps

\* Stop finds the server that serves the requests, unless Start is late.
LEMMA NextLifecycle == ASSUME Lifecycle, [Next]_vars PROVE Lifecycle'
  <1> USE DEF Lifecycle, Early, Stopped
  <1>1. CASE EntryRefuses \/ EntryPlans \/ prepareRuntimePaths \/ MustParse
    BY <1>1 DEF EntryRefuses, EntryPlans, prepareRuntimePaths, MustParse, Goto, Exit, serveVars,
                connVars
  <1>2. CASE NewDBRefuses \/ MainWakes \/ StopReturns \/ RunReturns
    BY <1>2 DEF NewDBRefuses, MainWakes, StopReturns, RunReturns, Goto, Exit, serveVars, connVars
  <1>3. CASE NewDBOpens("rw", "openRW", "openRO") \/ NewDBOpens("ro", "openRO", "start")
    BY <1>3 DEF NewDBOpens, Goto, Exit, serveVars
  <1>4. CASE StartGoroutines \/ ClosePools
    BY <1>4 DEF StartGoroutines, ClosePools, Goto, serveVars
  <1>5. CASE Stop \/ CloseWaits
    BY <1>5 DEF Stop, CloseWaits, Goto, connVars
  <1>6. CASE StartListens \/ StartReturns \/ Signal
    BY <1>6 DEF StartListens, StartReturns, Signal, connVars
  <1>11. CASE StartAssigns
    <2>1. /\ starter = "assign" /\ main # "exited" /\ starter' = "listen" /\ httpServer' = "fresh"
          /\ UNCHANGED <<main, inflight, stmt>> /\ late' = (httpServer = "shutdown")
      BY <1>11 DEF StartAssigns, connVars
    <2>2. CASE httpServer = "shutdown"
      <3>1. late' = TRUE
        BY <2>1, <2>2
      <3> QED
        BY <2>1, <3>1
    <2>3. CASE httpServer # "shutdown"
      <3>1. late' = FALSE
        BY <2>1, <2>3
      <3> QED
        BY <2>1, <2>3, <3>1
    <2> QED
      BY <2>2, <2>3
  <1>7. CASE RequestArrives
    BY <1>7 DEF RequestArrives, connVars
  <1>8. CASE RequestEnds
    BY <1>8 DEF RequestEnds, connVars
  <1>9. ASSUME NEW pool \in Pools, NEW role \in Roles, NEW actions \in Statements,
               Prepare(pool, role, actions)
        PROVE  Lifecycle'
    BY <1>9 DEF Prepare, PoolsOpen, serveVars
  <1>10. CASE ReturnConn \/ Exited \/ UNCHANGED vars
    BY <1>10 DEF ReturnConn, Exited, vars, serveVars, connVars
  <1> HIDE DEF Lifecycle
  <1> QED
    BY <1>1, <1>2, <1>3, <1>4, <1>5, <1>6, <1>7, <1>8, <1>9, <1>10, <1>11
    DEF Next, MainStep, StarterStep, RequestStep

\* Where the main goroutine goes while the connections stay as they are.
LEMMA MainMoves ==
  ASSUME [Next]_vars
  PROVE  \/ UNCHANGED <<main, exit>>
         \/ main' = "exited" /\ (exit' = 1 \/ main = "closeStats")
         \/ main \in {"entry", "prepare", "parse"} /\ main' \in {"prepare", "parse", "openRW"}
         \/ main' \in {"wait", "stop", "drain", "close", "closePools"}
         \/ main = "openRW" /\ main' = "openRO"
         \/ NewDBOpens("ro", "openRO", "start") /\ main = "openRO" /\ main' = "start"
         \/ ClosePools /\ main' = "closeStats"
  BY DEF Next, MainStep, StarterStep, RequestStep, EntryRefuses, EntryPlans, prepareRuntimePaths,
         MustParse, NewDBRefuses, NewDBOpens, StartGoroutines, MainWakes, Stop, StopReturns,
         CloseWaits, ClosePools, RunReturns, StartAssigns, StartListens, StartReturns, ReturnConn,
         RequestEnds, Signal, RequestArrives, Prepare, Exited, vars, Goto, Exit

\* The number of connections that ClosePools closes.
LEMMA BusyCount ==
  ASSUME Connections
  PROVE  Cardinality({p \in Pools : conn[p] # Closed}) = Busy("rw") + Busy("ro")
  <1> DEFINE S == {p \in Pools : conn[p] # Closed}
  <1>1. CASE conn["rw"] = Closed /\ conn["ro"] = Closed
    <2>1. S = {}
      BY <1>1 DEF Pools
    <2> QED
      BY <1>1, <2>1, FS_EmptySet DEF Busy
  <1>2. CASE conn["rw"] # Closed /\ conn["ro"] = Closed
    <2>1. S = {"rw"}
      BY <1>2 DEF Pools
    <2> QED
      BY <1>2, <2>1, FS_Singleton DEF Busy
  <1>3. CASE conn["rw"] = Closed /\ conn["ro"] # Closed
    <2>1. S = {"ro"}
      BY <1>3 DEF Pools
    <2> QED
      BY <1>3, <2>1, FS_Singleton DEF Busy
  <1>4. CASE conn["rw"] # Closed /\ conn["ro"] # Closed
    <2>1. S = {"rw"} \cup {"ro"} /\ "ro" \notin {"rw"}
      BY <1>4 DEF Pools
    <2>2. IsFiniteSet({"rw"}) /\ Cardinality({"rw"}) = 1
      BY FS_Singleton
    <2>3. Cardinality(S) = 2
      BY <2>1, <2>2, FS_AddElement
    <2> QED
      BY <1>4, <2>3 DEF Busy
  <1> QED
    BY <1>1, <1>2, <1>3, <1>4

InUse == IF stmt = NoStmt THEN 0 ELSE 1

\* Every handle is accounted for.
LEMMA NextHandleCount ==
  ASSUME Connections, Lifecycle, Handles, [Next]_vars
  PROVE  handles' \in Int /\ leaked' \in Int
         /\ handles' = leaked' + Busy("rw")' + Busy("ro")' + InUse'
  <1>0. /\ conn = [p \in Pools |-> conn[p]] /\ Pools = {"rw", "ro"}
        /\ stmt = NoStmt \/ AsPrepared
    BY DEF Connections, Pools
  <1>1. /\ handles \in Int /\ leaked \in Int
        /\ handles = leaked + Busy("rw") + Busy("ro") + InUse
    BY DEF Handles, InUse
  <1>2. /\ Busy("rw") \in {0, 1} /\ Busy("ro") \in {0, 1} /\ InUse \in {0, 1}
        /\ Busy("rw")' \in {0, 1} /\ Busy("ro")' \in {0, 1} /\ InUse' \in {0, 1}
    BY DEF Busy, InUse
  <1>3. CASE UNCHANGED connVars
    BY <1>1, <1>3 DEF connVars, Busy, InUse
  <1>4. ASSUME NEW pool \in Pools, NEW result \in newConn(pool), Connect(result),
               conn' = [conn EXCEPT ![pool] = result.pragmas], UNCHANGED stmt,
               conn[pool] = Closed
        PROVE  handles' \in Int /\ leaked' \in Int
               /\ handles' = leaked' + Busy("rw")' + Busy("ro")' + InUse'
    <2>1. InUse' = InUse
      BY <1>4 DEF InUse
    <2>2. Busy(pool) = 0 /\ Busy(pool)' = IF result.pragmas = Closed THEN 0 ELSE 1
      BY <1>0, <1>4 DEF Busy
    <2>3. \A p \in Pools : p # pool => Busy(p)' = Busy(p)
      BY <1>0, <1>4 DEF Busy
    <2>4. /\ result.opened \in {0, 1} /\ result.leaked \in {0, 1}
          /\ result.opened = result.leaked + (IF result.pragmas = Closed THEN 0 ELSE 1)
      BY <1>4, Distinct DEF newConn
    <2>5. handles' = handles + result.opened /\ leaked' = leaked + result.leaked
      BY <1>4 DEF Connect
    <2>6. CASE pool = "rw"
      BY <1>0, <1>1, <1>2, <2>1, <2>2, <2>3, <2>4, <2>5, <2>6
    <2>7. CASE pool = "ro"
      BY <1>0, <1>1, <1>2, <2>1, <2>2, <2>3, <2>4, <2>5, <2>7
    <2> QED
      BY <1>0, <2>6, <2>7
  <1>5. CASE main = "start" /\ conn' = [conn EXCEPT !["ro"] = Closed] /\ handles' = handles - 1
             /\ UNCHANGED <<stmt, leaked>>
    <2>1. Busy("ro") = 1
      BY <1>5 DEF Busy, Handles
    <2>2. Busy("ro")' = 0 /\ Busy("rw")' = Busy("rw")
      BY <1>0, <1>5 DEF Busy
    <2>3. InUse' = InUse
      BY <1>5 DEF InUse
    <2> QED
      BY <1>1, <1>2, <1>5, <2>1, <2>2, <2>3
  <1>6. CASE ClosePools
    <2>1. handles' = handles - (Busy("rw") + Busy("ro")) /\ UNCHANGED <<stmt, leaked>>
      BY <1>6, BusyCount DEF ClosePools
    <2>2. Busy("rw")' = 0 /\ Busy("ro")' = 0
      BY <1>0, <1>6 DEF Busy, ClosePools
    <2>3. InUse' = InUse
      BY <2>1 DEF InUse
    <2> QED
      BY <1>1, <1>2, <2>1, <2>2, <2>3
  <1>7. ASSUME NEW pool \in Pools, NEW role \in Roles, NEW actions \in Statements,
               Prepare(pool, role, actions)
        PROVE  handles' \in Int /\ leaked' \in Int
               /\ handles' = leaked' + Busy("rw")' + Busy("ro")' + InUse'
    <2>1. PICK result \in TakeConn(pool) :
             /\ Connect(result)
             /\ stmt' = IF result.pragmas = Closed THEN NoStmt
                        ELSE [pool |-> pool, role |-> role, actions |-> actions,
                              prepared |-> Permits(role, actions), pragmas |-> result.pragmas]
      BY <1>7 DEF Prepare
    <2>2. InUse = 0 /\ conn' = [conn EXCEPT ![pool] = Closed]
      BY <1>7 DEF Prepare, InUse
    <2>3. InUse' = IF result.pragmas = Closed THEN 0 ELSE 1
      BY <2>1, Distinct DEF InUse
    <2>4. Busy(pool)' = 0 /\ \A p \in Pools : p # pool => Busy(p)' = Busy(p)
      BY <1>0, <2>2 DEF Busy
    <2>5. /\ result.opened \in {0, 1} /\ result.leaked \in {0, 1}
          /\ result.opened + Busy(pool) = result.leaked + InUse'
      <3>1. CASE conn[pool] = Closed
        BY <2>1, <2>3, <3>1, Distinct DEF TakeConn, newConn, Busy
      <3>2. CASE conn[pool] # Closed
        BY <2>1, <2>3, <3>2 DEF TakeConn, Busy
      <3> QED
        BY <3>1, <3>2
    <2>6. handles' = handles + result.opened /\ leaked' = leaked + result.leaked
      BY <2>1 DEF Connect
    <2>7. CASE pool = "rw"
      BY <1>0, <1>1, <1>2, <2>2, <2>4, <2>5, <2>6, <2>7
    <2>8. CASE pool = "ro"
      BY <1>0, <1>1, <1>2, <2>2, <2>4, <2>5, <2>6, <2>8
    <2> QED
      BY <1>0, <2>7, <2>8
  <1>8. CASE ReturnConn
    <2>1. PICK pool \in Pools : pool = stmt.pool
      BY <1>0, <1>8, StatementPool DEF ReturnConn
    <2>2. stmt.pragmas = Pragmas(conf, pool) /\ Pragmas(conf, pool) # Closed
      BY <1>0, <1>8, <2>1, StatementPool, Distinct DEF ReturnConn
    <2>3. InUse = 1 /\ InUse' = 0 /\ conn[pool] = Closed /\ UNCHANGED leaked
      BY <1>8, <2>1 DEF ReturnConn, InUse, Handles
    <2>4. CASE conn' = [conn EXCEPT ![pool] = stmt.pragmas] /\ UNCHANGED handles
      <3>1. Busy(pool) = 0 /\ Busy(pool)' = 1 /\ \A p \in Pools : p # pool => Busy(p)' = Busy(p)
        BY <1>0, <2>2, <2>3, <2>4 DEF Busy
      <3>2. CASE pool = "rw"
        BY <1>0, <1>1, <1>2, <2>3, <2>4, <3>1, <3>2
      <3>3. CASE pool = "ro"
        BY <1>0, <1>1, <1>2, <2>3, <2>4, <3>1, <3>3
      <3> QED
        BY <1>0, <3>2, <3>3
    <2>5. CASE handles' = handles - 1 /\ UNCHANGED conn
      <3>1. Busy("rw")' = Busy("rw") /\ Busy("ro")' = Busy("ro")
        BY <2>5 DEF Busy
      <3> QED
        BY <1>1, <1>2, <2>3, <2>5, <3>1
    <2> QED
      BY <1>8, <2>1, <2>4, <2>5 DEF ReturnConn
  <1> QED
    BY <1>3, <1>4, <1>5, <1>6, <1>7, <1>8, ConnectionSteps DEF Handles

\* Which connections there are at each place of the main goroutine.
LEMMA NextHandles ==
  ASSUME Connections, Lifecycle, Handles, [Next]_vars PROVE Handles'
  <1>0. /\ conn = [p \in Pools |-> conn[p]] /\ Pools = {"rw", "ro"}
        /\ stmt = NoStmt \/ AsPrepared
    BY DEF Connections, Pools
  <1>1. /\ handles' \in Int /\ leaked' \in Int
        /\ handles' = leaked' + Busy("rw")' + Busy("ro")' + (IF stmt' = NoStmt THEN 0 ELSE 1)
    BY NextHandleCount DEF InUse
  <1>2. main \in Early => stmt = NoStmt /\ inflight = 0
    BY DEF Lifecycle, Early
  <1>3. stmt' # NoStmt => conn'[stmt'.pool] = Closed
    <2>1. CASE UNCHANGED connVars
      BY <2>1 DEF Handles, connVars
    <2>2. CASE main \in Early /\ UNCHANGED stmt
      BY <1>2, <2>2
    <2>3. CASE ClosePools
      <3>1. UNCHANGED stmt /\ conn' = [p \in Pools |-> Closed]
        BY <2>3 DEF ClosePools
      <3>2. stmt # NoStmt => stmt.pool \in Pools
        BY <1>0, StatementPool
      <3> QED
        BY <3>1, <3>2
    <2>4. ASSUME NEW pool \in Pools, NEW role \in Roles, NEW actions \in Statements,
                 Prepare(pool, role, actions), stmt' # NoStmt
          PROVE  conn'[stmt'.pool] = Closed
      <3>1. stmt'.pool = pool /\ conn' = [conn EXCEPT ![pool] = Closed]
        BY <2>4 DEF Prepare
      <3> QED
        BY <1>0, <3>1
    <2>5. CASE ReturnConn
      BY <2>5 DEF ReturnConn
    <2> QED
      BY <2>1, <2>2, <2>3, <2>4, <2>5, ConnectionSteps DEF Early
  <1>4. /\ main \in {"entry", "prepare", "parse", "closeStats", "exited"} => UNCHANGED conn
        /\ main = "openRW" => /\ conn'["ro"] = conn["ro"]
                              /\ UNCHANGED conn \/ main' \in {"openRO", "exited"}
        /\ main = "openRO" => UNCHANGED conn \/ main' \in {"start", "exited"}
        /\ main = "start" => UNCHANGED conn \/ main' = "wait"
    <2>1. CASE UNCHANGED connVars
      BY <2>1 DEF connVars
    <2>2. ASSUME NEW pool \in Pools, NEW result \in newConn(pool),
                 conn' = [conn EXCEPT ![pool] = result.pragmas],
                 \/ pool = "rw" /\ main = "openRW"
                 \/ pool = "ro" /\ main = "openRO",
                 main' = IF result.pragmas = Closed THEN "exited"
                         ELSE IF pool = "rw" THEN "openRO" ELSE "start"
          PROVE  \/ main = "openRW" /\ conn'["ro"] = conn["ro"] /\ main' \in {"openRO", "exited"}
                 \/ main = "openRO" /\ main' \in {"start", "exited"}
      BY <1>0, <2>2
    <2>3. CASE ClosePools
      BY <2>3 DEF ClosePools
    <2>4. ASSUME NEW pool \in Pools, NEW role \in Roles, NEW actions \in Statements,
                 Prepare(pool, role, actions)
          PROVE  main \notin Early \cup {"closeStats", "exited"}
      BY <1>2, <2>4 DEF Prepare, PoolsOpen
    <2>5. ASSUME ReturnConn
          PROVE  main \notin Early /\ (main \in {"closeStats", "exited"} => UNCHANGED conn)
      BY <1>2, <2>5 DEF ReturnConn, PoolsOpen
    <2> QED
      BY <2>1, <2>2, <2>3, <2>4, <2>5, ConnectionSteps DEF Early
  <1>5. main' \in {"entry", "prepare", "parse", "openRW"} =>
           conn'["rw"] = Closed /\ conn'["ro"] = Closed
    <2>1. main' \in {"entry", "prepare", "parse", "openRW"} =>
             main \in {"entry", "prepare", "parse", "openRW"}
      BY MainMoves
    <2> QED
      BY <1>4, <2>1 DEF Handles
  <1>6. main' = "openRO" => conn'["ro"] = Closed
    <2>1. main' = "openRO" => main \in {"openRW", "openRO"}
      BY MainMoves
    <2> QED
      BY <1>4, <2>1 DEF Handles
  <1>7. main' = "start" => conn'["ro"] # Closed
    <2>1. CASE main = "start"
      BY <1>4, <2>1 DEF Handles
    <2>2. CASE NewDBOpens("ro", "openRO", "start") /\ main' = "start"
      <3>1. PICK result \in newConn("ro") :
               /\ conn' = [conn EXCEPT !["ro"] = result.pragmas]
               /\ result.pragmas # Closed
        BY <2>2 DEF NewDBOpens, Exit
      <3> QED
        BY <1>0, <3>1
    <2> QED
      BY <2>1, <2>2, MainMoves
  <1>8. main' = "closeStats" \/ (main' = "exited" /\ exit' = 0) =>
           \A p \in Pools : conn'[p] = Closed
    <2>1. CASE ClosePools
      BY <2>1 DEF ClosePools
    <2>2. CASE main = "closeStats" \/ (main = "exited" /\ exit = 0)
      BY <1>4, <2>2 DEF Handles
    <2> QED
      BY <2>1, <2>2, MainMoves
  <1> QED
    BY <1>1, <1>3, <1>5, <1>6, <1>7, <1>8 DEF Handles, Busy

\* ProcessInv holds in every reachable state of Process.
THEOREM ProcessDiscipline == Spec => []ProcessInv
  <1>1. Init => ProcessInv
    <2> SUFFICES ASSUME Init PROVE ProcessInv
      OBVIOUS
    <2>1. ConfParsed /\ Lifecycle
      BY DEF Init, ConfParsed, Lifecycle, Early, Stopped
    <2>2. Connections /\ Handles
      BY DEF Init, Connections, Handles, Pools, Busy
    <2> QED
      BY <2>1, <2>2 DEF ProcessInv
  <1>2. ProcessInv /\ [Next]_vars => ProcessInv'
    BY NextConfParsed, NextConnections, NextLifecycle, NextHandles DEF ProcessInv
  <1> QED
    BY <1>1, <1>2, PTL DEF Spec

\* The idle monitor only ever gets a timeout greater than zero, and every
\* statement runs on a connection with all the configured settings, whichever
\* connections fail to open and in which order they are made; it waits for locks
\* if the configured busy timeout is a millisecond at least.
THEOREM ConfiguredFirst == Spec => []ConfiguredBeforeUse
  <1>1. ProcessInv => ConfiguredBeforeUse
    <2> SUFFICES ASSUME ProcessInv PROVE ConfiguredBeforeUse
      OBVIOUS
    <2>1. monitor # "none" => conf.txIdleTimeout > 0 /\ conf.busyTimeout \in Nat
      BY DEF ProcessInv, ConfParsed, Parses
    <2>2. stmt # NoStmt => stmt.pragmas = Pragmas(conf, stmt.pool)
      BY StatementPool DEF ProcessInv, Connections
    <2>3. ASSUME stmt # NoStmt, conf.busyTimeout >= 1000 PROVE Waits
      <3>1. conf.busyTimeout \in Nat
        BY <2>1, <2>3 DEF ProcessInv, Lifecycle
      <3>2. conf.busyTimeout \div 1000 > 0
        BY <2>3, <3>1
      <3>3. <<"BUSY_TIMEOUT", conf.busyTimeout \div 1000>> \in stmt.pragmas
        BY <2>2, <2>3 DEF Pragmas
      <3> QED
        BY <3>2, <3>3 DEF Waits
    <2> QED
      BY <2>1, <2>2, <2>3 DEF ConfiguredBeforeUse
  <1> QED
    BY <1>1, ProcessDiscipline, PTL

\* No request is being served when DB.Close runs, and every connection is closed
\* at exit but those that newConn drops, unless a signal came before Start had
\* stored its http.Server.
THEOREM ShutdownIsOrderly == Spec => []OrderlyShutdown
  <1>1. ProcessInv => OrderlyShutdown
    <2> SUFFICES ASSUME ProcessInv, ~late PROVE OrderlyShutdown
      BY DEF OrderlyShutdown
    <2>1. main \in Stopped => inflight = 0 /\ stmt = NoStmt
      BY DEF ProcessInv, Lifecycle
    <2>2. main = "exited" /\ exit = 0 => handles = leaked
      <3> SUFFICES ASSUME main = "exited", exit = 0 PROVE handles = leaked
        OBVIOUS
      <3>1. Busy("rw") = 0 /\ Busy("ro") = 0
        BY DEF ProcessInv, Handles, Pools, Busy
      <3>2. stmt = NoStmt
        BY <2>1 DEF Stopped
      <3>3. handles = leaked + 0 + 0 + 0 /\ leaked \in Int
        BY <3>1, <3>2 DEF ProcessInv, Handles
      <3> QED
        BY <3>3
    <2> QED
      BY <2>1, <2>2 DEF OrderlyShutdown, Stopped
  <1> QED
    BY <1>1, ProcessDiscipline, PTL
-----------------------------------------------------------------------------
\* The authorizer.

\* What the read-only role may do is among the reads.
LEMMA ReadOnlyActions ==
  ASSUME NEW a, Authorize("ro", a)
  PROVE  a \notin Mutating \cup {<<"function", "unlisted">>} /\ Authorize("rw", a)
  <1>1. ReadAction(a)
    BY DEF Authorize
  <1>2. a \notin TableActions
    BY <1>1 DEF ReadAction, TableActions
  <1>3. a \notin {<<"pragma", "statelessSet">>, <<"pragma", "other">>, <<"function", "unlisted">>}
    BY <1>1 DEF ReadAction, IsReadonlyPragma, IsAllowedFunction
  <1>4. a \notin {"transaction", "savepoint", "createTable", "dropTable", "alterTable",
                  "attach", "detach"} \X {"any"}
    BY <1>1 DEF ReadAction
  <1> QED
    BY <1>1, <1>2, <1>3, <1>4 DEF Mutating, Authorize

\* What the read-write role may do beyond the reads.
LEMMA ReadWriteActions ==
  ASSUME NEW a, Authorize("rw", a), a \in Mutating
  PROVE  a \in ({"insert", "update", "delete"} \X {"user"})
               \cup ({"transaction", "savepoint"} \X {"any"})
  <1>1. \/ ReadAction(a)
        \/ a[1] \in {"transaction", "savepoint"}
        \/ a[1] \in {"insert", "update", "delete"} /\ ~IsInternalTable(a[2])
    BY DEF Authorize
  <1>2. CASE a \in TableActions
    BY <1>1, <1>2 DEF TableActions, ReadAction, IsInternalTable
  <1>3. CASE a \in {<<"pragma", "statelessSet">>, <<"pragma", "other">>}
    BY <1>1, <1>3 DEF ReadAction, IsReadonlyPragma
  <1>4. CASE a \in {"transaction", "savepoint", "createTable", "dropTable", "alterTable",
                    "attach", "detach"} \X {"any"}
    BY <1>1, <1>4 DEF ReadAction
  <1> QED
    BY <1>2, <1>3, <1>4 DEF Mutating

\* No statement of a role does what the role must not, whatever actions it
\* combines: the read-only role changes nothing, the read-write role only rows
\* of user tables.
THEOREM RolesConfined == Spec => []RolesAreConfined
  <1>1. ProcessInv => RolesAreConfined
    <2> SUFFICES ASSUME ProcessInv, stmt # NoStmt PROVE RolesAreConfined
      BY DEF RolesAreConfined, Prepared
    <2>1. PICK role \in Roles, actions \in Statements :
             stmt.role = role /\ stmt.actions = actions /\ stmt.prepared = Permits(role, actions)
      BY DEF ProcessInv, Connections, AsPrepared
    <2>2. ASSUME Prepared("ro")
          PROVE  /\ stmt.actions \cap (Mutating \cup {<<"function", "unlisted">>}) = {}
                 /\ Permits("rw", stmt.actions)
      <3>1. \A a \in stmt.actions : Authorize("ro", a)
        BY <2>1, <2>2 DEF Prepared, Permits
      <3> QED
        BY <3>1, ReadOnlyActions DEF Permits
    <2>3. ASSUME Prepared("rw")
          PROVE  /\ stmt.actions \cap Mutating \subseteq
                       ({"insert", "update", "delete"} \X {"user"})
                       \cup ({"transaction", "savepoint"} \X {"any"})
                 /\ Permits("admin", stmt.actions)
      <3>1. \A a \in stmt.actions : Authorize("rw", a)
        BY <2>1, <2>3 DEF Prepared, Permits
      <3>2. \A a \in stmt.actions : Authorize("admin", a)
        BY DEF Authorize
      <3> QED
        BY <3>1, <3>2, ReadWriteActions DEF Permits
    <2> QED
      BY <2>2, <2>3 DEF RolesAreConfined
  <1> QED
    BY <1>1, ProcessDiscipline, PTL
-----------------------------------------------------------------------------
\* The replica.

\* Max of the places of some pieces of a string is one of them.
LEMMA LastPlace ==
  ASSUME NEW Piece, NEW d \in Seq(Piece), NEW S \in SUBSET DOMAIN d, S # {}
  PROVE  Max(S) \in S /\ \A i \in S : i <= Max(S)
  <1> DEFINE n == Len(d)
             T == {n - i : i \in S}
             lt == {ss \in Nat \X Nat : ss[1] < ss[2]}
  <1>1. n \in Nat /\ \A i \in S : i \in 1 .. n
    OBVIOUS
  <1>2. T \subseteq Nat /\ T # {}
    BY <1>1
  <1>3. \E t \in T : \A u \in T : ~(<<u, t>> \in lt)
    <2>1. IsWellFoundedOn(lt, Nat)
      BY NatLessThanWellFounded DEF OpToRel
    <2> HIDE DEF lt, T
    <2> QED
      BY <1>2, <2>1, WFMin
  <1>4. PICK t \in T : \A u \in T : ~(u < t)
    BY <1>2, <1>3
  <1>5. PICK m \in S : t = n - m
    BY <1>4
  <1>6. ASSUME NEW i \in S PROVE m >= i
    <2>1. n - i \in T /\ ~(n - i < n - m)
      BY <1>4, <1>5
    <2> QED
      BY <1>1, <2>1
  <1>7. \E x \in S : \A y \in S : x >= y
    BY <1>6
  <1>8. Max(S) \in S /\ \A i \in S : Max(S) >= i
    BY <1>7 DEF Max
  <1> QED
    BY <1>1, <1>8

\* Slashes at the end of a directory do not change the path below it.
LEMMA JoinTrimmed ==
  ASSUME NEW Piece, NEW d \in Seq(Piece), TrimRight(d, "/") # <<>>
  PROVE  Join(TrimRight(d, "/")) = Join(d)
  <1> DEFINE m == Max(Names(d))
             t == SubSeq(d, 1, m)
  <1>1. Names(d) # {} /\ TrimRight(d, "/") = t
    BY DEF TrimRight, Names
  <1>2. m \in Names(d) /\ \A i \in Names(d) : i <= m
    BY <1>1, LastPlace DEF Names
  <1>3. m \in 1 .. Len(d) /\ Names(d) \subseteq 1 .. m
    BY <1>2 DEF Names
  <1>4. t \in Seq(Piece) /\ Len(t) = m /\ \A i \in 1 .. m : t[i] = d[i]
    BY <1>3
  <1> HIDE DEF t, m
  <1>5. Names(t) = Names(d)
    BY <1>3, <1>4 DEF Names
  <1>6. \A i \in Names(d) : t[i] = d[i]
    BY <1>3, <1>4
  <1>7. (t # <<>> /\ Head(t) = "/") <=> (d # <<>> /\ Head(d) = "/")
    BY <1>3, <1>4
  <1>8. {<<Cardinality({j \in Names(t) : j <= i}), t[i]>> : i \in Names(t)}
          = {<<Cardinality({j \in Names(d) : j <= i}), d[i]>> : i \in Names(d)}
    BY <1>5, <1>6
  <1> QED
    BY <1>1, <1>5, <1>7, <1>8 DEF Join

\* What the plan of an accepted environment is.
LEMMA PlanOf ==
  ASSUME NEW e, ~PlanRefused(e), buildEntrypointPlan(e).replicate
  PROVE  /\ RequiredSet(e)
         /\ buildEntrypointPlan(e).config.database
              = resolveDatabasePath(defaultValue(e, "dataDir", <<"/", "data">>))
         /\ \A key \in {"bucket", "endpoint", "region"} :
               buildEntrypointPlan(e).config[key] = Trimmed(e, key)
         /\ buildEntrypointPlan(e).env["AWS_ACCESS_KEY_ID"] = Trimmed(e, "accessKey")
         /\ buildEntrypointPlan(e).env["AWS_SECRET_ACCESS_KEY"] = Trimmed(e, "secretKey")
         /\ Trimmed(e, "session") # <<>> =>
               buildEntrypointPlan(e).env["AWS_SESSION_TOKEN"] = Trimmed(e, "session")
         /\ "dataDir" \in DOMAIN buildEntrypointPlan(e).env <=> "dataDir" \in DOMAIN e
         /\ "dataDir" \in DOMAIN e => buildEntrypointPlan(e).env["dataDir"] = e["dataDir"]
  <1> DEFINE s == loadLitestreamSettings(e)
             x == execEnvironment(s)
             path == resolveDatabasePath(defaultValue(e, "dataDir", <<"/", "data">>))
  <1>1. buildEntrypointPlan(e) =
           [replicate |-> TRUE, configPath |-> s.configPath,
            config |-> renderLitestreamConfig(path, s), env |-> mergeExecEnvironment(e, x)]
    BY DEF buildEntrypointPlan, NoReplica
  <1>2. RequiredSet(e)
    BY DEF PlanRefused, LitestreamEnabled, buildEntrypointPlan, NoReplica
  <1>3. /\ s.bucket = Trimmed(e, "bucket") /\ s.endpoint = Trimmed(e, "endpoint")
        /\ s.region = Trimmed(e, "region") /\ s.accessKey = Trimmed(e, "accessKey")
        /\ s.secretKey = Trimmed(e, "secretKey") /\ s.session = Trimmed(e, "session")
    BY DEF loadLitestreamSettings, Required, Tuning
  <1>4. /\ DOMAIN x \subseteq {"AWS_ACCESS_KEY_ID", "AWS_SECRET_ACCESS_KEY", "AWS_SESSION_TOKEN"}
        /\ "AWS_ACCESS_KEY_ID" \in DOMAIN x /\ x["AWS_ACCESS_KEY_ID"] = s.accessKey
        /\ "AWS_SECRET_ACCESS_KEY" \in DOMAIN x /\ x["AWS_SECRET_ACCESS_KEY"] = s.secretKey
        /\ s.session # <<>> =>
              "AWS_SESSION_TOKEN" \in DOMAIN x /\ x["AWS_SESSION_TOKEN"] = s.session
    BY DEF execEnvironment
  <1> HIDE DEF s, x, path
  <1>5. /\ mergeExecEnvironment(e, x)["AWS_ACCESS_KEY_ID"] = s.accessKey
        /\ mergeExecEnvironment(e, x)["AWS_SECRET_ACCESS_KEY"] = s.secretKey
        /\ s.session # <<>> => mergeExecEnvironment(e, x)["AWS_SESSION_TOKEN"] = s.session
        /\ "dataDir" \in DOMAIN mergeExecEnvironment(e, x) <=> "dataDir" \in DOMAIN e
        /\ "dataDir" \in DOMAIN e => mergeExecEnvironment(e, x)["dataDir"] = e["dataDir"]
    BY <1>4 DEF mergeExecEnvironment
  <1>6. /\ renderLitestreamConfig(path, s).database = path
        /\ renderLitestreamConfig(path, s)["bucket"] = s.bucket
        /\ renderLitestreamConfig(path, s)["endpoint"] = s.endpoint
        /\ renderLitestreamConfig(path, s)["region"] = s.region
    BY DEF renderLitestreamConfig
  <1> QED
    BY <1>1, <1>2, <1>3, <1>5, <1>6 DEF path

\* The directory that cmd/nsqlite reads without a flag.
LEMMA ConfiguredDir ==
  ASSUME NEW e, NEW f, "dataDir" \notin DOMAIN f
  PROVE  Config(e, f).dataDir
           = IF "dataDir" \in DOMAIN e THEN e["dataDir"] ELSE <<"/", "data">>
  BY DEF Config, Defaults

\* Both programs arrive at the same file.
LEMMA SameDatabase ==
  ASSUME NEW e \in Environments, "dataDir" \in DOMAIN e =>
            TrimSpace(e["dataDir"]) = e["dataDir"] /\ TrimRight(e["dataDir"], "/") # <<>>
  PROVE  resolveDatabasePath(defaultValue(e, "dataDir", <<"/", "data">>))
           = Join(IF "dataDir" \in DOMAIN e THEN e["dataDir"] ELSE <<"/", "data">>)
  <1> DEFINE d == IF "dataDir" \in DOMAIN e THEN e["dataDir"] ELSE <<"/", "data">>
  <1>1. PICK Piece : d \in Seq(Piece)
    <2>1. <<"/", "data">> \in Seq({"/", "data"})
      OBVIOUS
    <2>2. "dataDir" \in DOMAIN e => e["dataDir"] \in Seq(STRING)
      BY ProcessAssumption
    <2> QED
      BY <2>1, <2>2
  <1>2. TrimRight(d, "/") # <<>>
    <2>1. CASE "dataDir" \in DOMAIN e
      BY <2>1
    <2>2. CASE "dataDir" \notin DOMAIN e
      <3>1. d = <<"/", "data">> /\ Names(d) = {2}
        BY <2>2 DEF Names
      <3>2. Max({2}) = 2
        BY DEF Max
      <3>3. TrimRight(d, "/") = SubSeq(d, 1, 2)
        BY <3>1, <3>2 DEF TrimRight, Names
      <3>4. Len(SubSeq(d, 1, 2)) = 2
        BY <3>1
      <3> QED
        BY <3>3, <3>4
    <2> QED
      BY <2>1, <2>2
  <1>3. defaultValue(e, "dataDir", <<"/", "data">>) = d
    <2>1. CASE "dataDir" \in DOMAIN e
      <3>1. TrimRight(<<>>, "/") = <<>>
        BY DEF TrimRight
      <3>2. d # <<>> /\ TrimSpace(e["dataDir"]) = d
        BY <1>2, <2>1, <3>1
      <3> QED
        BY <2>1, <3>2 DEF defaultValue, Trimmed
    <2>2. CASE "dataDir" \notin DOMAIN e
      BY <2>2 DEF defaultValue, Trimmed
    <2> QED
      BY <2>1, <2>2
  <1> HIDE DEF d
  <1>4. resolveDatabasePath(d) = Join(d)
    BY <1>1, <1>2, JoinTrimmed DEF resolveDatabasePath
  <1> QED
    BY <1>3, <1>4 DEF d

\* The plan, the configuration and the database agree at every place.
LEMMA NextReplicated == ASSUME Replicated, [Next]_vars PROVE Replicated'
  <1> USE DEF Replicated
  <1>1. CASE EntryPlans
    <2>1. /\ main = "entry" /\ ~PlanRefused(env) /\ plan' = buildEntrypointPlan(env)
          /\ main' \in {"prepare", "parse", "exited"} /\ UNCHANGED <<env, flags, conf, opened>>
      BY <1>1 DEF EntryPlans, Goto, Exit
    <2> QED
      BY <2>1
  <1>2. CASE MustParse
    <2>1. /\ main = "parse" /\ UNCHANGED <<env, flags, plan, opened>>
          /\ \/ main' = "exited"
             \/ conf' = Config(IF plan.replicate THEN plan.env ELSE env, flags)
      BY <1>2 DEF MustParse, Goto, Exit
    <2>2. main' \in {"exited", "openRW"}
      BY <1>2 DEF MustParse, Goto, Exit
    <2> QED
      BY <2>1, <2>2
  <1>3. CASE NewDBOpens("rw", "openRW", "openRO") \/ NewDBOpens("ro", "openRO", "start")
    <2>1. /\ main \in {"openRW", "openRO"} /\ main' \in {"openRO", "start", "exited"}
          /\ opened' = Join(conf.dataDir) /\ UNCHANGED <<env, flags, plan, conf>>
      BY <1>3 DEF NewDBOpens, Goto, Exit, bootVars
    <2> QED
      BY <2>1
  <1>4. CASE EntryRefuses \/ prepareRuntimePaths \/ NewDBRefuses
    <2>1. /\ UNCHANGED <<env, flags, plan, conf, opened>>
          /\ main' = "exited" \/ (main = "prepare" /\ main' = "parse")
      BY <1>4 DEF EntryRefuses, prepareRuntimePaths, NewDBRefuses, Goto, Exit, bootVars
    <2> QED
      BY <2>1
  <1>5. CASE StartGoroutines \/ MainWakes \/ Stop \/ StopReturns \/ CloseWaits \/ ClosePools
             \/ RunReturns
    <2>1. /\ UNCHANGED <<env, flags, plan, conf, opened>>
          /\ main \notin {"entry", "prepare", "parse", "exited"}
          /\ main' \notin {"entry", "prepare", "parse"}
      BY <1>5 DEF StartGoroutines, MainWakes, Stop, StopReturns, CloseWaits, ClosePools, RunReturns,
                  Goto, Exit, bootVars
    <2> QED
      BY <2>1
  <1>6. CASE UNCHANGED <<env, flags, plan, conf, opened, main>>
    BY <1>6
  <1> HIDE DEF Replicated
  <1> QED
    BY <1>1, <1>2, <1>3, <1>4, <1>5, <1>6
    DEF Next, MainStep, StarterStep, RequestStep, StartAssigns, StartListens, StartReturns,
        ReturnConn, RequestEnds, Signal, RequestArrives, Exited, Prepare, vars, bootVars

\* Litestream replicates the file that NSQLite opens, to the configured place and
\* with the key, the secret and the session token that are configured, for every environment with a plainly written
\* directory and every command line that leaves the directory alone.
THEOREM ReplicaAgrees == Spec => []ReplicaIsOurs
  <1>1. Init => Replicated
    BY DEF Init, Replicated
  <1>2. Replicated /\ [Next]_vars => Replicated'
    BY NextReplicated
  <1>3. Replicated => ReplicaIsOurs
    <2> SUFFICES ASSUME Replicated, plan.replicate PROVE ReplicaIsOurs
      BY DEF ReplicaIsOurs
    <2>1. env \in Environments /\ ~PlanRefused(env) /\ plan = buildEntrypointPlan(env)
      BY DEF Replicated, NoReplica
    <2>2. \A key \in Required : key \in DOMAIN env /\ Trimmed(env, key) = TrimSpace(env[key])
                                /\ Trimmed(env, key) # <<>>
      BY <2>1, PlanOf DEF RequiredSet, Trimmed
    <2>3. \A key \in {"bucket", "endpoint", "region"} : plan.config[key] # <<>>
      BY <2>1, <2>2, PlanOf DEF Required
    <2>4. /\ plan.env["AWS_ACCESS_KEY_ID"] = Trimmed(env, "accessKey")
          /\ plan.env["AWS_SECRET_ACCESS_KEY"] = Trimmed(env, "secretKey")
          /\ Trimmed(env, "session") # <<>> =>
                plan.env["AWS_SESSION_TOKEN"] = Trimmed(env, "session")
      BY <2>1, PlanOf
    <2>5. ASSUME opened # NoPath, "dataDir" \notin DOMAIN flags, PlainDir
          PROVE  plan.config.database = opened
      <3>1. conf = Config(plan.env, flags) /\ opened = Join(conf.dataDir)
        BY <2>5 DEF Replicated
      <3>2. conf.dataDir = IF "dataDir" \in DOMAIN env THEN env["dataDir"] ELSE <<"/", "data">>
        BY <2>1, <2>5, <3>1, ConfiguredDir, PlanOf
      <3>3. plan.config.database = Join(conf.dataDir)
        BY <2>1, <2>5, <3>2, PlanOf, SameDatabase DEF PlainDir
      <3> QED
        BY <3>1, <3>3
    <2> QED
      BY <2>3, <2>4, <2>5 DEF ReplicaIsOurs
  <1> QED
    BY <1>1, <1>2, <1>3, PTL DEF Spec
=============================================================================
