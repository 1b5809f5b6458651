-------------------------------- MODULE RPC ---------------------------------
(***************************************************************************)
(* One request from its body to its answer: the dispatch of the generated  *)
(* server (internal/vdl/server.go), the four procedures of internal/server *)
(* and the answer as a client decodes it; and the answer of the            *)
(* rqlite-compatible routes, which run the same loop of queries.           *)
(*                                                                         *)
(* DB.Query is one step here (DB.tla has its own steps): a statement runs  *)
(* on the read-write connection, whose sqlite3_changes and                 *)
(* sqlite3_last_insert_rowid outlive the statement, or fails.  Statements  *)
(* are told apart by their column count and by what they leave in those    *)
(* two counters; no rowid is used twice.  Authentication and how a rqlite  *)
(* body becomes queries are in Server.tla and Values.tla: a rqlite request *)
(* starts here with the queries that an RPC body would give.               *)
(***************************************************************************)
EXTENDS Wire

CONSTANTS
    Bodies,      \* JSON bodies that clients send, or NotJSON
    MaxRequests  \* bound: requests

NotJSON == <<"garbage", 0>>

\* A JSON array of queries is a sequence.
ASSUME BodiesAssumption ==
    \A b \in Bodies : At(b, "queries")[1] = "list" =>
        /\ Len(At(b, "queries")[2]) \in Nat
        /\ DOMAIN At(b, "queries")[2] = 1 .. Len(At(b, "queries")[2])

\* insert and insertTwo write rows and return none; returning writes a row and
\* returns it; create changes the schema only; select and none return one row
\* and no row; pair and twins return two columns, the latter of the same name;
\* infinite returns a row with an infinite real.
Writers == [insert |-> 1, insertTwo |-> 2, returning |-> 1, create |-> 0]
Readers == {"select", "none", "pair", "twins", "infinite"}
Control == {"begin", "commit", "rollback"}
Kinds == DOMAIN Writers \cup Readers \cup Control

\* VDLProcedures, as newInternalServer stores them, and how the output of each
\* is written by the server and read by a client.
Operations == {"query", "health", "session", "status"}
EncodeOutput(proc, g) ==
    CASE proc = "query" -> EncodeDatabaseQueryOutput(g)
      [] proc = "health" -> EncodeSystemHealthOutput(g)
      [] proc = "session" -> EncodeSystemSessionOutput(g)
      [] proc = "status" -> EncodeSystemStatusOutput(g)
DecodeOutput(proc, j) ==
    CASE proc = "query" -> DecodeDatabaseQueryOutput(j)
      [] proc = "health" -> DecodeSystemHealthOutput(j)
      [] proc = "session" -> DecodeSystemSessionOutput(j)
      [] proc = "status" -> DecodeSystemStatusOutput(j)

\* Routes of the rqlite API, by the form of their answers (option associative).
RQLiteForms == {"array", "associative"}

VARIABLES
    phase,   \* "idle", "received", "running", "built" or "answered"
    op,      \* what is asked for: one of Operations or RQLiteForms, or "unknown"
    body,    \* JSON body
    input,   \* Seq of Query, once decoded
    results, \* Seq of QueryResult
    output,  \* Go value the handler returns
    answer,  \* [ok, output, error]
    conn,    \* [rowid, changes] of the read-write connection
    served,  \* requests so far
    \* history, read by no action
    ran      \* for each query tried: [kind, ok, first, wrote], rows it wrote

vars == <<phase, op, body, input, results, output, answer, conn, served, ran>>

NoAnswer == [ok |-> FALSE, output |-> Null, error |-> "none"]
-----------------------------------------------------------------------------
\* internal/sqlite: Conn.Query.

\* Counters of the connection after a statement: DDL and reads leave them.
ConnAfter(k) ==
    IF k \in DOMAIN Writers /\ Writers[k] > 0
    THEN [rowid |-> conn.rowid + Writers[k], changes |-> Writers[k]] ELSE conn

\* Mutant: the counters are read before the statement is stepped.
CountersEarly(k) ==
    IF k \in {"insert", "insertTwo", "create"} THEN conn ELSE [rowid |-> 0, changes |-> 0]

\* LastInsertID and RowsAffected are only read if there are no columns.
CountersRead(k) ==
    IF k \in {"insert", "insertTwo", "create"} THEN ConnAfter(k)
    ELSE [rowid |-> 0, changes |-> 0]

RowsOf(k) ==
    CASE k = "infinite" -> <<<<Infinite>>>>
      [] k \in {"select", "returning"} -> <<<<<<"int", 1>>>>>>
      [] k \in {"pair", "twins"} -> <<<<Null, <<"int", 2>>>>, <<<<"int", 3>>, <<"real", "pi">>>>>>
      [] OTHER -> <<>>

ColumnsOf(k) ==
    CASE k = "pair" -> <<Text("a"), Text("b")>>
      [] k = "twins" -> <<Text("a"), Text("a")>>
      [] k \in {"select", "none", "infinite", "returning"} -> <<Text("c")>>
      [] OTHER -> <<>>

\* sqlite3_column_decltype: the declared type of a column, with the words that
\* sqliteStorageClassFromString looks for in it; an expression has none.
Declared(name, words) == [name |-> name, words |-> words]
Undeclared == Declared("", {})
DeclTypes(k) ==
    CASE k \in {"pair", "twins"} -> <<Declared("CHARINT", {"CHAR", "INT"}), Declared("DATETIME", {"DATE", "TIME"})>>
      [] k \in {"select", "returning"} -> <<Declared("INTEGER", {"INT"})>>
      [] k \in {"none", "infinite"} -> <<Undeclared>>
      [] OTHER -> <<>>

ColumnValueType(v) ==
    CASE v = Null -> "NULL" [] v[1] = "int" -> "INTEGER" [] v[1] = "real" -> "REAL"

\* The declared type or else that of the value in the first row, if there is one.
TypesOf(k) ==
    [i \in DOMAIN DeclTypes(k) |->
        IF DeclTypes(k)[i] = Undeclared /\ RowsOf(k) # <<>>
        THEN Declared(ColumnValueType(RowsOf(k)[1][i]), {}) ELSE DeclTypes(k)[i]]
-----------------------------------------------------------------------------
\* internal/server/query_convert.go and query.go.

sqliteStorageClassFromString(d) ==
    Text(IF d.name \in SqliteStorageClass THEN d.name
         ELSE IF "INT" \in d.words THEN "INTEGER"
         ELSE IF d.words \cap {"CHAR", "CLOB", "TEXT", "DATE", "TIME"} # {} THEN "TEXT"
         ELSE IF "BLOB" \in d.words \/ d.name = "" THEN "BLOB"
         ELSE IF d.words \cap {"REAL", "FLOA", "DOUB", "NUMERIC", "DECIMAL", "BOOLEAN"} # {} THEN "REAL"
         ELSE "TEXT")

sqliteValueToVDL(v) ==
    Object([f \in DOMAIN SqliteValue |->
        CASE f = "null" /\ v = Null -> <<"bool", TRUE>>
          [] f = "integer" /\ v[1] = "int" -> v
          [] f = "real" /\ v[1] = "real" -> v
          [] OTHER -> Null])

queryResultTypeFromDB(k) ==
    Text(IF k \in DOMAIN Writers THEN "write" ELSE IF k \in Readers THEN "read" ELSE k)

IfAny(s) == IF s = <<>> THEN Null ELSE List(s)

queryResultFromDB(k, counters) ==
    Object([type |-> queryResultTypeFromDB(k), time |-> <<"real", "t">>, error |-> Null,
            txId |-> IF k = "begin" THEN Text("id") ELSE Null,
            lastInsertId |-> IF k \in DOMAIN Writers THEN <<"int", counters.rowid>> ELSE Null,
            rowsAffected |-> IF k \in DOMAIN Writers THEN <<"int", counters.changes>> ELSE Null,
            columns |-> IfAny(ColumnsOf(k)),
            types |-> IfAny([i \in DOMAIN TypesOf(k) |->
                             sqliteStorageClassFromString(TypesOf(k)[i])]),
            rows |-> IfAny([r \in DOMAIN RowsOf(k) |->
                        List([i \in DOMAIN RowsOf(k)[r] |-> sqliteValueToVDL(RowsOf(k)[r][i])])])])

errorResult ==
    Object([type |-> Text("error"), time |-> <<"real", "t">>, error |-> Text("message"),
            txId |-> Null, lastInsertId |-> Null, rowsAffected |-> Null,
            columns |-> Null, types |-> Null, rows |-> Null])

\* sqliteParamsFromVDL: exactly one field of each value is set.
FieldsSet(v) == {f \in DOMAIN v : v[f] # Null /\ (f = "null" => v[f][2])}
OneFieldSet(v) == \E f \in DOMAIN v : FieldsSet(v) = {f}

ParamsConvert(params) ==
    IF params = Null THEN TRUE
    ELSE \A i \in DOMAIN params[2] : OneFieldSet(params[2][i][2].value[2])

\* BEGIN must come without a transaction, COMMIT and ROLLBACK with one.
TxIdFits(k, txId) == CASE k = "begin" -> txId = Null
                       [] k \in {"commit", "rollback"} -> txId # Null
                       [] OTHER -> TRUE
-----------------------------------------------------------------------------
Init ==
    /\ phase = "idle" /\ op = "unknown" /\ body = Null /\ input = <<>>
    /\ results = <<>> /\ output = Null /\ answer = NoAnswer
    /\ conn = [rowid |-> 0, changes |-> 0] /\ served = 0 /\ ran = <<>>

Receive ==
    /\ phase = "idle" /\ served < MaxRequests
    /\ op' \in Operations \cup RQLiteForms \cup {"unknown"}
    /\ body' \in Bodies
    /\ op' \in RQLiteForms => DecodeDatabaseQueryInput(body') # Bad
    /\ phase' = "received" /\ served' = served + 1
    /\ UNCHANGED <<input, results, output, answer, conn, ran>>

\* The answer is written at once, with an error and without any output.
Refuse(reason) ==
    /\ answer' = [ok |-> FALSE, output |-> Null, error |-> reason]
    /\ phase' = "answered"
    /\ UNCHANGED <<op, body, input, results, output, conn, served, ran>>

\* handleRequest: the body is read before the operation is looked up.
RefuseBody == phase = "received" /\ op \notin RQLiteForms /\ body = NotJSON /\ Refuse("Invalid request body")

RefuseOperation ==
    phase = "received" /\ body # NotJSON /\ op = "unknown" /\ Refuse("Invalid operation")

\* handleProcRequest: the input of Database.query is decoded; the others have none.
RefuseInput ==
    /\ phase = "received" /\ body # NotJSON /\ op = "query"
    /\ DecodeDatabaseQueryInput(body) = Bad /\ Refuse("failed to unmarshal")

AcceptInput ==
    /\ phase = "received" /\ body # NotJSON /\ op \in RQLiteForms \cup {"query"}
    /\ DecodeDatabaseQueryInput(body) # Bad
    /\ input' = DecodeDatabaseQueryInput(body)[2].queries[2]
    /\ phase' = "running"
    /\ UNCHANGED <<op, body, results, output, answer, conn, served, ran>>

\* One turn of the loop of executeQueries that ends in an error item: the query
\* is empty or no statement, a parameter cannot be converted, or DB.Query fails.
QueryFails ==
    /\ phase = "running" /\ Len(results) < Len(input)
    /\ results' = Append(results, errorResult)
    /\ ran' = Append(ran, [kind |-> "", ok |-> FALSE, first |-> 0, wrote |-> 0])
    /\ UNCHANGED <<phase, op, body, input, output, answer, conn, served>>

\* One turn of the loop that runs its statement.
QueryRuns ==
    /\ phase = "running" /\ Len(results) < Len(input)
    /\ LET q == input[Len(results) + 1]
           k == q[2].query[2]
       IN  /\ k \in Kinds /\ ParamsConvert(q[2].params) /\ TxIdFits(k, q[2].txId)
           /\ results' = Append(results, queryResultFromDB(k, CountersRead(k)))
           /\ conn' = ConnAfter(k)
           /\ ran' = Append(ran,
                [kind |-> k, ok |-> TRUE, first |-> conn.rowid,
                 wrote |-> IF k \in DOMAIN Writers THEN Writers[k] ELSE 0])
    /\ UNCHANGED <<phase, op, body, input, output, answer, served>>

\* Mutant: the slice of results is not made before the loop.
ResultsOrNil == IfAny(results)

\* make([]vdl.QueryResult, 0, len(queries)): empty, not nil.
ResultsSlice == List(results)

BuildQueryOutput ==
    /\ phase = "running" /\ Len(results) = Len(input)
    /\ output' = Object([time |-> <<"real", "t">>, results |-> ResultsSlice])
    /\ phase' = "built"
    /\ UNCHANGED <<op, body, input, results, answer, conn, served, ran>>

Counters(n) == Object([f \in StatsTotalsCounters |-> <<"int", n>>])

\* loadedStatsToVDL, with and without minutes.
loadedStatsToVDL(minutes) ==
    Object([startedAt |-> Text("time"), uptimeSeconds |-> <<"real", "t">>,
            totals |-> Counters(served),
            queued |-> Object([f \in StatsQueuedCounters |-> <<"int", 0>>]),
            minutes |-> Object([m \in minutes |-> Counters(1)])])

systemHealth(up) ==
    Object([healthy |-> <<"bool", up>>, database |-> <<"bool", up>>,
            message |-> Text(IF up THEN "OK" ELSE "Database unavailable")])

authRoleToVDL(role) ==
    Text(CASE role = "read-write" -> "rw" [] role = "read-only" -> "ro" [] OTHER -> "admin")

\* What the procedures of System return.
SystemOutput(proc) ==
    CASE proc = "health" -> {systemHealth(up) : up \in BOOLEAN}
      [] proc = "session" ->
            {Object([role |-> authRoleToVDL(role)]) : role \in {"admin", "read-write", "read-only"}}
      [] proc = "status" ->
            {Object([name |-> Text("NSQLite"), version |-> Text("v"),
                     stats |-> loadedStatsToVDL(minutes)]) : minutes \in {{}, {"m1"}}}

\* The procedures of System: their deserializers look at no body.
BuildSystemOutput ==
    /\ phase = "received" /\ body # NotJSON /\ op \in Operations \ {"query"}
    /\ output' \in SystemOutput(op)
    /\ phase' = "built"
    /\ UNCHANGED <<op, body, input, results, answer, conn, served, ran>>

\* Mutant: the whole answer is an error when one of its items is.
WriteAnyError ==
    /\ phase = "built" /\ op \in Operations
    /\ answer' = IF \A i \in DOMAIN results : results[i] # errorResult
                 THEN [ok |-> TRUE, output |-> EncodeOutput(op, output), error |-> "none"]
                 ELSE [ok |-> FALSE, output |-> Null, error |-> "message"]
    /\ phase' = "answered"
    /\ UNCHANGED <<op, body, input, results, output, conn, served, ran>>

\* Response.Bytes falls back on an error when the output cannot be encoded.
ProcResponse ==
    IF EncodeOutput(op, output) # Bad
    THEN [ok |-> TRUE, output |-> EncodeOutput(op, output), error |-> "none"]
    ELSE [ok |-> FALSE, output |-> Null, error |-> "failed to marshal response"]

\* writeProcResponse.
WriteResponse ==
    /\ phase = "built" /\ op \in Operations
    /\ answer' = ProcResponse
    /\ phase' = "answered"
    /\ UNCHANGED <<op, body, input, results, output, conn, served, ran>>

\* rqliteValue of a value that came from sqliteValueToVDL: the field that is set.
rqliteValue(v) ==
    IF v[2].null = <<"bool", TRUE>> THEN Null
    ELSE IF v[2].integer # Null THEN v[2].integer ELSE v[2].real

\* Mutant: a value that a later column of the same name hides is not replaced.
AssociativeFirst(columns, row) ==
    [c \in {columns[i][2] : i \in DOMAIN columns} |->
        row[CHOOSE i \in DOMAIN columns : columns[i] = Text(c) /\
                \A j \in DOMAIN columns : columns[j] = Text(c) => i <= j]]

\* A Go map from the names of the columns: the last of each name stays.
Associative(columns, row) ==
    [c \in {columns[i][2] : i \in DOMAIN columns} |->
        row[CHOOSE i \in DOMAIN columns : columns[i] = Text(c) /\
                \A j \in DOMAIN columns : columns[j] = Text(c) => j <= i]]

\* rqliteResultFromVDL, rqliteTypes and rqliteValues, with what is empty left out (omitempty).
rqliteResultFromVDL(item, form) ==
    LET rows == IF item.rows = Null THEN <<>> ELSE item.rows[2]
        Values(r) == [i \in DOMAIN rows[r][2] |-> rqliteValue(rows[r][2][i])]
        Only(f, x) == IF form = f /\ item.columns # Null /\ item.error = Null THEN x ELSE Null
        Rows(x) == IF rows = <<>> THEN Null ELSE List(x)
    IN  [error |-> item.error, last_insert_id |-> item.lastInsertId,
         rows_affected |-> item.rowsAffected,
         columns |-> Only("array", item.columns),
         types |-> IF form = "array" THEN Only("array", item.types)
                   ELSE Only("associative", Object(Associative(item.columns[2], item.types[2]))),
         values |-> Only("array", Rows([r \in DOMAIN rows |-> List(Values(r))])),
         rows |-> Only("associative",
                       Rows([r \in DOMAIN rows |-> Object(Associative(item.columns[2], Values(r)))]))]

\* rqliteResponseFromVDL: an answer that cannot be encoded is an HTTP error.
RQLiteResponse ==
    IF EncodeDatabaseQueryOutput(output) # Bad
    THEN [ok |-> TRUE, error |-> "none",
          output |-> List([i \in DOMAIN results |-> rqliteResultFromVDL(results[i][2], op)])]
    ELSE [ok |-> FALSE, output |-> Null, error |-> "marshal rqlite response"]

WriteRQLite ==
    /\ phase = "built" /\ op \in RQLiteForms
    /\ answer' = RQLiteResponse
    /\ phase' = "answered"
    /\ UNCHANGED <<op, body, input, results, output, conn, served, ran>>

\* The connection is kept for the next request, and nothing else.
NextRequest ==
    /\ phase = "answered" /\ phase' = "idle" /\ op' = "unknown" /\ body' = Null
    /\ input' = <<>> /\ results' = <<>> /\ output' = Null /\ answer' = NoAnswer /\ ran' = <<>>
    /\ UNCHANGED <<conn, served>>

Over == phase = "idle" /\ served = MaxRequests /\ UNCHANGED vars

Next ==
    \/ Receive \/ RefuseBody \/ RefuseOperation \/ RefuseInput \/ AcceptInput
    \/ QueryFails \/ QueryRuns \/ BuildQueryOutput \/ BuildSystemOutput
    \/ WriteResponse \/ WriteRQLite \/ NextRequest \/ Over

Spec == Init /\ [][Next]_vars
-----------------------------------------------------------------------------
\* What the schema asks of a body, stated over the body: every query is an
\* object with a text, every parameter an object with a value, and what is
\* optional has its class where it is there.
HasClass(j, f, classes) == At(j, f) = Null \/ At(j, f)[1] \in classes
WellFormedParam(p) ==
    /\ p[1] = "object" /\ HasClass(p, "name", {"string"}) /\ At(p, "value")[1] = "object"
    /\ HasClass(At(p, "value"), "null", {"bool"}) /\ HasClass(At(p, "value"), "integer", {"int"})
    /\ HasClass(At(p, "value"), "real", {"int", "real"})
    /\ HasClass(At(p, "value"), "text", {"string"}) /\ HasClass(At(p, "value"), "blob", {"string"})
WellFormedQuery(q) ==
    /\ q[1] = "object" /\ HasClass(q, "txId", {"string"}) /\ At(q, "query")[1] = "string"
    /\ HasClass(q, "params", {"list"})
    /\ At(q, "params") # Null => \A i \in DOMAIN At(q, "params")[2] : WellFormedParam(At(q, "params")[2][i])
WellFormed(b) ==
    /\ b[1] = "object" /\ At(b, "queries")[1] = "list"
    /\ \A i \in DOMAIN At(b, "queries")[2] : WellFormedQuery(At(b, "queries")[2][i])

\* A batch with one malformed query, at whatever depth and place, runs none of
\* its statements and is answered with an error; a well-formed one is never
\* refused.  (The strict decoding of DatabaseQueryInput.)
BadBatchRunsNothing ==
    op = "query" =>
        /\ ran # <<>> => WellFormed(body)
        /\ phase = "answered" => (WellFormed(body) <=>
                answer.error \notin {"Invalid request body", "failed to unmarshal"})

\* What a client decodes is what the handler returned: every output built by the
\* server passes the client's own strict decoding, down to empty lists, missing
\* minutes and the names of roles.
AnswerUnderstood ==
    answer.ok /\ op \in Operations =>
        DecodeOutput(op, answer.output) = output

\* A successful answer has one item for each query sent, in order, an error item
\* exactly for those that did not run, and reports the rows a plain INSERT wrote
\* with their last rowid, whatever ran before on the connection.
ItemsMatchQueries ==
    (answer.ok /\ op = "query") =>
        LET items == answer.output[2].results[2] IN
        /\ Len(items) = Len(body[2].queries[2])
        /\ \A i \in DOMAIN items :
              /\ (items[i][2].type = Text("error")) <=> ~ran[i].ok
              /\ ran[i].ok => ran[i].kind = body[2].queries[2][i][2].query[2]
              /\ ran[i].kind \in {"insert", "insertTwo"} =>
                    /\ items[i][2].rowsAffected = <<"int", ran[i].wrote>>
                    /\ items[i][2].lastInsertId = <<"int", ran[i].first + ran[i].wrote>>

\* A rqlite client learns what an RPC client would: each item is an error or has
\* the counts, and each value of each row is found at its place, or under its
\* column's name unless a later column has the same name.
RQLiteTellsTheSame ==
    (answer.ok /\ op \in RQLiteForms) =>
        /\ Len(answer.output[2]) = Len(input)
        /\ \A i \in DOMAIN ran :
              LET item == answer.output[2][i]
                  rows == RowsOf(ran[i].kind)
                  names == ColumnsOf(ran[i].kind)
              IN  /\ (item.error # Null) <=> ~ran[i].ok
                  /\ (item.rows_affected # Null) <=> ran[i].kind \in DOMAIN Writers
                  /\ \A r \in DOMAIN rows : \A c \in DOMAIN names :
                        IF op = "array"
                        THEN /\ item.columns[2][c] = names[c] /\ Len(item.types[2]) = Len(names)
                             /\ item.values[2][r][2][c] = rows[r][c]
                        ELSE \/ item.rows[2][r][2][names[c][2]] = rows[r][c]
                             \/ \E d \in c + 1 .. Len(names) : names[d] = names[c]

\* An error in place of an answer means that nothing was written, except when a
\* result holds a real that JSON cannot write: the statements of that batch have
\* run, and their answers are lost.
ErrorMeansNothingRan ==
    phase = "answered" /\ ~answer.ok =>
        \/ \A i \in DOMAIN ran : ran[i].wrote = 0
        \/ \E i \in DOMAIN ran : ran[i].kind = "infinite"
-----------------------------------------------------------------------------
\* What holds between the steps of a request, from which the properties follow.

Sequence(s) == s \in Seq({s[i] : i \in DOMAIN s})

\* The counters that a result reports.
Reported(g) == [rowid |-> g[2].lastInsertId[2], changes |-> g[2].rowsAffected[2]]

\* A query tried has an error item, or the item of the statement it asked for
\* with the counters of the connection as that statement left them.
Outcome(i) ==
    \/ /\ results[i] = errorResult
       /\ ran[i] = [kind |-> "", ok |-> FALSE, first |-> 0, wrote |-> 0]
    \/ /\ ran[i].ok /\ ran[i].kind \in Kinds /\ ran[i].kind = input[i][2].query[2]
       /\ results[i] = queryResultFromDB(ran[i].kind, Reported(results[i]))
       /\ ran[i].kind \in {"insert", "insertTwo"} =>
            Reported(results[i]) = [rowid |-> ran[i].first + ran[i].wrote, changes |-> ran[i].wrote]

\* The queries are those of a body that was accepted, and the items so far are
\* those of the first of them.
Decoded ==
    /\ DecodeDatabaseQueryInput(body) # Bad
    /\ input = DecodeDatabaseQueryInput(body)[2].queries[2]
    /\ Len(results) <= Len(input)
NothingRan == results = <<>> /\ ran = <<>>

Built ==
    IF op \in RQLiteForms \cup {"query"}
    THEN /\ Decoded /\ Len(results) = Len(input)
         /\ output = Object([time |-> <<"real", "t">>, results |-> List(results)])
    ELSE op \in Operations /\ NothingRan /\ output \in SystemOutput(op)

Answered ==
    \/ /\ ~answer.ok /\ NothingRan
       /\ op = "query" => /\ DecodeDatabaseQueryInput(body) = Bad
                          /\ answer.error \in {"Invalid request body", "failed to unmarshal"}
    \/ Built /\ op \in Operations /\ answer = ProcResponse
    \/ Built /\ op \in RQLiteForms /\ answer = RQLiteResponse

RPCInv ==
    /\ phase \in {"idle", "received", "running", "built", "answered"}
    /\ op \in Operations \cup RQLiteForms \cup {"unknown"}
    /\ phase # "idle" => body \in Bodies
    /\ Sequence(results) /\ Sequence(ran) /\ Len(ran) = Len(results)
    /\ \A i \in DOMAIN ran : Outcome(i)
    /\ phase \in {"idle", "received"} => NothingRan
    /\ phase # "answered" => answer = NoAnswer
    /\ phase = "running" => op \in RQLiteForms \cup {"query"} /\ Decoded
    /\ phase = "built" => Built
    /\ phase = "answered" => Answered
=============================================================================
