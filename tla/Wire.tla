-------------------------------- MODULE Wire --------------------------------
(***************************************************************************)
(* The generated JSON layer of the RPC API (internal/vdl/types.go and      *)
(* enums.go): what is written on the wire for a Go value, and the strict   *)
(* decoding of a JSON value: json.Unmarshal into a struct of pointers,     *)
(* then validate, then transform, here in one: the Go value, or Bad.       *)
(*                                                                         *)
(* A JSON value and a Go scalar are pairs <<class, contents>>; the         *)
(* contents of a JSON object and of a Go struct are a function on the      *)
(* fields.  Null is JSON's null and Go's nil.                              *)
(***************************************************************************)
EXTENDS Integers, Sequences

Null == <<"null", 0>>
Bad == <<"bad", 0>>
Text(s) == <<"string", s>>
List(s) == <<"list", s>>
Object(f) == <<"object", f>>

\* A real that JSON cannot write: an infinity of SQLite.
Infinite == <<"real", "inf">>

\* Scalar types, by the JSON classes they accept, and the declared enums.
Bool == {"bool"}
Int64 == {"int"}
Float64 == {"int", "real"}
String == {"string"}

AuthRole == {"admin", "rw", "ro"}
QueryResultType == {"read", "write", "begin", "commit", "rollback", "error"}
SqliteStorageClass == {"NULL", "INTEGER", "REAL", "TEXT", "BLOB"}
-----------------------------------------------------------------------------
\* The patterns of the generator.

\* A field of an object; null is an object without any field, as it leaves the
\* zero struct behind.
At(j, f) == IF j[1] = "object" /\ f \in DOMAIN j[2] THEN j[2][f] ELSE Null

\* json.Unmarshal of a pointer to a scalar, and UnmarshalJSON of an enum.
Scalar(classes, j) == IF j = Null \/ j[1] \in classes THEN j ELSE Bad
Enum(names, j) == IF j[1] = "string" /\ j[2] \in names THEN j ELSE Bad
Pointer(j, value) == IF j = Null THEN Null ELSE value

\* A list or a map of items that are converted one by one, either way.
Items(class, j) == IF j[1] = class THEN j[2] ELSE <<>>
Collected(class, j, items) ==
    IF j = Null THEN Null
    ELSE IF j[1] # class \/ \E i \in DOMAIN items : items[i] = Bad THEN Bad
    ELSE <<class, items>>

\* validate and transform of a struct: every field fits and no required one is
\* nil; unknown fields are ignored.
Strict(j, fields, required) ==
    IF \/ j # Null /\ j[1] # "object"
       \/ \E f \in DOMAIN fields : fields[f] = Bad \/ (f \in required /\ fields[f] = Null)
    THEN Bad ELSE Object(fields)

\* json.Marshal of a struct: a nil pointer is left out (omitempty), a nil slice
\* or map is written null.
Written(fields, omitempty) ==
    IF \E f \in DOMAIN fields : fields[f] = Bad THEN Bad
    ELSE Object([f \in {x \in DOMAIN fields : x \notin omitempty \/ fields[x] # Null} |-> fields[f]])

\* json.Marshal fails on an infinite real and on an enum outside its set.
MarshalScalar(g) == IF g = Infinite THEN Bad ELSE g
MarshalEnum(names, g) == IF g[2] \in names THEN g ELSE Bad
-----------------------------------------------------------------------------
\* Values, queries and their results.

SqliteValue == [null |-> Bool, integer |-> Int64, real |-> Float64, text |-> String,
                blob |-> String]

DecodeSqliteValue(j) ==
    Strict(j, [f \in DOMAIN SqliteValue |-> Scalar(SqliteValue[f], At(j, f))], {})

EncodeSqliteValue(g) ==
    Written([f \in DOMAIN SqliteValue |-> MarshalScalar(g[2][f])], DOMAIN SqliteValue)

DecodeQueryParam(j) ==
    Strict(j, [name |-> Scalar(String, At(j, "name")),
               value |-> Pointer(At(j, "value"), DecodeSqliteValue(At(j, "value")))], {"value"})

DecodeParams(j) ==
    Collected("list", j, [i \in DOMAIN Items("list", j) |-> DecodeQueryParam(j[2][i])])

DecodeQuery(j) ==
    Strict(j, [txId |-> Scalar(String, At(j, "txId")), query |-> Scalar(String, At(j, "query")),
               params |-> DecodeParams(At(j, "params"))], {"query"})

\* Mutant: a query that is refused is skipped, and the others are kept.
SkipBadQueries(j) ==
    IF j[1] # "list" THEN Scalar({}, j)
    ELSE List(SelectSeq([i \in DOMAIN j[2] |-> DecodeQuery(j[2][i])], LAMBDA q : q # Bad))

DecodeQueries(j) ==
    Collected("list", j, [i \in DOMAIN Items("list", j) |-> DecodeQuery(j[2][i])])

DecodeDatabaseQueryInput(j) ==
    Strict(j, [queries |-> DecodeQueries(At(j, "queries"))], {"queries"})

\* The lists of a result; a null among strings is an empty one.
DecodeColumns(j) ==
    Collected("list", j, [i \in DOMAIN Items("list", j) |->
        IF j[2][i] = Null THEN Text("") ELSE Scalar(String, j[2][i])])
DecodeTypes(j) ==
    Collected("list", j, [i \in DOMAIN Items("list", j) |-> Enum(SqliteStorageClass, j[2][i])])
DecodeRow(j) ==
    Collected("list", j, [i \in DOMAIN Items("list", j) |-> DecodeSqliteValue(j[2][i])])
DecodeRows(j) ==
    Collected("list", j, [i \in DOMAIN Items("list", j) |-> DecodeRow(j[2][i])])

EncodeTypes(g) ==
    Collected("list", g, [i \in DOMAIN Items("list", g) |-> MarshalEnum(SqliteStorageClass, g[2][i])])
EncodeRow(g) ==
    Collected("list", g, [i \in DOMAIN Items("list", g) |-> EncodeSqliteValue(g[2][i])])
EncodeRows(g) ==
    Collected("list", g, [i \in DOMAIN Items("list", g) |-> EncodeRow(g[2][i])])

DecodeQueryResult(j) ==
    Strict(j, [type |-> Pointer(At(j, "type"), Enum(QueryResultType, At(j, "type"))),
               time |-> Scalar(Float64, At(j, "time")), error |-> Scalar(String, At(j, "error")),
               txId |-> Scalar(String, At(j, "txId")),
               lastInsertId |-> Scalar(Int64, At(j, "lastInsertId")),
               rowsAffected |-> Scalar(Int64, At(j, "rowsAffected")),
               columns |-> DecodeColumns(At(j, "columns")),
               types |-> DecodeTypes(At(j, "types")), rows |-> DecodeRows(At(j, "rows"))],
           {"type", "time"})

EncodeQueryResult(g) ==
    Written([type |-> MarshalEnum(QueryResultType, g[2].type),
             time |-> MarshalScalar(g[2].time), error |-> g[2].error, txId |-> g[2].txId,
             lastInsertId |-> g[2].lastInsertId, rowsAffected |-> g[2].rowsAffected,
             columns |-> g[2].columns, types |-> EncodeTypes(g[2].types),
             rows |-> EncodeRows(g[2].rows)],
            {"error", "txId", "lastInsertId", "rowsAffected", "columns", "types", "rows"})

DecodeResults(j) ==
    Collected("list", j, [i \in DOMAIN Items("list", j) |-> DecodeQueryResult(j[2][i])])
EncodeResults(g) ==
    Collected("list", g, [i \in DOMAIN Items("list", g) |-> EncodeQueryResult(g[2][i])])

DecodeDatabaseQueryOutput(j) ==
    Strict(j, [time |-> Scalar(Float64, At(j, "time")),
               results |-> DecodeResults(At(j, "results"))], {"time", "results"})

EncodeDatabaseQueryOutput(g) ==
    Written([time |-> MarshalScalar(g[2].time), results |-> EncodeResults(g[2].results)], {})
-----------------------------------------------------------------------------
\* The procedures of System.

StatsQueuedCounters == {"begins", "writes", "httpRequests"}
StatsTotalsCounters ==
    {"reads", "writes", "begins", "commits", "rollbacks", "errors", "httpRequests"}

DecodeCounters(counters, j) ==
    Strict(j, [f \in counters |-> Scalar(Int64, At(j, f))], counters)
EncodeCounters(counters, g) == Written([f \in counters |-> g[2][f]], {})

DecodeMinutes(j) ==
    Collected("object", j, [m \in DOMAIN Items("object", j) |->
        DecodeCounters(StatsTotalsCounters, j[2][m])])
EncodeMinutes(g) ==
    Collected("object", g, [m \in DOMAIN Items("object", g) |->
        EncodeCounters(StatsTotalsCounters, g[2][m])])

DecodeStats(j) ==
    Strict(j, [startedAt |-> Scalar(String, At(j, "startedAt")),
               uptimeSeconds |-> Scalar(Float64, At(j, "uptimeSeconds")),
               totals |-> Pointer(At(j, "totals"),
                                  DecodeCounters(StatsTotalsCounters, At(j, "totals"))),
               queued |-> Pointer(At(j, "queued"),
                                  DecodeCounters(StatsQueuedCounters, At(j, "queued"))),
               minutes |-> DecodeMinutes(At(j, "minutes"))],
           {"startedAt", "uptimeSeconds", "totals", "queued", "minutes"})

EncodeStats(g) ==
    Written([startedAt |-> g[2].startedAt, uptimeSeconds |-> MarshalScalar(g[2].uptimeSeconds),
             totals |-> EncodeCounters(StatsTotalsCounters, g[2].totals),
             queued |-> EncodeCounters(StatsQueuedCounters, g[2].queued),
             minutes |-> EncodeMinutes(g[2].minutes)], {})

DecodeSystemHealthOutput(j) ==
    Strict(j, [healthy |-> Scalar(Bool, At(j, "healthy")), database |-> Scalar(Bool, At(j, "database")),
               message |-> Scalar(String, At(j, "message"))], {"healthy", "database", "message"})
EncodeSystemHealthOutput(g) ==
    Written([healthy |-> g[2].healthy, database |-> g[2].database, message |-> g[2].message], {})

DecodeSystemSessionOutput(j) ==
    Strict(j, [role |-> Pointer(At(j, "role"), Enum(AuthRole, At(j, "role")))], {"role"})
EncodeSystemSessionOutput(g) == Written([role |-> MarshalEnum(AuthRole, g[2].role)], {})

DecodeSystemStatusOutput(j) ==
    Strict(j, [name |-> Scalar(String, At(j, "name")), version |-> Scalar(String, At(j, "version")),
               stats |-> Pointer(At(j, "stats"), DecodeStats(At(j, "stats")))],
           {"name", "version", "stats"})
EncodeSystemStatusOutput(g) ==
    Written([name |-> g[2].name, version |-> g[2].version, stats |-> EncodeStats(g[2].stats)], {})
=============================================================================
