----------------------------- MODULE RPCProofs ------------------------------
(***************************************************************************)
(* Proofs about RPC and Wire: a request from its body to its answer, for   *)
(* every set of bodies and any number of requests.                         *)
(***************************************************************************)
EXTENDS RPC, TLAPS

\* The steps of a sequence that grows, as the loop of executeQueries makes it.
LEMMA EmptySequence == Sequence(<<>>)
  BY DEF Sequence

LEMMA AppendSequence ==
  ASSUME NEW s, NEW x, Sequence(s)
  PROVE  /\ Sequence(Append(s, x)) /\ Len(Append(s, x)) = Len(s) + 1
         /\ Len(s) \in Nat /\ DOMAIN s = 1 .. Len(s)
         /\ DOMAIN Append(s, x) = 1 .. Len(s) + 1
         /\ Append(s, x)[Len(s) + 1] = x
         /\ \A i \in 1 .. Len(s) : Append(s, x)[i] = s[i]
<1> DEFINE S == {s[i] : i \in DOMAIN s}
           a == Append(s, x)
           S2 == S \cup {x}
<1>1. s \in Seq(S2) /\ x \in S2  BY DEF Sequence
<1>2. /\ a \in Seq(S2) /\ Len(a) = Len(s) + 1
      /\ Len(s) \in Nat /\ DOMAIN s = 1 .. Len(s) /\ DOMAIN a = 1 .. Len(s) + 1
      /\ a[Len(s) + 1] = x /\ \A i \in 1 .. Len(s) : a[i] = s[i]
  <2> HIDE DEF S2
  <2> QED  BY <1>1
<1>3. a = [i \in 1 .. Len(a) |-> a[i]]
  <2> HIDE DEF S2, a
  <2> QED  BY <1>2
<1>4. a \in Seq({a[i] : i \in DOMAIN a})
  <2> HIDE DEF S2, a
  <2>1. DOMAIN a = 1 .. Len(a) /\ Len(a) \in Nat  BY <1>2
  <2>2. \A i \in 1 .. Len(a) : a[i] \in {a[j] : j \in DOMAIN a}  BY <2>1
  <2>3. a \in [1 .. Len(a) -> {a[j] : j \in DOMAIN a}]  BY <1>3, <2>2
  <2> QED  BY <2>1, <2>3
<1> QED  BY <1>2, <1>4 DEF Sequence

-----------------------------------------------------------------------------
\* Decoding of a body.

LEMMA DecodeSqliteValueOK ==
  ASSUME NEW j
  PROVE  DecodeSqliteValue(j) # Bad <=>
            /\ j = Null \/ j[1] = "object"
            /\ HasClass(j, "null", {"bool"}) /\ HasClass(j, "integer", {"int"})
            /\ HasClass(j, "real", {"int", "real"})
            /\ HasClass(j, "text", {"string"}) /\ HasClass(j, "blob", {"string"})
<1> DEFINE e == [f \in DOMAIN SqliteValue |-> Scalar(SqliteValue[f], At(j, f))]
<1>1. DOMAIN SqliteValue = {"null", "integer", "real", "text", "blob"}  BY DEF SqliteValue
<1>2. \A f \in DOMAIN SqliteValue : e[f] = Scalar(SqliteValue[f], At(j, f)) 
  OBVIOUS
<1>3. \A classes, f : "bad" \notin classes => (Scalar(classes, At(j, f)) # Bad <=> HasClass(j, f, classes))
  BY DEF Scalar, HasClass, Bad, Null
<1>4. \A f \in DOMAIN SqliteValue : e[f] # Bad <=> HasClass(j, f, SqliteValue[f])
  BY <1>1, <1>2, <1>3 DEF SqliteValue, Bool, Int64, Float64, String
<1>5. DecodeSqliteValue(j) # Bad <=>
        (j = Null \/ j[1] = "object") /\ \A f \in DOMAIN e : e[f] # Bad
  BY DEF DecodeSqliteValue, Strict, Object, Bad
<1>6. DOMAIN e = DOMAIN SqliteValue  OBVIOUS
<1> HIDE DEF e
<1> QED  BY <1>1, <1>4, <1>5, <1>6 DEF SqliteValue, Bool, Int64, Float64, String

LEMMA ScalarOK ==
  ASSUME NEW j, NEW f, NEW classes, "bad" \notin classes, "null" \notin classes
  PROVE  /\ Scalar(classes, At(j, f)) # Bad <=> HasClass(j, f, classes)
         /\ Scalar(classes, At(j, f)) = Null <=> At(j, f) = Null
  BY DEF Scalar, HasClass, Bad, Null

LEMMA DecodeQueryParamOK ==
  ASSUME NEW j  PROVE  DecodeQueryParam(j) # Bad <=> WellFormedParam(j)
<1> DEFINE v == At(j, "value")
           e == [name |-> Scalar(String, At(j, "name")), value |-> Pointer(v, DecodeSqliteValue(v))]
<1>1. DecodeQueryParam(j) # Bad <=>
        (j = Null \/ j[1] = "object") /\ e.name # Bad /\ e.value # Bad /\ e.value # Null
  BY DEF DecodeQueryParam, Strict, Object, Bad
<1>2. e.name # Bad <=> HasClass(j, "name", {"string"})
  BY ScalarOK DEF String
<1>3. DecodeSqliteValue(v) # Null  BY DEF DecodeSqliteValue, Strict, Object, Bad, Null
<1>4. e.value # Bad /\ e.value # Null <=> v # Null /\ DecodeSqliteValue(v) # Bad
  BY <1>3 DEF Pointer, Null, Bad
<1>5. j = Null => v = Null  BY DEF At, Null
<1>6. DecodeSqliteValue(v) # Bad <=>
            /\ v = Null \/ v[1] = "object"
            /\ HasClass(v, "null", {"bool"}) /\ HasClass(v, "integer", {"int"})
            /\ HasClass(v, "real", {"int", "real"})
            /\ HasClass(v, "text", {"string"}) /\ HasClass(v, "blob", {"string"})
  BY DecodeSqliteValueOK
<1>7. v[1] = "object" => v # Null  BY DEF Null
<1>8. j[1] = "object" => j # Null  BY DEF Null
<1> HIDE DEF e
<1> QED  BY <1>1, <1>2, <1>4, <1>5, <1>6, <1>7, <1>8 DEF WellFormedParam

\* A list is refused exactly if it is no list or an item of it is refused.
LEMMA CollectedOK ==
  ASSUME NEW j, NEW class, class # "bad", NEW items
  PROVE  /\ Collected(class, j, items) # Bad <=>
                j = Null \/ (j[1] = class /\ \A i \in DOMAIN items : items[i] # Bad)
         /\ class # "null" => (Collected(class, j, items) = Null <=> j = Null)
  BY DEF Collected, Bad, Null

LEMMA DecodeQueryOK ==
  ASSUME NEW j  PROVE  DecodeQuery(j) # Bad <=> WellFormedQuery(j)
<1> DEFINE p == At(j, "params")
           items == [i \in DOMAIN Items("list", p) |-> DecodeQueryParam(p[2][i])]
           e == [txId |-> Scalar(String, At(j, "txId")), query |-> Scalar(String, At(j, "query")),
                 params |-> DecodeParams(p)]
<1>1. DecodeQuery(j) # Bad <=>
        /\ j = Null \/ j[1] = "object"
        /\ e.txId # Bad /\ e.query # Bad /\ e.query # Null /\ e.params # Bad
  BY DEF DecodeQuery, Strict, Object, Bad
<1>2. /\ e.txId # Bad <=> HasClass(j, "txId", {"string"})
      /\ e.query # Bad <=> HasClass(j, "query", {"string"})
      /\ e.query # Null <=> At(j, "query") # Null
  BY ScalarOK DEF String
<1>3. p[1] = "list" => p # Null  BY DEF Null
<1>4. p[1] = "list" => Items("list", p) = p[2]  BY DEF Items
<1>5. DecodeParams(p) # Bad <=> p = Null \/ (p[1] = "list" /\ \A i \in DOMAIN items : items[i] # Bad)
  BY CollectedOK DEF DecodeParams
<1>6. e.params # Bad <=> p = Null \/ (p[1] = "list" /\ \A i \in DOMAIN p[2] : WellFormedParam(p[2][i]))
  BY <1>4, <1>5, DecodeQueryParamOK
<1>7. j = Null => At(j, "query") = Null  BY DEF At, Null
<1>8. At(j, "query")[1] = "string" => At(j, "query") # Null  BY DEF Null
<1>9. j[1] = "object" => j # Null  BY DEF Null
<1> HIDE DEF e
<1> QED  BY <1>1, <1>2, <1>3, <1>6, <1>7, <1>8, <1>9 DEF WellFormedQuery, HasClass

\* The server accepts exactly the bodies that the schema calls well formed, and
\* the queries it goes on with are as many and in the order of the body.
LEMMA DecodeInputOK ==
  ASSUME NEW b
  PROVE  /\ DecodeDatabaseQueryInput(b) # Bad <=> WellFormed(b)
         /\ WellFormed(b) =>
                LET q == At(b, "queries")[2]
                IN  DecodeDatabaseQueryInput(b)[2].queries[2] = [i \in DOMAIN q |-> DecodeQuery(q[i])]
<1> DEFINE l == At(b, "queries")
           items == [i \in DOMAIN Items("list", l) |-> DecodeQuery(l[2][i])]
           e == [queries |-> DecodeQueries(l)]
<1>1. DecodeDatabaseQueryInput(b) =
        IF (b # Null /\ b[1] # "object") \/ e.queries = Bad \/ e.queries = Null THEN Bad ELSE Object(e)
  BY DEF DecodeDatabaseQueryInput, Strict
<1>2. /\ e.queries # Bad <=> l = Null \/ (l[1] = "list" /\ \A i \in DOMAIN items : items[i] # Bad)
      /\ e.queries = Null <=> l = Null
  BY CollectedOK DEF DecodeQueries
<1>3. l[1] = "list" => l # Null /\ Items("list", l) = l[2]  BY DEF Null, Items
<1>4. e.queries # Bad /\ e.queries # Null <=>
        l[1] = "list" /\ \A i \in DOMAIN l[2] : WellFormedQuery(l[2][i])
  BY <1>2, <1>3, DecodeQueryOK
<1>5. b = Null => l = Null  BY DEF At, Null
<1>6. b[1] = "object" => b # Null  BY DEF Null
<1>7. Object(e) # Bad  BY DEF Object, Bad
<1>8. DecodeDatabaseQueryInput(b) # Bad <=> WellFormed(b)
  <2> HIDE DEF e
  <2> QED  BY <1>1, <1>2, <1>4, <1>5, <1>6, <1>7 DEF WellFormed
<1>9. ASSUME WellFormed(b)
      PROVE  DecodeDatabaseQueryInput(b)[2].queries[2] = [i \in DOMAIN l[2] |-> DecodeQuery(l[2][i])]
  <2>1. DecodeDatabaseQueryInput(b) = Object(e)
    <3> HIDE DEF e
    <3> QED  BY <1>8, <1>9, <1>1
  <2>2. l[1] = "list"  BY <1>9 DEF WellFormed
  <2>3. DecodeQueries(l) # Bad  BY <1>8, <1>9, <1>1
  <2>4. DecodeQueries(l) = <<"list", items>>
    BY <2>2, <2>3, <1>3 DEF DecodeQueries, Collected
  <2>5. DecodeQueries(l)[2] = [i \in DOMAIN l[2] |-> DecodeQuery(l[2][i])]
    BY <2>2, <2>4, <1>3
  <2> QED  BY <2>1, <2>5 DEF Object
<1> QED  BY <1>8, <1>9

-----------------------------------------------------------------------------
\* The invariant.

LEMMA InputSequence ==
  ASSUME NEW b \in Bodies, DecodeDatabaseQueryInput(b) # Bad
  PROVE  LET q == DecodeDatabaseQueryInput(b)[2].queries[2]
         IN  Len(q) \in Nat /\ DOMAIN q = 1 .. Len(q) /\ Len(q) = Len(At(b, "queries")[2])
<1> DEFINE l == At(b, "queries")
           q == DecodeDatabaseQueryInput(b)[2].queries[2]
<1>1. WellFormed(b)  BY DecodeInputOK
<1>2. q = [i \in DOMAIN l[2] |-> DecodeQuery(l[2][i])]  BY <1>1, DecodeInputOK
<1>3. l[1] = "list"  BY <1>1 DEF WellFormed
<1>4. Len(l[2]) \in Nat /\ DOMAIN l[2] = 1 .. Len(l[2])  BY <1>3, BodiesAssumption
<1> HIDE DEF q, l
<1>5. q = [i \in 1 .. Len(l[2]) |-> DecodeQuery(l[2][i])]  BY <1>2, <1>4
<1>6. q \in Seq({DecodeQuery(l[2][i]) : i \in 1 .. Len(l[2])}) /\ Len(q) = Len(l[2])
  BY <1>4, <1>5
<1> QED  BY <1>4, <1>6 DEF q, l

\* What a request leaves alone when only its phase, answer or output changes.
LEMMA OutcomesStay ==
  ASSUME \A i \in DOMAIN ran : Outcome(i), UNCHANGED <<results, ran, input>>
  PROVE  \A i \in DOMAIN ran' : Outcome(i)'
  BY DEF Outcome

LEMMA InitInv == Init => RPCInv
<1> SUFFICES ASSUME Init PROVE RPCInv  OBVIOUS
<1>1. Sequence(results) /\ Sequence(ran)  BY EmptySequence DEF Init
<1>2. DOMAIN ran = {}  BY DEF Init
<1> QED  BY <1>1, <1>2 DEF Init, RPCInv, NothingRan

LEMMA ReceiveInv == RPCInv /\ Receive => RPCInv'
<1> SUFFICES ASSUME RPCInv, Receive PROVE RPCInv'  OBVIOUS
<1>1. UNCHANGED <<results, ran, input>>  BY DEF Receive
<1>2. \A i \in DOMAIN ran' : Outcome(i)'  BY <1>1, OutcomesStay DEF RPCInv
<1> QED  BY <1>1, <1>2 DEF Receive, RPCInv, NothingRan, Sequence

LEMMA RefuseInv ==
  ASSUME RPCInv, phase = "received", NEW reason, Refuse(reason),
         op = "query" => /\ DecodeDatabaseQueryInput(body) = Bad
                         /\ reason \in {"Invalid request body", "failed to unmarshal"}
  PROVE  RPCInv'
<1>1. UNCHANGED <<op, body, results, ran, input>>  BY DEF Refuse
<1>2. \A i \in DOMAIN ran' : Outcome(i)'  BY <1>1, OutcomesStay DEF RPCInv
<1>3. phase' = "answered" /\ answer' = [ok |-> FALSE, output |-> Null, error |-> reason]
  BY DEF Refuse
<1>4. NothingRan'  BY <1>1 DEF RPCInv, NothingRan
<1>5. Answered'  BY <1>1, <1>3, <1>4 DEF Answered
<1> QED  BY <1>1, <1>2, <1>3, <1>4, <1>5 DEF RPCInv, Sequence

LEMMA AcceptInputInv == RPCInv /\ AcceptInput => RPCInv'
<1> SUFFICES ASSUME RPCInv, AcceptInput PROVE RPCInv'  OBVIOUS
<1>1. UNCHANGED <<op, body, results, ran, output, answer>> /\ phase = "received" /\ phase' = "running"
  BY DEF AcceptInput
<1>2. results = <<>> /\ ran = <<>>  BY <1>1 DEF RPCInv, NothingRan
<1>3. \A i \in DOMAIN ran' : Outcome(i)'  BY <1>1, <1>2
<1>4. body \in Bodies /\ DecodeDatabaseQueryInput(body) # Bad
      /\ input' = DecodeDatabaseQueryInput(body)[2].queries[2]
  BY <1>1 DEF AcceptInput, RPCInv
<1>5. Len(input') \in Nat  BY <1>4, InputSequence
<1>6. Decoded'  BY <1>1, <1>2, <1>4, <1>5 DEF Decoded
<1>7. op \in RQLiteForms \cup {"query"}  BY DEF AcceptInput
<1> QED  BY <1>1, <1>3, <1>6, <1>7 DEF RPCInv, Sequence

\* One turn of the loop: the new item is the last, and the ones before stay.
LEMMA TurnInv ==
  ASSUME RPCInv, phase = "running", Len(results) < Len(input), NEW g, NEW r,
         results' = Append(results, g), ran' = Append(ran, r),
         UNCHANGED <<phase, op, body, input, output, answer>>,
         NEW n, n = Len(results) + 1, Outcome(n)'
  PROVE  RPCInv'
<1>1. /\ Sequence(results') /\ Sequence(ran') /\ Len(ran') = Len(results')
      /\ Len(results') = Len(results) + 1 /\ Len(results) \in Nat
      /\ DOMAIN ran = 1 .. Len(results) /\ DOMAIN ran' = 1 .. Len(results) + 1
      /\ \A i \in 1 .. Len(results) : results'[i] = results[i] /\ ran'[i] = ran[i]
  BY AppendSequence DEF RPCInv
<1>2. ASSUME NEW i \in DOMAIN ran'  PROVE Outcome(i)'
  <2>1. CASE i = n  BY <2>1
  <2>2. CASE i # n
    <3>1. i \in 1 .. Len(results)  BY <1>1, <2>2
    <3>2. Outcome(i)  BY <1>1, <3>1 DEF RPCInv
    <3>3. results'[i] = results[i] /\ ran'[i] = ran[i]  BY <1>1, <3>1
    <3> QED  BY <3>2, <3>3 DEF Outcome
  <2> QED  BY <2>1, <2>2
<1>3. Decoded  BY DEF RPCInv
<1>4. Len(input) \in Nat  BY <1>3, InputSequence DEF RPCInv, Decoded
<1>5. Decoded'  BY <1>1, <1>3, <1>4 DEF Decoded
<1> QED  BY <1>1, <1>2, <1>5 DEF RPCInv

LEMMA QueryFailsInv == RPCInv /\ QueryFails => RPCInv'
<1> SUFFICES ASSUME RPCInv, QueryFails PROVE RPCInv'  OBVIOUS
<1> DEFINE r == [kind |-> "", ok |-> FALSE, first |-> 0, wrote |-> 0]
<1>1. /\ results' = Append(results, errorResult) /\ ran' = Append(ran, r)
  BY DEF QueryFails
<1> PICK n : n = Len(results) + 1  OBVIOUS
<1>2. results'[n] = errorResult /\ ran'[n] = r
  <2> HIDE DEF r
  <2> QED  BY <1>1, AppendSequence DEF RPCInv
<1>3. Outcome(n)'  BY <1>2 DEF Outcome, errorResult
<1> HIDE DEF r
<1> QED  BY <1>1, <1>3, TurnInv DEF QueryFails

\* The counters in the item of a statement are those read for it; only a
\* statement that writes has them.
LEMMA ReportedCounters ==
  ASSUME NEW k, NEW c
  PROVE  LET g == queryResultFromDB(k, c)
         IN  /\ g = queryResultFromDB(k, Reported(g))
             /\ k \in DOMAIN Writers => Reported(g) = [rowid |-> c.rowid, changes |-> c.changes]
<1> DEFINE g == queryResultFromDB(k, c)
<1>1. g[2].lastInsertId = (IF k \in DOMAIN Writers THEN <<"int", c.rowid>> ELSE Null)
      /\ g[2].rowsAffected = (IF k \in DOMAIN Writers THEN <<"int", c.changes>> ELSE Null)
  BY DEF queryResultFromDB, Object
<1>2. k \in DOMAIN Writers => Reported(g) = [rowid |-> c.rowid, changes |-> c.changes]
  <2> HIDE DEF g
  <2> QED  BY <1>1 DEF Reported
<1>3. g = queryResultFromDB(k, Reported(g))
  <2>1. CASE k \in DOMAIN Writers
    <3>1. Reported(g).rowid = c.rowid /\ Reported(g).changes = c.changes
      <4> HIDE DEF g
      <4> QED  BY <1>2, <2>1
    <3> QED  BY <3>1 DEF queryResultFromDB
  <2>2. CASE k \notin DOMAIN Writers
    BY <2>2 DEF queryResultFromDB
  <2> QED  BY <2>1, <2>2
<1> QED  BY <1>2, <1>3

LEMMA QueryRunsInv == RPCInv /\ QueryRuns => RPCInv'
<1> SUFFICES ASSUME RPCInv, QueryRuns PROVE RPCInv'  OBVIOUS
<1> PICK n : n = Len(results) + 1  OBVIOUS
<1> DEFINE k == input[n][2].query[2]
           g == queryResultFromDB(k, CountersRead(k))
           r == [kind |-> k, ok |-> TRUE, first |-> conn.rowid,
                 wrote |-> IF k \in DOMAIN Writers THEN Writers[k] ELSE 0]
<1>1. results' = Append(results, g) /\ ran' = Append(ran, r) /\ k \in Kinds
  BY DEF QueryRuns
<1>2. results'[n] = g /\ ran'[n] = r
  <2> HIDE DEF r, g
  <2> QED  BY <1>1, AppendSequence DEF RPCInv
<1>3. k \in {"insert", "insertTwo"} =>
        CountersRead(k) = [rowid |-> r.first + r.wrote, changes |-> r.wrote]
  BY DEF CountersRead, ConnAfter, Writers
<1>4. k \in {"insert", "insertTwo"} => Reported(g) = [rowid |-> r.first + r.wrote, changes |-> r.wrote]
  <2> SUFFICES ASSUME k \in {"insert", "insertTwo"}
               PROVE Reported(g) = [rowid |-> r.first + r.wrote, changes |-> r.wrote]
    OBVIOUS
  <2>1. k \in DOMAIN Writers  BY DEF Writers
  <2>2. Reported(g) = [rowid |-> CountersRead(k).rowid, changes |-> CountersRead(k).changes]
    BY <2>1, ReportedCounters
  <2> HIDE DEF g, r, k
  <2> QED  BY <1>3, <2>2
<1>5. g = queryResultFromDB(k, Reported(g))  BY ReportedCounters
<1>6. r.ok /\ r.kind = k  OBVIOUS
<1>7. input' = input  BY DEF QueryRuns
<1>8. Outcome(n)'
  <2> HIDE DEF g, r
  <2>1. ran'[n].ok /\ ran'[n].kind \in Kinds /\ ran'[n].kind = input'[n][2].query[2]
    BY <1>1, <1>2, <1>6, <1>7
  <2>2. results'[n] = queryResultFromDB(ran'[n].kind, Reported(results'[n]))
    BY <1>2, <1>5, <1>6
  <2>3. ran'[n].kind \in {"insert", "insertTwo"} =>
          Reported(results'[n]) = [rowid |-> ran'[n].first + ran'[n].wrote, changes |-> ran'[n].wrote]
    BY <1>2, <1>4, <1>6
  <2> QED  BY <2>1, <2>2, <2>3 DEF Outcome, Reported
<1> HIDE DEF g, r
<1> QED  BY <1>1, <1>8, TurnInv DEF QueryRuns

LEMMA BuildQueryOutputInv == RPCInv /\ BuildQueryOutput => RPCInv'
<1> SUFFICES ASSUME RPCInv, BuildQueryOutput PROVE RPCInv'  OBVIOUS
<1>1. UNCHANGED <<op, body, results, ran, input, answer>> /\ phase = "running" /\ phase' = "built"
  BY DEF BuildQueryOutput
<1>2. \A i \in DOMAIN ran' : Outcome(i)'  BY <1>1, OutcomesStay DEF RPCInv
<1>3. Decoded /\ op \in RQLiteForms \cup {"query"}  BY <1>1 DEF RPCInv
<1>4. Decoded'  BY <1>1, <1>3 DEF Decoded
<1>5. Built'  BY <1>1, <1>3, <1>4 DEF BuildQueryOutput, Built, ResultsSlice
<1> QED  BY <1>1, <1>2, <1>5 DEF RPCInv, Sequence

LEMMA SystemOutputStays ==
  ASSUME UNCHANGED <<op, served>>  PROVE SystemOutput(op)' = SystemOutput(op)
  BY DEF SystemOutput, loadedStatsToVDL

LEMMA BuildSystemOutputInv == RPCInv /\ BuildSystemOutput => RPCInv'
<1> SUFFICES ASSUME RPCInv, BuildSystemOutput PROVE RPCInv'  OBVIOUS
<1>1. /\ UNCHANGED <<op, body, results, ran, input, answer, served>>
      /\ phase = "received" /\ phase' = "built"
      /\ op \in Operations \ {"query"} /\ output' \in SystemOutput(op)
  BY DEF BuildSystemOutput
<1>2. \A i \in DOMAIN ran' : Outcome(i)'  BY <1>1, OutcomesStay DEF RPCInv
<1>3. NothingRan'  BY <1>1 DEF RPCInv, NothingRan
<1>4. output' \in SystemOutput(op)'  BY <1>1, SystemOutputStays
<1>5. op' \notin RQLiteForms \cup {"query"} /\ op' \in Operations
  BY <1>1 DEF Operations, RQLiteForms
<1>6. Built'  BY <1>3, <1>4, <1>5 DEF Built
<1> QED  BY <1>1, <1>2, <1>6 DEF RPCInv, Sequence

\* The answer is written from an output that was built, and changes nothing else.
LEMMA WriteInv ==
  ASSUME RPCInv, phase = "built", phase' = "answered",
         UNCHANGED <<op, body, input, results, output, conn, served, ran>>,
         \/ op \in Operations /\ answer' = ProcResponse
         \/ op \in RQLiteForms /\ answer' = RQLiteResponse
  PROVE  RPCInv'
<1>1. \A i \in DOMAIN ran' : Outcome(i)'  BY OutcomesStay DEF RPCInv
<1>2. Built  BY DEF RPCInv
<1>3. SystemOutput(op)' = SystemOutput(op)  BY SystemOutputStays
<1>4. Built'  BY <1>2, <1>3 DEF Built, Decoded, NothingRan
<1>5. Answered'  BY <1>4 DEF Answered, ProcResponse, RQLiteResponse
<1> QED  BY <1>1, <1>5 DEF RPCInv, Sequence

LEMMA NextInv == RPCInv /\ [Next]_vars => RPCInv'
<1> SUFFICES ASSUME RPCInv, [Next]_vars PROVE RPCInv'  OBVIOUS
<1>1. CASE Receive  BY <1>1, ReceiveInv
<1>2. CASE RefuseBody
  <2>1. DecodeDatabaseQueryInput(body) = Bad
    BY <1>2 DEF RefuseBody, NotJSON, DecodeDatabaseQueryInput, Strict, Null
  <2> QED  BY <1>2, <2>1, RefuseInv DEF RefuseBody
<1>3. CASE RefuseOperation  BY <1>3, RefuseInv DEF RefuseOperation
<1>4. CASE RefuseInput  BY <1>4, RefuseInv DEF RefuseInput
<1>5. CASE AcceptInput  BY <1>5, AcceptInputInv
<1>6. CASE QueryFails  BY <1>6, QueryFailsInv
<1>7. CASE QueryRuns  BY <1>7, QueryRunsInv
<1>8. CASE BuildQueryOutput  BY <1>8, BuildQueryOutputInv
<1>9. CASE BuildSystemOutput  BY <1>9, BuildSystemOutputInv
<1>10. CASE WriteResponse  BY <1>10, WriteInv DEF WriteResponse
<1>11. CASE WriteRQLite  BY <1>11, WriteInv DEF WriteRQLite
<1>12. CASE NextRequest
  <2>1. Sequence(results') /\ Sequence(ran')  BY <1>12, EmptySequence DEF NextRequest
  <2>2. DOMAIN ran' = {}  BY <1>12 DEF NextRequest
  <2> QED  BY <1>12, <2>1, <2>2 DEF NextRequest, RPCInv, NothingRan
<1>13. CASE UNCHANGED vars
  <2>1. \A i \in DOMAIN ran' : Outcome(i)'  BY <1>13, OutcomesStay DEF vars, RPCInv
  <2>2. SystemOutput(op)' = SystemOutput(op)  BY <1>13, SystemOutputStays DEF vars
  <2>3. Built => Built'  BY <1>13, <2>2 DEF vars, Built, Decoded, NothingRan
  <2>4. Answered => Answered'
    BY <1>13, <2>3 DEF vars, Answered, ProcResponse, RQLiteResponse, NothingRan
  <2>5. Decoded => Decoded'  BY <1>13 DEF vars, Decoded
  <2> QED  BY <1>13, <2>1, <2>3, <2>4, <2>5 DEF vars, RPCInv, NothingRan, Sequence
<1>14. CASE Over  BY <1>13, <1>14 DEF Over
<1> QED
  BY <1>1, <1>2, <1>3, <1>4, <1>5, <1>6, <1>7, <1>8, <1>9, <1>10, <1>11, <1>12, <1>13, <1>14 DEF Next

\* Between any two steps the items are those of the first queries of an accepted
\* body, in order, with the counters each statement left; an answer is written
\* from them or refuses a body of which nothing ran.  (handleRequest,
\* executeQueries and writeProcResponse.)
THEOREM RequestDiscipline == Spec => []RPCInv
  BY InitInv, NextInv, PTL DEF Spec

\* A batch with one malformed query runs none of its statements and is answered
\* with an error, and a well-formed one is never refused, whatever the bodies
\* are.  (DatabaseQueryInput.UnmarshalJSON, handleProcRequest.)
THEOREM BadBatchesRunNothing == Spec => []BadBatchRunsNothing
<1>1. RPCInv => BadBatchRunsNothing
  <2> SUFFICES ASSUME RPCInv, op = "query" 
               PROVE  /\ ran # <<>> => WellFormed(body)
                      /\ phase = "answered" => (WellFormed(body) <=>
                            answer.error \notin {"Invalid request body", "failed to unmarshal"})
    BY DEF BadBatchRunsNothing
  <2>1. op \notin RQLiteForms  BY DEF RQLiteForms
  <2>2. Decoded => WellFormed(body)  BY DecodeInputOK DEF Decoded
  <2>3. Built => WellFormed(body)  BY <2>2 DEF Built
  <2>4. NothingRan => ran = <<>>  BY DEF NothingRan
  <2>5. ProcResponse.error \in {"none", "failed to marshal response"}  BY DEF ProcResponse
  <2>6. ASSUME phase = "answered"
        PROVE  /\ ran # <<>> => WellFormed(body)
               /\ WellFormed(body) <=>
                    answer.error \notin {"Invalid request body", "failed to unmarshal"}
    <3>1. CASE NothingRan /\ ~answer.ok /\ DecodeDatabaseQueryInput(body) = Bad
               /\ answer.error \in {"Invalid request body", "failed to unmarshal"}
      BY <3>1, <2>4, DecodeInputOK
    <3>2. CASE Built /\ answer = ProcResponse  BY <3>2, <2>3, <2>5
    <3> QED  BY <2>1, <2>6, <3>1, <3>2 DEF RPCInv, Answered
  <2> QED  BY <2>2, <2>3, <2>4, <2>6 DEF RPCInv
<1> QED  BY <1>1, RequestDiscipline, PTL

-----------------------------------------------------------------------------
\* Encoding, and what a client decodes of it.

\* Every field of a struct is found again in what is written.
LEMMA WrittenOK ==
  ASSUME NEW e, NEW omitempty
  PROVE  /\ Written(e, omitempty) # Bad <=> \A f \in DOMAIN e : e[f] # Bad
         /\ Written(e, omitempty) # Bad =>
              /\ Written(e, omitempty)[1] = "object"
              /\ \A f \in DOMAIN e : At(Written(e, omitempty), f) = e[f]
              /\ \A f \in DOMAIN e : f \notin omitempty \/ e[f] # Null => Written(e, omitempty)[2][f] = e[f]
<1> DEFINE D == {x \in DOMAIN e : x \notin omitempty \/ e[x] # Null}
           w == [f \in D |-> e[f]]
<1>1. Written(e, omitempty) = IF \E f \in DOMAIN e : e[f] = Bad THEN Bad ELSE Object(w)
  BY DEF Written
<1>2. Object(w) # Bad /\ Object(w)[1] = "object" /\ Object(w)[2] = w
  <2> HIDE DEF w
  <2> QED  BY DEF Object, Bad
<1>3. ASSUME NEW f \in DOMAIN e
      PROVE  /\ At(Object(w), f) = e[f]
             /\ f \notin omitempty \/ e[f] # Null => w[f] = e[f]
  <2>1. f \in D => w[f] = e[f]  OBVIOUS
  <2>2. f \notin D => e[f] = Null  OBVIOUS
  <2>3. DOMAIN w = D  OBVIOUS
  <2>4. f \notin omitempty \/ e[f] # Null => f \in D  OBVIOUS
  <2> HIDE DEF w, D
  <2> QED  BY <1>2, <2>1, <2>2, <2>3, <2>4 DEF At
<1> HIDE DEF w
<1> QED  BY <1>1, <1>2, <1>3

TypedValue(g) ==
    /\ g = Object([f \in DOMAIN SqliteValue |-> g[2][f]])
    /\ \A f \in DOMAIN SqliteValue : g[2][f] = Null \/ g[2][f][1] \in SqliteValue[f]

LEMMA SqliteValueRoundTrip ==
  ASSUME NEW g, TypedValue(g), EncodeSqliteValue(g) # Bad
  PROVE  DecodeSqliteValue(EncodeSqliteValue(g)) = g
<1> DEFINE e == [f \in DOMAIN SqliteValue |-> MarshalScalar(g[2][f])]
           w == EncodeSqliteValue(g)
           d == [f \in DOMAIN SqliteValue |-> Scalar(SqliteValue[f], At(w, f))]
<1>1. w = Written(e, DOMAIN SqliteValue)  BY DEF EncodeSqliteValue
<1>2. w[1] = "object" /\ \A f \in DOMAIN SqliteValue : e[f] # Bad /\ At(w, f) = e[f]
  <2>1. DOMAIN e = DOMAIN SqliteValue  OBVIOUS
  <2> HIDE DEF e, w
  <2> QED  BY <1>1, <2>1, WrittenOK DEF w
<1>3. ASSUME NEW f \in DOMAIN SqliteValue  PROVE d[f] = g[2][f] /\ d[f] # Bad
  <2>1. e[f] = g[2][f]  BY <1>2 DEF MarshalScalar
  <2>2. d[f] = Scalar(SqliteValue[f], g[2][f])  BY <2>1, <1>2
  <2>3. g[2][f] = Null \/ g[2][f][1] \in SqliteValue[f]  BY DEF TypedValue
  <2>4. "bad" \notin SqliteValue[f]  BY DEF SqliteValue, Bool, Int64, Float64, String
  <2> HIDE DEF d
  <2> QED  BY <2>2, <2>3, <2>4 DEF Scalar, Null, Bad
<1>4. d = [f \in DOMAIN SqliteValue |-> g[2][f]]  BY <1>3
<1>5. DecodeSqliteValue(w) = Strict(w, d, {})  BY DEF DecodeSqliteValue
<1>6. DOMAIN d = DOMAIN SqliteValue  OBVIOUS
<1>7. Strict(w, d, {}) = Object(d)
  <2> HIDE DEF d, w
  <2> QED  BY <1>2, <1>3, <1>6 DEF Strict
<1>8. g = Object([f \in DOMAIN SqliteValue |-> g[2][f]])  BY DEF TypedValue
<1> HIDE DEF d
<1> QED  BY <1>4, <1>5, <1>7, <1>8

\* A list or a map whose items come back comes back.
LEMMA CollectedRoundTrip ==
  ASSUME NEW class, class \notin {"null", "bad"}, NEW g, NEW e, NEW d,
         g = Null \/ g = <<class, [i \in DOMAIN g[2] |-> g[2][i]]>>,
         DOMAIN e = DOMAIN Items(class, g), Collected(class, g, e) # Bad,
         d = [i \in DOMAIN Items(class, Collected(class, g, e)) |-> d[i]],
         g # Null => \A i \in DOMAIN e : e[i] # Bad => d[i] = g[2][i] /\ g[2][i] # Bad
  PROVE  Collected(class, Collected(class, g, e), d) = g
<1>1. CASE g = Null
  <2>1. Collected(class, g, e) = Null  BY <1>1 DEF Collected
  <2> QED  BY <1>1, <2>1 DEF Collected
<1>2. CASE g # Null
  <2>1. g = <<class, [i \in DOMAIN g[2] |-> g[2][i]]>> /\ g[1] = class  BY <1>2
  <2>2. Collected(class, g, e) = <<class, e>> /\ \A i \in DOMAIN e : e[i] # Bad
    BY <1>2 DEF Collected
  <2>3. DOMAIN Items(class, <<class, e>>) = DOMAIN e  BY DEF Items
  <2>4. DOMAIN e = DOMAIN g[2]  BY <2>1 DEF Items
  <2>5. d = [i \in DOMAIN g[2] |-> g[2][i]]  BY <2>2, <2>3, <2>4, <1>2
  <2>6. \A i \in DOMAIN d : d[i] # Bad  BY <2>5, <2>2, <2>4, <1>2
  <2>7. <<class, e>> # Null  BY DEF Null
  <2>8. Collected(class, <<class, e>>, d) = <<class, d>>  BY <2>6, <2>7 DEF Collected
  <2> QED  BY <2>1, <2>2, <2>5, <2>8
<1> QED  BY <1>1, <1>2

ListFunction(g) == g = Null \/ g = List([i \in DOMAIN g[2] |-> g[2][i]])
TypedRow(g) == ListFunction(g) /\ (g # Null => \A i \in DOMAIN g[2] : TypedValue(g[2][i]))
TypedRows(g) == ListFunction(g) /\ (g # Null => \A i \in DOMAIN g[2] : TypedRow(g[2][i]))
TypedColumns(g) == ListFunction(g) /\ (g # Null => \A i \in DOMAIN g[2] : g[2][i][1] = "string")
TypedTypes(g) ==
    ListFunction(g) /\ (g # Null => \A i \in DOMAIN g[2] : \E t \in SqliteStorageClass : g[2][i] = Text(t))

LEMMA RowRoundTrip ==
  ASSUME NEW g, TypedRow(g), EncodeRow(g) # Bad
  PROVE  DecodeRow(EncodeRow(g)) = g
<1> DEFINE e == [i \in DOMAIN Items("list", g) |-> EncodeSqliteValue(g[2][i])]
           w == EncodeRow(g)
           d == [i \in DOMAIN Items("list", w) |-> DecodeSqliteValue(w[2][i])]
<1>1. w = Collected("list", g, e)  BY DEF EncodeRow
<1>2. DecodeRow(w) = Collected("list", w, d)  BY DEF DecodeRow
<1>3. ASSUME g # Null, NEW i \in DOMAIN e, e[i] # Bad  PROVE d[i] = g[2][i] /\ g[2][i] # Bad
  <2>1. g[1] = "list" /\ g[2] = Items("list", g)  BY <1>3 DEF TypedRow, ListFunction, List, Items
  <2>2. w = <<"list", e>>
    <3> HIDE DEF e, w
    <3> QED  BY <1>1, <1>3, <2>1 DEF Collected, w
  <2>3. i \in DOMAIN g[2] /\ e[i] = EncodeSqliteValue(g[2][i])  BY <2>1
  <2>4. TypedValue(g[2][i])  BY <1>3, <2>3 DEF TypedRow
  <2>5. Items("list", w) = e /\ w[2] = e
    <3> HIDE DEF e, w
    <3> QED  BY <2>2 DEF Items
  <2>6. d[i] = DecodeSqliteValue(e[i])  BY <2>5
  <2>7. d[i] = g[2][i]  BY <1>3, <2>3, <2>4, <2>6, SqliteValueRoundTrip
  <2>8. g[2][i] # Bad  BY <2>4 DEF TypedValue, Object, Bad
  <2> QED  BY <2>7, <2>8
<1>4. d = [i \in DOMAIN Items("list", w) |-> d[i]]  OBVIOUS
<1>5. DOMAIN e = DOMAIN Items("list", g)  OBVIOUS
<1> HIDE DEF e, d, w
<1> QED  BY <1>1, <1>2, <1>3, <1>4, <1>5, CollectedRoundTrip DEF TypedRow, ListFunction, List, w

LEMMA RowsRoundTrip ==
  ASSUME NEW g, TypedRows(g), EncodeRows(g) # Bad
  PROVE  DecodeRows(EncodeRows(g)) = g
<1> DEFINE e == [i \in DOMAIN Items("list", g) |-> EncodeRow(g[2][i])]
           w == EncodeRows(g)
           d == [i \in DOMAIN Items("list", w) |-> DecodeRow(w[2][i])]
<1>1. w = Collected("list", g, e)  BY DEF EncodeRows
<1>2. DecodeRows(w) = Collected("list", w, d)  BY DEF DecodeRows
<1>3. ASSUME g # Null, NEW i \in DOMAIN e, e[i] # Bad  PROVE d[i] = g[2][i] /\ g[2][i] # Bad
  <2>1. g[1] = "list" /\ g[2] = Items("list", g)
    BY <1>3 DEF TypedRows, ListFunction, List, Items
  <2>2. w = <<"list", e>>
    <3> HIDE DEF e, w
    <3> QED  BY <1>1, <1>3, <2>1 DEF Collected, w
  <2>3. i \in DOMAIN g[2] /\ e[i] = EncodeRow(g[2][i])  BY <2>1
  <2>4. TypedRow(g[2][i])
    BY <1>3, <2>3 DEF TypedRows
  <2>5. Items("list", w) = e /\ w[2] = e
    <3> HIDE DEF e, w
    <3> QED  BY <2>2 DEF Items
  <2>6. d[i] = DecodeRow(e[i])  BY <2>5
  <2>7. d[i] = g[2][i]  BY <1>3, <2>3, <2>4, <2>6, RowRoundTrip
  <2>8. g[2][i] # Bad  BY <2>4 DEF TypedRow, ListFunction, List, Null, Bad
  <2> QED  BY <2>7, <2>8
<1>4. d = [i \in DOMAIN Items("list", w) |-> d[i]]  OBVIOUS
<1>5. DOMAIN e = DOMAIN Items("list", g)  OBVIOUS
<1> HIDE DEF e, d, w
<1> QED  BY <1>1, <1>2, <1>3, <1>4, <1>5, CollectedRoundTrip DEF TypedRows, ListFunction, List, w

LEMMA TypesRoundTrip ==
  ASSUME NEW g, TypedTypes(g), EncodeTypes(g) # Bad
  PROVE  DecodeTypes(EncodeTypes(g)) = g
<1> DEFINE e == [i \in DOMAIN Items("list", g) |-> MarshalEnum(SqliteStorageClass, g[2][i])]
           w == EncodeTypes(g)
           d == [i \in DOMAIN Items("list", w) |-> Enum(SqliteStorageClass, w[2][i])]
<1>1. w = Collected("list", g, e)  BY DEF EncodeTypes
<1>2. DecodeTypes(w) = Collected("list", w, d)  BY DEF DecodeTypes
<1>3. ASSUME g # Null, NEW i \in DOMAIN e, e[i] # Bad  PROVE d[i] = g[2][i] /\ g[2][i] # Bad
  <2>1. g[1] = "list" /\ g[2] = Items("list", g)
    BY <1>3 DEF TypedTypes, ListFunction, List, Items
  <2>2. w = <<"list", e>>
    <3> HIDE DEF e, w
    <3> QED  BY <1>1, <1>3, <2>1 DEF Collected, w
  <2>3. i \in DOMAIN g[2] /\ e[i] = MarshalEnum(SqliteStorageClass, g[2][i])  BY <2>1
  <2>4. \E t \in SqliteStorageClass : g[2][i] = Text(t)
    BY <1>3, <2>3 DEF TypedTypes
  <2>5. Items("list", w) = e /\ w[2] = e
    <3> HIDE DEF e, w
    <3> QED  BY <2>2 DEF Items
  <2>6. d[i] = Enum(SqliteStorageClass, e[i])  BY <2>5
  <2>7. d[i] = g[2][i]  BY <1>3, <2>3, <2>4, <2>6 DEF MarshalEnum, Enum, Text
  <2>8. g[2][i] # Bad  BY <2>4 DEF Text, Bad
  <2> QED  BY <2>7, <2>8
<1>4. d = [i \in DOMAIN Items("list", w) |-> d[i]]  OBVIOUS
<1>5. DOMAIN e = DOMAIN Items("list", g)  OBVIOUS
<1> HIDE DEF e, d, w
<1> QED  BY <1>1, <1>2, <1>3, <1>4, <1>5, CollectedRoundTrip DEF TypedTypes, ListFunction, List, w

\* The names of the columns are written as they are.
LEMMA ColumnsRoundTrip ==
  ASSUME NEW g, TypedColumns(g)  PROVE DecodeColumns(g) = g
<1> DEFINE d == [i \in DOMAIN Items("list", g) |->
                    IF g[2][i] = Null THEN Text("") ELSE Scalar(String, g[2][i])]
<1>1. DecodeColumns(g) = Collected("list", g, d)  BY DEF DecodeColumns
<1>2. CASE g = Null  BY <1>1, <1>2 DEF Collected
<1>3. CASE g # Null
  <2>1. g = List([i \in DOMAIN g[2] |-> g[2][i]]) /\ \A i \in DOMAIN g[2] : g[2][i][1] = "string"
    BY <1>3 DEF TypedColumns, ListFunction
  <2>2. g[1] = "list" /\ Items("list", g) = g[2]  BY <2>1 DEF List, Items
  <2>3. ASSUME NEW i \in DOMAIN g[2]  PROVE d[i] = g[2][i] /\ d[i] # Bad
    <3>1. g[2][i] # Null /\ g[2][i] # Bad  BY <2>1 DEF Null, Bad
    <3>2. Scalar(String, g[2][i]) = g[2][i]  BY <2>1 DEF Scalar, String
    <3> QED  BY <2>2, <3>1, <3>2
  <2>4. d = [i \in DOMAIN g[2] |-> g[2][i]]  BY <2>2, <2>3
  <2>5. Collected("list", g, d) = <<"list", d>>
    <3>1. DOMAIN d = DOMAIN g[2]  BY <2>4
    <3> HIDE DEF d
    <3> QED  BY <1>3, <2>2, <2>3, <3>1 DEF Collected
  <2> QED  BY <1>1, <2>1, <2>4, <2>5 DEF List
<1> QED  BY <1>2, <1>3

\* A result of a query with its Go types.
TypedResult(g) ==
    /\ g = Object([type |-> g[2].type, time |-> g[2].time, error |-> g[2].error,
                   txId |-> g[2].txId, lastInsertId |-> g[2].lastInsertId,
                   rowsAffected |-> g[2].rowsAffected, columns |-> g[2].columns,
                   types |-> g[2].types, rows |-> g[2].rows])
    /\ \E t \in QueryResultType : g[2].type = Text(t)
    /\ g[2].time[1] = "real"
    /\ g[2].error = Null \/ g[2].error[1] = "string"
    /\ g[2].txId = Null \/ g[2].txId[1] = "string"
    /\ g[2].lastInsertId = Null \/ g[2].lastInsertId[1] = "int"
    /\ g[2].rowsAffected = Null \/ g[2].rowsAffected[1] = "int"
    /\ TypedColumns(g[2].columns) /\ TypedTypes(g[2].types) /\ TypedRows(g[2].rows)

LEMMA ResultRoundTrip ==
  ASSUME NEW g, TypedResult(g), EncodeQueryResult(g) # Bad
  PROVE  DecodeQueryResult(EncodeQueryResult(g)) = g
<1> DEFINE e == [type |-> MarshalEnum(QueryResultType, g[2].type),
                 time |-> MarshalScalar(g[2].time), error |-> g[2].error, txId |-> g[2].txId,
                 lastInsertId |-> g[2].lastInsertId, rowsAffected |-> g[2].rowsAffected,
                 columns |-> g[2].columns, types |-> EncodeTypes(g[2].types),
                 rows |-> EncodeRows(g[2].rows)]
           opt == {"error", "txId", "lastInsertId", "rowsAffected", "columns", "types", "rows"}
           j == EncodeQueryResult(g)
           d == [type |-> Pointer(At(j, "type"), Enum(QueryResultType, At(j, "type"))),
                 time |-> Scalar(Float64, At(j, "time")), error |-> Scalar(String, At(j, "error")),
                 txId |-> Scalar(String, At(j, "txId")),
                 lastInsertId |-> Scalar(Int64, At(j, "lastInsertId")),
                 rowsAffected |-> Scalar(Int64, At(j, "rowsAffected")),
                 columns |-> DecodeColumns(At(j, "columns")),
                 types |-> DecodeTypes(At(j, "types")), rows |-> DecodeRows(At(j, "rows"))]
<1>1. j = Written(e, opt)  BY DEF EncodeQueryResult
<1>2. DecodeQueryResult(j) = Strict(j, d, {"type", "time"})  BY DEF DecodeQueryResult
<1>3. DOMAIN e = {"type", "time"} \cup opt  OBVIOUS
<1>4. j[1] = "object" /\ \A f \in DOMAIN e : e[f] # Bad /\ At(j, f) = e[f]
  <2> HIDE DEF e, opt, j
  <2> QED  BY <1>1, WrittenOK DEF j
<1>5. /\ e.type # Bad /\ e.time # Bad /\ e.types # Bad /\ e.rows # Bad
      /\ At(j, "type") = e.type /\ At(j, "time") = e.time /\ At(j, "error") = g[2].error
      /\ At(j, "txId") = g[2].txId /\ At(j, "lastInsertId") = g[2].lastInsertId
      /\ At(j, "rowsAffected") = g[2].rowsAffected /\ At(j, "columns") = g[2].columns
      /\ At(j, "types") = e.types /\ At(j, "rows") = e.rows
  <2> HIDE DEF j
  <2> QED  BY <1>3, <1>4
<1> HIDE DEF j
<1>6. d.type = g[2].type /\ d.type # Bad /\ d.type # Null
  <2>1. PICK t \in QueryResultType : g[2].type = Text(t)  BY DEF TypedResult
  <2>2. e.type = Text(t)  BY <2>1 DEF MarshalEnum, Text
  <2>3. d.type = Text(t)  BY <2>1, <2>2, <1>5 DEF Pointer, Enum, Text, Null
  <2> QED  BY <2>1, <2>3 DEF Text, Bad, Null
<1>7. d.time = g[2].time /\ d.time # Bad /\ d.time # Null
  <2>1. e.time = g[2].time  BY <1>5 DEF MarshalScalar
  <2>2. g[2].time[1] = "real"  BY DEF TypedResult
  <2> QED  BY <1>5, <2>1, <2>2 DEF Scalar, Float64, Bad, Null
<1>8. /\ d.error = g[2].error /\ d.error # Bad /\ d.txId = g[2].txId /\ d.txId # Bad
      /\ d.lastInsertId = g[2].lastInsertId /\ d.lastInsertId # Bad
      /\ d.rowsAffected = g[2].rowsAffected /\ d.rowsAffected # Bad
  BY <1>5 DEF TypedResult, Scalar, String, Int64, Bad, Null
<1>9. d.columns = g[2].columns /\ d.columns # Bad
  <2>1. TypedColumns(g[2].columns)  BY DEF TypedResult
  <2>2. d.columns = g[2].columns  BY <1>5, <2>1, ColumnsRoundTrip
  <2> QED  BY <2>1, <2>2 DEF TypedColumns, ListFunction, List, Bad, Null
<1>10. d.types = g[2].types /\ d.types # Bad
  <2>1. TypedTypes(g[2].types)  BY DEF TypedResult
  <2>2. d.types = g[2].types  BY <1>5, <2>1, TypesRoundTrip
  <2> QED  BY <2>1, <2>2 DEF TypedTypes, ListFunction, List, Bad, Null
<1>11. d.rows = g[2].rows /\ d.rows # Bad
  <2>1. TypedRows(g[2].rows)  BY DEF TypedResult
  <2>2. d.rows = g[2].rows  BY <1>5, <2>1, RowsRoundTrip
  <2> QED  BY <2>1, <2>2 DEF TypedRows, ListFunction, List, Bad, Null
<1>12. d = [type |-> g[2].type, time |-> g[2].time, error |-> g[2].error,
            txId |-> g[2].txId, lastInsertId |-> g[2].lastInsertId,
            rowsAffected |-> g[2].rowsAffected, columns |-> g[2].columns,
            types |-> g[2].types, rows |-> g[2].rows]
  BY <1>6, <1>7, <1>8, <1>9, <1>10, <1>11
<1>13. \A f \in DOMAIN d : d[f] # Bad /\ (f \in {"type", "time"} => d[f] # Null)
  BY <1>6, <1>7, <1>8, <1>9, <1>10, <1>11
<1>14. Strict(j, d, {"type", "time"}) = Object(d)
  <2> HIDE DEF d
  <2> QED  BY <1>4, <1>13 DEF Strict
<1>15. g = Object([type |-> g[2].type, time |-> g[2].time, error |-> g[2].error,
                   txId |-> g[2].txId, lastInsertId |-> g[2].lastInsertId,
                   rowsAffected |-> g[2].rowsAffected, columns |-> g[2].columns,
                   types |-> g[2].types, rows |-> g[2].rows])
  BY DEF TypedResult
<1> HIDE DEF d
<1> QED  BY <1>2, <1>12, <1>14, <1>15 DEF j

TypedResults(g) == ListFunction(g) /\ (g # Null => \A i \in DOMAIN g[2] : TypedResult(g[2][i]))

LEMMA ResultsRoundTrip ==
  ASSUME NEW g, TypedResults(g), EncodeResults(g) # Bad
  PROVE  DecodeResults(EncodeResults(g)) = g
<1> DEFINE e == [i \in DOMAIN Items("list", g) |-> EncodeQueryResult(g[2][i])]
           w == EncodeResults(g)
           d == [i \in DOMAIN Items("list", w) |-> DecodeQueryResult(w[2][i])]
<1>1. w = Collected("list", g, e)  BY DEF EncodeResults
<1>2. DecodeResults(w) = Collected("list", w, d)  BY DEF DecodeResults
<1>3. ASSUME g # Null, NEW i \in DOMAIN e, e[i] # Bad  PROVE d[i] = g[2][i] /\ g[2][i] # Bad
  <2>1. g[1] = "list" /\ g[2] = Items("list", g)
    BY <1>3 DEF TypedResults, ListFunction, List, Items
  <2>2. w = <<"list", e>>
    <3> HIDE DEF e, w
    <3> QED  BY <1>1, <1>3, <2>1 DEF Collected, w
  <2>3. i \in DOMAIN g[2] /\ e[i] = EncodeQueryResult(g[2][i])  BY <2>1
  <2>4. TypedResult(g[2][i])
    BY <1>3, <2>3 DEF TypedResults
  <2>5. Items("list", w) = e /\ w[2] = e
    <3> HIDE DEF e, w
    <3> QED  BY <2>2 DEF Items
  <2>6. d[i] = DecodeQueryResult(e[i])  BY <2>5
  <2>7. d[i] = g[2][i]  BY <1>3, <2>3, <2>4, <2>6, ResultRoundTrip
  <2>8. g[2][i] # Bad  BY <2>4 DEF TypedResult, Object, Bad
  <2> QED  BY <2>7, <2>8
<1>4. d = [i \in DOMAIN Items("list", w) |-> d[i]]  OBVIOUS
<1>5. DOMAIN e = DOMAIN Items("list", g)  OBVIOUS
<1> HIDE DEF e, d, w
<1> QED  BY <1>1, <1>2, <1>3, <1>4, <1>5, CollectedRoundTrip DEF TypedResults, ListFunction, List, w

-----------------------------------------------------------------------------
\* What the server returns has its Go types.

LEMMA ValueTyped == ASSUME NEW v  PROVE TypedValue(sqliteValueToVDL(v))
<1> DEFINE h == [f \in DOMAIN SqliteValue |->
                    CASE f = "null" /\ v = Null -> <<"bool", TRUE>>
                      [] f = "integer" /\ v[1] = "int" -> v
                      [] f = "real" /\ v[1] = "real" -> v
                      [] OTHER -> Null]
<1>1. sqliteValueToVDL(v) = Object(h)  BY DEF sqliteValueToVDL
<1>2. ASSUME NEW f \in DOMAIN SqliteValue  PROVE h[f] = Null \/ h[f][1] \in SqliteValue[f]
  <2>1. CASE f = "null" /\ v = Null  BY <2>1 DEF SqliteValue, Bool
  <2>2. CASE f = "integer" /\ v[1] = "int"  BY <2>2 DEF SqliteValue, Int64
  <2>3. CASE f = "real" /\ v[1] = "real"  BY <2>3 DEF SqliteValue, Float64
  <2>4. CASE ~(f = "null" /\ v = Null) /\ ~(f = "integer" /\ v[1] = "int") /\ ~(f = "real" /\ v[1] = "real")
    BY <2>4
  <2> QED  BY <2>1, <2>2, <2>3, <2>4
<1>3. h = [f \in DOMAIN SqliteValue |-> h[f]]  OBVIOUS
<1>4. Object(h)[2] = h
  <2> HIDE DEF h
  <2> QED  BY DEF Object
<1> HIDE DEF h
<1> QED  BY <1>1, <1>2, <1>3, <1>4 DEF TypedValue

\* A value that is no infinite real can be written.
LEMMA ValueEncodes ==
  ASSUME NEW v, v # Infinite  PROVE EncodeSqliteValue(sqliteValueToVDL(v)) # Bad
<1> DEFINE h == [f \in DOMAIN SqliteValue |->
                    CASE f = "null" /\ v = Null -> <<"bool", TRUE>>
                      [] f = "integer" /\ v[1] = "int" -> v
                      [] f = "real" /\ v[1] = "real" -> v
                      [] OTHER -> Null]
           e == [f \in DOMAIN SqliteValue |-> MarshalScalar(h[f])]
<1>1. sqliteValueToVDL(v)[2] = h  BY DEF sqliteValueToVDL, Object
<1>2. EncodeSqliteValue(sqliteValueToVDL(v)) = Written(e, DOMAIN SqliteValue)
  <2> HIDE DEF h
  <2> QED  BY <1>1 DEF EncodeSqliteValue
<1>3. ASSUME NEW f \in DOMAIN SqliteValue  PROVE e[f] # Bad
  <2>1. h[f] \in {<<"bool", TRUE>>, Null} \/ (h[f] = v /\ v[1] \in {"int", "real"})
    <3>1. CASE f = "null" /\ v = Null  BY <3>1
    <3>2. CASE f = "integer" /\ v[1] = "int"  BY <3>2
    <3>3. CASE f = "real" /\ v[1] = "real"  BY <3>3
    <3>4. CASE ~(f = "null" /\ v = Null) /\ ~(f = "integer" /\ v[1] = "int") /\ ~(f = "real" /\ v[1] = "real")
      BY <3>4
    <3> QED  BY <3>1, <3>2, <3>3, <3>4
  <2>2. h[f] # Bad /\ h[f] # Infinite
    <3> HIDE DEF h
    <3>1. CASE h[f] = <<"bool", TRUE>>  BY <3>1 DEF Bad, Infinite
    <3>2. CASE h[f] = Null  BY <3>2 DEF Bad, Infinite, Null
    <3>3. CASE h[f] = v /\ v[1] \in {"int", "real"}  BY <3>3 DEF Bad
    <3> QED  BY <2>1, <3>1, <3>2, <3>3
  <2> HIDE DEF h
  <2> QED  BY <2>2 DEF MarshalScalar
<1>4. DOMAIN e = DOMAIN SqliteValue  OBVIOUS
<1> HIDE DEF e
<1> QED  BY <1>2, <1>3, <1>4, WrittenOK

\* A list made of a function is typed if its items are; nil otherwise.
LEMMA IfAnyList ==
  ASSUME NEW s, s = [i \in DOMAIN s |-> s[i]]
  PROVE  /\ ListFunction(IfAny(s))
         /\ IfAny(s) # Null => IfAny(s)[2] = s
         /\ IfAny(s) # Bad
         /\ IfAny(s) = Null => s = <<>>
         /\ IfAny(s) # Null => IfAny(s)[1] = "list"
  BY DEF ListFunction, IfAny, List, Null, Bad

EncodedRow(k, r) == List([i \in DOMAIN RowsOf(k)[r] |-> sqliteValueToVDL(RowsOf(k)[r][i])])

LEMMA ResultFields ==
  ASSUME NEW k, NEW c
  PROVE  LET g == queryResultFromDB(k, c)[2] IN
         /\ queryResultFromDB(k, c) = Object(g)
         /\ g = [type |-> g.type, time |-> g.time, error |-> g.error, txId |-> g.txId,
                 lastInsertId |-> g.lastInsertId, rowsAffected |-> g.rowsAffected,
                 columns |-> g.columns, types |-> g.types, rows |-> g.rows]
         /\ g.type = queryResultTypeFromDB(k) /\ g.time = <<"real", "t">> /\ g.error = Null
         /\ g.txId = (IF k = "begin" THEN Text("id") ELSE Null)
         /\ g.lastInsertId = (IF k \in DOMAIN Writers THEN <<"int", c.rowid>> ELSE Null)
         /\ g.rowsAffected = (IF k \in DOMAIN Writers THEN <<"int", c.changes>> ELSE Null)
         /\ g.columns = IfAny(ColumnsOf(k))
         /\ g.types = IfAny([i \in DOMAIN TypesOf(k) |-> sqliteStorageClassFromString(TypesOf(k)[i])])
         /\ g.rows = IfAny([r \in DOMAIN RowsOf(k) |-> EncodedRow(k, r)])
  BY DEF queryResultFromDB, Object, EncodedRow

\* Every column of a result has a name.
LEMMA ColumnNames ==
  ASSUME NEW k
  PROVE  /\ ColumnsOf(k) = [i \in DOMAIN ColumnsOf(k) |-> ColumnsOf(k)[i]]
         /\ Len(ColumnsOf(k)) \in Nat /\ DOMAIN ColumnsOf(k) = 1 .. Len(ColumnsOf(k))
         /\ \A i \in DOMAIN ColumnsOf(k) :
                ColumnsOf(k)[i][1] = "string" /\ Text(ColumnsOf(k)[i][2]) = ColumnsOf(k)[i]
<1>1. CASE k = "pair"
  <2>1. ColumnsOf(k) = <<Text("a"), Text("b")>>  BY <1>1 DEF ColumnsOf
  <2> QED  BY <2>1 DEF Text
<1>2. CASE k = "twins"
  <2>1. ColumnsOf(k) = <<Text("a"), Text("a")>>  BY <1>2 DEF ColumnsOf
  <2> QED  BY <2>1 DEF Text
<1>3. CASE k \in {"select", "none", "infinite", "returning"}
  <2>1. ColumnsOf(k) = <<Text("c")>>  BY <1>3 DEF ColumnsOf
  <2> QED  BY <2>1 DEF Text
<1>4. CASE k \notin {"pair", "twins", "select", "none", "infinite", "returning"}
  <2>1. ColumnsOf(k) = <<>>  BY <1>4 DEF ColumnsOf
  <2> QED  BY <2>1
<1> QED  BY <1>1, <1>2, <1>3, <1>4

LEMMA ResultTyped ==
  ASSUME NEW k \in Kinds, NEW c  PROVE TypedResult(queryResultFromDB(k, c))
<1> DEFINE g == queryResultFromDB(k, c)[2]
           ty == [i \in DOMAIN TypesOf(k) |-> sqliteStorageClassFromString(TypesOf(k)[i])]
           ro == [r \in DOMAIN RowsOf(k) |-> EncodedRow(k, r)]
<1>1. /\ queryResultFromDB(k, c) = Object(g)
      /\ g = [type |-> g.type, time |-> g.time, error |-> g.error, txId |-> g.txId,
              lastInsertId |-> g.lastInsertId, rowsAffected |-> g.rowsAffected,
              columns |-> g.columns, types |-> g.types, rows |-> g.rows]
      /\ g.type = queryResultTypeFromDB(k) /\ g.time = <<"real", "t">> /\ g.error = Null
      /\ g.txId = (IF k = "begin" THEN Text("id") ELSE Null)
      /\ g.lastInsertId = (IF k \in DOMAIN Writers THEN <<"int", c.rowid>> ELSE Null)
      /\ g.rowsAffected = (IF k \in DOMAIN Writers THEN <<"int", c.changes>> ELSE Null)
      /\ g.columns = IfAny(ColumnsOf(k)) /\ g.types = IfAny(ty) /\ g.rows = IfAny(ro)
  BY ResultFields
<1>2. \E t \in QueryResultType : g.type = Text(t)
  <2>1. \E t \in QueryResultType : queryResultTypeFromDB(k) = Text(t)
    BY DEF queryResultTypeFromDB, Kinds, Control, QueryResultType
  <2> QED  BY <1>1, <2>1
<1> HIDE DEF g
<1>3. TypedColumns(g.columns)
  BY <1>1, ColumnNames, IfAnyList DEF TypedColumns
<1>4. TypedTypes(g.types)
  <2>1. ty = [i \in DOMAIN ty |-> ty[i]]  OBVIOUS
  <2>2. ASSUME NEW i \in DOMAIN ty  PROVE \E t \in SqliteStorageClass : ty[i] = Text(t)
    <3>1. ASSUME NEW d  PROVE \E t \in SqliteStorageClass : sqliteStorageClassFromString(d) = Text(t)
      BY DEF sqliteStorageClassFromString, SqliteStorageClass
    <3> QED  BY <3>1
  <2> HIDE DEF ty
  <2> QED  BY <1>1, <2>1, <2>2, IfAnyList DEF TypedTypes
<1>5. TypedRows(g.rows)
  <2>1. ro = [i \in DOMAIN ro |-> ro[i]]  OBVIOUS
  <2>2. ASSUME NEW r \in DOMAIN ro  PROVE TypedRow(ro[r])
    <3> DEFINE x == [i \in DOMAIN RowsOf(k)[r] |-> sqliteValueToVDL(RowsOf(k)[r][i])]
    <3>1. ro[r] = List(x)  BY DEF EncodedRow
    <3>2. x = [i \in DOMAIN x |-> x[i]] /\ \A i \in DOMAIN x : TypedValue(x[i])
      BY ValueTyped
    <3> HIDE DEF x, ro
    <3> QED  BY <3>1, <3>2 DEF TypedRow, ListFunction, List
  <2> HIDE DEF ro
  <2> QED  BY <1>1, <2>1, <2>2, IfAnyList DEF TypedRows
<1>6. Object(g)[2] = g  BY DEF Object
<1>7. /\ g.time[1] = "real" /\ (g.error = Null \/ g.error[1] = "string")
      /\ g.txId = Null \/ g.txId[1] = "string"
      /\ g.lastInsertId = Null \/ g.lastInsertId[1] = "int"
      /\ g.rowsAffected = Null \/ g.rowsAffected[1] = "int"
  BY <1>1 DEF Text
<1> QED  BY <1>1, <1>2, <1>3, <1>4, <1>5, <1>6, <1>7 DEF TypedResult

LEMMA ErrorTyped == TypedResult(errorResult)
<1>1. TypedColumns(Null) /\ TypedTypes(Null) /\ TypedRows(Null)
  BY DEF TypedColumns, TypedTypes, TypedRows, ListFunction
<1> QED  BY <1>1 DEF TypedResult, errorResult, Object, Text, QueryResultType

LEMMA ItemsTyped ==
  ASSUME RPCInv  PROVE TypedResults(List(results)) /\ DOMAIN results = DOMAIN ran
<1>1. results \in Seq({results[i] : i \in DOMAIN results}) /\ ran \in Seq({ran[i] : i \in DOMAIN ran})
      /\ Len(ran) = Len(results)
  BY DEF RPCInv, Sequence
<1>2. results = [i \in DOMAIN results |-> results[i]] /\ DOMAIN results = DOMAIN ran
  BY <1>1
<1>3. ASSUME NEW i \in DOMAIN results  PROVE TypedResult(results[i])
  <2>1. Outcome(i)  BY <1>2 DEF RPCInv
  <2>2. CASE results[i] = errorResult  BY <2>2, ErrorTyped
  <2>3. CASE ran[i].kind \in Kinds /\ results[i] = queryResultFromDB(ran[i].kind, Reported(results[i]))
    <3>1. \A c : TypedResult(queryResultFromDB(ran[i].kind, c))  BY <2>3, ResultTyped
    <3> QED  BY <2>3, <3>1
  <2> QED  BY <2>1, <2>2, <2>3 DEF Outcome
<1>4. List(results)[2] = results  BY DEF List
<1> QED  BY <1>2, <1>3, <1>4 DEF TypedResults, ListFunction

-----------------------------------------------------------------------------
\* The output of Database.query, written and read.

LEMMA QueryOutput ==
  ASSUME RPCInv, EncodeDatabaseQueryOutput(output) # Bad,
         output = Object([time |-> <<"real", "t">>, results |-> List(results)])
  PROVE  LET j == EncodeDatabaseQueryOutput(output)
             items == [i \in DOMAIN results |-> EncodeQueryResult(results[i])]
         IN  /\ j[2].results = List(items)
             /\ \A i \in DOMAIN results : items[i] # Bad
             /\ DecodeDatabaseQueryOutput(j) = output
<1> DEFINE l == List(results)
           items == [i \in DOMAIN results |-> EncodeQueryResult(results[i])]
           e == [time |-> MarshalScalar(output[2].time), results |-> EncodeResults(output[2].results)]
           j == EncodeDatabaseQueryOutput(output)
           d == [time |-> Scalar(Float64, At(j, "time")), results |-> DecodeResults(At(j, "results"))]
<1>1. output[2].time = <<"real", "t">> /\ output[2].results = l  BY DEF Object
<1>2. j = Written(e, {}) /\ DOMAIN e = {"time", "results"}  BY DEF EncodeDatabaseQueryOutput
<1>3. /\ j[1] = "object" /\ e.results # Bad
      /\ At(j, "time") = e.time /\ At(j, "results") = e.results /\ j[2].results = e.results
  <2> HIDE DEF e, j, l
  <2> QED  BY <1>2, WrittenOK DEF j
<1>4. e.results = EncodeResults(l) /\ e.time = <<"real", "t">>
  <2> HIDE DEF l
  <2> QED  BY <1>1 DEF MarshalScalar, Infinite
<1>5. l[1] = "list" /\ l[2] = results /\ l # Null  BY DEF List, Null
<1>6. EncodeResults(l) = Collected("list", l, items)
  <2> HIDE DEF l
  <2> QED  BY <1>5 DEF EncodeResults, Items
<1>7. EncodeResults(l) = List(items) /\ \A i \in DOMAIN results : items[i] # Bad
  <2>1. DOMAIN items = DOMAIN results  OBVIOUS
  <2> HIDE DEF l, items, e
  <2> QED  BY <1>3, <1>4, <1>5, <1>6, <2>1 DEF Collected, List
<1>8. DecodeResults(EncodeResults(l)) = l
  BY <1>3, <1>4, ItemsTyped, ResultsRoundTrip
<1>9. d.results = l /\ d.time = <<"real", "t">>
  <2> HIDE DEF l, e, j
  <2> QED  BY <1>3, <1>4, <1>8 DEF Scalar, Float64
<1>10. d.results # Bad /\ d.results # Null /\ d.time # Bad /\ d.time # Null
  BY <1>9 DEF List, Bad, Null
<1>11. DecodeDatabaseQueryOutput(j) = Strict(j, d, {"time", "results"})  BY DEF DecodeDatabaseQueryOutput
<1>12. Strict(j, d, {"time", "results"}) = Object(d)
  <2>1. DOMAIN d = {"time", "results"}  OBVIOUS
  <2> HIDE DEF d, j, e, l
  <2> QED  BY <1>3, <1>10, <2>1 DEF Strict
<1>13. d = [time |-> <<"real", "t">>, results |-> l]
  <2>1. d = [time |-> d.time, results |-> d.results]  OBVIOUS
  <2> HIDE DEF d
  <2> QED  BY <1>9, <2>1
<1> HIDE DEF d, j, e, items
<1> QED  BY <1>3, <1>4, <1>7, <1>11, <1>12, <1>13 DEF j, items

\* The fields of an item on the wire.
LEMMA ItemFields ==
  ASSUME NEW g, EncodeQueryResult(g) # Bad
  PROVE  LET j == EncodeQueryResult(g)[2]
         IN  /\ j.type = g[2].type
             /\ g[2].rowsAffected # Null => j.rowsAffected = g[2].rowsAffected
             /\ g[2].lastInsertId # Null => j.lastInsertId = g[2].lastInsertId
<1> DEFINE e == [type |-> MarshalEnum(QueryResultType, g[2].type),
                 time |-> MarshalScalar(g[2].time), error |-> g[2].error, txId |-> g[2].txId,
                 lastInsertId |-> g[2].lastInsertId, rowsAffected |-> g[2].rowsAffected,
                 columns |-> g[2].columns, types |-> EncodeTypes(g[2].types),
                 rows |-> EncodeRows(g[2].rows)]
           opt == {"error", "txId", "lastInsertId", "rowsAffected", "columns", "types", "rows"}
           j == EncodeQueryResult(g)
<1>1. j = Written(e, opt)  BY DEF EncodeQueryResult
<1>2. DOMAIN e = {"type", "time"} \cup opt  OBVIOUS
<1>3. \A f \in DOMAIN e : e[f] # Bad /\ (f \notin opt \/ e[f] # Null => j[2][f] = e[f])
  <2> HIDE DEF e, opt, j
  <2> QED  BY <1>1, WrittenOK DEF j
<1>4. /\ e.type # Bad /\ j[2].type = e.type
      /\ e.rowsAffected # Null => j[2].rowsAffected = e.rowsAffected
      /\ e.lastInsertId # Null => j[2].lastInsertId = e.lastInsertId
  <2> HIDE DEF e, j
  <2> QED  BY <1>2, <1>3
<1>5. e.type = g[2].type  BY <1>4 DEF MarshalEnum
<1> HIDE DEF j
<1> QED  BY <1>4, <1>5 DEF j

\* A result without an infinite real can be written.
LEMMA ResultEncodes ==
  ASSUME NEW k \in Kinds, k # "infinite", NEW c
  PROVE  EncodeQueryResult(queryResultFromDB(k, c)) # Bad
<1> DEFINE g == queryResultFromDB(k, c)
           e == [type |-> MarshalEnum(QueryResultType, g[2].type),
                 time |-> MarshalScalar(g[2].time), error |-> g[2].error, txId |-> g[2].txId,
                 lastInsertId |-> g[2].lastInsertId, rowsAffected |-> g[2].rowsAffected,
                 columns |-> g[2].columns, types |-> EncodeTypes(g[2].types),
                 rows |-> EncodeRows(g[2].rows)]
           ro == [r \in DOMAIN RowsOf(k) |-> EncodedRow(k, r)]
<1>1. TypedResult(g)  BY ResultTyped
<1>2. g[2].time = <<"real", "t">> /\ g[2].rows = IfAny(ro)  BY ResultFields
<1> HIDE DEF g
<1>3. e.type # Bad
  <2>1. PICK t \in QueryResultType : g[2].type = Text(t)  BY <1>1 DEF TypedResult
  <2> QED  BY <2>1 DEF MarshalEnum, Text, Bad
<1>4. e.time # Bad  BY <1>2 DEF MarshalScalar, Infinite, Bad
<1>5. e.error # Bad /\ e.txId # Bad /\ e.lastInsertId # Bad /\ e.rowsAffected # Bad
  BY <1>1 DEF TypedResult, Bad, Null
<1>6. e.columns # Bad  BY <1>1 DEF TypedResult, TypedColumns, ListFunction, List, Bad, Null
<1>7. e.types # Bad
  <2> DEFINE x == g[2].types
             items == [i \in DOMAIN Items("list", x) |-> MarshalEnum(SqliteStorageClass, x[2][i])]
  <2>1. TypedTypes(x)  BY <1>1 DEF TypedResult
  <2>2. EncodeTypes(x) = Collected("list", x, items)  BY DEF EncodeTypes
  <2>3. ASSUME x # Null  PROVE x[1] = "list" /\ \A i \in DOMAIN items : items[i] # Bad
    <3>1. x[1] = "list" /\ Items("list", x) = x[2]  BY <2>1, <2>3 DEF TypedTypes, ListFunction, List, Items
    <3>2. ASSUME NEW i \in DOMAIN x[2]  PROVE MarshalEnum(SqliteStorageClass, x[2][i]) # Bad
      <4>1. PICK t \in SqliteStorageClass : x[2][i] = Text(t)  BY <2>1, <2>3 DEF TypedTypes
      <4> QED  BY <4>1 DEF MarshalEnum, Text, Bad
    <3> QED  BY <3>1, <3>2
  <2> HIDE DEF items, x
  <2>4. x = Null \/ (x[1] = "list" /\ \A i \in DOMAIN items : items[i] # Bad)  BY <2>3
  <2>5. Collected("list", x, items) # Bad  BY <2>4, CollectedOK
  <2> QED  BY <2>2, <2>5 DEF x
<1>8. e.rows # Bad
  <2> DEFINE x == g[2].rows
             items == [r \in DOMAIN Items("list", x) |-> EncodeRow(x[2][r])]
  <2>1. EncodeRows(x) = Collected("list", x, items)  BY DEF EncodeRows
  <2>2. ASSUME NEW r \in DOMAIN RowsOf(k), NEW i \in DOMAIN RowsOf(k)[r]
        PROVE  RowsOf(k)[r][i] # Infinite
    <3>1. CASE k \in {"select", "returning"}
      <4>1. RowsOf(k) = <<<<<<"int", 1>>>>>>  BY <3>1 DEF RowsOf
      <4> QED  BY <4>1 DEF Infinite
    <3>2. CASE k \in {"pair", "twins"}
      <4>1. RowsOf(k) = <<<<Null, <<"int", 2>>>>, <<<<"int", 3>>, <<"real", "pi">>>>>>
        BY <3>2 DEF RowsOf
      <4> QED  BY <4>1 DEF Infinite, Null
    <3>3. CASE k \notin {"select", "returning", "pair", "twins"}
      <4>1. RowsOf(k) = <<>>  BY <3>3 DEF RowsOf
      <4> QED  BY <4>1
    <3> QED  BY <3>1, <3>2, <3>3
  <2>3. ASSUME NEW r \in DOMAIN RowsOf(k)  PROVE EncodeRow(ro[r]) # Bad
    <3> DEFINE y == [i \in DOMAIN RowsOf(k)[r] |-> sqliteValueToVDL(RowsOf(k)[r][i])]
               z == [i \in DOMAIN y |-> EncodeSqliteValue(y[i])]
    <3>1. ro[r] = List(y)  BY DEF EncodedRow
    <3>2. \A i \in DOMAIN z : z[i] # Bad  BY <2>2, ValueEncodes
    <3>3. List(y)[1] = "list" /\ List(y)[2] = y /\ Items("list", List(y)) = y
      <4> HIDE DEF y
      <4> QED  BY DEF List, Items
    <3>4. EncodeRow(List(y)) = Collected("list", List(y), z)
      <4> HIDE DEF y
      <4> QED  BY <3>3 DEF EncodeRow
    <3> HIDE DEF y, z, ro
    <3> QED  BY <3>1, <3>2, <3>3, <3>4, CollectedOK
  <2>4. x # Null => x[1] = "list" /\ x[2] = ro /\ Items("list", x) = ro
    <3>1. ro = [r \in DOMAIN ro |-> ro[r]]  OBVIOUS
    <3> HIDE DEF ro
    <3> QED  BY <1>2, <3>1, IfAnyList DEF Items
  <2>5. ASSUME x # Null  PROVE \A r \in DOMAIN items : items[r] # Bad
    <3>1. DOMAIN ro = DOMAIN RowsOf(k)  OBVIOUS
    <3> HIDE DEF ro, x
    <3> QED  BY <2>3, <2>4, <2>5, <3>1
  <2> HIDE DEF items, x
  <2>6. Collected("list", x, items) # Bad  BY <2>4, <2>5, CollectedOK
  <2> QED  BY <2>1, <2>6 DEF x
<1>9. EncodeQueryResult(g) = Written(e, {"error", "txId", "lastInsertId", "rowsAffected", "columns", "types", "rows"})
  BY DEF EncodeQueryResult
<1>10. \A f \in DOMAIN e : e[f] # Bad  BY <1>3, <1>4, <1>5, <1>6, <1>7, <1>8
<1>11. EncodeQueryResult(g) # Bad
  <2> HIDE DEF e
  <2> QED  BY <1>9, <1>10, WrittenOK
<1> QED  BY <1>11 DEF g

LEMMA ErrorEncodes == EncodeQueryResult(errorResult) # Bad
<1> DEFINE g == errorResult
           e == [type |-> MarshalEnum(QueryResultType, g[2].type),
                 time |-> MarshalScalar(g[2].time), error |-> g[2].error, txId |-> g[2].txId,
                 lastInsertId |-> g[2].lastInsertId, rowsAffected |-> g[2].rowsAffected,
                 columns |-> g[2].columns, types |-> EncodeTypes(g[2].types),
                 rows |-> EncodeRows(g[2].rows)]
<1>1. EncodeTypes(Null) = Null /\ EncodeRows(Null) = Null
  BY DEF EncodeTypes, EncodeRows, Collected
<1>2. \A f \in DOMAIN e : e[f] # Bad
  BY <1>1 DEF errorResult, Object, Text, Null, Bad, MarshalEnum, MarshalScalar, QueryResultType, Infinite
<1>3. EncodeQueryResult(g) = Written(e, {"error", "txId", "lastInsertId", "rowsAffected", "columns", "types", "rows"})
  BY DEF EncodeQueryResult
<1> HIDE DEF e, g
<1> QED  BY <1>2, <1>3, WrittenOK DEF g

LEMMA QueryOutputEncodes ==
  ASSUME output = Object([time |-> <<"real", "t">>, results |-> List(results)]),
         \A i \in DOMAIN results : EncodeQueryResult(results[i]) # Bad
  PROVE  EncodeDatabaseQueryOutput(output) # Bad
<1> DEFINE l == List(results)
           items == [i \in DOMAIN results |-> EncodeQueryResult(results[i])]
           e == [time |-> MarshalScalar(output[2].time), results |-> EncodeResults(output[2].results)]
<1>1. output[2].time = <<"real", "t">> /\ output[2].results = l  BY DEF Object
<1>2. l[1] = "list" /\ l[2] = results /\ l # Null  BY DEF List, Null
<1>3. EncodeResults(l) = Collected("list", l, items)
  <2> HIDE DEF l
  <2> QED  BY <1>2 DEF EncodeResults, Items
<1>4. \A i \in DOMAIN items : items[i] # Bad  OBVIOUS
<1>5. EncodeResults(l) # Bad
  <2> HIDE DEF l, items
  <2> QED  BY <1>2, <1>3, <1>4, CollectedOK
<1>6. EncodeDatabaseQueryOutput(output) = Written(e, {})  BY DEF EncodeDatabaseQueryOutput
<1>7. e.time # Bad /\ e.results # Bad
  <2> HIDE DEF l
  <2> QED  BY <1>1, <1>5 DEF MarshalScalar, Infinite, Bad
<1>8. \A f \in DOMAIN e : e[f] # Bad  BY <1>7
<1> HIDE DEF e
<1> QED  BY <1>6, <1>8, WrittenOK

\* An error in place of an answer means that nothing was written, unless a result
\* holds a real that JSON cannot write.  (Response.Bytes, writeRQLiteJSON.)
THEOREM ErrorsMeanNothingRan == Spec => []ErrorMeansNothingRan
<1>1. RPCInv => ErrorMeansNothingRan
  <2> SUFFICES ASSUME RPCInv, phase = "answered", ~answer.ok,
                      ~\E i \in DOMAIN ran : ran[i].kind = "infinite"
               PROVE  \A i \in DOMAIN ran : ran[i].wrote = 0
    BY DEF ErrorMeansNothingRan
  <2>1. CASE NothingRan  BY <2>1 DEF NothingRan
  <2>2. CASE Built /\ ~NothingRan
    <3>1. output = Object([time |-> <<"real", "t">>, results |-> List(results)])
          /\ op \in RQLiteForms \cup {"query"}
      BY <2>2 DEF Built
    <3>2. ASSUME NEW i \in DOMAIN results  PROVE EncodeQueryResult(results[i]) # Bad
      <4>1. i \in DOMAIN ran /\ Outcome(i)  BY ItemsTyped DEF RPCInv
      <4>2. CASE results[i] = errorResult  BY <4>2, ErrorEncodes
      <4>3. CASE ran[i].kind \in Kinds /\ results[i] = queryResultFromDB(ran[i].kind, Reported(results[i]))
        <5>1. ran[i].kind # "infinite"  BY <4>1
        <5>2. \A c : EncodeQueryResult(queryResultFromDB(ran[i].kind, c)) # Bad
          BY <4>3, <5>1, ResultEncodes
        <5> QED  BY <4>3, <5>2
      <4> QED  BY <4>1, <4>2, <4>3 DEF Outcome
    <3>3. EncodeDatabaseQueryOutput(output) # Bad  BY <3>1, <3>2, QueryOutputEncodes
    <3>4. op = "query" => EncodeOutput(op, output) = EncodeDatabaseQueryOutput(output)
      BY DEF EncodeOutput
    <3>5. op = "query" => ProcResponse.ok  BY <3>3, <3>4 DEF ProcResponse
    <3>6. RQLiteResponse.ok  BY <3>3 DEF RQLiteResponse
    <3>7. op \in RQLiteForms => op \notin Operations  BY DEF RQLiteForms, Operations
    <3> QED  BY <2>2, <3>1, <3>5, <3>6, <3>7 DEF RPCInv, Answered
  <2> QED  BY <2>1, <2>2 DEF RPCInv, Answered
<1> QED  BY <1>1, RequestDiscipline, PTL

\* What the loop reads of a query is what the body says.
LEMMA QueryText ==
  ASSUME NEW q, WellFormedQuery(q)  PROVE DecodeQuery(q)[2].query = q[2].query
<1> DEFINE e == [txId |-> Scalar(String, At(q, "txId")), query |-> Scalar(String, At(q, "query")),
                 params |-> DecodeParams(At(q, "params"))]
<1>1. DecodeQuery(q) # Bad  BY DecodeQueryOK
<1>2. DecodeQuery(q) = Strict(q, e, {"query"})  BY DEF DecodeQuery
<1>3. DecodeQuery(q)[2] = e
  <2> HIDE DEF e
  <2> QED  BY <1>1, <1>2 DEF Strict, Object
<1>4. At(q, "query")[1] = "string"  BY DEF WellFormedQuery
<1>5. e.query = At(q, "query")  BY <1>4 DEF Scalar, String
<1>6. At(q, "query") = q[2].query  BY <1>4 DEF At, Null
<1> HIDE DEF e
<1> QED  BY <1>3, <1>5, <1>6

\* A successful answer has one item for each query sent, in order, an error item
\* exactly for those that did not run, and the counters that each plain INSERT
\* left.  (executeQueries, queryResultFromDB.)
THEOREM ItemsAreTheQueries == Spec => []ItemsMatchQueries
<1>1. RPCInv => ItemsMatchQueries
  <2> SUFFICES ASSUME RPCInv, answer.ok, op = "query"
               PROVE  LET items == answer.output[2].results[2] IN
        /\ Len(items) = Len(body[2].queries[2])
        /\ \A i \in DOMAIN items :
              /\ (items[i][2].type = Text("error")) <=> ~ran[i].ok
              /\ ran[i].ok => ran[i].kind = body[2].queries[2][i][2].query[2]
              /\ ran[i].kind \in {"insert", "insertTwo"} =>
                    /\ items[i][2].rowsAffected = <<"int", ran[i].wrote>>
                    /\ items[i][2].lastInsertId = <<"int", ran[i].first + ran[i].wrote>>
    BY DEF ItemsMatchQueries
  <2> DEFINE items == [i \in DOMAIN results |-> EncodeQueryResult(results[i])]
  <2>1. phase = "answered"  BY DEF RPCInv, NoAnswer
  <2>2. op \notin RQLiteForms  BY DEF RQLiteForms
  <2>3. Built /\ answer = ProcResponse  BY <2>1, <2>2 DEF RPCInv, Answered
  <2>4. /\ Decoded /\ Len(results) = Len(input)
        /\ output = Object([time |-> <<"real", "t">>, results |-> List(results)])
    BY <2>3 DEF Built
  <2>5. EncodeOutput(op, output) = EncodeDatabaseQueryOutput(output)  BY DEF EncodeOutput
  <2>6. EncodeDatabaseQueryOutput(output) # Bad /\ answer.output = EncodeDatabaseQueryOutput(output)
    BY <2>3, <2>5 DEF ProcResponse
  <2>7. answer.output[2].results = List(items) /\ \A i \in DOMAIN results : items[i] # Bad
    BY <2>4, <2>6, QueryOutput
  <2>8. answer.output[2].results[2] = items
    <3> HIDE DEF items
    <3> QED  BY <2>7 DEF List
  <2> DEFINE q == At(body, "queries")[2]
  <2>9. body \in Bodies /\ WellFormed(body)  BY <2>1, <2>4, DecodeInputOK DEF RPCInv, Decoded
  <2>10. At(body, "queries")[1] = "list" /\ body[1] = "object" /\ \A i \in DOMAIN q : WellFormedQuery(q[i])
    BY <2>9 DEF WellFormed
  <2>11. body[2].queries[2] = q  BY <2>10 DEF At, Null
  <2>12. input = [i \in DOMAIN q |-> DecodeQuery(q[i])]  BY <2>4, <2>9, DecodeInputOK DEF Decoded
  <2>13. Len(input) = Len(q) /\ DOMAIN input = 1 .. Len(input)
    BY <2>4, <2>9, InputSequence DEF Decoded
  <2>14. Len(results) \in Nat /\ DOMAIN results = 1 .. Len(results) /\ DOMAIN results = DOMAIN ran
    BY ItemsTyped DEF RPCInv, Sequence
  <2>15. Len(items) = Len(q)
    <3>1. items \in Seq({items[i] : i \in 1 .. Len(results)}) /\ Len(items) = Len(results)
      BY <2>14
    <3> QED  BY <3>1, <2>13, <2>4
  <2>16. ASSUME NEW i \in DOMAIN results
         PROVE  /\ (items[i][2].type = Text("error")) <=> ~ran[i].ok
                /\ ran[i].ok => ran[i].kind = q[i][2].query[2]
                /\ ran[i].kind \in {"insert", "insertTwo"} =>
                      /\ items[i][2].rowsAffected = <<"int", ran[i].wrote>>
                      /\ items[i][2].lastInsertId = <<"int", ran[i].first + ran[i].wrote>>
    <3>1. Outcome(i)  BY <2>14 DEF RPCInv
    <3>2. items[i] = EncodeQueryResult(results[i]) /\ items[i] # Bad  BY <2>7
    <3> HIDE DEF items
    <3>3. /\ items[i][2].type = results[i][2].type
          /\ results[i][2].rowsAffected # Null => items[i][2].rowsAffected = results[i][2].rowsAffected
          /\ results[i][2].lastInsertId # Null => items[i][2].lastInsertId = results[i][2].lastInsertId
      BY <3>2, ItemFields
    <3>4. CASE /\ results[i] = errorResult
               /\ ran[i] = [kind |-> "", ok |-> FALSE, first |-> 0, wrote |-> 0]
      <4>1. results[i][2].type = Text("error")
        <5>1. errorResult[2].type = Text("error")  BY DEF errorResult, Object
        <5> QED  BY <3>4, <5>1
      <4>2. ~ran[i].ok /\ ran[i].kind = ""
        <5> DEFINE x == [kind |-> "", ok |-> FALSE, first |-> 0, wrote |-> 0]
        <5>1. ~x.ok /\ x.kind = ""  OBVIOUS
        <5>2. ran[i] = x  BY <3>4
        <5> HIDE DEF x
        <5> QED  BY <5>1, <5>2
      <4> QED  BY <3>3, <4>1, <4>2
    <3>5. CASE /\ ran[i].ok /\ ran[i].kind \in Kinds /\ ran[i].kind = input[i][2].query[2]
               /\ results[i] = queryResultFromDB(ran[i].kind, Reported(results[i]))
               /\ ran[i].kind \in {"insert", "insertTwo"} =>
                    Reported(results[i]) = [rowid |-> ran[i].first + ran[i].wrote, changes |-> ran[i].wrote]
      <4> DEFINE k == ran[i].kind
                 c == Reported(results[i])
      <4>1. /\ results[i][2].type = queryResultTypeFromDB(k)
            /\ results[i][2].lastInsertId = (IF k \in DOMAIN Writers THEN <<"int", c.rowid>> ELSE Null)
            /\ results[i][2].rowsAffected = (IF k \in DOMAIN Writers THEN <<"int", c.changes>> ELSE Null)
        <5>1. LET g == queryResultFromDB(k, c)[2] IN
              /\ g.type = queryResultTypeFromDB(k)
              /\ g.lastInsertId = (IF k \in DOMAIN Writers THEN <<"int", c.rowid>> ELSE Null)
              /\ g.rowsAffected = (IF k \in DOMAIN Writers THEN <<"int", c.changes>> ELSE Null)
          BY ResultFields
        <5>2. results[i] = queryResultFromDB(k, c)  BY <3>5
        <5> HIDE DEF c, k
        <5> QED  BY <5>1, <5>2
      <4>2. queryResultTypeFromDB(k) # Text("error")
        BY <3>5 DEF queryResultTypeFromDB, Text, Kinds, Control
      <4>3. i \in DOMAIN q /\ input[i] = DecodeQuery(q[i])  BY <2>4, <2>12, <2>13, <2>14
      <4>4. input[i][2].query = q[i][2].query  BY <2>10, <4>3, QueryText
      <4>5. ASSUME k \in {"insert", "insertTwo"}
            PROVE  /\ results[i][2].rowsAffected = <<"int", ran[i].wrote>>
                   /\ results[i][2].lastInsertId = <<"int", ran[i].first + ran[i].wrote>>
        <5>1. k \in DOMAIN Writers  BY <4>5 DEF Writers
        <5>2. c.rowid = ran[i].first + ran[i].wrote /\ c.changes = ran[i].wrote
          <6> HIDE DEF c
          <6> QED  BY <3>5, <4>5 DEF c
        <5> HIDE DEF c
        <5> QED  BY <4>1, <5>1, <5>2
      <4>6. \A x : <<"int", x>> # Null  BY DEF Null
      <4> QED  BY <3>3, <3>5, <4>1, <4>2, <4>4, <4>5, <4>6
    <3> QED  BY <3>1, <3>4, <3>5 DEF Outcome
  <2>17. DOMAIN items = DOMAIN results  OBVIOUS
  <2> HIDE DEF items, q
  <2> QED  BY <2>8, <2>11, <2>15, <2>16, <2>17
<1> QED  BY <1>1, RequestDiscipline, PTL

-----------------------------------------------------------------------------
\* The outputs of the procedures of System, written and read.

LEMMA HealthRoundTrip ==
  ASSUME NEW up \in BOOLEAN
  PROVE  DecodeSystemHealthOutput(EncodeSystemHealthOutput(systemHealth(up))) = systemHealth(up)
<1> DEFINE m == IF up THEN "OK" ELSE "Database unavailable"
           e == [healthy |-> <<"bool", up>>, database |-> <<"bool", up>>, message |-> Text(m)]
           j == EncodeSystemHealthOutput(systemHealth(up))
           d == [healthy |-> Scalar(Bool, At(j, "healthy")), database |-> Scalar(Bool, At(j, "database")),
                 message |-> Scalar(String, At(j, "message"))]
           req == {"healthy", "database", "message"}
<1> HIDE DEF m
<1>1. systemHealth(up) = Object(e)  BY DEF systemHealth, m
<1>2. j = Written(e, {})  BY <1>1 DEF EncodeSystemHealthOutput, Object
<1>3. DOMAIN e = req /\ \A f \in DOMAIN e : e[f] # Bad  BY DEF Text, Bad
<1>4. j[1] = "object" /\ \A f \in req : At(j, f) = e[f]
  <2> HIDE DEF e, j, req
  <2> QED  BY <1>2, <1>3, WrittenOK
<1> HIDE DEF j
<1>5. At(j, "healthy") = <<"bool", up>> /\ At(j, "database") = <<"bool", up>> /\ At(j, "message") = Text(m)
  BY <1>4
<1>6. d = e  BY <1>5 DEF Scalar, Bool, String, Text
<1>7. \A f \in DOMAIN d : d[f] # Bad /\ d[f] # Null  BY <1>6 DEF Text, Bad, Null
<1>8. DecodeSystemHealthOutput(j) = Strict(j, d, req)  BY DEF DecodeSystemHealthOutput
<1>9. Strict(j, d, req) = Object(d)
  <2> HIDE DEF d, req
  <2> QED  BY <1>4, <1>7 DEF Strict
<1> HIDE DEF d, e
<1> QED  BY <1>1, <1>6, <1>8, <1>9 DEF j

LEMMA SessionRoundTrip ==
  ASSUME NEW role
  PROVE  LET g == Object([role |-> authRoleToVDL(role)])
         IN  DecodeSystemSessionOutput(EncodeSystemSessionOutput(g)) = g
<1> DEFINE a == authRoleToVDL(role)
           e == [role |-> a]
           g == Object(e)
           w == [role |-> MarshalEnum(AuthRole, g[2].role)]
           j == EncodeSystemSessionOutput(g)
           d == [role |-> Pointer(At(j, "role"), Enum(AuthRole, At(j, "role")))]
<1>1. PICK t \in AuthRole : a = Text(t)
  <2>1. CASE role = "read-write"  BY <2>1 DEF authRoleToVDL, AuthRole
  <2>2. CASE role = "read-only"  BY <2>2 DEF authRoleToVDL, AuthRole
  <2>3. CASE role \notin {"read-write", "read-only"}  BY <2>3 DEF authRoleToVDL, AuthRole
  <2> QED  BY <2>1, <2>2, <2>3
<1> HIDE DEF a
<1>2. w = e  BY <1>1 DEF Object, MarshalEnum, Text
<1>3. j = Written(e, {})  BY <1>2 DEF EncodeSystemSessionOutput
<1>4. DOMAIN e = {"role"} /\ \A f \in DOMAIN e : e[f] # Bad  BY <1>1 DEF Text, Bad
<1>5. j[1] = "object" /\ \A f \in {"role"} : At(j, f) = e[f]
  <2> HIDE DEF e, j
  <2> QED  BY <1>3, <1>4, WrittenOK
<1> HIDE DEF j
<1>6. At(j, "role") = Text(t)  BY <1>1, <1>5
<1>7. d = e  BY <1>1, <1>6 DEF Pointer, Enum, Text, Null
<1>8. \A f \in DOMAIN d : d[f] # Bad /\ d[f] # Null  BY <1>1, <1>7 DEF Text, Bad, Null
<1>9. DecodeSystemSessionOutput(j) = Strict(j, d, {"role"})  BY DEF DecodeSystemSessionOutput
<1>10. Strict(j, d, {"role"}) = Object(d)
  <2> HIDE DEF d
  <2> QED  BY <1>5, <1>8 DEF Strict
<1>11. DecodeSystemSessionOutput(j) = g
  <2> HIDE DEF d, e
  <2> QED  BY <1>7, <1>9, <1>10
<1> QED  BY <1>11 DEF j, a

LEMMA CountersRoundTrip ==
  ASSUME NEW fs, NEW N, NEW h \in [fs -> {"int"} \X N]
  PROVE  /\ EncodeCounters(fs, Object(h)) # Bad /\ EncodeCounters(fs, Object(h)) # Null
         /\ DecodeCounters(fs, EncodeCounters(fs, Object(h))) = Object(h)
<1> DEFINE j == EncodeCounters(fs, Object(h))
           d == [f \in fs |-> Scalar(Int64, At(j, f))]
<1>1. j = Written(h, {})
  <2>1. h = [f \in fs |-> Object(h)[2][f]]  BY DEF Object
  <2> QED  BY <2>1 DEF EncodeCounters
<1>2. ASSUME NEW f \in fs  PROVE h[f][1] = "int" /\ h[f] # Bad /\ h[f] # Null
  <2>1. h[f] \in {"int"} \X N  OBVIOUS
  <2>2. h[f][1] = "int"  BY <2>1
  <2> QED  BY <2>2 DEF Bad, Null
<1>3. DOMAIN h = fs  OBVIOUS
<1>4. j # Bad /\ j[1] = "object" /\ \A f \in fs : At(j, f) = h[f]
  <2> HIDE DEF j
  <2> QED  BY <1>1, <1>2, <1>3, WrittenOK
<1> HIDE DEF j
<1>5. \A f \in fs : d[f] = h[f]
  <2> TAKE f \in fs
  <2>1. Scalar(Int64, h[f]) = h[f]  BY <1>2 DEF Scalar, Int64
  <2> QED  BY <1>4, <2>1
<1>6. d = h
  <2>1. d = [f \in fs |-> d[f]] /\ h = [f \in fs |-> h[f]]  OBVIOUS
  <2> HIDE DEF d
  <2> QED  BY <1>5, <2>1
<1>7. DecodeCounters(fs, j) = Strict(j, d, fs)  BY DEF DecodeCounters
<1>8. Strict(j, h, fs) = Object(h)  BY <1>2, <1>3, <1>4 DEF Strict
<1>9. j # Null  BY <1>4 DEF Null
<1> HIDE DEF d
<1> QED  BY <1>4, <1>6, <1>7, <1>8, <1>9 DEF j

LEMMA TotalsRoundTrip ==
  ASSUME NEW n
  PROVE  /\ EncodeCounters(StatsTotalsCounters, Counters(n)) # Bad
         /\ EncodeCounters(StatsTotalsCounters, Counters(n)) # Null
         /\ DecodeCounters(StatsTotalsCounters, EncodeCounters(StatsTotalsCounters, Counters(n))) = Counters(n)
<1> DEFINE h == [f \in StatsTotalsCounters |-> <<"int", n>>]
<1>1. Counters(n) = Object(h)  BY DEF Counters
<1>2. h \in [StatsTotalsCounters -> {"int"} \X {n}]  OBVIOUS
<1> HIDE DEF h
<1> QED  BY <1>1, <1>2, CountersRoundTrip

LEMMA MinutesRoundTrip ==
  ASSUME NEW minutes
  PROVE  LET g == Object([m \in minutes |-> Counters(1)])
         IN  /\ EncodeMinutes(g) # Bad /\ EncodeMinutes(g) # Null
             /\ DecodeMinutes(EncodeMinutes(g)) = g
<1> DEFINE h == [m \in minutes |-> Counters(1)]
           g == Object(h)
           T == StatsTotalsCounters
           e == [m \in DOMAIN Items("object", g) |-> EncodeCounters(T, g[2][m])]
           w == EncodeMinutes(g)
           d == [m \in DOMAIN Items("object", w) |-> DecodeCounters(T, w[2][m])]
<1>1. g[1] = "object" /\ g[2] = h /\ Items("object", g) = h /\ g # Null
  <2> HIDE DEF h
  <2> QED  BY DEF Object, Items, Null
<1>2. w = Collected("object", g, e)
  <2> HIDE DEF g
  <2> QED  BY DEF EncodeMinutes
<1>3. DecodeMinutes(w) = Collected("object", w, d)
  <2> HIDE DEF g, w
  <2> QED  BY DEF DecodeMinutes
<1>4. DOMAIN h = minutes /\ h = [m \in DOMAIN h |-> h[m]] /\ \A m \in minutes : h[m] = Counters(1)  OBVIOUS
<1>5. DOMAIN e = minutes /\ DOMAIN e = DOMAIN Items("object", g)
      /\ \A m \in minutes : e[m] = EncodeCounters(T, Counters(1))
  <2> HIDE DEF g, h, T
  <2> QED  BY <1>1, <1>4
<1>6. EncodeCounters(T, Counters(1)) # Bad /\ DecodeCounters(T, EncodeCounters(T, Counters(1))) = Counters(1)
  BY TotalsRoundTrip
<1>7. Counters(1) # Bad  BY DEF Counters, Object, Bad
<1>8. w = <<"object", e>>
  <2> HIDE DEF g, h, w, e, T
  <2> QED  BY <1>1, <1>2, <1>5, <1>6 DEF Collected
<1>9. Items("object", w) = e /\ w[2] = e /\ w # Bad /\ w # Null
  <2> HIDE DEF g, e, w
  <2> QED  BY <1>8 DEF Items, Bad, Null
<1>10. d = [m \in DOMAIN Items("object", w) |-> d[m]]
       /\ \A m \in minutes : d[m] = Counters(1)
  <2>1. d = [m \in DOMAIN e |-> DecodeCounters(T, e[m])]
    <3> HIDE DEF w, e, T
    <3> QED  BY <1>9
  <2> HIDE DEF w, e, T, d
  <2> QED  BY <2>1, <1>5, <1>6, <1>9
<1>11. Collected("object", Collected("object", g, e), d) = g
  <2>1. g = <<"object", [m \in DOMAIN g[2] |-> g[2][m]]>>
    <3> HIDE DEF h
    <3> QED  BY <1>1, <1>4 DEF Object
  <2>2. \A m \in DOMAIN e : d[m] = g[2][m] /\ g[2][m] # Bad
    <3> HIDE DEF h, g, e, d
    <3> QED  BY <1>1, <1>4, <1>5, <1>7, <1>10
  <2> HIDE DEF h, g, e, d, w, T
  <2> QED  BY <1>2, <1>5, <1>9, <1>10, <2>1, <2>2, CollectedRoundTrip
<1> HIDE DEF h, w, e, d
<1> QED  BY <1>2, <1>3, <1>9, <1>11 DEF w, h

LEMMA StatsRoundTrip ==
  ASSUME NEW minutes
  PROVE  LET g == loadedStatsToVDL(minutes)
         IN  EncodeStats(g) # Bad /\ EncodeStats(g) # Null /\ DecodeStats(EncodeStats(g)) = g
<1> DEFINE C == StatsTotalsCounters
           Q == StatsQueuedCounters
           t == Counters(served)
           z == [f \in Q |-> <<"int", 0>>]
           q == Object(z)
           m == Object([x \in minutes |-> Counters(1)])
           g == [startedAt |-> Text("time"), uptimeSeconds |-> <<"real", "t">>,
                 totals |-> t, queued |-> q, minutes |-> m]
           e == [startedAt |-> Text("time"), uptimeSeconds |-> <<"real", "t">>,
                 totals |-> EncodeCounters(C, t), queued |-> EncodeCounters(Q, q),
                 minutes |-> EncodeMinutes(m)]
           j == EncodeStats(Object(g))
           d == [startedAt |-> Scalar(String, At(j, "startedAt")),
                 uptimeSeconds |-> Scalar(Float64, At(j, "uptimeSeconds")),
                 totals |-> Pointer(At(j, "totals"), DecodeCounters(C, At(j, "totals"))),
                 queued |-> Pointer(At(j, "queued"), DecodeCounters(Q, At(j, "queued"))),
                 minutes |-> DecodeMinutes(At(j, "minutes"))]
           req == {"startedAt", "uptimeSeconds", "totals", "queued", "minutes"}
<1>1. loadedStatsToVDL(minutes) = Object(g)  BY DEF loadedStatsToVDL
<1>2. /\ EncodeCounters(C, t) # Bad /\ EncodeCounters(C, t) # Null
      /\ DecodeCounters(C, EncodeCounters(C, t)) = t
  BY TotalsRoundTrip
<1>3. /\ EncodeCounters(Q, q) # Bad /\ EncodeCounters(Q, q) # Null
      /\ DecodeCounters(Q, EncodeCounters(Q, q)) = q
  <2>1. z \in [Q -> {"int"} \X {0}]  OBVIOUS
  <2> HIDE DEF z
  <2> QED  BY <2>1, CountersRoundTrip
<1>4. EncodeMinutes(m) # Bad /\ EncodeMinutes(m) # Null /\ DecodeMinutes(EncodeMinutes(m)) = m
  BY MinutesRoundTrip
<1>5. /\ t # Bad /\ t # Null /\ q # Bad /\ q # Null /\ m # Bad /\ m # Null
      /\ Text("time") # Bad /\ Text("time") # Null
      /\ <<"real", "t">> # Bad /\ <<"real", "t">> # Null
  <2> HIDE DEF z
  <2> QED  BY DEF Counters, Object, Text, Bad, Null
<1> HIDE DEF t, q, m
<1>6. j = Written(e, {})
  <2>1. Object(g)[2] = g  BY DEF Object
  <2>2. MarshalScalar(g.uptimeSeconds) = <<"real", "t">>  BY DEF MarshalScalar, Infinite
  <2>3. g.startedAt = Text("time") /\ g.totals = t /\ g.queued = q /\ g.minutes = m  OBVIOUS
  <2> HIDE DEF g
  <2> QED  BY <2>1, <2>2, <2>3 DEF EncodeStats
<1>7. DOMAIN e = req /\ \A f \in req : e[f] # Bad  BY <1>2, <1>3, <1>4, <1>5
<1>8. j # Bad /\ j[1] = "object" /\ \A f \in req : At(j, f) = e[f]
  <2> HIDE DEF e, j, req
  <2> QED  BY <1>6, <1>7, WrittenOK
<1> HIDE DEF j
<1>9. /\ At(j, "startedAt") = Text("time") /\ At(j, "uptimeSeconds") = <<"real", "t">>
      /\ At(j, "totals") = EncodeCounters(C, t) /\ At(j, "queued") = EncodeCounters(Q, q)
      /\ At(j, "minutes") = EncodeMinutes(m)
  BY <1>8
<1>10. /\ d.startedAt = Text("time") /\ d.uptimeSeconds = <<"real", "t">>
       /\ d.totals = t /\ d.queued = q /\ d.minutes = m
  <2>1. Scalar(String, Text("time")) = Text("time") /\ Scalar(Float64, <<"real", "t">>) = <<"real", "t">>
    BY DEF Scalar, String, Float64, Text
  <2> QED  BY <1>2, <1>3, <1>4, <1>9, <2>1 DEF Pointer
<1>11. d = g  BY <1>10
<1>12. \A f \in DOMAIN g : g[f] # Bad /\ g[f] # Null  BY <1>5
<1>13. DecodeStats(j) = Strict(j, d, req)  BY DEF DecodeStats
<1>14. Strict(j, g, req) = Object(g)
  <2> HIDE DEF g, req
  <2> QED  BY <1>8, <1>12 DEF Strict
<1>15. j # Null  BY <1>8 DEF Null
<1> HIDE DEF d, g
<1> QED  BY <1>1, <1>8, <1>11, <1>13, <1>14, <1>15 DEF j

LEMMA StatusRoundTrip ==
  ASSUME NEW minutes
  PROVE  LET g == Object([name |-> Text("NSQLite"), version |-> Text("v"),
                          stats |-> loadedStatsToVDL(minutes)])
         IN  DecodeSystemStatusOutput(EncodeSystemStatusOutput(g)) = g
<1> DEFINE s == loadedStatsToVDL(minutes)
           g == [name |-> Text("NSQLite"), version |-> Text("v"), stats |-> s]
           e == [name |-> Text("NSQLite"), version |-> Text("v"), stats |-> EncodeStats(s)]
           j == EncodeSystemStatusOutput(Object(g))
           d == [name |-> Scalar(String, At(j, "name")), version |-> Scalar(String, At(j, "version")),
                 stats |-> Pointer(At(j, "stats"), DecodeStats(At(j, "stats")))]
           req == {"name", "version", "stats"}
<1>1. EncodeStats(s) # Bad /\ EncodeStats(s) # Null /\ DecodeStats(EncodeStats(s)) = s
  BY StatsRoundTrip
<1>2. s # Bad /\ s # Null  BY DEF loadedStatsToVDL, Object, Bad, Null
<1> HIDE DEF s
<1>3. j = Written(e, {})
  <2>1. Object(g)[2] = g  BY DEF Object
  <2>2. g.name = Text("NSQLite") /\ g.version = Text("v") /\ g.stats = s  OBVIOUS
  <2> HIDE DEF g
  <2> QED  BY <2>1, <2>2 DEF EncodeSystemStatusOutput
<1>4. DOMAIN e = req /\ \A f \in req : e[f] # Bad  BY <1>1 DEF Text, Bad
<1>5. j[1] = "object" /\ \A f \in req : At(j, f) = e[f]
  <2> HIDE DEF e, j, req
  <2> QED  BY <1>3, <1>4, WrittenOK
<1> HIDE DEF j
<1>6. At(j, "name") = Text("NSQLite") /\ At(j, "version") = Text("v") /\ At(j, "stats") = EncodeStats(s)
  BY <1>5
<1>7. d = g  BY <1>1, <1>6 DEF Scalar, String, Text, Pointer
<1>8. \A f \in DOMAIN g : g[f] # Bad /\ g[f] # Null  BY <1>2 DEF Text, Bad, Null
<1>9. DecodeSystemStatusOutput(j) = Strict(j, d, req)  BY DEF DecodeSystemStatusOutput
<1>10. Strict(j, g, req) = Object(g)
  <2> HIDE DEF g, req
  <2> QED  BY <1>5, <1>8 DEF Strict
<1> HIDE DEF d
<1> QED  BY <1>7, <1>9, <1>10 DEF j, s

\* What a client decodes of a successful answer is what the handler returned: no
\* output the server builds is refused or changed by the client's own strict
\* decoding.  (writeProcResponse; UnmarshalJSON of the outputs.)
THEOREM AnswersAreUnderstood == Spec => []AnswerUnderstood
<1>1. RPCInv => AnswerUnderstood
  <2> SUFFICES ASSUME RPCInv, answer.ok, op \in Operations
               PROVE  DecodeOutput(op, answer.output) = output
    BY DEF AnswerUnderstood
  <2>1. phase = "answered"  BY DEF RPCInv, NoAnswer
  <2>2. op \notin RQLiteForms  BY DEF RQLiteForms, Operations
  <2>3. Built /\ answer = ProcResponse  BY <2>1, <2>2 DEF RPCInv, Answered
  <2>4. EncodeOutput(op, output) # Bad /\ answer.output = EncodeOutput(op, output)
    BY <2>3 DEF ProcResponse
  <2>5. CASE op = "query"
    <3>1. output = Object([time |-> <<"real", "t">>, results |-> List(results)])
      BY <2>3, <2>5 DEF Built
    <3>2. EncodeOutput(op, output) = EncodeDatabaseQueryOutput(output)  BY <2>5 DEF EncodeOutput
    <3>3. DecodeDatabaseQueryOutput(EncodeDatabaseQueryOutput(output)) = output
      BY <2>4, <3>1, <3>2, QueryOutput
    <3> QED  BY <2>4, <2>5, <3>2, <3>3 DEF DecodeOutput
  <2>6. op # "query" => output \in SystemOutput(op)  BY <2>2, <2>3 DEF Built
  <2>7. CASE op = "health"
    <3>1. PICK up \in BOOLEAN : output = systemHealth(up)  BY <2>6, <2>7 DEF SystemOutput
    <3>2. answer.output = EncodeSystemHealthOutput(output)  BY <2>4, <2>7 DEF EncodeOutput
    <3> QED  BY <2>7, <3>1, <3>2, HealthRoundTrip DEF DecodeOutput
  <2>8. CASE op = "session"
    <3>1. PICK role \in {"admin", "read-write", "read-only"} : output = Object([role |-> authRoleToVDL(role)])
      BY <2>6, <2>8 DEF SystemOutput
    <3>2. answer.output = EncodeSystemSessionOutput(output)  BY <2>4, <2>8 DEF EncodeOutput
    <3>3. DecodeSystemSessionOutput(EncodeSystemSessionOutput(output)) = output
      BY <3>1, SessionRoundTrip
    <3> QED  BY <2>8, <3>2, <3>3 DEF DecodeOutput
  <2>9. CASE op = "status"
    <3>1. PICK minutes \in {{}, {"m1"}} :
            output = Object([name |-> Text("NSQLite"), version |-> Text("v"),
                             stats |-> loadedStatsToVDL(minutes)])
      BY <2>6, <2>9 DEF SystemOutput
    <3>2. answer.output = EncodeSystemStatusOutput(output)  BY <2>4, <2>9 DEF EncodeOutput
    <3>3. DecodeSystemStatusOutput(EncodeSystemStatusOutput(output)) = output
      BY <3>1, StatusRoundTrip
    <3> QED  BY <2>9, <3>2, <3>3 DEF DecodeOutput
  <2> QED  BY <2>5, <2>7, <2>8, <2>9 DEF Operations
<1> QED  BY <1>1, RequestDiscipline, PTL

-----------------------------------------------------------------------------
\* The answers of the rqlite API.

\* rqliteValue undoes sqliteValueToVDL.
LEMMA RQLiteValue ==
  ASSUME NEW v, v = Null \/ v[1] \in {"int", "real"}
  PROVE  rqliteValue(sqliteValueToVDL(v)) = v
<1> DEFINE h == [f \in DOMAIN SqliteValue |->
                    CASE f = "null" /\ v = Null -> <<"bool", TRUE>>
                      [] f = "integer" /\ v[1] = "int" -> v
                      [] f = "real" /\ v[1] = "real" -> v
                      [] OTHER -> Null]
<1>1. sqliteValueToVDL(v)[2] = h  BY DEF sqliteValueToVDL, Object
<1>2. DOMAIN SqliteValue = {"null", "integer", "real", "text", "blob"}  BY DEF SqliteValue
<1>3. rqliteValue(sqliteValueToVDL(v)) =
        IF h.null = <<"bool", TRUE>> THEN Null ELSE IF h.integer # Null THEN h.integer ELSE h.real
  <2> HIDE DEF h
  <2> QED  BY <1>1 DEF rqliteValue
<1>4. <<"bool", TRUE>> # Null  BY DEF Null
<1>5. CASE v = Null
  <2>1. h.null = <<"bool", TRUE>>  BY <1>2, <1>5
  <2> QED  BY <1>3, <1>5, <2>1
<1>6. CASE v[1] = "int"
  <2>1. v # Null  BY <1>6 DEF Null
  <2>2. h.null = Null /\ h.integer = v  BY <1>2, <1>6, <2>1
  <2> QED  BY <1>3, <1>4, <2>1, <2>2
<1>7. CASE v[1] = "real"
  <2>1. v # Null  BY <1>7 DEF Null
  <2>2. h.null = Null /\ h.integer = Null /\ h.real = v  BY <1>2, <1>7, <2>1
  <2> QED  BY <1>3, <1>4, <2>1, <2>2
<1> QED  BY <1>5, <1>6, <1>7

\* Every row is as wide as the list of columns, and so is the list of types.
LEMMA RowsFitColumns ==
  ASSUME NEW k
  PROVE  /\ \A r \in DOMAIN RowsOf(k) :
                /\ DOMAIN RowsOf(k)[r] = DOMAIN ColumnsOf(k)
                /\ \A c \in DOMAIN RowsOf(k)[r] :
                        RowsOf(k)[r][c] = Null \/ RowsOf(k)[r][c][1] \in {"int", "real"}
         /\ DOMAIN DeclTypes(k) = DOMAIN ColumnsOf(k)
<1>1. CASE k = "infinite"
  <2>1. RowsOf(k) = <<<<Infinite>>>> /\ ColumnsOf(k) = <<Text("c")>> /\ DeclTypes(k) = <<Undeclared>>
    BY <1>1 DEF RowsOf, ColumnsOf, DeclTypes
  <2> QED  BY <2>1 DEF Infinite
<1>2. CASE k \in {"select", "returning"}
  <2>1. RowsOf(k) = <<<<<<"int", 1>>>>>> /\ ColumnsOf(k) = <<Text("c")>>
        /\ DeclTypes(k) = <<Declared("INTEGER", {"INT"})>>
    BY <1>2 DEF RowsOf, ColumnsOf, DeclTypes
  <2> QED  BY <2>1
<1>3. CASE k \in {"pair", "twins"}
  <2>1. RowsOf(k) = <<<<Null, <<"int", 2>>>>, <<<<"int", 3>>, <<"real", "pi">>>>>>
    BY <1>3 DEF RowsOf
  <2>2. DOMAIN ColumnsOf(k) = 1 .. 2
    <3>1. CASE k = "pair"  BY <3>1 DEF ColumnsOf
    <3>2. CASE k = "twins"  BY <3>2 DEF ColumnsOf
    <3> QED  BY <1>3, <3>1, <3>2
  <2>3. DeclTypes(k) = <<Declared("CHARINT", {"CHAR", "INT"}), Declared("DATETIME", {"DATE", "TIME"})>>
    BY <1>3 DEF DeclTypes
  <2> QED  BY <2>1, <2>2, <2>3
<1>4. CASE k = "none"
  <2>1. RowsOf(k) = <<>> /\ ColumnsOf(k) = <<Text("c")>> /\ DeclTypes(k) = <<Undeclared>>
    BY <1>4 DEF RowsOf, ColumnsOf, DeclTypes
  <2> QED  BY <2>1
<1>5. CASE k \notin {"infinite", "select", "returning", "pair", "twins", "none"}
  <2>1. RowsOf(k) = <<>> /\ ColumnsOf(k) = <<>> /\ DeclTypes(k) = <<>>
    BY <1>5 DEF RowsOf, ColumnsOf, DeclTypes
  <2> QED  BY <2>1
<1> QED  BY <1>1, <1>2, <1>3, <1>4, <1>5

\* A value is found under its column's name unless a later column has it too.
LEMMA LastOfName ==
  ASSUME NEW names, NEW row, NEW n \in Nat, DOMAIN names = 1 .. n,
         NEW c \in DOMAIN names, Text(names[c][2]) = names[c],
         ~\E d \in c + 1 .. n : names[d] = names[c]
  PROVE  Associative(names, row)[names[c][2]] = row[c]
<1> DEFINE P(i) == i \in DOMAIN names /\ names[i] = names[c] /\
                        \A j \in DOMAIN names : names[j] = names[c] => j <= i
           x == CHOOSE i \in DOMAIN names : names[i] = names[c] /\
                        \A j \in DOMAIN names : names[j] = names[c] => j <= i
<1>1. P(c)
  <2> SUFFICES ASSUME NEW j \in DOMAIN names, names[j] = names[c] PROVE j <= c  OBVIOUS
  <2>1. j \in 1 .. n /\ c \in 1 .. n  OBVIOUS
  <2>2. ~(j \in c + 1 .. n)  OBVIOUS
  <2> QED  BY <2>1, <2>2
<1>2. P(x)  BY <1>1
<1>3. x = c
  <2>1. x <= c /\ c <= x  BY <1>1, <1>2
  <2>2. x \in 1 .. n /\ c \in 1 .. n  BY <1>2
  <2> HIDE DEF x
  <2> QED  BY <2>1, <2>2
<1>4. names[c][2] \in {names[i][2] : i \in DOMAIN names}  OBVIOUS
<1>5. Associative(names, row)[names[c][2]] =
        row[CHOOSE i \in DOMAIN names : names[i] = Text(names[c][2]) /\
                \A j \in DOMAIN names : names[j] = Text(names[c][2]) => j <= i]
  BY <1>4 DEF Associative
<1>6. Associative(names, row)[names[c][2]] = row[x]  BY <1>5
<1> QED  BY <1>3, <1>6

LEMMA RQLiteCounts ==
  ASSUME NEW item, NEW form
  PROVE  /\ rqliteResultFromVDL(item, form).error = item.error
         /\ rqliteResultFromVDL(item, form).rows_affected = item.rowsAffected
  BY DEF rqliteResultFromVDL

LEMMA NoStatement == "" \notin DOMAIN Writers /\ DOMAIN RowsOf("") = {}
<1>1. RowsOf("") = <<>>  BY DEF RowsOf
<1>2. \A s : s = <<>> => DOMAIN s = {}  OBVIOUS
<1>3. "" \notin DOMAIN Writers  BY DEF Writers
<1> QED  BY <1>1, <1>2, <1>3

\* The rows of one statement, in either form.
LEMMA RQLiteItem ==
  ASSUME NEW k, NEW cn, NEW form \in RQLiteForms,
         NEW r \in DOMAIN RowsOf(k), NEW c \in DOMAIN ColumnsOf(k)
  PROVE  LET item == rqliteResultFromVDL(queryResultFromDB(k, cn)[2], form)
             rows == RowsOf(k)
             names == ColumnsOf(k)
         IN  IF form = "array"
             THEN /\ item.columns[2][c] = names[c] /\ Len(item.types[2]) = Len(names)
                  /\ item.values[2][r][2][c] = rows[r][c]
             ELSE \/ item.rows[2][r][2][names[c][2]] = rows[r][c]
                  \/ \E d \in c + 1 .. Len(names) : names[d] = names[c]
<1> DEFINE g == queryResultFromDB(k, cn)[2]
           item == rqliteResultFromVDL(g, form)
           names == ColumnsOf(k)
           ro == [x \in DOMAIN RowsOf(k) |-> EncodedRow(k, x)]
           ty == [i \in DOMAIN TypesOf(k) |-> sqliteStorageClassFromString(TypesOf(k)[i])]
           Row(x) == [y \in DOMAIN ro[x][2] |-> rqliteValue(ro[x][2][y])]
<1>1. g.error = Null /\ g.columns = IfAny(names) /\ g.types = IfAny(ty) /\ g.rows = IfAny(ro)
  BY ResultFields
<1> HIDE DEF g
<1>2. ro # <<>> /\ g.rows = List(ro)
  <2>1. r \in DOMAIN ro  OBVIOUS
  <2> HIDE DEF ro
  <2>2. ro # <<>>  BY <2>1
  <2> QED  BY <1>1, <2>2 DEF IfAny
<1>3. names # <<>> /\ g.columns = List(names) /\ g.columns # Null /\ g.columns[2] = names
  <2>1. c \in DOMAIN names  OBVIOUS
  <2> HIDE DEF names
  <2>2. names # <<>>  BY <2>1
  <2>3. g.columns = List(names)  BY <1>1, <2>2 DEF IfAny
  <2> QED  BY <2>2, <2>3 DEF List, Null
<1>4. Len(names) \in Nat /\ DOMAIN names = 1 .. Len(names) /\ Text(names[c][2]) = names[c]
  BY ColumnNames
<1>5. DOMAIN RowsOf(k)[r] = DOMAIN names  BY RowsFitColumns
<1>6. Row(r) = [y \in DOMAIN names |-> rqliteValue(sqliteValueToVDL(RowsOf(k)[r][y]))]
  <2>1. ro[r][2] = [y \in DOMAIN RowsOf(k)[r] |-> sqliteValueToVDL(RowsOf(k)[r][y])]
    BY DEF EncodedRow, List
  <2> HIDE DEF ro, names
  <2> QED  BY <1>5, <2>1
<1>7. Row(r)[c] = RowsOf(k)[r][c]
  <2>1. RowsOf(k)[r][c] = Null \/ RowsOf(k)[r][c][1] \in {"int", "real"}  BY <1>5, RowsFitColumns
  <2>2. rqliteValue(sqliteValueToVDL(RowsOf(k)[r][c])) = RowsOf(k)[r][c]  BY <2>1, RQLiteValue
  <2> HIDE DEF ro, names
  <2> QED  BY <1>6, <2>2 DEF names
<1>8. /\ form = "array" =>
            /\ item.columns = g.columns /\ item.types = g.types
            /\ item.values = List([x \in DOMAIN ro |-> List(Row(x))])
      /\ form = "associative" =>
            item.rows = List([x \in DOMAIN ro |-> Object(Associative(names, Row(x)))])
  <2> HIDE DEF ro, names
  <2>1. /\ form = "array" =>
              /\ item.columns = g.columns /\ item.types = g.types
              /\ item.values = List([x \in DOMAIN ro |-> List(Row(x))])
        /\ form = "associative" =>
              item.rows = List([x \in DOMAIN ro |-> Object(Associative(g.columns[2], Row(x)))])
    <3>1. g.rows # Null /\ g.rows[2] = ro  BY <1>2 DEF List, Null
    <3> QED  BY <1>1, <1>2, <1>3, <3>1 DEF rqliteResultFromVDL
  <2>2. g.columns[2] = names  BY <1>3
  <2> HIDE DEF item
  <2> QED  BY <2>1, <2>2
<1>9. r \in DOMAIN ro  OBVIOUS
<1>10. CASE form = "array"
  <2>1. item.columns[2][c] = names[c]  BY <1>3, <1>8, <1>10
  <2>2. item.values[2][r][2][c] = RowsOf(k)[r][c]
    <3> DEFINE F == [x \in DOMAIN ro |-> List(Row(x))]
    <3>1. F[r] = List(Row(r))  BY <1>9
    <3>2. item.values = List(F)  BY <1>8, <1>10
    <3> HIDE DEF F, ro, item
    <3>3. item.values[2][r] = List(Row(r))  BY <3>1, <3>2 DEF List
    <3>4. item.values[2][r][2] = Row(r)  BY <3>3 DEF List
    <3> QED  BY <1>7, <3>4
  <2>3. Len(item.types[2]) = Len(names)
    <3>1. DOMAIN TypesOf(k) = DOMAIN DeclTypes(k)  BY DEF TypesOf
    <3>2. DOMAIN ty = 1 .. Len(names) /\ ty = [i \in DOMAIN ty |-> ty[i]]
      BY <1>4, <3>1, RowsFitColumns
    <3> HIDE DEF ty, names
    <3>3. ty \in Seq({ty[i] : i \in DOMAIN ty}) /\ Len(ty) = Len(names)  BY <1>4, <3>2
    <3>4. ty # <<>>  BY <1>3, <1>4, <3>2, <3>3
    <3>5. g.types = List(ty)  BY <1>1, <3>4 DEF IfAny
    <3> HIDE DEF item
    <3> QED  BY <1>8, <1>10, <3>3, <3>5 DEF List
  <2> HIDE DEF item, names
  <2> QED  BY <1>10, <2>1, <2>2, <2>3 DEF item, names, g
<1>11. CASE form = "associative"
  <2> SUFFICES ASSUME ~\E d \in c + 1 .. Len(names) : names[d] = names[c]
               PROVE  item.rows[2][r][2][names[c][2]] = RowsOf(k)[r][c]
    BY <1>11 DEF g
  <2> DEFINE F == [x \in DOMAIN ro |-> Object(Associative(names, Row(x)))]
  <2>1. F[r] = Object(Associative(names, Row(r)))  BY <1>9
  <2>2. item.rows = List(F)  BY <1>8, <1>11
  <2>3. Associative(names, Row(r))[names[c][2]] = Row(r)[c]
    <3> HIDE DEF ro, item, F, names
    <3>1. c \in DOMAIN names  BY DEF names
    <3>2. \A row : Associative(names, row)[names[c][2]] = row[c]  BY <1>4, <3>1, LastOfName
    <3> QED  BY <3>2
  <2> HIDE DEF F, ro, item
  <2>4. item.rows[2][r] = Object(Associative(names, Row(r)))  BY <2>1, <2>2 DEF List
  <2>5. item.rows[2][r][2] = Associative(names, Row(r))  BY <2>4 DEF Object
  <2> QED  BY <1>7, <2>3, <2>5
<1> QED  BY <1>10, <1>11 DEF RQLiteForms

\* A rqlite client learns what an RPC client would: errors, counts, and every
\* value at its place or under its column's name.  (rqliteResultFromVDL,
\* rqliteAssociativeRows.)
THEOREM RQLiteAnswersTellTheSame == Spec => []RQLiteTellsTheSame
<1>1. RPCInv => RQLiteTellsTheSame
  <2> SUFFICES ASSUME RPCInv, answer.ok, op \in RQLiteForms  PROVE RQLiteTellsTheSame
    BY DEF RQLiteTellsTheSame
  <2> DEFINE F == [i \in DOMAIN results |-> rqliteResultFromVDL(results[i][2], op)]
  <2>1. phase = "answered"  BY DEF RPCInv, NoAnswer
  <2>2. op \notin Operations  BY DEF RQLiteForms, Operations
  <2>3. Built /\ answer = RQLiteResponse  BY <2>1, <2>2 DEF RPCInv, Answered
  <2>4. Len(results) = Len(input)  BY <2>3 DEF Built
  <2>5. answer.output = List(F)  BY <2>3 DEF RQLiteResponse
  <2>6. answer.output[2] = F
    <3> HIDE DEF F
    <3> QED  BY <2>5 DEF List
  <2>7. Len(results) \in Nat /\ DOMAIN results = 1 .. Len(results) /\ DOMAIN results = DOMAIN ran
    BY ItemsTyped DEF RPCInv, Sequence
  <2>8. Len(F) = Len(input)
    <3>1. F \in Seq({F[i] : i \in 1 .. Len(results)}) /\ Len(F) = Len(results)  BY <2>7
    <3> QED  BY <2>4, <3>1
  <2>9. ASSUME NEW i \in DOMAIN ran
        PROVE  LET item == answer.output[2][i]
                   rows == RowsOf(ran[i].kind)
                   names == ColumnsOf(ran[i].kind)
               IN  /\ (item.error # Null) <=> ~ran[i].ok
                   /\ (item.rows_affected # Null) <=> ran[i].kind \in DOMAIN Writers
                   /\ \A r \in DOMAIN rows : \A c \in DOMAIN names :
                        IF op = "array"
                        THEN /\ item.columns[2][c] = names[c] /\ Len(item.types[2]) = Len(names)
                             /\ item.values[2][r][2][c] = rows[r][c]
                        ELSE \/ item.rows[2][r][2][names[c][2]] = rows[r][c]
                             \/ \E d \in c + 1 .. Len(names) : names[d] = names[c]
    <3> DEFINE item == answer.output[2][i]
               k == ran[i].kind
    <3>1. item = rqliteResultFromVDL(results[i][2], op)  BY <2>6, <2>7
    <3>2. item.error = results[i][2].error /\ item.rows_affected = results[i][2].rowsAffected
      BY <3>1, RQLiteCounts
    <3>3. Outcome(i)  BY DEF RPCInv
    <3> HIDE DEF item
    <3>4. CASE /\ results[i] = errorResult
               /\ ran[i] = [kind |-> "", ok |-> FALSE, first |-> 0, wrote |-> 0]
      <4> DEFINE x == [kind |-> "", ok |-> FALSE, first |-> 0, wrote |-> 0]
      <4>1. ~x.ok /\ x.kind = ""  OBVIOUS
      <4>2. ran[i] = x  BY <3>4
      <4> HIDE DEF x
      <4>3. ~ran[i].ok /\ k = ""  BY <4>1, <4>2
      <4>4. errorResult[2].error = Text("message") /\ errorResult[2].rowsAffected = Null
        BY DEF errorResult, Object
      <4>5. item.error # Null /\ item.rows_affected = Null
        <5>1. item.error = Text("message") /\ item.rows_affected = Null  BY <3>2, <3>4, <4>4
        <5>2. Text("message") # Null  BY DEF Text, Null
        <5> QED  BY <5>1, <5>2
      <4>6. k \notin DOMAIN Writers /\ DOMAIN RowsOf(k) = {}
        <5> HIDE DEF k
        <5> QED  BY <4>3, NoStatement
      <4> QED  BY <4>3, <4>5, <4>6 DEF item
    <3>5. CASE /\ ran[i].ok /\ ran[i].kind \in Kinds
               /\ results[i] = queryResultFromDB(ran[i].kind, Reported(results[i]))
      <4>1. PICK cn : results[i] = queryResultFromDB(k, cn)  BY <3>5
      <4>2. /\ results[i][2].error = Null
            /\ results[i][2].rowsAffected = (IF k \in DOMAIN Writers THEN <<"int", cn.changes>> ELSE Null)
        <5>1. LET g == queryResultFromDB(k, cn)[2] IN
                /\ g.error = Null
                /\ g.rowsAffected = (IF k \in DOMAIN Writers THEN <<"int", cn.changes>> ELSE Null)
          BY ResultFields
        <5> HIDE DEF k
        <5> QED  BY <4>1, <5>1
      <4>3. item.error = Null /\ (item.rows_affected # Null <=> k \in DOMAIN Writers)
        BY <3>2, <4>2 DEF Null
      <4>4. item = rqliteResultFromVDL(queryResultFromDB(k, cn)[2], op)  BY <3>1, <4>1
      <4>5. \A r \in DOMAIN RowsOf(k) : \A c \in DOMAIN ColumnsOf(k) :
              LET names == ColumnsOf(k) IN
              IF op = "array"
              THEN /\ item.columns[2][c] = names[c] /\ Len(item.types[2]) = Len(names)
                   /\ item.values[2][r][2][c] = RowsOf(k)[r][c]
              ELSE \/ item.rows[2][r][2][names[c][2]] = RowsOf(k)[r][c]
                   \/ \E d \in c + 1 .. Len(names) : names[d] = names[c]
        <5> HIDE DEF k
        <5> QED  BY <4>4, RQLiteItem
      <4> QED  BY <3>5, <4>3, <4>5 DEF item
    <3> QED  BY <3>3, <3>4, <3>5 DEF Outcome
  <2>10. Len(answer.output[2]) = Len(input)  BY <2>6, <2>8
  <2> HIDE DEF F
  <2> QED  BY <2>9, <2>10 DEF RQLiteTellsTheSame
<1> QED  BY <1>1, RequestDiscipline, PTL
=============================================================================
