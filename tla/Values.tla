------------------------------- MODULE Values -------------------------------
(***************************************************************************)
(* What happens to the parameters of a statement between the client and    *)
(* SQLite and back: the conversions of internal/server/rqlite.go and       *)
(* query_convert.go, and the bindings and columns of internal/sqlite.      *)
(*                                                                         *)
(* The statement is a SELECT of its own parameters.  A value is a pair     *)
(* <<class, contents>>; the classes of a JSON parameter are those that     *)
(* rqliteValueFromJSON tells apart.  A text is <<"string", bytes>>, or     *)
(* <<"hexString", bytes>> if it reads X'...'; a VDL value is a function on *)
(* the fields that are present.                                            *)
(***************************************************************************)
EXTENDS Integers, Sequences, FiniteSetsExt

CONSTANTS
    Half32, Half64, \* 2^31 and 2^63, scaled down
    Numbers,      \* whole numbers that clients send, some wider than int64
    Bytes,        \* byte sequences; 0 is NUL
    Statements,   \* sequences of parameter names <<prefix, base>>
    Names,        \* names that clients use
    MaxParams     \* bound on the number of parameters sent

\* The integers of a width, of which half are negative, and the low bits of one.
Signed(half) == -half .. half - 1
Wrap(n, half) == ((n + half) % (2 * half)) - half

Nameless == <<"?", "">>

Prefixes == {":", "@", "$", "?"}

\* SQLite gives two parameters with the same name the same number; a name with
\* nothing at all is the nameless one.
ASSUME ValuesAssumption ==
    /\ Half32 \in Nat \ {0} /\ Half64 \in Nat /\ Half32 < Half64
    /\ Numbers \subseteq Int /\ Bytes \subseteq Seq(Nat) /\ MaxParams \in Nat
    /\ Statements \subseteq Seq(Prefixes \X STRING)
    /\ \A s \in Statements : \A j, k \in DOMAIN s : s[j] = s[k] /\ s[j] # Nameless => j = k
    /\ Names \subseteq (Prefixes \cup {""}) \X STRING
    /\ Nameless \in Names /\ <<"", "">> \notin Names

Error == <<"error", 0>>
Null == <<"null", 0>>
Texts == {"string", "hexString"} \X Bytes

\* What a client can put for a parameter: JSON on the rqlite routes, VDL on
\* the RPC route, where the RPC layer only lets an int64 pass.
JSONValues ==
    {Null} \cup ({"bool"} \X {0, 1}) \cup ({"number"} \X Numbers)
    \cup ({"fraction"} \X {"pi"}) \cup Texts \cup ({"byteArray"} \X Bytes)
    \cup {<<"array", 0>>, <<"object", 0>>}

Base64 == ({"base64"} \X Bytes) \cup {<<"badBase64", <<>>>>}
VDLValues ==
    [{"null"} -> BOOLEAN]
    \cup [{"integer"} -> Numbers \cap Signed(Half64)]
    \cup [{"real"} -> {<<"fraction", "pi">>}]
    \cup [{"text"} -> Texts] \cup [{"blob"} -> Base64]
    \cup {[null |-> x, integer |-> 1] : x \in BOOLEAN}
    \cup {[integer |-> 1, blob |-> b] : b \in Base64}
    \cup [{} -> {0}]

VARIABLES
    phase,   \* "new", "received", "bind", "answered" or "refused"
    route,   \* "rpc" or "rqlite"
    stmt,    \* the parameters of the prepared statement
    sent,    \* Seq of [name, value] that the client sent
    params,  \* Seq of [name, value], []sqlite.QueryParam
    slots,   \* what is bound to each parameter of the statement
    next,    \* index of the next parameter to bind
    blobArray, \* the blob_array option of the rqlite routes
    row      \* the answer

vars == <<phase, route, stmt, sent, params, slots, next, blobArray, row>>
-----------------------------------------------------------------------------
\* From the client to Go.

rqliteValueFromJSON(j) ==
    CASE j[1] = "null" -> [null |-> TRUE]
      [] j[1] = "bool" -> [integer |-> j[2]]
      [] j[1] = "number" -> IF j[2] \in Signed(Half64) THEN [integer |-> j[2]]
                                                    ELSE [real |-> j]
      [] j[1] = "fraction" -> [real |-> j]
      [] j[1] = "string" -> [text |-> j]
      [] j[1] \in {"hexString", "byteArray"} -> [blob |-> <<"base64", j[2]>>]

\* Mutant: a null field that says false is counted.
SetFieldsAll(v) == DOMAIN v

\* The fields that count: null only if it is true.
SetFields(v) == {f \in DOMAIN v : f = "null" => v[f]}

sqliteValueFromVDL(v) ==
    IF ("blob" \in DOMAIN v /\ v["blob"][1] = "badBase64") \/ Cardinality(SetFields(v)) # 1
    THEN Error
    ELSE LET f == CHOOSE f \in SetFields(v) : TRUE
         IN  CASE f = "null" -> Null
               [] f = "blob" -> <<"blob", v[f][2]>>
               [] OTHER -> <<f, v[f]>>

\* One parameter of the request, as the Go value to bind.
Converted(r, v) ==
    IF r = "rpc" THEN sqliteValueFromVDL(v[2])
    ELSE IF v[2][1] \in {"array", "object"} THEN Error
    ELSE sqliteValueFromVDL(rqliteValueFromJSON(v[2]))
-----------------------------------------------------------------------------
\* Binding.

BindParameterIndex(name) ==
    IF \E j \in DOMAIN stmt : stmt[j] = name
    THEN CHOOSE j \in DOMAIN stmt : stmt[j] = name ELSE 0

TriedPrefixes == <<":", "@", "$", "?">>

\* A name without a prefix is tried with each of them, in this order.
BindParameterIndexSafe(name) ==
    LET found == {k \in DOMAIN TriedPrefixes :
                     BindParameterIndex(<<TriedPrefixes[k], name[2]>>) # 0}
    IN  IF name[1] # "" THEN BindParameterIndex(name)
        ELSE IF found = {} THEN 0
        ELSE BindParameterIndex(<<TriedPrefixes[Min(found)], name[2]>>)

\* C.CString with length -1: SQLite reads up to the first NUL.
UpToNul(b) ==
    LET nul == {i \in DOMAIN b : b[i] = 0}
    IN  IF nul = {} THEN b
        ELSE SubSeq(b, 1, Min(nul) - 1)

\* What SQLite holds after BindInt64, BindDouble, BindText, BindBlob, BindNull.
BindDynamic(v) ==
    CASE v[1] = "text" /\ v[2][1] = "string" -> <<"text", <<"string", UpToNul(v[2][2])>>>>
      [] v[1] = "blob" -> IF v[2] = <<>> THEN Null ELSE v
      [] OTHER -> v

-----------------------------------------------------------------------------
\* From SQLite to the client.

\* sqlite3_column_int: the low 32 bits.
ColumnInt(n) == Wrap(n, Half32)

ColumnDynamic(v) == IF v[1] = "integer" THEN <<"integer", ColumnInt(v[2])>> ELSE v

sqliteValueToVDL(v) ==
    CASE v[1] = "null" -> [null |-> TRUE]
      [] v[1] = "blob" -> [blob |-> <<"base64", v[2]>>]
      [] OTHER -> [f \in {v[1]} |-> v[2]]

rqliteValue(v, asArray) ==
    CASE DOMAIN v = {"null"} -> Null
      [] DOMAIN v = {"integer"} -> <<"number", v["integer"]>>
      [] DOMAIN v = {"blob"} -> <<IF asArray THEN "byteArray" ELSE "base64", v["blob"][2]>>
      [] DOMAIN v = {"real"} -> v["real"]
      [] DOMAIN v = {"text"} -> v["text"]

Encoded(v) ==
    IF route = "rpc" THEN <<"vdl", sqliteValueToVDL(ColumnDynamic(v))>>
    ELSE <<"json", rqliteValue(sqliteValueToVDL(ColumnDynamic(v)), blobArray)>>
-----------------------------------------------------------------------------
Init ==
    /\ phase = "new" /\ route = "rpc" /\ stmt = <<>> /\ blobArray = FALSE
    /\ sent = <<>> /\ params = <<>> /\ slots = <<>> /\ next = 1 /\ row = <<>>

\* Positional and named parameters can be mixed on the RPC route; the rqlite
\* routes take a list, or one object whose keys are all different.
Receive ==
    /\ phase = "new"
    /\ \E n \in 0 .. MaxParams, s \in Statements : \E names \in [1 .. n -> Names] :
       \/ /\ \E vs \in [1 .. n -> VDLValues] :
                sent' = [i \in 1 .. n |-> [name |-> names[i], value |-> <<"vdl", vs[i]>>]]
          /\ route' = "rpc" /\ stmt' = s /\ UNCHANGED blobArray
       \/ /\ \/ \A i \in 1 .. n : names[i] = Nameless
             \/ /\ \A i \in 1 .. n : names[i] # Nameless
                /\ \A i, k \in 1 .. n : names[i] = names[k] => i = k
          /\ \E vs \in [1 .. n -> JSONValues] :
                sent' = [i \in 1 .. n |-> [name |-> names[i], value |-> <<"json", vs[i]>>]]
          /\ blobArray' \in BOOLEAN
          /\ route' = "rqlite" /\ stmt' = s
    /\ phase' = "received"
    /\ UNCHANGED <<params, slots, next, row>>

\* The orders in which the parameters can come: Go ranges over the keys of an
\* object in any order.
Orders ==
    IF route = "rqlite" /\ sent # <<>> /\ sent[1].name # Nameless
    THEN Bijection(DOMAIN sent, DOMAIN sent)
    ELSE {[i \in DOMAIN sent |-> i]}

\* rqliteParamsFromJSON and sqliteParamsFromVDL: one bad value refuses all.
Convert ==
    /\ phase = "received"
    /\ \E f \in Orders :
         params' = [i \in DOMAIN sent |->
            [name |-> sent[f[i]].name, value |-> Converted(route, sent[f[i]].value)]]
    /\ phase' = IF \E i \in DOMAIN params' : params'[i].value = Error
                THEN "refused" ELSE "bind"
    /\ slots' = [j \in DOMAIN stmt |-> Null]
    /\ UNCHANGED <<route, stmt, sent, next, blobArray, row>>

\* Mutant: the name is looked up, and its position used.
TargetByPosition(name, i) ==
    IF name # Nameless /\ BindParameterIndexSafe(name) = 0 THEN 0 ELSE i

\* The parameter of the statement that the i-th one sent is bound to.
Target(name, i) ==
    IF name = Nameless THEN i ELSE BindParameterIndexSafe(name)

\* The loop of Conn.Query: a name that is not there, or a position past the
\* last parameter (SQLITE_RANGE), is an error.
BindNext ==
    /\ phase = "bind" /\ next <= Len(params)
    /\ LET j == Target(params[next].name, next) IN
       IF j \in DOMAIN stmt
       THEN /\ slots' = [slots EXCEPT ![j] = BindDynamic(params[next].value)]
            /\ next' = next + 1 /\ UNCHANGED phase
       ELSE phase' = "refused" /\ UNCHANGED <<slots, next>>
    /\ UNCHANGED <<route, stmt, sent, params, blobArray, row>>

\* The row is read and encoded.
Fetch ==
    /\ phase = "bind" /\ next > Len(params)
    /\ row' = [j \in DOMAIN slots |-> Encoded(slots[j])]
    /\ phase' = "answered"
    /\ UNCHANGED <<route, stmt, sent, params, slots, next, blobArray>>

Over == phase \in {"answered", "refused"} /\ UNCHANGED vars

Next == Receive \/ Convert \/ BindNext \/ Fetch \/ Over

Spec == Init /\ [][Next]_vars
-----------------------------------------------------------------------------
ClientInts == {<<"json", <<"number", n>>>> : n \in Signed(Half32)}

\* What the client means by a value, independently of the conversions: a SQLite
\* class and contents, or Error.
Meaning(v) ==
    IF v[1] = "json"
    THEN CASE v[2][1] = "bool" -> <<"integer", v[2][2]>>
           [] v[2][1] = "number" ->
                <<IF v[2][2] \in Signed(Half64) THEN "integer" ELSE "real", v[2][2]>>
           [] v[2][1] = "fraction" -> <<"real", v[2][2]>>
           [] v[2][1] = "string" -> <<"text", v[2]>>
           [] v[2][1] \in {"hexString", "byteArray"} -> <<"blob", v[2][2]>>
           [] v[2][1] = "null" -> Null
           [] OTHER -> Error
    ELSE CASE v[2] = [null |-> TRUE] -> Null
           [] DOMAIN v[2] \in {{"integer"}, {"null", "integer"}} ->
                IF DOMAIN v[2] = {"integer"} \/ ~v[2]["null"]
                THEN <<"integer", v[2]["integer"]>> ELSE Error
           [] DOMAIN v[2] = {"real"} -> <<"real", v[2]["real"][2]>>
           [] DOMAIN v[2] = {"text"} -> <<"text", v[2]["text"]>>
           [] DOMAIN v[2] = {"blob"} /\ v[2]["blob"][1] = "base64" -> <<"blob", v[2]["blob"][2]>>
           [] OTHER -> Error

\* The same of a value in an answer.
Shown(v) ==
    IF v[1] = "vdl" THEN Meaning(v)
    ELSE IF v[2][1] = "base64" THEN <<"blob", v[2][2]>>
    ELSE IF v[2][1] = "hexString" THEN <<"text", v[2]>> ELSE Meaning(v)

\* The parameter of the statement that a name sent at position i means, if any,
\* and the ones sent that mean parameter j.
Rank(prefix) == CHOOSE k \in DOMAIN TriedPrefixes : TriedPrefixes[k] = prefix
Meant(name, i) ==
    LET named == {j \in DOMAIN stmt : stmt[j][2] = name[2] /\ name[1] \in {"", stmt[j][1]}}
    IN  IF name = Nameless THEN {i} \cap DOMAIN stmt
        ELSE {j \in named : \A k \in named : Rank(stmt[j][1]) <= Rank(stmt[k][1])}
SentFor(j) == {i \in DOMAIN sent : j \in Meant(sent[i].name, i)}

\* A parameter that is sent once comes back as it was meant, and one that is
\* not sent comes back as NULL; Faithful says for which values.
RoundTripOf(Faithful(_)) ==
    phase = "answered" =>
        \A j \in DOMAIN stmt :
            /\ SentFor(j) = {} => Shown(row[j]) = Null
            /\ \A i \in SentFor(j) :
                  SentFor(j) = {i} /\ Faithful(Meaning(sent[i].value)) =>
                      Shown(row[j]) = Meaning(sent[i].value)

Preserved(v) ==
    /\ v[1] = "integer" => v[2] \in Signed(Half32)
    /\ (v[1] = "text" /\ v[2][1] = "string") => \A i \in DOMAIN v[2][2] : v[2][2][i] # 0
    /\ v[1] = "blob" => v[2] # <<>>

\* Integers of 32 bits, reals, texts without NUL, blobs with contents and NULL
\* come back as they were sent, by name or by position, on either API.
RoundTrip == RoundTripOf(Preserved)

\* A request is refused exactly when a value means nothing, or a parameter
\* means none of the statement.
RefusedExactlyBad ==
    phase \in {"answered", "refused"} =>
        (phase = "refused" <=>
            \E i \in DOMAIN sent : Meaning(sent[i].value) = Error \/ Meant(sent[i].name, i) = {})
-----------------------------------------------------------------------------
\* "integer -> SQLite INTEGER": every int64 comes back.
IntegersSurvive == RoundTripOf(LAMBDA v : v[1] = "integer")
-----------------------------------------------------------------------------
\* The inductive invariant behind RoundTrip and RefusedExactlyBad.

\* What Receive lets in: rqlite parameters have names all together or not at all.
Received ==
    /\ Len(sent) \in Nat /\ DOMAIN sent = 1 .. Len(sent)
    /\ \A i \in DOMAIN sent :
          /\ sent[i].name \in Names
          /\ sent[i].value \in (IF route = "rpc" THEN {"vdl"} \X VDLValues
                                                 ELSE {"json"} \X JSONValues)
    /\ route = "rqlite" =>
          \A i, k \in DOMAIN sent : sent[i].name = Nameless => sent[k].name = Nameless
    /\ route \in {"rpc", "rqlite"} /\ (sent = <<>> \/ stmt \in Statements)

\* What the k-th parameter sent is bound to.
Place(k) == Target(sent[k].name, k)

\* The parameters in the order f, all converted, and those before next bound:
\* every slot is NULL or holds one that was meant for it.
BoundInOrder(f) ==
    /\ params = [i \in DOMAIN sent |->
          [name |-> sent[f[i]].name, value |-> Converted(route, sent[f[i]].value)]]
    /\ \A i \in DOMAIN sent : params[i].value # Error
    /\ next \in Nat \ {0} /\ DOMAIN slots = DOMAIN stmt /\ stmt \in Statements
    /\ \A i \in DOMAIN sent : i < next => Place(f[i]) \in DOMAIN stmt
    /\ \A j \in DOMAIN stmt :
          \/ slots[j] = Null /\ \A i \in DOMAIN sent : i < next => Place(f[i]) # j
          \/ \E i \in DOMAIN sent :
                i < next /\ Place(f[i]) = j /\ slots[j] = BindDynamic(params[i].value)

ValuesInv ==
    /\ Received
    /\ phase \in {"new", "received", "bind", "answered", "refused"}
    /\ phase \in {"new", "received"} => next = 1
    /\ phase = "received" => stmt \in Statements
    /\ phase \in {"bind", "answered"} => \E f \in Orders : BoundInOrder(f)
    /\ phase = "answered" =>
          next > Len(params) /\ row = [j \in DOMAIN slots |-> Encoded(slots[j])]
    /\ phase = "refused" =>
          \E i \in DOMAIN sent : Meaning(sent[i].value) = Error \/ Meant(sent[i].name, i) = {}
=============================================================================
