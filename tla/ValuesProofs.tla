--------------------------- MODULE ValuesProofs -----------------------------
(***************************************************************************)
(* Proofs about Values: parameters come back as they were meant, and       *)
(* exactly the meaningless ones are refused, for any statements, numbers,  *)
(* byte sequences and widths.                                              *)
(***************************************************************************)
EXTENDS Values, FiniteSetTheorems, TLAPS

\* A number of a width is its own low bits.
LEMMA WrapInRange ==
  ASSUME NEW half \in Nat \ {0}, NEW n \in Signed(half) PROVE Wrap(n, half) = n
  BY DEF Wrap, Signed

\* A text without NUL is bound whole.
LEMMA NoNul ==
  ASSUME NEW b, \A i \in DOMAIN b : b[i] # 0 PROVE UpToNul(b) = b
  <1>1. {i \in DOMAIN b : b[i] = 0} = {}
    OBVIOUS
  <1> QED
    BY <1>1 DEF UpToNul

\* The value of one field.
LEMMA OneField ==
  ASSUME NEW v, NEW f, SetFields(v) = {f}, ~("blob" \in DOMAIN v /\ v["blob"][1] = "badBase64")
  PROVE  sqliteValueFromVDL(v) = CASE f = "null" -> Null
                                   [] f = "blob" -> <<"blob", v[f][2]>>
                                   [] OTHER -> <<f, v[f]>>
  <1>1. Cardinality(SetFields(v)) = 1
    BY FS_Singleton
  <1>2. (CHOOSE x \in SetFields(v) : TRUE) = f
    OBVIOUS
  <1> QED
    BY <1>1, <1>2 DEF sqliteValueFromVDL

\* More than one field, or none, is an error.
LEMMA OtherFields ==
  ASSUME NEW v, SetFields(v) = {} \/ \E f, g : f # g /\ SetFields(v) = {f, g}
  PROVE  sqliteValueFromVDL(v) = Error
  <1>1. Cardinality(SetFields(v)) # 1
    <2>1. CASE SetFields(v) = {}
      BY <2>1, FS_EmptySet
    <2>2. CASE \E f, g : f # g /\ SetFields(v) = {f, g}
      <3>1. PICK f, g : f # g /\ SetFields(v) = {f} \cup {g}
        BY <2>2
      <3>2. IsFiniteSet({f}) /\ Cardinality({f}) = 1 /\ g \notin {f}
        BY <3>1, FS_Singleton
      <3>3. Cardinality({f} \cup {g}) = 2
        BY <3>2, FS_AddElement
      <3> QED
        BY <3>1, <3>3
    <2> QED
      BY <2>1, <2>2
  <1> QED
    BY <1>1 DEF sqliteValueFromVDL

\* What a value is between the conversions, with what the client means by it.
Between(m, c) ==
    \/ m = Error /\ c = Error
    \/ m = Null /\ c = Null
    \/ \E n : m = <<"integer", n>> /\ c = m
    \/ \E class \in {"string", "hexString"} : \E b : m = <<"text", <<class, b>>>> /\ c = m
    \/ \E b : m = <<"blob", b>> /\ c = m
    \/ \E x, class : m = <<"real", x>> /\ c = <<"real", <<class, x>>>>
         /\ (class = "fraction" \/ (class = "number" /\ x \notin Signed(Half64)))

\* A VDL parameter is converted to what it means.
LEMMA VDLConverted ==
  ASSUME NEW w \in VDLValues
  PROVE  Between(Meaning(<<"vdl", w>>), Converted("rpc", <<"vdl", w>>))
  <1>1. CASE w \in [{"null"} -> BOOLEAN]
    <2>1. CASE w["null"]
      <3>1. w = [null |-> TRUE]
        BY <1>1, <2>1
      <3>2. SetFields(w) = {"null"}
        BY <3>1 DEF SetFields
      <3>3. sqliteValueFromVDL(w) = Null
        BY <3>1, <3>2, OneField
      <3> QED
        BY <3>1, <3>3 DEF Between, Meaning, Converted
    <2>2. CASE ~w["null"]
      <3>1. SetFields(w) = {}
        BY <1>1, <2>2 DEF SetFields
      <3>2. sqliteValueFromVDL(w) = Error
        BY <3>1, OtherFields
      <3>3. w # [null |-> TRUE] /\ DOMAIN w = {"null"}
        BY <1>1, <2>2
      <3> QED
        BY <3>2, <3>3 DEF Between, Meaning, Converted
    <2> QED
      BY <2>1, <2>2
  <1>2. CASE w \in [{"integer"} -> Numbers \cap Signed(Half64)]
    <2>1. SetFields(w) = {"integer"} /\ DOMAIN w = {"integer"}
      BY <1>2 DEF SetFields
    <2>2. sqliteValueFromVDL(w) = <<"integer", w["integer"]>>
      BY <2>1, OneField
    <2>3. w # [null |-> TRUE]
      BY <2>1
    <2> QED
      BY <2>1, <2>2, <2>3 DEF Between, Meaning, Converted
  <1>3. CASE w \in [{"real"} -> {<<"fraction", "pi">>}]
    <2>1. SetFields(w) = {"real"} /\ DOMAIN w = {"real"} /\ w["real"] = <<"fraction", "pi">>
      BY <1>3 DEF SetFields
    <2>2. sqliteValueFromVDL(w) = <<"real", <<"fraction", "pi">>>>
      BY <2>1, OneField
    <2>3. w # [null |-> TRUE]
      BY <2>1
    <2>4. Meaning(<<"vdl", w>>) = <<"real", "pi">>
      BY <2>1, <2>3 DEF Meaning
    <2> QED
      BY <2>2, <2>4 DEF Between, Converted
  <1>4. CASE w \in [{"text"} -> Texts]
    <2>1. SetFields(w) = {"text"} /\ DOMAIN w = {"text"}
      BY <1>4 DEF SetFields
    <2>2. sqliteValueFromVDL(w) = <<"text", w["text"]>>
      BY <2>1, OneField
    <2>3. w # [null |-> TRUE]
      BY <2>1
    <2>4. Meaning(<<"vdl", w>>) = <<"text", w["text"]>>
      BY <2>1, <2>3 DEF Meaning
    <2>5. PICK class \in {"string", "hexString"} : \E b : w["text"] = <<class, b>>
      BY <1>4 DEF Texts
    <2> QED
      BY <2>2, <2>4, <2>5 DEF Between, Converted
  <1>5. CASE w \in [{"blob"} -> Base64]
    <2>1. SetFields(w) = {"blob"} /\ DOMAIN w = {"blob"}
          /\ w["blob"][1] \in {"base64", "badBase64"}
      BY <1>5 DEF SetFields, Base64
    <2>2. w # [null |-> TRUE]
      BY <2>1
    <2>3. CASE w["blob"][1] = "base64"
      <3>1. sqliteValueFromVDL(w) = <<"blob", w["blob"][2]>>
        BY <2>1, <2>3, OneField
      <3> QED
        BY <2>1, <2>2, <2>3, <3>1 DEF Between, Meaning, Converted
    <2>4. CASE w["blob"][1] = "badBase64"
      BY <2>1, <2>2, <2>4 DEF Between, Meaning, Converted, sqliteValueFromVDL
    <2> QED
      BY <2>1, <2>3, <2>4
  <1>6. CASE w \in {[null |-> x, integer |-> 1] : x \in BOOLEAN}
    <2>1. PICK x \in BOOLEAN : w = [null |-> x, integer |-> 1]
      BY <1>6
    <2>2. DOMAIN w = {"null", "integer"} /\ w["integer"] = 1 /\ w["null"] = x /\ w # [null |-> TRUE]
      BY <2>1
    <2>3. CASE x
      <3>1. SetFields(w) = {"null", "integer"}
        BY <2>2, <2>3 DEF SetFields
      <3>2. sqliteValueFromVDL(w) = Error
        BY <3>1, OtherFields
      <3>3. {"null", "integer"} # {"integer"}
        OBVIOUS
      <3>4. Meaning(<<"vdl", w>>) = Error
        BY <2>2, <2>3, <3>3 DEF Meaning
      <3> QED
        BY <3>2, <3>4 DEF Between, Converted
    <2>4. CASE ~x
      <3>1. SetFields(w) = {"integer"}
        BY <2>2, <2>4 DEF SetFields
      <3>2. sqliteValueFromVDL(w) = <<"integer", 1>>
        BY <2>2, <3>1, OneField
      <3> QED
        BY <2>2, <2>4, <3>2 DEF Between, Meaning, Converted
    <2> QED
      BY <2>3, <2>4
  <1>7. CASE w \in {[integer |-> 1, blob |-> b] : b \in Base64}
    <2>1. DOMAIN w = {"integer", "blob"} /\ w # [null |-> TRUE]
      BY <1>7
    <2>2. SetFields(w) = {"integer", "blob"}
      BY <2>1 DEF SetFields
    <2>3. sqliteValueFromVDL(w) = Error
      BY <2>2, OtherFields
    <2>4. \A S \in {{"integer"}, {"null", "integer"}, {"real"}, {"text"}, {"blob"}} :
             {"integer", "blob"} # S
      OBVIOUS
    <2>5. Meaning(<<"vdl", w>>) = Error
      BY <2>1, <2>4 DEF Meaning
    <2> QED
      BY <2>3, <2>5 DEF Between, Converted
  <1>8. CASE w \in [{} -> {0}]
    <2>1. DOMAIN w = {} /\ w # [null |-> TRUE] /\ SetFields(w) = {}
      BY <1>8 DEF SetFields
    <2>2. sqliteValueFromVDL(w) = Error
      BY <2>1, OtherFields
    <2> QED
      BY <2>1, <2>2 DEF Between, Meaning, Converted
  <1> QED
    BY <1>1, <1>2, <1>3, <1>4, <1>5, <1>6, <1>7, <1>8 DEF VDLValues

\* A JSON parameter is converted to what it means.
LEMMA JSONConverted ==
  ASSUME NEW j \in JSONValues
  PROVE  Between(Meaning(<<"json", j>>), Converted("rqlite", <<"json", j>>))
  <1> DEFINE v == rqliteValueFromJSON(j)
  <1>0. ASSUME NEW f \in {"integer", "real", "text", "blob"}, DOMAIN v = {f},
               f = "blob" => v[f][1] # "badBase64"
        PROVE  sqliteValueFromVDL(v) = IF f = "blob" THEN <<"blob", v[f][2]>> ELSE <<f, v[f]>>
    <2> HIDE DEF v
    <2>1. SetFields(v) = {f}
      BY <1>0 DEF SetFields
    <2> QED
      BY <1>0, <2>1, OneField
  <1>1. CASE j = Null
    <2>1. v = [null |-> TRUE]
      BY <1>1 DEF rqliteValueFromJSON, Null
    <2>2. SetFields(v) = {"null"}
      BY <2>1 DEF SetFields
    <2>3. sqliteValueFromVDL(v) = Null
      BY <2>1, <2>2, OneField
    <2> QED
      BY <1>1, <2>3 DEF Between, Meaning, Converted, Null
  <1>2. CASE j \in {"bool"} \X {0, 1}
    <2>1. v = [integer |-> j[2]] /\ j[1] = "bool"
      BY <1>2 DEF rqliteValueFromJSON
    <2>2. sqliteValueFromVDL(v) = <<"integer", j[2]>>
      BY <1>0, <2>1
    <2> QED
      BY <2>1, <2>2 DEF Between, Meaning, Converted
  <1>3. CASE j \in {"number"} \X Numbers
    <2>1. CASE j[2] \in Signed(Half64)
      <3>1. v = [integer |-> j[2]] /\ j[1] = "number"
        BY <1>3, <2>1 DEF rqliteValueFromJSON
      <3>2. sqliteValueFromVDL(v) = <<"integer", j[2]>>
        BY <1>0, <3>1
      <3> QED
        BY <2>1, <3>1, <3>2 DEF Between, Meaning, Converted
    <2>2. CASE j[2] \notin Signed(Half64)
      <3>1. v = [real |-> j] /\ j[1] = "number" /\ j = <<"number", j[2]>>
        BY <1>3, <2>2 DEF rqliteValueFromJSON
      <3>2. sqliteValueFromVDL(v) = <<"real", <<"number", j[2]>>>>
        BY <1>0, <3>1
      <3>3. Meaning(<<"json", j>>) = <<"real", j[2]>>
        BY <2>2, <3>1 DEF Meaning
      <3>4. Converted("rqlite", <<"json", j>>) = <<"real", <<"number", j[2]>>>>
        BY <3>1, <3>2 DEF Converted
      <3> QED
        BY <2>2, <3>3, <3>4 DEF Between
    <2> QED
      BY <2>1, <2>2
  <1>4. CASE j \in {"fraction"} \X {"pi"}
    <2>1. v = [real |-> j] /\ j[1] = "fraction" /\ j = <<"fraction", j[2]>>
      BY <1>4 DEF rqliteValueFromJSON
    <2>2. sqliteValueFromVDL(v) = <<"real", <<"fraction", j[2]>>>>
      BY <1>0, <2>1
    <2>3. Meaning(<<"json", j>>) = <<"real", j[2]>>
      BY <2>1 DEF Meaning
    <2>4. Converted("rqlite", <<"json", j>>) = <<"real", <<"fraction", j[2]>>>>
      BY <2>1, <2>2 DEF Converted
    <2> QED
      BY <2>3, <2>4 DEF Between
  <1>5. CASE j \in {"string"} \X Bytes
    <2>1. v = [text |-> j] /\ j[1] = "string"
      BY <1>5 DEF rqliteValueFromJSON
    <2>2. sqliteValueFromVDL(v) = <<"text", j>>
      BY <1>0, <2>1
    <2>3. Meaning(<<"json", j>>) = <<"text", j>>
      BY <2>1 DEF Meaning
    <2>4. Converted("rqlite", <<"json", j>>) = <<"text", j>> /\ j = <<"string", j[2]>>
      BY <1>5, <2>1, <2>2 DEF Converted
    <2> QED
      BY <2>3, <2>4 DEF Between
  <1>6. CASE j \in {"hexString", "byteArray"} \X Bytes
    <2>1. v = [blob |-> <<"base64", j[2]>>] /\ j[1] \in {"hexString", "byteArray"}
      BY <1>6 DEF rqliteValueFromJSON
    <2>2. sqliteValueFromVDL(v) = <<"blob", j[2]>>
      BY <1>0, <2>1
    <2> QED
      BY <2>1, <2>2 DEF Between, Meaning, Converted
  <1>7. CASE j \in {<<"array", 0>>, <<"object", 0>>}
    BY <1>7 DEF Between, Meaning, Converted
  <1> QED
    BY <1>1, <1>2, <1>3, <1>4, <1>5, <1>6, <1>7 DEF JSONValues, Texts

\* What is sent is converted to what it means.
LEMMA SentConverted ==
  ASSUME Received, NEW k \in DOMAIN sent
  PROVE  Between(Meaning(sent[k].value), Converted(route, sent[k].value))
  <1>1. CASE route = "rpc"
    <2>1. PICK w \in VDLValues : sent[k].value = <<"vdl", w>>
      BY <1>1 DEF Received
    <2> QED
      BY <1>1, <2>1, VDLConverted
  <1>2. CASE route = "rqlite"
    <2>1. PICK j \in JSONValues : sent[k].value = <<"json", j>>
      BY <1>2 DEF Received
    <2> QED
      BY <1>2, <2>1, JSONConverted
  <1> QED
    BY <1>1, <1>2 DEF Received

\* A value is refused exactly when it means nothing.
LEMMA BetweenErrors ==
  ASSUME NEW m, NEW c, Between(m, c) PROVE m = Error <=> c = Error
  BY DEF Between, Error, Null

\* What is bound and read again shows what was meant, if it is preserved.
LEMMA ShownAsMeant ==
  ASSUME Received, NEW m, NEW c, Between(m, c), m # Error, Preserved(m)
  PROVE  Shown(Encoded(BindDynamic(c))) = m
  <1> DEFINE v == sqliteValueToVDL(ColumnDynamic(BindDynamic(c)))
  <1>0. Encoded(BindDynamic(c)) = IF route = "rpc" THEN <<"vdl", v>>
                                  ELSE <<"json", rqliteValue(v, blobArray)>>
    BY DEF Encoded
  <1>1. CASE m = Null /\ c = Null
    <2>1. BindDynamic(c) = Null
      BY <1>1 DEF BindDynamic, Null
    <2>2. v = [null |-> TRUE]
      BY <2>1 DEF ColumnDynamic, sqliteValueToVDL, Null
    <2>3. rqliteValue(v, blobArray) = Null
      BY <2>2 DEF rqliteValue
    <2>4. Shown(<<"vdl", [null |-> TRUE]>>) = Null
      BY DEF Shown, Meaning
    <2>5. Shown(<<"json", Null>>) = Null
      BY DEF Shown, Meaning, Null
    <2> HIDE DEF v
    <2> QED
      BY <1>0, <1>1, <2>2, <2>3, <2>4, <2>5
  <1>2. ASSUME NEW n, m = <<"integer", n>>, c = m PROVE Shown(Encoded(BindDynamic(c))) = m
    <2>1. n \in Signed(Half32) /\ Half32 \in Nat \ {0} /\ Half32 < Half64 /\ Half64 \in Nat
      BY <1>2, ValuesAssumption DEF Preserved
    <2>2. BindDynamic(c) = <<"integer", n>> /\ ColumnInt(n) = n
      BY <1>2, <2>1, WrapInRange DEF BindDynamic, ColumnInt
    <2>3. v = [f \in {"integer"} |-> n]
      BY <2>2 DEF ColumnDynamic, sqliteValueToVDL
    <2>4. DOMAIN v = {"integer"} /\ v["integer"] = n /\ v # [null |-> TRUE]
      BY <2>3
    <2> HIDE DEF v
    <2>5. rqliteValue(v, blobArray) = <<"number", n>>
      BY <2>4 DEF rqliteValue
    <2>6. n \in Signed(Half64)
      BY <2>1 DEF Signed
    <2> QED
      BY <1>0, <1>2, <2>4, <2>5, <2>6 DEF Shown, Meaning
  <1>3. ASSUME NEW class \in {"string", "hexString"}, NEW b, m = <<"text", <<class, b>>>>, c = m
        PROVE  Shown(Encoded(BindDynamic(c))) = m
    <2>1. BindDynamic(c) = <<"text", <<class, b>>>>
      BY <1>3, NoNul DEF BindDynamic, Preserved
    <2>2. v = [f \in {"text"} |-> <<class, b>>]
      BY <2>1 DEF ColumnDynamic, sqliteValueToVDL
    <2>3. DOMAIN v = {"text"} /\ v["text"] = <<class, b>> /\ v # [null |-> TRUE]
      BY <2>2
    <2> HIDE DEF v
    <2>4. rqliteValue(v, blobArray) = <<class, b>>
      BY <2>3 DEF rqliteValue
    <2> QED
      BY <1>0, <1>3, <2>3, <2>4 DEF Shown, Meaning
  <1>4. ASSUME NEW b, m = <<"blob", b>>, c = m PROVE Shown(Encoded(BindDynamic(c))) = m
    <2>1. BindDynamic(c) = <<"blob", b>>
      BY <1>4 DEF BindDynamic, Preserved
    <2>2. v = [blob |-> <<"base64", b>>]
      BY <2>1 DEF ColumnDynamic, sqliteValueToVDL
    <2>3. DOMAIN v = {"blob"} /\ v["blob"] = <<"base64", b>> /\ v # [null |-> TRUE]
      BY <2>2
    <2> HIDE DEF v
    <2>4. rqliteValue(v, blobArray) \in {<<"byteArray", b>>, <<"base64", b>>}
      BY <2>3 DEF rqliteValue
    <2> QED
      BY <1>0, <1>4, <2>3, <2>4 DEF Shown, Meaning
  <1>5. ASSUME NEW x, NEW class, m = <<"real", x>>, c = <<"real", <<class, x>>>>,
               class = "fraction" \/ (class = "number" /\ x \notin Signed(Half64))
        PROVE  Shown(Encoded(BindDynamic(c))) = m
    <2>1. BindDynamic(c) = <<"real", <<class, x>>>>
      BY <1>5 DEF BindDynamic
    <2>2. v = [f \in {"real"} |-> <<class, x>>]
      BY <2>1 DEF ColumnDynamic, sqliteValueToVDL
    <2>3. DOMAIN v = {"real"} /\ v["real"] = <<class, x>> /\ v # [null |-> TRUE]
      BY <2>2
    <2> HIDE DEF v
    <2>4. rqliteValue(v, blobArray) = <<class, x>>
      BY <2>3 DEF rqliteValue
    <2> QED
      BY <1>0, <1>5, <2>3, <2>4 DEF Shown, Meaning
  <1> QED
    BY <1>1, <1>2, <1>3, <1>4, <1>5 DEF Between
-----------------------------------------------------------------------------
\* Names.

LEMMA Pairs ==
  ASSUME NEW A, NEW B, NEW p \in A \X B
  PROVE  p = <<p[1], p[2]>> /\ p[1] \in A /\ p[2] \in B
  OBVIOUS

\* Where the statement has a name, if it has it.
LEMMA NameIndex ==
  ASSUME stmt \in Statements, NEW name, name # Nameless
  PROVE  /\ BindParameterIndex(name) # 0 <=> \E j \in DOMAIN stmt : stmt[j] = name
         /\ \A j \in DOMAIN stmt : stmt[j] = name => BindParameterIndex(name) = j
  <1>1. /\ stmt \in Seq(Prefixes \X STRING)
        /\ \A j, k \in DOMAIN stmt : stmt[j] = stmt[k] /\ stmt[j] # Nameless => j = k
    BY ValuesAssumption
  <1>2. 0 \notin DOMAIN stmt
    BY <1>1
  <1> QED
    BY <1>1, <1>2 DEF BindParameterIndex

\* The rank of a prefix is its place among those that are tried.
LEMMA Ranks ==
  /\ DOMAIN TriedPrefixes = 1 .. 4
  /\ \A k \in 1 .. 4 : Rank(TriedPrefixes[k]) = k
  /\ \A p \in Prefixes : Rank(p) \in 1 .. 4 /\ TriedPrefixes[Rank(p)] = p
  <1>1. /\ DOMAIN TriedPrefixes = 1 .. 4 /\ TriedPrefixes[1] = ":" /\ TriedPrefixes[2] = "@"
        /\ TriedPrefixes[3] = "$" /\ TriedPrefixes[4] = "?"
    BY DEF TriedPrefixes
  <1>2. Rank(":") = 1 /\ Rank("@") = 2 /\ Rank("$") = 3 /\ Rank("?") = 4
    BY <1>1 DEF Rank
  <1> QED
    BY <1>1, <1>2 DEF Prefixes

\* A parameter is bound where its name or its position means it to be.
LEMMA TargetIsMeant ==
  ASSUME stmt \in Statements, NEW name \in Names, NEW i
  PROVE  Meant(name, i) = {Target(name, i)} \cap DOMAIN stmt
  <1> DEFINE named == {j \in DOMAIN stmt : stmt[j][2] = name[2] /\ name[1] \in {"", stmt[j][1]}}
             first == {j \in named : \A k \in named : Rank(stmt[j][1]) <= Rank(stmt[k][1])}
  <1>0. /\ \A j \in DOMAIN stmt : stmt[j] = <<stmt[j][1], stmt[j][2]>> /\ stmt[j][1] \in Prefixes
        /\ 0 \notin DOMAIN stmt
        /\ name = <<name[1], name[2]>> /\ name # <<"", "">>
    <2>1. stmt \in Seq(Prefixes \X STRING) /\ name \in (Prefixes \cup {""}) \X STRING
          /\ name # <<"", "">>
      BY ValuesAssumption
    <2> HIDE DEF named, first
    <2>2. PICK Pair : stmt \in Seq(Pair) /\ Pair = Prefixes \X STRING
      BY <2>1
    <2>3. 0 \notin DOMAIN stmt /\ \A j \in DOMAIN stmt : stmt[j] \in Pair
      BY <2>2
    <2>4. ASSUME NEW j \in DOMAIN stmt
          PROVE  stmt[j] = <<stmt[j][1], stmt[j][2]>> /\ stmt[j][1] \in Prefixes
      BY <2>2, Pairs
    <2>5. name = <<name[1], name[2]>>
      BY <2>1, Pairs
    <2> QED
      BY <2>1, <2>3, <2>4, <2>5
  <1>1. CASE name = Nameless
    BY <1>1 DEF Meant, Target
  <1>2. CASE name # Nameless /\ name[1] # ""
    <2>1. named = {j \in DOMAIN stmt : stmt[j] = name}
      <3>1. ASSUME NEW j \in DOMAIN stmt
            PROVE  (stmt[j][2] = name[2] /\ name[1] \in {"", stmt[j][1]}) <=> stmt[j] = name
        <4>1. stmt[j] = <<stmt[j][1], stmt[j][2]>> /\ name = <<name[1], name[2]>> /\ name[1] # ""
          BY <1>0, <1>2
        <4> QED
          BY <4>1
      <3> QED
        BY <3>1
    <2>2. first = named
      <3>1. \A j, k \in named : Rank(stmt[j][1]) = Rank(stmt[k][1])
        BY <2>1
      <3>2. \A j \in named : Rank(stmt[j][1]) \in 1 .. 4
        BY <1>0, <2>1, Ranks
      <3> HIDE DEF named
      <3> QED
        BY <3>1, <3>2
    <2>3. Target(name, i) = BindParameterIndex(name)
      BY <1>2 DEF Target, BindParameterIndexSafe
    <2>4. named = {BindParameterIndex(name)} \cap DOMAIN stmt
      <3>1. /\ BindParameterIndex(name) # 0 <=> \E j \in DOMAIN stmt : stmt[j] = name
            /\ \A j \in DOMAIN stmt : stmt[j] = name => BindParameterIndex(name) = j
        BY <1>2, NameIndex
      <3> HIDE DEF named
      <3> QED
        BY <1>0, <2>1, <3>1
    <2> QED
      BY <1>2, <2>2, <2>3, <2>4 DEF Meant
  <1>3. CASE name[1] = ""
    <2> DEFINE found == {k \in DOMAIN TriedPrefixes :
                            BindParameterIndex(<<TriedPrefixes[k], name[2]>>) # 0}
    <2>1. name # Nameless /\ name[2] # ""
      <3>1. name[2] # ""
        BY <1>0, <1>3
      <3>2. Nameless[2] = ""
        BY DEF Nameless
      <3> QED
        BY <3>1, <3>2
    <2>2. \A p : <<p, name[2]>> # Nameless
      BY <2>1 DEF Nameless
    <2>3. named = {j \in DOMAIN stmt : stmt[j][2] = name[2]}
      BY <1>3
    <2>4. \A j \in named : /\ stmt[j] = <<TriedPrefixes[Rank(stmt[j][1])], name[2]>>
                           /\ Rank(stmt[j][1]) \in 1 .. 4 /\ Rank(stmt[j][1]) \in found
                           /\ BindParameterIndex(<<TriedPrefixes[Rank(stmt[j][1])], name[2]>>) = j
      <3> SUFFICES ASSUME NEW j \in named
                   PROVE  /\ stmt[j] = <<TriedPrefixes[Rank(stmt[j][1])], name[2]>>
                          /\ Rank(stmt[j][1]) \in 1 .. 4 /\ Rank(stmt[j][1]) \in found
                          /\ BindParameterIndex(<<TriedPrefixes[Rank(stmt[j][1])], name[2]>>) = j
        OBVIOUS
      <3>1. stmt[j] = <<stmt[j][1], name[2]>> /\ stmt[j][1] \in Prefixes
        <4>1. j \in DOMAIN stmt /\ stmt[j][2] = name[2]
          BY <2>3
        <4> QED
          BY <1>0, <4>1
      <3>2. Rank(stmt[j][1]) \in 1 .. 4 /\ TriedPrefixes[Rank(stmt[j][1])] = stmt[j][1]
        BY <3>1, Ranks
      <3>3. BindParameterIndex(stmt[j]) = j /\ BindParameterIndex(stmt[j]) # 0
        BY <2>2, <3>1, NameIndex
      <3> QED
        BY <3>1, <3>2, <3>3, Ranks
    <2>5. \A k \in found : \E j \in named :
             /\ stmt[j] = <<TriedPrefixes[k], name[2]>> /\ Rank(stmt[j][1]) = k
             /\ BindParameterIndex(<<TriedPrefixes[k], name[2]>>) = j
      <3> SUFFICES ASSUME NEW k \in found
                   PROVE  \E j \in named :
                             /\ stmt[j] = <<TriedPrefixes[k], name[2]>> /\ Rank(stmt[j][1]) = k
                             /\ BindParameterIndex(<<TriedPrefixes[k], name[2]>>) = j
        OBVIOUS
      <3>1. k \in 1 .. 4
        BY Ranks
      <3>2. PICK j \in DOMAIN stmt : stmt[j] = <<TriedPrefixes[k], name[2]>>
        BY <2>2, NameIndex
      <3>3. BindParameterIndex(<<TriedPrefixes[k], name[2]>>) = j
        BY <2>2, <3>2, NameIndex
      <3> QED
        <4>1. stmt[j][1] = TriedPrefixes[k] /\ stmt[j][2] = name[2]
          BY <3>2
        <4>2. j \in named /\ Rank(stmt[j][1]) = k
          BY <2>3, <3>1, <4>1, Ranks
        <4> QED
          BY <3>2, <3>3, <4>2
    <2>6. Target(name, i) = IF found = {} THEN 0
                            ELSE BindParameterIndex(<<TriedPrefixes[Min(found)], name[2]>>)
      BY <1>3, <2>1 DEF Target, BindParameterIndexSafe
    <2>7. Meant(name, i) = first
      BY <2>1 DEF Meant
    <2> HIDE DEF found, named
    <2>8. CASE found = {}
      <3>1. named = {}
        BY <2>4, <2>8
      <3> QED
        BY <1>0, <2>6, <2>7, <2>8, <3>1
    <2>9. CASE found # {}
      <3>1. Min(found) \in found /\ \A k \in found : Min(found) <= k
        <4>1. found \subseteq 1 .. 4
          BY Ranks DEF found
        <4>2. \E x \in found : \A y \in found : x =< y
          <5>1. CASE 1 \in found
            BY <4>1, <5>1
          <5>2. CASE 1 \notin found /\ 2 \in found
            BY <4>1, <5>2
          <5>3. CASE 1 \notin found /\ 2 \notin found /\ 3 \in found
            BY <4>1, <5>3
          <5>4. CASE 1 \notin found /\ 2 \notin found /\ 3 \notin found
            <6>1. \A x \in found : x = 4
              BY <4>1, <5>4
            <6> QED
              BY <2>9, <6>1
          <5> QED
            BY <5>1, <5>2, <5>3, <5>4
        <4> QED
          BY <4>2 DEF Min
      <3>2. PICK j \in named : /\ stmt[j] = <<TriedPrefixes[Min(found)], name[2]>>
                               /\ Rank(stmt[j][1]) = Min(found) /\ Target(name, i) = j
        BY <2>5, <2>6, <2>9, <3>1
      <3>3. j \in DOMAIN stmt
        BY DEF named
      <3>4. j \in first
        BY <2>4, <3>1, <3>2
      <3>5. ASSUME NEW l \in first PROVE l = j
        <4>1. Rank(stmt[l][1]) <= Rank(stmt[j][1]) /\ Min(found) <= Rank(stmt[l][1])
          BY <2>4, <3>1, <3>2
        <4>2. Rank(stmt[l][1]) = Min(found)
          <5>1. Rank(stmt[l][1]) \in 1 .. 4 /\ Rank(stmt[j][1]) \in 1 .. 4
            BY <2>4
          <5> QED
            BY <3>2, <4>1, <5>1
        <4> QED
          BY <2>4, <3>2, <4>2
      <3> QED
        BY <2>7, <3>2, <3>3, <3>4, <3>5
    <2> QED
      BY <2>8, <2>9
  <1> QED
    BY <1>1, <1>2, <1>3
-----------------------------------------------------------------------------
\* The steps.

\* In whatever order the parameters come, all of them do, and those without a
\* name in the order in which they were sent.
LEMMA OrderKeeps ==
  ASSUME Received, NEW f \in Orders
  PROVE  /\ \A i \in DOMAIN sent : f[i] \in DOMAIN sent
         /\ \A k \in DOMAIN sent : \E i \in DOMAIN sent : f[i] = k
         /\ \A i \in DOMAIN sent : Target(sent[f[i]].name, i) = Place(f[i])
  <1>1. CASE route = "rqlite" /\ sent # <<>> /\ sent[1].name # Nameless
    <2>1. f \in [DOMAIN sent -> DOMAIN sent]
          /\ \A k \in DOMAIN sent : \E i \in DOMAIN sent : f[i] = k
      BY <1>1 DEF Orders, Bijection, Surjection
    <2>2. ASSUME NEW i \in DOMAIN sent PROVE 1 \in DOMAIN sent
      BY DEF Received
    <2>3. \A k \in DOMAIN sent : sent[k].name # Nameless
      BY <1>1, <2>2 DEF Received
    <2> QED
      BY <2>1, <2>3 DEF Place, Target
  <1>2. CASE ~(route = "rqlite" /\ sent # <<>> /\ sent[1].name # Nameless)
    <2>1. f = [i \in DOMAIN sent |-> i]
      BY <1>2 DEF Orders
    <2> QED
      BY <2>1 DEF Place
  <1> QED
    BY <1>1, <1>2

\* What depends on the request only.
LEMMA SameRequest ==
  ASSUME UNCHANGED <<route, stmt, sent, blobArray>>
  PROVE  /\ Received' = Received /\ Orders' = Orders
         /\ \A k : Place(k)' = Place(k)
         /\ \A name, i : Meant(name, i)' = Meant(name, i)
         /\ \A v : Encoded(v)' = Encoded(v)
  BY DEF Received, Orders, Place, Target, BindParameterIndexSafe, BindParameterIndex, Meant, Encoded

\* Receive lets in what Received says.
LEMMA ReceiveStep == ASSUME ValuesInv, Receive PROVE ValuesInv'
  <1>1. PICK n \in 0 .. MaxParams, s \in Statements : \E names \in [1 .. n -> Names] :
          \/ /\ \E vs \in [1 .. n -> VDLValues] :
                   sent' = [i \in 1 .. n |-> [name |-> names[i], value |-> <<"vdl", vs[i]>>]]
             /\ route' = "rpc" /\ stmt' = s /\ UNCHANGED blobArray
          \/ /\ \/ \A i \in 1 .. n : names[i] = Nameless
                \/ /\ \A i \in 1 .. n : names[i] # Nameless
                   /\ \A i, k \in 1 .. n : names[i] = names[k] => i = k
             /\ \E vs \in [1 .. n -> JSONValues] :
                   sent' = [i \in 1 .. n |-> [name |-> names[i], value |-> <<"json", vs[i]>>]]
             /\ blobArray' \in BOOLEAN
             /\ route' = "rqlite" /\ stmt' = s
    BY DEF Receive
  <1>2. phase' = "received" /\ next' = 1 /\ n \in Nat
    <2>1. phase' = "received" /\ phase = "new" /\ UNCHANGED next
      BY DEF Receive
    <2>2. MaxParams \in Nat
      BY ValuesAssumption
    <2> QED
      BY <1>1, <2>1, <2>2 DEF ValuesInv
  <1>3. stmt' \in Statements
    BY <1>1
  <1>4. Received'
    <2>1. PICK names \in [1 .. n -> Names] :
          \/ /\ \E vs \in [1 .. n -> VDLValues] :
                   sent' = [i \in 1 .. n |-> [name |-> names[i], value |-> <<"vdl", vs[i]>>]]
             /\ route' = "rpc"
          \/ /\ \/ \A i \in 1 .. n : names[i] = Nameless
                \/ \A i \in 1 .. n : names[i] # Nameless
             /\ \E vs \in [1 .. n -> JSONValues] :
                   sent' = [i \in 1 .. n |-> [name |-> names[i], value |-> <<"json", vs[i]>>]]
             /\ route' = "rqlite"
      BY <1>1
    <2>2. CASE route' = "rpc"
      <3>1. PICK vs \in [1 .. n -> VDLValues] :
               sent' = [i \in 1 .. n |-> [name |-> names[i], value |-> <<"vdl", vs[i]>>]]
        BY <2>1, <2>2
      <3>2. DOMAIN sent' = 1 .. n /\ Len(sent') = n
        BY <1>2, <3>1
      <3>3. \A i \in 1 .. n : sent'[i].name \in Names /\ sent'[i].value \in {"vdl"} \X VDLValues
        BY <3>1
      <3> QED
        BY <1>2, <1>3, <2>2, <3>2, <3>3 DEF Received
    <2>3. CASE route' = "rqlite"
      <3>1. PICK vs \in [1 .. n -> JSONValues] :
               sent' = [i \in 1 .. n |-> [name |-> names[i], value |-> <<"json", vs[i]>>]]
        BY <2>1, <2>3
      <3>2. DOMAIN sent' = 1 .. n /\ Len(sent') = n
        BY <1>2, <3>1
      <3>3. \A i \in 1 .. n : sent'[i].name \in Names /\ sent'[i].value \in {"json"} \X JSONValues
        BY <3>1
      <3>4. \A i, k \in 1 .. n : sent'[i].name = Nameless => sent'[k].name = Nameless
        BY <2>1, <2>3, <3>1
      <3> QED
        BY <1>2, <1>3, <2>3, <3>2, <3>3, <3>4 DEF Received
    <2> QED
      BY <2>1, <2>2, <2>3
  <1> QED
    BY <1>2, <1>3, <1>4 DEF ValuesInv

\* Convert refuses only what means nothing, and starts with empty slots.
LEMMA ConvertStep == ASSUME ValuesInv, Convert PROVE ValuesInv'
  <1>0. /\ Received /\ phase = "received" /\ next' = 1 /\ stmt \in Statements
        /\ UNCHANGED <<route, stmt, sent, blobArray>>
    BY DEF Convert, ValuesInv
  <1>1. PICK f \in Orders :
          params' = [i \in DOMAIN sent |->
             [name |-> sent[f[i]].name, value |-> Converted(route, sent[f[i]].value)]]
    BY DEF Convert
  <1>2. Received' /\ f \in Orders' /\ \A k : Place(k)' = Place(k)
    BY <1>0, <1>1, SameRequest
  <1>3. \A i \in DOMAIN sent :
           params'[i].value = Error <=> Meaning(sent[f[i]].value) = Error
    <2> SUFFICES ASSUME NEW i \in DOMAIN sent
                 PROVE  params'[i].value = Error <=> Meaning(sent[f[i]].value) = Error
      OBVIOUS
    <2>1. f[i] \in DOMAIN sent
      BY <1>0, OrderKeeps
    <2>2. params'[i].value = Converted(route, sent[f[i]].value)
      BY <1>1
    <2> QED
      BY <1>0, <2>1, <2>2, SentConverted, BetweenErrors
  <1>4. DOMAIN params' = DOMAIN sent
    BY <1>1
  <1>5. CASE \E i \in DOMAIN sent : params'[i].value = Error
    <2>1. phase' = "refused"
      BY <1>4, <1>5 DEF Convert
    <2>2. \E k \in DOMAIN sent : Meaning(sent[k].value) = Error
      BY <1>0, <1>3, <1>5, OrderKeeps
    <2>3. \E k \in DOMAIN sent' : Meaning(sent'[k].value) = Error
      BY <1>0, <2>2
    <2> QED
      BY <1>2, <2>1, <2>3 DEF ValuesInv
  <1>6. CASE \A i \in DOMAIN sent : params'[i].value # Error
    <2>1. phase' = "bind" /\ slots' = [j \in DOMAIN stmt |-> Null]
      BY <1>4, <1>6 DEF Convert
    <2>2. \A i \in DOMAIN sent : ~(i < 1)
      BY <1>0 DEF Received
    <2>3. BoundInOrder(f)'
      BY <1>0, <1>1, <1>6, <2>1, <2>2 DEF BoundInOrder
    <2> QED
      BY <1>2, <2>1, <2>3 DEF ValuesInv
  <1> QED
    BY <1>5, <1>6

\* BindNext binds a parameter where it was meant to be, or it means nothing.
LEMMA BindStep == ASSUME ValuesInv, BindNext PROVE ValuesInv'
  <1>0. /\ Received /\ phase = "bind" /\ next <= Len(params)
        /\ UNCHANGED <<route, stmt, sent, blobArray, params>>
    BY DEF BindNext, ValuesInv
  <1>1. PICK f \in Orders : BoundInOrder(f)
    BY <1>0 DEF ValuesInv
  <1>2. Received' /\ f \in Orders' /\ (\A k : Place(k)' = Place(k))
        /\ \A name, i : Meant(name, i)' = Meant(name, i)
    BY <1>0, <1>1, SameRequest
  <1>3. next \in DOMAIN sent
    <2>1. DOMAIN params = 1 .. Len(sent) /\ Len(sent) \in Nat
      BY <1>0, <1>1 DEF BoundInOrder, Received
    <2>2. Len(params) = Len(sent)
      BY <1>0, <1>1, <2>1 DEF BoundInOrder
    <2> QED
      BY <1>0, <1>1, <2>2 DEF BoundInOrder, Received
  <1>4. params[next].name = sent[f[next]].name /\ f[next] \in DOMAIN sent
    BY <1>0, <1>1, <1>3, OrderKeeps DEF BoundInOrder
  <1>5. Target(params[next].name, next) = Place(f[next])
    BY <1>0, <1>3, <1>4, OrderKeeps
  <1>6. stmt \in Statements
    BY <1>1 DEF BoundInOrder
  <1>7. CASE Place(f[next]) \in DOMAIN stmt
    <2> DEFINE p == Place(f[next])
    <2>1. /\ slots' = [slots EXCEPT ![p] = BindDynamic(params[next].value)]
          /\ next' = next + 1 /\ phase' = "bind"
      BY <1>0, <1>5, <1>7 DEF BindNext
    <2>2. /\ DOMAIN slots = DOMAIN stmt /\ next \in Nat \ {0}
          /\ \A i \in DOMAIN sent : i < next => Place(f[i]) \in DOMAIN stmt
          /\ \A j \in DOMAIN stmt :
               \/ slots[j] = Null /\ \A i \in DOMAIN sent : i < next => Place(f[i]) # j
               \/ \E i \in DOMAIN sent :
                    i < next /\ Place(f[i]) = j /\ slots[j] = BindDynamic(params[i].value)
      BY <1>1 DEF BoundInOrder
    <2>3. \A i \in DOMAIN sent : i < next' <=> i < next \/ i = next
      BY <1>0, <2>1, <2>2 DEF Received
    <2> HIDE DEF p
    <2>4. /\ DOMAIN slots' = DOMAIN stmt /\ slots'[p] = BindDynamic(params[next].value)
          /\ \A j \in DOMAIN stmt : j # p => slots'[j] = slots[j]
      BY <1>7, <2>1, <2>2 DEF p
    <2>5. ASSUME NEW j \in DOMAIN stmt
          PROVE  \/ slots'[j] = Null /\ \A i \in DOMAIN sent : i < next' => Place(f[i]) # j
                 \/ \E i \in DOMAIN sent :
                      i < next' /\ Place(f[i]) = j /\ slots'[j] = BindDynamic(params[i].value)
      <3>1. CASE j = p
        <4>1. next < next' /\ Place(f[next]) = j /\ slots'[j] = BindDynamic(params[next].value)
          BY <1>3, <2>3, <2>4, <3>1 DEF p
        <4> QED
          BY <1>3, <4>1
      <3>2. CASE j # p
        BY <2>2, <2>3, <2>4, <3>2 DEF p
      <3> QED
        BY <3>1, <3>2
    <2>6. \A i \in DOMAIN sent : i < next' => Place(f[i]) \in DOMAIN stmt
      BY <1>7, <2>2, <2>3
    <2>7. BoundInOrder(f)'
      <3>1. /\ params = [i \in DOMAIN sent |->
                 [name |-> sent[f[i]].name, value |-> Converted(route, sent[f[i]].value)]]
            /\ \A i \in DOMAIN sent : params[i].value # Error
        BY <1>1 DEF BoundInOrder
      <3>2. next' \in Nat \ {0}
        BY <2>1, <2>2
      <3> QED
        BY <1>0, <1>2, <1>6, <2>4, <2>5, <2>6, <3>1, <3>2 DEF BoundInOrder
    <2> QED
      BY <1>2, <2>1, <2>7 DEF ValuesInv
  <1>8. CASE Place(f[next]) \notin DOMAIN stmt
    <2> DEFINE k == f[next]
    <2>1. phase' = "refused"
      BY <1>5, <1>8 DEF BindNext
    <2>2. Meant(sent[k].name, k) = {Place(k)} \cap DOMAIN stmt
      BY <1>0, <1>4, <1>6, TargetIsMeant DEF Place, Received
    <2>3. Meant(sent[k].name, k) = {}
      BY <1>8, <2>2
    <2>4. \E i \in DOMAIN sent' :
            Meaning(sent'[i].value) = Error \/ (Meant(sent[i].name, i) = {})'
      BY <1>0, <1>2, <1>4, <2>3
    <2> QED
      BY <1>2, <2>1, <2>4 DEF ValuesInv
  <1> QED
    BY <1>7, <1>8

\* Fetch encodes what the slots hold.
LEMMA FetchStep == ASSUME ValuesInv, Fetch PROVE ValuesInv'
  <1>0. /\ Received /\ phase = "bind" /\ phase' = "answered" /\ next > Len(params)
        /\ UNCHANGED <<route, stmt, sent, blobArray, params, slots, next>>
        /\ row' = [j \in DOMAIN slots |-> Encoded(slots[j])]
    BY DEF Fetch, ValuesInv
  <1>1. PICK f \in Orders : BoundInOrder(f)
    BY <1>0 DEF ValuesInv
  <1>2. Received' /\ f \in Orders' /\ (\A k : Place(k)' = Place(k))
        /\ \A v : Encoded(v)' = Encoded(v)
    BY <1>0, <1>1, SameRequest
  <1>3. BoundInOrder(f)'
    BY <1>0, <1>1, <1>2 DEF BoundInOrder
  <1>4. (next > Len(params) /\ row = [j \in DOMAIN slots |-> Encoded(slots[j])])'
    BY <1>0, <1>2
  <1> QED
    BY <1>0, <1>2, <1>3, <1>4 DEF ValuesInv

\* ValuesInv holds in every reachable state of Values: parameters are converted
\* in some order, and each slot holds one that was meant for it.
THEOREM BindDiscipline == Spec => []ValuesInv
  <1>1. Init => ValuesInv
    BY DEF Init, ValuesInv, Received
  <1>2. ValuesInv /\ [Next]_vars => ValuesInv'
    <2> SUFFICES ASSUME ValuesInv, [Next]_vars PROVE ValuesInv'
      OBVIOUS
    <2>1. CASE UNCHANGED vars
      <3>1. UNCHANGED <<phase, route, stmt, sent, params, slots, next, blobArray, row>>
        BY <2>1 DEF vars
      <3>2. /\ Received' = Received /\ Orders' = Orders
            /\ (\A k : Place(k)' = Place(k)) /\ (\A name, i : Meant(name, i)' = Meant(name, i))
            /\ \A v : Encoded(v)' = Encoded(v)
        BY <3>1, SameRequest
      <3>3. \A f : BoundInOrder(f)' = BoundInOrder(f)
        BY <3>1, <3>2 DEF BoundInOrder
      <3> QED
        BY <3>1, <3>2, <3>3 DEF ValuesInv
    <2> QED
      BY <2>1, ReceiveStep, ConvertStep, BindStep, FetchStep DEF Next, Over
  <1> QED
    BY <1>1, <1>2, PTL DEF Spec

\* What the parameters sent mean, once all of them are bound.
LEMMA AllBound ==
  ASSUME ValuesInv, phase = "answered"
  PROVE  /\ Received /\ stmt \in Statements
         /\ \A k \in DOMAIN sent : /\ Meaning(sent[k].value) # Error
                                   /\ Meant(sent[k].name, k) = {Place(k)}
                                   /\ Place(k) \in DOMAIN stmt
         /\ row = [j \in DOMAIN stmt |-> Encoded(slots[j])]
         /\ \A j \in DOMAIN stmt :
              \/ slots[j] = Null /\ \A k \in DOMAIN sent : Place(k) # j
              \/ \E k \in DOMAIN sent :
                   Place(k) = j /\ slots[j] = BindDynamic(Converted(route, sent[k].value))
  <1>1. PICK f \in Orders : BoundInOrder(f)
    BY DEF ValuesInv
  <1>2. /\ Received /\ stmt \in Statements /\ next > Len(params)
        /\ row = [j \in DOMAIN stmt |-> Encoded(slots[j])]
    BY <1>1 DEF ValuesInv, BoundInOrder
  <1>3. \A i \in DOMAIN sent : i < next
    <2>1. DOMAIN params = 1 .. Len(sent) /\ Len(sent) \in Nat
      BY <1>1, <1>2 DEF BoundInOrder, Received
    <2>2. Len(params) = Len(sent) /\ next \in Nat
      BY <1>1, <2>1 DEF BoundInOrder
    <2> QED
      BY <1>2, <2>2 DEF Received
  <1>4. \A i \in DOMAIN sent :
           /\ params[i].value = Converted(route, sent[f[i]].value)
           /\ Converted(route, sent[f[i]].value) # Error
           /\ Place(f[i]) \in DOMAIN stmt
    BY <1>1, <1>3 DEF BoundInOrder
  <1>5. ASSUME NEW k \in DOMAIN sent
        PROVE  /\ Meaning(sent[k].value) # Error
               /\ Meant(sent[k].name, k) = {Place(k)}
               /\ Place(k) \in DOMAIN stmt
    <2>1. PICK i \in DOMAIN sent : f[i] = k
      BY <1>2, OrderKeeps
    <2>2. Converted(route, sent[k].value) # Error /\ Place(k) \in DOMAIN stmt
      BY <1>4, <2>1
    <2>3. Meaning(sent[k].value) # Error
      BY <1>2, <2>2, SentConverted, BetweenErrors
    <2>4. Meant(sent[k].name, k) = {Place(k)} \cap DOMAIN stmt
      BY <1>2, TargetIsMeant DEF Place, Received
    <2> QED
      BY <2>2, <2>3, <2>4
  <1>6. ASSUME NEW j \in DOMAIN stmt
        PROVE  \/ slots[j] = Null /\ \A k \in DOMAIN sent : Place(k) # j
               \/ \E k \in DOMAIN sent :
                    Place(k) = j /\ slots[j] = BindDynamic(Converted(route, sent[k].value))
    <2>1. CASE slots[j] = Null /\ \A i \in DOMAIN sent : Place(f[i]) # j
      BY <1>2, <2>1, OrderKeeps
    <2>2. CASE \E i \in DOMAIN sent : Place(f[i]) = j /\ slots[j] = BindDynamic(params[i].value)
      BY <1>2, <1>4, <2>2, OrderKeeps
    <2> QED
      BY <1>1, <1>3, <2>1, <2>2 DEF BoundInOrder
  <1> QED
    BY <1>2, <1>5, <1>6

\* A request is refused exactly when one of its values means nothing or one of
\* its parameters means none of the statement, in whatever order Go ranges over
\* them.
THEOREM RefusesExactlyBad == Spec => []RefusedExactlyBad
  <1>1. ValuesInv => RefusedExactlyBad
    <2> SUFFICES ASSUME ValuesInv, phase \in {"answered", "refused"} PROVE RefusedExactlyBad
      BY DEF RefusedExactlyBad
    <2>1. CASE phase = "refused"
      BY <2>1 DEF ValuesInv, RefusedExactlyBad
    <2>2. CASE phase = "answered"
      <3>1. \A k \in DOMAIN sent : Meaning(sent[k].value) # Error /\ Meant(sent[k].name, k) # {}
        BY <2>2, AllBound
      <3> QED
        BY <2>2, <3>1 DEF RefusedExactlyBad
    <2> QED
      BY <2>1, <2>2
  <1> QED
    BY <1>1, BindDiscipline, PTL

\* A parameter that is sent once comes back as it was meant, by name or by
\* position and on either API, if it is an integer of 32 bits, a real, a text
\* without NUL, a blob with contents or NULL; one that is not sent is NULL.
THEOREM ParametersComeBack == Spec => []RoundTrip
  <1>1. ValuesInv => RoundTrip
    <2> SUFFICES ASSUME ValuesInv, phase = "answered", NEW j \in DOMAIN stmt
                 PROVE  /\ SentFor(j) = {} => Shown(row[j]) = Null
                        /\ \A i \in SentFor(j) :
                             SentFor(j) = {i} /\ Preserved(Meaning(sent[i].value)) =>
                                Shown(row[j]) = Meaning(sent[i].value)
      BY DEF RoundTrip, RoundTripOf
    <2>1. SentFor(j) = {k \in DOMAIN sent : Place(k) = j} /\ row[j] = Encoded(slots[j])
      BY AllBound DEF SentFor
    <2>2. Received
      BY AllBound
    <2>3. ASSUME SentFor(j) = {} PROVE Shown(row[j]) = Null
      <3>1. slots[j] = Null
        BY <2>1, <2>3, AllBound
      <3>2. Between(Null, Null) /\ Null # Error /\ Preserved(Null) /\ BindDynamic(Null) = Null
        BY DEF Between, Null, Error, Preserved, BindDynamic
      <3> QED
        BY <2>1, <2>2, <3>1, <3>2, ShownAsMeant
    <2>4. ASSUME NEW i \in SentFor(j), SentFor(j) = {i}, Preserved(Meaning(sent[i].value))
          PROVE  Shown(row[j]) = Meaning(sent[i].value)
      <3>1. i \in DOMAIN sent /\ \A k \in DOMAIN sent : Place(k) = j => k = i
        BY <2>1, <2>4
      <3>2. slots[j] = BindDynamic(Converted(route, sent[i].value))
        BY <2>1, <2>4, <3>1, AllBound
      <3>3. Meaning(sent[i].value) # Error
        BY <3>1, AllBound
      <3>4. Between(Meaning(sent[i].value), Converted(route, sent[i].value))
        BY <2>2, <3>1, SentConverted
      <3> QED
        BY <2>1, <2>2, <2>4, <3>2, <3>3, <3>4, ShownAsMeant
    <2> QED
      BY <2>3, <2>4
  <1> QED
    BY <1>1, BindDiscipline, PTL
=============================================================================
