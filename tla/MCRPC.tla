------------------------------- MODULE MCRPC --------------------------------
(***************************************************************************)
(* Bodies for RPC: batches of at most two queries, well formed or with one *)
(* defect at each depth.                                                   *)
(***************************************************************************)
EXTENDS RPC, TLC

Ask(k) == Object([query |-> Text(k)])
AskWith(params) == Object([query |-> Text("insert"), params |-> params])
Param(value) == Object([value |-> Object(value)])

GoodQueries ==
    {Ask(k) : k \in Kinds \cup {""}}
    \cup {Object([query |-> Text("insert"), txId |-> t]) : t \in {Null, Text("id")}}
    \cup {Object([query |-> Text(k), txId |-> Text("id")]) : k \in Control}
    \cup {AskWith(Null), AskWith(List(<<>>)),
          AskWith(List(<<Param([integer |-> <<"int", 1>>])>>)),
          AskWith(List(<<Param([null |-> <<"bool", FALSE>>])>>)),
          AskWith(List(<<Param(<<>>)>>))}

BadQueries ==
    {Null, Text("insert"), Object(<<>>), Object([query |-> Null]),
     Object([query |-> <<"int", 1>>]),
     Object([query |-> Text("insert"), txId |-> <<"int", 1>>]),
     AskWith(List(<<Null>>)), AskWith(List(<<Param([integer |-> <<"int", 1>>]), Object(<<>>)>>)),
     AskWith(List(<<Object([value |-> Null])>>)), AskWith(Object(<<>>)),
     AskWith(List(<<Param([integer |-> Text("1")])>>))}

Queries == GoodQueries \cup BadQueries

FirstQueries == {Ask(k) : k \in {"insert", "insertTwo", "create", "begin", "infinite", ""}}

Batch(s) == Object([queries |-> List(s)])

SomeBodies ==
    {NotJSON, List(<<>>), Object(<<>>), Object([queries |-> Null]), Object([queries |-> Text("q")])}
    \cup {Batch(s) : s \in {<<>>} \cup {<<a>> : a \in Queries}
                           \cup {<<a, b>> : a \in FirstQueries, b \in Queries}}
=============================================================================
