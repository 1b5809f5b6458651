----------------------------- MODULE MCProcess ------------------------------
(***************************************************************************)
(* Environments and command lines for Process.  Everything that can be     *)
(* wrong with the settings of the replica and with the configuration is    *)
(* there, one thing at a time; the directory varies where a replica runs.  *)
(***************************************************************************)
EXTENDS Process, TLC

Replica == [key \in Required \cup {"enabled"} |->
    IF key = "enabled" THEN <<" ", "true">> ELSE <<" ", key>>]

With(e, key, value) == (key :> value) @@ e

SomeEnvironments ==
    {<<>>, [enabled |-> <<"off">>], [enabled |-> <<"maybe">>], [maxReadConns |-> 0],
     [busyTimeout |-> 0], [busyTimeout |-> 500],
     [txIdleTimeout |-> 0], [listenPort |-> "invalid"], Replica}
    \cup {With(Replica, key, <<" ">>) : key \in Required}
    \cup {With(Replica, "dataDir", dir) :
            dir \in {<<"/", "d1">>, <<"/", "d1", "/", "/">>, <<"/">>, <<" ", "/", "d1">>}}
    \cup {With(With(Replica, "AWS_ACCESS_KEY_ID", <<"other">>), "session", <<"token">>),
          With(Replica, "AWS_SESSION_TOKEN", <<"stale">>),
          With(With(Replica, "AWS_SESSION_TOKEN", <<"stale">>), "session", <<"token">>)}

SomeFlags == {<<>>, [dataDir |-> <<"/", "d2">>], [cacheSizeKB |-> -1]}

\* Every action alone, and a read together with each.
SomeStatements == {{a} : a \in Actions} \cup {{<<"read", "any">>, a} : a \in Actions}
=============================================================================
