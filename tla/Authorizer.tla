----------------------------- MODULE Authorizer -----------------------------
(***************************************************************************)
(* The statement authorizer that NSQLite installs on every SQLite          *)
(* connection (internal/sqlite/sqlite.c).  SQLite calls it once for each   *)
(* action a statement needs, while the statement is being PREPARED; one    *)
(* denial makes the whole prepare fail.                                    *)
(*                                                                         *)
(* Names are abstracted to the classes the code tells apart: a table is    *)
(* internal (its name starts with "sqlite_") or not, a function is on the  *)
(* allow list or not, and a pragma is an introspection pragma, a stateless *)
(* one called with or without an argument, or any other.                   *)
(***************************************************************************)
EXTENDS FiniteSets

\* The three values of cust_authorizer_ctx.role.
Roles == {"admin", "rw", "ro"}

\* What a statement can be asked for: an action code and the class of the
\* name that comes with it.
TableActions == {"insert", "update", "delete"} \X {"user", "internal"}
FunctionActions == {"function"} \X {"allowed", "unlisted"}
PragmaActions ==
    {"pragma"} \X {"introspection", "statelessGet", "statelessSet", "other"}
PlainActions ==
    {"select", "read", "recursive", "transaction", "savepoint",
     "createTable", "dropTable", "alterTable", "attach", "detach"} \X {"any"}
Actions == TableActions \cup FunctionActions \cup PragmaActions \cup PlainActions

IsInternalTable(arg) == arg = "internal"

IsAllowedFunction(arg) == arg = "allowed"

\* Mutant: the argument of a stateless pragma is not looked at.
AnyListedPragma(arg) == arg # "other"

\* Introspection pragmas whatever their argument, stateless ones only when
\* they are called without one: an argument would be an assignment.
IsReadonlyPragma(arg) == arg \in {"introspection", "statelessGet"}

\* The cases shared by the read-write and the read-only role.
ReadAction(a) ==
    \/ a[1] \in {"select", "read", "recursive"}
    \/ a[1] = "function" /\ IsAllowedFunction(a[2])
    \/ a[1] = "pragma" /\ IsReadonlyPragma(a[2])

\* TRUE for SQLITE_OK, FALSE for SQLITE_DENY.
Authorize(role, a) ==
    \/ role = "admin"
    \/ /\ role = "rw"
       /\ \/ ReadAction(a)
          \/ a[1] \in {"transaction", "savepoint"}
          \/ a[1] \in {"insert", "update", "delete"} /\ ~IsInternalTable(a[2])
    \/ role = "ro" /\ ReadAction(a)

\* A statement is prepared only if every action it needs is authorized.
Permits(role, actions) == \A a \in actions : Authorize(role, a)
=============================================================================
