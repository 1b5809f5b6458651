------------------------------- MODULE Server -------------------------------
(***************************************************************************)
(* The HTTP server of NSQLite (internal/server): authentication with its   *)
(* token cache, the RPC procedures, and the rqlite-compatible endpoints    *)
(* with their "transaction" parameter.                                     *)
(*                                                                         *)
(* A request is served once, by its own goroutine.  DB.Query is one step   *)
(* of TxStore (DBRefinement), but for what TxStore does not tell: a BEGIN  *)
(* stores the owner of its transaction in a step of its own, and SQLite    *)
(* may leave the transaction by itself while the manager still has its id. *)
(* The i-th statement of r has the token <<r, i>> for the row it writes    *)
(* and for the transaction it begins; <<r, 0>> is the transaction that the *)
(* server begins for r.                                                    *)
(***************************************************************************)
EXTENDS Integers, Sequences, FiniteSets, Authorizer

CONSTANTS
    Requests,     \* HTTP requests
    Secrets,      \* what clients present as a token
    AuthTokens,   \* sequence of [role, value]: admin, read-write, read-only
    Routes,       \* a subset of AllRoutes
    Scripts,      \* statement lists that clients send
    MaxScript,    \* bound on the length of a script
    Cancellable,  \* bound: requests whose client may disconnect
    None          \* the empty string

RQLite == {"query", "execute", "request"}
Handled == RQLite \cup {"rpc"}   \* the routes that run statements, and are counted
AllRoutes == Handled \cup {"status", "session", "health"}

\* Statements; "empty" is refused before it reaches the manager, "failRollback"
\* is a write that fails and makes SQLite roll back (INSERT OR ROLLBACK).
StatementKinds == {"begin", "commit", "rollback", "read", "write", "failRollback", "empty"}

ASSUME ServerAssumption ==
    /\ Routes \subseteq AllRoutes
    /\ DOMAIN AuthTokens \subseteq Nat
    /\ \A i \in DOMAIN AuthTokens : AuthTokens[i].role \in Roles
    /\ MaxScript \in Nat
    /\ \A s \in Scripts : s \in Seq(StatementKinds) /\ Len(s) <= MaxScript
    /\ Cancellable \subseteq Requests
    /\ None \notin Requests \cup Secrets \cup (Requests \X Nat)

VARIABLES
    st,          \* [Requests -> States], where the handler is
    req,         \* [Requests -> what the client sent]
    role,        \* [Requests -> Roles], requestProps.Role
    principal,   \* [Requests -> Secrets or None], requestProps.Principal
    txId,        \* [Requests -> the transaction begun for the request, or None]
    results,     \* [Requests -> Seq of booleans], the results without error
    cache,       \* [Secrets -> Roles or None], authTokenCache
    httpRequests, queuedHTTPRequests,
    cancelled,   \* requests whose client is gone
    \* the manager
    store, open, buf, done, \* the variables of TxStore; open: SQLite's transaction
    dbTxID,      \* db.txID, the transaction of the manager
    owner,       \* db.txOwner
    begun,       \* [Requests -> the transaction whose owner BEGIN has not stored yet, or None]
    \* history, read by no action but Arrive
    known,       \* transaction ids in answers to clients
    wrote,       \* <<row, transaction>> of the writes in transactions
    stray        \* <<r, t>>: the BEGIN of r replaced the owner of t

managerVars == <<store, open, buf, done, dbTxID, owner, begun, wrote, stray>>
authVars == <<role, principal, cache>>
vars == <<st, req, authVars, txId, results, httpRequests, queuedHTTPRequests,
          cancelled, managerVars, known>>

TokenIds == Requests \X (0 .. MaxScript)

Store == INSTANCE TxStore WITH Ids <- TokenIds, Rows <- TokenIds, NoId <- None

authIsDisabled == AuthTokens = <<>>
-----------------------------------------------------------------------------
\* DB.Query.

Writes == {"write", "failRollback"}

\* What the authorizer is asked for a statement.
Needs(k) ==
    IF k = "read" THEN {<<"select", "any">>}
    ELSE IF k \in Writes THEN {<<"insert", "user">>}
    ELSE {<<"transaction", "any">>}

\* The statement names no transaction, or the current one of its own principal.
TxValid(r, id) ==
    id # None => dbTxID = id /\ (principal[r] # None => principal[r] = owner)

\* BEGIN and plain writes wait for the current transaction, whatever their fate.
Waits(k, id) == k \in Writes \cup {"begin"} /\ id = None /\ dbTxID # None

Accepted(r, k, id) ==
    /\ k # "empty" /\ r \notin cancelled
    /\ Permits(role[r], Needs(k)) /\ TxValid(r, id)
    /\ k = "begin" => id = None
    /\ k \in {"commit", "rollback"} => id # None

\* The manager forgets the transaction that SQLite has ended.
ClearTx == dbTxID' = None /\ owner' = None /\ UNCHANGED <<begun, wrote, stray>>

\* The effect of a statement that succeeds.
Effect(r, k, id, i) ==
    \/ k = "read" /\ UNCHANGED managerVars
    \/ /\ k = "write"
       /\ IF open = None THEN Store!PlainWrite(<<r, i>>) ELSE Store!TxWrite(<<r, i>>)
       /\ wrote' = IF id = None THEN wrote ELSE wrote \cup {<<<<r, i>>, id>>}
       /\ UNCHANGED <<dbTxID, owner, begun, stray>>
    \/ /\ k = "begin"
       /\ Store!Begin(<<r, i>>)
       /\ dbTxID' = <<r, i>>
       /\ begun' = [begun EXCEPT ![r] = <<r, i>>]
       /\ UNCHANGED <<owner, wrote, stray>>
    \/ k = "commit" /\ Store!Commit /\ ClearTx
    \/ k = "rollback" /\ Store!Rollback /\ ClearTx

\* The effect of one that SQLite refuses: a read or a write (a constraint), a
\* COMMIT (a deferred constraint), and a COMMIT or ROLLBACK without transaction.
\* The manager keeps its id and its lock, also when SQLite has rolled back.
Failure(k) ==
    \/ k \in {"read", "write", "commit"} /\ UNCHANGED managerVars
    \/ k \in {"failRollback", "rollback"} /\ open = None /\ UNCHANGED managerVars
    \/ k = "failRollback" /\ Store!Rollback /\ UNCHANGED <<dbTxID, owner, begun, wrote, stray>>

\* executeRequestQuery: "empty" is answered without the manager.
executeRequestQuery(r, k, id, i, ok) ==
    /\ k # "empty" => ~Waits(k, id)
    /\ \/ ok /\ Accepted(r, k, id) /\ Effect(r, k, id, i)
       \/ ~ok /\ Accepted(r, k, id) /\ Failure(k)
       \/ ~ok /\ ~Accepted(r, k, id) /\ UNCHANGED managerVars

\* The transaction of the manager, its owner stored by its own BEGIN.
Published == dbTxID # None /\ begun[dbTxID[1]] # dbTxID

\* BEGIN stores the owner, of whatever transaction the manager has by now.
PublishOwner(r) ==
    /\ begun[r] # None
    /\ owner' = principal[r]
    /\ begun' = [begun EXCEPT ![r] = None]
    /\ stray' = IF Published THEN stray \cup {<<r, dbTxID>>} ELSE stray
    /\ UNCHANGED <<st, req, authVars, txId, results, httpRequests, queuedHTTPRequests,
                   cancelled, known, store, open, buf, done, dbTxID, wrote>>

\* The idle monitor of the manager; its ROLLBACK fails, and changes nothing,
\* when SQLite has left the transaction.
IdleTimeout ==
    /\ Store!Rollback /\ ClearTx
    /\ UNCHANGED <<st, req, authVars, txId, results, httpRequests, queuedHTTPRequests,
                   cancelled, known>>
-----------------------------------------------------------------------------
\* Authentication.

\* The token in the request: Bearer everywhere, Basic on the rqlite routes only
\* (elsewhere the header itself is taken for a token, which none is).
Presented(q) ==
    IF q.scheme = "basic" /\ q.route \notin RQLite THEN None ELSE q.secret

\* checkAuthToken over the configured tokens: admin ones come first.
Matches(s) == {i \in DOMAIN AuthTokens : AuthTokens[i].value = s}
FirstMatch(s) == AuthTokens[CHOOSE i \in Matches(s) : \A j \in Matches(s) : i <= j].role

\* Unauthorized, Forbidden or Bad Request.
Refuse(r) ==
    /\ st' = [st EXCEPT ![r] = "refused"]
    /\ UNCHANGED <<role, principal, results, httpRequests, queuedHTTPRequests>>

\* Mutant: /db/query keeps the role of its token.
RouteRoleKept(route, rl) == rl

\* /db/query only reads, whatever its token allows.
RouteRole(route, rl) == IF route = "query" THEN "ro" ELSE rl

\* Mutant: the principal gets lost.
AdmitAnonymous(r, rl, pr) ==
    /\ role' = [role EXCEPT ![r] = RouteRole(req[r].route, rl)]
    /\ UNCHANGED principal
    /\ httpRequests' = httpRequests + 1
    /\ queuedHTTPRequests' = queuedHTTPRequests + 1
    /\ st' = [st EXCEPT ![r] =
          IF req[r].transaction /\ req[r].script # <<>> THEN "begin" ELSE "run"]
    /\ UNCHANGED results

\* requestProps, the counters, and where the handler goes on.
Admit(r, rl, pr) ==
    /\ role' = [role EXCEPT ![r] = RouteRole(req[r].route, rl)]
    /\ principal' = [principal EXCEPT ![r] = pr]
    /\ httpRequests' = httpRequests + 1
    /\ queuedHTTPRequests' = queuedHTTPRequests + 1
    /\ st' = [st EXCEPT ![r] =
          IF req[r].transaction /\ req[r].script # <<>> THEN "begin" ELSE "run"]
    /\ UNCHANGED results

\* The request is authenticated: refused, answered, or handed to its loop.  A
\* body that cannot be decoded is refused before the counters on the rqlite
\* routes, and after them, by the RPC layer, on the RPC route.
Authorized(r, rl, pr) ==
    \/ req[r].route = "status" /\ rl # "admin" /\ Refuse(r)
    \/ req[r].route \in RQLite /\ req[r].malformed /\ Refuse(r)
    \/ /\ req[r].route = "session" \/ (req[r].route = "status" /\ rl = "admin")
       /\ st' = [st EXCEPT ![r] = "done"]
       /\ UNCHANGED <<role, principal, results, httpRequests, queuedHTTPRequests>>
    \/ /\ req[r].route = "rpc" \/ (req[r].route \in RQLite /\ ~req[r].malformed)
       /\ Admit(r, rl, pr)

\* What a client can send: an RPC request may name a transaction it was told of.
ClientRequests ==
    {q \in [route : Routes, scheme : {"bearer", "basic"}, secret : Secrets \cup {None},
            script : Scripts, transaction : BOOLEAN, malformed : BOOLEAN,
            txId : known \cup {None}] :
        /\ q.route \notin RQLite => ~q.transaction
        /\ q.route # "rpc" => q.txId = None
        /\ q.route \notin Handled => ~q.malformed
        /\ (q.route \notin Handled \/ q.malformed) => q.script = <<>>}

Arrive(r) ==
    /\ st[r] = "new"
    /\ \E q \in ClientRequests :
          /\ req' = [req EXCEPT ![r] = q]
          /\ st' = [st EXCEPT ![r] = IF q.route = "health" THEN "done" ELSE "auth"]
    /\ UNCHANGED <<authVars, txId, results, httpRequests, queuedHTTPRequests,
                   cancelled, managerVars, known>>

\* authenticateRequest, authorizeRQLiteRequest: the token is in the cache ...
Authenticate(r) ==
    /\ st[r] = "auth"
    /\ LET s == Presented(req[r]) IN
       \/ authIsDisabled /\ Authorized(r, "admin", None)
       \/ ~authIsDisabled /\ s = None /\ Refuse(r)
       \/ /\ ~authIsDisabled /\ s # None
          /\ IF cache[s] # None
             THEN Authorized(r, cache[s], s)
             ELSE /\ st' = [st EXCEPT ![r] = "scan"]
                  /\ UNCHANGED <<role, principal, results, httpRequests,
                                 queuedHTTPRequests>>
    /\ UNCHANGED <<req, cache, txId, cancelled, managerVars, known>>

\* ... or it is compared with every configured one, and remembered.
ScanTokens(r) ==
    /\ st[r] = "scan"
    /\ LET s == Presented(req[r]) IN
       \/ Matches(s) = {} /\ Refuse(r) /\ UNCHANGED cache
       \/ /\ Matches(s) # {}
          /\ cache' = [cache EXCEPT ![s] = FirstMatch(s)]
          /\ Authorized(r, FirstMatch(s), s)
    /\ UNCHANGED <<req, txId, cancelled, managerVars, known>>
-----------------------------------------------------------------------------
\* executeQueries and executeRQLiteQueries.

InHandler(r) == st[r] \in {"begin", "run", "rollback", "commit", "answer"}

\* The client goes away.
Cancel(r) ==
    /\ r \in Cancellable \ cancelled /\ InHandler(r)
    /\ cancelled' = cancelled \cup {r}
    /\ UNCHANGED <<st, req, authVars, txId, results, httpRequests, queuedHTTPRequests,
                   managerVars, known>>

BeginTx(r) ==
    /\ st[r] = "begin"
    /\ \E ok \in BOOLEAN :
          /\ executeRequestQuery(r, "begin", None, 0, ok)
          /\ txId' = [txId EXCEPT ![r] = IF ok THEN <<r, 0>> ELSE None]
          /\ results' = [results EXCEPT ![r] = IF ok THEN <<>> ELSE <<FALSE>>]
          /\ st' = [st EXCEPT ![r] = IF ok THEN "run" ELSE "answer"]
    /\ UNCHANGED <<req, authVars, httpRequests, queuedHTTPRequests, cancelled, known>>

\* The transactions that a statement of r may name: the one begun for r, if
\* there is one; else each statement of an RPC request may name one or not.
StatementTx(r) == IF txId[r] # None THEN {txId[r]} ELSE {None, req[r].txId}

\* Mutant: an error does not stop the loop of a transaction.
NextAfterKeepsGoing(r, ok) ==
    IF Len(results[r]) + 1 < Len(req[r].script) THEN "run"
    ELSE IF txId[r] # None THEN "commit" ELSE "answer"

\* Where the loop goes after a statement: without a transaction it goes on
\* after an error, with one the first error rolls it back.
NextAfter(r, ok) ==
    IF ~ok /\ txId[r] # None THEN "rollback"
    ELSE IF Len(results[r]) + 1 < Len(req[r].script) THEN "run"
    ELSE IF txId[r] # None THEN "commit" ELSE "answer"

Statement(r) ==
    /\ st[r] = "run" /\ Len(results[r]) < Len(req[r].script)
    /\ LET i == Len(results[r]) + 1 IN
       \E ok \in BOOLEAN, id \in StatementTx(r) :
          /\ executeRequestQuery(r, req[r].script[i], id, i, ok)
          /\ results' = [results EXCEPT ![r] = Append(@, ok)]
          /\ st' = [st EXCEPT ![r] = NextAfter(r, ok)]
    /\ UNCHANGED <<req, authVars, txId, httpRequests, queuedHTTPRequests, cancelled, known>>

\* Mutant: the transaction is left to the idle timeout.
RollbackForgotten(r) ==
    /\ st[r] = "rollback"
    /\ st' = [st EXCEPT ![r] = "answer"]
    /\ UNCHANGED <<req, authVars, txId, results, httpRequests, queuedHTTPRequests,
                   cancelled, managerVars, known>>

\* The outcome of the ROLLBACK is ignored.
RollbackTx(r) ==
    /\ st[r] = "rollback"
    /\ \E ok \in BOOLEAN : executeRequestQuery(r, "rollback", txId[r], 0, ok)
    /\ st' = [st EXCEPT ![r] = "answer"]
    /\ UNCHANGED <<req, authVars, txId, results, httpRequests, queuedHTTPRequests,
                   cancelled, known>>

\* A COMMIT that fails adds its error to the results, and nothing else.
CommitTx(r) ==
    /\ st[r] = "commit"
    /\ \E ok \in BOOLEAN :
          /\ executeRequestQuery(r, "commit", txId[r], 0, ok)
          /\ results' = [results EXCEPT ![r] = IF ok THEN @ ELSE Append(@, FALSE)]
    /\ st' = [st EXCEPT ![r] = "answer"]
    /\ UNCHANGED <<req, authVars, txId, httpRequests, queuedHTTPRequests, cancelled, known>>

\* Mutant: only requests without error leave the queue.
AnswerKeepsQueued(r) ==
    /\ st[r] = "answer" \/ (st[r] = "run" /\ req[r].script = <<>>)
    /\ st' = [st EXCEPT ![r] = "done"]
    /\ queuedHTTPRequests' = IF FALSE \in {results[r][i] : i \in DOMAIN results[r]}
                             THEN queuedHTTPRequests ELSE queuedHTTPRequests - 1
    /\ UNCHANGED <<req, authVars, txId, results, httpRequests, cancelled, managerVars, known>>

\* The response is written, with the ids of the transactions it began.
Answer(r) ==
    /\ st[r] = "answer" \/ (st[r] = "run" /\ req[r].script = <<>>)
    /\ st' = [st EXCEPT ![r] = "done"]
    /\ queuedHTTPRequests' = queuedHTTPRequests - 1
    /\ known' = known \cup
         {<<r, i>> : i \in {j \in DOMAIN results[r] :
                              j <= Len(req[r].script) /\ req[r].script[j] = "begin" /\ results[r][j]}}
    /\ UNCHANGED <<req, authVars, txId, results, httpRequests, cancelled, managerVars>>
-----------------------------------------------------------------------------
Init ==
    /\ st = [r \in Requests |-> "new"]
    /\ req = [r \in Requests |->
          [route |-> "health", scheme |-> "bearer", secret |-> None, script |-> <<>>,
           transaction |-> FALSE, malformed |-> FALSE, txId |-> None]]
    /\ role = [r \in Requests |-> "ro"]
    /\ principal = [r \in Requests |-> None]
    /\ txId = [r \in Requests |-> None]
    /\ results = [r \in Requests |-> <<>>]
    /\ cache = [s \in Secrets |-> None]
    /\ httpRequests = 0 /\ queuedHTTPRequests = 0
    /\ cancelled = {}
    /\ Store!Init
    /\ dbTxID = None /\ owner = None /\ begun = [r \in Requests |-> None]
    /\ known = {} /\ wrote = {} /\ stray = {}

\* The request waits for a transaction that SQLite has left: nobody ends it.
Blocked(r) ==
    /\ open = None
    /\ \/ st[r] = "begin" /\ Waits("begin", None)
       \/ /\ st[r] = "run" /\ Len(results[r]) < Len(req[r].script)
          /\ \A id \in StatementTx(r) : Waits(req[r].script[Len(results[r]) + 1], id)

\* Every request has been served, or never will be.
AllServed ==
    /\ \A r \in Requests : st[r] \in {"done", "refused"} \/ Blocked(r)
    /\ UNCHANGED vars

\* What the handler of r does once the request has arrived.
Serve(r) ==
    \/ PublishOwner(r)
    \/ /\ begun[r] = None
       /\ \/ Authenticate(r) \/ ScanTokens(r)
          \/ BeginTx(r) \/ Statement(r) \/ RollbackTx(r) \/ CommitTx(r) \/ Answer(r)

Next ==
    \/ \E r \in Requests :
          Arrive(r) \/ Cancel(r) \/ Serve(r)
    \/ IdleTimeout
    \/ AllServed

Spec == Init /\ [][Next]_vars
-----------------------------------------------------------------------------
\* The type of every variable.
TypeOK ==
    /\ st \in [Requests -> {"new", "auth", "scan", "begin", "run", "rollback", "commit",
                            "answer", "done", "refused"}]
    /\ req \in [Requests ->
                 [route : AllRoutes, scheme : {"bearer", "basic"}, secret : Secrets \cup {None},
                  script : Scripts \cup {<<>>}, transaction : BOOLEAN, malformed : BOOLEAN,
                  txId : TokenIds \cup {None}]]
    /\ role \in [Requests -> Roles]
    /\ principal \in [Requests -> Secrets \cup {None}]
    /\ txId \in [Requests -> TokenIds \cup {None}]
    /\ results \in [Requests -> Seq(BOOLEAN)]
    /\ cache \in [Secrets -> Roles \cup {None}]
    /\ httpRequests \in Int /\ queuedHTTPRequests \in Int
    /\ cancelled \subseteq Requests
    /\ store \subseteq TokenIds /\ buf \subseteq TokenIds /\ done \subseteq TokenIds
    /\ open \in TokenIds \cup {None} /\ dbTxID \in TokenIds \cup {None}
    /\ owner \in Secrets \cup {None} /\ begun \in [Requests -> TokenIds \cup {None}]
    /\ known \subseteq TokenIds /\ wrote \subseteq TokenIds \X TokenIds
    /\ stray \subseteq Requests \X TokenIds

RowsBy(r) == {<<r, i>> : i \in {j \in DOMAIN req[r].script : req[r].script[j] = "write"}}
HasError(r) == \E i \in DOMAIN results[r] : ~results[r][i]

\* A request with the transaction parameter is all or nothing, and its answer
\* tells which: all its rows are stored once it is answered without an error,
\* and none if it is answered with one or was never finished.
TransactionAllOrNothing ==
    \A r \in Requests :
        req[r].transaction =>
            /\ (st[r] = "done" /\ ~HasError(r)) => RowsBy(r) \subseteq store
            /\ (HasError(r) \/ st[r] \in {"begin", "run", "rollback", "commit"}) =>
                  RowsBy(r) \cap store = {}

\* The manager still has the transaction that the server began for an answered
\* request only if its client went away, its COMMIT failed, SQLite had left it by
\* itself (the ROLLBACK fails), or the BEGIN of another request, overtaken by the
\* idle timeout, has taken it over (the ROLLBACK is refused).
OpenOnlyAfterFailedEnd ==
    \A r \in Requests :
        (st[r] = "done" /\ txId[r] # None /\ dbTxID = txId[r]) =>
            \/ r \in cancelled
            \/ Len(results[r]) > Len(req[r].script)
            \/ open = None
            \/ \E s \in stray : s[2] = txId[r]

\* The writes under the id of a transaction come from requests with the token of
\* the one that began it, or of one whose BEGIN, overtaken by the idle timeout,
\* stored its owner over that of the transaction.
OwnTransactionOnly ==
    \A w \in wrote :
        \/ req[w[1][1]].secret = req[w[2][1]].secret
        \/ \E s \in stray : s[2] = w[2] /\ req[s[1]].secret = req[w[1][1]].secret

\* No row is ever written by a request to /db/query, nor with a token that is
\* only configured as read-only.
ReadersNeverWrite ==
    \A row \in store \cup buf :
        /\ req[row[1]].route # "query"
        /\ authIsDisabled \/ \E i \in Matches(req[row[1]].secret) : AuthTokens[i].role # "ro"

\* The gauge of queued requests counts the requests in their handlers, and the
\* counter those that ever got there.
GaugeMatches ==
    /\ queuedHTTPRequests = Cardinality({r \in Requests : InHandler(r)})
    /\ httpRequests =
          Cardinality({r \in Requests : InHandler(r) \/
                          (st[r] = "done" /\ req[r].route \in Handled)})
=============================================================================
