---------------------------- MODULE ServerProofs ----------------------------
(***************************************************************************)
(* Proofs about Server.                                                    *)
(***************************************************************************)
EXTENDS ServerInv, FiniteSetTheorems, WellFoundedInduction, TLAPS

\* A script that a client sends is a sequence of statements within the bound.
LEMMA ScriptFacts ==
  ASSUME TypeOK, NEW r \in Requests
  PROVE  /\ req[r].script \in Seq(StatementKinds) /\ results[r] \in Seq(BOOLEAN)
         /\ Len(req[r].script) \in Nat /\ Len(req[r].script) <= MaxScript
         /\ DOMAIN req[r].script = 1 .. Len(req[r].script)
         /\ Len(results[r]) \in Nat /\ DOMAIN results[r] = 1 .. Len(results[r])
  <1>1. req[r].script \in Scripts \cup {<<>>} /\ results[r] \in Seq(BOOLEAN)
    BY DEF TypeOK
  <1>2. req[r].script \in Seq(StatementKinds) /\ Len(req[r].script) <= MaxScript
    <2>1. CASE req[r].script \in Scripts
      BY <2>1, ServerAssumption
    <2>2. CASE req[r].script = <<>>
      <3>1. <<>> \in Seq(StatementKinds) /\ Len(<<>>) = 0
        OBVIOUS
      <3> QED
        BY <2>2, <3>1, ServerAssumption
    <2> QED
      BY <1>1, <2>1, <2>2
  <1> QED
    BY <1>1, <1>2

\* The first configured token with this value is one of them.
LEMMA FirstMatches == ASSUME NEW s, Matches(s) # {} PROVE HasRole(s, FirstMatch(s))
  <1>1. Matches(s) \subseteq Nat
    BY ServerAssumption DEF Matches
  <1> DEFINE lt == {ss \in Nat \X Nat : ss[1] < ss[2]}
  <1>2. IsWellFoundedOn(lt, Nat)
    BY NatLessThanWellFounded DEF OpToRel
  <1>3. \E i \in Matches(s) : \A j \in Matches(s) : ~(<<j, i>> \in lt)
    <2> HIDE DEF lt
    <2> QED
      BY <1>1, <1>2, WFMin
  <1>4. \E i \in Matches(s) : \A j \in Matches(s) : i <= j
    <2>1. PICK i \in Matches(s) : \A j \in Matches(s) : ~(<<j, i>> \in lt)
      BY <1>3
    <2>2. ASSUME NEW j \in Matches(s) PROVE i <= j
      <3>1. i \in Nat /\ j \in Nat /\ ~(j < i)
        BY <1>1, <2>1
      <3> QED
        BY <3>1
    <2> QED
      BY <2>2
  <1> QED
    BY <1>4 DEF HasRole, FirstMatch

\* A statement that succeeds.
Ran(r, k, id, i) ==
    /\ begun[r] = None /\ Accepted(r, k, id) /\ Effect(r, k, id, i)
    /\ \/ st[r] = "begin" /\ k = "begin" /\ id = None /\ i = 0
       \/ /\ st[r] = "run" /\ i = Len(results[r]) + 1 /\ i \in DOMAIN req[r].script
          /\ k = req[r].script[i] /\ id \in StatementTx(r)
       \/ st[r] = "rollback" /\ k = "rollback" /\ id = txId[r]
       \/ st[r] = "commit" /\ k = "commit" /\ id = txId[r] /\ st'[r] = "answer"

\* A statement that fails, and makes SQLite leave the transaction.
Fell(r, id) ==
    /\ st[r] = "run" /\ begun[r] = None /\ id \in StatementTx(r)
    /\ Accepted(r, "failRollback", id) /\ ~Waits("failRollback", id)
    /\ Store!Rollback /\ UNCHANGED <<dbTxID, owner, begun, wrote, stray>>
    /\ st'[r] = NextAfter(r, FALSE)

\* Only statements, the owners that BEGINs store and the idle monitor change the
\* state of the manager.
LEMMA ManagerSteps ==
  ASSUME TypeOK, [Next]_vars
  PROVE  \/ UNCHANGED managerVars
         \/ \E r \in Requests : \E k, id, i : Ran(r, k, id, i)
         \/ \E r \in Requests : \E id : Fell(r, id)
         \/ \E r \in Requests : PublishOwner(r)
         \/ IdleTimeout
  <1>1. ASSUME NEW r \in Requests, Statement(r), begun[r] = None
        PROVE  UNCHANGED managerVars \/ (\E k, id, i : Ran(r, k, id, i)) \/ \E id : Fell(r, id)
    <2> DEFINE n == Len(results[r]) + 1
    <2>1. n \in DOMAIN req[r].script
      BY <1>1, ScriptFacts DEF Statement
    <2>2. PICK ok \in BOOLEAN, id \in StatementTx(r) :
             /\ executeRequestQuery(r, req[r].script[n], id, n, ok)
             /\ st' = [st EXCEPT ![r] = NextAfter(r, ok)]
      BY <1>1 DEF Statement
    <2>3. st[r] = "run" /\ st'[r] = NextAfter(r, ok)
      BY <1>1, <2>2 DEF Statement, TypeOK
    <2> HIDE DEF n
    <2>4. CASE ok /\ Accepted(r, req[r].script[n], id) /\ Effect(r, req[r].script[n], id, n)
      BY <1>1, <2>1, <2>3, <2>4 DEF Ran, n
    <2>5. CASE ~ok /\ Accepted(r, req[r].script[n], id) /\ Failure(req[r].script[n])
      <3>1. CASE UNCHANGED managerVars
        BY <3>1
      <3>2. CASE /\ req[r].script[n] = "failRollback" /\ Store!Rollback
                 /\ UNCHANGED <<dbTxID, owner, begun, wrote, stray>>
        BY <1>1, <2>2, <2>3, <2>5, <3>2 DEF Fell, executeRequestQuery
      <3> QED
        BY <2>5, <3>1, <3>2 DEF Failure
    <2> QED
      BY <2>2, <2>4, <2>5 DEF executeRequestQuery
  <1>2. ASSUME NEW r \in Requests, BeginTx(r) \/ RollbackTx(r) \/ CommitTx(r), begun[r] = None
        PROVE  UNCHANGED managerVars \/ \E k, id, i : Ran(r, k, id, i)
    BY <1>2 DEF TypeOK, BeginTx, RollbackTx, CommitTx, executeRequestQuery, Failure, Ran
  <1>3. ASSUME NEW r \in Requests,
               Arrive(r) \/ Cancel(r) \/ Authenticate(r) \/ ScanTokens(r) \/ Answer(r)
        PROVE  UNCHANGED managerVars
    BY <1>3 DEF Arrive, Cancel, Authenticate, ScanTokens, Answer
  <1> QED
    BY <1>1, <1>2, <1>3 DEF Next, Serve, AllServed, vars

\* Once a request is authenticated, who sent it and what it asks for are fixed.
LEMMA SettledKeeps ==
  ASSUME TypeOK, [Next]_vars, NEW r \in Requests, Settled(r)
  PROVE  /\ Settled(r)' /\ req'[r] = req[r]
         /\ role'[r] = role[r] /\ principal'[r] = principal[r]
  <1> USE DEF Settled, TypeOK
  <1>1. ASSUME NEW q \in Requests, Arrive(q) \/ Cancel(q)
        PROVE  Settled(r)' /\ req'[r] = req[r] /\ role'[r] = role[r] /\ principal'[r] = principal[r]
    BY <1>1 DEF Arrive, Cancel, authVars
  <1>2. ASSUME NEW q \in Requests, Authenticate(q) \/ ScanTokens(q)
        PROVE  Settled(r)' /\ req'[r] = req[r] /\ role'[r] = role[r] /\ principal'[r] = principal[r]
    BY <1>2 DEF Authenticate, ScanTokens, Authorized, Admit, Refuse
  <1>3. ASSUME NEW q \in Requests,
               PublishOwner(q) \/ BeginTx(q) \/ Statement(q) \/ RollbackTx(q) \/ CommitTx(q)
                 \/ Answer(q)
        PROVE  Settled(r)' /\ req'[r] = req[r] /\ role'[r] = role[r] /\ principal'[r] = principal[r]
    BY <1>3
    DEF PublishOwner, BeginTx, Statement, NextAfter, RollbackTx, CommitTx, Answer, authVars
  <1> QED
    BY <1>1, <1>2, <1>3 DEF Next, Serve, IdleTimeout, AllServed, vars, authVars

\* The row or the transaction of a statement is one of its request.
LEMMA RanToken ==
  ASSUME TypeOK, NEW r \in Requests, NEW k, NEW id, NEW i, Ran(r, k, id, i)
  PROVE  /\ k \in {"begin", "write"} => i \in 0 .. MaxScript /\ <<r, i>> \in TokenIds
         /\ id # None => dbTxID = id
  <1>1. CASE i = 0
    BY <1>1, ServerAssumption DEF TokenIds, Ran, Accepted, TxValid
  <1>2. CASE st[r] = "run" /\ i = Len(results[r]) + 1 /\ i \in DOMAIN req[r].script
    <2>1. i \in 1 .. Len(req[r].script) /\ Len(req[r].script) \in Nat
          /\ Len(req[r].script) <= MaxScript
      BY <1>2, ScriptFacts
    <2>2. i \in 0 .. MaxScript
      BY <2>1, ServerAssumption
    <2> QED
      BY <2>2 DEF TokenIds, Ran, Accepted, TxValid
  <1>3. CASE k \in {"commit", "rollback"}
    BY <1>3 DEF Ran, Accepted, TxValid
  <1> QED
    BY <1>1, <1>2, <1>3 DEF Ran

\* The type of the manager's variables.
ManagerType ==
    /\ store \subseteq TokenIds /\ buf \subseteq TokenIds /\ done \subseteq TokenIds
    /\ open \in TokenIds \cup {None} /\ dbTxID \in TokenIds \cup {None}
    /\ owner \in Secrets \cup {None} /\ begun \in [Requests -> TokenIds \cup {None}]
    /\ wrote \subseteq TokenIds \X TokenIds /\ stray \subseteq Requests \X TokenIds

\* Every step keeps them.
LEMMA NextManagerType == ASSUME TypeOK, [Next]_vars PROVE ManagerType'
  <1>0. ManagerType /\ principal \in [Requests -> Secrets \cup {None}]
    BY DEF TypeOK, ManagerType
  <1>1. CASE UNCHANGED managerVars
    BY <1>0, <1>1 DEF managerVars, ManagerType
  <1>2. CASE IdleTimeout
    BY <1>0, <1>2 DEF IdleTimeout, ClearTx, Store!Rollback, ManagerType
  <1>3. ASSUME NEW r \in Requests, NEW k, NEW id, NEW i, Ran(r, k, id, i) PROVE ManagerType'
    <2>1. /\ k \in {"begin", "write"} => <<r, i>> \in TokenIds
          /\ id # None => dbTxID = id
      BY <1>3, RanToken
    <2>2. Effect(r, k, id, i)
      BY <1>3 DEF Ran
    <2>3. CASE k = "read"
      BY <1>1, <2>2, <2>3 DEF Effect
    <2>4. CASE k = "write"
      <3>1. id # None => id \in TokenIds
        BY <1>0, <2>1 DEF ManagerType
      <3>2. /\ store' \subseteq TokenIds /\ buf' \subseteq TokenIds
            /\ UNCHANGED <<open, done, dbTxID, owner, begun, stray>>
        BY <1>0, <2>1, <2>2, <2>4 DEF Effect, Store!PlainWrite, Store!TxWrite, ManagerType
      <3>3. wrote' \subseteq TokenIds \X TokenIds
        BY <1>0, <2>1, <2>2, <2>4, <3>1 DEF Effect, ManagerType
      <3> QED
        BY <1>0, <3>2, <3>3 DEF ManagerType
    <2>5. CASE k = "begin"
      BY <1>0, <2>1, <2>2, <2>5 DEF Effect, Store!Begin, ManagerType
    <2>6. CASE k = "commit"
      BY <1>0, <2>2, <2>6 DEF Effect, ClearTx, Store!Commit, ManagerType
    <2>7. CASE k = "rollback"
      BY <1>0, <2>2, <2>7 DEF Effect, ClearTx, Store!Rollback, ManagerType
    <2> QED
      BY <2>2, <2>3, <2>4, <2>5, <2>6, <2>7 DEF Effect
  <1>4. ASSUME NEW r \in Requests, NEW id, Fell(r, id) PROVE ManagerType'
    BY <1>0, <1>4 DEF Fell, Store!Rollback, ManagerType
  <1>5. ASSUME NEW r \in Requests, PublishOwner(r) PROVE ManagerType'
    BY <1>0, <1>5 DEF PublishOwner, Published, ManagerType
  <1> QED
    BY <1>1, <1>2, <1>3, <1>4, <1>5, ManagerSteps

\* Every step keeps the types.
LEMMA NextTypeOK == TypeOK /\ [Next]_vars => TypeOK'
  <1> SUFFICES ASSUME TypeOK, [Next]_vars PROVE TypeOK'
    OBVIOUS
  <1>0. /\ store' \subseteq TokenIds /\ buf' \subseteq TokenIds /\ done' \subseteq TokenIds
        /\ open' \in TokenIds \cup {None} /\ dbTxID' \in TokenIds \cup {None}
        /\ owner' \in Secrets \cup {None} /\ begun' \in [Requests -> TokenIds \cup {None}]
        /\ wrote' \subseteq TokenIds \X TokenIds /\ stray' \subseteq Requests \X TokenIds
    BY NextManagerType DEF ManagerType
  <1> USE <1>0 DEF TypeOK, authVars
  <1>1. ASSUME NEW r \in Requests, Arrive(r) PROVE TypeOK'
    <2>1. PICK q \in ClientRequests :
             /\ req' = [req EXCEPT ![r] = q]
             /\ st' = [st EXCEPT ![r] = IF q.route = "health" THEN "done" ELSE "auth"]
      BY <1>1 DEF Arrive
    <2>2. q \in [route : AllRoutes, scheme : {"bearer", "basic"}, secret : Secrets \cup {None},
                 script : Scripts \cup {<<>>}, transaction : BOOLEAN, malformed : BOOLEAN,
                 txId : TokenIds \cup {None}]
      BY ServerAssumption DEF ClientRequests
    <2> QED
      BY <1>1, <2>1, <2>2 DEF Arrive
  <1>2. ASSUME NEW r \in Requests, Cancel(r) PROVE TypeOK'
    BY <1>2, ServerAssumption DEF Cancel
  <1>3. ASSUME NEW r \in Requests, NEW rl \in Roles, NEW pr \in Secrets \cup {None},
               Authorized(r, rl, pr),
               UNCHANGED <<req, txId, cancelled, known>>, cache' \in [Secrets -> Roles \cup {None}]
        PROVE  TypeOK'
    <2>1. RouteRole(req[r].route, rl) \in Roles
      BY DEF RouteRole, Roles
    <2>2. CASE Admit(r, rl, pr)
      BY <1>3, <2>1, <2>2 DEF Admit
    <2>3. CASE UNCHANGED <<role, principal, results, httpRequests, queuedHTTPRequests>>
               /\ (st' = [st EXCEPT ![r] = "refused"] \/ st' = [st EXCEPT ![r] = "done"])
      BY <1>3, <2>3
    <2> QED
      BY <1>3, <2>2, <2>3 DEF Authorized, Refuse
  <1>4. ASSUME NEW r \in Requests, Refuse(r), UNCHANGED <<req, txId, cancelled, known, cache>>
        PROVE  TypeOK'
    BY <1>4 DEF Refuse
  <1>5. ASSUME NEW r \in Requests, Authenticate(r) PROVE TypeOK'
    <2>1. Presented(req[r]) \in Secrets \cup {None}
      BY DEF Presented
    <2>2. "admin" \in Roles
      BY DEF Roles
    <2>3. ASSUME st' = [st EXCEPT ![r] = "scan"],
                 UNCHANGED <<role, principal, results, httpRequests, queuedHTTPRequests,
                             req, txId, cancelled, known, cache>>
          PROVE  TypeOK'
      BY <2>3
    <2> QED
      BY <1>3, <1>4, <1>5, <2>1, <2>2, <2>3 DEF Authenticate
  <1>6. ASSUME NEW r \in Requests, ScanTokens(r) PROVE TypeOK'
    <2> DEFINE s == Presented(req[r])
    <2>1. s \in Secrets \cup {None}
      BY DEF Presented
    <2>2. CASE Matches(s) = {}
      BY <1>4, <1>6, <2>2 DEF ScanTokens
    <2>3. CASE Matches(s) # {}
      <3>1. FirstMatch(s) \in Roles
        <4>1. HasRole(s, FirstMatch(s))
          BY <2>3, FirstMatches
        <4>2. PICK i \in DOMAIN AuthTokens : AuthTokens[i].role = FirstMatch(s)
          BY <4>1 DEF HasRole, Matches
        <4> QED
          BY <4>2, ServerAssumption
      <3>2. cache' = [cache EXCEPT ![s] = FirstMatch(s)] /\ Authorized(r, FirstMatch(s), s)
        BY <1>6, <2>3 DEF ScanTokens
      <3>3. cache' \in [Secrets -> Roles \cup {None}]
        <4>1. cache \in [Secrets -> Roles \cup {None}]
          OBVIOUS
        <4> QED
          BY <3>1, <3>2, <4>1
      <3>4. UNCHANGED <<req, txId, cancelled, known>>
        BY <1>6 DEF ScanTokens
      <3> QED
        BY <1>3, <2>1, <3>1, <3>2, <3>3, <3>4
    <2> QED
      BY <2>2, <2>3
  <1>7. ASSUME NEW r \in Requests, BeginTx(r) PROVE TypeOK'
    <2>1. <<r, 0>> \in TokenIds
      BY ServerAssumption DEF TokenIds
    <2>2. <<>> \in Seq(BOOLEAN) /\ <<FALSE>> \in Seq(BOOLEAN)
      OBVIOUS
    <2>3. PICK ok \in BOOLEAN :
             /\ txId' = [txId EXCEPT ![r] = IF ok THEN <<r, 0>> ELSE None]
             /\ results' = [results EXCEPT ![r] = IF ok THEN <<>> ELSE <<FALSE>>]
             /\ st' = [st EXCEPT ![r] = IF ok THEN "run" ELSE "answer"]
      BY <1>7 DEF BeginTx
    <2>4. results' \in [Requests -> Seq(BOOLEAN)]
      BY <2>2, <2>3
    <2>5. txId' \in [Requests -> TokenIds \cup {None}]
      BY <2>1, <2>3
    <2> QED
      BY <1>7, <2>3, <2>4, <2>5 DEF BeginTx
  <1>8. ASSUME NEW r \in Requests, Statement(r) PROVE TypeOK'
    <2>1. PICK ok \in BOOLEAN :
             /\ results' = [results EXCEPT ![r] = Append(@, ok)]
             /\ st' = [st EXCEPT ![r] = NextAfter(r, ok)]
      BY <1>8 DEF Statement
    <2>2. Append(results[r], ok) \in Seq(BOOLEAN)
      BY ScriptFacts
    <2>3. NextAfter(r, ok) \in {"rollback", "run", "commit", "answer"}
      BY DEF NextAfter
    <2> QED
      BY <1>8, <2>1, <2>2, <2>3 DEF Statement
  <1>9. ASSUME NEW r \in Requests, RollbackTx(r) PROVE TypeOK'
    BY <1>9 DEF RollbackTx
  <1>10. ASSUME NEW r \in Requests, CommitTx(r) PROVE TypeOK'
    <2>1. PICK ok \in BOOLEAN :
             results' = [results EXCEPT ![r] = IF ok THEN @ ELSE Append(@, FALSE)]
      BY <1>10 DEF CommitTx
    <2>2. Append(results[r], FALSE) \in Seq(BOOLEAN)
      BY ScriptFacts
    <2> QED
      BY <1>10, <2>1, <2>2 DEF CommitTx
  <1>11. ASSUME NEW r \in Requests, Answer(r) PROVE TypeOK'
    <2>1. known' \subseteq TokenIds
      <3> SUFFICES ASSUME NEW i \in DOMAIN results[r], i <= Len(req[r].script)
                   PROVE  <<r, i>> \in TokenIds
        BY <1>11 DEF Answer
      <3>1. i \in 1 .. Len(results[r]) /\ Len(req[r].script) <= MaxScript
            /\ Len(results[r]) \in Nat /\ Len(req[r].script) \in Nat
        BY ScriptFacts
      <3>2. i \in 0 .. MaxScript
        BY <3>1, ServerAssumption
      <3> QED
        BY <3>2 DEF TokenIds
    <2> QED
      BY <1>11, <2>1 DEF Answer
  <1>12. CASE IdleTimeout \/ \E r \in Requests : PublishOwner(r)
    BY <1>12 DEF IdleTimeout, PublishOwner
  <1>13. CASE AllServed \/ UNCHANGED vars
    BY <1>13 DEF AllServed, vars
  <1> HIDE DEF TypeOK
  <1> QED
    BY <1>1, <1>2, <1>5, <1>6, <1>7, <1>8, <1>9, <1>10, <1>11, <1>12, <1>13 DEF Next, Serve

\* The types of Server.
THEOREM TypeCorrect == Spec => []TypeOK
  <1>1. Init => TypeOK
    BY ServerAssumption DEF Init, Store!Init, TypeOK, AllRoutes, Handled, RQLite, Roles
  <1> QED
    BY <1>1, NextTypeOK, PTL DEF Spec
-----------------------------------------------------------------------------
\* The requests that were counted when they entered their handler.
Counted(r) == InHandler(r) \/ (st[r] = "done" /\ req[r].route \in Handled)

\* A request enters its handler with the role and the principal of its token.
Admitted(r, rl, pr) ==
    /\ st[r] \in {"auth", "scan"} /\ req[r].route \in Handled
    /\ Admit(r, rl, pr) /\ UNCHANGED req
    /\ \/ authIsDisabled
       \/ pr = Presented(req[r]) /\ pr # None /\ HasRole(pr, rl)

\* Every step of authentication admits the request, or leaves the counted
\* requests alone.
LEMMA Authorizes ==
  ASSUME TypeOK, NEW r \in Requests, NEW rl, NEW pr, st[r] \in {"auth", "scan"},
         Authorized(r, rl, pr), UNCHANGED req,
         authIsDisabled \/ (pr = Presented(req[r]) /\ pr # None /\ HasRole(pr, rl))
  PROVE  \/ Admitted(r, rl, pr)
         \/ /\ \A q \in Requests : (InHandler(q)' <=> InHandler(q)) /\ (Counted(q)' <=> Counted(q))
            /\ UNCHANGED <<role, principal, httpRequests, queuedHTTPRequests>>
  <1>0. st = [q \in Requests |-> st[q]]
    BY DEF TypeOK
  <1>1. CASE st' = [st EXCEPT ![r] = "refused"]
             /\ UNCHANGED <<role, principal, httpRequests, queuedHTTPRequests>>
    BY <1>0, <1>1 DEF InHandler, Counted
  <1>2. CASE req[r].route \notin Handled /\ st' = [st EXCEPT ![r] = "done"]
             /\ UNCHANGED <<role, principal, httpRequests, queuedHTTPRequests>>
    BY <1>0, <1>2 DEF InHandler, Counted
  <1>3. CASE req[r].route \in Handled /\ Admit(r, rl, pr)
    BY <1>3 DEF Admitted
  <1> QED
    BY <1>1, <1>2, <1>3 DEF Authorized, Refuse, Handled, RQLite

\* The steps by which requests enter and leave their handlers.
LEMMA HandlerSteps ==
  ASSUME TypeOK, Authentic, [Next]_vars
  PROVE  \/ \E r \in Requests : \E rl, pr : Admitted(r, rl, pr)
         \/ \E r \in Requests : Answer(r) /\ begun[r] = None
         \/ /\ \A q \in Requests : (InHandler(q)' <=> InHandler(q)) /\ (Counted(q)' <=> Counted(q))
            /\ UNCHANGED <<httpRequests, queuedHTTPRequests>>
  <1> DEFINE Same ==
        /\ \A q \in Requests : (InHandler(q)' <=> InHandler(q)) /\ (Counted(q)' <=> Counted(q))
        /\ UNCHANGED <<httpRequests, queuedHTTPRequests>>
  <1>0. /\ st = [q \in Requests |-> st[q]] /\ req = [q \in Requests |-> req[q]]
        /\ \A r \in Requests : Presented(req[r]) \in Secrets \cup {None}
    BY DEF TypeOK, Presented
  <1>1. ASSUME NEW r \in Requests, Arrive(r) PROVE Same
    <2>1. PICK q \in ClientRequests :
             /\ req' = [req EXCEPT ![r] = q]
             /\ st' = [st EXCEPT ![r] = IF q.route = "health" THEN "done" ELSE "auth"]
      BY <1>1 DEF Arrive
    <2>2. st[r] = "new" /\ UNCHANGED <<httpRequests, queuedHTTPRequests, role, principal>>
      BY <1>1 DEF Arrive, authVars
    <2> QED
      BY <1>0, <2>1, <2>2 DEF InHandler, Counted, Handled, RQLite
  <1>2. ASSUME NEW r \in Requests, Cancel(r) PROVE Same
    BY <1>2 DEF Cancel, InHandler, Counted, authVars
  <1>3. ASSUME NEW r \in Requests, Authenticate(r)
        PROVE  Same \/ \E rl, pr : Admitted(r, rl, pr)
    <2>1. st[r] = "auth" /\ UNCHANGED <<req, cache>>
      BY <1>3 DEF Authenticate
    <2>2. CASE authIsDisabled /\ Authorized(r, "admin", None)
      BY <2>1, <2>2, Authorizes
    <2>3. CASE Refuse(r) \/ (/\ st' = [st EXCEPT ![r] = "scan"]
                             /\ UNCHANGED <<role, principal, httpRequests, queuedHTTPRequests>>)
      BY <1>0, <2>1, <2>3 DEF Refuse, InHandler, Counted
    <2>4. CASE /\ Presented(req[r]) # None /\ cache[Presented(req[r])] # None
               /\ Authorized(r, cache[Presented(req[r])], Presented(req[r]))
      <3>1. HasRole(Presented(req[r]), cache[Presented(req[r])])
        BY <1>0, <2>4 DEF Authentic
      <3> QED
        BY <2>1, <2>4, <3>1, Authorizes
    <2> QED
      BY <1>3, <2>2, <2>3, <2>4 DEF Authenticate
  <1>4. ASSUME NEW r \in Requests, ScanTokens(r)
        PROVE  Same \/ \E rl, pr : Admitted(r, rl, pr)
    <2>1. st[r] = "scan" /\ UNCHANGED req /\ Presented(req[r]) # None
      BY <1>4 DEF ScanTokens, Authentic
    <2>2. CASE Refuse(r)
      BY <1>0, <2>1, <2>2 DEF Refuse, InHandler, Counted
    <2>3. CASE Matches(Presented(req[r])) # {}
               /\ Authorized(r, FirstMatch(Presented(req[r])), Presented(req[r]))
      <3>1. HasRole(Presented(req[r]), FirstMatch(Presented(req[r])))
        BY <2>3, FirstMatches
      <3> QED
        BY <2>1, <2>3, <3>1, Authorizes
    <2> QED
      BY <1>4, <2>2, <2>3 DEF ScanTokens
  <1>5. ASSUME NEW r \in Requests, NEW s,
               s \in {"begin", "run", "rollback", "commit", "answer"}, InHandler(r),
               st' = [st EXCEPT ![r] = s],
               UNCHANGED <<req, role, principal, httpRequests, queuedHTTPRequests>>
        PROVE  Same
    BY <1>0, <1>5 DEF InHandler, Counted
  <1>6. ASSUME NEW r \in Requests, BeginTx(r) \/ RollbackTx(r) \/ CommitTx(r) PROVE Same
    BY <1>5, <1>6 DEF BeginTx, RollbackTx, CommitTx, InHandler, authVars
  <1>7. ASSUME NEW r \in Requests, Statement(r) PROVE Same
    <2>1. PICK ok \in BOOLEAN : st' = [st EXCEPT ![r] = NextAfter(r, ok)]
      BY <1>7 DEF Statement
    <2>2. NextAfter(r, ok) \in {"rollback", "run", "commit", "answer"}
      BY DEF NextAfter
    <2> QED
      BY <1>5, <1>7, <2>1, <2>2 DEF Statement, InHandler, authVars
  <1>8. CASE IdleTimeout \/ AllServed \/ UNCHANGED vars \/ \E r \in Requests : PublishOwner(r)
    BY <1>8 DEF IdleTimeout, AllServed, PublishOwner, vars, authVars, InHandler, Counted
  <1> QED
    BY <1>1, <1>2, <1>3, <1>4, <1>6, <1>7, <1>8 DEF Next, Serve

\* The cache remembers only roles of configured tokens, and a request is
\* admitted with the role of its token.
LEMMA NextAuthentic == ASSUME TypeOK, Authentic, [Next]_vars PROVE Authentic'
  <1>0. /\ st = [q \in Requests |-> st[q]] /\ req = [q \in Requests |-> req[q]]
        /\ role = [q \in Requests |-> role[q]] /\ principal = [q \in Requests |-> principal[q]]
        /\ cache = [s \in Secrets |-> cache[s]]
    BY DEF TypeOK
  <1>1. ASSUME NEW s \in Secrets, cache'[s] # None PROVE HasRole(s, cache'[s])
    <2>1. CASE UNCHANGED cache
      BY <1>1, <2>1 DEF Authentic
    <2>2. ASSUME NEW r \in Requests, Matches(Presented(req[r])) # {},
                 cache' = [cache EXCEPT ![Presented(req[r])] = FirstMatch(Presented(req[r]))]
          PROVE  HasRole(s, cache'[s])
      <3>1. HasRole(Presented(req[r]), FirstMatch(Presented(req[r])))
        BY <2>2, FirstMatches
      <3>2. CASE s = Presented(req[r])
        BY <1>0, <2>2, <3>1, <3>2
      <3>3. CASE s # Presented(req[r])
        BY <1>0, <1>1, <2>2, <3>3 DEF Authentic
      <3> QED
        BY <3>2, <3>3
    <2>3. UNCHANGED cache \/ \E r \in Requests : ScanTokens(r)
      BY DEF Next, Serve, Arrive, Cancel, Authenticate, PublishOwner, BeginTx, Statement,
             RollbackTx, CommitTx, Answer, IdleTimeout, AllServed, vars, authVars
    <2> QED
      BY <2>1, <2>2, <2>3 DEF ScanTokens
  <1>2. ASSUME NEW r \in Requests, st'[r] = "scan"
        PROVE  ~authIsDisabled /\ Presented(req'[r]) # None
    <2>1. CASE st[r] = "scan" /\ req'[r] = req[r]
      BY <2>1 DEF Authentic, Presented
    <2>2. CASE Authenticate(r)
      <3>1. UNCHANGED req
        BY <2>2 DEF Authenticate
      <3>2. ~authIsDisabled /\ Presented(req[r]) # None
        <4>1. ASSUME NEW rl, NEW pr, Authorized(r, rl, pr) PROVE FALSE
          BY <1>0, <1>2, <4>1 DEF Authorized, Refuse, Admit
        <4> QED
          BY <1>0, <1>2, <2>2, <4>1 DEF Authenticate, Refuse
      <3> QED
        BY <3>1, <3>2
    <2>3. (st[r] = "scan" /\ req'[r] = req[r]) \/ Authenticate(r)
      <3>1. ASSUME NEW q \in Requests, Arrive(q) \/ Cancel(q)
            PROVE  st[r] = "scan" /\ req'[r] = req[r]
        <4>1. CASE Arrive(q)
          <5>1. PICK c \in ClientRequests :
                  /\ req' = [req EXCEPT ![q] = c]
                  /\ st' = [st EXCEPT ![q] = IF c.route = "health" THEN "done" ELSE "auth"]
            BY <4>1 DEF Arrive
          <5> QED
            BY <1>0, <1>2, <5>1
        <4> QED
          BY <1>0, <1>2, <3>1, <4>1 DEF Cancel
      <3>2. ASSUME NEW q \in Requests, q # r, Authenticate(q)
            PROVE  st[r] = "scan" /\ req'[r] = req[r]
        BY <1>0, <1>2, <3>2 DEF Authenticate, Authorized, Refuse, Admit
      <3>3. ASSUME NEW q \in Requests, ScanTokens(q) PROVE st[r] = "scan" /\ req'[r] = req[r]
        BY <1>0, <1>2, <3>3 DEF ScanTokens, Authorized, Refuse, Admit
      <3>4. ASSUME NEW q \in Requests,
                   PublishOwner(q) \/ BeginTx(q) \/ Statement(q) \/ RollbackTx(q)
                     \/ CommitTx(q) \/ Answer(q)
            PROVE  st[r] = "scan" /\ req'[r] = req[r]
        BY <1>0, <1>2, <3>4
        DEF PublishOwner, BeginTx, Statement, NextAfter, RollbackTx, CommitTx, Answer
      <3> QED
        BY <1>2, <3>1, <3>2, <3>3, <3>4 DEF Next, Serve, IdleTimeout, AllServed, vars
    <2> QED
      BY <2>1, <2>2, <2>3
  <1>3. ASSUME NEW r \in Requests, InHandler(r)'
        PROVE  /\ req'[r].route \in Handled
               /\ req'[r].route = "query" => role'[r] = "ro"
               /\ ~authIsDisabled =>
                     /\ Identified(r)'
                     /\ req'[r].route = "query" \/ HasRole(req'[r].secret, role'[r])
    <2>1. CASE InHandler(r)
      <3>1. Settled(r)
        BY <2>1 DEF InHandler, Settled
      <3> QED
        BY <2>1, <3>1, SettledKeeps DEF Authentic, Identified, HasRole
    <2>2. ASSUME NEW rl, NEW pr, Admitted(r, rl, pr)
          PROVE  /\ req'[r].route \in Handled
                 /\ req'[r].route = "query" => role'[r] = "ro"
                 /\ ~authIsDisabled =>
                       /\ Identified(r)'
                       /\ req'[r].route = "query" \/ HasRole(req'[r].secret, role'[r])
      <3>1. role'[r] = RouteRole(req[r].route, rl) /\ principal'[r] = pr /\ req' = req
        BY <1>0, <2>2 DEF Admitted, Admit
      <3>2. pr # None /\ pr = Presented(req[r]) => pr = req[r].secret
        BY DEF Presented
      <3>3. Settled(r)'
        BY <1>3 DEF InHandler, Settled
      <3> QED
        BY <2>2, <3>1, <3>2, <3>3 DEF Admitted, RouteRole, Identified
    <2>3. ASSUME NEW q \in Requests, q # r, NEW rl, NEW pr, Admitted(q, rl, pr) PROVE InHandler(r)
      BY <1>0, <1>3, <2>3 DEF Admitted, Admit, InHandler
    <2>4. ASSUME NEW q \in Requests, Answer(q) PROVE InHandler(r)
      BY <1>0, <1>3, <2>4 DEF Answer, InHandler
    <2> QED
      BY <1>3, <2>1, <2>2, <2>3, <2>4, HandlerSteps
  <1> QED
    BY <1>1, <1>2, <1>3 DEF Authentic, InHandler, Presented

\* The gauges follow the requests into their handlers and out of them.
LEMMA NextGauges == ASSUME TypeOK, Authentic, Gauges, [Next]_vars PROVE Gauges'
  <1> DEFINE H == {r \in Requests : InHandler(r)}
             C == {r \in Requests : Counted(r)}
  <1>0. /\ st = [q \in Requests |-> st[q]]
        /\ httpRequests \in Int /\ queuedHTTPRequests \in Int
    BY DEF TypeOK
  <1>1. /\ IsFiniteSet(H) /\ IsFiniteSet(C)
        /\ queuedHTTPRequests = Cardinality(H) /\ httpRequests = Cardinality(C)
    BY DEF Gauges, GaugeMatches, Counted
  <1>2. SUFFICES /\ IsFiniteSet(H') /\ IsFiniteSet(C')
                 /\ queuedHTTPRequests' = Cardinality(H') /\ httpRequests' = Cardinality(C')
    BY DEF Gauges, GaugeMatches, Counted, InHandler
  <1>3. ASSUME NEW r \in Requests, NEW rl, NEW pr, Admitted(r, rl, pr)
        PROVE  /\ IsFiniteSet(H') /\ IsFiniteSet(C')
               /\ queuedHTTPRequests' = Cardinality(H') /\ httpRequests' = Cardinality(C')
    <2>1. r \notin H /\ r \notin C
      BY <1>3 DEF Admitted, InHandler, Counted
    <2>2. /\ \A q \in Requests : q # r => st'[q] = st[q]
          /\ st'[r] \in {"begin", "run"} /\ req' = req
          /\ queuedHTTPRequests' = queuedHTTPRequests + 1 /\ httpRequests' = httpRequests + 1
      BY <1>0, <1>3 DEF Admitted, Admit
    <2>3. H' = H \cup {r} /\ C' = C \cup {r}
      BY <2>2 DEF InHandler, Counted
    <2> HIDE DEF H, C
    <2> QED
      BY <1>0, <1>1, <2>1, <2>2, <2>3, FS_AddElement
  <1>4. ASSUME NEW r \in Requests, Answer(r)
        PROVE  /\ IsFiniteSet(H') /\ IsFiniteSet(C')
               /\ queuedHTTPRequests' = Cardinality(H') /\ httpRequests' = Cardinality(C')
    <2>1. r \in H /\ req[r].route \in Handled
      BY <1>4 DEF Answer, InHandler, Authentic
    <2>2. /\ \A q \in Requests : q # r => st'[q] = st[q]
          /\ st'[r] = "done" /\ req' = req
          /\ queuedHTTPRequests' = queuedHTTPRequests - 1 /\ httpRequests' = httpRequests
      BY <1>0, <1>4 DEF Answer
    <2>3. H' = H \ {r}
      BY <2>1, <2>2 DEF InHandler
    <2>4. C' = C
      BY <2>1, <2>2 DEF InHandler, Counted
    <2> HIDE DEF H, C
    <2> QED
      BY <1>0, <1>1, <2>1, <2>2, <2>3, <2>4, FS_RemoveElement
  <1>5. CASE /\ \A q \in Requests : (InHandler(q)' <=> InHandler(q)) /\ (Counted(q)' <=> Counted(q))
             /\ UNCHANGED <<httpRequests, queuedHTTPRequests>>
    <2>1. H' = H /\ C' = C
      BY <1>5
    <2> QED
      BY <1>1, <1>5, <2>1
  <1> QED
    BY <1>3, <1>4, <1>5, HandlerSteps

\* What no step but those of the request itself changes.
Kept(r) == req'[r] = req[r] /\ role'[r] = role[r] /\ txId'[r] = txId[r] /\ results'[r] = results[r]

\* The request arrives.
Arrives(r) ==
    /\ st[r] = "new" /\ req'[r] \in ClientRequests
    /\ st'[r] = "auth" \/ (st'[r] = "done" /\ req'[r].route = "health")
    /\ txId'[r] = txId[r] /\ results'[r] = results[r]

\* It is authenticated.
Enters(r) ==
    /\ st[r] \in {"auth", "scan"}
    /\ \/ st'[r] \in {"scan", "refused"}
       \/ st'[r] = "done" /\ req[r].route \notin Handled
       \/ st'[r] = IF req[r].transaction /\ req[r].script # <<>> THEN "begin" ELSE "run"
    /\ req'[r] = req[r] /\ txId'[r] = txId[r] /\ results'[r] = results[r]

\* Its transaction begins, or does not.
Begins(r, ok) ==
    /\ st[r] = "begin" /\ executeRequestQuery(r, "begin", None, 0, ok)
    /\ txId'[r] = (IF ok THEN <<r, 0>> ELSE None)
    /\ results'[r] = (IF ok THEN <<>> ELSE <<FALSE>>)
    /\ st'[r] = (IF ok THEN "run" ELSE "answer")
    /\ req'[r] = req[r] /\ role'[r] = role[r]

\* One of its statements runs.
Steps(r, ok, id) ==
    /\ st[r] = "run" /\ Len(results[r]) < Len(req[r].script) /\ id \in StatementTx(r)
    /\ executeRequestQuery(r, req[r].script[Len(results[r]) + 1], id, Len(results[r]) + 1, ok)
    /\ results'[r] = Append(results[r], ok) /\ st'[r] = NextAfter(r, ok)
    /\ txId'[r] = txId[r] /\ req'[r] = req[r] /\ role'[r] = role[r]

RollsBack(r, ok) ==
    /\ st[r] = "rollback" /\ begun[r] = None /\ executeRequestQuery(r, "rollback", txId[r], 0, ok)
    /\ st'[r] = "answer" /\ cancelled' = cancelled /\ Kept(r)

Commits(r, ok) ==
    /\ st[r] = "commit" /\ executeRequestQuery(r, "commit", txId[r], 0, ok)
    /\ results'[r] = (IF ok THEN results[r] ELSE Append(results[r], FALSE))
    /\ st'[r] = "answer"
    /\ txId'[r] = txId[r] /\ req'[r] = req[r] /\ role'[r] = role[r]

Answers(r) ==
    /\ st[r] = "answer" \/ (st[r] = "run" /\ req[r].script = <<>>)
    /\ st'[r] = "done" /\ Kept(r)

\* What a step may do to a request.
LEMMA LoopSteps ==
  ASSUME TypeOK, [Next]_vars, NEW r \in Requests
  PROVE  \/ st'[r] = st[r] /\ Kept(r)
         \/ (Arrives(r) \/ Enters(r) \/ Answers(r)) /\ UNCHANGED managerVars
         \/ \E ok \in BOOLEAN : Begins(r, ok) \/ RollsBack(r, ok) \/ Commits(r, ok)
         \/ \E ok \in BOOLEAN : \E id : Steps(r, ok, id)
  <1>0. /\ st = [q \in Requests |-> st[q]] /\ req = [q \in Requests |-> req[q]]
        /\ role = [q \in Requests |-> role[q]] /\ txId = [q \in Requests |-> txId[q]]
        /\ results = [q \in Requests |-> results[q]]
    BY DEF TypeOK
  <1>1. ASSUME NEW q \in Requests, q # r, Arrive(q) PROVE st'[r] = st[r] /\ Kept(r)
    <2>1. PICK c \in ClientRequests :
            /\ req' = [req EXCEPT ![q] = c]
            /\ st' = [st EXCEPT ![q] = IF c.route = "health" THEN "done" ELSE "auth"]
      BY <1>1 DEF Arrive
    <2> QED
      BY <1>0, <1>1, <2>1 DEF Arrive, Kept, authVars
  <1>2. ASSUME NEW q \in Requests, q # r, Authenticate(q) \/ ScanTokens(q)
        PROVE  st'[r] = st[r] /\ Kept(r)
    BY <1>0, <1>2 DEF Authenticate, ScanTokens, Authorized, Refuse, Admit, Kept
  <1>3. ASSUME NEW q \in Requests, q # r,
               BeginTx(q) \/ Statement(q) \/ RollbackTx(q) \/ CommitTx(q) \/ Answer(q)
        PROVE  st'[r] = st[r] /\ Kept(r)
    BY <1>0, <1>3 DEF BeginTx, Statement, RollbackTx, CommitTx, Answer, Kept, authVars
  <1>4. CASE \/ \E q \in Requests : Cancel(q) \/ PublishOwner(q)
             \/ IdleTimeout \/ AllServed \/ UNCHANGED vars
    BY <1>4 DEF Cancel, PublishOwner, IdleTimeout, AllServed, vars, authVars, Kept
  <1>5. CASE Arrive(r)
    <2>1. PICK c \in ClientRequests :
            /\ req' = [req EXCEPT ![r] = c]
            /\ st' = [st EXCEPT ![r] = IF c.route = "health" THEN "done" ELSE "auth"]
      BY <1>5 DEF Arrive
    <2> QED
      BY <1>0, <1>5, <2>1 DEF Arrive, Arrives
  <1>6. ASSUME NEW rl, NEW pr, Authorized(r, rl, pr), st[r] \in {"auth", "scan"},
               UNCHANGED <<req, txId>>
        PROVE  Enters(r)
    BY <1>0, <1>6 DEF Authorized, Refuse, Admit, Enters, Handled, RQLite
  <1>7. ASSUME Refuse(r) \/ (st' = [st EXCEPT ![r] = "scan"] /\ UNCHANGED results),
               st[r] \in {"auth", "scan"}, UNCHANGED <<req, txId>>
        PROVE  Enters(r)
    BY <1>0, <1>7 DEF Refuse, Enters
  <1>8. CASE Authenticate(r) \/ ScanTokens(r)
    BY <1>6, <1>7, <1>8 DEF Authenticate, ScanTokens
  <1>9. CASE BeginTx(r)
    BY <1>0, <1>9 DEF BeginTx, Begins, authVars
  <1>10. CASE Statement(r)
    BY <1>0, <1>10 DEF Statement, Steps, authVars
  <1>11. CASE RollbackTx(r) /\ begun[r] = None
    BY <1>0, <1>11 DEF RollbackTx, RollsBack, Kept, authVars
  <1>12. CASE CommitTx(r)
    BY <1>0, <1>12 DEF CommitTx, Commits, authVars
  <1>13. CASE Answer(r)
    BY <1>0, <1>13 DEF Answer, Answers, Kept, authVars
  <1> QED
    BY <1>1, <1>2, <1>3, <1>4, <1>5, <1>8, <1>9, <1>10, <1>11, <1>12, <1>13 DEF Next, Serve

\* A transaction that a statement names has its owner.
LEMMA NamedIsPublished ==
  ASSUME TypeOK, Announced, NEW r \in Requests, begun[r] = None,
         NEW id \in StatementTx(r), id # None, dbTxID = id
  PROVE  Published
  <1>1. CASE id = txId[r]
    <2>1. dbTxID[1] = r
      BY <1>1 DEF Announced
    <2> QED
      BY <2>1 DEF Published
  <1>2. CASE id = req[r].txId
    <2>1. id \in known
      BY <1>2 DEF Announced
    <2>2. PICK q \in Requests : q = id[1]
      BY <2>1 DEF TypeOK, TokenIds
    <2>3. st[q] = "done"
      BY <2>1, <2>2 DEF Announced
    <2>4. begun[q] = None
      BY <2>3 DEF Announced, InHandler
    <2> QED
      BY <2>2, <2>4 DEF Published
  <1> QED
    BY <1>1, <1>2 DEF StatementTx

\* What a step does to the transaction of the manager, its owner and its writes.
LEMMA OwnerSteps ==
  ASSUME TypeOK, Announced, [Next]_vars
  PROVE  \/ UNCHANGED <<dbTxID, owner, begun, wrote, stray>>
         \/ dbTxID' = None /\ UNCHANGED <<begun, wrote, stray>>
         \/ \E r \in Requests : \E i \in 0 .. MaxScript :
               /\ InHandler(r) /\ dbTxID' = <<r, i>> /\ begun' = [begun EXCEPT ![r] = <<r, i>>]
               /\ UNCHANGED <<wrote, stray>>
         \/ \E r \in Requests : \E i \in 0 .. MaxScript :
               /\ InHandler(r) /\ UNCHANGED <<dbTxID, owner, begun, stray>> /\ Published
               /\ wrote' = wrote \cup {<<<<r, i>>, dbTxID>>}
               /\ principal[r] # None => principal[r] = owner
         \/ \E r \in Requests : PublishOwner(r)
  <1>1. CASE UNCHANGED managerVars
    BY <1>1 DEF managerVars
  <1>2. CASE IdleTimeout
    BY <1>2 DEF IdleTimeout, ClearTx
  <1>3. ASSUME NEW r \in Requests, NEW k, NEW id, NEW i, Ran(r, k, id, i)
        PROVE  \/ UNCHANGED <<dbTxID, owner, begun, wrote, stray>>
               \/ dbTxID' = None /\ UNCHANGED <<begun, wrote, stray>>
               \/ \E j \in 0 .. MaxScript :
                     /\ InHandler(r) /\ dbTxID' = <<r, j>>
                     /\ begun' = [begun EXCEPT ![r] = <<r, j>>]
                     /\ UNCHANGED <<wrote, stray>>
               \/ \E j \in 0 .. MaxScript :
                     /\ InHandler(r) /\ UNCHANGED <<dbTxID, owner, begun, stray>> /\ Published
                     /\ wrote' = wrote \cup {<<<<r, j>>, dbTxID>>}
                     /\ principal[r] # None => principal[r] = owner
    <2>1. /\ k \in {"begin", "write"} => i \in 0 .. MaxScript
          /\ id # None => dbTxID = id
      BY <1>3, RanToken
    <2>2. InHandler(r) /\ Effect(r, k, id, i) /\ TxValid(r, id)
      BY <1>3 DEF Ran, InHandler, Accepted
    <2>3. CASE k = "read" \/ (k = "write" /\ id = None)
      BY <2>2, <2>3 DEF Effect, managerVars
    <2>4. CASE k = "write" /\ id # None
      <3>1. id \in StatementTx(r) /\ begun[r] = None
        BY <1>3, <2>4 DEF Ran
      <3>2. Published
        BY <2>1, <2>4, <3>1, NamedIsPublished
      <3> QED
        BY <2>1, <2>2, <2>4, <3>2 DEF Effect, TxValid
    <2>5. CASE k = "begin"
      BY <2>1, <2>2, <2>5 DEF Effect
    <2>6. CASE k = "commit" \/ k = "rollback"
      BY <2>2, <2>6 DEF Effect, ClearTx
    <2> QED
      BY <2>2, <2>3, <2>4, <2>5, <2>6 DEF Effect
  <1>4. ASSUME NEW r \in Requests, NEW id, Fell(r, id)
        PROVE  UNCHANGED <<dbTxID, owner, begun, wrote, stray>>
    BY <1>4 DEF Fell
  <1> QED
    BY <1>1, <1>2, <1>3, <1>4, ManagerSteps

\* A BEGIN stores its owner before its request is answered.
LEMMA NextAnnounced == ASSUME TypeOK, Authentic, Announced, [Next]_vars PROVE Announced'
  <1>0. begun = [q \in Requests |-> begun[q]] /\ st = [q \in Requests |-> st[q]]
    BY DEF TypeOK
  <1>1. open' # None => dbTxID' = open'
    <2>1. CASE UNCHANGED managerVars \/ IdleTimeout
      BY <2>1 DEF managerVars, IdleTimeout, Store!Rollback, Announced
    <2>2. ASSUME NEW r \in Requests, NEW k, NEW id, NEW i, Ran(r, k, id, i)
          PROVE  open' # None => dbTxID' = open'
      BY <2>2
      DEF Ran, Effect, managerVars, Store!PlainWrite, Store!TxWrite, Store!Begin, Store!Commit,
          Store!Rollback, Announced
    <2>3. ASSUME NEW r \in Requests, NEW id, Fell(r, id) PROVE open' = None
      BY <2>3 DEF Fell, Store!Rollback
    <2>4. ASSUME NEW r \in Requests, PublishOwner(r) PROVE open' # None => dbTxID' = open'
      BY <2>4 DEF PublishOwner, Announced
    <2> QED
      BY <2>1, <2>2, <2>3, <2>4, ManagerSteps
  <1>2. ASSUME NEW r \in Requests, begun'[r] # None PROVE begun'[r][1] = r /\ InHandler(r)'
    <2>1. begun'[r][1] = r /\ InHandler(r)
      <3>1. CASE begun'[r] = begun[r]
        BY <1>2, <3>1 DEF Announced
      <3>2. ASSUME NEW q \in Requests, NEW i, InHandler(q), begun' = [begun EXCEPT ![q] = <<q, i>>]
            PROVE  begun'[r][1] = r /\ InHandler(r)
        <4>1. CASE q = r
          BY <1>0, <3>2, <4>1
        <4>2. CASE q # r
          BY <1>0, <1>2, <3>2, <4>2 DEF Announced
        <4> QED
          BY <4>1, <4>2
      <3>3. ASSUME NEW q \in Requests, PublishOwner(q) PROVE begun'[r] = begun[r]
        BY <1>0, <1>2, <3>3 DEF PublishOwner
      <3> QED
        BY <3>1, <3>2, <3>3, OwnerSteps
    <2>2. ASSUME NEW q \in Requests, NEW rl, NEW pr, Admitted(q, rl, pr) PROVE InHandler(r)'
      BY <1>0, <2>1, <2>2 DEF Admitted, Admit, InHandler
    <2>3. ASSUME NEW q \in Requests, Answer(q), begun[q] = None PROVE InHandler(r)'
      <3>1. begun' = begun
        BY <2>3 DEF Answer, managerVars
      <3>2. q # r
        BY <1>2, <2>3, <3>1
      <3> QED
        BY <1>0, <2>1, <2>3, <3>2 DEF Answer, InHandler
    <2> QED
      BY <2>1, <2>2, <2>3, HandlerSteps
  <1>3. known \subseteq known'
    BY DEF Next, Serve, Arrive, Cancel, Authenticate, ScanTokens, PublishOwner, BeginTx, Statement,
           RollbackTx, CommitTx, Answer, IdleTimeout, AllServed, vars
  <1>4. ASSUME NEW r \in Requests
        PROVE  req'[r].txId \in known' \cup {None} /\ txId'[r] \in {None, <<r, 0>>}
    <2>1. req[r].txId \in known \cup {None} /\ txId[r] \in {None, <<r, 0>>}
      BY DEF Announced
    <2>2. CASE Arrives(r)
      BY <1>3, <2>1, <2>2 DEF Arrives, ClientRequests
    <2> QED
      BY <1>3, <2>1, <2>2, LoopSteps
      DEF Kept, Enters, Answers, Begins, RollsBack, Commits, Steps
  <1>5. ASSUME NEW t \in known' PROVE st'[t[1]] = "done"
    <2>1. CASE t \in known
      <3>1. PICK q \in Requests : q = t[1]
        BY <2>1 DEF TypeOK, TokenIds
      <3>2. st[q] = "done"
        BY <2>1, <3>1 DEF Announced
      <3>3. st'[q] = "done"
        BY <3>2, LoopSteps DEF Arrives, Enters, Answers, Begins, RollsBack, Commits, Steps
      <3> QED
        BY <3>1, <3>3
    <2>2. ASSUME NEW r \in Requests, Answer(r), t \notin known PROVE st'[t[1]] = "done"
      BY <1>0, <2>2 DEF Answer
    <2>3. UNCHANGED known \/ \E r \in Requests : Answer(r)
      BY DEF Next, Serve, Arrive, Cancel, Authenticate, ScanTokens, PublishOwner, BeginTx,
             Statement, RollbackTx, CommitTx, IdleTimeout, AllServed, vars
    <2> QED
      BY <2>1, <2>2, <2>3
  <1> QED
    BY <1>1, <1>2, <1>4, <1>5 DEF Announced

\* A request keeps its identity.
LEMMA IdentifiedKeeps ==
  ASSUME TypeOK, [Next]_vars, NEW r \in Requests, Identified(r)
  PROVE  Identified(r)' /\ principal'[r] = principal[r]
  BY SettledKeeps DEF Identified

\* No step takes away the holders of a transaction.
LEMMA HoldersKeep ==
  ASSUME TypeOK, Announced, Owned, [Next]_vars,
         NEW t \in TokenIds, Settled(t[1]), NEW p \in Holders(t)
  PROVE  \E q \in Requests : p = principal'[q] /\ (q = t[1] \/ <<q, t>> \in stray')
  <1>1. PICK q \in Requests : p = principal[q] /\ (q = t[1] \/ <<q, t>> \in stray)
    BY DEF Holders
  <1>2. Settled(q)
    BY <1>1 DEF Owned
  <1>3. stray \subseteq stray'
    BY OwnerSteps DEF PublishOwner
  <1> QED
    BY <1>1, <1>2, <1>3, SettledKeeps

\* The current transaction, its owner and its writes belong to its holders.
LEMMA NextOwned == ASSUME TypeOK, Authentic, Announced, Owned, [Next]_vars PROVE Owned'
  <1>0. /\ begun = [q \in Requests |-> begun[q]]
        /\ dbTxID # None => dbTxID \in TokenIds /\ dbTxID[1] \in Requests
        /\ \A w \in wrote : w[1][1] \in Requests /\ w[2] \in TokenIds /\ w[2][1] \in Requests
        /\ \A s \in stray : s[1] \in Requests
        /\ \A r \in Requests : InHandler(r) =>
              Settled(r) /\ (~authIsDisabled => Identified(r))
    BY DEF TypeOK, TokenIds, InHandler, Settled, Authentic
  <1>1. ASSUME NEW s \in stray' PROVE Settled(s[1])' /\ (~authIsDisabled => Identified(s[1])')
    <2>1. PICK q \in Requests : q = s[1] /\ Settled(q) /\ (~authIsDisabled => Identified(q))
      <3>1. CASE s \in stray
        BY <1>0, <3>1 DEF Owned
      <3>2. ASSUME NEW r \in Requests, PublishOwner(r), s = <<r, dbTxID>>
            PROVE  s[1] = r /\ Settled(r) /\ (~authIsDisabled => Identified(r))
        BY <1>0, <3>2 DEF PublishOwner, Announced
      <3> QED
        BY <1>0, <3>1, <3>2, OwnerSteps DEF PublishOwner
    <2>2. Settled(q)' /\ (~authIsDisabled => Identified(q)')
      BY <2>1, SettledKeeps, IdentifiedKeeps
    <2> QED
      BY <2>1, <2>2 DEF Settled, Identified
  <1>2. ASSUME dbTxID' # None
        PROVE  Settled(dbTxID[1])' /\ (~authIsDisabled => Identified(dbTxID[1])')
    <2>1. PICK q \in Requests : q = dbTxID'[1] /\ Settled(q) /\ (~authIsDisabled => Identified(q))
      <3>1. CASE UNCHANGED dbTxID
        BY <1>0, <1>2, <3>1 DEF Owned
      <3>2. ASSUME NEW r \in Requests, NEW i, InHandler(r), dbTxID' = <<r, i>>
            PROVE  dbTxID'[1] = r /\ Settled(r) /\ (~authIsDisabled => Identified(r))
        BY <1>0, <3>2
      <3> QED
        BY <1>2, <3>1, <3>2, OwnerSteps DEF PublishOwner
    <2>2. Settled(q)' /\ (~authIsDisabled => Identified(q)')
      BY <2>1, SettledKeeps, IdentifiedKeeps
    <2> QED
      BY <2>1, <2>2 DEF Settled, Identified
  <1>3. ASSUME Published' PROVE owner' \in Holders(dbTxID)'
    <2>0. SUFFICES \E q \in Requests :
                      owner' = principal'[q] /\ (q = dbTxID'[1] \/ <<q, dbTxID'>> \in stray')
      BY DEF Holders
    <2>1. CASE UNCHANGED <<dbTxID, owner, begun>>
      <3>1. Published /\ dbTxID \in TokenIds /\ Settled(dbTxID[1]) /\ owner \in Holders(dbTxID)
        BY <1>0, <1>3, <2>1 DEF Published, Owned
      <3>2. \E q \in Requests :
               owner = principal'[q] /\ (q = dbTxID[1] \/ <<q, dbTxID>> \in stray')
        BY <3>1, HoldersKeep
      <3> QED
        BY <2>1, <3>2
    <2>2. ASSUME NEW r \in Requests, NEW i, dbTxID' = <<r, i>>,
                 begun' = [begun EXCEPT ![r] = <<r, i>>]
          PROVE  FALSE
      BY <1>0, <1>3, <2>2 DEF Published
    <2>3. ASSUME NEW r \in Requests, PublishOwner(r)
          PROVE  /\ owner' = principal'[r]
                 /\ r = dbTxID'[1] \/ <<r, dbTxID'>> \in stray'
      <3>1. owner' = principal'[r] /\ dbTxID' = dbTxID
        BY <2>3 DEF PublishOwner, authVars
      <3>2. CASE Published
        BY <2>3, <3>1, <3>2 DEF PublishOwner
      <3>3. CASE ~Published
        <4>1. begun[dbTxID[1]] = dbTxID /\ begun'[dbTxID[1]] # dbTxID /\ dbTxID[1] \in Requests
          BY <1>0, <1>3, <3>1, <3>3 DEF Published
        <4>2. r = dbTxID[1]
          BY <1>0, <2>3, <4>1 DEF PublishOwner
        <4> QED
          BY <3>1, <4>2
      <3> QED
        BY <3>1, <3>2, <3>3
    <2>4. dbTxID' # None
      BY <1>3 DEF Published
    <2> QED
      BY <2>1, <2>2, <2>3, <2>4, OwnerSteps
  <1>4. ASSUME ~authIsDisabled, NEW w \in wrote'
        PROVE  /\ Identified(w[1][1])' /\ Identified(w[2][1])'
               /\ principal'[w[1][1]] \in Holders(w[2])'
    <2>1. /\ w[1][1] \in Requests /\ w[2] \in TokenIds /\ w[2][1] \in Requests
          /\ Identified(w[1][1]) /\ Identified(w[2][1]) /\ principal[w[1][1]] \in Holders(w[2])
      <3>1. CASE w \in wrote
        BY <1>0, <1>4, <3>1 DEF Owned
      <3>2. ASSUME NEW r \in Requests, NEW i, InHandler(r), Published, w = <<<<r, i>>, dbTxID>>,
                   principal[r] # None => principal[r] = owner
            PROVE  /\ w[1][1] \in Requests /\ w[2] \in TokenIds /\ w[2][1] \in Requests
                   /\ Identified(w[1][1]) /\ Identified(w[2][1])
                   /\ principal[w[1][1]] \in Holders(w[2])
        <4>1. w[1][1] = r /\ w[2] = dbTxID /\ dbTxID # None
          BY <3>2 DEF Published
        <4>2. Identified(r) /\ Identified(dbTxID[1]) /\ owner \in Holders(dbTxID)
          BY <1>0, <1>4, <3>2, <4>1 DEF Owned
        <4>3. principal[r] = owner
          BY <3>2, <4>2 DEF Identified
        <4> QED
          BY <1>0, <4>1, <4>2, <4>3
      <3> QED
        BY <3>1, <3>2, OwnerSteps DEF PublishOwner
    <2>2. Identified(w[1][1])' /\ Identified(w[2][1])' /\ principal'[w[1][1]] = principal[w[1][1]]
      BY <2>1, IdentifiedKeeps
    <2>3. \E q \in Requests :
             principal[w[1][1]] = principal'[q] /\ (q = w[2][1] \/ <<q, w[2]>> \in stray')
      BY <2>1, HoldersKeep DEF Identified
    <2> QED
      BY <2>2, <2>3 DEF Holders
  <1> QED
    BY <1>1, <1>2, <1>3, <1>4 DEF Owned

\* Which rows a step adds.
LEMMA RowSteps ==
  ASSUME TypeOK, [Next]_vars, NEW row \in store' \cup buf'
  PROVE  \/ row \in store \cup buf
         \/ \E r \in Requests, i \in Nat :
               /\ row = <<r, i>> /\ InHandler(r) /\ row \in RowsBy(r)
               /\ Permits(role[r], Needs("write"))
  <1>1. CASE \/ UNCHANGED managerVars \/ IdleTimeout
             \/ \E r \in Requests : PublishOwner(r) \/ \E id : Fell(r, id)
    BY <1>1 DEF managerVars, IdleTimeout, PublishOwner, Fell, Store!Rollback
  <1>2. ASSUME NEW r \in Requests, NEW k, NEW id, NEW i, Ran(r, k, id, i)
        PROVE  \/ row \in store \cup buf
               \/ \E j \in Nat :
                     /\ row = <<r, j>> /\ InHandler(r) /\ row \in RowsBy(r)
                     /\ Permits(role[r], Needs("write"))
    <2>1. CASE k = "write"
      <3>1. i \in Nat
        <4>1. i \in 0 .. MaxScript
          BY <1>2, <2>1, RanToken
        <4> QED
          BY <4>1, ServerAssumption
      <3>2. i \in DOMAIN req[r].script /\ req[r].script[i] = "write" /\ InHandler(r)
        BY <1>2, <2>1 DEF Ran, InHandler
      <3>3. row \in store \cup buf \/ row = <<r, i>>
        BY <1>2, <2>1 DEF Ran, Effect, Store!PlainWrite, Store!TxWrite
      <3>4. Permits(role[r], Needs("write"))
        BY <1>2, <2>1 DEF Ran, Accepted
      <3> QED
        BY <3>1, <3>2, <3>3, <3>4 DEF RowsBy
    <2>2. CASE k # "write"
      BY <1>2, <2>2
      DEF Ran, Effect, managerVars, Store!Begin, Store!Commit, Store!Rollback
    <2> QED
      BY <2>1, <2>2
  <1> QED
    BY <1>1, <1>2, ManagerSteps

\* Only requests that may write have rows.
LEMMA NextWritten == ASSUME TypeOK, Authentic, Written, [Next]_vars PROVE Written'
  <1> SUFFICES ASSUME NEW row \in store' \cup buf'
               PROVE  /\ Settled(row[1])' /\ row \in RowsBy(row[1])'
                      /\ req'[row[1]].route # "query"
                      /\ authIsDisabled \/
                            \E i \in Matches(req'[row[1]].secret) : AuthTokens[i].role # "ro"
    BY DEF Written, ReadersNeverWrite
  <1>1. ASSUME row[1] \in Requests, Settled(row[1]), row \in RowsBy(row[1]),
               req[row[1]].route # "query",
               authIsDisabled \/ \E i \in Matches(req[row[1]].secret) : AuthTokens[i].role # "ro"
        PROVE  /\ Settled(row[1])' /\ row \in RowsBy(row[1])'
               /\ req'[row[1]].route # "query"
               /\ authIsDisabled \/
                     \E i \in Matches(req'[row[1]].secret) : AuthTokens[i].role # "ro"
    BY <1>1, SettledKeeps DEF RowsBy
  <1>2. CASE row \in store \cup buf
    <2>1. row[1] \in Requests
      BY <1>2 DEF TypeOK, TokenIds
    <2> QED
      BY <1>1, <1>2, <2>1 DEF Written, ReadersNeverWrite
  <1>3. ASSUME NEW r \in Requests, NEW i \in Nat, row = <<r, i>>, InHandler(r), row \in RowsBy(r),
               Permits(role[r], Needs("write"))
        PROVE  /\ Settled(row[1])' /\ row \in RowsBy(row[1])'
               /\ req'[row[1]].route # "query"
               /\ authIsDisabled \/
                     \E j \in Matches(req'[row[1]].secret) : AuthTokens[j].role # "ro"
    <2>1. row[1] = r /\ Settled(r)
      BY <1>3 DEF InHandler, Settled
    <2>2. role[r] # "ro"
      BY <1>3 DEF Permits, Needs, Writes, Authorize, ReadAction
    <2>3. req[r].route # "query" /\ (authIsDisabled \/ HasRole(req[r].secret, role[r]))
      BY <1>3, <2>2 DEF Authentic
    <2> QED
      BY <1>1, <1>3, <2>1, <2>2, <2>3 DEF HasRole
  <1> QED
    BY <1>2, <1>3, RowSteps

\* AuthInv holds in every reachable state of Server.
THEOREM AuthDiscipline == Spec => []AuthInv
  <1>1. Init => AuthInv
    <2> SUFFICES ASSUME Init PROVE AuthInv
      OBVIOUS
    <2>1. {r \in Requests : InHandler(r)} = {}
          /\ {r \in Requests : InHandler(r) \/ (st[r] = "done" /\ req[r].route \in Handled)} = {}
      BY DEF Init, InHandler
    <2>2. Gauges
      BY <2>1, FS_EmptySet DEF Gauges, GaugeMatches, Init
    <2>3. Authentic /\ Announced /\ Owned /\ Written
      BY DEF Init, Store!Init, Authentic, InHandler, Announced, Published, Owned, Written,
             ReadersNeverWrite
    <2> QED
      BY <2>2, <2>3 DEF AuthInv
  <1>2. TypeOK /\ AuthInv /\ [Next]_vars => AuthInv'
    BY NextAuthentic, NextGauges, NextAnnounced, NextOwned, NextWritten DEF AuthInv
  <1> QED
    BY <1>1, <1>2, TypeCorrect, PTL DEF Spec

\* The gauge of queued requests and the counter of requests that server.go
\* reports at /status are exact, however requests end.
THEOREM GaugesAreExact == Spec => []GaugeMatches
  <1>1. AuthInv => GaugeMatches
    BY DEF AuthInv, Gauges
  <1> QED
    BY <1>1, AuthDiscipline, PTL

\* A request to /db/query, and a token that is only configured as read-only,
\* never writes a row: neither a race on the token cache nor a transaction id
\* of somebody else gives a request a better role.
THEOREM ReadersDoNotWrite == Spec => []ReadersNeverWrite
  <1>1. AuthInv => ReadersNeverWrite
    BY DEF AuthInv, Written
  <1> QED
    BY <1>1, AuthDiscipline, PTL

\* When tokens are configured, every write under the id of a transaction was sent
\* with the token that began it, or with that of a request whose BEGIN was
\* overtaken by the idle timeout and stored its owner (db.go:475) over that of the
\* transaction: nothing else lets one client into the transaction of another.
THEOREM TransactionsArePrivate == ASSUME ~authIsDisabled PROVE Spec => []OwnTransactionOnly
  <1>1. TypeOK /\ AuthInv => OwnTransactionOnly
    <2> SUFFICES ASSUME TypeOK, AuthInv, NEW w \in wrote
                 PROVE  \/ req[w[1][1]].secret = req[w[2][1]].secret
                        \/ \E s \in stray : s[2] = w[2] /\ req[s[1]].secret = req[w[1][1]].secret
      BY DEF OwnTransactionOnly
    <2>1. /\ Identified(w[1][1]) /\ Identified(w[2][1]) /\ principal[w[1][1]] \in Holders(w[2])
          /\ \A s \in stray : Identified(s[1])
      BY DEF AuthInv, Owned
    <2>2. PICK q \in Requests :
             principal[w[1][1]] = principal[q] /\ (q = w[2][1] \/ <<q, w[2]>> \in stray)
      BY <2>1 DEF Holders
    <2>3. CASE q = w[2][1]
      BY <2>1, <2>2, <2>3 DEF Identified
    <2>4. CASE <<q, w[2]>> \in stray
      <3>1. <<q, w[2]>>[1] = q /\ <<q, w[2]>>[2] = w[2]
        OBVIOUS
      <3>2. req[q].secret = req[w[1][1]].secret
        BY <2>1, <2>2, <2>4, <3>1 DEF Identified
      <3> QED
        BY <2>4, <3>1, <3>2
    <2> QED
      BY <2>2, <2>3, <2>4
  <1> QED
    BY <1>1, TypeCorrect, AuthDiscipline, PTL
-----------------------------------------------------------------------------
\* The loop over the statements of a request.

\* A result added at the end.
LEMMA Appended ==
  ASSUME NEW s \in Seq(BOOLEAN), NEW ok \in BOOLEAN
  PROVE  /\ Append(s, ok) \in Seq(BOOLEAN) /\ Len(Append(s, ok)) = Len(s) + 1
         /\ DOMAIN Append(s, ok) = DOMAIN s \cup {Len(s) + 1}
         /\ \A i \in DOMAIN s : Append(s, ok)[i] = s[i] /\ i # Len(s) + 1
         /\ Append(s, ok)[Len(s) + 1] = ok
         /\ (\E i \in DOMAIN Append(s, ok) : ~Append(s, ok)[i]) <=>
               (~ok \/ \E i \in DOMAIN s : ~s[i])
  <1>1. /\ Append(s, ok) \in Seq(BOOLEAN) /\ Len(Append(s, ok)) = Len(s) + 1
        /\ DOMAIN Append(s, ok) = DOMAIN s \cup {Len(s) + 1}
        /\ \A i \in DOMAIN s : Append(s, ok)[i] = s[i] /\ i # Len(s) + 1
        /\ Append(s, ok)[Len(s) + 1] = ok
    OBVIOUS
  <1> DEFINE a == Append(s, ok)
             n == Len(s) + 1
  <1>2. (\E i \in DOMAIN a : ~a[i]) <=> (~ok \/ \E i \in DOMAIN s : ~s[i])
    <2>1. DOMAIN a = DOMAIN s \cup {n} /\ (\A i \in DOMAIN s : a[i] = s[i]) /\ a[n] = ok
      BY <1>1
    <2> HIDE DEF a, n
    <2> QED
      BY <2>1, Zenon
  <1> QED
    BY <1>1, <1>2

\* An id that a client was told is that of one of its own BEGINs.
LEMMA NextUnnamed == ASSUME TypeOK, Unnamed, [Next]_vars PROVE Unnamed'
  <1>1. ASSUME NEW t \in known' PROVE t[2] # 0
    <2>1. CASE t \in known
      BY <2>1 DEF Unnamed
    <2>2. ASSUME NEW r \in Requests, Answer(r), t \notin known PROVE t[2] # 0
      <3>1. PICK i \in DOMAIN results[r] : t = <<r, i>>
        BY <2>2 DEF Answer
      <3>2. i # 0
        BY <3>1, ScriptFacts
      <3> QED
        BY <3>1, <3>2
    <2>3. UNCHANGED known \/ \E r \in Requests : Answer(r)
      BY DEF Next, Serve, Arrive, Cancel, Authenticate, ScanTokens, PublishOwner, BeginTx,
             Statement, RollbackTx, CommitTx, IdleTimeout, AllServed, vars
    <2> QED
      BY <2>1, <2>2, <2>3
  <1>2. ASSUME NEW r \in Requests, req'[r].txId # None PROVE req'[r].txId[2] # 0
    <2>1. CASE req'[r] = req[r]
      BY <1>2, <2>1 DEF Unnamed
    <2>2. CASE Arrives(r)
      BY <1>2, <2>2 DEF Arrives, ClientRequests, Unnamed
    <2> QED
      BY <2>1, <2>2, LoopSteps
      DEF Kept, Enters, Answers, Begins, RollsBack, Commits, Steps
  <1> QED
    BY <1>1, <1>2 DEF Unnamed

\* Every step keeps HasTx.
LEMMA NextHasTx == ASSUME TypeOK, HasTx, [Next]_vars PROVE HasTx'
  <1> SUFFICES ASSUME NEW r \in Requests PROVE HasTxOf(r)'
    BY DEF HasTx
  <1>0. HasTxOf(r)
    BY DEF HasTx
  <1>1. CASE st'[r] = st[r] /\ Kept(r)
    BY <1>0, <1>1 DEF Kept, HasTxOf, Settled
  <1>2. CASE Arrives(r)
    <2>1. req'[r].transaction => req'[r].route \in Handled
      BY <1>2 DEF Arrives, ClientRequests, Handled
    <2> QED
      BY <1>0, <1>2, <2>1 DEF Arrives, HasTxOf, Settled
  <1>3. CASE Enters(r)
    BY <1>0, <1>3 DEF Enters, HasTxOf, Settled
  <1>4. CASE Answers(r)
    BY <1>0, <1>4 DEF Answers, Kept, HasTxOf, Settled
  <1>5. ASSUME NEW ok \in BOOLEAN, Begins(r, ok) PROVE HasTxOf(r)'
    <2>1. ok => Permits(role[r], Needs("rollback"))
      BY <1>5 DEF Begins, executeRequestQuery, Accepted, Needs, Writes
    <2>2. CASE ok
      <3>1. /\ st'[r] = "run" /\ txId'[r] = <<r, 0>> /\ req'[r] = req[r] /\ role'[r] = role[r]
            /\ st[r] = "begin"
        BY <1>5, <2>2 DEF Begins
      <3>2. Settled(r)'
        BY <3>1 DEF Settled
      <3>3. <<r, 0>> # None
        BY ServerAssumption
      <3> QED
        BY <1>0, <2>1, <2>2, <3>1, <3>2, <3>3 DEF HasTxOf
    <2>3. CASE ~ok
      <3>1. /\ st'[r] = "answer" /\ txId'[r] = None /\ req'[r] = req[r]
        BY <1>5, <2>3 DEF Begins
      <3>2. Settled(r)'
        BY <3>1 DEF Settled
      <3> QED
        BY <1>0, <3>1, <3>2 DEF HasTxOf
    <2> QED
      BY <2>2, <2>3
  <1>6. ASSUME NEW ok \in BOOLEAN, RollsBack(r, ok) PROVE HasTxOf(r)'
    BY <1>0, <1>6 DEF RollsBack, Kept, HasTxOf, Settled
  <1>7. ASSUME NEW ok \in BOOLEAN, Commits(r, ok) PROVE HasTxOf(r)'
    BY <1>0, <1>7 DEF Commits, HasTxOf, Settled
  <1>8. ASSUME NEW ok \in BOOLEAN, NEW id, Steps(r, ok, id) PROVE HasTxOf(r)'
    BY <1>0, <1>8 DEF Steps, NextAfter, HasTxOf, Settled
  <1> QED
    BY <1>1, <1>2, <1>3, <1>4, <1>5, <1>6, <1>7, <1>8, LoopSteps

\* Every step keeps InLoop.
LEMMA NextInLoop == ASSUME TypeOK, HasTx, InLoop, [Next]_vars PROVE InLoop'
  <1> SUFFICES ASSUME NEW r \in Requests PROVE InLoopOf(r)'
    BY DEF InLoop
  <1>0. InLoopOf(r) /\ HasTxOf(r)
    BY DEF InLoop, HasTx
  <1>1. /\ Len(<<>>) = 0 /\ DOMAIN <<>> = {}
        /\ Len(req[r].script) \in Nat /\ Len(results[r]) \in Nat
        /\ req[r].script # <<>> => 0 < Len(req[r].script)
    BY ScriptFacts
  <1>2. CASE st'[r] = st[r] /\ Kept(r)
    BY <1>0, <1>2 DEF Kept, InLoopOf, HasError
  <1>3. CASE Arrives(r) \/ Answers(r)
    BY <1>3 DEF Arrives, Answers, InLoopOf
  <1>4. CASE Enters(r)
    <2>1. st'[r] = "run" => results'[r] = <<>> /\ req'[r] = req[r]
      BY <1>0, <1>4 DEF Enters, HasTxOf, Settled
    <2>2. st'[r] \notin {"commit", "rollback"}
      BY <1>4 DEF Enters
    <2> QED
      BY <1>1, <2>1, <2>2 DEF InLoopOf, HasError
  <1>5. ASSUME NEW ok \in BOOLEAN, Begins(r, ok) PROVE InLoopOf(r)'
    <2>1. st'[r] = "run" => results'[r] = <<>> /\ req'[r] = req[r]
      BY <1>5 DEF Begins
    <2>2. st'[r] \notin {"commit", "rollback"}
      BY <1>5 DEF Begins
    <2> QED
      BY <1>1, <2>1, <2>2 DEF InLoopOf, HasError
  <1>6. ASSUME NEW ok \in BOOLEAN, RollsBack(r, ok) \/ Commits(r, ok) PROVE InLoopOf(r)'
    BY <1>6 DEF RollsBack, Commits, InLoopOf
  <1>7. ASSUME NEW ok \in BOOLEAN, NEW id, Steps(r, ok, id) PROVE InLoopOf(r)'
    <2>1. /\ results[r] \in Seq(BOOLEAN) /\ results'[r] = Append(results[r], ok)
          /\ req'[r] = req[r] /\ txId'[r] = txId[r] /\ st'[r] = NextAfter(r, ok)
          /\ st[r] = "run" /\ Len(results[r]) < Len(req[r].script)
      BY <1>7, ScriptFacts DEF Steps
    <2>2. Len(results'[r]) = Len(results[r]) + 1
      BY <2>1, Appended
    <2>3. HasError(r)' <=> (~ok \/ HasError(r))
      BY <2>1, Appended DEF HasError
    <2>4. req[r].script # <<>>
      BY <1>1, <2>1
    <2>5. st'[r] = "run" => Len(results'[r]) < Len(req[r].script)
      BY <1>1, <2>1, <2>2 DEF NextAfter
    <2>6. st'[r] = "commit" => Len(results'[r]) = Len(req[r].script)
      BY <1>1, <2>1, <2>2 DEF NextAfter
    <2>7. st'[r] \in {"run", "commit"} /\ txId'[r] # None => ok /\ ~HasError(r)
      BY <1>0, <2>1 DEF NextAfter, InLoopOf
    <2>8. st'[r] = "rollback" => ~ok
      BY <2>1 DEF NextAfter
    <2>9. Len(results'[r]) \in Nat
      BY <1>1, <2>2
    <2>10. /\ st'[r] \in {"run", "commit"} /\ txId'[r] # None => ~HasError(r)'
           /\ st'[r] = "rollback" => HasError(r)'
      BY <2>3, <2>7, <2>8
    <2>11. st'[r] = "run" => Len(results'[r]) <= Len(req[r].script)
      BY <1>1, <2>5, <2>9
    <2> QED
      BY <2>1, <2>4, <2>5, <2>6, <2>10, <2>11 DEF InLoopOf
  <1> QED
    BY <1>2, <1>3, <1>4, <1>5, <1>6, <1>7, LoopSteps

\* What a step does to the transaction that the server begins for a request: only
\* BeginTx begins it, and only a statement of that request makes SQLite leave it.
LEMMA OpenSteps ==
  ASSUME TypeOK, Unnamed, HasTx, [Next]_vars, NEW r \in Requests, dbTxID' = <<r, 0>>
  PROVE  \/ dbTxID = <<r, 0>> /\ UNCHANGED open /\ buf \subseteq buf'
         \/ dbTxID = <<r, 0>> /\ open' = None /\ st'[r] = "rollback"
         \/ st[r] = "begin"
  <1>0. <<r, 0>> # None
    BY ServerAssumption
  <1>1. CASE UNCHANGED managerVars \/ IdleTimeout \/ \E q \in Requests : PublishOwner(q)
    BY <1>0, <1>1 DEF managerVars, IdleTimeout, ClearTx, PublishOwner
  <1>2. ASSUME NEW q \in Requests, NEW k, NEW id, NEW i, Ran(q, k, id, i)
        PROVE  (dbTxID = <<r, 0>> /\ UNCHANGED open /\ buf \subseteq buf') \/ st[r] = "begin"
    <2>1. CASE k = "begin"
      <3>1. dbTxID' = <<q, i>>
        BY <1>2, <2>1 DEF Ran, Effect
      <3>2. q = r /\ i = 0
        BY <3>1
      <3>3. i \notin DOMAIN req[q].script
        BY <3>2, ScriptFacts
      <3> QED
        BY <1>2, <2>1, <3>2, <3>3 DEF Ran
    <2>2. CASE k # "begin"
      BY <1>0, <1>2, <2>2
      DEF Ran, Effect, ClearTx, managerVars, Store!PlainWrite, Store!TxWrite
    <2> QED
      BY <2>1, <2>2
  <1>3. ASSUME NEW q \in Requests, NEW id, Fell(q, id)
        PROVE  dbTxID = <<r, 0>> /\ open' = None /\ st'[r] = "rollback"
    <2>1. dbTxID = <<r, 0>> /\ open' = None
      BY <1>3 DEF Fell, Store!Rollback
    <2>2. id = <<r, 0>> /\ id \in StatementTx(q)
      BY <1>0, <1>3, <2>1 DEF Fell, Waits, Writes, Accepted, TxValid
    <2>3. txId[q] = id
      <3>1. id # req[q].txId
        BY <1>0, <2>2 DEF Unnamed
      <3> QED
        BY <1>0, <2>2, <3>1 DEF StatementTx
    <2>4. q = r /\ txId[r] # None
      BY <1>0, <2>2, <2>3 DEF HasTx, HasTxOf
    <2> QED
      BY <1>3, <2>1, <2>4 DEF Fell, NextAfter
  <1> QED
    BY <1>1, <1>2, <1>3, ManagerSteps

\* The ROLLBACK for a request fails only if its client is gone, its transaction is
\* over, SQLite has left it, or a late BEGIN has taken it over; a COMMIT that
\* fails is in the results.
LEMMA NextEndedOrFailed ==
  ASSUME TypeOK, AuthInv, ScriptInv, [Next]_vars PROVE EndedOrFailed'
  <1> SUFFICES ASSUME NEW r \in Requests, st'[r] \in {"answer", "done"}, txId'[r] # None,
                      dbTxID' = txId'[r]
               PROVE  \/ r \in cancelled' \/ Len(results'[r]) > Len(req'[r].script)
                      \/ open' = None \/ \E s \in stray' : s[2] = txId'[r]
    BY DEF EndedOrFailed
  <1>0. HasTxOf(r) /\ InLoopOf(r) /\ <<r, 0>> # None
    BY ServerAssumption DEF ScriptInv, HasTx, InLoop
  <1>1. HasTxOf(r)' /\ cancelled \subseteq cancelled' /\ stray \subseteq stray'
    <2>1. HasTx'
      BY NextHasTx DEF ScriptInv
    <2>2. cancelled \subseteq cancelled'
      BY DEF Next, Serve, Arrive, Cancel, Authenticate, ScanTokens, PublishOwner, BeginTx,
             Statement, RollbackTx, CommitTx, Answer, IdleTimeout, AllServed, vars
    <2>3. stray \subseteq stray'
      BY OwnerSteps DEF AuthInv, PublishOwner
    <2> QED
      BY <2>1, <2>2, <2>3 DEF HasTx
  <1>2. txId'[r] = <<r, 0>> /\ dbTxID' = <<r, 0>>
    BY <1>1 DEF HasTxOf
  <1>3. (dbTxID = <<r, 0>> /\ (open = None => open' = None)) \/ st[r] = "begin"
    BY <1>2, OpenSteps DEF ScriptInv
  <1>4. CASE st[r] \in {"answer", "done"} /\ Kept(r)
    <2>1. dbTxID = txId[r] /\ txId[r] # None /\ (open = None => open' = None)
      BY <1>2, <1>3, <1>4 DEF Kept
    <2>2. \/ r \in cancelled \/ Len(results[r]) > Len(req[r].script)
          \/ open = None \/ \E s \in stray : s[2] = txId[r]
      BY <1>4, <2>1 DEF ScriptInv, EndedOrFailed
    <2> QED
      BY <1>1, <1>4, <2>1, <2>2 DEF Kept
  <1>5. ASSUME NEW ok \in BOOLEAN, RollsBack(r, ok)
        PROVE  r \in cancelled' \/ open' = None \/ \E s \in stray' : s[2] = txId'[r]
    <2>1. /\ txId[r] = <<r, 0>> /\ dbTxID = <<r, 0>> /\ Permits(role[r], Needs("rollback"))
          /\ begun[r] = None /\ (open = None => open' = None)
      BY <1>0, <1>2, <1>3, <1>5 DEF RollsBack, Kept, HasTxOf
    <2>2. CASE ok
      BY <1>0, <1>2, <1>5, <2>2 DEF RollsBack, executeRequestQuery, Effect, ClearTx
    <2>3. CASE ~ok /\ Accepted(r, "rollback", txId[r]) /\ Failure("rollback")
      BY <2>1, <2>3 DEF Failure
    <2>4. CASE ~Accepted(r, "rollback", txId[r]) /\ r \notin cancelled
      <3>1. owner # principal[r]
        BY <1>0, <2>1, <2>4 DEF Accepted, TxValid
      <3>2. Published
        BY <1>0, <2>1 DEF Published
      <3>3. PICK q \in Requests : owner = principal[q] /\ (q = dbTxID[1] \/ <<q, dbTxID>> \in stray)
        BY <3>2 DEF AuthInv, Owned, Holders
      <3>4. <<q, txId[r]>> \in stray
        BY <2>1, <3>1, <3>3
      <3>5. <<q, txId[r]>>[2] = txId'[r]
        BY <1>2, <2>1
      <3> QED
        BY <1>1, <3>4, <3>5
    <2> QED
      BY <1>1, <1>5, <2>2, <2>3, <2>4 DEF RollsBack, executeRequestQuery
  <1>6. ASSUME NEW ok \in BOOLEAN, Commits(r, ok)
        PROVE  Len(results'[r]) > Len(req'[r].script)
    <2>1. CASE ok
      BY <1>0, <1>2, <1>6, <2>1 DEF Commits, executeRequestQuery, Effect, ClearTx
    <2>2. CASE ~ok
      <3>1. /\ results'[r] = Append(results[r], FALSE) /\ req'[r] = req[r]
            /\ Len(results[r]) = Len(req[r].script)
        BY <1>0, <1>6, <2>2 DEF Commits, InLoopOf
      <3>2. results[r] \in Seq(BOOLEAN) /\ Len(results[r]) \in Nat
        BY ScriptFacts
      <3>3. Len(results'[r]) = Len(results[r]) + 1
        BY <3>1, <3>2, Appended
      <3> QED
        BY <3>1, <3>2, <3>3
    <2> QED
      BY <2>1, <2>2
  <1>7. ~Arrives(r) /\ ~Enters(r) /\ \A ok \in BOOLEAN : ~Begins(r, ok)
    BY <1>0 DEF Arrives, Enters, Begins, HasTxOf
  <1>8. ASSUME NEW ok \in BOOLEAN, NEW id, Steps(r, ok, id) PROVE FALSE
    BY <1>8 DEF Steps, NextAfter
  <1>9. Answers(r) => st[r] \in {"answer", "done"} /\ Kept(r)
    BY <1>0 DEF Answers, Kept, HasTxOf
  <1> QED
    BY <1>4, <1>5, <1>6, <1>7, <1>8, <1>9, LoopSteps

\* ScriptInv holds in every reachable state of Server.
THEOREM ScriptDiscipline == Spec => []ScriptInv
  <1>1. Init => ScriptInv
    BY DEF Init, Store!Init, ScriptInv, Unnamed, HasTx, HasTxOf, InLoop, InLoopOf, EndedOrFailed,
           Settled
  <1>2. TypeOK /\ AuthInv /\ ScriptInv /\ [Next]_vars => ScriptInv'
    BY NextUnnamed, NextHasTx, NextInLoop, NextEndedOrFailed DEF ScriptInv
  <1> QED
    BY <1>1, <1>2, TypeCorrect, AuthDiscipline, PTL DEF Spec

\* The manager still has the transaction that executeRQLiteQueries began for an
\* answered request only if its client went away, its COMMIT failed, SQLite had
\* left it (db.go:524-528 then fails), or a late BEGIN has taken it over: the
\* ROLLBACK whose outcome the code ignores does not fail for any other reason.
THEOREM TransactionsAreEnded == Spec => []OpenOnlyAfterFailedEnd
  <1>1. ScriptInv => OpenOnlyAfterFailedEnd
    BY DEF ScriptInv, EndedOrFailed, OpenOnlyAfterFailedEnd
  <1> QED
    BY <1>1, ScriptDiscipline, PTL
-----------------------------------------------------------------------------
\* The "transaction" parameter.

\* A statement of a request with the parameter names the transaction begun for it.
LEMMA OwnWrite ==
  ASSUME TypeOK, ScriptInv, AllHeldBack, NEW q \in Requests, NEW id, NEW i,
         Ran(q, "write", id, i), req[q].transaction
  PROVE  open = <<q, 0>> /\ open # None
  <1>1. st[q] = "run" /\ i \in DOMAIN req[q].script /\ id \in StatementTx(q)
    BY DEF Ran
  <1>2. req[q].script # <<>>
    BY <1>1
  <1>3. txId[q] # None /\ txId[q] = <<q, 0>>
    BY <1>1, <1>2 DEF ScriptInv, HasTx, HasTxOf
  <1>4. id = <<q, 0>> /\ id # None
    BY <1>1, <1>3 DEF StatementTx
  <1>5. dbTxID = <<q, 0>>
    BY <1>4, RanToken
  <1> QED
    BY <1>1, <1>4, <1>5 DEF AllHeldBack, HeldBackOf

\* Nobody else can commit it.
LEMMA OwnEnd ==
  ASSUME TypeOK, AuthInv, ScriptInv, NEW r \in Requests, open = <<r, 0>>,
         NEW q \in Requests, NEW id, NEW i, Ran(q, "commit", id, i)
  PROVE  q = r
  <1>1. id # None /\ open = id
    <2>1. id # None /\ dbTxID = id
      BY RanToken DEF Ran, Accepted
    <2> QED
      BY <2>1, ServerAssumption DEF AuthInv, Announced
  <1>2. id = txId[q] \/ id = req[q].txId
    BY <1>1 DEF Ran, StatementTx
  <1>3. CASE id = txId[q]
    BY <1>1, <1>3 DEF ScriptInv, HasTx, HasTxOf
  <1>4. CASE id = req[q].txId
    BY <1>1, <1>4 DEF ScriptInv, Unnamed
  <1> QED
    BY <1>2, <1>3, <1>4

\* The rows of a request with the parameter are stored by its own COMMIT only.
LEMMA NewlyStored ==
  ASSUME TypeOK, AuthInv, ScriptInv, AllHeldBack, NoOwnCommit, [Next]_vars,
         NEW row \in store', row \notin store, req[row[1]].transaction
  PROVE  st[row[1]] = "commit" /\ st'[row[1]] = "answer"
  <1>1. /\ store' # store /\ ~IdleTimeout /\ ~UNCHANGED managerVars
        /\ \A q \in Requests : ~PublishOwner(q) /\ \A id : ~Fell(q, id)
    BY DEF IdleTimeout, PublishOwner, Fell, Store!Rollback, managerVars
  <1>2. PICK q \in Requests : \E k, id, i : Ran(q, k, id, i)
    BY <1>1, ManagerSteps
  <1>3. PICK k, id, i : Ran(q, k, id, i)
    BY <1>2
  <1>4. CASE k = "write"
    <2>1. open = None /\ row = <<q, i>>
      BY <1>3, <1>4 DEF Ran, Effect, Store!PlainWrite, Store!TxWrite
    <2>2. open # None
      BY <1>3, <1>4, <2>1, OwnWrite
    <2> QED
      BY <2>1, <2>2
  <1>5. CASE k = "commit"
    <2>1. row \in buf
      BY <1>3, <1>5 DEF Ran, Effect, Store!Commit
    <2>2. PICK r \in Requests : r = row[1]
      BY <2>1 DEF TypeOK, TokenIds
    <2>3. open = <<r, 0>> /\ row \in RowsBy(r)
      BY <2>1, <2>2 DEF AllHeldBack, AuthInv, Written
    <2>4. q = r
      BY <1>3, <1>5, <2>3, OwnEnd
    <2>5. st[r] # "run"
      <3> SUFFICES ASSUME st[r] = "run" PROVE FALSE
        OBVIOUS
      <3>1. i \in DOMAIN req[r].script /\ req[r].script[i] = "commit"
        BY <1>3, <1>5, <2>4 DEF Ran
      <3>2. PICK j \in DOMAIN req[r].script : req[r].script[j] = "write"
        BY <2>3 DEF RowsBy
      <3>3. req[r].script \in Scripts
        BY <3>1 DEF TypeOK
      <3> QED
        BY <3>1, <3>2, <3>3 DEF NoOwnCommit
    <2> QED
      BY <1>3, <1>5, <2>2, <2>4, <2>5 DEF Ran
  <1>6. k \in {"write", "commit"}
    BY <1>1, <1>3 DEF Ran, Effect, managerVars, Store!Begin, Store!Rollback
  <1> QED
    BY <1>4, <1>5, <1>6

\* The rows that are not committed yet belong to the open transaction.
LEMMA NextBuffered ==
  ASSUME TypeOK, AuthInv, ScriptInv, AllHeldBack, [Next]_vars,
         NEW row \in buf', req'[row[1]].transaction
  PROVE  open' = <<row[1], 0>>
  <1>1. ASSUME row \in buf, UNCHANGED open PROVE open' = <<row[1], 0>>
    <2>1. row[1] \in Requests /\ Settled(row[1])
      BY <1>1 DEF TypeOK, TokenIds, AuthInv, Written
    <2>2. req'[row[1]] = req[row[1]]
      BY <2>1, SettledKeeps
    <2> QED
      BY <1>1, <2>2 DEF AllHeldBack
  <1>2. CASE \/ UNCHANGED managerVars \/ IdleTimeout
             \/ \E q \in Requests : PublishOwner(q) \/ \E id : Fell(q, id)
    BY <1>1, <1>2 DEF managerVars, IdleTimeout, PublishOwner, Fell, Store!Rollback
  <1>3. ASSUME NEW q \in Requests, NEW k, NEW id, NEW i, Ran(q, k, id, i)
        PROVE  open' = <<row[1], 0>>
    <2>1. CASE k = "write" /\ row \notin buf
      <3>1. row = <<q, i>> /\ UNCHANGED open
        BY <1>3, <2>1 DEF Ran, Effect, Store!PlainWrite, Store!TxWrite
      <3>2. Settled(q)
        BY <1>3 DEF Ran, Settled
      <3>3. req[q].transaction
        BY <3>1, <3>2, SettledKeeps
      <3>4. open = <<q, 0>>
        BY <1>3, <2>1, <3>3, OwnWrite
      <3> QED
        BY <3>1, <3>4
    <2>2. CASE k = "write" /\ row \in buf
      BY <1>1, <1>3, <2>2 DEF Ran, Effect, Store!PlainWrite, Store!TxWrite
    <2>3. CASE k # "write"
      BY <1>1, <1>3, <2>3
      DEF Ran, Effect, managerVars, Store!Begin, Store!Commit, Store!Rollback
    <2> QED
      BY <2>1, <2>2, <2>3
  <1> QED
    BY <1>2, <1>3, ManagerSteps

\* Nothing that is stored is lost.
LEMMA StoreGrows == ASSUME TypeOK, [Next]_vars PROVE store \subseteq store'
  <1>1. ASSUME NEW r \in Requests, NEW k, NEW id, NEW i, Ran(r, k, id, i)
        PROVE  store \subseteq store'
    BY <1>1 DEF Ran, Effect, managerVars, Store!PlainWrite, Store!TxWrite, Store!Begin,
                Store!Commit, Store!Rollback
  <1> QED
    BY <1>1, ManagerSteps DEF managerVars, IdleTimeout, PublishOwner, Fell, Store!Rollback

\* Every step of a request keeps its rows together.
LEMMA NextHeldBack ==
  ASSUME TypeOK, AuthInv, ScriptInv, AllHeldBack, NoOwnCommit, [Next]_vars, NEW r \in Requests
  PROVE  HeldBackOf(r)'
  <1> SUFFICES ASSUME req'[r].transaction PROVE HeldBackOf(r)'
    BY DEF HeldBackOf
  <1> DEFINE NoRow == \A row \in store : row[1] # r
             InBuf == /\ open = <<r, 0>>
                      /\ \A i \in DOMAIN results[r] :
                            req[r].script[i] = "write" => <<r, i>> \in buf
  <1>0. /\ HasTxOf(r) /\ InLoopOf(r) /\ HeldBackOf(r) /\ HasTxOf(r)'
        /\ store \subseteq store'
    <2>1. HasTx'
      BY NextHasTx DEF ScriptInv
    <2> QED
      BY <2>1, StoreGrows DEF ScriptInv, HasTx, InLoop, AllHeldBack
  <1>1. ASSUME NoRow, req[r].transaction, st[r] # "commit" PROVE NoRow'
    <2> SUFFICES ASSUME NEW row \in store', row[1] = r PROVE FALSE
      OBVIOUS
    <2> QED
      BY <1>1, NewlyStored
  <1>2. ASSUME UNCHANGED managerVars PROVE UNCHANGED <<store, open, buf, dbTxID>>
    BY <1>2 DEF managerVars
  <1>3. CASE st'[r] = st[r] /\ Kept(r)
    <2>1. NoRow => NoRow'
      <3> SUFFICES ASSUME NoRow, NEW row \in store', row[1] = r PROVE FALSE
        OBVIOUS
      <3>1. st[r] = "commit" /\ st'[r] = "answer"
        BY <1>3, NewlyStored DEF Kept
      <3> QED
        BY <1>3, <3>1
    <2>2. st[r] \in {"run", "commit"} /\ dbTxID' = <<r, 0>> =>
             dbTxID = <<r, 0>> /\ UNCHANGED open /\ buf \subseteq buf'
      BY <1>3, OpenSteps DEF ScriptInv
    <2>3. RowsBy(r)' = RowsBy(r) /\ (HasError(r)' <=> HasError(r)) /\ req[r].transaction
      BY <1>3 DEF Kept, RowsBy, HasError
    <2>4. (HasError(r)' \/ st'[r] \notin {"answer", "done"}) => NoRow'
      BY <1>0, <1>3, <2>1, <2>3 DEF HeldBackOf
    <2>5. st'[r] \in {"run", "commit"} /\ dbTxID' = <<r, 0>> => InBuf'
      BY <1>0, <1>3, <2>2, <2>3 DEF HeldBackOf, Kept
    <2>6. st'[r] \in {"answer", "done"} /\ ~HasError(r)' => RowsBy(r)' \subseteq store'
      BY <1>0, <1>3, <2>3 DEF HeldBackOf
    <2> QED
      BY <2>4, <2>5, <2>6 DEF HeldBackOf
  <1>4. CASE Arrives(r) /\ UNCHANGED managerVars
    <2>1. st'[r] = "auth"
      BY <1>0, <1>4 DEF Arrives, HasTxOf, Handled, RQLite
    <2>2. NoRow
      BY <1>4 DEF Arrives, AuthInv, Written, Settled
    <2> QED
      BY <1>2, <1>4, <2>1, <2>2 DEF HeldBackOf
  <1>5. CASE Enters(r) /\ UNCHANGED managerVars
    <2>1. req[r].transaction /\ st'[r] \notin {"done", "answer", "commit"} /\ results'[r] = <<>>
      BY <1>0, <1>5 DEF Enters, HasTxOf, Settled
    <2>2. NoRow
      BY <1>0, <1>5, <2>1 DEF Enters, HeldBackOf
    <2>3. dbTxID' # <<r, 0>>
      <3>1. ~Settled(r) /\ <<r, 0>>[1] = r /\ <<r, 0>> # None
        BY <1>5, ServerAssumption DEF Enters, Settled
      <3> QED
        BY <1>2, <1>5, <3>1 DEF AuthInv, Owned
    <2> QED
      BY <1>2, <1>5, <2>1, <2>2, <2>3 DEF HeldBackOf
  <1>6. CASE Answers(r) /\ UNCHANGED managerVars
    <2>1. req[r].transaction /\ st'[r] = "done" /\ RowsBy(r)' = RowsBy(r)
          /\ (HasError(r)' <=> HasError(r))
      BY <1>6 DEF Answers, Kept, RowsBy, HasError
    <2>2. HasError(r) => NoRow
      BY <1>0, <2>1 DEF HeldBackOf
    <2>3. ~HasError(r) => RowsBy(r) \subseteq store
      <3>1. CASE st[r] = "answer"
        BY <1>0, <2>1, <3>1 DEF HeldBackOf
      <3>2. CASE req[r].script = <<>>
        BY <3>2 DEF RowsBy
      <3> QED
        BY <1>6, <3>1, <3>2 DEF Answers
    <2> QED
      BY <1>2, <1>6, <2>1, <2>2, <2>3 DEF HeldBackOf
  <1>7. ASSUME NEW ok \in BOOLEAN, Begins(r, ok) PROVE HeldBackOf(r)'
    <2>1. req[r].transaction /\ st[r] = "begin" /\ NoRow'
      BY <1>0, <1>1, <1>7 DEF Begins, HeldBackOf
    <2>2. CASE ok
      <3>1. open' = <<r, 0>>
        BY <1>7, <2>2 DEF Begins, executeRequestQuery, Effect, Store!Begin
      <3> QED
        BY <1>7, <2>1, <2>2, <3>1 DEF Begins, HeldBackOf
    <2>3. CASE ~ok
      <3>1. st'[r] = "answer" /\ results'[r] = <<FALSE>>
        BY <1>7, <2>3 DEF Begins
      <3>2. 1 \in DOMAIN <<FALSE>> /\ <<FALSE>>[1] = FALSE
        OBVIOUS
      <3>3. HasError(r)'
        BY <3>1, <3>2 DEF HasError
      <3> QED
        BY <2>1, <3>1, <3>3 DEF HeldBackOf
    <2> QED
      BY <2>2, <2>3
  <1>8. ASSUME NEW ok \in BOOLEAN, RollsBack(r, ok) PROVE HeldBackOf(r)'
    <2>1. req[r].transaction /\ st[r] = "rollback" /\ st'[r] = "answer" /\ NoRow'
      BY <1>0, <1>1, <1>8 DEF RollsBack, Kept, HeldBackOf
    <2>2. HasError(r)'
      BY <1>0, <1>8 DEF RollsBack, Kept, InLoopOf, HasError
    <2> QED
      BY <2>1, <2>2 DEF HeldBackOf
  <1>9. ASSUME NEW ok \in BOOLEAN, Commits(r, ok) PROVE HeldBackOf(r)'
    <2>1. /\ req[r].transaction /\ req'[r] = req[r] /\ st[r] = "commit" /\ st'[r] = "answer"
          /\ NoRow /\ txId[r] = <<r, 0>> /\ txId[r] # None /\ ~HasError(r)
          /\ Len(results[r]) = Len(req[r].script)
      BY <1>0, <1>9 DEF Commits, HeldBackOf, HasTxOf, InLoopOf
    <2>2. CASE ok
      <3>1. Effect(r, "commit", txId[r], 0) /\ TxValid(r, txId[r]) /\ results'[r] = results[r]
        BY <1>9, <2>2 DEF Commits, executeRequestQuery, Accepted
      <3>2. dbTxID = <<r, 0>> /\ store' = store \cup buf
        BY <2>1, <3>1 DEF Effect, TxValid, Store!Commit
      <3>3. InBuf
        BY <1>0, <2>1, <3>2 DEF HeldBackOf
      <3>4. DOMAIN results[r] = DOMAIN req[r].script
        BY <2>1, ScriptFacts
      <3>5. RowsBy(r)' \subseteq store'
        BY <2>1, <3>2, <3>3, <3>4 DEF RowsBy
      <3>6. ~HasError(r)'
        BY <2>1, <3>1 DEF HasError
      <3> QED
        BY <2>1, <3>5, <3>6 DEF HeldBackOf
    <2>3. CASE ~ok
      <3>1. UNCHANGED managerVars /\ results'[r] = Append(results[r], FALSE)
        BY <1>9, <2>3 DEF Commits, executeRequestQuery, Failure
      <3>2. HasError(r)'
        BY <3>1, Appended, ScriptFacts DEF HasError
      <3> QED
        BY <1>2, <2>1, <3>1, <3>2 DEF HeldBackOf
    <2> QED
      BY <2>2, <2>3
  <1>10. ASSUME NEW ok \in BOOLEAN, NEW id, Steps(r, ok, id) PROVE HeldBackOf(r)'
    <2> DEFINE n == Len(results[r]) + 1
    <2>1. /\ req[r].transaction /\ req'[r] = req[r] /\ st[r] = "run"
          /\ n - 1 < Len(req[r].script) /\ results'[r] = Append(results[r], ok)
          /\ results[r] \in Seq(BOOLEAN)
      BY <1>10, ScriptFacts DEF Steps
    <2>2. req[r].script # <<>>
      BY <2>1, ScriptFacts
    <2>3. txId[r] = <<r, 0>> /\ txId[r] # None /\ id = <<r, 0>> /\ id # None
      BY <1>0, <1>10, <2>1, <2>2 DEF HasTxOf, Steps, StatementTx
    <2>4. st'[r] \in {"rollback", "run", "commit"} /\ (~ok => st'[r] = "rollback")
      BY <1>10, <2>3 DEF Steps, NextAfter
    <2>5. NoRow'
      BY <1>0, <1>1, <2>1 DEF HeldBackOf
    <2>6. ASSUME st'[r] \in {"run", "commit"}, dbTxID' = <<r, 0>> PROVE InBuf'
      <3>1. dbTxID = <<r, 0>> /\ UNCHANGED open /\ buf \subseteq buf'
        BY <2>1, <2>6, OpenSteps DEF ScriptInv
      <3>2. InBuf /\ ok
        BY <1>0, <2>1, <2>4, <2>6, <3>1 DEF HeldBackOf
      <3>3. Effect(r, req[r].script[n], id, n)
        BY <1>10, <3>2 DEF Steps, executeRequestQuery
      <3>4. req[r].script[n] = "write" => <<r, n>> \in buf'
        BY <2>3, <3>2, <3>3 DEF Effect, Store!TxWrite
      <3>5. DOMAIN results'[r] = DOMAIN results[r] \cup {n}
        BY <2>1, Appended
      <3> HIDE DEF n
      <3> QED
        BY <2>1, <3>1, <3>2, <3>4, <3>5
    <2> HIDE DEF NoRow, InBuf
    <2>7. HeldBackOf(r)' <=>
            (req'[r].transaction =>
               /\ (HasError(r)' \/ st'[r] \notin {"answer", "done"}) => NoRow'
               /\ st'[r] \in {"run", "commit"} /\ dbTxID' = <<r, 0>> => InBuf'
               /\ st'[r] \in {"answer", "done"} /\ ~HasError(r)' => RowsBy(r)' \subseteq store')
      BY DEF HeldBackOf, NoRow, InBuf
    <2> QED
      BY <2>4, <2>5, <2>6, <2>7
  <1> QED
    BY <1>3, <1>4, <1>5, <1>6, <1>7, <1>8, <1>9, <1>10, LoopSteps

\* AllHeldBack holds in every reachable state, if no client mixes a COMMIT of
\* its own with writes.
THEOREM HeldBackDiscipline == ASSUME NoOwnCommit PROVE Spec => []AllHeldBack
  <1>1. Init => AllHeldBack
    BY DEF Init, Store!Init, AllHeldBack, HeldBackOf
  <1>2. TypeOK /\ AuthInv /\ ScriptInv /\ AllHeldBack /\ [Next]_vars => AllHeldBack'
    <2> SUFFICES ASSUME TypeOK, AuthInv, ScriptInv, AllHeldBack, [Next]_vars PROVE AllHeldBack'
      OBVIOUS
    <2>1. \A r \in Requests : HeldBackOf(r)'
      BY NextHeldBack
    <2>2. \A row \in buf' : req'[row[1]].transaction => open' = <<row[1], 0>>
      BY NextBuffered
    <2> QED
      BY <2>1, <2>2 DEF AllHeldBack
  <1> QED
    BY <1>1, <1>2, TypeCorrect, AuthDiscipline, ScriptDiscipline, PTL DEF Spec

\* A request with the "transaction" parameter of the rqlite API is all or
\* nothing and its answer tells which, whatever the other requests, the idle
\* monitor and the client's disconnection do meanwhile: nobody else can end the
\* transaction by COMMIT, and its loop stops at the first error.
THEOREM RequestsAllOrNothing == ASSUME NoOwnCommit PROVE Spec => []TransactionAllOrNothing
  <1>1. TypeOK /\ AllHeldBack => TransactionAllOrNothing
    <2> SUFFICES ASSUME TypeOK, AllHeldBack, NEW r \in Requests, req[r].transaction
                 PROVE  /\ (st[r] = "done" /\ ~HasError(r)) => RowsBy(r) \subseteq store
                        /\ (HasError(r) \/ st[r] \in {"begin", "run", "rollback", "commit"}) =>
                              RowsBy(r) \cap store = {}
      BY DEF TransactionAllOrNothing
    <2>1. HeldBackOf(r)
      BY DEF AllHeldBack
    <2>2. \A row \in RowsBy(r) : row[1] = r
      BY DEF RowsBy
    <2> QED
      BY <2>1, <2>2 DEF HeldBackOf
  <1> QED
    BY <1>1, TypeCorrect, HeldBackDiscipline, PTL
=============================================================================
