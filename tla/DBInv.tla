------------------------------- MODULE DBInv --------------------------------
(***************************************************************************)
(* The inductive invariants behind the safety properties of DB: who holds  *)
(* which lock at which place of the code, and for which transaction; what  *)
(* the counters count; what is held back until COMMIT.                     *)
(***************************************************************************)
EXTENDS DB

\* What a request has at each place of the code: a txID only on the path under
\* txOpMu, no recognised control statement on the classified path, and without
\* a txID only BEGIN and writes on the read-write connection.
Paths ==
    /\ \A p \in Reqs :
        /\ pc[p] \in {"opLock", "validate", "clsRW", "clear", "unlockTx"} => tx[p] # None
        /\ pc[p] \in {"idle", "clsRO", "checkTx", "txLock", "fbLock", "fbCls", "roLock",
                      "roExec", "pubID", "pubOwner", "pubUsed"} => tx[p] = None
        /\ pc[p] \in {"clsRO", "checkTx", "fbLock", "fbCls"} => kind[p] \notin ControlKinds
        /\ pc[p] = "txLock" => kind[p] \in WriteKinds \cup {"begin"}
        /\ pc[p] \in {"rwLock", "rwExec"} =>
              /\ kind[p] = "begin" => tx[p] = None
              /\ tx[p] = None => kind[p] \in WriteKinds \cup {"begin"}
    /\ \A p \in {Monitor, Closer} :
        pc[p] \in {"rwLock", "rwExec", "clear", "unlockTx"} => tx[p] # None

\* Between txOpMu.Lock and its unlock.
InOp(p) ==
    \/ pc[p] \in {"validate", "check", "clsRW", "clear", "unlockTx"}
    \/ pc[p] \in {"rwLock", "rwExec"} /\ tx[p] # None

OpHeld == \A p \in Procs : InOp(p) => txOpMu = p

WriteHeld == \A p \in Procs : pc[p] = "rwExec" => writeMu = p

\* The BEGIN with token t has stored its id: it is over, or on its last stores.
Begun(t) ==
    /\ t[2] <= ops[t[1]]
    /\ t[2] = ops[t[1]] => pc[t[1]] \in {"idle", "pubOwner", "pubUsed"}

IdsBegun ==
    /\ \A t \in known : Begun(t)
    /\ txID # None => Begun(txID)
    /\ \A p \in Procs : tx[p] # None => Begun(tx[p])

\* A deferred txMu.Unlock is pending exactly where the code holds txMu for
\* itself and not for a transaction.
Deferred ==
    \A p \in Reqs :
        /\ pc[p] \in {"fbCls", "pubID"} => p \in deferUnlock
        /\ pc[p] \in {"rwLock", "rwExec"} /\ tx[p] = None => p \in deferUnlock
        /\ p \in deferUnlock =>
              /\ pc[p] \in {"fbCls", "rwLock", "rwExec", "roLock", "roExec",
                            "pubID", "pubOwner", "pubUsed"}
              /\ tx[p] = None

\* UnlockOwnLock and ValidationHolds, and no id is set while txMu is being
\* unlocked for a transaction.
TxMuHeld ==
    /\ UnlockOwnLock
    /\ ValidationHolds
    /\ \A p \in Procs : pc[p] = "unlockTx" => txID = None

\* SQLite is in a transaction only while the manager has one, or while the
\* BEGIN that opened it is about to store its id.
RwTxOwned ==
    /\ rwTx # None => txID # None \/ \E p \in Reqs : pc[p] = "pubID"
    /\ \A p \in Procs : pc[p] = "clear" => rwTx = None

\* The inductive invariant: true of every reachable state of the manager,
\* whatever SQL its clients send.
LockInv ==
    /\ TypeOK
    /\ Paths /\ OpHeld /\ WriteHeld
    /\ IdsBegun /\ Deferred /\ TxMuHeld /\ RwTxOwned
    /\ RoleInForce
-----------------------------------------------------------------------------
\* The converse: who holds a lock is at a place of the code that holds it.

\* txMu belongs to the open transaction, to a request that will unlock it when
\* it returns, or to a transaction that is being ended.
TxMuUsed ==
    \/ txMu = None \/ txMu = txID
    \/ \E p \in deferUnlock : txMu = Token(p) /\ pc[p] \notin {"pubOwner", "pubUsed"}
    \/ \E p \in Procs : pc[p] = "unlockTx"

\* A pooled connection is with one request, which is running a statement on it.
PoolUsed ==
    \A c \in Conns : roUser[c] # None =>
        /\ pc[roUser[c]] = "roExec"
        /\ \A d \in Conns : roUser[d] = roUser[c] => d = c

\* The order of the shutdown: no request is in flight once Stop has returned,
\* and the monitor is gone before Close looks at the transaction.
ShutdownOrder ==
    /\ pc[Closer] \notin {"run", "drain"} => \A p \in Reqs : pc[p] = "idle"
    /\ pc[Closer] \notin {"run", "drain", "waitMonitor"} => pc[Monitor] = "stopped"

\* txOpMu and writeMu are held by a goroutine that is between their Lock and
\* their Unlock.
MutexesUsed ==
    /\ txOpMu # None => InOp(txOpMu)
    /\ writeMu # None => pc[writeMu] = "rwExec"

\* A BEGIN or a request in flight is one that the bound MaxOps allows.
OpsBounded ==
    \A p \in Reqs : ops[p] <= MaxOps[p] /\ (pc[p] # "idle" => ops[p] > 0)

\* The idle clock of a transaction whose id a client has was never reset
\* without a use of that transaction.
AgesOrdered == txID \in known => usedAge <= idleAge

\* What LockInv leaves out: no lock and no connection is held by mistake.
HeldInv ==
    /\ MutexesUsed /\ TxMuUsed /\ PoolUsed /\ ShutdownOrder
    /\ OpsBounded /\ AgesOrdered
-----------------------------------------------------------------------------
\* What the counters of DBStats owe to the requests in flight.

Asked == UNION {{p} \X (1 .. ops[p]) : p \in Reqs}
InFlight == {p \in Reqs : pc[p] # "idle"}

\* A BEGIN whose id is stored and that is not counted yet, and a COMMIT or
\* ROLLBACK that has cleared the id and is not counted yet.
Beginning == {p \in Reqs : pc[p] \in {"pubOwner", "pubUsed"}}
Ending == {p \in Procs : pc[p] = "unlockTx"}

\* Between the increment of a queue gauge and its deferred decrement.
QueuedBegins ==
    {p \in Reqs : /\ kind[p] = "begin"
                   /\ pc[p] \in {"txLock", "rwLock", "rwExec", "pubID", "pubOwner", "pubUsed"}}
QueuedWrites == {p \in Reqs : kind[p] \in WriteKinds /\ pc[p] \in {"rwLock", "rwExec"}}

served == stats["reads"] + stats["writes"] + stats["begins"] + stats["commits"] + stats["errors"]

Bit(b) == IF b THEN 1 ELSE 0

\* IsFiniteSet is part of the invariant: Reqs need not be finite, but only
\* finitely many requests have been sent.
CountInv ==
    /\ \A S \in {Asked, InFlight, Beginning, Ending, QueuedBegins, QueuedWrites} :
          IsFiniteSet(S)
    /\ stats["queuedBegins"] = Cardinality(QueuedBegins)
    /\ stats["queuedWrites"] = Cardinality(QueuedWrites)
    /\ served + Cardinality(InFlight) <= Cardinality(Asked)
    /\ Cardinality(Asked) <= served + Cardinality(InFlight) + stats["rollbacks"]
    /\ stats["begins"] + Cardinality(Beginning) =
          stats["commits"] + stats["rollbacks"] + Cardinality(Ending)
          + Bit(txID # None)
    /\ stats["rollbacks"] >= 0
    /\ \A p \in Reqs : pc[p] \in {"pubID", "pubOwner", "pubUsed"} => kind[p] = "begin"
-----------------------------------------------------------------------------
\* What holds besides while the clients only send statements after which SQLite
\* is in the transaction it was in.

\* The hypothesis on the constant Kinds.
CleanClients == Kinds \subseteq CleanKinds

KindsClean == \A p \in Reqs : kind[p] \in CleanKinds

\* SQLite and the manager are in the same transaction, from the stores of its
\* BEGIN to the store that clears its id.
InStep ==
    /\ rwTx # None => txID = rwTx \/ \E p \in Reqs : pc[p] = "pubID"
    /\ \A p \in Reqs : pc[p] = "pubID" => rwTx = Token(p)
    /\ ConnectionInStep
    /\ pc[Closer] \in {"closePools", "closed"} => txID = None

\* The request with token t is over.
Over(t) == t[2] <= ops[t[1]] /\ (t[2] = ops[t[1]] => pc[t[1]] = "idle")

\* Rows are only ever written by requests that are over, ids only committed and
\* written under after their BEGIN.
Past ==
    /\ \A r \in (file \cup pending) \cap Tokens : Over(r)
    /\ \A w \in wrote : Over(w[1]) /\ Begun(w[2])
    /\ \A t \in committed : t \in Tokens /\ Begun(t)

\* The rows acknowledged under the id of the open transaction are what SQLite
\* holds back, and no other row is; the others are decided.
Buffered ==
    /\ rwTx \notin committed
    /\ pending \ {Table} = {w[1] : w \in {v \in wrote : v[2] = rwTx}}
    /\ \A w \in wrote : w[2] = rwTx => w[1] \notin file
    /\ \A w \in wrote : w[2] # rwTx =>
          w[1] \notin pending /\ (w[1] \in file <=> w[2] \in committed)

\* The inductive invariant of a manager with clean clients, on top of LockInv
\* and HeldInv.
TxInv == KindsClean /\ InStep /\ Past /\ Buffered
=============================================================================
