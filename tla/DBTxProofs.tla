----------------------------- MODULE DBTxProofs -----------------------------
(***************************************************************************)
(* Proofs about DB, concluded: the counters of DBStats balance (CountInv); *)
(* with clean clients (CleanKinds) SQLite and the manager stay in step,    *)
(* transactions are atomic, and DB implements TxStore.                     *)
(***************************************************************************)
EXTENDS DBRefinement, DBProofs, FiniteSetTheorems

\* The size of a set of which one element came, went or stayed.
LEMMA OneElement ==
  ASSUME NEW S, NEW T, NEW p, IsFiniteSet(S), \A q : q # p => (q \in S <=> q \in T)
  PROVE  /\ IsFiniteSet(T)
         /\ Cardinality(S) \in Nat /\ Cardinality(T) \in Nat
         /\ Cardinality(T) = Cardinality(S) + Bit(p \in T) - Bit(p \in S)
  <1>1. CASE p \in S <=> p \in T
    <2>1. S = T
      BY <1>1
    <2> QED
      BY <2>1, FS_CardinalityType DEF Bit
  <1>2. CASE p \in T /\ p \notin S
    <2>1. T = S \cup {p}
      BY <1>2
    <2> QED
      BY <1>2, <2>1, FS_AddElement, FS_CardinalityType DEF Bit
  <1>3. CASE p \in S /\ p \notin T
    <2>1. T = S \ {p}
      BY <1>3
    <2>2. IsFiniteSet(T) /\ Cardinality(T) = Cardinality(S) - 1
      BY <1>3, <2>1, FS_RemoveElement
    <2>3. Cardinality(S) \in Nat /\ Cardinality(T) \in Nat
      BY <2>2, FS_CardinalityType
    <2> QED
      BY <1>3, <2>2, <2>3 DEF Bit
  <1> QED
    BY <1>1, <1>2, <1>3

\* What a step of p can do to the counters.  It counts nothing, ...
Stays(p) ==
    /\ stats' = stats
    /\ p \in InFlight' <=> p \in InFlight
    /\ p \in QueuedBegins' <=> p \in QueuedBegins
    /\ p \in QueuedWrites' <=> p \in QueuedWrites

\* ... or a write that joins the queue, ...
Enqueues(p) ==
    /\ stats' = Inc(stats, "queuedWrites")
    /\ p \in InFlight' /\ p \in InFlight
    /\ p \in QueuedBegins' <=> p \in QueuedBegins
    /\ p \in QueuedWrites' /\ p \notin QueuedWrites

\* ... or it answers the request, which leaves the queue it is in.
Answers(p, c) ==
    /\ p \in InFlight /\ p \notin InFlight'
    /\ p \notin QueuedBegins' /\ p \notin QueuedWrites'
    /\ \/ p \notin QueuedBegins /\ p \notin QueuedWrites /\ stats' = Inc(stats, c)
       \/ p \in QueuedBegins /\ p \notin QueuedWrites /\ stats' = Inc(Dec(stats, "queuedBegins"), c)
       \/ p \notin QueuedBegins /\ p \in QueuedWrites /\ stats' = Inc(Dec(stats, "queuedWrites"), c)

Shape(p) ==
    \/ Stays(p) \/ Enqueues(p)
    \/ Answers(p, "reads") \/ Answers(p, "writes") \/ Answers(p, "errors")
    \/ PublishUsed(p) /\ Answers(p, "begins")
    \/ UnlockTx(p) /\ (Answers(p, "commits") \/ Answers(p, "rollbacks"))
    \/ UnlockTx(p) /\ p \notin Reqs /\ stats' = Inc(stats, "rollbacks")

\* Every step of a goroutine is one of these: no return of db.go is counted
\* twice or not at all, and no queue gauge is left behind.
LEMMA StepShape ==
  ASSUME LockInv, CountInv, NEW p \in Procs, Acquire(p) \/ Step(p)
  PROVE  Shape(p)
  <1>0. /\ stats \in [Counters -> Int]
        /\ pc = [q \in Procs |-> pc[q]]
        /\ kind = [q \in Reqs |-> kind[q]]
        /\ p \in Reqs \/ p = Monitor \/ p = Closer
        /\ Monitor \notin Reqs /\ Closer \notin Reqs /\ Monitor # Closer
        /\ p \in Reqs /\ pc[p] \in {"rwLock", "rwExec"} /\ kind[p] = "begin" => tx[p] = None
        /\ p \in Reqs /\ pc[p] \in {"clsRW", "validate"} => tx[p] # None
        /\ p \in Reqs /\ pc[p] \in {"clsRO", "checkTx", "fbLock", "fbCls"} =>
              kind[p] \notin ControlKinds
        /\ p \in Reqs /\ pc[p] = "txLock" => kind[p] \in WriteKinds \cup {"begin"}
        /\ p \in Reqs /\ pc[p] = "pubUsed" => kind[p] = "begin"
    BY ConstantsAssumption DEF LockInv, TypeOK, Procs, Paths, CountInv
  <1> USE <1>0 DEF Return, Continue, Forget, After, TypeOf, QueryType, WriteKinds, ControlKinds,
             mgrVars, Shape, Stays, Enqueues, Answers, InFlight, QueuedBegins,
             QueuedWrites, Procs
  <1>1. ASSUME OpLock(p) PROVE Shape(p)
    BY <1>1 DEF OpLock
  <1>2. ASSUME RwLock(p) PROVE Shape(p)
    BY <1>2 DEF RwLock, Dequeued
  <1>3. ASSUME ClassifyRW(p), p \in Reqs PROVE Shape(p)
    BY <1>3 DEF ClassifyRW, Execute
  <1>4. ASSUME ClassifyRO(p), p \in Reqs PROVE Shape(p)
    BY <1>4 DEF ClassifyRO, ClassifyFailed, Execute
  <1>5. ASSUME LockTx(p), p \in Reqs PROVE Shape(p)
    BY <1>5 DEF LockTx
  <1>6. ASSUME RoLock(p), p \in Reqs PROVE Shape(p)
    BY <1>6 DEF RoLock
  <1>7. ASSUME ExecRollback(p) PROVE Shape(p)
    BY <1>7 DEF ExecRollback
  <1>8. ASSUME ClearID(p) PROVE Shape(p)
    BY <1>8 DEF ClearID
  <1>9. ASSUME UnlockTx(p) PROVE Shape(p)
    BY <1>9 DEF UnlockTx
  <1>10. ASSUME Validate(p), p \in Reqs PROVE Shape(p)
    BY <1>10 DEF Validate, Execute
  <1>11. ASSUME CheckTx(p), p \in Reqs PROVE Shape(p)
    BY <1>11 DEF CheckTx
  <1>12. ASSUME RoExec(p), p \in Reqs PROVE Shape(p)
    BY <1>12 DEF RoExec
  <1>13. ASSUME ExecBegin(p), p \in Reqs PROVE Shape(p)
    BY <1>13 DEF ExecBegin, Dequeued
  <1>14. ASSUME ExecCommit(p), p \in Reqs PROVE Shape(p)
    BY <1>14 DEF ExecCommit
  <1>15. ASSUME ExecRead(p), p \in Reqs PROVE Shape(p)
    BY <1>15 DEF ExecRead
  <1>16. ASSUME ExecWrite(p), p \in Reqs PROVE Shape(p)
    BY <1>16 DEF ExecWrite, Dequeued
  <1>17. ASSUME PublishID(p), p \in Reqs PROVE Shape(p)
    BY <1>17 DEF PublishID
  <1>18. ASSUME PublishOwner(p), p \in Reqs PROVE Shape(p)
    BY <1>18 DEF PublishOwner
  <1>19. ASSUME PublishUsed(p), p \in Reqs PROVE Shape(p)
    BY <1>19 DEF PublishUsed, Dequeued
  <1>20. ASSUME Check(p), p \in {Monitor, Closer} PROVE Shape(p)
    BY <1>20 DEF Check
  <1> HIDE DEF Shape
  <1> QED
    BY <1>1, <1>2, <1>3, <1>4, <1>5, <1>6, <1>7, <1>8, <1>9, <1>10,
       <1>11, <1>12, <1>13, <1>14, <1>15, <1>16, <1>17, <1>18, <1>19, <1>20
    DEF Acquire, Step

\* A step that is none of the four that begin and end a transaction in the
\* manager changes neither its id nor who is beginning or ending it.
LEMMA StepSameTx ==
  ASSUME TypeOK, NEW p \in Procs, Acquire(p) \/ Step(p),
         ~(p \in Reqs /\ (PublishID(p) \/ PublishUsed(p))), ~ClearID(p), ~UnlockTx(p)
  PROVE  /\ txID' = txID
         /\ p \in Beginning' <=> p \in Beginning
         /\ p \in Ending' <=> p \in Ending
  <1>0. /\ pc = [q \in Procs |-> pc[q]]
        /\ p \in Reqs \/ p = Monitor \/ p = Closer
        /\ Monitor \notin Reqs /\ Closer \notin Reqs /\ Monitor # Closer
    BY ConstantsAssumption DEF TypeOK, Procs
  <1> USE <1>0 DEF Return, Continue, Forget, After, Execute, mgrVars, Beginning, Ending
  <1>1. CASE Acquire(p)
    BY <1>1 DEF Acquire, OpLock, RwLock, ClassifyRW, ClassifyRO, ClassifyFailed, LockTx, RoLock
  <1>2. CASE Step(p)
    BY <1>2 DEF Step, ExecRollback, Validate, CheckTx, RoExec, ExecBegin, ExecCommit,
                ExecRead, ExecWrite, PublishOwner, Check
  <1> QED
    BY <1>1, <1>2

\* A step changes the statement of its own goroutine only, and only a BEGIN gets
\* to the stores of a transaction id.
LEMMA StepKind ==
  ASSUME TypeOK, CountInv, NEW p \in Procs, Acquire(p) \/ Step(p)
  PROVE  /\ \A q \in Reqs \ {p} : kind'[q] = kind[q]
         /\ p \in Reqs /\ pc'[p] \in {"pubID", "pubOwner", "pubUsed"} => kind'[p] = "begin"
  <1>0. /\ pc = [q \in Procs |-> pc[q]] /\ kind = [q \in Reqs |-> kind[q]]
        /\ p \in Reqs \/ p = Monitor \/ p = Closer
        /\ Monitor \notin Reqs /\ Closer \notin Reqs /\ Monitor # Closer
        /\ p \in Reqs /\ pc[p] \in {"pubID", "pubOwner", "pubUsed"} => kind[p] = "begin"
    BY ConstantsAssumption DEF TypeOK, Procs, CountInv
  <1> USE <1>0 DEF Return, Continue, Forget, After, Execute, TypeOf, QueryType, WriteKinds
  <1>1. CASE Acquire(p)
    BY <1>1 DEF Acquire, OpLock, RwLock, ClassifyRW, ClassifyRO, ClassifyFailed, LockTx, RoLock
  <1>2. CASE Step(p)
    BY <1>2 DEF Step, ExecRollback, Validate, CheckTx, RoExec, ExecBegin, ExecCommit, ClearID,
                ExecRead, ExecWrite, PublishID, PublishOwner, PublishUsed, UnlockTx, Check
  <1> QED
    BY <1>1, <1>2

\* The balances, as the effect of a step of p on its own part of the sets.
QueueDelta(p) ==
    /\ stats'["queuedBegins"]
         = stats["queuedBegins"] + Bit(p \in QueuedBegins') - Bit(p \in QueuedBegins)
    /\ stats'["queuedWrites"]
         = stats["queuedWrites"] + Bit(p \in QueuedWrites') - Bit(p \in QueuedWrites)

ServedDelta(p) ==
    /\ served' + Bit(p \in InFlight') <= served + Bit(p \in InFlight)
    /\ served + Bit(p \in InFlight) + stats["rollbacks"]
         <= served' + Bit(p \in InFlight') + stats'["rollbacks"]
    /\ stats["rollbacks"] <= stats'["rollbacks"]

BalanceDelta(p) ==
    stats'["begins"] - stats["begins"] + Bit(p \in Beginning') - Bit(p \in Beginning)
      = stats'["commits"] - stats["commits"] + stats'["rollbacks"] - stats["rollbacks"]
        + Bit(p \in Ending') - Bit(p \in Ending) + Bit(txID' # None) - Bit(txID # None)

\* A step of a goroutine keeps the three balances.
LEMMA StepDeltas ==
  ASSUME LockInv, CountInv, NEW p \in Procs, Acquire(p) \/ Step(p)
  PROVE  QueueDelta(p) /\ ServedDelta(p) /\ BalanceDelta(p)
  <1>0. Shape(p) /\ stats \in [Counters -> Int]
    BY StepShape DEF LockInv, TypeOK
  <1>1. /\ UnlockTx(p) /\ p \notin Reqs => Stays(p) \/ stats' = Inc(stats, "rollbacks")
        /\ p \notin Reqs => /\ p \notin InFlight /\ p \notin InFlight'
                            /\ p \notin QueuedBegins /\ p \notin QueuedBegins'
                            /\ p \notin QueuedWrites /\ p \notin QueuedWrites'
    BY <1>0 DEF Shape, InFlight, QueuedBegins, QueuedWrites, Answers, Enqueues
  <1>2. QueueDelta(p) /\ ServedDelta(p)
    <2> USE <1>0, <1>1 DEF Inc, Dec, Counters, Bit, served, QueueDelta, ServedDelta
    <2>1. CASE Stays(p)
      BY <2>1 DEF Stays
    <2>2. CASE Enqueues(p)
      BY <2>2 DEF Enqueues
    <2>3. ASSUME NEW c \in {"reads", "writes", "errors", "begins", "commits", "rollbacks"},
                 Answers(p, c)
          PROVE  QueueDelta(p) /\ ServedDelta(p)
      BY <2>3 DEF Answers
    <2>4. CASE p \notin Reqs /\ stats' = Inc(stats, "rollbacks")
      BY <2>4
    <2> QED
      BY <2>1, <2>2, <2>3, <2>4 DEF Shape
  <1>3. BalanceDelta(p)
    <2>0. /\ pc = [q \in Procs |-> pc[q]]
          /\ p \in Reqs \/ p = Monitor \/ p = Closer
          /\ Monitor \notin Reqs /\ Closer \notin Reqs /\ Monitor # Closer
      BY ConstantsAssumption DEF LockInv, TypeOK, Procs
    <2>1. CASE p \in Reqs /\ PublishID(p)
      <3>1. txID = None /\ txID' # None /\ stats' = stats
        BY <2>1, Exclusion, TokenNotNone DEF PublishID, LockInv, Deferred
      <3>2. /\ p \notin Beginning /\ p \in Beginning'
            /\ p \notin Ending /\ p \notin Ending'
        BY <2>0, <2>1 DEF PublishID, Beginning, Ending
      <3> QED
        BY <1>0, <3>1, <3>2 DEF Bit, BalanceDelta, Counters
    <2>2. CASE p \in Reqs /\ PublishUsed(p)
      <3>1. txID' = txID /\ stats' = Inc(Dequeued(p), "begins")
        BY <2>2 DEF PublishUsed
      <3>2. /\ p \in Beginning /\ p \notin Beginning'
            /\ p \notin Ending /\ p \notin Ending'
        BY <2>0, <2>2 DEF PublishUsed, Forget, After, Beginning, Ending
      <3> QED
        BY <1>0, <3>1, <3>2 DEF Inc, Dec, Dequeued, Bit, BalanceDelta, Counters
    <2>3. CASE ClearID(p)
      <3>1. txID # None /\ txID' = None /\ stats' = stats
        BY <2>0, <2>3 DEF ClearID, LockInv, Paths, TxMuHeld, ValidationHolds
      <3>2. /\ p \notin Beginning /\ p \notin Beginning'
            /\ p \notin Ending /\ p \in Ending'
        BY <2>0, <2>3 DEF ClearID, Beginning, Ending
      <3> QED
        BY <1>0, <3>1, <3>2 DEF Bit, BalanceDelta, Counters
    <2>4. CASE UnlockTx(p)
      <3>1. /\ txID' = txID
            /\ stats' = Inc(stats, "commits") \/ stats' = Inc(stats, "rollbacks")
        BY <2>4 DEF UnlockTx
      <3>2. /\ p \notin Beginning /\ p \notin Beginning'
            /\ p \in Ending /\ p \notin Ending'
        BY <2>0, <2>4 DEF UnlockTx, Forget, After, Beginning, Ending
      <3> QED
        BY <1>0, <3>1, <3>2 DEF Inc, Bit, BalanceDelta, Counters
    <2>5. CASE ~(p \in Reqs /\ (PublishID(p) \/ PublishUsed(p))) /\ ~ClearID(p) /\ ~UnlockTx(p)
      <3>1. /\ txID' = txID
            /\ p \in Beginning' <=> p \in Beginning
            /\ p \in Ending' <=> p \in Ending
        BY <2>5, StepSameTx DEF LockInv
      <3>2. \/ Stays(p) \/ Enqueues(p)
            \/ Answers(p, "reads") \/ Answers(p, "writes") \/ Answers(p, "errors")
        BY <1>0, <2>5 DEF Shape, Answers, InFlight
      <3>3. /\ stats'["begins"] = stats["begins"] /\ stats'["commits"] = stats["commits"]
            /\ stats'["rollbacks"] = stats["rollbacks"]
        BY <1>0, <3>2 DEF Stays, Enqueues, Answers, Inc, Dec, Counters
      <3> QED
        BY <1>0, <3>1, <3>3 DEF Bit, BalanceDelta, Counters
    <2> QED
      BY <2>1, <2>2, <2>3, <2>4, <2>5
  <1> QED
    BY <1>2, <1>3

\* A step of a goroutine keeps CountInv.
LEMMA StepCounts ==
  ASSUME LockInv, CountInv, TypeOK', NEW p \in Procs, Acquire(p) \/ Step(p)
  PROVE  CountInv'
  <1>1. /\ ops' = ops
        /\ \A q \in Procs \ {p} : pc'[q] = pc[q]
        /\ \A q \in Reqs \ {p} : kind'[q] = kind[q]
        /\ p \in Reqs /\ pc'[p] \in {"pubID", "pubOwner", "pubUsed"} => kind'[p] = "begin"
    BY OneMoves, StepKind DEF LockInv
  <1>2. /\ Asked' = Asked
        /\ \A q : q # p => (q \in InFlight <=> q \in InFlight')
        /\ \A q : q # p => (q \in Beginning <=> q \in Beginning')
        /\ \A q : q # p => (q \in Ending <=> q \in Ending')
        /\ \A q : q # p => (q \in QueuedBegins <=> q \in QueuedBegins')
        /\ \A q : q # p => (q \in QueuedWrites <=> q \in QueuedWrites')
    BY <1>1 DEF Asked, InFlight, Beginning, Ending, QueuedBegins, QueuedWrites, Procs
  <1>3. /\ IsFiniteSet(Asked) /\ IsFiniteSet(InFlight) /\ IsFiniteSet(Beginning)
        /\ IsFiniteSet(Ending) /\ IsFiniteSet(QueuedBegins) /\ IsFiniteSet(QueuedWrites)
    BY DEF CountInv
  <1>4. /\ IsFiniteSet(InFlight') /\ Cardinality(InFlight) \in Nat /\ Cardinality(InFlight') \in Nat
        /\ Cardinality(InFlight') =
              Cardinality(InFlight) + Bit(p \in InFlight') - Bit(p \in InFlight)
    BY <1>2, <1>3, OneElement
  <1>5. /\ IsFiniteSet(Beginning')
        /\ Cardinality(Beginning) \in Nat /\ Cardinality(Beginning') \in Nat
        /\ Cardinality(Beginning') =
              Cardinality(Beginning) + Bit(p \in Beginning') - Bit(p \in Beginning)
    BY <1>2, <1>3, OneElement
  <1>6. /\ IsFiniteSet(Ending') /\ Cardinality(Ending) \in Nat /\ Cardinality(Ending') \in Nat
        /\ Cardinality(Ending') = Cardinality(Ending) + Bit(p \in Ending') - Bit(p \in Ending)
    BY <1>2, <1>3, OneElement
  <1>7. /\ IsFiniteSet(QueuedBegins') /\ Cardinality(QueuedBegins) \in Nat
        /\ Cardinality(QueuedBegins')
             = Cardinality(QueuedBegins) + Bit(p \in QueuedBegins') - Bit(p \in QueuedBegins)
    BY <1>2, <1>3, OneElement
  <1>8. /\ IsFiniteSet(QueuedWrites') /\ Cardinality(QueuedWrites) \in Nat
        /\ Cardinality(QueuedWrites')
             = Cardinality(QueuedWrites) + Bit(p \in QueuedWrites') - Bit(p \in QueuedWrites)
    BY <1>2, <1>3, OneElement
  <1>9. QueueDelta(p) /\ ServedDelta(p) /\ BalanceDelta(p)
    BY StepDeltas
  <1>10. /\ \A c \in Counters : stats[c] \in Int /\ stats'[c] \in Int
         /\ Cardinality(Asked) \in Nat
         /\ Bit(txID # None) \in Int /\ Bit(txID' # None) \in Int
         /\ Bit(p \in Beginning) \in Int /\ Bit(p \in Beginning') \in Int
         /\ Bit(p \in Ending) \in Int /\ Bit(p \in Ending') \in Int
         /\ Bit(p \in InFlight) \in Int /\ Bit(p \in InFlight') \in Int
    BY <1>3, FS_CardinalityType DEF LockInv, TypeOK, Bit
  <1>11. /\ stats'["queuedBegins"] = Cardinality(QueuedBegins')
         /\ stats'["queuedWrites"] = Cardinality(QueuedWrites')
    BY <1>7, <1>8, <1>9, <1>10 DEF CountInv, QueueDelta
  <1>12. /\ served' + Cardinality(InFlight') <= Cardinality(Asked)
         /\ Cardinality(Asked) <= served' + Cardinality(InFlight') + stats'["rollbacks"]
         /\ stats'["rollbacks"] >= 0
    BY <1>4, <1>9, <1>10 DEF CountInv, ServedDelta, served, Counters
  <1>13. stats'["begins"] + Cardinality(Beginning') =
           stats'["commits"] + stats'["rollbacks"] + Cardinality(Ending') + Bit(txID' # None)
    <2> DEFINE due == stats["commits"] + stats["rollbacks"] - stats["begins"]
               gone == Bit(p \in Ending') - Bit(p \in Ending)
               come == Bit(p \in Beginning') - Bit(p \in Beginning)
               tx0 == Bit(txID # None)
               tx1 == Bit(txID' # None)
    <2>1. /\ stats["begins"] \in Int /\ stats'["begins"] \in Int
          /\ stats["commits"] \in Int /\ stats'["commits"] \in Int
          /\ stats["rollbacks"] \in Int /\ stats'["rollbacks"] \in Int
      BY <1>10 DEF Counters
    <2>2. due \in Int /\ due' \in Int /\ gone \in Int /\ come \in Int /\ tx0 \in Int /\ tx1 \in Int
      BY <1>10, <2>1
    <2>3. Cardinality(Beginning) = due + Cardinality(Ending) + tx0
      BY <1>5, <1>6, <1>10, <2>1 DEF CountInv
    <2>4. come = due' - due + gone + tx1 - tx0
      BY <1>9, <1>10, <2>1 DEF BalanceDelta
    <2>5. /\ Cardinality(Beginning') = Cardinality(Beginning) + come
          /\ Cardinality(Ending') = Cardinality(Ending) + gone
      BY <1>5, <1>6, <1>10
    <2> HIDE DEF due, gone, come, tx0, tx1
    <2>6. Cardinality(Beginning') = due' + Cardinality(Ending') + tx1
      BY <1>5, <1>6, <2>2, <2>3, <2>4, <2>5
    <2> QED
      BY <1>5, <1>6, <1>10, <2>1, <2>6 DEF due, tx1
  <1>14. \A q \in Reqs : pc'[q] \in {"pubID", "pubOwner", "pubUsed"} => kind'[q] = "begin"
    BY <1>1 DEF CountInv, Procs
  <1> QED
    BY <1>2, <1>3, <1>4, <1>5, <1>6, <1>7, <1>8, <1>11, <1>12, <1>13, <1>14 DEF CountInv

\* A request that starts keeps CountInv: it is asked once, and in flight or
\* already refused.
LEMMA StartCounts ==
  ASSUME LockInv, CountInv, NEW p \in Reqs, NEW k, NEW u, NEW label, Start(p, k, u, label),
         \/ label \in {"opLock", "clsRO"} /\ stats' = stats
         \/ label = "txLock" /\ k = "begin" /\ stats' = Inc(stats, "queuedBegins")
         \/ label = "idle" /\ stats' = Inc(stats, "errors")
  PROVE  CountInv'
  <1> DEFINE new == <<p, ops[p] + 1>>
  <1>0. /\ pc = [q \in Procs |-> pc[q]] /\ kind = [q \in Reqs |-> kind[q]]
        /\ ops \in [Reqs -> Nat] /\ stats \in [Counters -> Int]
        /\ p \in Procs
    BY DEF LockInv, TypeOK, Procs
  <1>1. /\ pc[p] = "idle" /\ pc'[p] = label /\ kind'[p] = k /\ txID' = txID
        /\ ops'[p] = ops[p] + 1
        /\ \A q \in Reqs \ {p} : kind'[q] = kind[q] /\ ops'[q] = ops[q]
        /\ \A q \in Procs \ {p} : pc'[q] = pc[q]
    BY <1>0 DEF Start, mgrVars
  <1>2. /\ \A q : q # p => (q \in InFlight <=> q \in InFlight')
        /\ \A q : q # p => (q \in QueuedBegins <=> q \in QueuedBegins')
        /\ Beginning' = Beginning /\ Ending' = Ending /\ QueuedWrites' = QueuedWrites
        /\ p \notin InFlight /\ p \notin QueuedBegins
        /\ p \in InFlight' <=> label # "idle"
        /\ p \in QueuedBegins' <=> label = "txLock"
    BY <1>0, <1>1 DEF InFlight, Beginning, Ending, QueuedBegins, QueuedWrites, Procs
  <1>3. new \notin Asked
    BY <1>0 DEF Asked
  <1>4. \A a : a # new => (a \in Asked <=> a \in Asked')
    <2>1. (1 .. ops[p] + 1) = (1 .. ops[p]) \cup {ops[p] + 1}
      BY <1>0
    <2> QED
      BY <1>1, <2>1 DEF Asked
  <1>5. new \in Asked'
    BY <1>0, <1>1 DEF Asked
  <1> HIDE DEF new
  <1>6. /\ IsFiniteSet(Asked) /\ IsFiniteSet(InFlight) /\ IsFiniteSet(Beginning)
        /\ IsFiniteSet(Ending) /\ IsFiniteSet(QueuedBegins) /\ IsFiniteSet(QueuedWrites)
    BY DEF CountInv
  <1>7. /\ IsFiniteSet(Asked') /\ Cardinality(Asked) \in Nat
        /\ Cardinality(Asked') = Cardinality(Asked) + 1
    BY <1>3, <1>4, <1>5, <1>6, OneElement DEF Bit
  <1>8. /\ IsFiniteSet(InFlight') /\ Cardinality(InFlight) \in Nat
        /\ Cardinality(InFlight') = Cardinality(InFlight) + Bit(label # "idle")
    BY <1>2, <1>6, OneElement DEF Bit
  <1>9. /\ IsFiniteSet(QueuedBegins') /\ Cardinality(QueuedBegins) \in Nat
        /\ Cardinality(QueuedBegins') = Cardinality(QueuedBegins) + Bit(label = "txLock")
    BY <1>2, <1>6, OneElement DEF Bit
  <1>10. /\ \A c \in Counters \ {"queuedBegins", "errors"} : stats'[c] = stats[c]
         /\ stats'["queuedBegins"] = stats["queuedBegins"] + Bit(label = "txLock")
         /\ stats'["errors"] = stats["errors"] + 1 - Bit(label # "idle")
         /\ \A c \in Counters : stats[c] \in Int
    BY <1>0 DEF Inc, Counters, Bit
  <1>11. /\ stats'["queuedBegins"] = Cardinality(QueuedBegins')
         /\ stats'["queuedWrites"] = Cardinality(QueuedWrites')
    BY <1>2, <1>9, <1>10 DEF CountInv, Counters
  <1>12. /\ served' + Cardinality(InFlight') <= Cardinality(Asked')
         /\ Cardinality(Asked') <= served' + Cardinality(InFlight') + stats'["rollbacks"]
         /\ stats'["rollbacks"] >= 0
    <2>1. Bit(label # "idle") \in Int
      BY DEF Bit
    <2> QED
      BY <1>7, <1>8, <1>10, <2>1 DEF CountInv, served, Counters
  <1>13. stats'["begins"] + Cardinality(Beginning') =
           stats'["commits"] + stats'["rollbacks"] + Cardinality(Ending') + Bit(txID' # None)
    BY <1>1, <1>2, <1>10 DEF CountInv, Counters
  <1>14. \A q \in Reqs : pc'[q] \in {"pubID", "pubOwner", "pubUsed"} => kind'[q] = "begin"
    BY <1>1 DEF CountInv, Procs
  <1> QED
    BY <1>2, <1>6, <1>7, <1>8, <1>9, <1>11, <1>12, <1>13, <1>14 DEF CountInv

\* CountInv is inductive, relative to LockInv.
LEMMA NextCountInv == LockInv /\ CountInv /\ [Next]_vars => CountInv'
  <1> SUFFICES ASSUME LockInv, CountInv, [Next]_vars PROVE CountInv'
    OBVIOUS
  <1>1. TypeOK'
    BY NextTypeOK DEF LockInv
  <1>2. ASSUME NEW p \in Procs, Acquire(p) \/ Step(p) PROVE CountInv'
    BY <1>1, <1>2, StepCounts
  <1>3. ASSUME NEW p \in Reqs, NEW k \in Kinds,
               (\E t \in known : SubmitInTx(p, k, t)) \/ SubmitPlain(p, k) \/ SubmitWithoutTx(p, k)
        PROVE  CountInv'
    BY <1>3, StartCounts DEF SubmitInTx, SubmitPlain, SubmitWithoutTx
  <1>4. ASSUME NEW p \in Reqs, SubmitBegin(p) PROVE CountInv'
    BY <1>4, StartCounts DEF SubmitBegin
  <1>5. ASSUME UNCHANGED <<kind, ops, txID, stats>>, \A q \in Reqs : pc'[q] = pc[q],
               \A q \in Procs : pc'[q] = "unlockTx" <=> pc[q] = "unlockTx"
        PROVE  CountInv'
    <2>1. /\ Asked' = Asked /\ InFlight' = InFlight /\ Beginning' = Beginning
          /\ Ending' = Ending /\ QueuedBegins' = QueuedBegins /\ QueuedWrites' = QueuedWrites
      BY <1>5 DEF Asked, InFlight, Beginning, Ending, QueuedBegins, QueuedWrites
    <2> QED
      BY <1>5, <2>1 DEF CountInv, served
  <1>6. CASE Clock \/ Tick \/ Stop \/ Shutdown \/ Exited \/ UNCHANGED vars
             \/ \E p \in Reqs : Cancel(p)
    <2>1. /\ UNCHANGED <<kind, ops, txID, stats>>
          /\ \A q \in Reqs : pc'[q] = pc[q]
          /\ \A q \in Procs : pc'[q] = "unlockTx" <=> pc[q] = "unlockTx"
      BY <1>6, ConstantsAssumption
      DEF Clock, Tick, Stop, Shutdown, Exited, Cancel, vars, procVars, mgrVars, Drained,
          MonitorStop, MonitorGone, CloserStep, ClosePools, LockInv, TypeOK, Procs
    <2> QED
      BY <1>5, <2>1
  <1> QED
    BY <1>2, <1>3, <1>4, <1>6 DEF Next

\* The counters owe exactly the requests in flight, whatever SQL the clients send.
THEOREM CountDiscipline == Spec => []CountInv
  <1>1. Init => CountInv
    <2> SUFFICES ASSUME Init PROVE CountInv
      OBVIOUS
    <2>1. /\ Asked = {} /\ InFlight = {} /\ Beginning = {} /\ Ending = {}
          /\ QueuedBegins = {} /\ QueuedWrites = {}
      BY ConstantsAssumption
      DEF Init, Asked, InFlight, Beginning, Ending, QueuedBegins, QueuedWrites, Procs
    <2>2. IsFiniteSet({}) /\ Cardinality({}) = 0
      BY FS_EmptySet
    <2>3. \A c \in Counters : stats[c] = 0
      BY DEF Init
    <2> QED
      BY <2>1, <2>2, <2>3, ConstantsAssumption DEF Init, CountInv, served, Counters, Bit, Procs
  <1> QED
    BY <1>1, NextCountInv, LockDiscipline, PTL DEF Spec

\* Whenever no request is in flight, every request was counted once, the queue
\* gauges are back at zero and each begin has its commit, its rollback or the
\* open transaction, in spite of the rollbacks of the monitor and of Close.
THEOREM CountersAreBalanced == Spec => []CountersBalance
  <1>1. LockInv /\ CountInv => CountersBalance
    <2> SUFFICES ASSUME LockInv, CountInv, \A p \in Reqs : pc[p] = "idle",
                        \A p \in Procs : pc[p] # "unlockTx"
                 PROVE  /\ stats["queuedBegins"] = 0 /\ stats["queuedWrites"] = 0
                        /\ served <= Cardinality(Asked)
                        /\ Cardinality(Asked) <= served + stats["rollbacks"]
                        /\ stats["begins"] = stats["commits"] + stats["rollbacks"]
                                              + (IF txID = None THEN 0 ELSE 1)
      BY DEF CountersBalance, served, Asked
    <2>1. /\ InFlight = {} /\ Beginning = {} /\ Ending = {}
          /\ QueuedBegins = {} /\ QueuedWrites = {}
      BY DEF InFlight, Beginning, Ending, QueuedBegins, QueuedWrites
    <2>2. Cardinality({}) = 0 /\ Cardinality(Asked) \in Nat
      BY FS_EmptySet, FS_CardinalityType DEF CountInv
    <2>3. \A c \in Counters : stats[c] \in Int
      BY DEF LockInv, TypeOK
    <2> QED
      BY <2>1, <2>2, <2>3 DEF CountInv, served, Counters, Bit
  <1> QED
    BY <1>1, LockDiscipline, CountDiscipline, PTL
-----------------------------------------------------------------------------
\* Transactions, for clients whose statements leave SQLite in the transaction it
\* was in.

\* The admin role may end a transaction: the rollbacks of the monitor and of Close
\* are not refused by the authorizer.
LEMMA AdminEnds == \A rows : Prepares("admin", "rollback", rows)
  BY DEF Prepares, Permits, Authorize

\* Every step keeps KindsClean.
LEMMA NextKindsClean == CleanClients /\ TypeOK /\ KindsClean /\ [Next]_vars => KindsClean'
  <1> SUFFICES ASSUME CleanClients, TypeOK, KindsClean, [Next]_vars PROVE KindsClean'
    OBVIOUS
  <1> USE DEF CleanClients, TypeOK, KindsClean, CleanKinds, ControlKinds
  <1>1. CASE UNCHANGED kind
    BY <1>1
  <1>2. CASE \E p \in Reqs : kind' = [kind EXCEPT ![p] = "read"]
    BY <1>2
  <1>3. CASE \E p \in Reqs, k \in Kinds : kind' = [kind EXCEPT ![p] = k]
    BY <1>3
  <1>4. ASSUME NEW p \in Procs, Acquire(p) \/ Step(p)
        PROVE  UNCHANGED kind \/ (p \in Reqs /\ kind' = [kind EXCEPT ![p] = "read"])
    <2> USE DEF Continue, Return, Forget, Execute
    <2>1. CASE Acquire(p)
      BY <2>1 DEF Acquire, OpLock, RwLock, ClassifyRW, ClassifyRO, ClassifyFailed, LockTx, RoLock
    <2>2. CASE Step(p)
      BY <2>2 DEF Step, ExecRollback, ClearID, UnlockTx, Validate, CheckTx, RoExec,
                  ExecBegin, ExecCommit, ExecRead, ExecWrite, PublishID, PublishOwner,
                  PublishUsed, Check
    <2> QED
      BY <1>4, <2>1, <2>2
  <1>5. CASE Clock \/ Tick \/ Stop \/ Shutdown \/ Exited \/ UNCHANGED vars
    BY <1>1, <1>5 DEF Clock, Tick, Stop, Shutdown, Exited, vars, procVars, Drained,
                      MonitorStop, MonitorGone, CloserStep, ClosePools
  <1> QED
    BY <1>1, <1>2, <1>3, <1>4, <1>5
    DEF Next, SubmitInTx, SubmitPlain, SubmitWithoutTx, SubmitBegin, Start, Cancel

\* Every step keeps InStep: SQLite enters a transaction in the BEGIN that then
\* stores its id, and leaves it in the statement after which the id is cleared.
LEMMA NextInStep == LockInv /\ ShutdownOrder /\ KindsClean /\ InStep /\ [Next]_vars => InStep'
  <1> SUFFICES ASSUME LockInv, ShutdownOrder, KindsClean, InStep, [Next]_vars PROVE InStep'
    OBVIOUS
  <1>0. \A p \in deferUnlock : pc[p] \notin {"pubOwner", "pubUsed"} =>
          /\ txMu = Token(p) /\ txID = None
          /\ \A q \in Procs : pc[q] \notin {"clear", "unlockTx"}
          /\ \A q \in Procs : pc[q] \in {"clsRW", "rwLock", "rwExec"} => tx[q] = None
          /\ \A q \in deferUnlock \ {p} : pc[q] \in {"pubOwner", "pubUsed"}
    BY Exclusion
  <1> USE ConstantsAssumption, <1>0
      DEF LockInv, TypeOK, Procs, Return, Continue, Forget, Touch, After, Token,
          mgrVars, rwVars, roVars, histVars, procVars, Paths, OpHeld, InOp, Deferred, TxMuHeld,
          ValidationHolds, RwTxOwned,
          RoleInForce, RoleOf, ShutdownOrder, KindsClean, CleanKinds, InStep, ConnectionInStep
  <1>1. ASSUME NEW p \in Reqs, NEW k \in Kinds, NEW t \in known, SubmitInTx(p, k, t)
        PROVE  InStep'
    BY <1>1 DEF SubmitInTx, Start
  <1>2. ASSUME NEW p \in Reqs, NEW k \in Kinds, SubmitPlain(p, k) PROVE InStep'
    BY <1>2 DEF SubmitPlain, Start
  <1>3. ASSUME NEW p \in Reqs, SubmitBegin(p) PROVE InStep'
    BY <1>3 DEF SubmitBegin, Start
  <1>4. ASSUME NEW p \in Reqs, NEW k \in Kinds, SubmitWithoutTx(p, k) PROVE InStep'
    BY <1>4 DEF SubmitWithoutTx, Start
  <1>5. ASSUME NEW p \in Reqs, Cancel(p) PROVE InStep'
    BY <1>5 DEF Cancel
  <1>6. CASE Clock
    BY <1>6 DEF Clock
  <1>7. ASSUME NEW p \in Procs, OpLock(p) PROVE InStep'
    BY <1>7 DEF OpLock
  <1>8. ASSUME NEW p \in Procs, RwLock(p) PROVE InStep'
    BY <1>8 DEF RwLock
  <1>9. ASSUME NEW p \in Reqs, ClassifyRW(p) PROVE InStep'
    BY <1>9 DEF ClassifyRW, Execute
  <1>10. ASSUME NEW p \in Reqs, ClassifyRO(p) PROVE InStep'
    BY <1>10 DEF ClassifyRO, ClassifyFailed, Execute
  <1>11. ASSUME NEW p \in Reqs, LockTx(p) PROVE InStep'
    BY <1>11 DEF LockTx
  <1>12. ASSUME NEW p \in Reqs, RoLock(p) PROVE InStep'
    BY <1>12 DEF RoLock
  <1>13. ASSUME NEW p \in Procs, ExecRollback(p) PROVE InStep'
    BY <1>13, AdminEnds DEF ExecRollback, DropRows, TypeOf, QueryType, ControlKinds, WriteKinds
  <1>14. ASSUME NEW p \in Procs, ClearID(p) PROVE InStep'
    BY <1>14 DEF ClearID
  <1>15. ASSUME NEW p \in Procs, UnlockTx(p) PROVE InStep'
    BY <1>15 DEF UnlockTx
  <1>16. ASSUME NEW p \in Reqs, Validate(p) PROVE InStep'
    BY <1>16 DEF Validate, IsValid, Execute
  <1>17. ASSUME NEW p \in Reqs, CheckTx(p) PROVE InStep'
    BY <1>17 DEF CheckTx
  <1>18. ASSUME NEW p \in Reqs, RoExec(p) PROVE InStep'
    BY <1>18 DEF RoExec
  <1>19. ASSUME NEW p \in Reqs, ExecBegin(p) PROVE InStep'
    BY <1>19 DEF ExecBegin, TypeOf, QueryType, ControlKinds, WriteKinds
  <1>20. ASSUME NEW p \in Reqs, ExecCommit(p) PROVE InStep'
    BY <1>20 DEF ExecCommit, CommitRows, TypeOf, QueryType, ControlKinds, WriteKinds
  <1>21. ASSUME NEW p \in Reqs, ExecRead(p) PROVE InStep'
    BY <1>21 DEF ExecRead, CommitRows, TypeOf, QueryType, ControlKinds, WriteKinds
  <1>22. ASSUME NEW p \in Reqs, ExecWrite(p) PROVE InStep'
    BY <1>22 DEF ExecWrite, DropRows, TypeOf, QueryType, ControlKinds, WriteKinds
  <1>23. ASSUME NEW p \in Reqs, PublishID(p) PROVE InStep'
    BY <1>23 DEF PublishID
  <1>24. ASSUME NEW p \in Reqs, PublishOwner(p) PROVE InStep'
    BY <1>24 DEF PublishOwner
  <1>25. ASSUME NEW p \in Reqs, PublishUsed(p) PROVE InStep'
    BY <1>25 DEF PublishUsed
  <1>26. ASSUME NEW p \in {Monitor, Closer}, Check(p) PROVE InStep'
    BY <1>26 DEF Check
  <1>27. CASE Tick \/ Stop \/ Shutdown
    BY <1>27 DEF Tick, Stop, Shutdown, Drained, MonitorStop, MonitorGone, CloserStep,
                 ClosePools, DropRows
  <1>28. CASE Exited \/ UNCHANGED vars
    BY <1>28 DEF Exited, vars
  <1> HIDE DEF LockInv, TypeOK, InStep, ShutdownOrder, KindsClean
  <1> QED
    BY <1>1, <1>2, <1>3, <1>4, <1>5, <1>6, <1>7, <1>8, <1>9, <1>10, <1>11, <1>12,
       <1>13, <1>14, <1>15, <1>16, <1>17, <1>18, <1>19, <1>20, <1>21, <1>22, <1>23,
       <1>24, <1>25, <1>26, <1>27, <1>28
    DEF Next, Acquire, Step

\* A request that is over stays so.
LEMMA OverKeeps ==
  ASSUME TypeOK, [Next]_vars, NEW t \in Tokens, Over(t) PROVE Over(t)'
  <1> USE ConstantsAssumption DEF TypeOK, Tokens, Over, Procs
  <1>1. ASSUME NEW p \in Procs, Acquire(p) \/ Step(p) PROVE Over(t)'
    BY <1>1, OneMoves
  <1>2. ASSUME NEW p \in Reqs, NEW k, NEW u, NEW label, Start(p, k, u, label) PROVE Over(t)'
    BY <1>2 DEF Start
  <1>3. CASE Clock \/ Tick \/ Stop \/ Shutdown \/ Exited \/ UNCHANGED vars
    BY <1>3 DEF Clock, Tick, Stop, Shutdown, Exited, vars, procVars, Drained, MonitorStop,
                MonitorGone, CloserStep, ClosePools
  <1>4. ASSUME NEW p \in Reqs, Cancel(p) PROVE Over(t)'
    BY <1>4 DEF Cancel
  <1> QED
    BY <1>1, <1>2, <1>3, <1>4 DEF Next, SubmitInTx, SubmitPlain, SubmitWithoutTx, SubmitBegin

\* Only a statement that runs on the read-write connection, or the closing of that
\* connection, changes rows or the transaction SQLite is in.
LEMMA OnlyRwSteps ==
  ASSUME [Next]_vars
  PROVE  \/ \E p \in Procs : ExecRollback(p)
         \/ \E p \in Reqs : ExecBegin(p) \/ ExecCommit(p) \/ ExecRead(p) \/ ExecWrite(p)
         \/ ClosePools
         \/ UNCHANGED <<rwTx, pending, file, wrote, committed>>
  <1> USE DEF vars, rwVars, histVars
  <1>1. ASSUME NEW p \in Procs, Acquire(p)
        PROVE  UNCHANGED <<rwTx, pending, file, wrote, committed>>
    BY <1>1 DEF Acquire, OpLock, RwLock, ClassifyRW, ClassifyRO, LockTx, RoLock
  <1>2. ASSUME NEW p \in Procs, Step(p)
        PROVE  \/ ExecRollback(p)
               \/ p \in Reqs /\ (ExecBegin(p) \/ ExecCommit(p) \/ ExecRead(p) \/ ExecWrite(p))
               \/ UNCHANGED <<rwTx, pending, file, wrote, committed>>
    BY <1>2 DEF Step, Validate, CheckTx, RoExec, PublishID, PublishOwner, PublishUsed,
                ClearID, UnlockTx, Check
  <1> QED
    BY <1>1, <1>2
    DEF Next, SubmitInTx, SubmitPlain, SubmitWithoutTx, SubmitBegin, Start, Cancel, Clock,
        Tick, Stop, Shutdown, Exited, Drained, MonitorStop, MonitorGone, CloserStep

\* Every step keeps Past: the row of a write is new when it is written.
LEMMA NextPast == LockInv /\ TypeOK' /\ Past /\ [Next]_vars => Past'
  <1> SUFFICES ASSUME LockInv, TypeOK', Past, [Next]_vars PROVE Past'
    OBVIOUS
  <1>0. /\ \A t \in Tokens : Over(t) => Over(t)'
        /\ \A t \in Tokens : Begun(t) => Begun(t)'
    BY OverKeeps, BegunKeeps DEF LockInv
  <1>1. /\ wrote \subseteq Tokens \X Tokens
        /\ \A p \in Procs : tx[p] # None => tx[p] \in Tokens /\ Begun(tx[p])
    BY DEF LockInv, TypeOK, IdsBegun
  <1>2. CASE /\ (file \cup pending)' \subseteq file \cup pending
             /\ wrote' = wrote /\ committed' = committed
    BY <1>0, <1>1, <1>2 DEF Past
  <1>3. ASSUME NEW p \in Reqs, ExecCommit(p) PROVE Past'
    <2>1. (file \cup pending)' \subseteq file \cup pending /\ wrote' = wrote
      BY <1>3 DEF ExecCommit, CommitRows
    <2>2. committed' = committed \/ (committed' = committed \cup {tx[p]} /\ tx[p] # None)
      BY <1>3 DEF ExecCommit, LockInv, Paths, TypeOf, QueryType, ControlKinds, WriteKinds
    <2>3. p \in Procs
      BY DEF Procs
    <2>4. \A t \in committed' : t \in Tokens /\ Begun(t)'
      BY <1>0, <1>1, <2>2, <2>3 DEF Past
    <2> QED
      BY <1>0, <1>1, <2>1, <2>4 DEF Past
  <1>4. ASSUME NEW p \in Reqs, ExecWrite(p) PROVE Past'
    <2>1. Token(p) \in Tokens /\ \A t \in Tokens : t = Token(p) => Over(t)'
      BY <1>4, ConstantsAssumption
      DEF ExecWrite, Return, Forget, After, LockInv, TypeOK, Over, Token, Tokens, Procs
    <2>2. \A r \in RowsOf(p) \cap Tokens : r = Token(p)
      BY ConstantsAssumption DEF RowsOf, Table, Tokens, Procs
    <2>3. /\ (file \cup pending)' \subseteq file \cup pending \cup RowsOf(p)
          /\ wrote' = wrote \/ (wrote' = wrote \cup {<<Token(p), tx[p]>>} /\ tx[p] # None)
          /\ committed' = committed
      BY <1>4 DEF ExecWrite, DropRows
    <2>4. p \in Procs
      BY DEF Procs
    <2>5. \A r \in (file \cup pending)' \cap Tokens : Over(r)'
      BY <1>0, <2>1, <2>2, <2>3 DEF Past
    <2>6. \A w \in wrote' : Over(w[1])' /\ Begun(w[2])'
      BY <1>0, <1>1, <2>1, <2>3, <2>4 DEF Past
    <2> QED
      BY <1>0, <2>3, <2>5, <2>6 DEF Past
  <1> QED
    BY <1>2, <1>3, <1>4, OnlyRwSteps
    DEF ExecRollback, ExecBegin, ExecRead, ClosePools, CommitRows, DropRows, histVars

\* A statement sent with a txID runs in the SQLite transaction of that id, and a
\* statement sent without one runs in none.
LEMMA RunsInItsTx ==
  ASSUME LockInv, InStep, NEW p \in Reqs, pc[p] = "rwExec"
  PROVE  rwTx = tx[p]
  <1>1. CASE tx[p] = None
    BY <1>1, Exclusion DEF LockInv, Deferred, RwTxOwned, Procs
  <1>2. CASE tx[p] # None
    <2>1. txID = tx[p] /\ txOpMu = p
      BY <1>2 DEF LockInv, TxMuHeld, ValidationHolds, OpHeld, InOp, Procs
    <2>2. \A q \in Procs : pc[q] # "clear"
      BY <2>1 DEF LockInv, OpHeld, InOp
    <2> QED
      BY <1>2, <2>1, <2>2 DEF InStep, ConnectionInStep
  <1> QED
    BY <1>1, <1>2

\* What a step can do to the rows while the clients are clean: nothing, a BEGIN, a
\* COMMIT, a ROLLBACK, a write in the open transaction or a write in none.
Effect ==
    \/ UNCHANGED <<rwTx, pending, file, wrote, committed>>
    \/ /\ \E p \in Reqs : pc[p] = "rwExec" /\ rwTx' = Token(p)
       /\ rwTx = None /\ pending' = {}
       /\ UNCHANGED <<file, wrote, committed>>
    \/ /\ rwTx # None /\ rwTx' = None
       /\ file' = file \cup pending /\ pending' = {} /\ committed' = committed \cup {rwTx}
       /\ UNCHANGED wrote
    \/ /\ rwTx' = None /\ pending' = {}
       /\ UNCHANGED <<file, wrote, committed>>
    \/ \E p \in Reqs :
       /\ pc[p] = "rwExec" /\ rwTx # None
       /\ pending' = pending \cup RowsOf(p) /\ wrote' = wrote \cup {<<Token(p), rwTx>>}
       /\ UNCHANGED <<rwTx, file, committed>>
    \/ \E p \in Reqs :
       /\ pc[p] = "rwExec" /\ rwTx = None
       /\ file' = file \cup RowsOf(p)
       /\ UNCHANGED <<rwTx, pending, wrote, committed>>

\* Every step has one of these effects.
LEMMA NextEffect == LockInv /\ InStep /\ KindsClean /\ [Next]_vars => Effect
  <1> SUFFICES ASSUME LockInv, InStep, KindsClean, [Next]_vars PROVE Effect
    OBVIOUS
  <1>1. ASSUME NEW p \in Procs, ExecRollback(p) PROVE Effect
    BY <1>1 DEF ExecRollback, DropRows, Effect
  <1>2. CASE ClosePools
    BY <1>2 DEF ClosePools, DropRows, Effect, histVars
  <1>3. ASSUME NEW p \in Reqs, ExecBegin(p) PROVE Effect
    BY <1>3 DEF ExecBegin, Effect
  <1>4. ASSUME NEW p \in Reqs, ExecCommit(p) PROVE Effect
    BY <1>4, RunsInItsTx DEF ExecCommit, CommitRows, Effect
  <1>5. ASSUME NEW p \in Reqs, ExecRead(p) PROVE Effect
    BY <1>5 DEF ExecRead, Effect, KindsClean, CleanKinds, ControlKinds
  <1>6. ASSUME NEW p \in Reqs, ExecWrite(p) PROVE Effect
    BY <1>6, RunsInItsTx DEF ExecWrite, Effect, KindsClean, CleanKinds, ControlKinds
  <1> QED
    BY <1>1, <1>2, <1>3, <1>4, <1>5, <1>6, OnlyRwSteps DEF Effect

\* Every step keeps Buffered: what SQLite holds back is what the clients were told
\* they wrote under the id of the open transaction.
LEMMA NextBuffered ==
    LockInv /\ InStep /\ KindsClean /\ Past /\ Buffered /\ [Next]_vars => Buffered'
  <1> SUFFICES ASSUME LockInv, Past, Buffered, Effect PROVE Buffered'
    BY NextEffect
  <1>0. /\ wrote \subseteq Tokens \X Tokens
        /\ None \notin Tokens /\ None \notin committed
        /\ pending \cap Tokens = {w[1] : w \in {v \in wrote : v[2] = rwTx}}
        /\ Table \notin Tokens
    BY ConstantsAssumption DEF LockInv, TypeOK, Past, Buffered, Rows, Table, Tokens, Procs
  <1>1. CASE UNCHANGED <<rwTx, pending, file, wrote, committed>>
    BY <1>1 DEF Buffered
  <1>2. CASE /\ rwTx' = None /\ pending' = {}
             /\ UNCHANGED <<file, wrote, committed>>
    BY <1>0, <1>2 DEF Buffered
  <1>3. CASE /\ rwTx # None /\ rwTx' = None
             /\ file' = file \cup pending /\ pending' = {} /\ committed' = committed \cup {rwTx}
             /\ UNCHANGED wrote
    BY <1>0, <1>3 DEF Buffered
  <1>4. ASSUME NEW p \in Reqs, pc[p] = "rwExec", rwTx' = Token(p), rwTx = None, pending' = {},
               UNCHANGED <<file, wrote, committed>>
        PROVE  Buffered'
    <2>1. \A w \in wrote : w[2] # Token(p)
      BY <1>0, <1>4, NotBegun DEF Past, LockInv
    <2>2. Token(p) \notin committed
      BY <1>4, NotBegun DEF Past, LockInv
    <2> QED
      BY <1>0, <1>4, <2>1, <2>2 DEF Buffered
  <1>5. ASSUME NEW p \in Reqs, pc[p] = "rwExec", rwTx # None,
               pending' = pending \cup RowsOf(p), wrote' = wrote \cup {<<Token(p), rwTx>>},
               UNCHANGED <<rwTx, file, committed>>
        PROVE  Buffered'
    <2>1. Token(p) \in Tokens /\ ~Over(Token(p))
      BY <1>5 DEF LockInv, TypeOK, Over, Token, Tokens
    <2>2. Token(p) \notin file \cup pending /\ \A w \in wrote : w[1] # Token(p)
      BY <2>1 DEF Past
    <2>3. RowsOf(p) \ {Table} = {Token(p)} /\ Token(p) # Table
      BY <1>0, <2>1 DEF RowsOf
    <2>4. {w[1] : w \in {v \in wrote' : v[2] = rwTx}}
             = {w[1] : w \in {v \in wrote : v[2] = rwTx}} \cup {Token(p)}
      <3> DEFINE new == <<Token(p), rwTx>>
      <3>1. {v \in wrote' : v[2] = rwTx} = {v \in wrote : v[2] = rwTx} \cup {new}
        BY <1>5
      <3>2. new[1] = Token(p)
        OBVIOUS
      <3> HIDE DEF new
      <3> QED
        BY <3>1, <3>2
    <2>5. pending' \ {Table} = (pending \ {Table}) \cup {Token(p)}
      BY <1>5, <2>3
    <2>6. \A w \in wrote' : w \in wrote \/ (w[1] = Token(p) /\ w[2] = rwTx)
      BY <1>5
    <2>7. \A w \in wrote : w[1] \notin RowsOf(p)
      BY <1>0, <2>2 DEF RowsOf
    <2>8. (pending \ {Table})' = {w[1] : w \in {v \in wrote : v[2] = rwTx}}'
      BY <1>5, <2>4, <2>5 DEF Buffered, Table
    <2>9. \A w \in wrote' : w[2] = rwTx => w[1] \notin file
      BY <2>2, <2>6 DEF Buffered
    <2>10. \A w \in wrote' : w[2] # rwTx =>
             (w[1] \notin pending' /\ (w[1] \in file <=> w[2] \in committed))
      BY <1>5, <2>6, <2>7 DEF Buffered
    <2> QED
      BY <1>5, <2>8, <2>9, <2>10 DEF Buffered
  <1>6. ASSUME NEW p \in Reqs, pc[p] = "rwExec", rwTx = None, file' = file \cup RowsOf(p),
               UNCHANGED <<rwTx, pending, wrote, committed>>
        PROVE  Buffered'
    <2>1. Token(p) \in Tokens /\ ~Over(Token(p))
      BY <1>6 DEF LockInv, TypeOK, Over, Token, Tokens
    <2>2. \A w \in wrote : w[1] # Token(p) /\ w[1] # Table
      BY <1>0, <2>1 DEF Past
    <2> QED
      BY <1>0, <1>6, <2>2 DEF Buffered, RowsOf
  <1> QED
    BY <1>1, <1>2, <1>3, <1>4, <1>5, <1>6 DEF Effect

\* TxInv is inductive for clean clients, relative to LockInv and HeldInv.
LEMMA NextTxInv ==
  ASSUME CleanClients PROVE LockInv /\ HeldInv /\ TxInv /\ [Next]_vars => TxInv'
  <1> SUFFICES ASSUME LockInv, HeldInv, TxInv, [Next]_vars PROVE TxInv'
    OBVIOUS
  <1>1. LockInv' /\ TypeOK /\ TypeOK'
    BY NextLockInv DEF LockInv
  <1> QED
    BY <1>1, NextKindsClean, NextInStep, NextPast, NextBuffered DEF TxInv, HeldInv

\* As long as the clients send clean statements, SQLite and the manager agree on the
\* open transaction and on the rows it holds back.
THEOREM CleanDiscipline == ASSUME CleanClients PROVE Spec => []TxInv
  <1>1. Init => TxInv
    BY ConstantsAssumption
    DEF Init, TxInv, KindsClean, CleanKinds, ControlKinds, InStep, ConnectionInStep, Past,
        Buffered, Procs
  <1>2. LockInv /\ HeldInv /\ TxInv /\ [Next]_vars => TxInv'
    BY NextTxInv
  <1> QED
    BY <1>1, <1>2, LockDiscipline, HeldDiscipline, PTL DEF Spec

\* A transaction is all or nothing: the rows acknowledged under its id are in the
\* database exactly when executeCommitQuery committed it, in spite of the idle
\* monitor, failed commits, cancelled requests and the shutdown.
THEOREM TransactionsAtomic == ASSUME CleanClients PROVE Spec => []Atomicity
  <1>1. TxInv => Atomicity
    BY DEF TxInv, Buffered, Atomicity
  <1> QED
    BY <1>1, CleanDiscipline, PTL

\* The connection is in the transaction that the manager believes is open.
THEOREM ConnectionStaysInStep == ASSUME CleanClients PROVE Spec => []ConnectionInStep
  <1>1. TxInv => ConnectionInStep
    BY DEF TxInv, InStep
  <1> QED
    BY <1>1, CleanDiscipline, PTL

\* When the process exits nothing is open and nothing is locked: Close found the
\* transaction that no client had ended.
THEOREM ClosesClean == ASSUME CleanClients PROVE Spec => []ClosedClean
  <1>1. LockInv /\ HeldInv /\ TxInv => ClosedClean
    <2> SUFFICES ASSUME LockInv, HeldInv, TxInv, pc[Closer] = "closed"
                 PROVE  /\ txID = None /\ rwTx = None
                        /\ txMu = None /\ txOpMu = None /\ writeMu = None
      BY DEF ClosedClean
    <2>1. \A p \in Procs : pc[p] \in {"idle", "stopped", "closed"}
      BY DEF HeldInv, ShutdownOrder, Procs
    <2>2. txID = None /\ rwTx = None
      BY <2>1 DEF TxInv, InStep, Procs
    <2>3. txOpMu = None /\ writeMu = None
      BY <2>1 DEF HeldInv, MutexesUsed, InOp, LockInv, TypeOK
    <2>4. deferUnlock = {}
      BY <2>1 DEF LockInv, Deferred, TypeOK, Procs
    <2> QED
      BY <2>1, <2>2, <2>3, <2>4 DEF HeldInv, TxMuUsed
  <1> QED
    BY <1>1, LockDiscipline, HeldDiscipline, CleanDiscipline, PTL

\* The initial state maps to the initial state of TxStore.
LEMMA InitStore == Init => Store!Init
  BY DEF Init, Store!Init

\* Every step maps to a step of TxStore or to a stutter.
LEMMA StepStore ==
    LockInv /\ HeldInv /\ TxInv /\ TypeOK' /\ [Next]_vars => [Store!Next]_(Store!storeVars)
  <1> SUFFICES ASSUME LockInv, HeldInv, TxInv, TypeOK', Effect
               PROVE  Store!Next \/ UNCHANGED Store!storeVars
    BY NextEffect DEF TxInv
  <1> USE DEF Store!Next, Store!storeVars
  <1> DEFINE buf == {w[1] : w \in {v \in wrote : v[2] = rwTx}}
  <1>0. /\ \A w \in wrote \cup wrote' : w[2] # None
        /\ pending \ {Table} = buf
        /\ \A p \in Reqs : pc[p] = "rwExec" => Token(p) \in Requests /\ Token(p) # Table
    BY ConstantsAssumption
    DEF LockInv, TypeOK, HeldInv, OpsBounded, TxInv, Buffered, Requests, Token, Table, Tokens, Procs
  <1>1. CASE UNCHANGED <<rwTx, pending, file, wrote, committed>>
    BY <1>1
  <1>2. CASE /\ rwTx' = None /\ pending' = {}
             /\ UNCHANGED <<file, wrote, committed>>
    BY <1>0, <1>2 DEF Store!Rollback
  <1>3. CASE /\ rwTx # None /\ rwTx' = None
             /\ file' = file \cup pending /\ pending' = {} /\ committed' = committed \cup {rwTx}
             /\ UNCHANGED wrote
    BY <1>0, <1>3 DEF Store!Commit, Table
  <1>4. ASSUME NEW p \in Reqs, pc[p] = "rwExec", rwTx' = Token(p), rwTx = None, pending' = {},
               UNCHANGED <<file, wrote, committed>>
        PROVE  Store!Next
    <2>1. \A w \in wrote : w[2] # Token(p)
      BY <1>4, NotBegun DEF TxInv, Past, LockInv, TypeOK
    <2>2. Token(p) \notin committed
      BY <1>4, NotBegun DEF TxInv, Past, LockInv
    <2>3. PICK t \in Requests : t = Token(p)
      BY <1>0, <1>4
    <2>4. Store!Begin(t)
      BY <1>4, <2>1, <2>2, <2>3 DEF Store!Begin, Table
    <2> QED
      BY <2>4
  <1>5. ASSUME NEW p \in Reqs, pc[p] = "rwExec", rwTx # None,
               pending' = pending \cup RowsOf(p), wrote' = wrote \cup {<<Token(p), rwTx>>},
               UNCHANGED <<rwTx, file, committed>>
        PROVE  Store!Next
    <2> DEFINE new == <<Token(p), rwTx>>
    <2>1. {v \in wrote' : v[2] = rwTx} = {v \in wrote : v[2] = rwTx} \cup {new}
      BY <1>5
    <2>2. new[1] = Token(p)
      OBVIOUS
    <2> HIDE DEF new
    <2>3. buf' = buf \cup {Token(p)}
      BY <1>5, <2>1, <2>2
    <2>4. PICK r \in Requests : r = Token(p)
      BY <1>0, <1>5
    <2>5. Store!TxWrite(r)
      BY <1>5, <2>3, <2>4 DEF Store!TxWrite, Table
    <2> QED
      BY <2>5
  <1>6. ASSUME NEW p \in Reqs, pc[p] = "rwExec", rwTx = None, file' = file \cup RowsOf(p),
               UNCHANGED <<rwTx, pending, wrote, committed>>
        PROVE  Store!Next
    <2>1. RowsOf(p) \ {Table} = {Token(p)}
      BY <1>0, <1>6 DEF RowsOf
    <2>2. (file \ {Table})' = (file \ {Table}) \cup {Token(p)}
      BY <1>6, <2>1 DEF Table
    <2>3. PICK r \in Requests : r = Token(p)
      BY <1>0, <1>6
    <2>4. Store!PlainWrite(r)
      BY <1>6, <2>2, <2>3 DEF Store!PlainWrite
    <2> QED
      BY <2>4
  <1> QED
    BY <1>1, <1>2, <1>3, <1>4, <1>5, <1>6 DEF Effect

\* The manager implements TxStore: one transaction at a time, whose rows appear
\* together or never, and plain writes only between transactions.
THEOREM Implements == ASSUME CleanClients PROVE Spec => ImplementsTxStore
  <1>1. LockInv /\ HeldInv /\ TxInv /\ TypeOK' /\ [Next]_vars => [Store!Next]_(Store!storeVars)
    BY StepStore
  <1> QED
    BY <1>1, InitStore, TypeCorrect, LockDiscipline, HeldDiscipline, CleanDiscipline, PTL
    DEF Spec, ImplementsTxStore, Store!Spec
=============================================================================
