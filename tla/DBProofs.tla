------------------------------ MODULE DBProofs ------------------------------
(***************************************************************************)
(* Safety of the transaction manager for any number of requests,           *)
(* connections and statements.                                             *)
(***************************************************************************)
EXTENDS DBInv, TLAPS

\* The initial state of NewDB has the types that TypeOK states.
LEMMA InitTypeOK == Init => TypeOK
  BY ConstantsAssumption
  DEF Init, TypeOK, ReqLabels, RollbackLabels, Procs, AllKinds, ControlKinds,
      WriteKinds, Roles, Counters

\* Every step of every goroutine keeps the types that TypeOK states.
LEMMA NextTypeOK == TypeOK /\ [Next]_vars => TypeOK'
  <1> SUFFICES ASSUME TypeOK, [Next]_vars PROVE TypeOK'
    OBVIOUS
  <1> USE ConstantsAssumption
      DEF TypeOK, ReqLabels, RollbackLabels, Procs, Counters, Return, Continue, Forget,
          Touch, After, Inc, Dec, Token, mgrVars, rwVars, roVars, histVars, procVars
  <1>1. ASSUME NEW p \in Reqs, NEW k \in Kinds, NEW t \in known, SubmitInTx(p, k, t)
        PROVE  TypeOK'
    BY <1>1 DEF SubmitInTx, Start
  <1>2. ASSUME NEW p \in Reqs, NEW k \in Kinds, SubmitPlain(p, k) PROVE TypeOK'
    BY <1>2 DEF SubmitPlain, Start
  <1>3. ASSUME NEW p \in Reqs, SubmitBegin(p) PROVE TypeOK'
    BY <1>3 DEF SubmitBegin, Start, AllKinds, ControlKinds
  <1>4. ASSUME NEW p \in Reqs, NEW k \in Kinds, SubmitWithoutTx(p, k) PROVE TypeOK'
    BY <1>4 DEF SubmitWithoutTx, Start, AllKinds
  <1>5. ASSUME NEW p \in Reqs, Cancel(p) PROVE TypeOK'
    BY <1>5 DEF Cancel
  <1>6. CASE Clock
    BY <1>6 DEF Clock, Older
  <1>7. ASSUME NEW p \in Procs, OpLock(p) PROVE TypeOK'
    BY <1>7 DEF OpLock
  <1>8. ASSUME NEW p \in Procs, RwLock(p) PROVE TypeOK'
    BY <1>8 DEF RwLock, RoleOf, Roles, Dequeued, AllKinds
  <1>9. ASSUME NEW p \in Reqs, ClassifyRW(p) PROVE TypeOK'
    BY <1>9 DEF ClassifyRW, Execute, Roles, AllKinds
  <1>10. ASSUME NEW p \in Reqs, ClassifyRO(p) PROVE TypeOK'
    BY <1>10, SMTT(30) DEF ClassifyRO, ClassifyFailed, Execute, Roles, AllKinds
  <1>11. ASSUME NEW p \in Reqs, LockTx(p) PROVE TypeOK'
    BY <1>11 DEF LockTx, Tokens
  <1>12. ASSUME NEW p \in Reqs, RoLock(p) PROVE TypeOK'
    BY <1>12 DEF RoLock, AllKinds
  <1>13. ASSUME NEW p \in Procs, ExecRollback(p) PROVE TypeOK'
    BY <1>13 DEF ExecRollback, DropRows, AllKinds
  <1>14. ASSUME NEW p \in Procs, ClearID(p) PROVE TypeOK'
    BY <1>14 DEF ClearID
  <1>15. ASSUME NEW p \in Procs, UnlockTx(p) PROVE TypeOK'
    BY <1>15 DEF UnlockTx, AllKinds
  <1>16. ASSUME NEW p \in Reqs, Validate(p) PROVE TypeOK'
    BY <1>16 DEF Validate, Execute, AllKinds
  <1>17. ASSUME NEW p \in Reqs, CheckTx(p) PROVE TypeOK'
    BY <1>17 DEF CheckTx, AllKinds
  <1>18. ASSUME NEW p \in Reqs, RoExec(p) PROVE TypeOK'
    BY <1>18 DEF RoExec, RoModeAfter, RoView, AllKinds
  <1>19. ASSUME NEW p \in Reqs, ExecBegin(p) PROVE TypeOK'
    <2>1. Token(p) \in Tokens
      BY DEF Tokens
    <2>2. Dequeued(p) \in [Counters -> Int]
      BY DEF Dequeued
    <2> QED
      BY <1>19, <2>1, <2>2 DEF ExecBegin, AllKinds
  <1>20. ASSUME NEW p \in Reqs, ExecCommit(p) PROVE TypeOK'
    BY <1>20 DEF ExecCommit, CommitRows, AllKinds
  <1>21. ASSUME NEW p \in Reqs, ExecRead(p) PROVE TypeOK'
    BY <1>21 DEF ExecRead, CommitRows, Tokens, AllKinds
  <1>22. ASSUME NEW p \in Reqs, ExecWrite(p) PROVE TypeOK'
    <2>1. Token(p) \in Tokens
      BY DEF Tokens
    <2>2. Dequeued(p) \in [Counters -> Int]
      BY DEF Dequeued
    <2>3. RowsOf(p) \subseteq Rows
      BY <2>1 DEF RowsOf, Rows
    <2> QED
      BY <1>22, <2>1, <2>2, <2>3 DEF ExecWrite, DropRows, AllKinds
  <1>23. ASSUME NEW p \in Reqs, PublishID(p) PROVE TypeOK'
    BY <1>23 DEF PublishID, Tokens
  <1>24. ASSUME NEW p \in Reqs, PublishOwner(p) PROVE TypeOK'
    BY <1>24 DEF PublishOwner
  <1>25. ASSUME NEW p \in Reqs, PublishUsed(p) PROVE TypeOK'
    BY <1>25 DEF PublishUsed, Tokens, Dequeued, AllKinds
  <1>26. ASSUME NEW p \in {Monitor, Closer}, Check(p) PROVE TypeOK'
    BY <1>26 DEF Check
  <1>27. CASE Tick \/ Stop \/ Shutdown
    BY <1>27 DEF Tick, Stop, Shutdown, Drained, MonitorStop, MonitorGone, CloserStep,
                 ClosePools, DropRows
  <1>28. CASE Exited \/ UNCHANGED vars
    BY <1>28 DEF Exited, vars
  <1> HIDE DEF TypeOK
  <1> QED
    BY <1>1, <1>2, <1>3, <1>4, <1>5, <1>6, <1>7, <1>8, <1>9, <1>10, <1>11, <1>12, <1>13,
       <1>14, <1>15, <1>16, <1>17, <1>18, <1>19, <1>20, <1>21, <1>22, <1>23, <1>24,
       <1>25, <1>26, <1>27, <1>28
    DEF Next, Acquire, Step

\* TypeOK holds in every state of every behaviour.
THEOREM TypeCorrect == Spec => []TypeOK
  BY InitTypeOK, NextTypeOK, PTL DEF Spec

\* Every step keeps what Paths says of the txID and the statement a goroutine has
\* at each place of query, queryWithType and executeClassifiedQuery.
LEMMA NextPaths == LockInv /\ TypeOK' /\ [Next]_vars => Paths'
  <1> SUFFICES ASSUME LockInv, TypeOK', [Next]_vars PROVE Paths'
    OBVIOUS
  <1> USE ConstantsAssumption
      DEF LockInv, TypeOK, Procs, Return, Continue, Forget, Touch, After, Token,
          mgrVars, rwVars, roVars, histVars, procVars, Paths, TypeOf, QueryType,
          ControlKinds, WriteKinds
  <1>1. ASSUME NEW p \in Reqs, NEW k \in Kinds, NEW t \in known, SubmitInTx(p, k, t)
        PROVE  Paths'
    BY <1>1 DEF SubmitInTx, Start
  <1>2. ASSUME NEW p \in Reqs, NEW k \in Kinds, SubmitPlain(p, k) PROVE Paths'
    BY <1>2 DEF SubmitPlain, Start
  <1>3. ASSUME NEW p \in Reqs, SubmitBegin(p) PROVE Paths'
    BY <1>3 DEF SubmitBegin, Start
  <1>4. ASSUME NEW p \in Reqs, NEW k \in Kinds, SubmitWithoutTx(p, k) PROVE Paths'
    BY <1>4 DEF SubmitWithoutTx, Start
  <1>5. ASSUME NEW p \in Reqs, Cancel(p) PROVE Paths'
    BY <1>5 DEF Cancel
  <1>6. CASE Clock
    BY <1>6 DEF Clock
  <1>7. ASSUME NEW p \in Procs, OpLock(p) PROVE Paths'
    BY <1>7 DEF OpLock
  <1>8. ASSUME NEW p \in Procs, RwLock(p) PROVE Paths'
    BY <1>8 DEF RwLock
  <1>9. ASSUME NEW p \in Reqs, ClassifyRW(p) PROVE Paths'
    BY <1>9 DEF ClassifyRW, Execute
  <1>10. ASSUME NEW p \in Reqs, ClassifyRO(p) PROVE Paths'
    BY <1>10 DEF ClassifyRO, ClassifyFailed, Execute
  <1>11. ASSUME NEW p \in Reqs, LockTx(p) PROVE Paths'
    BY <1>11 DEF LockTx
  <1>12. ASSUME NEW p \in Reqs, RoLock(p) PROVE Paths'
    BY <1>12 DEF RoLock
  <1>13. ASSUME NEW p \in Procs, ExecRollback(p) PROVE Paths'
    BY <1>13 DEF ExecRollback, DropRows
  <1>14. ASSUME NEW p \in Procs, ClearID(p) PROVE Paths'
    BY <1>14 DEF ClearID
  <1>15. ASSUME NEW p \in Procs, UnlockTx(p) PROVE Paths'
    BY <1>15 DEF UnlockTx
  <1>16. ASSUME NEW p \in Reqs, Validate(p) PROVE Paths'
    BY <1>16 DEF Validate, IsValid, Execute
  <1>17. ASSUME NEW p \in Reqs, CheckTx(p) PROVE Paths'
    BY <1>17 DEF CheckTx
  <1>18. ASSUME NEW p \in Reqs, RoExec(p) PROVE Paths'
    BY <1>18 DEF RoExec
  <1>19. ASSUME NEW p \in Reqs, ExecBegin(p) PROVE Paths'
    BY <1>19 DEF ExecBegin
  <1>20. ASSUME NEW p \in Reqs, ExecCommit(p) PROVE Paths'
    BY <1>20 DEF ExecCommit, CommitRows
  <1>21. ASSUME NEW p \in Reqs, ExecRead(p) PROVE Paths'
    BY <1>21 DEF ExecRead, CommitRows
  <1>22. ASSUME NEW p \in Reqs, ExecWrite(p) PROVE Paths'
    BY <1>22 DEF ExecWrite, DropRows
  <1>23. ASSUME NEW p \in Reqs, PublishID(p) PROVE Paths'
    BY <1>23 DEF PublishID
  <1>24. ASSUME NEW p \in Reqs, PublishOwner(p) PROVE Paths'
    BY <1>24 DEF PublishOwner
  <1>25. ASSUME NEW p \in Reqs, PublishUsed(p) PROVE Paths'
    BY <1>25 DEF PublishUsed
  <1>26. ASSUME NEW p \in {Monitor, Closer}, Check(p) PROVE Paths'
    BY <1>26 DEF Check
  <1>27. CASE Tick \/ Stop \/ Shutdown
    BY <1>27 DEF Tick, Stop, Shutdown, Drained, MonitorStop, MonitorGone, CloserStep,
                 ClosePools, DropRows
  <1>28. CASE Exited \/ UNCHANGED vars
    BY <1>28 DEF Exited, vars
  <1> HIDE DEF LockInv, TypeOK, Paths
  <1> QED
    BY <1>1, <1>2, <1>3, <1>4, <1>5, <1>6, <1>7, <1>8, <1>9, <1>10, <1>11, <1>12,
       <1>13, <1>14, <1>15, <1>16, <1>17, <1>18, <1>19, <1>20, <1>21, <1>22, <1>23,
       <1>24, <1>25, <1>26, <1>27, <1>28
    DEF Next, Acquire, Step

\* Every step keeps OpHeld: txOpMu is held from validateTxID, or from the load of
\* txID by the monitor and by Close, until the statement has been executed.
LEMMA NextOpHeld == LockInv /\ TypeOK' /\ [Next]_vars => OpHeld'
  <1> SUFFICES ASSUME LockInv, TypeOK', [Next]_vars PROVE OpHeld'
    OBVIOUS
  <1> USE ConstantsAssumption
      DEF LockInv, TypeOK, Procs, Return, Continue, Forget, Touch, After, Token,
          mgrVars, rwVars, roVars, histVars, procVars, Paths, OpHeld, InOp
  <1>1. ASSUME NEW p \in Reqs, NEW k \in Kinds, NEW t \in known, SubmitInTx(p, k, t)
        PROVE  OpHeld'
    BY <1>1 DEF SubmitInTx, Start
  <1>2. ASSUME NEW p \in Reqs, NEW k \in Kinds, SubmitPlain(p, k) PROVE OpHeld'
    BY <1>2 DEF SubmitPlain, Start
  <1>3. ASSUME NEW p \in Reqs, SubmitBegin(p) PROVE OpHeld'
    BY <1>3 DEF SubmitBegin, Start
  <1>4. ASSUME NEW p \in Reqs, NEW k \in Kinds, SubmitWithoutTx(p, k) PROVE OpHeld'
    BY <1>4 DEF SubmitWithoutTx, Start
  <1>5. ASSUME NEW p \in Reqs, Cancel(p) PROVE OpHeld'
    BY <1>5 DEF Cancel
  <1>6. CASE Clock
    BY <1>6 DEF Clock
  <1>7. ASSUME NEW p \in Procs, OpLock(p) PROVE OpHeld'
    BY <1>7 DEF OpLock
  <1>8. ASSUME NEW p \in Procs, RwLock(p) PROVE OpHeld'
    BY <1>8 DEF RwLock
  <1>9. ASSUME NEW p \in Reqs, ClassifyRW(p) PROVE OpHeld'
    BY <1>9 DEF ClassifyRW, Execute
  <1>10. ASSUME NEW p \in Reqs, ClassifyRO(p) PROVE OpHeld'
    BY <1>10 DEF ClassifyRO, ClassifyFailed, Execute
  <1>11. ASSUME NEW p \in Reqs, LockTx(p) PROVE OpHeld'
    BY <1>11 DEF LockTx
  <1>12. ASSUME NEW p \in Reqs, RoLock(p) PROVE OpHeld'
    BY <1>12 DEF RoLock
  <1>13. ASSUME NEW p \in Procs, ExecRollback(p) PROVE OpHeld'
    BY <1>13 DEF ExecRollback, DropRows, TypeOf, QueryType, ControlKinds, WriteKinds
  <1>14. ASSUME NEW p \in Procs, ClearID(p) PROVE OpHeld'
    BY <1>14 DEF ClearID
  <1>15. ASSUME NEW p \in Procs, UnlockTx(p) PROVE OpHeld'
    BY <1>15 DEF UnlockTx
  <1>16. ASSUME NEW p \in Reqs, Validate(p) PROVE OpHeld'
    BY <1>16 DEF Validate, IsValid, Execute
  <1>17. ASSUME NEW p \in Reqs, CheckTx(p) PROVE OpHeld'
    BY <1>17 DEF CheckTx
  <1>18. ASSUME NEW p \in Reqs, RoExec(p) PROVE OpHeld'
    BY <1>18 DEF RoExec
  <1>19. ASSUME NEW p \in Reqs, ExecBegin(p) PROVE OpHeld'
    BY <1>19 DEF ExecBegin
  <1>20. ASSUME NEW p \in Reqs, ExecCommit(p) PROVE OpHeld'
    BY <1>20 DEF ExecCommit, CommitRows, TypeOf, QueryType, ControlKinds, WriteKinds
  <1>21. ASSUME NEW p \in Reqs, ExecRead(p) PROVE OpHeld'
    BY <1>21 DEF ExecRead, CommitRows
  <1>22. ASSUME NEW p \in Reqs, ExecWrite(p) PROVE OpHeld'
    BY <1>22 DEF ExecWrite, DropRows
  <1>23. ASSUME NEW p \in Reqs, PublishID(p) PROVE OpHeld'
    BY <1>23 DEF PublishID
  <1>24. ASSUME NEW p \in Reqs, PublishOwner(p) PROVE OpHeld'
    BY <1>24 DEF PublishOwner
  <1>25. ASSUME NEW p \in Reqs, PublishUsed(p) PROVE OpHeld'
    BY <1>25 DEF PublishUsed
  <1>26. ASSUME NEW p \in {Monitor, Closer}, Check(p) PROVE OpHeld'
    BY <1>26 DEF Check
  <1>27. CASE Tick \/ Stop \/ Shutdown
    BY <1>27 DEF Tick, Stop, Shutdown, Drained, MonitorStop, MonitorGone, CloserStep,
                 ClosePools, DropRows
  <1>28. CASE Exited \/ UNCHANGED vars
    BY <1>28 DEF Exited, vars
  <1> HIDE DEF LockInv, TypeOK, OpHeld
  <1> QED
    BY <1>1, <1>2, <1>3, <1>4, <1>5, <1>6, <1>7, <1>8, <1>9, <1>10, <1>11, <1>12,
       <1>13, <1>14, <1>15, <1>16, <1>17, <1>18, <1>19, <1>20, <1>21, <1>22, <1>23,
       <1>24, <1>25, <1>26, <1>27, <1>28
    DEF Next, Acquire, Step

\* Every step keeps WriteHeld: withReadWriteConn holds writeMu while a statement
\* runs on the read-write connection.
LEMMA NextWriteHeld == LockInv /\ TypeOK' /\ [Next]_vars => WriteHeld'
  <1> SUFFICES ASSUME LockInv, TypeOK', [Next]_vars PROVE WriteHeld'
    OBVIOUS
  <1> USE ConstantsAssumption
      DEF LockInv, TypeOK, Procs, Return, Continue, Forget, Touch, After, Token,
          mgrVars, rwVars, roVars, histVars, procVars, WriteHeld
  <1>1. ASSUME NEW p \in Reqs, NEW k \in Kinds, NEW t \in known, SubmitInTx(p, k, t)
        PROVE  WriteHeld'
    BY <1>1 DEF SubmitInTx, Start
  <1>2. ASSUME NEW p \in Reqs, NEW k \in Kinds, SubmitPlain(p, k) PROVE WriteHeld'
    BY <1>2 DEF SubmitPlain, Start
  <1>3. ASSUME NEW p \in Reqs, SubmitBegin(p) PROVE WriteHeld'
    BY <1>3 DEF SubmitBegin, Start
  <1>4. ASSUME NEW p \in Reqs, NEW k \in Kinds, SubmitWithoutTx(p, k) PROVE WriteHeld'
    BY <1>4 DEF SubmitWithoutTx, Start
  <1>5. ASSUME NEW p \in Reqs, Cancel(p) PROVE WriteHeld'
    BY <1>5 DEF Cancel
  <1>6. CASE Clock
    BY <1>6 DEF Clock
  <1>7. ASSUME NEW p \in Procs, OpLock(p) PROVE WriteHeld'
    BY <1>7 DEF OpLock
  <1>8. ASSUME NEW p \in Procs, RwLock(p) PROVE WriteHeld'
    BY <1>8 DEF RwLock
  <1>9. ASSUME NEW p \in Reqs, ClassifyRW(p) PROVE WriteHeld'
    BY <1>9 DEF ClassifyRW, Execute
  <1>10. ASSUME NEW p \in Reqs, ClassifyRO(p) PROVE WriteHeld'
    BY <1>10 DEF ClassifyRO, ClassifyFailed, Execute
  <1>11. ASSUME NEW p \in Reqs, LockTx(p) PROVE WriteHeld'
    BY <1>11 DEF LockTx
  <1>12. ASSUME NEW p \in Reqs, RoLock(p) PROVE WriteHeld'
    BY <1>12 DEF RoLock
  <1>13. ASSUME NEW p \in Procs, ExecRollback(p) PROVE WriteHeld'
    BY <1>13 DEF ExecRollback, DropRows
  <1>14. ASSUME NEW p \in Procs, ClearID(p) PROVE WriteHeld'
    BY <1>14 DEF ClearID
  <1>15. ASSUME NEW p \in Procs, UnlockTx(p) PROVE WriteHeld'
    BY <1>15 DEF UnlockTx
  <1>16. ASSUME NEW p \in Reqs, Validate(p) PROVE WriteHeld'
    BY <1>16 DEF Validate, IsValid, Execute
  <1>17. ASSUME NEW p \in Reqs, CheckTx(p) PROVE WriteHeld'
    BY <1>17 DEF CheckTx
  <1>18. ASSUME NEW p \in Reqs, RoExec(p) PROVE WriteHeld'
    BY <1>18 DEF RoExec
  <1>19. ASSUME NEW p \in Reqs, ExecBegin(p) PROVE WriteHeld'
    BY <1>19 DEF ExecBegin
  <1>20. ASSUME NEW p \in Reqs, ExecCommit(p) PROVE WriteHeld'
    BY <1>20 DEF ExecCommit, CommitRows
  <1>21. ASSUME NEW p \in Reqs, ExecRead(p) PROVE WriteHeld'
    BY <1>21 DEF ExecRead, CommitRows
  <1>22. ASSUME NEW p \in Reqs, ExecWrite(p) PROVE WriteHeld'
    BY <1>22 DEF ExecWrite, DropRows
  <1>23. ASSUME NEW p \in Reqs, PublishID(p) PROVE WriteHeld'
    BY <1>23 DEF PublishID
  <1>24. ASSUME NEW p \in Reqs, PublishOwner(p) PROVE WriteHeld'
    BY <1>24 DEF PublishOwner
  <1>25. ASSUME NEW p \in Reqs, PublishUsed(p) PROVE WriteHeld'
    BY <1>25 DEF PublishUsed
  <1>26. ASSUME NEW p \in {Monitor, Closer}, Check(p) PROVE WriteHeld'
    BY <1>26 DEF Check
  <1>27. CASE Tick \/ Stop \/ Shutdown
    BY <1>27 DEF Tick, Stop, Shutdown, Drained, MonitorStop, MonitorGone, CloserStep,
                 ClosePools, DropRows
  <1>28. CASE Exited \/ UNCHANGED vars
    BY <1>28 DEF Exited, vars
  <1> HIDE DEF LockInv, TypeOK, WriteHeld
  <1> QED
    BY <1>1, <1>2, <1>3, <1>4, <1>5, <1>6, <1>7, <1>8, <1>9, <1>10, <1>11, <1>12,
       <1>13, <1>14, <1>15, <1>16, <1>17, <1>18, <1>19, <1>20, <1>21, <1>22, <1>23,
       <1>24, <1>25, <1>26, <1>27, <1>28
    DEF Next, Acquire, Step

\* A BEGIN that has stored its id stays one: the counter of requests only grows.
LEMMA BegunKeeps == LockInv /\ TypeOK' /\ [Next]_vars => (\A u \in Tokens : Begun(u) => Begun(u)')
  <1> SUFFICES ASSUME LockInv, TypeOK', [Next]_vars PROVE (\A u \in Tokens : Begun(u) => Begun(u)')
    OBVIOUS
  <1> USE ConstantsAssumption
      DEF LockInv, TypeOK, Procs, Return, Continue, Forget, Touch, After, Token,
          mgrVars, rwVars, roVars, histVars, procVars, Begun, Tokens
  <1>1. ASSUME NEW p \in Reqs, NEW k \in Kinds, NEW t \in known, SubmitInTx(p, k, t)
        PROVE  (\A u \in Tokens : Begun(u) => Begun(u)')
    BY <1>1 DEF SubmitInTx, Start
  <1>2. ASSUME NEW p \in Reqs, NEW k \in Kinds, SubmitPlain(p, k)
        PROVE  (\A u \in Tokens : Begun(u) => Begun(u)')
    BY <1>2 DEF SubmitPlain, Start
  <1>3. ASSUME NEW p \in Reqs, SubmitBegin(p)
        PROVE  (\A u \in Tokens : Begun(u) => Begun(u)')
    BY <1>3 DEF SubmitBegin, Start
  <1>4. ASSUME NEW p \in Reqs, NEW k \in Kinds, SubmitWithoutTx(p, k)
        PROVE  (\A u \in Tokens : Begun(u) => Begun(u)')
    BY <1>4 DEF SubmitWithoutTx, Start
  <1>5. ASSUME NEW p \in Reqs, Cancel(p)
        PROVE  (\A u \in Tokens : Begun(u) => Begun(u)')
    BY <1>5 DEF Cancel
  <1>6. CASE Clock
    BY <1>6 DEF Clock
  <1>7. ASSUME NEW p \in Procs, OpLock(p)
        PROVE  (\A u \in Tokens : Begun(u) => Begun(u)')
    BY <1>7 DEF OpLock
  <1>8. ASSUME NEW p \in Procs, RwLock(p)
        PROVE  (\A u \in Tokens : Begun(u) => Begun(u)')
    BY <1>8 DEF RwLock
  <1>9. ASSUME NEW p \in Reqs, ClassifyRW(p)
        PROVE  (\A u \in Tokens : Begun(u) => Begun(u)')
    BY <1>9 DEF ClassifyRW, Execute
  <1>10. ASSUME NEW p \in Reqs, ClassifyRO(p)
        PROVE  (\A u \in Tokens : Begun(u) => Begun(u)')
    BY <1>10 DEF ClassifyRO, ClassifyFailed, Execute
  <1>11. ASSUME NEW p \in Reqs, LockTx(p)
        PROVE  (\A u \in Tokens : Begun(u) => Begun(u)')
    BY <1>11 DEF LockTx
  <1>12. ASSUME NEW p \in Reqs, RoLock(p)
        PROVE  (\A u \in Tokens : Begun(u) => Begun(u)')
    BY <1>12 DEF RoLock
  <1>13. ASSUME NEW p \in Procs, ExecRollback(p)
        PROVE  (\A u \in Tokens : Begun(u) => Begun(u)')
    BY <1>13 DEF ExecRollback, DropRows
  <1>14. ASSUME NEW p \in Procs, ClearID(p)
        PROVE  (\A u \in Tokens : Begun(u) => Begun(u)')
    BY <1>14 DEF ClearID
  <1>15. ASSUME NEW p \in Procs, UnlockTx(p)
        PROVE  (\A u \in Tokens : Begun(u) => Begun(u)')
    BY <1>15 DEF UnlockTx
  <1>16. ASSUME NEW p \in Reqs, Validate(p)
        PROVE  (\A u \in Tokens : Begun(u) => Begun(u)')
    BY <1>16 DEF Validate, IsValid, Execute
  <1>17. ASSUME NEW p \in Reqs, CheckTx(p)
        PROVE  (\A u \in Tokens : Begun(u) => Begun(u)')
    BY <1>17 DEF CheckTx
  <1>18. ASSUME NEW p \in Reqs, RoExec(p)
        PROVE  (\A u \in Tokens : Begun(u) => Begun(u)')
    BY <1>18 DEF RoExec
  <1>19. ASSUME NEW p \in Reqs, ExecBegin(p)
        PROVE  (\A u \in Tokens : Begun(u) => Begun(u)')
    BY <1>19 DEF ExecBegin
  <1>20. ASSUME NEW p \in Reqs, ExecCommit(p)
        PROVE  (\A u \in Tokens : Begun(u) => Begun(u)')
    BY <1>20 DEF ExecCommit, CommitRows
  <1>21. ASSUME NEW p \in Reqs, ExecRead(p)
        PROVE  (\A u \in Tokens : Begun(u) => Begun(u)')
    BY <1>21 DEF ExecRead, CommitRows
  <1>22. ASSUME NEW p \in Reqs, ExecWrite(p)
        PROVE  (\A u \in Tokens : Begun(u) => Begun(u)')
    BY <1>22 DEF ExecWrite, DropRows
  <1>23. ASSUME NEW p \in Reqs, PublishID(p)
        PROVE  (\A u \in Tokens : Begun(u) => Begun(u)')
    BY <1>23 DEF PublishID
  <1>24. ASSUME NEW p \in Reqs, PublishOwner(p)
        PROVE  (\A u \in Tokens : Begun(u) => Begun(u)')
    BY <1>24 DEF PublishOwner
  <1>25. ASSUME NEW p \in Reqs, PublishUsed(p)
        PROVE  (\A u \in Tokens : Begun(u) => Begun(u)')
    BY <1>25 DEF PublishUsed
  <1>26. ASSUME NEW p \in {Monitor, Closer}, Check(p)
        PROVE  (\A u \in Tokens : Begun(u) => Begun(u)')
    BY <1>26 DEF Check
  <1>27. CASE Tick \/ Stop \/ Shutdown
    BY <1>27 DEF Tick, Stop, Shutdown, Drained, MonitorStop, MonitorGone, CloserStep,
                 ClosePools, DropRows
  <1>28. CASE Exited \/ UNCHANGED vars
    BY <1>28 DEF Exited, vars
  <1> HIDE DEF LockInv, TypeOK, Begun
  <1> QED
    BY <1>1, <1>2, <1>3, <1>4, <1>5, <1>6, <1>7, <1>8, <1>9, <1>10, <1>11, <1>12,
       <1>13, <1>14, <1>15, <1>16, <1>17, <1>18, <1>19, <1>20, <1>21, <1>22, <1>23,
       <1>24, <1>25, <1>26, <1>27, <1>28
    DEF Next, Acquire, Step

\* Every step keeps IdsBegun: the ids in txID, in the requests and at the clients
\* all come from a BEGIN that has stored its id.
LEMMA NextIdsBegun == LockInv /\ TypeOK' /\ [Next]_vars => IdsBegun'
  <1> SUFFICES ASSUME LockInv, TypeOK', [Next]_vars PROVE IdsBegun'
    OBVIOUS
  <1>0. \A u \in Tokens : Begun(u) => Begun(u)'
    BY BegunKeeps
  <1> USE ConstantsAssumption
      DEF LockInv, TypeOK, Procs, Return, Continue, Forget, Touch, After, Token,
          mgrVars, rwVars, roVars, histVars, procVars, IdsBegun
  <1>1. ASSUME NEW p \in Reqs, NEW k \in Kinds, NEW t \in known, SubmitInTx(p, k, t)
        PROVE  IdsBegun'
    BY <1>1, <1>0 DEF SubmitInTx, Start
  <1>2. ASSUME NEW p \in Reqs, NEW k \in Kinds, SubmitPlain(p, k) PROVE IdsBegun'
    BY <1>2, <1>0 DEF SubmitPlain, Start
  <1>3. ASSUME NEW p \in Reqs, SubmitBegin(p) PROVE IdsBegun'
    BY <1>3, <1>0 DEF SubmitBegin, Start
  <1>4. ASSUME NEW p \in Reqs, NEW k \in Kinds, SubmitWithoutTx(p, k) PROVE IdsBegun'
    BY <1>4, <1>0 DEF SubmitWithoutTx, Start
  <1>5. ASSUME NEW p \in Reqs, Cancel(p) PROVE IdsBegun'
    BY <1>5, <1>0 DEF Cancel
  <1>6. CASE Clock
    BY <1>6, <1>0 DEF Clock
  <1>7. ASSUME NEW p \in Procs, OpLock(p) PROVE IdsBegun'
    BY <1>7, <1>0 DEF OpLock
  <1>8. ASSUME NEW p \in Procs, RwLock(p) PROVE IdsBegun'
    BY <1>8, <1>0 DEF RwLock
  <1>9. ASSUME NEW p \in Reqs, ClassifyRW(p) PROVE IdsBegun'
    BY <1>9, <1>0 DEF ClassifyRW, Execute
  <1>10. ASSUME NEW p \in Reqs, ClassifyRO(p) PROVE IdsBegun'
    BY <1>10, <1>0 DEF ClassifyRO, ClassifyFailed, Execute
  <1>11. ASSUME NEW p \in Reqs, LockTx(p) PROVE IdsBegun'
    BY <1>11, <1>0 DEF LockTx
  <1>12. ASSUME NEW p \in Reqs, RoLock(p) PROVE IdsBegun'
    BY <1>12, <1>0 DEF RoLock
  <1>13. ASSUME NEW p \in Procs, ExecRollback(p) PROVE IdsBegun'
    BY <1>13, <1>0 DEF ExecRollback, DropRows
  <1>14. ASSUME NEW p \in Procs, ClearID(p) PROVE IdsBegun'
    BY <1>14, <1>0 DEF ClearID
  <1>15. ASSUME NEW p \in Procs, UnlockTx(p) PROVE IdsBegun'
    BY <1>15, <1>0 DEF UnlockTx
  <1>16. ASSUME NEW p \in Reqs, Validate(p) PROVE IdsBegun'
    BY <1>16, <1>0 DEF Validate, IsValid, Execute
  <1>17. ASSUME NEW p \in Reqs, CheckTx(p) PROVE IdsBegun'
    BY <1>17, <1>0 DEF CheckTx
  <1>18. ASSUME NEW p \in Reqs, RoExec(p) PROVE IdsBegun'
    BY <1>18, <1>0 DEF RoExec
  <1>19. ASSUME NEW p \in Reqs, ExecBegin(p) PROVE IdsBegun'
    BY <1>19, <1>0 DEF ExecBegin
  <1>20. ASSUME NEW p \in Reqs, ExecCommit(p) PROVE IdsBegun'
    BY <1>20, <1>0 DEF ExecCommit, CommitRows
  <1>21. ASSUME NEW p \in Reqs, ExecRead(p) PROVE IdsBegun'
    BY <1>21, <1>0 DEF ExecRead, CommitRows
  <1>22. ASSUME NEW p \in Reqs, ExecWrite(p) PROVE IdsBegun'
    BY <1>22, <1>0 DEF ExecWrite, DropRows
  <1>23. ASSUME NEW p \in Reqs, PublishID(p) PROVE IdsBegun'
    BY <1>23, <1>0 DEF PublishID, Begun, Tokens
  <1>24. ASSUME NEW p \in Reqs, PublishOwner(p) PROVE IdsBegun'
    BY <1>24, <1>0 DEF PublishOwner
  <1>25. ASSUME NEW p \in Reqs, PublishUsed(p) PROVE IdsBegun'
    BY <1>25, <1>0 DEF PublishUsed, Begun, Tokens
  <1>26. ASSUME NEW p \in {Monitor, Closer}, Check(p) PROVE IdsBegun'
    BY <1>26, <1>0 DEF Check
  <1>27. CASE Tick \/ Stop \/ Shutdown
    BY <1>27, <1>0 DEF Tick, Stop, Shutdown, Drained, MonitorStop, MonitorGone, CloserStep,
                 ClosePools, DropRows
  <1>28. CASE Exited \/ UNCHANGED vars
    BY <1>28, <1>0 DEF Exited, vars
  <1> HIDE DEF LockInv, TypeOK, IdsBegun
  <1> QED
    BY <1>1, <1>2, <1>3, <1>4, <1>5, <1>6, <1>7, <1>8, <1>9, <1>10, <1>11, <1>12,
       <1>13, <1>14, <1>15, <1>16, <1>17, <1>18, <1>19, <1>20, <1>21, <1>22, <1>23,
       <1>24, <1>25, <1>26, <1>27, <1>28
    DEF Next, Acquire, Step

\* Every step keeps Deferred: the deferred txMu.Unlock is pending on the paths that
\* locked txMu for themselves, and only there.
LEMMA NextDeferred == LockInv /\ TypeOK' /\ [Next]_vars => Deferred'
  <1> SUFFICES ASSUME LockInv, TypeOK', [Next]_vars PROVE Deferred'
    OBVIOUS
  <1> USE ConstantsAssumption
      DEF LockInv, TypeOK, Procs, Return, Continue, Forget, Touch, After, Token,
          mgrVars, rwVars, roVars, histVars, procVars, Paths, Deferred, TypeOf,
          QueryType, ControlKinds, WriteKinds
  <1>1. ASSUME NEW p \in Reqs, NEW k \in Kinds, NEW t \in known, SubmitInTx(p, k, t)
        PROVE  Deferred'
    BY <1>1 DEF SubmitInTx, Start
  <1>2. ASSUME NEW p \in Reqs, NEW k \in Kinds, SubmitPlain(p, k) PROVE Deferred'
    BY <1>2 DEF SubmitPlain, Start
  <1>3. ASSUME NEW p \in Reqs, SubmitBegin(p) PROVE Deferred'
    BY <1>3 DEF SubmitBegin, Start
  <1>4. ASSUME NEW p \in Reqs, NEW k \in Kinds, SubmitWithoutTx(p, k) PROVE Deferred'
    BY <1>4 DEF SubmitWithoutTx, Start
  <1>5. ASSUME NEW p \in Reqs, Cancel(p) PROVE Deferred'
    BY <1>5 DEF Cancel
  <1>6. CASE Clock
    BY <1>6 DEF Clock
  <1>7. ASSUME NEW p \in Procs, OpLock(p) PROVE Deferred'
    BY <1>7 DEF OpLock
  <1>8. ASSUME NEW p \in Procs, RwLock(p) PROVE Deferred'
    BY <1>8 DEF RwLock
  <1>9. ASSUME NEW p \in Reqs, ClassifyRW(p) PROVE Deferred'
    BY <1>9 DEF ClassifyRW, Execute
  <1>10. ASSUME NEW p \in Reqs, ClassifyRO(p) PROVE Deferred'
    BY <1>10 DEF ClassifyRO, ClassifyFailed, Execute
  <1>11. ASSUME NEW p \in Reqs, LockTx(p) PROVE Deferred'
    BY <1>11 DEF LockTx
  <1>12. ASSUME NEW p \in Reqs, RoLock(p) PROVE Deferred'
    BY <1>12 DEF RoLock
  <1>13. ASSUME NEW p \in Procs, ExecRollback(p) PROVE Deferred'
    BY <1>13 DEF ExecRollback, DropRows
  <1>14. ASSUME NEW p \in Procs, ClearID(p) PROVE Deferred'
    BY <1>14 DEF ClearID
  <1>15. ASSUME NEW p \in Procs, UnlockTx(p) PROVE Deferred'
    BY <1>15 DEF UnlockTx
  <1>16. ASSUME NEW p \in Reqs, Validate(p) PROVE Deferred'
    BY <1>16 DEF Validate, IsValid, Execute
  <1>17. ASSUME NEW p \in Reqs, CheckTx(p) PROVE Deferred'
    BY <1>17 DEF CheckTx
  <1>18. ASSUME NEW p \in Reqs, RoExec(p) PROVE Deferred'
    BY <1>18 DEF RoExec
  <1>19. ASSUME NEW p \in Reqs, ExecBegin(p) PROVE Deferred'
    BY <1>19 DEF ExecBegin
  <1>20. ASSUME NEW p \in Reqs, ExecCommit(p) PROVE Deferred'
    BY <1>20 DEF ExecCommit, CommitRows
  <1>21. ASSUME NEW p \in Reqs, ExecRead(p) PROVE Deferred'
    BY <1>21 DEF ExecRead, CommitRows
  <1>22. ASSUME NEW p \in Reqs, ExecWrite(p) PROVE Deferred'
    BY <1>22 DEF ExecWrite, DropRows
  <1>23. ASSUME NEW p \in Reqs, PublishID(p) PROVE Deferred'
    BY <1>23 DEF PublishID
  <1>24. ASSUME NEW p \in Reqs, PublishOwner(p) PROVE Deferred'
    BY <1>24 DEF PublishOwner
  <1>25. ASSUME NEW p \in Reqs, PublishUsed(p) PROVE Deferred'
    BY <1>25 DEF PublishUsed
  <1>26. ASSUME NEW p \in {Monitor, Closer}, Check(p) PROVE Deferred'
    BY <1>26 DEF Check
  <1>27. CASE Tick \/ Stop \/ Shutdown
    BY <1>27 DEF Tick, Stop, Shutdown, Drained, MonitorStop, MonitorGone, CloserStep,
                 ClosePools, DropRows
  <1>28. CASE Exited \/ UNCHANGED vars
    BY <1>28 DEF Exited, vars
  <1> HIDE DEF LockInv, TypeOK, Deferred
  <1> QED
    BY <1>1, <1>2, <1>3, <1>4, <1>5, <1>6, <1>7, <1>8, <1>9, <1>10, <1>11, <1>12,
       <1>13, <1>14, <1>15, <1>16, <1>17, <1>18, <1>19, <1>20, <1>21, <1>22, <1>23,
       <1>24, <1>25, <1>26, <1>27, <1>28
    DEF Next, Acquire, Step

\* Every step keeps RoleInForce: SetAuthorizerRole runs under the lock that the
\* statement keeps, so no classification gets in between.
LEMMA NextRoleInForce == LockInv /\ TypeOK' /\ [Next]_vars => RoleInForce'
  <1> SUFFICES ASSUME LockInv, TypeOK', [Next]_vars PROVE RoleInForce'
    OBVIOUS
  <1> USE ConstantsAssumption
      DEF LockInv, TypeOK, Procs, Return, Continue, Forget, Touch, After, Token,
          mgrVars, rwVars, roVars, histVars, procVars, RoleInForce, RoleOf,
          WriteHeld
  <1>1. ASSUME NEW p \in Reqs, NEW k \in Kinds, NEW t \in known, SubmitInTx(p, k, t)
        PROVE  RoleInForce'
    BY <1>1 DEF SubmitInTx, Start
  <1>2. ASSUME NEW p \in Reqs, NEW k \in Kinds, SubmitPlain(p, k) PROVE RoleInForce'
    BY <1>2 DEF SubmitPlain, Start
  <1>3. ASSUME NEW p \in Reqs, SubmitBegin(p) PROVE RoleInForce'
    BY <1>3 DEF SubmitBegin, Start
  <1>4. ASSUME NEW p \in Reqs, NEW k \in Kinds, SubmitWithoutTx(p, k)
        PROVE  RoleInForce'
    BY <1>4 DEF SubmitWithoutTx, Start
  <1>5. ASSUME NEW p \in Reqs, Cancel(p) PROVE RoleInForce'
    BY <1>5 DEF Cancel
  <1>6. CASE Clock
    BY <1>6 DEF Clock
  <1>7. ASSUME NEW p \in Procs, OpLock(p) PROVE RoleInForce'
    BY <1>7 DEF OpLock
  <1>8. ASSUME NEW p \in Procs, RwLock(p) PROVE RoleInForce'
    BY <1>8 DEF RwLock
  <1>9. ASSUME NEW p \in Reqs, ClassifyRW(p) PROVE RoleInForce'
    BY <1>9 DEF ClassifyRW, Execute
  <1>10. ASSUME NEW p \in Reqs, ClassifyRO(p) PROVE RoleInForce'
    BY <1>10 DEF ClassifyRO, ClassifyFailed, Execute
  <1>11. ASSUME NEW p \in Reqs, LockTx(p) PROVE RoleInForce'
    BY <1>11 DEF LockTx
  <1>12. ASSUME NEW p \in Reqs, RoLock(p) PROVE RoleInForce'
    BY <1>12 DEF RoLock
  <1>13. ASSUME NEW p \in Procs, ExecRollback(p) PROVE RoleInForce'
    BY <1>13 DEF ExecRollback, DropRows
  <1>14. ASSUME NEW p \in Procs, ClearID(p) PROVE RoleInForce'
    BY <1>14 DEF ClearID
  <1>15. ASSUME NEW p \in Procs, UnlockTx(p) PROVE RoleInForce'
    BY <1>15 DEF UnlockTx
  <1>16. ASSUME NEW p \in Reqs, Validate(p) PROVE RoleInForce'
    BY <1>16 DEF Validate, IsValid, Execute
  <1>17. ASSUME NEW p \in Reqs, CheckTx(p) PROVE RoleInForce'
    BY <1>17 DEF CheckTx
  <1>18. ASSUME NEW p \in Reqs, RoExec(p) PROVE RoleInForce'
    BY <1>18 DEF RoExec
  <1>19. ASSUME NEW p \in Reqs, ExecBegin(p) PROVE RoleInForce'
    BY <1>19 DEF ExecBegin
  <1>20. ASSUME NEW p \in Reqs, ExecCommit(p) PROVE RoleInForce'
    BY <1>20 DEF ExecCommit, CommitRows
  <1>21. ASSUME NEW p \in Reqs, ExecRead(p) PROVE RoleInForce'
    BY <1>21 DEF ExecRead, CommitRows
  <1>22. ASSUME NEW p \in Reqs, ExecWrite(p) PROVE RoleInForce'
    BY <1>22 DEF ExecWrite, DropRows
  <1>23. ASSUME NEW p \in Reqs, PublishID(p) PROVE RoleInForce'
    BY <1>23 DEF PublishID
  <1>24. ASSUME NEW p \in Reqs, PublishOwner(p) PROVE RoleInForce'
    BY <1>24 DEF PublishOwner
  <1>25. ASSUME NEW p \in Reqs, PublishUsed(p) PROVE RoleInForce'
    BY <1>25 DEF PublishUsed
  <1>26. ASSUME NEW p \in {Monitor, Closer}, Check(p) PROVE RoleInForce'
    BY <1>26 DEF Check
  <1>27. CASE Tick \/ Stop \/ Shutdown
    BY <1>27 DEF Tick, Stop, Shutdown, Drained, MonitorStop, MonitorGone, CloserStep,
                 ClosePools, DropRows
  <1>28. CASE Exited \/ UNCHANGED vars
    BY <1>28 DEF Exited, vars
  <1> HIDE DEF LockInv, TypeOK, RoleInForce
  <1> QED
    BY <1>1, <1>2, <1>3, <1>4, <1>5, <1>6, <1>7, <1>8, <1>9, <1>10, <1>11, <1>12,
       <1>13, <1>14, <1>15, <1>16, <1>17, <1>18, <1>19, <1>20, <1>21, <1>22, <1>23,
       <1>24, <1>25, <1>26, <1>27, <1>28
    DEF Next, Acquire, Step

\* A request between its start and its last stores is not the beginner of a
\* transaction whose id is known.
LEMMA NotBegun ==
  ASSUME TypeOK, NEW p \in Reqs, NEW t \in Tokens, Begun(t),
         pc[p] \notin {"idle", "pubOwner", "pubUsed"}
  PROVE  t # Token(p)
  BY DEF TypeOK, Tokens, Begun, Token

\* A token is not the empty txID.
LEMMA TokenNotNone == TypeOK => \A p \in Reqs : Token(p) \in Tokens /\ Token(p) # None
  BY ConstantsAssumption DEF TypeOK, Tokens, Token

\* The holder of txMu is unique: while a request holds it for itself there is
\* no open transaction, nobody is ending one and no other request holds it.
LEMMA Exclusion ==
  ASSUME LockInv, NEW p \in deferUnlock, pc[p] \notin {"pubOwner", "pubUsed"}
  PROVE  /\ txMu = Token(p) /\ txID = None
         /\ \A q \in Procs : pc[q] \notin {"clear", "unlockTx"}
         /\ \A q \in Procs : pc[q] \in {"clsRW", "rwLock", "rwExec"} => tx[q] = None
         /\ \A q \in deferUnlock \ {p} : pc[q] \in {"pubOwner", "pubUsed"}
  <1> USE DEF LockInv
  <1>1. txMu = Token(p) /\ p \in Reqs /\ pc[p] # "idle"
    BY DEF TypeOK, TxMuHeld, UnlockOwnLock, Deferred
  <1>2. \A t \in Tokens : Begun(t) => t # Token(p)
    BY <1>1, NotBegun
  <1>3. txID = None
    BY <1>1, <1>2 DEF TypeOK, IdsBegun, TxMuHeld, UnlockOwnLock
  <1>4. \A q \in Procs : tx[q] # Token(p)
    BY <1>1, <1>2, TokenNotNone DEF TypeOK, IdsBegun
  <1>5. \A q \in Procs : pc[q] \notin {"clear", "unlockTx"}
    BY <1>1, <1>4 DEF TxMuHeld, UnlockOwnLock
  <1>6. \A q \in Procs : pc[q] \in {"clsRW", "rwLock", "rwExec"} => tx[q] = None
    BY <1>3 DEF TxMuHeld, ValidationHolds
  <1>7. \A q \in deferUnlock \ {p} : pc[q] \in {"pubOwner", "pubUsed"}
    BY <1>1 DEF TxMuHeld, UnlockOwnLock, Token
  <1> QED
    BY <1>1, <1>3, <1>5, <1>6, <1>7

\* Every step keeps TxMuHeld: whose lock txMu is while a transaction is open, is
\* being ended, or is kept out by a BEGIN or a plain write.
LEMMA NextTxMuHeld == LockInv /\ TypeOK' /\ [Next]_vars => TxMuHeld'
  <1> SUFFICES ASSUME LockInv, TypeOK', [Next]_vars PROVE TxMuHeld'
    OBVIOUS
  <1>0. \A p \in deferUnlock : pc[p] \notin {"pubOwner", "pubUsed"} =>
          /\ txMu = Token(p) /\ txID = None
          /\ \A q \in Procs : pc[q] \notin {"clear", "unlockTx"}
          /\ \A q \in Procs : pc[q] \in {"clsRW", "rwLock", "rwExec"} => tx[q] = None
          /\ \A q \in deferUnlock \ {p} : pc[q] \in {"pubOwner", "pubUsed"}
    BY Exclusion
  <1> USE ConstantsAssumption, <1>0
      DEF LockInv, TypeOK, Procs, Return, Continue, Forget, Touch, After, Token,
          mgrVars, rwVars, roVars, histVars, procVars, Paths, OpHeld, InOp,
          Deferred, TxMuHeld, UnlockOwnLock, ValidationHolds
  <1>1. ASSUME NEW p \in Reqs, NEW k \in Kinds, NEW t \in known, SubmitInTx(p, k, t)
        PROVE  TxMuHeld'
    BY <1>1 DEF SubmitInTx, Start
  <1>2. ASSUME NEW p \in Reqs, NEW k \in Kinds, SubmitPlain(p, k) PROVE TxMuHeld'
    BY <1>2 DEF SubmitPlain, Start
  <1>3. ASSUME NEW p \in Reqs, SubmitBegin(p) PROVE TxMuHeld'
    BY <1>3 DEF SubmitBegin, Start
  <1>4. ASSUME NEW p \in Reqs, NEW k \in Kinds, SubmitWithoutTx(p, k) PROVE TxMuHeld'
    BY <1>4 DEF SubmitWithoutTx, Start
  <1>5. ASSUME NEW p \in Reqs, Cancel(p) PROVE TxMuHeld'
    BY <1>5 DEF Cancel
  <1>6. CASE Clock
    BY <1>6 DEF Clock
  <1>7. ASSUME NEW p \in Procs, OpLock(p) PROVE TxMuHeld'
    BY <1>7 DEF OpLock
  <1>8. ASSUME NEW p \in Procs, RwLock(p) PROVE TxMuHeld'
    BY <1>8 DEF RwLock, TypeOf, QueryType, ControlKinds, WriteKinds
  <1>9. ASSUME NEW p \in Reqs, ClassifyRW(p) PROVE TxMuHeld'
    BY <1>9 DEF ClassifyRW, Execute, TypeOf, QueryType, ControlKinds, WriteKinds
  <1>10. ASSUME NEW p \in Reqs, ClassifyRO(p) PROVE TxMuHeld'
    BY <1>10 DEF ClassifyRO, ClassifyFailed, Execute, TypeOf, QueryType, ControlKinds, WriteKinds
  <1>11. ASSUME NEW p \in Reqs, LockTx(p) PROVE TxMuHeld'
    BY <1>11, TokenNotNone DEF LockTx
  <1>12. ASSUME NEW p \in Reqs, RoLock(p) PROVE TxMuHeld'
    BY <1>12 DEF RoLock
  <1>13. ASSUME NEW p \in Procs, ExecRollback(p) PROVE TxMuHeld'
    BY <1>13 DEF ExecRollback, DropRows, TypeOf, QueryType, ControlKinds, WriteKinds
  <1>14. ASSUME NEW p \in Procs, ClearID(p) PROVE TxMuHeld'
    BY <1>14 DEF ClearID
  <1>15. ASSUME NEW p \in Procs, UnlockTx(p) PROVE TxMuHeld'
    BY <1>15 DEF UnlockTx
  <1>16. ASSUME NEW p \in Reqs, Validate(p) PROVE TxMuHeld'
    BY <1>16 DEF Validate, IsValid, Execute, TypeOf, QueryType, ControlKinds, WriteKinds
  <1>17. ASSUME NEW p \in Reqs, CheckTx(p) PROVE TxMuHeld'
    BY <1>17 DEF CheckTx
  <1>18. ASSUME NEW p \in Reqs, RoExec(p) PROVE TxMuHeld'
    BY <1>18 DEF RoExec
  <1>19. ASSUME NEW p \in Reqs, ExecBegin(p) PROVE TxMuHeld'
    BY <1>19 DEF ExecBegin, TypeOf, QueryType, ControlKinds, WriteKinds
  <1>20. ASSUME NEW p \in Reqs, ExecCommit(p) PROVE TxMuHeld'
    BY <1>20 DEF ExecCommit, CommitRows, TypeOf, QueryType, ControlKinds, WriteKinds
  <1>21. ASSUME NEW p \in Reqs, ExecRead(p) PROVE TxMuHeld'
    BY <1>21 DEF ExecRead, CommitRows, TypeOf, QueryType, ControlKinds, WriteKinds
  <1>22. ASSUME NEW p \in Reqs, ExecWrite(p) PROVE TxMuHeld'
    BY <1>22 DEF ExecWrite, DropRows, TypeOf, QueryType, ControlKinds, WriteKinds
  <1>23. ASSUME NEW p \in Reqs, PublishID(p) PROVE TxMuHeld'
    BY <1>23, TokenNotNone DEF PublishID
  <1>24. ASSUME NEW p \in Reqs, PublishOwner(p) PROVE TxMuHeld'
    BY <1>24 DEF PublishOwner
  <1>25. ASSUME NEW p \in Reqs, PublishUsed(p) PROVE TxMuHeld'
    BY <1>25 DEF PublishUsed
  <1>26. ASSUME NEW p \in {Monitor, Closer}, Check(p) PROVE TxMuHeld'
    BY <1>26 DEF Check
  <1>27. CASE Tick \/ Stop \/ Shutdown
    BY <1>27 DEF Tick, Stop, Shutdown, Drained, MonitorStop, MonitorGone, CloserStep,
                 ClosePools, DropRows
  <1>28. CASE Exited \/ UNCHANGED vars
    BY <1>28 DEF Exited, vars
  <1> HIDE DEF LockInv, TypeOK, TxMuHeld
  <1> QED
    BY <1>1, <1>2, <1>3, <1>4, <1>5, <1>6, <1>7, <1>8, <1>9, <1>10, <1>11, <1>12,
       <1>13, <1>14, <1>15, <1>16, <1>17, <1>18, <1>19, <1>20, <1>21, <1>22, <1>23,
       <1>24, <1>25, <1>26, <1>27, <1>28
    DEF Next, Acquire, Step

\* Every step keeps RwTxOwned: SQLite is in a transaction only under an id.
LEMMA NextRwTxOwned == LockInv /\ TypeOK' /\ [Next]_vars => RwTxOwned'
  <1> SUFFICES ASSUME LockInv, TypeOK', [Next]_vars PROVE RwTxOwned'
    OBVIOUS
  <1>0. \A p \in deferUnlock : pc[p] \notin {"pubOwner", "pubUsed"} =>
          /\ txMu = Token(p) /\ txID = None
          /\ \A q \in Procs : pc[q] \notin {"clear", "unlockTx"}
          /\ \A q \in Procs : pc[q] \in {"clsRW", "rwLock", "rwExec"} => tx[q] = None
          /\ \A q \in deferUnlock \ {p} : pc[q] \in {"pubOwner", "pubUsed"}
    BY Exclusion
  <1> USE ConstantsAssumption, <1>0
      DEF LockInv, TypeOK, Procs, Return, Continue, Forget, Touch, After, Token,
          mgrVars, rwVars, roVars, histVars, procVars, Paths, OpHeld, InOp,
          Deferred, RwTxOwned, ValidationHolds, TxMuHeld
  <1>1. ASSUME NEW p \in Reqs, NEW k \in Kinds, NEW t \in known, SubmitInTx(p, k, t)
        PROVE  RwTxOwned'
    BY <1>1 DEF SubmitInTx, Start
  <1>2. ASSUME NEW p \in Reqs, NEW k \in Kinds, SubmitPlain(p, k) PROVE RwTxOwned'
    BY <1>2 DEF SubmitPlain, Start
  <1>3. ASSUME NEW p \in Reqs, SubmitBegin(p) PROVE RwTxOwned'
    BY <1>3 DEF SubmitBegin, Start
  <1>4. ASSUME NEW p \in Reqs, NEW k \in Kinds, SubmitWithoutTx(p, k) PROVE RwTxOwned'
    BY <1>4 DEF SubmitWithoutTx, Start
  <1>5. ASSUME NEW p \in Reqs, Cancel(p) PROVE RwTxOwned'
    BY <1>5 DEF Cancel
  <1>6. CASE Clock
    BY <1>6 DEF Clock
  <1>7. ASSUME NEW p \in Procs, OpLock(p) PROVE RwTxOwned'
    BY <1>7 DEF OpLock
  <1>8. ASSUME NEW p \in Procs, RwLock(p) PROVE RwTxOwned'
    BY <1>8 DEF RwLock, TypeOf, QueryType, ControlKinds, WriteKinds
  <1>9. ASSUME NEW p \in Reqs, ClassifyRW(p) PROVE RwTxOwned'
    BY <1>9 DEF ClassifyRW, Execute, TypeOf, QueryType, ControlKinds, WriteKinds
  <1>10. ASSUME NEW p \in Reqs, ClassifyRO(p) PROVE RwTxOwned'
    BY <1>10 DEF ClassifyRO, ClassifyFailed, Execute, TypeOf, QueryType, ControlKinds, WriteKinds
  <1>11. ASSUME NEW p \in Reqs, LockTx(p) PROVE RwTxOwned'
    BY <1>11, TokenNotNone DEF LockTx
  <1>12. ASSUME NEW p \in Reqs, RoLock(p) PROVE RwTxOwned'
    BY <1>12 DEF RoLock
  <1>13. ASSUME NEW p \in Procs, ExecRollback(p) PROVE RwTxOwned'
    BY <1>13 DEF ExecRollback, DropRows, TypeOf, QueryType, ControlKinds, WriteKinds
  <1>14. ASSUME NEW p \in Procs, ClearID(p) PROVE RwTxOwned'
    BY <1>14 DEF ClearID
  <1>15. ASSUME NEW p \in Procs, UnlockTx(p) PROVE RwTxOwned'
    BY <1>15 DEF UnlockTx
  <1>16. ASSUME NEW p \in Reqs, Validate(p) PROVE RwTxOwned'
    BY <1>16 DEF Validate, IsValid, Execute, TypeOf, QueryType, ControlKinds, WriteKinds
  <1>17. ASSUME NEW p \in Reqs, CheckTx(p) PROVE RwTxOwned'
    BY <1>17 DEF CheckTx
  <1>18. ASSUME NEW p \in Reqs, RoExec(p) PROVE RwTxOwned'
    BY <1>18 DEF RoExec
  <1>19. ASSUME NEW p \in Reqs, ExecBegin(p) PROVE RwTxOwned'
    BY <1>19 DEF ExecBegin, TypeOf, QueryType, ControlKinds, WriteKinds
  <1>20. ASSUME NEW p \in Reqs, ExecCommit(p) PROVE RwTxOwned'
    BY <1>20 DEF ExecCommit, CommitRows, TypeOf, QueryType, ControlKinds, WriteKinds
  <1>21. ASSUME NEW p \in Reqs, ExecRead(p) PROVE RwTxOwned'
    BY <1>21 DEF ExecRead, CommitRows, TypeOf, QueryType, ControlKinds, WriteKinds
  <1>22. ASSUME NEW p \in Reqs, ExecWrite(p) PROVE RwTxOwned'
    BY <1>22 DEF ExecWrite, DropRows, TypeOf, QueryType, ControlKinds, WriteKinds
  <1>23. ASSUME NEW p \in Reqs, PublishID(p) PROVE RwTxOwned'
    BY <1>23, TokenNotNone DEF PublishID
  <1>24. ASSUME NEW p \in Reqs, PublishOwner(p) PROVE RwTxOwned'
    BY <1>24 DEF PublishOwner
  <1>25. ASSUME NEW p \in Reqs, PublishUsed(p) PROVE RwTxOwned'
    BY <1>25 DEF PublishUsed
  <1>26. ASSUME NEW p \in {Monitor, Closer}, Check(p) PROVE RwTxOwned'
    BY <1>26 DEF Check
  <1>27. CASE Tick \/ Stop \/ Shutdown
    BY <1>27 DEF Tick, Stop, Shutdown, Drained, MonitorStop, MonitorGone, CloserStep,
                 ClosePools, DropRows
  <1>28. CASE Exited \/ UNCHANGED vars
    BY <1>28 DEF Exited, vars
  <1> HIDE DEF LockInv, TypeOK, RwTxOwned
  <1> QED
    BY <1>1, <1>2, <1>3, <1>4, <1>5, <1>6, <1>7, <1>8, <1>9, <1>10, <1>11, <1>12,
       <1>13, <1>14, <1>15, <1>16, <1>17, <1>18, <1>19, <1>20, <1>21, <1>22, <1>23,
       <1>24, <1>25, <1>26, <1>27, <1>28
    DEF Next, Acquire, Step

\* NewDB starts with nothing open and nothing locked.
LEMMA InitLockInv == Init => LockInv
  <1> SUFFICES ASSUME Init PROVE LockInv
    OBVIOUS
  <1>1. TypeOK
    BY InitTypeOK
  <1> QED
    BY <1>1, ConstantsAssumption
    DEF Init, LockInv, Procs, Paths, OpHeld, InOp, WriteHeld, IdsBegun, Deferred,
        TxMuHeld, UnlockOwnLock, ValidationHolds, RwTxOwned, RoleInForce

\* Every step of every goroutine keeps the inductive invariant.
LEMMA NextLockInv == LockInv /\ [Next]_vars => LockInv'
  <1> SUFFICES ASSUME LockInv, [Next]_vars PROVE LockInv'
    OBVIOUS
  <1>1. TypeOK'
    BY NextTypeOK DEF LockInv
  <1> QED
    BY <1>1, NextPaths, NextOpHeld, NextWriteHeld, NextIdsBegun, NextDeferred,
       NextTxMuHeld, NextRwTxOwned, NextRoleInForce
    DEF LockInv

\* The lock discipline of db.go: LockInv holds in every state of every
\* behaviour, for any number of requests, connections and statements.
THEOREM LockDiscipline == Spec => []LockInv
  BY InitLockInv, NextLockInv, PTL DEF Spec

\* txMu is only ever released by the side that locked it, so db.go never unlocks
\* an unlocked mutex nor the lock of another transaction.
THEOREM UnlocksOwnLock == Spec => []UnlockOwnLock
  <1>1. LockInv => UnlockOwnLock
    BY DEF LockInv, TxMuHeld
  <1> QED
    BY <1>1, LockDiscipline, PTL

\* The transaction that validateTxID accepted is still the open one when the
\* statement is classified and when it runs.
THEOREM ValidationStays == Spec => []ValidationHolds
  <1>1. LockInv => ValidationHolds
    BY DEF LockInv, TxMuHeld
  <1> QED
    BY <1>1, LockDiscipline, PTL

\* A statement without a txID never runs inside a transaction of the read-write
\* connection, whatever SQL the other clients send in theirs.
THEOREM PlainWritesOutside == Spec => []PlainWriteOutside
  <1>1. LockInv => PlainWriteOutside
    <2> SUFFICES ASSUME LockInv, NEW p \in Reqs, pc[p] = "rwExec", tx[p] = None
                 PROVE  rwTx = None
      BY DEF PlainWriteOutside
    <2>1. p \in deferUnlock
      BY DEF LockInv, Deferred
    <2>2. txID = None /\ \A q \in deferUnlock \ {p} : pc[q] \in {"pubOwner", "pubUsed"}
      BY <2>1, Exclusion
    <2>3. \A q \in Reqs : pc[q] # "pubID"
      BY <2>2 DEF LockInv, Deferred
    <2> QED
      BY <2>2, <2>3 DEF LockInv, RwTxOwned
  <1> QED
    BY <1>1, LockDiscipline, PTL

\* The role of the request is in force on the connection where its statement
\* runs, although classification leaves the admin role there.
THEOREM RolesInForce == Spec => []RoleInForce
  <1>1. LockInv => RoleInForce
    BY DEF LockInv
  <1> QED
    BY <1>1, LockDiscipline, PTL

\* authorize_readonly denies what a write asks for.
LEMMA ReadOnlyDenied ==
  ASSUME NEW k \in WriteKinds, NEW rows PROVE ~Prepares("ro", k, rows)
  BY DEF Prepares, Permits, Authorize, ReadAction, ActionsOf, WriteKinds

\* A write that runs is of a role that may write.
LEMMA NextReadOnly ==
    LockInv /\ ReadOnlyNeverWrites /\ [Next]_vars => ReadOnlyNeverWrites'
  <1> SUFFICES ASSUME LockInv, ReadOnlyNeverWrites, [Next]_vars,
                      NEW q \in Reqs, Role[q] = "ro"
               PROVE  \A r \in (file \cup pending)' : r[1] # q
    BY DEF ReadOnlyNeverWrites
  <1>0. \A r \in file \cup pending : r[1] # q
    BY DEF ReadOnlyNeverWrites
  <1>1. CASE (file \cup pending)' \subseteq file \cup pending
    BY <1>0, <1>1
  <1>2. ASSUME NEW p \in Reqs, ExecWrite(p)
        PROVE  \A r \in (file \cup pending)' : r[1] # q
    <2>1. CASE (file \cup pending)' \subseteq file \cup pending
      BY <1>0, <2>1
    <2>2. CASE /\ Prepares(rwRole, kind[p], file \cup pending)
               /\ (file \cup pending)' \subseteq file \cup pending \cup RowsOf(p)
      <3>1. kind[p] \in WriteKinds
        BY <1>2 DEF ExecWrite, TypeOf, QueryType, ControlKinds
      <3>2. rwRole = Role[p]
        BY <1>2 DEF ExecWrite, LockInv, RoleInForce, RoleOf, Procs
      <3>3. p # q
        BY <2>2, <3>1, <3>2, ReadOnlyDenied
      <3>4. \A r \in RowsOf(p) : r[1] # q
        BY <3>3, ConstantsAssumption DEF RowsOf, Table, Token, Procs
      <3> QED
        BY <1>0, <2>2, <3>4
    <2> QED
      BY <1>2, <2>1, <2>2 DEF ExecWrite, DropRows
  <1>3. (\E p \in Reqs : ExecWrite(p)) \/ (file \cup pending)' \subseteq file \cup pending
    BY DEF Next, Acquire, Step, vars, rwVars, SubmitInTx, SubmitPlain, SubmitWithoutTx,
         SubmitBegin, Start, Cancel, Clock, Tick, Stop, Shutdown, Exited, OpLock, RwLock,
         ClassifyRW, ClassifyRO, LockTx, RoLock, Validate, CheckTx, RoExec, ExecBegin,
         ExecCommit, ExecRollback, ExecRead, CommitRows, DropRows, PublishID,
         PublishOwner, PublishUsed, ClearID, UnlockTx, Check, Drained, MonitorStop,
         MonitorGone, CloserStep, ClosePools
  <1> QED
    BY <1>1, <1>2, <1>3

\* No row is ever written for a request of the read-only role.
THEOREM ReadOnlyWritesNothing == Spec => []ReadOnlyNeverWrites
  <1>1. Init => ReadOnlyNeverWrites
    BY DEF Init, ReadOnlyNeverWrites
  <1> QED
    BY <1>1, NextReadOnly, LockDiscipline, PTL DEF Spec
-----------------------------------------------------------------------------
\* What is held is given back (HeldInv), the idle monitor is never early, and the
\* reads of the pool are fresh.

\* A step of a goroutine is not its first, and moves that goroutine alone.
LEMMA OneMoves ==
  ASSUME TypeOK, NEW p \in Procs, Acquire(p) \/ Step(p)
  PROVE  /\ ops' = ops
         /\ pc[p] \notin {"idle", "wait", "stopped", "run", "drain", "waitMonitor",
                          "closePools", "closed"}
         /\ \A q \in Procs \ {p} : pc'[q] = pc[q]
  <1> USE DEF TypeOK, Continue, Return, Forget, Execute
  <1>1. CASE Acquire(p)
    BY <1>1 DEF Acquire, OpLock, RwLock, ClassifyRW, ClassifyRO, ClassifyFailed, LockTx, RoLock
  <1>2. CASE Step(p)
    BY <1>2 DEF Step, ExecRollback, ClearID, UnlockTx, Validate, CheckTx, RoExec, ExecBegin,
                ExecCommit, ExecRead, ExecWrite, PublishID, PublishOwner, PublishUsed, Check
  <1> QED
    BY <1>1, <1>2

\* Every step keeps MutexesUsed: the deferred unlocks of withReadWriteConn and of
\* queryWithType run wherever the call returns.
LEMMA NextMutexesUsed == LockInv /\ MutexesUsed /\ [Next]_vars => MutexesUsed'
  <1> SUFFICES ASSUME LockInv, MutexesUsed, [Next]_vars PROVE MutexesUsed'
    OBVIOUS
  <1> USE ConstantsAssumption
      DEF LockInv, TypeOK, Procs, Return, Continue, Forget, Touch, After, Token,
          mgrVars, rwVars, roVars, histVars, procVars, Paths, OpHeld, WriteHeld, MutexesUsed, InOp
  <1>1. ASSUME NEW p \in Reqs, NEW k \in Kinds, NEW t \in known, SubmitInTx(p, k, t)
        PROVE  MutexesUsed'
    BY <1>1 DEF SubmitInTx, Start
  <1>2. ASSUME NEW p \in Reqs, NEW k \in Kinds, SubmitPlain(p, k) PROVE MutexesUsed'
    BY <1>2 DEF SubmitPlain, Start
  <1>3. ASSUME NEW p \in Reqs, SubmitBegin(p) PROVE MutexesUsed'
    BY <1>3 DEF SubmitBegin, Start
  <1>4. ASSUME NEW p \in Reqs, NEW k \in Kinds, SubmitWithoutTx(p, k) PROVE MutexesUsed'
    BY <1>4 DEF SubmitWithoutTx, Start
  <1>5. ASSUME NEW p \in Reqs, Cancel(p) PROVE MutexesUsed'
    BY <1>5 DEF Cancel
  <1>6. CASE Clock
    BY <1>6 DEF Clock
  <1>7. ASSUME NEW p \in Procs, OpLock(p) PROVE MutexesUsed'
    BY <1>7 DEF OpLock
  <1>8. ASSUME NEW p \in Procs, RwLock(p) PROVE MutexesUsed'
    BY <1>8 DEF RwLock
  <1>9. ASSUME NEW p \in Reqs, ClassifyRW(p) PROVE MutexesUsed'
    BY <1>9 DEF ClassifyRW, Execute
  <1>10. ASSUME NEW p \in Reqs, ClassifyRO(p) PROVE MutexesUsed'
    BY <1>10 DEF ClassifyRO, ClassifyFailed, Execute
  <1>11. ASSUME NEW p \in Reqs, LockTx(p) PROVE MutexesUsed'
    BY <1>11 DEF LockTx
  <1>12. ASSUME NEW p \in Reqs, RoLock(p) PROVE MutexesUsed'
    BY <1>12 DEF RoLock
  <1>13. ASSUME NEW p \in Procs, ExecRollback(p) PROVE MutexesUsed'
    BY <1>13 DEF ExecRollback, DropRows
  <1>14. ASSUME NEW p \in Procs, ClearID(p) PROVE MutexesUsed'
    BY <1>14 DEF ClearID
  <1>15. ASSUME NEW p \in Procs, UnlockTx(p) PROVE MutexesUsed'
    BY <1>15 DEF UnlockTx
  <1>16. ASSUME NEW p \in Reqs, Validate(p) PROVE MutexesUsed'
    BY <1>16 DEF Validate, IsValid, Execute
  <1>17. ASSUME NEW p \in Reqs, CheckTx(p) PROVE MutexesUsed'
    BY <1>17 DEF CheckTx
  <1>18. ASSUME NEW p \in Reqs, RoExec(p) PROVE MutexesUsed'
    BY <1>18 DEF RoExec
  <1>19. ASSUME NEW p \in Reqs, ExecBegin(p) PROVE MutexesUsed'
    BY <1>19 DEF ExecBegin, TypeOf, QueryType, ControlKinds, WriteKinds
  <1>20. ASSUME NEW p \in Reqs, ExecCommit(p) PROVE MutexesUsed'
    BY <1>20 DEF ExecCommit, CommitRows
  <1>21. ASSUME NEW p \in Reqs, ExecRead(p) PROVE MutexesUsed'
    BY <1>21 DEF ExecRead, CommitRows
  <1>22. ASSUME NEW p \in Reqs, ExecWrite(p) PROVE MutexesUsed'
    BY <1>22 DEF ExecWrite, DropRows
  <1>23. ASSUME NEW p \in Reqs, PublishID(p) PROVE MutexesUsed'
    BY <1>23 DEF PublishID
  <1>24. ASSUME NEW p \in Reqs, PublishOwner(p) PROVE MutexesUsed'
    BY <1>24 DEF PublishOwner
  <1>25. ASSUME NEW p \in Reqs, PublishUsed(p) PROVE MutexesUsed'
    BY <1>25 DEF PublishUsed
  <1>26. ASSUME NEW p \in {Monitor, Closer}, Check(p) PROVE MutexesUsed'
    BY <1>26 DEF Check
  <1>27. CASE Tick \/ Stop \/ Shutdown
    BY <1>27 DEF Tick, Stop, Shutdown, Drained, MonitorStop, MonitorGone, CloserStep,
                 ClosePools, DropRows
  <1>28. CASE Exited \/ UNCHANGED vars
    BY <1>28 DEF Exited, vars
  <1> HIDE DEF LockInv, TypeOK, MutexesUsed
  <1> QED
    BY <1>1, <1>2, <1>3, <1>4, <1>5, <1>6, <1>7, <1>8, <1>9, <1>10, <1>11, <1>12,
       <1>13, <1>14, <1>15, <1>16, <1>17, <1>18, <1>19, <1>20, <1>21, <1>22, <1>23,
       <1>24, <1>25, <1>26, <1>27, <1>28
    DEF Next, Acquire, Step

\* Every step keeps PoolUsed: executeReadQuery takes one connection of the pool and
\* gives it back in the step in which it returns.
LEMMA NextPoolUsed == LockInv /\ PoolUsed /\ [Next]_vars => PoolUsed'
  <1> SUFFICES ASSUME LockInv, PoolUsed, [Next]_vars PROVE PoolUsed'
    OBVIOUS
  <1> USE ConstantsAssumption
      DEF LockInv, TypeOK, Procs, Return, Continue, Forget, Touch, After, Token,
          mgrVars, rwVars, roVars, histVars, procVars, PoolUsed
  <1>1. ASSUME NEW p \in Reqs, NEW k \in Kinds, NEW t \in known, SubmitInTx(p, k, t)
        PROVE  PoolUsed'
    BY <1>1 DEF SubmitInTx, Start
  <1>2. ASSUME NEW p \in Reqs, NEW k \in Kinds, SubmitPlain(p, k) PROVE PoolUsed'
    BY <1>2 DEF SubmitPlain, Start
  <1>3. ASSUME NEW p \in Reqs, SubmitBegin(p) PROVE PoolUsed'
    BY <1>3 DEF SubmitBegin, Start
  <1>4. ASSUME NEW p \in Reqs, NEW k \in Kinds, SubmitWithoutTx(p, k) PROVE PoolUsed'
    BY <1>4 DEF SubmitWithoutTx, Start
  <1>5. ASSUME NEW p \in Reqs, Cancel(p) PROVE PoolUsed'
    BY <1>5 DEF Cancel
  <1>6. CASE Clock
    BY <1>6 DEF Clock
  <1>7. ASSUME NEW p \in Procs, OpLock(p) PROVE PoolUsed'
    BY <1>7 DEF OpLock
  <1>8. ASSUME NEW p \in Procs, RwLock(p) PROVE PoolUsed'
    BY <1>8 DEF RwLock
  <1>9. ASSUME NEW p \in Reqs, ClassifyRW(p) PROVE PoolUsed'
    BY <1>9 DEF ClassifyRW, Execute
  <1>10. ASSUME NEW p \in Reqs, ClassifyRO(p) PROVE PoolUsed'
    BY <1>10 DEF ClassifyRO, ClassifyFailed, Execute
  <1>11. ASSUME NEW p \in Reqs, LockTx(p) PROVE PoolUsed'
    BY <1>11 DEF LockTx
  <1>12. ASSUME NEW p \in Reqs, RoLock(p) PROVE PoolUsed'
    BY <1>12 DEF RoLock
  <1>13. ASSUME NEW p \in Procs, ExecRollback(p) PROVE PoolUsed'
    BY <1>13 DEF ExecRollback, DropRows
  <1>14. ASSUME NEW p \in Procs, ClearID(p) PROVE PoolUsed'
    BY <1>14 DEF ClearID
  <1>15. ASSUME NEW p \in Procs, UnlockTx(p) PROVE PoolUsed'
    BY <1>15 DEF UnlockTx
  <1>16. ASSUME NEW p \in Reqs, Validate(p) PROVE PoolUsed'
    BY <1>16 DEF Validate, IsValid, Execute
  <1>17. ASSUME NEW p \in Reqs, CheckTx(p) PROVE PoolUsed'
    BY <1>17 DEF CheckTx
  <1>18. ASSUME NEW p \in Reqs, RoExec(p) PROVE PoolUsed'
    BY <1>18 DEF RoExec
  <1>19. ASSUME NEW p \in Reqs, ExecBegin(p) PROVE PoolUsed'
    BY <1>19 DEF ExecBegin
  <1>20. ASSUME NEW p \in Reqs, ExecCommit(p) PROVE PoolUsed'
    BY <1>20 DEF ExecCommit, CommitRows
  <1>21. ASSUME NEW p \in Reqs, ExecRead(p) PROVE PoolUsed'
    BY <1>21 DEF ExecRead, CommitRows
  <1>22. ASSUME NEW p \in Reqs, ExecWrite(p) PROVE PoolUsed'
    BY <1>22 DEF ExecWrite, DropRows
  <1>23. ASSUME NEW p \in Reqs, PublishID(p) PROVE PoolUsed'
    BY <1>23 DEF PublishID
  <1>24. ASSUME NEW p \in Reqs, PublishOwner(p) PROVE PoolUsed'
    BY <1>24 DEF PublishOwner
  <1>25. ASSUME NEW p \in Reqs, PublishUsed(p) PROVE PoolUsed'
    BY <1>25 DEF PublishUsed
  <1>26. ASSUME NEW p \in {Monitor, Closer}, Check(p) PROVE PoolUsed'
    BY <1>26 DEF Check
  <1>27. CASE Tick \/ Stop \/ Shutdown
    BY <1>27 DEF Tick, Stop, Shutdown, Drained, MonitorStop, MonitorGone, CloserStep,
                 ClosePools, DropRows
  <1>28. CASE Exited \/ UNCHANGED vars
    BY <1>28 DEF Exited, vars
  <1> HIDE DEF LockInv, TypeOK, PoolUsed
  <1> QED
    BY <1>1, <1>2, <1>3, <1>4, <1>5, <1>6, <1>7, <1>8, <1>9, <1>10, <1>11, <1>12,
       <1>13, <1>14, <1>15, <1>16, <1>17, <1>18, <1>19, <1>20, <1>21, <1>22, <1>23,
       <1>24, <1>25, <1>26, <1>27, <1>28
    DEF Next, Acquire, Step

\* Every step keeps ShutdownOrder: no request starts once Stop was called, and the
\* monitor does not come back.
LEMMA NextShutdownOrder == LockInv /\ ShutdownOrder /\ [Next]_vars => ShutdownOrder'
  <1> SUFFICES ASSUME LockInv, ShutdownOrder, [Next]_vars PROVE ShutdownOrder'
    OBVIOUS
  <1> USE ConstantsAssumption
      DEF LockInv, TypeOK, Procs, Return, Continue, Forget, Touch, After, Token,
          mgrVars, rwVars, roVars, histVars, procVars, ShutdownOrder
  <1>1. ASSUME NEW p \in Reqs, NEW k \in Kinds, NEW t \in known, SubmitInTx(p, k, t)
        PROVE  ShutdownOrder'
    BY <1>1 DEF SubmitInTx, Start
  <1>2. ASSUME NEW p \in Reqs, NEW k \in Kinds, SubmitPlain(p, k) PROVE ShutdownOrder'
    BY <1>2 DEF SubmitPlain, Start
  <1>3. ASSUME NEW p \in Reqs, SubmitBegin(p) PROVE ShutdownOrder'
    BY <1>3 DEF SubmitBegin, Start
  <1>4. ASSUME NEW p \in Reqs, NEW k \in Kinds, SubmitWithoutTx(p, k)
        PROVE  ShutdownOrder'
    BY <1>4 DEF SubmitWithoutTx, Start
  <1>5. ASSUME NEW p \in Reqs, Cancel(p) PROVE ShutdownOrder'
    BY <1>5 DEF Cancel
  <1>6. CASE Clock
    BY <1>6 DEF Clock
  <1>7. ASSUME NEW p \in Procs, OpLock(p) PROVE ShutdownOrder'
    BY <1>7 DEF OpLock
  <1>8. ASSUME NEW p \in Procs, RwLock(p) PROVE ShutdownOrder'
    BY <1>8 DEF RwLock
  <1>9. ASSUME NEW p \in Reqs, ClassifyRW(p) PROVE ShutdownOrder'
    BY <1>9 DEF ClassifyRW, Execute
  <1>10. ASSUME NEW p \in Reqs, ClassifyRO(p) PROVE ShutdownOrder'
    BY <1>10 DEF ClassifyRO, ClassifyFailed, Execute
  <1>11. ASSUME NEW p \in Reqs, LockTx(p) PROVE ShutdownOrder'
    BY <1>11 DEF LockTx
  <1>12. ASSUME NEW p \in Reqs, RoLock(p) PROVE ShutdownOrder'
    BY <1>12 DEF RoLock
  <1>13. ASSUME NEW p \in Procs, ExecRollback(p) PROVE ShutdownOrder'
    BY <1>13 DEF ExecRollback, DropRows
  <1>14. ASSUME NEW p \in Procs, ClearID(p) PROVE ShutdownOrder'
    BY <1>14 DEF ClearID
  <1>15. ASSUME NEW p \in Procs, UnlockTx(p) PROVE ShutdownOrder'
    BY <1>15 DEF UnlockTx
  <1>16. ASSUME NEW p \in Reqs, Validate(p) PROVE ShutdownOrder'
    BY <1>16 DEF Validate, IsValid, Execute
  <1>17. ASSUME NEW p \in Reqs, CheckTx(p) PROVE ShutdownOrder'
    BY <1>17 DEF CheckTx
  <1>18. ASSUME NEW p \in Reqs, RoExec(p) PROVE ShutdownOrder'
    BY <1>18 DEF RoExec
  <1>19. ASSUME NEW p \in Reqs, ExecBegin(p) PROVE ShutdownOrder'
    BY <1>19 DEF ExecBegin
  <1>20. ASSUME NEW p \in Reqs, ExecCommit(p) PROVE ShutdownOrder'
    BY <1>20 DEF ExecCommit, CommitRows
  <1>21. ASSUME NEW p \in Reqs, ExecRead(p) PROVE ShutdownOrder'
    BY <1>21 DEF ExecRead, CommitRows
  <1>22. ASSUME NEW p \in Reqs, ExecWrite(p) PROVE ShutdownOrder'
    BY <1>22 DEF ExecWrite, DropRows
  <1>23. ASSUME NEW p \in Reqs, PublishID(p) PROVE ShutdownOrder'
    BY <1>23 DEF PublishID
  <1>24. ASSUME NEW p \in Reqs, PublishOwner(p) PROVE ShutdownOrder'
    BY <1>24 DEF PublishOwner
  <1>25. ASSUME NEW p \in Reqs, PublishUsed(p) PROVE ShutdownOrder'
    BY <1>25 DEF PublishUsed
  <1>26. ASSUME NEW p \in {Monitor, Closer}, Check(p) PROVE ShutdownOrder'
    BY <1>26 DEF Check
  <1>27. CASE Tick \/ Stop \/ Shutdown
    BY <1>27 DEF Tick, Stop, Shutdown, Drained, MonitorStop, MonitorGone, CloserStep,
                 ClosePools, DropRows
  <1>28. CASE Exited \/ UNCHANGED vars
    BY <1>28 DEF Exited, vars
  <1> HIDE DEF LockInv, TypeOK, ShutdownOrder
  <1> QED
    BY <1>1, <1>2, <1>3, <1>4, <1>5, <1>6, <1>7, <1>8, <1>9, <1>10, <1>11, <1>12,
       <1>13, <1>14, <1>15, <1>16, <1>17, <1>18, <1>19, <1>20, <1>21, <1>22, <1>23,
       <1>24, <1>25, <1>26, <1>27, <1>28
    DEF Next, Acquire, Step

\* Every step keeps TxMuUsed: txMu is never left locked for nobody.
LEMMA NextTxMuUsed == LockInv /\ TxMuUsed /\ [Next]_vars => TxMuUsed'
  <1> SUFFICES ASSUME LockInv, TxMuUsed, [Next]_vars PROVE TxMuUsed'
    OBVIOUS
  <1>0. \A p \in deferUnlock : pc[p] \notin {"pubOwner", "pubUsed"} =>
          /\ txMu = Token(p) /\ txID = None
          /\ \A q \in Procs : pc[q] \notin {"clear", "unlockTx"}
          /\ \A q \in Procs : pc[q] \in {"clsRW", "rwLock", "rwExec"} => tx[q] = None
          /\ \A q \in deferUnlock \ {p} : pc[q] \in {"pubOwner", "pubUsed"}
    BY Exclusion
  <1> USE ConstantsAssumption, <1>0
      DEF LockInv, TypeOK, Procs, Return, Continue, Forget, Touch, After, Token,
          mgrVars, rwVars, roVars, histVars, procVars, Paths, Deferred, TxMuHeld, UnlockOwnLock,
          TxMuUsed
  <1>1. ASSUME NEW p \in Reqs, NEW k \in Kinds, NEW t \in known, SubmitInTx(p, k, t)
        PROVE  TxMuUsed'
    BY <1>1 DEF SubmitInTx, Start
  <1>2. ASSUME NEW p \in Reqs, NEW k \in Kinds, SubmitPlain(p, k) PROVE TxMuUsed'
    BY <1>2 DEF SubmitPlain, Start
  <1>3. ASSUME NEW p \in Reqs, SubmitBegin(p) PROVE TxMuUsed'
    BY <1>3 DEF SubmitBegin, Start
  <1>4. ASSUME NEW p \in Reqs, NEW k \in Kinds, SubmitWithoutTx(p, k) PROVE TxMuUsed'
    BY <1>4 DEF SubmitWithoutTx, Start
  <1>5. ASSUME NEW p \in Reqs, Cancel(p) PROVE TxMuUsed'
    BY <1>5 DEF Cancel
  <1>6. CASE Clock
    BY <1>6 DEF Clock
  <1>7. ASSUME NEW p \in Procs, OpLock(p) PROVE TxMuUsed'
    BY <1>7 DEF OpLock
  <1>8. ASSUME NEW p \in Procs, RwLock(p) PROVE TxMuUsed'
    BY <1>8 DEF RwLock
  <1>9. ASSUME NEW p \in Reqs, ClassifyRW(p) PROVE TxMuUsed'
    BY <1>9 DEF ClassifyRW, Execute
  <1>10. ASSUME NEW p \in Reqs, ClassifyRO(p) PROVE TxMuUsed'
    BY <1>10 DEF ClassifyRO, ClassifyFailed, Execute
  <1>11. ASSUME NEW p \in Reqs, LockTx(p) PROVE TxMuUsed'
    BY <1>11 DEF LockTx
  <1>12. ASSUME NEW p \in Reqs, RoLock(p) PROVE TxMuUsed'
    BY <1>12 DEF RoLock
  <1>13. ASSUME NEW p \in Procs, ExecRollback(p) PROVE TxMuUsed'
    BY <1>13 DEF ExecRollback, DropRows
  <1>14. ASSUME NEW p \in Procs, ClearID(p) PROVE TxMuUsed'
    BY <1>14 DEF ClearID
  <1>15. ASSUME NEW p \in Procs, UnlockTx(p) PROVE TxMuUsed'
    BY <1>15 DEF UnlockTx
  <1>16. ASSUME NEW p \in Reqs, Validate(p) PROVE TxMuUsed'
    BY <1>16 DEF Validate, IsValid, Execute
  <1>17. ASSUME NEW p \in Reqs, CheckTx(p) PROVE TxMuUsed'
    BY <1>17 DEF CheckTx
  <1>18. ASSUME NEW p \in Reqs, RoExec(p) PROVE TxMuUsed'
    BY <1>18 DEF RoExec
  <1>19. ASSUME NEW p \in Reqs, ExecBegin(p) PROVE TxMuUsed'
    BY <1>19 DEF ExecBegin
  <1>20. ASSUME NEW p \in Reqs, ExecCommit(p) PROVE TxMuUsed'
    BY <1>20 DEF ExecCommit, CommitRows
  <1>21. ASSUME NEW p \in Reqs, ExecRead(p) PROVE TxMuUsed'
    BY <1>21 DEF ExecRead, CommitRows
  <1>22. ASSUME NEW p \in Reqs, ExecWrite(p) PROVE TxMuUsed'
    BY <1>22 DEF ExecWrite, DropRows
  <1>23. ASSUME NEW p \in Reqs, PublishID(p) PROVE TxMuUsed'
    BY <1>23 DEF PublishID
  <1>24. ASSUME NEW p \in Reqs, PublishOwner(p) PROVE TxMuUsed'
    BY <1>24 DEF PublishOwner
  <1>25. ASSUME NEW p \in Reqs, PublishUsed(p) PROVE TxMuUsed'
    BY <1>25 DEF PublishUsed
  <1>26. ASSUME NEW p \in {Monitor, Closer}, Check(p) PROVE TxMuUsed'
    BY <1>26 DEF Check
  <1>27. CASE Tick \/ Stop \/ Shutdown
    BY <1>27 DEF Tick, Stop, Shutdown, Drained, MonitorStop, MonitorGone, CloserStep,
                 ClosePools, DropRows
  <1>28. CASE Exited \/ UNCHANGED vars
    BY <1>28 DEF Exited, vars
  <1> HIDE DEF LockInv, TypeOK, TxMuUsed
  <1> QED
    BY <1>1, <1>2, <1>3, <1>4, <1>5, <1>6, <1>7, <1>8, <1>9, <1>10, <1>11, <1>12,
       <1>13, <1>14, <1>15, <1>16, <1>17, <1>18, <1>19, <1>20, <1>21, <1>22, <1>23,
       <1>24, <1>25, <1>26, <1>27, <1>28
    DEF Next, Acquire, Step

\* Every step keeps OpsBounded: only Start counts a request, under its bound.
LEMMA NextOpsBounded == TypeOK /\ OpsBounded /\ [Next]_vars => OpsBounded'
  <1> SUFFICES ASSUME TypeOK, OpsBounded, [Next]_vars PROVE OpsBounded'
    OBVIOUS
  <1> USE ConstantsAssumption DEF TypeOK, OpsBounded, Procs
  <1>1. ASSUME NEW p \in Procs, Acquire(p) \/ Step(p) PROVE OpsBounded'
    BY <1>1, OneMoves
  <1>2. ASSUME NEW p \in Reqs, NEW k, NEW u, NEW label, Start(p, k, u, label)
        PROVE  OpsBounded'
    BY <1>2 DEF Start
  <1>3. CASE Clock \/ Tick \/ Stop \/ Shutdown \/ Exited \/ UNCHANGED vars
    BY <1>3 DEF Clock, Tick, Stop, Shutdown, Exited, vars, procVars, Drained, MonitorStop,
                MonitorGone, CloserStep, ClosePools
  <1>4. ASSUME NEW p \in Reqs, Cancel(p) PROVE OpsBounded'
    BY <1>4 DEF Cancel
  <1> QED
    BY <1>1, <1>2, <1>3, <1>4 DEF Next, SubmitInTx, SubmitPlain, SubmitWithoutTx, SubmitBegin

\* What a step can do to txLastUsed, to the time a transaction was really idle, and
\* to the id both are about.
LEMMA AgeSteps ==
  ASSUME LockInv, [Next]_vars
  PROVE  \/ UNCHANGED <<usedAge, idleAge, txID, known>>
         \/ usedAge' = 0 /\ UNCHANGED txID
         \/ txID' = None
         \/ Clock
         \/ \E p \in Reqs : PublishID(p) \/ ExecBegin(p)
  <1> USE DEF Continue, Return, Execute, Touch, mgrVars, histVars
  <1>1. ASSUME NEW p \in Procs, Acquire(p)
        PROVE  UNCHANGED <<txID, known>> /\ (usedAge' = 0 \/ UNCHANGED <<usedAge, idleAge>>)
    BY <1>1 DEF Acquire, OpLock, RwLock, ClassifyRW, ClassifyRO, ClassifyFailed, LockTx, RoLock
  <1>2. ASSUME NEW p \in Procs, Step(p)
        PROVE  \/ UNCHANGED <<usedAge, idleAge, txID, known>>
               \/ usedAge' = 0 /\ UNCHANGED txID
               \/ txID' = None
               \/ p \in Reqs /\ (PublishID(p) \/ ExecBegin(p))
    BY <1>2 DEF Step, Validate, CheckTx, RoExec, PublishOwner, PublishUsed, ExecRollback,
                ExecCommit, ExecRead, ExecWrite, ClearID, UnlockTx, Check
  <1>3. ASSUME NEW p \in Reqs, NEW k, NEW u, NEW label, Start(p, k, u, label)
        PROVE  UNCHANGED <<usedAge, idleAge, txID, known>>
    BY <1>3 DEF Start
  <1> QED
    BY <1>1, <1>2, <1>3
    DEF Next, SubmitInTx, SubmitPlain, SubmitWithoutTx, SubmitBegin, Cancel, Clock,
        Tick, Stop, Shutdown, Exited, Drained, MonitorStop, MonitorGone, CloserStep,
        ClosePools, vars

\* Every step keeps AgesOrdered: a BEGIN resets the real idle time only while no id
\* is set, and its id is not known to a client before the store of txLastUsed.
LEMMA NextAgesOrdered == LockInv /\ TypeOK' /\ AgesOrdered /\ [Next]_vars => AgesOrdered'
  <1> SUFFICES ASSUME LockInv, TypeOK', AgesOrdered, [Next]_vars PROVE AgesOrdered'
    OBVIOUS
  <1> USE DEF LockInv, AgesOrdered
  <1>1. CASE UNCHANGED <<usedAge, idleAge, txID, known>>
    BY <1>1
  <1>2. CASE usedAge' = 0
    BY <1>2 DEF TypeOK
  <1>3. CASE txID' = None
    BY <1>3, ConstantsAssumption DEF TypeOK
  <1>4. CASE Clock
    BY <1>4, ConstantsAssumption DEF Clock, Older, TypeOK
  <1>5. ASSUME NEW p \in Reqs, PublishID(p) PROVE AgesOrdered'
    <2>1. txID' \notin known /\ known' = known
      BY <1>5, NotBegun DEF PublishID, IdsBegun, TypeOK, histVars
    <2> QED
      BY <2>1
  <1>6. ASSUME NEW p \in Reqs, ExecBegin(p) PROVE AgesOrdered'
    <2>1. pc[p] = "rwExec" /\ tx[p] = None /\ txID' = txID /\ known' = known
      BY <1>6 DEF ExecBegin, TypeOf, QueryType, Paths, ControlKinds, WriteKinds
    <2>2. txID = None
      BY <2>1, Exclusion DEF Deferred
    <2> QED
      BY <2>1, <2>2, ConstantsAssumption DEF TypeOK
  <1> QED
    BY <1>1, <1>2, <1>3, <1>4, <1>5, <1>6, AgeSteps

\* HeldInv is inductive, relative to LockInv.
LEMMA NextHeldInv == LockInv /\ HeldInv /\ [Next]_vars => HeldInv'
  <1> SUFFICES ASSUME LockInv, HeldInv, [Next]_vars PROVE HeldInv'
    OBVIOUS
  <1>1. LockInv' /\ TypeOK /\ TypeOK'
    BY NextLockInv DEF LockInv
  <1> QED
    BY <1>1, NextMutexesUsed, NextTxMuUsed, NextPoolUsed, NextShutdownOrder, NextOpsBounded,
       NextAgesOrdered
    DEF HeldInv

\* Whatever SQL the clients send: a lock or a connection that is held is held at a
\* place of db.go that gives it back, and the shutdown keeps its order.
THEOREM HeldDiscipline == Spec => []HeldInv
  <1>1. Init => HeldInv
    BY ConstantsAssumption
    DEF Init, HeldInv, MutexesUsed, TxMuUsed, PoolUsed, ShutdownOrder, OpsBounded,
        AgesOrdered, Procs
  <1> QED
    BY <1>1, NextHeldInv, LockDiscipline, PTL DEF Spec

\* When no request is in flight and no transaction is open, txMu and every read-only
\* connection are free: no early return of db.go leaves one behind.
THEOREM LocksAreReturned == Spec => []LocksReturned
  <1>1. LockInv /\ HeldInv => LocksReturned
    BY DEF LockInv, HeldInv, LocksReturned, TxMuUsed, PoolUsed, Deferred, TypeOK
  <1> QED
    BY <1>1, LockDiscipline, HeldDiscipline, PTL

\* The step in which the monitor decides to roll back is Check.
LEMMA MonitorDecides ==
  ASSUME TypeOK, [Next]_vars, pc[Monitor] = "check", pc'[Monitor] = "rwLock"
  PROVE  Check(Monitor)
  <1> USE ConstantsAssumption DEF TypeOK, Procs
  <1>1. ASSUME NEW p \in Procs, Acquire(p) \/ Step(p), p # Monitor PROVE FALSE
    BY <1>1, OneMoves
  <1>2. CASE Acquire(Monitor)
    BY <1>2 DEF Acquire, OpLock, RwLock
  <1>3. CASE Step(Monitor)
    BY <1>3 DEF Step, ExecRollback, ClearID, UnlockTx
  <1>4. ASSUME NEW p \in Reqs, NEW k, NEW u, NEW label, Start(p, k, u, label) PROVE FALSE
    BY <1>4 DEF Start
  <1>5. CASE Clock \/ Tick \/ Stop \/ Shutdown \/ Exited \/ UNCHANGED vars
             \/ \E p \in Reqs : Cancel(p)
    BY <1>5 DEF Clock, Tick, Stop, Shutdown, Exited, vars, procVars, Drained, MonitorStop,
                MonitorGone, CloserStep, ClosePools, Cancel
  <1> QED
    BY <1>1, <1>2, <1>3, <1>4, <1>5
    DEF Next, SubmitInTx, SubmitPlain, SubmitWithoutTx, SubmitBegin

\* The idle monitor rolls back the transaction of a client only after it was idle
\* for longer than TxIdleTimeout, whatever the interleaving of its three reads with
\* the stores of BEGIN and with the uses of the transaction.
THEOREM IdleRollbacksAreDue == Spec => IdleRollbackDue
  <1>1. ASSUME LockInv, HeldInv, [Next]_vars,
               pc[Monitor] = "check", pc'[Monitor] = "rwLock", txID \in known
        PROVE  idleAge > TxIdleTimeout
    <2>1. Check(Monitor) /\ usedAge <= idleAge
      BY <1>1, MonitorDecides DEF LockInv, HeldInv, AgesOrdered
    <2>2. usedAge > TxIdleTimeout
      BY <1>1, <2>1, ConstantsAssumption
      DEF Check, IdleTooLong, Return, Forget, After, LockInv, TypeOK, Procs
    <2> QED
      BY <1>1, <2>1, <2>2, ConstantsAssumption DEF LockInv, TypeOK
  <1>2. LockInv /\ HeldInv /\ [Next]_vars =>
          [pc[Monitor] = "check" /\ pc'[Monitor] = "rwLock" /\ txID \in known
             => idleAge > TxIdleTimeout]_vars
    BY <1>1
  <1> QED
    BY <1>2, LockDiscipline, HeldDiscipline, PTL DEF Spec, IdleRollbackDue
=============================================================================
