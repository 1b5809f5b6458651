-------------------------- MODULE IdleClockProofs ---------------------------
(***************************************************************************)
(* Proofs about IdleClock, for every timeout and every longest statement.  *)
(***************************************************************************)
EXTENDS IdleClock, TLAPS

\* txLastUsed is not older than the last answer, and not younger: the monitor
\* that reads it learns how long the client has been idle.
UsedTellsIdle ==
    open => /\ used <= Timeout => idle <= used
            /\ ~publishing /\ opMu # "using" => used <= idle

\* How far the idle time can be, by where the monitor is.  Once the timeout has
\* passed, the next tick leads to the rollback.
WhileTicking == mon = "select" /\ ~tick /\ idle > Timeout => idle + next <= 2 * Timeout
WhileReceiving == mon = "select" /\ tick => idle <= 2 * Timeout
WhileLocking ==
    mon = "lock" =>
        /\ ~waited => idle <= 2 * Timeout
        /\ waited /\ opMu # "free" => idle <= 2 * Timeout + held
        /\ idle <= Limit
WhileChecking == mon = "check" => idle <= Limit

IdlePhases == open => WhileTicking /\ WhileReceiving /\ WhileLocking /\ WhileChecking

IdleInv == TypeOK /\ UsedTellsIdle /\ IdlePhases
-----------------------------------------------------------------------------
\* A step keeps the type of every variable, and who holds txOpMu.
LEMMA NextTypeOK == TypeOK /\ [Next]_vars => TypeOK'
<1> SUFFICES ASSUME TypeOK, [Next]_vars PROVE TypeOK'
  OBVIOUS
<1> USE IdleAssumption DEF TypeOK, Limit
<1>0. 0 \in 0 .. Timeout + 1 /\ 0 \in 0 .. Limit + 1
  OBVIOUS
<1>1. CASE Begin BY <1>1 DEF Begin
<1>2. CASE BeginReturns BY <1>0, <1>2, Zenon DEF BeginReturns
<1>3. CASE Request("using") BY <1>3 DEF Request
<1>4. CASE Request("refused") BY <1>4 DEF Request
<1>5. ASSUME NEW ends \in BOOLEAN, Answered(ends) PROVE TypeOK'
  BY <1>5 DEF Answered
<1>6. CASE TickerFires BY <1>6 DEF TickerFires, Period
<1>7. CASE MonitorReceives BY <1>7 DEF MonitorReceives
<1>8. CASE MonitorLocks BY <1>8 DEF MonitorLocks
<1>9. CASE MonitorChecks BY <1>9 DEF MonitorChecks
<1>10. CASE MonitorRollsBack BY <1>0, <1>10, Zenon DEF MonitorRollsBack
<1>11. CASE Time BY <1>11 DEF Time, Urgent, Running, Older
<1>12. CASE UNCHANGED vars BY <1>12 DEF vars
<1>. QED BY <1>1, <1>2, <1>3, <1>4, <1>5, <1>6, <1>7, <1>8, <1>9, <1>10, <1>11, <1>12 DEF Next

\* A step keeps txLastUsed in line with the last answer.
LEMMA NextUsedTellsIdle ==
  TypeOK /\ UsedTellsIdle /\ [Next]_vars => UsedTellsIdle'
<1> SUFFICES ASSUME TypeOK, UsedTellsIdle, [Next]_vars PROVE UsedTellsIdle'
  OBVIOUS
<1> USE IdleAssumption DEF TypeOK, Limit, UsedTellsIdle
<1>1. CASE Begin BY <1>1 DEF Begin
<1>2. CASE BeginReturns BY <1>2 DEF BeginReturns
<1>3. CASE Request("using") BY <1>3 DEF Request
<1>4. CASE Request("refused") BY <1>4 DEF Request
<1>5. ASSUME NEW ends \in BOOLEAN, Answered(ends) PROVE UsedTellsIdle'
  BY <1>5 DEF Answered
<1>6. CASE TickerFires BY <1>6 DEF TickerFires
<1>7. CASE MonitorReceives BY <1>7 DEF MonitorReceives
<1>8. CASE MonitorLocks BY <1>8 DEF MonitorLocks
<1>9. CASE MonitorChecks BY <1>9 DEF MonitorChecks
<1>10. CASE MonitorRollsBack BY <1>10 DEF MonitorRollsBack
<1>11. CASE Time BY <1>11 DEF Time, Urgent, Running, Older
<1>12. CASE UNCHANGED vars BY <1>12 DEF vars
<1>. QED BY <1>1, <1>2, <1>3, <1>4, <1>5, <1>6, <1>7, <1>8, <1>9, <1>10, <1>11, <1>12 DEF Next

\* While the idle time i grows to j, the time n to the next tick shrinks to m.
LEMMA TimeAndTick ==
  ASSUME NEW T \in Int, NEW i \in Int, NEW j \in Int, NEW n \in Int, NEW m \in Int,
         n <= T, j <= i + 1, m = n - 1, i > T => i + n <= 2 * T
  PROVE  j + m <= 2 * T
OBVIOUS

\* A step keeps the bounds on the idle time.  Only Time lets it grow; a check
\* that leaves the transaction alone has found it young.
LEMMA NextIdlePhases == IdleInv /\ [Next]_vars => IdlePhases'
<1> SUFFICES ASSUME IdleInv, [Next]_vars PROVE IdlePhases'
  OBVIOUS
<1> USE IdleAssumption
    DEF IdleInv, TypeOK, Limit, IdlePhases, WhileTicking, WhileReceiving, WhileLocking, WhileChecking
<1>1. CASE Begin BY <1>1 DEF Begin
<1>2. CASE BeginReturns BY <1>2 DEF BeginReturns
<1>3. CASE Request("using") BY <1>3 DEF Request
<1>4. CASE Request("refused") BY <1>4 DEF Request
<1>5. ASSUME NEW ends \in BOOLEAN, Answered(ends) PROVE IdlePhases'
  BY <1>5 DEF Answered
<1>6. CASE TickerFires BY <1>6 DEF TickerFires, Period
<1>7. CASE MonitorReceives BY <1>7 DEF MonitorReceives
<1>8. CASE MonitorLocks BY <1>8 DEF MonitorLocks
<1>9. CASE MonitorChecks BY <1>9 DEF MonitorChecks, IdleTooLong, UsedTellsIdle
<1>10. CASE MonitorRollsBack BY <1>10 DEF MonitorRollsBack
<1>11. CASE Time
  <2>1. open' => idle' <= idle + 1
    BY <1>11 DEF Time, Older
  <2>2. next' = next - 1 /\ tick' = tick /\ mon' = mon /\ opMu' = opMu /\ open' = open
    BY <1>11 DEF Time
  <2> TypeOK'
    BY NextTypeOK
  <2>3. CASE mon = "select"
    <3>1. ~tick /\ next # 0
      BY <1>11, <2>3 DEF Time, Urgent
    <3>2. open /\ idle > Timeout => idle + next <= 2 * Timeout
      BY <2>3, <3>1, Zenon
    <3>3. open /\ idle' > Timeout => idle' + next' <= 2 * Timeout
      <4> SUFFICES ASSUME open, idle' > Timeout PROVE idle' + next' <= 2 * Timeout
        OBVIOUS
      <4>1. idle \in Int /\ idle' \in Int /\ next \in Int /\ Timeout \in Int /\ next <= Timeout
        OBVIOUS
      <4>2. idle' <= idle + 1 /\ next' = next - 1
        BY <2>1, <2>2
      <4>3. idle > Timeout => idle + next <= 2 * Timeout
        BY <3>2, Zenon
      <4>4. next' \in Int
        BY <4>1, <4>2
      <4>. QED BY <4>1, <4>2, <4>3, <4>4, TimeAndTick, Zenon
    <3>. QED BY <2>2, <2>3, <3>1, <3>3, Zenon
  <2>4. CASE mon = "lock"
    <3>1. opMu \in {"using", "refused"} /\ held' = held + 1 /\ waited' = TRUE
      BY <1>11, <2>4 DEF Time, Urgent, Running
    <3>2. open => idle <= 2 * Timeout + held
      BY <2>4, <3>1
    <3>3. open => idle' <= 2 * Timeout + held' /\ idle' <= Limit
      BY <2>1, <2>2, <3>1, <3>2
    <3>. QED BY <2>2, <2>4, <3>1, <3>3, Zenon
  <2>5. CASE mon \in {"check", "rollback"} BY <1>11, <2>2, <2>5 DEF Urgent, Time
  <2>. QED BY <2>3, <2>4, <2>5
<1>12. CASE UNCHANGED vars BY <1>12 DEF vars
<1>. QED BY <1>1, <1>2, <1>3, <1>4, <1>5, <1>6, <1>7, <1>8, <1>9, <1>10, <1>11, <1>12 DEF Next

\* The inductive invariant behind the theorems of this module.
THEOREM IdleInvariant == Spec => []IdleInv
<1>1. Init => IdleInv
  <2> SUFFICES ASSUME Init PROVE IdleInv
    OBVIOUS
  <2>1. TypeOK
    <3>1. /\ 0 \in 0 .. Timeout + 1 /\ 0 \in 0 .. Limit + 1
          /\ Timeout \in 0 .. Timeout /\ 0 \in 0 .. MaxHold
      BY IdleAssumption DEF Limit
    <3>. QED BY <3>1, Zenon DEF Init, Period, TypeOK
  <2>2. UsedTellsIdle /\ IdlePhases
    BY Zenon DEF Init, UsedTellsIdle, IdlePhases
  <2>. QED BY <2>1, <2>2 DEF IdleInv
<1>2. IdleInv /\ [Next]_vars => IdleInv'
  BY NextTypeOK, NextUsedTellsIdle, NextIdlePhases DEF IdleInv
<1>. QED BY <1>1, <1>2, PTL DEF Spec

\* Every variable keeps its type, and txOpMu is the monitor's exactly while it
\* checks and rolls back.
THEOREM IdleTypeCorrect == Spec => []TypeOK
<1>1. IdleInv => TypeOK
  BY DEF IdleInv
<1>. QED BY <1>1, IdleInvariant, PTL

\* The idle transaction of a client that went away is being rolled back after at
\* most twice the timeout and the longest statement, whatever the two are.
THEOREM IdleTransactionsEnd == Spec => []IdleBounded
<1>1. IdleInv => IdleBounded
  BY IdleAssumption
  DEF IdleInv, TypeOK, IdlePhases, WhileTicking, WhileReceiving, WhileLocking, WhileChecking,
      IdleBounded, Limit
<1>. QED BY <1>1, IdleInvariant, PTL

\* The monitor never rolls back the transaction of a client that was served
\* within the timeout, unless its BEGIN has not returned yet.
THEOREM ActiveTransactionsStay == Spec => NotTooSoon
<1>1. IdleInv /\ [Next]_vars =>
        [mon = "check" /\ mon' = "rollback" => idle > Timeout \/ publishing]_vars
  <2> SUFFICES ASSUME IdleInv, [Next]_vars, mon = "check", mon' = "rollback"
               PROVE idle > Timeout \/ publishing
    OBVIOUS
  <2>1. MonitorChecks
    BY DEF Next, vars, Begin, BeginReturns, Request, Answered, TickerFires, MonitorReceives,
           MonitorLocks, MonitorRollsBack, Time
  <2>2. open /\ used > Timeout
    BY <2>1 DEF MonitorChecks, IdleTooLong
  <2>3. opMu = "monitor"
    BY DEF IdleInv, TypeOK
  <2>. QED BY <2>2, <2>3, IdleAssumption DEF IdleInv, TypeOK, UsedTellsIdle, Limit
<1>. QED BY <1>1, IdleInvariant, PTL DEF Spec, NotTooSoon
=============================================================================
