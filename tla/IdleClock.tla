----------------------------- MODULE IdleClock ------------------------------
(***************************************************************************)
(* How long an idle transaction lives: txIdleMonitor of internal/db with   *)
(* its ticker, the mutex txOpMu and the stores to txLastUsed, against a    *)
(* clock.  DB.tla lets the ticker fire at any time; here it has a period.  *)
(*                                                                         *)
(* Time is discrete, and does not pass while a goroutine has something to  *)
(* do (Urgent), except that the statement of a request, or the ROLLBACK of *)
(* the monitor, may take up to MaxHold under txOpMu.  sync.Mutex gives the *)
(* lock to a waiter that has waited (starvation mode).  The ROLLBACK of    *)
(* the monitor succeeds.                                                   *)
(***************************************************************************)
EXTENDS Integers

CONSTANTS
    Timeout,  \* TxIdleTimeout
    MaxHold   \* longest time under txOpMu

ASSUME IdleAssumption == Timeout \in Nat \ {0} /\ MaxHold \in Nat

VARIABLES
    open,       \* txID is set
    publishing, \* a BEGIN has stored txID and not yet txLastUsed
    used,       \* time.Since(txLastUsed), no further than Timeout + 1
    next,       \* time until the ticker fires
    tick,       \* a tick is in ticker.C, which has room for one
    mon,        \* where the monitor is: "select", "lock", "check" or "rollback"
    waited,     \* the monitor has waited for txOpMu
    opMu,       \* "free", "monitor", "using" or "refused" (a request)
    held,       \* for how long a request or a ROLLBACK has held txOpMu
    \* history, read by no action
    idle        \* time since the client of the open transaction was last served

vars == <<open, publishing, used, next, tick, mon, waited, opMu, held, idle>>

Limit == 2 * Timeout + MaxHold

Older(age, cap) == IF age < cap THEN age + 1 ELSE cap

\* Mutant: the ticker has twice the period.
PeriodDoubled == 2 * Timeout

\* time.NewTicker(timeout)
Period == Timeout

Init ==
    /\ open = FALSE /\ publishing = FALSE /\ used = 0
    /\ next = Period /\ tick = FALSE /\ mon = "select" /\ waited = FALSE
    /\ opMu = "free" /\ held = 0 /\ idle = 0
-----------------------------------------------------------------------------
\* executeBeginQuery: txID.Store, then txLastUsed.Store.  It is under txMu, so
\* there is no open transaction; bound: one BEGIN between its stores.
Begin ==
    /\ ~open /\ ~publishing
    /\ open' = TRUE /\ publishing' = TRUE /\ idle' = 0
    /\ UNCHANGED <<used, next, tick, mon, waited, opMu, held>>

BeginReturns ==
    /\ publishing /\ publishing' = FALSE
    /\ used' = 0 /\ idle' = 0
    /\ UNCHANGED <<open, next, tick, mon, waited, opMu, held>>

\* query with a txID: txOpMu.Lock, validateTxID and, if it is the open
\* transaction, txLastUsed.Store.
Request(how) ==
    /\ opMu = "free" /\ ~(mon = "lock" /\ waited)
    /\ how = "using" => open /\ ~publishing
    /\ opMu' = how /\ held' = 0
    /\ used' = IF how = "using" THEN 0 ELSE used
    /\ idle' = IF how = "using" THEN 0 ELSE idle
    /\ UNCHANGED <<open, publishing, next, tick, mon, waited>>

\* Mutant: txLastUsed is only stored when the statement starts.
AnsweredNoTouch(ends) ==
    /\ opMu \in {"using", "refused"} /\ opMu' = "free"
    /\ ends => opMu = "using"
    /\ open' = (open /\ ~ends)
    /\ idle' = IF opMu = "using" THEN 0 ELSE idle
    /\ UNCHANGED <<publishing, used, next, tick, mon, waited, held>>

\* The request returns: the deferred txLastUsed.Store, if it was validated.  A
\* COMMIT or a ROLLBACK ends the transaction.
Answered(ends) ==
    /\ opMu \in {"using", "refused"} /\ opMu' = "free"
    /\ ends => opMu = "using"
    /\ open' = (open /\ ~ends)
    /\ used' = IF opMu = "using" THEN 0 ELSE used
    /\ idle' = IF opMu = "using" THEN 0 ELSE idle
    /\ UNCHANGED <<publishing, next, tick, mon, waited, held>>
-----------------------------------------------------------------------------
\* The runtime sends a tick, or drops it if there is one in the channel.
TickerFires ==
    /\ next = 0 /\ next' = Period /\ tick' = TRUE
    /\ UNCHANGED <<open, publishing, used, mon, waited, opMu, held, idle>>

\* case <-ticker.C
MonitorReceives ==
    /\ mon = "select" /\ tick
    /\ tick' = FALSE /\ mon' = "lock" /\ waited' = FALSE
    /\ UNCHANGED <<open, publishing, used, next, opMu, held, idle>>

MonitorLocks ==
    /\ mon = "lock" /\ opMu = "free"
    /\ opMu' = "monitor" /\ mon' = "check"
    /\ UNCHANGED <<open, publishing, used, next, tick, waited, held, idle>>

\* time.Since(txLastUsed) > timeout
IdleTooLong == used > Timeout

\* Mutant: txOpMu is not unlocked when there is nothing to do.
MonitorKeepsLock ==
    /\ mon = "check"
    /\ IF open /\ IdleTooLong
       THEN mon' = "rollback" /\ held' = 0
       ELSE mon' = "select" /\ UNCHANGED held
    /\ UNCHANGED <<open, publishing, used, next, tick, waited, opMu, idle>>

\* txID.Load and txLastUsed.Load: the rollback starts, or there is none.
MonitorChecks ==
    /\ mon = "check"
    /\ IF open /\ IdleTooLong
       THEN mon' = "rollback" /\ held' = 0 /\ UNCHANGED opMu
       ELSE mon' = "select" /\ opMu' = "free" /\ UNCHANGED held
    /\ UNCHANGED <<open, publishing, used, next, tick, waited, idle>>

MonitorRollsBack ==
    /\ mon = "rollback" /\ mon' = "select" /\ opMu' = "free"
    /\ open' = FALSE /\ used' = 0
    /\ UNCHANGED <<publishing, next, tick, waited, held, idle>>

\* A goroutine or the runtime has something to do now.
Urgent ==
    \/ publishing \/ next = 0 \/ mon = "check"
    \/ mon = "select" /\ tick
    \/ mon = "lock" /\ opMu = "free"

\* txOpMu is held while a statement runs.
Running == opMu \in {"using", "refused"} \/ mon = "rollback"

Time ==
    /\ ~Urgent /\ (Running => held < MaxHold)
    /\ next' = next - 1
    /\ used' = Older(used, Timeout + 1)
    /\ idle' = IF open /\ opMu # "using" THEN Older(idle, Limit + 1) ELSE 0
    /\ held' = IF Running THEN held + 1 ELSE 0
    /\ waited' = (mon = "lock")
    /\ UNCHANGED <<open, publishing, tick, mon, opMu>>

Next ==
    \/ Begin \/ BeginReturns \/ Request("using") \/ Request("refused")
    \/ \E ends \in BOOLEAN : Answered(ends)
    \/ TickerFires \/ MonitorReceives \/ MonitorLocks \/ MonitorChecks \/ MonitorRollsBack
    \/ Time

Spec == Init /\ [][Next]_vars
-----------------------------------------------------------------------------
\* The type of every variable, and who holds txOpMu.
TypeOK ==
    /\ open \in BOOLEAN /\ publishing \in BOOLEAN /\ tick \in BOOLEAN /\ waited \in BOOLEAN
    /\ used \in 0 .. Timeout + 1 /\ idle \in 0 .. Limit + 1
    /\ next \in 0 .. Timeout /\ held \in 0 .. MaxHold
    /\ mon \in {"select", "lock", "check", "rollback"}
    /\ opMu \in {"free", "monitor", "using", "refused"}
    /\ (opMu = "monitor") <=> (mon \in {"check", "rollback"})

\* A client that goes away holds the server's only transaction for at most twice
\* the timeout and one statement: by then the monitor is rolling it back.
IdleBounded == open /\ mon # "rollback" => idle <= Limit

\* The monitor never takes the transaction of a client that was served within
\* the timeout; only a BEGIN that has not returned yet can be hit sooner.
NotTooSoon ==
    [][mon = "check" /\ mon' = "rollback" => idle > Timeout \/ publishing]_vars
=============================================================================
