------------------------------ MODULE TxStore -------------------------------
(***************************************************************************)
(* What the transaction manager promises to its clients (the guide         *)
(* docs/content/docs/guides/transactions.md): one transaction at a time,   *)
(* whose rows become visible together or not at all, and plain writes only *)
(* between transactions.                                                   *)
(***************************************************************************)
CONSTANTS
    Ids,    \* transaction ids
    Rows,   \* rows a statement can write
    NoId    \* no transaction is open

VARIABLES
    store,  \* committed rows
    open,   \* the open transaction, or NoId
    buf,    \* the rows written under its id
    done    \* the transactions committed so far

storeVars == <<store, open, buf, done>>

Init == store = {} /\ open = NoId /\ buf = {} /\ done = {}

\* A transaction begins when none is open; its id was never committed.
Begin(t) ==
    /\ open = NoId /\ t \notin done
    /\ open' = t /\ buf' = {}
    /\ UNCHANGED <<store, done>>

\* A write sent with the id of the open transaction.
TxWrite(r) ==
    /\ open # NoId
    /\ buf' = buf \cup {r}
    /\ UNCHANGED <<store, open, done>>

\* A write sent with no id waits until no transaction is open.
PlainWrite(r) ==
    /\ open = NoId
    /\ store' = store \cup {r}
    /\ UNCHANGED <<open, buf, done>>

Commit ==
    /\ open # NoId
    /\ store' = store \cup buf /\ done' = done \cup {open}
    /\ open' = NoId /\ buf' = {}

\* ROLLBACK, idle timeout or shutdown.
Rollback ==
    /\ open # NoId
    /\ open' = NoId /\ buf' = {}
    /\ UNCHANGED <<store, done>>

Next ==
    \/ \E t \in Ids : Begin(t)
    \/ \E r \in Rows : TxWrite(r) \/ PlainWrite(r)
    \/ Commit \/ Rollback

Spec == Init /\ [][Next]_storeVars
=============================================================================
