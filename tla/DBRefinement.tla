---------------------------- MODULE DBRefinement ----------------------------
(***************************************************************************)
(* The transaction manager implements TxStore, as long as its clients only *)
(* send statements after which SQLite is in the transaction it was in      *)
(* (CleanKinds).  The buffer of the open transaction is not read off the   *)
(* connection: it is what the clients were told they wrote under that id.  *)
(***************************************************************************)
EXTENDS DBInv

\* The tokens of the requests that the bound MaxOps allows.
Requests == UNION {{p} \X (1 .. MaxOps[p]) : p \in Reqs}

Store == INSTANCE TxStore WITH
    Ids <- Requests, Rows <- Requests, NoId <- None,
    store <- file \ {Table},
    open <- rwTx,
    buf <- {w[1] : w \in {v \in wrote : v[2] = rwTx}},
    done <- committed

\* Every step of the manager is a step of TxStore or changes nothing that it
\* promises: a statement takes effect in the transaction named by its id, a
\* plain write only between transactions, and COMMIT makes exactly the
\* acknowledged rows of that transaction durable.
ImplementsTxStore == Store!Spec
=============================================================================
