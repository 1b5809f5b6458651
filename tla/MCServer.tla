------------------------------ MODULE MCServer ------------------------------
(***************************************************************************)
(* A small instance of Server for TLC: two requests of every kind.         *)
(***************************************************************************)
EXTENDS ServerInv, TLC

CONSTANTS a, w, o,  \* secrets: an admin, a read-write and a read-only token
          u,        \* a secret that is not configured
          r1, r2

\* The read-write secret is also configured, by mistake, as a read-only one.
ThreeTokens ==
    <<[role |-> "admin", value |-> a], [role |-> "rw", value |-> w],
      [role |-> "ro", value |-> w], [role |-> "ro", value |-> o]>>

\* Several statements, and none; RPC clients that run their own transactions.
ClientScripts ==
    {<<>>, <<"begin">>, <<"write", "write">>, <<"write", "failRollback">>, <<"read">>,
     <<"empty">>, <<"commit">>}

\* No request is special.
RequestSymmetry == Permutations(Requests)
=============================================================================
