-------------------------------- MODULE MCDB --------------------------------
(***************************************************************************)
(* Small instances of DB for TLC: two request goroutines.                  *)
(***************************************************************************)
EXTENDS DBRefinement, TLC

CONSTANTS r1, r2

\* r1 and r2 hold different tokens, both allowed to write.
RolesRWRW == (r1 :> "admin") @@ (r2 :> "rw")
RolesRWRO == (r1 :> "admin") @@ (r2 :> "ro")
Ops21 == (r1 :> 2) @@ (r2 :> 1)
Ops31 == (r1 :> 3) @@ (r2 :> 1)
Ops41 == (r1 :> 4) @@ (r2 :> 1)
OwnEach == [p \in {r1, r2} |-> p]
=============================================================================
