------------------------------ MODULE MCStats -------------------------------
(***************************************************************************)
(* The small instance of Stats for TLC is all in stats.cfg.                *)
(***************************************************************************)
EXTENDS Stats
=============================================================================
