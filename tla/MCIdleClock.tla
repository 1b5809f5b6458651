---------------------------- MODULE MCIdleClock -----------------------------
(***************************************************************************)
(* IdleClock with statements that take longer than a period of the ticker, *)
(* so that ticks are dropped.                                              *)
(***************************************************************************)
EXTENDS IdleClock
=============================================================================
