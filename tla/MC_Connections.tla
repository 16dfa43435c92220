----------------------------- MODULE MC_Connections -----------------------------
(***************************************************************************)
(* A small instance of Connections for TLC: a task and two requests, with  *)
(* fewer connections than there are coroutines.                            *)
(***************************************************************************)
EXTENDS Connections

CONSTANTS t1, r1, r2
===============================================================================
