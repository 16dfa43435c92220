------------------------------- MODULE MC_System -------------------------------
(***************************************************************************)
(* A small instance of System for TLC: as many execution ids as the tasks  *)
(* can make calls, one webhook per mode and outcome and one name the       *)
(* registry lacks.                                                         *)
(***************************************************************************)
EXTENDS System, TLC

CONSTANTS t1, t2, c1, e1, e2, e3, e4, syncOk, syncBad, asyncOk, asyncBad, gone

SystemSymmetry == Permutations(Execs) \cup Permutations(Tasks)
===============================================================================
