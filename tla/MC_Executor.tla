------------------------------ MODULE MC_Executor ------------------------------
(***************************************************************************)
(* Small instances of Executor for TLC: one webhook per mode and outcome   *)
(* and one name the registry lacks, more executions than the semaphore has *)
(* permits.                                                                *)
(***************************************************************************)
EXTENDS Executor, TLC

CONSTANTS e1, e2, e3, syncOk, syncBad, asyncOk, asyncBad, gone

ExecSymmetry == Permutations(Execs)
===============================================================================
