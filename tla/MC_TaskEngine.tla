----------------------------- MODULE MC_TaskEngine -----------------------------
(***************************************************************************)
(* Small instances of TaskEngine for TLC.                                  *)
(***************************************************************************)
EXTENDS TaskEngineProps, TLC

CONSTANTS t1, t2, t3, c1, c2

(* Task ids and clients are interchangeable.                                *)
Symmetry == Permutations(Tasks) \cup Permutations(Clients)
===============================================================================
