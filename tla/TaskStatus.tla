------------------------------ MODULE TaskStatus ------------------------------
(***************************************************************************)
(* The vocabulary of the scheduler's tasks: the statuses of                *)
(* app/utils/enums.py and the number of deliveries tenacity's stop rule    *)
(* leaves a task.                                                          *)
(***************************************************************************)
EXTENDS Integers

(* TaskStatus.  CREATED is missing on purpose: TaskService.create overwrites
   it with PENDING before the row is first flushed, so no row ever holds it. *)
Statuses == {"PENDING", "RUNNING", "SUCCESS", "FAILED", "CANCELLED"}

(* The statuses the scheduler decides on by itself at the end of a run.     *)
Verdicts == {"SUCCESS", "FAILED"}

(* execution.py _TERMINAL: a task found in one of these is left alone.      *)
Terminal == {"SUCCESS", "FAILED", "CANCELLED"}

(* transitions.py _ALLOWED and can_transition: which status may follow which.
   Only create consults the table.                                          *)
CanTransition(src, dst) ==
  dst \in CASE src = "CREATED" -> {"PENDING", "CANCELLED"}
            [] src = "PENDING" -> {"RUNNING", "CANCELLED"}
            [] src = "RUNNING" -> {"SUCCESS", "FAILED", "RUNNING"}
            [] OTHER           -> {}

(* AsyncRetrying(stop=stop_after_attempt(m)): the attempt is always made
   before the stop rule is asked, so a negative cap still makes one; a cap of
   zero never reaches tenacity because _mark_running returns it and
   execute_task takes 0 for "should not run".                               *)
AttemptCap(m) == IF m = 0 THEN 0 ELSE IF m < 0 THEN 1 ELSE m

(* Slip for the mutation runs: max_retries taken for the retries after the
   first attempt.                                                           *)
StopAfterAttempt_NotTotal(n, m) == n > m

(* tenacity's stop_after_attempt: is attempt n the last one under cap m?    *)
StopAfterAttempt(n, m) == n >= m
===============================================================================
