-------------------------- MODULE ExecutionLifecycle --------------------------
(***************************************************************************)
(* What the executor promises about each execution to those who called the *)
(* webhook and to those who poll GET /status, whatever fails and however   *)
(* requests, commits and completions interleave:                           *)
(*                                                                         *)
(*   - a caller is answered once, and nothing is to be seen before that;   *)
(*   - what is then to be seen, if anything, is what the answer said: the  *)
(*     outcome of a 200 or a 500, a QUEUED execution of a 202;             *)
(*   - a QUEUED execution gets its outcome once, and no outcome is ever    *)
(*     taken back.                                                         *)
(*                                                                         *)
(* Nothing here says that a row ever appears: the commit comes after the   *)
(* answer and may fail, and a crash may leave an execution QUEUED.         *)
(***************************************************************************)
CONSTANT Execs

VARIABLES
  told,   \* the HTTP status its caller got, or "none"
  shown   \* the status a poll finds, or "none"

xvars == <<told, shown>>

XInit ==
  /\ told = [e \in Execs |-> "none"]
  /\ shown = [e \in Execs |-> "none"]

Tell(e) ==
  /\ told[e] = "none"
  /\ \E a \in {"200", "202", "404", "500"} : told' = [told EXCEPT ![e] = a]
  /\ UNCHANGED shown

(* The row an answer stands for.                                            *)
RowOf == [a \in {"200", "202", "500"} |->
            IF a = "200" THEN "SUCCESS" ELSE IF a = "202" THEN "QUEUED" ELSE "FAILED"]

Show(e) ==
  /\ told[e] \in DOMAIN RowOf /\ shown[e] = "none"
  /\ shown' = [shown EXCEPT ![e] = RowOf[told[e]]]
  /\ UNCHANGED told

Complete(e) ==
  /\ shown[e] = "QUEUED"
  /\ \E s \in {"SUCCESS", "FAILED"} : shown' = [shown EXCEPT ![e] = s]
  /\ UNCHANGED told

XNext == \E e \in Execs : Tell(e) \/ Show(e) \/ Complete(e)

XSpec == XInit /\ [][XNext]_xvars
===============================================================================
