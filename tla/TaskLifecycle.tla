----------------------------- MODULE TaskLifecycle -----------------------------
(***************************************************************************)
(* What the scheduler promises about each task, whatever fails and however *)
(* its coroutines and the API requests interleave:                         *)
(*                                                                         *)
(*   - it drives the task at most once along PENDING -> RUNNING -> verdict *)
(*     and never takes a verdict back;                                     *)
(*   - it delivers the webhook only while it is driving the task, and no   *)
(*     more often than the task's attempt cap allows;                      *)
(*   - it schedules at most one follow-up, in the very step that makes the *)
(*     verdict SUCCESS visible.                                            *)
(*                                                                         *)
(* A client's DELETE is a second writer of the same status column: it does *)
(* not take part in "progress", it only decides what "status" shows.       *)
(* Nothing here says that a task ever moves: crashes may strand it.        *)
(***************************************************************************)
EXTENDS TaskStatus

CONSTANTS Tasks, NoTask, RetryCaps

VARIABLES
  progress,   \* the last status the scheduler itself gave the task
  status,     \* the status a reader of the row sees
  parent,     \* the task this one follows up, or NoTask
  cap,        \* max_retries of the task
  posts       \* how often the webhook has been called

lvars == <<progress, status, parent, cap, posts>>

LInit ==
  /\ progress = [t \in Tasks |-> "none"]
  /\ status   = [t \in Tasks |-> "none"]
  /\ parent   = [t \in Tasks |-> NoTask]
  /\ cap      = [t \in Tasks |-> 0]
  /\ posts    = [t \in Tasks |-> 0]

(* A client's task appears, scheduled.                                      *)
Submit(t, m) ==
  /\ progress[t] = "none"
  /\ progress' = [progress EXCEPT ![t] = "PENDING"]
  /\ status'   = [status EXCEPT ![t] = "PENDING"]
  /\ cap'      = [cap EXCEPT ![t] = m]
  /\ UNCHANGED <<parent, posts>>

Start(t) ==
  /\ progress[t] = "PENDING"
  /\ progress' = [progress EXCEPT ![t] = "RUNNING"]
  /\ status'   = [status EXCEPT ![t] = "RUNNING"]
  /\ UNCHANGED <<parent, cap, posts>>

Deliver(t) ==
  /\ progress[t] = "RUNNING"
  /\ posts[t] < AttemptCap(cap[t])
  /\ posts' = [posts EXCEPT ![t] = @ + 1]
  /\ UNCHANGED <<progress, status, parent, cap>>

(* The verdict v is reached.  c is the follow-up a SUCCESS may schedule.    *)
Settle(t, v, c) ==
  /\ progress[t] = "RUNNING"
  /\ c # NoTask => v = "SUCCESS" /\ progress[c] = "none"
  /\ progress' = [u \in Tasks |-> IF u = t THEN v
                                  ELSE IF u = c THEN "PENDING" ELSE progress[u]]
  /\ status'   = [u \in Tasks |-> IF u = t THEN v
                                  ELSE IF u = c THEN "PENDING" ELSE status[u]]
  /\ parent'   = [u \in Tasks |-> IF u = c THEN t ELSE parent[u]]
  /\ cap'      = [u \in Tasks |-> IF u = c THEN cap[t] ELSE cap[u]]
  /\ UNCHANGED posts

(* A client cancels.  The scheduler may have settled the task after the
   request looked at it, so the cancellation can cover a verdict. *)
Cancel(t) ==
  /\ progress[t] # "none"
  /\ status' = [status EXCEPT ![t] = "CANCELLED"]
  /\ UNCHANGED <<progress, parent, cap, posts>>

LNext ==
  \E t \in Tasks :
    \/ \E m \in RetryCaps : Submit(t, m)
    \/ Start(t)
    \/ Deliver(t)
    \/ \E v \in Verdicts, c \in Tasks \cup {NoTask} : Settle(t, v, c)
    \/ Cancel(t)

LSpec == LInit /\ [][LNext]_lvars
===============================================================================
