------------------------------ MODULE TaskEngine ------------------------------
(***************************************************************************)
(* The scheduler service's engine: the tasks table, the APScheduler jobs,  *)
(* the two kinds of coroutine APScheduler starts (execute_task, poll_task) *)
(* and the API requests that write tasks (POST /tasks, DELETE /tasks/{id}).*)
(*                                                                         *)
(* Every await that touches the database or the network is a point where   *)
(* the other coroutines run, so a handler is one action per stretch        *)
(* between two such awaits.  A session's writes become visible at its      *)
(* commit; the APScheduler job store commits on its own, at once.  The     *)
(* database is PostgreSQL in READ COMMITTED: an UPDATE waits for the row's *)
(* other writer to finish and then overwrites, and SQLAlchemy sends the    *)
(* changed columns only.                                                   *)
(*                                                                         *)
(* The members of Faults are the failures a run lets happen:               *)
(*   "crash"    the process stops: its coroutines and requests are gone,   *)
(*              rows and jobs stay;                                        *)
(*   "db"       a database call of a coroutine or of a request fails;      *)
(*   "jobstore" the job store fails, where the code swallows the error;    *)
(*   "misfire"  a job is older than its grace time when it gets its turn;  *)
(*   "early"    a job is due before the transaction that registered it has *)
(*              committed;                                                 *)
(*   "cron"     next_run_time raises, and recurrence stops with a log line.*)
(*                                                                         *)
(* An operator named <Def>_<Slip> is <Def> with a slip a maintainer could  *)
(* make; nothing uses it but the mutation runs, which put it in the place  *)
(* of <Def> and expect the property it breaks to fail.                     *)
(***************************************************************************)
EXTENDS TaskStatus

CONSTANTS
  Tasks,            \* task ids
  NoTask,           \* no task: parent_task_id NULL
  Clients,          \* concurrent API requests that write
  RetryCaps,        \* the max_retries clients ask for
  PollMaxAttempts,  \* settings.poll_max_attempts
  Faults            \* the failures that may happen

ASSUME NoTaskAssumption == NoTask \notin Tasks
ASSUME RetryCapsAssumption == RetryCaps \subseteq Int
ASSUME PollMaxAttemptsAssumption == PollMaxAttempts \in Nat \ {0}

VARIABLES
  rows,       \* the committed tasks table
  taskJobs,   \* tasks with a job "<id>" in the job store
  pollJobs,   \* tasks with a job "poll:<id>" in the job store
  exec,       \* execute_task, per task
  poll,       \* poll_task, per task
  req,        \* the request each client has in flight
  calls,      \* history: HTTP calls sent for the task, per phase
  audit,      \* committed task_attempts rows of the task, per phase
  progress    \* history: the last status the scheduler itself committed

vars == <<rows, taskJobs, pollJobs, exec, poll, req, calls, audit, progress>>

(***************************************************************************)
(* State                                                                   *)
(***************************************************************************)

Task(m, rec, p) ==
  [status |-> "PENDING", check_url |-> FALSE, retry_count |-> 0,
   max_retries |-> m, recurring |-> rec, parent |-> p]

NoRow == [Task(0, FALSE, NoTask) EXCEPT !.status = "none"]

(* What a POST can bring: a 2xx other than 202, a 202 with and without a
   check_url, what _execute_one_attempt retries on (5xx, 408, 429, a transport
   error) and any other answer.                                             *)
Responses == {"ok", "accepted", "nourl", "retry", "reject"}

ExecPcs == {"idle", "mark", "marking", "attempt", "posting", "apply",
            "applying", "settling", "giveup", "failing"}
PollPcs == {"idle", "poll", "getting", "settling", "giveup", "failing"}
ReqPcs  == {"idle", "creating", "cancelRead", "cancelling"}

IdleExec == [pc |-> "idle", n |-> 0, resp |-> "retry", child |-> NoTask]
IdlePoll == [pc |-> "idle", n |-> 0, verdict |-> "FAILED", child |-> NoTask]
IdleReq  == [pc |-> "idle", task |-> NoTask, row |-> NoRow]

Init ==
  /\ rows     = [t \in Tasks |-> NoRow]
  /\ taskJobs = {}
  /\ pollJobs = {}
  /\ exec     = [t \in Tasks |-> IdleExec]
  /\ poll     = [t \in Tasks |-> IdlePoll]
  /\ req      = [c \in Clients |-> IdleReq]
  /\ calls    = [t \in Tasks |-> [EXECUTE |-> 0, POLL |-> 0]]
  /\ audit    = [t \in Tasks |-> [EXECUTE |-> 0, POLL |-> 0]]
  /\ progress = [t \in Tasks |-> "none"]

(* An open transaction is about to insert t.                                *)
Inserting(t) ==
  \/ \E c \in Clients : req[c].pc = "creating" /\ req[c].task = t
  \/ \E p \in Tasks : t \in {exec[p].child, poll[p].child}

(* No trace of t: an id uuid4 may still draw.                               *)
Fresh(t) ==
  /\ progress[t] = "none" /\ t \notin taskJobs \cup pollJobs
  /\ exec[t].pc = "idle" /\ poll[t].pc = "idle" /\ ~Inserting(t)

(* Between the flush of an UPDATE and its commit, the row of t is locked.
   The first attempt leaves retry_count at 0, so it sends no UPDATE; a later
   one holds the lock for as long as its POST takes.                        *)
Locked(t) ==
  \/ exec[t].pc = "posting" /\ exec[t].n > 1
  \/ exec[t].pc = "settling"
  \/ poll[t].pc = "settling"
  \/ \E c \in Clients : req[c].pc = "cancelling" /\ req[c].task = t

(* The date of the job of t has come.                                       *)
Due(t) == "early" \in Faults \/ ~Inserting(t)

SetStatus(t, s) == rows' = [rows EXCEPT ![t].status = s]

Open_CancelForgotten(t) == rows[t].status \notin {"SUCCESS", "FAILED", "none"}

(* The check every writer makes on the row it has just read: not missing,
   and "status in _TERMINAL" does not hold.                                 *)
Open(t) == rows[t].status \notin Terminal \cup {"none"}

(***************************************************************************)
(* Recurrence: _schedule_next_occurrence                                   *)
(***************************************************************************)

(* The child the settling run of t inserts.  NoTask stands for a one-shot
   task, for a next_run_time that raises, and for the bound: Tasks is spent. *)
NextOccurrences(t) ==
  LET free == {c \in Tasks : Fresh(c)}
  IN  IF ~rows[t].recurring THEN {NoTask}
      ELSE IF free = {} \/ "cron" \in Faults THEN free \cup {NoTask}
      ELSE free

FollowUps_AnyVerdict(t, v) == NextOccurrences(t)

(* Only a SUCCESS has one.                                                  *)
FollowUps(t, v) == IF v = "SUCCESS" THEN NextOccurrences(t) ELSE {NoTask}

(* register_task_job(child): a failure is logged and the child stays.       *)
RegisterChild(c) ==
  \/ taskJobs' = taskJobs \cup ({c} \ {NoTask})
  \/ "jobstore" \in Faults /\ c # NoTask /\ UNCHANGED taskJobs

ChildRow_DefaultCap(t) == Task(3, rows[t].recurring, t)

ChildRow(t) == Task(rows[t].max_retries, rows[t].recurring, t)

CommitVerdict_ChildNotAdded(t, v, c) ==
  /\ SetStatus(t, v)
  /\ progress' = [progress EXCEPT ![t] = v]

(* One transaction: the verdict v on t and its child c, if there is one.    *)
CommitVerdict(t, v, c) ==
  /\ rows' = [u \in Tasks |-> IF u = t THEN [rows[t] EXCEPT !.status = v]
                              ELSE IF u = c THEN ChildRow(t) ELSE rows[u]]
  /\ progress' = [u \in Tasks |-> IF u = t THEN v
                                  ELSE IF u = c THEN "PENDING" ELSE progress[u]]

(***************************************************************************)
(* API requests: TaskService in the transaction of get_db                  *)
(***************************************************************************)

(* create: flush the row, register the job.  A registration that fails
   raises, and the request leaves nothing behind.                           *)
CreateFlush(c, t, m, rec) ==
  /\ req[c].pc = "idle"
  /\ Fresh(t)
  /\ req' = [req EXCEPT ![c] = [pc |-> "creating", task |-> t,
                                row |-> Task(m, rec, NoTask)]]
  /\ taskJobs' = taskJobs \cup {t}
  /\ UNCHANGED <<rows, pollJobs, exec, poll, calls, audit, progress>>

CreateCommit(c) ==
  /\ req[c].pc = "creating"
  /\ rows' = [rows EXCEPT ![req[c].task] = req[c].row]
  /\ progress' = [progress EXCEPT ![req[c].task] = "PENDING"]
  /\ req' = [req EXCEPT ![c] = IdleReq]
  /\ UNCHANGED <<taskJobs, pollJobs, exec, poll, calls, audit>>

(* cancel looks at the row; a missing or a terminal one ends the request.   *)
CancelRead(c, t) ==
  /\ req[c].pc = "idle"
  /\ Open(t)
  /\ req' = [req EXCEPT ![c] = [IdleReq EXCEPT !.pc = "cancelRead", !.task = t]]
  /\ UNCHANGED <<rows, taskJobs, pollJobs, exec, poll, calls, audit, progress>>

(* Then it flushes CANCELLED and removes the jobs, logging what fails.      *)
CancelFlush(c) ==
  LET t == req[c].task
  IN  /\ req[c].pc = "cancelRead"
      /\ ~Locked(t)
      /\ \/ taskJobs' = taskJobs \ {t} /\ pollJobs' = pollJobs \ {t}
         \/ "jobstore" \in Faults /\ taskJobs' = taskJobs \ {t} /\ UNCHANGED pollJobs
         \/ "jobstore" \in Faults /\ UNCHANGED <<taskJobs, pollJobs>>
      /\ req' = [req EXCEPT ![c].pc = "cancelling"]
      /\ UNCHANGED <<rows, exec, poll, calls, audit, progress>>

CancelCommit(c) ==
  /\ req[c].pc = "cancelling"
  /\ SetStatus(req[c].task, "CANCELLED")
  /\ req' = [req EXCEPT ![c] = IdleReq]
  /\ UNCHANGED <<taskJobs, pollJobs, exec, poll, calls, audit, progress>>

(* The session rolls back.  What was done to the job store stays done.      *)
RequestError(c) ==
  /\ "db" \in Faults
  /\ req[c].pc # "idle"
  /\ req' = [req EXCEPT ![c] = IdleReq]
  /\ UNCHANGED <<rows, taskJobs, pollJobs, exec, poll, calls, audit, progress>>

(***************************************************************************)
(* APScheduler: a due date job leaves the store as its coroutine starts    *)
(***************************************************************************)

FireTaskJob_Interval(t) ==
  /\ t \in taskJobs
  /\ Due(t)
  /\ exec[t].pc = "idle"
  /\ exec' = [exec EXCEPT ![t].pc = "mark"]
  /\ UNCHANGED <<rows, taskJobs, pollJobs, poll, req, calls, audit, progress>>

FireTaskJob(t) ==
  /\ t \in taskJobs
  /\ Due(t)
  /\ exec[t].pc = "idle"
  /\ taskJobs' = taskJobs \ {t}
  /\ exec' = [exec EXCEPT ![t].pc = "mark"]
  /\ UNCHANGED <<rows, pollJobs, poll, req, calls, audit, progress>>

FirePollJob_Interval(t) ==
  /\ t \in pollJobs
  /\ poll[t].pc = "idle"
  /\ poll' = [poll EXCEPT ![t] = [@ EXCEPT !.pc = "poll", !.n = 1]]
  /\ UNCHANGED <<rows, taskJobs, pollJobs, exec, req, calls, audit, progress>>

FirePollJob(t) ==
  /\ t \in pollJobs
  /\ "early" \in Faults \/ exec[t].pc # "settling"
  /\ poll[t].pc = "idle"
  /\ pollJobs' = pollJobs \ {t}
  /\ poll' = [poll EXCEPT ![t] = [@ EXCEPT !.pc = "poll", !.n = 1]]
  /\ UNCHANGED <<rows, taskJobs, exec, req, calls, audit, progress>>

(* Past its grace time a job is dropped with a log line.                    *)
Misfire(t) ==
  /\ "misfire" \in Faults
  /\ t \in taskJobs \cup pollJobs
  /\ \/ taskJobs' = taskJobs \ {t} /\ UNCHANGED pollJobs
     \/ pollJobs' = pollJobs \ {t} /\ UNCHANGED taskJobs
  /\ UNCHANGED <<rows, exec, poll, req, calls, audit, progress>>

(***************************************************************************)
(* execute_task                                                            *)
(***************************************************************************)

(* _mark_running looks at the row.  max_retries = 0 comes back as "do not
   run" only after the status was written, in MarkWrite.                    *)
MarkRead(t) ==
  /\ exec[t].pc = "mark"
  /\ exec' = [exec EXCEPT ![t] =
                IF Open(t) THEN [@ EXCEPT !.pc = "marking"] ELSE IdleExec]
  /\ UNCHANGED <<rows, taskJobs, pollJobs, poll, req, calls, audit, progress>>

MarkWrite(t) ==
  /\ exec[t].pc = "marking"
  /\ ~Locked(t)
  /\ SetStatus(t, "RUNNING")
  /\ progress' = [progress EXCEPT ![t] = "RUNNING"]
  /\ exec' = [exec EXCEPT ![t] =
                IF rows[t].max_retries = 0 THEN IdleExec
                ELSE [@ EXCEPT !.pc = "attempt", !.n = 1]]
  /\ UNCHANGED <<taskJobs, pollJobs, poll, req, calls, audit>>

(* _execute_one_attempt up to its POST.  It does not look at the status.    *)
AttemptPost(t) ==
  /\ exec[t].pc = "attempt"
  /\ exec[t].n > 1 => ~Locked(t)
  /\ calls' = [calls EXCEPT ![t].EXECUTE = @ + 1]
  /\ exec' = [exec EXCEPT ![t].pc = "posting"]
  /\ UNCHANGED <<rows, taskJobs, pollJobs, poll, req, audit, progress>>

AttemptReturn_RetryRolledBack(t, r) ==
  /\ exec[t].pc = "posting"
  /\ IF r = "retry"
     THEN /\ exec' = [exec EXCEPT ![t] =
               IF StopAfterAttempt(exec[t].n, rows[t].max_retries)
               THEN [@ EXCEPT !.pc = "giveup"]
               ELSE [@ EXCEPT !.pc = "attempt", !.n = exec[t].n + 1]]
          /\ UNCHANGED <<rows, audit>>
     ELSE /\ rows' = [rows EXCEPT ![t].retry_count = exec[t].n - 1]
          /\ audit' = [audit EXCEPT ![t].EXECUTE = @ + 1]
          /\ exec' = [exec EXCEPT ![t] = [@ EXCEPT !.pc = "apply", !.resp = r]]
  /\ UNCHANGED <<taskJobs, pollJobs, poll, req, calls, progress>>

(* The rest of it, and what tenacity makes of the answer r.  The audit row
   is committed before a retry signal goes up (_run_in_session_attempt).    *)
AttemptReturn(t, r) ==
  /\ exec[t].pc = "posting"
  /\ rows' = [rows EXCEPT ![t].retry_count = exec[t].n - 1]
  /\ audit' = [audit EXCEPT ![t].EXECUTE = @ + 1]
  /\ exec' = [exec EXCEPT ![t] =
       IF r # "retry" THEN [@ EXCEPT !.pc = "apply", !.resp = r]
       ELSE IF StopAfterAttempt(exec[t].n, rows[t].max_retries)
            THEN [@ EXCEPT !.pc = "giveup"]
            ELSE [@ EXCEPT !.pc = "attempt", !.n = exec[t].n + 1]]
  /\ UNCHANGED <<taskJobs, pollJobs, poll, req, calls, progress>>

(* The verdict an answer other than "accepted" stands for.                  *)
Verdict(r) == IF r = "ok" THEN "SUCCESS" ELSE "FAILED"

RegisterPoll_Forgotten(t) == UNCHANGED pollJobs

(* _register_poll_job_safe: a failure is logged and the task stays RUNNING. *)
RegisterPoll(t) ==
  \/ pollJobs' = pollJobs \cup {t}
  \/ "jobstore" \in Faults /\ UNCHANGED pollJobs

(* _apply_execute_result looks at the row, ...                              *)
ApplyRead(t) ==
  /\ exec[t].pc = "apply"
  /\ exec' = [exec EXCEPT ![t] = IF Open(t) THEN [@ EXCEPT !.pc = "applying"]
                                 ELSE IdleExec]
  /\ UNCHANGED <<rows, taskJobs, pollJobs, poll, req, calls, audit, progress>>

(* ... flushes what it makes of the answer and registers the next job, ...  *)
ApplyFlush(t) ==
  /\ exec[t].pc = "applying"
  /\ ~Locked(t)
  /\ \E c \in FollowUps(t, Verdict(exec[t].resp)) :
       /\ exec' = [exec EXCEPT ![t] = [@ EXCEPT !.pc = "settling", !.child = c]]
       /\ RegisterChild(c)
  /\ IF exec[t].resp = "accepted" THEN RegisterPoll(t) ELSE UNCHANGED pollJobs
  /\ UNCHANGED <<rows, poll, req, calls, audit, progress>>

(* ... and commits.  After a 202 the status column is unchanged, so only
   check_url is written.                                                    *)
ApplyCommit(t) ==
  /\ exec[t].pc = "settling"
  /\ IF exec[t].resp = "accepted"
     THEN rows' = [rows EXCEPT ![t].check_url = TRUE] /\ UNCHANGED progress
     ELSE CommitVerdict(t, Verdict(exec[t].resp), exec[t].child)
  /\ exec' = [exec EXCEPT ![t] = IdleExec]
  /\ UNCHANGED <<taskJobs, pollJobs, poll, req, calls, audit>>

(* Retries exhausted: _set_status(FAILED), again a read and then a write.   *)
GiveUpRead(t) ==
  /\ exec[t].pc = "giveup"
  /\ exec' = [exec EXCEPT ![t] = IF Open(t) THEN [@ EXCEPT !.pc = "failing"]
                                 ELSE IdleExec]
  /\ UNCHANGED <<rows, taskJobs, pollJobs, poll, req, calls, audit, progress>>

GiveUpWrite(t) ==
  /\ exec[t].pc = "failing"
  /\ ~Locked(t)
  /\ CommitVerdict(t, "FAILED", NoTask)
  /\ exec' = [exec EXCEPT ![t] = IdleExec]
  /\ UNCHANGED <<taskJobs, pollJobs, poll, req, calls, audit>>

(* A database call raises: the session rolls back and the coroutine ends in
   APScheduler's error log.                                                 *)
ExecError(t) ==
  /\ "db" \in Faults
  /\ exec[t].pc # "idle"
  /\ exec' = [exec EXCEPT ![t] = IdleExec]
  /\ UNCHANGED <<rows, taskJobs, pollJobs, poll, req, calls, audit, progress>>

(***************************************************************************)
(* poll_task                                                               *)
(***************************************************************************)

(* _poll_once up to its GET: "skipped" ends poll_task.                      *)
PollGet(t) ==
  /\ poll[t].pc = "poll"
  /\ IF Open(t) /\ rows[t].check_url
     THEN /\ poll' = [poll EXCEPT ![t].pc = "getting"]
          /\ calls' = [calls EXCEPT ![t].POLL = @ + 1]
     ELSE poll' = [poll EXCEPT ![t] = IdlePoll] /\ UNCHANGED calls
  /\ UNCHANGED <<rows, taskJobs, pollJobs, exec, req, audit, progress>>

PollPending_CapNotCaught(t) ==
  /\ poll[t].pc = "getting"
  /\ audit' = [audit EXCEPT ![t].POLL = @ + 1]
  /\ poll' = [poll EXCEPT ![t] =
                IF StopAfterAttempt(poll[t].n, PollMaxAttempts) THEN IdlePoll
                ELSE [@ EXCEPT !.pc = "poll", !.n = poll[t].n + 1]]
  /\ UNCHANGED <<rows, taskJobs, pollJobs, exec, req, calls, progress>>

(* No terminal answer: the audit row is committed and tenacity decides.     *)
PollPending(t) ==
  /\ poll[t].pc = "getting"
  /\ audit' = [audit EXCEPT ![t].POLL = @ + 1]
  /\ poll' = [poll EXCEPT ![t] =
                IF StopAfterAttempt(poll[t].n, PollMaxAttempts)
                THEN [@ EXCEPT !.pc = "giveup"]
                ELSE [@ EXCEPT !.pc = "poll", !.n = poll[t].n + 1]]
  /\ UNCHANGED <<rows, taskJobs, pollJobs, exec, req, calls, progress>>

(* The executor reports v.  The status that _poll_once read before the GET
   is not read again.                                                       *)
PollAnswer(t, v) ==
  /\ poll[t].pc = "getting"
  /\ ~Locked(t)
  /\ \E c \in FollowUps(t, v) :
       /\ poll' = [poll EXCEPT ![t] =
                     [@ EXCEPT !.pc = "settling", !.verdict = v, !.child = c]]
       /\ RegisterChild(c)
  /\ UNCHANGED <<rows, pollJobs, exec, req, calls, audit, progress>>

PollCommit_NotRecorded(t) ==
  /\ poll[t].pc = "settling"
  /\ CommitVerdict(t, poll[t].verdict, poll[t].child)
  /\ poll' = [poll EXCEPT ![t] = IdlePoll]
  /\ UNCHANGED <<taskJobs, pollJobs, exec, req, calls, audit>>

PollCommit(t) ==
  /\ poll[t].pc = "settling"
  /\ CommitVerdict(t, poll[t].verdict, poll[t].child)
  /\ audit' = [audit EXCEPT ![t].POLL = @ + 1]
  /\ poll' = [poll EXCEPT ![t] = IdlePoll]
  /\ UNCHANGED <<taskJobs, pollJobs, exec, req, calls>>

(* The poll cap: _set_status(FAILED).                                       *)
PollGiveUpRead(t) ==
  /\ poll[t].pc = "giveup"
  /\ poll' = [poll EXCEPT ![t] = IF Open(t) THEN [@ EXCEPT !.pc = "failing"]
                                 ELSE IdlePoll]
  /\ UNCHANGED <<rows, taskJobs, pollJobs, exec, req, calls, audit, progress>>

PollGiveUpWrite(t) ==
  /\ poll[t].pc = "failing"
  /\ ~Locked(t)
  /\ CommitVerdict(t, "FAILED", NoTask)
  /\ poll' = [poll EXCEPT ![t] = IdlePoll]
  /\ UNCHANGED <<taskJobs, pollJobs, exec, req, calls, audit>>

PollError(t) ==
  /\ "db" \in Faults
  /\ poll[t].pc # "idle"
  /\ poll' = [poll EXCEPT ![t] = IdlePoll]
  /\ UNCHANGED <<rows, taskJobs, pollJobs, exec, req, calls, audit, progress>>

(***************************************************************************)
(* The process stops and comes back: start() resumes the jobs, nothing     *)
(* looks for rows whose coroutine is gone.                                 *)
(***************************************************************************)
Crash ==
  /\ "crash" \in Faults
  /\ exec' = [t \in Tasks |-> IdleExec]
  /\ poll' = [t \in Tasks |-> IdlePoll]
  /\ req'  = [c \in Clients |-> IdleReq]
  /\ UNCHANGED <<rows, taskJobs, pollJobs, calls, audit, progress>>

(***************************************************************************)
(* Specification                                                           *)
(***************************************************************************)

ExecStep(t) ==
  \/ MarkRead(t) \/ MarkWrite(t)
  \/ AttemptPost(t) \/ \E r \in Responses : AttemptReturn(t, r)
  \/ ApplyRead(t) \/ ApplyFlush(t) \/ ApplyCommit(t)
  \/ GiveUpRead(t) \/ GiveUpWrite(t)

PollStep(t) ==
  \/ PollGet(t) \/ PollPending(t)
  \/ \E v \in Verdicts : PollAnswer(t, v)
  \/ PollCommit(t)
  \/ PollGiveUpRead(t) \/ PollGiveUpWrite(t)

Arrive(c) ==
  \E t \in Tasks :
    \/ \E m \in RetryCaps, rec \in BOOLEAN : CreateFlush(c, t, m, rec)
    \/ CancelRead(c, t)

ReqStep(c) == CreateCommit(c) \/ CancelFlush(c) \/ CancelCommit(c)

Next ==
  \/ \E c \in Clients : Arrive(c) \/ ReqStep(c) \/ RequestError(c)
  \/ \E t \in Tasks :
       \/ FireTaskJob(t) \/ FirePollJob(t) \/ Misfire(t)
       \/ ExecStep(t) \/ ExecError(t)
       \/ PollStep(t) \/ PollError(t)
  \/ Crash

Spec == Init /\ [][Next]_vars

(* The event loop gets round to every coroutine and every request, the
   clock to every job; HTTP calls return because the client has a timeout,
   row locks are released because their holders are themselves scheduled.
   Nothing makes a client send a request or a fault happen.                 *)
Fairness ==
  /\ \A t \in Tasks : /\ WF_vars(FireTaskJob(t)) /\ WF_vars(FirePollJob(t))
                      /\ WF_vars(ExecStep(t)) /\ WF_vars(PollStep(t))
  /\ \A c \in Clients : WF_vars(ReqStep(c))

FairSpec == Spec /\ Fairness
===============================================================================
