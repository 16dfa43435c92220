---------------------------- MODULE TaskEngineProps ----------------------------
(***************************************************************************)
(* What is checked of TaskEngine: first what holds whatever fails, then    *)
(* what holds as long as nothing fails, then statements of the             *)
(* repository's own documentation that the engine does not keep.           *)
(***************************************************************************)
EXTENDS TaskEngine

RowType ==
  [status : Statuses \cup {"none"}, check_url : BOOLEAN, retry_count : Int,
   max_retries : RetryCaps \cup {0}, recurring : BOOLEAN,
   parent : Tasks \cup {NoTask}]

ExecType == [pc : ExecPcs, n : Nat, resp : Responses, child : Tasks \cup {NoTask}]
PollType == [pc : PollPcs, n : Nat, verdict : Verdicts, child : Tasks \cup {NoTask}]
ReqType  == [pc : ReqPcs, task : Tasks \cup {NoTask}, row : RowType]
CountType == [Tasks -> [EXECUTE : Nat, POLL : Nat]]

(* Every variable has its type; no row holds CREATED, which create overwrites
   before the first flush.                                                   *)
TypeOK ==
  /\ rows \in [Tasks -> RowType]
  /\ taskJobs \subseteq Tasks
  /\ pollJobs \subseteq Tasks
  /\ exec \in [Tasks -> ExecType]
  /\ poll \in [Tasks -> PollType]
  /\ req \in [Clients -> ReqType]
  /\ \A c \in Clients : req[c].pc # "idle" => req[c].task \in Tasks
  /\ calls \in CountType
  /\ audit \in CountType
  /\ progress \in [Tasks -> Statuses \cup {"none"}]

(***************************************************************************)
(* Whatever fails                                                          *)
(***************************************************************************)

(* The 202 hand-over: execute_task has registered the poll job and has yet to
   commit check_url.                                                         *)
HandingOver(t) == exec[t].pc = "settling" /\ exec[t].resp = "accepted"

(* A task has one driver: of its execute job, its execute_task coroutine, its
   poll job and its poll_task coroutine at most one exists, except that the
   poll job is registered just before execute_task commits check_url; and a
   poll_task that starts that early gets no further than its first look at the
   row.  Nothing in the rows enforces this, the code relies on when each job
   is registered and dropped.                                                *)
SingleDriver ==
  \A t \in Tasks :
    /\ t \in taskJobs => exec[t].pc = "idle"
    /\ t \in taskJobs \/ exec[t].pc \notin {"idle", "settling"}
         => t \notin pollJobs /\ poll[t].pc = "idle"
    /\ exec[t].pc = "settling" /\ ~HandingOver(t)
         => t \notin pollJobs /\ poll[t].pc = "idle"
    /\ HandingOver(t) => poll[t].pc \in {"idle", "poll"}
    /\ t \in pollJobs => poll[t].pc = "idle"

(* A run schedules at most one follow-up, and only the SUCCESS of its parent
   does: recurrence never forks and a FAILED run ends it, whatever the order of
   polls, cancels, crashes and failed commits.                               *)
FollowUpsSound ==
  \A c, d \in Tasks :
    LET p == rows[c].parent
    IN  p # NoTask => /\ progress[p] = "SUCCESS"
                      /\ rows[d].parent = p => d = c

(* max_retries is the cap on ALL webhook calls of a task, over retries, crashes
   and restarts, and poll_max_attempts the cap on all its polls.             *)
AttemptsBounded ==
  \A t \in Tasks : /\ calls[t].EXECUTE <= AttemptCap(rows[t].max_retries)
                   /\ calls[t].POLL <= PollMaxAttempts

(* retry_count says how many of the recorded attempts were retries, although
   cancel, execute_task and poll_task write the same row in between.         *)
RetryCountMatches(t) ==
  rows[t].retry_count = IF audit[t].EXECUTE = 0 THEN 0 ELSE audit[t].EXECUTE - 1

RetryCountMatchesAudit == \A t \in Tasks : RetryCountMatches(t)

(* A task the scheduler has settled as SUCCESS has the evidence on record: an
   EXECUTE attempt, and a POLL attempt if the webhook was asynchronous.      *)
SuccessAudited(t) ==
  progress[t] = "SUCCESS" => /\ audit[t].EXECUTE >= 1
                             /\ rows[t].check_url => audit[t].POLL >= 1

SuccessIsAudited == \A t \in Tasks : SuccessAudited(t)

(* t is terminal and no coroutine is between its look at the row and the write
   or call that follows from it.                                             *)
Closed(t) == /\ rows[t].status \in Terminal
             /\ exec[t].pc \in {"idle", "mark", "apply", "giveup"}
             /\ poll[t].pc \in {"idle", "poll", "giveup"}

(* "An execution that finds the task already terminal short-circuits": no job
   left over from a cancel, no coroutine and no request starts such a task
   again, calls its webhook or its check_url, or takes its status out of the
   terminal ones.  A CANCELLED one stays CANCELLED.                          *)
KeepsClosed(t) == Closed(t) => /\ Closed(t)'
                               /\ UNCHANGED <<calls[t], progress[t]>>
                               /\ rows'[t].status \in {rows[t].status, "CANCELLED"}

ClosedStaysClosed == [][\A t \in Tasks : KeepsClosed(t)]_vars

(* Every status the scheduler itself commits follows the one it committed before
   along an edge of transitions.py, which none of its writers consults and the
   row no longer shows once a cancel has overwritten it.  (cancel's own write,
   from RUNNING too, is not in the table.)                                   *)
ProgressEdge(t) ==
  progress[t] # "none" /\ progress'[t] # progress[t]
    => CanTransition(progress[t], progress'[t])

ProgressFollowsTable == [][\A t \in Tasks : ProgressEdge(t)]_vars

(* The engine implements the life cycle it promises.                         *)
Lifecycle == INSTANCE TaskLifecycle WITH
  status <- [t \in Tasks |-> rows[t].status],
  parent <- [t \in Tasks |-> rows[t].parent],
  cap    <- [t \in Tasks |-> rows[t].max_retries],
  posts  <- [t \in Tasks |-> calls[t].EXECUTE]

ImplementsLifecycle == Lifecycle!LSpec

(***************************************************************************)
(* The inductive invariant behind these                                    *)
(***************************************************************************)

(* What a reader of the row sees is the scheduler's progress, or a cancel.  *)
StatusInv ==
  \A t \in Tasks :
    /\ progress[t] # "CANCELLED"
    /\ progress[t] = "none" => rows[t].status = "none" /\ rows[t].parent = NoTask
    /\ progress[t] # "none" => rows[t].status \in {progress[t], "CANCELLED"}
    /\ progress[t] \in {"none", "PENDING"} => ~rows[t].check_url

(* execute_task before and after it has marked the task.                    *)
Marking(t) == exec[t].pc \in {"mark", "marking"}
Running(t) == exec[t].pc \notin {"idle", "mark", "marking"}

(* Which driver a task has follows from how far it has come.                *)
DriverInv ==
  \A t \in Tasks :
    /\ t \in taskJobs => exec[t].pc = "idle"
    /\ t \in taskJobs \/ Marking(t) => progress[t] \in {"none", "PENDING"}
    /\ exec[t].pc = "marking" => progress[t] = "PENDING"
    /\ Running(t) => progress[t] = "RUNNING" /\ ~rows[t].check_url
    /\ Running(t) /\ ~HandingOver(t) => t \notin pollJobs /\ poll[t].pc = "idle"
    /\ HandingOver(t) => poll[t].pc \in {"idle", "poll"}
    /\ t \in pollJobs => poll[t].pc = "idle" /\ progress[t] = "RUNNING"
    /\ poll[t].pc # "idle" => progress[t] = "RUNNING"

(* The id an open transaction inserts has no row yet and is its own.        *)
InsertInv ==
  /\ \A c \in Clients :
       /\ req[c].pc = "creating" =>
            /\ progress[req[c].task] = "none"
            /\ req[c].row.status = "PENDING" /\ req[c].row.parent = NoTask
            /\ ~req[c].row.check_url /\ req[c].row.retry_count = 0
            /\ req[c].row.max_retries \in RetryCaps
            /\ \A d \in Clients :
                 req[d].pc = "creating" /\ req[d].task = req[c].task => d = c
            /\ \A p \in Tasks : req[c].task \notin {exec[p].child, poll[p].child}
       /\ req[c].pc \in {"cancelRead", "cancelling"} => progress[req[c].task] # "none"
  /\ \A p \in Tasks :
       /\ exec[p].child # NoTask => /\ progress[exec[p].child] = "none"
                                    /\ exec[p].pc = "settling" /\ exec[p].resp = "ok"
       /\ poll[p].child # NoTask => /\ progress[poll[p].child] = "none"
                                    /\ poll[p].pc = "settling" /\ poll[p].verdict = "SUCCESS"
       /\ \A q \in Tasks :
            /\ exec[p].child # NoTask /\ exec[p].child = exec[q].child => p = q
            /\ poll[p].child # NoTask /\ poll[p].child = poll[q].child => p = q
            /\ exec[p].child # NoTask => exec[p].child # poll[q].child

(* Where the counters of the two retry loops stand.                         *)
CountInv ==
  \A t \in Tasks :
    /\ calls[t].EXECUTE <= AttemptCap(rows[t].max_retries)
    /\ calls[t].POLL <= PollMaxAttempts
    /\ progress[t] \in {"none", "PENDING"} => calls[t] = [EXECUTE |-> 0, POLL |-> 0]
    /\ exec[t].pc \in {"attempt", "posting"} =>
         exec[t].n \in 1 .. AttemptCap(rows[t].max_retries)
    /\ exec[t].pc = "attempt" => calls[t].EXECUTE = exec[t].n - 1
    /\ exec[t].pc = "posting" => calls[t].EXECUTE = exec[t].n
    /\ Running(t) \/ t \in pollJobs => calls[t].POLL = 0
    /\ poll[t].pc \in {"poll", "getting"} => poll[t].n \in 1 .. PollMaxAttempts
    /\ poll[t].pc = "poll" => calls[t].POLL = poll[t].n - 1
    /\ poll[t].pc = "getting" => calls[t].POLL = poll[t].n

(* The retry loop of t is behind it.                                        *)
PastAttempts(t) == \/ Running(t) /\ exec[t].pc \notin {"attempt", "posting"}
                   \/ t \in pollJobs
                   \/ poll[t].pc # "idle"

(* Where the audit rows stand while the loops run.                          *)
AuditInv ==
  \A t \in Tasks :
    /\ RetryCountMatches(t)
    /\ SuccessAudited(t)
    /\ progress[t] \in {"none", "PENDING"} => audit[t].EXECUTE = 0
    /\ exec[t].pc \in {"attempt", "posting"} => audit[t].EXECUTE = exec[t].n - 1
    /\ PastAttempts(t) => audit[t].EXECUTE >= 1

IInv == /\ TypeOK /\ StatusInv /\ DriverInv /\ InsertInv
        /\ FollowUpsSound /\ CountInv /\ AuditInv

(***************************************************************************)
(* As long as nothing fails (Faults = {}, no max_retries = 0)              *)
(***************************************************************************)

(* Somebody is still going to move t: a job, a coroutine, or a cancel that has
   removed the jobs and is about to commit.                                  *)
Driven(t) == \/ t \in taskJobs \cup pollJobs
             \/ exec[t].pc # "idle" \/ poll[t].pc # "idle"
             \/ \E c \in Clients : req[c].pc = "cancelling" /\ req[c].task = t

(* No interleaving of requests and coroutines leaves an unsettled task that
   nobody drives: there is no sweeper that would find it.                    *)
NothingStranded ==
  \A t \in Tasks : rows[t].status \in {"PENDING", "RUNNING"} => Driven(t)

(* Every call that has returned is on record, and only the one in flight, or
   the poll about to be committed with its verdict, is not.                  *)
AuditComplete ==
  \A t \in Tasks :
    /\ calls[t].EXECUTE = audit[t].EXECUTE + (IF exec[t].pc = "posting" THEN 1 ELSE 0)
    /\ calls[t].POLL = audit[t].POLL + (IF poll[t].pc \in {"getting", "settling"} THEN 1 ELSE 0)

(* A recurring task keeps recurring: its SUCCESS has a follow-up, unless the
   bound leaves no id for one.                                               *)
RecurrenceContinues ==
  \A t \in Tasks :
    progress[t] = "SUCCESS" /\ rows[t].recurring =>
      \/ \E c \in Tasks : rows[c].parent = t
      \/ \A c \in Tasks : rows[c].status # "none" \/ ~Fresh(c)

(* Every task that is created gets to a terminal status.                     *)
EventuallySettled ==
  \A t \in Tasks : rows[t].status = "PENDING" ~> rows[t].status \in Terminal

(* Behind NothingStranded: the job of an insert waits for its commit, the poll
   job of a hand-over for check_url, and a poll_task finds check_url set.    *)
DrivenInv ==
  \A t \in Tasks :
    /\ rows[t].status \in {"PENDING", "RUNNING"} => Driven(t)
    /\ progress[t] # "none" => rows[t].max_retries # 0
    /\ Inserting(t) => t \in taskJobs
    /\ HandingOver(t) => t \in pollJobs
    /\ t \in pollJobs => HandingOver(t) \/ rows[t].check_url
    /\ poll[t].pc # "idle" => rows[t].check_url

(* The SUCCESS of t is about to be committed without a follow-up.            *)
Concluding(t) ==
  \/ exec[t].pc = "settling" /\ exec[t].resp = "ok" /\ exec[t].child = NoTask
  \/ poll[t].pc = "settling" /\ poll[t].verdict = "SUCCESS" /\ poll[t].child = NoTask

(* Behind RecurrenceContinues: without a crash or a database error an insert
   that has begun will be committed, so an id that is taken stays taken; a run
   that concludes without a follow-up has found none free.                   *)
ContinuesInv ==
  \A t \in Tasks :
    /\ progress[t] = "none" => Fresh(t) \/ Inserting(t)
    /\ Concluding(t) /\ rows[t].recurring => \A c \in Tasks : ~Fresh(c)
    /\ progress[t] = "SUCCESS" /\ rows[t].recurring =>
         (\E c \in Tasks : rows[c].parent = t) \/ \A c \in Tasks : ~Fresh(c)

(***************************************************************************)
(* What the documentation says and the engine does not do                  *)
(***************************************************************************)

(* README.md:334 "Terminal states are never re-entered": once a row shows a
   terminal status it keeps it.                                              *)
TerminalIsFinal ==
  [][\A t \in Tasks : rows[t].status \in Terminal =>
                        rows'[t].status = rows[t].status]_vars

(* README.md:368 "When the cap is exhausted the task becomes FAILED", whatever
   the cap: a task that runs gets to a terminal status.                      *)
RunningSettles ==
  \A t \in Tasks : rows[t].status = "RUNNING" ~> rows[t].status \in Terminal

(* README.md:323 "persisted and scheduled; an APScheduler job is registered":
   the job is there, or its coroutine has just taken over, or a cancel has
   removed it.                                                               *)
PendingIsScheduled ==
  \A t \in Tasks : rows[t].status = "PENDING" => Driven(t)
===============================================================================
