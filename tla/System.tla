-------------------------------- MODULE System --------------------------------
(***************************************************************************)
(* Scheduler and executor together: every webhook call of TaskEngine is a  *)
(* request to Executor, every answer the engine acts on is one the         *)
(* executor gave, and check_url is the execution of the accepted call.     *)
(* NetFaults:                                                              *)
(*   "lost"     a request does not reach the executor;                     *)
(*   "timeout"  the scheduler's HTTP client stops waiting for an answer.   *)
(***************************************************************************)
EXTENDS TaskEngineProps, Executor

CONSTANTS NoExec, NetFaults

ASSUME NoExecAssumption == NoExec \notin Execs

VARIABLES
  hook,     \* the webhook of the tasks; a child inherits its parent's
  serves,   \* the task an execution was requested for
  current,  \* the execution of a task's last call: the one check_url names
  view,     \* what a GET of check_url in flight has read
  dropped   \* history: executions whose answer the scheduler did not wait for

links == <<hook, serves, current, dropped>>
svars == <<vars, evars, links, view>>

SInit ==
  /\ Init /\ EInit
  /\ hook \in Names
  /\ serves  = [e \in Execs |-> NoTask]
  /\ current = [t \in Tasks |-> NoExec]
  /\ view    = [t \in Tasks |-> "none"]
  /\ dropped = {}

(* A GET that is no longer in flight has no view.                           *)
KeepViews ==
  view' = [t \in Tasks |-> IF poll'[t].pc = "getting" THEN view[t] ELSE "none"]

(* AttemptPost: the request arrives, or it does not.                        *)
Post(t) ==
  /\ AttemptPost(t)
  /\ \/ \E e \in Execs : /\ Invoke(e, hook)
                         /\ serves' = [serves EXCEPT ![e] = t]
                         /\ current' = [current EXCEPT ![t] = e]
     \/ /\ "lost" \in NetFaults
        /\ current' = [current EXCEPT ![t] = NoExec]
        /\ UNCHANGED <<evars, serves>>
  /\ UNCHANGED <<hook, dropped>> /\ KeepViews

(* Slips in reading an answer: any status line taken for success; a 202 left to
   the retry loop; check_url looked up under a key the executor does not send. *)
Reading_StatusIgnored(e) == CASE answer[e] = "202"  -> "accepted"
                              [] answer[e] = "none" -> "retry"
                              [] OTHER              -> "ok"

Reading_202Retried(e) == IF answer[e] = "200" THEN "ok" ELSE "retry"

Reading_WrongKey(e) == CASE answer[e] = "200" -> "ok"
                         [] answer[e] = "202" -> "nourl"
                         [] OTHER             -> "retry"

(* What the scheduler reads in the executor's answer.  A handler that died
   without an answer is a broken connection.                                *)
Reading(e) == IF answer[e] = "200" THEN "ok"
              ELSE IF answer[e] = "202" THEN "accepted"
              ELSE IF answer[e] = "404" THEN "reject" ELSE "retry"

(* The executor has answered the call in flight, or its connection is gone. *)
Answered(t) == current[t] # NoExec /\ handler[current[t]] \in {"responded", "done"}

Return_HangsUnheard(t) ==
  /\ \/ /\ Answered(t)
        /\ AttemptReturn(t, Reading(current[t]))
        /\ UNCHANGED dropped
     \/ /\ "timeout" \in NetFaults /\ current[t] # NoExec
        /\ AttemptReturn(t, "retry")
        /\ dropped' = dropped \cup {current[t]}
  /\ UNCHANGED <<evars, hook, serves, current>> /\ KeepViews

Return(t) ==
  /\ \/ /\ Answered(t)
        /\ AttemptReturn(t, Reading(current[t]))
        /\ UNCHANGED dropped
     \/ /\ current[t] = NoExec
        /\ AttemptReturn(t, "retry")
        /\ UNCHANGED dropped
     \/ /\ "timeout" \in NetFaults /\ current[t] # NoExec
        /\ AttemptReturn(t, "retry")
        /\ dropped' = dropped \cup {current[t]}
  /\ UNCHANGED <<evars, hook, serves, current>> /\ KeepViews

(* GET /status/{id}: 404 while there is no row.                             *)
ReadStatus(t) ==
  /\ poll[t].pc = "getting" /\ view[t] = "none"
  /\ view' = [view EXCEPT ![t] = IF db[current[t]] = "none" THEN "missing"
                                 ELSE db[current[t]]]
  /\ UNCHANGED <<vars, evars, links>>

(* _poll_once makes of it what it says; a 404, a 5xx or no answer is one more
   round.                                                                   *)
PollReturn(t) ==
  /\ \/ \E v \in Verdicts : view[t] = v /\ PollAnswer(t, v)
     \/ view[t] \notin Finished \cup {"none"} /\ PollPending(t)
     \/ "timeout" \in NetFaults /\ PollPending(t)
  /\ UNCHANGED <<evars, links>> /\ KeepViews

(* The steps of the engine that do not talk to the executor.                *)
EngineStep(t) ==
  \/ MarkRead(t) \/ MarkWrite(t)
  \/ ApplyRead(t) \/ ApplyFlush(t) \/ ApplyCommit(t)
  \/ GiveUpRead(t) \/ GiveUpWrite(t)
  \/ PollGet(t) \/ PollCommit(t) \/ PollGiveUpRead(t) \/ PollGiveUpWrite(t)
  \/ FireTaskJob(t) \/ FirePollJob(t)

Engine ==
  /\ \/ \E c \in Clients : Arrive(c) \/ ReqStep(c) \/ RequestError(c)
     \/ \E t \in Tasks : EngineStep(t) \/ ExecError(t) \/ PollError(t) \/ Misfire(t)
     \/ Crash
  /\ UNCHANGED <<evars, links>> /\ KeepViews

ExecutorAlone ==
  /\ \/ \E e \in Execs : EStep(e) \/ EFault(e)
     \/ ExecutorCrash
  /\ UNCHANGED <<vars, links, view>>

SNext ==
  \/ \E t \in Tasks : Post(t) \/ Return(t) \/ ReadStatus(t) \/ PollReturn(t)
  \/ Engine
  \/ ExecutorAlone

SSpec == SInit /\ [][SNext]_svars

(* A step of the system in which t does not give up on a call.              *)
Served(t) == /\ SNext
             /\ UNCHANGED dropped
             /\ poll[t].pc = "getting" => view[t] # "none"

(* What TaskEngine assumes of its scheduling, as steps of the system, and what
   Executor assumes of its own.  That HTTP calls return is no longer assumed, and
   no time-out has to make them: a coroutine that waits for an answer moves when
   the executor has given one, or its connection is gone.                   *)
SFairness ==
  /\ \A t \in Tasks : /\ WF_svars(FireTaskJob(t) /\ Engine)
                      /\ WF_svars(FirePollJob(t) /\ Engine)
                      /\ WF_svars(ExecStep(t) /\ Served(t))
                      /\ WF_svars(PollStep(t) /\ Served(t))
                      /\ WF_svars(ReadStatus(t))
  /\ \A c \in Clients : WF_svars(ReqStep(c) /\ Engine)
  /\ \A e \in Execs : /\ WF_svars(SyncWork(e) /\ ExecutorAlone)
                      /\ WF_svars(SyncReply(e) /\ ExecutorAlone)
                      /\ WF_svars(RequestCommit(e) /\ ExecutorAlone)
                      /\ SF_svars(WorkerAcquire(e) /\ ExecutorAlone)
                      /\ WF_svars(WorkerWork(e) /\ ExecutorAlone)
                      /\ WF_svars(WorkerRead(e) /\ ExecutorAlone)
                      /\ WF_svars(WorkerWrite(e) /\ ExecutorAlone)

SFairSpec == SSpec /\ SFairness

(***************************************************************************)
(* Properties                                                              *)
(***************************************************************************)

(* The scheduler cannot know how the call of e ended: it stopped waiting, or a
   failure of the executor took the answer away.                            *)
Unheard(e) == e \in dropped \/ (e \in hit /\ answer[e] \notin {"200", "202"})

(* e took effect, or will: its work is done, or its caller holds a promise.   *)
TookEffect(e) == e \in done \/ answer[e] \in {"200", "202"}

(* The system is a TaskEngine that is scheduled fairly: every step keeps to the
   engine's, and what its fairness took for granted, that every webhook call and
   every poll returns, holds with the real executor behind it, one that answers
   404, fails, restarts or is never reached included.                        *)
ImplementsEngine == FairSpec

(* SUCCESS is never reported for work that was not done: a task the scheduler
   settled as SUCCESS has an execution of its own that did its work, through lost
   requests, given-up waits and restarts of either service.                  *)
SuccessMeansDone ==
  \A t \in Tasks :
    progress[t] = "SUCCESS" => \E e \in Execs : serves[e] = t /\ e \in done

(* Work is done twice for a task only when the scheduler could not know: it stopped
   waiting for a call, or the executor stopped, or lost its database, between the
   work of a sync call and its answer.  Then delivery is at least once; lost
   requests, refusals, lost commits and crashes of the scheduler never make it so. *)
EffectAtMostOnce ==
  \A t \in Tasks :
    Cardinality({e \in Execs : serves[e] = t /\ TookEffect(e) /\ ~Unheard(e)}) <= 1

(* FAILED is never reported for work that was done, but for calls whose end the
   scheduler could not know, and for an execution it stopped polling at the cap. *)
FailedMeansNotDone ==
  \A t \in Tasks :
    progress[t] = "FAILED" /\ calls[t].POLL < PollMaxAttempts =>
      \A e \in done : serves[e] = t => Unheard(e)

(* The executor never begins more executions for a task than max_retries allows:
   a call that is lost, given up or repeated after a crash counts like any other. *)
ExecutionsBounded ==
  \A t \in Tasks :
    Cardinality({e \in Execs : serves[e] = t}) <= AttemptCap(rows[t].max_retries)

(***************************************************************************)
(* The inductive invariant behind these                                    *)
(***************************************************************************)

(* The answer is there, or the connection is gone, and it is no success.    *)
Refused(e) == handler[e] \in {"responded", "done"} /\ answer[e] \notin {"200", "202"}

(* Nothing will come of e any more.                                         *)
Over(e) == Refused(e) \/ (answer[e] = "202" /\ db[e] = "FAILED")

(* Who an execution is for: a task that has been started, and of all its
   executions current is one.                                               *)
LinkInv ==
  /\ hook \in Names
  /\ serves \in [Execs -> Tasks \cup {NoTask}]
  /\ current \in [Tasks -> Execs \cup {NoExec}]
  /\ view \in [Tasks -> ExecutionStatuses \cup {"missing", "none"}]
  /\ \A e \in Execs : endpoint[e] = NoEndpoint => serves[e] = NoTask
  /\ \A t \in Tasks :
       /\ current[t] # NoExec => serves[current[t]] = t
       /\ progress[t] \in {"none", "PENDING"} => \A e \in Execs : serves[e] # t

(* Called(t, a): the call of t that counts was answered with a.             *)
Called(t, a) == current[t] # NoExec /\ answer[current[t]] = a

(* What the scheduler holds in hand is what the executor said and still says. *)
Held(t) ==
  /\ exec[t].pc \in {"apply", "applying", "settling"} =>
       /\ exec[t].resp = "ok" => Called(t, "200")
       /\ exec[t].resp = "accepted" => Called(t, "202")
       /\ exec[t].resp \notin {"ok", "accepted"} /\ current[t] # NoExec => Refused(current[t])
  /\ rows[t].check_url => Called(t, "202")
  /\ poll[t].pc \in {"getting", "settling"} => rows[t].check_url
  /\ view[t] \in Finished => poll[t].pc = "getting" /\ db[current[t]] = view[t]
  /\ poll[t].pc = "settling" => db[current[t]] = poll[t].verdict
  /\ poll[t].pc \in {"giveup", "failing"} => calls[t].POLL >= PollMaxAttempts

(* Of its calls of t, the scheduler repeats only those that were refused, or
   whose answer it did not wait for.                                        *)
Once(t) ==
  \A e \in Execs \ dropped : serves[e] = t =>
    /\ e = current[t] \/ Refused(e)
    /\ exec[t].pc \in {"attempt", "giveup", "failing"} => Refused(e)

(* t is settled as SUCCESS when a call did its work, and as FAILED when nothing
   will come of any, or at the poll cap.                                    *)
Settled(t) ==
  /\ progress[t] = "SUCCESS" => \E e \in Execs : serves[e] = t /\ e \in done
  /\ progress[t] = "FAILED" /\ calls[t].POLL < PollMaxAttempts =>
       \A e \in Execs \ dropped : serves[e] = t => Over(e)

SInv == LinkInv /\ \A t \in Tasks : Held(t) /\ Once(t) /\ Settled(t)
===============================================================================
