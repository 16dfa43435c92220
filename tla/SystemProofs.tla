----------------------------- MODULE SystemProofs -----------------------------
(***************************************************************************)
(* With the executor behind it the scheduler is still the engine of        *)
(* TaskEngine: every step of System is a step of the engine or leaves its  *)
(* variables alone.  What is proved of Spec therefore holds of the two     *)
(* services together, for any number of executions, webhooks and tasks.    *)
(***************************************************************************)
EXTENDS System, TaskEngineRefinement, ExecutorProofs

USE NoTaskAssumption, NoExecAssumption

(* An exchange with the executor is the engine's own step, with the answer the
   executor chose for it.                                                   *)
LEMMA ExchangeSteps ==
  ASSUME NEW t \in Tasks
  PROVE  /\ Post(t) => Next
         /\ Return(t) => Next
         /\ ReadStatus(t) => UNCHANGED vars
         /\ PollReturn(t) => Next
<1>1. Post(t) => Next
  BY DEF Post, Next, ExecStep
<1>2. Return(t) => Next
  <2>1. \A e : Reading(e) \in Responses
    BY DEF Reading, Responses
  <2>2. "retry" \in Responses
    BY DEF Responses
  <2> QED
    BY <2>1, <2>2 DEF Return, Next, ExecStep
<1>3. ReadStatus(t) => UNCHANGED vars
  BY DEF ReadStatus
<1>4. PollReturn(t) => Next
  BY DEF PollReturn, Next, PollStep
<1> QED
  BY <1>1, <1>2, <1>3, <1>4

(* Every step of the system is one of the engine, or none.                  *)
LEMMA StepsOfEngine == [SNext]_svars => [Next]_vars
<1> SUFFICES ASSUME [SNext]_svars
             PROVE  [Next]_vars
  OBVIOUS
<1>1. CASE \E t \in Tasks : Post(t) \/ Return(t) \/ ReadStatus(t) \/ PollReturn(t)
  BY <1>1, ExchangeSteps
<1>2. CASE Engine
  <2>1. ASSUME NEW t \in Tasks, EngineStep(t)
        PROVE  Next
    BY <2>1 DEF EngineStep, Next, ExecStep, PollStep
  <2> QED
    BY <1>2, <2>1 DEF Engine, Next
<1>3. CASE ExecutorAlone
  BY <1>3 DEF ExecutorAlone
<1>4. CASE UNCHANGED svars
  BY <1>4 DEF svars
<1> QED
  BY <1>1, <1>2, <1>3, <1>4 DEF SNext

(* The system implements the engine.                                        *)
THEOREM SystemIsAnEngine == SSpec => Spec
<1>1. SInit => Init
  BY DEF SInit
<1>2. [SNext]_svars => [Next]_vars
  BY StepsOfEngine
<1> QED
  BY <1>1, <1>2, PTL DEF SSpec, Spec

(* With the executor behind it, no webhook is called more often than its task's
   cap allows, no task has two drivers and no recurrence forks.             *)
THEOREM SystemKeepsThePromises ==
  SSpec => [](AttemptsBounded /\ SingleDriver /\ FollowUpsSound)
<1>1. SSpec => Spec
  BY SystemIsAnEngine
<1>2. Spec => []AttemptsBounded
  BY AttemptsAreBounded
<1>3. Spec => []SingleDriver
  BY DriverIsUnique
<1>4. Spec => []FollowUpsSound
  BY FollowUpsAreSound
<1> QED
  BY <1>1, <1>2, <1>3, <1>4, PTL

(* The life cycle a client relies on is kept by the two services together.  *)
THEOREM SystemImplementsLifecycle == SSpec => ImplementsLifecycle
  BY SystemIsAnEngine, EngineImplementsLifecycle

(***************************************************************************)
(* What is settled is what was done                                        *)
(***************************************************************************)

(* Every step of the system is one of the executor, or none.                *)
LEMMA StepsOfExecutor == LinkInv /\ [SNext]_svars => [ENext]_evars
<1> SUFFICES ASSUME LinkInv, [SNext]_svars
             PROVE  [ENext]_evars
  OBVIOUS
<1>1. ASSUME NEW t \in Tasks, Post(t)
      PROVE  [ENext]_evars
  BY <1>1 DEF Post, ENext, LinkInv
<1>2. ASSUME NEW t \in Tasks, Return(t) \/ ReadStatus(t) \/ PollReturn(t)
      PROVE  UNCHANGED evars
  BY <1>2 DEF Return, ReadStatus, PollReturn
<1>3. CASE Engine
  BY <1>3 DEF Engine
<1>4. CASE ExecutorAlone
  BY <1>4 DEF ExecutorAlone, ENext
<1>5. CASE UNCHANGED svars
  BY <1>5 DEF svars
<1> QED
  BY <1>1, <1>2, <1>3, <1>4, <1>5 DEF SNext

(* What the executor never takes back of an execution.                      *)
Keeps(e) ==
  /\ endpoint[e] # NoEndpoint => endpoint'[e] = endpoint[e]
  /\ answer[e] \in {"200", "202"} => answer'[e] = answer[e]
  /\ db[e] \in Finished => db'[e] = db[e]
  /\ Refused(e) => Refused(e)'
  /\ Over(e) => Over(e)'
  /\ e \in done => e \in done'

(* Answers and finished rows are for good.                                  *)
LEMMA ExecutorKeeps ==
  ASSUME EInv, [ENext]_evars, NEW e \in Execs
  PROVE  Keeps(e)
<1>1. endpoint[e] # NoEndpoint => endpoint'[e] = endpoint[e]
  BY DEF EInv, ETypeOK, ENext, EStep, EFault, Invoke, InvokeSync, InvokeAsync,
     InvokeUnknown, InvokeFails, SyncWork, SyncReply, RequestCommit, WorkerAcquire,
     WorkerWork, WorkerRead, WorkerWrite, HandlerError, WorkerError, ExecutorCrash, evars
<1>2. answer[e] # "none" => answer'[e] = answer[e]
  BY DEF EInv, ETypeOK, ExecutionInv, ENext, EStep, EFault, Invoke, InvokeSync, InvokeAsync,
     InvokeUnknown, InvokeFails, SyncWork, SyncReply, RequestCommit, WorkerAcquire,
     WorkerWork, WorkerRead, WorkerWrite, HandlerError, WorkerError, ExecutorCrash, evars
<1>3. db[e] \in Finished => db'[e] = db[e]
  <2>1. CASE UNCHANGED evars
    BY <2>1 DEF evars
  <2>2. ASSUME ENext, db[e] \in Finished
        PROVE  db'[e] = db[e]
    <3>1. handler[e] # "responded" /\ worker[e] # "writing" /\ endpoint[e] # NoEndpoint
      BY <2>2 DEF EInv, ETypeOK, ExecutionInv, Finished
    <3> QED
      BY <2>2, <3>1 DEF EInv, ETypeOK, ENext, EStep, EFault, Invoke, InvokeSync,
         InvokeAsync, InvokeUnknown, InvokeFails, SyncWork, SyncReply, RequestCommit,
         WorkerAcquire, WorkerWork, WorkerRead, WorkerWrite, HandlerError, WorkerError, ExecutorCrash
  <2> QED
    BY <2>1, <2>2
<1>4. handler[e] \in {"responded", "done"} =>
        handler'[e] \in {"responded", "done"} /\ answer'[e] = answer[e]
  BY DEF EInv, ETypeOK, ExecutionInv, ENext, EStep, EFault, Invoke, InvokeSync, InvokeAsync,
     InvokeUnknown, InvokeFails, SyncWork, SyncReply, RequestCommit, WorkerAcquire,
     WorkerWork, WorkerRead, WorkerWrite, HandlerError, WorkerError, ExecutorCrash, evars
<1>5. done \subseteq done'
  BY DEF ENext, EStep, EFault, Invoke, InvokeSync, InvokeAsync, InvokeUnknown, InvokeFails,
     SyncWork, Work, SyncReply, RequestCommit, WorkerAcquire, WorkerWork, WorkerRead,
     WorkerWrite, HandlerError, WorkerError, ExecutorCrash, evars
<1> QED
  BY <1>1, <1>2, <1>3, <1>4, <1>5 DEF Keeps, Refused, Over, Finished

(* What a step of the engine, exchanges with the executor apart, does to task u:
   answers in hand come from answers in hand, verdicts from what was in hand. *)
Moves(u) ==
  /\ exec'[u].pc \in {"apply", "applying", "settling"} =>
       exec[u].pc \in {"apply", "applying", "settling"} /\ exec'[u].resp = exec[u].resp
  /\ exec'[u].pc \in {"attempt", "giveup", "failing"} =>
       exec[u].pc \in {"attempt", "giveup", "failing"} \/ progress[u] = "PENDING"
  /\ rows[u].check_url => rows'[u].check_url
  /\ rows'[u].check_url =>
       rows[u].check_url \/ (exec[u].pc = "settling" /\ exec[u].resp = "accepted")
  /\ poll'[u].pc = "getting" => poll[u].pc = "getting" \/ rows[u].check_url
  /\ poll'[u].pc = "settling" =>
       poll[u].pc = "settling" /\ poll'[u].verdict = poll[u].verdict
  /\ poll'[u].pc \in {"giveup", "failing"} => poll[u].pc \in {"giveup", "failing"}
  /\ calls'[u].POLL >= calls[u].POLL
  /\ progress'[u] \in {"none", "PENDING"} => progress[u] \in {"none", "PENDING"}
  /\ progress'[u] = "SUCCESS" =>
       \/ progress[u] = "SUCCESS"
       \/ exec[u].pc = "settling" /\ exec[u].resp = "ok"
       \/ poll[u].pc = "settling" /\ poll[u].verdict = "SUCCESS"
  /\ progress'[u] = "FAILED" =>
       \/ progress[u] = "FAILED"
       \/ exec[u].pc = "failing"
       \/ exec[u].pc = "settling" /\ exec[u].resp \notin {"ok", "accepted"}
       \/ poll[u].pc = "settling" /\ poll[u].verdict = "FAILED"
       \/ poll[u].pc = "failing"

(* Of what the commit of a verdict v of t with child c does to row u, the part
   that matters here.                                                       *)
CommitMoves(t, v, c, u) ==
  /\ progress'[u] = IF u = t THEN v ELSE IF u = c THEN "PENDING" ELSE progress[u]
  /\ rows'[u].check_url <=> (u # c /\ rows[u].check_url)

(* It is what CommitPoint says.                                             *)
LEMMA CommitMovesFacts ==
  ASSUME NEW t, NEW v, NEW c, NEW u, CommitPoint(t, v, c, u)
  PROVE  CommitMoves(t, v, c, u)
  BY Zenon DEF CommitPoint, CommitMoves

(* The steps of the engine that are no exchange move every task like that.  *)
LEMMA EngineMoves ==
  ASSUME TypeOK, StatusInv, DriverInv, InsertInv, Engine, NEW u \in Tasks
  PROVE  Moves(u)
<1>0. calls[u].POLL \in Nat
  BY DEF TypeOK, CountType
<1> USE <1>0
<1>1. ASSUME NEW c \in Clients, Arrive(c)
      PROVE  Moves(u)
  BY <1>1 DEF Arrive, CreateFlush, CancelRead, Moves
<1>2. ASSUME NEW c \in Clients, CreateCommit(c)
      PROVE  Moves(u)
  BY <1>2 DEF CreateCommit, InsertInv, StatusInv, TypeOK, ExecType, PollType, Moves
<1>3. ASSUME NEW c \in Clients, CancelFlush(c) \/ RequestError(c)
      PROVE  Moves(u)
  BY <1>3 DEF CancelFlush, RequestError, Moves
<1>4. ASSUME NEW c \in Clients, CancelCommit(c)
      PROVE  Moves(u)
  BY <1>4 DEF CancelCommit, SetStatus, TypeOK, ExecType, PollType, Moves
<1>5. ASSUME NEW t \in Tasks, FireTaskJob(t) \/ FirePollJob(t) \/ Misfire(t)
      PROVE  Moves(u)
  <2>1. CASE FireTaskJob(t) \/ Misfire(t)
    BY <1>5, <2>1 DEF FireTaskJob, Misfire, TypeOK, ExecType, Moves
  <2>2. CASE FirePollJob(t)
    BY <1>5, <2>2 DEF FirePollJob, TypeOK, PollType, Moves
  <2> QED
    BY <1>5, <2>1, <2>2
<1>6. ASSUME NEW t \in Tasks, MarkRead(t)
      PROVE  Moves(u)
  BY <1>6 DEF MarkRead, IdleExec, TypeOK, ExecType, PollType, Moves
<1>7. ASSUME NEW t \in Tasks, MarkWrite(t)
      PROVE  Moves(u)
  BY <1>7 DEF MarkWrite, SetStatus, IdleExec, DriverInv, TypeOK, ExecType, PollType, Moves
<1>8. ASSUME NEW t \in Tasks, ApplyRead(t) \/ GiveUpRead(t) \/ ExecError(t)
      PROVE  Moves(u)
  BY <1>8 DEF ApplyRead, GiveUpRead, ExecError, IdleExec, TypeOK, ExecType, PollType, Moves
<1>9. ASSUME NEW t \in Tasks, ApplyFlush(t)
      PROVE  Moves(u)
  BY <1>9 DEF ApplyFlush, TypeOK, ExecType, PollType, Moves
<1>10. ASSUME NEW t \in Tasks, PollGet(t)
      PROVE  Moves(u)
  BY <1>10 DEF PollGet, IdlePoll, TypeOK, ExecType, PollType, CountType, Moves
<1>11. ASSUME NEW t \in Tasks, PollGiveUpRead(t) \/ PollError(t)
      PROVE  Moves(u)
  BY <1>11 DEF PollGiveUpRead, PollError, IdlePoll, TypeOK, ExecType, PollType, Moves
<1>12. ASSUME NEW t \in Tasks, ApplyCommit(t)
      PROVE  Moves(u)
  <2>1. CASE exec[t].resp = "accepted"
    BY <1>12, <2>1 DEF ApplyCommit, IdleExec, TypeOK, RowType, ExecType, Moves
  <2>2. CASE exec[t].resp # "accepted"
    <3> DEFINE v == Verdict(exec[t].resp)  c == exec[t].child
    <3>1. c \in Tasks \cup {NoTask} /\ v \in Verdicts /\ c # t
      BY <1>12 DEF Verdict, Verdicts, TypeOK, ExecType, DriverInv, InsertInv, Running
    <3>2. CommitPoint(t, v, c, u)
      BY <1>12, <2>2, <3>1, CommitFacts DEF ApplyCommit
    <3>3. c # NoTask => progress[c] = "none"
      BY DEF InsertInv
    <3>4. v = IF exec[t].resp = "ok" THEN "SUCCESS" ELSE "FAILED"
      BY DEF Verdict
    <3>5. exec'[u] = IF u = t THEN IdleExec ELSE exec[u]
      BY <1>12 DEF ApplyCommit, TypeOK
    <3>6. exec[t].pc = "settling" /\ UNCHANGED <<poll, calls>>
      BY <1>12 DEF ApplyCommit
    <3>7. CommitMoves(t, v, c, u)
      BY <3>1, <3>2, CommitMovesFacts
    <3> HIDE DEF v, c
    <3> QED
      BY <2>2, <3>1, <3>3, <3>4, <3>5, <3>6, <3>7 DEF IdleExec, CommitMoves, StatusInv, Moves
  <2> QED
    BY <2>1, <2>2
<1>13. ASSUME NEW t \in Tasks, PollCommit(t)
      PROVE  Moves(u)
  <2> DEFINE v == poll[t].verdict  c == poll[t].child
  <2>1. c \in Tasks \cup {NoTask} /\ v \in Verdicts /\ c # t
    BY <1>13 DEF TypeOK, PollType, DriverInv, InsertInv
  <2>2. CommitPoint(t, v, c, u)
    BY <1>13, <2>1, CommitFacts DEF PollCommit
  <2>3. c # NoTask => progress[c] = "none"
    BY DEF InsertInv
  <2>4. poll'[u] = IF u = t THEN IdlePoll ELSE poll[u]
    BY <1>13 DEF PollCommit, TypeOK
  <2>5. poll[t].pc = "settling" /\ UNCHANGED <<exec, calls>>
    BY <1>13 DEF PollCommit
  <2>6. CommitMoves(t, v, c, u)
    BY <2>1, <2>2, CommitMovesFacts
  <2> HIDE DEF c
  <2> QED
    BY <2>1, <2>3, <2>4, <2>5, <2>6 DEF IdlePoll, CommitMoves, Verdicts, StatusInv, Moves
<1>14. ASSUME NEW t \in Tasks, GiveUpWrite(t) \/ PollGiveUpWrite(t)
      PROVE  Moves(u)
  <2>1. CommitVerdict(t, "FAILED", NoTask) /\ NoTask # t
    BY <1>14 DEF GiveUpWrite, PollGiveUpWrite
  <2>2. CommitMoves(t, "FAILED", NoTask, u)
    BY <2>1, CommitFacts, CommitMovesFacts DEF Verdicts
  <2>3. CASE GiveUpWrite(t)
    <3>1. exec'[u] = IF u = t THEN IdleExec ELSE exec[u]
      BY <2>3 DEF GiveUpWrite, TypeOK
    <3>2. exec[t].pc = "failing" /\ UNCHANGED <<poll, calls>>
      BY <2>3 DEF GiveUpWrite
    <3> QED
      BY <2>1, <2>2, <3>1, <3>2 DEF IdleExec, CommitMoves, Moves
  <2>4. CASE PollGiveUpWrite(t)
    <3>1. poll'[u] = IF u = t THEN IdlePoll ELSE poll[u]
      BY <2>4 DEF PollGiveUpWrite, TypeOK
    <3>2. poll[t].pc = "failing" /\ UNCHANGED <<exec, calls>>
      BY <2>4 DEF PollGiveUpWrite
    <3> QED
      BY <2>1, <2>2, <3>1, <3>2 DEF IdlePoll, CommitMoves, Moves
  <2> QED
    BY <1>14, <2>3, <2>4
<1>15. CASE Crash
  BY <1>15 DEF Crash, IdleExec, IdlePoll, TypeOK, ExecType, PollType, CountType, Moves
<1> QED
  BY <1>1, <1>2, <1>3, <1>4, <1>5, <1>6, <1>7, <1>8, <1>9, <1>10, <1>11, <1>12, <1>13, <1>14, <1>15
     DEF Engine, EngineStep, ReqStep

(* A task that an exchange of another one leaves as it is.                  *)
Rests(u) ==
  /\ exec'[u] = exec[u] /\ poll'[u] = poll[u] /\ rows'[u] = rows[u]
  /\ progress'[u] = progress[u] /\ calls'[u] = calls[u]

(* That is one way of moving as the engine does.                            *)
LEMMA RestMoves ==
  ASSUME TypeOK, NEW u \in Tasks, Rests(u)
  PROVE  Moves(u)
<1>1. calls[u].POLL \in Nat
  BY DEF TypeOK, CountType
<1> QED
  BY <1>1 DEF Rests, Moves

(* What the links of a task are after a step that does not call for it.     *)
Linked(u) ==
  /\ current'[u] = current[u]
  /\ \A e \in Execs : serves'[e] = u => serves[e] = u
  /\ \A e \in Execs : serves[e] = u => serves'[e] = u
  /\ dropped \subseteq dropped'
  /\ view'[u] \in Finished => view'[u] = view[u] /\ poll'[u].pc = "getting"

(* Such a step, when the engine and the executor move as they do, leaves the
   task in the invariant.                                                   *)
LEMMA TaskKept ==
  ASSUME IInv, TypeOK', EInv, EInv', SInv, NEW u \in Tasks, Moves(u), Linked(u),
         \A e \in Execs : Keeps(e)
  PROVE  Held(u)' /\ Once(u)' /\ Settled(u)'
<1>1. /\ Held(u) /\ Once(u) /\ Settled(u)
      /\ current[u] \in Execs \cup {NoExec} /\ view[u] \in ExecutionStatuses \cup {"missing", "none"}
      /\ current[u] # NoExec => serves[current[u]] = u
      /\ progress[u] \in {"none", "PENDING"} => \A e \in Execs : serves[e] # u
  BY DEF SInv, LinkInv
<1>2. calls[u].POLL \in Nat /\ calls'[u].POLL \in Nat /\ PollMaxAttempts \in Nat
  BY PollMaxAttemptsAssumption DEF IInv, TypeOK, CountType
<1>3. ASSUME NEW a \in {"200", "202"}, Called(u, a)
      PROVE  Called(u, a)'
  BY <1>1, <1>3 DEF Called, Linked, Keeps
<1>4. Held(u)'
  <2>1. exec'[u].pc \in {"apply", "applying", "settling"} =>
          /\ exec'[u].resp = "ok" => Called(u, "200")'
          /\ exec'[u].resp = "accepted" => Called(u, "202")'
          /\ exec'[u].resp \notin {"ok", "accepted"} /\ current'[u] # NoExec
               => Refused(current[u])'
    BY <1>1, <1>3 DEF Held, Moves, Keeps, Linked
  <2>2. rows'[u].check_url => Called(u, "202")'
    BY <1>1, <1>3 DEF Held, Moves
  <2>3. poll'[u].pc \in {"getting", "settling"} => rows'[u].check_url
    BY <1>1 DEF Held, Moves
  <2>4. view'[u] \in Finished => poll'[u].pc = "getting" /\ db'[current'[u]] = view'[u]
    BY <1>1 DEF Held, Linked, Keeps, Finished, Called
  <2>5. poll'[u].pc = "settling" => db'[current'[u]] = poll'[u].verdict
    <3>1. poll[u].verdict \in Finished
      BY DEF IInv, TypeOK, PollType, Verdicts, Finished
    <3> QED
      BY <1>1, <3>1 DEF Held, Linked, Keeps, Moves, Called
  <2>6. poll'[u].pc \in {"giveup", "failing"} => calls'[u].POLL >= PollMaxAttempts
    BY <1>1, <1>2 DEF Held, Moves
  <2> QED
    BY <2>1, <2>2, <2>3, <2>4, <2>5, <2>6 DEF Held, Linked
<1>5. Once(u)'
  BY <1>1 DEF Once, Moves, Linked, Keeps
<1>6. progress'[u] = "SUCCESS" => \E e \in Execs : serves'[e] = u /\ e \in done'
  <2>1. ASSUME progress[u] = "SUCCESS"
        PROVE  \E e \in Execs : serves[e] = u /\ e \in done
    BY <1>1, <2>1 DEF Settled
  <2>2. ASSUME exec[u].pc = "settling", exec[u].resp = "ok"
        PROVE  \E e \in Execs : serves[e] = u /\ e \in done
    BY <1>1, <2>2 DEF Held, Called, EInv, ExecutionInv, Worked
  <2>3. ASSUME poll[u].pc = "settling", poll[u].verdict = "SUCCESS"
        PROVE  \E e \in Execs : serves[e] = u /\ e \in done
    BY <1>1, <2>3 DEF Held, Called, EInv, ExecutionInv, Worked
  <2> QED
    BY <2>1, <2>2, <2>3 DEF Moves, Keeps, Linked
<1>7. ASSUME progress'[u] = "FAILED", calls'[u].POLL < PollMaxAttempts,
             NEW e \in Execs \ dropped', serves'[e] = u
      PROVE  Over(e)'
  <2>0. e \in Execs \ dropped /\ serves[e] = u /\ calls[u].POLL < PollMaxAttempts
    BY <1>2, <1>7 DEF Linked, Moves
  <2>1. CASE progress[u] = "FAILED"
    BY <1>1, <2>0, <2>1 DEF Settled, Keeps
  <2>2. CASE exec[u].pc = "failing"
    BY <1>1, <2>0, <2>2 DEF Once, Over, Keeps
  <2>3. CASE exec[u].pc = "settling" /\ exec[u].resp \notin {"ok", "accepted"}
    BY <1>1, <2>0, <2>3 DEF Once, Held, Over, Keeps
  <2>4. CASE poll[u].pc = "settling" /\ poll[u].verdict = "FAILED"
    BY <1>1, <2>0, <2>4 DEF Once, Held, Called, Over, Keeps
  <2>5. CASE poll[u].pc = "failing"
    BY <1>1, <1>2, <2>0, <2>5 DEF Held
  <2> QED
    BY <1>7, <2>1, <2>2, <2>3, <2>4, <2>5 DEF Moves
<1> QED
  BY <1>4, <1>5, <1>6, <1>7 DEF Settled

(* A call that is posted, and arrives or not, gets an execution of its own.  *)
LEMMA PostKeeps ==
  ASSUME IInv, TypeOK', EInv, EInv', SInv, NEW t \in Tasks, Post(t),
         \A e \in Execs : Keeps(e)
  PROVE  LinkInv' /\ \A u \in Tasks : Held(u)' /\ Once(u)' /\ Settled(u)'
<1>1. /\ exec[t].pc = "attempt" /\ exec'[t].pc = "posting"
      /\ UNCHANGED <<rows, poll, progress, hook, dropped>>
      /\ \A u \in Tasks : u # t => Rests(u)
      /\ calls'[t].POLL = calls[t].POLL
  BY DEF Post, AttemptPost, IInv, TypeOK, ExecType, CountType, Rests
<1>2. progress[t] = "RUNNING" /\ ~rows[t].check_url /\ poll[t].pc = "idle"
  BY <1>1 DEF IInv, DriverInv, Running, HandingOver
<1>3. \A u \in Tasks : \/ view'[u] = "none"
                       \/ view'[u] = view[u] /\ poll'[u].pc = "getting"
  BY DEF Post, KeepViews
<1>4. view' \in [Tasks -> ExecutionStatuses \cup {"missing", "none"}]
  BY DEF Post, KeepViews, SInv, LinkInv
<1>5. CASE UNCHANGED serves /\ current' = [current EXCEPT ![t] = NoExec]
  <2>1. LinkInv'
    BY <1>1, <1>4, <1>5 DEF SInv, LinkInv, Keeps
  <2>2. ASSUME NEW u \in Tasks, u # t
        PROVE  Held(u)' /\ Once(u)' /\ Settled(u)'
    <3>1. Linked(u) /\ Moves(u)
      BY <1>1, <1>3, <1>5, <2>2, RestMoves DEF IInv, Linked, Finished, SInv, LinkInv
    <3> QED
      BY <3>1, TaskKept
  <2>3. Once(t)'
    BY <1>1, <1>5 DEF SInv, LinkInv, Once, Keeps
  <2>4. Held(t)' /\ Settled(t)'
    BY <1>1, <1>2, <1>3 DEF Held, Settled, Finished
  <2> QED
    BY <2>1, <2>2, <2>3, <2>4
<1>6. ASSUME NEW e \in Execs, Invoke(e, hook),
             serves' = [serves EXCEPT ![e] = t], current' = [current EXCEPT ![t] = e]
      PROVE  LinkInv' /\ \A u \in Tasks : Held(u)' /\ Once(u)' /\ Settled(u)'
  <2>0. endpoint[e] = NoEndpoint /\ serves[e] = NoTask /\ endpoint'[e] # NoEndpoint
    BY <1>6, NoEndpointAssumption, EndpointsAssumption
       DEF Invoke, InvokeSync, InvokeAsync, InvokeUnknown, InvokeFails, SInv, LinkInv, EInv, ETypeOK
  <2>1. LinkInv'
    BY <1>1, <1>2, <1>4, <1>6, <2>0 DEF SInv, LinkInv, Keeps
  <2>2. ASSUME NEW u \in Tasks, u # t
        PROVE  Held(u)' /\ Once(u)' /\ Settled(u)'
    <3>1. Linked(u)
      BY <1>1, <1>3, <1>6, <2>0, <2>2 DEF Linked, Finished, SInv, LinkInv
    <3>2. Moves(u)
      BY <1>1, <2>2, RestMoves DEF IInv
    <3> QED
      BY <3>1, <3>2, TaskKept
  <2>3. Once(t)'
    BY <1>1, <1>6, <2>0 DEF SInv, LinkInv, Once, Keeps
  <2>4. Held(t)' /\ Settled(t)'
    BY <1>1, <1>2, <1>3 DEF Held, Settled, Finished
  <2> QED
    BY <2>1, <2>2, <2>3, <2>4
<1> QED
  BY <1>5, <1>6 DEF Post

(* What is read in the executor's answer is what it said, and what is not waited
   for is counted as dropped.                                               *)
LEMMA ReturnKeeps ==
  ASSUME IInv, TypeOK', EInv, EInv', SInv, NEW t \in Tasks, Return(t),
         \A e \in Execs : Keeps(e)
  PROVE  LinkInv' /\ \A u \in Tasks : Held(u)' /\ Once(u)' /\ Settled(u)'
<1>1. PICK r \in Responses :
        /\ AttemptReturn(t, r)
        /\ \/ Answered(t) /\ r = Reading(current[t]) /\ UNCHANGED dropped
           \/ current[t] = NoExec /\ r = "retry" /\ UNCHANGED dropped
           \/ r = "retry" /\ dropped' = dropped \cup {current[t]}
  <2>1. Reading(current[t]) \in Responses /\ "retry" \in Responses
    BY DEF Reading, Responses
  <2> QED
    BY <2>1 DEF Return
<1>2. /\ exec[t].pc = "posting" /\ exec'[t].pc \in {"apply", "giveup", "attempt"}
      /\ IF r = "retry" THEN exec'[t].pc # "apply"
         ELSE exec'[t].pc = "apply" /\ exec'[t].resp = r
      /\ rows'[t].check_url = rows[t].check_url
      /\ UNCHANGED <<poll, progress, calls>>
      /\ \A u \in Tasks : u # t => Rests(u)
  BY <1>1 DEF AttemptReturn, IInv, TypeOK, ExecType, RowType, Rests
<1>3. progress[t] = "RUNNING" /\ ~rows[t].check_url /\ poll[t].pc = "idle"
  BY <1>2 DEF IInv, DriverInv, Running, HandingOver
<1>4. /\ \A u \in Tasks : \/ view'[u] = "none"
                          \/ view'[u] = view[u] /\ poll'[u].pc = "getting"
      /\ view' \in [Tasks -> ExecutionStatuses \cup {"missing", "none"}]
      /\ UNCHANGED <<evars, hook, serves, current>>
  BY DEF Return, KeepViews, SInv, LinkInv
<1>5. LinkInv'
  BY <1>2, <1>4 DEF SInv, LinkInv, evars
<1>6. ASSUME NEW u \in Tasks, u # t
      PROVE  Held(u)' /\ Once(u)' /\ Settled(u)'
  <2>1. Linked(u)
    BY <1>1, <1>4 DEF Linked, Finished
  <2>2. Moves(u)
    BY <1>2, <1>6, RestMoves DEF IInv
  <2> QED
    BY <2>1, <2>2, TaskKept
<1>7. current[t] \in Execs \cup {NoExec} /\ Once(t) /\ UNCHANGED <<answer, handler>>
  BY <1>4 DEF SInv, LinkInv, evars
<1>8. /\ r = "ok" => Called(t, "200")
      /\ r = "accepted" => Called(t, "202")
      /\ r \notin {"ok", "accepted"} /\ current[t] # NoExec =>
           Refused(current[t]) \/ (r = "retry" /\ current[t] \in dropped')
  BY <1>1, <1>7 DEF Answered, Reading, Called, Refused
<1>9. Held(t)'
  <2>1. exec'[t].pc = "apply" =>
          /\ exec'[t].resp = "ok" => Called(t, "200")
          /\ exec'[t].resp = "accepted" => Called(t, "202")
          /\ exec'[t].resp \notin {"ok", "accepted"} /\ current[t] # NoExec => Refused(current[t])
    BY <1>2, <1>8
  <2> QED
    BY <1>2, <1>3, <1>4, <1>7, <2>1 DEF Held, Called, Refused, Finished
<1>10. Once(t)'
  <2> SUFFICES ASSUME NEW e \in Execs \ dropped', serves[e] = t
               PROVE  /\ e = current[t] \/ Refused(e)
                      /\ exec'[t].pc \in {"attempt", "giveup"} => Refused(e)
    BY <1>2, <1>4, <1>7 DEF Once, Refused
  <2>1. e = current[t] \/ Refused(e)
    BY <1>1, <1>7 DEF Once
  <2>2. ASSUME e = current[t], exec'[t].pc \in {"attempt", "giveup"}
        PROVE  Refused(e)
    BY <1>1, <1>2, <1>8, <2>2
  <2> QED
    BY <2>1, <2>2
<1> QED
  BY <1>2, <1>3, <1>5, <1>6, <1>9, <1>10 DEF Settled

(* A poll reads the row as it is, and a finished row stays.                 *)
LEMMA ReadKeeps ==
  ASSUME EInv, SInv, NEW t \in Tasks, ReadStatus(t)
  PROVE  LinkInv' /\ \A u \in Tasks : Held(u)' /\ Once(u)' /\ Settled(u)'
<1>1. UNCHANGED <<vars, evars, hook, serves, current, dropped>>
  BY DEF ReadStatus, links
<1>2. Held(t) /\ poll[t].pc = "getting" /\ current[t] \in Execs /\ db[current[t]] \in ExecutionStatuses \cup {"none"}
  BY DEF ReadStatus, SInv, LinkInv, Held, Called, EInv, ETypeOK
<1>3. /\ view' \in [Tasks -> ExecutionStatuses \cup {"missing", "none"}]
      /\ view'[t] \in Finished => view'[t] = db[current[t]]
      /\ \A u \in Tasks : u # t => view'[u] = view[u]
  BY <1>2 DEF ReadStatus, SInv, LinkInv, Finished
<1>4. LinkInv'
  BY <1>1, <1>3 DEF SInv, LinkInv, vars, evars
<1>5. ASSUME NEW u \in Tasks
      PROVE  Held(u)'
  <2>1. Held(u)
    BY DEF SInv
  <2>2. view'[u] \in Finished => poll[u].pc = "getting" /\ db[current[u]] = view'[u]
    BY <1>2, <1>3, <2>1 DEF Held
  <2> QED
    BY <1>1, <2>1, <2>2 DEF Held, Called, Refused, vars, evars
<1>6. ASSUME NEW u \in Tasks
      PROVE  Once(u)' /\ Settled(u)'
  <2>1. Once(u) /\ Settled(u)
    BY DEF SInv
  <2> QED
    BY <1>1, <2>1 DEF Once, Settled, Refused, Over, vars, evars
<1> QED
  BY <1>4, <1>5, <1>6

(* What a poll makes of the row is what the row says; it gives up at its cap. *)
LEMMA PollKeeps ==
  ASSUME IInv, TypeOK', EInv, EInv', SInv, NEW t \in Tasks, PollReturn(t),
         \A e \in Execs : Keeps(e)
  PROVE  LinkInv' /\ \A u \in Tasks : Held(u)' /\ Once(u)' /\ Settled(u)'
<1>1. /\ poll[t].pc = "getting"
      /\ UNCHANGED <<rows, exec, progress, calls>>
      /\ UNCHANGED <<evars, hook, serves, current, dropped>>
      /\ \A u \in Tasks : u # t => Rests(u)
      /\ \A u \in Tasks : \/ view'[u] = "none"
                          \/ view'[u] = view[u] /\ poll'[u].pc = "getting"
      /\ view' \in [Tasks -> ExecutionStatuses \cup {"missing", "none"}]
  BY DEF PollReturn, PollAnswer, PollPending, links, KeepViews, Rests, SInv, LinkInv,
     IInv, TypeOK
<1>2. LinkInv'
  BY <1>1 DEF SInv, LinkInv, evars
<1>3. ASSUME NEW u \in Tasks, u # t
      PROVE  Held(u)' /\ Once(u)' /\ Settled(u)'
  <2>1. Linked(u)
    BY <1>1 DEF Linked, Finished
  <2>2. Moves(u)
    BY <1>1, <1>3, RestMoves DEF IInv
  <2> QED
    BY <2>1, <2>2, TaskKept
<1>4. Held(t) /\ Once(t) /\ Settled(t)
  BY DEF SInv
<1>0. poll \in [Tasks -> PollType] /\ calls[t].POLL = poll[t].n
  BY <1>1 DEF IInv, TypeOK, CountInv
<1>5. /\ poll'[t].pc \in {"settling", "poll", "giveup"}
      /\ poll'[t].pc = "settling" => poll'[t].verdict = view[t] /\ view[t] \in Finished
      /\ poll'[t].pc = "giveup" => poll[t].n >= PollMaxAttempts
  <2>1. ASSUME NEW v \in Verdicts, view[t] = v, PollAnswer(t, v)
        PROVE  poll'[t].pc = "settling" /\ poll'[t].verdict = view[t] /\ view[t] \in Finished
    BY <1>0, <2>1 DEF PollAnswer, PollType, Verdicts, Finished
  <2>2. ASSUME PollPending(t)
        PROVE  \/ poll'[t].pc = "poll"
               \/ poll'[t].pc = "giveup" /\ poll[t].n >= PollMaxAttempts
    BY <1>0, <2>2 DEF PollPending, PollType, StopAfterAttempt
  <2> QED
    BY <2>1, <2>2 DEF PollReturn
<1>6. poll'[t].pc = "giveup" => calls[t].POLL >= PollMaxAttempts
  BY <1>0, <1>5
<1>7. Held(t)'
  BY <1>1, <1>4, <1>5, <1>6 DEF Held, Called, Refused, Finished, evars
<1>8. Once(t)' /\ Settled(t)'
  BY <1>1, <1>4 DEF Once, Settled, Refused, Over, evars
<1> QED
  BY <1>2, <1>3, <1>7, <1>8

(* The rest of the engine moves tasks on and leaves the executor alone.     *)
LEMMA EngineKeeps ==
  ASSUME IInv, TypeOK', EInv, EInv', SInv, Engine, \A e \in Execs : Keeps(e)
  PROVE  LinkInv' /\ \A u \in Tasks : Held(u)' /\ Once(u)' /\ Settled(u)'
<1>1. /\ UNCHANGED <<evars, hook, serves, current, dropped>>
      /\ \A u \in Tasks : \/ view'[u] = "none"
                          \/ view'[u] = view[u] /\ poll'[u].pc = "getting"
      /\ view' \in [Tasks -> ExecutionStatuses \cup {"missing", "none"}]
  BY DEF Engine, links, KeepViews, SInv, LinkInv
<1>2. ASSUME NEW u \in Tasks
      PROVE  Moves(u)
  BY EngineMoves DEF IInv
<1>3. LinkInv'
  BY <1>1, <1>2 DEF SInv, LinkInv, Moves, evars
<1>4. ASSUME NEW u \in Tasks
      PROVE  Held(u)' /\ Once(u)' /\ Settled(u)'
  <2>1. Linked(u)
    BY <1>1 DEF Linked, Finished
  <2> QED
    BY <1>2, <2>1, TaskKept
<1> QED
  BY <1>3, <1>4

(* The executor on its own takes nothing back.                              *)
LEMMA ExecutorAloneKeeps ==
  ASSUME IInv, TypeOK', EInv, EInv', SInv, \A e \in Execs : Keeps(e),
         UNCHANGED <<vars, links, view>>
  PROVE  LinkInv' /\ \A u \in Tasks : Held(u)' /\ Once(u)' /\ Settled(u)'
<1>1. LinkInv'
  BY DEF SInv, LinkInv, Keeps, vars, links
<1>2. ASSUME NEW u \in Tasks
      PROVE  Held(u)' /\ Once(u)' /\ Settled(u)'
  <2>1. Moves(u)
    BY RestMoves DEF IInv, Rests, vars
  <2>2. Linked(u)
    BY DEF SInv, Held, Linked, vars, links
  <2> QED
    BY <2>1, <2>2, TaskKept
<1> QED
  BY <1>1, <1>2

(* Nothing is called for, and nothing settled, when the two services start. *)
LEMMA SystemInvInit == SInit => SInv
<1> SUFFICES ASSUME SInit PROVE SInv
  OBVIOUS
<1>1. LinkInv
  BY DEF SInit, LinkInv
<1>2. ASSUME NEW t \in Tasks
      PROVE  Held(t) /\ Once(t) /\ Settled(t)
  BY <1>2 DEF SInit, Init, IdleExec, IdlePoll, NoRow, Task, Held, Once, Settled, Finished
<1> QED
  BY <1>1, <1>2 DEF SInv

(* Every step of either service, and every exchange, keeps what the scheduler
   holds in agreement with what the executor did.                           *)
LEMMA SystemInvStep == IInv /\ EInv /\ SInv /\ [SNext]_svars => IInv' /\ EInv' /\ SInv'
<1> SUFFICES ASSUME IInv, EInv, SInv, [SNext]_svars
             PROVE  IInv' /\ EInv' /\ SInv'
  OBVIOUS
<1>1. IInv' /\ TypeOK'
  BY StepsOfEngine, InvStep DEF IInv
<1>2. [ENext]_evars
  BY StepsOfExecutor DEF SInv
<1>3. EInv'
  BY <1>2, ExecutorTypes, ExecutionStep, SemaphoreStep DEF EInv
<1>4. \A e \in Execs : Keeps(e)
  BY <1>2, ExecutorKeeps
<1> USE <1>1, <1>3, <1>4
<1>5. ASSUME NEW t \in Tasks, Post(t) \/ Return(t) \/ ReadStatus(t) \/ PollReturn(t)
      PROVE  SInv'
  BY <1>5, PostKeeps, ReturnKeeps, ReadKeeps, PollKeeps DEF SInv
<1>6. CASE Engine
  BY <1>6, EngineKeeps DEF SInv
<1>7. CASE UNCHANGED <<vars, links, view>>
  BY <1>7, ExecutorAloneKeeps DEF SInv
<1> QED
  BY <1>5, <1>6, <1>7 DEF SNext, ExecutorAlone, svars

(* The invariant holds of the two services, whatever of them fails or restarts
   and whatever the network loses or delays.                                *)
THEOREM SystemInvariant == SSpec => [](IInv /\ EInv /\ SInv)
<1>1. SInit => IInv /\ EInv /\ SInv
  BY InvInit, ExecutorInit, SystemInvInit DEF SInit
<1>2. IInv /\ EInv /\ SInv /\ [SNext]_svars => (IInv /\ EInv /\ SInv)'
  BY SystemInvStep
<1> QED
  BY <1>1, <1>2, PTL DEF SSpec

(* A task is settled as SUCCESS only when an execution of its own has done the
   work.                                                                    *)
THEOREM SuccessIsEarned == SSpec => []SuccessMeansDone
<1>1. SInv => SuccessMeansDone
  BY DEF SInv, Settled, SuccessMeansDone
<1> QED
  BY <1>1, SystemInvariant, PTL

(* A call that was refused did no work, unless a failure took its answer away.  *)
LEMMA RefusedMeansNotDone ==
  ASSUME EInv, NEW e \in Execs, Refused(e)
  PROVE  ~TookEffect(e) \/ Unheard(e)
  BY DEF EInv, ExecutionInv, Worked, Refused, TookEffect, Unheard

(* Of the calls whose end the scheduler could know, at most one took effect.  *)
THEOREM EffectHappensOnce == SSpec => []EffectAtMostOnce
<1>1. ASSUME EInv, SInv, NEW t \in Tasks
      PROVE  Cardinality({e \in Execs : serves[e] = t /\ TookEffect(e) /\ ~Unheard(e)}) <= 1
  <2> DEFINE taken == {e \in Execs : serves[e] = t /\ TookEffect(e) /\ ~Unheard(e)}
  <2>1. taken \subseteq {current[t]}
    <3> SUFFICES ASSUME NEW e \in taken
                 PROVE  e = current[t]
      OBVIOUS
    <3>1. e \in Execs \ dropped /\ serves[e] = t /\ ~Refused(e)
      BY <1>1, RefusedMeansNotDone DEF Unheard
    <3> QED
      BY <1>1, <3>1 DEF SInv, Once
  <2>2. IsFiniteSet({current[t]}) /\ Cardinality({current[t]}) = 1
    BY FS_Singleton
  <2>3. Cardinality(taken) <= Cardinality({current[t]})
    BY <2>1, <2>2, FS_Subset
  <2> QED
    BY <2>2, <2>3
<1>2. EInv /\ SInv => EffectAtMostOnce
  BY <1>1 DEF EffectAtMostOnce
<1> QED
  BY <1>2, SystemInvariant, PTL

(* A task settled as FAILED before the poll cap has no execution that did its
   work, but for calls whose end the scheduler could not know.               *)
THEOREM FailureIsTrue == SSpec => []FailedMeansNotDone
<1>1. ASSUME EInv, NEW e \in Execs, Over(e), e \in done
      PROVE  Unheard(e)
  <2>1. CASE Refused(e)
    BY <1>1, <2>1, RefusedMeansNotDone DEF TookEffect
  <2>2. CASE answer[e] = "202" /\ db[e] = "FAILED"
    BY <1>1, <2>2 DEF EInv, ExecutionInv, Worked, RowsAfter
  <2> QED
    BY <1>1, <2>1, <2>2 DEF Over
<1>2. EInv /\ SInv => FailedMeansNotDone
  <2> SUFFICES ASSUME EInv, SInv, NEW t \in Tasks, progress[t] = "FAILED",
                      calls[t].POLL < PollMaxAttempts,
                      NEW e \in done, serves[e] = t
               PROVE  Unheard(e)
    BY DEF FailedMeansNotDone
  <2>1. e \in Execs
    BY DEF EInv, ETypeOK
  <2>2. e \in dropped \/ Over(e)
    BY <2>1 DEF SInv, Settled
  <2> QED
    BY <1>1, <2>1, <2>2 DEF Unheard
<1> QED
  BY <1>2, SystemInvariant, PTL

(* What is proved of the executor holds of it with the scheduler as its only
   caller.                                                                  *)
THEOREM ExecutorInSystem == SSpec => [](ETypeOK /\ AnswerMatchesRow) /\ [][ENext]_evars
<1>1. SInv /\ [SNext]_svars => [ENext]_evars
  BY StepsOfExecutor DEF SInv
<1>2. EInv => ETypeOK /\ AnswerMatchesRow
  BY DEF EInv, ETypeOK, ExecutionInv, RowsAfter, Outcome, AnswerMatchesRow
<1> QED
  BY <1>1, <1>2, SystemInvariant, PTL DEF SSpec

(* With the scheduler as its caller, too, the executor keeps what it promises
   about each execution.                                                    *)
THEOREM PromisesInSystem == SSpec => ImplementsExecution
<1>1. SInit => Executions!XInit
  BY DEF SInit, EInit, Executions!XInit
<1>2. EInv /\ SInv /\ [SNext]_svars => [Executions!XNext]_(Executions!xvars)
  BY StepsOfExecutor, PromiseStep DEF SInv
<1> QED
  BY <1>1, <1>2, SystemInvariant, PTL DEF SSpec, ImplementsExecution, Executions!XSpec

(***************************************************************************)
(* How many executions a task is given                                     *)
(***************************************************************************)

(* The executions begun for t: of its calls, those that arrived.            *)
For(t) == {e \in Execs : serves[e] = t}

Arrived(t) == IsFiniteSet(For(t)) /\ Cardinality(For(t)) <= calls[t].EXECUTE

(* The scheduler never forgets a call of a task.                            *)
LEMMA CallsAreKept ==
  ASSUME IInv, [Next]_vars, NEW u \in Tasks
  PROVE  calls'[u].EXECUTE >= calls[u].EXECUTE
<1>1. Lifecycle!LNext \/ UNCHANGED Lifecycle!lvars
  BY LifeStep DEF IInv
<1>2. calls[u].EXECUTE \in Nat
  BY DEF IInv, TypeOK, CountType
<1> DEFINE posts == [t \in Tasks |-> calls[t].EXECUTE]
<1>3. posts'[u] = posts[u] \/ posts'[u] = posts[u] + 1
  BY <1>1 DEF Lifecycle!LNext, Lifecycle!lvars, Lifecycle!Submit, Lifecycle!Start,
     Lifecycle!Deliver, Lifecycle!Settle, Lifecycle!Cancel
<1> QED
  BY <1>2, <1>3

(* A call that is posted is counted, and begins one execution at most.      *)
LEMMA PostArrives ==
  ASSUME IInv, EInv, SInv, NEW t \in Tasks, Post(t), Arrived(t)
  PROVE  Arrived(t)'
<1>1. calls[t].EXECUTE \in Nat /\ calls'[t].EXECUTE = calls[t].EXECUTE + 1
  BY DEF Post, AttemptPost, IInv, TypeOK, CountType
<1>2. Cardinality(For(t)) \in Nat /\ Cardinality(For(t)) <= calls[t].EXECUTE
  BY FS_CardinalityType DEF Arrived
<1>3. CASE UNCHANGED serves
  <2>1. For(t)' = For(t)
    BY <1>3 DEF For
  <2> QED
    BY <1>1, <1>2, <2>1 DEF Arrived
<1>4. ASSUME NEW e \in Execs, serves' = [serves EXCEPT ![e] = t]
      PROVE  Arrived(t)'
  <2>1. For(t)' = For(t) \cup {e}
    BY <1>4 DEF For, SInv, LinkInv
  <2>2. /\ IsFiniteSet(For(t) \cup {e})
        /\ \/ Cardinality(For(t) \cup {e}) = Cardinality(For(t))
           \/ Cardinality(For(t) \cup {e}) = Cardinality(For(t)) + 1
    BY FS_AddElement DEF Arrived
  <2> QED
    BY <1>1, <1>2, <2>1, <2>2 DEF Arrived
<1> QED
  BY <1>3, <1>4 DEF Post

(* No other step begins an execution for a task.                            *)
LEMMA ArrivedStep ==
  ASSUME IInv, EInv, SInv, [SNext]_svars, \A t \in Tasks : Arrived(t), NEW u \in Tasks
  PROVE  Arrived(u)'
<1>1. calls'[u].EXECUTE >= calls[u].EXECUTE
  BY StepsOfEngine, CallsAreKept
<1>2. calls[u].EXECUTE \in Nat /\ calls'[u].EXECUTE \in Nat
  <2>1. TypeOK /\ TypeOK'
    BY StepsOfEngine, InvStep DEF IInv
  <2> QED
    BY <2>1 DEF TypeOK, CountType
<1>3. Cardinality(For(u)) \in Nat
  BY FS_CardinalityType DEF Arrived
<1>4. For(u)' \subseteq For(u) => Arrived(u)'
  <2>1. For(u)' \subseteq For(u) =>
          /\ IsFiniteSet(For(u)') /\ Cardinality(For(u)') \in Nat
          /\ Cardinality(For(u)') <= Cardinality(For(u))
    BY FS_Subset, FS_CardinalityType DEF Arrived
  <2> QED
    BY <1>1, <1>2, <1>3, <2>1 DEF Arrived
<1>5. ASSUME NEW t \in Tasks, Post(t)
      PROVE  Arrived(u)'
  <2>1. CASE t = u
    BY <1>5, <2>1, PostArrives
  <2>2. CASE t # u
    <3>1. For(u)' \subseteq For(u)
      BY <1>5, <2>2 DEF For, Post, SInv, LinkInv
    <3> QED
      BY <1>4, <3>1
  <2> QED
    BY <2>1, <2>2
<1>6. CASE UNCHANGED serves
  BY <1>4, <1>6 DEF For
<1> QED
  BY <1>5, <1>6 DEF SNext, Return, ReadStatus, PollReturn, Engine, ExecutorAlone, links, svars

(* The executor begins no more executions for a task than max_retries allows,
   whatever is lost, timed out or repeated after a restart.                 *)
THEOREM ExecutionsAreBounded == SSpec => []ExecutionsBounded
<1> DEFINE AllArrived == \A t \in Tasks : Arrived(t)
<1>1. SInit => AllArrived
  <2> SUFFICES ASSUME SInit, NEW t \in Tasks PROVE Arrived(t)
    OBVIOUS
  <2>1. For(t) = {} /\ calls[t].EXECUTE = 0
    BY DEF SInit, Init, For
  <2> QED
    BY <2>1, FS_EmptySet DEF Arrived
<1>2. IInv /\ EInv /\ SInv /\ AllArrived /\ [SNext]_svars => AllArrived'
  BY ArrivedStep
<1>3. IInv /\ AllArrived => ExecutionsBounded
  <2> SUFFICES ASSUME IInv, AllArrived, NEW t \in Tasks
               PROVE  Cardinality(For(t)) <= AttemptCap(rows[t].max_retries)
    BY DEF ExecutionsBounded, For
  <2>1. calls[t].EXECUTE \in Nat /\ Cardinality(For(t)) \in Nat
    BY FS_CardinalityType DEF Arrived, IInv, TypeOK, CountType
  <2>2. AttemptCap(rows[t].max_retries) \in Int
    <3>1. rows[t].max_retries \in RetryCaps \cup {0}
      BY DEF IInv, TypeOK, RowType
    <3>2. rows[t].max_retries \in Int
      <4>1. 0 \in Int
        OBVIOUS
      <4> QED
        BY <3>1, <4>1, RetryCapsAssumption, Zenon
    <3> QED
      BY <3>2 DEF AttemptCap
  <2> QED
    BY <2>1, <2>2 DEF Arrived, IInv, CountInv
<1> HIDE DEF AllArrived
<1> QED
  BY <1>1, <1>2, <1>3, SystemInvariant, PTL DEF SSpec

(***************************************************************************)
(* What is left of the engine's promises when nothing takes a coroutine    *)
(* away, whatever the executor and the network do                          *)
(***************************************************************************)

(* Lost requests, time-outs, refused calls and restarts of the executor strand
   no task: somebody drives it until it is settled.                         *)
THEOREM SystemStrandsNobody ==
  ASSUME Faults \subseteq {"cron"}, 0 \notin RetryCaps
  PROVE  SSpec => []NothingStranded
  BY SystemIsAnEngine, NobodyIsStranded, PTL

(* They end no recurrence either.                                           *)
THEOREM SystemGoesOnRecurring ==
  ASSUME {"crash", "db", "cron"} \cap Faults = {}
  PROVE  SSpec => []RecurrenceContinues
  BY SystemIsAnEngine, RecurrenceGoesOn, PTL

(* And a closed task is left alone by the two services together.            *)
THEOREM SystemLeavesClosedAlone == SSpec => ClosedStaysClosed
  BY SystemIsAnEngine, ClosedForGood
===============================================================================
