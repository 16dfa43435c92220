------------------------- MODULE TaskEngineRefinement -------------------------
(***************************************************************************)
(* TaskEngine leaves closed tasks alone and implements TaskLifecycle.      *)
(* Reads, flushes, jobs and errors are stutters of the life cycle; commits *)
(* and calls are its actions.  As long as nothing fails that could take a  *)
(* coroutine or a job away, it records every call, strands no task and     *)
(* keeps recurring ones going.                                             *)
(***************************************************************************)
EXTENDS TaskEngineInvariant

USE NoTaskAssumption, RetryCapsAssumption, PollMaxAttemptsAssumption

(***************************************************************************)
(* Closed tasks                                                            *)
(***************************************************************************)

(* No step starts, calls, settles or reopens a task that is terminal and has
   no handler between its look at the row and its write.                     *)
LEMMA ClosedStep ==
  ASSUME TypeOK, StatusInv, DriverInv, InsertInv, [Next]_vars, NEW x \in Tasks, Closed(x)
  PROVE  KeepsClosed(x)
<1>1. ASSUME NEW c \in Clients, NEW t \in Tasks, NEW m \in RetryCaps, NEW rec \in BOOLEAN,
             CreateFlush(c, t, m, rec)
      PROVE  KeepsClosed(x)
  BY <1>1 DEF CreateFlush, KeepsClosed, Closed
<1>2. ASSUME NEW c \in Clients, NEW t \in Tasks, CancelRead(c, t)
      PROVE  KeepsClosed(x)
  BY <1>2 DEF CancelRead, KeepsClosed, Closed
<1>3. ASSUME NEW c \in Clients, CreateCommit(c)
      PROVE  KeepsClosed(x)
  BY <1>3 DEF CreateCommit, KeepsClosed, Closed, StatusInv, InsertInv, Terminal
<1>4. ASSUME NEW c \in Clients, CancelFlush(c)
      PROVE  KeepsClosed(x)
  BY <1>4 DEF CancelFlush, KeepsClosed, Closed
<1>5. ASSUME NEW c \in Clients, CancelCommit(c)
      PROVE  KeepsClosed(x)
  BY <1>5 DEF CancelCommit, SetStatus, KeepsClosed, Closed, Terminal
<1>6. ASSUME NEW c \in Clients, RequestError(c)
      PROVE  KeepsClosed(x)
  BY <1>6 DEF RequestError, KeepsClosed, Closed
<1>7. ASSUME NEW t \in Tasks, FireTaskJob(t)
      PROVE  KeepsClosed(x)
  BY <1>7 DEF FireTaskJob, KeepsClosed, Closed
<1>8. ASSUME NEW t \in Tasks, FirePollJob(t)
      PROVE  KeepsClosed(x)
  BY <1>8 DEF FirePollJob, KeepsClosed, Closed, TypeOK
<1>9. ASSUME NEW t \in Tasks, Misfire(t)
      PROVE  KeepsClosed(x)
  BY <1>9 DEF Misfire, KeepsClosed, Closed
<1>10. ASSUME NEW t \in Tasks, MarkRead(t)
      PROVE  KeepsClosed(x)
  BY <1>10 DEF MarkRead, Open, IdleExec, KeepsClosed, Closed, Open
<1>11. ASSUME NEW t \in Tasks, MarkWrite(t)
      PROVE  KeepsClosed(x)
  BY <1>11 DEF MarkWrite, SetStatus, KeepsClosed, Closed
<1>12. ASSUME NEW t \in Tasks, AttemptPost(t)
      PROVE  KeepsClosed(x)
  BY <1>12 DEF AttemptPost, KeepsClosed, Closed
<1>13. ASSUME NEW t \in Tasks, NEW r \in Responses, AttemptReturn(t, r)
      PROVE  KeepsClosed(x)
  BY <1>13 DEF AttemptReturn, KeepsClosed, Closed
<1>14. ASSUME NEW t \in Tasks, ApplyRead(t) \/ GiveUpRead(t)
      PROVE  KeepsClosed(x)
  <2>1. CASE Open(t) /\ ApplyRead(t)
    BY <1>14, <2>1 DEF ApplyRead, KeepsClosed, Closed, Open
  <2>2. CASE Open(t) /\ GiveUpRead(t)
    BY <1>14, <2>2 DEF GiveUpRead, KeepsClosed, Closed, Open
  <2>3. CASE ~Open(t)
    BY <1>14, <2>3 DEF ApplyRead, GiveUpRead, IdleExec, KeepsClosed, Closed, Open,
         TypeOK, ReqType
  <2> QED BY <1>14, <2>1, <2>2, <2>3
<1>15. ASSUME NEW t \in Tasks, ApplyFlush(t)
      PROVE  KeepsClosed(x)
  BY <1>15 DEF ApplyFlush, KeepsClosed, Closed, TypeOK
<1>16. ASSUME NEW t \in Tasks, ApplyCommit(t)
      PROVE  KeepsClosed(x)
  <2>1. CASE exec[t].resp = "accepted"
    BY <1>16, <2>1 DEF ApplyCommit, KeepsClosed, Closed, TypeOK
  <2>2. CASE exec[t].resp # "accepted"
    <3> DEFINE v == Verdict(exec[t].resp)  c == exec[t].child
    <3>1. c \in Tasks \cup {NoTask} /\ v \in Verdicts /\ c # t
      BY <1>16 DEF Verdict, Verdicts, TypeOK, ExecType, DriverInv, InsertInv,
           Running
    <3>2. CommitVerdict(t, v, c)
      BY <1>16, <2>2 DEF ApplyCommit
    <3>3. \A u \in Tasks : CommitPoint(t, v, c, u)
      BY <3>1, <3>2, CommitFacts
    <3>4. c # NoTask => v = "SUCCESS" /\ progress[c] = "none"
      BY DEF InsertInv, Verdict
    <3> HIDE DEF v
    <3> QED BY <1>16, <2>2, <3>1, <3>3, <3>4 DEF ApplyCommit, CommitPoint,
                 KeepsClosed, Closed, StatusInv, Terminal
  <2> QED BY <2>1, <2>2
<1>17. ASSUME NEW t \in Tasks, GiveUpWrite(t)
      PROVE  KeepsClosed(x)
  <2>1. \A u \in Tasks : CommitPoint(t, "FAILED", NoTask, u)
    BY <1>17, CommitFacts DEF GiveUpWrite, Verdicts
  <2> QED BY <1>17, <2>1 DEF GiveUpWrite, CommitPoint, KeepsClosed, Closed
<1>18. ASSUME NEW t \in Tasks, ExecError(t)
      PROVE  KeepsClosed(x)
  BY <1>18 DEF ExecError, IdleExec, KeepsClosed, Closed
<1>19. ASSUME NEW t \in Tasks, PollGet(t)
      PROVE  KeepsClosed(x)
  <2>1. CASE Open(t) /\ rows[t].check_url
    <3>1. t # x
      BY <2>1 DEF Open, Closed
    <3>2. calls'[x] = calls[x] /\ poll'[x] = poll[x]
      BY <1>19, <2>1, <3>1 DEF PollGet, TypeOK, CountType
    <3> QED BY <1>19, <3>2 DEF PollGet, KeepsClosed, Closed
  <2>2. CASE ~(Open(t) /\ rows[t].check_url)
    BY <1>19, <2>2 DEF PollGet, IdlePoll, KeepsClosed, Closed, TypeOK
  <2> QED BY <2>1, <2>2
<1>20. ASSUME NEW t \in Tasks, PollPending(t)
      PROVE  KeepsClosed(x)
  BY <1>20 DEF PollPending, KeepsClosed, Closed
<1>21. ASSUME NEW t \in Tasks, NEW v \in Verdicts, PollAnswer(t, v)
      PROVE  KeepsClosed(x)
  BY <1>21 DEF PollAnswer, KeepsClosed, Closed, TypeOK
<1>22. ASSUME NEW t \in Tasks, PollCommit(t)
      PROVE  KeepsClosed(x)
  <2> DEFINE v == poll[t].verdict  c == poll[t].child
  <2>1. c \in Tasks \cup {NoTask} /\ v \in Verdicts /\ c # t
    BY <1>22 DEF TypeOK, PollType, DriverInv, InsertInv
  <2>2. \A u \in Tasks : CommitPoint(t, v, c, u)
    BY <1>22, <2>1, CommitFacts DEF PollCommit
  <2>3. c # NoTask => v = "SUCCESS" /\ progress[c] = "none"
    BY DEF InsertInv
  <2> QED BY <1>22, <2>1, <2>2, <2>3 DEF PollCommit, CommitPoint, KeepsClosed,
               Closed, StatusInv, Terminal
<1>23. ASSUME NEW t \in Tasks, PollGiveUpRead(t) \/ PollError(t)
      PROVE  KeepsClosed(x)
  <2>1. CASE Open(t) /\ PollGiveUpRead(t)
    BY <1>23, <2>1 DEF PollGiveUpRead, KeepsClosed, Closed, Open
  <2>2. CASE ~Open(t) /\ PollGiveUpRead(t)
    BY <1>23, <2>2 DEF PollGiveUpRead, IdlePoll, KeepsClosed, Closed
  <2>3. CASE PollError(t)
    BY <1>23, <2>3 DEF PollError, IdlePoll, KeepsClosed, Closed
  <2> QED BY <1>23, <2>1, <2>2, <2>3
<1>24. ASSUME NEW t \in Tasks, PollGiveUpWrite(t)
      PROVE  KeepsClosed(x)
  <2>1. \A u \in Tasks : CommitPoint(t, "FAILED", NoTask, u)
    BY <1>24, CommitFacts DEF PollGiveUpWrite, Verdicts
  <2> QED BY <1>24, <2>1 DEF PollGiveUpWrite, CommitPoint, KeepsClosed, Closed
<1>25. CASE Crash
  BY <1>25 DEF Crash, IdleExec, IdlePoll, KeepsClosed, Closed
<1>26. CASE UNCHANGED vars
  BY <1>26 DEF vars, KeepsClosed, Closed
<1> QED
  BY <1>1, <1>2, <1>3, <1>4, <1>5, <1>6, <1>7, <1>8, <1>9, <1>10, <1>11, <1>12,
       <1>13, <1>14, <1>15, <1>16, <1>17, <1>18, <1>19, <1>20, <1>21, <1>22, <1>23,
       <1>24, <1>25, <1>26
     DEF Next, Arrive, ReqStep, ExecStep, PollStep

(* A terminal task that nobody is working on stays as it is: no leftover job
   and no later request gets past its check of the status.                   *)
THEOREM ClosedForGood == Spec => ClosedStaysClosed
<1>1. IInv /\ [Next]_vars => [\A t \in Tasks : KeepsClosed(t)]_vars
  <2> SUFFICES ASSUME IInv, [Next]_vars, NEW t \in Tasks PROVE KeepsClosed(t)
    OBVIOUS
  <2>1. CASE Closed(t)
    BY <2>1, ClosedStep DEF IInv
  <2>2. CASE ~Closed(t)
    BY <2>2 DEF KeepsClosed
  <2> QED
    BY <2>1, <2>2
<1> QED
  BY <1>1, InvariantHolds, PTL DEF Spec, ClosedStaysClosed

(***************************************************************************)
(* The life cycle                                                          *)
(***************************************************************************)

(* A step that leaves what the life cycle shows of every task.              *)
SameLife ==
  /\ UNCHANGED progress
  /\ \A u \in Tasks : /\ rows'[u].status = rows[u].status
                      /\ rows'[u].parent = rows[u].parent
                      /\ rows'[u].max_retries = rows[u].max_retries
                      /\ calls'[u].EXECUTE = calls[u].EXECUTE

(* Such a step is a stutter of the life cycle.                              *)
LEMMA SameLifeStutters == ASSUME SameLife PROVE UNCHANGED Lifecycle!lvars
  BY DEF SameLife, Lifecycle!lvars

(* The commit of the verdict of a running task settles it.                  *)
LEMMA RefCommit ==
  ASSUME TypeOK,
         NEW t \in Tasks, NEW v \in Verdicts, NEW c \in Tasks \cup {NoTask}, c # t,
         CommitVerdict(t, v, c), progress[t] = "RUNNING",
         c # NoTask => v = "SUCCESS" /\ progress[c] = "none",
         UNCHANGED calls
  PROVE  Lifecycle!Settle(t, v, c)
<1>1. \A u \in Tasks : CommitPoint(t, v, c, u)
  BY CommitFacts
<1>2. progress' = [u \in Tasks |-> IF u = t THEN v
                                  ELSE IF u = c THEN "PENDING" ELSE progress[u]]
  BY DEF CommitVerdict
<1> QED BY <1>1, <1>2 DEF CommitPoint, Lifecycle!Settle

(* An empty tasks table is the initial state of the life cycle.             *)
LEMMA RefInit == ASSUME Init PROVE Lifecycle!LInit
  BY DEF Init, NoRow, Task, Lifecycle!LInit

(* Every step of the engine is a step of the life cycle or a stutter.       *)
LEMMA LifeStep ==
  ASSUME TypeOK, StatusInv, DriverInv, InsertInv, CountInv, [Next]_vars
  PROVE  Lifecycle!LNext \/ UNCHANGED Lifecycle!lvars
<1>1. ASSUME NEW c \in Clients, NEW t \in Tasks, NEW m \in RetryCaps, NEW rec \in BOOLEAN,
             CreateFlush(c, t, m, rec)
      PROVE  Lifecycle!LNext \/ UNCHANGED Lifecycle!lvars
  BY <1>1, SameLifeStutters DEF CreateFlush, SameLife
<1>2. ASSUME NEW c \in Clients, NEW t \in Tasks, CancelRead(c, t)
      PROVE  Lifecycle!LNext \/ UNCHANGED Lifecycle!lvars
  BY <1>2, SameLifeStutters DEF CancelRead, SameLife
<1>3. ASSUME NEW c \in Clients, CreateCommit(c)
      PROVE  Lifecycle!LNext \/ UNCHANGED Lifecycle!lvars
  <2>0. PICK t \in Tasks, m \in RetryCaps : t = req[c].task /\ m = req[c].row.max_retries
    BY <1>3 DEF CreateCommit, InsertInv, TypeOK
  <2>1. /\ progress[t] = "none"
        /\ req[c].row.status = "PENDING" /\ req[c].row.parent = NoTask
        /\ rows[t].parent = NoTask
    BY <1>3, <2>0 DEF CreateCommit, InsertInv, StatusInv
  <2>2. \A u \in Tasks : rows'[u] = IF u = t THEN req[c].row ELSE rows[u]
    BY <1>3, <2>0 DEF CreateCommit, TypeOK
  <2>3. progress' = [progress EXCEPT ![t] = "PENDING"] /\ calls' = calls
    BY <1>3, <2>0 DEF CreateCommit
  <2>4. \A u \in Tasks :
           /\ rows'[u].status = IF u = t THEN "PENDING" ELSE rows[u].status
           /\ rows'[u].parent = rows[u].parent
           /\ rows'[u].max_retries = IF u = t THEN m ELSE rows[u].max_retries
    BY <2>0, <2>1, <2>2
  <2>5. Lifecycle!Submit(t, m)
    BY <2>1, <2>3, <2>4 DEF Lifecycle!Submit
  <2> QED BY <2>5 DEF Lifecycle!LNext
<1>4. ASSUME NEW c \in Clients, CancelFlush(c)
      PROVE  Lifecycle!LNext \/ UNCHANGED Lifecycle!lvars
  BY <1>4, SameLifeStutters DEF CancelFlush, SameLife
<1>5. ASSUME NEW c \in Clients, CancelCommit(c)
      PROVE  Lifecycle!LNext \/ UNCHANGED Lifecycle!lvars
  <2>0. PICK t \in Tasks : t = req[c].task
    BY <1>5 DEF CancelCommit, TypeOK
  <2>1. progress[t] # "none"
    BY <1>5, <2>0 DEF CancelCommit, InsertInv
  <2>2. \A u \in Tasks : /\ rows'[u].status = IF u = t THEN "CANCELLED" ELSE rows[u].status
                         /\ rows'[u].parent = rows[u].parent
                         /\ rows'[u].max_retries = rows[u].max_retries
    BY <1>5, <2>0 DEF CancelCommit, SetStatus, TypeOK
  <2>3. progress' = progress /\ calls' = calls
    BY <1>5 DEF CancelCommit
  <2>4. Lifecycle!Cancel(t)
    BY <2>1, <2>2, <2>3 DEF Lifecycle!Cancel
  <2> QED BY <2>4 DEF Lifecycle!LNext
<1>6. ASSUME NEW c \in Clients, RequestError(c)
      PROVE  Lifecycle!LNext \/ UNCHANGED Lifecycle!lvars
  BY <1>6, SameLifeStutters DEF RequestError, SameLife
<1>7. ASSUME NEW t \in Tasks, FireTaskJob(t)
      PROVE  Lifecycle!LNext \/ UNCHANGED Lifecycle!lvars
  BY <1>7, SameLifeStutters DEF FireTaskJob, SameLife
<1>8. ASSUME NEW t \in Tasks, FirePollJob(t)
      PROVE  Lifecycle!LNext \/ UNCHANGED Lifecycle!lvars
  BY <1>8, SameLifeStutters DEF FirePollJob, SameLife
<1>9. ASSUME NEW t \in Tasks, Misfire(t)
      PROVE  Lifecycle!LNext \/ UNCHANGED Lifecycle!lvars
  BY <1>9, SameLifeStutters DEF Misfire, SameLife
<1>10. ASSUME NEW t \in Tasks, MarkRead(t)
      PROVE  Lifecycle!LNext \/ UNCHANGED Lifecycle!lvars
  BY <1>10, SameLifeStutters DEF MarkRead, SameLife
<1>11. ASSUME NEW t \in Tasks, MarkWrite(t)
      PROVE  Lifecycle!LNext \/ UNCHANGED Lifecycle!lvars
  <2>1. progress[t] = "PENDING"
    BY <1>11 DEF MarkWrite, DriverInv
  <2>2. \A u \in Tasks : /\ rows'[u].status = IF u = t THEN "RUNNING" ELSE rows[u].status
                         /\ rows'[u].parent = rows[u].parent
                         /\ rows'[u].max_retries = rows[u].max_retries
    BY <1>11 DEF MarkWrite, SetStatus, TypeOK
  <2>3. progress' = [progress EXCEPT ![t] = "RUNNING"] /\ calls' = calls
    BY <1>11 DEF MarkWrite
  <2>4. Lifecycle!Start(t)
    BY <2>1, <2>2, <2>3 DEF Lifecycle!Start
  <2> QED BY <2>4 DEF Lifecycle!LNext
<1>12. ASSUME NEW t \in Tasks, AttemptPost(t)
      PROVE  Lifecycle!LNext \/ UNCHANGED Lifecycle!lvars
  <2>1. progress[t] = "RUNNING"
    BY <1>12 DEF AttemptPost, DriverInv, Running
  <2>2. calls[t].EXECUTE < AttemptCap(rows[t].max_retries)
    <3>1. AttemptCap(rows[t].max_retries) \in Int
      <4>1. rows[t].max_retries \in Int
        <5>1. rows[t] \in RowType
          BY DEF TypeOK
        <5>2. rows[t].max_retries \in RetryCaps \cup {0}
          BY <5>1 DEF RowType
        <5>3. 0 \in Int
          OBVIOUS
        <5> QED BY <5>2, <5>3, RetryCapsAssumption, Zenon
      <4> QED BY <4>1 DEF AttemptCap
    <3> QED BY <1>12, <3>1 DEF AttemptPost, CountInv
  <2>3. \A u \in Tasks : calls'[u].EXECUTE = IF u = t THEN calls[u].EXECUTE + 1
                                             ELSE calls[u].EXECUTE
    BY <1>12 DEF AttemptPost, TypeOK, CountType
  <2>4. progress' = progress /\ rows' = rows
    BY <1>12 DEF AttemptPost
  <2>5. Lifecycle!Deliver(t)
    BY <2>1, <2>2, <2>3, <2>4 DEF Lifecycle!Deliver, Lifecycle!AttemptCap,
         AttemptCap
  <2> QED BY <2>5 DEF Lifecycle!LNext
<1>13. ASSUME NEW t \in Tasks, NEW r \in Responses, AttemptReturn(t, r)
      PROVE  Lifecycle!LNext \/ UNCHANGED Lifecycle!lvars
  <2>1. SameLife
    BY <1>13 DEF AttemptReturn, SameLife
  <2> QED BY <2>1, SameLifeStutters
<1>14. ASSUME NEW t \in Tasks, ApplyRead(t) \/ GiveUpRead(t)
      PROVE  Lifecycle!LNext \/ UNCHANGED Lifecycle!lvars
  BY <1>14, SameLifeStutters DEF ApplyRead, GiveUpRead, SameLife
<1>15. ASSUME NEW t \in Tasks, ApplyFlush(t)
      PROVE  Lifecycle!LNext \/ UNCHANGED Lifecycle!lvars
  BY <1>15, SameLifeStutters DEF ApplyFlush, SameLife
<1>16. ASSUME NEW t \in Tasks, ApplyCommit(t)
      PROVE  Lifecycle!LNext \/ UNCHANGED Lifecycle!lvars
  <2>1. CASE exec[t].resp = "accepted"
    <3>1. SameLife
      BY <1>16, <2>1 DEF ApplyCommit, SameLife, TypeOK, RowType
    <3> QED BY <3>1, SameLifeStutters
  <2>2. CASE exec[t].resp # "accepted"
    <3>0. PICK v \in Verdicts, c \in Tasks \cup {NoTask} :
                 v = Verdict(exec[t].resp) /\ c = exec[t].child
      BY DEF Verdict, Verdicts, TypeOK, ExecType
    <3>1. c # t
      BY <1>16, <3>0 DEF DriverInv, InsertInv, Running
    <3>2. CommitVerdict(t, v, c) /\ UNCHANGED calls
      BY <1>16, <2>2, <3>0 DEF ApplyCommit
    <3>3. progress[t] = "RUNNING"
      BY <1>16 DEF ApplyCommit, DriverInv, Running
    <3>4. c # NoTask => v = "SUCCESS" /\ progress[c] = "none"
      BY <3>0 DEF InsertInv, Verdict
    <3>5. Lifecycle!Settle(t, v, c)
      BY <3>1, <3>2, <3>3, <3>4, RefCommit
    <3> QED BY <3>5 DEF Lifecycle!LNext, Lifecycle!Verdicts, Verdicts
  <2> QED BY <2>1, <2>2
<1>17. ASSUME NEW t \in Tasks, GiveUpWrite(t)
      PROVE  Lifecycle!LNext \/ UNCHANGED Lifecycle!lvars
  <2>1. progress[t] = "RUNNING"
    BY <1>17 DEF GiveUpWrite, DriverInv, Running
  <2>2. Lifecycle!Settle(t, "FAILED", NoTask)
    BY <1>17, <2>1, RefCommit DEF GiveUpWrite, Verdicts
  <2> QED BY <2>2 DEF Lifecycle!LNext, Lifecycle!Verdicts
<1>18. ASSUME NEW t \in Tasks, ExecError(t)
      PROVE  Lifecycle!LNext \/ UNCHANGED Lifecycle!lvars
  BY <1>18, SameLifeStutters DEF ExecError, SameLife
<1>19. ASSUME NEW t \in Tasks, PollGet(t)
      PROVE  Lifecycle!LNext \/ UNCHANGED Lifecycle!lvars
  <2>1. \A u \in Tasks : calls'[u].EXECUTE = calls[u].EXECUTE
    <3>1. CASE Open(t) /\ rows[t].check_url
      BY <1>19, <3>1 DEF PollGet, TypeOK, CountType
    <3>2. CASE ~(Open(t) /\ rows[t].check_url)
      BY <1>19, <3>2 DEF PollGet
    <3> QED BY <3>1, <3>2
  <2>2. SameLife
    BY <1>19, <2>1 DEF PollGet, SameLife
  <2> QED BY <2>2, SameLifeStutters
<1>20. ASSUME NEW t \in Tasks, PollPending(t)
      PROVE  Lifecycle!LNext \/ UNCHANGED Lifecycle!lvars
  BY <1>20, SameLifeStutters DEF PollPending, SameLife
<1>21. ASSUME NEW t \in Tasks, NEW v \in Verdicts, PollAnswer(t, v)
      PROVE  Lifecycle!LNext \/ UNCHANGED Lifecycle!lvars
  BY <1>21, SameLifeStutters DEF PollAnswer, SameLife
<1>22. ASSUME NEW t \in Tasks, PollCommit(t)
      PROVE  Lifecycle!LNext \/ UNCHANGED Lifecycle!lvars
  <2>0. PICK v \in Verdicts, c \in Tasks \cup {NoTask} :
               v = poll[t].verdict /\ c = poll[t].child
    BY DEF TypeOK, PollType
  <2>1. c # t
    BY <1>22, <2>0 DEF DriverInv, InsertInv
  <2>2. CommitVerdict(t, v, c) /\ UNCHANGED calls
    BY <1>22, <2>0 DEF PollCommit
  <2>3. progress[t] = "RUNNING"
    BY <1>22 DEF PollCommit, DriverInv
  <2>4. c # NoTask => v = "SUCCESS" /\ progress[c] = "none"
    BY <2>0 DEF InsertInv
  <2>5. Lifecycle!Settle(t, v, c)
    BY <2>1, <2>2, <2>3, <2>4, RefCommit
  <2> QED BY <2>5 DEF Lifecycle!LNext, Lifecycle!Verdicts, Verdicts
<1>23. ASSUME NEW t \in Tasks, PollGiveUpRead(t) \/ PollError(t)
      PROVE  Lifecycle!LNext \/ UNCHANGED Lifecycle!lvars
  BY <1>23, SameLifeStutters DEF PollGiveUpRead, PollError, SameLife
<1>24. ASSUME NEW t \in Tasks, PollGiveUpWrite(t)
      PROVE  Lifecycle!LNext \/ UNCHANGED Lifecycle!lvars
  <2>1. progress[t] = "RUNNING"
    BY <1>24 DEF PollGiveUpWrite, DriverInv
  <2>2. Lifecycle!Settle(t, "FAILED", NoTask)
    BY <1>24, <2>1, RefCommit DEF PollGiveUpWrite, Verdicts
  <2> QED BY <2>2 DEF Lifecycle!LNext, Lifecycle!Verdicts
<1>25. CASE Crash
  BY <1>25, SameLifeStutters DEF Crash, SameLife
<1>26. CASE UNCHANGED vars
  BY <1>26, SameLifeStutters DEF vars, SameLife
<1> QED
  BY <1>1, <1>2, <1>3, <1>4, <1>5, <1>6, <1>7, <1>8, <1>9, <1>10, <1>11, <1>12,
       <1>13, <1>14, <1>15, <1>16, <1>17, <1>18, <1>19, <1>20, <1>21, <1>22, <1>23,
       <1>24, <1>25, <1>26
     DEF Next, Arrive, ReqStep, ExecStep, PollStep

(* The engine implements the life cycle, read off the rows and the calls.   *)
THEOREM EngineImplementsLifecycle == Spec => ImplementsLifecycle
<1>1. Init => Lifecycle!LInit
  BY RefInit
<1>2. IInv /\ [Next]_vars => [Lifecycle!LNext]_(Lifecycle!lvars)
  BY LifeStep DEF IInv
<1> QED
  BY <1>1, <1>2, InvariantHolds, PTL DEF Spec, ImplementsLifecycle, Lifecycle!LSpec

(***************************************************************************)
(* The table of transitions                                                *)
(***************************************************************************)

(* The life cycle only moves along the edges of the table.                  *)
LEMMA LifecycleEdges ==
  ASSUME NEW t \in Tasks, Lifecycle!LNext \/ UNCHANGED Lifecycle!lvars,
         progress \in [Tasks -> Statuses \cup {"none"}],
         progress[t] # "none", progress'[t] # progress[t]
  PROVE  CanTransition(progress[t], progress'[t])
<1>1. ASSUME NEW u \in Tasks, NEW m \in RetryCaps, Lifecycle!Submit(u, m)
      PROVE  FALSE
  BY <1>1 DEF Lifecycle!Submit
<1>2. ASSUME NEW u \in Tasks, Lifecycle!Start(u)
      PROVE  progress[t] = "PENDING" /\ progress'[t] = "RUNNING"
  BY <1>2 DEF Lifecycle!Start
<1>3. ASSUME NEW u \in Tasks, NEW v \in Lifecycle!Verdicts, NEW c \in Tasks \cup {NoTask},
             Lifecycle!Settle(u, v, c)
      PROVE  progress[t] = "RUNNING" /\ progress'[t] \in Verdicts
  BY <1>3, NoTaskAssumption DEF Lifecycle!Settle, Lifecycle!Verdicts, Verdicts
<1>4. ASSUME NEW u \in Tasks, Lifecycle!Deliver(u) \/ Lifecycle!Cancel(u)
      PROVE  FALSE
  BY <1>4 DEF Lifecycle!Deliver, Lifecycle!Cancel
<1>5. ASSUME UNCHANGED Lifecycle!lvars PROVE FALSE
  BY <1>5 DEF Lifecycle!lvars
<1>6. \/ progress[t] = "PENDING" /\ progress'[t] = "RUNNING"
      \/ progress[t] = "RUNNING" /\ progress'[t] \in Verdicts
  BY <1>1, <1>2, <1>3, <1>4, <1>5 DEF Lifecycle!LNext
<1> QED
  BY <1>6 DEF CanTransition, Verdicts

(* Whatever fails, the scheduler's own commits follow the table.            *)
THEOREM ProgressIsByTheTable == Spec => ProgressFollowsTable
<1>1. IInv /\ [Next]_vars => [\A t \in Tasks : ProgressEdge(t)]_vars
  BY LifeStep, LifecycleEdges DEF IInv, TypeOK, ProgressEdge
<1> QED
  BY <1>1, InvariantHolds, PTL DEF Spec, ProgressFollowsTable

(***************************************************************************)
(* Every call is on record                                                 *)
(***************************************************************************)

(* A step that neither begins nor ends a call of u.                         *)
CallQuiet(u) ==
  /\ UNCHANGED <<calls[u], audit[u]>>
  /\ exec'[u].pc = "posting" <=> exec[u].pc = "posting"
  /\ poll'[u].pc \in {"getting", "settling"} <=> poll[u].pc \in {"getting", "settling"}

(* Only the steps of a call touch its records.                              *)
LEMMA RecordStep ==
  ASSUME {"crash", "db"} \cap Faults = {}, IInv, AuditComplete, [Next]_vars
  PROVE  AuditComplete'
<1> DEFINE Recorded(u) ==
      /\ calls[u].EXECUTE = audit[u].EXECUTE + (IF exec[u].pc = "posting" THEN 1 ELSE 0)
      /\ calls[u].POLL = audit[u].POLL
           + (IF poll[u].pc \in {"getting", "settling"} THEN 1 ELSE 0)
<1>0. TypeOK
  BY DEF IInv
<1> SUFFICES ASSUME NEW u \in Tasks
             PROVE  Recorded(u)'
  BY DEF AuditComplete
<1>1. /\ Recorded(u)
      /\ calls[u] \in [EXECUTE : Nat, POLL : Nat] /\ audit[u] \in [EXECUTE : Nat, POLL : Nat]
      /\ exec[u] \in ExecType /\ poll[u] \in PollType
  BY <1>0 DEF AuditComplete, TypeOK, CountType
<1>2. ASSUME CallQuiet(u) PROVE Recorded(u)'
  BY <1>1, <1>2 DEF CallQuiet
<1>3. ASSUME NEW c \in Clients, Arrive(c) \/ ReqStep(c) \/ RequestError(c)
      PROVE  CallQuiet(u)
  BY <1>3 DEF Arrive, ReqStep, CreateFlush, CancelRead, CreateCommit, CancelFlush,
     CancelCommit, RequestError, CallQuiet
<1>4. ASSUME NEW t \in Tasks, FireTaskJob(t) \/ Misfire(t)
      PROVE  CallQuiet(u)
  BY <1>0, <1>4 DEF FireTaskJob, Misfire, CallQuiet, TypeOK, ExecType
<1>5. ASSUME NEW t \in Tasks, FirePollJob(t)
      PROVE  CallQuiet(u)
  BY <1>0, <1>5 DEF FirePollJob, CallQuiet, TypeOK, PollType
<1>6. ASSUME NEW t \in Tasks, MarkRead(t) \/ MarkWrite(t) \/ ApplyRead(t) \/ GiveUpRead(t)
      PROVE  CallQuiet(u)
  <2>1. CASE MarkRead(t)
    BY <1>0, <2>1 DEF MarkRead, IdleExec, CallQuiet, TypeOK, ExecType
  <2>2. CASE MarkWrite(t)
    BY <1>0, <2>2 DEF MarkWrite, IdleExec, CallQuiet, TypeOK, ExecType
  <2>3. CASE ApplyRead(t) \/ GiveUpRead(t)
    BY <1>0, <2>3 DEF ApplyRead, GiveUpRead, IdleExec, CallQuiet, TypeOK, ExecType
  <2> QED
    BY <1>6, <2>1, <2>2, <2>3
<1>7. ASSUME NEW t \in Tasks, ApplyFlush(t) \/ ApplyCommit(t) \/ GiveUpWrite(t)
      PROVE  CallQuiet(u)
  <2>1. CASE ApplyFlush(t)
    BY <1>0, <2>1 DEF ApplyFlush, CallQuiet, TypeOK, ExecType
  <2>2. CASE ApplyCommit(t) \/ GiveUpWrite(t)
    BY <1>0, <2>2 DEF ApplyCommit, GiveUpWrite, IdleExec, CallQuiet, TypeOK, ExecType
  <2> QED
    BY <1>7, <2>1, <2>2
<1>8. ASSUME NEW t \in Tasks, AttemptPost(t)
      PROVE  Recorded(u)'
  BY <1>0, <1>1, <1>8 DEF AttemptPost, TypeOK, CountType, ExecType
<1>9. ASSUME NEW t \in Tasks, NEW r \in Responses, AttemptReturn(t, r)
      PROVE  Recorded(u)'
  BY <1>0, <1>1, <1>9 DEF AttemptReturn, TypeOK, CountType, ExecType
<1>10. ASSUME NEW t \in Tasks, PollGet(t)
       PROVE  Recorded(u)'
  <2>1. CASE Open(t) /\ rows[t].check_url
    <3>1. CASE u # t
      BY <1>0, <1>2, <1>10, <2>1, <3>1 DEF PollGet, CallQuiet, TypeOK, CountType, PollType
    <3>2. CASE u = t
      <4>1. /\ calls'[u].EXECUTE = calls[u].EXECUTE /\ calls'[u].POLL = calls[u].POLL + 1
            /\ UNCHANGED <<exec, audit>>
            /\ poll[u].pc = "poll" /\ poll'[u].pc = "getting"
        BY <1>0, <1>10, <2>1, <3>2 DEF PollGet, TypeOK, CountType, PollType
      <4> QED
        BY <1>1, <4>1
    <3> QED
      BY <3>1, <3>2
  <2>2. CASE ~(Open(t) /\ rows[t].check_url)
    BY <1>0, <1>2, <1>10, <2>2 DEF PollGet, IdlePoll, CallQuiet, TypeOK, PollType
  <2> QED
    BY <2>1, <2>2
<1>11. ASSUME NEW t \in Tasks, PollPending(t)
       PROVE  Recorded(u)'
  BY <1>0, <1>1, <1>11 DEF PollPending, TypeOK, CountType, PollType
<1>12. ASSUME NEW t \in Tasks, NEW v \in Verdicts, PollAnswer(t, v)
       PROVE  CallQuiet(u)
  BY <1>0, <1>12 DEF PollAnswer, CallQuiet, TypeOK, PollType
<1>13. ASSUME NEW t \in Tasks, PollCommit(t)
       PROVE  Recorded(u)'
  BY <1>0, <1>1, <1>13 DEF PollCommit, IdlePoll, TypeOK, CountType, PollType
<1>14. ASSUME NEW t \in Tasks, PollGiveUpRead(t) \/ PollGiveUpWrite(t)
       PROVE  CallQuiet(u)
  BY <1>0, <1>14 DEF PollGiveUpRead, PollGiveUpWrite, IdlePoll, CallQuiet, TypeOK, PollType
<1>15. CASE UNCHANGED vars
  BY <1>2, <1>15 DEF vars, CallQuiet
<1> QED
  BY <1>2, <1>3, <1>4, <1>5, <1>6, <1>7, <1>8, <1>9, <1>10, <1>11, <1>12, <1>13, <1>14, <1>15
     DEF Next, ExecStep, PollStep, ExecError, PollError, Crash

(* Unless the process dies or the database fails, the audit trail misses no
   call but the one in flight.                                              *)
THEOREM CallsAreAudited ==
  ASSUME {"crash", "db"} \cap Faults = {}
  PROVE  Spec => []AuditComplete
<1>1. Init => AuditComplete
  BY DEF Init, AuditComplete, IdleExec, IdlePoll
<1>2. IInv /\ AuditComplete /\ [Next]_vars => AuditComplete'
  BY RecordStep
<1> QED
  BY <1>1, <1>2, InvariantHolds, PTL DEF Spec

(***************************************************************************)
(* No task is stranded                                                     *)
(***************************************************************************)

(* Without a fault, whoever stops driving a task has passed it on or settled
   it: jobs, coroutines and cancels hand over in the order DrivenInv says.   *)
LEMMA DrivenStep ==
  ASSUME Faults \subseteq {"cron"}, 0 \notin RetryCaps, IInv, IInv', DrivenInv, [Next]_vars
  PROVE  DrivenInv'
<1> DEFINE Moved(u) ==
      /\ rows[u].status \in {"PENDING", "RUNNING"} => Driven(u)
      /\ progress[u] # "none" => rows[u].max_retries # 0
      /\ Inserting(u) => u \in taskJobs
      /\ HandingOver(u) => u \in pollJobs
      /\ u \in pollJobs => HandingOver(u) \/ rows[u].check_url
      /\ poll[u].pc # "idle" => rows[u].check_url
<1> SUFFICES ASSUME NEW u \in Tasks
             PROVE  Moved(u)'
  BY DEF DrivenInv
<1>0. TypeOK /\ TypeOK' /\ StatusInv /\ DriverInv /\ DriverInv' /\ InsertInv
  BY DEF IInv
<1>1. Moved(u)
  BY DEF DrivenInv
<1>2. ASSUME NEW c \in Clients, NEW t \in Tasks, NEW m \in RetryCaps, NEW rec \in BOOLEAN,
             CreateFlush(c, t, m, rec)
      PROVE  Moved(u)'
  BY <1>0, <1>1, <1>2 DEF CreateFlush, Driven, Inserting, HandingOver, TypeOK
<1>3. ASSUME NEW c \in Clients, NEW t \in Tasks, CancelRead(c, t)
      PROVE  Moved(u)'
  BY <1>0, <1>1, <1>3 DEF CancelRead, Driven, Inserting, HandingOver, TypeOK, IdleReq, ReqType
<1>4. ASSUME NEW c \in Clients, CreateCommit(c)
      PROVE  Moved(u)'
  BY <1>0, <1>1, <1>4 DEF CreateCommit, IdleReq, Driven, Inserting, HandingOver, TypeOK,
     InsertInv, DriverInv
<1>5. ASSUME NEW c \in Clients, CancelFlush(c)
      PROVE  Moved(u)'
  BY <1>0, <1>1, <1>5 DEF CancelFlush, Locked, Driven, Inserting, HandingOver, TypeOK, ReqType,
     InsertInv
<1>6. ASSUME NEW c \in Clients, CancelCommit(c)
      PROVE  Moved(u)'
  BY <1>0, <1>1, <1>6 DEF CancelCommit, SetStatus, IdleReq, Driven, Inserting, HandingOver,
     TypeOK, RowType
<1>7. ASSUME NEW t \in Tasks, FireTaskJob(t)
      PROVE  Moved(u)'
  BY <1>0, <1>1, <1>7 DEF FireTaskJob, Due, Driven, Inserting, HandingOver, TypeOK, ExecType
<1>8. ASSUME NEW t \in Tasks, FirePollJob(t)
      PROVE  Moved(u)'
  BY <1>0, <1>1, <1>8 DEF FirePollJob, Driven, Inserting, HandingOver, TypeOK, PollType
<1>9. ASSUME NEW t \in Tasks, MarkRead(t)
      PROVE  Moved(u)'
  BY <1>0, <1>1, <1>9 DEF MarkRead, Open, Terminal, IdleExec, Driven, Inserting, HandingOver,
     TypeOK, ExecType
<1>10. ASSUME NEW t \in Tasks, MarkWrite(t)
       PROVE  Moved(u)'
  BY <1>0, <1>1, <1>10 DEF MarkWrite, SetStatus, IdleExec, Driven, Inserting, HandingOver,
     TypeOK, ExecType, RowType, DriverInv
<1>11. ASSUME NEW t \in Tasks, AttemptPost(t)
       PROVE  Moved(u)'
  BY <1>0, <1>1, <1>11 DEF AttemptPost, Driven, Inserting, HandingOver, TypeOK, ExecType
<1>12. ASSUME NEW t \in Tasks, NEW r \in Responses, AttemptReturn(t, r)
       PROVE  Moved(u)'
  BY <1>0, <1>1, <1>12 DEF AttemptReturn, Driven, Inserting, HandingOver, TypeOK, ExecType,
     RowType
<1>13. ASSUME NEW t \in Tasks, ApplyRead(t) \/ GiveUpRead(t)
       PROVE  Moved(u)'
  BY <1>0, <1>1, <1>13 DEF ApplyRead, GiveUpRead, Open, Terminal, IdleExec, Driven, Inserting,
     HandingOver, TypeOK, ExecType
<1>14. ASSUME NEW t \in Tasks, ApplyFlush(t)
       PROVE  Moved(u)'
  BY <1>0, <1>1, <1>14 DEF ApplyFlush, RegisterPoll, RegisterChild, FollowUps, NextOccurrences,
     Driven, Inserting, HandingOver, TypeOK, ExecType
<1>15. ASSUME NEW t \in Tasks, PollGet(t)
       PROVE  Moved(u)'
  <2>1. CASE Open(t) /\ rows[t].check_url
    <3>1. UNCHANGED <<rows, taskJobs, pollJobs, exec, req, progress>>
      BY <1>15 DEF PollGet
    <3>2. \A p \in Tasks : poll'[p].child = poll[p].child
                        /\ (poll'[p].pc = "idle" <=> poll[p].pc = "idle")
      BY <1>0, <1>15, <2>1 DEF PollGet, TypeOK, PollType
    <3> QED
      BY <1>1, <3>1, <3>2 DEF Driven, Inserting, HandingOver
  <2>2. CASE ~(Open(t) /\ rows[t].check_url)
    <3>1. rows[t].status \notin {"PENDING", "RUNNING"}
      BY <1>0, <1>15, <2>2 DEF PollGet, DrivenInv, Open, Terminal
    <3>2. /\ UNCHANGED <<rows, taskJobs, pollJobs, exec, req, progress>>
          /\ \A p \in Tasks : poll'[p] = poll[p] \/ (p = t /\ poll'[p] = IdlePoll)
      BY <1>0, <1>15, <2>2 DEF PollGet, TypeOK
    <3>3. Inserting(u)' => Inserting(u)
      BY <3>2 DEF Inserting, IdlePoll
    <3>4. HandingOver(u)' <=> HandingOver(u)
      BY <3>2 DEF HandingOver
    <3>5. rows'[u].status \in {"PENDING", "RUNNING"} => Driven(u)'
      BY <1>1, <3>1, <3>2 DEF Driven
    <3> QED
      BY <1>1, <3>2, <3>3, <3>4, <3>5 DEF IdlePoll
  <2> QED
    BY <2>1, <2>2
<1>16. ASSUME NEW t \in Tasks, PollPending(t)
       PROVE  Moved(u)'
  BY <1>0, <1>1, <1>16 DEF PollPending, Driven, Inserting, HandingOver, TypeOK, PollType
<1>17. ASSUME NEW t \in Tasks, NEW v \in Verdicts, PollAnswer(t, v)
       PROVE  Moved(u)'
  BY <1>0, <1>1, <1>17 DEF PollAnswer, RegisterChild, FollowUps, NextOccurrences,
     Driven, Inserting, HandingOver, TypeOK, PollType
<1>18. ASSUME NEW t \in Tasks, PollGiveUpRead(t)
       PROVE  Moved(u)'
  BY <1>0, <1>1, <1>18 DEF PollGiveUpRead, Open, Terminal, IdlePoll, Driven, Inserting,
     HandingOver, TypeOK, PollType
<1>19. ASSUME NEW t \in Tasks, NEW v \in Verdicts, NEW c \in Tasks \cup {NoTask}, c # t,
              CommitVerdict(t, v, c), progress[t] = "RUNNING", ~HandingOver(t),
              c # NoTask => progress[c] = "none" /\ Inserting(c),
              UNCHANGED <<taskJobs, pollJobs, req>>,
              \A p \in Tasks :
                /\ exec'[p] = exec[p] \/ (p = t /\ exec'[p] = IdleExec)
                /\ poll'[p] = poll[p] \/ (p = t /\ poll'[p] = IdlePoll)
       PROVE  Moved(u)'
  <2>1. CommitPoint(t, v, c, u)
    BY <1>0, <1>19, CommitFacts
  <2>2. rows'[u].check_url <=> (u # c /\ rows[u].check_url)
    BY <2>1, Zenon DEF CommitPoint
  <2>3. Inserting(u)' => Inserting(u)
    BY <1>19 DEF Inserting, IdleExec, IdlePoll
  <2>4. HandingOver(u)' <=> HandingOver(u)
    BY <1>19 DEF HandingOver, IdleExec
  <2>5. poll'[u].pc # "idle" => poll[u].pc # "idle"
    BY <1>19 DEF IdlePoll
  <2>6. u = c => u \in taskJobs /\ u \notin pollJobs /\ poll[u].pc = "idle"
                 /\ rows[t].max_retries # 0
    BY <1>0, <1>1, <1>19 DEF DriverInv, DrivenInv
  <2>7. rows'[u].status \in {"PENDING", "RUNNING"} => Driven(u)'
    <3>1. CASE u = t
      BY <1>19, <2>1, <3>1 DEF CommitPoint, Verdicts
    <3>2. CASE u = c
      BY <1>19, <2>6, <3>2 DEF Driven
    <3>3. CASE u # t /\ u # c
      BY <1>1, <1>19, <2>1, <3>3 DEF CommitPoint, Driven
    <3> QED
      BY <3>1, <3>2, <3>3
  <2>8. progress'[u] # "none" => rows'[u].max_retries # 0
    BY <1>1, <2>1, <2>6, <1>19 DEF CommitPoint
  <2> QED
    BY <1>1, <1>19, <2>2, <2>3, <2>4, <2>5, <2>6, <2>7, <2>8
<1>20. ASSUME NEW t \in Tasks, ApplyCommit(t)
       PROVE  Moved(u)'
  <2>0. /\ exec[t].pc = "settling"
        /\ UNCHANGED <<taskJobs, pollJobs, req, poll>>
        /\ \A p \in Tasks : exec'[p] = exec[p] \/ (p = t /\ exec'[p] = IdleExec)
        /\ progress[t] = "RUNNING"
    BY <1>0, <1>20 DEF ApplyCommit, TypeOK, DriverInv, Running
  <2>1. CASE exec[t].resp = "accepted"
    <3>1. \A p \in Tasks : /\ rows'[p].status = rows[p].status
                           /\ rows'[p].max_retries = rows[p].max_retries
                           /\ rows[p].check_url => rows'[p].check_url
      BY <1>0, <1>20, <2>1 DEF ApplyCommit, TypeOK, RowType
    <3>2. rows'[t].check_url /\ t \in pollJobs /\ UNCHANGED progress
      BY <1>0, <1>20, <2>0, <2>1 DEF ApplyCommit, TypeOK, RowType, DrivenInv, HandingOver
    <3>3. Inserting(u)' => Inserting(u)
      BY <2>0 DEF Inserting, IdleExec
    <3>4. HandingOver(u)' => HandingOver(u)
      BY <2>0 DEF HandingOver, IdleExec
    <3>5. u # t => (HandingOver(u)' <=> HandingOver(u))
      BY <2>0 DEF HandingOver
    <3>6. Driven(u) => Driven(u)'
      BY <2>0, <3>2 DEF Driven
    <3> QED
      BY <1>1, <2>0, <3>1, <3>2, <3>3, <3>4, <3>5, <3>6
  <2>2. CASE exec[t].resp # "accepted"
    <3> DEFINE v == Verdict(exec[t].resp)  c == exec[t].child
    <3>1. c \in Tasks \cup {NoTask} /\ v \in Verdicts /\ c # t
      BY <1>0, <2>0 DEF Verdict, Verdicts, TypeOK, ExecType, InsertInv
    <3>2. CommitVerdict(t, v, c) /\ ~HandingOver(t)
      BY <1>20, <2>2 DEF ApplyCommit, HandingOver
    <3>3. c # NoTask => progress[c] = "none" /\ Inserting(c)
      BY <1>0 DEF InsertInv, Inserting
    <3> HIDE DEF v, c
    <3> QED
      BY <1>19, <2>0, <3>1, <3>2, <3>3
  <2> QED
    BY <2>1, <2>2
<1>21. ASSUME NEW t \in Tasks, PollCommit(t)
       PROVE  Moved(u)'
  <2> DEFINE v == poll[t].verdict  c == poll[t].child
  <2>1. /\ UNCHANGED <<taskJobs, pollJobs, req, exec>>
        /\ \A p \in Tasks : poll'[p] = poll[p] \/ (p = t /\ poll'[p] = IdlePoll)
        /\ progress[t] = "RUNNING" /\ poll[t].pc = "settling"
    BY <1>0, <1>21 DEF PollCommit, TypeOK, DriverInv
  <2>2. c \in Tasks \cup {NoTask} /\ v \in Verdicts /\ c # t
    BY <1>0, <2>1 DEF TypeOK, PollType, InsertInv
  <2>3. CommitVerdict(t, v, c) /\ ~HandingOver(t)
    BY <1>0, <1>21, <2>1 DEF PollCommit, DriverInv
  <2>4. c # NoTask => progress[c] = "none" /\ Inserting(c)
    BY <1>0 DEF InsertInv, Inserting
  <2> HIDE DEF v, c
  <2> QED
    BY <1>19, <2>1, <2>2, <2>3, <2>4
<1>22. ASSUME NEW t \in Tasks, GiveUpWrite(t) \/ PollGiveUpWrite(t)
       PROVE  Moved(u)'
  <2>1. /\ CommitVerdict(t, "FAILED", NoTask) /\ UNCHANGED <<taskJobs, pollJobs, req>>
        /\ progress[t] = "RUNNING" /\ ~HandingOver(t)
    BY <1>0, <1>22 DEF GiveUpWrite, PollGiveUpWrite, DriverInv, Running, HandingOver
  <2>2. \A p \in Tasks : /\ exec'[p] = exec[p] \/ (p = t /\ exec'[p] = IdleExec)
                         /\ poll'[p] = poll[p] \/ (p = t /\ poll'[p] = IdlePoll)
    BY <1>0, <1>22 DEF GiveUpWrite, PollGiveUpWrite, TypeOK
  <2> QED
    BY <1>19, <2>1, <2>2 DEF Verdicts
<1>23. CASE UNCHANGED vars
  BY <1>1, <1>23 DEF vars, Driven, Inserting, HandingOver
<1> QED
  BY <1>2, <1>3, <1>4, <1>5, <1>6, <1>7, <1>8, <1>9, <1>10, <1>11, <1>12, <1>13, <1>14, <1>15,
     <1>16, <1>17, <1>18, <1>20, <1>21, <1>22, <1>23
     DEF Next, Arrive, ReqStep, ExecStep, PollStep, RequestError, Misfire, ExecError, PollError,
     Crash

(* Who stops driving a task has passed it on or settled it.                 *)
THEOREM DriversHandOver ==
  ASSUME Faults \subseteq {"cron"}, 0 \notin RetryCaps
  PROVE  Spec => []DrivenInv
<1>1. Init => DrivenInv
  BY DEF Init, DrivenInv, NoRow, Task, Inserting, HandingOver, IdleExec, IdlePoll, IdleReq
<1>2. IInv /\ IInv' /\ DrivenInv /\ [Next]_vars => DrivenInv'
  BY DrivenStep
<1> QED
  BY <1>1, <1>2, InvariantHolds, PTL DEF Spec

(* As long as nothing but next_run_time fails, no interleaving of requests,
   jobs and coroutines leaves an unsettled task that nobody drives.          *)
THEOREM NobodyIsStranded ==
  ASSUME Faults \subseteq {"cron"}, 0 \notin RetryCaps
  PROVE  Spec => []NothingStranded
<1>1. DrivenInv => NothingStranded
  BY DEF DrivenInv, NothingStranded
<1> QED
  BY <1>1, DriversHandOver, PTL

(***************************************************************************)
(* Recurrence goes on                                                      *)
(***************************************************************************)

(* What a step does to the insertions and the conclusions of u, as long as no
   transaction is rolled back.                                               *)
Goes(u) ==
  /\ progress[u] # "none" => /\ progress'[u] # "none"
                             /\ rows'[u].parent = rows[u].parent
                             /\ rows'[u].recurring <=> rows[u].recurring
  /\ Inserting(u) /\ progress'[u] = "none" => Inserting(u)'
  /\ Fresh(u) => Fresh(u)' \/ Inserting(u)'
  /\ Concluding(u)' =>
       /\ progress[u] # "none"
       /\ Concluding(u) \/ ~rows[u].recurring \/ \A c \in Tasks : ~Fresh(c)
  /\ progress'[u] = "SUCCESS" =>
       progress[u] = "SUCCESS" \/ Concluding(u) \/ \E c \in Tasks : rows'[c].parent = u

(* The rows a commit of t's verdict v with child c leaves, as Goes needs them. *)
LEMMA CommitGoes ==
  ASSUME TypeOK, StatusInv, DriverInv, NEW t \in Tasks, NEW v \in Verdicts,
         NEW c \in Tasks \cup {NoTask}, c # t, CommitVerdict(t, v, c), progress[t] = "RUNNING",
         c # NoTask => progress[c] = "none" /\ Inserting(c),
         UNCHANGED <<taskJobs, pollJobs, req>>,
         \A p \in Tasks : /\ exec'[p] = exec[p] \/ (p = t /\ exec'[p] = IdleExec)
                          /\ poll'[p] = poll[p] \/ (p = t /\ poll'[p] = IdlePoll),
         exec[t].child \in {NoTask, c}, poll[t].child \in {NoTask, c},
         v = "SUCCESS" /\ c = NoTask => Concluding(t),
         NEW u \in Tasks
  PROVE  Goes(u)
<1>1. CommitPoint(t, v, c, u) /\ CommitPoint(t, v, c, t)
      /\ (c # NoTask => CommitPoint(t, v, c, c))
  BY CommitFacts
<1>2. progress[u] # "none" => rows'[u].recurring <=> rows[u].recurring
  <2>1. CASE u = t
    BY <2>1 DEF CommitVerdict, TypeOK, RowType
  <2>2. CASE u # t /\ u # c
    BY <2>2 DEF CommitVerdict
  <2> QED
    BY <2>1, <2>2
<1>3. progress[u] # "none" => progress'[u] # "none" /\ rows'[u].parent = rows[u].parent
  BY <1>1 DEF CommitPoint, Verdicts
<1>4. Inserting(u) /\ progress'[u] = "none" => Inserting(u)'
  <2> SUFFICES ASSUME Inserting(u), progress'[u] = "none", u # c
               PROVE  Inserting(u)'
    BY <1>1 DEF CommitPoint, Verdicts
  <2>1. CASE \E d \in Clients : req[d].pc = "creating" /\ req[d].task = u
    BY <2>1 DEF Inserting
  <2>2. ASSUME NEW p \in Tasks, u \in {exec[p].child, poll[p].child}
        PROVE  Inserting(u)'
    BY <2>2 DEF Inserting
  <2> QED
    BY <2>1, <2>2 DEF Inserting
<1>5. Fresh(u) => Fresh(u)' \/ Inserting(u)'
  <2> SUFFICES ASSUME Fresh(u)
               PROVE  Fresh(u)' \/ Inserting(u)'
    OBVIOUS
  <2>1. CASE u = c
    BY <2>1 DEF Fresh
  <2>2. CASE u # c
    BY <1>1, <2>2 DEF Fresh, CommitPoint, Verdicts
  <2> QED
    BY <2>1, <2>2
<1>6. Concluding(u)' => Concluding(u)
  BY DEF Concluding, IdleExec, IdlePoll
<1>8. Concluding(u) => progress[u] # "none"
  BY DEF Concluding, DriverInv, Running
<1>7. progress'[u] = "SUCCESS" =>
        progress[u] = "SUCCESS" \/ Concluding(u) \/ \E d \in Tasks : rows'[d].parent = u
  BY <1>1 DEF CommitPoint
<1> QED
  BY <1>2, <1>3, <1>4, <1>5, <1>6, <1>7, <1>8 DEF Goes

(* A step that only moves coroutines on, short of a flush or a commit.       *)
GoesQuietly ==
  /\ UNCHANGED <<rows, req, progress>>
  /\ taskJobs' \subseteq taskJobs /\ pollJobs' \subseteq pollJobs
  /\ \A p \in Tasks :
       /\ exec'[p].child = exec[p].child /\ poll'[p].child = poll[p].child
       /\ exec[p].pc = "idle" => exec'[p].pc = "idle"
       /\ poll[p].pc = "idle" => poll'[p].pc = "idle"
       /\ exec'[p].pc = "settling" => exec'[p] = exec[p]
       /\ poll'[p].pc = "settling" => poll'[p] = poll[p]

(* Such a step begins and concludes nothing.                                *)
LEMMA QuietGoes ==
  ASSUME DriverInv, GoesQuietly, NEW u \in Tasks
  PROVE  Goes(u)
<1>1. Inserting(u) => Inserting(u)'
  BY DEF GoesQuietly, Inserting
<1>2. Inserting(u)' => Inserting(u)
  BY DEF GoesQuietly, Inserting
<1>3. Fresh(u) => Fresh(u)'
  BY <1>2 DEF GoesQuietly, Fresh
<1>4. Concluding(u)' => Concluding(u) /\ progress[u] # "none"
  BY DEF GoesQuietly, Concluding, DriverInv, Running
<1> QED
  BY <1>1, <1>3, <1>4 DEF GoesQuietly, Goes

(* Every step but a crash or a database error goes on like that.            *)
LEMMA GoesStep ==
  ASSUME {"crash", "db", "cron"} \cap Faults = {}, TypeOK, StatusInv, DriverInv, InsertInv,
         [Next]_vars, NEW u \in Tasks
  PROVE  Goes(u)
<1>0. Concluding(u) => progress[u] # "none"
  BY DEF Concluding, DriverInv, Running
<1> USE <1>0
<1>1. ASSUME NEW c \in Clients, NEW t \in Tasks, NEW m \in RetryCaps, NEW rec \in BOOLEAN,
             CreateFlush(c, t, m, rec)
      PROVE  Goes(u)
  BY <1>1 DEF CreateFlush, Goes, Inserting, Fresh, Concluding, TypeOK, ReqType
<1>2. ASSUME NEW c \in Clients, NEW t \in Tasks, CancelRead(c, t)
      PROVE  Goes(u)
  BY <1>2 DEF CancelRead, IdleReq, Goes, Inserting, Fresh, Concluding, TypeOK, ReqType
<1>3. ASSUME NEW c \in Clients, CreateCommit(c)
      PROVE  Goes(u)
  BY <1>3 DEF CreateCommit, IdleReq, Goes, Inserting, Fresh, Concluding, TypeOK, ReqType, InsertInv
<1>4. ASSUME NEW c \in Clients, CancelFlush(c)
      PROVE  Goes(u)
  BY <1>4 DEF CancelFlush, Goes, Inserting, Fresh, Concluding, TypeOK, ReqType
<1>5. ASSUME NEW c \in Clients, CancelCommit(c)
      PROVE  Goes(u)
  BY <1>5 DEF CancelCommit, SetStatus, IdleReq, Goes, Inserting, Fresh, Concluding, TypeOK,
     ReqType, RowType
<1>6. ASSUME NEW t \in Tasks, FireTaskJob(t)
      PROVE  Goes(u)
  BY <1>6 DEF FireTaskJob, Goes, Inserting, Fresh, Concluding, TypeOK, ExecType
<1>7. ASSUME NEW t \in Tasks, FirePollJob(t)
      PROVE  Goes(u)
  BY <1>7 DEF FirePollJob, Goes, Inserting, Fresh, Concluding, TypeOK, PollType
<1>8. ASSUME NEW t \in Tasks, Misfire(t)
      PROVE  Goes(u)
  BY <1>8 DEF Misfire, Goes, Inserting, Fresh, Concluding
<1>9. ASSUME NEW t \in Tasks, MarkRead(t)
      PROVE  Goes(u)
  <2>1. GoesQuietly
    BY <1>9 DEF MarkRead, IdleExec, GoesQuietly, TypeOK, ExecType, InsertInv
  <2> QED
    BY <2>1, QuietGoes
<1>10. ASSUME NEW t \in Tasks, MarkWrite(t)
       PROVE  Goes(u)
  BY <1>10 DEF MarkWrite, SetStatus, IdleExec, Goes, Inserting, Fresh, Concluding, TypeOK,
     ExecType, RowType, InsertInv
<1>11. ASSUME NEW t \in Tasks, AttemptPost(t)
       PROVE  Goes(u)
  BY <1>11 DEF AttemptPost, Goes, Inserting, Fresh, Concluding, TypeOK, ExecType
<1>12. ASSUME NEW t \in Tasks, NEW r \in Responses, AttemptReturn(t, r)
       PROVE  Goes(u)
  BY <1>12 DEF AttemptReturn, Goes, Inserting, Fresh, Concluding, TypeOK, ExecType, RowType
<1>13. ASSUME NEW t \in Tasks, ApplyRead(t) \/ GiveUpRead(t)
       PROVE  Goes(u)
  <2>1. GoesQuietly
    BY <1>13 DEF ApplyRead, GiveUpRead, IdleExec, GoesQuietly, TypeOK, ExecType, InsertInv
  <2> QED
    BY <2>1, QuietGoes
<1>14. ASSUME NEW t \in Tasks, ApplyFlush(t)
       PROVE  Goes(u)
  <2>1. PICK c \in FollowUps(t, Verdict(exec[t].resp)) :
          /\ exec' = [exec EXCEPT ![t] = [@ EXCEPT !.pc = "settling", !.child = c]]
          /\ RegisterChild(c)
    BY <1>14 DEF ApplyFlush
  <2>2. /\ exec[t].pc = "applying" /\ exec[t].child = NoTask
        /\ exec'[t].pc = "settling" /\ exec'[t].resp = exec[t].resp /\ exec'[t].child = c
        /\ \A p \in Tasks : p # t => exec'[p] = exec[p]
        /\ UNCHANGED <<rows, poll, req, progress>>
        /\ taskJobs' \subseteq taskJobs \cup {c} /\ pollJobs' \subseteq pollJobs \cup {t}
    <3>1. /\ exec[t].pc = "applying" /\ exec[t].child = NoTask
          /\ exec'[t].pc = "settling" /\ exec'[t].resp = exec[t].resp /\ exec'[t].child = c
          /\ \A p \in Tasks : p # t => exec'[p] = exec[p]
      <4>1. exec[t].pc = "applying" /\ exec[t].child = NoTask
        BY <1>14 DEF ApplyFlush, InsertInv
      <4>2. exec \in [Tasks -> ExecType]
        BY DEF TypeOK
      <4> QED
        BY <2>1, <4>1, <4>2 DEF ExecType
    <3>2. UNCHANGED <<rows, poll, req, progress>>
      BY <1>14 DEF ApplyFlush
    <3>3. taskJobs' \subseteq taskJobs \cup {c} /\ pollJobs' \subseteq pollJobs \cup {t}
      BY <1>14, <2>1 DEF ApplyFlush, RegisterChild, RegisterPoll
    <3> QED
      BY <3>1, <3>2, <3>3
  <2>3. c = NoTask /\ exec[t].resp = "ok" => ~rows[t].recurring \/ \A d \in Tasks : ~Fresh(d)
    BY <2>1 DEF FollowUps, NextOccurrences, Verdict
  <2>4. Inserting(u) => Inserting(u)'
    BY <2>2 DEF Inserting
  <2>5. Fresh(u) => Fresh(u)' \/ Inserting(u)'
    <3>1. CASE u = c
      BY <2>2, <3>1 DEF Inserting
    <3>2. CASE u # c
      BY <2>2, <3>2 DEF Fresh, Inserting
    <3> QED
      BY <3>1, <3>2
  <2>6. Concluding(u)' =>
          Concluding(u) \/ ~rows[u].recurring \/ \A d \in Tasks : ~Fresh(d)
    BY <2>2, <2>3 DEF Concluding
  <2>7. Concluding(u)' => progress[u] # "none"
    <3>1. progress[t] # "none"
      BY <2>2 DEF DriverInv, Running
    <3> QED
      BY <2>2, <3>1 DEF Concluding
  <2> QED
    BY <2>2, <2>4, <2>5, <2>6, <2>7 DEF Goes
<1>15. ASSUME NEW t \in Tasks, PollGet(t)
       PROVE  Goes(u)
  <2>1. GoesQuietly
    BY <1>15 DEF PollGet, IdlePoll, GoesQuietly, TypeOK, PollType, InsertInv
  <2> QED
    BY <2>1, QuietGoes
<1>16. ASSUME NEW t \in Tasks, PollPending(t)
       PROVE  Goes(u)
  BY <1>16 DEF PollPending, Goes, Inserting, Fresh, Concluding, TypeOK, PollType
<1>17. ASSUME NEW t \in Tasks, NEW v \in Verdicts, PollAnswer(t, v)
       PROVE  Goes(u)
  <2>1. PICK c \in FollowUps(t, v) :
          /\ poll' = [poll EXCEPT ![t] =
                        [@ EXCEPT !.pc = "settling", !.verdict = v, !.child = c]]
          /\ RegisterChild(c)
    BY <1>17 DEF PollAnswer
  <2>2. /\ poll[t].pc = "getting" /\ poll[t].child = NoTask
        /\ poll'[t].pc = "settling" /\ poll'[t].verdict = v /\ poll'[t].child = c
        /\ \A p \in Tasks : p # t => poll'[p] = poll[p]
    <3>1. poll[t].pc = "getting" /\ poll[t].child = NoTask
      BY <1>17 DEF PollAnswer, InsertInv
    <3>2. poll \in [Tasks -> PollType]
      BY DEF TypeOK
    <3> QED
      BY <2>1, <3>1, <3>2 DEF PollType
  <2>3. /\ UNCHANGED <<rows, exec, req, progress, pollJobs>>
        /\ taskJobs' \subseteq taskJobs \cup {c}
    BY <1>17, <2>1 DEF PollAnswer, RegisterChild
  <2>4. c = NoTask /\ v = "SUCCESS" => ~rows[t].recurring \/ \A d \in Tasks : ~Fresh(d)
    BY <2>1 DEF FollowUps, NextOccurrences
  <2>5. Inserting(u) => Inserting(u)'
    BY <2>2, <2>3 DEF Inserting
  <2>6. Fresh(u) => Fresh(u)' \/ Inserting(u)'
    <3>1. CASE u = c
      BY <2>2, <3>1 DEF Inserting
    <3>2. CASE u # c
      BY <2>2, <2>3, <3>2 DEF Fresh, Inserting
    <3> QED
      BY <3>1, <3>2
  <2>7. Concluding(u)' =>
          /\ progress[u] # "none"
          /\ Concluding(u) \/ ~rows[u].recurring \/ \A d \in Tasks : ~Fresh(d)
    <3>1. progress[t] # "none"
      BY <2>2 DEF DriverInv
    <3> QED
      BY <2>2, <2>3, <2>4, <3>1 DEF Concluding
  <2> QED
    BY <2>3, <2>5, <2>6, <2>7 DEF Goes
<1>18. ASSUME NEW t \in Tasks, PollGiveUpRead(t)
       PROVE  Goes(u)
  <2>1. GoesQuietly
    BY <1>18 DEF PollGiveUpRead, IdlePoll, GoesQuietly, TypeOK, PollType, InsertInv
  <2> QED
    BY <2>1, QuietGoes
<1>19. CASE UNCHANGED vars
  BY <1>19 DEF vars, Goes, Inserting, Fresh, Concluding
<1>20. ASSUME NEW t \in Tasks, ApplyCommit(t)
       PROVE  Goes(u)
  <2>0. /\ exec[t].pc = "settling"
        /\ UNCHANGED <<taskJobs, pollJobs, req, poll>>
        /\ \A p \in Tasks : exec'[p] = exec[p] \/ (p = t /\ exec'[p] = IdleExec)
        /\ progress[t] = "RUNNING"
    BY <1>20 DEF ApplyCommit, TypeOK, DriverInv, Running
  <2>1. CASE exec[t].resp = "accepted"
    BY <1>20, <2>1 DEF ApplyCommit, IdleExec, Goes, Inserting, Fresh, Concluding, TypeOK,
       RowType, ExecType, InsertInv
  <2>2. CASE exec[t].resp # "accepted"
    <3> DEFINE v == Verdict(exec[t].resp)  c == exec[t].child
    <3>1. c \in Tasks \cup {NoTask} /\ v \in Verdicts /\ c # t
      BY <2>0 DEF Verdict, Verdicts, TypeOK, ExecType, InsertInv
    <3>2. CommitVerdict(t, v, c) /\ exec[t].child \in {NoTask, c}
      BY <1>20, <2>2 DEF ApplyCommit
    <3>3. c # NoTask => progress[c] = "none" /\ Inserting(c)
      BY DEF InsertInv, Inserting
    <3>4. poll[t].child \in {NoTask, c}
      BY <2>0, <2>2 DEF DriverInv, Running, HandingOver, InsertInv
    <3>5. v = "SUCCESS" /\ c = NoTask => Concluding(t)
      BY <2>0 DEF Verdict, Concluding
    <3> HIDE DEF v, c
    <3> QED
      BY <2>0, <3>1, <3>2, <3>3, <3>4, <3>5, CommitGoes
  <2> QED
    BY <2>1, <2>2
<1>21. ASSUME NEW t \in Tasks, PollCommit(t)
       PROVE  Goes(u)
  <2> DEFINE v == poll[t].verdict  c == poll[t].child
  <2>1. /\ UNCHANGED <<taskJobs, pollJobs, req, exec>>
        /\ \A p \in Tasks : poll'[p] = poll[p] \/ (p = t /\ poll'[p] = IdlePoll)
        /\ progress[t] = "RUNNING" /\ poll[t].pc = "settling"
    BY <1>21 DEF PollCommit, TypeOK, DriverInv
  <2>2. c \in Tasks \cup {NoTask} /\ v \in Verdicts /\ c # t
    BY <2>1 DEF TypeOK, PollType, InsertInv
  <2>3. CommitVerdict(t, v, c) /\ poll[t].child \in {NoTask, c}
    BY <1>21 DEF PollCommit
  <2>4. c # NoTask => progress[c] = "none" /\ Inserting(c)
    BY DEF InsertInv, Inserting
  <2>5. exec[t].child \in {NoTask, c}
    BY <2>1 DEF DriverInv, Running, HandingOver, InsertInv
  <2>6. v = "SUCCESS" /\ c = NoTask => Concluding(t)
    BY <2>1 DEF Concluding
  <2> HIDE DEF v, c
  <2> QED
    BY <2>1, <2>2, <2>3, <2>4, <2>5, <2>6, CommitGoes
<1>22. ASSUME NEW t \in Tasks, GiveUpWrite(t) \/ PollGiveUpWrite(t)
       PROVE  Goes(u)
  <2>1. /\ CommitVerdict(t, "FAILED", NoTask) /\ UNCHANGED <<taskJobs, pollJobs, req>>
        /\ progress[t] = "RUNNING" /\ exec[t].child = NoTask /\ poll[t].child = NoTask
    BY <1>22 DEF GiveUpWrite, PollGiveUpWrite, DriverInv, Running, HandingOver, InsertInv
  <2>2. \A p \in Tasks : /\ exec'[p] = exec[p] \/ (p = t /\ exec'[p] = IdleExec)
                         /\ poll'[p] = poll[p] \/ (p = t /\ poll'[p] = IdlePoll)
    BY <1>22 DEF GiveUpWrite, PollGiveUpWrite, TypeOK
  <2> QED
    BY <2>1, <2>2, CommitGoes DEF Verdicts
<1> QED
  BY <1>1, <1>2, <1>3, <1>4, <1>5, <1>6, <1>7, <1>8, <1>9, <1>10, <1>11, <1>12, <1>13, <1>14,
     <1>15, <1>16, <1>17, <1>18, <1>19, <1>20, <1>21, <1>22
     DEF Next, Arrive, ReqStep, ExecStep, PollStep, RequestError, ExecError, PollError, Crash

(* An id that is taken stays taken, so a chain that ended for want of one was
   right to.                                                                 *)
LEMMA ContinuesStep ==
  ASSUME {"crash", "db", "cron"} \cap Faults = {}, IInv, ContinuesInv, [Next]_vars
  PROVE  ContinuesInv'
<1>0. TypeOK /\ StatusInv /\ DriverInv /\ InsertInv
  BY DEF IInv
<1>1. \A u \in Tasks : Goes(u)
  BY <1>0, GoesStep
<1>2. ASSUME NEW u \in Tasks, progress'[u] = "none"
      PROVE  (Fresh(u)' \/ Inserting(u)') /\ (Fresh(u)' => Fresh(u))
  BY <1>1, <1>2 DEF Goes, ContinuesInv, Fresh
<1>3. (\A c \in Tasks : ~Fresh(c)) => \A c \in Tasks : ~Fresh(c)'
  BY <1>2 DEF Fresh
<1>4. ASSUME NEW u \in Tasks, Concluding(u)', rows'[u].recurring
      PROVE  \A c \in Tasks : ~Fresh(c)'
  BY <1>1, <1>3, <1>4 DEF Goes, ContinuesInv
<1>5. ASSUME NEW u \in Tasks, progress'[u] = "SUCCESS", rows'[u].recurring
      PROVE  (\E c \in Tasks : rows'[c].parent = u) \/ \A c \in Tasks : ~Fresh(c)'
  <2>1. (progress[u] = "SUCCESS" \/ Concluding(u)) => progress[u] # "none" /\ rows[u].recurring
    <3>1. Concluding(u) => progress[u] # "none"
      BY <1>0 DEF Concluding, DriverInv, Running
    <3> QED
      BY <1>1, <1>5, <3>1 DEF Goes
  <2>2. CASE Concluding(u)
    BY <1>3, <2>1, <2>2 DEF ContinuesInv
  <2>3. CASE progress[u] = "SUCCESS"
    <3>1. ASSUME NEW c \in Tasks, rows[c].parent = u
          PROVE  rows'[c].parent = u
      BY <1>0, <1>1, <3>1, NoTaskAssumption DEF StatusInv, Goes
    <3> QED
      BY <1>3, <2>1, <2>3, <3>1 DEF ContinuesInv
  <2> QED
    BY <1>1, <1>5, <2>2, <2>3 DEF Goes
<1> QED
  BY <1>2, <1>4, <1>5 DEF ContinuesInv

(* A recurring run that is concluded without a follow-up has found no row free
   for one.                                                                 *)
THEOREM FollowUpsAreAtHand ==
  ASSUME {"crash", "db", "cron"} \cap Faults = {}
  PROVE  Spec => []ContinuesInv
<1>1. Init => ContinuesInv
  BY DEF Init, ContinuesInv, Concluding, Fresh, Inserting, NoRow, Task, IdleExec, IdlePoll, IdleReq
<1>2. IInv /\ ContinuesInv /\ [Next]_vars => ContinuesInv'
  BY ContinuesStep
<1> QED
  BY <1>1, <1>2, InvariantHolds, PTL DEF Spec

(* A recurring task keeps recurring through lost and early jobs, cancels and
   every order of polls and commits, as long as no transaction is lost and
   next_run_time does not raise.                                             *)
THEOREM RecurrenceGoesOn ==
  ASSUME {"crash", "db", "cron"} \cap Faults = {}
  PROVE  Spec => []RecurrenceContinues
<1>1. ContinuesInv => RecurrenceContinues
  BY DEF ContinuesInv, RecurrenceContinues
<1> QED
  BY <1>1, FollowUpsAreAtHand, PTL
===============================================================================
