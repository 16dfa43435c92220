-------------------------- MODULE TaskEngineInvariant --------------------------
(***************************************************************************)
(* Type correctness of TaskEngine, its inductive invariant IInv and the    *)
(* safety properties that follow from it, for any tasks, clients, caps and *)
(* faults that meet the assumptions of TaskEngine.                         *)
(*                                                                         *)
(* One lemma per conjunct of IInv, one step per action in each.  The       *)
(* transaction that commits a verdict changes two rows at once; CommitFacts*)
(* says what it does to any one row, and the lemmas use that instead of    *)
(* its definition.                                                         *)
(***************************************************************************)
EXTENDS TaskEngineProps, TLAPS

USE NoTaskAssumption, RetryCapsAssumption, PollMaxAttemptsAssumption

(***************************************************************************)
(* Types.  The provers build the type of a whole record or function badly  *)
(* from EXCEPT, so these lemmas first say what each kind of update does to *)
(* a row, to a coroutine's state and to the counters.                      *)
(***************************************************************************)

(* A row as create and _schedule_next_occurrence build it is a row. *)
LEMMA RowTypes ==
  ASSUME NEW m \in RetryCaps \cup {0}, NEW rec \in BOOLEAN, NEW p \in Tasks \cup {NoTask}
  PROVE  Task(m, rec, p) \in RowType
<1>1. 0 \in Int OBVIOUS
<1>2. FALSE \in BOOLEAN OBVIOUS
<1>3. "PENDING" \in Statuses \cup {"none"} BY DEF Statuses
<1> QED BY <1>1, <1>2, <1>3 DEF Task, RowType

(* The placeholder for "no such row" has the type of a row. *)
LEMMA NoRowType == NoRow \in RowType
<1>1. Task(0, FALSE, NoTask) \in RowType
  <2>1. 0 \in RetryCaps \cup {0} OBVIOUS
  <2>2. FALSE \in BOOLEAN OBVIOUS
  <2>3. NoTask \in Tasks \cup {NoTask} OBVIOUS
  <2> QED BY <2>1, <2>2, <2>3, RowTypes
<1> QED BY <1>1 DEF NoRow, RowType

(* A coroutine or request that is not there has the type of its state. *)
LEMMA IdleTypes == IdleExec \in ExecType /\ IdlePoll \in PollType /\ IdleReq \in ReqType
BY NoRowType DEF IdleExec, IdlePoll, IdleReq, ExecType, PollType, ReqType,
   ExecPcs, PollPcs, ReqPcs, Responses, Verdicts

(* execute_task moves on and keeps what it holds. *)
LEMMA ExecPc ==
  ASSUME NEW e \in ExecType, NEW p \in ExecPcs
  PROVE  [e EXCEPT !.pc = p] \in ExecType
BY DEF ExecType

(* execute_task moves on to attempt k. *)
LEMMA ExecPcN ==
  ASSUME NEW e \in ExecType, NEW p \in ExecPcs, NEW k \in Nat
  PROVE  [e EXCEPT !.pc = p, !.n = k] \in ExecType
BY DEF ExecType

(* execute_task moves on with the answer r to its POST. *)
LEMMA ExecPcResp ==
  ASSUME NEW e \in ExecType, NEW p \in ExecPcs, NEW r \in Responses
  PROVE  [e EXCEPT !.pc = p, !.resp = r] \in ExecType
BY DEF ExecType

(* execute_task moves on with the follow-up c it has flushed. *)
LEMMA ExecPcChild ==
  ASSUME NEW e \in ExecType, NEW p \in ExecPcs, NEW c \in Tasks \cup {NoTask}
  PROVE  [e EXCEPT !.pc = p, !.child = c] \in ExecType
BY DEF ExecType

(* poll_task moves on and keeps what it holds. *)
LEMMA PollPc ==
  ASSUME NEW q \in PollType, NEW p \in PollPcs
  PROVE  [q EXCEPT !.pc = p] \in PollType
BY DEF PollType

(* poll_task moves on to poll k. *)
LEMMA PollPcN ==
  ASSUME NEW q \in PollType, NEW p \in PollPcs, NEW k \in Nat
  PROVE  [q EXCEPT !.pc = p, !.n = k] \in PollType
BY DEF PollType

(* poll_task moves on with a verdict and the follow-up it has flushed. *)
LEMMA PollPcVerdict ==
  ASSUME NEW q \in PollType, NEW p \in PollPcs, NEW v \in Verdicts, NEW c \in Tasks \cup {NoTask}
  PROVE  [q EXCEPT !.pc = p, !.verdict = v, !.child = c] \in PollType
BY DEF PollType

(* Writing retry_count leaves a row a row. *)
LEMMA RowRetryCount ==
  ASSUME NEW w \in RowType, NEW k \in Int
  PROVE  [w EXCEPT !.retry_count = k] \in RowType
BY DEF RowType

(* Writing check_url leaves a row a row. *)
LEMMA RowCheckUrl ==
  ASSUME NEW w \in RowType
  PROVE  [w EXCEPT !.check_url = TRUE] \in RowType
<1>1. TRUE \in BOOLEAN OBVIOUS
<1> QED BY <1>1 DEF RowType

(* One more call or audit row leaves the counters natural numbers. *)
LEMMA CountTypes ==
  ASSUME NEW f \in CountType, NEW t \in Tasks
  PROVE  [f EXCEPT ![t].EXECUTE = @ + 1] \in CountType /\ [f EXCEPT ![t].POLL = @ + 1] \in CountType
<1>1. f[t] \in [EXECUTE : Nat, POLL : Nat]
  BY DEF CountType
<1>2. [f[t] EXCEPT !.EXECUTE = @ + 1] \in [EXECUTE : Nat, POLL : Nat]
  BY <1>1
<1>3. [f[t] EXCEPT !.POLL = @ + 1] \in [EXECUTE : Nat, POLL : Nat]
  BY <1>1
<1> QED BY <1>2, <1>3 DEF CountType

(* Writing a status to one row leaves the table a table of rows. *)
LEMMA StatusTypes ==
  ASSUME TypeOK, NEW t \in Tasks, NEW s \in Statuses, SetStatus(t, s)
  PROVE  rows' \in [Tasks -> RowType]
<1>1. [rows[t] EXCEPT !.status = s] \in RowType
  BY DEF TypeOK, RowType
<1> QED BY <1>1 DEF TypeOK, SetStatus

(* The empty tables the service starts with are well typed. *)
LEMMA TypeInit == Init => TypeOK
<1> SUFFICES ASSUME Init PROVE TypeOK OBVIOUS
<1>1. exec \in [Tasks -> ExecType] /\ poll \in [Tasks -> PollType] /\ req \in [Clients -> ReqType]
  BY IdleTypes DEF Init
<1>2. rows \in [Tasks -> RowType]
  BY NoRowType DEF Init
<1>3. \A c \in Clients : req[c].pc = "idle"
  BY DEF Init, IdleReq
<1>4. calls \in CountType /\ audit \in CountType
  BY DEF Init, CountType
<1> QED BY <1>1, <1>2, <1>3, <1>4 DEF Init, TypeOK

(* The transaction that commits a verdict, and the follow-up with it, leaves
   the table and the progress well typed. *)
LEMMA CommitTypes ==
  ASSUME TypeOK, NEW t \in Tasks, NEW v \in Statuses, NEW c \in Tasks \cup {NoTask},
         CommitVerdict(t, v, c)
  PROVE  rows' \in [Tasks -> RowType] /\ progress' \in [Tasks -> Statuses \cup {"none"}]
<1>1. ChildRow(t) \in RowType
  BY RowTypes DEF ChildRow, TypeOK, RowType
<1>2. [rows[t] EXCEPT !.status = v] \in RowType
  BY DEF TypeOK, RowType
<1>3. rows' \in [Tasks -> RowType]
  BY <1>1, <1>2 DEF CommitVerdict, TypeOK
<1>4. progress' \in [Tasks -> Statuses \cup {"none"}]
  BY DEF CommitVerdict, TypeOK, Statuses
<1> QED BY <1>3, <1>4

(* Every step of a request, a job, a coroutine or a crash keeps the types. *)
LEMMA TypeStep == TypeOK /\ [Next]_vars => TypeOK'
<1> SUFFICES ASSUME TypeOK, [Next]_vars PROVE TypeOK'
  OBVIOUS
<1> USE DEF TypeOK
<1>1. ASSUME NEW c \in Clients, NEW t \in Tasks, NEW m \in RetryCaps, NEW rec \in BOOLEAN,
             CreateFlush(c, t, m, rec)
      PROVE  TypeOK'
  BY <1>1, RowTypes DEF CreateFlush, ReqType, ReqPcs
<1>2. ASSUME NEW c \in Clients, NEW t \in Tasks, CancelRead(c, t) PROVE TypeOK'
  BY <1>2, IdleTypes DEF CancelRead, ReqType, ReqPcs
<1>3. ASSUME NEW c \in Clients, CreateCommit(c) PROVE TypeOK'
  <2>1. req[c].task \in Tasks /\ req[c].row \in RowType
    BY <1>3 DEF CreateCommit, ReqType
  <2>2. "PENDING" \in Statuses \cup {"none"} BY DEF Statuses
  <2>3. req' \in [Clients -> ReqType] /\ \A d \in Clients : req'[d].pc # "idle" => req'[d].task \in Tasks
    BY <1>3, IdleTypes DEF CreateCommit, IdleReq
  <2> QED BY <1>3, <2>1, <2>2, <2>3 DEF CreateCommit
<1>4. ASSUME NEW c \in Clients, CancelFlush(c) PROVE TypeOK'
  BY <1>4 DEF CancelFlush, ReqType, ReqPcs
<1>5. ASSUME NEW c \in Clients, CancelCommit(c) PROVE TypeOK'
  <2>1. req[c].task \in Tasks
    BY <1>5 DEF CancelCommit
  <2>2. rows' \in [Tasks -> RowType]
    BY <1>5, <2>1, StatusTypes DEF CancelCommit, Statuses
  <2>3. req' \in [Clients -> ReqType] /\ \A d \in Clients : req'[d].pc # "idle" => req'[d].task \in Tasks
    BY <1>5, IdleTypes DEF CancelCommit, IdleReq
  <2> QED BY <1>5, <2>2, <2>3 DEF CancelCommit
<1>6. ASSUME NEW c \in Clients, RequestError(c) PROVE TypeOK'
  <2>1. req' \in [Clients -> ReqType] /\ \A d \in Clients : req'[d].pc # "idle" => req'[d].task \in Tasks
    BY <1>6, IdleTypes DEF RequestError, IdleReq
  <2> QED BY <1>6, <2>1 DEF RequestError
<1>7. ASSUME NEW t \in Tasks, FireTaskJob(t) PROVE TypeOK'
  BY <1>7 DEF FireTaskJob, ExecType, ExecPcs
<1>8. ASSUME NEW t \in Tasks, FirePollJob(t) PROVE TypeOK'
  <2>1. [poll[t] EXCEPT !.pc = "poll", !.n = 1] \in PollType
    <3>1. poll[t] \in PollType /\ "poll" \in PollPcs /\ 1 \in Nat
      BY DEF PollPcs
    <3> QED BY <3>1, PollPcN
  <2>2. poll' \in [Tasks -> PollType]
    BY <1>8, <2>1 DEF FirePollJob
  <2> QED BY <1>8, <2>2 DEF FirePollJob
<1>9. ASSUME NEW t \in Tasks, Misfire(t) PROVE TypeOK'
  BY <1>9 DEF Misfire
<1>10. ASSUME NEW t \in Tasks, MarkRead(t) PROVE TypeOK'
  BY <1>10, IdleTypes DEF MarkRead, ExecType, ExecPcs
<1>11. ASSUME NEW t \in Tasks, MarkWrite(t) PROVE TypeOK'
  <2>1. "RUNNING" \in Statuses BY DEF Statuses
  <2>2. rows' \in [Tasks -> RowType]
    BY <1>11, <2>1, StatusTypes DEF MarkWrite
  <2>3. [exec[t] EXCEPT !.pc = "attempt", !.n = 1] \in ExecType
    <3>1. exec[t] \in ExecType /\ "attempt" \in ExecPcs /\ 1 \in Nat BY DEF ExecPcs
    <3> QED BY <3>1, ExecPcN
  <2>4. exec' \in [Tasks -> ExecType]
    BY <1>11, <2>3, IdleTypes DEF MarkWrite
  <2> QED BY <1>11, <2>1, <2>2, <2>4 DEF MarkWrite
<1>12. ASSUME NEW t \in Tasks, AttemptPost(t) PROVE TypeOK'
  <2>1. exec' \in [Tasks -> ExecType]
    BY <1>12 DEF AttemptPost, ExecType, ExecPcs
  <2> QED BY <1>12, <2>1, CountTypes DEF AttemptPost
<1>13. ASSUME NEW t \in Tasks, NEW r \in Responses, AttemptReturn(t, r) PROVE TypeOK'
  <2>0. exec[t].n \in Nat /\ exec[t].n + 1 \in Nat
    BY DEF ExecType
  <2>1. /\ [exec[t] EXCEPT !.pc = "apply", !.resp = r] \in ExecType
        /\ [exec[t] EXCEPT !.pc = "giveup"] \in ExecType
        /\ [exec[t] EXCEPT !.pc = "attempt", !.n = exec[t].n + 1] \in ExecType
    <3>1. exec[t] \in ExecType /\ {"apply", "giveup", "attempt"} \subseteq ExecPcs BY DEF ExecPcs
    <3> QED BY <2>0, <3>1, ExecPc, ExecPcN, ExecPcResp
  <2>2. exec' \in [Tasks -> ExecType]
    <3> DEFINE e == exec'[t]
    <3>1. e = [exec[t] EXCEPT !.pc = "apply", !.resp = r] \/ e = [exec[t] EXCEPT !.pc = "giveup"]
          \/ e = [exec[t] EXCEPT !.pc = "attempt", !.n = exec[t].n + 1]
      <4>1. CASE r # "retry"
        BY <1>13, <4>1 DEF AttemptReturn
      <4>2. CASE r = "retry" /\ StopAfterAttempt(exec[t].n, rows[t].max_retries)
        BY <1>13, <4>2 DEF AttemptReturn
      <4>3. CASE r = "retry" /\ ~StopAfterAttempt(exec[t].n, rows[t].max_retries)
        BY <1>13, <4>3 DEF AttemptReturn
      <4> QED BY <4>1, <4>2, <4>3
    <3>2. e \in ExecType
      BY <2>1, <3>1
    <3>3. \A u \in Tasks \ {t} : exec'[u] = exec[u]
      BY <1>13 DEF AttemptReturn
    <3>4. exec' = [u \in Tasks |-> exec'[u]]
      BY <1>13 DEF AttemptReturn
    <3> QED BY <3>2, <3>3, <3>4
  <2>3. [rows[t] EXCEPT !.retry_count = exec[t].n - 1] \in RowType
    <3>1. rows[t] \in RowType /\ exec[t].n - 1 \in Int BY <2>0
    <3> QED BY <3>1, RowRetryCount
  <2>4. rows' \in [Tasks -> RowType]
    BY <1>13, <2>3 DEF AttemptReturn
  <2> QED BY <1>13, <2>2, <2>4, CountTypes DEF AttemptReturn
<1>14. ASSUME NEW t \in Tasks, ApplyRead(t) \/ GiveUpRead(t) PROVE TypeOK'
  BY <1>14, IdleTypes DEF ApplyRead, GiveUpRead, ExecType, ExecPcs
<1>15. ASSUME NEW t \in Tasks, ApplyFlush(t) PROVE TypeOK'
  <2>1. PICK c \in Tasks \cup {NoTask} :
             /\ exec' = [exec EXCEPT ![t] = [exec[t] EXCEPT !.pc = "settling", !.child = c]]
             /\ RegisterChild(c)
    BY <1>15 DEF ApplyFlush, FollowUps, NextOccurrences
  <2>2. exec' \in [Tasks -> ExecType]
    <3>1. [exec[t] EXCEPT !.pc = "settling", !.child = c] \in ExecType
      <4>1. exec[t] \in ExecType /\ "settling" \in ExecPcs BY DEF ExecPcs
      <4> QED BY <4>1, ExecPcChild
    <3> QED BY <2>1, <3>1
  <2>3. taskJobs' \subseteq Tasks
    BY <2>1 DEF RegisterChild
  <2>4. pollJobs' \subseteq Tasks
    BY <1>15 DEF ApplyFlush, RegisterPoll
  <2> QED BY <1>15, <2>2, <2>3, <2>4 DEF ApplyFlush
<1>16. ASSUME NEW t \in Tasks, ApplyCommit(t) PROVE TypeOK'
  <2>1. exec' \in [Tasks -> ExecType]
    BY <1>16, IdleTypes DEF ApplyCommit
  <2>2. CASE exec[t].resp = "accepted"
    <3>1. [rows[t] EXCEPT !.check_url = TRUE] \in RowType
      BY RowCheckUrl
    <3>2. rows' \in [Tasks -> RowType]
      BY <1>16, <2>2, <3>1 DEF ApplyCommit
    <3> QED BY <1>16, <2>1, <2>2, <3>2 DEF ApplyCommit
  <2>3. CASE exec[t].resp # "accepted"
    <3>1. Verdict(exec[t].resp) \in Statuses /\ exec[t].child \in Tasks \cup {NoTask}
      BY DEF Verdict, Statuses, ExecType
    <3>2. CommitVerdict(t, Verdict(exec[t].resp), exec[t].child)
      BY <1>16, <2>3 DEF ApplyCommit
    <3>3. rows' \in [Tasks -> RowType] /\ progress' \in [Tasks -> Statuses \cup {"none"}]
      BY <3>1, <3>2, CommitTypes
    <3> QED BY <1>16, <2>1, <3>3 DEF ApplyCommit
  <2> QED BY <2>2, <2>3
<1>17. ASSUME NEW t \in Tasks, GiveUpWrite(t) PROVE TypeOK'
  <2>1. exec' \in [Tasks -> ExecType]
    BY <1>17, IdleTypes DEF GiveUpWrite
  <2>2. rows' \in [Tasks -> RowType] /\ progress' \in [Tasks -> Statuses \cup {"none"}]
    BY <1>17, CommitTypes DEF GiveUpWrite, Statuses
  <2> QED BY <1>17, <2>1, <2>2 DEF GiveUpWrite
<1>18. ASSUME NEW t \in Tasks, ExecError(t) PROVE TypeOK'
  BY <1>18, IdleTypes DEF ExecError
<1>19. ASSUME NEW t \in Tasks, PollGet(t) PROVE TypeOK'
  <2>1. [poll[t] EXCEPT !.pc = "getting"] \in PollType
    BY DEF PollType, PollPcs
  <2>2. poll' \in [Tasks -> PollType]
    BY <1>19, <2>1, IdleTypes DEF PollGet
  <2>3. calls' \in CountType
    <3>1. CASE calls' = [calls EXCEPT ![t].POLL = @ + 1]
      BY <3>1, CountTypes
    <3>2. CASE calls' = calls
      BY <3>2
    <3> QED BY <1>19, <3>1, <3>2 DEF PollGet
  <2> QED BY <1>19, <2>2, <2>3 DEF PollGet
<1>20. ASSUME NEW t \in Tasks, PollPending(t) PROVE TypeOK'
  <2>0. poll[t].n + 1 \in Nat
    BY DEF PollType
  <2>1. /\ [poll[t] EXCEPT !.pc = "giveup"] \in PollType
        /\ [poll[t] EXCEPT !.pc = "poll", !.n = poll[t].n + 1] \in PollType
    <3>1. poll[t] \in PollType /\ {"giveup", "poll"} \subseteq PollPcs BY DEF PollPcs
    <3> QED BY <2>0, <3>1, PollPc, PollPcN
  <2>2. poll' \in [Tasks -> PollType]
    <3> DEFINE q == poll'[t]
    <3>1. q = [poll[t] EXCEPT !.pc = "giveup"]
          \/ q = [poll[t] EXCEPT !.pc = "poll", !.n = poll[t].n + 1]
      <4>1. CASE StopAfterAttempt(poll[t].n, PollMaxAttempts)
        BY <1>20, <4>1 DEF PollPending
      <4>2. CASE ~StopAfterAttempt(poll[t].n, PollMaxAttempts)
        BY <1>20, <4>2 DEF PollPending
      <4> QED BY <4>1, <4>2
    <3>2. q \in PollType
      BY <2>1, <3>1
    <3>3. \A u \in Tasks \ {t} : poll'[u] = poll[u]
      BY <1>20 DEF PollPending
    <3>4. poll' = [u \in Tasks |-> poll'[u]]
      BY <1>20 DEF PollPending
    <3> QED BY <3>2, <3>3, <3>4
  <2> QED BY <1>20, <2>2, CountTypes DEF PollPending
<1>21. ASSUME NEW t \in Tasks, NEW v \in Verdicts, PollAnswer(t, v) PROVE TypeOK'
  <2>1. PICK c \in Tasks \cup {NoTask} :
             /\ poll' = [poll EXCEPT ![t] =
                   [poll[t] EXCEPT !.pc = "settling", !.verdict = v, !.child = c]]
             /\ RegisterChild(c)
    BY <1>21 DEF PollAnswer, FollowUps, NextOccurrences
  <2>2. poll' \in [Tasks -> PollType]
    <3>1. [poll[t] EXCEPT !.pc = "settling", !.verdict = v, !.child = c] \in PollType
      <4>1. poll[t] \in PollType /\ "settling" \in PollPcs BY DEF PollPcs
      <4> QED BY <4>1, PollPcVerdict
    <3> QED BY <2>1, <3>1
  <2>3. taskJobs' \subseteq Tasks
    BY <2>1 DEF RegisterChild
  <2> QED BY <1>21, <2>2, <2>3 DEF PollAnswer
<1>22. ASSUME NEW t \in Tasks, PollCommit(t) PROVE TypeOK'
  <2>1. poll' \in [Tasks -> PollType]
    BY <1>22, IdleTypes DEF PollCommit
  <2>2. poll[t].verdict \in Statuses /\ poll[t].child \in Tasks \cup {NoTask}
    BY DEF PollType, Verdicts, Statuses
  <2>3. rows' \in [Tasks -> RowType] /\ progress' \in [Tasks -> Statuses \cup {"none"}]
    BY <1>22, <2>2, CommitTypes DEF PollCommit
  <2> QED BY <1>22, <2>1, <2>3, CountTypes DEF PollCommit
<1>23. ASSUME NEW t \in Tasks, PollGiveUpRead(t) \/ PollError(t) PROVE TypeOK'
  BY <1>23, IdleTypes DEF PollGiveUpRead, PollError, PollType, PollPcs
<1>24. ASSUME NEW t \in Tasks, PollGiveUpWrite(t) PROVE TypeOK'
  <2>1. poll' \in [Tasks -> PollType]
    BY <1>24, IdleTypes DEF PollGiveUpWrite
  <2>2. rows' \in [Tasks -> RowType] /\ progress' \in [Tasks -> Statuses \cup {"none"}]
    BY <1>24, CommitTypes DEF PollGiveUpWrite, Statuses
  <2> QED BY <1>24, <2>1, <2>2 DEF PollGiveUpWrite
<1>25. CASE Crash
  <2>1. \A c \in Clients : req'[c].pc = "idle"
    BY <1>25 DEF Crash, IdleReq
  <2> QED BY <1>25, <2>1, IdleTypes DEF Crash
<1>26. CASE UNCHANGED vars
  BY <1>26 DEF vars
<1> QED
  BY <1>1, <1>2, <1>3, <1>4, <1>5, <1>6, <1>7, <1>8, <1>9, <1>10, <1>11, <1>12, <1>13, <1>14,
     <1>15, <1>16, <1>17, <1>18, <1>19, <1>20, <1>21, <1>22, <1>23, <1>24, <1>25, <1>26
     DEF Next, Arrive, ReqStep, ExecStep, PollStep

(* Type correctness: whatever the service does, its rows, jobs, coroutines and
   counters keep their types, and no committed row holds CREATED. *)
THEOREM TypeCorrect == Spec => []TypeOK
<1>1. Init => TypeOK BY TypeInit
<1>2. TypeOK /\ [Next]_vars => TypeOK' BY TypeStep
<1> QED BY <1>1, <1>2, PTL DEF Spec

(***************************************************************************)
(* The commit of a verdict                                                 *)
(***************************************************************************)

(* What the commit of verdict v of t with child c does to row u.            *)
CommitPoint(t, v, c, u) ==
  /\ rows'[u].status = IF u = t THEN v ELSE IF u = c THEN "PENDING" ELSE rows[u].status
  /\ rows'[u].retry_count = IF u = c THEN 0 ELSE rows[u].retry_count
  /\ rows'[u].parent = IF u = c THEN t ELSE rows[u].parent
  /\ rows'[u].max_retries = IF u = c THEN rows[t].max_retries ELSE rows[u].max_retries
  /\ rows'[u].check_url = (u # c /\ rows[u].check_url)
  /\ progress'[u] = IF u = t THEN v ELSE IF u = c THEN "PENDING" ELSE progress[u]

(* The transaction does to each row what CommitPoint says.                  *)
LEMMA CommitFacts ==
  ASSUME TypeOK, NEW t \in Tasks, NEW v \in Verdicts, NEW c \in Tasks \cup {NoTask}, c # t,
         CommitVerdict(t, v, c), NEW u \in Tasks
  PROVE  CommitPoint(t, v, c, u)
<1>1. CASE u = t
  BY <1>1 DEF CommitPoint, CommitVerdict, TypeOK, RowType
<1>2. CASE u = c
  BY <1>2 DEF CommitPoint, CommitVerdict, ChildRow, Task
<1>3. CASE u # t /\ u # c
  BY <1>3 DEF CommitPoint, CommitVerdict, TypeOK, RowType
<1> QED BY <1>1, <1>2, <1>3

(***************************************************************************)
(* TypeOK, DriverInv and StatusInv                                         *)
(***************************************************************************)

(* Every step leaves each task with no other driver than its progress allows:
   jobs are registered by whoever stops driving, and dropped when they fire. *)
LEMMA DriverStep ==
  ASSUME TypeOK, StatusInv, DriverInv, InsertInv, [Next]_vars
  PROVE  DriverInv'
<1>1. ASSUME NEW c \in Clients, NEW t \in Tasks, NEW m \in RetryCaps, NEW rec \in BOOLEAN,
             CreateFlush(c, t, m, rec)
      PROVE  DriverInv'
  BY <1>1 DEF CreateFlush, Fresh, DriverInv, Marking, Running, HandingOver
<1>2. ASSUME NEW c \in Clients, NEW t \in Tasks, CancelRead(c, t)
      PROVE  DriverInv'
  BY <1>2 DEF CancelRead, DriverInv, Marking, Running, HandingOver
<1>3. ASSUME NEW c \in Clients, CreateCommit(c)
      PROVE  DriverInv'
  BY <1>3 DEF CreateCommit, DriverInv, InsertInv, Marking, Running, HandingOver
<1>4. ASSUME NEW c \in Clients, CancelFlush(c)
      PROVE  DriverInv'
  BY <1>4 DEF CancelFlush, DriverInv, Marking, Running, HandingOver
<1>5. ASSUME NEW c \in Clients, CancelCommit(c)
      PROVE  DriverInv'
  BY <1>5 DEF CancelCommit, SetStatus, DriverInv, Marking, Running, HandingOver
<1>6. ASSUME NEW c \in Clients, RequestError(c)
      PROVE  DriverInv'
  BY <1>6 DEF RequestError, DriverInv, Marking, Running, HandingOver
<1>7. ASSUME NEW t \in Tasks, FireTaskJob(t)
      PROVE  DriverInv'
  BY <1>7 DEF FireTaskJob, DriverInv, Marking, Running, HandingOver
<1>8. ASSUME NEW t \in Tasks, FirePollJob(t)
      PROVE  DriverInv'
  BY <1>8 DEF FirePollJob, TypeOK, DriverInv, Marking, Running, HandingOver
<1>9. ASSUME NEW t \in Tasks, Misfire(t)
      PROVE  DriverInv'
  BY <1>9 DEF Misfire, DriverInv, Marking, Running, HandingOver
<1>10. ASSUME NEW t \in Tasks, MarkRead(t)
      PROVE  DriverInv'
  BY <1>10 DEF MarkRead, Open, IdleExec, StatusInv, DriverInv, Marking, Running,
       HandingOver
<1>11. ASSUME NEW t \in Tasks, MarkWrite(t)
      PROVE  DriverInv'
  BY <1>11 DEF MarkWrite, SetStatus, IdleExec, TypeOK, StatusInv, DriverInv,
       Marking, Running, HandingOver
<1>12. ASSUME NEW t \in Tasks, AttemptPost(t)
      PROVE  DriverInv'
  BY <1>12 DEF AttemptPost, DriverInv, Marking, Running, HandingOver
<1>13. ASSUME NEW t \in Tasks, NEW r \in Responses, AttemptReturn(t, r)
      PROVE  DriverInv'
  BY <1>13 DEF AttemptReturn, DriverInv, Marking, Running, HandingOver
<1>14. ASSUME NEW t \in Tasks, ApplyRead(t) \/ GiveUpRead(t)
      PROVE  DriverInv'
  <2>1. CASE Open(t) /\ ApplyRead(t)
    BY <1>14, <2>1 DEF ApplyRead, DriverInv, Marking, Running, HandingOver
  <2>2. CASE Open(t) /\ GiveUpRead(t)
    BY <1>14, <2>2 DEF GiveUpRead, DriverInv, Marking, Running, HandingOver
  <2>3. CASE ~Open(t)
    BY <1>14, <2>3 DEF ApplyRead, GiveUpRead, IdleExec, TypeOK, DriverInv,
         InsertInv, Marking, Running, HandingOver
  <2> QED BY <1>14, <2>1, <2>2, <2>3
<1>15. ASSUME NEW t \in Tasks, ApplyFlush(t)
      PROVE  DriverInv'
  BY <1>15 DEF ApplyFlush, RegisterPoll, RegisterChild, FollowUps, NextOccurrences,
       Fresh, TypeOK, DriverInv, Marking, Running, HandingOver
<1>16. ASSUME NEW t \in Tasks, ApplyCommit(t)
      PROVE  DriverInv'
  <2>1. CASE exec[t].resp = "accepted"
    BY <1>16, <2>1 DEF ApplyCommit, IdleExec, TypeOK, DriverInv, Marking, Running,
         HandingOver
  <2>2. CASE exec[t].resp # "accepted"
    <3> DEFINE v == Verdict(exec[t].resp)  c == exec[t].child
    <3>1. c \in Tasks \cup {NoTask} /\ v \in Verdicts /\ c # t
      BY <1>16 DEF Verdict, Verdicts, TypeOK, ExecType, DriverInv, InsertInv,
           Running
    <3>2. CommitVerdict(t, v, c)
      BY <1>16, <2>2 DEF ApplyCommit
    <3>3. \A u \in Tasks : CommitPoint(t, v, c, u)
      BY <3>1, <3>2, CommitFacts
    <3>4. c # NoTask => v = "SUCCESS" /\ progress[c] = "none"
      BY DEF InsertInv, Verdict
    <3> HIDE DEF v
    <3> QED BY <1>16, <2>2, <3>1, <3>3, <3>4 DEF ApplyCommit, IdleExec, CommitPoint,
                 TypeOK, DriverInv, RowType, Marking, Running, HandingOver
  <2> QED BY <2>1, <2>2
<1>17. ASSUME NEW t \in Tasks, GiveUpWrite(t)
      PROVE  DriverInv'
  <2>1. \A u \in Tasks : CommitPoint(t, "FAILED", NoTask, u)
    BY <1>17, CommitFacts DEF GiveUpWrite, Verdicts
  <2> QED BY <1>17, <2>1 DEF GiveUpWrite, IdleExec, CommitPoint, TypeOK, DriverInv,
               RowType, Marking, Running, HandingOver
<1>18. ASSUME NEW t \in Tasks, ExecError(t)
      PROVE  DriverInv'
  BY <1>18 DEF ExecError, IdleExec, DriverInv, Marking, Running, HandingOver
<1>19. ASSUME NEW t \in Tasks, PollGet(t)
      PROVE  DriverInv'
  <2>1. CASE Open(t) /\ rows[t].check_url
    BY <1>19, <2>1 DEF PollGet, TypeOK, DriverInv, Marking, Running, HandingOver
  <2>2. CASE ~(Open(t) /\ rows[t].check_url)
    BY <1>19, <2>2 DEF PollGet, IdlePoll, TypeOK, DriverInv, RowType, Marking,
         Running, HandingOver
  <2> QED BY <1>19, <2>1, <2>2
<1>20. ASSUME NEW t \in Tasks, PollPending(t)
      PROVE  DriverInv'
  BY <1>20 DEF PollPending, DriverInv, Marking, Running, HandingOver
<1>21. ASSUME NEW t \in Tasks, NEW v \in Verdicts, PollAnswer(t, v)
      PROVE  DriverInv'
  BY <1>21 DEF PollAnswer, RegisterChild, FollowUps, NextOccurrences, Fresh, TypeOK,
       DriverInv, Marking, Running, HandingOver
<1>22. ASSUME NEW t \in Tasks, PollCommit(t)
      PROVE  DriverInv'
  <2> DEFINE v == poll[t].verdict  c == poll[t].child
  <2>1. c \in Tasks \cup {NoTask} /\ v \in Verdicts /\ c # t
    BY <1>22 DEF TypeOK, PollType, DriverInv, InsertInv
  <2>2. \A u \in Tasks : CommitPoint(t, v, c, u)
    BY <1>22, <2>1, CommitFacts DEF PollCommit
  <2>3. c # NoTask => v = "SUCCESS" /\ progress[c] = "none"
    BY DEF InsertInv
  <2> QED BY <1>22, <2>1, <2>2, <2>3 DEF PollCommit, IdlePoll, CommitPoint, TypeOK,
               DriverInv, RowType, Marking, Running, HandingOver
<1>23. ASSUME NEW t \in Tasks, PollGiveUpRead(t) \/ PollError(t)
      PROVE  DriverInv'
  <2>1. CASE Open(t) /\ PollGiveUpRead(t)
    BY <1>23, <2>1 DEF PollGiveUpRead, DriverInv, Marking, Running, HandingOver
  <2>2. CASE ~Open(t) /\ PollGiveUpRead(t)
    BY <1>23, <2>2 DEF PollGiveUpRead, DriverInv, Marking, Running, HandingOver
  <2>3. CASE PollError(t)
    BY <1>23, <2>3 DEF PollError, IdlePoll, DriverInv, Marking, Running, HandingOver
  <2> QED BY <1>23, <2>1, <2>2, <2>3
<1>24. ASSUME NEW t \in Tasks, PollGiveUpWrite(t)
      PROVE  DriverInv'
  <2>1. \A u \in Tasks : CommitPoint(t, "FAILED", NoTask, u)
    BY <1>24, CommitFacts DEF PollGiveUpWrite, Verdicts
  <2> QED BY <1>24, <2>1 DEF PollGiveUpWrite, IdlePoll, CommitPoint, TypeOK,
               DriverInv, RowType, Marking, Running, HandingOver
<1>25. CASE Crash
  BY <1>25 DEF Crash, IdleExec, IdlePoll, DriverInv, Marking, Running
<1>26. CASE UNCHANGED vars
  BY <1>26 DEF vars, DriverInv, Marking, Running, HandingOver
<1> QED
  BY <1>1, <1>2, <1>3, <1>4, <1>5, <1>6, <1>7, <1>8, <1>9, <1>10, <1>11, <1>12,
       <1>13, <1>14, <1>15, <1>16, <1>17, <1>18, <1>19, <1>20, <1>21, <1>22, <1>23,
       <1>24, <1>25, <1>26
     DEF Next, Arrive, ReqStep, ExecStep, PollStep

(* Every step keeps the status a reader sees at the scheduler's progress or at
   CANCELLED, and check_url unset until a run has been handed over.          *)
LEMMA StatusStep ==
  ASSUME TypeOK, StatusInv, DriverInv, InsertInv, [Next]_vars
  PROVE  StatusInv'
<1>1. ASSUME NEW c \in Clients, NEW t \in Tasks, NEW m \in RetryCaps, NEW rec \in BOOLEAN,
             CreateFlush(c, t, m, rec)
      PROVE  StatusInv'
  BY <1>1 DEF CreateFlush, StatusInv
<1>2. ASSUME NEW c \in Clients, NEW t \in Tasks, CancelRead(c, t)
      PROVE  StatusInv'
  BY <1>2 DEF CancelRead, StatusInv
<1>3. ASSUME NEW c \in Clients, CreateCommit(c)
      PROVE  StatusInv'
  BY <1>3 DEF CreateCommit, TypeOK, StatusInv, InsertInv
<1>4. ASSUME NEW c \in Clients, CancelFlush(c)
      PROVE  StatusInv'
  BY <1>4 DEF CancelFlush, StatusInv
<1>5. ASSUME NEW c \in Clients, CancelCommit(c)
      PROVE  StatusInv'
  BY <1>5 DEF CancelCommit, SetStatus, StatusInv, InsertInv
<1>6. ASSUME NEW c \in Clients, RequestError(c)
      PROVE  StatusInv'
  BY <1>6 DEF RequestError, StatusInv
<1>7. ASSUME NEW t \in Tasks, FireTaskJob(t)
      PROVE  StatusInv'
  BY <1>7 DEF FireTaskJob, StatusInv
<1>8. ASSUME NEW t \in Tasks, FirePollJob(t)
      PROVE  StatusInv'
  BY <1>8 DEF FirePollJob, StatusInv
<1>9. ASSUME NEW t \in Tasks, Misfire(t)
      PROVE  StatusInv'
  BY <1>9 DEF Misfire, StatusInv
<1>10. ASSUME NEW t \in Tasks, MarkRead(t)
      PROVE  StatusInv'
  BY <1>10 DEF MarkRead, StatusInv
<1>11. ASSUME NEW t \in Tasks, MarkWrite(t)
      PROVE  StatusInv'
  BY <1>11 DEF MarkWrite, SetStatus, TypeOK, StatusInv
<1>12. ASSUME NEW t \in Tasks, AttemptPost(t)
      PROVE  StatusInv'
  BY <1>12 DEF AttemptPost, StatusInv
<1>13. ASSUME NEW t \in Tasks, NEW r \in Responses, AttemptReturn(t, r)
      PROVE  StatusInv'
  BY <1>13 DEF AttemptReturn, StatusInv
<1>14. ASSUME NEW t \in Tasks, ApplyRead(t) \/ GiveUpRead(t)
      PROVE  StatusInv'
  <2>1. CASE Open(t) /\ ApplyRead(t)
    BY <1>14, <2>1 DEF ApplyRead, StatusInv
  <2>2. CASE Open(t) /\ GiveUpRead(t)
    BY <1>14, <2>2 DEF GiveUpRead, StatusInv
  <2>3. CASE ~Open(t)
    BY <1>14, <2>3 DEF ApplyRead, GiveUpRead, StatusInv
  <2> QED BY <1>14, <2>1, <2>2, <2>3
<1>15. ASSUME NEW t \in Tasks, ApplyFlush(t)
      PROVE  StatusInv'
  BY <1>15 DEF ApplyFlush, StatusInv
<1>16. ASSUME NEW t \in Tasks, ApplyCommit(t)
      PROVE  StatusInv'
  <2>1. CASE exec[t].resp = "accepted"
    BY <1>16, <2>1 DEF ApplyCommit, IdleExec, TypeOK, StatusInv, DriverInv,
         InsertInv, NoRow, Task, RowType, ExecType, PollType, ReqType, Marking,
         Running, HandingOver
  <2>2. CASE exec[t].resp # "accepted"
    <3> DEFINE v == Verdict(exec[t].resp)  c == exec[t].child
    <3>1. c \in Tasks \cup {NoTask} /\ v \in Verdicts /\ c # t
      BY <1>16 DEF Verdict, Verdicts, TypeOK, ExecType, DriverInv, InsertInv,
           Running
    <3>2. CommitVerdict(t, v, c)
      BY <1>16, <2>2 DEF ApplyCommit
    <3>3. \A u \in Tasks : CommitPoint(t, v, c, u)
      BY <3>1, <3>2, CommitFacts
    <3>4. c # NoTask => v = "SUCCESS" /\ progress[c] = "none"
      BY DEF InsertInv, Verdict
    <3> HIDE DEF v
    <3> QED BY <1>16, <2>2, <3>1, <3>3, <3>4 DEF CommitPoint, Verdicts, TypeOK,
                 StatusInv, RowType
  <2> QED BY <2>1, <2>2
<1>17. ASSUME NEW t \in Tasks, GiveUpWrite(t)
      PROVE  StatusInv'
  <2>1. \A u \in Tasks : CommitPoint(t, "FAILED", NoTask, u)
    BY <1>17, CommitFacts DEF GiveUpWrite, Verdicts
  <2> QED BY <1>17, <2>1 DEF CommitPoint, TypeOK, StatusInv, RowType
<1>18. ASSUME NEW t \in Tasks, ExecError(t)
      PROVE  StatusInv'
  BY <1>18 DEF ExecError, StatusInv
<1>19. ASSUME NEW t \in Tasks, PollGet(t)
      PROVE  StatusInv'
  <2>1. CASE Open(t) /\ rows[t].check_url
    BY <1>19, <2>1 DEF PollGet, StatusInv
  <2>2. CASE ~(Open(t) /\ rows[t].check_url)
    BY <1>19, <2>2 DEF PollGet, StatusInv
  <2> QED BY <1>19, <2>1, <2>2
<1>20. ASSUME NEW t \in Tasks, PollPending(t)
      PROVE  StatusInv'
  BY <1>20 DEF PollPending, StatusInv
<1>21. ASSUME NEW t \in Tasks, NEW v \in Verdicts, PollAnswer(t, v)
      PROVE  StatusInv'
  BY <1>21 DEF PollAnswer, StatusInv
<1>22. ASSUME NEW t \in Tasks, PollCommit(t)
      PROVE  StatusInv'
  <2> DEFINE v == poll[t].verdict  c == poll[t].child
  <2>1. c \in Tasks \cup {NoTask} /\ v \in Verdicts /\ c # t
    BY <1>22 DEF TypeOK, PollType, DriverInv, InsertInv
  <2>2. \A u \in Tasks : CommitPoint(t, v, c, u)
    BY <1>22, <2>1, CommitFacts DEF PollCommit
  <2>3. c # NoTask => v = "SUCCESS" /\ progress[c] = "none"
    BY DEF InsertInv
  <2> QED BY <1>22, <2>1, <2>2, <2>3 DEF CommitPoint, Verdicts, TypeOK, StatusInv,
               RowType
<1>23. ASSUME NEW t \in Tasks, PollGiveUpRead(t) \/ PollError(t)
      PROVE  StatusInv'
  <2>1. CASE Open(t) /\ PollGiveUpRead(t)
    BY <1>23, <2>1 DEF PollGiveUpRead, StatusInv
  <2>2. CASE ~Open(t) /\ PollGiveUpRead(t)
    BY <1>23, <2>2 DEF PollGiveUpRead, StatusInv
  <2>3. CASE PollError(t)
    BY <1>23, <2>3 DEF PollError, StatusInv
  <2> QED BY <1>23, <2>1, <2>2, <2>3
<1>24. ASSUME NEW t \in Tasks, PollGiveUpWrite(t)
      PROVE  StatusInv'
  <2>1. \A u \in Tasks : CommitPoint(t, "FAILED", NoTask, u)
    BY <1>24, CommitFacts DEF PollGiveUpWrite, Verdicts
  <2> QED BY <1>24, <2>1 DEF CommitPoint, TypeOK, StatusInv, RowType
<1>25. CASE Crash
  BY <1>25 DEF Crash, StatusInv
<1>26. CASE UNCHANGED vars
  BY <1>26 DEF vars, StatusInv
<1> QED
  BY <1>1, <1>2, <1>3, <1>4, <1>5, <1>6, <1>7, <1>8, <1>9, <1>10, <1>11, <1>12,
       <1>13, <1>14, <1>15, <1>16, <1>17, <1>18, <1>19, <1>20, <1>21, <1>22, <1>23,
       <1>24, <1>25, <1>26
     DEF Next, Arrive, ReqStep, ExecStep, PollStep

(***************************************************************************)
(* InsertInv                                                               *)
(***************************************************************************)

(* A step that starts no insertion: requests stay, a flushed child is kept or
   given up, and a row that appears is nobody's pending insertion any more.  *)
InsertsShrink ==
  /\ UNCHANGED req
  /\ \A p \in Tasks :
       /\ exec'[p].child # NoTask => /\ exec'[p].child = exec[p].child
                                     /\ exec'[p].pc = exec[p].pc
                                     /\ exec'[p].resp = exec[p].resp
       /\ poll'[p].child # NoTask => /\ poll'[p].child = poll[p].child
                                     /\ poll'[p].pc = poll[p].pc
                                     /\ poll'[p].verdict = poll[p].verdict
       /\ progress[p] # "none" => progress'[p] # "none"
       /\ progress[p] = "none" /\ progress'[p] # "none" =>
            /\ \A q \in Tasks : p \notin {exec'[q].child, poll'[q].child}
            /\ \A c \in Clients : req[c].pc = "creating" => req[c].task # p

(* Such a step keeps the pending insertions apart.                          *)
LEMMA InsertsShrinkInv ==
  ASSUME TypeOK, TypeOK', InsertInv, InsertsShrink PROVE InsertInv'
<1>1. ASSUME NEW c \in Clients
      PROVE /\ req[c].pc = "creating" =>
                 /\ progress'[req[c].task] = "none"
                 /\ \A p \in Tasks : req[c].task \notin {exec'[p].child, poll'[p].child}
            /\ req[c].pc \in {"cancelRead", "cancelling"} => progress'[req[c].task] # "none"
  BY DEF TypeOK, InsertInv, InsertsShrink
<1>2. ASSUME NEW p \in Tasks
      PROVE /\ exec'[p].child # NoTask => /\ progress'[exec'[p].child] = "none"
                                          /\ exec'[p].pc = "settling" /\ exec'[p].resp = "ok"
            /\ poll'[p].child # NoTask => /\ progress'[poll'[p].child] = "none"
                                          /\ poll'[p].pc = "settling" /\ poll'[p].verdict = "SUCCESS"
  BY DEF TypeOK, InsertInv, InsertsShrink, ExecType, PollType
<1>3. ASSUME NEW p \in Tasks, NEW q \in Tasks
      PROVE /\ exec'[p].child # NoTask /\ exec'[p].child = exec'[q].child => p = q
            /\ poll'[p].child # NoTask /\ poll'[p].child = poll'[q].child => p = q
            /\ exec'[p].child # NoTask => exec'[p].child # poll'[q].child
  BY DEF InsertInv, InsertsShrink
<1> QED
  BY <1>1, <1>2, <1>3 DEF InsertInv, InsertsShrink

(* Every step keeps the ids of pending insertions unused and apart: new ones
   are fresh, and a commit or a rollback takes its own away.                 *)
LEMMA InsertStep ==
  ASSUME TypeOK, StatusInv, DriverInv, InsertInv, TypeOK', [Next]_vars
  PROVE  InsertInv'
<1>1. ASSUME NEW c \in Clients, NEW t \in Tasks, NEW m \in RetryCaps, NEW rec \in BOOLEAN,
             CreateFlush(c, t, m, rec)
      PROVE  InsertInv'
  BY <1>1 DEF CreateFlush, Fresh, InsertInv, Inserting, Task
<1>2. ASSUME NEW c \in Clients, NEW t \in Tasks, CancelRead(c, t)
      PROVE  InsertInv'
  BY <1>2 DEF CancelRead, Open, StatusInv, InsertInv
<1>3. ASSUME NEW c \in Clients, CreateCommit(c)
      PROVE  InsertInv'
  BY <1>3 DEF CreateCommit, IdleReq, TypeOK, InsertInv
<1>4. ASSUME NEW c \in Clients, CancelFlush(c)
      PROVE  InsertInv'
  BY <1>4 DEF CancelFlush, InsertInv
<1>5. ASSUME NEW c \in Clients, CancelCommit(c)
      PROVE  InsertInv'
  BY <1>5 DEF CancelCommit, IdleReq, InsertInv
<1>6. ASSUME NEW c \in Clients, RequestError(c)
      PROVE  InsertInv'
  BY <1>6 DEF RequestError, IdleReq, InsertInv
<1>7. ASSUME NEW t \in Tasks, FireTaskJob(t)
      PROVE  InsertInv'
  BY <1>7 DEF FireTaskJob, InsertInv
<1>8. ASSUME NEW t \in Tasks, FirePollJob(t)
      PROVE  InsertInv'
  BY <1>8 DEF FirePollJob, TypeOK, InsertInv, PollType
<1>9. ASSUME NEW t \in Tasks, Misfire(t)
      PROVE  InsertInv'
  BY <1>9 DEF Misfire, InsertInv
<1>10. ASSUME NEW t \in Tasks, MarkRead(t)
      PROVE  InsertInv'
  BY <1>10 DEF MarkRead, IdleExec, InsertInv
<1>11. ASSUME NEW t \in Tasks, MarkWrite(t)
      PROVE  InsertInv'
  BY <1>11 DEF MarkWrite, IdleExec, DriverInv, InsertInv
<1>12. ASSUME NEW t \in Tasks, AttemptPost(t)
      PROVE  InsertInv'
  BY <1>12 DEF AttemptPost, InsertInv
<1>13. ASSUME NEW t \in Tasks, NEW r \in Responses, AttemptReturn(t, r)
      PROVE  InsertInv'
  BY <1>13 DEF AttemptReturn, TypeOK, StatusInv, DriverInv, InsertInv, Inserting,
       Task, RowType, ExecType, PollType, ReqType, Marking, Running, HandingOver
<1>14. ASSUME NEW t \in Tasks, ApplyRead(t) \/ GiveUpRead(t)
      PROVE  InsertInv'
  <2>1. exec[t].child = NoTask
    BY <1>14 DEF ApplyRead, GiveUpRead, InsertInv
  <2>2. InsertsShrink
    BY <1>14, <2>1 DEF ApplyRead, GiveUpRead, IdleExec, InsertsShrink, TypeOK,
         ExecType
  <2> QED BY <2>2, InsertsShrinkInv
<1>15. ASSUME NEW t \in Tasks, ApplyFlush(t)
      PROVE  InsertInv'
  <2>1. PICK k \in FollowUps(t, Verdict(exec[t].resp)) :
               exec' = [exec EXCEPT ![t] = [exec[t] EXCEPT !.pc = "settling", !.child = k]]
    BY <1>15 DEF ApplyFlush
  <2>2. k # NoTask => k \in Tasks /\ Fresh(k) /\ exec[t].resp = "ok"
    BY DEF FollowUps, NextOccurrences, Verdict
  <2>3. \A p \in Tasks : /\ exec'[p].child = IF p = t THEN k ELSE exec[p].child
                         /\ exec'[p].pc = IF p = t THEN "settling" ELSE exec[p].pc
                         /\ exec'[p].resp = exec[p].resp
    BY <2>1 DEF TypeOK, ExecType
  <2>4. UNCHANGED <<poll, req, progress>>
    BY <1>15 DEF ApplyFlush
  <2>5. k # NoTask => /\ progress[k] = "none"
                      /\ \A p \in Tasks : k \notin {exec[p].child, poll[p].child}
                      /\ \A c \in Clients : req[c].pc = "creating" => req[c].task # k
    BY <2>2 DEF Fresh, Inserting
  <2>6. ASSUME NEW c \in Clients
        PROVE  /\ req[c].pc = "creating" =>
                    \A p \in Tasks : req[c].task \notin {exec'[p].child, poll'[p].child}
               /\ req'[c] = req[c]
    BY <2>3, <2>4, <2>5, NoTaskAssumption DEF InsertInv, TypeOK, ReqType
  <2>7. ASSUME NEW p \in Tasks
        PROVE  /\ exec'[p].child # NoTask => /\ progress[exec'[p].child] = "none"
                                             /\ exec'[p].pc = "settling"
                                             /\ exec'[p].resp = "ok"
               /\ poll'[p].child # NoTask => /\ progress[poll'[p].child] = "none"
                                             /\ poll'[p].pc = "settling"
                                             /\ poll'[p].verdict = "SUCCESS"
    BY <2>2, <2>3, <2>4, <2>5 DEF InsertInv
  <2>8. ASSUME NEW p \in Tasks, NEW q \in Tasks
        PROVE  /\ exec'[p].child # NoTask /\ exec'[p].child = exec'[q].child => p = q
               /\ poll'[p].child # NoTask /\ poll'[p].child = poll'[q].child => p = q
               /\ exec'[p].child # NoTask => exec'[p].child # poll'[q].child
    BY <2>3, <2>4, <2>5 DEF InsertInv
  <2> QED
    BY <2>4, <2>6, <2>7, <2>8 DEF InsertInv
<1>16. ASSUME NEW t \in Tasks, ApplyCommit(t)
      PROVE  InsertInv'
  <2> DEFINE v == Verdict(exec[t].resp)  c == exec[t].child
  <2>0. \A p \in Tasks : exec'[p] = IF p = t THEN IdleExec ELSE exec[p]
    BY <1>16 DEF ApplyCommit, TypeOK
  <2>1. CASE exec[t].resp = "accepted"
    BY <1>16, <2>0, <2>1, InsertsShrinkInv DEF ApplyCommit, IdleExec, InsertsShrink
  <2>2. CASE exec[t].resp # "accepted"
    <3>1. c \in Tasks \cup {NoTask} /\ v \in Verdicts /\ c # t
      BY <1>16 DEF ApplyCommit, Verdict, Verdicts, TypeOK, ExecType, DriverInv,
           InsertInv, Running
    <3>2. CommitVerdict(t, v, c)
      BY <1>16, <2>2 DEF ApplyCommit
    <3>3. \A u \in Tasks : CommitPoint(t, v, c, u)
      BY <3>1, <3>2, CommitFacts
    <3>4. progress[t] # "none"
      BY <1>16 DEF ApplyCommit, DriverInv, Running
    <3>5. \A q \in Tasks : c # NoTask => c \notin {exec'[q].child, poll[q].child}
      BY <2>0 DEF InsertInv, IdleExec
    <3>6. \A d \in Clients : c # NoTask /\ req[d].pc = "creating" => req[d].task # c
      BY DEF InsertInv
    <3>7. InsertsShrink
      BY <1>16, <2>0, <3>1, <3>3, <3>4, <3>5, <3>6 DEF ApplyCommit, IdleExec,
           InsertsShrink, CommitPoint, Verdicts
    <3> QED BY <3>7, InsertsShrinkInv
  <2> QED BY <2>1, <2>2
<1>17. ASSUME NEW t \in Tasks, GiveUpWrite(t)
      PROVE  InsertInv'
  <2>0. \A p \in Tasks : exec'[p] = IF p = t THEN IdleExec ELSE exec[p]
    BY <1>17 DEF GiveUpWrite, TypeOK
  <2>1. \A u \in Tasks : CommitPoint(t, "FAILED", NoTask, u)
    BY <1>17, CommitFacts DEF GiveUpWrite, Verdicts
  <2>2. progress[t] # "none"
    BY <1>17 DEF GiveUpWrite, DriverInv, Running
  <2>3. InsertsShrink
    BY <1>17, <2>0, <2>1, <2>2 DEF GiveUpWrite, IdleExec, InsertsShrink, CommitPoint
  <2> QED BY <2>3, InsertsShrinkInv
<1>18. ASSUME NEW t \in Tasks, ExecError(t)
      PROVE  InsertInv'
  BY <1>18 DEF ExecError, IdleExec, DriverInv, InsertInv, Running
<1>19. ASSUME NEW t \in Tasks, PollGet(t)
      PROVE  InsertInv'
  <2>1. poll[t].child = NoTask
    BY <1>19 DEF PollGet, InsertInv
  <2>2. InsertsShrink
    BY <1>19, <2>1 DEF PollGet, IdlePoll, InsertsShrink, TypeOK, PollType
  <2> QED BY <2>2, InsertsShrinkInv
<1>20. ASSUME NEW t \in Tasks, PollPending(t)
      PROVE  InsertInv'
  BY <1>20 DEF PollPending, InsertInv
<1>21. ASSUME NEW t \in Tasks, NEW v \in Verdicts, PollAnswer(t, v)
      PROVE  InsertInv'
  <2>1. PICK k \in FollowUps(t, v) :
               poll' = [poll EXCEPT ![t] =
                          [@ EXCEPT !.pc = "settling", !.verdict = v, !.child = k]]
    BY <1>21 DEF PollAnswer
  <2>2. k # NoTask => k \in Tasks /\ Fresh(k) /\ v = "SUCCESS"
    BY DEF FollowUps, NextOccurrences
  <2>3. \A p \in Tasks : /\ poll'[p].child = IF p = t THEN k ELSE poll[p].child
                         /\ poll'[p].pc = IF p = t THEN "settling" ELSE poll[p].pc
                         /\ poll'[p].verdict = IF p = t THEN v ELSE poll[p].verdict
    BY <2>1 DEF TypeOK, PollType
  <2>4. UNCHANGED <<exec, req, progress>>
    BY <1>21 DEF PollAnswer
  <2>5. k # NoTask => /\ progress[k] = "none"
                      /\ \A p \in Tasks : k \notin {exec[p].child, poll[p].child}
                      /\ \A c \in Clients : req[c].pc = "creating" => req[c].task # k
    BY <2>2 DEF Fresh, Inserting
  <2>6. ASSUME NEW c \in Clients
        PROVE  /\ req[c].pc = "creating" =>
                    \A p \in Tasks : req[c].task \notin {exec'[p].child, poll'[p].child}
               /\ req'[c] = req[c]
    BY <2>3, <2>4, <2>5, NoTaskAssumption DEF InsertInv, TypeOK, ReqType
  <2>7. ASSUME NEW p \in Tasks
        PROVE  /\ exec'[p].child # NoTask => /\ progress[exec'[p].child] = "none"
                                             /\ exec'[p].pc = "settling"
                                             /\ exec'[p].resp = "ok"
               /\ poll'[p].child # NoTask => /\ progress[poll'[p].child] = "none"
                                             /\ poll'[p].pc = "settling"
                                             /\ poll'[p].verdict = "SUCCESS"
    BY <2>2, <2>3, <2>4, <2>5 DEF InsertInv
  <2>8. ASSUME NEW p \in Tasks, NEW q \in Tasks
        PROVE  /\ exec'[p].child # NoTask /\ exec'[p].child = exec'[q].child => p = q
               /\ poll'[p].child # NoTask /\ poll'[p].child = poll'[q].child => p = q
               /\ exec'[p].child # NoTask => exec'[p].child # poll'[q].child
    BY <2>3, <2>4, <2>5 DEF InsertInv
  <2> QED
    BY <2>4, <2>6, <2>7, <2>8 DEF InsertInv
<1>22. ASSUME NEW t \in Tasks, PollCommit(t)
      PROVE  InsertInv'
  <2> DEFINE v == poll[t].verdict  c == poll[t].child
  <2>0. \A p \in Tasks : poll'[p] = IF p = t THEN IdlePoll ELSE poll[p]
    BY <1>22 DEF PollCommit, TypeOK
  <2>1. c \in Tasks \cup {NoTask} /\ v \in Verdicts /\ c # t
    BY <1>22 DEF TypeOK, PollType, DriverInv, InsertInv
  <2>3. \A u \in Tasks : CommitPoint(t, v, c, u)
    BY <1>22, <2>1, CommitFacts DEF PollCommit
  <2>4. progress[t] # "none"
    BY <1>22 DEF PollCommit, DriverInv
  <2>5. \A q \in Tasks : c # NoTask => c \notin {exec[q].child, poll'[q].child}
    BY <2>0 DEF InsertInv, IdlePoll
  <2>6. \A d \in Clients : c # NoTask /\ req[d].pc = "creating" => req[d].task # c
    BY DEF InsertInv
  <2>7. InsertsShrink
    BY <1>22, <2>0, <2>1, <2>3, <2>4, <2>5, <2>6 DEF PollCommit, IdlePoll,
         InsertsShrink, CommitPoint, Verdicts
  <2> QED BY <2>7, InsertsShrinkInv
<1>23. ASSUME NEW t \in Tasks, PollGiveUpRead(t) \/ PollError(t)
      PROVE  InsertInv'
  <2>1. CASE Open(t) /\ PollGiveUpRead(t)
    BY <1>23, <2>1 DEF PollGiveUpRead, InsertInv
  <2>2. CASE ~Open(t) /\ PollGiveUpRead(t)
    BY <1>23, <2>2 DEF PollGiveUpRead, IdlePoll, InsertInv
  <2>3. CASE PollError(t)
    BY <1>23, <2>3 DEF PollError, IdlePoll, DriverInv, InsertInv, Running
  <2> QED BY <1>23, <2>1, <2>2, <2>3
<1>24. ASSUME NEW t \in Tasks, PollGiveUpWrite(t)
      PROVE  InsertInv'
  <2>0. \A p \in Tasks : poll'[p] = IF p = t THEN IdlePoll ELSE poll[p]
    BY <1>24 DEF PollGiveUpWrite, TypeOK
  <2>1. \A u \in Tasks : CommitPoint(t, "FAILED", NoTask, u)
    BY <1>24, CommitFacts DEF PollGiveUpWrite, Verdicts
  <2>2. progress[t] # "none"
    BY <1>24 DEF PollGiveUpWrite, DriverInv
  <2>3. InsertsShrink
    BY <1>24, <2>0, <2>1, <2>2 DEF PollGiveUpWrite, IdlePoll, InsertsShrink,
         CommitPoint
  <2> QED BY <2>3, InsertsShrinkInv
<1>25. CASE Crash
  BY <1>25 DEF Crash, IdleExec, IdlePoll, IdleReq, InsertInv
<1>26. CASE UNCHANGED vars
  BY <1>26 DEF vars, InsertInv
<1> QED
  BY <1>1, <1>2, <1>3, <1>4, <1>5, <1>6, <1>7, <1>8, <1>9, <1>10, <1>11, <1>12,
       <1>13, <1>14, <1>15, <1>16, <1>17, <1>18, <1>19, <1>20, <1>21, <1>22, <1>23,
       <1>24, <1>25, <1>26
     DEF Next, Arrive, ReqStep, ExecStep, PollStep

(***************************************************************************)
(* FollowUpsSound                                                          *)
(***************************************************************************)

(* The commit of the verdict of a running task adds at most the first child
   of a task that thereby becomes SUCCESS.                                   *)
LEMMA FollowCommit ==
  ASSUME TypeOK, StatusInv, FollowUpsSound,
         NEW t \in Tasks, NEW v \in Verdicts, NEW c \in Tasks \cup {NoTask}, c # t,
         CommitVerdict(t, v, c), progress[t] = "RUNNING",
         c # NoTask => v = "SUCCESS" /\ progress[c] = "none"
  PROVE  FollowUpsSound'
<1>1. \A u \in Tasks : CommitPoint(t, v, c, u)
  BY CommitFacts
<1>2. \A u \in Tasks : rows[u].parent \in Tasks \cup {NoTask} /\ rows[u].parent # t
  BY DEF TypeOK, RowType, FollowUpsSound
<1>3. ASSUME NEW x \in Tasks, rows'[x].parent # NoTask
      PROVE  progress'[rows'[x].parent] = "SUCCESS"
  <2>1. CASE x = c
    BY <1>1, <2>1 DEF CommitPoint
  <2>2. CASE x # c
    <3>1. rows'[x].parent = rows[x].parent /\ progress[rows[x].parent] = "SUCCESS"
      BY <1>1, <1>3, <2>2 DEF CommitPoint, FollowUpsSound
    <3> QED BY <1>1, <1>2, <1>3, <3>1 DEF CommitPoint
  <2> QED BY <2>1, <2>2
<1>4. ASSUME NEW x \in Tasks, NEW y \in Tasks, rows'[x].parent # NoTask,
             rows'[y].parent = rows'[x].parent
      PROVE  y = x
  BY <1>1, <1>2, <1>4 DEF CommitPoint, FollowUpsSound
<1> QED BY <1>3, <1>4 DEF FollowUpsSound

(* Every step keeps follow-ups to one per run, and to runs that succeeded.  *)
LEMMA FollowStep ==
  ASSUME TypeOK, StatusInv, DriverInv, InsertInv, FollowUpsSound, [Next]_vars
  PROVE  FollowUpsSound'
<1>1. ASSUME NEW c \in Clients, NEW t \in Tasks, NEW m \in RetryCaps, NEW rec \in BOOLEAN,
             CreateFlush(c, t, m, rec)
      PROVE  FollowUpsSound'
  BY <1>1 DEF CreateFlush, StatusInv, FollowUpsSound
<1>2. ASSUME NEW c \in Clients, NEW t \in Tasks, CancelRead(c, t)
      PROVE  FollowUpsSound'
  BY <1>2 DEF CancelRead, StatusInv, FollowUpsSound
<1>3. ASSUME NEW c \in Clients, CreateCommit(c)
      PROVE  FollowUpsSound'
  BY <1>3 DEF CreateCommit, StatusInv, InsertInv, FollowUpsSound
<1>4. ASSUME NEW c \in Clients, CancelFlush(c)
      PROVE  FollowUpsSound'
  BY <1>4 DEF CancelFlush, StatusInv, FollowUpsSound
<1>5. ASSUME NEW c \in Clients, CancelCommit(c)
      PROVE  FollowUpsSound'
  BY <1>5 DEF CancelCommit, SetStatus, StatusInv, FollowUpsSound
<1>6. ASSUME NEW c \in Clients, RequestError(c)
      PROVE  FollowUpsSound'
  BY <1>6 DEF RequestError, StatusInv, FollowUpsSound
<1>7. ASSUME NEW t \in Tasks, FireTaskJob(t)
      PROVE  FollowUpsSound'
  BY <1>7 DEF FireTaskJob, StatusInv, FollowUpsSound
<1>8. ASSUME NEW t \in Tasks, FirePollJob(t)
      PROVE  FollowUpsSound'
  BY <1>8 DEF FirePollJob, StatusInv, FollowUpsSound
<1>9. ASSUME NEW t \in Tasks, Misfire(t)
      PROVE  FollowUpsSound'
  BY <1>9 DEF Misfire, StatusInv, FollowUpsSound
<1>10. ASSUME NEW t \in Tasks, MarkRead(t)
      PROVE  FollowUpsSound'
  BY <1>10 DEF MarkRead, StatusInv, FollowUpsSound
<1>11. ASSUME NEW t \in Tasks, MarkWrite(t)
      PROVE  FollowUpsSound'
  BY <1>11 DEF MarkWrite, SetStatus, StatusInv, DriverInv, FollowUpsSound
<1>12. ASSUME NEW t \in Tasks, AttemptPost(t)
      PROVE  FollowUpsSound'
  BY <1>12 DEF AttemptPost, StatusInv, FollowUpsSound
<1>13. ASSUME NEW t \in Tasks, NEW r \in Responses, AttemptReturn(t, r)
      PROVE  FollowUpsSound'
  BY <1>13 DEF AttemptReturn, StatusInv, FollowUpsSound
<1>14. ASSUME NEW t \in Tasks, ApplyRead(t) \/ GiveUpRead(t)
      PROVE  FollowUpsSound'
  <2>1. CASE Open(t) /\ ApplyRead(t)
    BY <1>14, <2>1 DEF ApplyRead, StatusInv, FollowUpsSound
  <2>2. CASE Open(t) /\ GiveUpRead(t)
    BY <1>14, <2>2 DEF GiveUpRead, StatusInv, FollowUpsSound
  <2>3. CASE ~Open(t)
    BY <1>14, <2>3 DEF ApplyRead, GiveUpRead, StatusInv, FollowUpsSound
  <2> QED BY <1>14, <2>1, <2>2, <2>3
<1>15. ASSUME NEW t \in Tasks, ApplyFlush(t)
      PROVE  FollowUpsSound'
  BY <1>15 DEF ApplyFlush, StatusInv, FollowUpsSound
<1>16. ASSUME NEW t \in Tasks, ApplyCommit(t)
      PROVE  FollowUpsSound'
  <2>1. CASE exec[t].resp = "accepted"
    <3>1. \A u \in Tasks : rows'[u].parent = rows[u].parent
      BY <1>16, <2>1 DEF ApplyCommit, TypeOK, RowType
    <3> QED BY <1>16, <2>1, <3>1 DEF ApplyCommit, FollowUpsSound
  <2>2. CASE exec[t].resp # "accepted"
    <3> DEFINE v == Verdict(exec[t].resp)  c == exec[t].child
    <3>1. c \in Tasks \cup {NoTask} /\ v \in Verdicts /\ c # t
      BY <1>16 DEF Verdict, Verdicts, TypeOK, ExecType, DriverInv, InsertInv,
           Running
    <3>2. CommitVerdict(t, v, c)
      BY <1>16, <2>2 DEF ApplyCommit
    <3>3. progress[t] = "RUNNING"
      BY <1>16 DEF ApplyCommit, DriverInv, Running
    <3>4. c # NoTask => v = "SUCCESS" /\ progress[c] = "none"
      BY DEF InsertInv, Verdict
    <3> HIDE DEF v, c
    <3> QED BY <3>1, <3>2, <3>3, <3>4, FollowCommit
  <2> QED BY <2>1, <2>2
<1>17. ASSUME NEW t \in Tasks, GiveUpWrite(t)
      PROVE  FollowUpsSound'
  BY <1>17, FollowCommit DEF GiveUpWrite, DriverInv, Running, Verdicts
<1>18. ASSUME NEW t \in Tasks, ExecError(t)
      PROVE  FollowUpsSound'
  BY <1>18 DEF ExecError, StatusInv, FollowUpsSound
<1>19. ASSUME NEW t \in Tasks, PollGet(t)
      PROVE  FollowUpsSound'
  <2>1. CASE Open(t) /\ rows[t].check_url
    BY <1>19, <2>1 DEF PollGet, StatusInv, FollowUpsSound
  <2>2. CASE ~(Open(t) /\ rows[t].check_url)
    BY <1>19, <2>2 DEF PollGet, IdlePoll, StatusInv, FollowUpsSound
  <2> QED BY <1>19, <2>1, <2>2
<1>20. ASSUME NEW t \in Tasks, PollPending(t)
      PROVE  FollowUpsSound'
  BY <1>20 DEF PollPending, StatusInv, FollowUpsSound
<1>21. ASSUME NEW t \in Tasks, NEW v \in Verdicts, PollAnswer(t, v)
      PROVE  FollowUpsSound'
  BY <1>21 DEF PollAnswer, StatusInv, FollowUpsSound
<1>22. ASSUME NEW t \in Tasks, PollCommit(t)
      PROVE  FollowUpsSound'
  <2> DEFINE v == poll[t].verdict  c == poll[t].child
  <2>1. c \in Tasks \cup {NoTask} /\ v \in Verdicts /\ c # t
    BY <1>22 DEF TypeOK, PollType, DriverInv, InsertInv
  <2>2. CommitVerdict(t, v, c)
    BY <1>22 DEF PollCommit
  <2>3. progress[t] = "RUNNING"
    BY <1>22 DEF PollCommit, DriverInv
  <2>4. c # NoTask => v = "SUCCESS" /\ progress[c] = "none"
    BY DEF InsertInv
  <2> HIDE DEF v, c
  <2> QED BY <2>1, <2>2, <2>3, <2>4, FollowCommit
<1>23. ASSUME NEW t \in Tasks, PollGiveUpRead(t) \/ PollError(t)
      PROVE  FollowUpsSound'
  <2>1. CASE Open(t) /\ PollGiveUpRead(t)
    BY <1>23, <2>1 DEF PollGiveUpRead, StatusInv, FollowUpsSound
  <2>2. CASE ~Open(t) /\ PollGiveUpRead(t)
    BY <1>23, <2>2 DEF PollGiveUpRead, IdlePoll, StatusInv, FollowUpsSound
  <2>3. CASE PollError(t)
    BY <1>23, <2>3 DEF PollError, IdlePoll, StatusInv, FollowUpsSound
  <2> QED BY <1>23, <2>1, <2>2, <2>3
<1>24. ASSUME NEW t \in Tasks, PollGiveUpWrite(t)
      PROVE  FollowUpsSound'
  BY <1>24, FollowCommit DEF PollGiveUpWrite, DriverInv, Verdicts
<1>25. CASE Crash
  BY <1>25 DEF Crash, IdlePoll, StatusInv, FollowUpsSound
<1>26. CASE UNCHANGED vars
  BY <1>26 DEF vars, StatusInv, FollowUpsSound
<1> QED
  BY <1>1, <1>2, <1>3, <1>4, <1>5, <1>6, <1>7, <1>8, <1>9, <1>10, <1>11, <1>12,
       <1>13, <1>14, <1>15, <1>16, <1>17, <1>18, <1>19, <1>20, <1>21, <1>22, <1>23,
       <1>24, <1>25, <1>26
     DEF Next, Arrive, ReqStep, ExecStep, PollStep

(***************************************************************************)
(* CountInv                                                                *)
(***************************************************************************)

(* Every step keeps the calls within the caps and the attempt numbers of the
   two retry loops in step with the calls sent.                              *)
LEMMA CountStep ==
  ASSUME TypeOK, StatusInv, DriverInv, InsertInv, CountInv, [Next]_vars
  PROVE  CountInv'
<1>1. ASSUME NEW c \in Clients, NEW t \in Tasks, NEW m \in RetryCaps, NEW rec \in BOOLEAN,
             CreateFlush(c, t, m, rec)
      PROVE  CountInv'
  BY <1>1 DEF CreateFlush, CountInv, Running
<1>2. ASSUME NEW c \in Clients, NEW t \in Tasks, CancelRead(c, t)
      PROVE  CountInv'
  BY <1>2 DEF CancelRead, CountInv, Running
<1>3. ASSUME NEW c \in Clients, CreateCommit(c)
      PROVE  CountInv'
  BY <1>3 DEF CreateCommit, IdleReq, NoRow, DriverInv, InsertInv, CountInv,
       AttemptCap, Running
<1>4. ASSUME NEW c \in Clients, CancelFlush(c)
      PROVE  CountInv'
  BY <1>4 DEF CancelFlush, CountInv, Running
<1>5. ASSUME NEW c \in Clients, CancelCommit(c)
      PROVE  CountInv'
  BY <1>5 DEF CancelCommit, SetStatus, CountInv, Running
<1>6. ASSUME NEW c \in Clients, RequestError(c)
      PROVE  CountInv'
  BY <1>6 DEF RequestError, CountInv, Running
<1>7. ASSUME NEW t \in Tasks, FireTaskJob(t)
      PROVE  CountInv'
  BY <1>7 DEF FireTaskJob, CountInv, Running
<1>8. ASSUME NEW t \in Tasks, FirePollJob(t)
      PROVE  CountInv'
  BY <1>8 DEF FirePollJob, TypeOK, CountInv, Running
<1>9. ASSUME NEW t \in Tasks, Misfire(t)
      PROVE  CountInv'
  BY <1>9 DEF Misfire, CountInv, Running
<1>10. ASSUME NEW t \in Tasks, MarkRead(t)
      PROVE  CountInv'
  BY <1>10 DEF MarkRead, IdleExec, CountInv, Running
<1>11. ASSUME NEW t \in Tasks, MarkWrite(t)
      PROVE  CountInv'
  BY <1>11 DEF MarkWrite, SetStatus, IdleExec, TypeOK, DriverInv, CountInv,
       AttemptCap, RowType, Running
<1>12. ASSUME NEW t \in Tasks, AttemptPost(t)
      PROVE  CountInv'
  BY <1>12 DEF AttemptPost, TypeOK, DriverInv, CountInv, CountType, Running
<1>13. ASSUME NEW t \in Tasks, NEW r \in Responses, AttemptReturn(t, r)
      PROVE  CountInv'
  BY <1>13 DEF AttemptReturn, TypeOK, CountInv, AttemptCap, StopAfterAttempt,
       RowType, Running
<1>14. ASSUME NEW t \in Tasks, ApplyRead(t) \/ GiveUpRead(t)
      PROVE  CountInv'
  <2>1. \A p \in Tasks : /\ exec'[p].pc \notin {"attempt", "posting"} \/ exec'[p] = exec[p]
                         /\ exec'[p].pc \in {"idle", "mark", "marking"} \/ Running(p)
    BY <1>14 DEF ApplyRead, GiveUpRead, IdleExec, TypeOK, ExecType, Running
  <2> QED
    BY <1>14, <2>1 DEF ApplyRead, GiveUpRead, CountInv, Running
<1>15. ASSUME NEW t \in Tasks, ApplyFlush(t)
      PROVE  CountInv'
  BY <1>15 DEF ApplyFlush, RegisterPoll, TypeOK, DriverInv, CountInv, Running
<1>16. ASSUME NEW t \in Tasks, ApplyCommit(t)
      PROVE  CountInv'
  <2>1. CASE exec[t].resp = "accepted"
    BY <1>16, <2>1 DEF ApplyCommit, IdleExec, TypeOK, CountInv, RowType, Running
  <2>2. CASE exec[t].resp # "accepted"
    <3> DEFINE v == Verdict(exec[t].resp)  c == exec[t].child
    <3>1. c \in Tasks \cup {NoTask} /\ v \in Verdicts /\ c # t
      BY <1>16 DEF Verdict, Verdicts, TypeOK, ExecType, DriverInv, InsertInv,
           Running
    <3>2. CommitVerdict(t, v, c)
      BY <1>16, <2>2 DEF ApplyCommit
    <3>3. \A u \in Tasks : CommitPoint(t, v, c, u)
      BY <3>1, <3>2, CommitFacts
    <3>4. c # NoTask => v = "SUCCESS" /\ progress[c] = "none"
      BY DEF InsertInv, Verdict
    <3> HIDE DEF v
    <3> QED BY <1>16, <2>2, <3>1, <3>3, <3>4 DEF ApplyCommit, IdleExec, CommitPoint,
                 Verdicts, TypeOK, DriverInv, CountInv, AttemptCap, RowType, Running
  <2> QED BY <2>1, <2>2
<1>17. ASSUME NEW t \in Tasks, GiveUpWrite(t)
      PROVE  CountInv'
  <2>1. \A u \in Tasks : CommitPoint(t, "FAILED", NoTask, u)
    BY <1>17, CommitFacts DEF GiveUpWrite, Verdicts
  <2> QED BY <1>17, <2>1 DEF GiveUpWrite, IdleExec, CommitPoint, CountInv, Running
<1>18. ASSUME NEW t \in Tasks, ExecError(t)
      PROVE  CountInv'
  BY <1>18 DEF ExecError, IdleExec, CountInv, Running
<1>19. ASSUME NEW t \in Tasks, PollGet(t)
      PROVE  CountInv'
  <2>1. CASE Open(t) /\ rows[t].check_url
    <3>0. progress[t] = "RUNNING" /\ t \notin pollJobs /\ ~Running(t)
      BY <1>19, <2>1 DEF PollGet, DriverInv
    <3>1. \A u \in Tasks : /\ calls'[u].EXECUTE = calls[u].EXECUTE
                           /\ calls'[u].POLL = IF u = t THEN calls[u].POLL + 1 ELSE calls[u].POLL
                           /\ u # t => calls'[u] = calls[u]
      BY <1>19, <2>1 DEF PollGet, TypeOK, CountType
    <3>2. \A u \in Tasks : /\ poll'[u].pc = IF u = t THEN "getting" ELSE poll[u].pc
                           /\ poll'[u].n = poll[u].n
      BY <1>19, <2>1 DEF PollGet, TypeOK, PollType
    <3>3. /\ rows' = rows /\ progress' = progress /\ pollJobs' = pollJobs /\ exec' = exec
          /\ \A u \in Tasks : Running(u)' = Running(u)
      BY <1>19, <2>1 DEF PollGet, Running
    <3>4. poll[t].pc = "poll" /\ calls[t].POLL \in Nat
      BY <1>19 DEF PollGet, TypeOK, CountType
    <3> QED
      BY <3>0, <3>1, <3>2, <3>3, <3>4 DEF CountInv
  <2>2. CASE ~(Open(t) /\ rows[t].check_url)
    <3>1. calls' = calls /\ \A u \in Tasks : poll'[u] = IF u = t THEN IdlePoll ELSE poll[u]
      BY <1>19, <2>2 DEF PollGet, TypeOK
    <3> QED BY <1>19, <2>2, <3>1 DEF PollGet, CountInv, IdlePoll, Running
  <2> QED BY <2>1, <2>2
<1>20. ASSUME NEW t \in Tasks, PollPending(t)
      PROVE  CountInv'
  BY <1>20 DEF PollPending, CountInv, StopAfterAttempt, Running
<1>21. ASSUME NEW t \in Tasks, NEW v \in Verdicts, PollAnswer(t, v)
      PROVE  CountInv'
  BY <1>21 DEF PollAnswer, TypeOK, CountInv, RowType, Running
<1>22. ASSUME NEW t \in Tasks, PollCommit(t)
      PROVE  CountInv'
  <2> DEFINE v == poll[t].verdict  c == poll[t].child
  <2>1. c \in Tasks \cup {NoTask} /\ v \in Verdicts /\ c # t
    BY <1>22 DEF TypeOK, PollType, DriverInv, InsertInv
  <2>2. \A u \in Tasks : CommitPoint(t, v, c, u)
    BY <1>22, <2>1, CommitFacts DEF PollCommit
  <2>3. c # NoTask => v = "SUCCESS" /\ progress[c] = "none"
    BY DEF InsertInv
  <2> QED BY <1>22, <2>1, <2>2, <2>3 DEF PollCommit, IdlePoll, CommitPoint,
               Verdicts, TypeOK, DriverInv, CountInv, AttemptCap, RowType, Running
<1>23. ASSUME NEW t \in Tasks, PollGiveUpRead(t) \/ PollError(t)
      PROVE  CountInv'
  <2>1. CASE Open(t) /\ PollGiveUpRead(t)
    BY <1>23, <2>1 DEF PollGiveUpRead, CountInv, Running
  <2>2. CASE ~Open(t) /\ PollGiveUpRead(t)
    BY <1>23, <2>2 DEF PollGiveUpRead, IdlePoll, CountInv, Running
  <2>3. CASE PollError(t)
    BY <1>23, <2>3 DEF PollError, IdlePoll, CountInv, Running
  <2> QED BY <1>23, <2>1, <2>2, <2>3
<1>24. ASSUME NEW t \in Tasks, PollGiveUpWrite(t)
      PROVE  CountInv'
  <2>1. \A u \in Tasks : CommitPoint(t, "FAILED", NoTask, u)
    BY <1>24, CommitFacts DEF PollGiveUpWrite, Verdicts
  <2> QED BY <1>24, <2>1 DEF PollGiveUpWrite, IdlePoll, CommitPoint, CountInv,
               Running
<1>25. CASE Crash
  BY <1>25 DEF Crash, IdleExec, IdlePoll, CountInv, Running
<1>26. CASE UNCHANGED vars
  BY <1>26 DEF vars, CountInv, Running
<1> QED
  BY <1>1, <1>2, <1>3, <1>4, <1>5, <1>6, <1>7, <1>8, <1>9, <1>10, <1>11, <1>12,
       <1>13, <1>14, <1>15, <1>16, <1>17, <1>18, <1>19, <1>20, <1>21, <1>22, <1>23,
       <1>24, <1>25, <1>26
     DEF Next, Arrive, ReqStep, ExecStep, PollStep

(***************************************************************************)
(* AuditInv                                                                *)
(***************************************************************************)

(* A step that the audit does not notice.                                    *)
AuditQuiet ==
  /\ UNCHANGED <<rows, audit, progress>>
  /\ pollJobs' \subseteq pollJobs
  /\ \A p \in Tasks :
       /\ exec'[p].pc \in {"attempt", "posting"} =>
            exec[p].pc \in {"attempt", "posting"} /\ exec'[p].n = exec[p].n
       /\ exec'[p].pc \notin {"idle", "mark", "marking", "attempt", "posting"} =>
            exec[p].pc \notin {"idle", "mark", "marking", "attempt", "posting"}
       /\ poll'[p].pc # "idle" => poll[p].pc # "idle"

(* Such a step, for every task, keeps AuditInv.                             *)
LEMMA AuditQuietInv == ASSUME AuditInv, AuditQuiet PROVE AuditInv'
<1> SUFFICES ASSUME NEW t \in Tasks
             PROVE  /\ RetryCountMatches(t)'
                    /\ SuccessAudited(t)'
                    /\ progress'[t] \in {"none", "PENDING"} => audit'[t].EXECUTE = 0
                    /\ exec'[t].pc \in {"attempt", "posting"} =>
                         audit'[t].EXECUTE = exec'[t].n - 1
                    /\ PastAttempts(t)' => audit'[t].EXECUTE >= 1
  BY DEF AuditInv
<1>1. rows' = rows /\ audit' = audit /\ progress' = progress
  BY DEF AuditQuiet
<1>2. RetryCountMatches(t)' /\ SuccessAudited(t)'
  BY <1>1 DEF AuditInv, RetryCountMatches, SuccessAudited
<1>3. exec'[t].pc \in {"attempt", "posting"} => audit'[t].EXECUTE = exec'[t].n - 1
  BY <1>1 DEF AuditInv, AuditQuiet
<1>4. PastAttempts(t)' => audit'[t].EXECUTE >= 1
  BY <1>1 DEF AuditInv, AuditQuiet, PastAttempts, Running
<1> QED BY <1>1, <1>2, <1>3, <1>4 DEF AuditInv

(* The commit of a verdict of a task whose attempts are on record keeps
   AuditInv.                                                                 *)
LEMMA AuditCommit ==
  ASSUME TypeOK, AuditInv,
         NEW t \in Tasks, NEW v \in Verdicts, NEW c \in Tasks \cup {NoTask}, c # t,
         CommitVerdict(t, v, c), c # NoTask => progress[c] = "none",
         audit[t].EXECUTE >= 1,
         v = "SUCCESS" /\ rows[t].check_url => audit'[t].POLL >= 1,
         \A u \in Tasks : /\ audit'[u].EXECUTE = audit[u].EXECUTE
                          /\ u # t => audit'[u].POLL = audit[u].POLL,
         \A u \in Tasks : /\ exec'[u] = exec[u] \/ exec'[u].pc = "idle"
                          /\ poll'[u] = poll[u] \/ poll'[u].pc = "idle",
         UNCHANGED pollJobs
  PROVE  AuditInv'
<1>1. \A u \in Tasks : CommitPoint(t, v, c, u)
  BY CommitFacts
<1>2. ASSUME NEW u \in Tasks PROVE RetryCountMatches(u)'
  BY <1>1 DEF CommitPoint, AuditInv, RetryCountMatches
<1>3. ASSUME NEW u \in Tasks PROVE SuccessAudited(u)'
  <2>1. CASE u = t
    BY <1>1, <2>1 DEF CommitPoint, SuccessAudited
  <2>2. CASE u # t /\ u = c
    BY <1>1, <2>2 DEF CommitPoint, SuccessAudited
  <2>3. CASE u # t /\ u # c
    <3>1. progress'[u] = progress[u] /\ (rows'[u].check_url => rows[u].check_url)
      BY <1>1, <2>3 DEF CommitPoint
    <3> QED BY <2>3, <3>1 DEF AuditInv, SuccessAudited
  <2> QED BY <2>1, <2>2, <2>3
<1>4. ASSUME NEW u \in Tasks, progress'[u] \in {"none", "PENDING"}
      PROVE  audit'[u].EXECUTE = 0
  BY <1>1, <1>4 DEF CommitPoint, AuditInv, Verdicts
<1>5. ASSUME NEW u \in Tasks
      PROVE  /\ exec'[u].pc \in {"attempt", "posting"} =>
                  audit'[u].EXECUTE = exec'[u].n - 1
             /\ PastAttempts(u)' => audit'[u].EXECUTE >= 1
  BY DEF AuditInv, PastAttempts, Running
<1> QED BY <1>2, <1>3, <1>4, <1>5 DEF AuditInv

(* Every step keeps the audit rows and retry_count in step with the retry
   loop, and a SUCCESS backed by its attempts.                               *)
LEMMA AuditStep ==
  ASSUME TypeOK, StatusInv, DriverInv, InsertInv, AuditInv, [Next]_vars
  PROVE  AuditInv'
<1>1. ASSUME NEW c \in Clients, NEW t \in Tasks, NEW m \in RetryCaps, NEW rec \in BOOLEAN,
             CreateFlush(c, t, m, rec)
      PROVE  AuditInv'
  BY <1>1 DEF CreateFlush, AuditInv, PastAttempts, RetryCountMatches,
       SuccessAudited, Running
<1>2. ASSUME NEW c \in Clients, NEW t \in Tasks, CancelRead(c, t)
      PROVE  AuditInv'
  BY <1>2 DEF CancelRead, AuditInv, PastAttempts, RetryCountMatches, SuccessAudited,
       Running
<1>3. ASSUME NEW c \in Clients, CreateCommit(c)
      PROVE  AuditInv'
  <2> DEFINE t == req[c].task
  <2>1. /\ t \in Tasks /\ progress[t] = "none"
        /\ req[c].row.retry_count = 0
    BY <1>3 DEF CreateCommit, InsertInv, TypeOK
  <2>2. \A u \in Tasks : /\ rows'[u].retry_count = IF u = t THEN 0 ELSE rows[u].retry_count
                         /\ u # t => rows'[u] = rows[u]
                         /\ progress'[u] = IF u = t THEN "PENDING" ELSE progress[u]
    BY <1>3, <2>1 DEF CreateCommit, TypeOK
  <2> QED
    BY <1>3, <2>1, <2>2 DEF CreateCommit, AuditInv, RetryCountMatches,
         SuccessAudited, PastAttempts, Running
<1>4. ASSUME NEW c \in Clients, CancelFlush(c)
      PROVE  AuditInv'
  BY <1>4 DEF CancelFlush, AuditInv, PastAttempts, RetryCountMatches,
       SuccessAudited, Running
<1>5. ASSUME NEW c \in Clients, CancelCommit(c)
      PROVE  AuditInv'
  BY <1>5 DEF CancelCommit, SetStatus, AuditInv, PastAttempts, RetryCountMatches,
       SuccessAudited, Running
<1>6. ASSUME NEW c \in Clients, RequestError(c)
      PROVE  AuditInv'
  BY <1>6 DEF RequestError, AuditInv, PastAttempts, RetryCountMatches,
       SuccessAudited, Running
<1>7. ASSUME NEW t \in Tasks, FireTaskJob(t)
      PROVE  AuditInv'
  BY <1>7 DEF FireTaskJob, AuditInv, PastAttempts, RetryCountMatches,
       SuccessAudited, Running
<1>8. ASSUME NEW t \in Tasks, FirePollJob(t)
      PROVE  AuditInv'
  BY <1>8 DEF FirePollJob, TypeOK, AuditInv, PastAttempts, RetryCountMatches,
       SuccessAudited, Running
<1>9. ASSUME NEW t \in Tasks, Misfire(t)
      PROVE  AuditInv'
  BY <1>9 DEF Misfire, AuditInv, PastAttempts, RetryCountMatches, SuccessAudited,
       Running
<1>10. ASSUME NEW t \in Tasks, MarkRead(t)
      PROVE  AuditInv'
  BY <1>10 DEF MarkRead, IdleExec, AuditInv, PastAttempts, RetryCountMatches,
       SuccessAudited, Running
<1>11. ASSUME NEW t \in Tasks, MarkWrite(t)
      PROVE  AuditInv'
  BY <1>11 DEF MarkWrite, SetStatus, IdleExec, DriverInv, AuditInv, PastAttempts,
       RetryCountMatches, SuccessAudited, Running
<1>12. ASSUME NEW t \in Tasks, AttemptPost(t)
      PROVE  AuditInv'
  BY <1>12 DEF AttemptPost, AuditInv, PastAttempts, RetryCountMatches,
       SuccessAudited, Running
<1>13. ASSUME NEW t \in Tasks, NEW r \in Responses, AttemptReturn(t, r)
      PROVE  AuditInv'
  BY <1>13 DEF AttemptReturn, TypeOK, DriverInv, AuditInv, PastAttempts, CountType,
       RetryCountMatches, SuccessAudited, ExecType, Running
<1>14. ASSUME NEW t \in Tasks, ApplyRead(t) \/ GiveUpRead(t)
      PROVE  AuditInv'
  <2>1. AuditQuiet
    BY <1>14 DEF ApplyRead, GiveUpRead, IdleExec, AuditQuiet, TypeOK, ExecType
  <2> QED BY <2>1, AuditQuietInv
<1>15. ASSUME NEW t \in Tasks, ApplyFlush(t)
      PROVE  AuditInv'
  BY <1>15 DEF ApplyFlush, RegisterPoll, TypeOK, DriverInv, InsertInv, AuditInv,
       PastAttempts, RetryCountMatches, SuccessAudited, RowType, ExecType, PollType,
       Running
<1>16. ASSUME NEW t \in Tasks, ApplyCommit(t)
      PROVE  AuditInv'
  <2>0. \A p \in Tasks : exec'[p] = IF p = t THEN IdleExec ELSE exec[p]
    BY <1>16 DEF ApplyCommit, TypeOK
  <2>5. audit[t].EXECUTE >= 1 /\ progress[t] = "RUNNING" /\ ~rows[t].check_url
    <3>1. Running(t) /\ exec[t].pc \notin {"attempt", "posting"}
      BY <1>16 DEF ApplyCommit, Running
    <3>2. audit[t].EXECUTE >= 1
      BY <3>1 DEF AuditInv, PastAttempts
    <3> QED BY <3>1, <3>2 DEF DriverInv
  <2>1. CASE exec[t].resp = "accepted"
    <3>1. \A u \in Tasks : rows'[u].retry_count = rows[u].retry_count /\ (u # t => rows'[u] = rows[u])
      BY <1>16, <2>1 DEF ApplyCommit, TypeOK, RowType
    <3> QED
      BY <1>16, <2>0, <2>1, <2>5, <3>1 DEF ApplyCommit, IdleExec, AuditInv,
           RetryCountMatches, SuccessAudited, PastAttempts, Running
  <2>2. CASE exec[t].resp # "accepted"
    <3> DEFINE v == Verdict(exec[t].resp)  c == exec[t].child
    <3>1. c \in Tasks \cup {NoTask} /\ v \in Verdicts /\ c # t
      BY <1>16 DEF Verdict, Verdicts, TypeOK, ExecType, DriverInv, InsertInv,
           Running
    <3>2. CommitVerdict(t, v, c)
      BY <1>16, <2>2 DEF ApplyCommit
    <3>3. \A u \in Tasks : CommitPoint(t, v, c, u)
      BY <3>1, <3>2, CommitFacts
    <3>4. c # NoTask => progress[c] = "none"
      BY DEF InsertInv
    <3>5. exec'[t].pc = "idle" /\ \A p \in Tasks : p # t => exec'[p] = exec[p]
      BY <2>0 DEF IdleExec
    <3>6. UNCHANGED <<audit, pollJobs, poll>>
      BY <1>16 DEF ApplyCommit
    <3> HIDE DEF v, c
    <3> QED BY <2>5, <3>1, <3>2, <3>4, <3>5, <3>6, AuditCommit
  <2> QED BY <2>1, <2>2
<1>17. ASSUME NEW t \in Tasks, GiveUpWrite(t)
      PROVE  AuditInv'
  <2>1. audit[t].EXECUTE >= 1 /\ ~rows[t].check_url
    BY <1>17 DEF GiveUpWrite, AuditInv, PastAttempts, DriverInv, Running
  <2>2. \A u \in Tasks : exec'[u] = exec[u] \/ exec'[u].pc = "idle"
    BY <1>17 DEF GiveUpWrite, IdleExec
  <2> QED BY <1>17, <2>1, <2>2, AuditCommit DEF GiveUpWrite, Verdicts
<1>18. ASSUME NEW t \in Tasks, ExecError(t)
      PROVE  AuditInv'
  <2>1. AuditQuiet
    BY <1>18 DEF ExecError, IdleExec, AuditQuiet
  <2> QED BY <2>1, AuditQuietInv
<1>19. ASSUME NEW t \in Tasks, PollGet(t)
      PROVE  AuditInv'
  <2>1. AuditQuiet
    BY <1>19 DEF PollGet, AuditQuiet, TypeOK
  <2> QED BY <2>1, AuditQuietInv
<1>20. ASSUME NEW t \in Tasks, PollPending(t)
      PROVE  AuditInv'
  BY <1>20 DEF PollPending, DriverInv, AuditInv, PastAttempts, RetryCountMatches,
       SuccessAudited, Running
<1>21. ASSUME NEW t \in Tasks, NEW v \in Verdicts, PollAnswer(t, v)
      PROVE  AuditInv'
  BY <1>21 DEF PollAnswer, TypeOK, AuditInv, PastAttempts, RetryCountMatches,
       SuccessAudited, Running
<1>22. ASSUME NEW t \in Tasks, PollCommit(t)
      PROVE  AuditInv'
  <2> DEFINE v == poll[t].verdict  c == poll[t].child
  <2>1. c \in Tasks \cup {NoTask} /\ v \in Verdicts /\ c # t
    BY <1>22 DEF TypeOK, PollType, DriverInv, InsertInv
  <2>2. CommitVerdict(t, v, c)
    BY <1>22 DEF PollCommit
  <2>3. c # NoTask => progress[c] = "none"
    BY DEF InsertInv
  <2>4. audit[t].EXECUTE >= 1
    BY <1>22 DEF PollCommit, AuditInv, PastAttempts
  <2>5. /\ audit'[t].POLL >= 1
        /\ \A u \in Tasks : /\ audit'[u].EXECUTE = audit[u].EXECUTE
                            /\ u # t => audit'[u].POLL = audit[u].POLL
    BY <1>22 DEF PollCommit, TypeOK, CountType
  <2>6. /\ \A u \in Tasks : poll'[u] = poll[u] \/ poll'[u].pc = "idle"
        /\ UNCHANGED <<exec, pollJobs>>
    BY <1>22 DEF PollCommit, IdlePoll
  <2> HIDE DEF v, c
  <2> QED BY <2>1, <2>2, <2>3, <2>4, <2>5, <2>6, AuditCommit
<1>23. ASSUME NEW t \in Tasks, PollGiveUpRead(t) \/ PollError(t)
      PROVE  AuditInv'
  <2>1. CASE Open(t) /\ PollGiveUpRead(t)
    BY <1>23, <2>1 DEF PollGiveUpRead, AuditInv, PastAttempts, RetryCountMatches,
         SuccessAudited, Running
  <2>2. CASE ~Open(t) /\ PollGiveUpRead(t)
    BY <1>23, <2>2 DEF PollGiveUpRead, AuditInv, PastAttempts, RetryCountMatches,
         SuccessAudited, Running
  <2>3. CASE PollError(t)
    BY <1>23, <2>3 DEF PollError, AuditInv, PastAttempts, RetryCountMatches,
         SuccessAudited, Running
  <2> QED BY <1>23, <2>1, <2>2, <2>3
<1>24. ASSUME NEW t \in Tasks, PollGiveUpWrite(t)
      PROVE  AuditInv'
  <2>1. audit[t].EXECUTE >= 1
    BY <1>24 DEF PollGiveUpWrite, AuditInv, PastAttempts
  <2>2. \A u \in Tasks : poll'[u] = poll[u] \/ poll'[u].pc = "idle"
    BY <1>24 DEF PollGiveUpWrite, IdlePoll
  <2> QED BY <1>24, <2>1, <2>2, AuditCommit DEF PollGiveUpWrite, Verdicts
<1>25. CASE Crash
  <2>1. AuditQuiet
    BY <1>25 DEF Crash, IdleExec, IdlePoll, AuditQuiet
  <2> QED BY <2>1, AuditQuietInv
<1>26. CASE UNCHANGED vars
  BY <1>26 DEF vars, AuditInv, PastAttempts, RetryCountMatches, SuccessAudited,
       Running
<1> QED
  BY <1>1, <1>2, <1>3, <1>4, <1>5, <1>6, <1>7, <1>8, <1>9, <1>10, <1>11, <1>12,
       <1>13, <1>14, <1>15, <1>16, <1>17, <1>18, <1>19, <1>20, <1>21, <1>22, <1>23,
       <1>24, <1>25, <1>26
     DEF Next, Arrive, ReqStep, ExecStep, PollStep

(***************************************************************************)
(* The invariant and what follows from it                                  *)
(***************************************************************************)

(* The empty tables the service starts with satisfy the invariant.          *)
LEMMA InvInit == Init => IInv
<1> SUFFICES ASSUME Init PROVE IInv
  OBVIOUS
<1>1. TypeOK
  BY TypeInit
<1>2. StatusInv
  BY DEF Init, StatusInv, NoRow, Task
<1>3. DriverInv
  BY DEF Init, DriverInv, Marking, Running, HandingOver, IdleExec, IdlePoll
<1>4. InsertInv
  BY DEF Init, InsertInv, IdleExec, IdlePoll, IdleReq
<1>5. FollowUpsSound
  BY DEF Init, FollowUpsSound, NoRow, Task
<1>6. CountInv
  BY DEF Init, CountInv, AttemptCap, NoRow, Task, IdleExec, IdlePoll, Running
<1>7. AuditInv
  BY DEF Init, AuditInv, RetryCountMatches, SuccessAudited, PastAttempts, Running,
     NoRow, Task, IdleExec, IdlePoll
<1> QED
  BY <1>1, <1>2, <1>3, <1>4, <1>5, <1>6, <1>7 DEF IInv

(* Every step of the service keeps the invariant.                           *)
LEMMA InvStep == IInv /\ [Next]_vars => IInv'
<1> SUFFICES ASSUME IInv, [Next]_vars PROVE IInv'
  OBVIOUS
<1>0. TypeOK /\ StatusInv /\ DriverInv /\ InsertInv /\ FollowUpsSound /\ CountInv /\ AuditInv
  BY DEF IInv
<1>1. TypeOK'
  BY <1>0, TypeStep
<1>2. StatusInv' /\ DriverInv'
  BY <1>0, StatusStep, DriverStep
<1>3. InsertInv'
  BY <1>0, <1>1, InsertStep
<1>4. FollowUpsSound' /\ CountInv' /\ AuditInv'
  BY <1>0, FollowStep, CountStep, AuditStep
<1> QED
  BY <1>1, <1>2, <1>3, <1>4 DEF IInv

(* The invariant holds whatever requests, jobs, coroutines, failures and
   crashes interleave.                                                       *)
THEOREM InvariantHolds == Spec => []IInv
<1>1. Init => IInv
  BY InvInit
<1>2. IInv /\ [Next]_vars => IInv'
  BY InvStep
<1> QED
  BY <1>1, <1>2, PTL DEF Spec

(* A task has one driver at a time, be it a job or a coroutine, through early
   jobs, lost registrations, cancels and crashes.                            *)
THEOREM DriverIsUnique == Spec => []SingleDriver
<1>1. IInv => SingleDriver
  BY DEF IInv, TypeOK, ExecType, PollType, DriverInv, SingleDriver, Marking, Running,
     HandingOver
<1> QED
  BY <1>1, InvariantHolds, PTL

(* Recurrence never forks, and only a SUCCESS is followed up, whatever happens
   to polls, cancels and commits.                                            *)
THEOREM FollowUpsAreSound == Spec => []FollowUpsSound
<1>1. IInv => FollowUpsSound
  BY DEF IInv
<1> QED
  BY <1>1, InvariantHolds, PTL

(* max_retries caps all webhook calls of a task and poll_max_attempts all its
   polls, over retries, errors and restarts.                                 *)
THEOREM AttemptsAreBounded == Spec => []AttemptsBounded
<1>1. IInv => AttemptsBounded
  BY DEF IInv, CountInv, AttemptsBounded
<1> QED
  BY <1>1, InvariantHolds, PTL

(* retry_count agrees with the EXECUTE rows on record, although three handlers
   write the task's row.                                                     *)
THEOREM RetryCountIsAudited == Spec => []RetryCountMatchesAudit
<1>1. IInv => RetryCountMatchesAudit
  BY DEF IInv, AuditInv, RetryCountMatchesAudit
<1> QED
  BY <1>1, InvariantHolds, PTL

(* A task the scheduler settled as SUCCESS has its EXECUTE attempt on record
   and, if it was asynchronous, its POLL attempt.                            *)
THEOREM SuccessHasEvidence == Spec => []SuccessIsAudited
<1>1. IInv => SuccessIsAudited
  BY DEF IInv, AuditInv, SuccessIsAudited
<1> QED
  BY <1>1, InvariantHolds, PTL
===============================================================================
