---------------------------- MODULE ExecutorProofs ----------------------------
(***************************************************************************)
(* What the executor tells its callers agrees with what its table says,    *)
(* finished rows stay as they are and the semaphore bounds the             *)
(* completions, for any executions, webhooks, bound and faults.            *)
(***************************************************************************)
EXTENDS Executor, FiniteSetTheorems, TLAPS

USE EndpointsAssumption, NoEndpointAssumption, MaxInFlightAssumption

(* Nothing has happened yet, and the semaphore is free.                     *)
LEMMA ExecutorInit == EInit => EInv
<1> SUFFICES ASSUME EInit PROVE EInv
  OBVIOUS
<1>1. ETypeOK
  BY DEF EInit, ETypeOK
<1>2. ExecutionInv
  BY DEF EInit, ExecutionInv, Worked
<1>3. InFlight = {}
  BY DEF EInit, InFlight
<1> QED
  BY <1>1, <1>2, <1>3, FS_EmptySet DEF EInv, SemaphoreInv

(* Types.                                                                   *)
LEMMA ExecutorTypes == ETypeOK /\ [ENext]_evars => ETypeOK'
<1> SUFFICES ASSUME ETypeOK, [ENext]_evars PROVE ETypeOK'
  OBVIOUS
<1>0. \A e \in Execs : Outcome(e) \in ExecutionStatuses
  BY DEF Outcome, ExecutionStatuses
<1> USE DEF ETypeOK
<1>1. ASSUME NEW e \in Execs, NEW name \in Names, Invoke(e, name)
      PROVE  ETypeOK'
  BY <1>1 DEF Invoke, InvokeSync, InvokeAsync, InvokeUnknown, InvokeFails, ExecutionStatuses
<1>2. ASSUME NEW e \in Execs, SyncWork(e) \/ SyncReply(e)
      PROVE  ETypeOK'
  BY <1>0, <1>2 DEF SyncWork, Work, SyncReply
<1>3. ASSUME NEW e \in Execs, RequestCommit(e)
      PROVE  ETypeOK'
  BY <1>3 DEF RequestCommit
<1>4. ASSUME NEW e \in Execs, WorkerAcquire(e) \/ WorkerWork(e) \/ WorkerRead(e)
      PROVE  ETypeOK'
  BY <1>4 DEF WorkerAcquire, WorkerWork, Work, WorkerRead
<1>5. ASSUME NEW e \in Execs, WorkerWrite(e)
      PROVE  ETypeOK'
  BY <1>0, <1>5 DEF WorkerWrite
<1>6. ASSUME NEW e \in Execs, EFault(e)
      PROVE  ETypeOK'
  BY <1>6 DEF EFault, HandlerError, WorkerError
<1>7. CASE ExecutorCrash
  BY <1>7 DEF ExecutorCrash
<1>8. CASE UNCHANGED evars
  BY <1>8 DEF evars
<1> QED
  BY <1>1, <1>2, <1>3, <1>4, <1>5, <1>6, <1>7, <1>8 DEF ENext, EStep

(* A request's answer, row and worker agree after every step.               *)
LEMMA ExecutionStep == ETypeOK /\ ExecutionInv /\ [ENext]_evars => ExecutionInv'
<1> SUFFICES ASSUME ETypeOK, ExecutionInv, [ENext]_evars PROVE ExecutionInv'
  OBVIOUS
<1> USE DEF ETypeOK, ExecutionInv, Worked, RowsAfter, Outcome
<1>1. ASSUME NEW e \in Execs, NEW name \in Names, Invoke(e, name)
      PROVE  ExecutionInv'
  <2>1. CASE InvokeSync(e, name)
    BY <2>1 DEF InvokeSync
  <2>2. CASE InvokeAsync(e, name)
    BY <2>2 DEF InvokeAsync
  <2>3. CASE InvokeUnknown(e, name)
    BY <2>3 DEF InvokeUnknown
  <2>4. CASE InvokeFails(e, name)
    BY <2>4 DEF InvokeFails
  <2> QED
    BY <1>1, <2>1, <2>2, <2>3, <2>4 DEF Invoke
<1>2. ASSUME NEW e \in Execs, SyncWork(e) \/ SyncReply(e)
      PROVE  ExecutionInv'
  <2>1. CASE SyncWork(e)
    BY <2>1 DEF SyncWork, Work
  <2>2. CASE SyncReply(e)
    BY <2>2 DEF SyncReply
  <2> QED
    BY <1>2, <2>1, <2>2
<1>3. ASSUME NEW e \in Execs, RequestCommit(e)
      PROVE  ExecutionInv'
  BY <1>3 DEF RequestCommit
<1>4. ASSUME NEW e \in Execs, WorkerAcquire(e) \/ WorkerWork(e) \/ WorkerRead(e)
      PROVE  ExecutionInv'
  <2>1. CASE WorkerAcquire(e) \/ WorkerRead(e)
    BY <2>1 DEF WorkerAcquire, WorkerRead
  <2>2. CASE WorkerWork(e)
    BY <2>2 DEF WorkerWork, Work
  <2> QED
    BY <1>4, <2>1, <2>2
<1>5. ASSUME NEW e \in Execs, WorkerWrite(e)
      PROVE  ExecutionInv'
  BY <1>5 DEF WorkerWrite
<1>6. ASSUME NEW e \in Execs, EFault(e)
      PROVE  ExecutionInv'
  BY <1>6 DEF EFault, HandlerError, WorkerError
<1>7. CASE ExecutorCrash
  BY <1>7 DEF ExecutorCrash
<1>8. CASE UNCHANGED evars
  BY <1>8 DEF evars
<1> QED
  BY <1>1, <1>2, <1>3, <1>4, <1>5, <1>6, <1>7, <1>8 DEF ENext, EStep

(* Only a completion that gets a permit adds to those in flight.            *)
LEMMA SemaphoreStep == ETypeOK /\ SemaphoreInv /\ [ENext]_evars => SemaphoreInv'
<1> SUFFICES ASSUME ETypeOK, SemaphoreInv, [ENext]_evars PROVE SemaphoreInv'
  OBVIOUS
<1>1. ASSUME NEW e \in Execs, WorkerAcquire(e)
      PROVE  SemaphoreInv'
  <2>1. InFlight' = InFlight \cup {e} /\ e \notin InFlight
    BY <1>1 DEF WorkerAcquire, InFlight, ETypeOK
  <2>2. Cardinality(InFlight) \in Nat
    BY FS_CardinalityType DEF SemaphoreInv
  <2>3. IsFiniteSet(InFlight') /\ Cardinality(InFlight') = Cardinality(InFlight) + 1
    BY <2>1, FS_AddElement DEF SemaphoreInv
  <2> QED
    BY <1>1, <2>2, <2>3 DEF WorkerAcquire, SemaphoreInv
<1>2. CASE ~(\E e \in Execs : WorkerAcquire(e))
  <2>1. InFlight' \subseteq InFlight
    BY <1>2 DEF ETypeOK, InFlight, ENext, EStep, EFault, Invoke, InvokeSync, InvokeAsync,
         InvokeUnknown, InvokeFails, SyncWork, SyncReply, RequestCommit, WorkerWork, WorkerRead, WorkerWrite,
         HandlerError, WorkerError, ExecutorCrash, evars
  <2>2. Cardinality(InFlight) \in Nat /\ Cardinality(InFlight') \in Nat
        /\ IsFiniteSet(InFlight') /\ Cardinality(InFlight') <= Cardinality(InFlight)
    BY <2>1, FS_Subset, FS_CardinalityType DEF SemaphoreInv
  <2> QED
    BY <2>2 DEF SemaphoreInv
<1> QED
  BY <1>1, <1>2

(* The invariant holds for any executions, webhooks, bound and faults.      *)
THEOREM ExecutorInvariant == ESpec => []EInv
<1>1. EInv /\ [ENext]_evars => EInv'
  BY ExecutorTypes, ExecutionStep, SemaphoreStep DEF EInv
<1> QED
  BY <1>1, ExecutorInit, PTL DEF ESpec

(* Every variable of the executor keeps its type.                          *)
THEOREM ExecutorTypeCorrect == ESpec => []ETypeOK
<1>1. EInv => ETypeOK
  BY DEF EInv
<1> QED
  BY <1>1, ExecutorInvariant, PTL

(* What the caller was told and what the table says never contradict each other. *)
THEOREM AnswersMatchRows == ESpec => []AnswerMatchesRow
<1>1. EInv => AnswerMatchesRow
  BY DEF EInv, ETypeOK, ExecutionInv, RowsAfter, Outcome, AnswerMatchesRow
<1> QED
  BY <1>1, ExecutorInvariant, PTL

(* Of its two writers, the request is through before the completion is.     *)
THEOREM FinishedRowsStay == ESpec => FinishedIsFinal
<1>1. EInv /\ [ENext]_evars =>
        [\A e \in Execs : db[e] \in Finished => db'[e] = db[e]]_evars
  <2> SUFFICES ASSUME EInv, ENext, NEW e \in Execs, db[e] \in Finished
               PROVE  db'[e] = db[e]
    OBVIOUS
  <2>1. handler[e] # "responded" /\ worker[e] # "writing" /\ endpoint[e] # NoEndpoint
    BY DEF EInv, ETypeOK, ExecutionInv, Finished
  <2> QED
    BY <2>1 DEF EInv, ETypeOK, ENext, EStep, EFault, Invoke, InvokeSync, InvokeAsync,
       InvokeUnknown, InvokeFails, SyncWork, SyncReply, RequestCommit, WorkerAcquire, WorkerWork,
       WorkerRead,
       WorkerWrite, HandlerError, WorkerError, ExecutorCrash
<1> QED
  BY <1>1, ExecutorInvariant, PTL DEF ESpec, FinishedIsFinal

(* No more completions than permits, and none outside the semaphore.        *)
THEOREM SemaphoreBounds == ESpec => CompletionsBounded
<1> DEFINE Bounded ==
      /\ Cardinality({e \in Execs : worker'[e] \in {"working", "worked", "writing"}}) <= MaxInFlight
      /\ \A e \in Execs : db[e] = "QUEUED" /\ db'[e] # db[e] => e \in InFlight
<1>1. EInv /\ EInv' /\ [ENext]_evars => [Bounded]_evars
  <2> SUFFICES ASSUME EInv, EInv', ENext
               PROVE  Bounded
    OBVIOUS
  <2>1. Cardinality({e \in Execs : worker'[e] \in {"working", "worked", "writing"}}) <= MaxInFlight
    BY DEF EInv, SemaphoreInv, InFlight
  <2>2. ASSUME NEW e \in Execs, db[e] = "QUEUED", db'[e] # db[e]
        PROVE  e \in InFlight
    <3>1. handler[e] # "responded"
      BY <2>2 DEF EInv, ExecutionInv
    <3>2. WorkerWrite(e)
      BY <2>2, <3>1 DEF EInv, ETypeOK, ENext, EStep, EFault, Invoke, InvokeSync, InvokeAsync,
         InvokeUnknown, InvokeFails, SyncWork, SyncReply, RequestCommit, WorkerAcquire, WorkerWork,
       WorkerRead,
         WorkerWrite, HandlerError, WorkerError, ExecutorCrash
    <3> QED
      BY <3>2 DEF WorkerWrite, InFlight
  <2> QED
    BY <2>1, <2>2
<1> QED
  BY <1>1, ExecutorInvariant, PTL DEF ESpec, CompletionsBounded

(***************************************************************************)
(* The executor implements ExecutionLifecycle                              *)
(***************************************************************************)

(* A step that moves one execution's answer or row moves it as promised.    *)
LEMMA PromiseKept ==
  ASSUME EInv, NEW e \in Execs,
         \/ \E name \in Names : Invoke(e, name)
         \/ EStep(e) \/ EFault(e)
  PROVE  [Executions!XNext]_(Executions!xvars)
<1> SUFFICES \/ UNCHANGED <<answer, db>>
             \/ Executions!Tell(e) \/ Executions!Show(e) \/ Executions!Complete(e)
  BY DEF Executions!XNext, Executions!xvars
<1>0. ETypeOK /\ ExecutionInv
  BY DEF EInv
<1>1. ASSUME NEW name \in Names, Invoke(e, name)
      PROVE  UNCHANGED <<answer, db>> \/ Executions!Tell(e)
  <2>1. endpoint[e] = NoEndpoint => answer[e] = "none"
    BY <1>0 DEF ExecutionInv
  <2> QED
    BY <1>1, <2>1 DEF Invoke, InvokeSync, InvokeAsync, InvokeUnknown, InvokeFails, Executions!Tell
<1>2. CASE SyncReply(e)
  BY <1>0, <1>2 DEF ExecutionInv, SyncReply, Executions!Tell
<1>3. CASE RequestCommit(e)
  <2>1. /\ db[e] = "none" /\ answer[e] \in {"200", "202", "500"}
        /\ open[e] = IF answer[e] = "202" THEN "QUEUED" ELSE Outcome(e)
        /\ answer[e] = "200" => Outcome(e) = "SUCCESS"
        /\ answer[e] = "500" => Outcome(e) = "FAILED"
    BY <1>0, <1>3 DEF ExecutionInv, RequestCommit
  <2>2. answer[e] \in DOMAIN Executions!RowOf /\ open[e] = Executions!RowOf[answer[e]]
    BY <2>1 DEF Executions!RowOf
  <2> QED
    BY <1>3, <2>1, <2>2 DEF RequestCommit, Executions!Show
<1>4. CASE SyncWork(e) \/ WorkerAcquire(e) \/ WorkerWork(e) \/ WorkerRead(e)
  BY <1>4 DEF SyncWork, WorkerAcquire, WorkerWork, WorkerRead
<1>5. CASE WorkerWrite(e)
  BY <1>0, <1>5 DEF ExecutionInv, WorkerWrite, Outcome, Executions!Complete
<1>6. CASE HandlerError(e)
  <2>1. CASE answer[e] = "none"
    BY <1>6, <2>1 DEF HandlerError, Executions!Tell
  <2>2. CASE answer[e] # "none"
    BY <1>0, <1>6, <2>2 DEF HandlerError, ETypeOK
  <2> QED
    BY <2>1, <2>2
<1>7. CASE WorkerError(e)
  BY <1>7 DEF WorkerError
<1> QED
  BY <1>1, <1>2, <1>3, <1>4, <1>5, <1>6, <1>7 DEF EStep, EFault

LEMMA PromiseStep == EInv /\ [ENext]_evars => [Executions!XNext]_(Executions!xvars)
<1> SUFFICES ASSUME EInv, [ENext]_evars PROVE [Executions!XNext]_(Executions!xvars)
  OBVIOUS
<1>1. CASE ExecutorCrash
  BY <1>1 DEF ExecutorCrash, Executions!xvars
<1>2. CASE UNCHANGED evars
  BY <1>2 DEF evars, Executions!xvars
<1>3. CASE \E e \in Execs : EStep(e) \/ EFault(e) \/ \E name \in Names : Invoke(e, name)
  BY <1>3, PromiseKept
<1> QED
  BY <1>1, <1>2, <1>3 DEF ENext

(* The executor implements the life cycle of an execution, for any executions,
   webhooks, permits and faults.                                            *)
THEOREM ExecutorKeepsItsPromises == ESpec => ImplementsExecution
<1>1. EInit => Executions!XInit
  BY DEF EInit, Executions!XInit
<1>2. EInv /\ [ENext]_evars => [Executions!XNext]_(Executions!xvars)
  BY PromiseStep
<1> QED
  BY <1>1, <1>2, ExecutorInvariant, PTL DEF ESpec, ImplementsExecution, Executions!XSpec
===============================================================================
