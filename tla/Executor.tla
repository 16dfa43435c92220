------------------------------- MODULE Executor -------------------------------
(***************************************************************************)
(* The executor service: POST /webhooks/{name} in its sync and its async   *)
(* mode, the background workers that complete async executions, and the    *)
(* executions table that GET /status/{id} reads.                           *)
(*                                                                         *)
(* get_db commits a request's transaction after the handler is done and    *)
(* its response is out, so a caller can hold an answer whose row nobody    *)
(* can read yet; the worker of an async execution is spawned before that   *)
(* commit as well.  WorkerFaults:                                          *)
(*   "crash"  the process stops: handlers and workers are gone, rows stay; *)
(*   "db"     a database call fails;                                       *)
(*   "early"  the simulated work is over before the accepting request has  *)
(*            committed (ASYNC_DELAY_SECONDS of next to nothing).          *)
(*                                                                         *)
(* <Def>_<Slip> is <Def> with a plausible slip, for the mutation runs.     *)
(***************************************************************************)
EXTENDS Integers, FiniteSets

CONSTANTS
  Execs,           \* execution ids
  Endpoints,       \* the names of WEBHOOKS
  AsyncEndpoints,  \* those with mode "async"
  FailEndpoints,   \* settings.fail_endpoints
  Names,           \* the names callers use: a task may name a webhook that
                   \* the registry no longer has
  MaxInFlight,     \* settings.async_max_in_flight
  NoEndpoint,      \* marks an id not drawn yet
  WorkerFaults     \* the failures that may happen

ASSUME EndpointsAssumption ==
  /\ AsyncEndpoints \subseteq Endpoints /\ FailEndpoints \subseteq Endpoints
  /\ Endpoints \subseteq Names
ASSUME NoEndpointAssumption == NoEndpoint \notin Names
ASSUME MaxInFlightAssumption == MaxInFlight \in Nat \ {0}

VARIABLES
  endpoint,  \* the webhook each execution is for
  db,        \* committed status of the execution, "none" without a row
  open,      \* status its request has flushed and not committed
  handler,   \* the request: idle, working, worked, responded, done
  worker,    \* its background task: none, waiting, working, worked, writing
  answer,    \* the HTTP status sent: none, 200, 202, 404, 500
  done,      \* history: executions whose work has succeeded
  hit        \* history: executions a failure has taken something from

evars == <<endpoint, db, open, handler, worker, answer, done, hit>>

ExecutionStatuses == {"QUEUED", "RUNNING", "SUCCESS", "FAILED"}
Finished == {"SUCCESS", "FAILED"}

EInit ==
  /\ endpoint = [e \in Execs |-> NoEndpoint]
  /\ db       = [e \in Execs |-> "none"]
  /\ open     = [e \in Execs |-> "none"]
  /\ handler  = [e \in Execs |-> "idle"]
  /\ worker   = [e \in Execs |-> "none"]
  /\ answer   = [e \in Execs |-> "none"]
  /\ done     = {}
  /\ hit      = {}

(* The end of the simulated business logic.                                 *)
Outcome(e) == IF endpoint[e] \in FailEndpoints THEN "FAILED" ELSE "SUCCESS"

(* The sleep that stands for it is over: what e does to the world is done,
   whatever becomes of its row and of its answer.                           *)
Work(e) == done' = IF Outcome(e) = "SUCCESS" THEN done \cup {e} ELSE done

(* Workers inside the semaphore.                                            *)
InFlight_WritesOutside == {e \in Execs : worker[e] \in {"working", "worked"}}

InFlight == {e \in Execs : worker[e] \in {"working", "worked", "writing"}}

(***************************************************************************)
(* POST /webhooks/{name}                                                   *)
(***************************************************************************)

(* run_to_completion: the row is flushed as RUNNING, the work begins.       *)
InvokeSync(e, name) ==
  /\ endpoint[e] = NoEndpoint
  /\ name \in Endpoints \ AsyncEndpoints
  /\ endpoint' = [endpoint EXCEPT ![e] = name]
  /\ open' = [open EXCEPT ![e] = "RUNNING"]
  /\ handler' = [handler EXCEPT ![e] = "working"]
  /\ UNCHANGED <<db, worker, answer, done, hit>>

SyncWork(e) ==
  /\ handler[e] = "working"
  /\ Work(e)
  /\ handler' = [handler EXCEPT ![e] = "worked"]
  /\ UNCHANGED <<endpoint, db, open, worker, answer, hit>>

(* The status is flushed and the answer goes out.                           *)
SyncReply_Always200(e) ==
  /\ handler[e] = "worked"
  /\ open' = [open EXCEPT ![e] = Outcome(e)]
  /\ answer' = [answer EXCEPT ![e] = "200"]
  /\ handler' = [handler EXCEPT ![e] = "responded"]
  /\ UNCHANGED <<endpoint, db, worker, done, hit>>

SyncReply(e) ==
  /\ handler[e] = "worked"
  /\ open' = [open EXCEPT ![e] = Outcome(e)]
  /\ answer' = [answer EXCEPT ![e] = IF Outcome(e) = "FAILED" THEN "500" ELSE "200"]
  /\ handler' = [handler EXCEPT ![e] = "responded"]
  /\ UNCHANGED <<endpoint, db, worker, done, hit>>

InvokeAsync_CommitFirst(e, name) ==
  /\ endpoint[e] = NoEndpoint
  /\ name \in AsyncEndpoints
  /\ endpoint' = [endpoint EXCEPT ![e] = name]
  /\ open' = [open EXCEPT ![e] = "QUEUED"]
  /\ db' = [db EXCEPT ![e] = "QUEUED"]
  /\ handler' = [handler EXCEPT ![e] = "responded"]
  /\ worker' = [worker EXCEPT ![e] = "waiting"]
  /\ answer' = [answer EXCEPT ![e] = "202"]
  /\ UNCHANGED <<done, hit>>

(* enqueue_async, spawn_async_completion and the 202.                       *)
InvokeAsync(e, name) ==
  /\ endpoint[e] = NoEndpoint
  /\ name \in AsyncEndpoints
  /\ endpoint' = [endpoint EXCEPT ![e] = name]
  /\ open' = [open EXCEPT ![e] = "QUEUED"]
  /\ handler' = [handler EXCEPT ![e] = "responded"]
  /\ worker' = [worker EXCEPT ![e] = "waiting"]
  /\ answer' = [answer EXCEPT ![e] = "202"]
  /\ UNCHANGED <<db, done, hit>>

(* get_webhook finds no such name: WebhookNotFound, a 404 and no row.       *)
InvokeUnknown(e, name) ==
  /\ endpoint[e] = NoEndpoint
  /\ name \in Names \ Endpoints
  /\ endpoint' = [endpoint EXCEPT ![e] = name]
  /\ handler' = [handler EXCEPT ![e] = "done"]
  /\ answer' = [answer EXCEPT ![e] = "404"]
  /\ UNCHANGED <<db, open, worker, done, hit>>

(* The insert fails: a 500, no row, and in async mode no worker.            *)
InvokeFails(e, name) ==
  /\ "db" \in WorkerFaults
  /\ endpoint[e] = NoEndpoint
  /\ name \in Endpoints
  /\ endpoint' = [endpoint EXCEPT ![e] = name]
  /\ handler' = [handler EXCEPT ![e] = "done"]
  /\ answer' = [answer EXCEPT ![e] = "500"]
  /\ UNCHANGED <<db, open, worker, done, hit>>

(* get_db after the response.                                               *)
RequestCommit(e) ==
  /\ handler[e] = "responded"
  /\ db' = [db EXCEPT ![e] = open[e]]
  /\ handler' = [handler EXCEPT ![e] = "done"]
  /\ UNCHANGED <<endpoint, open, worker, answer, done, hit>>

(* A flush or the commit fails: the row is rolled back.  A handler that has
   not answered yet answers 500, one that has cannot take it back.          *)
HandlerError(e) ==
  /\ "db" \in WorkerFaults
  /\ handler[e] \in {"worked", "responded"}
  /\ answer' = [answer EXCEPT ![e] = IF @ = "none" THEN "500" ELSE @]
  /\ handler' = [handler EXCEPT ![e] = "done"]
  /\ hit' = hit \cup {e}
  /\ UNCHANGED <<endpoint, db, open, worker, done>>

(***************************************************************************)
(* _run_completion and complete_after_delay                                *)
(***************************************************************************)

WorkerAcquire(e) ==
  /\ worker[e] = "waiting"
  /\ Cardinality(InFlight) < MaxInFlight
  /\ worker' = [worker EXCEPT ![e] = "working"]
  /\ UNCHANGED <<endpoint, db, open, handler, answer, done, hit>>

WorkerWork(e) ==
  /\ worker[e] = "working"
  /\ "early" \in WorkerFaults \/ handler[e] # "responded"
  /\ Work(e)
  /\ worker' = [worker EXCEPT ![e] = "worked"]
  /\ UNCHANGED <<endpoint, db, open, handler, answer, hit>>

(* Only then the row is read; without one the worker just returns.          *)
WorkerRead(e) ==
  /\ worker[e] = "worked"
  /\ worker' = [worker EXCEPT ![e] = IF db[e] = "none" THEN "none" ELSE "writing"]
  /\ hit' = IF db[e] = "none" THEN hit \cup {e} ELSE hit
  /\ UNCHANGED <<endpoint, db, open, handler, answer, done>>

WorkerWrite_PermitKept(e) ==
  /\ worker[e] = "writing"
  /\ db[e] # Outcome(e)
  /\ db' = [db EXCEPT ![e] = Outcome(e)]
  /\ UNCHANGED <<endpoint, open, handler, worker, answer, done, hit>>

WorkerWrite(e) ==
  /\ worker[e] = "writing"
  /\ db' = [db EXCEPT ![e] = Outcome(e)]
  /\ worker' = [worker EXCEPT ![e] = "none"]
  /\ UNCHANGED <<endpoint, open, handler, answer, done, hit>>

(* Any error is logged and swallowed; nobody completes e again.             *)
WorkerError(e) ==
  /\ "db" \in WorkerFaults
  /\ worker[e] \in {"worked", "writing"}
  /\ worker' = [worker EXCEPT ![e] = "none"]
  /\ hit' = hit \cup {e}
  /\ UNCHANGED <<endpoint, db, open, handler, answer, done>>

ExecutorCrash ==
  /\ "crash" \in WorkerFaults
  /\ handler' = [e \in Execs |-> IF handler[e] = "idle" THEN "idle" ELSE "done"]
  /\ worker'  = [e \in Execs |-> "none"]
  /\ hit' = hit \cup {e \in Execs : handler[e] \in {"working", "worked", "responded"}
                                     \/ worker[e] # "none"}
  /\ UNCHANGED <<endpoint, db, open, answer, done>>

(***************************************************************************)
(* Specification                                                           *)
(***************************************************************************)

Invoke(e, name) == \/ InvokeSync(e, name) \/ InvokeAsync(e, name)
                   \/ InvokeUnknown(e, name) \/ InvokeFails(e, name)

(* The next steps the event loop owes to e.                                 *)
EStep(e) == \/ SyncWork(e) \/ SyncReply(e) \/ RequestCommit(e)
            \/ WorkerAcquire(e) \/ WorkerWork(e) \/ WorkerRead(e) \/ WorkerWrite(e)

EFault(e) == HandlerError(e) \/ WorkerError(e)

ENext ==
  \/ \E e \in Execs : EStep(e) \/ EFault(e) \/ \E name \in Names : Invoke(e, name)
  \/ ExecutorCrash

ESpec == EInit /\ [][ENext]_evars

(* asyncio runs every handler and every worker that can move; waiters of the
   semaphore are served first come first served, hence strong fairness.     *)
EFairness ==
  \A e \in Execs : /\ WF_evars(SyncWork(e)) /\ WF_evars(SyncReply(e))
                   /\ WF_evars(RequestCommit(e))
                   /\ SF_evars(WorkerAcquire(e)) /\ WF_evars(WorkerWork(e))
                   /\ WF_evars(WorkerRead(e)) /\ WF_evars(WorkerWrite(e))

EFairSpec == ESpec /\ EFairness

(***************************************************************************)
(* Properties                                                              *)
(***************************************************************************)

(* Every variable has its type.                                             *)
ETypeOK ==
  /\ endpoint \in [Execs -> Names \cup {NoEndpoint}]
  /\ db \in [Execs -> ExecutionStatuses \cup {"none"}]
  /\ open \in [Execs -> ExecutionStatuses \cup {"none"}]
  /\ handler \in [Execs -> {"idle", "working", "worked", "responded", "done"}]
  /\ worker \in [Execs -> {"none", "waiting", "working", "worked", "writing"}]
  /\ answer \in [Execs -> {"none", "200", "202", "404", "500"}]
  /\ done \subseteq Execs /\ hit \subseteq Execs

(* What the caller was told and what the table says never contradict each
   other, although the row is committed after the answer and, in async mode,
   written by another coroutine: a 200 has no FAILED row, a 500 no SUCCESS row,
   a sync row is only ever seen finished, an async one only after a 202.     *)
AnswerMatchesRow ==
  \A e \in Execs :
    /\ answer[e] = "200" => db[e] \in {"none", "SUCCESS"}
    /\ answer[e] = "500" => db[e] \in {"none", "FAILED"}
    /\ answer[e] = "404" => db[e] = "none"
    /\ db[e] \in {"QUEUED"} => answer[e] = "202"
    /\ db[e] # "none" => answer[e] # "none" /\ db[e] # "RUNNING"

(* An execution that a poll has seen finished stays as it was seen, although
   two transactions write the row of an async one.                           *)
FinishedIsFinal ==
  [][\A e \in Execs : db[e] \in Finished => db'[e] = db[e]]_evars

(* The executor keeps what it promises about each execution: an answer goes out
   before its row is committed, in async mode the row is written by another
   coroutine as well, and yet callers and polls see what ExecutionLifecycle says. *)
Executions == INSTANCE ExecutionLifecycle WITH told <- answer, shown <- db

ImplementsExecution == Executions!XSpec

(* At most async_max_in_flight completions hold a slot and with it a database
   connection, and an execution is completed only from inside the semaphore. *)
CompletionsBounded ==
  [][/\ Cardinality({e \in Execs : worker'[e] \in {"working", "worked", "writing"}}) <= MaxInFlight
     /\ \A e \in Execs : db[e] = "QUEUED" /\ db'[e] # db[e] => e \in InFlight]_evars

(* Every 202 is kept: the execution gets to a final status, however many of them
   share the semaphore and whatever happens to the others.  Only a failure that
   hits the execution itself excuses it: the permit of a completion that fails,
   or finds no row, goes to the next one.                                    *)
AcceptedFinishes ==
  \A e \in Execs : answer[e] = "202" ~> db[e] \in Finished \/ e \in hit

(***************************************************************************)
(* The inductive invariant behind these                                    *)
(***************************************************************************)

(* The status a committed row may have, by the answer its request gave.     *)
RowsAfter(e) ==
  IF answer[e] = "202" THEN {"QUEUED", Outcome(e)}
  ELSE IF answer[e] \in {"200", "500"} THEN {Outcome(e)} ELSE {}

(* Work is done before anybody is told of it.  A sync caller that is not told of
   it has been left by a failure.                                           *)
Worked(e) ==
  /\ e \in done => Outcome(e) = "SUCCESS"
  /\ Outcome(e) = "SUCCESS"
     /\ (handler[e] = "worked" \/ worker[e] \in {"worked", "writing"}) => e \in done
  /\ answer[e] = "200" \/ db[e] = "SUCCESS" => e \in done
  /\ e \in done /\ handler[e] \in {"responded", "done"} /\ answer[e] \notin {"200", "202"} =>
       e \in hit

(* How an execution's request, row, answer and worker go together.          *)
ExecutionInv ==
  \A e \in Execs :
    /\ handler[e] = "idle" <=> endpoint[e] = NoEndpoint
    /\ handler[e] \in {"idle", "working", "worked"} =>
         answer[e] = "none" /\ db[e] = "none" /\ worker[e] = "none"
    /\ handler[e] \in {"idle", "working"} => e \notin done
    /\ handler[e] \in {"working", "worked"} => endpoint[e] \in Endpoints \ AsyncEndpoints
    /\ handler[e] = "responded" =>
         /\ answer[e] \in {"200", "202", "500"}
         /\ db[e] = "none"
         /\ open[e] = (IF answer[e] = "202" THEN "QUEUED" ELSE Outcome(e))
    /\ answer[e] = "200" =>
         endpoint[e] \in Endpoints \ AsyncEndpoints /\ Outcome(e) = "SUCCESS"
    /\ answer[e] = "202" => endpoint[e] \in AsyncEndpoints
    /\ answer[e] = "500" /\ (handler[e] = "responded" \/ db[e] # "none") => Outcome(e) = "FAILED"
    /\ db[e] # "none" => db[e] \in RowsAfter(e)
    /\ worker[e] # "none" => answer[e] = "202" /\ db[e] \in {"none", "QUEUED"}
    /\ worker[e] = "writing" => db[e] = "QUEUED"
    /\ Worked(e)

(* The semaphore.                                                           *)
SemaphoreInv == IsFiniteSet(InFlight) /\ Cardinality(InFlight) <= MaxInFlight

EInv == ETypeOK /\ ExecutionInv /\ SemaphoreInv
===============================================================================
