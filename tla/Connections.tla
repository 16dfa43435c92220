------------------------------ MODULE Connections ------------------------------
(***************************************************************************)
(* Who waits for what: the bounded resources the two services share among  *)
(* their coroutines.  A session takes a connection of its pool at its      *)
(* first statement and gives it back at its commit or rollback; an UPDATE  *)
(* locks its row until then.  An attempt keeps its connection, and from    *)
(* the second attempt on the row lock, while the webhook is called; the    *)
(* executor's handler keeps a connection while it works, a completion its  *)
(* permit of the semaphore.                                                *)
(*                                                                         *)
(* A task is one process (TaskEngineProps!SingleDriver), whose sessions    *)
(* follow one another; so is a request.  What is written is in TaskEngine; *)
(* here a row is closed or not.                                            *)
(***************************************************************************)
EXTENDS Integers, FiniteSets

CONSTANTS
  Tasks,
  Requests,      \* API requests
  Nobody,        \* holds the rows that are not locked
  Cap,           \* max_retries and poll_max_attempts
  PoolSize,      \* db_pool_size + db_max_overflow of the scheduler
  ExecPoolSize,  \* the same of the executor
  MaxInFlight,   \* settings.async_max_in_flight
  TimeOuts       \* which may strike: "pool", "http"

Procs == Tasks \cup Requests

(* A call: the task, the loop it belongs to and its number in it.           *)
Calls == Tasks \X {"post", "poll"} \X (1 .. Cap)

ASSUME PoolsAssumption == {Cap, PoolSize, ExecPoolSize, MaxInFlight} \subseteq Nat \ {0}
ASSUME ProcsAssumption ==
  /\ IsFiniteSet(Tasks) /\ IsFiniteSet(Requests) /\ Tasks \cap Requests = {}
  /\ Nobody \notin Procs

VARIABLES
  webhook,  \* of each task: "async", "sync", or "syncFails" for fail_endpoints
  at,       \* the session of each process and where it is in it
  conns,    \* connections each process holds
  owner,    \* who has locked a row
  closed,   \* tasks whose committed status is terminal
  handler,  \* the executor's side of each call
  worker    \* the completion each accepted call has spawned

pvars == <<webhook, at, conns, owner, closed, handler, worker>>

Phases == {"idle", "mark", "post", "apply", "poll", "fail", "cancel", "read",
           "over", "lost"}
Away == {"idle", "over", "lost"}

Start(t) == [phase |-> "idle", step |-> "connect", row |-> t, try |-> 1,
             next |-> "over", check |-> 1]

PInit ==
  /\ webhook \in [Tasks -> {"async", "sync", "syncFails"}]
  /\ \E target \in [Requests -> Tasks] :
       at = [p \in Procs |-> Start(IF p \in Tasks THEN p ELSE target[p])]
  /\ conns = [p \in Procs |-> 0]
  /\ owner = [t \in Tasks |-> Nobody]
  /\ closed = {}
  /\ handler = [c \in Calls |-> "none"]
  /\ worker = [c \in Calls |-> "none"]

(* Of each process, its first connection, its second and so on.             *)
InUse == Cardinality({c \in Procs \X (1 .. PoolSize) : c[2] <= conns[c[1]]})

ExecInUse == Cardinality({c \in Calls : handler[c] \in {"working", "answered"}})
             + Cardinality({c \in Calls : worker[c] = "writing"})

Permits == Cardinality({c \in Calls : worker[c] \in {"sleeping", "writing"}})

CallOf(p) == <<at[p].row, at[p].phase, at[p].try>>

(***************************************************************************)
(* The scheduler                                                           *)
(***************************************************************************)

(* A date job fires; a client sends a DELETE or some other request.         *)
Begin(p) ==
  /\ at[p].phase = "idle"
  /\ \E ph \in IF p \in Tasks THEN {"mark"} ELSE {"cancel", "read"} :
       at' = [at EXCEPT ![p].phase = ph]
  /\ UNCHANGED <<conns, owner, closed, handler, worker>>

(* The session after this one, unless the answer to a call decides.         *)
Follows(a) == IF a.phase = "mark" THEN "post"
              ELSE IF a.phase = "apply" /\ webhook[a.row] = "async" THEN "poll"
              ELSE "over"

(* Every session begins with a SELECT; an attempt and a list of tasks do not
   care whether the row is terminal.  The first attempt changes no column.  *)
Selected(a) ==
  IF a.row \in closed /\ a.phase \notin {"post", "read"}
  THEN [a EXCEPT !.step = "commit", !.next = "over"]
  ELSE [a EXCEPT !.next = Follows(a),
                 !.step = IF a.phase = "read" THEN "commit"
                          ELSE IF a.phase = "poll" \/ (a.phase = "post" /\ a.try = 1)
                          THEN "call" ELSE "lock"]

Connect(p) ==
  /\ at[p].phase \notin Away /\ at[p].step = "connect"
  /\ InUse < PoolSize
  /\ conns' = [conns EXCEPT ![p] = @ + 1]
  /\ at' = [at EXCEPT ![p] = Selected(at[p])]
  /\ UNCHANGED <<owner, closed, handler, worker>>

(* The pool makes a session wait for pool_timeout and no longer.  Nothing
   catches the error: a run ends where it is.                               *)
PoolTimeout(p) ==
  /\ "pool" \in TimeOuts
  /\ at[p].phase \notin Away /\ at[p].step = "connect"
  /\ InUse >= PoolSize
  /\ at' = [at EXCEPT ![p] = [Start(at[p].row) EXCEPT !.phase = "lost"]]
  /\ UNCHANGED <<conns, owner, closed, handler, worker>>

(* The flush of an UPDATE.                                                  *)
Lock(p) ==
  /\ at[p].step = "lock"
  /\ owner[at[p].row] = Nobody
  /\ owner' = [owner EXCEPT ![at[p].row] = p]
  /\ at' = [at EXCEPT ![p].step = IF at[p].phase = "post" THEN "call" ELSE "commit"]
  /\ UNCHANGED <<conns, closed, handler, worker>>

Call(p) ==
  /\ at[p].step = "call"
  /\ handler' = [handler EXCEPT ![CallOf(p)] = "queued"]
  /\ at' = [at EXCEPT ![p].step = "await"]
  /\ UNCHANGED <<conns, owner, closed, worker>>

(* What tenacity makes of a call that has to be repeated.                   *)
Again(a) == [a EXCEPT !.step = "commit",
                      !.next = IF a.try < Cap THEN a.phase ELSE "fail"]

(* What a finished call leads to.  A poll that read the row before the
   completion wrote it is repeated, too.                                    *)
Outcomes(p) ==
  LET a == at[p]
  IN  IF handler[CallOf(p)] = "refused" THEN {Again(a)}
      ELSE IF a.phase = "post"
      THEN IF webhook[a.row] = "syncFails" THEN {Again(a)}
           ELSE {[a EXCEPT !.step = "commit", !.next = "apply", !.check = a.try]}
      ELSE IF worker[<<a.row, "post", a.check>>] = "done"
      THEN {Again(a), [a EXCEPT !.step = "lock", !.next = "over"]}
      ELSE {Again(a)}

Receive_AuditSession(p) ==
  /\ at[p].step = "await" /\ handler[CallOf(p)] \in {"answered", "done", "refused"}
  /\ InUse < PoolSize
  /\ conns' = [conns EXCEPT ![p] = @ + 1]
  /\ \E a \in Outcomes(p) : at' = [at EXCEPT ![p] = a]
  /\ UNCHANGED <<owner, closed, handler, worker>>

(* The answer is there: the audit row is flushed in the same session.       *)
Receive(p) ==
  /\ at[p].step = "await" /\ handler[CallOf(p)] \in {"answered", "done", "refused"}
  /\ \E a \in Outcomes(p) : at' = [at EXCEPT ![p] = a]
  /\ UNCHANGED <<conns, owner, closed, handler, worker>>

TimeOut_Never(p) == FALSE /\ UNCHANGED <<at, conns, owner, closed, handler, worker>>

(* The HTTP client stops waiting; the executor's handler goes on.           *)
TimeOut(p) ==
  /\ "http" \in TimeOuts
  /\ at[p].step = "await"
  /\ at' = [at EXCEPT ![p] = Again(@)]
  /\ UNCHANGED <<conns, owner, closed, handler, worker>>

Release_RetryKeeps(p) ==
  [conns EXCEPT ![p] = IF at[p].next = at[p].phase THEN @ ELSE 0]

(* async with session_factory(): whatever way fn ended, the session goes.   *)
Release(p) == [conns EXCEPT ![p] = 0]

Unlock_RetryKeeps(p) ==
  [t \in Tasks |-> IF owner[t] = p /\ at[p].next = "over" THEN Nobody ELSE owner[t]]

(* The end of the transaction is the end of its row locks.                  *)
Unlock(p) == [t \in Tasks |-> IF owner[t] = p THEN Nobody ELSE owner[t]]

(* Commit or rollback.  A session that ends a task has locked its row.      *)
Commit(p) ==
  LET a == at[p]
  IN  /\ a.step = "commit"
      /\ conns' = Release(p)
      /\ owner' = Unlock(p)
      /\ closed' = IF owner[a.row] = p /\ a.next = "over" THEN closed \cup {a.row}
                   ELSE closed
      /\ at' = [at EXCEPT ![p] =
                  IF a.next = "over" THEN [Start(a.row) EXCEPT !.phase = "over"]
                  ELSE [@ EXCEPT !.phase = a.next, !.step = "connect",
                                 !.try = IF a.next = a.phase THEN a.try + 1 ELSE 1]]
      /\ UNCHANGED <<handler, worker>>

(***************************************************************************)
(* The executor                                                            *)
(***************************************************************************)

HandlerConnect(c) ==
  /\ handler[c] = "queued"
  /\ ExecInUse < ExecPoolSize
  /\ handler' = [handler EXCEPT ![c] = "working"]
  /\ UNCHANGED <<at, conns, owner, closed, worker>>

(* No connection in time: the handler answers 500.                          *)
HandlerRefused(c) ==
  /\ "pool" \in TimeOuts
  /\ handler[c] = "queued"
  /\ ExecInUse >= ExecPoolSize
  /\ handler' = [handler EXCEPT ![c] = "refused"]
  /\ UNCHANGED <<at, conns, owner, closed, worker>>

(* The answer goes out before the commit; a POST of an async webhook has
   spawned its completion.                                                  *)
HandlerAnswer(c) ==
  /\ handler[c] = "working"
  /\ handler' = [handler EXCEPT ![c] = "answered"]
  /\ worker' = IF webhook[c[1]] = "async" /\ c[2] = "post"
               THEN [worker EXCEPT ![c] = "queued"] ELSE worker
  /\ UNCHANGED <<at, conns, owner, closed>>

HandlerCommit_AwaitsWorker(c) ==
  /\ handler[c] = "answered"
  /\ worker[c] \in {"none", "done", "failed"}
  /\ handler' = [handler EXCEPT ![c] = "done"]
  /\ UNCHANGED <<at, conns, owner, closed, worker>>

HandlerCommit(c) ==
  /\ handler[c] = "answered"
  /\ handler' = [handler EXCEPT ![c] = "done"]
  /\ UNCHANGED <<at, conns, owner, closed, worker>>

WorkerPermit(c) ==
  /\ worker[c] = "queued"
  /\ Permits < MaxInFlight
  /\ worker' = [worker EXCEPT ![c] = "sleeping"]
  /\ UNCHANGED <<at, conns, owner, closed, handler>>

WorkerConnect(c) ==
  /\ worker[c] = "sleeping"
  /\ ExecInUse < ExecPoolSize
  /\ worker' = [worker EXCEPT ![c] = "writing"]
  /\ UNCHANGED <<at, conns, owner, closed, handler>>

(* The error is logged, the execution stays QUEUED, the permit is given back. *)
WorkerRefused(c) ==
  /\ "pool" \in TimeOuts
  /\ worker[c] = "sleeping"
  /\ ExecInUse >= ExecPoolSize
  /\ worker' = [worker EXCEPT ![c] = "failed"]
  /\ UNCHANGED <<at, conns, owner, closed, handler>>

WorkerCommit(c) ==
  /\ worker[c] = "writing"
  /\ worker' = [worker EXCEPT ![c] = "done"]
  /\ UNCHANGED <<at, conns, owner, closed, handler>>

(***************************************************************************)
(* Specification                                                           *)
(***************************************************************************)

SchedulerStep ==
  /\ \E p \in Procs : Connect(p) \/ Lock(p) \/ Call(p) \/ Receive(p) \/ Commit(p)
  /\ UNCHANGED webhook

ExecutorStep ==
  /\ \E c \in Calls : \/ HandlerConnect(c) \/ HandlerAnswer(c) \/ HandlerCommit(c)
                      \/ WorkerPermit(c) \/ WorkerConnect(c) \/ WorkerCommit(c)
  /\ UNCHANGED webhook

HttpTimeOut == (\E p \in Procs : TimeOut(p)) /\ UNCHANGED webhook

PoolTimeOut ==
  /\ \/ \E p \in Procs : PoolTimeout(p)
     \/ \E c \in Calls : HandlerRefused(c) \/ WorkerRefused(c)
  /\ UNCHANGED webhook

Beginning == (\E p \in Procs : Begin(p)) /\ UNCHANGED webhook

PNext == Beginning \/ SchedulerStep \/ ExecutorStep \/ HttpTimeOut \/ PoolTimeOut

PSpec == PInit /\ [][PNext]_pvars

(* While some coroutine or request of the scheduler can go on, one does.    *)
PFairSpec == PSpec /\ WF_pvars(SchedulerStep)

(* So it is in the executor, as long as it does not hang.                   *)
ExecutorGoesOn == WF_pvars(ExecutorStep)

(* The HTTP client gives up a call in the end.                              *)
TimeOutsKept == WF_pvars(HttpTimeOut)

(***************************************************************************)
(* Properties                                                              *)
(***************************************************************************)

(* Neither pool is overdrawn, and who is not inside a session holds neither a
   connection nor a row ("Connections are not held open while tenacity sleeps
   between retries"), whichever way its last session ended.                  *)
NothingLeaks ==
  /\ InUse <= PoolSize /\ ExecInUse <= ExecPoolSize
  /\ \A p \in Procs :
       at[p].phase \in Away \/ at[p].step = "connect" =>
         conns[p] = 0 /\ \A t \in Tasks : owner[t] # p

(* Coroutines that hold connections, rows and permits while they wait for more
   never wait for each other in a circle: everyone ends, and no time-out has to
   come to the rescue.                                                       *)
EveryoneEnds ==
  ExecutorGoesOn =>
    []<>(/\ \A p \in Procs : at[p].phase \in Away
         /\ \A c \in Calls : /\ handler[c] \in {"none", "done", "refused"}
                             /\ worker[c] \in {"none", "done", "failed"})

(* An executor that hangs, with or without having answered, does not stop the
   scheduler: the client's time-out brings its coroutines and requests to their
   end.                                                                      *)
SchedulerDrains == TimeOutsKept => []<>(\A p \in Procs : at[p].phase \in Away)

(* What someone may have to wait for: a connection, a row, an answer; ...    *)
WaitsForConnection(p) ==
  at[p].phase \notin Away /\ at[p].step = "connect" /\ InUse >= PoolSize
WaitsForRow(p) == at[p].step = "lock" /\ owner[at[p].row] # Nobody
WaitsForAnswer(p) ==
  at[p].step = "await" /\ handler[CallOf(p)] \notin {"answered", "done", "refused"}

(* ... in the executor, a connection or a permit.                            *)
HandlerWaits(c) == handler[c] = "queued" /\ ExecInUse >= ExecPoolSize
WorkerWaits(c) == worker[c] = "sleeping" /\ ExecInUse >= ExecPoolSize
WaitsForPermit(c) == worker[c] = "queued" /\ Permits >= MaxInFlight

(* Processes, handlers and completions that have something left to do, and those
   that cannot do it now.                                                    *)
Busy ==
  ({"process"} \X {p \in Procs : at[p].phase \notin Away})
  \cup ({"handler"} \X {c \in Calls : handler[c] \in {"queued", "working", "answered"}})
  \cup ({"worker"} \X {c \in Calls : worker[c] \in {"queued", "sleeping", "writing"}})

Blocked ==
  ({"process"} \X {p \in Procs : WaitsForConnection(p) \/ WaitsForRow(p) \/ WaitsForAnswer(p)})
  \cup ({"handler"} \X {c \in Calls : HandlerWaits(c)})
  \cup ({"worker"} \X {c \in Calls : WorkerWaits(c) \/ WaitsForPermit(c)})

(* Does y have what x waits for?  Of a pool, any connection will do.         *)
Has(y, x) ==
  \/ /\ x[1] = "process" /\ y[1] = "process"
     /\ \/ WaitsForConnection(x[2]) /\ conns[y[2]] > 0
        \/ WaitsForRow(x[2]) /\ owner[at[x[2]].row] = y[2]
  \/ /\ x[1] = "process" /\ y[1] = "handler"
     /\ WaitsForAnswer(x[2]) /\ CallOf(x[2]) = y[2]
  \/ /\ x[1] = "handler" \/ (x[1] = "worker" /\ WorkerWaits(x[2]))
     /\ \/ y[1] = "handler" /\ handler[y[2]] \in {"working", "answered"}
        \/ y[1] = "worker" /\ worker[y[2]] = "writing"
  \/ /\ x[1] = "worker" /\ WaitsForPermit(x[2])
     /\ y[1] = "worker" /\ worker[y[2]] \in {"sleeping", "writing"}

WaitsOn(x) == {y \in Busy : Has(y, x)}

(* Whoever cannot go on waits for somebody who has what is wanted and is not yet
   done; and no group of them, processes of the scheduler, handlers and
   completions of the executor, wait only for each other.                    *)
NoCircle ==
  \A S \in SUBSET Blocked :
    S # {} => \E x \in S : WaitsOn(x) # {} /\ WaitsOn(x) \cap S = {}

(***************************************************************************)
(* The inductive invariant behind NothingLeaks and NoCircle                *)
(***************************************************************************)

Sessions == [phase : Phases, step : {"connect", "lock", "call", "await", "commit"},
             row : Tasks, try : Nat, next : Phases, check : Nat]

PTypeOK ==
  /\ at \in [Procs -> Sessions]
  /\ conns \in [Procs -> Nat]
  /\ owner \in [Tasks -> Procs \cup {Nobody}]
  /\ closed \subseteq Tasks
  /\ handler \in [Calls -> {"none", "queued", "working", "answered", "done", "refused"}]
  /\ worker \in [Calls -> {"none", "queued", "sleeping", "writing", "done", "failed"}]

(* Who is not at work has not begun its next session, and no session takes a
   second connection.                                                        *)
PoolInv ==
  /\ PTypeOK /\ NothingLeaks
  /\ \A p \in Procs : /\ at[p].phase \in Away => at[p].step = "connect"
                      /\ conns[p] <= 1

(* A session that calls is an attempt or a poll, and is repeated up to Cap.   *)
InOrder(a) ==
  /\ a.try \in 1 .. Cap
  /\ a.step \in {"call", "await"} => a.phase \in {"post", "poll"}
  /\ a.step # "connect" /\ a.next = a.phase => a.try < Cap

(* Who holds a row is calling the webhook in a repeated attempt, or about to
   commit, and wants no other row.                                           *)
Holds(a, t) ==
  /\ a.row = t
  /\ a.step = "commit" \/ (a.phase = "post" /\ a.step \in {"call", "await"})

(* A call that is awaited is under way.                                      *)
WaitInv ==
  /\ \A p \in Procs : /\ InOrder(at[p])
                      /\ at[p].step = "await" => handler[CallOf(p)] # "none"
  /\ \A t \in Tasks, p \in Procs : owner[t] = p => Holds(at[p], t)

ConnInv == PoolInv /\ WaitInv
===============================================================================
