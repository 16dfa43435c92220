---------------------------- MODULE RecurrenceClock ----------------------------
(***************************************************************************)
(* A recurring task over time.  Every SUCCESS inserts a child whose        *)
(* execution_time is the occurrence after the parent's, whenever the       *)
(* parent itself ran, and registers a date job for it; a job that gets its *)
(* turn later than its date + grace is dropped, and with it the chain:     *)
(* only a run that succeeds schedules the next one.                        *)
(*                                                                         *)
(* The row and the job each get the date their own way: TZDateTime stores  *)
(* a date without a time zone as UTC, APScheduler takes it for local time. *)
(*                                                                         *)
(* TaskEngine has the interleavings and failures of a run; here a run is   *)
(* its duration, retries, polls and all.                                   *)
(***************************************************************************)
EXTENDS Integers

CONSTANTS
  Period,       \* an hour or a day
  Slots,        \* the dates cron_expr matches
  Grace,        \* settings.scheduler_misfire_grace_seconds
  MaxRun,       \* the longest a run may take, waiting for the scheduler included
  FirstLag,     \* how far in the past the first execution_time may lie
  MaxOffset,    \* how far the host's local time may be from UTC
  Horizon       \* bound: the clock stops here

ASSUME ClockAssumption ==
  /\ Period \in Nat \ {0}
  /\ Slots \subseteq Int
  /\ Grace \in Nat
  /\ MaxRun \in Nat
  /\ FirstLag \in Nat
  /\ MaxOffset \in Nat
  /\ Horizon \in Nat

VARIABLES
  recurrence,  \* "PERIODIC" for HOURLY and DAILY, or "CUSTOM_CRON"
  now,         \* wall clock, UTC
  awake,       \* the scheduler's process is up and its event loop is not blocked
  due,         \* execution_time of the latest task of the chain
  runDate,     \* the date of its job
  state,       \* that task: scheduled, running, dropped, lost with its process;
               \* or no next one: ended
  started,     \* when its run began
  first,       \* history: execution_time of the first task
  delay        \* history: all that has ever put the chain behind: a first date
               \* in the past or misread, the time runs took beyond the next
               \* date's distance, the time jobs waited for the scheduler

rvars == <<recurrence, now, awake, due, runDate, state, started, first, delay>>

(* process_bind_param for the row, DateTrigger for the job: what the job's date
   may be when the row says date.                                           *)
JobDates(date, aware) ==
  IF aware THEN {date} ELSE (date - MaxOffset) .. (date + MaxOffset)

Earlier(a, b) == IF a <= b THEN a ELSE b
Later(a, b) == IF a <= b THEN b ELSE a

(* POST /tasks takes any execution_time, a past or a naive one too.         *)
RInit ==
  /\ recurrence \in {"PERIODIC", "CUSTOM_CRON"}
  /\ now = FirstLag
  /\ awake = TRUE
  /\ due \in 0 .. FirstLag + Period
  /\ \E aware \in BOOLEAN : runDate \in JobDates(due, aware)
  /\ state = "scheduled"
  /\ started = 0
  /\ first = due
  /\ delay = Later(now, runDate) - Earlier(due, runDate)

Waiting == state = "scheduled" /\ now >= runDate

(* Time passes.  The scheduler wakes for a job at its date, so only while it is
   stopped or blocked does one wait past it; a run is over within MaxRun.    *)
Pass ==
  /\ now < Horizon
  /\ awake => ~Waiting
  /\ state = "running" => now < started + MaxRun
  /\ now' = now + 1
  /\ delay' = IF Waiting THEN delay + 1 ELSE delay
  /\ UNCHANGED <<recurrence, awake, due, runDate, state, started, first>>

(* The loop is blocked, or shutdown stops the process: jobs stay in the job
   store, as does a run that waits for its next poll; one inside execute_task
   or poll_task is lost with the process.                                    *)
Leave ==
  /\ awake
  /\ awake' = FALSE
  /\ \/ UNCHANGED state
     \/ state = "running" /\ state' = "lost"
  /\ UNCHANGED <<recurrence, now, due, runDate, started, first, delay>>

(* start, or the loop is free again.                                        *)
Return ==
  /\ ~awake
  /\ awake' = TRUE
  /\ UNCHANGED <<recurrence, now, due, runDate, state, started, first, delay>>

(* Slip: no grace at all.                                                   *)
MisfiredWhen_NoGrace == now > runDate

(* APScheduler's test when a job gets its turn.                             *)
MisfiredWhen == now > runDate + Grace

Fire ==
  /\ awake /\ Waiting
  /\ IF MisfiredWhen THEN state' = "dropped" /\ UNCHANGED started
                     ELSE state' = "running" /\ started' = now
  /\ UNCHANGED <<recurrence, now, awake, due, runDate, first, delay>>

After(base) == {s \in Slots : s > base}

(* Slips: the occurrence after the end of the run; the run's own slot again. *)
NextRunTimes_FromNow ==
  IF recurrence = "PERIODIC" THEN {now + Period}
  ELSE {s \in After(now) : \A r \in After(now) : s <= r}

NextRunTimes_SlotAfterNext ==
  IF recurrence = "PERIODIC" THEN {due + Period}
  ELSE {s \in After(due + 1) : \A r \in After(due + 1) : s <= r}

NextRunTimes_FutureOnly ==
  IF recurrence = "PERIODIC" THEN {due + Period}
  ELSE {s \in After(due) : s > now /\ \A r \in After(due) : s <= r}

(* next_run_time(recurrence, task.execution_time, cron_expr).  croniter raises
   when no date matches any more: the set is empty.                          *)
NextRunTimes ==
  IF recurrence = "PERIODIC" THEN {due + Period}
  ELSE {s \in After(due) : \A r \in After(due) : s <= r}

(* Slip: the date registered as it was before the table gave it a time zone. *)
ChildDates_Naive(date) == JobDates(date, FALSE)

(* The parent's execution_time was read back from the table, so the child's is
   aware.                                                                    *)
ChildDates(date) == JobDates(date, TRUE)

(* _schedule_next_occurrence.                                               *)
Succeed ==
  /\ awake /\ state = "running"
  /\ \/ /\ NextRunTimes = {}
        /\ state' = "ended"
        /\ UNCHANGED <<due, runDate, delay>>
     \/ /\ due' \in NextRunTimes
        /\ runDate' \in ChildDates(due')
        /\ state' = "scheduled"
        /\ delay' = delay + Later(0, (now - started) - (due' - due))
  /\ UNCHANGED <<recurrence, now, awake, started, first>>

RNext == Pass \/ Leave \/ Return \/ Fire \/ Succeed

RSpec == RInit /\ [][RNext]_rvars

(* The grace is the whole of what a chain can lose: a job is only dropped when
   what runs took beyond the distance to the next date, what jobs waited for a
   scheduler that was stopped or blocked, and what the first date was late or
   misread by come to more than it, all together.  (A run passes its lateness
   on, so small delays add up over the life of a chain; nothing else, and no
   number of runs that are over in time, uses the grace up.)                 *)
ChainSurvives == state = "dropped" => delay > Grace

(* No drift: execution_times stay a whole number of periods apart, or on the
   dates of cron_expr, however late the runs before were.                    *)
NoDrift == IF recurrence = "PERIODIC" THEN (due - first) % Period = 0
           ELSE due \in Slots \cup {first}

(* No occurrence is skipped: a chain that lags behind runs every one it missed,
   one by one, as long as it is not dropped.                                 *)
NothingSkipped ==
  [][\A s \in Slots : recurrence = "CUSTOM_CRON" => ~(due < s /\ s < due')]_rvars

(* A chain whose runs succeed only ends when no occurrence is left.          *)
EndsWhenExhausted ==
  state = "ended" => recurrence = "CUSTOM_CRON" /\ \A s \in Slots : s <= due

(***************************************************************************)
(* The inductive invariant behind these                                    *)
(***************************************************************************)

RTypeOK ==
  /\ recurrence \in {"PERIODIC", "CUSTOM_CRON"}
  /\ {now, due, runDate, started, first} \subseteq Int
  /\ delay \in Nat
  /\ awake \in BOOLEAN
  /\ state \in {"scheduled", "running", "dropped", "lost", "ended"}

(* How far behind a chain may be: its delays, passed on from run to run, are
   all there is, for its job as for the row it was registered for.           *)
InArrears ==
  /\ runDate <= due + delay
  /\ state = "scheduled" => now <= Earlier(due, runDate) + delay
  /\ state = "running" => started <= due + delay

ClockInv == RTypeOK /\ InArrears
===============================================================================
