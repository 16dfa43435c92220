------------------------------ MODULE TaskListing ------------------------------
(***************************************************************************)
(* GET /tasks beside the writes of the same table.  A client walks through *)
(* the list page by page with limit and offset; each page is a query of    *)
(* its own, newest created_at first, and between two of them tasks are     *)
(* created and change their status.                                        *)
(*                                                                         *)
(* A row gets its created_at at its flush, is answered with 201 and only   *)
(* then committed, so rows become visible in another order than they are   *)
(* listed in.  Scheduler and DELETE each write the status on the strength  *)
(* of an earlier read, over whatever the other has committed since: a task *)
(* can leave the result of a filter and come back into it.                 *)
(*                                                                         *)
(* Two tasks never have the same created_at here (microseconds in the      *)
(* code, which has no tie-break).                                          *)
(***************************************************************************)
EXTENDS TaskStatus, FiniteSets

CONSTANTS
  MaxTasks,  \* bound: rows ever created; task i has the i-th created_at
  Limit      \* the page size the client asks for

ASSUME ListingAssumption == MaxTasks \in Nat /\ Limit \in Nat \ {0}

Ids == 1 .. MaxTasks

VARIABLES
  row,      \* each task: none, flushed, answered, lost, refused or its
            \* committed status
  progress, \* the status the scheduler itself has given each task last
  scan,     \* the client's walk: phase, status filter, offset of the next page
  got,      \* how often the walk has returned each task
  matched,  \* history: the tasks that matched the filter when the walk began
  left,     \* history: rows that have stopped matching since then
  entered   \* history: rows that have started to match since then

lvars == <<row, progress, scan, got, matched, left, entered>>

Visible == {i \in Ids : row[i] \in Statuses}

(* The filter of a query; a client that sends no status gets every row.     *)
Matches(i, status) == i \in Visible /\ status \in {"any", row[i]}

Rows(status) == {i \in Ids : Matches(i, status)}

LInit ==
  /\ row = [i \in Ids |-> "none"] /\ progress = [i \in Ids |-> "none"]
  /\ scan = [phase |-> "idle", status |-> "any", offset |-> 0]
  /\ got = [i \in Ids |-> 0]
  /\ matched = {} /\ left = 0 /\ entered = 0

(* What a write of row i to s does to the result the walk pages through.    *)
Write(i, s) ==
  LET before == Matches(i, scan.status)
      after  == s \in Statuses /\ scan.status \in {"any", s}
      walked == scan.phase = "walking"
  IN  /\ row' = [row EXCEPT ![i] = s]
      /\ left' = left + IF walked /\ before /\ ~after THEN 1 ELSE 0
      /\ entered' = entered + IF walked /\ ~before /\ after THEN 1 ELSE 0
      /\ UNCHANGED <<scan, got, matched>>

(* Such a write by the scheduler.                                           *)
Give(i, s) == Write(i, s) /\ progress' = [progress EXCEPT ![i] = s]

(* TaskRepository.add stamps the row, ...                                   *)
Flush(i) ==
  /\ row[i] = "none"
  /\ \A j \in 1 .. (i - 1) : row[j] # "none"
  /\ Write(i, "flushed") /\ UNCHANGED progress

(* ... the router answers 201, unless the job cannot be registered, ...     *)
Respond(i) ==
  /\ row[i] = "flushed"
  /\ \E s \in {"answered", "refused"} : Write(i, s)
  /\ UNCHANGED progress

(* ... and get_db commits, or cannot.                                       *)
Finish(i) ==
  /\ row[i] = "answered"
  /\ \/ Give(i, "PENDING")
     \/ Write(i, "lost") /\ UNCHANGED progress

(* _mark_running: over a cancel, too, that has committed since its read.    *)
Mark(i) == progress[i] = "PENDING" /\ Give(i, "RUNNING")

(* So are the verdicts of execute_task and poll_task.                       *)
Settle(i) == progress[i] = "RUNNING" /\ \E v \in Verdicts : Give(i, v)

(* A DELETE that has read the row before it became terminal.                *)
Cancel(i) ==
  /\ i \in Visible /\ row[i] # "CANCELLED"
  /\ Write(i, "CANCELLED") /\ UNCHANGED progress

(* How many rows are newer than i, that is, come before it.                 *)
Place(i, rows) == Cardinality({j \in rows : j > i})

(* Slips: the filter applied to the page; one row more, to see if there is a
   next page.                                                               *)
List_FilterPage(status, limit, offset) ==
  {i \in Rows(status) : Place(i, Visible) \in offset .. (offset + limit - 1)}

List_OneMore(status, limit, offset) ==
  {i \in Rows(status) : Place(i, Rows(status)) \in offset .. (offset + limit)}

(* TaskRepository.list: ORDER BY created_at DESC, LIMIT and OFFSET.         *)
List(status, limit, offset) ==
  {i \in Rows(status) : Place(i, Rows(status)) \in offset .. (offset + limit - 1)}

StartScan(s) ==
  /\ scan.phase = "idle"
  /\ scan' = [phase |-> "walking", status |-> s, offset |-> 0]
  /\ matched' = Rows(s)
  /\ UNCHANGED <<row, progress, got, left, entered>>

(* A client asks for pages until one is not full.                           *)
NextPage ==
  /\ scan.phase = "walking"
  /\ LET page == List(scan.status, Limit, scan.offset)
     IN  /\ got' = [i \in Ids |-> got[i] + IF i \in page THEN 1 ELSE 0]
         /\ scan' = [scan EXCEPT !.phase = IF Cardinality(page) < Limit THEN "over" ELSE @,
                                 !.offset = @ + Limit]
  /\ UNCHANGED <<row, progress, matched, left, entered>>

LNext ==
  \/ \E i \in Ids : Flush(i) \/ Respond(i) \/ Finish(i) \/ Mark(i) \/ Settle(i) \/ Cancel(i)
  \/ \E s \in {"any"} \cup Statuses : StartScan(s)
  \/ NextPage

LSpec == LInit /\ [][LNext]_lvars

(***************************************************************************)
(* Properties                                                              *)
(***************************************************************************)

(* A walk that is over has returned every task that matched when it began, but
   for one at most per time a row stopped matching on the way, a row that comes
   back included; a walk without a filter misses none, however many tasks are
   created and in whatever order they are committed.                         *)
MissesExplained ==
  scan.phase = "over" => Cardinality({i \in matched : got[i] = 0}) <= left

(* Each return of a task after its first; scan.offset bounds their number.   *)
Repeats == {r \in Ids \X (2 .. scan.offset) : r[2] <= got[r[1]]}

(* A walk repeats a task only because of a row that has started to match, for
   the first time or again.                                                  *)
RepeatsExplained == Cardinality(Repeats) <= entered

(***************************************************************************)
(* The inductive invariant behind these                                    *)
(***************************************************************************)

LTypeOK ==
  /\ row \in [Ids -> Statuses \cup {"none", "flushed", "answered", "lost", "refused"}]
  /\ progress \in [Ids -> Statuses \cup {"none"}]
  /\ scan \in [phase : {"idle", "walking", "over"}, status : {"any"} \cup Statuses,
               offset : Nat]
  /\ got \in [Ids -> Nat]
  /\ matched \subseteq Ids
  /\ {left, entered} \subseteq Nat

(* The rows the walk will come to, if nothing changes.                       *)
Ahead(rows, offset) == {i \in rows : Place(i, rows) >= offset}

(* Unless something changes, what matched and will not be returned, and what will
   be returned again.                                                        *)
Missed == {i \in matched \ Ahead(Rows(scan.status), scan.offset) : got[i] = 0}
Awaited == {i \in Ahead(Rows(scan.status), scan.offset) : got[i] > 0}

ListInv ==
  /\ LTypeOK /\ MissesExplained /\ RepeatsExplained
  /\ \A i \in Ids : got[i] <= scan.offset
  /\ scan.phase = "idle" => scan.offset = 0
  /\ scan.phase = "walking" => /\ Cardinality(Missed) <= left
                               /\ Cardinality(Repeats) + Cardinality(Awaited) <= entered
===============================================================================
