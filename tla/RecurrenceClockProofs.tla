------------------------- MODULE RecurrenceClockProofs -------------------------
(***************************************************************************)
(* A recurring task survives as long as its delays stay within the grace   *)
(* and skips nothing, for any period, cron dates, grace and run lengths.   *)
(***************************************************************************)
EXTENDS RecurrenceClock, TLAPS, WellFoundedInduction

USE ClockAssumption

(* The next date is an integer after this one, and no slot lies between.    *)
LEMMA NextFacts ==
  ASSUME RTypeOK, NEW d \in NextRunTimes
  PROVE  /\ d \in Int
         /\ recurrence = "CUSTOM_CRON" => \A s \in Slots : ~(due < s /\ s < d)
<1>1. CASE recurrence = "PERIODIC"
  BY <1>1 DEF NextRunTimes, RTypeOK
<1>2. CASE recurrence # "PERIODIC"
  <2>1. d \in Slots /\ \A r \in Slots : r > due => d <= r
    BY <1>2 DEF NextRunTimes, After
  <2> QED
    BY <2>1 DEF RTypeOK
<1> QED
  BY <1>1, <1>2

(* The clock starts with a first task whose delay is on record.             *)
LEMMA ClockInit == RInit => ClockInv
<1> SUFFICES ASSUME RInit PROVE ClockInv
  OBVIOUS
<1>1. PICK aware \in BOOLEAN : runDate \in JobDates(due, aware)
  BY DEF RInit
<1>2. due \in Int /\ now \in Int
  BY DEF RInit
<1>3. runDate \in Int
  BY <1>1, <1>2 DEF JobDates
<1>4. delay = Later(now, runDate) - Earlier(due, runDate)
  BY DEF RInit
<1>5. /\ delay \in Nat /\ runDate <= due + delay
      /\ now <= Earlier(due, runDate) + delay
  BY <1>2, <1>3, <1>4 DEF Later, Earlier
<1>6. {now, due, runDate, started, first} \subseteq Int
  BY <1>2, <1>3 DEF RInit
<1>7. RTypeOK
  BY <1>5, <1>6 DEF RInit, RTypeOK
<1>8. state = "scheduled"
  BY DEF RInit
<1> QED
  BY <1>5, <1>7, <1>8 DEF ClockInv, InArrears

(* Every step keeps the invariant.                                          *)
LEMMA ClockStep == ClockInv /\ [RNext]_rvars => ClockInv'
<1> SUFFICES ASSUME ClockInv, [RNext]_rvars PROVE ClockInv'
  OBVIOUS
<1>0. RTypeOK /\ now \in Int /\ due \in Int /\ runDate \in Int /\ started \in Int /\ delay \in Nat
  BY DEF ClockInv, RTypeOK
<1>00. /\ runDate <= due + delay
       /\ state = "scheduled" => now <= due + delay /\ now <= runDate + delay
       /\ state = "running" => started <= due + delay
  BY <1>0 DEF ClockInv, InArrears, Earlier
<1>1. CASE Pass
  <2>1. RTypeOK'
    BY <1>0, <1>1 DEF Pass, RTypeOK
  <2>2. now' = now + 1 /\ UNCHANGED <<due, runDate, state, started>>
    BY <1>1 DEF Pass
  <2>3. CASE Waiting
    <3>1. delay' = delay + 1
      BY <1>1, <2>3 DEF Pass
    <3> QED
      BY <1>0, <1>00, <2>1, <2>2, <3>1 DEF ClockInv, InArrears, Earlier
  <2>4. CASE ~Waiting
    <3>1. delay' = delay /\ (state = "scheduled" => now + 1 <= runDate)
      BY <1>0, <1>1, <2>4 DEF Pass, Waiting
    <3> QED
      BY <1>0, <1>00, <2>1, <2>2, <3>1 DEF ClockInv, InArrears, Earlier
  <2> QED
    BY <2>3, <2>4
<1>2. CASE Leave
  <2>1. UNCHANGED <<now, due, runDate, started, first, delay, recurrence>> /\ awake' = FALSE
        /\ (state' = state \/ state' = "lost")
    BY <1>2 DEF Leave
  <2> QED
    BY <2>1 DEF ClockInv, RTypeOK, InArrears, Earlier
<1>3. CASE Return
  BY <1>3 DEF Return, ClockInv, RTypeOK, InArrears, Earlier
<1>4. CASE Fire
  <2>1. UNCHANGED <<recurrence, now, awake, due, runDate, first, delay>> /\ state = "scheduled"
    BY <1>4 DEF Fire, Waiting
  <2>2. CASE MisfiredWhen
    <3>1. state' = "dropped" /\ started' = started
      BY <1>4, <2>2 DEF Fire
    <3> QED
      BY <1>0, <1>00, <2>1, <3>1 DEF ClockInv, RTypeOK, InArrears
  <2>3. CASE ~MisfiredWhen
    <3>1. state' = "running" /\ started' = now
      BY <1>4, <2>3 DEF Fire
    <3> QED
      BY <1>0, <1>00, <2>1, <3>1 DEF ClockInv, RTypeOK, InArrears
  <2> QED
    BY <2>2, <2>3
<1>5. CASE Succeed
  <2>0. state = "running" /\ UNCHANGED <<recurrence, now, awake, started, first>>
    BY <1>5 DEF Succeed
  <2>1. CASE state' = "ended" /\ UNCHANGED <<due, runDate, delay>>
    BY <1>0, <1>00, <2>0, <2>1 DEF ClockInv, RTypeOK, InArrears
  <2>2. CASE /\ due' \in NextRunTimes
             /\ runDate' \in ChildDates(due')
             /\ state' = "scheduled"
             /\ delay' = delay + Later(0, (now - started) - (due' - due))
    <3>1. due' \in Int /\ runDate' = due'
      BY <1>0, <2>2, NextFacts DEF ChildDates, JobDates
    <3>2. PICK d \in Int : d = due'
      BY <3>1
    <3>3. delay' = delay + Later(0, (now - started) - (d - due))
      BY <2>2, <3>2, Zenon
    <3>4. delay' \in Nat /\ delay' >= delay /\ delay' >= delay + ((now - started) - (d - due))
      BY <1>0, <3>3 DEF Later
    <3>5. now <= d + delay'
      <4>1. started <= due + delay
        BY <1>00, <2>0
      <4>2. PICK e \in Nat : e = delay'
        BY <3>4
      <4>3. e >= delay + ((now - started) - (d - due))
        BY <3>4, <4>2, Zenon
      <4>4. now <= d + e
        BY <1>0, <4>1, <4>3
      <4> QED
        BY <4>2, <4>4, Zenon
    <3>6. RTypeOK'
      <4>1. {now, due, runDate, started, first}' \subseteq Int
        BY <1>0, <2>0, <3>1 DEF RTypeOK
      <4> QED
        BY <1>0, <2>0, <2>2, <3>4, <4>1 DEF RTypeOK
    <3> QED
      BY <2>0, <2>2, <3>1, <3>2, <3>4, <3>5, <3>6 DEF ClockInv, InArrears, Earlier
  <2> QED
    BY <1>5, <2>1, <2>2 DEF Succeed
<1>6. CASE UNCHANGED rvars
  BY <1>6 DEF rvars, ClockInv, RTypeOK, InArrears, Earlier
<1> QED
  BY <1>1, <1>2, <1>3, <1>4, <1>5, <1>6 DEF RNext

(* The invariant holds for any period, cron dates, grace and run lengths.   *)
THEOREM ClockInvariant == RSpec => []ClockInv
  BY ClockInit, ClockStep, PTL DEF RSpec

(* A job is only dropped when the delays of its chain add up to more than the
   grace, whatever they are and however they are spread over its runs.       *)
THEOREM DelaysWithinGraceKeepTheChain == RSpec => []ChainSurvives
<1>1. RInit => ChainSurvives
  BY DEF RInit, ChainSurvives
<1>2. ClockInv /\ ChainSurvives /\ [RNext]_rvars => ChainSurvives'
  <2> SUFFICES ASSUME ClockInv, ChainSurvives, [RNext]_rvars, state' = "dropped"
               PROVE  (delay > Grace)'
    BY DEF ChainSurvives
  <2>1. now \in Int /\ runDate \in Int /\ due \in Int /\ delay \in Nat
    BY DEF ClockInv, RTypeOK
  <2>2. CASE state = "dropped"
    <3>1. delay > Grace
      BY <2>2 DEF ChainSurvives
    <3>2. delay' = delay
      BY <2>2 DEF RNext, Pass, Leave, Return, Fire, Succeed, Waiting, rvars
    <3> QED
      BY <3>1, <3>2
  <2>3. CASE state # "dropped"
    <3>1. Fire /\ MisfiredWhen
      BY <2>3 DEF RNext, Pass, Leave, Return, Fire, Succeed, rvars
    <3>2. now > runDate + Grace /\ state = "scheduled" /\ delay' = delay
      BY <3>1 DEF Fire, MisfiredWhen, Waiting
    <3>3. now <= runDate + delay
      BY <2>1, <3>2 DEF ClockInv, InArrears, Earlier
    <3> QED
      BY <2>1, <3>2, <3>3
  <2> QED
    BY <2>2, <2>3
<1> QED
  BY <1>1, <1>2, ClockInvariant, PTL DEF RSpec

(* A chain that lags behind runs every date it missed.                      *)
THEOREM NoOccurrenceSkipped == RSpec => NothingSkipped
<1>1. ClockInv /\ [RNext]_rvars =>
        [\A s \in Slots : recurrence = "CUSTOM_CRON" => ~(due < s /\ s < due')]_rvars
  <2> SUFFICES ASSUME ClockInv, RNext, NEW s \in Slots, recurrence = "CUSTOM_CRON"
               PROVE  ~(due < s /\ s < due')
    OBVIOUS
  <2>1. due \in Int /\ s \in Int /\ RTypeOK
    BY DEF ClockInv, RTypeOK
  <2>2. due' = due \/ due' \in NextRunTimes
    BY DEF RNext, Pass, Leave, Return, Fire, Succeed
  <2> QED
    BY <2>1, <2>2, NextFacts
<1> QED
  BY <1>1, ClockInvariant, PTL DEF RSpec, NothingSkipped

(* A date a period after one that is in step is in step.                    *)
LEMMA InStep ==
  ASSUME NEW a \in Int, NEW b \in Int, (a - b) % Period = 0
  PROVE  (a + Period - b) % Period = 0
<1>1. PICK k \in Int : a - b = Period * k
  OBVIOUS
<1>2. a + Period - b = Period * (k + 1)
  BY <1>1
<1>3. (Period * (k + 1)) % Period = 0
  OBVIOUS
<1> QED
  BY <1>2, <1>3

(* Execution times do not drift: they stay whole periods after the first one,
   or on the dates of cron_expr, however late the runs before were.         *)
THEOREM ExecutionTimesDoNotDrift == RSpec => []NoDrift
<1>1. RInit => NoDrift
  BY DEF RInit, NoDrift
<1>2. ClockInv /\ NoDrift /\ [RNext]_rvars => NoDrift'
  <2> SUFFICES ASSUME ClockInv, NoDrift, [RNext]_rvars PROVE NoDrift'
    OBVIOUS
  <2>1. due \in Int /\ first \in Int
    BY DEF ClockInv, RTypeOK
  <2>2. CASE UNCHANGED <<recurrence, due, first>>
    BY <2>2 DEF NoDrift
  <2>3. CASE Succeed /\ due' \in NextRunTimes
    <3>1. recurrence' = recurrence /\ first' = first
      BY <2>3 DEF Succeed
    <3>2. CASE recurrence = "PERIODIC"
      <4>1. due' = due + Period
        BY <2>3, <3>2 DEF NextRunTimes
      <4>2. (due - first) % Period = 0
        BY <3>2 DEF NoDrift
      <4>3. (due + Period - first) % Period = 0
        BY <2>1, <4>2, InStep
      <4>4. due' - first' = due + Period - first
        BY <2>1, <3>1, <4>1
      <4> QED
        BY <3>1, <3>2, <4>3, <4>4, Zenon DEF NoDrift
    <3>3. CASE recurrence # "PERIODIC"
      <4>1. due' \in Slots
        BY <2>3, <3>3 DEF NextRunTimes, After
      <4> QED
        BY <3>1, <3>3, <4>1 DEF NoDrift
    <3> QED
      BY <3>2, <3>3
  <2> QED
    BY <2>2, <2>3 DEF RNext, Pass, Leave, Return, Fire, Succeed, rvars
<1> QED
  BY <1>1, <1>2, ClockInvariant, PTL DEF RSpec

(* Of the dates after another one, if there are any, one is the first.      *)
LEMMA EarliestDate ==
  ASSUME NEW d \in Int, After(d) # {}
  PROVE  \E s \in After(d) : \A r \in After(d) : s <= r
<1> DEFINE Gaps == {n \in Nat : d + n \in After(d)}
<1>1. After(d) \subseteq Int /\ \A s \in After(d) : s > d
  BY DEF After
<1>2. \A s \in After(d) : s - d \in Gaps
  BY <1>1
<1>3. PICK n \in Gaps : \A m \in Gaps : ~(<<m, n>> \in OpToRel(<, Nat))
  <2>1. Gaps \subseteq Nat /\ Gaps # {}
    BY <1>2
  <2> HIDE DEF Gaps
  <2> QED
    BY <2>1, NatLessThanWellFounded, WFMin, Zenon
<1>4. \A m \in Gaps : n <= m
  <2>1. \A m \in Nat : m < n => <<m, n>> \in OpToRel(<, Nat)
    BY DEF OpToRel
  <2>2. \A m \in Gaps : ~(m < n)
    BY <1>3, <2>1, Zenon
  <2> QED
    BY <2>2
<1> QED
  BY <1>1, <1>2, <1>4

(* A chain whose runs succeed only ends when no occurrence is left.         *)
THEOREM ChainEndsWhenExhausted == RSpec => []EndsWhenExhausted
<1>1. RInit => EndsWhenExhausted
  BY DEF RInit, EndsWhenExhausted
<1>2. ClockInv /\ EndsWhenExhausted /\ [RNext]_rvars => EndsWhenExhausted'
  <2> SUFFICES ASSUME ClockInv, EndsWhenExhausted, [RNext]_rvars, state' = "ended"
               PROVE  (recurrence = "CUSTOM_CRON" /\ \A s \in Slots : s <= due)'
    BY DEF EndsWhenExhausted
  <2>1. due \in Int /\ recurrence \in {"PERIODIC", "CUSTOM_CRON"}
    BY DEF ClockInv, RTypeOK
  <2>2. CASE Succeed
    <3>1. NextRunTimes = {} /\ UNCHANGED <<recurrence, due>>
      BY <2>2 DEF Succeed
    <3>2. recurrence = "CUSTOM_CRON"
      BY <2>1, <3>1 DEF NextRunTimes
    <3>3. After(due) = {}
      BY <2>1, <3>1, <3>2, EarliestDate DEF NextRunTimes
    <3> QED
      BY <2>1, <3>1, <3>2, <3>3 DEF After
  <2>3. CASE ~Succeed
    <3>1. state = "ended" /\ UNCHANGED <<recurrence, due>>
      BY <2>3 DEF RNext, Pass, Leave, Return, Fire, rvars
    <3> QED
      BY <3>1 DEF EndsWhenExhausted
  <2> QED
    BY <2>2, <2>3
<1> QED
  BY <1>1, <1>2, ClockInvariant, PTL DEF RSpec
===============================================================================
