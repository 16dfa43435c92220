--------------------------- MODULE ConnectionsProofs ---------------------------
(***************************************************************************)
(* Neither pool is overdrawn and no session leaves a connection or a row   *)
(* lock behind, for any number of tasks and requests, any pool sizes, any  *)
(* Cap and with or without the time-outs.                                  *)
(***************************************************************************)
EXTENDS Connections, FiniteSetTheorems, TLAPS

(***************************************************************************)
(* Counting                                                                *)
(***************************************************************************)

(* What InUse counts, and what ExecInUse adds up.                           *)
Held == {c \in Procs \X (1 .. PoolSize) : c[2] <= conns[c[1]]}
Handling == {c \in Calls : handler[c] \in {"working", "answered"}}
Writing == {c \in Calls : worker[c] = "writing"}

LEMMA FiniteProcs == IsFiniteSet(Procs) /\ IsFiniteSet(Procs \X (1 .. PoolSize))
<1>1. IsFiniteSet(Procs)
  BY ProcsAssumption, FS_Union DEF Procs
<1>2. IsFiniteSet(1 .. PoolSize)
  BY PoolsAssumption, FS_Interval
<1> QED
  BY <1>1, <1>2, FS_Product

LEMMA FiniteCalls == IsFiniteSet(Calls)
<1> DEFINE Pairs == (Tasks \X {"post", "poll"}) \X (1 .. Cap)
           f == [c \in Calls |-> <<<<c[1], c[2]>>, c[3]>>]
<1>1. IsFiniteSet({"post", "poll"})
  <2>1. IsFiniteSet({"post"})
    BY FS_Singleton
  <2>2. IsFiniteSet({"post"} \cup {"poll"})
    BY <2>1, FS_AddElement
  <2>3. {"post", "poll"} = {"post"} \cup {"poll"}
    OBVIOUS
  <2> QED
    BY <2>2, <2>3
<1>2. IsFiniteSet(Pairs)
  <2>1. IsFiniteSet(1 .. Cap)
    BY PoolsAssumption, FS_Interval
  <2>2. IsFiniteSet(Tasks \X {"post", "poll"})
    BY <1>1, ProcsAssumption, FS_Product
  <2> QED
    BY <2>1, <2>2, FS_Product
<1>3. f \in Injection(Calls, Pairs)
  BY DEF Injection, IsInjective, Calls
<1> QED
  BY <1>2, <1>3, FS_Injection

(* Subsets of what is counted are no larger, one element more is one more.  *)
LEMMA Fewer ==
  ASSUME NEW S, IsFiniteSet(S), NEW T \in SUBSET S
  PROVE  /\ Cardinality(T) \in Nat /\ Cardinality(S) \in Nat
         /\ Cardinality(T) <= Cardinality(S)
  BY FS_Subset, FS_CardinalityType

LEMMA OneMore ==
  ASSUME NEW S, IsFiniteSet(S), NEW x, NEW T, T \subseteq S \cup {x}
  PROVE  /\ Cardinality(T) \in Nat /\ Cardinality(S) \in Nat
         /\ Cardinality(T) <= Cardinality(S) + 1
<1>2. Cardinality(S) \in Nat
  BY FS_CardinalityType
<1>1. IsFiniteSet(S \cup {x}) /\ Cardinality(S \cup {x}) <= Cardinality(S) + 1
  BY <1>2, FS_AddElement
<1>3. Cardinality(T) \in Nat /\ Cardinality(S \cup {x}) \in Nat
      /\ Cardinality(T) <= Cardinality(S \cup {x})
  BY <1>1, Fewer
<1> QED
  BY <1>1, <1>2, <1>3

(* The pools with these names.                                              *)
LEMMA Pools == /\ InUse = Cardinality(Held)
               /\ ExecInUse = Cardinality(Handling) + Cardinality(Writing)
               /\ IsFiniteSet(Held) /\ IsFiniteSet(Handling) /\ IsFiniteSet(Writing)
<1>1. InUse = Cardinality(Held) /\ ExecInUse = Cardinality(Handling) + Cardinality(Writing)
  BY DEF InUse, ExecInUse, Held, Handling, Writing
<1>2. IsFiniteSet(Held)
  BY FiniteProcs, FS_Subset DEF Held
<1>3. IsFiniteSet(Handling) /\ IsFiniteSet(Writing)
  BY FiniteCalls, FS_Subset DEF Handling, Writing
<1> QED
  BY <1>1, <1>2, <1>3

LEMMA PoolsNext == /\ InUse' = Cardinality(Held')
                   /\ ExecInUse' = Cardinality(Handling') + Cardinality(Writing')
                   /\ IsFiniteSet(Held') /\ IsFiniteSet(Handling') /\ IsFiniteSet(Writing')
<1>1. InUse' = Cardinality(Held') /\ ExecInUse' = Cardinality(Handling') + Cardinality(Writing')
  BY DEF InUse, ExecInUse, Held, Handling, Writing
<1>2. IsFiniteSet(Held')
  BY FiniteProcs, FS_Subset DEF Held
<1>3. IsFiniteSet(Handling') /\ IsFiniteSet(Writing')
  BY FiniteCalls, FS_Subset DEF Handling, Writing
<1> QED
  BY <1>1, <1>2, <1>3

(* The bounds of the two pools.                                             *)
Bounds == InUse <= PoolSize /\ ExecInUse <= ExecPoolSize

(* A process that is not in a session holds nothing, and is not waiting.    *)
Clean(p) ==
  /\ at[p].phase \in Away => at[p].step = "connect"
  /\ conns[p] <= 1
  /\ at[p].step = "connect" => conns[p] = 0 /\ \A t \in Tasks : owner[t] # p

LEMMA InvParts == PoolInv <=> PTypeOK /\ Bounds /\ \A p \in Procs : Clean(p)
  BY DEF PoolInv, NothingLeaks, Bounds, Clean

(* Who gives connections back, and gets none, keeps the pool's bound.       *)
LEMMA SchedulerBound ==
  ASSUME PTypeOK, PTypeOK', Bounds,
         \/ \A p \in Procs : conns'[p] <= conns[p]
         \/ /\ InUse < PoolSize
            /\ \E q \in Procs : /\ conns[q] = 0 /\ conns'[q] = 1
                                /\ \A p \in Procs \ {q} : conns'[p] = conns[p]
  PROVE  InUse' <= PoolSize
<1>0. PoolSize \in Nat \ {0}
  BY PoolsAssumption
<1>1. CASE \A p \in Procs : conns'[p] <= conns[p]
  <2>1. Held' \in SUBSET Held
    BY <1>1 DEF Held, PTypeOK
  <2>2. Cardinality(Held') \in Nat /\ Cardinality(Held) \in Nat
        /\ Cardinality(Held') <= Cardinality(Held)
    BY <2>1, Pools, Fewer
  <2> QED
    BY <1>0, <2>2, Pools, PoolsNext DEF Bounds
<1>2. CASE /\ InUse < PoolSize
           /\ \E q \in Procs : /\ conns[q] = 0 /\ conns'[q] = 1
                               /\ \A p \in Procs \ {q} : conns'[p] = conns[p]
  <2>1. PICK q \in Procs : /\ conns[q] = 0 /\ conns'[q] = 1
                           /\ \A p \in Procs \ {q} : conns'[p] = conns[p]
    BY <1>2
  <2>2. ASSUME NEW c \in Procs \X (1 .. PoolSize), c[2] <= conns'[c[1]], c # <<q, 1>>
        PROVE  c[2] <= conns[c[1]]
    <3>1. c = <<c[1], c[2]>> /\ c[1] \in Procs /\ c[2] \in 1 .. PoolSize
      BY <2>2
    <3>2. c[1] # q
      BY <2>1, <2>2, <3>1
    <3> QED
      BY <2>1, <2>2, <3>1, <3>2
  <2>3. Held' \subseteq Held \cup {<<q, 1>>}
    BY <2>2 DEF Held
  <2>4. Cardinality(Held') \in Nat /\ Cardinality(Held) \in Nat
        /\ Cardinality(Held') <= Cardinality(Held) + 1
    BY <2>3, Pools, OneMore
  <2> QED
    BY <1>0, <1>2, <2>4, Pools, PoolsNext
<1> QED
  BY <1>1, <1>2

(* Likewise the executor's, of which handlers and completions are users.    *)
LEMMA ExecutorBound ==
  ASSUME Bounds,
         \/ Handling' \subseteq Handling /\ Writing' \subseteq Writing
         \/ /\ ExecInUse < ExecPoolSize
            /\ \E c \in Calls :
                 \/ Handling' \subseteq Handling \cup {c} /\ Writing' \subseteq Writing
                 \/ Handling' \subseteq Handling /\ Writing' \subseteq Writing \cup {c}
  PROVE  ExecInUse' <= ExecPoolSize
<1> DEFINE H == Cardinality(Handling)
           W == Cardinality(Writing)
           HH == Cardinality(Handling')
           WW == Cardinality(Writing')
<1>0. ExecPoolSize \in Nat \ {0}
  BY PoolsAssumption
<1>1. H \in Nat /\ W \in Nat /\ HH \in Nat /\ WW \in Nat
  BY Pools, PoolsNext, FS_CardinalityType
<1>2. H + W <= ExecPoolSize
  BY Pools DEF Bounds
<1>3. HH + WW <= H + W \/ (H + W < ExecPoolSize /\ HH + WW <= H + W + 1)
  <2>1. Handling' \subseteq Handling => HH <= H
    BY Pools, Fewer
  <2>2. Writing' \subseteq Writing => WW <= W
    BY Pools, Fewer
  <2>3. \A c \in Calls : Handling' \subseteq Handling \cup {c} => HH <= H + 1
    BY Pools, OneMore
  <2>4. \A c \in Calls : Writing' \subseteq Writing \cup {c} => WW <= W + 1
    BY Pools, OneMore
  <2>5. ExecInUse = H + W
    BY Pools
  <2> HIDE DEF H, W, HH, WW
  <2>6. CASE Handling' \subseteq Handling /\ Writing' \subseteq Writing
    BY <1>1, <2>1, <2>2, <2>6
  <2>7. CASE /\ ExecInUse < ExecPoolSize
             /\ \E c \in Calls :
                  \/ Handling' \subseteq Handling \cup {c} /\ Writing' \subseteq Writing
                  \/ Handling' \subseteq Handling /\ Writing' \subseteq Writing \cup {c}
    <3>1. (HH <= H + 1 /\ WW <= W) \/ (HH <= H /\ WW <= W + 1)
      BY <2>1, <2>2, <2>3, <2>4, <2>7
    <3> QED
      BY <1>1, <2>5, <2>7, <3>1
  <2> QED
    BY <2>6, <2>7
<1>4. HH + WW <= ExecPoolSize
  <2> HIDE DEF H, W, HH, WW
  <2> QED
    BY <1>0, <1>1, <1>2, <1>3
<1> QED
  BY <1>4, PoolsNext

(***************************************************************************)
(* Sessions                                                                *)
(***************************************************************************)

(* The session a SELECT, a repeated call or an outcome leads to is the same
   one, further on.                                                         *)
LEMMA SelectedFacts ==
  ASSUME NEW a \in Sessions
  PROVE  Selected(a) \in Sessions /\ Selected(a).phase = a.phase
         /\ Selected(a).step # "connect"
<1>1. Follows(a) \in Phases /\ "over" \in Phases
  BY DEF Follows, Phases
<1>2. CASE a.row \in closed /\ a.phase \notin {"post", "read"}
  BY <1>1, <1>2 DEF Selected, Sessions
<1>3. CASE ~(a.row \in closed /\ a.phase \notin {"post", "read"})
  BY <1>1, <1>3 DEF Selected, Sessions
<1> QED
  BY <1>2, <1>3

LEMMA AgainFacts ==
  ASSUME NEW a \in Sessions
  PROVE  Again(a) \in Sessions /\ Again(a).phase = a.phase /\ Again(a).step = "commit"
<1>1. (IF a.try < Cap THEN a.phase ELSE "fail") \in Phases
  BY DEF Sessions, Phases
<1> QED
  BY <1>1 DEF Again, Sessions

LEMMA OutcomeFacts ==
  ASSUME PTypeOK, NEW p \in Procs, NEW b \in Outcomes(p)
  PROVE  b \in Sessions /\ b.phase = at[p].phase /\ b.step \in {"commit", "lock"}
<1>1. at[p] \in Sessions
  BY DEF PTypeOK
<1>2. CASE b = Again(at[p])
  BY <1>1, <1>2, AgainFacts
<1>3. CASE b = [at[p] EXCEPT !.step = "commit", !.next = "apply", !.check = at[p].try]
  BY <1>1, <1>3 DEF Sessions, Phases
<1>4. CASE b = [at[p] EXCEPT !.step = "lock", !.next = "over"]
  BY <1>1, <1>4 DEF Sessions, Phases
<1> QED
  BY <1>2, <1>3, <1>4 DEF Outcomes

(* A step of one process leaves the others clean, if it takes no row lock in
   another one's name.                                                      *)
LEMMA CleanStep ==
  ASSUME PTypeOK, \A q \in Procs : Clean(q),
         NEW p \in Procs, NEW a \in Sessions, at' = [at EXCEPT ![p] = a],
         \A q \in Procs \ {p} : conns'[q] = conns[q],
         \A t \in Tasks, q \in Procs \ {p} : owner'[t] = q => owner[t] = q,
         a.phase \in Away => a.step = "connect",
         conns'[p] <= 1,
         a.step = "connect" => conns'[p] = 0 /\ \A t \in Tasks : owner'[t] # p
  PROVE  \A q \in Procs : Clean(q)'
<1>1. at'[p] = a /\ \A q \in Procs \ {p} : at'[q] = at[q]
  BY DEF PTypeOK
<1>2. Clean(p)'
  BY <1>1 DEF Clean
<1>3. ASSUME NEW q \in Procs \ {p}
      PROVE  Clean(q)'
  BY <1>1 DEF Clean
<1> QED
  BY <1>2, <1>3

(* Steps that leave the executor alone, and those that leave the sessions
   alone, keep the invariant if they keep the rest.                         *)
LEMMA SchedulerKeeps ==
  ASSUME PoolInv, PTypeOK', \A q \in Procs : Clean(q)', InUse' <= PoolSize,
         Handling' \subseteq Handling, UNCHANGED worker
  PROVE  PoolInv'
<1>1. Writing' \subseteq Writing
  BY DEF Writing
<1>2. ExecInUse' <= ExecPoolSize
  BY <1>1, InvParts, ExecutorBound
<1>3. PTypeOK' /\ Bounds' /\ \A q \in Procs : Clean(q)'
  BY <1>2 DEF Bounds
<1> QED
  BY <1>3 DEF PoolInv, NothingLeaks, Bounds, Clean

LEMMA ExecutorKeeps ==
  ASSUME PoolInv, PTypeOK', UNCHANGED <<at, conns, owner, closed>>,
         \/ Handling' \subseteq Handling /\ Writing' \subseteq Writing
         \/ /\ ExecInUse < ExecPoolSize
            /\ \E c \in Calls :
                 \/ Handling' \subseteq Handling \cup {c} /\ Writing' \subseteq Writing
                 \/ Handling' \subseteq Handling /\ Writing' \subseteq Writing \cup {c}
  PROVE  PoolInv'
<1>1. PTypeOK /\ Bounds /\ \A p \in Procs : Clean(p)
  BY InvParts
<1>2. ExecInUse' <= ExecPoolSize
  BY <1>1, ExecutorBound
<1>3. InUse' <= PoolSize
  BY <1>1 DEF InUse, Bounds
<1>4. \A p \in Procs : Clean(p)'
  BY <1>1 DEF Clean
<1> QED
  BY <1>2, <1>3, <1>4 DEF PoolInv, NothingLeaks, Bounds, Clean

LEMMA PoolInit == PInit => PoolInv
<1> SUFFICES ASSUME PInit PROVE PoolInv
  OBVIOUS
<1>1. PICK target \in [Requests -> Tasks] :
        at = [p \in Procs |-> Start(IF p \in Tasks THEN p ELSE target[p])]
  BY DEF PInit
<1>2. \A p \in Procs : at[p] = Start(IF p \in Tasks THEN p ELSE target[p])
                       /\ (IF p \in Tasks THEN p ELSE target[p]) \in Tasks
  BY <1>1 DEF Procs
<1>3. \A t \in Tasks : Start(t) \in Sessions /\ Start(t).step = "connect"
  BY DEF Start, Sessions, Phases
<1>4. PTypeOK
  <2>1. at \in [Procs -> Sessions]
    BY <1>1, <1>2, <1>3
  <2> QED
    BY <2>1 DEF PInit, PTypeOK
<1>5. \A p \in Procs : Clean(p)
  BY <1>2, <1>3, ProcsAssumption DEF PInit, Clean
<1>6. Bounds
  <2>1. Held = {} /\ Handling = {} /\ Writing = {}
    BY PoolsAssumption DEF PInit, Held, Handling, Writing
  <2> QED
    BY <2>1, Pools, FS_EmptySet, PoolsAssumption DEF Bounds
<1> QED
  BY <1>4, <1>5, <1>6, InvParts

(***************************************************************************)
(* Steps of a session                                                      *)
(***************************************************************************)

(* A process gives up what it has, or keeps it: so does its pool's bound.   *)
LEMMA NoMore ==
  ASSUME PoolInv, PTypeOK', \A p \in Procs : conns'[p] <= conns[p]
  PROVE  InUse' <= PoolSize
<1>1. PTypeOK /\ Bounds
  BY InvParts
<1> QED
  BY <1>1, SchedulerBound

LEMMA BeginKeeps ==
  ASSUME PoolInv, NEW p \in Procs, Begin(p)
  PROVE  PoolInv'
<1>0. PTypeOK /\ (\A q \in Procs : Clean(q)) /\ at[p] \in Sessions
  BY InvParts DEF PTypeOK
<1>1. PICK ph \in {"mark", "cancel", "read"} : at' = [at EXCEPT ![p].phase = ph]
  BY DEF Begin
<1> DEFINE a == [at[p] EXCEPT !.phase = ph]
<1>2. a \in Sessions /\ a.phase \notin Away /\ a.step = at[p].step
  BY <1>0, <1>1 DEF Sessions, Phases, Away
<1>3. at' = [at EXCEPT ![p] = a]
  BY <1>1
<1>4. conns' = conns /\ owner' = owner /\ handler' = handler /\ worker' = worker
      /\ closed' = closed
  BY DEF Begin
<1>5. PTypeOK'
  <2> HIDE DEF a
  <2> QED
    BY <1>0, <1>2, <1>3, <1>4 DEF PTypeOK
<1>6. conns[p] = 0 /\ (\A t \in Tasks : owner[t] # p)
  BY <1>0 DEF Begin, Clean, Away
<1>7. \A q \in Procs : Clean(q)'
  <2> HIDE DEF a
  <2>1. /\ \A q \in Procs \ {p} : conns'[q] = conns[q]
        /\ \A t \in Tasks, q \in Procs \ {p} : owner'[t] = q => owner[t] = q
        /\ conns'[p] = 0 /\ conns'[p] <= 1 /\ \A t \in Tasks : owner'[t] # p
    BY <1>4, <1>6
  <2> QED
    BY <1>0, <1>2, <1>3, <2>1, CleanStep
<1>8. InUse' <= PoolSize
  BY <1>0, <1>4, <1>5, NoMore DEF PTypeOK
<1> QED
  BY <1>4, <1>5, <1>7, <1>8, SchedulerKeeps DEF Handling

LEMMA ConnectKeeps ==
  ASSUME PoolInv, NEW p \in Procs, Connect(p)
  PROVE  PoolInv'
<1>0. PTypeOK /\ Bounds /\ (\A q \in Procs : Clean(q)) /\ at[p] \in Sessions
  BY InvParts DEF PTypeOK
<1> DEFINE a == Selected(at[p])
<1>1. a \in Sessions /\ a.phase \notin Away /\ a.step # "connect"
  BY <1>0, SelectedFacts DEF Connect
<1>2. at' = [at EXCEPT ![p] = a] /\ conns' = [conns EXCEPT ![p] = @ + 1]
      /\ owner' = owner /\ handler' = handler /\ worker' = worker /\ closed' = closed
  BY DEF Connect
<1> HIDE DEF a
<1>3. conns[p] = 0
  BY <1>0 DEF Connect, Clean
<1>4. conns'[p] = 1 /\ \A q \in Procs \ {p} : conns'[q] = conns[q]
  BY <1>0, <1>2, <1>3 DEF PTypeOK
<1>5. PTypeOK'
  BY <1>0, <1>1, <1>2 DEF PTypeOK
<1>6. \A q \in Procs : Clean(q)'
  <2>1. /\ \A t \in Tasks, q \in Procs \ {p} : owner'[t] = q => owner[t] = q
        /\ conns'[p] <= 1
    BY <1>2, <1>4
  <2> QED
    BY <1>0, <1>1, <1>2, <1>4, <2>1, CleanStep
<1>7. InUse' <= PoolSize
  <2>1. InUse < PoolSize
    BY DEF Connect
  <2> QED
    BY <1>0, <1>3, <1>4, <1>5, <2>1, SchedulerBound
<1> QED
  BY <1>2, <1>5, <1>6, <1>7, SchedulerKeeps DEF Handling

(* The other steps leave the connections of the process as they are, or give
   them all back.                                                           *)
LEMMA SessionKeeps ==
  ASSUME PoolInv, NEW p \in Procs, NEW a \in Sessions, at' = [at EXCEPT ![p] = a],
         \/ conns' = conns
         \/ conns' = [conns EXCEPT ![p] = 0],
         owner' \in [Tasks -> Procs \cup {Nobody}],
         \A t \in Tasks, q \in Procs \ {p} : owner'[t] = q => owner[t] = q,
         closed' \subseteq Tasks,
         \/ UNCHANGED handler
         \/ handler' = [handler EXCEPT ![CallOf(p)] = "queued"],
         UNCHANGED worker,
         a.phase \in Away => a.step = "connect",
         a.step = "connect" => conns'[p] = 0 /\ \A t \in Tasks : owner'[t] # p
  PROVE  PoolInv'
<1>0. PTypeOK /\ Bounds /\ \A q \in Procs : Clean(q)
  BY InvParts
<1>1. /\ conns' \in [Procs -> Nat]
      /\ \A q \in Procs : conns'[q] <= conns[q]
      /\ \A q \in Procs \ {p} : conns'[q] = conns[q]
      /\ conns'[p] <= 1
  <2>1. conns[p] <= 1
    BY <1>0 DEF Clean
  <2>2. CASE conns' = conns
    BY <1>0, <2>1, <2>2 DEF PTypeOK
  <2>3. CASE conns' = [conns EXCEPT ![p] = 0]
    BY <1>0, <2>3 DEF PTypeOK
  <2> QED
    BY <2>2, <2>3
<1>2. Handling' \subseteq Handling
      /\ handler' \in [Calls -> {"none", "queued", "working", "answered", "done", "refused"}]
  BY <1>0 DEF Handling, PTypeOK
<1>3. PTypeOK'
  BY <1>0, <1>1, <1>2 DEF PTypeOK
<1>4. \A q \in Procs : Clean(q)'
  BY <1>0, <1>1, CleanStep
<1>5. InUse' <= PoolSize
  BY <1>1, <1>3, NoMore
<1> QED
  BY <1>2, <1>3, <1>4, <1>5, SchedulerKeeps

LEMMA ProcStep ==
  ASSUME PoolInv, NEW p \in Procs,
         PoolTimeout(p) \/ Lock(p) \/ Call(p) \/ Receive(p) \/ TimeOut(p) \/ Commit(p)
  PROVE  PoolInv'
<1>0. PTypeOK /\ (\A q \in Procs : Clean(q)) /\ at[p] \in Sessions
  BY InvParts DEF PTypeOK
<1>00. at[p].step # "connect" => at[p].phase \notin Away
  BY <1>0 DEF Clean
<1>000. /\ owner \in [Tasks -> Procs \cup {Nobody}] /\ closed \subseteq Tasks
        /\ at[p].row \in Tasks
  BY <1>0 DEF PTypeOK, Sessions
<1>1. CASE PoolTimeout(p)
  <2> DEFINE a == [Start(at[p].row) EXCEPT !.phase = "lost"]
  <2>1. a \in Sessions /\ a.step = "connect"
    BY <1>000 DEF Start, Sessions, Phases
  <2>2. conns[p] = 0 /\ \A t \in Tasks : owner[t] # p
    BY <1>0, <1>1 DEF PoolTimeout, Clean
  <2>3. at' = [at EXCEPT ![p] = a] /\ conns' = conns /\ owner' = owner /\ closed' = closed
        /\ handler' = handler /\ worker' = worker
    BY <1>1 DEF PoolTimeout
  <2> HIDE DEF a
  <2> QED
    BY <1>000, <2>1, <2>2, <2>3, SessionKeeps
<1>2. CASE Lock(p)
  <2> DEFINE a == [at[p] EXCEPT !.step = IF at[p].phase = "post" THEN "call" ELSE "commit"]
  <2>1. a \in Sessions /\ a.phase = at[p].phase /\ a.step # "connect"
    BY <1>0 DEF Sessions
  <2>2. at' = [at EXCEPT ![p] = a] /\ conns' = conns /\ closed' = closed
        /\ handler' = handler /\ worker' = worker
        /\ owner' = [owner EXCEPT ![at[p].row] = p] /\ at[p].step = "lock"
    BY <1>2 DEF Lock
  <2> HIDE DEF a
  <2>3. /\ owner' \in [Tasks -> Procs \cup {Nobody}]
        /\ \A t \in Tasks, q \in Procs \ {p} : owner'[t] = q => owner[t] = q
    BY <1>000, <2>2
  <2>4. a.phase \notin Away
    BY <1>00, <2>1, <2>2
  <2> QED
    BY <1>000, <2>1, <2>2, <2>3, <2>4, SessionKeeps
<1>3. CASE Call(p)
  <2> DEFINE a == [at[p] EXCEPT !.step = "await"]
  <2>1. a \in Sessions /\ a.phase = at[p].phase /\ a.step # "connect"
    BY <1>0 DEF Sessions
  <2>2. at' = [at EXCEPT ![p] = a] /\ conns' = conns /\ closed' = closed /\ owner' = owner
        /\ handler' = [handler EXCEPT ![CallOf(p)] = "queued"] /\ worker' = worker
        /\ at[p].step = "call"
    BY <1>3 DEF Call
  <2> HIDE DEF a
  <2>3. a.phase \notin Away
    BY <1>00, <2>1, <2>2
  <2> QED
    BY <1>000, <2>1, <2>2, <2>3, SessionKeeps
<1>4. CASE Receive(p)
  <2>1. PICK a \in Outcomes(p) : at' = [at EXCEPT ![p] = a]
    BY <1>4 DEF Receive
  <2>2. conns' = conns /\ closed' = closed /\ owner' = owner
        /\ handler' = handler /\ worker' = worker /\ at[p].step = "await"
    BY <1>4 DEF Receive
  <2>3. a \in Sessions /\ a.phase = at[p].phase /\ a.step # "connect"
    BY <1>0, OutcomeFacts
  <2>4. a.phase \notin Away
    BY <1>00, <2>2, <2>3
  <2> QED
    BY <1>000, <2>1, <2>2, <2>3, <2>4, SessionKeeps
<1>5. CASE TimeOut(p)
  <2> DEFINE a == Again(at[p])
  <2>1. at' = [at EXCEPT ![p] = a] /\ conns' = conns /\ closed' = closed /\ owner' = owner
        /\ handler' = handler /\ worker' = worker /\ at[p].step = "await"
    BY <1>5 DEF TimeOut
  <2>2. a \in Sessions /\ a.phase = at[p].phase /\ a.step # "connect"
    BY <1>0, AgainFacts
  <2> HIDE DEF a
  <2>3. a.phase \notin Away
    BY <1>00, <2>1, <2>2
  <2> QED
    BY <1>000, <2>1, <2>2, <2>3, SessionKeeps
<1>6. CASE Commit(p)
  <2> DEFINE a == IF at[p].next = "over" THEN [Start(at[p].row) EXCEPT !.phase = "over"]
                  ELSE [at[p] EXCEPT !.phase = at[p].next, !.step = "connect",
                                     !.try = IF at[p].next = at[p].phase THEN at[p].try + 1 ELSE 1]
  <2>1. at' = [at EXCEPT ![p] = a] /\ conns' = [conns EXCEPT ![p] = 0]
        /\ owner' = [t \in Tasks |-> IF owner[t] = p THEN Nobody ELSE owner[t]]
        /\ handler' = handler /\ worker' = worker
    BY <1>6 DEF Commit, Release, Unlock
  <2>2. closed' \subseteq Tasks
    BY <1>6, <1>000 DEF Commit
  <2>3. a \in Sessions /\ a.step = "connect"
    <3>1. CASE at[p].next = "over"
      BY <1>000, <3>1 DEF Start, Sessions, Phases
    <3>2. CASE at[p].next # "over"
      <4>1. (IF at[p].next = at[p].phase THEN at[p].try + 1 ELSE 1) \in Nat
        BY <1>0 DEF Sessions
      <4> QED
        BY <1>0, <3>2, <4>1 DEF Sessions
    <3> QED
      BY <3>1, <3>2
  <2> HIDE DEF a
  <2>4. /\ owner' \in [Tasks -> Procs \cup {Nobody}]
        /\ \A t \in Tasks, q \in Procs \ {p} : owner'[t] = q => owner[t] = q
        /\ \A t \in Tasks : owner'[t] # p
    BY <1>000, <2>1, ProcsAssumption
  <2>5. conns'[p] = 0
    BY <1>0, <2>1 DEF PTypeOK
  <2> QED
    BY <2>1, <2>2, <2>3, <2>4, <2>5, SessionKeeps
<1> QED
  BY <1>1, <1>2, <1>3, <1>4, <1>5, <1>6

(***************************************************************************)
(* Steps of the executor                                                   *)
(***************************************************************************)

LEMMA HandlerStep ==
  ASSUME PoolInv, NEW c \in Calls,
         \/ HandlerConnect(c) \/ HandlerRefused(c) \/ HandlerAnswer(c) \/ HandlerCommit(c)
  PROVE  PoolInv'
<1>0. PTypeOK
  BY InvParts
<1>1. UNCHANGED <<at, conns, owner, closed>>
  BY DEF HandlerConnect, HandlerRefused, HandlerAnswer, HandlerCommit
<1>2. PTypeOK'
  BY <1>0 DEF PTypeOK, HandlerConnect, HandlerRefused, HandlerAnswer, HandlerCommit
<1>3. CASE HandlerConnect(c)
  <2>1. ExecInUse < ExecPoolSize
    BY <1>3 DEF HandlerConnect
  <2>2. Handling' \subseteq Handling \cup {c} /\ Writing' \subseteq Writing
    BY <1>0, <1>3 DEF HandlerConnect, Handling, Writing, PTypeOK
  <2> QED
    BY <1>1, <1>2, <2>1, <2>2, ExecutorKeeps
<1>4. CASE HandlerRefused(c) \/ HandlerAnswer(c) \/ HandlerCommit(c)
  <2>1. Handling' \subseteq Handling
    BY <1>0, <1>4 DEF HandlerRefused, HandlerAnswer, HandlerCommit, Handling, PTypeOK
  <2>2. Writing' \subseteq Writing
    BY <1>0, <1>4 DEF HandlerRefused, HandlerAnswer, HandlerCommit, Writing, PTypeOK
  <2> QED
    BY <1>1, <1>2, <2>1, <2>2, ExecutorKeeps
<1> QED
  BY <1>3, <1>4

LEMMA WorkerStep ==
  ASSUME PoolInv, NEW c \in Calls,
         WorkerPermit(c) \/ WorkerConnect(c) \/ WorkerRefused(c) \/ WorkerCommit(c)
  PROVE  PoolInv'
<1>0. PTypeOK
  BY InvParts
<1>1. UNCHANGED <<at, conns, owner, closed>> /\ Handling' \subseteq Handling
  BY DEF WorkerPermit, WorkerConnect, WorkerRefused, WorkerCommit, Handling
<1>2. PTypeOK'
  BY <1>0 DEF PTypeOK, WorkerPermit, WorkerConnect, WorkerRefused, WorkerCommit
<1>3. CASE WorkerConnect(c)
  <2>1. ExecInUse < ExecPoolSize
    BY <1>3 DEF WorkerConnect
  <2>2. Writing' \subseteq Writing \cup {c}
    BY <1>0, <1>3 DEF WorkerConnect, Writing, PTypeOK
  <2> QED
    BY <1>1, <1>2, <2>1, <2>2, ExecutorKeeps
<1>4. CASE WorkerPermit(c) \/ WorkerRefused(c) \/ WorkerCommit(c)
  <2>1. Writing' \subseteq Writing
    BY <1>0, <1>4 DEF WorkerPermit, WorkerRefused, WorkerCommit, Writing, PTypeOK
  <2> QED
    BY <1>1, <1>2, <2>1, ExecutorKeeps
<1> QED
  BY <1>3, <1>4

LEMMA PoolStep == PoolInv /\ [PNext]_pvars => PoolInv'
<1> SUFFICES ASSUME PoolInv, [PNext]_pvars PROVE PoolInv'
  OBVIOUS
<1>1. CASE Beginning
  BY <1>1, BeginKeeps DEF Beginning
<1>2. CASE SchedulerStep
  BY <1>2, ConnectKeeps, ProcStep DEF SchedulerStep
<1>3. CASE ExecutorStep
  BY <1>3, HandlerStep, WorkerStep DEF ExecutorStep
<1>4. CASE HttpTimeOut
  BY <1>4, ProcStep DEF HttpTimeOut
<1>5. CASE PoolTimeOut
  BY <1>5, ProcStep, HandlerStep, WorkerStep DEF PoolTimeOut
<1>6. CASE UNCHANGED pvars
  <2>1. UNCHANGED <<at, conns, owner, closed, handler, worker>>
    BY <1>6 DEF pvars
  <2>2. PTypeOK' /\ Handling' \subseteq Handling /\ Writing' \subseteq Writing
    BY <2>1, InvParts DEF PTypeOK, Handling, Writing
  <2> QED
    BY <2>1, <2>2, ExecutorKeeps
<1> QED
  BY <1>1, <1>2, <1>3, <1>4, <1>5, <1>6 DEF PNext

(***************************************************************************)
(* Who holds what while waiting                                            *)
(***************************************************************************)

(* A step of one process keeps WaitInv, if its session is in order, locks only
   its own row and awaits a call that has been made.                         *)
LEMMA WaitKeeps ==
  ASSUME PTypeOK, WaitInv, NEW p \in Procs, NEW a \in Sessions,
         at' = [at EXCEPT ![p] = a], InOrder(a),
         \A t \in Tasks : owner'[t] = p => Holds(a, t),
         \A t \in Tasks, q \in Procs \ {p} : owner'[t] = q => owner[t] = q,
         a.step = "await" => handler'[<<a.row, a.phase, a.try>>] # "none",
         \A c \in Calls : handler[c] # "none" => handler'[c] # "none"
  PROVE  WaitInv'
<1>1. at'[p] = a /\ \A q \in Procs \ {p} : at'[q] = at[q]
  BY DEF PTypeOK
<1>2. ASSUME NEW q \in Procs
      PROVE  InOrder(at'[q]) /\ (at'[q].step = "await" => handler'[CallOf(q)'] # "none")
  <2>1. CASE q = p
    BY <1>1, <2>1 DEF CallOf
  <2>2. CASE q # p
    <3>1. at'[q] = at[q] /\ at[q] \in Sessions /\ InOrder(at[q]) /\ CallOf(q)' = CallOf(q)
      BY <1>1, <2>2 DEF PTypeOK, WaitInv, CallOf
    <3>2. at[q].step = "await" => CallOf(q) \in Calls
      BY <3>1 DEF InOrder, Sessions, Calls, CallOf
    <3> QED
      BY <3>1, <3>2 DEF WaitInv
  <2> QED
    BY <2>1, <2>2
<1>3. ASSUME NEW t \in Tasks, NEW q \in Procs, owner'[t] = q
      PROVE  Holds(at'[q], t)
  BY <1>1, <1>3 DEF WaitInv
<1> QED
  BY <1>2, <1>3 DEF WaitInv

(* What is not a session at all is in order.                                *)
LEMMA StartInOrder ==
  ASSUME NEW t \in Tasks, NEW ph \in Phases
  PROVE  /\ [Start(t) EXCEPT !.phase = ph] \in Sessions
         /\ [Start(t) EXCEPT !.phase = ph].step = "connect"
         /\ InOrder([Start(t) EXCEPT !.phase = ph])
  BY PoolsAssumption DEF Start, Sessions, Phases, InOrder

LEMMA WaitInit == PInit => WaitInv
<1> SUFFICES ASSUME PInit PROVE WaitInv
  OBVIOUS
<1>1. PICK target \in [Requests -> Tasks] :
        at = [p \in Procs |-> Start(IF p \in Tasks THEN p ELSE target[p])]
  BY DEF PInit
<1>2. \A p \in Procs : at[p].try = 1 /\ at[p].step = "connect"
  BY <1>1 DEF Start
<1>3. \A t \in Tasks, p \in Procs : owner[t] # p
  BY ProcsAssumption DEF PInit
<1> QED
  BY <1>2, <1>3, PoolsAssumption DEF WaitInv, InOrder

LEMMA WaitProcStep ==
  ASSUME ConnInv, NEW p \in Procs,
         \/ Begin(p) \/ Connect(p) \/ PoolTimeout(p) \/ Lock(p) \/ Call(p)
         \/ Receive(p) \/ TimeOut(p) \/ Commit(p)
  PROVE  WaitInv'
<1>0. /\ PTypeOK /\ WaitInv /\ Clean(p) /\ at[p] \in Sessions /\ InOrder(at[p])
      /\ at[p].row \in Tasks /\ owner \in [Tasks -> Procs \cup {Nobody}]
  BY InvParts DEF ConnInv, PTypeOK, WaitInv, Sessions
<1>00. \A t \in Tasks : owner[t] = p => Holds(at[p], t)
  BY <1>0 DEF WaitInv
<1>1. CASE Begin(p)
  <2>1. PICK ph \in {"mark", "cancel", "read"} : at' = [at EXCEPT ![p].phase = ph]
    BY <1>1 DEF Begin
  <2> DEFINE a == [at[p] EXCEPT !.phase = ph]
  <2>2. /\ a \in Sessions /\ InOrder(a) /\ a.step = "connect"
        /\ \A t \in Tasks : owner[t] # p
    BY <1>0, <1>1, <2>1 DEF Begin, Clean, Away, Sessions, Phases, InOrder
  <2>3. at' = [at EXCEPT ![p] = a] /\ owner' = owner /\ handler' = handler
    BY <1>1, <2>1 DEF Begin
  <2> HIDE DEF a
  <2> QED
    BY <1>0, <2>2, <2>3, WaitKeeps
<1>2. CASE Connect(p)
  <2> DEFINE a == Selected(at[p])
  <2>1. a \in Sessions /\ a.phase = at[p].phase /\ a.phase \notin Away
    BY <1>0, <1>2, SelectedFacts DEF Connect
  <2>2. at' = [at EXCEPT ![p] = a] /\ owner' = owner /\ handler' = handler
        /\ \A t \in Tasks : owner[t] # p
    BY <1>0, <1>2 DEF Connect, Clean
  <2>3. InOrder(a)
    <3>1. a.step # "await" /\ a.try = at[p].try
          /\ (a.step = "call" => a.phase \in {"post", "poll"})
      BY <1>0 DEF Selected, Sessions
    <3>2. a.next # a.phase
      BY <1>0, <2>1 DEF Selected, Sessions, Follows, Away
    <3> QED
      BY <1>0, <3>1, <3>2 DEF InOrder
  <2>4. a.step # "await"
    BY <1>0 DEF Selected, Sessions
  <2> HIDE DEF a
  <2> QED
    BY <1>0, <2>1, <2>2, <2>3, <2>4, WaitKeeps
<1>3. CASE PoolTimeout(p)
  <2> DEFINE a == [Start(at[p].row) EXCEPT !.phase = "lost"]
  <2>1. a \in Sessions /\ a.step = "connect" /\ InOrder(a)
    BY <1>0, StartInOrder DEF Phases
  <2>2. at' = [at EXCEPT ![p] = a] /\ owner' = owner /\ handler' = handler
        /\ \A t \in Tasks : owner[t] # p
    BY <1>0, <1>3 DEF PoolTimeout, Clean
  <2> HIDE DEF a
  <2> QED
    BY <1>0, <2>1, <2>2, WaitKeeps
<1>4. CASE Lock(p)
  <2> DEFINE a == [at[p] EXCEPT !.step = IF at[p].phase = "post" THEN "call" ELSE "commit"]
  <2>1. /\ a \in Sessions /\ a.step # "await" /\ InOrder(a)
        /\ Holds(a, at[p].row)
    BY <1>0, <1>4 DEF Lock, Sessions, InOrder, Holds
  <2>2. /\ at' = [at EXCEPT ![p] = a] /\ handler' = handler
        /\ owner' = [owner EXCEPT ![at[p].row] = p] /\ at[p].step = "lock"
    BY <1>4 DEF Lock
  <2>3. \A t \in Tasks : owner[t] # p
    BY <1>00, <2>2 DEF Holds
  <2> HIDE DEF a
  <2>4. /\ \A t \in Tasks : owner'[t] = p => Holds(a, t)
        /\ \A t \in Tasks, q \in Procs \ {p} : owner'[t] = q => owner[t] = q
    BY <1>0, <2>1, <2>2, <2>3
  <2> QED
    BY <1>0, <2>1, <2>2, <2>4, WaitKeeps
<1>5. CASE Call(p)
  <2> DEFINE a == [at[p] EXCEPT !.step = "await"]
  <2>1. a \in Sessions /\ InOrder(a) /\ CallOf(p) \in Calls
        /\ <<a.row, a.phase, a.try>> = CallOf(p)
    BY <1>0, <1>5 DEF Call, Sessions, InOrder, CallOf, Calls
  <2>2. /\ at' = [at EXCEPT ![p] = a] /\ owner' = owner
        /\ handler' = [handler EXCEPT ![CallOf(p)] = "queued"]
    BY <1>5 DEF Call
  <2>3. \A t \in Tasks : owner[t] = p => Holds(a, t)
    BY <1>0, <1>00, <1>5 DEF Call, Holds, Sessions
  <2> HIDE DEF a
  <2>4. /\ handler'[CallOf(p)] # "none"
        /\ \A c \in Calls : handler[c] # "none" => handler'[c] # "none"
    BY <1>0, <2>1, <2>2 DEF PTypeOK
  <2> QED
    BY <1>0, <2>1, <2>2, <2>3, <2>4, WaitKeeps
<1>6. CASE Receive(p)
  <2>1. PICK a \in Outcomes(p) : at' = [at EXCEPT ![p] = a]
    BY <1>6 DEF Receive
  <2>2. owner' = owner /\ handler' = handler /\ at[p].step = "await"
        /\ at[p].phase \in {"post", "poll"}
    BY <1>0, <1>6 DEF Receive, InOrder
  <2>3. a \in Sessions /\ a.step \in {"commit", "lock"}
    BY <1>0, OutcomeFacts
  <2>4. /\ a.row = at[p].row /\ a.phase = at[p].phase /\ InOrder(a)
        /\ a.step = "lock" => at[p].phase = "poll"
    <3>1. CASE a = Again(at[p])
      BY <1>0, <2>2, <3>1 DEF Again, Sessions, InOrder
    <3>2. CASE a = [at[p] EXCEPT !.step = "commit", !.next = "apply", !.check = at[p].try]
      BY <1>0, <2>2, <3>2 DEF Sessions, InOrder
    <3>3. CASE a = [at[p] EXCEPT !.step = "lock", !.next = "over"] /\ at[p].phase # "post"
      BY <1>0, <2>2, <3>3 DEF Sessions, InOrder
    <3> QED
      BY <2>1, <3>1, <3>2, <3>3 DEF Outcomes
  <2>5. \A t \in Tasks : owner[t] = p => Holds(a, t)
    BY <1>00, <2>2, <2>3, <2>4 DEF Holds
  <2> QED
    BY <1>0, <2>1, <2>2, <2>3, <2>4, <2>5, WaitKeeps
<1>7. CASE TimeOut(p)
  <2> DEFINE a == Again(at[p])
  <2>1. /\ at' = [at EXCEPT ![p] = a] /\ owner' = owner /\ handler' = handler
        /\ at[p].phase \in {"post", "poll"}
    BY <1>0, <1>7 DEF TimeOut, InOrder
  <2>2. a \in Sessions /\ a.step = "commit" /\ a.row = at[p].row /\ InOrder(a)
    BY <1>0, <2>1, AgainFacts DEF Again, Sessions, InOrder
  <2>3. \A t \in Tasks : owner[t] = p => Holds(a, t)
    BY <1>00, <2>2 DEF Holds
  <2> HIDE DEF a
  <2> QED
    BY <1>0, <2>1, <2>2, <2>3, WaitKeeps
<1>8. CASE Commit(p)
  <2> DEFINE a == IF at[p].next = "over" THEN [Start(at[p].row) EXCEPT !.phase = "over"]
                  ELSE [at[p] EXCEPT !.phase = at[p].next, !.step = "connect",
                                     !.try = IF at[p].next = at[p].phase THEN at[p].try + 1 ELSE 1]
  <2>1. /\ at' = [at EXCEPT ![p] = a] /\ handler' = handler /\ at[p].step = "commit"
        /\ owner' = [t \in Tasks |-> IF owner[t] = p THEN Nobody ELSE owner[t]]
    BY <1>8 DEF Commit, Unlock
  <2>2. a \in Sessions /\ a.step = "connect" /\ InOrder(a)
    <3>1. CASE at[p].next = "over"
      BY <1>0, <3>1, StartInOrder DEF Phases
    <3>2. CASE at[p].next # "over"
      <4> DEFINE n == IF at[p].next = at[p].phase THEN at[p].try + 1 ELSE 1
      <4>1. n \in 1 .. Cap /\ n \in Nat
        BY <1>0, <2>1, PoolsAssumption DEF InOrder
      <4> HIDE DEF n
      <4> QED
        BY <1>0, <3>2, <4>1 DEF Sessions, InOrder, n
    <3> QED
      BY <3>1, <3>2
  <2> HIDE DEF a
  <2>3. /\ \A t \in Tasks : owner'[t] # p
        /\ \A t \in Tasks, q \in Procs \ {p} : owner'[t] = q => owner[t] = q
    BY <2>1, ProcsAssumption
  <2> QED
    BY <1>0, <2>1, <2>2, <2>3, WaitKeeps
<1> QED
  BY <1>1, <1>2, <1>3, <1>4, <1>5, <1>6, <1>7, <1>8

(* The executor answers or refuses what it was asked.                       *)
LEMMA WaitExecutorStep ==
  ASSUME PTypeOK, WaitInv, UNCHANGED <<at, owner>>,
         \A c \in Calls : handler[c] # "none" => handler'[c] # "none"
  PROVE  WaitInv'
<1>1. ASSUME NEW p \in Procs, at[p].step = "await"
      PROVE  handler'[CallOf(p)] # "none"
  <2>1. CallOf(p) \in Calls
    BY <1>1 DEF PTypeOK, WaitInv, InOrder, Sessions, CallOf, Calls
  <2> QED
    BY <1>1, <2>1 DEF WaitInv
<1> QED
  BY <1>1 DEF WaitInv, CallOf

LEMMA WaitStep == ConnInv /\ [PNext]_pvars => WaitInv'
<1> SUFFICES ASSUME ConnInv, [PNext]_pvars PROVE WaitInv'
  OBVIOUS
<1>0. PTypeOK /\ WaitInv
  BY InvParts DEF ConnInv
<1>1. CASE Beginning \/ SchedulerStep \/ HttpTimeOut \/ \E p \in Procs : PoolTimeout(p)
  BY <1>1, WaitProcStep DEF Beginning, SchedulerStep, HttpTimeOut
<1>2. CASE \E c \in Calls :
             \/ HandlerConnect(c) \/ HandlerRefused(c) \/ HandlerAnswer(c) \/ HandlerCommit(c)
             \/ WorkerPermit(c) \/ WorkerConnect(c) \/ WorkerRefused(c) \/ WorkerCommit(c)
  <2>1. UNCHANGED <<at, owner>> /\ \A c \in Calls : handler[c] # "none" => handler'[c] # "none"
    BY <1>0, <1>2 DEF PTypeOK, HandlerConnect, HandlerRefused, HandlerAnswer, HandlerCommit,
       WorkerPermit, WorkerConnect, WorkerRefused, WorkerCommit
  <2> QED
    BY <1>0, <2>1, WaitExecutorStep
<1>3. CASE UNCHANGED pvars
  BY <1>0, <1>3, WaitExecutorStep DEF pvars
<1> QED
  BY <1>1, <1>2, <1>3 DEF PNext, ExecutorStep, PoolTimeOut

(***************************************************************************)
(* No circle                                                               *)
(***************************************************************************)

(* A pool without a connection left is in somebody's hands, and so is a
   semaphore without a permit.                                               *)
LEMMA SomebodyHasIt ==
  ASSUME ConnInv
  PROVE  /\ InUse >= PoolSize => \E q \in Procs : conns[q] > 0
         /\ ExecInUse >= ExecPoolSize => \/ \E d \in Calls : handler[d] \in {"working", "answered"}
                                         \/ \E d \in Calls : worker[d] = "writing"
         /\ Permits >= MaxInFlight => \E d \in Calls : worker[d] \in {"sleeping", "writing"}
<1>0. {PoolSize, ExecPoolSize, MaxInFlight} \subseteq Nat \ {0}
  BY PoolsAssumption
<1>1. ASSUME InUse >= PoolSize
      PROVE  \E q \in Procs : conns[q] > 0
  <2>1. Held # {}
    BY <1>0, <1>1, Pools, FS_EmptySet
  <2>2. PICK c \in Held : TRUE
    BY <2>1
  <2>3. c[1] \in Procs /\ c[2] \in 1 .. PoolSize /\ c[2] <= conns[c[1]]
    BY <2>2 DEF Held
  <2>4. conns[c[1]] \in Nat
    BY <2>3 DEF ConnInv, PoolInv, PTypeOK
  <2> QED
    BY <1>0, <2>3, <2>4
<1>2. ASSUME ExecInUse >= ExecPoolSize
      PROVE  Handling # {} \/ Writing # {}
  <2> SUFFICES ASSUME Handling = {}, Writing = {}
               PROVE  FALSE
    OBVIOUS
  <2>1. Cardinality(Handling) = 0 /\ Cardinality(Writing) = 0
    BY FS_EmptySet
  <2> QED
    BY <1>0, <1>2, <2>1, Pools
<1>3. ASSUME Permits >= MaxInFlight
      PROVE  {d \in Calls : worker[d] \in {"sleeping", "writing"}} # {}
  BY <1>0, <1>3, FS_EmptySet DEF Permits
<1> QED
  BY <1>1, <1>2, <1>3 DEF Handling, Writing

(* The kinds of those that are busy and of those that are blocked.          *)
LEMMA Kinds ==
  /\ \A y \in Busy : \/ \E p \in Procs : y = <<"process", p>>
                     \/ \E c \in Calls : y = <<"handler", c>>
                     \/ \E c \in Calls : y = <<"worker", c>>
  /\ \A p \in Procs : <<"process", p>> \in Busy <=> at[p].phase \notin Away
  /\ \A c \in Calls : <<"handler", c>> \in Busy <=> handler[c] \in {"queued", "working", "answered"}
  /\ \A c \in Calls : <<"worker", c>> \in Busy <=> worker[c] \in {"queued", "sleeping", "writing"}
  /\ \A x \in Blocked : \/ \E p \in Procs : x = <<"process", p>>
                        \/ \E c \in Calls : x = <<"handler", c>>
                        \/ \E c \in Calls : x = <<"worker", c>>
  /\ \A p \in Procs : <<"process", p>> \in Blocked =>
                        WaitsForConnection(p) \/ WaitsForRow(p) \/ WaitsForAnswer(p)
  /\ \A c \in Calls : <<"handler", c>> \in Blocked => HandlerWaits(c)
  /\ \A c \in Calls : <<"worker", c>> \in Blocked => WorkerWaits(c) \/ WaitsForPermit(c)
<1>1. /\ \A y \in Busy : \/ \E p \in Procs : y = <<"process", p>>
                         \/ \E c \in Calls : y = <<"handler", c>>
                         \/ \E c \in Calls : y = <<"worker", c>>
      /\ \A p \in Procs : <<"process", p>> \in Busy <=> at[p].phase \notin Away
      /\ \A c \in Calls : <<"handler", c>> \in Busy
                            <=> handler[c] \in {"queued", "working", "answered"}
      /\ \A c \in Calls : <<"worker", c>> \in Busy
                            <=> worker[c] \in {"queued", "sleeping", "writing"}
  BY DEF Busy
<1>2. /\ \A x \in Blocked : \/ \E p \in Procs : x = <<"process", p>>
                            \/ \E c \in Calls : x = <<"handler", c>>
                            \/ \E c \in Calls : x = <<"worker", c>>
      /\ \A p \in Procs : <<"process", p>> \in Blocked =>
                            WaitsForConnection(p) \/ WaitsForRow(p) \/ WaitsForAnswer(p)
      /\ \A c \in Calls : <<"handler", c>> \in Blocked => HandlerWaits(c)
      /\ \A c \in Calls : <<"worker", c>> \in Blocked => WorkerWaits(c) \/ WaitsForPermit(c)
  BY DEF Blocked
<1> QED
  BY <1>1, <1>2

(* A connection of the scheduler is with a process inside its session, ...   *)
LEMMA ConnectionIsFurtherOn ==
  ASSUME ConnInv, NEW p \in Procs, WaitsForConnection(p)
  PROVE  /\ WaitsOn(<<"process", p>>) # {}
         /\ \A y \in WaitsOn(<<"process", p>>) :
              \E q \in Procs : y = <<"process", q>> /\ ~WaitsForConnection(q)
<1>0. ~WaitsForRow(p) /\ ~WaitsForAnswer(p) /\ InUse >= PoolSize
  BY DEF WaitsForConnection, WaitsForRow, WaitsForAnswer
<1>1. \A q \in Procs : conns[q] > 0 => at[q].step # "connect" /\ at[q].phase \notin Away
  BY InvParts DEF ConnInv, Clean
<1>2. PICK q \in Procs : conns[q] > 0
  BY <1>0, SomebodyHasIt
<1>3. <<"process", q>> \in WaitsOn(<<"process", p>>)
  BY <1>1, <1>2, Kinds DEF WaitsOn, Has
<1>4. ASSUME NEW y \in WaitsOn(<<"process", p>>)
      PROVE  \E r \in Procs : y = <<"process", r>> /\ ~WaitsForConnection(r)
  <2>1. y \in Busy /\ y[1] = "process" /\ conns[y[2]] > 0
    BY <1>0 DEF WaitsOn, Has
  <2>2. PICK r \in Procs : y = <<"process", r>>
    BY <2>1, Kinds
  <2> QED
    BY <1>1, <2>1, <2>2 DEF WaitsForConnection
<1> QED
  BY <1>3, <1>4

(* ... a row with one that calls or commits, ...                             *)
LEMMA RowIsFurtherOn ==
  ASSUME ConnInv, NEW p \in Procs, WaitsForRow(p)
  PROVE  /\ WaitsOn(<<"process", p>>) # {}
         /\ \A y \in WaitsOn(<<"process", p>>) :
              \E q \in Procs : y = <<"process", q>> /\ ~WaitsForConnection(q) /\ ~WaitsForRow(q)
<1>0. ~WaitsForConnection(p) /\ ~WaitsForAnswer(p)
  BY DEF WaitsForConnection, WaitsForRow, WaitsForAnswer
<1>1. PICK q \in Procs : owner[at[p].row] = q
  BY DEF WaitsForRow, ConnInv, PoolInv, PTypeOK, Sessions
<1>2. at[q].step \notin {"connect", "lock"} /\ at[q].phase \notin Away
  BY <1>1, InvParts DEF ConnInv, WaitInv, Holds, Clean, PTypeOK, Sessions
<1>3. <<"process", q>> \in WaitsOn(<<"process", p>>)
  BY <1>1, <1>2, Kinds DEF WaitsOn, Has
<1>4. ASSUME NEW y \in WaitsOn(<<"process", p>>)
      PROVE  y = <<"process", q>>
  <2>1. y \in Busy /\ y[1] = "process" /\ y[2] = q
    BY <1>0, <1>1 DEF WaitsOn, Has
  <2> QED
    BY <2>1, Kinds
<1> QED
  BY <1>2, <1>3, <1>4 DEF WaitsForConnection, WaitsForRow

(* ... an answer with a handler, ...                                         *)
LEMMA AnswerIsFurtherOn ==
  ASSUME ConnInv, NEW p \in Procs, WaitsForAnswer(p)
  PROVE  /\ WaitsOn(<<"process", p>>) # {}
         /\ \A y \in WaitsOn(<<"process", p>>) : \E d \in Calls : y = <<"handler", d>>
<1>0. ~WaitsForConnection(p) /\ ~WaitsForRow(p)
  BY DEF WaitsForConnection, WaitsForRow, WaitsForAnswer
<1>1. CallOf(p) \in Calls /\ handler[CallOf(p)] \in {"queued", "working"}
  <2>1. CallOf(p) \in Calls
    BY DEF WaitsForAnswer, ConnInv, PoolInv, PTypeOK, WaitInv, InOrder, Sessions, CallOf, Calls
  <2> QED
    BY <2>1 DEF WaitsForAnswer, ConnInv, PoolInv, PTypeOK, WaitInv
<1>2. <<"handler", CallOf(p)>> \in WaitsOn(<<"process", p>>)
  BY <1>1, Kinds DEF WaitsOn, Has
<1>3. ASSUME NEW y \in WaitsOn(<<"process", p>>)
      PROVE  \E d \in Calls : y = <<"handler", d>>
  <2>1. y \in Busy /\ y[1] = "handler"
    BY <1>0 DEF WaitsOn, Has
  <2> QED
    BY <2>1, Kinds
<1> QED
  BY <1>2, <1>3

(* ... a permit with a completion that has it, ...                           *)
LEMMA PermitIsFurtherOn ==
  ASSUME ConnInv, NEW c \in Calls, WaitsForPermit(c)
  PROVE  /\ WaitsOn(<<"worker", c>>) # {}
         /\ \A y \in WaitsOn(<<"worker", c>>) :
              \E d \in Calls : y = <<"worker", d>> /\ ~WaitsForPermit(d)
<1>0. ~WorkerWaits(c) /\ Permits >= MaxInFlight
  BY DEF WorkerWaits, WaitsForPermit
<1>1. PICK d \in Calls : worker[d] \in {"sleeping", "writing"}
  BY <1>0, SomebodyHasIt
<1>2. <<"worker", d>> \in WaitsOn(<<"worker", c>>)
  BY <1>1, Kinds DEF WaitsOn, Has
<1>3. ASSUME NEW y \in WaitsOn(<<"worker", c>>)
      PROVE  \E e \in Calls : y = <<"worker", e>> /\ ~WaitsForPermit(e)
  <2>1. y \in Busy /\ y[1] = "worker" /\ worker[y[2]] \in {"sleeping", "writing"}
    BY <1>0 DEF WaitsOn, Has
  <2>2. PICK e \in Calls : y = <<"worker", e>>
    BY <2>1, Kinds
  <2> QED
    BY <2>1, <2>2 DEF WaitsForPermit
<1> QED
  BY <1>2, <1>3

(* ... and a connection of the executor with one that waits for nothing.     *)
LEMMA ExecutorConnectionIsFree ==
  ASSUME ConnInv, NEW x \in Blocked, NEW c \in Calls,
         \/ x = <<"handler", c>> /\ HandlerWaits(c)
         \/ x = <<"worker", c>> /\ WorkerWaits(c)
  PROVE  WaitsOn(x) # {} /\ WaitsOn(x) \cap Blocked = {}
<1>0. /\ ExecInUse >= ExecPoolSize
      /\ x = <<"worker", c>> => WorkerWaits(c) /\ ~WaitsForPermit(c)
  BY DEF HandlerWaits, WorkerWaits, WaitsForPermit
<1>1. \A y : Has(y, x) <=> \/ y[1] = "handler" /\ handler[y[2]] \in {"working", "answered"}
                           \/ y[1] = "worker" /\ worker[y[2]] = "writing"
  BY <1>0 DEF Has
<1>2. WaitsOn(x) # {}
  <2>1. CASE \E d \in Calls : handler[d] \in {"working", "answered"}
    <3>1. PICK d \in Calls : handler[d] \in {"working", "answered"}
      BY <2>1
    <3>2. <<"handler", d>> \in WaitsOn(x)
      BY <1>1, <3>1, Kinds DEF WaitsOn
    <3> QED
      BY <3>2
  <2>2. CASE \E d \in Calls : worker[d] = "writing"
    <3>1. PICK d \in Calls : worker[d] = "writing"
      BY <2>2
    <3>2. <<"worker", d>> \in WaitsOn(x)
      BY <1>1, <3>1, Kinds DEF WaitsOn
    <3> QED
      BY <3>2
  <2> QED
    BY <1>0, <2>1, <2>2, SomebodyHasIt
<1>3. ASSUME NEW y \in WaitsOn(x), y \in Blocked
      PROVE  FALSE
  <2>1. \/ y[1] = "handler" /\ handler[y[2]] \in {"working", "answered"}
        \/ y[1] = "worker" /\ worker[y[2]] = "writing"
    BY <1>1 DEF WaitsOn
  <2>2. \A d \in Calls : /\ y = <<"handler", d>> => HandlerWaits(d)
                         /\ y = <<"worker", d>> => WorkerWaits(d) \/ WaitsForPermit(d)
    BY <1>3, Kinds
  <2>3. PICK d \in Calls : y = <<"handler", d>> \/ y = <<"worker", d>>
    BY <1>3, <2>1, Kinds
  <2> QED
    BY <2>1, <2>2, <2>3 DEF HandlerWaits, WorkerWaits, WaitsForPermit
<1> QED
  BY <1>2, <1>3

(* Among the blocked there is always one that is furthest on.               *)
LEMMA NoCircleHolds == ConnInv => NoCircle
<1> SUFFICES ASSUME ConnInv, NEW S \in SUBSET Blocked, S # {}
             PROVE  \E x \in S : WaitsOn(x) # {} /\ WaitsOn(x) \cap S = {}
  BY DEF NoCircle
<1>0. /\ \A x \in S : \/ \E p \in Procs : x = <<"process", p>>
                      \/ \E c \in Calls : x = <<"handler", c>>
                      \/ \E c \in Calls : x = <<"worker", c>>
      /\ \A p \in Procs : <<"process", p>> \in S =>
                            WaitsForConnection(p) \/ WaitsForRow(p) \/ WaitsForAnswer(p)
      /\ \A c \in Calls : <<"handler", c>> \in S => HandlerWaits(c)
      /\ \A c \in Calls : <<"worker", c>> \in S => WorkerWaits(c) \/ WaitsForPermit(c)
  BY Kinds
<1> DEFINE Free(c) == <<"handler", c>> \in S \/ (<<"worker", c>> \in S /\ WorkerWaits(c))
<1>1. CASE \E c \in Calls : Free(c)
  <2>1. PICK c \in Calls : Free(c)
    BY <1>1
  <2>2. PICK x \in S : \/ x = <<"handler", c>> /\ HandlerWaits(c)
                       \/ x = <<"worker", c>> /\ WorkerWaits(c)
    BY <1>0, <2>1
  <2>3. WaitsOn(x) # {} /\ WaitsOn(x) \cap Blocked = {}
    BY <2>2, ExecutorConnectionIsFree
  <2> QED
    BY <2>3
<1>2. CASE ~(\E c \in Calls : Free(c)) /\ \E c \in Calls : <<"worker", c>> \in S
  <2>1. PICK c \in Calls : <<"worker", c>> \in S
    BY <1>2
  <2>2. \A d \in Calls : <<"worker", d>> \in S => WaitsForPermit(d)
    BY <1>0, <1>2
  <2>3. WaitsOn(<<"worker", c>>) # {} /\ WaitsOn(<<"worker", c>>) \cap S = {}
    BY <2>1, <2>2, PermitIsFurtherOn
  <2> QED
    BY <2>1, <2>3
<1>3. CASE \A c \in Calls : <<"handler", c>> \notin S /\ <<"worker", c>> \notin S
  <2>1. CASE \E p \in Procs : <<"process", p>> \in S /\ WaitsForAnswer(p)
    <3>1. PICK p \in Procs : <<"process", p>> \in S /\ WaitsForAnswer(p)
      BY <2>1
    <3>2. WaitsOn(<<"process", p>>) # {} /\ WaitsOn(<<"process", p>>) \cap S = {}
      BY <1>3, <3>1, AnswerIsFurtherOn
    <3> QED
      BY <3>1, <3>2
  <2>2. CASE /\ \A p \in Procs : <<"process", p>> \in S => ~WaitsForAnswer(p)
             /\ \E p \in Procs : <<"process", p>> \in S /\ WaitsForRow(p)
    <3>1. PICK p \in Procs : <<"process", p>> \in S /\ WaitsForRow(p)
      BY <2>2
    <3>2. WaitsOn(<<"process", p>>) # {} /\ WaitsOn(<<"process", p>>) \cap S = {}
      BY <1>0, <2>2, <3>1, RowIsFurtherOn
    <3> QED
      BY <3>1, <3>2
  <2>3. CASE \A p \in Procs : <<"process", p>> \in S => ~WaitsForAnswer(p) /\ ~WaitsForRow(p)
    <3>1. PICK p \in Procs : <<"process", p>> \in S
      BY <1>0, <1>3
    <3>2. \A q \in Procs : <<"process", q>> \in S => WaitsForConnection(q)
      BY <1>0, <2>3
    <3>3. WaitsOn(<<"process", p>>) # {} /\ WaitsOn(<<"process", p>>) \cap S = {}
      BY <3>1, <3>2, ConnectionIsFurtherOn
    <3> QED
      BY <3>1, <3>3
  <2> QED
    BY <2>1, <2>2, <2>3
<1> HIDE DEF Free
<1>4. \/ \E c \in Calls : Free(c)
      \/ \E c \in Calls : <<"worker", c>> \in S
      \/ \A c \in Calls : <<"handler", c>> \notin S /\ <<"worker", c>> \notin S
  BY DEF Free
<1> QED
  BY <1>1, <1>2, <1>3, <1>4

(***************************************************************************)
(* The theorems                                                            *)
(***************************************************************************)

(* Sessions are of their type and hold what they should, whatever times out,
   and who holds a row wants no other one.                                   *)
THEOREM ConnectionsInvariant == PSpec => []ConnInv
<1>1. PInit => ConnInv
  BY PoolInit, WaitInit DEF ConnInv
<1>2. ConnInv /\ [PNext]_pvars => ConnInv'
  BY PoolStep, WaitStep DEF ConnInv
<1> QED
  BY <1>1, <1>2, PTL DEF PSpec

(* No pool is overdrawn, and who is not inside a session holds neither a
   connection nor a row.                                                    *)
THEOREM NoSessionLeaks == PSpec => []NothingLeaks
<1>1. ConnInv => NothingLeaks
  BY DEF ConnInv, PoolInv
<1> QED
  BY <1>1, ConnectionsInvariant, PTL

(* Connections, row locks, calls and permits are never waited for in a circle,
   for any number of processes, pool sizes, permits and caps.                *)
THEOREM NobodyWaitsInACircle == PSpec => []NoCircle
  BY NoCircleHolds, ConnectionsInvariant, PTL

(* So whoever is busy, somebody can go on, without any time-out.             *)
THEOREM SomebodyGoesOn == PSpec => [](Busy # {} => Busy \ Blocked # {})
<1>1. ConnInv => (Busy # {} => Busy \ Blocked # {})
  <2> SUFFICES ASSUME ConnInv, Busy # {}, Busy \subseteq Blocked
               PROVE  FALSE
    OBVIOUS
  <2>1. PICK x \in Busy : WaitsOn(x) # {} /\ WaitsOn(x) \cap Busy = {}
    BY NoCircleHolds DEF NoCircle
  <2> QED
    BY <2>1 DEF WaitsOn
<1> QED
  BY <1>1, ConnectionsInvariant, PTL
===============================================================================
