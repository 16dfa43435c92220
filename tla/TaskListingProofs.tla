--------------------------- MODULE TaskListingProofs ---------------------------
(***************************************************************************)
(* What a walk over the pages of GET /tasks misses and repeats, for any    *)
(* number of tasks and any page size.  The arguments are about places:     *)
(* a write moves the places of other rows by at most one, and no two rows  *)
(* have the same, so at most one row crosses the edge of the next page.    *)
(***************************************************************************)
EXTENDS TaskListing, FiniteSetTheorems, TLAPS

USE ListingAssumption

(***************************************************************************)
(* Places                                                                  *)
(***************************************************************************)

(* There are finitely many rows.                                            *)
LEMMA RowsAreFinite ==
  ASSUME NEW M \in SUBSET Ids
  PROVE  IsFiniteSet(M) /\ Cardinality(M) \in Nat
<1>1. IsFiniteSet(Ids)
  BY FS_Interval DEF Ids
<1> QED
  BY <1>1, FS_Subset, FS_CardinalityType

(* A place is a natural number.                                             *)
LEMMA PlaceType ==
  ASSUME NEW M \in SUBSET Ids, NEW i
  PROVE  Place(i, M) \in Nat
<1>1. {j \in M : j > i} \in SUBSET Ids
  OBVIOUS
<1> QED
  BY <1>1, RowsAreFinite DEF Place

(* A row pushes back those that are older.                                  *)
LEMMA PlaceMoves ==
  ASSUME NEW M \in SUBSET Ids, NEW i \in Ids, NEW j \in Ids, j \notin M
  PROVE  Place(i, M \cup {j}) = Place(i, M) + (IF j > i THEN 1 ELSE 0)
<1> DEFINE A == {k \in M : k > i}  B == {k \in M \cup {j} : k > i}
<1>1. A \in SUBSET Ids /\ IsFiniteSet(A) /\ Cardinality(A) \in Nat
  BY RowsAreFinite
<1>2. CASE j > i
  <2>1. B = A \cup {j} /\ j \notin A
    BY <1>2
  <2>2. Cardinality(B) = Cardinality(A) + 1
    BY <1>1, <2>1, FS_AddElement
  <2> QED
    BY <1>2, <2>2 DEF Place
<1>3. CASE ~(j > i)
  <2>1. B = A
    BY <1>3
  <2> QED
    BY <1>1, <1>3, <2>1 DEF Place
<1> QED
  BY <1>2, <1>3

(* The newer of two rows comes first, ...                                   *)
LEMMA PlaceOrder ==
  ASSUME NEW M \in SUBSET Ids, NEW i \in Ids, NEW j \in M, i < j
  PROVE  Place(j, M) < Place(i, M)
<1> DEFINE A == {k \in M : k > j}  B == {k \in M : k > i}
<1>1. A \in SUBSET Ids /\ B \in SUBSET Ids /\ IsFiniteSet(A) /\ IsFiniteSet(B)
  BY RowsAreFinite
<1>2. j \notin A /\ A \cup {j} \in SUBSET B
  <2>1. i \in Int /\ j \in Int /\ M \subseteq Int
    BY DEF Ids
  <2>2. ASSUME NEW k \in A
        PROVE  k \in B
    <3>1. k \in M /\ k \in Int /\ k > j
      BY <2>1
    <3>2. k > i
      BY <2>1, <3>1
    <3> QED
      BY <3>1, <3>2
  <2>3. j \in B /\ j \notin A
    BY <2>1
  <2> QED
    BY <2>2, <2>3
<1>3. Cardinality(A \cup {j}) = Cardinality(A) + 1
  BY <1>1, <1>2, FS_AddElement
<1>4. Cardinality(A \cup {j}) <= Cardinality(B)
  BY <1>1, <1>2, FS_Subset
<1>5. Place(j, M) = Cardinality(A) /\ Place(i, M) = Cardinality(B)
  BY DEF Place
<1> QED
  BY <1>3, <1>4, <1>5, PlaceType

(* ... so there is one row per place.                                       *)
LEMMA PlacesDiffer ==
  ASSUME NEW M \in SUBSET Ids, NEW i \in M, NEW j \in M, Place(i, M) = Place(j, M)
  PROVE  i = j
<1>1. i \in Int /\ j \in Int /\ Place(i, M) \in Int
  BY PlaceType DEF Ids
<1>2. ~(i < j) /\ ~(j < i)
  BY <1>1, PlaceOrder
<1> QED
  BY <1>1, <1>2

(* The rows before a row take all places up to its own.                     *)
LEMMA PlacesAreTaken ==
  ASSUME NEW M \in SUBSET Ids, NEW i \in Ids, NEW n \in Nat, n < Place(i, M)
  PROVE  \E j \in M : Place(j, M) = n
<1> DEFINE m == Place(i, M)  A == {j \in M : j > i}  f == [j \in A |-> Place(j, M)]
<1>1. m \in Nat /\ IsFiniteSet(A) /\ Cardinality(A) = m
  BY PlaceType, RowsAreFinite DEF Place
<1>2. IsFiniteSet(0 .. (m - 1)) /\ Cardinality(0 .. (m - 1)) = m
  <2> HIDE DEF m
  <2>1. m - 1 \in Int /\ (0 > m - 1 <=> m = 0)
    BY <1>1
  <2> QED
    BY <1>1, <2>1, FS_Interval
<1>3. f \in Injection(A, 0 .. (m - 1))
  <2>1. ASSUME NEW j \in A
        PROVE  Place(j, M) \in 0 .. (m - 1)
    <3>1. j \in M /\ i < j
      BY DEF Ids
    <3> QED
      BY <3>1, PlaceOrder, PlaceType
  <2>2. \A j, k \in A : f[j] = f[k] => j = k
    BY PlacesDiffer
  <2>3. f \in [A -> 0 .. (m - 1)]
    BY <2>1
  <2> QED
    BY <2>2, <2>3 DEF Injection, IsInjective
<1>4. f \in Surjection(A, 0 .. (m - 1))
  BY <1>1, <1>2, <1>3, FS_Injection
<1>5. n \in 0 .. (m - 1)
  BY <1>1
<1>6. PICK j \in A : f[j] = n
  BY <1>4, <1>5 DEF Surjection
<1> QED
  BY <1>6

(* A page that is not full is the last one.                                 *)
LEMMA ShortPageIsLast ==
  ASSUME NEW M \in SUBSET Ids, NEW o \in Nat, NEW i \in M,
         Cardinality({j \in M : Place(j, M) \in o .. (o + Limit - 1)}) < Limit
  PROVE  Place(i, M) < o + Limit
<1> DEFINE page == {j \in M : Place(j, M) \in o .. (o + Limit - 1)}
           slots == o .. (o + Limit - 1)  g == [j \in page |-> Place(j, M)]
<1> SUFFICES ASSUME Place(i, M) >= o + Limit
             PROVE  FALSE
  BY PlaceType
<1>1. g \in Surjection(page, slots)
  <2>1. ASSUME NEW n \in slots
        PROVE  \E j \in page : g[j] = n
    <3>1. n \in Nat /\ n < Place(i, M) /\ i \in Ids
      BY PlaceType
    <3>2. PICK j \in M : Place(j, M) = n
      BY <3>1, PlacesAreTaken
    <3> QED
      BY <3>2
  <2> QED
    BY <2>1 DEF Surjection
<1>2. IsFiniteSet(page) /\ Cardinality(page) \in Nat
  BY RowsAreFinite
<1>3. IsFiniteSet(slots) /\ Cardinality(slots) = Limit
  BY FS_Interval
<1>4. Cardinality(slots) <= Cardinality(page)
  BY <1>1, <1>2, FS_Surjection
<1> QED
  BY <1>2, <1>3, <1>4

(***************************************************************************)
(* The edge of the next page                                               *)
(***************************************************************************)

(* When a row enters the result, at most one comes to lie behind the edge, and
   none before it; when it leaves, the other way round.                      *)
LEMMA OneCrosses ==
  ASSUME NEW M \in SUBSET Ids, NEW j \in Ids \ M, NEW o \in Nat
  PROVE  /\ Ahead(M, o) \subseteq Ahead(M \cup {j}, o)
         /\ \E b : Ahead(M \cup {j}, o) \subseteq Ahead(M, o) \cup {b}
<1> DEFINE N == M \cup {j}
<1>0. N \in SUBSET Ids
  OBVIOUS
<1>1. ASSUME NEW i \in N
      PROVE  /\ Place(i, M) \in Nat /\ Place(i, N) \in Nat
             /\ Place(i, N) = Place(i, M) + (IF j > i THEN 1 ELSE 0)
  BY <1>0, PlaceMoves, PlaceType
<1>2. Ahead(M, o) \subseteq Ahead(N, o)
  BY <1>1 DEF Ahead
<1>3. \A i, k \in Ahead(N, o) \ Ahead(M, o) : i = k
  <2> SUFFICES ASSUME NEW i \in Ahead(N, o) \ Ahead(M, o), NEW k \in Ahead(N, o) \ Ahead(M, o)
               PROVE  i = k
    OBVIOUS
  <2>1. ASSUME NEW x \in Ahead(N, o) \ Ahead(M, o), x # j
        PROVE  x \in N /\ x < j /\ Place(x, N) = o
    <3>1. x \in N /\ x \in M /\ Place(x, N) >= o /\ ~(Place(x, M) >= o)
      BY <2>1 DEF Ahead
    <3>2. x \in Int /\ j \in Int
      BY <3>1 DEF Ids
    <3> QED
      BY <1>1, <3>1, <3>2
  <2>2. ASSUME NEW x \in Ahead(N, o) \ Ahead(M, o), x # j, j \in Ahead(N, o)
        PROVE  FALSE
    <3>1. x \in Ids /\ x < j /\ Place(x, N) = o
      BY <1>0, <2>1, <2>2
    <3>2. Place(j, N) < Place(x, N)
      BY <1>0, <3>1, PlaceOrder
    <3>3. Place(j, N) >= o /\ Place(j, N) \in Nat
      BY <1>0, <2>2, PlaceType DEF Ahead
    <3> QED
      BY <3>1, <3>2, <3>3
  <2>3. CASE i # j /\ k # j
    <3>1. Place(i, N) = o /\ Place(k, N) = o /\ i \in N /\ k \in N
      BY <2>1, <2>3
    <3> QED
      BY <1>0, <3>1, PlacesDiffer
  <2> QED
    BY <2>2, <2>3
<1>4. \E b : Ahead(N, o) \subseteq Ahead(M, o) \cup {b}
  <2>1. CASE Ahead(N, o) \subseteq Ahead(M, o)
    BY <2>1
  <2>2. CASE \E b : b \in Ahead(N, o) \ Ahead(M, o)
    BY <1>3, <2>2
  <2> QED
    BY <2>1, <2>2
<1> QED
  BY <1>2, <1>4

(***************************************************************************)
(* The inductive invariant                                                 *)
(***************************************************************************)

(* Rows are rows.                                                           *)
LEMMA RowsType == \A s : Rows(s) \in SUBSET Ids
  BY DEF Rows

(* A set with one element more has one element more.                        *)
LEMMA OneMore ==
  ASSUME NEW A, IsFiniteSet(A), NEW B, NEW b, B \subseteq A \cup {b}
  PROVE  IsFiniteSet(B) /\ Cardinality(B) <= Cardinality(A) + 1
<1>0. Cardinality(A) \in Nat
  BY FS_CardinalityType
<1>1. IsFiniteSet(A \cup {b}) /\ Cardinality(A \cup {b}) <= Cardinality(A) + 1
  <2>1. CASE b \in A
    <3>1. A \cup {b} = A
      BY <2>1
    <3>2. Cardinality(A) <= Cardinality(A) + 1
      BY <1>0
    <3> QED
      BY <3>1, <3>2
  <2>2. CASE b \notin A
    BY <1>0, <2>2, FS_AddElement
  <2> QED
    BY <2>1, <2>2
<1>2. IsFiniteSet(B) /\ Cardinality(B) <= Cardinality(A \cup {b})
  BY <1>1, FS_Subset
<1>3. Cardinality(B) \in Nat /\ Cardinality(A) \in Nat /\ Cardinality(A \cup {b}) \in Nat
  BY <1>1, <1>2, FS_CardinalityType
<1> QED
  BY <1>1, <1>2, <1>3

(* Two sets with nothing in common add up.                                  *)
LEMMA Disjoint ==
  ASSUME NEW A, IsFiniteSet(A), NEW B, IsFiniteSet(B), A \cap B = {}
  PROVE  Cardinality(A \cup B) = Cardinality(A) + Cardinality(B)
<1>1. Cardinality(A \cap B) = 0
  BY FS_EmptySet
<1>2. Cardinality(A \cup B) = Cardinality(A) + Cardinality(B) - Cardinality(A \cap B)
  BY FS_Union
<1> QED
  BY <1>1, <1>2, FS_CardinalityType

(* What is counted can be counted.                                          *)
LEMMA CountsAreFinite ==
  ASSUME LTypeOK
  PROVE  /\ IsFiniteSet(Missed) /\ Cardinality(Missed) \in Nat
         /\ IsFiniteSet(Awaited) /\ Cardinality(Awaited) \in Nat
         /\ IsFiniteSet(Repeats) /\ Cardinality(Repeats) \in Nat
<1>1. Missed \in SUBSET Ids /\ Awaited \in SUBSET Ids
  BY RowsType DEF LTypeOK, Missed, Awaited, Ahead
<1>2. IsFiniteSet(Repeats)
  <2>1. IsFiniteSet(Ids) /\ IsFiniteSet(2 .. scan.offset)
    BY FS_Interval DEF Ids, LTypeOK
  <2>2. IsFiniteSet(Ids \X (2 .. scan.offset)) /\ Repeats \in SUBSET (Ids \X (2 .. scan.offset))
    BY <2>1, FS_Product DEF Repeats
  <2> QED
    BY <2>2, FS_Subset
<1> QED
  BY <1>1, <1>2, RowsAreFinite, FS_CardinalityType

(* At the beginning there is nothing to count.                               *)
LEMMA ListInit == LInit => ListInv
<1> SUFFICES ASSUME LInit
             PROVE  ListInv
  OBVIOUS
<1>1. LTypeOK
  BY DEF LInit, LTypeOK
<1>2. Repeats = {}
  BY DEF LInit, Repeats
<1>3. RepeatsExplained
  BY <1>2, FS_EmptySet DEF RepeatsExplained, LInit
<1> QED
  BY <1>1, <1>3 DEF LInit, ListInv, MissesExplained

(* What a row may be written to, and by whom.                                *)
Writes(j) ==
  /\ \E v \in Statuses \cup {"flushed", "answered", "refused", "lost"} : Write(j, v)
  /\ progress' \in [Ids -> Statuses \cup {"none"}]

(* A write brings one row into the result, or takes one out, or neither, and is
   counted if it does.                                                       *)
LEMMA WriteMoves ==
  ASSUME LTypeOK, NEW j \in Ids, Writes(j)
  PROVE  /\ LTypeOK' /\ UNCHANGED <<scan, got, matched>>
         /\ left' >= left /\ entered' >= entered
         /\ scan.phase # "walking" => UNCHANGED <<left, entered>>
         /\ LET M == Rows(scan.status)
            IN  \/ Rows(scan.status)' = M
                \/ /\ j \in M /\ Rows(scan.status)' = M \ {j}
                   /\ scan.phase = "walking" => left' = left + 1
                \/ /\ j \notin M /\ Rows(scan.status)' = M \cup {j}
                   /\ scan.phase = "walking" => entered' = entered + 1
<1>0. PICK v \in Statuses \cup {"flushed", "answered", "refused", "lost"} : Write(j, v)
  BY DEF Writes
<1>1. /\ row' = [row EXCEPT ![j] = v] /\ UNCHANGED <<scan, got, matched>>
      /\ progress' \in [Ids -> Statuses \cup {"none"}]
      /\ v \in Statuses \cup {"none", "flushed", "answered", "lost", "refused"}
      /\ left' = left + (IF scan.phase = "walking" /\ Matches(j, scan.status)
                            /\ ~(v \in Statuses /\ scan.status \in {"any", v}) THEN 1 ELSE 0)
      /\ entered' = entered + (IF scan.phase = "walking" /\ ~Matches(j, scan.status)
                            /\ v \in Statuses /\ scan.status \in {"any", v} THEN 1 ELSE 0)
  BY <1>0 DEF Write, Writes
<1>2. /\ LTypeOK' /\ left' >= left /\ entered' >= entered
      /\ scan.phase # "walking" => UNCHANGED <<left, entered>>
  BY <1>1 DEF LTypeOK
<1>3. row'[j] = v /\ \A k \in Ids : k # j => row'[k] = row[k]
  BY <1>1 DEF LTypeOK
<1>4. /\ \A k \in Ids : k # j => (Matches(k, scan.status)' <=> Matches(k, scan.status))
      /\ Matches(j, scan.status)' <=> v \in Statuses /\ scan.status \in {"any", v}
  BY <1>1, <1>3 DEF Matches, Visible
<1>5. Rows(scan.status)' = {k \in Ids : Matches(k, scan.status)'}
  BY DEF Rows
<1>6. CASE Matches(j, scan.status) <=> Matches(j, scan.status)'
  <2>1. Rows(scan.status)' = Rows(scan.status)
    BY <1>4, <1>5, <1>6 DEF Rows
  <2> QED
    BY <1>1, <1>2, <2>1
<1>7. CASE Matches(j, scan.status) /\ ~Matches(j, scan.status)'
  <2>1. j \in Rows(scan.status) /\ Rows(scan.status)' = Rows(scan.status) \ {j}
    BY <1>4, <1>5, <1>7 DEF Rows
  <2>2. scan.phase = "walking" => left' = left + 1
    BY <1>1, <1>4, <1>7
  <2> QED
    BY <1>1, <1>2, <2>1, <2>2
<1>8. CASE ~Matches(j, scan.status) /\ Matches(j, scan.status)'
  <2>1. j \notin Rows(scan.status) /\ Rows(scan.status)' = Rows(scan.status) \cup {j}
    BY <1>4, <1>5, <1>8 DEF Rows
  <2>2. scan.phase = "walking" => entered' = entered + 1
    BY <1>1, <1>4, <1>8
  <2> QED
    BY <1>1, <1>2, <2>1, <2>2
<1> QED
  BY <1>6, <1>7, <1>8

(* A row that leaves may make the walk miss one, a row that enters may make it
   repeat one; neither does both.                                            *)
LEMMA WriteKeeps ==
  ASSUME ListInv, NEW j \in Ids, Writes(j)
  PROVE  ListInv'
<1> DEFINE M == Rows(scan.status)  N == Rows(scan.status)'  o == scan.offset
<1>0. LTypeOK
  BY DEF ListInv
<1>1. /\ LTypeOK' /\ UNCHANGED <<scan, got, matched>>
      /\ left' >= left /\ entered' >= entered
      /\ scan.phase # "walking" => UNCHANGED <<left, entered>>
      /\ \/ N = M
         \/ /\ j \in M /\ N = M \ {j}
            /\ scan.phase = "walking" => left' = left + 1
         \/ /\ j \notin M /\ N = M \cup {j}
            /\ scan.phase = "walking" => entered' = entered + 1
  BY <1>0, WriteMoves
<1>2. M \in SUBSET Ids /\ N \in SUBSET Ids /\ o \in Nat
  BY <1>0, RowsType DEF Rows, LTypeOK
<1>3. /\ Missed = {i \in matched \ Ahead(M, o) : got[i] = 0}
      /\ Missed' = {i \in matched \ Ahead(N, o) : got[i] = 0}
      /\ Awaited = {i \in Ahead(M, o) : got[i] > 0}
      /\ Awaited' = {i \in Ahead(N, o) : got[i] > 0}
      /\ Repeats' = Repeats
  BY <1>1 DEF Missed, Awaited, Repeats, Ahead, Place
<1>4. /\ IsFiniteSet(Missed) /\ Cardinality(Missed) \in Nat
      /\ IsFiniteSet(Awaited) /\ Cardinality(Awaited) \in Nat
      /\ Cardinality(Repeats) \in Nat /\ {left, entered, left', entered'} \subseteq Nat
  BY <1>0, <1>1, CountsAreFinite DEF LTypeOK
<1> HIDE DEF M, N, o
<1>5. CASE scan.phase = "walking"
  <2>0. Cardinality(Missed) <= left /\ Cardinality(Repeats) + Cardinality(Awaited) <= entered
    BY <1>5 DEF ListInv
  <2>1. /\ Cardinality(Missed') <= left'
        /\ Cardinality(Awaited') \in Nat
        /\ Cardinality(Repeats) + Cardinality(Awaited') <= entered'
    <3>1. CASE N = M
      BY <1>1, <1>3, <1>4, <2>0, <3>1
    <3>2. CASE j \in M /\ N = M \ {j} /\ left' = left + 1
      <4>1. M = N \cup {j} /\ j \in Ids \ N
        BY <3>2
      <4>2. PICK b : Ahead(M, o) \subseteq Ahead(N, o) \cup {b}
        BY <1>2, <4>1, OneCrosses
      <4>3. Missed' \subseteq Missed \cup {b}
        BY <1>3, <4>2
      <4>4. Cardinality(Missed') <= Cardinality(Missed) + 1 /\ Cardinality(Missed') \in Nat
        BY <1>4, <4>3, OneMore, FS_CardinalityType
      <4>5. Awaited' \in SUBSET Awaited
        BY <1>2, <1>3, <4>1, OneCrosses
      <4>6. Cardinality(Awaited') <= Cardinality(Awaited) /\ Cardinality(Awaited') \in Nat
        BY <1>4, <4>5, FS_Subset, FS_CardinalityType
      <4> QED
        BY <1>1, <1>4, <2>0, <3>2, <4>4, <4>6
    <3>3. CASE j \notin M /\ N = M \cup {j} /\ entered' = entered + 1
      <4>1. PICK b : Ahead(N, o) \subseteq Ahead(M, o) \cup {b}
        BY <1>2, <3>3, OneCrosses
      <4>2. Missed' \in SUBSET Missed
        BY <1>2, <1>3, <3>3, OneCrosses
      <4>3. Cardinality(Missed') <= Cardinality(Missed) /\ Cardinality(Missed') \in Nat
        BY <1>4, <4>2, FS_Subset, FS_CardinalityType
      <4>4. Awaited' \subseteq Awaited \cup {b}
        BY <1>3, <4>1
      <4>5. Cardinality(Awaited') <= Cardinality(Awaited) + 1 /\ Cardinality(Awaited') \in Nat
        BY <1>4, <4>4, OneMore, FS_CardinalityType
      <4> QED
        BY <1>1, <1>4, <2>0, <3>3, <4>3, <4>5
    <3> QED
      BY <1>1, <1>5, <3>1, <3>2, <3>3
  <2>2. RepeatsExplained'
    BY <1>3, <1>4, <2>1 DEF RepeatsExplained
  <2> QED
    BY <1>1, <1>3, <1>5, <2>1, <2>2 DEF ListInv, MissesExplained
<1>6. CASE scan.phase # "walking"
  <2>1. RepeatsExplained' /\ MissesExplained'
    BY <1>1, <1>3, <1>6 DEF RepeatsExplained, MissesExplained, ListInv
  <2> QED
    BY <1>1, <1>6, <2>1 DEF ListInv
<1> QED
  BY <1>5, <1>6

(* A page returns rows; what it repeats was awaited, and what it repeats no
   longer is.                                                                *)
LEMMA PageKeeps ==
  ASSUME ListInv, NextPage
  PROVE  ListInv'
<1> DEFINE o == scan.offset  M == Rows(scan.status)
           page == List(scan.status, Limit, scan.offset)
           again == {i \in page : got[i] > 0}
<1>1. LTypeOK /\ scan.phase = "walking"
  BY DEF ListInv, NextPage
<1>2. /\ got' = [i \in Ids |-> got[i] + IF i \in page THEN 1 ELSE 0]
      /\ scan' = [scan EXCEPT !.phase = IF Cardinality(page) < Limit THEN "over" ELSE @,
                              !.offset = @ + Limit]
      /\ UNCHANGED <<row, progress, matched, left, entered>>
  BY DEF NextPage
<1>3. /\ scan'.offset = o + Limit /\ scan'.status = scan.status /\ o \in Nat
      /\ scan'.phase = IF Cardinality(page) < Limit THEN "over" ELSE "walking"
      /\ left \in Nat /\ entered \in Nat
  BY <1>1, <1>2 DEF LTypeOK
<1>4. /\ page = {i \in M : Place(i, M) \in o .. (o + Limit - 1)} /\ M \in SUBSET Ids
      /\ Rows(scan.status)' = M
      /\ \A i \in M : Place(i, M) \in Nat
  <2>1. Rows(scan.status)' = M
    BY <1>2, <1>3 DEF Rows, Matches, Visible
  <2>2. M \in SUBSET Ids
    BY RowsType
  <2>3. \A i \in M : Place(i, M) \in Nat
    BY <2>2, PlaceType
  <2> QED
    BY <2>1, <2>2, <2>3 DEF List
<1>5. LTypeOK'
  <2>1. got' \in [Ids -> Nat]
    BY <1>1, <1>2 DEF LTypeOK
  <2>2. scan' \in [phase : {"idle", "walking", "over"}, status : {"any"} \cup Statuses,
                   offset : Nat]
    <3>1. /\ scan \in [phase : {"idle", "walking", "over"}, status : {"any"} \cup Statuses,
                        offset : Nat]
          /\ scan.offset + Limit \in Nat
      BY <1>1 DEF LTypeOK
    <3> HIDE DEF page
    <3> QED
      BY <1>2, <3>1
  <2> QED
    BY <1>1, <1>2, <2>1, <2>2 DEF LTypeOK
<1>7. ASSUME NEW i \in Ids
      PROVE  /\ got[i] \in Nat /\ got[i] <= o
             /\ got'[i] = got[i] + IF i \in page THEN 1 ELSE 0
             /\ got'[i] \in Nat /\ got'[i] <= o + Limit
  BY <1>1, <1>2, <1>3 DEF ListInv, LTypeOK
<1>8. /\ Missed = {i \in matched \ Ahead(M, o) : got[i] = 0}
      /\ Missed' = {i \in matched \ Ahead(M, o + Limit) : got'[i] = 0}
      /\ Awaited = {i \in Ahead(M, o) : got[i] > 0}
      /\ Awaited' = {i \in Ahead(M, o + Limit) : got'[i] > 0}
  BY <1>2, <1>3, <1>4 DEF Missed, Awaited, Ahead, Place
<1>9. /\ IsFiniteSet(Missed) /\ Cardinality(Missed) \in Nat
      /\ IsFiniteSet(Awaited) /\ Cardinality(Awaited) \in Nat
      /\ IsFiniteSet(Repeats) /\ Cardinality(Repeats) \in Nat
      /\ Cardinality(Missed) <= left
      /\ Cardinality(Repeats) + Cardinality(Awaited) <= entered
  BY <1>1, CountsAreFinite DEF ListInv
<1> HIDE DEF o, M, page
<1>10. Missed' \in SUBSET Missed
  <2> SUFFICES ASSUME NEW i \in Missed'
               PROVE  i \in Missed
    OBVIOUS
  <2>1. i \in matched /\ i \in Ids /\ got'[i] = 0 /\ i \notin Ahead(M, o + Limit)
    BY <1>1, <1>8 DEF LTypeOK
  <2>2. i \notin page /\ got[i] = 0
    BY <1>7, <2>1
  <2>3. i \notin Ahead(M, o)
    BY <1>3, <1>4, <2>1, <2>2 DEF Ahead
  <2> QED
    BY <1>8, <2>1, <2>2, <2>3
<1>11. Cardinality(Missed') \in Nat /\ Cardinality(Missed') <= left
  BY <1>3, <1>9, <1>10, FS_Subset, FS_CardinalityType
<1>12. again \cup Awaited' \in SUBSET Awaited /\ again \cap Awaited' = {}
  <2>1. \A i \in page : i \in M /\ i \in Ids /\ Place(i, M) >= o /\ Place(i, M) < o + Limit
    BY <1>3, <1>4
  <2>2. again \in SUBSET Awaited
    BY <1>8, <2>1 DEF Ahead
  <2>3. ASSUME NEW i \in Awaited'
        PROVE  i \in Awaited /\ i \notin again
    <3>1. i \in M /\ i \in Ids /\ Place(i, M) >= o + Limit /\ got'[i] > 0 /\ Place(i, M) \in Nat
      BY <1>4, <1>8 DEF Ahead
    <3>2. i \notin page
      BY <1>3, <2>1, <3>1
    <3>3. got[i] > 0 /\ Place(i, M) >= o
      BY <1>3, <1>7, <3>1, <3>2
    <3> QED
      BY <1>8, <3>1, <3>2, <3>3 DEF Ahead
  <2> QED
    BY <2>2, <2>3
<1>13. /\ IsFiniteSet(again) /\ Cardinality(again) \in Nat
       /\ IsFiniteSet(Awaited') /\ Cardinality(Awaited') \in Nat
       /\ Cardinality(again) + Cardinality(Awaited') <= Cardinality(Awaited)
  <2>1. IsFiniteSet(again) /\ IsFiniteSet(Awaited') /\ IsFiniteSet(again \cup Awaited')
    BY <1>9, <1>12, FS_Subset
  <2>2. Cardinality(again \cup Awaited') <= Cardinality(Awaited)
    BY <1>9, <1>12, FS_Subset
  <2>3. Cardinality(again \cup Awaited') = Cardinality(again) + Cardinality(Awaited')
    <3> HIDE DEF again
    <3> QED
      BY <1>12, <2>1, Disjoint
  <2> QED
    BY <2>1, <2>2, <2>3, FS_CardinalityType
<1>14. /\ IsFiniteSet(Repeats') /\ Cardinality(Repeats') \in Nat
       /\ Cardinality(Repeats') <= Cardinality(Repeats) + Cardinality(again)
  <2> DEFINE added == {r \in Repeats' : r \notin Repeats}
             f == [r \in added |-> r[1]]
  <2>1. \A r \in Repeats' : /\ r \in Ids \X (2 .. (o + Limit)) /\ r[1] \in Ids
                            /\ r[2] \in Nat /\ r[2] >= 2 /\ r[2] <= got'[r[1]]
                            /\ r = <<r[1], r[2]>>
    BY <1>3 DEF Repeats
  <2>2. ASSUME NEW r \in added
        PROVE  r[1] \in again /\ r = <<r[1], got[r[1]] + 1>>
    <3>1. ~(r[2] <= got[r[1]])
      <4> SUFFICES ASSUME r[2] <= got[r[1]]
                   PROVE  FALSE
        OBVIOUS
      <4>1. r[2] \in 2 .. o
        BY <1>3, <1>7, <2>1 DEF o
      <4>2. r \in Ids \X (2 .. o)
        BY <2>1, <4>1
      <4> QED
        BY <2>1, <4>2 DEF Repeats, o
    <3>2. r[1] \in page /\ r[2] = got[r[1]] + 1 /\ got[r[1]] > 0
      BY <1>7, <2>1, <3>1
    <3> QED
      BY <2>1, <3>2
  <2>3. f \in Injection(added, again)
    <3>1. f \in [added -> again]
      BY <2>2
    <3>2. \A r, q \in added : f[r] = f[q] => r = q
      BY <2>2
    <3> QED
      BY <3>1, <3>2 DEF Injection, IsInjective
  <2>4. IsFiniteSet(added) /\ Cardinality(added) <= Cardinality(again)
    BY <1>13, <2>3, FS_Injection
  <2>5. Repeats' \in SUBSET (Repeats \cup added)
    OBVIOUS
  <2>6. /\ IsFiniteSet(Repeats \cup added)
        /\ Cardinality(Repeats \cup added)
             = Cardinality(Repeats) + Cardinality(added) - Cardinality(Repeats \cap added)
    BY <1>9, <2>4, FS_Union
  <2>7. IsFiniteSet(Repeats \cap added) /\ Cardinality(Repeats \cap added) \in Nat
    BY <1>9, FS_Intersection, FS_CardinalityType
  <2>8. IsFiniteSet(Repeats') /\ Cardinality(Repeats') <= Cardinality(Repeats \cup added)
    BY <2>5, <2>6, FS_Subset
  <2>9. Cardinality(Repeats') \in Nat /\ Cardinality(added) \in Nat
    BY <2>4, <2>8, FS_CardinalityType
  <2> HIDE DEF added, again
  <2> QED
    BY <1>9, <1>13, <2>4, <2>6, <2>7, <2>8, <2>9
<1>15. Cardinality(Repeats') + Cardinality(Awaited') <= entered'
  BY <1>2, <1>3, <1>9, <1>13, <1>14
<1>16. RepeatsExplained'
  BY <1>2, <1>3, <1>13, <1>14, <1>15 DEF RepeatsExplained
<1>17. MissesExplained'
  <2> SUFFICES ASSUME scan'.phase = "over"
               PROVE  {i \in matched : got'[i] = 0} = Missed'
    BY <1>2, <1>3, <1>11 DEF MissesExplained
  <2>1. Cardinality(page) < Limit
    BY <1>3
  <2>2. ASSUME NEW i \in M
        PROVE  Place(i, M) < o + Limit
    BY <1>3, <1>4, <2>1, ShortPageIsLast
  <2>3. Ahead(M, o + Limit) = {}
    BY <1>3, <1>4, <2>2 DEF Ahead
  <2> QED
    BY <1>8, <2>3
<1> QED
  BY <1>2, <1>3, <1>5, <1>7, <1>11, <1>15, <1>16, <1>17 DEF ListInv

(* A walk begins with nothing returned, so with nothing to explain.         *)
LEMMA StartKeeps ==
  ASSUME ListInv, NEW s \in {"any"} \cup Statuses, StartScan(s)
  PROVE  ListInv'
<1>1. /\ scan.phase = "idle" /\ scan' = [phase |-> "walking", status |-> s, offset |-> 0]
      /\ matched' = Rows(s) /\ UNCHANGED <<row, progress, got, left, entered>>
      /\ scan.offset = 0 /\ LTypeOK
  BY DEF StartScan, ListInv
<1>2. LTypeOK'
  BY <1>1, RowsType DEF LTypeOK
<1>3. \A i \in Ids : got[i] = 0
  BY <1>1 DEF ListInv, LTypeOK
<1>4. Awaited' = {} /\ Repeats' = {}
  <2>1. Awaited' = {}
    BY <1>1, <1>3 DEF Awaited, Ahead, Rows
  <2>2. Repeats' = {}
    BY <1>1 DEF Repeats
  <2> QED
    BY <2>1, <2>2
<1>5. Missed' = {}
  <2>1. Missed' = {i \in Rows(s) \ Ahead(Rows(s), 0) : got[i] = 0}
    BY <1>1 DEF Missed, Ahead, Rows, Matches, Visible, Place
  <2>2. \A i \in Rows(s) : Place(i, Rows(s)) >= 0
    BY RowsType, PlaceType
  <2> QED
    BY <2>1, <2>2 DEF Ahead
<1>6. Cardinality({}) = 0
  BY FS_EmptySet
<1> QED
  BY <1>1, <1>2, <1>3, <1>4, <1>5, <1>6 DEF ListInv, MissesExplained, RepeatsExplained, LTypeOK

(* Every step of the clients, the writers and the walk keeps the invariant.  *)
LEMMA ListStep == ListInv /\ [LNext]_lvars => ListInv'
<1> SUFFICES ASSUME ListInv, [LNext]_lvars
             PROVE  ListInv'
  OBVIOUS
<1>1. ASSUME NEW i \in Ids,
             \/ Flush(i) \/ Respond(i) \/ Finish(i)
             \/ Mark(i) \/ Settle(i) \/ Cancel(i)
      PROVE  ListInv'
  <2>1. progress \in [Ids -> Statuses \cup {"none"}]
    BY DEF ListInv, LTypeOK
  <2>2. CASE Flush(i) \/ Respond(i)
    BY <2>1, <2>2, WriteKeeps DEF Flush, Respond, Writes
  <2>3. CASE Finish(i)
    BY <2>1, <2>3, WriteKeeps DEF Finish, Give, Writes, Statuses
  <2>4. CASE Mark(i)
    BY <2>1, <2>4, WriteKeeps DEF Mark, Give, Writes, Statuses
  <2>5. CASE Settle(i)
    BY <2>1, <2>5, WriteKeeps DEF Settle, Give, Writes, Statuses, Verdicts
  <2>6. CASE Cancel(i)
    BY <2>1, <2>6, WriteKeeps DEF Cancel, Writes, Statuses
  <2> QED
    BY <1>1, <2>2, <2>3, <2>4, <2>5, <2>6
<1>2. CASE NextPage
  BY <1>2, PageKeeps
<1>3. ASSUME NEW s \in {"any"} \cup Statuses, StartScan(s)
      PROVE  ListInv'
  BY <1>3, StartKeeps
<1>4. CASE UNCHANGED lvars
  BY <1>4 DEF lvars, ListInv, LTypeOK, MissesExplained, RepeatsExplained,
     Missed, Awaited, Repeats, Ahead, Rows, Matches, Visible, Place
<1> QED
  BY <1>1, <1>2, <1>3, <1>4 DEF LNext

(***************************************************************************)
(* Theorems                                                                *)
(***************************************************************************)

(* What is missed, repeated and still to be repeated is paid for by writes, at
   every page of every walk beside creations, runs and cancels of tasks that
   overwrite one another.                                                    *)
THEOREM ListInvariant == LSpec => []ListInv
  BY ListInit, ListStep, PTL DEF LSpec

(* A finished walk has returned every task that matched when it began, but for
   one per time a row stopped matching.                                      *)
THEOREM MissesAreExplained == LSpec => []MissesExplained
<1>1. ListInv => MissesExplained
  BY DEF ListInv
<1> QED
  BY <1>1, ListInvariant, PTL

(* The walk returns a task again only because a row started to match, for the
   first time or again.                                                      *)
THEOREM RepeatsAreExplained == LSpec => []RepeatsExplained
<1>1. ListInv => RepeatsExplained
  BY DEF ListInv
<1> QED
  BY <1>1, ListInvariant, PTL
===============================================================================
