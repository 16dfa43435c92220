-------------------------- MODULE RegistryCacheProofs --------------------------
(***************************************************************************)
(* DecisionIsRecent holds for any number of requests, any URLs, any        *)
(* sequence of registries and any TTL.                                     *)
(***************************************************************************)
EXTENDS RegistryCache, TLAPS, SequenceTheorems, WellFoundedInduction

USE CacheAssumption

(***************************************************************************)
(* Names in URLs                                                           *)
(***************************************************************************)

(* A set of positions has a first and a last one.                           *)
LEMMA FirstAndLast ==
  ASSUME NEW n \in Nat, NEW I \in SUBSET (1 .. n), I # {}
  PROVE  /\ Min(I) \in I /\ \A i \in I : Min(I) <= i
         /\ Max(I) \in I /\ \A i \in I : i <= Max(I)
<1>1. \A m, k \in Nat : m < k => <<m, k>> \in OpToRel(<, Nat)
  BY DEF OpToRel
<1>2. PICK i \in I : \A j \in I : ~(<<j, i>> \in OpToRel(<, Nat))
  <2>1. I \subseteq Nat
    OBVIOUS
  <2> QED
    BY <2>1, NatLessThanWellFounded, WFMin, Zenon
<1>3. \A j \in I : i <= j
  <2>1. \A j \in I : ~(j < i)
    <3>1. \A j \in I : j \in Nat /\ i \in Nat
      OBVIOUS
    <3> QED
      BY <1>1, <1>2, <3>1, Zenon
  <2> QED
    BY <2>1
<1> DEFINE G == {n - j : j \in I}
<1>4. PICK g \in G : \A h \in G : ~(<<h, g>> \in OpToRel(<, Nat))
  <2>1. G \subseteq Nat /\ G # {}
    OBVIOUS
  <2> HIDE DEF G
  <2> QED
    BY <2>1, NatLessThanWellFounded, WFMin, Zenon
<1>5. PICK k \in I : g = n - k
  OBVIOUS
<1>6. \A j \in I : j <= k
  <2>1. \A j \in I : ~(n - j < n - k)
    <3>1. \A j \in I : n - j \in Nat /\ n - k \in Nat /\ n - j \in G
      OBVIOUS
    <3> HIDE DEF G
    <3> QED
      BY <1>1, <1>4, <1>5, <3>1, Zenon
  <2> QED
    BY <2>1
<1>7. Min(I) \in I /\ \A j \in I : Min(I) <= j
  BY <1>3 DEF Min
<1>8. Max(I) \in I /\ \A j \in I : j <= Max(I)
  BY <1>6 DEF Max
<1> QED
  BY <1>7, <1>8

(* Before cuts a sequence at its first separator.                           *)
LEMMA BeforeFacts ==
  ASSUME NEW S, NEW s \in Seq(S), NEW seps
  PROVE  \E n \in 0 .. Len(s) :
           /\ Before(s, seps) = SubSeq(s, 1, n)
           /\ \A j \in 1 .. n : s[j] \notin seps
           /\ n = Len(s) \/ s[n + 1] \in seps
<1> DEFINE I == {i \in 1 .. Len(s) : s[i] \in seps}
<1>1. Before(s, seps) = LET i == IF I # {} THEN Min(I) ELSE 0
                        IN  IF i = 0 THEN s ELSE SubSeq(s, 1, i - 1)
  BY DEF Before, SelectInSeq
<1>2. CASE I = {}
  <2>1. Before(s, seps) = s
    BY <1>1, <1>2
  <2>2. SubSeq(s, 1, Len(s)) = s /\ Len(s) \in 0 .. Len(s)
    OBVIOUS
  <2> QED
    BY <1>2, <2>1, <2>2
<1>3. CASE I # {}
  <2>1. PICK i \in I : i = Min(I) /\ \A j \in I : i <= j
    <3>1. I \in SUBSET (1 .. Len(s)) /\ Len(s) \in Nat
      OBVIOUS
    <3> HIDE DEF I
    <3> QED
      BY <1>3, <3>1, FirstAndLast
  <2>2. Before(s, seps) = SubSeq(s, 1, i - 1)
    <3>1. i # 0
      OBVIOUS
    <3> HIDE DEF I
    <3> QED
      BY <1>1, <1>3, <2>1, <3>1
  <2>3. i \in 1 .. Len(s) /\ s[i] \in seps /\ i - 1 \in 0 .. Len(s) /\ i - 1 + 1 = i
    OBVIOUS
  <2>4. \A j \in 1 .. i - 1 : j \in 1 .. Len(s) /\ ~(i <= j)
    BY <2>3
  <2>5. \A j \in 1 .. i - 1 : s[j] \notin seps
    BY <2>1, <2>4
  <2> QED
    BY <2>2, <2>3, <2>5
<1> QED
  BY <1>2, <1>3

(* What Strip leaves begins and ends with something else than a slash, and it
   has cut off nothing but slashes.                                         *)
LEMMA StripFacts ==
  ASSUME NEW S, NEW s \in Seq(S)
  PROVE  \/ Strip(s) = <<>> /\ \A j \in 1 .. Len(s) : s[j] = Slash
         \/ \E f, l \in 1 .. Len(s) :
              /\ f <= l /\ Strip(s) = SubSeq(s, f, l)
              /\ s[f] # Slash /\ s[l] # Slash
              /\ \A j \in 1 .. Len(s) : j < f \/ j > l => s[j] = Slash
<1> DEFINE I == {i \in 1 .. Len(s) : s[i] # Slash}
<1>1. Strip(s) = LET first == IF I # {} THEN Min(I) ELSE 0
                     last  == IF I # {} THEN Max(I) ELSE 0
                 IN  IF first = 0 THEN <<>> ELSE SubSeq(s, first, last)
  BY DEF Strip, SelectInSeq, SelectLastInSeq
<1>2. CASE I = {}
  BY <1>1, <1>2
<1>3. CASE I # {}
  <2>1. PICK f, l \in I : /\ f = Min(I) /\ \A j \in I : f <= j
                          /\ l = Max(I) /\ \A j \in I : j <= l
    <3>1. I \in SUBSET (1 .. Len(s)) /\ Len(s) \in Nat
      OBVIOUS
    <3> HIDE DEF I
    <3> QED
      BY <1>3, <3>1, FirstAndLast
  <2>2. f \in 1 .. Len(s) /\ l \in 1 .. Len(s) /\ f <= l
    BY <2>1
  <2>3. Strip(s) = SubSeq(s, f, l)
    <3>1. f # 0
      BY <2>2
    <3> HIDE DEF I
    <3> QED
      BY <1>1, <1>3, <2>1, <3>1
  <2>4. \A j \in 1 .. Len(s) : j < f \/ j > l => s[j] = Slash
    BY <2>1, <2>2
  <2> QED
    BY <2>2, <2>3, <2>4
<1> QED
  BY <1>2, <1>3

(* A path that is one name once it is stripped has that name and slashes.   *)
LEMMA NameAmongSlashes ==
  ASSUME NEW S, NEW s \in Seq(S), NEW n, Strip(s) = <<n>>
  PROVE  \E i \in DOMAIN s :
           s[i] = n /\ n # Slash /\ \A j \in DOMAIN s \ {i} : s[j] = Slash
<1>1. <<n>> # <<>> /\ Len(<<n>>) = 1 /\ <<n>>[1] = n
  OBVIOUS
<1>2. PICK f \in 1 .. Len(s), l \in 1 .. Len(s) :
        /\ f <= l /\ Strip(s) = SubSeq(s, f, l)
        /\ s[f] # Slash
        /\ \A j \in 1 .. Len(s) : j < f \/ j > l => s[j] = Slash
  BY <1>1, StripFacts, Zenon
<1>3. Len(SubSeq(s, f, l)) = l - f + 1 /\ SubSeq(s, f, l)[1] = s[f]
  BY <1>2
<1>4. l = f /\ s[f] = n
  <2>1. SubSeq(s, f, l) = <<n>>
    BY <1>2
  <2>2. l - f + 1 = 1 /\ s[f] = n
    BY <1>1, <1>3, <2>1, Zenon
  <2> QED
    BY <2>2
<1>5. f \in DOMAIN s /\ \A j \in DOMAIN s \ {f} : j \in 1 .. Len(s) /\ (j < f \/ j > l)
  BY <1>4
<1> QED
  BY <1>2, <1>4, <1>5

(* Prefixes of a sequence.                                                  *)
LEMMA CutFacts ==
  ASSUME NEW S, NEW s \in Seq(S)
  PROVE  /\ SubSeq(s, 1, Len(s)) = s
         /\ \A k \in 0 .. Len(s) : SubSeq(s, 1, k) \in Seq(S)
         /\ Len(s) >= 1 => SubSeq(s, 1, 1) = <<s[1]>>
<1>1. SubSeq(s, 1, Len(s)) = s
  OBVIOUS
<1>2. \A k \in 0 .. Len(s) : SubSeq(s, 1, k) \in Seq(S)
  OBVIOUS
<1>3. ASSUME Len(s) >= 1
      PROVE  SubSeq(s, 1, 1) = <<s[1]>>
  <2>1. s[1] \in S
    BY <1>3
  <2>2. SubSeq(s, 1, 1) \in Seq(S) /\ Len(SubSeq(s, 1, 1)) = 1 /\ SubSeq(s, 1, 1)[1] = s[1]
    BY <1>3
  <2>3. <<s[1]>> \in Seq(S) /\ Len(<<s[1]>>) = 1 /\ <<s[1]>>[1] = s[1]
    BY <2>1
  <2>4. \A i \in 1 .. 1 : i = 1
    OBVIOUS
  <2> QED
    BY <2>2, <2>3, <2>4, SeqEqual, Zenon
<1> QED
  BY <1>1, <1>2, <1>3

(* A name alone is not stripped of anything.                                *)
LEMMA NameAlone ==
  ASSUME NEW n, n # Slash
  PROVE  Strip(<<n>>) = <<n>>
<1>1. <<n>> \in Seq({n}) /\ Len(<<n>>) = 1 /\ <<n>>[1] = n
  OBVIOUS
<1>2. ~(\A j \in 1 .. Len(<<n>>) : <<n>>[j] = Slash)
  BY <1>1
<1>3. PICK f \in 1 .. Len(<<n>>), l \in 1 .. Len(<<n>>) : Strip(<<n>>) = SubSeq(<<n>>, f, l)
  BY <1>1, <1>2, StripFacts, Zenon
<1>4. f = 1 /\ l = 1
  BY <1>1
<1>5. SubSeq(<<n>>, 1, Len(<<n>>)) = <<n>>
  BY <1>1, CutFacts
<1> QED
  BY <1>1, <1>3, <1>4, <1>5

(* A path that begins with a name and then a separator, or ends.            *)
LEMMA NameThenRest ==
  ASSUME NEW S, NEW s \in Seq(S), NEW seps, NEW n, Before(s, seps) = <<n>>
  PROVE  /\ Len(s) >= 1 /\ s[1] = n /\ n \notin seps
         /\ Len(s) = 1 \/ s[2] \in seps
<1>1. PICK k \in 0 .. Len(s) : /\ SubSeq(s, 1, k) = <<n>>
                               /\ \A j \in 1 .. k : s[j] \notin seps
                               /\ k = Len(s) \/ s[k + 1] \in seps
  BY BeforeFacts
<1>2. Len(SubSeq(s, 1, k)) = k
  OBVIOUS
<1>3. k = 1
  <2>1. Len(<<n>>) = 1
    OBVIOUS
  <2> QED
    BY <1>1, <1>2, <2>1, Zenon
<1>4. SubSeq(s, 1, k)[1] = s[1] /\ <<n>>[1] = n /\ Len(s) >= 1
  BY <1>3
<1>5. s[1] = n
  BY <1>1, <1>4, Zenon
<1>6. Len(s) = 1 \/ s[2] \in seps
  BY <1>1, <1>3
<1>7. s[1] \notin seps
  <2>1. 1 \in 1 .. k
    BY <1>3
  <2> QED
    BY <1>1, <2>1, Zenon
<1> QED
  BY <1>4, <1>5, <1>6, <1>7

(* What the router runs of an accepted path is its name.                    *)
LEMMA RunsItsName ==
  ASSUME NEW S, NEW s \in Seq(S), NEW m, m # Slash,
         Before(s, {Query, Fragment}) = <<m>>,
         NEW i \in DOMAIN Before(s, {Query}),
         \A j \in DOMAIN Before(s, {Query}) \ {i} : Before(s, {Query})[j] = Slash
  PROVE  Before(s, {Query})[i] = m
<1>1. Len(s) >= 1 /\ s[1] = m /\ m \notin {Query, Fragment}
  BY NameThenRest
<1>2. PICK k \in 0 .. Len(s) : /\ Before(s, {Query}) = SubSeq(s, 1, k)
                               /\ k = Len(s) \/ s[k + 1] \in {Query}
  BY BeforeFacts
<1>3. k >= 1
  BY <1>1, <1>2
<1>4. 1 \in DOMAIN SubSeq(s, 1, k) /\ SubSeq(s, 1, k)[1] = s[1]
  BY <1>3
<1>5. 1 \in DOMAIN Before(s, {Query}) /\ Before(s, {Query})[1] = m
  <2>1. Before(s, {Query}) = SubSeq(s, 1, k)
    BY <1>2, Zenon
  <2>2. s[1] = m
    BY <1>1, Zenon
  <2> QED
    BY <1>4, <2>1, <2>2, Zenon
<1> QED
  BY <1>5, Zenon

(* A cut at the first of more separators is the shorter one.                *)
LEMMA ShorterCut ==
  ASSUME NEW S, NEW s \in Seq(S)
  PROVE  \A j \in DOMAIN Before(s, {Query, Fragment}) :
           /\ j \in DOMAIN Before(s, {Query})
           /\ Before(s, {Query, Fragment})[j] = Before(s, {Query})[j]
<1>1. PICK k \in 0 .. Len(s) : /\ Before(s, {Query}) = SubSeq(s, 1, k)
                               /\ k = Len(s) \/ s[k + 1] \in {Query}
  BY BeforeFacts
<1>2. PICK l \in 0 .. Len(s) : /\ Before(s, {Query, Fragment}) = SubSeq(s, 1, l)
                               /\ \A j \in 1 .. l : s[j] \notin {Query, Fragment}
  BY BeforeFacts
<1>3. l <= k
  <2>1. CASE k = Len(s)
    BY <2>1
  <2>2. CASE k # Len(s)
    <3>1. s[k + 1] = Query /\ k + 1 \in Nat
      BY <1>1, <2>2
    <3>2. ~(k + 1 \in 1 .. l)
      BY <1>2, <3>1
    <3> QED
      BY <3>1, <3>2
  <2> QED
    BY <2>1, <2>2
<1>4. \A j \in DOMAIN SubSeq(s, 1, l) : j \in DOMAIN SubSeq(s, 1, k)
                                      /\ SubSeq(s, 1, l)[j] = SubSeq(s, 1, k)[j]
  BY <1>3
<1> QED
  BY <1>1, <1>2, <1>4, Zenon

(* A path without a fragment is cut at its query either way.                *)
LEMMA SameCut ==
  ASSUME NEW S, NEW s \in Seq(S),
         \A i \in DOMAIN Before(s, {Query}) : Before(s, {Query})[i] # Fragment
  PROVE  Before(s, {Query, Fragment}) = Before(s, {Query})
<1>1. PICK k \in 0 .. Len(s) : /\ Before(s, {Query}) = SubSeq(s, 1, k)
                               /\ \A j \in 1 .. k : s[j] \notin {Query}
                               /\ k = Len(s) \/ s[k + 1] \in {Query}
  BY BeforeFacts
<1>2. PICK l \in 0 .. Len(s) : /\ Before(s, {Query, Fragment}) = SubSeq(s, 1, l)
                               /\ \A j \in 1 .. l : s[j] \notin {Query, Fragment}
                               /\ l = Len(s) \/ s[l + 1] \in {Query, Fragment}
  BY BeforeFacts
<1>3. \A j \in 1 .. k : s[j] # Fragment
  <2>1. \A j \in 1 .. k : j \in DOMAIN SubSeq(s, 1, k) /\ SubSeq(s, 1, k)[j] = s[j]
    OBVIOUS
  <2> QED
    BY <1>1, <2>1, Zenon
<1>4. ~(k < l)
  <2>1. k < l => k + 1 \in 1 .. l /\ k # Len(s)
    OBVIOUS
  <2> QED
    BY <1>1, <1>2, <2>1, Zenon
<1>5. ~(l < k)
  <2>1. l < k => l + 1 \in 1 .. k /\ l # Len(s)
    OBVIOUS
  <2> QED
    BY <1>1, <1>2, <1>3, <2>1, Zenon
<1>6. k = l
  BY <1>4, <1>5
<1> QED
  BY <1>1, <1>2, <1>6, Zenon

(* A path with nothing to remove and nothing to decode is matched as it is.  *)
LEMMA AsItIs ==
  ASSUME NEW S, NEW s \in Seq(S), NEW m,
         \A j \in DOMAIN s : s[j] \notin {Dot, DotDot} /\ s[j] \notin DOMAIN Decodes,
         Decoded(Normal(<<Webhooks, Slash>> \o s)) = <<Webhooks, Slash, m>>
  PROVE  s = <<m>>
<1> DEFINE p == <<Webhooks, Slash>> \o s
           q == <<Webhooks, Slash, m>>
<1>1. /\ DOMAIN p = 1 .. Len(s) + 2 /\ p[1] = Webhooks /\ p[2] = Slash
      /\ \A j \in DOMAIN s : j + 2 \in DOMAIN p /\ p[j + 2] = s[j]
      /\ \A j \in DOMAIN p \ {1, 2} : j - 2 \in DOMAIN s /\ p[j] = s[j - 2]
  <2> DEFINE T == S \cup {Webhooks, Slash}
  <2>1. s \in Seq(T) /\ <<Webhooks, Slash>> \in Seq(T)
    OBVIOUS
  <2> QED
    BY <2>1
<1>2. \A j \in DOMAIN p : p[j] \notin {Dot, DotDot} /\ p[j] \notin DOMAIN Decodes
  <2> HIDE DEF p
  <2>1. ASSUME NEW j \in DOMAIN p
        PROVE  p[j] \notin {Dot, DotDot} /\ p[j] \notin DOMAIN Decodes
    <3>1. CASE j \in {1, 2}
      BY <1>1, <3>1, UrlsAssumption
    <3>2. CASE j \notin {1, 2}
      BY <1>1, <3>2
    <3> QED
      BY <3>1, <3>2
  <2> QED
    BY <2>1
<1>3. Normal(p) = p
  <2> HIDE DEF p
  <2> QED
    BY <1>2 DEF Normal, Dotless
<1>4. Decoded(p) = [j \in DOMAIN p |-> p[j]]
  <2> HIDE DEF p
  <2> QED
    BY <1>2 DEF Decoded
<1>5. Decoded(Normal(p)) = p
  <2>1. p = [j \in DOMAIN p |-> p[j]]
    <3>1. s \in Seq(S \cup {Webhooks, Slash}) /\ <<Webhooks, Slash>> \in Seq(S \cup {Webhooks, Slash})
      OBVIOUS
    <3> QED
      BY <3>1
  <2> HIDE DEF p
  <2> QED
    BY <1>3, <1>4, <2>1, Zenon
<1>6. p = q
  BY <1>5, Zenon
<1>7. DOMAIN q = 1 .. 3 /\ q[3] = m
  OBVIOUS
<1>8. Len(s) = 1 /\ 1 \in DOMAIN s
  <2>1. 1 .. Len(s) + 2 = 1 .. 3
    BY <1>1, <1>6, <1>7, Zenon
  <2>2. Len(s) \in Nat /\ DOMAIN s = 1 .. Len(s)
    OBVIOUS
  <2>3. Len(s) + 2 \in 1 .. Len(s) + 2 /\ 3 \in 1 .. 3
    BY <2>2
  <2>4. Len(s) + 2 \in 1 .. 3 /\ 3 \in 1 .. Len(s) + 2
    BY <2>1, <2>3, Zenon
  <2> QED
    BY <2>2, <2>4
<1>9. s[1] = m
  <2>1. p[1 + 2] = s[1]
    BY <1>1, <1>8, Zenon
  <2>2. 1 + 2 = 3
    OBVIOUS
  <2> QED
    BY <1>6, <1>7, <2>1, <2>2, Zenon
<1>10. SubSeq(s, 1, 1) = <<s[1]>> /\ SubSeq(s, 1, Len(s)) = s
  BY <1>8, CutFacts
<1> QED
  BY <1>8, <1>9, <1>10, Zenon

(***************************************************************************)
(* The invariant                                                           *)
(***************************************************************************)

(* None is not a version.                                                   *)
LEMMA VersionFacts == /\ 0 \in Versions /\ Versions \subseteq Nat
                      /\ None \in Int /\ None \notin Versions
  BY DEF Versions, None

(* Served at time s or later, so at any earlier time or later.              *)
LEMMA ServedEarlier ==
  ASSUME CTypeOK, NEW v \in Versions, NEW s \in Int, NEW u \in Int, u <= s, ServedSince(v, s)
  PROVE  ServedSince(v, u)
<1>1. replaced[v] \in Int
  BY VersionFacts DEF CTypeOK
<1> QED
  BY <1>1 DEF ServedSince

(* The cache is empty when the scheduler starts.                            *)
LEMMA CacheInit == CInit => CacheInv
<1> SUFFICES ASSUME CInit PROVE CacheInv
  OBVIOUS
<1>1. CTypeOK
  BY VersionFacts DEF CInit, CTypeOK, Idle
<1>2. HoldsRecent
  BY DEF CInit, HoldsRecent, Idle
<1>3. cache.expires <= clock + TTL
  BY DEF CInit
<1>4. \A r \in Requests : Reasoned(val[r])
  BY DEF CInit, Reasoned, Idle
<1> QED
  BY <1>1, <1>2, <1>3, <1>4 DEF CacheInv

(* A request that takes another step of its validation.                     *)
Steps(r, v) == val' = [val EXCEPT ![r] = v]

ValType == [pc : {"idle", "fetching", "accepted", "refused"},
            url : Urls \cup {<<>>}, now : Nat, got : Versions \cup {None}]

(* What a validation may hold.                                              *)
Sound(v) == /\ v.now <= clock
            /\ v.got # None => ServedSince(v.got, IF v.pc = "fetching" THEN v.now
                                                  ELSE v.now - TTL)
            /\ Reasoned(v)

(* A step of one request keeps the invariant if what it then holds is sound. *)
LEMMA RequestStep ==
  ASSUME CacheInv, NEW r \in Requests, NEW v \in ValType, Steps(r, v), Sound(v),
         UNCHANGED <<clock, version, replaced, up>>,
         \/ UNCHANGED cache
         \/ /\ cache' \in [webhooks : Versions, expires : Nat]
            /\ ServedSince(cache'.webhooks, cache'.expires - TTL)
            /\ cache'.expires <= clock + TTL
  PROVE  CacheInv'
<1>1. \A q \in Requests : val'[q] = IF q = r THEN v ELSE val[q]
  BY DEF CacheInv, CTypeOK, Steps
<1>2. CTypeOK'
  BY DEF CacheInv, CTypeOK, Steps, ValType
<1>3. \A q \in Requests :
        /\ val'[q].now <= clock'
        /\ val'[q].got # None =>
             ServedSince(val'[q].got, IF val'[q].pc = "fetching" THEN val'[q].now
                                      ELSE val'[q].now - TTL)
  BY <1>1 DEF CacheInv, HoldsRecent, Sound
<1>4. cache'.webhooks # None => ServedSince(cache'.webhooks, cache'.expires - TTL)
  BY DEF CacheInv, HoldsRecent
<1>5. HoldsRecent'
  BY <1>3, <1>4 DEF HoldsRecent, ServedSince
<1>6. cache'.expires <= clock' + TTL
  BY DEF CacheInv
<1>7. (\A q \in Requests : Reasoned(val[q]))'
  BY <1>1 DEF CacheInv, Sound, Reasoned
<1> QED
  BY <1>2, <1>5, <1>6, <1>7 DEF CacheInv

(* Every step keeps the invariant.                                          *)
LEMMA CacheStep == CacheInv /\ [CNext]_cvars => CacheInv'
<1> SUFFICES ASSUME CacheInv, [CNext]_cvars PROVE CacheInv'
  OBVIOUS
<1>0. CTypeOK /\ HoldsRecent /\ cache.expires <= clock + TTL
      /\ \A q \in Requests : Reasoned(val[q])
  BY DEF CacheInv
<1>000. ASSUME val' = val
        PROVE  (\A q \in Requests : Reasoned(val[q]))'
  BY <1>0, <1>000 DEF Reasoned
<1>00. TTL \in Int /\ clock \in Int /\ cache.expires \in Int
  BY <1>0 DEF CTypeOK
<1>1. CASE Tick
  <2>1. CTypeOK'
    BY <1>0, <1>1 DEF Tick, CTypeOK
  <2>2. HoldsRecent'
    BY <1>0, <1>1 DEF Tick, CTypeOK, HoldsRecent, ServedSince
  <2>3. cache'.expires <= clock' + TTL
    BY <1>0, <1>00, <1>1 DEF Tick
  <2>4. val' = val
    BY <1>1 DEF Tick
  <2> QED
    BY <1>000, <2>1, <2>2, <2>3, <2>4 DEF CacheInv
<1>2. CASE ExecutorStops
  BY <1>0, <1>2 DEF ExecutorStops, CacheInv, CTypeOK, HoldsRecent, ServedSince
<1>3. CASE ExecutorStarts
  <2>1. CASE UNCHANGED <<version, replaced>>
    BY <1>0, <1>3, <2>1 DEF ExecutorStarts, CacheInv, CTypeOK, HoldsRecent, ServedSince
  <2>2. CASE /\ version + 1 \in Versions
             /\ version' = version + 1
             /\ replaced' = [replaced EXCEPT ![version] = clock]
    <3>1. CTypeOK'
      BY <1>0, <1>3, <2>2 DEF ExecutorStarts, CTypeOK
    <3>2. (cache.webhooks # None => ServedSince(cache.webhooks, cache.expires - TTL))'
      <4>1. cache.expires - TTL \in Int /\ cache.expires - TTL <= clock
        BY <1>0, <1>00
      <4>2. cache' = cache
        BY <1>3 DEF ExecutorStarts
      <4>3. CASE cache.webhooks # None
        <5>1. cache.webhooks \in Versions
          BY <1>0, <4>3 DEF CTypeOK
        <5>2. ServedSince(cache.webhooks, cache.expires - TTL)
          BY <1>0, <4>3 DEF HoldsRecent
        <5>3. \/ cache.webhooks = version'
              \/ replaced'[cache.webhooks] >= cache.expires - TTL
          BY <1>0, <2>2, <4>1, <5>1, <5>2 DEF ServedSince, CTypeOK
        <5> QED
          BY <4>2, <5>3 DEF ServedSince
      <4> QED
        BY <4>2, <4>3
    <3>3. ASSUME NEW r \in Requests, val[r].got # None
          PROVE  ServedSince(val[r].got, IF val[r].pc = "fetching" THEN val[r].now
                                         ELSE val[r].now - TTL)'
      <4>1. val[r].now \in Nat /\ val[r].now <= clock /\ val[r].got \in Versions
        BY <1>0, <3>3 DEF CTypeOK, HoldsRecent
      <4>2. CASE val[r].pc = "fetching"
        <5>1. ServedSince(val[r].got, val[r].now)
          BY <1>0, <3>3, <4>2 DEF HoldsRecent
        <5>2. val[r].got = version' \/ replaced'[val[r].got] >= val[r].now
          BY <1>0, <2>2, <4>1, <5>1 DEF ServedSince, CTypeOK
        <5> QED
          BY <1>3, <4>2, <5>2 DEF ExecutorStarts, ServedSince
      <4>3. CASE val[r].pc # "fetching"
        <5>1. ServedSince(val[r].got, val[r].now - TTL)
          BY <1>0, <3>3, <4>3 DEF HoldsRecent
        <5>2. val[r].got = version' \/ replaced'[val[r].got] >= val[r].now - TTL
          BY <1>0, <1>00, <2>2, <4>1, <5>1 DEF ServedSince, CTypeOK
        <5> QED
          BY <1>3, <4>3, <5>2 DEF ExecutorStarts, ServedSince
      <4> QED
        BY <4>2, <4>3
    <3>4. HoldsRecent'
      BY <1>0, <1>3, <3>2, <3>3 DEF ExecutorStarts, HoldsRecent
    <3> QED
      BY <1>0, <1>3, <3>1, <3>4 DEF ExecutorStarts, CacheInv
  <2> QED
    BY <1>3, <2>1, <2>2 DEF ExecutorStarts
<1>4. ASSUME NEW r \in Requests, Malformed(r)
      PROVE  CacheInv'
  <2>1. PICK u \in Urls :
          /\ Steps(r, [pc |-> "refused", url |-> u, now |-> clock, got |-> None])
          /\ ParseWebhookName(u) = <<>>
    BY <1>4 DEF Malformed, Steps
  <2> DEFINE v == [pc |-> "refused", url |-> u, now |-> clock, got |-> None]
  <2>0. Reasoned(v)
    BY <2>1 DEF Reasoned
  <2>2. v \in ValType /\ Sound(v)
    BY <1>0, <2>0 DEF CTypeOK, ValType, Sound
  <2> QED
    BY <1>4, <2>1, <2>2, RequestStep DEF Malformed
<1>5. ASSUME NEW r \in Requests, Hit(r)
      PROVE  CacheInv'
  <2>1. PICK u \in Urls :
          Steps(r, [pc |-> Decision(u, cache.webhooks), url |-> u,
                    now |-> clock, got |-> cache.webhooks])
    BY <1>5 DEF Hit, Steps
  <2> DEFINE v == [pc |-> Decision(u, cache.webhooks), url |-> u,
                   now |-> clock, got |-> cache.webhooks]
  <2>2. Decision(u, cache.webhooks) \in {"accepted", "refused"}
    BY DEF Decision
  <2>3. cache.webhooks \in Versions /\ clock < cache.expires
    BY <1>0, <1>5 DEF Hit, Expired, CTypeOK
  <2>4. ServedSince(cache.webhooks, clock - TTL)
    <3>1. cache.expires - TTL \in Int /\ clock - TTL \in Int
          /\ clock - TTL <= cache.expires - TTL
      BY <1>00, <2>3
    <3>2. ServedSince(cache.webhooks, cache.expires - TTL)
      BY <1>0, <2>3, VersionFacts DEF HoldsRecent
    <3> QED
      BY <1>0, <2>3, <3>1, <3>2, ServedEarlier
  <2>5. v \in ValType
    BY <1>0, <2>2, <2>3 DEF CTypeOK, ValType
  <2>6. Sound(v)
    <3>1. Reasoned(v)
      BY <2>2, <2>3, VersionFacts DEF Reasoned, Decision
    <3>2. v.now = clock /\ v.got = cache.webhooks /\ v.pc # "fetching"
      BY <2>2
    <3> QED
      BY <1>00, <2>4, <3>1, <3>2 DEF Sound
  <2> QED
    BY <1>5, <2>1, <2>5, <2>6, RequestStep DEF Hit
<1>6. ASSUME NEW r \in Requests, Miss(r)
      PROVE  CacheInv'
  <2>1. PICK u \in Urls :
          Steps(r, [pc |-> "fetching", url |-> u, now |-> clock, got |-> None])
    BY <1>6 DEF Miss, Steps
  <2> DEFINE v == [pc |-> "fetching", url |-> u, now |-> clock, got |-> None]
  <2>0. Reasoned(v)
    BY DEF Reasoned
  <2>2. v \in ValType /\ Sound(v)
    BY <1>0, <2>0 DEF CTypeOK, ValType, Sound
  <2> QED
    BY <1>6, <2>1, <2>2, RequestStep DEF Miss
<1>7. ASSUME NEW r \in Requests, Serve(r)
      PROVE  CacheInv'
  <2> DEFINE v == [val[r] EXCEPT !.got = version]
  <2>1. Steps(r, v)
    BY <1>7 DEF Serve, Steps
  <2>2. v \in ValType
    BY <1>0 DEF CTypeOK, ValType
  <2>0. val[r] \in ValType /\ val[r].pc = "fetching"
    BY <1>0, <1>7 DEF CTypeOK, ValType, Serve
  <2>00. v.pc = "fetching" /\ v.url = val[r].url /\ v.now = val[r].now /\ v.got = version
    BY <2>0 DEF ValType
  <2>3. Sound(v)
    <3>1. Reasoned(v)
      BY <1>0, <2>0, <2>00 DEF Reasoned
    <3>2. v.now <= clock
      BY <1>0, <2>00 DEF HoldsRecent
    <3> QED
      BY <2>00, <3>1, <3>2 DEF Sound, ServedSince
  <2> QED
    BY <1>7, <2>1, <2>2, <2>3, RequestStep DEF Serve
<1>8. ASSUME NEW r \in Requests, FetchDone(r)
      PROVE  CacheInv'
  <2> DEFINE v == [val[r] EXCEPT !.pc = Decision(val[r].url, val[r].got)]
  <2>1. Steps(r, v)
    BY <1>8 DEF FetchDone, Steps
  <2>2. Decision(val[r].url, val[r].got) \in {"accepted", "refused"}
    BY DEF Decision
  <2>3. val[r].now \in Nat /\ val[r].now <= clock /\ val[r].got \in Versions
    BY <1>0, <1>8 DEF FetchDone, CTypeOK, HoldsRecent
  <2>4. ServedSince(val[r].got, val[r].now)
    BY <1>0, <1>8 DEF FetchDone, HoldsRecent
  <2>5. ServedSince(val[r].got, val[r].now - TTL)
    <3>1. val[r].now \in Int /\ val[r].now - TTL \in Int /\ val[r].now - TTL <= val[r].now
      BY <2>3
    <3> QED
      BY <1>0, <2>3, <2>4, <3>1, ServedEarlier
  <2>6. v \in ValType
    BY <1>0, <2>2 DEF CTypeOK, ValType
  <2>7. Sound(v)
    <3>1. val[r] \in ValType
      BY <1>0 DEF CTypeOK, ValType
    <3>2. v.now = val[r].now /\ v.got = val[r].got /\ v.pc \in {"accepted", "refused"}
          /\ v.url = val[r].url /\ v.pc = Decision(val[r].url, val[r].got)
      BY <2>2, <3>1 DEF ValType
    <3>3. val[r].url \in Urls
      BY <1>0, <1>8 DEF FetchDone, Reasoned
    <3>4. Reasoned(v)
      BY <2>3, <3>2, <3>3, VersionFacts DEF Reasoned, Decision
    <3> QED
      BY <2>3, <2>5, <3>2, <3>4 DEF Sound
  <2>8. /\ cache' \in [webhooks : Versions, expires : Nat]
        /\ ServedSince(cache'.webhooks, cache'.expires - TTL)
        /\ cache'.expires <= clock + TTL
    <3>1. cache' = [webhooks |-> val[r].got, expires |-> val[r].now + TTL]
      BY <1>8 DEF FetchDone, Expiry
    <3>2. val[r].now + TTL - TTL = val[r].now /\ val[r].now + TTL \in Nat
      BY <2>3
    <3> QED
      BY <1>00, <2>3, <2>4, <3>1, <3>2
  <2> QED
    BY <1>8, <2>1, <2>6, <2>7, <2>8, RequestStep DEF FetchDone
<1>9. ASSUME NEW r \in Requests, FetchFails(r) \/ Proceed(r)
      PROVE  CacheInv'
  <2>1. Steps(r, Idle)
    BY <1>9 DEF FetchFails, Proceed, Steps
  <2>2. Idle \in ValType /\ Sound(Idle)
    BY <1>0 DEF CTypeOK, ValType, Sound, Idle, Reasoned
  <2> QED
    BY <1>9, <2>1, <2>2, RequestStep DEF FetchFails, Proceed
<1>10. CASE UNCHANGED cvars
  BY <1>0, <1>10 DEF cvars, CacheInv, CTypeOK, HoldsRecent, ServedSince
<1> QED
  BY <1>1, <1>2, <1>3, <1>4, <1>5, <1>6, <1>7, <1>8, <1>9, <1>10 DEF CNext

(* Nobody ever holds a registry that is older than it may be.               *)
THEOREM CacheInvariant == CSpec => []CacheInv
  BY CacheInit, CacheStep, PTL DEF CSpec

(* A request is judged by a registry that was still served at most TTL before
   it came, however fetches overlap and whatever the executor does.         *)
THEOREM DecisionsAreRecent == CSpec => []DecisionIsRecent
<1>1. CacheInv => DecisionIsRecent
  BY DEF CacheInv, HoldsRecent, ServedSince, DecisionIsRecent, Judged
<1> QED
  BY <1>1, CacheInvariant, PTL

(* The path of a URL is a sequence.                                         *)
LEMMA PathsAreSequences ==
  ASSUME NEW u \in Urls, Under(u)
  PROVE  Tail(u) \in Seq(ToSet(u)) /\ \A i \in DOMAIN Tail(u) : Tail(u)[i] \in ToSet(u)
<1>1. u \in Seq(ToSet(u)) /\ u # <<>>
  BY UrlsAssumption DEF Under
<1> QED
  BY <1>1

(* What runs is what was validated, whatever registry the executor has by then. *)
THEOREM RunsTheValidatedName == CSpec => []RunsWhatWasValidated
<1>1. CacheInv => RunsWhatWasValidated
  <2> SUFFICES ASSUME CacheInv, NEW r \in Requests, val[r].pc = "accepted"
               PROVE  LET path == Before(Tail(val[r].url), {Query})
                      IN  \E i \in DOMAIN path :
                            /\ path[i] \in WEBHOOKS[val[r].got]
                            /\ \A j \in DOMAIN path \ {i} : path[j] = Slash
                            /\ \A v \in Versions : Runs(val[r].url, WEBHOOKS[v]) \subseteq {path[i]}
    BY DEF RunsWhatWasValidated
  <2> DEFINE u == val[r].url
             path == Before(Tail(u), {Query})
  <2>1. u \in Urls /\ Allowed(u, WEBHOOKS[val[r].got])
    BY DEF CacheInv, Reasoned
  <2>2. PICK n \in WEBHOOKS[val[r].got] : ParseWebhookName(u) = <<n>>
    BY <2>1 DEF Allowed
  <2>3. Under(u) /\ Strip(path) = <<n>>
    <3>1. <<n>> # <<>>
      OBVIOUS
    <3> QED
      BY <2>2, <3>1 DEF ParseWebhookName
  <2>4. Tail(u) \in Seq(ToSet(u))
    BY <2>1, <2>3, PathsAreSequences
  <2>5. path \in Seq(ToSet(u))
    <3>1. PICK k \in 0 .. Len(Tail(u)) : path = SubSeq(Tail(u), 1, k)
      BY <2>4, BeforeFacts
    <3> HIDE DEF path, u
    <3> QED
      BY <2>4, <3>1, CutFacts
  <2>6. PICK i \in DOMAIN path : path[i] = n /\ \A j \in DOMAIN path \ {i} : path[j] = Slash
    <3> HIDE DEF path
    <3> QED
      BY <2>3, <2>5, NameAmongSlashes
  <2>7. ASSUME NEW v \in Versions, NEW m \in Runs(u, WEBHOOKS[v])
        PROVE  m = path[i]
    <3> DEFINE rest == Before(Tail(u), {Query, Fragment})
    <3>1. m \in WEBHOOKS[v] /\ Decoded(Normal(<<Webhooks, Slash>> \o rest)) = <<Webhooks, Slash, m>>
      BY <2>7 DEF Runs
    <3>2. m # Slash
      BY <3>1, UrlsAssumption
    <3>3. rest \in Seq(ToSet(u)) /\ \A j \in DOMAIN rest : rest[j] \in {Slash, n}
      <4> HIDE DEF path
      <4>1. \A j \in DOMAIN path : path[j] \in {Slash, n}
        BY <2>6, Zenon
      <4>2. \A j \in DOMAIN rest : j \in DOMAIN path /\ rest[j] = path[j]
        BY <2>4, ShorterCut DEF path
      <4>3. rest \in Seq(ToSet(u))
        <5>1. PICK k \in 0 .. Len(Tail(u)) : rest = SubSeq(Tail(u), 1, k)
          BY <2>4, BeforeFacts
        <5> HIDE DEF rest, u
        <5> QED
          BY <2>4, <5>1, CutFacts
      <4> HIDE DEF rest
      <4> QED
        BY <4>1, <4>2, <4>3, Zenon
    <3>4. n \notin {Dot, DotDot} /\ Slash \notin {Dot, DotDot}
          /\ n \notin DOMAIN Decodes /\ Slash \notin DOMAIN Decodes
      <4>1. val[r].got \in Versions
        BY DEF CacheInv, CTypeOK, Reasoned
      <4> QED
        BY <2>2, <4>1, UrlsAssumption
    <3>5. rest = <<m>>
      <4> HIDE DEF rest
      <4>1. \A j \in DOMAIN rest : rest[j] \notin {Dot, DotDot} /\ rest[j] \notin DOMAIN Decodes
        BY <3>3, <3>4, Zenon
      <4> QED
        BY <3>1, <3>3, <4>1, AsItIs
    <3> QED
      BY <2>4, <2>6, <3>2, <3>5, RunsItsName
  <2> QED
    BY <2>2, <2>6, <2>7
<1> QED
  BY <1>1, CacheInvariant, PTL

(* No URL in the scheduler's own spelling is refused that would run.        *)
THEOREM RunnableUrlsAreAccepted == CSpec => []RunnableIsAccepted
<1>1. CacheInv => RunnableIsAccepted
  <2> SUFFICES ASSUME CacheInv, NEW r \in Requests, val[r].pc = "refused",
                      NEW v \in IF Judged(r) THEN {val[r].got} ELSE Versions,
                      Plain(val[r].url), NEW n \in Runs(val[r].url, WEBHOOKS[v])
               PROVE  FALSE
    BY DEF RunnableIsAccepted
  <2> DEFINE u == val[r].url
             s == Tail(u)
             path == Before(s, {Query})
  <2>1. /\ u \in Urls
        /\ IF val[r].got = None THEN ParseWebhookName(u) = <<>>
           ELSE ~Allowed(u, WEBHOOKS[val[r].got])
    BY DEF CacheInv, Reasoned
  <2>2. v \in Versions /\ (val[r].got # None => v = val[r].got)
    BY DEF Judged, CacheInv, CTypeOK
  <2>3. /\ n \in WEBHOOKS[v] /\ Under(u)
        /\ Decoded(Normal(<<Webhooks, Slash>> \o Before(s, {Query, Fragment})))
             = <<Webhooks, Slash, n>>
    BY DEF Runs, Plain
  <2>4. s \in Seq(ToSet(u))
    BY <2>1, <2>3, PathsAreSequences
  <2>5. \A i \in DOMAIN path : /\ path[i] \notin {Dot, DotDot} /\ path[i] \notin DOMAIN Decodes
                               /\ path[i] # Fragment
    BY Zenon DEF Plain, Dotless
  <2>6. Before(s, {Query, Fragment}) = path
    <3> HIDE DEF s
    <3> QED
      BY <2>4, <2>5, SameCut
  <2>7. path = <<n>>
    <3>1. PICK k \in 0 .. Len(s) : path = SubSeq(s, 1, k)
      <4> HIDE DEF s
      <4> QED
        BY <2>4, BeforeFacts
    <3> HIDE DEF s, path
    <3>2. path \in Seq(ToSet(u))
      BY <2>4, <3>1, CutFacts
    <3> QED
      BY <2>3, <2>5, <2>6, <3>2, AsItIs
  <2>8. ParseWebhookName(u) = <<n>>
    <3>1. n # Slash
      BY <2>2, <2>3, UrlsAssumption
    <3> QED
      BY <2>3, <2>7, <3>1, NameAlone DEF ParseWebhookName
  <2>9. <<n>> # <<>>
    OBVIOUS
  <2> QED
    BY <2>1, <2>2, <2>3, <2>8, <2>9 DEF Allowed
<1> QED
  BY <1>1, CacheInvariant, PTL
===============================================================================
