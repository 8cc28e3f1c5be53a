---------------------------- MODULE Restart_proofs ----------------------------
(***************************************************************************)
(* Proofs about Restart, for any number of restarts and dumps, any options *)
(* and whatever calls on files fail.                                       *)
(***************************************************************************)
EXTENDS Restart, AddrDb_proofs, FunctionTheorems, WellFoundedInduction

-----------------------------------------------------------------------------
(* Enumerations, concatenations and walks.                                 *)

(* Sets of numbers have an increasing enumeration: the k-th member is the  *)
(* one with k members up to it.                                            *)
LEMMA Enumerable ==
  ASSUME NEW S \in SUBSET Nat, IsFiniteSet(S)
  PROVE  \E q \in [1..Cardinality(S) -> S] :
           \A i, j \in 1..Cardinality(S) : i < j => q[i] < q[j]
<1> DEFINE n == Cardinality(S)
           upTo(x) == {y \in S : y <= x}
           rank == [x \in S |-> Cardinality(upTo(x))]
<1>1. n \in Nat
  BY FS_CardinalityType
<1>2. ASSUME NEW x \in S
      PROVE  rank[x] \in 1..n
  <2>1. upTo(x) \in SUBSET S /\ x \in upTo(x)
    OBVIOUS
  <2>2. IsFiniteSet(upTo(x)) /\ Cardinality(upTo(x)) <= n
    BY <2>1, FS_Subset
  <2>3. Cardinality(upTo(x)) \in Nat /\ Cardinality(upTo(x)) # 0
    BY <2>1, <2>2, FS_CardinalityType, FS_EmptySet
  <2>4. rank[x] = Cardinality(upTo(x))
    OBVIOUS
  <2> HIDE DEF upTo, rank
  <2> QED
    BY <1>1, <2>2, <2>3, <2>4
<1>3. ASSUME NEW x \in S, NEW y \in S, x < y
      PROVE  rank[x] < rank[y]
  <2>1. upTo(x) \in SUBSET upTo(y) /\ y \in upTo(y) /\ y \notin upTo(x)
    <3>1. x \in Nat /\ y \in Nat /\ \A z \in S : z \in Nat
      OBVIOUS
    <3>2. \A z \in S : z <= x => z <= y
      BY <1>3, <3>1
    <3>3. y <= y /\ ~(y <= x)
      BY <1>3, <3>1
    <3> QED
      BY <3>2, <3>3
  <2>2. upTo(y) \in SUBSET S
    OBVIOUS
  <2>3. IsFiniteSet(upTo(y))
    BY <2>2, FS_Subset
  <2>4. /\ Cardinality(upTo(x)) <= Cardinality(upTo(y))
        /\ Cardinality(upTo(x)) # Cardinality(upTo(y))
    BY <2>1, <2>3, FS_Subset
  <2>5. rank[x] = Cardinality(upTo(x)) /\ rank[y] = Cardinality(upTo(y))
    OBVIOUS
  <2>6. rank[x] \in 1..n /\ rank[y] \in 1..n
    BY <1>2
  <2> HIDE DEF upTo, rank
  <2> QED
    BY <1>1, <2>4, <2>5, <2>6
<1>4. rank \in [S -> 1..n]
  <2>1. rank = [x \in S |-> rank[x]]
    OBVIOUS
  <2> HIDE DEF rank
  <2> QED
    BY <1>2, <2>1
<1> HIDE DEF rank, upTo
<1>5. rank \in Injection(S, 1..n)
  <2>1. ASSUME NEW x \in S, NEW y \in S, rank[x] = rank[y]
        PROVE  x = y
    <3>1. x \in Nat /\ y \in Nat /\ rank[x] \in 1..n /\ rank[y] \in 1..n
      BY <1>2
    <3>2. ~(x < y) /\ ~(y < x)
      BY <1>3, <2>1, <3>1
    <3> QED
      BY <3>1, <3>2
  <2> QED
    BY <1>4, <2>1, Fun_IsInj
<1>6. IsFiniteSet(1..n) /\ Cardinality(1..n) = n
  BY <1>1, FS_Interval
<1>7. rank \in Surjection(S, 1..n)
  BY <1>5, <1>6, FS_Injection
<1> DEFINE q == [k \in 1..n |-> CHOOSE x \in S : rank[x] = k]
<1>8. \A k \in 1..n : q[k] \in S /\ rank[q[k]] = k
  <2>1. \A k \in 1..n : \E x \in S : rank[x] = k
    BY <1>7, Fun_SurjectionProperties
  <2> QED
    BY <2>1
<1>9. q \in [1..n -> S]
  BY <1>8
<1>10. ASSUME NEW i \in 1..n, NEW j \in 1..n, i < j
       PROVE  q[i] < q[j]
  <2> HIDE DEF q
  <2>1. q[i] \in S /\ q[j] \in S /\ rank[q[i]] = i /\ rank[q[j]] = j
    BY <1>8
  <2>2. q[i] # q[j] /\ ~(q[j] < q[i])
    <3>1. q[i] # q[j]
      BY <1>1, <1>10, <2>1
    <3>2. ASSUME q[j] < q[i] PROVE FALSE
      <4>1. rank[q[j]] < rank[q[i]]
        BY <1>3, <2>1, <3>2
      <4> QED
        BY <1>1, <1>10, <2>1, <4>1
    <3> QED
      BY <3>1, <3>2
  <2>3. q[i] \in Nat /\ q[j] \in Nat
    BY <2>1
  <2> QED
    BY <2>2, <2>3
<1> QED
  BY <1>9, <1>10

(* Ascending enumerates a finite set of numbers: each member once, in      *)
(* increasing order.                                                       *)
LEMMA Enumerated ==
  ASSUME NEW S \in SUBSET Nat, IsFiniteSet(S)
  PROVE  /\ Ascending(S) \in Seq(S) /\ Len(Ascending(S)) = Cardinality(S)
         /\ Range(Ascending(S)) = S /\ NoRepeat(Ascending(S))
         /\ \A i, j \in DOMAIN Ascending(S) : i < j => Ascending(S)[i] < Ascending(S)[j]
<1> DEFINE n == Cardinality(S)
           q == Ascending(S)
<1>1. n \in Nat
  BY FS_CardinalityType
<1>2. q \in [1..n -> S] /\ \A i, j \in 1..n : i < j => q[i] < q[j]
  BY Enumerable DEF Ascending
<1> HIDE DEF q
<1>3. q \in Seq(S) /\ Len(q) = n /\ DOMAIN q = 1..n
  BY <1>1, <1>2
<1>4. \A i, j \in 1..n : q[i] = q[j] => i = j
  <2>1. SUFFICES ASSUME NEW i \in 1..n, NEW j \in 1..n, q[i] = q[j] PROVE i = j
    OBVIOUS
  <2>2. q[i] \in Nat /\ q[j] \in Nat
    BY <1>2
  <2>3. ~(i < j) /\ ~(j < i)
    BY <1>2, <2>1, <2>2
  <2> QED
    BY <1>1, <2>3
<1>5. q \in Injection(1..n, S)
  BY <1>2, <1>4, Fun_IsInj
<1>6. IsFiniteSet(1..n) /\ Cardinality(1..n) = n
  BY <1>1, FS_Interval
<1>7. q \in Surjection(1..n, S)
  BY <1>5, <1>6, FS_Injection
<1>8. Range(q) = S
  BY <1>7, Fun_SurjectionProperties
<1> QED
  BY <1>2, <1>3, <1>4, <1>8 DEF q, NoRepeat

(* What a concatenation holds.                                             *)
LEMMA Joined ==
  ASSUME NEW S, NEW p \in Seq(S), NEW q \in Seq(S)
  PROVE  p \o q \in Seq(S) /\ Range(p \o q) = Range(p) \cup Range(q)
<1>1. /\ p \o q \in Seq(S) /\ Len(p) \in Nat /\ Len(q) \in Nat
      /\ DOMAIN p = 1..Len(p) /\ DOMAIN q = 1..Len(q)
      /\ DOMAIN (p \o q) = 1..(Len(p) + Len(q))
      /\ \A i \in 1..Len(p) : (p \o q)[i] = p[i]
      /\ \A i \in 1..Len(q) : (p \o q)[Len(p) + i] = q[i]
  OBVIOUS
<1>2. Range(p \o q) \subseteq Range(p) \cup Range(q)
  <2>1. SUFFICES ASSUME NEW i \in 1..(Len(p) + Len(q))
                 PROVE  (p \o q)[i] \in Range(p) \cup Range(q)
    BY <1>1 DEF Range
  <2>2. CASE i <= Len(p)
    BY <1>1, <2>2 DEF Range
  <2>3. CASE i > Len(p)
    <3>1. i - Len(p) \in 1..Len(q) /\ (p \o q)[i] = q[i - Len(p)]
      <4>1. i - Len(p) \in 1..Len(q) /\ Len(p) + (i - Len(p)) = i
        BY <1>1, <2>3
      <4> QED
        BY <1>1, <4>1
    <3> QED
      BY <1>1, <3>1 DEF Range
  <2> QED
    BY <1>1, <2>2, <2>3
<1>3. Range(p) \cup Range(q) \subseteq Range(p \o q)
  <2>1. \A i \in 1..Len(p) : i \in DOMAIN (p \o q)
    BY <1>1
  <2>2. \A i \in 1..Len(q) : Len(p) + i \in DOMAIN (p \o q)
    BY <1>1
  <2> QED
    BY <1>1, <2>1, <2>2 DEF Range
<1> QED
  BY <1>1, <1>2, <1>3

(* A walk visits exactly the wanted ids of the containers, each once.      *)
LEMMA Walked ==
  ASSUME NEW S, NEW q \in Seq(S), NEW wanted
  PROVE  /\ Walk(q, wanted) \in Seq(S)
         /\ Range(Walk(q, wanted)) = Range(q) \cap wanted
         /\ NoRepeat(Walk(q, wanted))
<1> DEFINE first(i) == q[i] \in wanted /\ \A j \in 1..i-1 : q[j] # q[i]
           F == {i \in DOMAIN q : first(i)}
           at == Ascending(F)
           w == [k \in DOMAIN at |-> q[at[k]]]
<1>1. DOMAIN q = 1..Len(q) /\ Len(q) \in Nat /\ \A i \in 1..Len(q) : q[i] \in S
  OBVIOUS
<1>2. F \in SUBSET (1..Len(q)) /\ F \in SUBSET Nat
  BY <1>1
<1>3. IsFiniteSet(F)
  <2>1. IsFiniteSet(1..Len(q))
    BY <1>1, FS_Interval
  <2> QED
    BY <1>2, <2>1, FS_Subset
<1>4. /\ at \in Seq(F) /\ Range(at) = F /\ NoRepeat(at)
      /\ Len(at) \in Nat /\ DOMAIN at = 1..Len(at)
  <2> HIDE DEF F
  <2> QED
    BY <1>2, <1>3, Enumerated
<1>5. Walk(q, wanted) = w
  BY DEF Walk
<1>6. \A k \in DOMAIN at : at[k] \in F
  BY <1>4 DEF Range
<1>7. w \in Seq(S) /\ DOMAIN w = DOMAIN at
  <2> HIDE DEF at
  <2>1. \A k \in DOMAIN at : q[at[k]] \in S
    BY <1>1, <1>6
  <2> QED
    BY <1>4, <2>1
<1>8. \A i, j \in F : q[i] = q[j] => i = j
  <2>1. SUFFICES ASSUME NEW i \in F, NEW j \in F, q[i] = q[j] PROVE i = j
    OBVIOUS
  <2>2. i \in 1..Len(q) /\ j \in 1..Len(q)
    BY <1>1
  <2>3. ~(i < j)
    BY <2>1, <2>2
  <2>4. ~(j < i)
    BY <2>1, <2>2
  <2> QED
    BY <1>1, <2>2, <2>3, <2>4
<1>9. NoRepeat(w)
  <2> HIDE DEF F, at
  <2>1. SUFFICES ASSUME NEW k \in DOMAIN at, NEW l \in DOMAIN at, w[k] = w[l] PROVE k = l
    BY <1>7 DEF NoRepeat
  <2>2. at[k] \in F /\ at[l] \in F /\ q[at[k]] = q[at[l]]
    BY <1>6, <2>1
  <2> QED
    BY <1>4, <1>8, <2>2 DEF NoRepeat
<1>10. Range(w) \subseteq Range(q) \cap wanted
  <2>1. \A i \in F : q[i] \in Range(q) \cap wanted
    BY DEF Range
  <2> HIDE DEF F, at
  <2> QED
    BY <1>6, <1>7, <2>1 DEF Range
<1>11. ASSUME NEW x \in Range(q) \cap wanted
       PROVE  x \in Range(w)
  <2> DEFINE Places == {i \in 1..Len(q) : q[i] = x}
  <2>1. Places \subseteq Nat /\ Places # {}
    BY <1>1, <1>11 DEF Range
  <2>2. PICK i \in Places : \A j \in Places : ~(<<j, i>> \in OpToRel(<, Nat))
    BY <2>1, WFMin, NatLessThanWellFounded
  <2>3. \A j \in Places : ~(j < i)
    BY <2>1, <2>2 DEF OpToRel
  <2>4. i \in F
    BY <1>1, <1>11, <2>3
  <2>5. PICK k \in DOMAIN at : at[k] = i
    <3> HIDE DEF F, at
    <3> QED
      BY <1>4, <2>4 DEF Range
  <2>6. w[k] = x
    BY <2>5
  <2> HIDE DEF w
  <2> QED
    BY <1>7, <2>6 DEF Range
<1> QED
  BY <1>5, <1>7, <1>9, <1>10, <1>11
(* A set that holds 1 to m is enumerated from 1 to m first.                *)
LEMMA EnumeratedFrom1 ==
  ASSUME NEW S \in SUBSET (Nat \ {0}), IsFiniteSet(S), NEW m \in Nat, 1..m \subseteq S
  PROVE  \A k \in 1..m : k \in DOMAIN Ascending(S) /\ Ascending(S)[k] = k
<1> DEFINE at == Ascending(S)
<1>1. /\ at \in Seq(S) /\ Len(at) = Cardinality(S) /\ Range(at) = S
      /\ \A i, j \in DOMAIN at : i < j => at[i] < at[j]
  BY Enumerated
<1>2. m <= Cardinality(S) /\ Cardinality(S) \in Nat
  <2>1. Cardinality(1..m) = m
    BY FS_Interval
  <2> QED
    BY <2>1, FS_Subset, FS_CardinalityType
<1> HIDE DEF at
<1>3. DOMAIN at = 1..Len(at) /\ 1..m \subseteq DOMAIN at
  BY <1>1, <1>2
<1> DEFINE Off == {k \in 1..m : at[k] # k}
<1>4. SUFFICES ASSUME Off # {} PROVE FALSE
  BY <1>3 DEF at
<1>5. PICK k \in Off : \A j \in Off : ~(<<j, k>> \in OpToRel(<, Nat))
  BY <1>4, WFMin, NatLessThanWellFounded
<1>6. k \in 1..m /\ at[k] # k /\ \A j \in 1..k - 1 : at[j] = j
  <2>1. k \in 1..m /\ at[k] # k
    BY <1>5
  <2>2. SUFFICES ASSUME NEW j \in 1..k - 1 PROVE at[j] = j
    BY <2>1
  <2>3. j \in 1..m /\ <<j, k>> \in OpToRel(<, Nat)
    BY <2>1, <2>2 DEF OpToRel
  <2> QED
    BY <1>5, <2>3
<1>7. at[k] \in Nat \ {0} /\ k \in DOMAIN at
  <2>1. k \in DOMAIN at
    BY <1>3, <1>6
  <2>2. at[k] \in S
    BY <1>1, <2>1 DEF Range
  <2> QED
    BY <2>1, <2>2
<1>8. at[k] > k
  <2>1. \A j \in 1..k - 1 : at[k] # j
    <3>1. SUFFICES ASSUME NEW j \in 1..k - 1 PROVE at[k] # j
      OBVIOUS
    <3>2. j \in DOMAIN at /\ at[j] = j /\ at[j] < at[k]
      BY <1>1, <1>3, <1>6
    <3> QED
      BY <1>7, <3>2
  <2> QED
    BY <1>6, <1>7, <2>1
<1>9. PICK l \in DOMAIN at : at[l] = k
  BY <1>1, <1>6 DEF Range
<1>10. l \in Nat /\ l >= 1
  BY <1>3, <1>9
<1>11. CASE l < k
  BY <1>6, <1>9, <1>10, <1>11
<1>12. CASE l = k
  BY <1>6, <1>9, <1>12
<1>13. CASE l > k
  <2>1. at[k] < at[l]
    BY <1>1, <1>7, <1>13
  <2> QED
    BY <1>6, <1>7, <1>8, <1>9, <2>1
<1> QED
  BY <1>6, <1>10, <1>11, <1>12, <1>13

(* A walk begins with the first container, if every id there is wanted and *)
(* none is there twice.                                                    *)
LEMMA WalkedFirst ==
  ASSUME NEW S, NEW p \in Seq(S), NEW q \in Seq(S), NEW wanted,
         NoRepeat(p), Range(p) \subseteq wanted,
         Len(p) <= Len(q), \A i \in 1..Len(p) : q[i] = p[i]
  PROVE  \A k \in DOMAIN p : k \in DOMAIN Walk(q, wanted) /\ Walk(q, wanted)[k] = p[k]
<1> DEFINE first(i) == q[i] \in wanted /\ \A j \in 1..i-1 : q[j] # q[i]
           F == {i \in DOMAIN q : first(i)}
           at == Ascending(F)
           w == [k \in DOMAIN at |-> q[at[k]]]
<1>1. /\ Len(p) \in Nat /\ DOMAIN p = 1..Len(p) /\ Len(q) \in Nat /\ DOMAIN q = 1..Len(q)
      /\ 1..Len(p) \subseteq 1..Len(q) /\ \A i \in 1..Len(p) : q[i] = p[i]
  OBVIOUS
<1>2. Walk(q, wanted) = w
  BY DEF Walk
<1>3. F \in SUBSET (Nat \ {0}) /\ IsFiniteSet(F)
  <2>1. F \in SUBSET (1..Len(q)) /\ IsFiniteSet(1..Len(q))
    BY <1>1, FS_Interval
  <2>2. IsFiniteSet(F)
    BY <2>1, FS_Subset
  <2>3. 1..Len(q) \subseteq Nat \ {0}
    BY <1>1
  <2> HIDE DEF F
  <2> QED
    BY <2>1, <2>2, <2>3
<1>4. 1..Len(p) \subseteq F
  <2>1. SUFFICES ASSUME NEW i \in 1..Len(p) PROVE i \in F
    OBVIOUS
  <2>2. q[i] \in wanted
    BY <1>1 DEF Range
  <2>3. \A j \in 1..i-1 : q[j] # q[i]
    <3>1. SUFFICES ASSUME NEW j \in 1..i-1 PROVE p[j] # p[i] /\ j \in 1..Len(p)
      BY <1>1
    <3>2. j \in 1..Len(p) /\ j # i
      BY <1>1
    <3> QED
      BY <1>1, <3>2 DEF NoRepeat
  <2> QED
    BY <1>1, <2>2, <2>3
<1> HIDE DEF F
<1>5. \A k \in 1..Len(p) : k \in DOMAIN at /\ at[k] = k
  BY <1>1, <1>3, <1>4, EnumeratedFrom1
<1> HIDE DEF at
<1>6. \A k \in 1..Len(p) : k \in DOMAIN w /\ w[k] = p[k]
  BY <1>1, <1>5
<1> QED
  BY <1>1, <1>2, <1>6

-----------------------------------------------------------------------------
(* Records, lists of records and files.                                    *)

(* A record's history counts a test once anything of it is set, and the    *)
(* averages call no node reliable that never answered.                     *)
Seasoned(i) ==
  /\ i.success > 0 => i.ourLastTry # 0
  /\ i.ourLastTry # 0 \/ i.ignoreTill # 0 => i.total > 0
  /\ i.reliable => i.success > 0

RecordsSeasoned == \A x \in DOMAIN idToInfo : Seasoned(idToInfo[x])

(* The records a file can hold.                                            *)
Saved == {i \in Info : /\ i.ip \in Addr /\ Seasoned(i)
                       /\ i.ourLastTry = 0 => i.ignoreTill = 0}

IpsOf(infos) == {i.ip : i \in Range(infos)}

OnePerIp(infos) == \A j, k \in DOMAIN infos : infos[j].ip = infos[k].ip => j = k

Listed(file) == IpsOf(file.infos) \cup DOMAIN file.banned

FileOK(file) ==
  /\ file = [infos |-> file.infos, banned |-> file.banned, torn |-> file.torn]
  /\ file.infos \in Seq(Saved) /\ Len(file.infos) <= MaxId
  /\ OnePerIp(file.infos)
  /\ file.banned \in [DOMAIN file.banned -> Nat] /\ DOMAIN file.banned \subseteq Addr
  /\ IpsOf(file.infos) \cap DOMAIN file.banned = {}
  /\ file.torn \in BOOLEAN

(* As many positions as members: what a list without repetitions counts.   *)
LEMMA Counted ==
  ASSUME NEW S, IsFiniteSet(S), NEW n \in Nat, NEW f \in [1..n -> S],
         \A i, j \in 1..n : f[i] = f[j] => i = j,
         \A s \in S : \E i \in 1..n : f[i] = s
  PROVE  Cardinality(S) = n
<1>1. f \in Injection(1..n, S)
  BY Fun_IsInj
<1>2. f \in Surjection(1..n, S)
  BY Fun_IsSurj
<1>3. Cardinality(1..n) = n
  BY FS_Interval
<1> QED
  BY <1>1, <1>2, <1>3, FS_Injection

(* Update leaves a record seasoned.                                        *)
LEMMA UpdatedSeasoned ==
  ASSUME NEW i \in Info, NEW good \in BOOLEAN, NEW v \in Verdicts, now \in Nat \ {0},
         v \in VerdictsAfter(Update(i, good, v).total, Update(i, good, v).success)
  PROVE  Seasoned(Update(i, good, v))
<1> DEFINE t == Tested(i, good)
           j == Judged(t, v)
           n == IF good THEN Count(i.success) ELSE i.success
<1>1. Count(i.total) \in 0..MaxTotal /\ Count(i.total) > 0 /\ n \in 0..MaxTotal
  BY NumberAssumption DEF Count, Info
<1>2. t = [i EXCEPT !.ourLastTry = now, !.total = Count(i.total), !.success = n]
  BY DEF Tested, Info
<1> HIDE DEF n, t
<1>3. t.total = Count(i.total) /\ t.success = n /\ t \in Info
  BY <1>1, <1>2 DEF Info
<1>4. j.total = t.total /\ j.success = t.success /\ j.reliable = v.reliable /\ j \in Info
  BY <1>3, DataAssumption DEF Judged, Info, Levels
<1> HIDE DEF j
<1>5. GetIgnoreTime(j) \in Nat
  BY NumberAssumption DEF GetIgnoreTime
<1>6. /\ Ignored(j).total = j.total /\ Ignored(j).success = j.success
      /\ Ignored(j).reliable = j.reliable
  BY <1>4, <1>5 DEF Ignored, Info
<1>7. Update(i, good, v) = Ignored(j)
  BY DEF Update, j, t
<1>8. v.reliable => Update(i, good, v).success > 0
  BY DEF VerdictsAfter
<1>9. Update(i, good, v).total > 0
  BY <1>1, <1>3, <1>4, <1>6, <1>7
<1>10. Update(i, good, v).reliable = v.reliable
  BY <1>4, <1>6, <1>7
<1>11. Update(i, good, v).ourLastTry # 0
  BY Updated
<1> QED
  BY <1>8, <1>9, <1>10, <1>11 DEF Seasoned

LEMMA BlankSeasoned ==
  ASSUME NEW a \in Addr \cup {NoAddr}, NEW services \in SUBSET Flags
  PROVE  Seasoned(NewInfo(a, services))
  BY DEF Seasoned, NewInfo

-----------------------------------------------------------------------------
(* What the running threads do to records, and to the addresses the        *)
(* database knows or has banned.                                           *)

Remembered == Known \cup DOMAIN banned

Kept == RecordsSeasoned' /\ Remembered \subseteq Remembered'

(* The counter of ids and the clock.                                       *)
LEMMA Numbers ==
  ASSUME IInv
  PROVE  nId \in Nat /\ nId <= MaxId /\ MaxId \in Nat /\ now \in Nat \ {0}
<1>1. nId \in 0..MaxId /\ now \in Nat \ {0}
  BY DEF IInv, TypeOK
<1>2. MaxId \in Nat
  BY NumberAssumption
<1> QED
  BY <1>1, <1>2

LEMMA Ids ==
  ASSUME IInv
  PROVE  /\ ourId \in Seq(0..nId - 1) /\ unkId \subseteq 0..nId - 1
         /\ goodId \subseteq 0..nId - 1
  BY DEF IInv, TypeOK

LEMMA KeptUnchanged ==
  ASSUME RecordsSeasoned, UNCHANGED <<idToInfo, ipToId, banned>>
  PROVE  Kept
  BY DEF Kept, RecordsSeasoned, Remembered, Known

(* A record replaced by a seasoned one.                                    *)
LEMMA SeasonedExcept ==
  ASSUME RecordsSeasoned, NEW id, NEW r, Seasoned(r), idToInfo' = [idToInfo EXCEPT ![id] = r]
  PROVE  RecordsSeasoned'
<1>1. /\ DOMAIN idToInfo' = DOMAIN idToInfo
      /\ \A x \in DOMAIN idToInfo : idToInfo'[x] = IF x = id THEN r ELSE idToInfo[x]
  OBVIOUS
<1> QED
  BY <1>1 DEF RecordsSeasoned

LEMMA SeasonedPut ==
  ASSUME RecordsSeasoned, NEW id, NEW r, Seasoned(r), idToInfo' = Put(idToInfo, id, r)
  PROVE  RecordsSeasoned'
<1>1. /\ DOMAIN idToInfo' = DOMAIN idToInfo \cup {id}
      /\ \A x \in DOMAIN idToInfo' : idToInfo'[x] = IF x = id THEN r ELSE idToInfo[x]
  BY DEF Put
<1> QED
  BY <1>1 DEF RecordsSeasoned

(* Get_ postpones only nodes it was told to ignore, which were tested.     *)
LEMMA OfferKept ==
  ASSUME IInv, RecordsSeasoned, NEW c \in Crawler, NEW id \in KnownIds, NEW rest,
         Offer(c, id, rest), UNCHANGED <<ipToId, banned>>
  PROVE  Kept
<1>1. Remembered' = Remembered
  BY DEF Remembered, Known
<1>2. id \in DOMAIN idToInfo /\ idToInfo[id] \in Info /\ now \in Nat \ {0}
  BY Correspond DEF IInv, TypeOK
<1>3. CASE UNCHANGED idToInfo
  BY <1>3, KeptUnchanged
<1>4. CASE ~UNCHANGED idToInfo
  <2> DEFINE r == [idToInfo[id] EXCEPT !.ourLastTry = now]
  <2>1. idToInfo[id].ignoreTill # 0 /\ idToInfo' = [idToInfo EXCEPT ![id] = r]
    BY <1>4 DEF Offer
  <2>2. Seasoned(r)
    <3>1. r.total = idToInfo[id].total /\ r.reliable = idToInfo[id].reliable
          /\ r.success = idToInfo[id].success /\ r.ourLastTry = now
      BY <1>2 DEF Info
    <3>2. Seasoned(idToInfo[id])
      BY <1>2 DEF RecordsSeasoned
    <3> QED
      BY <1>2, <2>1, <3>1, <3>2 DEF Seasoned
  <2> HIDE DEF r
  <2> QED
    BY <1>1, <2>1, <2>2, SeasonedExcept DEF Kept
<1> QED
  BY <1>3, <1>4

LEMMA GoodKept ==
  ASSUME IInv, RecordsSeasoned, NEW c \in Crawler, Good(c)
  PROVE  Kept
<1> DEFINE a == Head(ips[c])
           id == ipToId[a]
<1>1. PICK hello \in Hellos, v \in Verdicts : Reported(c) /\ Good_(a, hello, v)
  BY DEF Good
<1> DEFINE said == [idToInfo[id] EXCEPT !.services = hello.services,
                                        !.fit = hello.fit, !.ancient = hello.ancient]
           info == Update(said, TRUE, v)
<1>2. a \in Known /\ idToInfo[id] \in Info
  BY <1>1, ReportedNode
<1>3. said \in Info /\ now \in Nat \ {0}
  <2>1. hello \in [services : SUBSET Flags, fit : BOOLEAN, ancient : BOOLEAN]
    BY DataAssumption
  <2> QED
    BY <1>2, <2>1 DEF Info, IInv, TypeOK
<1>4. /\ v \in VerdictsAfter(info.total, info.success)
      /\ idToInfo' = [idToInfo EXCEPT ![id] = info]
      /\ banned' = Drop(banned, a) /\ UNCHANGED ipToId
  BY <1>1, <1>2 DEF Good_, Known
<1>5. Seasoned(info)
  <2> HIDE DEF said
  <2> QED
    BY <1>3, <1>4, UpdatedSeasoned
<1>6. DOMAIN banned' = DOMAIN banned \ {a}
  <2> HIDE DEF a
  <2> QED
    BY <1>4 DEF Drop, Restrict
<1>7. Remembered \subseteq Remembered'
  BY <1>2, <1>4, <1>6 DEF Remembered, Known
<1> HIDE DEF info
<1> QED
  BY <1>4, <1>5, <1>7, SeasonedExcept DEF Kept

LEMMA BadKept ==
  ASSUME IInv, RecordsSeasoned, NEW c \in Crawler, Bad(c)
  PROVE  Kept
<1> DEFINE a == Head(ips[c])
           id == ipToId[a]
<1>1. PICK ban \in {0, NodeBan}, v \in Verdicts : Reported(c) /\ Bad_(a, ban, v)
  BY DEF Bad
<1> DEFINE info == Update(idToInfo[id], FALSE, v)
           ter == GetBanTime(info)
           time == IF ban < ter THEN ter ELSE ban
<1>2. a \in Known /\ idToInfo[id] \in Info /\ idToInfo[id].ip = a /\ now \in Nat \ {0}
  BY <1>1, ReportedNode DEF IInv, TypeOK
<1>3. info.ip = a
  BY <1>2, Updated
<1>4. /\ v \in VerdictsAfter(info.total, info.success)
      /\ IF time > 0
           THEN /\ banned' = Put(banned, info.ip, time + now)
                /\ ipToId' = Drop(ipToId, info.ip)
                /\ idToInfo' = Drop(idToInfo, id)
           ELSE /\ idToInfo' = [idToInfo EXCEPT ![id] = info]
                /\ UNCHANGED <<banned, ipToId>>
  BY <1>1, <1>2 DEF Bad_, Forget, Known
<1>5. Seasoned(info)
  BY <1>2, <1>4, UpdatedSeasoned
<1> HIDE DEF info, ter, time
<1>6. CASE time > 0
  <2>1. /\ DOMAIN banned' = DOMAIN banned \cup {a} /\ DOMAIN ipToId' = DOMAIN ipToId \ {a}
        /\ DOMAIN idToInfo' = DOMAIN idToInfo \ {id}
        /\ \A x \in DOMAIN idToInfo' : idToInfo'[x] = idToInfo[x]
    <3> HIDE DEF a, id
    <3> QED
      BY <1>3, <1>4, <1>6 DEF Drop, Restrict, Put
  <2> HIDE DEF a, id
  <2> QED
    BY <2>1 DEF Kept, Remembered, Known, RecordsSeasoned
<1>7. CASE ~(time > 0)
  <2>1. Remembered' = Remembered
    BY <1>4, <1>7 DEF Remembered, Known
  <2> QED
    BY <1>4, <1>5, <1>7, <2>1, SeasonedExcept DEF Kept
<1> QED
  BY <1>6, <1>7

LEMMA AddKept ==
  ASSUME IInv, RecordsSeasoned, NEW a \in Addr, NEW services \in SUBSET Flags, NEW nTime,
         NEW force \in BOOLEAN, Add_(a, services, nTime, force)
  PROVE  Kept
<1> DEFINE barred == a \in DOMAIN banned
           id == ipToId[a]
<1>1. CASE UNCHANGED dbVars
  BY <1>1, KeptUnchanged DEF dbVars
<1>2. CASE ~UNCHANGED dbVars
  <2>1. /\ banned' = IF barred THEN Drop(banned, a) ELSE banned
        /\ IF a \in Known
             THEN /\ idToInfo' = IF force THEN [idToInfo EXCEPT ![id].ignoreTill = 0]
                                          ELSE idToInfo
                  /\ UNCHANGED ipToId
             ELSE /\ idToInfo' = Put(idToInfo, nId, NewInfo(a, services))
                  /\ ipToId' = Put(ipToId, a, nId)
    BY <1>2 DEF Add_, Enter, Known
  <2>2. DOMAIN banned \ {a} \subseteq DOMAIN banned'
    BY <2>1 DEF Drop, Restrict
  <2>3. Known \subseteq Known' /\ a \in Known'
    BY <2>1 DEF Known, Put
  <2>4. Remembered \subseteq Remembered'
    BY <2>2, <2>3 DEF Remembered
  <2>5. CASE a \notin Known
    BY <2>1, <2>4, <2>5, BlankSeasoned, SeasonedPut DEF Kept
  <2>6. CASE a \in Known
    <3> DEFINE r == [idToInfo[id] EXCEPT !.ignoreTill = 0]
    <3>1. id \in DOMAIN idToInfo /\ idToInfo[id] \in Info
      BY <2>6, Correspond
    <3>2. Seasoned(r)
      <4>1. /\ r.total = idToInfo[id].total /\ r.reliable = idToInfo[id].reliable
            /\ r.success = idToInfo[id].success /\ r.ourLastTry = idToInfo[id].ourLastTry
            /\ r.ignoreTill = 0
        BY <3>1 DEF Info
      <4>2. Seasoned(idToInfo[id])
        BY <3>1 DEF RecordsSeasoned
      <4> QED
        BY <4>1, <4>2 DEF Seasoned
    <3>3. idToInfo' = idToInfo \/ idToInfo' = [idToInfo EXCEPT ![id] = r]
      BY <2>1, <2>6
    <3> HIDE DEF r
    <3>4. RecordsSeasoned'
      <4>1. CASE idToInfo' = idToInfo
        BY <4>1 DEF RecordsSeasoned
      <4>2. CASE idToInfo' = [idToInfo EXCEPT ![id] = r]
        BY <3>2, <4>2, SeasonedExcept
      <4> QED
        BY <3>3, <4>1, <4>2
    <3> QED
      BY <2>4, <3>4 DEF Kept
  <2> QED
    BY <2>5, <2>6
<1> QED
  BY <1>1, <1>2

(* No thread forgets an address but by banning it, nor spoils a record.    *)
LEMMA NextKept ==
  ASSUME IInv, RecordsSeasoned, [Next]_vars
  PROVE  Kept
<1>1. CASE UNCHANGED vars
  BY <1>1, KeptUnchanged DEF vars, dbVars
<1>2. ASSUME NEW c \in Crawler, ThreadCrawler(c) PROVE Kept
  <2>1. CASE StartGetMany(c) \/ EndGetMany(c) \/ StartGet(c) \/ SkipFork(c)
             \/ StartResultMany(c) \/ EndAdd(c)
    BY <2>1, KeptUnchanged
    DEF StartGetMany, EndGetMany, StartGet, SkipFork, StartResultMany, EndAdd, dbVars
  <2>2. CASE ForkPassOver(c) \/ ForkHandOut(c) \/ OurRefused(c)
    BY <2>2, KeptUnchanged DEF ForkPassOver, ForkHandOut, OurRefused
  <2>3. CASE PickUnk(c)
    <3>1. PICK id \in unkId : Offer(c, id, ourId) /\ UNCHANGED <<ipToId, banned>>
      BY <2>3 DEF PickUnk
    <3>2. id \in KnownIds
      BY Correspond
    <3> QED
      BY <3>1, <3>2, OfferKept
  <2>4. CASE PickOur(c)
    <3>1. PICK id \in Range(ourId) : Offer(c, id, Tail(ourId)) /\ UNCHANGED <<ipToId, banned>>
      BY <2>4 DEF PickOur
    <3>2. id \in KnownIds
      BY Correspond
    <3> QED
      BY <3>1, <3>2, OfferKept
  <2>5. CASE Good(c)
    BY <2>5, GoodKept
  <2>6. CASE Bad(c)
    BY <2>6, BadKept
  <2>7. CASE AddGossip(c)
    <3>1. PICK a \in Addr, services \in Rumours, nTime \in 0..now :
            Add_(a, services, nTime, FALSE)
      BY <2>7 DEF AddGossip
    <3>2. services \in SUBSET Flags
      BY DataAssumption
    <3> QED
      BY <3>1, <3>2, AddKept
  <2> QED
    BY <1>2, <2>1, <2>2, <2>3, <2>4, <2>5, <2>6, <2>7 DEF ThreadCrawler, Get_
<1>3. CASE AddSeed
  <2>1. PICK a \in Seeds : Add_(a, {"NETWORK"}, 0, TRUE)
    BY <1>3 DEF AddSeed
  <2>2. {"NETWORK"} \in SUBSET Flags /\ a \in Addr
    BY AddrAssumption DEF Flags
  <2> QED
    BY <2>1, <2>2, AddKept
<1>4. CASE GetStats
  <2>1. PICK id : /\ idToInfo' = IF id \in DOMAIN idToInfo THEN idToInfo
                                 ELSE Put(idToInfo, id, NewInfo(NoAddr, {}))
                  /\ UNCHANGED <<ipToId, banned>>
    BY <1>4 DEF GetStats
  <2>2. Seasoned(NewInfo(NoAddr, {}))
    BY BlankSeasoned
  <2>3. RecordsSeasoned'
    <3>1. CASE id \in DOMAIN idToInfo
      BY <2>1, <3>1 DEF RecordsSeasoned
    <3>2. CASE id \notin DOMAIN idToInfo
      BY <2>1, <2>2, <3>2, SeasonedPut
    <3> QED
      BY <3>1, <3>2
  <2> QED
    BY <2>1, <2>3 DEF Kept, Remembered, Known
<1>5. CASE Tick
  BY <1>5, KeptUnchanged DEF Tick, dbVars
<1> QED
  BY <1>1, <1>2, <1>3, <1>4, <1>5 DEF Next
-----------------------------------------------------------------------------
(* What the readers of the database see.                                   *)

(* The containers hold the known ids, and nothing else.                    *)
LEMMA Containers ==
  ASSUME IInv
  PROVE  /\ ourId \in Seq(Nat) /\ forkId \in Seq(Nat)
         /\ Ascending(inFlight) \in Seq(Nat) /\ Range(Ascending(inFlight)) = inFlight
         /\ Ascending(unkId) \in Seq(Nat) /\ Range(Ascending(unkId)) = unkId
<1> DEFINE I == 0..nId - 1
<1>1. nId \in Nat /\ I \subseteq Nat /\ IsFiniteSet(I)
  <2>1. nId \in Nat
    BY NumberAssumption DEF IInv, TypeOK
  <2>2. IsFiniteSet(0..nId - 1)
    BY <2>1, FS_Interval
  <2> QED
    BY <2>1, <2>2
<1>2. /\ ourId \in Seq(I) /\ forkId \in Seq(I)
      /\ unkId \subseteq I /\ inFlight \subseteq I
  BY DEF IInv, TypeOK
<1> HIDE DEF I
<1>3. ourId \in Seq(Nat) /\ forkId \in Seq(Nat)
  BY <1>1, <1>2, SeqGrows
<1>4. /\ unkId \in SUBSET Nat /\ IsFiniteSet(unkId)
      /\ inFlight \in SUBSET Nat /\ IsFiniteSet(inFlight)
  BY <1>1, <1>2, FS_Subset
<1>5. /\ Ascending(inFlight) \in Seq(inFlight) /\ Range(Ascending(inFlight)) = inFlight
      /\ Ascending(unkId) \in Seq(unkId) /\ Range(Ascending(unkId)) = unkId
  BY <1>4, Enumerated
<1> QED
  BY <1>3, <1>4, <1>5, SeqGrows

(* db.h:351-365: the ids to write are those of the known nodes, each once, *)
(* and ourId's come first in their order.                                  *)
LEMMA SavedIdsHold ==
  ASSUME IInv
  PROVE  /\ SavedIds \in Seq(KnownIds) /\ Range(SavedIds) = KnownIds /\ NoRepeat(SavedIds)
         /\ Len(SavedIds) \in Nat /\ Len(SavedIds) = Cardinality(Known)
         /\ \A k \in DOMAIN ourId : SavedIds[k] = ourId[k]
<1> DEFINE q == ourId \o forkId \o Ascending(inFlight) \o Ascending(unkId)
           ids == Walk(q, DOMAIN idToInfo)
           n == Len(ids)
<1>1. q \in Seq(Nat) /\ Range(q) = KnownIds
  <2> DEFINE a == Ascending(inFlight)
             b == Ascending(unkId)
             p == ourId \o forkId
             r == p \o a
  <2>1. /\ ourId \in Seq(Nat) /\ forkId \in Seq(Nat) /\ a \in Seq(Nat) /\ b \in Seq(Nat)
        /\ Range(a) = inFlight /\ Range(b) = unkId
    BY Containers
  <2> HIDE DEF a, b
  <2>2. p \in Seq(Nat) /\ Range(p) = Range(ourId) \cup Range(forkId)
    BY <2>1, Joined
  <2> HIDE DEF p
  <2>3. r \in Seq(Nat) /\ Range(r) = Range(p) \cup Range(a)
    BY <2>1, <2>2, Joined
  <2> HIDE DEF r
  <2>4. r \o b \in Seq(Nat) /\ Range(r \o b) = Range(r) \cup Range(b)
    BY <2>1, <2>3, Joined
  <2>5. KnownIds = unkId \cup Range(ourId) \cup Range(forkId) \cup inFlight
    BY DEF IInv, OneSlot
  <2> QED
    BY <2>1, <2>2, <2>3, <2>4, <2>5 DEF a, b, p, r
<1> HIDE DEF q
<1>2. /\ ids \in Seq(Nat) /\ Range(ids) = KnownIds /\ NoRepeat(ids)
      /\ n \in Nat /\ DOMAIN ids = 1..n
  <2>1. ids \in Seq(Nat) /\ Range(ids) = Range(q) \cap DOMAIN idToInfo /\ NoRepeat(ids)
    BY <1>1, Walked
  <2>2. \A id \in KnownIds : id \in DOMAIN idToInfo
    BY Correspond
  <2> HIDE DEF ids
  <2> QED
    BY <1>1, <2>1, <2>2
<1> HIDE DEF ids
<1>3. \A k \in 1..n : ids[k] \in KnownIds
  BY <1>2 DEF Range
<1>4. ids \in Seq(KnownIds)
  BY <1>2, <1>3
<1>5. Cardinality(Known) = n
  <2>1. Known \in SUBSET Addr
    BY DEF IInv, TypeOK
  <2>2. IsFiniteSet(Known)
    BY <2>1, BootAssumption, FS_Subset
  <2> DEFINE f == [k \in 1..n |-> idToInfo[ids[k]].ip]
  <2>3. f \in [1..n -> Known] /\ \A k \in 1..n : ipToId[f[k]] = ids[k]
    BY <1>3, Correspond
  <2>4. \A i, j \in 1..n : f[i] = f[j] => i = j
    BY <1>2, <2>3 DEF NoRepeat
  <2>5. \A a \in Known : \E i \in 1..n : f[i] = a
    <3>1. TAKE a \in Known
    <3>2. ipToId[a] \in KnownIds /\ idToInfo[ipToId[a]].ip = a
      BY DEF KnownIds, IInv, MapsAgree
    <3>3. PICK k \in 1..n : ids[k] = ipToId[a]
      BY <1>2, <3>2 DEF Range
    <3> QED
      BY <3>2, <3>3
  <2> HIDE DEF f, n
  <2> QED
    BY <1>2, <2>2, <2>3, <2>4, <2>5, Counted
<1>6. \A k \in DOMAIN ourId : ids[k] = ourId[k]
  <2> DEFINE N == Nat
             a == Ascending(inFlight)
             b == Ascending(unkId)
  <2>1. ourId \in Seq(N) /\ forkId \in Seq(N) /\ a \in Seq(N) /\ b \in Seq(N)
    BY Containers
  <2>2. Range(ourId) \subseteq DOMAIN idToInfo /\ NoRepeat(ourId)
    BY Correspond DEF IInv, OneSlot
  <2>3. q = ourId \o forkId \o a \o b
    BY DEF q
  <2> HIDE DEF N, a, b
  <2>4. ourId \o forkId \o a \o b = ourId \o (forkId \o a \o b)
    BY ONLY <2>1
  <2> DEFINE r == forkId \o a \o b
  <2>5. r \in Seq(N) /\ q = ourId \o r
    BY ONLY <2>1, <2>3, <2>4
  <2> HIDE DEF r
  <2>6. /\ q \in Seq(N) /\ Len(ourId) <= Len(q)
        /\ \A i \in 1..Len(ourId) : q[i] = ourId[i]
    BY ONLY <2>1, <2>5
  <2>7. \A k \in DOMAIN ourId :
          k \in DOMAIN Walk(q, DOMAIN idToInfo) /\ Walk(q, DOMAIN idToInfo)[k] = ourId[k]
    <3> DEFINE W == DOMAIN idToInfo
    <3>1. Range(ourId) \subseteq W /\ ourId \in Seq(N) /\ q \in Seq(N)
      BY <2>1, <2>2, <2>6
    <3> HIDE DEF W
    <3>2. \A k \in DOMAIN ourId : k \in DOMAIN Walk(q, W) /\ Walk(q, W)[k] = ourId[k]
      BY ONLY <2>2, <2>6, <3>1, WalkedFirst
    <3> QED
      BY <3>2 DEF W
  <2> QED
    BY <2>7 DEF ids
<1>7. SavedIds = ids
  BY DEF SavedIds, ids, q
<1> QED
  BY <1>2, <1>4, <1>5, <1>6, <1>7

(* What is written of a known node can be read back.                       *)
LEMMA WrittenHolds ==
  ASSUME IInv, RecordsSeasoned, NEW id \in KnownIds
  PROVE  /\ Written(idToInfo[id]) \in Saved
         /\ Written(idToInfo[id]).ip = idToInfo[id].ip
<1> DEFINE i == idToInfo[id]
<1>1. i \in Info /\ i.ip \in Addr /\ i.services \in SUBSET Flags /\ Seasoned(i)
  BY Correspond DEF RecordsSeasoned, Info
<1>2. CASE i.ourLastTry # 0
  BY <1>1, <1>2 DEF Written, Saved
<1>3. CASE i.ourLastTry = 0
  <2>1. /\ NewInfo(i.ip, i.services) \in Info /\ NewInfo(i.ip, i.services).ip = i.ip
        /\ NewInfo(i.ip, i.services).ignoreTill = 0 /\ Seasoned(NewInfo(i.ip, i.services))
    BY <1>1, Blank, BlankSeasoned
  <2>2. Written(i) = NewInfo(i.ip, i.services)
    BY <1>3 DEF Written
  <2> QED
    BY <1>1, <2>1, <2>2 DEF Saved
<1> QED
  BY <1>2, <1>3

(* db.h:299-303: the census has each node that ever answered, once.        *)
LEMMA CensusHolds ==
  ASSUME IInv, RecordsSeasoned
  PROVE  /\ Range(GetAll) = {a \in Known : idToInfo[ipToId[a]].success > 0}
         /\ NoRepeat(GetAll)
<1> DEFINE q == ourId \o forkId \o Ascending(inFlight)
           ids == Walk(q, Answered)
           n == Len(ids)
           all == [k \in 1..n |-> idToInfo[ids[k]].ip]
<1>1. q \in Seq(Nat) /\ Range(q) = KnownIds \ unkId
  <2> DEFINE a == Ascending(inFlight)
             p == ourId \o forkId
  <2>1. /\ ourId \in Seq(Nat) /\ forkId \in Seq(Nat) /\ a \in Seq(Nat)
        /\ Range(a) = inFlight
    BY Containers
  <2> HIDE DEF a
  <2>2. p \in Seq(Nat) /\ Range(p) = Range(ourId) \cup Range(forkId)
    BY <2>1, Joined
  <2> HIDE DEF p
  <2>3. p \o a \in Seq(Nat) /\ Range(p \o a) = Range(p) \cup Range(a)
    BY <2>1, <2>2, Joined
  <2>4. KnownIds \ unkId = Range(ourId) \cup Range(forkId) \cup inFlight
    BY DEF IInv, OneSlot
  <2> QED
    BY <2>1, <2>2, <2>3, <2>4 DEF a, p
<1> HIDE DEF q
<1>2. /\ ids \in Seq(Nat) /\ Range(ids) = (KnownIds \ unkId) \cap Answered /\ NoRepeat(ids)
      /\ n \in Nat /\ DOMAIN ids = 1..n
  BY <1>1, Walked
<1> HIDE DEF ids
<1>3. \A k \in 1..n : ids[k] \in KnownIds /\ idToInfo[ids[k]].success > 0
  BY <1>2 DEF Range, Answered
<1>4. \A k \in 1..n : all[k] \in Known /\ ipToId[all[k]] = ids[k]
  BY <1>3, Correspond
<1>5. DOMAIN all = 1..n
  OBVIOUS
<1>6. ASSUME NEW a \in Known, idToInfo[ipToId[a]].success > 0
      PROVE  \E k \in 1..n : all[k] = a
  <2> DEFINE id == ipToId[a]
  <2>1. id \in KnownIds /\ id \in DOMAIN idToInfo /\ idToInfo[id].ip = a
    BY DEF KnownIds, IInv, MapsAgree
  <2>2. idToInfo[id].ourLastTry # 0
    BY <1>6, <2>1 DEF RecordsSeasoned, Seasoned
  <2>3. id \notin unkId
    BY <2>2 DEF IInv, Proven
  <2>4. id \in Range(ids)
    BY <1>2, <1>6, <2>1, <2>3 DEF Answered
  <2>5. PICK k \in 1..n : ids[k] = id
    BY <1>2, <2>4 DEF Range
  <2> QED
    BY <2>1, <2>5
<1> HIDE DEF all, n
<1>7. GetAll = all
  BY DEF GetAll, all, n, ids, q
<1>8. Range(all) = {a \in Known : idToInfo[ipToId[a]].success > 0}
  BY <1>3, <1>4, <1>5, <1>6 DEF Range
<1>9. NoRepeat(all)
  BY <1>2, <1>4, <1>5 DEF NoRepeat
<1> QED
  BY <1>7, <1>8, <1>9
-----------------------------------------------------------------------------
(* The inductive invariant of BootSpec.                                    *)

(* While main() reads the file no thread runs yet; what is still to be     *)
(* read is in the file, is not known yet, and there are ids enough for it. *)
LoadOK ==
  phase # "up" =>
    /\ round = "boot" /\ lock = Free /\ forkId = <<>> /\ inFlight = {} /\ banned = NoMap
    /\ pc = [c \in Crawler |-> "idle"] /\ ips = [c \in Crawler |-> <<>>]
    /\ todo \in Seq(Saved) /\ OnePerIp(todo)
    /\ IpsOf(todo) \cap Known = {}
    /\ IpsOf(todo) \cup Known \subseteq IpsOf(dat.infos)
    /\ nId + Len(todo) <= MaxId

(* While a save writes, under the shared lock, nobody adds a node, bans    *)
(* one or moves an id: the file has the nodes whose ids are written.       *)
WriteOK ==
  round = "write" =>
    /\ lock = Free
    /\ toSave \in Seq(KnownIds) /\ NoRepeat(toSave)
    /\ IpsOf(datNew.infos) = {a \in Known : ipToId[a] \notin Range(toSave)}
    /\ Len(datNew.infos) + Len(toSave) <= MaxId
    /\ datNew.banned = NoMap

(* The addresses of a report stay remembered until a file remembers them:  *)
(* by the database until all is written, then by the new file, then by     *)
(* dnsseed.dat; and a file cut when it is renamed is the mark of a close   *)
(* that failed.                                                            *)
RoundsOK ==
  /\ phase \in {"up", "load", "dead"} /\ round \in Rounds
  /\ round \in {"save", "write"} => Range(report) \subseteq Remembered
  /\ round \in {"close", "rename"} => Range(report) \subseteq Listed(datNew)
  /\ round = "rename" /\ datNew.torn => "close" \in failed
  /\ round = "dump" => failed # {} \/ Range(report) \subseteq Listed(dat)
  /\ round = "sleep" => failed # {} \/ Range(dump) \subseteq Listed(dat)
  /\ dat.torn \/ phase = "dead" => "close" \in failed

FilesOK == FileOK(dat) /\ FileOK(datNew)

BootInv == IInv /\ RecordsSeasoned /\ FilesOK /\ LoadOK /\ WriteOK /\ RoundsOK

LEMMA EmptyFile == FileOK(NoFile) /\ NoFile.torn = FALSE
<1>1. <<>> \in Seq(Saved) /\ Len(<<>>) = 0 /\ Range(<<>>) = {}
  BY DEF Range
<1>2. IpsOf(<<>>) = {} /\ OnePerIp(<<>>)
  BY <1>1 DEF IpsOf, OnePerIp
<1>3. NoMap \in [DOMAIN NoMap -> Nat] /\ DOMAIN NoMap = {}
  BY DEF NoMap
<1>4. NoFile = [infos |-> <<>>, banned |-> NoMap, torn |-> FALSE]
  BY DEF NoFile
<1> QED
  BY <1>1, <1>2, <1>3, <1>4, NumberAssumption DEF FileOK

LEMMA BootInitially == BootInit => BootInv
<1> SUFFICES ASSUME BootInit PROVE BootInv
  OBVIOUS
<1>1. IInv
  BY Initially DEF BootInit
<1>2. RecordsSeasoned
  BY DEF BootInit, Init, RecordsSeasoned, NoMap
<1>3. FilesOK
  BY EmptyFile DEF BootInit, FilesOK
<1>4. LoadOK
  BY DEF BootInit, LoadOK
<1>5. WriteOK /\ RoundsOK
  BY EmptyFile DEF BootInit, WriteOK, RoundsOK, Rounds
<1> QED
  BY <1>1, <1>2, <1>3, <1>4, <1>5 DEF BootInv

(* A step of a thread touches no file; beside a save it moves no node.     *)
LEMMA RunStep ==
  ASSUME BootInv, Run
  PROVE  BootInv'
<1>1. Next
  BY DEF Run, Next
<1>2. IInv' /\ Kept
  BY <1>1, Step, NextKept DEF BootInv
<1>3. UNCHANGED <<dat, datNew, toSave, dump, report, round, failed, phase>> /\ phase = "up"
  BY DEF Run, fileVars, dumpVars, bootVars
<1>4. FilesOK' /\ LoadOK'
  BY <1>3 DEF BootInv, FilesOK, LoadOK
<1>5. WriteOK'
  <2>1. SUFFICES ASSUME round = "write" PROVE WriteOK'
    BY <1>3 DEF WriteOK
  <2>2. UNCHANGED <<ipToId, lock>>
    BY <2>1 DEF Run, Sharing, GetStats, Tick, dbVars
  <2>3. Known' = Known /\ KnownIds' = KnownIds
    BY <2>2 DEF Known, KnownIds
  <2> QED
    BY <1>3, <2>2, <2>3 DEF BootInv, WriteOK
<1>6. RoundsOK'
  <2>1. Listed(dat)' = Listed(dat) /\ Listed(datNew)' = Listed(datNew)
    BY <1>3
  <2>2. Remembered \subseteq Remembered'
    BY <1>2 DEF Kept
  <2> QED
    BY <1>3, <2>1, <2>2 DEF BootInv, RoundsOK
<1> QED
  BY <1>2, <1>4, <1>5, <1>6 DEF BootInv, Kept

(* A step of the dumper leaves the database alone.                         *)
LEMMA DbKept ==
  ASSUME BootInv, UNCHANGED vars
  PROVE  /\ IInv' /\ RecordsSeasoned' /\ Remembered' = Remembered
         /\ Known' = Known /\ KnownIds' = KnownIds
<1>1. IInv'
  BY Step DEF BootInv
<1>2. UNCHANGED <<idToInfo, ipToId, banned>>
  BY DEF vars, dbVars
<1> QED
  BY <1>1, <1>2 DEF BootInv, RecordsSeasoned, Remembered, Known, KnownIds

LEMMA TakeReportStep ==
  ASSUME BootInv, TakeReport
  PROVE  BootInv'
<1>1. UNCHANGED <<vars, dat, datNew, dump, failed, phase>> /\ phase = "up"
  BY DEF TakeReport, bootVars
<1>2. IInv' /\ RecordsSeasoned' /\ Remembered' = Remembered
  BY <1>1, DbKept
<1>3. FilesOK' /\ LoadOK'
  BY <1>1 DEF BootInv, FilesOK, LoadOK
<1>4. report' = GetAll /\ round' = "save"
  BY DEF TakeReport
<1>5. Range(GetAll) \subseteq Remembered
  BY CensusHolds DEF BootInv, Remembered
<1>6. WriteOK' /\ RoundsOK'
  BY <1>1, <1>2, <1>4, <1>5 DEF BootInv, WriteOK, RoundsOK, Rounds
<1> QED
  BY <1>2, <1>3, <1>6 DEF BootInv

LEMMA SaveStep ==
  ASSUME BootInv, Save
  PROVE  BootInv'
<1>1. /\ UNCHANGED <<vars, dat, dump, report, phase>> /\ phase = "up" /\ round = "save"
      /\ lock = Free
  BY DEF Save, bootVars
<1>2. /\ IInv' /\ RecordsSeasoned' /\ Remembered' = Remembered
      /\ Known' = Known /\ KnownIds' = KnownIds
  BY <1>1, DbKept
<1>3. LoadOK'
  BY <1>1 DEF LoadOK
<1>4. CASE /\ datNew' = [NoFile EXCEPT !.torn = TRUE]
           /\ toSave' = SavedIds /\ round' = "write" /\ UNCHANGED failed
  <2>1. datNew' = [infos |-> <<>>, banned |-> NoMap, torn |-> TRUE]
    BY <1>4 DEF NoFile
  <2>2. FileOK(datNew')
    BY <2>1, EmptyFile DEF FileOK, NoFile
  <2>3. FilesOK'
    BY <1>1, <2>2 DEF BootInv, FilesOK
  <2>4. /\ toSave' \in Seq(KnownIds) /\ Range(toSave') = KnownIds /\ NoRepeat(toSave')
        /\ Len(toSave') \in Nat /\ Len(toSave') = Cardinality(Known)
    BY <1>4, SavedIdsHold DEF BootInv
  <2>5. Cardinality(Known) <= MaxId
    <3>1. Known \in SUBSET Addr
      BY DEF BootInv, IInv, TypeOK
    <3>2. IsFiniteSet(Known) /\ Cardinality(Known) <= Cardinality(Addr)
      BY <3>1, BootAssumption, FS_Subset
    <3>3. Cardinality(Addr) \in Nat /\ Cardinality(Known) \in Nat
      BY <3>2, BootAssumption, FS_CardinalityType
    <3> QED
      BY <3>2, <3>3, BootAssumption, NumberAssumption
  <2>6. IpsOf(datNew'.infos) = {} /\ Len(datNew'.infos) = 0 /\ datNew'.banned = NoMap
    BY <2>1 DEF IpsOf, Range
  <2>7. \A a \in Known : ipToId[a] \in KnownIds
    BY DEF KnownIds
  <2>8. UNCHANGED <<ipToId, lock>>
    BY <1>1 DEF vars, dbVars
  <2>9. Len(datNew'.infos) + Len(toSave') <= MaxId
    BY <2>4, <2>5, <2>6, NumberAssumption
  <2>10. IpsOf(datNew'.infos) = {a \in Known : ipToId[a] \notin Range(toSave')}
    BY <2>4, <2>6, <2>7
  <2>11. WriteOK'
    BY <1>1, <1>2, <2>4, <2>6, <2>8, <2>9, <2>10 DEF WriteOK
  <2>12. RoundsOK'
    BY <1>1, <1>2, <1>4 DEF BootInv, RoundsOK, Rounds
  <2> QED
    BY <1>2, <1>3, <2>3, <2>11, <2>12 DEF BootInv
<1>5. CASE Fail("open") /\ round' = "dump" /\ UNCHANGED <<datNew, toSave>>
  <2>1. FilesOK' /\ WriteOK'
    BY <1>1, <1>5 DEF BootInv, FilesOK, WriteOK
  <2>2. failed' = failed \cup {"open"}
    BY <1>5 DEF Fail
  <2>3. RoundsOK'
    BY <1>1, <1>5, <2>2 DEF BootInv, RoundsOK, Rounds
  <2> QED
    BY <1>2, <1>3, <2>1, <2>3 DEF BootInv
<1> QED
  BY <1>4, <1>5 DEF Save

(* The first of a list of ids taken off.                                   *)
LEMMA FirstId ==
  ASSUME NEW S, NEW q \in Seq(S), q # <<>>, NoRepeat(q)
  PROVE  /\ Head(q) \in S /\ Head(q) \in Range(q)
         /\ Tail(q) \in Seq(S) /\ NoRepeat(Tail(q))
         /\ Len(q) \in Nat /\ Len(Tail(q)) = Len(q) - 1
         /\ Range(Tail(q)) = Range(q) \ {Head(q)}
<1>1. /\ Len(q) \in Nat /\ Len(q) > 0 /\ DOMAIN q = 1..Len(q)
      /\ Head(q) = q[1] /\ Head(q) \in S
      /\ Tail(q) \in Seq(S) /\ Len(Tail(q)) = Len(q) - 1
      /\ DOMAIN Tail(q) = 1..(Len(q) - 1)
      /\ \A i \in 1..(Len(q) - 1) : Tail(q)[i] = q[i + 1]
  OBVIOUS
<1>2. \A i \in 1..(Len(q) - 1) : i + 1 \in 1..Len(q) /\ i + 1 # 1
  BY <1>1
<1>3. NoRepeat(Tail(q)) /\ \A i \in 1..(Len(q) - 1) : Tail(q)[i] # Head(q)
  BY <1>1, <1>2 DEF NoRepeat
<1>4. Range(Tail(q)) \subseteq Range(q) \ {Head(q)}
  BY <1>1, <1>2, <1>3 DEF Range
<1>5. ASSUME NEW i \in 1..Len(q), q[i] # Head(q)
      PROVE  q[i] \in Range(Tail(q))
  <2>1. i - 1 \in 1..(Len(q) - 1) /\ (i - 1) + 1 = i
    BY <1>1, <1>5
  <2>2. Tail(q)[i - 1] = q[i]
    BY <1>1, <2>1
  <2> QED
    BY <1>1, <2>1, <2>2 DEF Range
<1> QED
  BY <1>1, <1>3, <1>4, <1>5 DEF Range

(* A record of another address added to a list of records.                 *)
LEMMA RecordAdded ==
  ASSUME NEW q \in Seq(Saved), OnePerIp(q), NEW i \in Saved, i.ip \notin IpsOf(q)
  PROVE  /\ Append(q, i) \in Seq(Saved) /\ OnePerIp(Append(q, i))
         /\ Len(q) \in Nat /\ Len(Append(q, i)) = Len(q) + 1
         /\ IpsOf(Append(q, i)) = IpsOf(q) \cup {i.ip}
<1> DEFINE r == Append(q, i)
           n == Len(q)
<1>1. /\ n \in Nat /\ DOMAIN q = 1..n /\ DOMAIN r = 1..(n + 1) /\ Len(r) = n + 1
      /\ r \in Seq(Saved) /\ r[n + 1] = i /\ \A k \in 1..n : r[k] = q[k]
  OBVIOUS
<1> HIDE DEF r, n
<1>2. \A k \in 1..(n + 1) : k = n + 1 \/ k \in 1..n
  BY <1>1
<1>3. n + 1 \in 1..(n + 1) /\ 1..n \subseteq 1..(n + 1)
  BY <1>1
<1>4. \A k \in 1..n : q[k].ip # i.ip
  BY <1>1 DEF IpsOf, Range
<1>5. OnePerIp(r)
  <2>1. SUFFICES ASSUME NEW j \in 1..(n + 1), NEW k \in 1..(n + 1), r[j].ip = r[k].ip
                 PROVE  j = k
    BY <1>1 DEF OnePerIp
  <2>2. CASE j \in 1..n /\ k \in 1..n
    BY <1>1, <2>1, <2>2 DEF OnePerIp
  <2>3. CASE j = n + 1 \/ k = n + 1
    BY <1>1, <1>2, <1>4, <2>1, <2>3
  <2> QED
    BY <1>2, <2>2, <2>3
<1>6. IpsOf(r) = IpsOf(q) \cup {i.ip}
  <2>1. IpsOf(r) \subseteq IpsOf(q) \cup {i.ip}
    BY <1>1, <1>2 DEF IpsOf, Range
  <2>2. \A k \in 1..n : q[k].ip \in IpsOf(r)
    BY <1>1, <1>3 DEF IpsOf, Range
  <2>3. i.ip \in IpsOf(r)
    BY <1>1, <1>3 DEF IpsOf, Range
  <2>4. IpsOf(q) \subseteq IpsOf(r)
    BY <1>1, <2>2 DEF IpsOf, Range
  <2> QED
    BY <2>1, <2>3, <2>4
<1> QED
  BY <1>1, <1>5, <1>6 DEF r, n

LEMMA WriteInfoStep ==
  ASSUME BootInv, WriteInfo
  PROVE  BootInv'
<1> DEFINE h == Head(toSave)
           i == Written(idToInfo[h])
<1>1. /\ UNCHANGED <<vars, dat, dump, report, round, failed, phase>>
      /\ phase = "up" /\ round = "write" /\ toSave # <<>> /\ toSave' = Tail(toSave)
      /\ datNew' = [datNew EXCEPT !.infos = Append(@, i)]
  BY DEF WriteInfo, bootVars
<1>2. /\ IInv' /\ RecordsSeasoned' /\ Remembered' = Remembered
      /\ Known' = Known /\ KnownIds' = KnownIds
  BY <1>1, DbKept
<1>3. LoadOK'
  BY <1>1 DEF LoadOK
<1>4. /\ lock = Free /\ toSave \in Seq(KnownIds) /\ NoRepeat(toSave)
      /\ IpsOf(datNew.infos) = {a \in Known : ipToId[a] \notin Range(toSave)}
      /\ Len(datNew.infos) + Len(toSave) <= MaxId
      /\ datNew.banned = NoMap
  BY <1>1 DEF BootInv, WriteOK
<1>5. /\ h \in KnownIds /\ h \in Range(toSave)
      /\ Tail(toSave) \in Seq(KnownIds) /\ NoRepeat(Tail(toSave))
      /\ Len(toSave) \in Nat /\ Len(Tail(toSave)) = Len(toSave) - 1
      /\ Range(Tail(toSave)) = Range(toSave) \ {h}
  BY <1>1, <1>4, FirstId
<1>6. i \in Saved /\ i.ip = idToInfo[h].ip
  BY <1>5, WrittenHolds DEF BootInv
<1>7. i.ip \in Known /\ ipToId[i.ip] = h
  BY <1>5, <1>6, Correspond DEF BootInv
<1> HIDE DEF h, i
<1>8. /\ datNew.infos \in Seq(Saved) /\ OnePerIp(datNew.infos)
      /\ datNew = [infos |-> datNew.infos, banned |-> datNew.banned, torn |-> datNew.torn]
      /\ datNew.torn \in BOOLEAN
  BY DEF BootInv, FilesOK, FileOK
<1>9. i.ip \notin IpsOf(datNew.infos)
  BY <1>4, <1>5, <1>7
<1> DEFINE infos == Append(datNew.infos, i)
<1>10. /\ infos \in Seq(Saved) /\ OnePerIp(infos)
       /\ Len(datNew.infos) \in Nat /\ Len(infos) = Len(datNew.infos) + 1
       /\ IpsOf(infos) = IpsOf(datNew.infos) \cup {i.ip}
  BY <1>6, <1>8, <1>9, RecordAdded
<1>11. datNew' = [infos |-> infos, banned |-> NoMap, torn |-> datNew.torn]
  BY <1>1, <1>4, <1>8
<1>12. datNew'.infos = infos /\ datNew'.banned = NoMap
  BY <1>11
<1> HIDE DEF infos
<1>13. Len(infos) + Len(Tail(toSave)) <= MaxId /\ Len(infos) <= MaxId
  BY <1>4, <1>5, <1>10, NumberAssumption
<1>14. IpsOf(infos) = {a \in Known : ipToId[a] \notin Range(Tail(toSave))}
  <2>1. \A a \in Known : ipToId[a] = h => a = i.ip
    BY <1>7, Correspond DEF BootInv
  <2> QED
    BY <1>4, <1>5, <1>7, <1>10, <2>1
<1>15. FilesOK'
  <2>1. NoMap \in [DOMAIN NoMap -> Nat] /\ DOMAIN NoMap = {}
    BY DEF NoMap
  <2>2. FileOK(datNew')
    BY <1>8, <1>10, <1>11, <1>12, <1>13, <2>1 DEF FileOK
  <2> QED
    BY <1>1, <2>2 DEF BootInv, FilesOK
<1>16. WriteOK'
  <2>1. UNCHANGED <<ipToId, lock>>
    BY <1>1 DEF vars, dbVars
  <2> QED
    BY <1>1, <1>2, <1>4, <1>5, <1>12, <1>13, <1>14, <2>1 DEF WriteOK
<1>17. RoundsOK'
  BY <1>1, <1>2 DEF BootInv, RoundsOK
<1> QED
  BY <1>2, <1>3, <1>15, <1>16, <1>17 DEF BootInv

(* With the ban list the file has all the database remembers.              *)
LEMMA WriteBannedStep ==
  ASSUME BootInv, WriteBanned
  PROVE  BootInv'
<1>1. /\ UNCHANGED <<vars, dat, dump, report, failed, phase>>
      /\ phase = "up" /\ round = "write" /\ toSave = <<>> /\ round' = "close"
      /\ datNew' = [datNew EXCEPT !.banned = banned]
  BY DEF WriteBanned, bootVars
<1>2. IInv' /\ RecordsSeasoned' /\ Remembered' = Remembered
  BY <1>1, DbKept
<1>3. LoadOK' /\ WriteOK'
  BY <1>1 DEF LoadOK, WriteOK
<1>4. /\ datNew.infos \in Seq(Saved) /\ OnePerIp(datNew.infos) /\ Len(datNew.infos) <= MaxId
      /\ datNew = [infos |-> datNew.infos, banned |-> datNew.banned, torn |-> datNew.torn]
      /\ datNew.torn \in BOOLEAN
  BY DEF BootInv, FilesOK, FileOK
<1>5. IpsOf(datNew.infos) = Known
  <2>1. Range(toSave) = {}
    BY <1>1 DEF Range
  <2> QED
    BY <1>1, <2>1 DEF BootInv, WriteOK
<1>6. /\ banned \in [DOMAIN banned -> Nat] /\ DOMAIN banned \subseteq Addr
      /\ Known \cap DOMAIN banned = {}
  BY DEF BootInv, IInv, TypeOK, BannedUnknown
<1>7. datNew' = [infos |-> datNew.infos, banned |-> banned, torn |-> datNew.torn]
  BY <1>1, <1>4
<1>8. datNew'.infos = datNew.infos /\ datNew'.banned = banned /\ datNew'.torn = datNew.torn
  BY <1>7
<1>9. FilesOK'
  <2>1. FileOK(datNew')
    BY <1>4, <1>5, <1>6, <1>7, <1>8 DEF FileOK
  <2> QED
    BY <1>1, <2>1 DEF BootInv, FilesOK
<1>10. Listed(datNew)' = Remembered
  BY <1>5, <1>8 DEF Listed, Remembered
<1>11. RoundsOK'
  BY <1>1, <1>10 DEF BootInv, RoundsOK, Rounds
<1> QED
  BY <1>2, <1>3, <1>9, <1>11 DEF BootInv

LEMMA CloseStep ==
  ASSUME BootInv, Close
  PROVE  BootInv'
<1>1. /\ UNCHANGED <<vars, dat, dump, report, phase>>
      /\ phase = "up" /\ round = "close" /\ round' = "rename"
  BY DEF Close, bootVars
<1>2. IInv' /\ RecordsSeasoned' /\ Remembered' = Remembered
  BY <1>1, DbKept
<1>3. LoadOK' /\ WriteOK'
  BY <1>1 DEF LoadOK, WriteOK
<1>4. CASE datNew' = [datNew EXCEPT !.torn = FALSE] /\ UNCHANGED failed
  <2>1. datNew' = [infos |-> datNew.infos, banned |-> datNew.banned, torn |-> FALSE]
    BY <1>4 DEF BootInv, FilesOK, FileOK
  <2>2. datNew'.infos = datNew.infos /\ datNew'.banned = datNew.banned /\ ~ datNew'.torn
    BY <2>1
  <2>3. FilesOK'
    BY <1>1, <2>1, <2>2 DEF BootInv, FilesOK, FileOK
  <2>4. RoundsOK'
    BY <1>1, <1>4, <2>2 DEF BootInv, RoundsOK, Rounds, Listed
  <2> QED
    BY <1>2, <1>3, <2>3, <2>4 DEF BootInv
<1>5. CASE Fail("close") /\ UNCHANGED datNew
  <2>1. failed' = failed \cup {"close"}
    BY <1>5 DEF Fail
  <2>2. FilesOK' /\ RoundsOK'
    BY <1>1, <1>5, <2>1 DEF BootInv, FilesOK, RoundsOK, Rounds
  <2> QED
    BY <1>2, <1>3, <2>2 DEF BootInv
<1> QED
  BY <1>4, <1>5 DEF Close

LEMMA RenameStep ==
  ASSUME BootInv, Rename
  PROVE  BootInv'
<1>1. /\ UNCHANGED <<vars, dump, report, phase>> /\ phase = "up" /\ round = "rename"
      /\ round' = "dump"
  BY DEF Rename, bootVars
<1>2. IInv' /\ RecordsSeasoned' /\ Remembered' = Remembered
  BY <1>1, DbKept
<1>3. LoadOK' /\ WriteOK'
  BY <1>1 DEF LoadOK, WriteOK
<1>4. CASE dat' = datNew /\ datNew' = NoFile /\ UNCHANGED failed
  <2>1. FilesOK'
    BY <1>1, <1>4, EmptyFile DEF BootInv, FilesOK
  <2>2. Listed(dat)' = Listed(datNew)
    BY <1>4
  <2>3. RoundsOK'
    BY <1>1, <1>4, <2>2 DEF BootInv, RoundsOK, Rounds
  <2> QED
    BY <1>2, <1>3, <2>1, <2>3 DEF BootInv
<1>5. CASE Fail("rename") /\ UNCHANGED <<dat, datNew>>
  <2>1. failed' = failed \cup {"rename"}
    BY <1>5 DEF Fail
  <2>2. FilesOK' /\ RoundsOK'
    BY <1>1, <1>5, <2>1 DEF BootInv, FilesOK, RoundsOK, Rounds
  <2> QED
    BY <1>2, <1>3, <2>2 DEF BootInv
<1> QED
  BY <1>4, <1>5 DEF Rename

LEMMA WriteDumpStep ==
  ASSUME BootInv, WriteDump
  PROVE  BootInv'
<1>1. /\ UNCHANGED <<vars, dat, datNew, failed, phase>> /\ phase = "up" /\ round = "dump"
      /\ round' = "sleep" /\ dump' = report
  BY DEF WriteDump, bootVars
<1>2. IInv' /\ RecordsSeasoned' /\ Remembered' = Remembered
  BY <1>1, DbKept
<1>3. FilesOK' /\ LoadOK'
  BY <1>1 DEF BootInv, FilesOK, LoadOK
<1>4. Listed(dat)' = Listed(dat)
  BY <1>1
<1>5. WriteOK' /\ RoundsOK'
  BY <1>1, <1>4 DEF BootInv, WriteOK, RoundsOK, Rounds
<1> QED
  BY <1>2, <1>3, <1>5 DEF BootInv

(* A new process starts from an empty database and the file as it is.      *)
LEMMA CrashStep ==
  ASSUME BootInv, Crash
  PROVE  BootInv'
<1>1. PICK t \in now..MaxTime, o \in OptionSets :
        /\ nId' = 0 /\ idToInfo' = NoMap /\ ipToId' = NoMap
        /\ ourId' = <<>> /\ forkId' = <<>> /\ unkId' = {} /\ inFlight' = {}
        /\ goodId' = {} /\ banned' = NoMap
        /\ lock' = Free /\ tot' = 0 /\ now' = t
        /\ pc' = [c \in Crawler |-> "idle"] /\ ips' = [c \in Crawler |-> <<>>]
        /\ phase' = "load" /\ todo' = dat.infos
        /\ datNew' = NoFile /\ round' = "boot"
        /\ UNCHANGED <<dat, dump, failed>>
  BY DEF Crash
<1>2. Range(ourId') = {} /\ Range(forkId') = {} /\ Held' = {} /\ Known' = {} /\ KnownIds' = {}
  BY <1>1 DEF Range, Held, Known, KnownIds, NoMap
<1>3. IInv'
  <2>1. now' \in Nat \ {0}
    <3>1. IInv
      BY DEF BootInv
    <3>2. MaxTime \in Nat
      BY NumberAssumption
    <3> QED
      BY <1>1, <3>1, <3>2, Numbers
  <2>2. TypeOK'
    BY <1>1, <2>1, NumberAssumption, AddrAssumption DEF TypeOK, States, Known, NoMap
  <2>3. ThreadsInOrder' /\ TotIsFresh'
    BY <1>1, AddrAssumption DEF ThreadsInOrder, TotIsFresh
  <2>4. OneSlot'
    BY <1>1, <1>2 DEF OneSlot, NoRepeat
  <2>5. InFlightIsHeld'
    BY <1>1, <1>2 DEF InFlightIsHeld, NoRepeat, Range
  <2>6. MapsAgree' /\ BannedUnknown' /\ Proven'
    BY <1>1, <1>2 DEF MapsAgree, BannedUnknown, Proven
  <2> QED
    BY <2>2, <2>3, <2>4, <2>5, <2>6 DEF IInv
<1>4. RecordsSeasoned'
  BY <1>1 DEF RecordsSeasoned, NoMap
<1>5. FilesOK'
  BY <1>1, EmptyFile DEF BootInv, FilesOK
<1>6. LoadOK'
  <2>1. /\ dat.infos \in Seq(Saved) /\ OnePerIp(dat.infos) /\ Len(dat.infos) <= MaxId
        /\ Len(dat.infos) \in Nat
    BY DEF BootInv, FilesOK, FileOK
  <2> QED
    BY <1>1, <1>2, <2>1 DEF LoadOK
<1>7. WriteOK' /\ RoundsOK'
  BY <1>1 DEF BootInv, WriteOK, RoundsOK, Rounds
<1> QED
  BY <1>3, <1>4, <1>5, <1>6, <1>7 DEF BootInv

(* What is left when the first of a list of records is taken.              *)
LEMMA FirstRecord ==
  ASSUME NEW q \in Seq(Saved), q # <<>>, OnePerIp(q)
  PROVE  /\ Head(q) \in Saved /\ Tail(q) \in Seq(Saved) /\ OnePerIp(Tail(q))
         /\ Len(Tail(q)) = Len(q) - 1 /\ Len(q) \in Nat /\ Len(q) > 0
         /\ IpsOf(q) = IpsOf(Tail(q)) \cup {Head(q).ip}
         /\ Head(q).ip \notin IpsOf(Tail(q))
<1>1. /\ Len(q) \in Nat /\ Len(q) > 0 /\ DOMAIN q = 1..Len(q)
      /\ Head(q) = q[1] /\ Head(q) \in Saved
      /\ Tail(q) \in Seq(Saved) /\ Len(Tail(q)) = Len(q) - 1
      /\ DOMAIN Tail(q) = 1..(Len(q) - 1)
      /\ \A i \in 1..(Len(q) - 1) : Tail(q)[i] = q[i + 1]
  OBVIOUS
<1>2. \A i \in 1..(Len(q) - 1) : i + 1 \in 1..Len(q) /\ i + 1 # 1
  BY <1>1
<1>3. OnePerIp(Tail(q)) /\ \A i \in 1..(Len(q) - 1) : Tail(q)[i].ip # Head(q).ip
  BY <1>1, <1>2 DEF OnePerIp
<1>4. Head(q).ip \notin IpsOf(Tail(q))
  BY <1>1, <1>3 DEF IpsOf, Range
<1>5. IpsOf(Tail(q)) \cup {Head(q).ip} \subseteq IpsOf(q)
  BY <1>1, <1>2 DEF IpsOf, Range
<1>6. \A i \in 1..Len(q) : q[i].ip \in IpsOf(Tail(q)) \cup {Head(q).ip}
  <2>1. SUFFICES ASSUME NEW i \in 1..Len(q), i # 1
                 PROVE  q[i].ip \in IpsOf(Tail(q))
    BY <1>1
  <2>2. i - 1 \in 1..(Len(q) - 1) /\ (i - 1) + 1 = i
    BY <1>1, <2>1
  <2>3. Tail(q)[i - 1] = q[i]
    BY <1>1, <2>2
  <2> QED
    BY <1>1, <2>2, <2>3 DEF IpsOf, Range
<1> QED
  BY <1>1, <1>3, <1>4, <1>5, <1>6 DEF IpsOf, Range

(* One record read: a node with an id of its own, in ourId or in unkId.    *)
LEMMA EnteredFromFile ==
  ASSUME BootInv, phase = "load", NEW info \in Saved, info.ip \notin Known, nId < MaxId,
         nId' = nId + 1, idToInfo' = Put(idToInfo, nId, info),
         ipToId' = Put(ipToId, info.ip, nId), Enlist(nId, info),
         UNCHANGED <<forkId, inFlight, banned, lock, tot, pc, ips, now>>
  PROVE  IInv' /\ RecordsSeasoned'
<1>1. /\ IInv /\ RecordsSeasoned /\ lock = Free /\ forkId = <<>> /\ inFlight = {}
      /\ banned = NoMap /\ pc = [c \in Crawler |-> "idle"] /\ ips = [c \in Crawler |-> <<>>]
  BY DEF BootInv, LoadOK
<1>2. /\ info \in Info /\ info.ip \in Addr /\ Seasoned(info)
      /\ info.ourLastTry = 0 => info.ignoreTill = 0
  BY DEF Saved
<1>3. /\ nId \in Nat /\ nId' \in 0..MaxId
      /\ 0..nId - 1 \subseteq 0..nId' - 1 /\ nId \in 0..nId' - 1
  BY <1>1, Numbers
<1>4. /\ DOMAIN idToInfo' = DOMAIN idToInfo \cup {nId}
      /\ idToInfo' \in [DOMAIN idToInfo' -> Info] /\ idToInfo'[nId] = info
      /\ \A x \in DOMAIN idToInfo \ {nId} : idToInfo'[x] = idToInfo[x]
  BY <1>1, <1>2 DEF IInv, TypeOK, Put
<1>5. /\ Known' = Known \cup {info.ip} /\ ipToId'[info.ip] = nId
      /\ \A b \in Known : ipToId'[b] = ipToId[b]
  BY DEF Put, Known
<1>6. KnownIds' = KnownIds \cup {nId}
  BY <1>5 DEF KnownIds
<1>7. nId \notin KnownIds /\ \A x \in KnownIds : x \in DOMAIN idToInfo
  BY <1>1, <1>3, Correspond
<1>8. /\ unkId \subseteq KnownIds /\ Range(ourId) \subseteq KnownIds
      /\ goodId \subseteq KnownIds /\ ourId \in Seq(0..nId - 1) /\ NoRepeat(ourId)
  BY <1>1, Correspond DEF IInv, Proven, TypeOK, OneSlot
<1>9. ourId \in Seq(0..nId' - 1)
  <2> DEFINE S == 0..nId - 1
             T == 0..nId' - 1
  <2>1. S \subseteq T /\ ourId \in Seq(S)
    BY <1>3, <1>8
  <2> HIDE DEF S, T
  <2>2. ourId \in Seq(T)
    BY <2>1, SeqGrows
  <2> QED
    BY <2>2 DEF T
<1>10. /\ ourId' \in Seq(0..nId' - 1) /\ NoRepeat(ourId')
       /\ Range(ourId') \cup unkId' = Range(ourId) \cup unkId \cup {nId}
       /\ Range(ourId') \cap unkId' = {}
       /\ unkId' \subseteq unkId \cup {nId}
       /\ nId \in unkId' => info.ourLastTry = 0
       /\ goodId' \subseteq goodId \cup {nId}
       /\ nId \in goodId' => info.ourLastTry # 0 /\ IsGood(info)
  <2>1. CASE info.ourLastTry # 0
    <3>1. /\ ourId' = Append(ourId, nId) /\ unkId' = unkId
          /\ goodId' = IF IsGood(info) THEN goodId \cup {nId} ELSE goodId
      BY <2>1 DEF Enlist
    <3>2. nId \notin Range(ourId) /\ nId \notin unkId /\ nId \notin goodId
      BY <1>7, <1>8
    <3> DEFINE T == 0..nId' - 1
    <3>3. nId \in T /\ ourId \in Seq(T)
      BY <1>3, <1>9
    <3> HIDE DEF T
    <3>4. /\ ourId' \in Seq(T) /\ NoRepeat(ourId') /\ Range(ourId') = Range(ourId) \cup {nId}
      BY <1>8, <3>1, <3>2, <3>3, Pushed
    <3>5. Range(ourId) \cap unkId = {}
      BY <1>1 DEF IInv, OneSlot
    <3> QED
      BY <2>1, <3>1, <3>2, <3>4, <3>5 DEF T
  <2>2. CASE info.ourLastTry = 0
    <3>1. ourId' = ourId /\ unkId' = unkId \cup {nId} /\ goodId' = goodId
      BY <2>2 DEF Enlist
    <3>2. nId \notin Range(ourId) /\ nId \notin goodId
      BY <1>7, <1>8
    <3>3. Range(ourId) \cap unkId = {}
      BY <1>1 DEF IInv, OneSlot
    <3> QED
      BY <1>8, <1>9, <2>2, <3>1, <3>2, <3>3
  <2> QED
    BY <2>1, <2>2
<1>11. TypeOK'
  <2>1. ipToId' \in [Known' -> 0..nId' - 1] /\ Known' \subseteq Addr
    BY <1>1, <1>2, <1>3, <1>5 DEF IInv, TypeOK, Put, Known
  <2>2. DOMAIN idToInfo' \subseteq Int
    BY <1>1, <1>3, <1>4 DEF IInv, TypeOK
  <2>3. /\ unkId' \subseteq 0..nId' - 1 /\ goodId' \subseteq 0..nId' - 1
        /\ inFlight' \subseteq 0..nId' - 1
    <3>1. /\ unkId \subseteq 0..nId - 1 /\ goodId \subseteq 0..nId - 1
          /\ inFlight \subseteq 0..nId - 1
      BY <1>1 DEF IInv, TypeOK
    <3> QED
      BY <1>3, <1>10, <3>1
  <2>4. forkId' \in Seq(0..nId' - 1)
    BY <1>1
  <2>5. /\ banned' \in [DOMAIN banned' -> Nat] /\ DOMAIN banned' \subseteq Addr
        /\ lock' \in Crawler \cup {Free} /\ tot' \in Nat /\ pc' \in [Crawler -> States]
        /\ ips' \in [Crawler -> Seq(Addr)] /\ now' \in Nat \ {0}
    BY <1>1 DEF IInv, TypeOK
  <2> QED
    BY <1>3, <1>4, <1>10, <2>1, <2>2, <2>3, <2>4, <2>5 DEF TypeOK
<1>12. ThreadsInOrder' /\ TotIsFresh'
  BY <1>1, AddrAssumption DEF ThreadsInOrder, TotIsFresh
<1>13. MapsAgree'
  <2>1. \A b \in Known : ipToId[b] \in KnownIds
    BY DEF KnownIds
  <2> QED
    BY <1>1, <1>4, <1>5, <1>7, <2>1 DEF IInv, MapsAgree
<1>14. OneSlot'
  <2>1. Range(forkId') = {} /\ inFlight' = {} /\ NoRepeat(forkId')
    BY <1>1 DEF Range, NoRepeat
  <2>2. KnownIds = unkId \cup Range(ourId)
    <3>1. Range(forkId) = {}
      BY <1>1 DEF Range
    <3> QED
      BY <1>1, <3>1 DEF IInv, OneSlot
  <2> QED
    BY <1>6, <1>10, <2>1, <2>2 DEF OneSlot
<1>15. InFlightIsHeld' /\ BannedUnknown'
  <2>1. Held' = {} /\ inFlight' = {} /\ DOMAIN banned' = {}
    BY <1>1 DEF Held, Range, NoMap
  <2>2. \A c \in Crawler : ips'[c] = <<>>
    BY <1>1
  <2> QED
    BY <2>1, <2>2 DEF InFlightIsHeld, BannedUnknown, NoRepeat, Range
<1>16. Proven'
  <2>1. nId \in goodId' => info.success > 0
    <3>1. SUFFICES ASSUME info.ourLastTry # 0, IsGood(info) PROVE info.success > 0
      BY <1>10
    <3>2. info.total > 0 /\ info.total \in Nat /\ info.success \in Nat
      BY <1>2, <3>1, NumberAssumption DEF Seasoned, Info
    <3>3. info.success * 2 >= info.total \/ info.reliable
      BY <3>1 DEF IsGood
    <3> QED
      BY <1>2, <3>2, <3>3 DEF Seasoned
  <2>2. \A id \in goodId' \cap KnownIds' : idToInfo'[id].success > 0
    <3>1. \A id \in goodId : id \in KnownIds /\ idToInfo[id].success > 0
      BY <1>1, <1>8 DEF IInv, Proven
    <3> QED
      BY <1>4, <1>7, <1>10, <2>1, <3>1
  <2>3. \A id \in unkId' : idToInfo'[id].ourLastTry = 0 /\ idToInfo'[id].ignoreTill = 0
    <3>1. \A id \in unkId : idToInfo[id].ourLastTry = 0 /\ idToInfo[id].ignoreTill = 0
      BY <1>1 DEF IInv, Proven
    <3> QED
      BY <1>2, <1>4, <1>7, <1>8, <1>10, <3>1
  <2>4. Range(forkId') = {}
    BY <1>1 DEF Range
  <2> QED
    BY <1>6, <1>8, <1>10, <2>2, <2>3, <2>4 DEF Proven
<1>17. RecordsSeasoned'
  BY <1>1, <1>2, SeasonedPut
<1> QED
  BY <1>11, <1>12, <1>13, <1>14, <1>15, <1>16, <1>17 DEF IInv

LEMMA ReadInfoStep ==
  ASSUME BootInv, ReadInfo
  PROVE  BootInv'
<1> DEFINE info == Head(todo)
<1>1. /\ phase = "load" /\ todo # <<>> /\ todo' = Tail(todo)
      /\ UNCHANGED <<lock, tot, pc, ips, now, dat, datNew, dump, report, round, failed, phase>>
  BY DEF ReadInfo, dumpVars
<1>2. /\ todo \in Seq(Saved) /\ OnePerIp(todo) /\ IpsOf(todo) \cap Known = {}
      /\ IpsOf(todo) \cup Known \subseteq IpsOf(dat.infos)
      /\ nId + Len(todo) <= MaxId /\ nId \in Nat
  BY <1>1, Numbers DEF BootInv, LoadOK
<1>3. /\ info \in Saved /\ todo' \in Seq(Saved) /\ OnePerIp(todo')
      /\ Len(todo') = Len(todo) - 1 /\ Len(todo) \in Nat /\ Len(todo) > 0
      /\ IpsOf(todo) = IpsOf(todo') \cup {info.ip} /\ info.ip \notin IpsOf(todo')
  BY <1>1, <1>2, FirstRecord
<1>4. FilesOK'
  BY <1>1 DEF BootInv, FilesOK
<1>5. CASE UNCHANGED dbVars
  <2>1. IInv' /\ RecordsSeasoned' /\ Remembered' = Remembered
    BY <1>1, <1>5, DbKept DEF vars
  <2>2. UNCHANGED <<nId, ipToId, forkId, inFlight, banned>>
    BY <1>5 DEF dbVars, qVars
  <2>3. LoadOK'
    <3>1. Known' = Known
      BY <2>2 DEF Known
    <3> HIDE DEF info
    <3>2. nId' + Len(todo') <= MaxId
      BY <1>2, <1>3, <2>2, NumberAssumption
    <3> QED
      BY <1>1, <1>2, <1>3, <2>2, <3>1, <3>2 DEF BootInv, LoadOK
  <2>4. WriteOK' /\ RoundsOK'
    BY <1>1 DEF BootInv, WriteOK, RoundsOK, LoadOK
  <2> QED
    BY <1>4, <2>1, <2>3, <2>4 DEF BootInv
<1>6. CASE ~UNCHANGED dbVars
  <2>1. /\ nId' = nId + 1 /\ idToInfo' = Put(idToInfo, nId, info)
        /\ ipToId' = Put(ipToId, info.ip, nId) /\ Enlist(nId, info)
        /\ UNCHANGED <<forkId, inFlight, banned>>
    BY <1>6 DEF ReadInfo
  <2>2. info.ip \notin Known /\ nId < MaxId
    BY <1>2, <1>3, NumberAssumption
  <2> HIDE DEF info
  <2>3. IInv' /\ RecordsSeasoned'
    BY <1>1, <1>3, <2>1, <2>2, EnteredFromFile
  <2>4. Known' = Known \cup {info.ip}
    BY <2>1 DEF Known, Put
  <2>5. nId' + Len(todo') <= MaxId
    BY <1>2, <1>3, <2>1, NumberAssumption
  <2>6. LoadOK'
    BY <1>1, <1>2, <1>3, <2>1, <2>4, <2>5 DEF BootInv, LoadOK
  <2>7. WriteOK' /\ RoundsOK'
    BY <1>1 DEF BootInv, WriteOK, RoundsOK, LoadOK
  <2> QED
    BY <1>4, <2>3, <2>6, <2>7 DEF BootInv
<1> QED
  BY <1>5, <1>6

LEMMA ReadBannedStep ==
  ASSUME BootInv, ReadBanned
  PROVE  BootInv'
<1>1. /\ phase = "load" /\ phase' = "up" /\ banned' \in {NoMap, dat.banned}
      /\ UNCHANGED <<nId, idToInfo, ipToId, ourId, unkId, forkId, inFlight, goodId, lock, tot, pc,
                     ips, now, dat, datNew, dump, report, round, failed>>
  BY DEF ReadBanned, fWipeIgnore, qVars, dumpVars
<1>2. Known' = Known /\ KnownIds' = KnownIds /\ Held' = Held
  BY <1>1 DEF Known, KnownIds, Held
<1>3. /\ banned' \in [DOMAIN banned' -> Nat] /\ DOMAIN banned' \subseteq Addr
      /\ DOMAIN banned' \cap Known = {}
  <2>1. CASE banned' = NoMap
    BY <2>1 DEF NoMap
  <2>2. CASE banned' = dat.banned
    BY <1>1, <2>2 DEF BootInv, LoadOK, FilesOK, FileOK
  <2> QED
    BY <1>1, <2>1, <2>2
<1>4. IInv'
  <2>1. TypeOK' /\ BannedUnknown'
    BY <1>1, <1>2, <1>3 DEF BootInv, IInv, TypeOK, BannedUnknown
  <2>2. ThreadsInOrder' /\ TotIsFresh' /\ MapsAgree'
    BY <1>1, <1>2 DEF BootInv, IInv, ThreadsInOrder, TotIsFresh, MapsAgree
  <2>3. OneSlot' /\ InFlightIsHeld' /\ Proven'
    BY <1>1, <1>2 DEF BootInv, IInv, OneSlot, InFlightIsHeld, Proven
  <2> QED
    BY <2>1, <2>2, <2>3 DEF IInv
<1>5. RecordsSeasoned' /\ FilesOK' /\ LoadOK'
  BY <1>1 DEF BootInv, RecordsSeasoned, FilesOK, LoadOK
<1>6. WriteOK' /\ RoundsOK'
  BY <1>1 DEF BootInv, WriteOK, RoundsOK, LoadOK
<1> QED
  BY <1>4, <1>5, <1>6 DEF BootInv

LEMMA ReadTornStep ==
  ASSUME BootInv, ReadTorn
  PROVE  BootInv'
<1>1. /\ dat.torn /\ phase # "up" /\ phase' \in {"load", "dead"}
      /\ UNCHANGED <<vars, dat, datNew, dump, report, round, failed, todo>>
  BY DEF ReadTorn, dumpVars
<1>2. IInv' /\ RecordsSeasoned' /\ Remembered' = Remembered
  BY <1>1, DbKept
<1>3. FilesOK'
  BY <1>1 DEF BootInv, FilesOK
<1>4. LoadOK'
  <2>1. UNCHANGED <<nId, ipToId, forkId, inFlight, banned, lock, pc, ips>>
    BY <1>1 DEF vars, dbVars, qVars
  <2>2. Known' = Known
    BY <2>1 DEF Known
  <2> QED
    BY <1>1, <2>1, <2>2 DEF BootInv, LoadOK
<1>5. WriteOK' /\ RoundsOK'
  BY <1>1 DEF BootInv, WriteOK, RoundsOK, LoadOK
<1> QED
  BY <1>2, <1>3, <1>4, <1>5 DEF BootInv

LEMMA BootStep == BootInv /\ [BootNext]_<<vars, fileVars>> => BootInv'
<1> SUFFICES ASSUME BootInv, [BootNext]_<<vars, fileVars>> PROVE BootInv'
  OBVIOUS
<1>1. CASE UNCHANGED <<vars, fileVars>>
  <2>1. UNCHANGED <<vars, dat, datNew, toSave, dump, report, round, failed, phase, todo>>
    BY <1>1 DEF fileVars, dumpVars, bootVars
  <2>2. /\ IInv' /\ RecordsSeasoned' /\ Remembered' = Remembered
        /\ Known' = Known /\ KnownIds' = KnownIds
    BY <2>1, DbKept
  <2>3. UNCHANGED <<nId, ipToId, forkId, inFlight, banned, lock, pc, ips>>
    BY <2>1 DEF vars, dbVars, qVars
  <2>4. FilesOK' /\ LoadOK'
    BY <2>1, <2>3 DEF BootInv, FilesOK, LoadOK, Known
  <2>5. WriteOK' /\ RoundsOK'
    BY <2>1, <2>2, <2>3 DEF BootInv, WriteOK, RoundsOK
  <2> QED
    BY <2>2, <2>4, <2>5 DEF BootInv
<1>2. CASE Run         BY <1>2, RunStep
<1>3. CASE TakeReport  BY <1>3, TakeReportStep
<1>4. CASE Save        BY <1>4, SaveStep
<1>5. CASE WriteInfo   BY <1>5, WriteInfoStep
<1>6. CASE WriteBanned BY <1>6, WriteBannedStep
<1>7. CASE Close       BY <1>7, CloseStep
<1>8. CASE Rename      BY <1>8, RenameStep
<1>9. CASE WriteDump   BY <1>9, WriteDumpStep
<1>10. CASE Crash      BY <1>10, CrashStep
<1>11. CASE ReadInfo   BY <1>11, ReadInfoStep
<1>12. CASE ReadBanned BY <1>12, ReadBannedStep
<1>13. CASE ReadTorn   BY <1>13, ReadTornStep
<1> QED
  BY <1>1, <1>2, <1>3, <1>4, <1>5, <1>6, <1>7, <1>8, <1>9, <1>10, <1>11, <1>12, <1>13
  DEF BootNext, Dumper

(* The invariant everything below follows from.                            *)
THEOREM BootInductive == BootSpec => []BootInv
  BY BootInitially, BootStep, PTL DEF BootSpec

-----------------------------------------------------------------------------
(* What a restart gives back: while the file is read, the nodes in memory  *)
(* are the records read so far that are not due for a ban.                 *)

(* Node id comes from record at[id], one of the first n of the file.       *)
Matches(at, n) ==
  /\ Range(at) = {k \in 1..n : GetBanTime(dat.infos[k]) = 0}
  /\ \A i, j \in DOMAIN at : i < j => at[i] < at[j]
  /\ \A id \in DOMAIN at :
       LET info == dat.infos[at[id]]
       IN  /\ idToInfo[id] = info /\ info.ip \in Known /\ ipToId[info.ip] = id
           /\ id \in Range(ourId) <=> info.ourLastTry # 0
           /\ id \in unkId <=> info.ourLastTry = 0
           /\ id \in goodId <=> info.ourLastTry # 0 /\ IsGood(info)

NumRead == Len(dat.infos) - Len(todo)

Loading ==
  phase # "up" =>
    /\ NumRead \in Nat /\ \A k \in 1..Len(todo) : todo[k] = dat.infos[NumRead + k]
    /\ DOMAIN idToInfo = 0..nId - 1
    /\ \E at \in [0..nId - 1 -> 1..NumRead] : Matches(at, NumRead)
    /\ \A k, l \in DOMAIN ourId : k < l => ourId[k] < ourId[l]

(* Nothing read yet.                                                       *)
LEMMA LoadingStarts ==
  ASSUME BootInv, Crash
  PROVE  Loading'
<1>1. /\ nId' = 0 /\ idToInfo' = NoMap /\ ourId' = <<>> /\ todo' = dat.infos /\ dat' = dat
  BY DEF Crash
<1>2. dat.infos \in Seq(Saved) /\ Len(dat.infos) \in Nat
  BY DEF BootInv, FilesOK, FileOK
<1>3. NumRead' = 0 /\ \A k \in 1..Len(todo') : todo'[k] = dat'.infos[0 + k]
  BY <1>1, <1>2 DEF NumRead
<1>4. 0..nId' - 1 = {} /\ DOMAIN idToInfo' = {} /\ DOMAIN ourId' = {} /\ 1..0 = {}
  BY <1>1 DEF NoMap
<1> DEFINE at == [id \in {} |-> id]
<1>5. at \in [0..nId' - 1 -> 1..NumRead'] /\ DOMAIN at = {} /\ Range(at) = {}
  BY <1>3, <1>4 DEF Range
<1> HIDE DEF at
<1>6. Matches(at, NumRead)'
  BY <1>3, <1>4, <1>5 DEF Matches
<1>7. \E f \in [0..nId' - 1 -> 1..NumRead'] : Matches(f, NumRead)'
  BY <1>5, <1>6
<1> QED
  BY <1>3, <1>4, <1>7 DEF Loading

(* A record due for a ban is passed over.                                  *)
LEMMA PassedOver ==
  ASSUME NEW at, NEW n \in Nat, Matches(at, n), GetBanTime(dat.infos[n + 1]) # 0,
         UNCHANGED <<dat, idToInfo, ipToId, ourId, unkId, goodId>>
  PROVE  Matches(at, n + 1)'
<1>1. {k \in 1..n + 1 : GetBanTime(dat.infos[k]) = 0} = {k \in 1..n : GetBanTime(dat.infos[k]) = 0}
  <2>1. \A k : k \in 1..n + 1 <=> k \in 1..n \/ k = n + 1
    OBVIOUS
  <2> QED
    BY <2>1
<1>2. Range(at) = {k \in 1..n + 1 : GetBanTime(dat'.infos[k]) = 0}
  BY <1>1 DEF Matches
<1>3. /\ \A i, j \in DOMAIN at : i < j => at[i] < at[j]
      /\ \A id \in DOMAIN at :
           LET info == dat'.infos[at[id]]
           IN  /\ idToInfo'[id] = info /\ info.ip \in Known' /\ ipToId'[info.ip] = id
               /\ id \in Range(ourId') <=> info.ourLastTry # 0
               /\ id \in unkId' <=> info.ourLastTry = 0
               /\ id \in goodId' <=> info.ourLastTry # 0 /\ IsGood(info)
  BY DEF Matches, Known
<1> QED
  BY <1>2, <1>3 DEF Matches

(* Any other becomes the node with the next id, last in its queue.         *)
LEMMA Restored ==
  ASSUME BootInv, NEW n \in Nat, NEW at \in [0..nId - 1 -> 1..n], Matches(at, n),
         NEW info \in Saved, info = dat.infos[n + 1], GetBanTime(info) = 0,
         info.ip \notin Known, DOMAIN idToInfo = 0..nId - 1,
         \A k, l \in DOMAIN ourId : k < l => ourId[k] < ourId[l],
         nId' = nId + 1, idToInfo' = Put(idToInfo, nId, info),
         ipToId' = Put(ipToId, info.ip, nId), Enlist(nId, info), UNCHANGED dat
  PROVE  /\ DOMAIN idToInfo' = 0..nId' - 1
         /\ \E f \in [0..nId' - 1 -> 1..n + 1] : Matches(f, n + 1)'
         /\ \A k, l \in DOMAIN ourId' : k < l => ourId'[k] < ourId'[l]
<1>1. /\ nId \in Nat /\ ourId \in Seq(0..nId - 1) /\ unkId \subseteq 0..nId - 1
      /\ goodId \subseteq 0..nId - 1
  BY Numbers, Ids DEF BootInv
<1>2. \A x : x \in 0..nId' - 1 <=> x \in 0..nId - 1 \/ x = nId
  BY <1>1
<1>3. nId \notin 0..nId - 1 /\ n + 1 \notin 1..n
  BY <1>1
<1>4. DOMAIN idToInfo' = 0..nId' - 1
  BY <1>2 DEF Put
<1>5. PICK f \in [0..nId' - 1 -> 1..n + 1] :
        f[nId] = n + 1 /\ \A id \in 0..nId - 1 : f[id] = at[id] /\ f[id] \in 1..n
  <2> DEFINE g == [id \in 0..nId' - 1 |-> IF id = nId THEN n + 1 ELSE at[id]]
  <2>1. \A id \in 0..nId - 1 : id \in 0..nId' - 1 /\ id # nId /\ at[id] \in 1..n
    BY <1>2, <1>3
  <2>2. nId \in 0..nId' - 1 /\ n + 1 \in 1..n + 1 /\ 1..n \subseteq 1..n + 1
    BY <1>2
  <2>3. \A id \in 0..nId' - 1 : g[id] = IF id = nId THEN n + 1 ELSE at[id]
    OBVIOUS
  <2>4. \A id \in 0..nId' - 1 : g[id] \in 1..n + 1
    BY ONLY <1>2, <2>1, <2>2, <2>3
  <2>5. DOMAIN g = 0..nId' - 1 /\ g = [id \in 0..nId' - 1 |-> g[id]]
    OBVIOUS
  <2> HIDE DEF g
  <2>6. g \in [0..nId' - 1 -> 1..n + 1]
    BY ONLY <2>4, <2>5
  <2> QED
    BY ONLY <2>1, <2>2, <2>3, <2>6
<1>6. DOMAIN at = 0..nId - 1 /\ DOMAIN f = 0..nId' - 1
  BY <1>5
<1>7. Range(f) = {k \in 1..n + 1 : GetBanTime(dat'.infos[k]) = 0}
  <2>1. Range(f) = Range(at) \cup {n + 1}
    BY <1>2, <1>5, <1>6 DEF Range
  <2>2. Range(at) = {k \in 1..n : GetBanTime(dat.infos[k]) = 0}
    BY DEF Matches
  <2>3. \A k : k \in 1..n + 1 <=> k \in 1..n \/ k = n + 1
    OBVIOUS
  <2> QED
    BY <2>1, <2>2, <2>3
<1>8. \A i, j \in DOMAIN f : i < j => f[i] < f[j]
  <2>1. SUFFICES ASSUME NEW i \in DOMAIN f, NEW j \in DOMAIN f, i < j PROVE f[i] < f[j]
    OBVIOUS
  <2>2. i \in 0..nId - 1
    BY <1>1, <1>2, <1>5, <1>6, <2>1
  <2>3. CASE j = nId
    BY <1>5, <2>2, <2>3
  <2>4. CASE j \in 0..nId - 1
    BY <1>5, <1>6, <2>1, <2>2, <2>4 DEF Matches
  <2> QED
    BY <1>2, <1>5, <1>6, <2>3, <2>4
<1>9. nId \notin Range(ourId) /\ nId \notin unkId /\ nId \notin goodId
  BY <1>1, <1>3 DEF Range
<1>10. /\ Range(ourId') = IF info.ourLastTry # 0 THEN Range(ourId) \cup {nId} ELSE Range(ourId)
       /\ unkId' = IF info.ourLastTry # 0 THEN unkId ELSE unkId \cup {nId}
       /\ goodId' = IF info.ourLastTry # 0 /\ IsGood(info) THEN goodId \cup {nId} ELSE goodId
       /\ \A k, l \in DOMAIN ourId' : k < l => ourId'[k] < ourId'[l]
  <2>1. CASE info.ourLastTry # 0
    <3>1. /\ ourId' = Append(ourId, nId) /\ unkId' = unkId
          /\ goodId' = IF IsGood(info) THEN goodId \cup {nId} ELSE goodId
      BY <2>1 DEF Enlist
    <3> DEFINE T == 0..nId' - 1
    <3>2. nId \in T /\ \A x \in 0..nId - 1 : x \in T
      BY <1>2
    <3>3. 0..nId - 1 \subseteq T
      BY <3>2
    <3> HIDE DEF T
    <3>4. ourId \in Seq(T)
      <4> DEFINE S == 0..nId - 1
      <4>1. S \subseteq T /\ ourId \in Seq(S)
        BY <1>1, <3>3
      <4> HIDE DEF S
      <4> QED
        BY <4>1, SeqGrows
    <3>5. Range(ourId') = Range(ourId) \cup {nId}
      BY <3>1, <3>2, <3>4, Pushed
    <3>6. /\ Len(ourId) \in Nat /\ DOMAIN ourId = 1..Len(ourId)
          /\ DOMAIN ourId' = 1..(Len(ourId) + 1)
          /\ ourId'[Len(ourId) + 1] = nId
          /\ \A k \in 1..Len(ourId) : ourId'[k] = ourId[k] /\ ourId[k] < nId
      BY <1>1, <3>1
    <3>7. \A k, l \in DOMAIN ourId' : k < l => ourId'[k] < ourId'[l]
      <4>1. SUFFICES ASSUME NEW k \in DOMAIN ourId', NEW l \in DOMAIN ourId', k < l
                     PROVE  ourId'[k] < ourId'[l]
        OBVIOUS
      <4>2. k \in 1..Len(ourId)
        BY <3>6, <4>1
      <4>3. CASE l = Len(ourId) + 1
        BY <3>6, <4>2, <4>3
      <4>4. CASE l \in 1..Len(ourId)
        BY <3>6, <4>1, <4>2, <4>4
      <4>5. l \in 1..Len(ourId) \/ l = Len(ourId) + 1
        BY <3>6
      <4> QED
        BY <4>3, <4>4, <4>5
    <3> QED
      BY <2>1, <3>1, <3>5, <3>7
  <2>2. CASE info.ourLastTry = 0
    BY <2>2 DEF Enlist
  <2> QED
    BY <2>1, <2>2
<1>11. ASSUME NEW id \in DOMAIN f
       PROVE  LET r == dat'.infos[f[id]]
              IN  /\ idToInfo'[id] = r /\ r.ip \in Known' /\ ipToId'[r.ip] = id
                  /\ id \in Range(ourId') <=> r.ourLastTry # 0
                  /\ id \in unkId' <=> r.ourLastTry = 0
                  /\ id \in goodId' <=> r.ourLastTry # 0 /\ IsGood(r)
  <2>1. CASE id = nId
    <3>1. dat'.infos[f[id]] = info
      BY <1>5, <2>1
    <3>2. /\ idToInfo'[nId] = info /\ info.ip \in Known' /\ ipToId'[info.ip] = nId
      BY DEF Put, Known
    <3> QED
      BY <1>9, <1>10, <2>1, <3>1, <3>2
  <2>2. CASE id \in 0..nId - 1
    <3> DEFINE r == dat.infos[at[id]]
    <3>1. /\ idToInfo[id] = r /\ r.ip \in Known /\ ipToId[r.ip] = id
          /\ id \in Range(ourId) <=> r.ourLastTry # 0
          /\ id \in unkId <=> r.ourLastTry = 0
          /\ id \in goodId <=> r.ourLastTry # 0 /\ IsGood(r)
      BY <1>6, <2>2 DEF Matches
    <3>2. dat'.infos[f[id]] = r
      BY <1>5, <2>2
    <3> HIDE DEF r
    <3>3. id # nId
      BY <1>3, <2>2
    <3>4. idToInfo'[id] = r
      BY <2>2, <3>1, <3>3 DEF Put
    <3>5. r.ip \in Known' /\ ipToId'[r.ip] = id
      BY <3>1 DEF Put, Known
    <3>6. /\ id \in Range(ourId') <=> id \in Range(ourId)
          /\ id \in unkId' <=> id \in unkId
          /\ id \in goodId' <=> id \in goodId
      BY <1>10, <3>3
    <3> QED
      BY <3>1, <3>2, <3>4, <3>5, <3>6
  <2> QED
    BY <1>2, <1>5, <1>6, <2>1, <2>2
<1>12. Matches(f, n + 1)'
  BY ONLY <1>7, <1>8, <1>11 DEF Matches
<1>13. \E g \in [0..nId' - 1 -> 1..n + 1] : Matches(g, n + 1)'
  BY ONLY <1>5, <1>12
<1> QED
  BY <1>4, <1>10, <1>13

LEMMA LoadingGoesOn ==
  ASSUME BootInv, Loading, ReadInfo
  PROVE  Loading'
<1> DEFINE info == Head(todo)
<1> PICK n : n = NumRead
  OBVIOUS
<1>1. /\ phase = "load" /\ phase' = "load" /\ todo # <<>> /\ todo' = Tail(todo) /\ dat' = dat
  BY DEF ReadInfo, dumpVars
<1>2. todo \in Seq(Saved) /\ OnePerIp(todo) /\ IpsOf(todo) \cap Known = {}
  BY <1>1 DEF BootInv, LoadOK
<1>3. /\ info \in Saved /\ Len(todo') = Len(todo) - 1 /\ Len(todo) \in Nat /\ Len(todo) > 0
      /\ info.ip \in IpsOf(todo)
  BY <1>1, <1>2, FirstRecord
<1>4. Len(dat.infos) \in Nat
  BY DEF BootInv, FilesOK, FileOK
<1>5. /\ n \in Nat /\ \A k \in 1..Len(todo) : todo[k] = dat.infos[n + k]
      /\ DOMAIN idToInfo = 0..nId - 1
      /\ \A k, l \in DOMAIN ourId : k < l => ourId[k] < ourId[l]
  BY <1>1 DEF Loading
<1>6. PICK at \in [0..nId - 1 -> 1..n] : Matches(at, n)
  BY <1>1 DEF Loading
<1>7. NumRead' = n + 1
  BY <1>1, <1>3, <1>4 DEF NumRead
<1>8. info = dat.infos[n + 1]
  <2>1. info = todo[1] /\ 1 \in 1..Len(todo)
    BY <1>1, <1>2, <1>3
  <2> QED
    BY <1>5, <2>1
<1>9. NumRead' \in Nat /\ \A k \in 1..Len(todo') : todo'[k] = dat'.infos[NumRead' + k]
  <2>1. SUFFICES ASSUME NEW k \in 1..Len(todo')
                 PROVE  todo'[k] = dat'.infos[NumRead' + k]
    BY <1>5, <1>7
  <2>2. k + 1 \in 1..Len(todo) /\ todo'[k] = todo[k + 1]
    BY <1>1, <1>2, <1>3
  <2>3. n + (k + 1) = (n + 1) + k
    BY <1>5
  <2> QED
    BY <1>1, <1>5, <1>7, <2>2, <2>3
<1> HIDE DEF info
<1>10. /\ DOMAIN idToInfo' = 0..nId' - 1
       /\ \E f \in [0..nId' - 1 -> 1..n + 1] : Matches(f, n + 1)'
       /\ \A k, l \in DOMAIN ourId' : k < l => ourId'[k] < ourId'[l]
  <2>1. CASE GetBanTime(info) # 0
    <3>1. UNCHANGED <<nId, idToInfo, ipToId, ourId, unkId, goodId>>
      BY <2>1 DEF ReadInfo, info, dbVars, qVars
    <3>2. Matches(at, n + 1)'
      BY <1>1, <1>5, <1>6, <1>8, <2>1, <3>1, PassedOver
    <3>3. at \in [0..nId' - 1 -> 1..n + 1]
      BY <1>5, <1>6, <3>1
    <3> QED
      BY <1>5, <3>1, <3>2, <3>3
  <2>2. CASE GetBanTime(info) = 0
    <3>1. /\ nId' = nId + 1 /\ idToInfo' = Put(idToInfo, nId, info)
          /\ ipToId' = Put(ipToId, info.ip, nId) /\ Enlist(nId, info)
      BY <2>2 DEF ReadInfo, info
    <3>2. info.ip \notin Known
      BY <1>2, <1>3
    <3> QED
      BY <1>1, <1>3, <1>5, <1>6, <1>8, <2>2, <3>1, <3>2, Restored
  <2> QED
    BY <2>1, <2>2
<1>11. (\E f \in [0..nId - 1 -> 1..NumRead] : Matches(f, NumRead))'
  BY ONLY <1>7, <1>10
<1> QED
  BY <1>9, <1>10, <1>11 DEF Loading

LEMMA LoadingStep == BootInv /\ Loading /\ [BootNext]_<<vars, fileVars>> => Loading'
<1> SUFFICES ASSUME BootInv, Loading, [BootNext]_<<vars, fileVars>> PROVE Loading'
  OBVIOUS
<1>1. CASE phase' = "up"
  BY <1>1 DEF Loading
<1>2. CASE UNCHANGED <<vars, dat, todo>> /\ (phase = "up" => phase' = "up")
  <2>1. UNCHANGED <<nId, idToInfo, ipToId, ourId, unkId, goodId, dat, todo>>
    BY <1>2 DEF vars, dbVars, qVars
  <2>2. NumRead' = NumRead /\ Known' = Known
    BY <2>1 DEF NumRead, Known
  <2>3. ASSUME NEW at, NEW n, Matches(at, n)
        PROVE  Matches(at, n)'
    BY <2>1, <2>2, <2>3 DEF Matches
  <2> QED
    BY <1>2, <2>1, <2>2, <2>3 DEF Loading
<1>3. CASE Crash     BY <1>3, LoadingStarts
<1>4. CASE ReadInfo  BY <1>4, LoadingGoesOn
<1>5. Run \/ Dumper \/ ReadBanned => phase' = "up"
  BY DEF Run, Dumper, TakeReport, Save, WriteInfo, WriteBanned, Close, Rename, WriteDump,
         ReadBanned, fileVars, bootVars
<1>6. ReadTorn => UNCHANGED <<vars, dat, todo>> /\ (phase = "up" => phase' = "up")
  BY DEF ReadTorn, dumpVars
<1>7. UNCHANGED <<vars, fileVars>> => UNCHANGED <<vars, dat, todo, phase>>
  BY DEF fileVars, dumpVars, bootVars
<1> QED
  BY <1>1, <1>2, <1>3, <1>4, <1>5, <1>6, <1>7 DEF BootNext

(* The last record is read: the threads start.                             *)
LEMMA RestoresStep ==
  ASSUME BootInv, Loading, [BootNext]_<<vars, fileVars>>, phase = "load", phase' = "up"
  PROVE  \E at \in [DOMAIN idToInfo' -> DOMAIN dat.infos] :
           /\ Range(at) = {n \in DOMAIN dat.infos : GetBanTime(dat.infos[n]) = 0}
           /\ \A i, j \in DOMAIN at : i < j => at[i] < at[j]
           /\ \A id \in DOMAIN at :
                LET info == dat.infos[at[id]]
                IN  /\ idToInfo'[id] = info /\ ipToId'[info.ip] = id
                    /\ id \in Range(ourId') <=> info.ourLastTry # 0
                    /\ id \in unkId' <=> info.ourLastTry = 0
                    /\ id \in goodId' <=> info.ourLastTry # 0 /\ IsGood(info)
           /\ \A k, l \in DOMAIN ourId' : k < l => ourId'[k] < ourId'[l]
<1>1. ReadBanned
  BY DEF BootNext, Run, Dumper, TakeReport, Save, WriteInfo, WriteBanned, Close, Rename,
         WriteDump, Crash, ReadInfo, ReadTorn, fileVars, bootVars
<1>2. todo = <<>> /\ UNCHANGED <<idToInfo, ipToId, ourId, unkId, goodId>>
  BY <1>1 DEF ReadBanned, fWipeIgnore, qVars
<1>3. dat.infos \in Seq(Saved) /\ Len(dat.infos) \in Nat /\ DOMAIN dat.infos = 1..Len(dat.infos)
  BY DEF BootInv, FilesOK, FileOK
<1>4. NumRead = Len(dat.infos)
  BY <1>2, <1>3 DEF NumRead
<1>5. /\ DOMAIN idToInfo = 0..nId - 1
      /\ \A k, l \in DOMAIN ourId : k < l => ourId[k] < ourId[l]
  BY DEF Loading
<1>6. PICK at \in [0..nId - 1 -> 1..NumRead] : Matches(at, NumRead)
  BY DEF Loading
<1>7. at \in [DOMAIN idToInfo' -> DOMAIN dat.infos]
  BY <1>2, <1>3, <1>4, <1>5
<1>8. /\ Range(at) = {n \in DOMAIN dat.infos : GetBanTime(dat.infos[n]) = 0}
      /\ \A i, j \in DOMAIN at : i < j => at[i] < at[j]
      /\ \A id \in DOMAIN at :
           LET info == dat.infos[at[id]]
           IN  /\ idToInfo'[id] = info /\ ipToId'[info.ip] = id
               /\ id \in Range(ourId') <=> info.ourLastTry # 0
               /\ id \in unkId' <=> info.ourLastTry = 0
               /\ id \in goodId' <=> info.ourLastTry # 0 /\ IsGood(info)
  BY <1>2, <1>3, <1>4, <1>6 DEF Matches
<1>9. \A k, l \in DOMAIN ourId' : k < l => ourId'[k] < ourId'[l]
  BY <1>2, <1>5
<1> HIDE DEF Matches
<1> QED
  BY <1>7, <1>8, <1>9

-----------------------------------------------------------------------------
(* Results.                                                                *)

(* db.h:226-238, across restarts: whatever the crawlers, the dumper, a     *)
(* crash and the next start do, a known node is in one slot, once.         *)
THEOREM PartitionAcrossRestarts == BootSpec => []OneSlot
<1>1. BootInv => OneSlot
  BY DEF BootInv, IInv
<1> QED
  BY <1>1, BootInductive, PTL

(* A ban list written and read back never names a node that is known.      *)
THEOREM NoBannedNodeAcrossRestarts == BootSpec => []BannedUnknown
<1>1. BootInv => BannedUnknown
  BY DEF BootInv, IInv
<1> QED
  BY <1>1, BootInductive, PTL

(* db.h:398-403: what a restart puts into goodId has answered before.      *)
THEOREM ServedAreProvenAcrossRestarts == BootSpec => []Proven
<1>1. BootInv => Proven
  BY DEF BootInv, IInv
<1> QED
  BY <1>1, BootInductive, PTL

(* db.h:351-365: a save begun at any moment writes every known node, those *)
(* under test included, exactly once, ourId first.                         *)
THEOREM SnapshotIsExact == BootSpec => []SnapshotExact
<1>1. ASSUME BootInv PROVE SnapshotExact
  <2>1. /\ Range(SavedIds) = KnownIds /\ Len(SavedIds) = Cardinality(Known)
        /\ \A k \in DOMAIN ourId : SavedIds[k] = ourId[k]
    BY <1>1, SavedIdsHold DEF BootInv
  <2>2. \A id \in KnownIds : idToInfo[id].ip \in Known
    BY <1>1, Correspond DEF BootInv
  <2>3. \A a \in Known : ipToId[a] \in KnownIds /\ idToInfo[ipToId[a]].ip = a
    BY <1>1 DEF BootInv, IInv, MapsAgree, KnownIds
  <2>4. {idToInfo[id].ip : id \in Range(SavedIds)} = Known
    BY <2>1, <2>2, <2>3
  <2> QED
    BY <2>1, <2>4 DEF SnapshotExact
<1> QED
  BY <1>1, BootInductive, PTL

(* db.h:299-303: the dump lists every node that ever answered, once.       *)
THEOREM CensusIsExact == BootSpec => []CensusExact
<1>1. BootInv => CensusExact
  BY CensusHolds DEF BootInv, CensusExact
<1> QED
  BY <1>1, BootInductive, PTL

(* main.cpp:413-439: after a round in which no call failed, a node of      *)
(* dnsseed.dump has a record in dnsseed.dat or is on its ban list, however *)
(* many steps of the other threads lie between the two.                    *)
THEOREM FilesAgree == BootSpec => []DumpWithinDat
<1>1. BootInv => DumpWithinDat
  BY DEF BootInv, RoundsOK, DumpWithinDat, Listed, IpsOf
<1> QED
  BY <1>1, BootInductive, PTL

(* db.h:340-344 and main.cpp:415-421: whatever step the process dies at,   *)
(* the file the next one reads is whole and from one moment of the         *)
(* database, unless a close failed.                                        *)
THEOREM EveryFileIsOneMoment == BootSpec => []FileFromOneMoment
<1>1. ASSUME BootInv PROVE FileFromOneMoment
  <2>1. dat.torn \/ phase = "dead" => "close" \in failed
    BY <1>1 DEF BootInv, RoundsOK
  <2>2. OnePerIp(dat.infos) /\ IpsOf(dat.infos) \cap DOMAIN dat.banned = {}
    BY <1>1 DEF BootInv, FilesOK, FileOK
  <2>3. \A j \in DOMAIN dat.infos : dat.infos[j].ip \in IpsOf(dat.infos)
    BY DEF IpsOf, Range
  <2> QED
    BY <2>1, <2>2, <2>3 DEF FileFromOneMoment, OnePerIp
<1> QED
  BY <1>1, BootInductive, PTL

(* db.h:388-408: a restart gives back exactly the records of the file that *)
(* are not due for a ban, with their history, in the order of the file,    *)
(* and in the queues their history calls for.                              *)
THEOREM RestartRestores == BootSpec => Restores
<1>1. BootInit => Loading
  BY DEF BootInit, Loading
<1>2. BootSpec => [](BootInv /\ Loading)
  BY <1>1, BootInductive, LoadingStep, PTL DEF BootSpec
<1> DEFINE GivesBack ==
      \E at \in [DOMAIN idToInfo' -> DOMAIN dat.infos] :
        /\ Range(at) = {n \in DOMAIN dat.infos : GetBanTime(dat.infos[n]) = 0}
        /\ \A i, j \in DOMAIN at : i < j => at[i] < at[j]
        /\ \A id \in DOMAIN at :
             LET info == dat.infos[at[id]]
             IN  /\ idToInfo'[id] = info /\ ipToId'[info.ip] = id
                 /\ id \in Range(ourId') <=> info.ourLastTry # 0
                 /\ id \in unkId' <=> info.ourLastTry = 0
                 /\ id \in goodId' <=> info.ourLastTry # 0 /\ IsGood(info)
        /\ \A k, l \in DOMAIN ourId' : k < l => ourId'[k] < ourId'[l]
<1>3. BootInv /\ Loading /\ [BootNext]_<<vars, fileVars>>
        => [phase = "load" /\ phase' = "up" => GivesBack]_<<vars, fileVars>>
  BY RestoresStep
<1> QED
  BY <1>2, <1>3, PTL DEF BootSpec, Restores
=============================================================================
