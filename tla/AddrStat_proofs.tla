-------------------------- MODULE AddrStat_proofs --------------------------
(***************************************************************************)
(* Proofs about the decaying averages of a record, for any table of decays *)
(* and any sequence of tests.                                              *)
(***************************************************************************)
EXTENDS AddrStat, TLAPS

(* Decaying rounds down: what is left is no more than there was, nor than  *)
(* the factor times a whole.                                               *)
LEMMA Quotient ==
  ASSUME NEW p \in Nat, NEW u \in Nat \ {0}
  PROVE  p \div u \in Nat /\ u * (p \div u) <= p /\ p < u * (p \div u) + u
  OBVIOUS

LEMMA QuotientBound ==
  ASSUME NEW p \in Nat, NEW u \in Nat \ {0}, NEW x \in Nat, p <= u * x
  PROVE  p \div u <= x
<1> DEFINE q == p \div u
<1>1. q \in Nat /\ u * q <= p
  BY Quotient
<1> HIDE DEF q
<1>2. u * q <= u * x
  <2>1. u * q \in Nat /\ u * x \in Nat
    BY <1>1
  <2> QED
    BY <1>1, <2>1
<1>3. q <= x
  <2> SUFFICES ASSUME q >= x + 1 PROVE FALSE
    BY <1>1
  <2>1. u * q >= u * (x + 1)
    BY <1>1
  <2>2. u * (x + 1) = u * x + u
    OBVIOUS
  <2>3. u * x \in Nat /\ u * q \in Nat
    BY <1>1
  <2> QED
    BY <1>2, <2>1, <2>2, <2>3
<1> QED
  BY <1>3 DEF q

LEMMA OfLess ==
  ASSUME NEW x \in Nat, NEW f \in 0..Unit
  PROVE  /\ Of(x, f) \in Nat /\ Of(x, f) <= x /\ (x <= Unit => Of(x, f) <= f) /\ Of(0, f) = 0
<1>1. Unit \in Nat \ {0} /\ f \in Nat /\ f <= Unit
  BY StatAssumption
<1>2. x * f \in Nat /\ Of(x, f) = (x * f) \div Unit
  BY <1>1 DEF Of
<1>3. Of(x, f) \in Nat
  BY <1>1, <1>2, Quotient
<1>4. Of(x, f) <= x
  <2>1. x * f <= Unit * x
    BY <1>1
  <2> QED
    BY <1>1, <1>2, <2>1, QuotientBound
<1>5. ASSUME x <= Unit PROVE Of(x, f) <= f
  <2>1. x * f <= Unit * f
    BY <1>1, <1>5
  <2> QED
    BY <1>1, <1>2, <2>1, QuotientBound
<1>6. Of(0, f) = 0
  <2>1. 0 * f = 0
    BY <1>1
  <2>2. 0 \div Unit = 0
    BY <1>1
  <2> QED
    BY <2>1, <2>2 DEF Of
<1> QED
  BY <1>3, <1>4, <1>5, <1>6

LEMMA OfGrows ==
  ASSUME NEW x \in Nat, NEW y \in Nat, x <= y, NEW f \in 0..Unit
  PROVE  Of(x, f) <= Of(y, f)
<1> DEFINE q == (y * f) \div Unit
<1>1. Unit \in Nat \ {0} /\ f \in Nat
  BY StatAssumption
<1>2. x * f \in Nat /\ y * f \in Nat /\ x * f <= y * f
  BY <1>1
<1>3. q \in Nat /\ y * f < Unit * q + Unit
  BY <1>1, <1>2, Quotient
<1> DEFINE r == (x * f) \div Unit
<1>4. r \in Nat /\ Unit * r <= x * f
  BY <1>1, <1>2, Quotient
<1> DEFINE xf == x * f
           yf == y * f
<1> HIDE DEF q, r, xf, yf
<1>5. r <= q
  <2> SUFFICES ASSUME r >= q + 1 PROVE FALSE
    BY <1>3, <1>4
  <2>1. Unit * r >= Unit * (q + 1)
    BY <1>1, <1>3, <1>4
  <2>2. Unit * (q + 1) = Unit * q + Unit
    BY <1>1, <1>3
  <2>3. xf \in Nat /\ yf \in Nat /\ xf <= yf /\ Unit * r <= xf /\ yf < Unit * q + Unit
    BY <1>2, <1>3, <1>4 DEF xf, yf
  <2>4. Unit * r \in Nat /\ Unit * q \in Nat
    BY <1>1, <1>3, <1>4
  <2> QED
    BY <1>1, <2>1, <2>2, <2>3, <2>4
<1> QED
  BY <1>5 DEF Of, q, r

(* What one average keeps after total tests, success of them good: the     *)
(* reliability lies between nothing and the weight, and is one of them     *)
(* when all the tests went the same way; count is at most the tests.       *)
Kept(s, all, good) ==
  /\ s \in [reliability : Nat, count : Nat, weight : Nat]
  /\ s.reliability <= s.weight /\ s.weight <= Unit /\ s.count <= all * Unit
  /\ good = 0 => s.reliability = 0
  /\ good = all => s.reliability = s.weight

StatInv ==
  /\ total \in Nat /\ success \in Nat /\ success <= total
  /\ stat \in [Averages -> [reliability : Nat, count : Nat, weight : Nat]]
  /\ \A a \in Averages : Kept(stat[a], total, success)

LEMMA AverageKept ==
  ASSUME NEW s, NEW all \in Nat, NEW ok \in Nat, ok <= all, Kept(s, all, ok),
         NEW f \in 0..Unit, NEW good \in BOOLEAN
  PROVE  Kept(Averaged(s, good, f), all + 1, ok + (IF good THEN 1 ELSE 0))
<1> DEFINE r == Of(s.reliability, f)
           w == Of(s.weight, f)
           c == Of(s.count, f)
           t == Averaged(s, good, f)
<1>1. Unit \in Nat \ {0} /\ f \in Nat /\ f <= Unit
  BY StatAssumption
<1>2. /\ s.reliability \in Nat /\ s.count \in Nat /\ s.weight \in Nat
      /\ s.reliability <= s.weight /\ s.weight <= Unit /\ s.count <= all * Unit
  BY DEF Kept
<1>3. r \in Nat /\ w \in Nat /\ c \in Nat /\ w <= f /\ c <= s.count
  BY <1>2, OfLess
<1>4. r <= w
  BY <1>2, OfGrows
<1>5. ok = 0 => r = 0
  BY OfLess DEF Kept
<1>6. ok = all => r = w
  BY DEF Kept
<1>7. /\ t.reliability = r + (IF good THEN Unit - f ELSE 0)
      /\ t.count = c + Unit /\ t.weight = w + Unit - f
      /\ t = [reliability |-> t.reliability, count |-> t.count, weight |-> t.weight]
  BY DEF Averaged
<1> HIDE DEF r, w, c, t
<1>8. t.reliability \in Nat /\ t.count \in Nat /\ t.weight \in Nat
  BY <1>1, <1>3, <1>7
<1>9. t.reliability <= t.weight /\ t.weight <= Unit
  BY <1>1, <1>3, <1>4, <1>7
<1>10. t.count <= (all + 1) * Unit
  <2>1. (all + 1) * Unit = all * Unit + Unit /\ all * Unit \in Nat
    BY <1>1
  <2> QED
    BY <1>1, <1>2, <1>3, <1>7, <2>1
<1>11. ok + (IF good THEN 1 ELSE 0) = 0 => t.reliability = 0
  BY <1>5, <1>7
<1>12. ok + (IF good THEN 1 ELSE 0) = all + 1 => t.reliability = t.weight
  <2> SUFFICES ASSUME ok + (IF good THEN 1 ELSE 0) = all + 1 PROVE t.reliability = t.weight
    OBVIOUS
  <2>1. good /\ ok = all
    OBVIOUS
  <2> QED
    BY <1>1, <1>3, <1>6, <1>7, <2>1
<1>13. t \in [reliability : Nat, count : Nat, weight : Nat]
  BY <1>7, <1>8
<1> QED
  BY <1>9, <1>10, <1>11, <1>12, <1>13 DEF Kept, t

LEMMA StatStart == StatInit => StatInv
<1> SUFFICES ASSUME StatInit PROVE StatInv
  OBVIOUS
<1>1. Kept(Untested, 0, 0)
  <2>1. Unit \in Nat /\ 0 * Unit = 0
    BY StatAssumption
  <2> QED
    BY <2>1 DEF Kept, Untested
<1> QED
  BY <1>1 DEF StatInit, StatInv, Kept, Untested

LEMMA StatStep == StatInv /\ [StatNext]_statVars => StatInv'
<1> SUFFICES ASSUME StatInv, [StatNext]_statVars PROVE StatInv'
  OBVIOUS
<1>1. ASSUME NEW good \in BOOLEAN, NEW age \in Ages, Update(good, age) PROVE StatInv'
  <2> DEFINE f == Decay[IF total = 0 THEN First ELSE age]
  <2>1. \A a \in Averages : f[a] \in 0..Unit
    <3>1. (IF total = 0 THEN First ELSE age) \in DOMAIN Decay
      BY StatAssumption
    <3>2. f \in [Averages -> 0..Unit]
      BY <3>1, StatAssumption
    <3> QED
      BY <3>2
  <2>2. /\ stat' = [a \in Averages |-> Averaged(stat[a], good, f[a])]
        /\ total' = total + 1 /\ success' = success + (IF good THEN 1 ELSE 0)
    BY <1>1 DEF Update
  <2> HIDE DEF f
  <2>3. \A a \in Averages : Kept(stat'[a], total', success')
    BY <2>1, <2>2, AverageKept DEF StatInv
  <2>4. total' \in Nat /\ success' \in Nat /\ success' <= total'
    BY <2>2 DEF StatInv
  <2>5. stat' \in [Averages -> [reliability : Nat, count : Nat, weight : Nat]]
    BY <2>2, <2>3 DEF Kept
  <2> QED
    BY <2>3, <2>4, <2>5 DEF StatInv
<1>2. CASE UNCHANGED statVars
  BY <1>2 DEF StatInv, statVars
<1> QED
  BY <1>1, <1>2 DEF StatNext

LEMMA SeenOften ==
  ASSUME StatInv, NEW a \in Averages, NEW n \in Nat, Seen(a, n)
  PROVE  total > n
<1>1. Unit \in Nat \ {0} /\ total \in Nat /\ stat[a].count \in Nat
  BY StatAssumption DEF StatInv
<1>2. stat[a].count <= total * Unit /\ stat[a].count > n * Unit
  BY DEF StatInv, Kept, Seen
<1> SUFFICES ASSUME total <= n PROVE FALSE
  BY <1>1
<1>3. total * Unit <= n * Unit /\ total * Unit \in Nat /\ n * Unit \in Nat
  BY <1>1
<1> QED
  BY <1>1, <1>2, <1>3

LEMMA SeenLess ==
  ASSUME StatInv, NEW a \in Averages, NEW m \in Nat, NEW n \in Nat, m <= n, Seen(a, n)
  PROVE  Seen(a, m)
<1>1. Unit \in Nat /\ stat[a].count \in Nat
  BY StatAssumption DEF StatInv
<1>2. m * Unit <= n * Unit /\ m * Unit \in Nat /\ n * Unit \in Nat
  BY <1>1
<1> QED
  BY <1>1, <1>2 DEF Seen

LEMMA PoorMore ==
  ASSUME StatInv, NEW a \in Averages, NEW m \in Nat, NEW n \in Nat, m <= n, Poor(a, m)
  PROVE  Poor(a, n)
<1>1. Unit \in Nat /\ stat[a].reliability \in Nat /\ stat[a].weight \in Nat
  BY StatAssumption DEF StatInv
<1>2. m * Unit <= n * Unit /\ m * Unit \in Nat /\ n * Unit \in Nat
  BY <1>1
<1> QED
  BY <1>1, <1>2 DEF Poor

(* A share of the tests above nothing needs a good one, and a share below  *)
(* all of them a bad one.                                                  *)
LEMMA OneOfEach ==
  ASSUME StatInv, NEW a \in Averages, NEW n \in 0..100
  PROVE  (Percent(a, n) => success > 0) /\ (Poor(a, n) => success < total)
<1>1. /\ Unit \in Nat \ {0} /\ stat[a].reliability \in Nat /\ stat[a].weight \in Nat
      /\ total \in Nat /\ success \in Nat /\ success <= total
  BY StatAssumption DEF StatInv
<1>2. n * Unit \in Nat /\ n * Unit <= 100 * Unit
  BY <1>1
<1>3. success = 0 => stat[a].reliability = 0
  BY DEF StatInv, Kept
<1>4. success = total => stat[a].reliability = stat[a].weight
  BY DEF StatInv, Kept
<1>5. Percent(a, n) => success > 0
  BY <1>1, <1>2, <1>3 DEF Percent
<1>6. Poor(a, n) => success < total
  BY <1>1, <1>2, <1>4 DEF Poor
<1> QED
  BY <1>5, <1>6

(* db.h:120-145: whatever the decays and the ages of the tests, no node is *)
(* reliable or condemned before its third test, or banned before its       *)
(* ninth; the reliable one has answered, the condemned one has failed; and *)
(* a ban is always a reason to be set aside.                               *)
THEOREM VerdictsAreSound == StatSpec => []VerdictsSound
<1>1. StatInv => VerdictsSound
  <2> SUFFICES ASSUME StatInv PROVE VerdictsSound
    OBVIOUS
  <2>1. "2H" \in Averages /\ "8H" \in Averages /\ "1D" \in Averages /\ "1W" \in Averages /\ "1M" \in Averages
    BY DEF Averages
  <2>2. ASSUME Reliable PROVE total > 2 /\ success > 0
    <3>1. \E a \in Averages, n \in {2, 4, 8, 16, 32}, p \in {85, 70, 55, 45, 35} : Percent(a, p) /\ Seen(a, n)
      BY <2>1, <2>2 DEF Reliable
    <3>2. PICK a \in Averages, n \in {2, 4, 8, 16, 32}, p \in {85, 70, 55, 45, 35} : Percent(a, p) /\ Seen(a, n)
      BY <3>1
    <3>3. n \in Nat /\ n >= 2 /\ p \in 0..100 /\ total \in Nat
      BY DEF StatInv
    <3> QED
      BY <3>2, <3>3, SeenOften, OneOfEach
  <2>3. ASSUME Ignored PROVE total > 2 /\ success < total
    <3>1. PICK a \in Averages, p \in {20, 16, 12, 8} : Poor(a, p) /\ Seen(a, 2)
      BY <2>1, <2>3 DEF Ignored
    <3>2. p \in 0..100
      OBVIOUS
    <3> QED
      BY <3>1, <3>2, SeenOften, OneOfEach
  <2>4. ASSUME Banned PROVE total > 8 /\ Ignored
    <3>1. CASE Poor("1M", 15) /\ Seen("1M", 32)
      <4>1. total > 32
        BY <2>1, <3>1, SeenOften
      <4>2. Poor("1M", 20) /\ Seen("1M", 2)
        BY <2>1, <3>1, PoorMore, SeenLess
      <4> QED
        BY <4>1, <4>2 DEF Ignored, StatInv
    <3>2. CASE Poor("1W", 10) /\ Seen("1W", 16)
      <4>1. total > 16
        BY <2>1, <3>2, SeenOften
      <4>2. Poor("1W", 16) /\ Seen("1W", 2)
        BY <2>1, <3>2, PoorMore, SeenLess
      <4> QED
        BY <4>1, <4>2 DEF Ignored, StatInv
    <3>3. CASE Poor("1D", 5) /\ Seen("1D", 8)
      <4>1. total > 8
        BY <2>1, <3>3, SeenOften
      <4>2. Poor("1D", 12) /\ Seen("1D", 2)
        BY <2>1, <3>3, PoorMore, SeenLess
      <4> QED
        BY <4>1, <4>2 DEF Ignored
    <3> QED
      BY <2>4, <3>1, <3>2, <3>3 DEF Banned
  <2> QED
    BY <2>2, <2>3, <2>4 DEF VerdictsSound
<1> QED
  BY <1>1, StatStart, StatStep, PTL DEF StatSpec
-----------------------------------------------------------------------------
(* Nonlinear steps the solver does not find by itself.                     *)
LEMMA Products ==
  ASSUME NEW a \in Nat, NEW b \in Nat, NEW c \in Nat, NEW d \in Nat, a >= c, b >= d
  PROVE  a * b \in Nat /\ c * d \in Nat /\ a * b >= c * d
<1>1. a * b \in Nat /\ c * d \in Nat /\ c * b \in Nat
  OBVIOUS
<1>2. a * b >= c * b
  OBVIOUS
<1>3. c * b >= c * d
  OBVIOUS
<1> QED
  BY <1>1, <1>2, <1>3

LEMMA Cancel ==
  ASSUME NEW u \in Nat \ {0}, NEW a \in Int, NEW b \in Int, u * a >= u * b
  PROVE  a >= b
<1> SUFFICES ASSUME b >= a + 1 PROVE FALSE
  OBVIOUS
<1>1. u * b >= u * (a + 1)
  OBVIOUS
<1>2. u * (a + 1) = u * a + u
  OBVIOUS
<1> QED
  BY <1>1, <1>2

(* What the decay leaves, from below.                                      *)
LEMMA OfMore ==
  ASSUME NEW x \in Nat, NEW f \in 0..Unit
  PROVE  Of(x, f) \in Nat /\ Unit * Of(x, f) + Unit > x * f /\ x * f \in Nat
<1>1. Unit \in Nat \ {0} /\ f \in Nat /\ x * f \in Nat
  BY StatAssumption
<1> QED
  BY <1>1, Quotient DEF Of

(* In parts of ten thousand: x is at least m, the decay f is that of an    *)
(* age between MIN_RETRY and 83 minutes, and one such answer takes a count *)
(* or a reliability from at least l to at least m.                         *)
Shares == 0..10000
AtLeast(x, m) == 10000 * x >= m * Unit
QuickDecay(f) == 10000 * f >= 5007 * Unit /\ 10000 * f <= 8704 * Unit
CountLeads(l, m) == 10000 * m <= 5007 * l + 99950000
ReliableLeads(l, m) == 10000 * m <= 99950000 - 8704 * (10000 - l)

LEMMA CountStep ==
  ASSUME NEW c \in Nat, NEW f \in 0..Unit, NEW l \in Nat, NEW m \in Nat,
         QuickDecay(f), AtLeast(c, l), CountLeads(l, m)
  PROVE  AtLeast(Of(c, f) + Unit, m)
<1> USE DEF QuickDecay, AtLeast, CountLeads
<1> DEFINE q == Of(c, f)
           P == c * f
           X == l * Unit
           Y == m * Unit
<1>1. Unit \in Nat \ {0} /\ Unit >= 2000 /\ f \in Nat /\ X \in Nat /\ Y \in Nat
  BY StatAssumption, QuickAssumption
<1>2. q \in Nat /\ P \in Nat /\ Unit * q + Unit > P
  BY <1>1, OfMore DEF Of
<1>3. 100000000 * P >= 5007 * (X * Unit)
  <2>1. (10000 * c) * (10000 * f) >= X * (5007 * Unit)
    BY <1>1, Products
  <2>2. (10000 * c) * (10000 * f) = 100000000 * P
    BY <1>1
  <2>3. X * (5007 * Unit) = 5007 * (X * Unit)
    BY <1>1
  <2> QED
    BY <2>1, <2>2, <2>3
<1> HIDE DEF q, P, X, Y
<1>4. 100000000 * q + 100000000 >= 5007 * X
  <2>1. 100000000 * (Unit * q) + 100000000 * Unit >= 5007 * (X * Unit)
    <3> DEFINE A == Unit * q
               B == X * Unit
    <3>1. A \in Nat /\ B \in Nat /\ A + Unit > P /\ 100000000 * P >= 5007 * B
      BY <1>1, <1>2, <1>3
    <3> HIDE DEF A, B
    <3> QED
      BY <1>1, <1>2, <3>1 DEF A, B
  <2>2. Unit * (100000000 * q + 100000000) >= Unit * (5007 * X)
    <3>1. /\ Unit * (100000000 * q + 100000000) = 100000000 * (Unit * q) + 100000000 * Unit
          /\ Unit * (5007 * X) = 5007 * (X * Unit)
      BY <1>1, <1>2
    <3> QED
      BY <2>1, <3>1
  <2> QED
    BY <1>1, <1>2, <2>2, Cancel
<1>5. 10000 * Y <= 5007 * X + 99950000 * Unit
  <2>1. Unit * (5007 * l + 99950000) >= Unit * (10000 * m)
    BY <1>1, Products
  <2>2. /\ Unit * (5007 * l + 99950000) = 5007 * X + 99950000 * Unit
        /\ Unit * (10000 * m) = 10000 * Y
    BY <1>1 DEF X, Y
  <2> QED
    BY <2>1, <2>2
<1>6. 10000 * (q + Unit) >= Y
  BY <1>1, <1>2, <1>4, <1>5
<1> QED
  BY <1>6 DEF q, Y

LEMMA ReliableStep ==
  ASSUME NEW r \in 0..Unit, NEW f \in 0..Unit, NEW l \in Shares, NEW m \in Nat,
         QuickDecay(f), AtLeast(r, l), ReliableLeads(l, m)
  PROVE  AtLeast(Of(r, f) + Unit - f, m)
<1> USE DEF Shares, QuickDecay, AtLeast, ReliableLeads
<1> DEFINE q == Of(r, f)
           P == (Unit - r) * f
           X == (10000 - l) * Unit
           Y == m * Unit
           z == q + Unit - f
<1>1. /\ Unit \in Nat \ {0} /\ Unit >= 2000 /\ f \in Nat /\ r \in Nat /\ Unit - r \in Nat /\ 10000 - l \in Nat
      /\ l \in Nat
  <2>1. Unit \in Nat \ {0} /\ Unit >= 2000
    BY StatAssumption, QuickAssumption
  <2> QED
    BY <2>1 DEF Shares
<1>2. q \in Nat /\ r * f \in Nat /\ Unit * q + Unit > r * f
  BY <1>1, OfMore
<1>3. X \in Nat /\ Y \in Nat /\ P \in Nat /\ z \in Int
  BY <1>1, <1>2
<1>4. 10000 * (Unit - r) <= X
  <2>1. X = 10000 * Unit - l * Unit /\ l * Unit \in Nat
    BY <1>1
  <2> QED
    BY <1>1, <2>1
<1>5. 100000000 * P <= 8704 * (X * Unit)
  <2>1. (10000 * (Unit - r)) * (10000 * f) <= X * (8704 * Unit)
    <3> HIDE DEF X
    <3> QED
      BY <1>1, <1>3, <1>4, Products
  <2>2. (10000 * (Unit - r)) * (10000 * f) = 100000000 * P
    BY <1>1
  <2>3. X * (8704 * Unit) = 8704 * (X * Unit)
    <3> HIDE DEF X
    <3> QED
      BY <1>1, <1>3
  <2> HIDE DEF X, P
  <2> QED
    BY <2>1, <2>2, <2>3
<1>6. Unit * z + Unit > Unit * Unit - P
  <2>1. Unit * z = Unit * q + Unit * Unit - Unit * f
    BY <1>1, <1>2
  <2>2. P = Unit * f - r * f
    BY <1>1
  <2> HIDE DEF z, P
  <2>3. Unit * f \in Nat /\ Unit * q \in Nat /\ Unit * Unit \in Nat
    BY <1>1, <1>2
  <2> QED
    BY <1>1, <1>2, <2>1, <2>2, <2>3
<1> HIDE DEF q, P, X, Y, z
<1>7. 100000000 * z + 100000000 >= 100000000 * Unit - 8704 * X
  <2> DEFINE A == Unit * z
             B == X * Unit
             C == Unit * Unit
  <2>1. A \in Int /\ B \in Nat /\ C \in Nat /\ A + Unit > C - P /\ 100000000 * P <= 8704 * B
    BY <1>1, <1>3, <1>5, <1>6
  <2> HIDE DEF A, B, C
  <2>2. 100000000 * A + 100000000 * Unit >= 100000000 * C - 8704 * B
    BY <1>1, <1>3, <2>1
  <2>3. /\ Unit * (100000000 * z + 100000000) = 100000000 * A + 100000000 * Unit
        /\ Unit * (100000000 * Unit - 8704 * X) = 100000000 * C - 8704 * B
    BY <1>1, <1>3 DEF A, B, C
  <2>4. Unit * (100000000 * z + 100000000) >= Unit * (100000000 * Unit - 8704 * X)
    BY <2>2, <2>3
  <2>5. 100000000 * z + 100000000 \in Int /\ 100000000 * Unit - 8704 * X \in Int
    BY <1>1, <1>3
  <2> QED
    BY <1>1, <2>4, <2>5, Cancel
<1>8. 10000 * Y <= 99950000 * Unit - 8704 * X
  <2>1. Unit * (99950000 - 8704 * (10000 - l)) >= Unit * (10000 * m)
    <3>1. 99950000 - 8704 * (10000 - l) \in Nat
      BY <1>1
    <3> QED
      BY <1>1, <3>1, Products
  <2>2. /\ Unit * (99950000 - 8704 * (10000 - l)) = 99950000 * Unit - 8704 * X
        /\ Unit * (10000 * m) = 10000 * Y
    BY <1>1 DEF X, Y
  <2> QED
    BY <2>1, <2>2
<1>9. 10000 * z >= Y
  BY <1>1, <1>3, <1>7, <1>8
<1> QED
  BY <1>9 DEF z, q, Y

(* How often an average of two hours has counted, and how reliable it is,  *)
(* in parts of ten thousand, after one, two, ... fourteen answers whose    *)
(* ages lie between MIN_RETRY and 83 minutes, at least.                    *)
CountAfter == <<9995, 14999, 17504, 18759, 19387, 19702, 19859,
                19938, 19977, 19997, 20007, 20012, 20015, 20016>>
ReliableAfter == <<1291, 2414, 3392, 4243, 4984, 5629, 6190,
                   6678, 7103, 7473, 7795, 8075, 8319, 8531>>

Least14(n) == IF n < 14 THEN n ELSE 14

(* What a row of good answers at quick ages leaves in the averages of two  *)
(* hours: at least the table, however it began.                            *)
RunInv ==
  /\ total \in Nat /\ run \in Nat
  /\ (total = 0 => last[1] = FALSE) /\ (total > 0 => run > 0)
  /\ last \in BOOLEAN \X ({First} \cup Ages)
  /\ last[1] /\ last[2] \in Quick =>
       /\ AtLeast(stat["2H"].count, CountAfter[Least14(run)])
       /\ AtLeast(stat["2H"].reliability, ReliableAfter[Least14(run)])

LEMMA Tables ==
  /\ CountAfter[1] = 9995 /\ ReliableAfter[1] = 1291
  /\ CountAfter[14] = 20016 /\ ReliableAfter[14] = 8531
  /\ \A k \in 1..14 : CountAfter[k] \in Nat /\ ReliableAfter[k] \in Shares /\ ReliableAfter[k] \in Nat
BY SMT DEF CountAfter, ReliableAfter, Shares

LEMMA Rows ==
  ASSUME NEW k \in 1..13
  PROVE  CountLeads(CountAfter[k], CountAfter[k + 1]) /\ ReliableLeads(ReliableAfter[k], ReliableAfter[k + 1])
BY SMT DEF CountAfter, ReliableAfter, CountLeads, ReliableLeads

LEMMA LastRow == CountLeads(20016, 20016) /\ ReliableLeads(8531, 8531)
BY SMT DEF CountLeads, ReliableLeads

LEMMA RunStart == StatInit => RunInv
<1> SUFFICES ASSUME StatInit PROVE RunInv
  OBVIOUS
<1>1. total = 0 /\ run = 0 /\ last = <<FALSE, First>>
  BY DEF StatInit
<1>2. last \in BOOLEAN \X ({First} \cup Ages)
  BY <1>1
<1>3. last[1] = FALSE
  BY <1>1
<1> QED
  BY <1>1, <1>2, <1>3 DEF RunInv

(* The fourteenth row holds from then on.                                  *)
LEMMA NextRow ==
  ASSUME NEW n \in Nat \ {0}
  PROVE  /\ Least14(n) \in 1..14 /\ Least14(n + 1) \in 1..14
         /\ CountLeads(CountAfter[Least14(n)], CountAfter[Least14(n + 1)])
         /\ ReliableLeads(ReliableAfter[Least14(n)], ReliableAfter[Least14(n + 1)])
<1>1. CASE n < 14
  <2>1. n \in 1..13 /\ n \in 1..14 /\ n + 1 \in 1..14 /\ Least14(n) = n /\ Least14(n + 1) = n + 1
    BY <1>1, SMT DEF Least14
  <2> QED
    BY <2>1, Rows, Zenon
<1>2. CASE n >= 14
  <2>1. Least14(n) = 14 /\ Least14(n + 1) = 14 /\ 14 \in 1..14
    BY <1>2, SMT DEF Least14
  <2>2. CountAfter[14] = 20016 /\ ReliableAfter[14] = 8531
    BY Tables
  <2> QED
    BY <2>1, <2>2, LastRow
<1> QED
  BY <1>1, <1>2, SMT

LEMMA RunStep == StatInv /\ RunInv /\ [StatNext]_statVars => RunInv'
<1> SUFFICES ASSUME StatInv, RunInv, [StatNext]_statVars PROVE RunInv'
  OBVIOUS
<1>1. ASSUME NEW good \in BOOLEAN, NEW age \in Ages, Update(good, age) PROVE RunInv'
  <2> DEFINE f == Decay[IF total = 0 THEN First ELSE age]["2H"]
             s == stat["2H"]
             t == stat'["2H"]
  <2>1. /\ total' = total + 1 /\ last' = <<good, age>>
        /\ run' = (IF good = last[1] /\ (age \in Quick <=> last[2] \in Quick) THEN run + 1 ELSE 1)
        /\ t = Averaged(s, good, f)
    <3>1. "2H" \in Averages
      BY DEF Averages
    <3> QED
      BY <1>1, <3>1 DEF Update
  <2>2. /\ total \in Nat /\ run \in Nat
        /\ (total = 0 => last[1] = FALSE) /\ (total > 0 => run > 0)
    BY DEF RunInv
  <2>3. /\ total' \in Nat /\ run' \in Nat
        /\ (total' = 0 => last'[1] = FALSE) /\ (total' > 0 => run' > 0)
        /\ last' \in BOOLEAN \X ({First} \cup Ages)
    <3>1. total' \in Nat /\ total' # 0 /\ run' \in Nat /\ run' > 0
      BY <2>1, <2>2, SMT
    <3> QED
      BY <2>1, <3>1, Zenon
  <2>4. ASSUME last'[1], last'[2] \in Quick
        PROVE  /\ AtLeast(t.count, CountAfter[Least14(run')])
               /\ AtLeast(t.reliability, ReliableAfter[Least14(run')])
    <3>1. good = TRUE /\ age \in Quick
      BY <2>1, <2>4
    <3>2. /\ f \in 0..Unit /\ Unit \in Nat \ {0} /\ QuickDecay(f)
      <4>1. (IF total = 0 THEN First ELSE age) \in Quick \cup {First}
        BY <3>1
      <4>2. (IF total = 0 THEN First ELSE age) \in DOMAIN Decay /\ "2H" \in Averages
        BY StatAssumption DEF Averages
      <4>3. f \in 0..Unit
        BY <4>2, StatAssumption
      <4>4. Unit \in Nat \ {0}
        BY StatAssumption
      <4>5. 10000 * f \in 5007 * Unit..8704 * Unit
        BY <4>1, QuickAssumption
      <4> HIDE DEF f
      <4>6. QuickDecay(f)
        BY <4>4, <4>5, SMT DEF QuickDecay
      <4> QED
        BY <4>3, <4>4, <4>6
    <3>3. s.count \in Nat /\ s.reliability \in Nat /\ s.reliability \in 0..Unit
      <4>1. Kept(s, total, success)
        BY DEF StatInv, Averages
      <4> HIDE DEF s
      <4>2. s.count \in Nat /\ s.reliability \in Nat /\ s.weight \in Nat /\ s.reliability <= s.weight /\ s.weight <= Unit
        BY <4>1 DEF Kept
      <4> QED
        BY <3>2, <4>2
    <3>4. /\ t.count = Of(s.count, f) + Unit
          /\ t.reliability = Of(s.reliability, f) + Unit - f
          /\ Of(s.count, f) \in Nat /\ Of(s.reliability, f) \in Nat
      <4> HIDE DEF f, s, t
      <4>1. /\ t.count = Of(s.count, f) + Unit
            /\ t.reliability = Of(s.reliability, f) + (Unit - f)
        BY <2>1, <3>1 DEF Averaged
      <4>2. Of(s.count, f) \in Nat /\ Of(s.reliability, f) \in Nat /\ s.reliability \in Nat
        BY <3>2, <3>3, OfLess, Zenon
      <4> QED
        BY <3>2, <4>1, <4>2
    <3> HIDE DEF f, s, t
    <3>5. CASE ~ (last[1] /\ last[2] \in Quick)
      <4>1. Least14(run') = 1
        <5>1. last[1] \in BOOLEAN
          BY DEF RunInv
        <5>2. run' = 1
          BY <2>1, <3>1, <3>5, <5>1
        <5> QED
          BY <5>2, SMT DEF Least14
      <4>2. AtLeast(t.count, 9995) /\ AtLeast(t.reliability, 1291)
        BY <3>2, <3>4, QuickAssumption, SMT DEF AtLeast, QuickDecay
      <4>3. CountAfter[1] = 9995 /\ ReliableAfter[1] = 1291
        BY Tables
      <4> QED
        BY <4>1, <4>2, <4>3
    <3>6. CASE last[1] /\ last[2] \in Quick
      <4>1. run \in Nat \ {0} /\ run' = run + 1
        <5>1. total # 0
          BY <2>2, <3>6
        <5>2. last[1] = TRUE
          BY <3>6 DEF RunInv
        <5>3. run' = run + 1
          BY <2>1, <3>1, <3>6, <5>2
        <5>4. run > 0
          BY <2>2, <5>1, SMT
        <5> QED
          BY <2>2, <5>3, <5>4, SMT
      <4> DEFINE k == Least14(run)
                 j == Least14(run + 1)
      <4>2. AtLeast(s.count, CountAfter[k]) /\ AtLeast(s.reliability, ReliableAfter[k])
        BY <2>4, <3>6 DEF RunInv, s
      <4>3. /\ k \in 1..14 /\ j \in 1..14
            /\ CountLeads(CountAfter[k], CountAfter[j]) /\ ReliableLeads(ReliableAfter[k], ReliableAfter[j])
        BY <4>1, NextRow
      <4> HIDE DEF k, j
      <4>4. /\ CountAfter[k] \in Nat /\ ReliableAfter[k] \in Shares
            /\ CountAfter[j] \in Nat /\ ReliableAfter[j] \in Nat
        BY <4>3, Tables
      <4> DEFINE lc == CountAfter[k]
                 mc == CountAfter[j]
                 lr == ReliableAfter[k]
                 mr == ReliableAfter[j]
      <4> HIDE DEF lc, mc, lr, mr
      <4>5. AtLeast(t.count, mc)
        <5>1. /\ lc \in Nat /\ mc \in Nat /\ AtLeast(s.count, lc) /\ CountLeads(lc, mc)
          BY <4>2, <4>3, <4>4 DEF lc, mc
        <5> QED
          BY <3>2, <3>3, <3>4, <5>1, CountStep
      <4>6. AtLeast(t.reliability, mr)
        <5>1. /\ lr \in Shares /\ mr \in Nat /\ AtLeast(s.reliability, lr) /\ ReliableLeads(lr, mr)
          BY <4>2, <4>3, <4>4 DEF lr, mr
        <5> QED
          BY <3>2, <3>3, <3>4, <5>1, ReliableStep
      <4> QED
        BY <4>1, <4>5, <4>6 DEF j, mc, mr
    <3> QED
      BY <3>5, <3>6
  <2> QED
    BY <2>3, <2>4 DEF RunInv, t
<1>2. CASE UNCHANGED statVars
  BY <1>2 DEF RunInv, statVars
<1> QED
  BY <1>1, <1>2 DEF StatNext

(* db.h:19-26: a node that answered fourteen tests in a row, each at any   *)
(* age from MIN_RETRY to 83 minutes, is reliable, whatever came before:    *)
(* its count of two hours is past 2, its reliability past 85 in a hundred. *)
THEOREM QuickPollsAreEnough == StatSpec => []QuickPollsCount
<1>1. StatInv /\ RunInv => QuickPollsCount
  <2> SUFFICES ASSUME StatInv, RunInv, last[1], last[2] \in Quick, run >= 14 PROVE Reliable
    BY DEF QuickPollsCount
  <2> DEFINE s == stat["2H"]
  <2>1. Least14(run) = 14
    BY DEF Least14, RunInv
  <2>2. AtLeast(s.count, 20016) /\ AtLeast(s.reliability, 8531)
    <3>1. CountAfter[14] = 20016 /\ ReliableAfter[14] = 8531
      BY Tables
    <3> QED
      BY <2>1, <3>1 DEF RunInv
  <2>3. s.count \in Nat /\ s.reliability \in Nat
    BY DEF StatInv, Averages
  <2>4. Unit \in Nat \ {0}
    BY StatAssumption
  <2> HIDE DEF s
  <2>5. s.count > 2 * Unit /\ s.reliability * 100 > 85 * Unit
    BY <2>2, <2>3, <2>4, SMT DEF AtLeast
  <2> QED
    BY <2>5 DEF Reliable, Percent, Seen, s
<1> QED
  BY <1>1, StatStart, StatStep, RunStart, RunStep, PTL DEF StatSpec
=============================================================================
