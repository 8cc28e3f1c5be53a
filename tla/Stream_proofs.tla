--------------------------- MODULE Stream_proofs ---------------------------
(***************************************************************************)
(* Proofs about the streams: CDataStream is a queue of bytes, and what is  *)
(* read behind a count is bounded and whole.                               *)
(***************************************************************************)
EXTENDS Wire, DataStream, SequenceTheorems, TLAPS

Octet == 0..255

LEMMA OctetIsNat == Octet \subseteq Nat
BY DEF Octet

LEMMA Written ==
  ASSUME NEW n \in Nat, NEW w \in {2, 4}, NEW c \in Octet
  PROVE  <<c>> \o Digits(n, w) \in Seq(Octet)
<1>1. \A p \in 1..w : (n \div Power[p]) % 256 \in Octet
  BY DEF Power, Octet
<1>2. Digits(n, w) \in Seq(Octet)
  BY <1>1 DEF Digits
<1>3. <<c>> \in Seq(Octet)
  OBVIOUS
<1> QED BY <1>2, <1>3, ConcatProperties

LEMMA WrittenBytes == ASSUME NEW n \in Nat PROVE WriteCompactSize(n) \in Seq(Octet)
<1>1. CASE n < 253
  <2>1. n \in Octet
    BY <1>1 DEF Octet
  <2> QED BY <1>1, <2>1 DEF WriteCompactSize
<1>2. CASE n >= 253
  <2>1. 253 \in Octet /\ 254 \in Octet
    BY DEF Octet
  <2>2. WriteCompactSize(n) \in {<<253>> \o Digits(n, 2), <<254>> \o Digits(n, 4)}
    BY <1>2 DEF WriteCompactSize
  <2>3. <<253>> \o Digits(n, 2) \in Seq(Octet) /\ <<254>> \o Digits(n, 4) \in Seq(Octet)
    BY <2>1, Written
  <2> QED BY <2>2, <2>3
<1> QED BY <1>1, <1>2

LEMMA ValueIsNat == ASSUME NEW d \in Seq(Octet) PROVE Value(d) \in Nat
<1> DEFINE at(p) == IF p \in DOMAIN d THEN d[p] ELSE 0
<1>1. \A p : at(p) \in Nat
  <2>1. \A p \in DOMAIN d : d[p] \in Octet
    BY ElementOfSeq, LenProperties
  <2> QED BY <2>1, OctetIsNat
<1>2. Power[1] = 1 /\ Power[2] = 256 /\ Power[3] = 65536 /\ Power[4] = 16777216
  BY DEF Power
<1>3. \A p, q, r, s \in Nat : p * 1 + q * 256 + r * 65536 + s * 16777216 \in Nat
  OBVIOUS
<1> DEFINE sum == at(1) * Power[1] + at(2) * Power[2] + at(3) * Power[3] + at(4) * Power[4]
<1>4. sum \in Nat
  <2> HIDE DEF at
  <2> QED BY <1>1, <1>2, <1>3
<1> QED BY <1>4, WireAssumption DEF Value

LEMMA CountInBounds ==
  ASSUME NEW b \in Seq(Octet) PROVE ReadCompactSize(b) \in -1..MAX_SIZE
<1>1. CASE b = <<>> \/ Len(b) < 1 + Width(b[1])
  BY <1>1, WireAssumption DEF ReadCompactSize
<1>2. CASE ~ (b = <<>> \/ Len(b) < 1 + Width(b[1]))
  <2> DEFINE n == IF Width(b[1]) = 0 THEN b[1] ELSE Value(Tail(b))
  <2>1. b # <<>>
    BY <1>2
  <2>2. b[1] \in Octet
    BY <2>1, EmptySeq, ElementOfSeq
  <2>3. Tail(b) \in Seq(Octet)
    BY <2>1, HeadTailProperties
  <2>4. n \in Nat
    <3>1. b[1] \in Nat
      BY <2>2, OctetIsNat
    <3>2. Value(Tail(b)) \in Nat
      BY <2>3, ValueIsNat
    <3> QED BY <3>1, <3>2
  <2>5. ReadCompactSize(b) = IF n > MAX_SIZE THEN -1 ELSE n
    BY <1>2 DEF ReadCompactSize
  <2> HIDE DEF n
  <2> QED BY <2>4, <2>5, WireAssumption
<1> QED BY <1>1, <1>2

-----------------------------------------------------------------------------
(* A count comes back as it was written.                                   *)

LEMMA Split ==
  ASSUME NEW n \in Nat
  PROVE  \E q \in Nat, r \in 0..255 : q = n \div 256 /\ r = n % 256 /\ n = 256 * q + r
<1> DEFINE q == n \div 256
           r == n % 256
<1>1. r = n - 256 * q
  BY SMT
<1>2. q \in Nat /\ r \in 0..255
  BY SMT
<1> HIDE DEF q, r
<1>3. n = 256 * q + r
  BY <1>1, <1>2, SMT
<1> QED
  BY <1>2, <1>3 DEF q, r

LEMMA DigitsAddUp ==
  ASSUME NEW n \in Nat, n \div 16777216 < 256
  PROVE  /\ (n % 256) + ((n \div 256) % 256) * 256 + ((n \div 65536) % 256) * 65536
              + ((n \div 16777216) % 256) * 16777216 = n
         /\ n <= 65535 => (n % 256) + ((n \div 256) % 256) * 256 = n
<1>1. PICK a \in Nat, x \in 0..255 : a = n \div 256 /\ x = n % 256 /\ n = 256 * a + x
  BY Split
<1>2. PICK b \in Nat, y \in 0..255 : b = a \div 256 /\ y = a % 256 /\ a = 256 * b + y
  BY Split
<1>3. PICK c \in Nat, z \in 0..255 : c = b \div 256 /\ z = b % 256 /\ b = 256 * c + z
  BY Split
<1>4. n \div 65536 = b /\ n \div 16777216 = c
  BY <1>1, <1>2, <1>3, SMT
<1>5. c % 256 = c
  BY <1>4, SMT
<1>6. n = x + y * 256 + z * 65536 + c * 16777216
  BY <1>1, <1>2, <1>3, SMT
<1>7. n <= 65535 => z = 0 /\ c = 0
  BY <1>6, SMT
<1> QED
  BY <1>1, <1>2, <1>3, <1>4, <1>5, <1>6, <1>7, SMT

Powers == Power[1] = 1 /\ Power[2] = 256 /\ Power[3] = 65536 /\ Power[4] = 16777216

LEMMA PowersHold == Powers
  BY SMT DEF Powers, Power

LEMMA DigitsAre ==
  ASSUME NEW n \in Nat, NEW w \in {2, 4}
  PROVE  /\ Digits(n, w) \in Seq(Octet) /\ Len(Digits(n, w)) = w /\ DOMAIN Digits(n, w) = 1..w
         /\ \A p \in 1..w : Digits(n, w)[p] = (n \div Power[p]) % 256
<1>1. \A p \in 1..w : (n \div Power[p]) % 256 \in Octet
  BY DEF Power, Octet
<1> QED
  BY <1>1 DEF Digits

LEMMA ValueOfTwo ==
  ASSUME NEW n \in Nat, n <= 65535
  PROVE  Value(Digits(n, 2)) = n
<1> DEFINE d == Digits(n, 2)
<1>1. DOMAIN d = 1..2 /\ d[1] = n % 256 /\ d[2] = (n \div 256) % 256
  <2>1. n \div 1 = n
    OBVIOUS
  <2>2. /\ DOMAIN d = 1..2
        /\ d[1] = (n \div Power[1]) % 256 /\ d[2] = (n \div Power[2]) % 256
    BY DigitsAre
  <2> HIDE DEF d
  <2> QED
    BY <2>1, <2>2, PowersHold, SMT DEF Powers
<1> HIDE DEF d
<1>2. (n % 256) + ((n \div 256) % 256) * 256 = n
  BY DigitsAddUp, SMT
<1>3. Value(d) = d[1] * 1 + d[2] * 256 + 0 * 65536 + 0 * 16777216
  BY <1>1, PowersHold, SMT DEF Value, Powers
<1> QED
  BY <1>1, <1>2, <1>3, SMT DEF d

LEMMA ValueOfFour ==
  ASSUME NEW n \in Nat, n \div Power[4] < 256
  PROVE  Value(Digits(n, 4)) = n \/ (n > MAX_SIZE /\ Value(Digits(n, 4)) = MAX_SIZE + 1)
<1> DEFINE d == Digits(n, 4)
<1>1. /\ DOMAIN d = 1..4 /\ d[1] = n % 256 /\ d[2] = (n \div 256) % 256
      /\ d[3] = (n \div 65536) % 256 /\ d[4] = (n \div 16777216) % 256
  <2>1. n \div 1 = n
    OBVIOUS
  <2>2. /\ DOMAIN d = 1..4
        /\ d[1] = (n \div Power[1]) % 256 /\ d[2] = (n \div Power[2]) % 256
        /\ d[3] = (n \div Power[3]) % 256 /\ d[4] = (n \div Power[4]) % 256
    BY DigitsAre
  <2> HIDE DEF d
  <2> QED
    BY <2>1, <2>2, PowersHold, SMT DEF Powers
<1> HIDE DEF d
<1>2. d[1] * 1 + d[2] * 256 + d[3] * 65536 + d[4] * 16777216 = n
  BY <1>1, PowersHold, DigitsAddUp, SMT DEF Powers
<1>3. CASE d[4] > 0 /\ d[4] > MAX_SIZE \div Power[4]
  <2>1. Value(d) = MAX_SIZE + 1
    BY <1>1, <1>3 DEF Value
  <2>2. n \div 16777216 > MAX_SIZE \div 16777216
    BY <1>1, <1>3, PowersHold, SMT DEF Powers
  <2>3. n > MAX_SIZE
    BY <2>2, WireAssumption, SMT
  <2> QED
    BY <2>1, <2>3 DEF d
<1>4. CASE ~ (d[4] > 0 /\ d[4] > MAX_SIZE \div Power[4])
  <2>1. Value(d) = d[1] * 1 + d[2] * 256 + d[3] * 65536 + d[4] * 16777216
    BY <1>1, <1>4, PowersHold, SMT DEF Value, Powers
  <2> QED
    BY <1>2, <2>1, SMT DEF d
<1> QED
  BY <1>3, <1>4

(* serialize.h:197-267: what WriteCompactSize writes ReadCompactSize reads *)
(* back, unless it is too large.                                           *)
LEMMA CountComesBack ==
  ASSUME NEW n \in Sizes
  PROVE  ReadCompactSize(WriteCompactSize(n)) = IF n > MAX_SIZE THEN -1 ELSE n
<1> DEFINE w == WriteCompactSize(n)
<1>1. n \in Nat /\ n \div Power[4] < 256 /\ MAX_SIZE \in Nat
  BY WireAssumption
<1>2. CASE n < 253
  <2>1. w = <<n>>
    BY <1>2 DEF WriteCompactSize
  <2>2. Width(n) = 0
    BY <1>1, <1>2 DEF Width
  <2> QED
    BY <1>1, <2>1, <2>2 DEF ReadCompactSize
<1>3. ASSUME NEW c \in {253, 254}, NEW d \in Seq(Octet), Width(c) = Len(d), w = <<c>> \o d
      PROVE  ReadCompactSize(w) = IF Value(d) > MAX_SIZE THEN -1 ELSE Value(d)
  <2> HIDE DEF w
  <2>1. c \in Octet
    BY DEF Octet
  <2>2. w # <<>> /\ Len(w) = 1 + Len(d) /\ w[1] = c /\ Tail(w) = d
    BY <1>3, <2>1
  <2>3. ~ (w = <<>> \/ Len(w) < 1 + Width(w[1]))
    BY <1>3, <2>2
  <2>4. Width(c) # 0
    BY DEF Width
  <2>5. (IF Width(w[1]) = 0 THEN w[1] ELSE Value(Tail(w))) = Value(d)
    BY <2>2, <2>4
  <2> QED
    BY <2>3, <2>5 DEF ReadCompactSize
<1>4. CASE n >= 253 /\ n <= 65535
  <2> DEFINE d == Digits(n, 2)
  <2>1. w = <<253>> \o d
    BY <1>1, <1>4 DEF WriteCompactSize
  <2>2. Width(253) = 2
    BY DEF Width
  <2>3. d \in Seq(Octet) /\ Len(d) = 2
    BY <1>1, DigitsAre
  <2>4. Value(d) = n
    BY <1>1, <1>4, ValueOfTwo
  <2> HIDE DEF d, w
  <2>5. d \in Seq(Octet) /\ Width(253) = Len(d) /\ 253 \in {253, 254}
    BY <2>2, <2>3
  <2>6. ReadCompactSize(w) = IF Value(d) > MAX_SIZE THEN -1 ELSE Value(d)
    BY <1>3, <2>1, <2>5
  <2>7. ~ (Value(d) > MAX_SIZE) <=> ~ (n > MAX_SIZE)
    BY <2>4
  <2> QED
    BY <2>4, <2>6, <2>7 DEF w
<1>5. CASE n > 65535
  <2> DEFINE d == Digits(n, 4)
  <2>1. w = <<254>> \o d
    BY <1>1, <1>5 DEF WriteCompactSize
  <2>2. Width(254) = 4
    BY DEF Width
  <2>3. d \in Seq(Octet) /\ Len(d) = 4
    BY <1>1, DigitsAre
  <2>4. Value(d) = n \/ (n > MAX_SIZE /\ Value(d) = MAX_SIZE + 1)
    BY <1>1, ValueOfFour
  <2> HIDE DEF d, w
  <2>5. ReadCompactSize(w) = IF Value(d) > MAX_SIZE THEN -1 ELSE Value(d)
    BY <1>3, <2>1, <2>2, <2>3
  <2> QED
    BY <1>1, <2>4, <2>5 DEF w
<1> QED
  BY <1>1, <1>2, <1>4, <1>5
-----------------------------------------------------------------------------
(* What every step keeps: the count that was read, how far each of the     *)
(* three readers is, that a vector asks for more only when it has used all *)
(* it has, and that none is ahead of the stream.                           *)
WireInv ==
  /\ enc \in Seq(Octet) /\ kind \in {"string", "vector", "map"}
  /\ phase \in {"size", "grow", "read", "done", "thrown"}
  /\ have \in Nat /\ i \in Nat /\ slots \in Nat /\ nSize \in -1..MAX_SIZE
  /\ phase = "size" => i = 0 /\ slots = 0
  /\ phase \in {"grow", "read"} => nSize \in Nat /\ slots <= nSize /\ i <= nSize
  /\ kind = "vector" => i <= slots
  /\ phase = "grow" => kind = "vector" /\ i = slots
  /\ phase = "size" /\ meant # -1 => meant \in Sizes /\ enc = WriteCompactSize(meant)
  /\ phase \in {"grow", "read"} /\ meant # -1 => nSize = meant
  /\ phase = "read" => CASE kind = "string" -> slots = nSize
                          [] kind = "vector" -> TRUE
                          [] kind = "map"    -> slots = i
  /\ i <= have
  /\ MemoryFollowsData
  /\ ReadIsWhole

LEMMA WireInvInit == WireInit => WireInv
<1> SUFFICES ASSUME WireInit PROVE WireInv
  OBVIOUS
<1>1. enc \in Seq(Octet)
  BY WrittenBytes, WireAssumption DEF WireInit, Octet
<1> QED
  BY <1>1, WireAssumption DEF WireInit, WireInv, MemoryFollowsData, ReadIsWhole

LEMMA WireInvStep == WireInv /\ [WireNext]_wireVars => WireInv'
<1> SUFFICES ASSUME WireInv, [WireNext]_wireVars PROVE WireInv'
  OBVIOUS
<1> USE WireAssumption
<1>1. CASE UNCHANGED wireVars
  BY <1>1 DEF WireInv, wireVars, MemoryFollowsData, ReadIsWhole
<1>2. CASE WireNext
  <2>0. UNCHANGED <<kind, enc, meant, have>>
    BY <1>2 DEF WireNext
  <2>1. CASE ReadSize
    <3> DEFINE n == ReadCompactSize(enc)
    <3>1. n \in -1..MAX_SIZE
      BY CountInBounds DEF WireInv
    <3>2. meant # -1 => n = IF meant > MAX_SIZE THEN -1 ELSE meant
      BY <2>1, CountComesBack DEF WireInv, ReadSize
    <3>3. phase = "size" /\ i = 0 /\ slots = 0
      BY <2>1 DEF WireInv, ReadSize
    <3>4. CASE n = -1
      <4>1. phase' = "thrown" /\ UNCHANGED <<nSize, slots, i>>
        BY <2>1, <3>4 DEF ReadSize, Throw_
      <4>2. meant # -1 => meant > MAX_SIZE
        BY <3>2, <3>3, <3>4 DEF WireInv
      <4> QED
        BY <2>0, <3>3, <4>1, <4>2 DEF WireInv, MemoryFollowsData, ReadIsWhole
    <3>5. CASE n # -1
      <4>1. /\ nSize' = n /\ i' = 0 /\ phase' = (IF kind = "vector" THEN "grow" ELSE "read")
            /\ slots' = (IF kind = "string" THEN n ELSE 0)
        BY <2>1, <3>3, <3>5 DEF ReadSize
      <4>2. n \in Nat /\ n <= MAX_SIZE /\ (meant # -1 => n = meant)
        BY <3>1, <3>2, <3>5
      <4> HIDE DEF n
      <4>3. have \in Nat /\ Block \in Nat /\ MAX_SIZE \in Nat /\ enc \in Seq(Octet)
        BY DEF WireInv
      <4>4. CASE kind = "string"
        BY <2>0, <3>3, <4>1, <4>2, <4>3, <4>4 DEF WireInv, MemoryFollowsData, ReadIsWhole
      <4>5. CASE kind = "vector"
        BY <2>0, <3>3, <4>1, <4>2, <4>3, <4>5 DEF WireInv, MemoryFollowsData, ReadIsWhole
      <4>6. CASE kind = "map"
        BY <2>0, <3>3, <4>1, <4>2, <4>3, <4>6 DEF WireInv, MemoryFollowsData, ReadIsWhole
      <4> QED
        BY <4>4, <4>5, <4>6 DEF WireInv
    <3> QED
      BY <3>4, <3>5
  <2>2. CASE ReadString
    BY <2>0, <2>2 DEF WireInv, ReadString, Throw_, MemoryFollowsData, ReadIsWhole
  <2>3. CASE Grow
    BY <2>0, <2>3 DEF WireInv, Grow, MemoryFollowsData, ReadIsWhole
  <2>4. CASE ReadObject
    BY <2>0, <2>4 DEF WireInv, ReadObject, Throw_, MemoryFollowsData, ReadIsWhole
  <2>5. CASE ReadEntry
    BY <2>0, <2>5 DEF WireInv, ReadEntry, Throw_, MemoryFollowsData, ReadIsWhole
  <2> QED
    BY <1>2, <2>1, <2>2, <2>3, <2>4, <2>5 DEF WireNext
<1> QED
  BY <1>1, <1>2

(* serialize.h:516: whatever count a writer or anybody else put in front,  *)
(* a reader's memory stays within a block of what the stream has given it. *)
THEOREM BoundedMemory == WireSpec => []MemoryFollowsData
<1>1. WireInv => MemoryFollowsData
  BY DEF WireInv
<1> QED
  BY <1>1, WireInvInit, WireInvStep, PTL DEF WireSpec

(* serialize.h:197-267, 537-549: for every count up to UINT_MAX, what is   *)
(* read is what was written, all of it, or the exception had a reason.     *)
THEOREM ReadsAreWhole == WireSpec => []ReadIsWhole
<1>1. WireInv => ReadIsWhole
  BY DEF WireInv
<1> QED
  BY <1>1, WireInvInit, WireInvStep, PTL DEF WireSpec
-----------------------------------------------------------------------------
(* DataStream implements ByteQueue.                                        *)

StreamInv == vch \in Seq(Byte) /\ nReadPos \in Nat /\ nReadPos <= Len(vch)

Behind(v, p) == SubSeq(v, p + 1, Len(v))

LEMMA BehindIs ==
  ASSUME NEW v \in Seq(Byte), NEW p \in Nat, p <= Len(v)
  PROVE  /\ Behind(v, p) \in Seq(Byte) /\ Len(Behind(v, p)) = Len(v) - p
         /\ \A k \in 1..Len(v) - p : Behind(v, p)[k] = v[p + k]
<1>1. Len(v) \in Nat /\ \A k \in p + 1..Len(v) : v[k] \in Byte
  BY ElementOfSeq, LenProperties
<1>2. /\ Behind(v, p) \in Seq(Byte)
      /\ Len(Behind(v, p)) = IF p + 1 <= Len(v) THEN Len(v) - (p + 1) + 1 ELSE 0
      /\ \A k \in 1..Len(v) - (p + 1) + 1 : Behind(v, p)[k] = v[p + 1 + k - 1]
  BY <1>1, SubSeqProperties DEF Behind
<1>3. /\ (IF p + 1 <= Len(v) THEN Len(v) - (p + 1) + 1 ELSE 0) = Len(v) - p
      /\ Len(v) - (p + 1) + 1 = Len(v) - p
  BY <1>1
<1>4. \A k \in 1..Len(v) - p : p + 1 + k - 1 = p + k
  BY <1>1
<1> QED
  BY <1>2, <1>3, <1>4

LEMMA BehindMore ==
  ASSUME NEW v \in Seq(Byte), NEW p \in Nat, NEW n \in Nat, p + n <= Len(v)
  PROVE  /\ n <= Len(Behind(v, p))
         /\ Behind(v, p + n) = SubSeq(Behind(v, p), n + 1, Len(Behind(v, p)))
<1> DEFINE u == Behind(v, p)
           a == Behind(v, p + n)
           b == Behind(u, n)
<1>1. Len(v) \in Nat /\ p <= Len(v) /\ p + n \in Nat
  BY LenProperties
<1>2. u \in Seq(Byte) /\ Len(u) = Len(v) - p /\ \A k \in 1..Len(v) - p : u[k] = v[p + k]
  BY <1>1, BehindIs
<1>3. /\ a \in Seq(Byte) /\ Len(a) = Len(v) - (p + n)
      /\ \A k \in 1..Len(v) - (p + n) : a[k] = v[p + n + k]
  BY <1>1, BehindIs
<1>4. n <= Len(u)
  BY <1>1, <1>2
<1> HIDE DEF u
<1>5. b \in Seq(Byte) /\ Len(b) = Len(u) - n /\ \A k \in 1..Len(u) - n : b[k] = u[n + k]
  BY <1>2, <1>4, BehindIs
<1> HIDE DEF a, b
<1>6. Len(a) = Len(b) /\ \A k \in 1..Len(a) : a[k] = b[k]
  <2>1. Len(a) = Len(b)
    BY <1>1, <1>2, <1>3, <1>5
  <2>2. ASSUME NEW k \in 1..Len(a) PROVE a[k] = b[k]
    <3>1. a[k] = v[p + n + k]
      BY <1>3, <2>2
    <3>2. b[k] = u[n + k]
      BY <1>5, <2>1, <2>2
    <3>3. n + k \in 1..Len(v) - p /\ p + (n + k) = p + n + k
      BY <1>1, <1>3, <2>2
    <3>4. u[n + k] = v[p + (n + k)]
      BY <1>2, <3>3
    <3> QED
      BY <3>1, <3>2, <3>3, <3>4
  <2> QED
    BY <2>1, <2>2
<1>7. a = b
  BY <1>3, <1>5, <1>6, SeqEqual
<1> QED
  BY <1>4, <1>7 DEF a, b, u, Behind

LEMMA BehindAll ==
  ASSUME NEW v \in Seq(Byte)
  PROVE  Behind(v, Len(v)) = <<>> /\ Behind(v, 0) = v
<1>1. Len(v) \in Nat
  OBVIOUS
<1>2. Behind(v, Len(v)) = <<>>
  BY <1>1, SubSeqEmpty DEF Behind
<1>3. Behind(v, 0) = v
  BY <1>1, SubSeqFull DEF Behind
<1> QED
  BY <1>2, <1>3

(* What is written in front of p + 1 and behind it.                        *)
LEMMA BehindConcat ==
  ASSUME NEW v \in Seq(Byte), NEW w \in Seq(Byte), NEW p \in Nat, p <= Len(v)
  PROVE  Behind(v \o w, p) = Behind(v, p) \o w
<1> DEFINE a == Behind(v \o w, p)
           u == Behind(v, p)
           x == v \o w
           b == u \o w
<1>1. Len(v) \in Nat /\ Len(w) \in Nat
  BY LenProperties
<1>2. /\ x \in Seq(Byte) /\ Len(x) = Len(v) + Len(w)
      /\ \A k \in 1..Len(v) + Len(w) : x[k] = IF k <= Len(v) THEN v[k] ELSE w[k - Len(v)]
  BY ConcatProperties
<1> HIDE DEF x
<1>3. a = Behind(x, p)
  BY DEF x
<1> HIDE DEF a
<1>4. a \in Seq(Byte) /\ Len(a) = Len(x) - p /\ \A k \in 1..Len(x) - p : a[k] = x[p + k]
  <2>1. p <= Len(x)
    BY <1>1, <1>2
  <2> QED
    BY <1>2, <1>3, <2>1, BehindIs
<1>5. u \in Seq(Byte) /\ Len(u) = Len(v) - p /\ \A k \in 1..Len(v) - p : u[k] = v[p + k]
  BY BehindIs
<1> HIDE DEF u
<1>6. /\ b \in Seq(Byte) /\ Len(b) = Len(u) + Len(w)
      /\ \A k \in 1..Len(u) + Len(w) : b[k] = IF k <= Len(u) THEN u[k] ELSE w[k - Len(u)]
  BY <1>5, ConcatProperties
<1> HIDE DEF b
<1>7. Len(a) = Len(b)
  BY <1>1, <1>2, <1>4, <1>5, <1>6
<1>8. ASSUME NEW k \in 1..Len(a) PROVE a[k] = b[k]
  <2>1. p + k \in 1..Len(v) + Len(w) /\ k \in 1..Len(x) - p /\ k \in 1..Len(u) + Len(w)
    BY <1>1, <1>2, <1>4, <1>5, <1>8
  <2>2. a[k] = IF p + k <= Len(v) THEN v[p + k] ELSE w[p + k - Len(v)]
    BY <1>2, <1>4, <2>1
  <2>3. b[k] = IF k <= Len(u) THEN u[k] ELSE w[k - Len(u)]
    BY <1>6, <2>1
  <2>4. CASE p + k <= Len(v)
    <3>1. k <= Len(u) /\ k \in 1..Len(v) - p
      BY <1>1, <1>5, <2>1, <2>4
    <3> QED
      BY <1>5, <2>2, <2>3, <2>4, <3>1
  <2>5. CASE ~ (p + k <= Len(v))
    <3>1. ~ (k <= Len(u)) /\ p + k - Len(v) = k - Len(u)
      BY <1>1, <1>5, <2>1, <2>5
    <3> QED
      BY <2>2, <2>3, <2>5, <3>1
  <2> QED
    BY <2>4, <2>5
<1>9. a = b
  BY <1>4, <1>6, <1>7, <1>8, SeqEqual
<1> QED
  BY <1>9 DEF a, b, u

(* One byte of those to be read written over.                              *)
Patched(v, n, byte) == [v EXCEPT ![n] = byte]

LEMMA BehindPatched ==
  ASSUME NEW v \in Seq(Byte), NEW p \in Nat, p <= Len(v), NEW n \in 1..Len(v) - p, NEW byte \in Byte
  PROVE  /\ Patched(v, n + p, byte) \in Seq(Byte) /\ Len(Patched(v, n + p, byte)) = Len(v)
         /\ Behind(Patched(v, n + p, byte), p) = Patched(Behind(v, p), n, byte)
<1> DEFINE x == Patched(v, n + p, byte)
           u == Behind(v, p)
           a == Behind(x, p)
           b == Patched(u, n, byte)
<1>1. Len(v) \in Nat /\ n \in Nat /\ n + p \in 1..Len(v)
  BY LenProperties
<1>2. /\ x \in Seq(Byte) /\ Len(x) = Len(v)
      /\ \A k \in 1..Len(v) : x[k] = IF k = n + p THEN byte ELSE v[k]
  BY <1>1, ExceptSeq DEF Patched
<1> HIDE DEF x
<1>3. a \in Seq(Byte) /\ Len(a) = Len(v) - p /\ \A k \in 1..Len(v) - p : a[k] = x[p + k]
  BY <1>1, <1>2, BehindIs
<1>4. u \in Seq(Byte) /\ Len(u) = Len(v) - p /\ \A k \in 1..Len(v) - p : u[k] = v[p + k]
  BY BehindIs
<1> HIDE DEF a, u
<1>5. b \in Seq(Byte) /\ Len(b) = Len(u) /\ \A k \in 1..Len(u) : b[k] = IF k = n THEN byte ELSE u[k]
  <2>1. n \in 1..Len(u)
    BY <1>1, <1>4
  <2> QED
    BY <1>4, <2>1, ExceptSeq DEF Patched
<1> HIDE DEF b
<1>6. ASSUME NEW k \in 1..Len(a) PROVE a[k] = b[k]
  <2>1. k \in 1..Len(v) - p /\ p + k \in 1..Len(v) /\ (p + k = n + p <=> k = n)
    BY <1>1, <1>3, <1>6
  <2>2. a[k] = IF p + k = n + p THEN byte ELSE v[p + k]
    BY <1>2, <1>3, <2>1
  <2>3. b[k] = IF k = n THEN byte ELSE v[p + k]
    BY <1>4, <1>5, <2>1
  <2> QED
    BY <2>1, <2>2, <2>3
<1>7. a = b
  BY <1>3, <1>4, <1>5, <1>6, SeqEqual
<1> QED
  BY <1>2, <1>7 DEF a, b, u, x

(* The header written over the bytes in front of those to be read.         *)
Rewritten(v, c, q, p) == [k \in DOMAIN v |-> IF k \in q + 1..p THEN c[k - q] ELSE v[k]]

LEMMA BehindRewritten ==
  ASSUME NEW v \in Seq(Byte), NEW p \in Nat, p <= Len(v), NEW c \in Seq(Byte), NEW q \in Nat,
         q = p - Len(c)
  PROVE  /\ Rewritten(v, c, q, p) \in Seq(Byte) /\ Len(Rewritten(v, c, q, p)) = Len(v)
         /\ Behind(Rewritten(v, c, q, p), q) = c \o Behind(v, p)
<1> DEFINE x == Rewritten(v, c, q, p)
           u == Behind(v, p)
           a == Behind(x, q)
           b == c \o u
<1>1. Len(v) \in Nat /\ DOMAIN v = 1..Len(v) /\ Len(c) \in Nat /\ q <= Len(v) /\ p = q + Len(c)
  BY LenProperties
<1>2. DOMAIN x = 1..Len(v) /\ \A k \in 1..Len(v) : x[k] = IF k \in q + 1..p THEN c[k - q] ELSE v[k]
  BY <1>1 DEF Rewritten
<1>3. x \in Seq(Byte) /\ Len(x) = Len(v)
  <2>1. ASSUME NEW k \in 1..Len(v) PROVE x[k] \in Byte
    <3>1. CASE k \in q + 1..p
      <4>1. k - q \in 1..Len(c)
        BY <1>1, <3>1
      <4>2. c[k - q] \in Byte
        BY <4>1, ElementOfSeq
      <4> QED
        BY <1>2, <3>1, <4>2
    <3>2. CASE k \notin q + 1..p
      BY <1>2, <3>2, ElementOfSeq
    <3> QED
      BY <3>1, <3>2
  <2>2. x \in [1..Len(v) -> Byte]
    BY <1>1, <2>1 DEF Rewritten
  <2> HIDE DEF x
  <2> QED
    BY <1>1, <2>2
<1> HIDE DEF x
<1>4. a \in Seq(Byte) /\ Len(a) = Len(v) - q /\ \A k \in 1..Len(v) - q : a[k] = x[q + k]
  <2>1. q <= Len(x)
    BY <1>1, <1>3
  <2>2. q \in Nat /\ Len(x) - q = Len(v) - q
    BY <1>3
  <2>3. a \in Seq(Byte) /\ Len(a) = Len(x) - q /\ \A k \in 1..Len(x) - q : a[k] = x[q + k]
    BY <1>3, <2>1, <2>2, BehindIs
  <2> QED
    BY <2>2, <2>3
<1>5. u \in Seq(Byte) /\ Len(u) = Len(v) - p /\ \A k \in 1..Len(v) - p : u[k] = v[p + k]
  BY BehindIs
<1> HIDE DEF a, u
<1>6. /\ b \in Seq(Byte) /\ Len(b) = Len(c) + Len(u)
      /\ \A k \in 1..Len(c) + Len(u) : b[k] = IF k <= Len(c) THEN c[k] ELSE u[k - Len(c)]
  BY <1>5, ConcatProperties
<1> HIDE DEF b
<1>7. Len(a) = Len(b)
  BY <1>1, <1>4, <1>5, <1>6
<1>8. ASSUME NEW k \in 1..Len(a) PROVE a[k] = b[k]
  <2>1. /\ k \in 1..Len(v) - q /\ q + k \in 1..Len(v) /\ k \in 1..Len(c) + Len(u)
        /\ (q + k \in q + 1..p <=> k <= Len(c)) /\ q + k - q = k
    BY <1>1, <1>4, <1>5, <1>8
  <2>2. a[k] = IF k <= Len(c) THEN c[k] ELSE v[q + k]
    <3>1. a[k] = x[q + k]
      BY <1>4, <2>1
    <3>2. x[q + k] = IF q + k \in q + 1..p THEN c[q + k - q] ELSE v[q + k]
      BY <1>2, <2>1
    <3> QED
      BY <2>1, <3>1, <3>2
  <2>3. CASE k <= Len(c)
    BY <1>6, <2>1, <2>2, <2>3
  <2>4. CASE ~ (k <= Len(c))
    <3>1. k - Len(c) \in 1..Len(v) - p /\ p + (k - Len(c)) = q + k
      BY <1>1, <2>1, <2>4
    <3> QED
      BY <1>5, <1>6, <2>1, <2>2, <2>4, <3>1
  <2> QED
    BY <2>3, <2>4
<1>9. a = b
  BY <1>4, <1>6, <1>7, <1>8, SeqEqual
<1> QED
  BY <1>3, <1>9 DEF a, b, u, x

(* Where the front of the vector was cut off, the rest begins behind it.   *)
LEMMA BehindFront ==
  ASSUME NEW v \in Seq(Byte), NEW p \in Nat, p <= Len(v), NEW w \in Seq(Byte)
  PROVE  /\ SubSeq(v, 1, p) \o w \in Seq(Byte) /\ p <= Len(SubSeq(v, 1, p) \o w)
         /\ Behind(SubSeq(v, 1, p) \o w, p) = w
<1> DEFINE f == SubSeq(v, 1, p)
<1>1. Len(v) \in Nat /\ Len(w) \in Nat
  BY LenProperties
<1>2. f \in Seq(Byte) /\ Len(f) = p
  <2>1. \A k \in 1..p : v[k] \in Byte
    BY <1>1, ElementOfSeq
  <2> QED
    BY <2>1, SubSeqProperties
<1> HIDE DEF f
<1>3. f \o w \in Seq(Byte) /\ Len(f \o w) = p + Len(w)
  BY <1>2, ConcatProperties
<1>4. Behind(f \o w, p) = Behind(f, p) \o w
  <2>1. p <= Len(f)
    BY <1>2
  <2> QED
    BY <1>2, <2>1, BehindConcat
<1>5. Behind(f, p) \o w = w
  BY <1>2, BehindAll, ConcatEmptySeq
<1> QED
  BY <1>1, <1>3, <1>4, <1>5 DEF f
(* Every step of the vector is a step of the queue, or none.               *)
LEMMA StreamStep ==
  ASSUME StreamInv, [DataStreamNext]_streamBufVars
  PROVE  StreamInv' /\ [Queue!QueueNext]_(Queue!queueVars)
<1>1. /\ vch \in Seq(Byte) /\ nReadPos \in Nat /\ nReadPos <= Len(vch) /\ Len(vch) \in Nat
      /\ Unread = Behind(vch, nReadPos) /\ Unread \in Seq(Byte)
      /\ Len(Unread) = Len(vch) - nReadPos /\ size = Len(Unread)
  <2>1. vch \in Seq(Byte) /\ nReadPos \in Nat /\ nReadPos <= Len(vch) /\ Len(vch) \in Nat
    BY LenProperties DEF StreamInv
  <2>2. Unread = Behind(vch, nReadPos)
    BY DEF Unread, Behind
  <2>3. Behind(vch, nReadPos) \in Seq(Byte) /\ Len(Behind(vch, nReadPos)) = Len(vch) - nReadPos
    BY <2>1, BehindIs
  <2>4. size = Len(vch) - nReadPos
    BY DEF size
  <2> QED
    BY <2>1, <2>2, <2>3, <2>4
<1>2. Unread' = Behind(vch', nReadPos')
  BY DEF Unread, Behind
<1>3. \A chunk \in Chunks : chunk \in Seq(Byte) /\ chunk \in Queue!Chunk
  BY StreamAssumption DEF Chunks, Queue!Chunk
<1>4. ASSUME NEW v, NEW r, vch' = v, nReadPos' = r, v \in Seq(Byte), r \in Nat, r <= Len(v)
      PROVE  Unread' = Behind(v, r) /\ StreamInv'
  BY <1>2, <1>4 DEF StreamInv
(* Moving on by n bytes, with or without clearing the vector.              *)
<1>5. ASSUME NEW n \in 0..size,
             \/ clear /\ nReadPos + n >= Len(vch)
             \/ nReadPos' = nReadPos + n /\ UNCHANGED vch
      PROVE  /\ StreamInv' /\ n <= Len(Unread) /\ n \in 0..Len(Unread)
             /\ Unread' = SubSeq(Unread, n + 1, Len(Unread))
  <2>1. n \in Nat /\ nReadPos + n <= Len(vch) /\ n \in 0..Len(Unread) /\ nReadPos + n \in Nat
    BY <1>1
  <2>2. n <= Len(Unread) /\ Behind(vch, nReadPos + n) = SubSeq(Unread, n + 1, Len(Unread))
    BY <1>1, <2>1, BehindMore
  <2>3. CASE clear /\ nReadPos + n >= Len(vch)
    <3>1. nReadPos + n = Len(vch) /\ vch' = <<>> /\ nReadPos' = 0
      BY <1>1, <2>1, <2>3 DEF clear
    <3>2. Behind(vch, nReadPos + n) = <<>>
      BY <1>1, <3>1, BehindAll
    <3>3. PICK v : v = <<>> /\ v \in Seq(Byte) /\ Len(v) = 0 /\ Behind(v, 0) = <<>>
      BY EmptySeq, BehindAll
    <3>4. Unread' = <<>> /\ StreamInv'
      <4>1. Unread' = Behind(v, 0) /\ vch' = v
        BY <1>2, <3>1, <3>3
      <4> QED
        BY <3>1, <3>3, <4>1 DEF StreamInv
    <3> QED
      BY <2>1, <2>2, <3>2, <3>4
  <2>4. CASE nReadPos' = nReadPos + n /\ UNCHANGED vch
    <3>1. Unread' = Behind(vch, nReadPos + n) /\ StreamInv'
      <4>1. vch' = vch /\ nReadPos' = nReadPos + n
        BY <2>4
      <4> QED
        BY <1>1, <1>4, <2>1, <4>1
    <3> QED
      BY <2>1, <2>2, <3>1
  <2> QED
    BY <1>5, <2>3, <2>4
<1>6. ASSUME NEW n \in 0..size, read(n)
      PROVE  StreamInv' /\ Queue!QueueNext
  <2>1. /\ StreamInv' /\ n <= Len(Unread) /\ n \in 0..Len(Unread)
        /\ Unread' = SubSeq(Unread, n + 1, Len(Unread))
    BY <1>5, <1>6 DEF read, Advance
  <2>2. out' = SubSeq(Unread, 1, n)
    BY <1>6 DEF read
  <2>3. Queue!Pop(n)
    BY <2>1, <2>2 DEF Queue!Pop
  <2> QED
    BY <2>1, <2>3 DEF Queue!QueueNext
<1>7. ASSUME NEW n \in 0..size, ignore(n) \/ eraseFront(n)
      PROVE  StreamInv' /\ Queue!QueueNext
  <2>1. /\ StreamInv' /\ n <= Len(Unread) /\ n \in 0..Len(Unread)
        /\ Unread' = SubSeq(Unread, n + 1, Len(Unread)) /\ UNCHANGED out
    <3>1. nReadPos + n = Len(vch) => nReadPos + n >= Len(vch)
      BY <1>1
    <3> QED
      BY <1>5, <1>7, <3>1 DEF ignore, Advance, eraseFront
  <2>2. Queue!Skip(n)
    BY <2>1 DEF Queue!Skip
  <2> QED
    BY <2>1, <2>2 DEF Queue!QueueNext
<1>8. ASSUME NEW chunk \in Chunks, write(chunk)
      PROVE  StreamInv' /\ Queue!QueueNext
  <2>1. chunk \in Seq(Byte) /\ vch' = vch \o chunk /\ nReadPos' = nReadPos /\ UNCHANGED out
    BY <1>3, <1>8 DEF write
  <2>2. vch \o chunk \in Seq(Byte) /\ nReadPos <= Len(vch \o chunk)
    BY <1>1, <2>1, LenProperties, ConcatProperties
  <2>3. Behind(vch \o chunk, nReadPos) = Unread \o chunk
    BY <1>1, <2>1, BehindConcat
  <2>4. StreamInv' /\ Unread' = Unread \o chunk
    BY <1>1, <1>4, <2>1, <2>2, <2>3
  <2>5. Queue!Push(chunk)
    BY <2>1, <2>4 DEF Queue!Push
  <2> QED
    BY <1>3, <2>4, <2>5 DEF Queue!QueueNext
<1>9. ASSUME NEW chunk \in Chunks, insertFront(chunk)
      PROVE  StreamInv' /\ Queue!QueueNext
  <2>1. chunk \in Seq(Byte) /\ Len(chunk) \in Nat
    BY <1>3, LenProperties
  <2>2. ASSUME Len(chunk) <= nReadPos PROVE StreamInv' /\ Unread' = chunk \o Unread
    <3>1. PICK q : q = nReadPos - Len(chunk)
      OBVIOUS
    <3>2. PICK x : x = Rewritten(vch, chunk, q, nReadPos)
      OBVIOUS
    <3>3. nReadPos' = q /\ vch' = x /\ q \in Nat /\ q <= Len(vch)
      <4>1. nReadPos' = q
        BY <1>9, <2>2, <3>1 DEF insertFront
      <4>2. vch' = x
        BY <1>9, <2>2, <3>2, <4>1 DEF insertFront, Rewritten
      <4> QED
        BY <1>1, <2>1, <2>2, <3>1, <4>1, <4>2
    <3>4. x \in Seq(Byte) /\ Len(x) = Len(vch) /\ Behind(x, q) = chunk \o Behind(vch, nReadPos)
      <4>1. q \in Nat /\ vch \in Seq(Byte) /\ nReadPos \in Nat /\ nReadPos <= Len(vch) /\ chunk \in Seq(Byte)
        BY <1>1, <2>1, <3>3
      <4> QED
        BY <3>1, <3>2, <4>1, BehindRewritten
    <3>5. Unread' = Behind(x, q) /\ StreamInv'
      BY <1>4, <3>3, <3>4
    <3> QED
      BY <1>1, <3>4, <3>5
  <2>3. ASSUME ~ (Len(chunk) <= nReadPos) PROVE StreamInv' /\ Unread' = chunk \o Unread
    <3>1. PICK f : f = SubSeq(vch, 1, nReadPos)
      OBVIOUS
    <3>2. PICK w : w = chunk \o Unread
      OBVIOUS
    <3>3. w \in Seq(Byte)
      BY <1>1, <2>1, <3>2, ConcatProperties
    <3>4. f \in Seq(Byte)
      <4>1. \A k \in 1..nReadPos : vch[k] \in Byte
        BY <1>1, ElementOfSeq
      <4> QED
        BY <1>1, <3>1, <4>1, SubSeqProperties
    <3>5. nReadPos' = nReadPos /\ vch' = SubSeq(vch, 1, nReadPos) \o chunk \o Unread
      BY <1>9, <2>3 DEF insertFront
    <3>6. (f \o chunk) \o Unread = f \o (chunk \o Unread)
      <4>1. PICK u : u = Unread /\ u \in Seq(Byte)
        BY <1>1
      <4>2. (f \o chunk) \o u = f \o (chunk \o u)
        BY <2>1, <3>4, <4>1, ConcatAssociative
      <4> QED
        BY <4>1, <4>2
    <3>7. vch' = f \o w
      BY <3>1, <3>2, <3>5, <3>6
    <3>8. f \o w \in Seq(Byte) /\ nReadPos <= Len(f \o w) /\ Behind(f \o w, nReadPos) = w
      BY <1>1, <3>1, <3>3, BehindFront
    <3>9. StreamInv' /\ Unread' = w
      BY <1>1, <1>4, <3>5, <3>7, <3>8
    <3> QED
      BY <3>2, <3>9
  <2>4. StreamInv' /\ Unread' = chunk \o Unread
    BY <2>2, <2>3
  <2>5. UNCHANGED out
    BY <1>9 DEF insertFront
  <2>6. Queue!PutBack(chunk)
    BY <2>4, <2>5 DEF Queue!PutBack
  <2> QED
    BY <1>3, <2>4, <2>6 DEF Queue!QueueNext
<1>10. ASSUME NEW pos \in 1..size, NEW byte \in Byte, overwrite(pos, byte)
       PROVE  StreamInv' /\ Queue!QueueNext
  <2>1. PICK x : x = Patched(vch, pos + nReadPos, byte)
    OBVIOUS
  <2>2. vch' = x /\ nReadPos' = nReadPos /\ UNCHANGED out
    BY <1>10, <2>1 DEF overwrite, Patched
  <2>3. pos \in 1..Len(vch) - nReadPos /\ pos \in DOMAIN Unread
    BY <1>1, LenProperties
  <2>4. /\ x \in Seq(Byte) /\ Len(x) = Len(vch)
        /\ Behind(x, nReadPos) = Patched(Behind(vch, nReadPos), pos, byte)
    BY <1>1, <2>1, <2>3, BehindPatched
  <2>5. StreamInv' /\ Unread' = Behind(x, nReadPos)
    BY <1>1, <1>4, <2>2, <2>4
  <2>6. Queue!Patch(pos, byte)
    BY <1>1, <2>2, <2>3, <2>4, <2>5 DEF Queue!Patch, Patched
  <2> QED
    BY <2>3, <2>5, <2>6 DEF Queue!QueueNext
<1>11. CASE UNCHANGED streamBufVars
  BY <1>11 DEF StreamInv, streamBufVars, Queue!queueVars, Unread
<1> QED
  BY <1>6, <1>7, <1>8, <1>9, <1>10, <1>11 DEF DataStreamNext

(* serialize.h:918-1089: whatever the order of writes, reads, erasures,    *)
(* put-backs and clearings, a CDataStream is a queue of bytes.             *)
THEOREM StreamImplementsQueue == DataStreamSpec => StreamIsQueue
<1>1. DataStreamInit => StreamInv /\ Queue!QueueInit
  <2> SUFFICES ASSUME DataStreamInit PROVE StreamInv /\ Queue!QueueInit
    OBVIOUS
  <2>1. vch = <<>> /\ nReadPos = 0 /\ out = <<>>
    BY DEF DataStreamInit
  <2>2. <<>> \in Seq(Byte) /\ Len(<<>>) = 0 /\ Behind(<<>>, 0) = <<>>
    BY EmptySeq, BehindAll
  <2> QED
    BY <2>1, <2>2 DEF StreamInv, Queue!QueueInit, Unread, Behind
<1> QED
  BY <1>1, StreamStep, PTL DEF DataStreamSpec, StreamIsQueue, Queue!QueueSpec
=============================================================================
