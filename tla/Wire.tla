-------------------------------- MODULE Wire --------------------------------
(***************************************************************************)
(* Reading a string, a vector of objects or a map from a stream            *)
(* (serialize.h:197-267, 434-457, 494-500, 529-556, 675-704): the count in *)
(* one, three, five or nine bytes, then as much data as the stream has.    *)
(***************************************************************************)
EXTENDS Integers, Sequences

CONSTANTS
  MAX_SIZE,  \* 0x02000000
  Block,     \* objects a vector grows by: 5000000 / sizeof(T)
  Sizes,     \* counts a writer may have written
  Odd,       \* counts no writer of this code has written, as bytes
  MaxHave    \* bound: elements behind the count

Power == <<1, 256, 65536, 16777216>>

ASSUME WireAssumption ==
  /\ {MAX_SIZE, MaxHave} \subseteq Nat /\ Block \in Nat \ {0}
  /\ Sizes \subseteq Nat /\ \A n \in Sizes : n \div Power[4] < 256   \* UINT_MAX at most
  /\ Odd \subseteq Seq(0..255)

VARIABLES
  kind,   \* "string", "vector", "map"
  enc,    \* the bytes of the count
  meant,  \* the count written, or -1
  have,   \* elements in the stream behind it
  phase,  \* "size", "grow", "read", "done", "thrown"
  nSize,  \* the count read
  slots,  \* elements there is memory for
  i       \* elements read

wireVars == <<kind, enc, meant, have, phase, nSize, slots, i>>

Digits(n, width) == [p \in 1..width |-> (n \div Power[p]) % 256]

(* Sizes above UINT_MAX, in nine bytes, are beyond any container here.     *)
WriteCompactSize(n) ==
  IF n < 253 THEN <<n>>
  ELSE IF n <= 65535 THEN <<253>> \o Digits(n, 2) ELSE <<254>> \o Digits(n, 4)

Width(chSize) == CASE chSize < 253 -> 0 [] chSize = 253 -> 2 [] chSize = 254 -> 4 [] chSize = 255 -> 8

(* Slip: four bytes kept in two.                                           *)
Slip_Value(d) == d[1] * Power[1] + d[2] * Power[2]

(* Whatever passes MAX_SIZE is as good as one above it.                    *)
Value(d) ==
  LET at(p) == IF p \in DOMAIN d THEN d[p] ELSE 0
  IN  IF \E p \in DOMAIN d : d[p] > 0 /\ (p > 4 \/ (p = 4 /\ d[p] > MAX_SIZE \div Power[4]))
      THEN MAX_SIZE + 1
      ELSE at(1) * Power[1] + at(2) * Power[2] + at(3) * Power[3] + at(4) * Power[4]

(* -1 for an exception: the stream ends, or the size is too large.         *)
ReadCompactSize(bytes) ==
  IF bytes = <<>> \/ Len(bytes) < 1 + Width(bytes[1]) THEN -1
  ELSE LET n == IF Width(bytes[1]) = 0 THEN bytes[1] ELSE Value(Tail(bytes))
       IN  IF n > MAX_SIZE THEN -1 ELSE n

WireInit ==
  /\ kind \in {"string", "vector", "map"} /\ have \in 0..MaxHave
  /\ \/ meant \in Sizes /\ enc = WriteCompactSize(meant)
     \/ meant = -1 /\ enc \in Odd
  /\ phase = "size" /\ nSize = -1 /\ slots = 0 /\ i = 0

Throw_ == phase' = "thrown" /\ UNCHANGED <<nSize, slots, i>>

(* A string gets its memory at once.                                       *)
ReadSize ==
  /\ phase = "size"
  /\ LET n == ReadCompactSize(enc)
     IN  IF n = -1 THEN Throw_ ELSE
           /\ nSize' = n /\ UNCHANGED i
           /\ phase' = (IF kind = "vector" THEN "grow" ELSE "read")
           /\ slots' = (IF kind = "string" THEN n ELSE 0)

ReadString ==
  /\ phase = "read" /\ kind = "string"
  /\ IF nSize > have THEN Throw_ ELSE phase' = "done" /\ i' = nSize /\ UNCHANGED <<nSize, slots>>

(* Slip: all the memory at once.                                           *)
Slip_Grow ==
  /\ phase = "grow"
  /\ slots' = nSize
  /\ phase' = (IF slots < nSize THEN "read" ELSE "done")
  /\ UNCHANGED <<nSize, i>>

(* nMid < nSize: another block, or what is left.                           *)
Grow ==
  /\ phase = "grow"
  /\ slots' = (IF slots + Block > nSize THEN nSize ELSE slots + Block)
  /\ phase' = (IF slots < nSize THEN "read" ELSE "done")
  /\ UNCHANGED <<nSize, i>>

ReadObject ==
  /\ phase = "read" /\ kind = "vector"
  /\ IF i = slots THEN phase' = "grow" /\ UNCHANGED <<nSize, slots, i>>
     ELSE IF have > i THEN i' = i + 1 /\ UNCHANGED <<phase, nSize, slots>>
     ELSE Throw_

(* An entry is read, then inserted.                                        *)
ReadEntry ==
  /\ phase = "read" /\ kind = "map"
  /\ IF i = nSize THEN phase' = "done" /\ UNCHANGED <<nSize, slots, i>>
     ELSE IF have > i THEN i' = i + 1 /\ slots' = i + 1 /\ UNCHANGED <<phase, nSize>>
     ELSE Throw_

WireNext ==
  /\ ReadSize \/ ReadString \/ Grow \/ ReadObject \/ ReadEntry
  /\ UNCHANGED <<kind, enc, meant, have>>

WireSpec == WireInit /\ [][WireNext]_wireVars
-----------------------------------------------------------------------------
(* serialize.h:537-549: what is read is what was written, all of it, or an *)
(* exception says that it is too large or not all there.                   *)
ReadIsWhole ==
  /\ phase = "done" => /\ i = nSize /\ slots = nSize /\ i <= have
                       /\ meant # -1 => nSize = meant
  /\ phase = "thrown" /\ meant # -1 => have < meant \/ meant > MAX_SIZE

(* serialize.h:516, "Limit size per read so bogus size value won't cause   *)
(* out of memory": no count makes a vector or a map take more memory than  *)
(* a block beyond what the stream has delivered.  A string takes all of    *)
(* it, up to MAX_SIZE.                                                     *)
MemoryFollowsData ==
  /\ kind = "vector" => slots <= i + Block
  /\ kind = "map" => slots <= i
  /\ slots <= MAX_SIZE
=============================================================================
