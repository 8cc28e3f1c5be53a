----------------------------- MODULE DataStream -----------------------------
(***************************************************************************)
(* CDataStream (serialize.h:836-1089) with the operations CNode calls on   *)
(* vSend and vRecv (bitcoin.cpp:36-87, 107-136, 161-197, 243-246): a       *)
(* vector with the place reading has come to, which is cleared whenever    *)
(* reading comes to its end.                                               *)
(***************************************************************************)
EXTENDS Integers, Sequences

CONSTANTS
  Byte,
  MaxChunk,  \* bound: bytes in one call
  MaxVector  \* bound: size of the vector

ASSUME StreamAssumption == {MaxChunk, MaxVector} \subseteq Nat

VARIABLES
  vch,       \* the vector
  nReadPos,  \* bytes of it already read
  out        \* what the last read returned

streamBufVars == <<vch, nReadPos, out>>

Chunks == UNION {[1..n -> Byte] : n \in 0..MaxChunk}

(* begin() to end().                                                       *)
Unread == SubSeq(vch, nReadPos + 1, Len(vch))

size == Len(vch) - nReadPos

DataStreamInit == vch = <<>> /\ nReadPos = 0 /\ out = <<>>
-----------------------------------------------------------------------------
clear == vch' = <<>> /\ nReadPos' = 0

(* operator<<, and resize(nPos + nBytes) with a memcpy behind nPos.        *)
write(chunk) == vch' = vch \o chunk /\ UNCHANGED <<nReadPos, out>>

(* Slip: cleared with a byte still to be read.                             *)
Slip_Advance(n) ==
  IF nReadPos + n + 1 >= Len(vch) THEN clear
  ELSE nReadPos' = nReadPos + n /\ UNCHANGED vch

(* The end of read and of ignore, when that many bytes are there.          *)
Advance(n) ==
  IF nReadPos + n >= Len(vch) THEN clear
  ELSE nReadPos' = nReadPos + n /\ UNCHANGED vch

(* Reading more than there is throws, with nothing changed: exceptmask     *)
(* holds failbit.                                                          *)
read(n) == nReadPos + n <= Len(vch) /\ out' = SubSeq(Unread, 1, n) /\ Advance(n)

ignore(n) == nReadPos + n <= Len(vch) /\ Advance(n) /\ UNCHANGED out

(* erase(begin(), last), last being n bytes on.                            *)
eraseFront(n) ==
  /\ n <= size
  /\ IF nReadPos + n = Len(vch) THEN clear ELSE nReadPos' = nReadPos + n /\ UNCHANGED vch
  /\ UNCHANGED out

(* The header put back: over the bytes it was read from, or, when the read *)
(* came to the end and cleared the vector, in front of what is there.      *)
insertFront(chunk) ==
  /\ IF Len(chunk) <= nReadPos
       THEN /\ nReadPos' = nReadPos - Len(chunk)
            /\ vch' = [i \in DOMAIN vch |-> IF i \in nReadPos' + 1..nReadPos
                                              THEN chunk[i - nReadPos'] ELSE vch[i]]
       ELSE /\ vch' = SubSeq(vch, 1, nReadPos) \o chunk \o Unread
            /\ UNCHANGED nReadPos
  /\ UNCHANGED out

(* EndMessage: size and checksum over the header written before.           *)
overwrite(pos, byte) ==
  /\ pos \in 1..size /\ vch' = [vch EXCEPT ![pos + nReadPos] = byte]
  /\ UNCHANGED <<nReadPos, out>>

DataStreamNext ==
  \/ \E chunk \in Chunks : Len(vch) + Len(chunk) <= MaxVector /\ (write(chunk) \/ insertFront(chunk))
  \/ \E n \in 0..size : read(n) \/ ignore(n) \/ eraseFront(n)
  \/ \E pos \in 1..size, byte \in Byte : overwrite(pos, byte)

DataStreamSpec == DataStreamInit /\ [][DataStreamNext]_streamBufVars
-----------------------------------------------------------------------------
Queue == INSTANCE ByteQueue WITH bytes <- Unread

(* serialize.h:918-1089: through every order of writes, reads, erasures,   *)
(* put-backs and clearings of the vector, the stream is a queue of bytes:  *)
(* nothing read or erased shows again, nothing unread is lost.             *)
StreamIsQueue == Queue!QueueSpec
=============================================================================
