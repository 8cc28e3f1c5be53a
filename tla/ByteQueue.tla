----------------------------- MODULE ByteQueue -----------------------------
(***************************************************************************)
(* What CNode relies on a CDataStream to be: a sequence of bytes, written  *)
(* at the end and taken from the front, where what was just taken can be   *)
(* put back and what waits can be overwritten.                             *)
(***************************************************************************)
EXTENDS Integers, Sequences

CONSTANTS
  Byte,
  MaxChunk   \* bound: bytes written or put back at once

VARIABLES
  bytes,  \* what is still to be read
  out     \* what the last read returned

queueVars == <<bytes, out>>

Chunk == UNION {[1..n -> Byte] : n \in 0..MaxChunk}

QueueInit == bytes = <<>> /\ out = <<>>

Push(chunk) == bytes' = bytes \o chunk /\ UNCHANGED out

Skip(n) ==
  /\ n <= Len(bytes)
  /\ bytes' = SubSeq(bytes, n + 1, Len(bytes)) /\ UNCHANGED out

Pop(n) ==
  /\ n <= Len(bytes) /\ out' = SubSeq(bytes, 1, n)
  /\ bytes' = SubSeq(bytes, n + 1, Len(bytes))

PutBack(chunk) == bytes' = chunk \o bytes /\ UNCHANGED out

Patch(n, byte) == n \in DOMAIN bytes /\ bytes' = [bytes EXCEPT ![n] = byte] /\ UNCHANGED out

QueueNext ==
  \/ \E chunk \in Chunk : Push(chunk) \/ PutBack(chunk)
  \/ \E n \in 0..Len(bytes) : Skip(n) \/ Pop(n)
  \/ \E n \in DOMAIN bytes, byte \in Byte : Patch(n, byte)

QueueSpec == QueueInit /\ [][QueueNext]_queueVars
=============================================================================
