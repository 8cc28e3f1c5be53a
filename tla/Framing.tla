------------------------------ MODULE Framing ------------------------------
(***************************************************************************)
(* What a peer said, read from its stream in one piece: the reference that *)
(* the receive loop of Session is held against.                            *)
(***************************************************************************)
EXTENDS Session

(* Where the first message at or behind p begins.                          *)
NextStart(s, p) == p + Start(From(s, p)) - 1

(* A place in a stream: the position, the version said and the framing.    *)
Places(s) == (1..Len(s) + 1) \X (Versions \cup {"nothing"}) \X BOOLEAN

(* The versions a message leaves behind.                                   *)
VersionAfter(h, body, v) == IF h[3] = "version" THEN body[1] ELSE v

FramingAfter(h, body, v, o) ==
  IF h[3] = "version" THEN o \/ body[1] = "v150"
  ELSE IF h[3] = "verack" THEN v \in {"nothing", "v150"}
  ELSE o

CannotRead(h, body, wanted) ==
  \/ h[3] = "version" /\ (body = <<>> \/ body[1] \notin Versions)
  \/ h[3] = "addr" /\ wanted /\ (body = <<>> \/ body[1] \notin DOMAIN AddrCount)

(* The messages from position p on, after version v in framing o, when     *)
(* rest gives those behind the first.  The last tells of a header that     *)
(* bans or of a payload that is too short.                                 *)
Reading(rest, s, p, v, o, wanted) ==
  LET q    == NextStart(s, p)
      h    == From(s, q)
      size == IF o THEN 4 ELSE 5
      n    == MessageSize(h)
      body == SubSeq(h, size + 1, size + n)
  IN  IF Len(h) < size THEN <<>>
      ELSE IF ~ ValidHeader(h) THEN << <<"ban">> >>
      ELSE IF Len(h) < size + n THEN <<>>
      ELSE IF ~ o /\ Hash(body) # h[5] THEN rest[<<q + size, v, o>>]
      ELSE IF CannotRead(h, body, wanted) THEN << <<"throw">> >>
      ELSE << <<h[3], IF body = <<>> THEN "short" ELSE body[1]>> >> \o
           rest[<<q + size + n, VersionAfter(h, body, v), FramingAfter(h, body, v, o)>>]

InOnePiece(s, wanted) ==
  LET read[x \in Places(s)] == Reading(read, s, x[1], x[2], x[3], wanted) IN read

(* bitcoin.cpp:160-203: however the network cuts the stream into pieces,   *)
(* the messages processed are those of the whole, in its order, none of    *)
(* them is missed, and a ban comes from a header that stands in it.        *)
FramingIgnoresCuts ==
  LET whole == InOnePiece(got, vAddr # -1)[<<1, "nothing", FALSE>>]
  IN  /\ IsPrefix(seen, whole)
      /\ pc = "select" => seen = whole
      /\ ban => Len(seen) < Len(whole) /\ whole[Len(seen) + 1] = <<"ban">>
=============================================================================
