------------------------------ MODULE DnsName ------------------------------
(***************************************************************************)
(* Names in a DNS message: write_name and parse_name (dns.cpp:50-128).     *)
(* Bytes are numbers, positions count from 0 as in the code.  parse_name   *)
(* is a loop of one step per length octet and one per character; the call  *)
(* that follows a reference is the last thing the caller does, so it goes  *)
(* on with the same buffer.                                                *)
(***************************************************************************)
EXTENDS Integers, SequencesExt

CONSTANTS
  MaxLabel,  \* 63
  bufsize,   \* 256
  Bytes,     \* bytes of a query
  MaxQuery,  \* bound: bytes in a query, Starts of them before the name
  Starts,
  Texts      \* names to write

ASSUME NameAssumption ==
  /\ MaxLabel \in 1..63 /\ bufsize \in Nat \ {0} /\ MaxQuery \in Nat
  /\ Bytes \subseteq 0..255 /\ Texts \subseteq Seq(1..255)   \* a string ends at its first zero

VARIABLES
  inbuf,    \* the message, a sequence of bytes
  meant,    \* the name its writer meant, Raw if nobody wrote it
  inpos, inend,
  buf,      \* the characters written, bufused of them
  init,     \* no label yet in this call
  octet,    \* characters left of the label; -1 between two labels
  after,    \* the caller's inpos behind the first reference; -1 before it
  ret       \* 0, -1, -2; 1 while it runs

nameVars == <<inbuf, meant, inpos, inend, buf, init, octet, after, ret>>

Dot == 46
Ref == 192
Raw == <<0>>

(* Where the loop finds a label: at the start, and behind a dot.           *)
Heads(name) == {p \in DOMAIN name : p > 1 => name[p - 1] = Dot}

(* How many characters the label at p has: those before the next dot or    *)
(* the end of the name.                                                    *)
LabelLength(name, p) ==
  CHOOSE n \in 0..Len(name) + 1 - p :
    /\ \A i \in p..p + n - 1 : name[i] # Dot
    /\ p + n \in DOMAIN name => name[p + n] = Dot

(* Slip: labels of any length.                                             *)
Slip_LabelError(room, name, p) ==
  LET n == LabelLength(name, p)
  IN  CASE n = 0 -> -3
        [] n > 0 /\ room - (p - 1) < n + 2 -> -2
        [] OTHER -> 0

(* What write_name returns at the label that begins at p, 0 if it goes on. *)
(* A length takes the byte of the dot before it, so p - 1 bytes are        *)
(* written by then; two more than the label are asked for.                 *)
LabelError(room, name, p) ==
  LET n == LabelLength(name, p)
  IN  CASE n > MaxLabel -> -1
        [] n = 0 -> -3
        [] n \in 1..MaxLabel /\ room - (p - 1) < n + 2 -> -2
        [] OTHER -> 0

(* The name without a dot at its end, which adds no label.                 *)
Undotted(name) == IF name # <<>> /\ Last(name) = Dot THEN Front(name) ELSE name

(* Every label behind its length.                                          *)
Encoded(name) ==
  IF name = <<>> THEN <<>> ELSE
    [i \in 1..Len(Undotted(name)) + 1 |->
       IF i \in Heads(name) THEN LabelLength(name, i) ELSE name[i - 1]]

(* offset is -1, or where the rest of the name stands.  The first label    *)
(* with an error ends the loop; write_record drops what was written then.  *)
write_name(room, name, offset) ==
  LET bad == {p \in Heads(name) : LabelError(room, name, p) # 0}
      end == IF offset = -1 THEN <<0>> ELSE <<Ref + (offset \div 256), offset % 256>>
  IN  IF bad # {} THEN [out |-> <<>>, ret |-> LabelError(room, name, Min(bad))]
      ELSE IF room - Len(Encoded(name)) < Len(end) THEN [out |-> <<>>, ret |-> -2]
      ELSE [out |-> Encoded(name) \o end, ret |-> 0]

(* What a reader should make of a name that goes on with a second one.     *)
GoingOn(name, rest) ==
  IF name = <<>> THEN Undotted(rest) ELSE Undotted(name) \o <<Dot>> \o Undotted(rest)

(* A message a query sent; or one with a name written into it, by itself   *)
(* or in front of a reference to a first name.                             *)
NameInit ==
  /\ \/ \E n \in 0..MaxQuery : inbuf \in [1..n -> Bytes] /\ inpos \in Starts \cap 0..n /\ meant = Raw
     \/ \E text \in Texts, room \in 0..bufsize + 2 :
          LET w == write_name(room, text, -1)
          IN  w.ret = 0 /\ inbuf = w.out /\ inpos = 0 /\ meant = Undotted(text)
     \/ \E first, text \in Texts :
          LET q == write_name(bufsize + 2, first, -1)
              w == write_name(bufsize + 2, text, 0)
          IN  /\ q.ret = 0 /\ w.ret = 0 /\ first # <<>>
              /\ inbuf = q.out \o w.out /\ inpos = Len(q.out)
              /\ meant = GoingOn(text, first)
  /\ inend = Len(inbuf) /\ buf = <<>> /\ init = TRUE
  /\ octet = -1 /\ after = -1 /\ ret = 1

(* Beyond the message there is some byte or other.                         *)
Octet(p) == IF p < Len(inbuf) THEN inbuf[p + 1] ELSE 1

Return(n) == ret' = n /\ UNCHANGED <<inend, init, octet, after>>

bufused == Len(buf)

(* Slip: a reference may point anywhere in the message.                    *)
Slip_Backwards(ref, behind) == ref < Len(inbuf)

(* ref lies before the reference that ends at behind.                      *)
Backwards(ref, behind) == ref < behind - 2

Reference(o, out) ==
  IF inpos + 1 = inend THEN Return(-1) /\ inpos' = inpos + 1 /\ buf' = out
  ELSE LET behind == inpos + 2
           ref    == (o - Ref) * 256 + Octet(inpos + 1)
       IN  IF ~ Backwards(ref, behind) THEN Return(-1) /\ inpos' = behind /\ buf' = out
           ELSE /\ inpos' = ref /\ inend' = behind - 2 /\ init' = TRUE /\ buf' = out
                /\ after' = (IF after = -1 THEN behind ELSE after)
                /\ UNCHANGED <<octet, ret>>

NextLabel ==
  /\ ret = 1 /\ octet = -1
  /\ LET o    == Octet(inpos)
         full == ~ init /\ bufused = bufsize - 1
         out  == IF init THEN buf ELSE Append(buf, Dot)
     IN  CASE inpos = inend -> Return(-1) /\ UNCHANGED <<inpos, buf>>
           [] inpos # inend /\ o = 0 -> Return(0) /\ inpos' = inpos + 1 /\ UNCHANGED buf
           [] inpos # inend /\ o # 0 /\ full -> Return(-2) /\ inpos' = inpos + 1 /\ UNCHANGED buf
           [] OTHER ->
                IF o >= Ref THEN Reference(o, out)
                ELSE IF o > MaxLabel THEN Return(-1) /\ inpos' = inpos + 1 /\ buf' = out
                ELSE /\ inpos' = inpos + 1 /\ octet' = o /\ init' = FALSE /\ buf' = out
                     /\ UNCHANGED <<inend, after, ret>>
  /\ UNCHANGED <<inbuf, meant>>

Character ==
  /\ ret = 1 /\ octet > 0
  /\ IF inpos = inend THEN Return(-1) /\ UNCHANGED <<inpos, buf>>
     ELSE IF bufused = bufsize - 1 THEN Return(-2) /\ UNCHANGED <<inpos, buf>>
     ELSE IF Octet(inpos) = Dot THEN Return(-1) /\ inpos' = inpos + 1 /\ UNCHANGED buf
     ELSE /\ inpos' = inpos + 1 /\ octet' = (IF octet = 1 THEN -1 ELSE octet - 1)
          /\ buf' = Append(buf, Octet(inpos))
          /\ UNCHANGED <<inend, init, after, ret>>
  /\ UNCHANGED <<inbuf, meant>>

NameNext == NextLabel \/ Character

NameSpec == NameInit /\ [][NameNext]_nameVars
-----------------------------------------------------------------------------
(* dns.cpp:50-97: whatever the message, references included, parse_name    *)
(* reads inside it, before the reference it followed last, and keeps room  *)
(* for the zero that ends the name.                                        *)
NameStaysInside ==
  /\ inpos \in 0..inend /\ inend <= Len(inbuf) /\ after <= Len(inbuf)
  /\ bufused <= bufsize - 1

(* dns.cpp:50-128: what write_name writes, whole or ending in a reference, *)
(* parse_name gives back, unless it does not fit the buffer or a label     *)
(* holds what no label may.                                                *)
NameComesBack ==
  meant # Raw =>
    /\ ret = 0 => buf = meant
    /\ ret \in {-1, -2} => Len(meant) >= bufsize
=============================================================================
