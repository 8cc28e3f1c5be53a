------------------------------ MODULE DnsReply ------------------------------
(***************************************************************************)
(* How dnshandle answers one datagram (dns.cpp:130-399).  Bytes are        *)
(* counted, not spelled: what matters is which records find room in the    *)
(* BUFLEN bytes of the reply, and in which section.  A record is written   *)
(* piece by piece, each checked for room by itself; when one has none the  *)
(* writer puts the cursor back to where the record began.  The callback    *)
(* may return any mix of addresses of the families it was asked for        *)
(* (DnsCache shows that GetIPList does).                                   *)
(***************************************************************************)
EXTENDS Integers, Sequences

CONSTANTS
  Datagram,   \* what recvmsg can return, see Datagrams
  Opts,       \* the name server and mailbox the program was started with
  Counts      \* how many addresses the callback returns; at most 32

BUFLEN == 512
Header == 12

Types   == {"A", "AAAA", "NS", "SOA", "ANY", "MX"}
Classes == {"IN", "ANY", "CHAOS"}
Kinds   == {"A", "AAAA", "NS", "SOA"}
NoName  == BUFLEN + 1     \* write_name refuses it: a label is empty or too long

(* A datagram: size < 12 (runt), its QR bit, opcode and question count,    *)
(* what parse_name made of the name, whether that is the host or a name    *)
(* under it, whether type and class follow; question counts the bytes of   *)
(* the question section.                                                   *)
Datagrams ==
  [runt : BOOLEAN, qr : BOOLEAN, opcode : 0..15, nquestion : Nat,
   name : {"ok", "bad", "long"}, hosted : BOOLEAN, tail : BOOLEAN,
   typ : Types, cls : Classes, question : 5..BUFLEN - Header]

ASSUME ReplyAssumption ==
  /\ Datagram \subseteq Datagrams
  /\ Opts \subseteq [ns : Nat, mbox : Nat]
  /\ Counts \subseteq 0..32

VARIABLES
  step,     \* where dnshandle is, see Following; recv between two datagrams
  query,    \* the datagram at hand
  opt,      \* ns and mbox as bytes of an encoded name
  rec,      \* the record being written, or "none"
  part,     \* how many of its pieces are written
  oldpos,   \* where it began
  outpos,   \* the cursor of whoever writes
  reserve,  \* max_auth_size
  an, au,   \* how many records of each kind the two sections count
  addr,     \* what is left of the callback's result
  rcode     \* of the last reply; -1 when nothing was sent

replyVars == <<step, query, opt, rec, part, oldpos, outpos, reserve, an, au, addr, rcode>>

NoRecords == [kind \in Kinds |-> 0]
-----------------------------------------------------------------------------
(* What the writers write at a time, in bytes: a reference to the name of  *)
(* the question; type, class and TTL; an address with its length, or the   *)
(* length of what follows; names; the numbers of an SOA record.            *)
Pieces(kind) ==
  CASE kind = "A"    -> <<2, 8, 6>>
    [] kind = "AAAA" -> <<2, 8, 18>>
    [] kind = "NS"   -> <<2, 8, 2, opt.ns>>
    [] kind = "SOA"  -> <<2, 8, 2, opt.ns, opt.mbox, 20>>

(* The error set_error leaves, in the order of the checks; -1 for none.    *)
Refusal(d) ==
  CASE d.qr -> 1
    [] d.opcode # 0 -> 1
    [] d.nquestion = 0 -> 0
    [] d.nquestion > 1 -> 4
    [] d.name = "bad" -> 1
    [] d.name = "long" -> 5
    [] ~ d.hosted -> 5
    [] ~ d.tail -> 1
    [] OTHER -> -1

Asked(types) == query.typ \in types \cup {"ANY"} /\ query.cls \in {"IN", "ANY"}

(* What belongs in the authority section: nothing if NS was answered, SOA  *)
(* if nothing was, else NS.                                                *)
Authority ==
  IF an = NoRecords THEN {"SOA"} ELSE IF an["NS"] > 0 THEN {} ELSE {"NS"}

Trial == step \in {"tryns", "trysoa"}

(* The records to write at this step; an address is of any family asked.   *)
ToWrite ==
  CASE step = "tryns"  -> IF Asked({"NS"}) THEN {} ELSE {"NS"}
    [] step = "trysoa" -> IF Asked({"NS"}) THEN {} ELSE {"SOA"}
    [] step = "ns"     -> IF Asked({"NS"}) THEN {"NS"} ELSE {}
    [] step = "soa"    -> IF Asked({"SOA"}) THEN {"SOA"} ELSE {}
    [] step = "addr"   -> {kind \in {"A", "AAAA"} : addr > 0 /\ query.typ \in {kind, "ANY"}}
    [] step = "auth"   -> Authority
    [] OTHER           -> {}

Following == [tryns |-> "trysoa", trysoa |-> "ns", ns |-> "soa", soa |-> "cb",
              addr |-> "auth", auth |-> "recv"]

(* Slip: answers may use the reserve.                                      *)
Slip_End == BUFLEN

(* Answers stop short of the reserve.                                      *)
End == IF step \in {"ns", "soa", "addr"} THEN BUFLEN - reserve ELSE BUFLEN

(* Slip: the cursor left where the room ended.                             *)
Slip_RolledBack(old, pos) == pos

(* Where a writer that found no room leaves the cursor.                    *)
RolledBack(old, pos) == old
-----------------------------------------------------------------------------
ReplyInit ==
  /\ step = "recv" /\ query = (CHOOSE d \in Datagram : TRUE) /\ opt \in Opts
  /\ rec = "none" /\ part = 0 /\ oldpos = 0 /\ outpos = 0 /\ reserve = 0
  /\ an = NoRecords /\ au = NoRecords /\ addr = 0 /\ rcode = -1

Recv ==
  /\ step = "recv" /\ \E d \in Datagram : query' = d
  /\ an' = NoRecords /\ au' = NoRecords /\ addr' = 0 /\ reserve' = 0
  /\ \/ query'.runt
        /\ rcode' = -1 /\ outpos' = 0 /\ UNCHANGED step
     \/ ~ query'.runt /\ Refusal(query') # -1
        /\ rcode' = Refusal(query') /\ outpos' = Header /\ UNCHANGED step
     \/ ~ query'.runt /\ Refusal(query') = -1
        /\ rcode' = 0 /\ outpos' = Header + query'.question /\ step' = "tryns"
  /\ UNCHANGED <<opt, rec, part, oldpos>>

CallBack ==
  /\ step = "cb" /\ step' = "addr"
  /\ IF Asked({"A", "AAAA"}) THEN addr' \in Counts ELSE addr' = 0
  /\ UNCHANGED <<query, opt, rec, part, oldpos, outpos, reserve, an, au, rcode>>

(* Nothing to write at this step, or nothing more.                         *)
Skip ==
  /\ step \in DOMAIN Following /\ rec = "none" /\ ToWrite = {} /\ step' = Following[step]
  /\ UNCHANGED <<query, opt, rec, part, oldpos, outpos, reserve, an, au, addr, rcode>>

Begin ==
  /\ rec = "none" /\ rec' \in ToWrite /\ oldpos' = outpos
  /\ UNCHANGED <<step, query, opt, part, outpos, reserve, an, au, addr, rcode>>

HasRoom == outpos + Pieces(rec)[part + 1] <= End

WritePiece ==
  /\ rec # "none" /\ part < Len(Pieces(rec)) /\ HasRoom
  /\ outpos' = outpos + Pieces(rec)[part + 1] /\ part' = part + 1
  /\ UNCHANGED <<step, query, opt, rec, oldpos, reserve, an, au, addr, rcode>>

(* A writer returns with its cursor at pos.  A trial is over with that:    *)
(* only how far it came counts.                                            *)
Leave(pos) ==
  /\ rec' = "none" /\ part' = 0 /\ oldpos' = 0
  /\ IF Trial THEN /\ outpos' = oldpos
                   /\ reserve' = IF reserve < pos - oldpos THEN pos - oldpos ELSE reserve
              ELSE outpos' = pos /\ UNCHANGED reserve

Finish ==
  /\ rec # "none" /\ part = Len(Pieces(rec)) /\ Leave(outpos)
  /\ an' = IF step \in {"ns", "soa", "addr"} THEN [an EXCEPT ![rec] = @ + 1] ELSE an
  /\ au' = IF step = "auth" THEN [au EXCEPT ![rec] = @ + 1] ELSE au
  /\ IF step = "addr" THEN addr' = addr - 1 /\ UNCHANGED step
                      ELSE step' = Following[step] /\ UNCHANGED addr
  /\ UNCHANGED <<query, opt, rcode>>

(* The loop over the addresses ends at the first that does not fit.        *)
GiveUp ==
  /\ rec # "none" /\ part < Len(Pieces(rec)) /\ ~ HasRoom
  /\ Leave(RolledBack(oldpos, outpos)) /\ step' = Following[step]
  /\ UNCHANGED <<query, opt, an, au, addr, rcode>>

ReplyNext == Recv \/ CallBack \/ Skip \/ Begin \/ WritePiece \/ Finish \/ GiveUp

ReplySpec == ReplyInit /\ [][ReplyNext]_replyVars
-----------------------------------------------------------------------------
(* Properties.                                                             *)

(* A whole record on the wire: a name, type, class, TTL and the length of  *)
(* the data take 12 bytes.                                                 *)
Size(kind) ==
  CASE kind = "A"    -> 12 + 4
    [] kind = "AAAA" -> 12 + 16
    [] kind = "NS"   -> 12 + opt.ns
    [] kind = "SOA"  -> 12 + opt.ns + opt.mbox + 5 * 4

Written(n) ==
  Size("A") * n["A"] + Size("AAAA") * n["AAAA"] + Size("NS") * n["NS"] + Size("SOA") * n["SOA"]

(* dns.cpp:322: the answers never take the room of the authority record: a *)
(* record that fits behind the question is in the reply when it is needed, *)
(* however many addresses the callback returned.                           *)
AuthorityKept ==
  step = "recv" /\ outpos > Header =>
    \A kind \in Authority :
      Header + query.question + Size(kind) <= BUFLEN => au = [NoRecords EXCEPT ![kind] = 1]

(* dns.cpp:130-256, 318: no writer passes the end of the buffer, and       *)
(* whatever trials and records were given up half way, a reply is the      *)
(* question and whole records, as many as its header counts: it never ends *)
(* inside a record, and none of it is the rest of one.                     *)
LengthIsRecords ==
  /\ outpos <= BUFLEN
  /\ step = "recv" /\ outpos > Header =>
       outpos = Header + query.question + Written(an) + Written(au)
=============================================================================
