----------------------------- MODULE Dns_proofs -----------------------------
(***************************************************************************)
(* Proofs about the DNS server, for any number of threads, any datagrams   *)
(* and names, any addresses and any rates of the cache.  The four parts    *)
(* share no state (see MCDns), so each has an invariant of its own.        *)
(***************************************************************************)
EXTENDS DnsStart, DnsReply, DnsCache, DnsName,
        TLAPS, FiniteSetTheorems, SequenceTheorems, WellFoundedInduction

-----------------------------------------------------------------------------
(* DnsStart.                                                               *)

Places == {"start", "open", "reply", "bind", "serve", "set4", "set6", "rule", "refill", "ended"}

(* One thread starts the server and no other has begun.                    *)
Alone(t, where) == at[t] \in where /\ \A u \in DnsThread \ {t} : at[u] = "start"

StartInv ==
  /\ at \in [DnsThread -> Places] /\ faults \in Nat /\ overlap \in BOOLEAN
  /\ faults = 0 /\ ~overlap =>
       \/ listenSocket = -1 /\ fds = <<>> /\ \A t \in DnsThread : at[t] = "start"
       \/ listenSocket = -1 /\ fds = <<>> /\ \E t \in DnsThread : Alone(t, {"open"})
       \/ listenSocket = 1 /\ fds = <<"open">> /\ \E t \in DnsThread : Alone(t, {"reply", "bind"})
       \/ /\ listenSocket = 1 /\ fds = <<"bound">>
          /\ \A t \in DnsThread : at[t] \notin {"open", "reply", "bind", "ended"}

LEMMA StartStep == StartInv /\ [StartNext]_startVars => StartInv'
<1> SUFFICES ASSUME StartInv, [StartNext]_startVars PROVE StartInv'
  OBVIOUS
<1> USE DEF Move, InStartUp, Listening, Fault, Places
<1>1. CASE UNCHANGED startVars
  BY <1>1 DEF StartInv, Alone, startVars
<1>2. ASSUME NEW t \in DnsThread, Check(t) PROVE StartInv'
  <2>1. at' \in [DnsThread -> Places] /\ faults' \in Nat /\ overlap' \in BOOLEAN
    <3>1. at' \in [DnsThread -> Places] /\ faults' \in Nat
      BY <1>2 DEF Check, StartInv
    <3>2. overlap' \in BOOLEAN
      BY <1>2, Zenon DEF Check, StartInv
    <3> QED
      BY <3>1, <3>2
  <2>2. SUFFICES ASSUME faults' = 0, ~overlap'
                 PROVE  \/ /\ listenSocket = -1 /\ fds = <<>>
                           /\ \E u \in DnsThread : Alone(u, {"open"})'
                        \/ /\ listenSocket = 1 /\ fds = <<"bound">>
                           /\ \A u \in DnsThread : at'[u] \notin {"open", "reply", "bind", "ended"}
    BY <1>2, <2>1 DEF Check, StartInv
  <2>3. /\ faults = 0 /\ ~overlap /\ \A u \in DnsThread : ~InStartUp(u)
        /\ at' = [at EXCEPT ![t] = IF listenSocket = -1 THEN "open" ELSE "serve"]
    <3>1. ~ Fault
      BY <2>2 DEF StartInv
    <3>2. /\ faults' = faults /\ overlap' = (overlap \/ \E u \in DnsThread : InStartUp(u))
          /\ at' = [at EXCEPT ![t] = IF listenSocket = -1 THEN "open" ELSE "serve"]
      BY <1>2, <3>1 DEF Check
    <3>3. ~ (overlap \/ \E u \in DnsThread : InStartUp(u))
      BY <2>2, <3>2
    <3> QED
      BY <2>2, <3>2, <3>3
  <2>4. \/ listenSocket = -1 /\ fds = <<>> /\ \A u \in DnsThread : at[u] = "start"
        \/ /\ listenSocket = 1 /\ fds = <<"bound">>
           /\ \A u \in DnsThread : at[u] \notin {"open", "reply", "bind", "ended"}
    BY <2>3 DEF StartInv, Alone
  <2>5. CASE listenSocket = -1
    <3>1. Alone(t, {"open"})'
      BY <1>2, <2>3, <2>4, <2>5 DEF StartInv, Alone, Check
    <3> QED
      BY <2>4, <2>5, <3>1
  <2>6. CASE listenSocket # -1
    BY <1>2, <2>3, <2>4, <2>6 DEF StartInv
  <2> QED
    BY <2>5, <2>6
<1>3. ASSUME NEW t \in DnsThread, Open(t) PROVE StartInv'
  <2>1. at' \in [DnsThread -> Places] /\ faults' \in Nat /\ overlap' \in BOOLEAN
    BY <1>3 DEF Open, StartInv
  <2>2. SUFFICES ASSUME faults' = 0, ~overlap'
                 PROVE  /\ listenSocket' = 1 /\ fds' = <<"open">>
                        /\ Alone(t, {"reply", "bind"})'
    BY <2>1 DEF StartInv
  <2>3. /\ faults = 0 /\ ~overlap /\ at[t] = "open" /\ at' = [at EXCEPT ![t] = "reply"]
        /\ fds' = Append(fds, "open") /\ listenSocket' = Len(fds')
    BY <1>3, <2>2 DEF Open, StartInv
  <2>4. fds = <<>> /\ Alone(t, {"open"})
    BY <2>3 DEF StartInv, Alone
  <2> QED
    BY <2>3, <2>4 DEF StartInv, Alone
<1>4. ASSUME NEW t \in DnsThread, Reply(t) PROVE StartInv'
  <2>1. at' \in [DnsThread -> Places] /\ faults' \in Nat /\ overlap' \in BOOLEAN
    BY <1>4 DEF Reply, StartInv
  <2>2. SUFFICES ASSUME faults' = 0, ~overlap'
                 PROVE  /\ listenSocket' = 1 /\ fds' = <<"open">>
                        /\ Alone(t, {"reply", "bind"})'
    BY <2>1 DEF StartInv
  <2>3. /\ faults = 0 /\ ~overlap /\ at[t] = "reply" /\ at' = [at EXCEPT ![t] = "bind"]
        /\ UNCHANGED <<fds, listenSocket>>
    BY <1>4, <2>2 DEF Reply, StartInv
  <2>4. listenSocket = 1 /\ fds = <<"open">> /\ Alone(t, {"reply", "bind"})
    BY <2>3 DEF StartInv, Alone
  <2> QED
    BY <2>3, <2>4 DEF StartInv, Alone
<1>5. ASSUME NEW t \in DnsThread, Bind(t) PROVE StartInv'
  <2>1. at' \in [DnsThread -> Places] /\ faults' \in Nat /\ overlap' \in BOOLEAN
    BY <1>5 DEF Bind, StartInv
  <2>2. SUFFICES ASSUME faults' = 0, ~overlap'
                 PROVE  /\ listenSocket' = 1 /\ fds' = <<"bound">>
                        /\ \A u \in DnsThread : at'[u] \notin {"open", "reply", "bind", "ended"}
    BY <2>1 DEF StartInv
  <2>3. faults = 0 /\ ~overlap /\ at[t] = "bind" /\ UNCHANGED listenSocket
    BY <1>5, <2>2 DEF Bind, StartInv
  <2>4. listenSocket = 1 /\ fds = <<"open">> /\ Alone(t, {"reply", "bind"})
    BY <2>3 DEF StartInv, Alone
  <2>5. fds' = [fds EXCEPT ![1] = "bound"] /\ at' = [at EXCEPT ![t] = "serve"]
    <3>1. DOMAIN fds = {1} /\ fds[1] = "open"
      BY <2>4
    <3> QED
      BY <1>5, <2>2, <2>3, <2>4, <3>1 DEF Bind
  <2>6. fds' = <<"bound">>
    BY <2>4, <2>5
  <2> QED
    BY <2>3, <2>4, <2>5, <2>6 DEF StartInv, Alone
<1>6. ASSUME NEW t \in DnsThread, Query(t) \/ CacheStep(t) PROVE StartInv'
  <2>1. /\ at[t] \in {"serve", "set4", "set6", "rule", "refill"}
        /\ \E w \in {"serve", "set4", "set6", "rule", "refill"} : at' = [at EXCEPT ![t] = w]
        /\ UNCHANGED <<listenSocket, fds, faults, overlap>>
    BY <1>6 DEF Query, CacheStep, Set4, Set6, Rule, Refill
  <2>2. at' \in [DnsThread -> Places] /\ faults' \in Nat /\ overlap' \in BOOLEAN
    BY <2>1 DEF StartInv
  <2>3. SUFFICES ASSUME faults' = 0, ~overlap'
                 PROVE  /\ listenSocket' = 1 /\ fds' = <<"bound">>
                        /\ \A u \in DnsThread : at'[u] \notin {"open", "reply", "bind", "ended"}
    BY <2>2 DEF StartInv
  <2>4. /\ listenSocket = 1 /\ fds = <<"bound">>
        /\ \A u \in DnsThread : at[u] \notin {"open", "reply", "bind", "ended"}
    BY <2>1, <2>3 DEF StartInv, Alone
  <2> QED
    BY <2>1, <2>4 DEF StartInv
<1> QED
  BY <1>1, <1>2, <1>3, <1>4, <1>5, <1>6 DEF StartNext

(* dns.cpp:411-431: unless a call fails or two threads are in the start-up *)
(* at once, the threads share one bound socket and none has given up.      *)
THEOREM ThreadsHear == StartSpec => []EveryThreadHears
<1>1. StartInit => StartInv
  <2> SUFFICES ASSUME StartInit PROVE StartInv
    OBVIOUS
  <2>1. at \in [DnsThread -> Places] /\ faults \in Nat /\ overlap \in BOOLEAN
    BY DEF StartInit, Places
  <2>2. listenSocket = -1 /\ fds = <<>> /\ \A t \in DnsThread : at[t] = "start"
    BY DEF StartInit
  <2> QED
    BY <2>1, <2>2 DEF StartInv
<1>2. StartInv => EveryThreadHears
  BY DEF StartInv, EveryThreadHears, Alone, InStartUp, Hears, Listening
<1> QED
  BY <1>1, <1>2, StartStep, PTL DEF StartSpec
-----------------------------------------------------------------------------
(* DnsReply.                                                               *)

Steps == {"recv", "tryns", "trysoa", "ns", "soa", "cb", "addr", "auth"}

(* The bytes of a record after i of its pieces.                            *)
Mark(kind, i) ==
  CASE i = 0 -> 0
    [] i = 1 -> 2
    [] i = 2 -> 10
    [] i = 3 -> IF kind = "A" THEN 16 ELSE IF kind = "AAAA" THEN 28 ELSE 12
    [] i = 4 -> 12 + opt.ns
    [] i = 5 -> 12 + opt.ns + opt.mbox
    [] OTHER -> 32 + opt.ns + opt.mbox

(* Where dnshandle's own cursor is between two records.                    *)
Base == Header + query.question + Written(an) + Written(au)

(* Whether the record has room right behind the question.                  *)
FitsFirst(kind) == Header + query.question + Size(kind) <= BUFLEN

(* An NS record that was asked for is in the answer, or has no room; then  *)
(* nothing is reserved.                                                    *)
NsAnswered == Asked({"NS"}) => an["NS"] > 0 \/ ~ FitsFirst("NS")

(* What the trials tried so far found out.                                 *)
ReserveOK ==
  /\ reserve \in Nat /\ Header + query.question + reserve <= BUFLEN
  /\ Asked({"NS"}) => reserve = 0
  /\ ~ Asked({"NS"}) /\ step # "tryns" /\ FitsFirst("NS") => Size("NS") <= reserve
  /\ ~ Asked({"NS"}) /\ ~ Trial /\ FitsFirst("SOA") => Size("SOA") <= reserve

(* The cursor is between two records or behind a piece of one.             *)
CursorOK ==
  /\ rec = "none" => part = 0 /\ outpos = Base
  /\ rec # "none" => /\ rec \in ToWrite /\ part \in 0..Len(Pieces(rec))
                     /\ oldpos = Base /\ outpos = oldpos + Mark(rec, part) /\ outpos <= End

AnsweringOK ==
  /\ query \in Datagram /\ au = NoRecords /\ addr \in Nat
  /\ step \in {"tryns", "trysoa", "ns"} => an = NoRecords
  /\ step \in {"soa", "cb", "addr", "auth"} => NsAnswered
  /\ step = "cb" => rec = "none"
  /\ ReserveOK /\ Base + reserve <= BUFLEN /\ CursorOK

ReplyInv ==
  /\ step \in Steps /\ opt \in Opts /\ rec \in Kinds \cup {"none"}
  /\ an \in [Kinds -> Nat] /\ au \in [Kinds -> Nat] /\ outpos \in Nat /\ outpos <= BUFLEN
  /\ step = "recv" => rec = "none" /\ part = 0
  /\ step # "recv" => outpos > Header /\ AnsweringOK
  /\ LengthIsRecords
  /\ AuthorityKept

LEMMA Sizes ==
  ASSUME opt \in Opts
  PROVE  /\ opt.ns \in Nat /\ opt.mbox \in Nat
         /\ Size("A") = 16 /\ Size("AAAA") = 28
         /\ Size("NS") = 12 + opt.ns /\ Size("SOA") = 32 + opt.ns + opt.mbox
         /\ \A kind \in Kinds : Size(kind) \in Nat
<1>1. opt.ns \in Nat /\ opt.mbox \in Nat
  BY ReplyAssumption
<1>2. Size("A") = 16 /\ Size("AAAA") = 28
  BY DEF Size
<1>3. Size("NS") = 12 + opt.ns
  BY <1>1 DEF Size
<1>4. Size("SOA") = 32 + opt.ns + opt.mbox
  BY <1>1 DEF Size
<1> QED
  BY <1>1, <1>2, <1>3, <1>4 DEF Kinds

(* The pieces of a record are the record.                                  *)
LEMMA PiecesAdd ==
  ASSUME opt \in Opts, NEW kind \in Kinds
  PROVE  /\ Len(Pieces(kind)) \in Nat
         /\ Mark(kind, 0) = 0 /\ Mark(kind, Len(Pieces(kind))) = Size(kind)
         /\ \A i \in 0..Len(Pieces(kind)) : /\ Mark(kind, i) \in Nat
                                            /\ Mark(kind, i) <= Size(kind)
         /\ \A i \in 0..Len(Pieces(kind)) - 1 :
              /\ Pieces(kind)[i + 1] \in Nat
              /\ Mark(kind, i + 1) = Mark(kind, i) + Pieces(kind)[i + 1]
<1>1. /\ opt.ns \in Nat /\ opt.mbox \in Nat
      /\ Size("A") = 16 /\ Size("AAAA") = 28
      /\ Size("NS") = 12 + opt.ns /\ Size("SOA") = 32 + opt.ns + opt.mbox
  BY Sizes
<1>2. CASE kind = "A"
  <2>1. Pieces(kind) = <<2, 8, 6>>
    BY <1>2 DEF Pieces
  <2>2. /\ Len(Pieces(kind)) = 3
        /\ Pieces(kind)[1] = 2 /\ Pieces(kind)[2] = 8 /\ Pieces(kind)[3] = 6
    BY <2>1
  <2>3. /\ Mark(kind, 0) = 0 /\ Mark(kind, 1) = 2 /\ Mark(kind, 2) = 10 /\ Mark(kind, 3) = 16
        /\ Size(kind) = 16
    BY <1>1, <1>2 DEF Mark
  <2>4. 0..3 = {0, 1, 2, 3} /\ 0..3 - 1 = {0, 1, 2}
    OBVIOUS
  <2> QED
    BY <2>2, <2>3, <2>4
<1>3. CASE kind = "AAAA"
  <2>1. Pieces(kind) = <<2, 8, 18>>
    BY <1>3 DEF Pieces
  <2>2. /\ Len(Pieces(kind)) = 3
        /\ Pieces(kind)[1] = 2 /\ Pieces(kind)[2] = 8 /\ Pieces(kind)[3] = 18
    BY <2>1
  <2>3. /\ Mark(kind, 0) = 0 /\ Mark(kind, 1) = 2 /\ Mark(kind, 2) = 10 /\ Mark(kind, 3) = 28
        /\ Size(kind) = 28
    BY <1>1, <1>3 DEF Mark
  <2>4. 0..3 = {0, 1, 2, 3} /\ 0..3 - 1 = {0, 1, 2}
    OBVIOUS
  <2> QED
    BY <2>2, <2>3, <2>4
<1>4. CASE kind = "NS"
  <2>1. Pieces(kind) = <<2, 8, 2, opt.ns>>
    BY <1>4 DEF Pieces
  <2>2. /\ Len(Pieces(kind)) = 4
        /\ Pieces(kind)[1] = 2 /\ Pieces(kind)[2] = 8 /\ Pieces(kind)[3] = 2
        /\ Pieces(kind)[4] = opt.ns
    BY <2>1
  <2>3. /\ Mark(kind, 0) = 0 /\ Mark(kind, 1) = 2 /\ Mark(kind, 2) = 10 /\ Mark(kind, 3) = 12
        /\ Mark(kind, 4) = 12 + opt.ns /\ Size(kind) = 12 + opt.ns
    BY <1>1, <1>4 DEF Mark
  <2>4. 0..4 = {0, 1, 2, 3, 4} /\ 0..4 - 1 = {0, 1, 2, 3}
    OBVIOUS
  <2> QED
    BY <1>1, <2>2, <2>3, <2>4
<1>5. CASE kind = "SOA"
  <2>1. Pieces(kind) = <<2, 8, 2, opt.ns, opt.mbox, 20>>
    BY <1>5 DEF Pieces
  <2>2. /\ Len(Pieces(kind)) = 6
        /\ Pieces(kind)[1] = 2 /\ Pieces(kind)[2] = 8 /\ Pieces(kind)[3] = 2
        /\ Pieces(kind)[4] = opt.ns /\ Pieces(kind)[5] = opt.mbox /\ Pieces(kind)[6] = 20
    BY <2>1
  <2>3. /\ Mark(kind, 0) = 0 /\ Mark(kind, 1) = 2 /\ Mark(kind, 2) = 10 /\ Mark(kind, 3) = 12
        /\ Mark(kind, 4) = 12 + opt.ns /\ Mark(kind, 5) = 12 + opt.ns + opt.mbox
        /\ Mark(kind, 6) = 32 + opt.ns + opt.mbox /\ Size(kind) = 32 + opt.ns + opt.mbox
    BY <1>1, <1>5 DEF Mark
  <2>4. 0..6 = {0, 1, 2, 3, 4, 5, 6} /\ 0..6 - 1 = {0, 1, 2, 3, 4, 5}
    OBVIOUS
  <2> QED
    BY <1>1, <2>2, <2>3, <2>4
<1> QED
  BY <1>2, <1>3, <1>4, <1>5 DEF Kinds

LEMMA Totals ==
  ASSUME opt \in Opts
  PROVE  /\ NoRecords \in [Kinds -> Nat] /\ Written(NoRecords) = 0
         /\ \A n \in [Kinds -> Nat] : Written(n) \in Nat
         /\ \A n \in [Kinds -> Nat], kind \in Kinds :
              Written([n EXCEPT ![kind] = @ + 1]) = Written(n) + Size(kind)
<1>1. /\ Size("A") \in Nat /\ Size("AAAA") \in Nat /\ Size("NS") \in Nat /\ Size("SOA") \in Nat
  BY Sizes DEF Kinds
<1>2. NoRecords \in [Kinds -> Nat] /\ Written(NoRecords) = 0
  BY <1>1 DEF NoRecords, Written, Kinds
<1>3. \A a, b \in Nat : a * b \in Nat /\ a * (b + 1) = a * b + a
  OBVIOUS
<1>4. ASSUME NEW n \in [Kinds -> Nat]
      PROVE  /\ Size("A") * n["A"] \in Nat /\ Size("AAAA") * n["AAAA"] \in Nat
             /\ Size("NS") * n["NS"] \in Nat /\ Size("SOA") * n["SOA"] \in Nat
             /\ n["A"] \in Nat /\ n["AAAA"] \in Nat /\ n["NS"] \in Nat /\ n["SOA"] \in Nat
  <2>1. n["A"] \in Nat /\ n["AAAA"] \in Nat /\ n["NS"] \in Nat /\ n["SOA"] \in Nat
    BY DEF Kinds
  <2> QED
    BY <1>1, <1>3, <2>1
<1>5. \A n \in [Kinds -> Nat] : Written(n) \in Nat
  BY <1>4 DEF Written
<1>6. ASSUME NEW n \in [Kinds -> Nat], NEW kind \in Kinds
      PROVE  Written([n EXCEPT ![kind] = @ + 1]) = Written(n) + Size(kind)
  <2> DEFINE m == [n EXCEPT ![kind] = @ + 1]
  <2>1. /\ m["A"] = IF kind = "A" THEN n["A"] + 1 ELSE n["A"]
        /\ m["AAAA"] = IF kind = "AAAA" THEN n["AAAA"] + 1 ELSE n["AAAA"]
        /\ m["NS"] = IF kind = "NS" THEN n["NS"] + 1 ELSE n["NS"]
        /\ m["SOA"] = IF kind = "SOA" THEN n["SOA"] + 1 ELSE n["SOA"]
    BY DEF Kinds
  <2> HIDE DEF m
  <2>2. /\ Size("A") * m["A"]
             = Size("A") * n["A"] + (IF kind = "A" THEN Size("A") ELSE 0)
        /\ Size("AAAA") * m["AAAA"]
             = Size("AAAA") * n["AAAA"] + (IF kind = "AAAA" THEN Size("AAAA") ELSE 0)
        /\ Size("NS") * m["NS"]
             = Size("NS") * n["NS"] + (IF kind = "NS" THEN Size("NS") ELSE 0)
        /\ Size("SOA") * m["SOA"]
             = Size("SOA") * n["SOA"] + (IF kind = "SOA" THEN Size("SOA") ELSE 0)
    <3>1. ASSUME NEW a \in Nat, NEW b \in Nat, NEW P \in BOOLEAN
          PROVE  a * (IF P THEN b + 1 ELSE b) = a * b + (IF P THEN a ELSE 0)
      BY <1>3
    <3>2. Size("A") * m["A"]
            = Size("A") * n["A"] + (IF kind = "A" THEN Size("A") ELSE 0)
      <4>1. n["A"] \in Nat
        BY <1>4
      <4> QED
        BY <1>1, <2>1, <4>1, <3>1
    <3>3. Size("AAAA") * m["AAAA"]
            = Size("AAAA") * n["AAAA"] + (IF kind = "AAAA" THEN Size("AAAA") ELSE 0)
      <4>1. n["AAAA"] \in Nat
        BY <1>4
      <4> QED
        BY <1>1, <2>1, <4>1, <3>1
    <3>4. Size("NS") * m["NS"]
            = Size("NS") * n["NS"] + (IF kind = "NS" THEN Size("NS") ELSE 0)
      <4>1. n["NS"] \in Nat
        BY <1>4
      <4> QED
        BY <1>1, <2>1, <4>1, <3>1
    <3>5. Size("SOA") * m["SOA"]
            = Size("SOA") * n["SOA"] + (IF kind = "SOA" THEN Size("SOA") ELSE 0)
      <4>1. n["SOA"] \in Nat
        BY <1>4
      <4> QED
        BY <1>1, <2>1, <4>1, <3>1
    <3> QED
      BY <3>2, <3>3, <3>4, <3>5
  <2>3. Written(m) = Written(n) + Size(kind)
    BY <1>1, <1>4, <2>2 DEF Written, Kinds
  <2> QED
    BY <2>3 DEF m
<1> QED
  BY <1>2, <1>5, <1>6

(* Without records the cursor is right behind the question.                *)
LEMMA Bases ==
  ASSUME ReplyInv, step # "recv"
  PROVE  /\ query.question \in 5..BUFLEN - Header /\ Base \in Nat /\ Base > Header
         /\ Written(an) \in Nat /\ Written(au) = 0
         /\ Base = Header + query.question + Written(an)
         /\ an = NoRecords => Base = Header + query.question
<1>1. /\ query \in Datagram /\ au = NoRecords /\ opt \in Opts /\ an \in [Kinds -> Nat]
  BY DEF ReplyInv, AnsweringOK
<1>2. query.question \in 5..BUFLEN - Header
  BY <1>1, ReplyAssumption DEF Datagrams
<1>3. Written(an) \in Nat /\ Written(au) = 0 /\ (an = NoRecords => Written(an) = 0)
  BY <1>1, Totals
<1> QED
  BY <1>2, <1>3 DEF Base, Header, BUFLEN

(* A step that leaves options, query and records as they are.              *)
LEMMA SameRecords ==
  ASSUME UNCHANGED <<query, opt, an, au>>
  PROVE  /\ Base' = Base /\ (\A kind : Size(kind)' = Size(kind) /\ Pieces(kind)' = Pieces(kind))
         /\ (\A kind, i : Mark(kind, i)' = Mark(kind, i))
         /\ (\A kind : FitsFirst(kind)' = FitsFirst(kind))
         /\ (Asked({"NS"})' <=> Asked({"NS"})) /\ (NsAnswered' <=> NsAnswered)
         /\ Authority' = Authority
<1> USE DEF Size, Written, Asked, Pieces, Mark
<1>1. Base' = Base
  BY DEF Base
<1>2. \A kind : FitsFirst(kind)' = FitsFirst(kind)
  BY DEF FitsFirst
<1>3. NsAnswered' <=> NsAnswered
  BY DEF NsAnswered, FitsFirst
<1> QED
  BY <1>1, <1>2, <1>3 DEF Authority

(* LengthIsRecords and AuthorityKept speak of complete replies.            *)
LEMMA NotComplete ==
  ASSUME step # "recv", outpos <= BUFLEN
  PROVE  LengthIsRecords /\ AuthorityKept
  BY DEF LengthIsRecords, AuthorityKept

LEMMA RecvStep ==
  ASSUME ReplyInv, Recv
  PROVE  ReplyInv'
<1>1. /\ step = "recv" /\ opt' \in Opts /\ query' \in Datagram
      /\ an' = NoRecords /\ au' = NoRecords /\ addr' = 0 /\ reserve' = 0
      /\ rec' = "none" /\ part' = 0 /\ oldpos' = oldpos
  BY DEF Recv, ReplyInv
<1>2. an' \in [Kinds -> Nat] /\ au' \in [Kinds -> Nat] /\ (opt \in Opts => Written(NoRecords) = 0)'
  <2>1. NoRecords \in [Kinds -> Nat]
    BY DEF NoRecords
  <2>2. (opt \in Opts => Written(NoRecords) = 0)'
    BY Totals, PTL
  <2> QED
    BY <1>1, <2>1, <2>2
<1>3. CASE step' = step /\ outpos' \in {0, Header}
  <2>1. outpos' \in Nat /\ outpos' <= BUFLEN /\ ~ (outpos' > Header)
    BY <1>3 DEF Header, BUFLEN
  <2>2. LengthIsRecords' /\ AuthorityKept'
    BY <2>1 DEF LengthIsRecords, AuthorityKept
  <2> QED
    BY <1>1, <1>2, <1>3, <2>1, <2>2 DEF ReplyInv, Steps
<1>4. CASE step' = "tryns" /\ outpos' = Header + query'.question
  <2>1. query'.question \in 5..BUFLEN - Header
    BY <1>1, ReplyAssumption DEF Datagrams
  <2>2. outpos' \in Nat /\ outpos' > Header /\ outpos' <= BUFLEN
    BY <1>4, <2>1 DEF Header, BUFLEN
  <2>3. Base' = outpos'
    <3>1. Written(an)' = 0 /\ Written(au)' = 0
      <4>1. Written(NoRecords)' = 0
        BY <1>1, <1>2
      <4> QED
        BY <1>1, <4>1 DEF Written, Size
    <3> QED
      BY <1>4, <2>1, <3>1 DEF Base, Header, BUFLEN
  <2>4. ReserveOK'
    BY <1>1, <1>4, <2>1, <2>2 DEF ReserveOK, Trial, Header, BUFLEN
  <2>5. CursorOK'
    BY <1>1, <2>3 DEF CursorOK
  <2>6. AnsweringOK'
    BY <1>1, <1>4, <2>2, <2>3, <2>4, <2>5 DEF AnsweringOK
  <2>7. LengthIsRecords' /\ AuthorityKept'
    BY <1>4, <2>2 DEF LengthIsRecords, AuthorityKept
  <2> QED
    BY <1>1, <1>2, <1>4, <2>2, <2>6, <2>7 DEF ReplyInv, Steps
<1> QED
  BY <1>3, <1>4 DEF Recv

LEMMA CallBackStep ==
  ASSUME ReplyInv, CallBack
  PROVE  ReplyInv'
<1>1. /\ step = "cb" /\ step' = "addr" /\ addr' \in Nat
      /\ UNCHANGED <<query, opt, rec, part, oldpos, outpos, reserve, an, au>>
  <2>1. \A n \in Counts : n \in Nat
    BY ReplyAssumption
  <2>2. addr' \in Counts \/ addr' = 0
    BY DEF CallBack
  <2>3. /\ step = "cb" /\ step' = "addr"
        /\ UNCHANGED <<query, opt, rec, part, oldpos, outpos, reserve, an, au>>
    BY DEF CallBack
  <2>4. addr' \in Nat
    BY <2>1, <2>2
  <2> QED
    BY <2>3, <2>4
<1>2. AnsweringOK /\ rec = "none" /\ outpos > Header /\ outpos <= BUFLEN
  BY <1>1 DEF ReplyInv, AnsweringOK
<1>3. /\ Base' = Base /\ (NsAnswered' <=> NsAnswered) /\ (Asked({"NS"})' <=> Asked({"NS"}))
      /\ \A kind : Size(kind)' = Size(kind) /\ FitsFirst(kind)' = FitsFirst(kind)
  BY <1>1, SameRecords
<1>4. ReserveOK' /\ CursorOK'
  BY <1>1, <1>2, <1>3 DEF AnsweringOK, ReserveOK, CursorOK, Trial
<1>5. AnsweringOK'
  BY <1>1, <1>2, <1>3, <1>4 DEF AnsweringOK
<1>6. LengthIsRecords' /\ AuthorityKept'
  BY <1>1, <1>2 DEF LengthIsRecords, AuthorityKept
<1> QED
  BY <1>1, <1>2, <1>5, <1>6 DEF ReplyInv, Steps

(* Beginning a record or writing a piece of it.                            *)
LEMMA BeginStep ==
  ASSUME ReplyInv, Begin
  PROVE  ReplyInv'
<1>1. /\ rec = "none" /\ rec' \in ToWrite /\ oldpos' = outpos
      /\ UNCHANGED <<step, query, opt, part, outpos, reserve, an, au, addr>>
  BY DEF Begin
<1>2. step # "recv" /\ step # "cb" /\ ToWrite \subseteq Kinds
  BY <1>1 DEF ToWrite, Authority, Kinds
<1>3. AnsweringOK /\ opt \in Opts /\ part = 0 /\ outpos = Base /\ outpos > Header
  BY <1>1, <1>2 DEF ReplyInv, AnsweringOK, CursorOK
<1>4. /\ Base' = Base /\ (NsAnswered' <=> NsAnswered) /\ (Asked({"NS"})' <=> Asked({"NS"}))
      /\ \A kind : /\ Size(kind)' = Size(kind) /\ FitsFirst(kind)' = FitsFirst(kind)
                   /\ Pieces(kind)' = Pieces(kind)
      /\ \A kind, i : Mark(kind, i)' = Mark(kind, i)
  BY <1>1, SameRecords
<1>5. ToWrite' = ToWrite /\ End' = End
  BY <1>1 DEF ToWrite, Authority, Asked, End
<1>6. rec' \in Kinds /\ Len(Pieces(rec')) \in Nat /\ Mark(rec', 0) = 0
  BY <1>1, <1>2, <1>3, PiecesAdd
<1>7. outpos <= End /\ outpos \in Nat
  BY <1>3, Bases, <1>2 DEF End, AnsweringOK, ReserveOK, BUFLEN, Header
<1>8. CursorOK'
  <2>1. rec' # "none"
    BY <1>6 DEF Kinds
  <2>2. (part \in 0..Len(Pieces(rec)) /\ outpos = oldpos + Mark(rec, part))'
    <3>1. part' = 0 /\ oldpos' = outpos' /\ outpos' \in Nat
      BY <1>1, <1>3, <1>7
    <3>2. Len(Pieces(rec))' = Len(Pieces(rec')) /\ Mark(rec, part)' = Mark(rec', 0)
      BY <1>1, <1>3 DEF Pieces, Mark
    <3> QED
      BY <1>6, <3>1, <3>2
  <2> QED
    BY <1>1, <1>3, <1>4, <1>5, <1>7, <2>1, <2>2 DEF CursorOK
<1>9. ReserveOK'
  BY <1>1, <1>3, <1>4 DEF AnsweringOK, ReserveOK, Trial
<1>10. AnsweringOK'
  BY <1>1, <1>2, <1>3, <1>4, <1>8, <1>9 DEF AnsweringOK
<1>11. outpos' <= BUFLEN /\ LengthIsRecords' /\ AuthorityKept'
  BY <1>1, <1>2 DEF ReplyInv, LengthIsRecords, AuthorityKept
<1> QED
  BY <1>1, <1>2, <1>3, <1>6, <1>7, <1>10, <1>11 DEF ReplyInv

LEMMA WritePieceStep ==
  ASSUME ReplyInv, WritePiece
  PROVE  ReplyInv'
<1> DEFINE piece == Pieces(rec)[part + 1]
<1>1. /\ rec # "none" /\ part < Len(Pieces(rec)) /\ outpos + piece <= End
      /\ outpos' = outpos + piece /\ part' = part + 1
      /\ UNCHANGED <<step, query, opt, rec, oldpos, reserve, an, au, addr>>
  BY DEF WritePiece, HasRoom
<1>2. /\ step # "recv" /\ rec \in Kinds /\ AnsweringOK /\ opt \in Opts
      /\ outpos \in Nat /\ outpos > Header
  BY <1>1 DEF ReplyInv
<1>3. step # "cb" /\ reserve \in Nat
  BY <1>1, <1>2 DEF AnsweringOK, ReserveOK
<1>4. /\ rec \in ToWrite /\ part \in 0..Len(Pieces(rec))
      /\ oldpos = Base /\ outpos = oldpos + Mark(rec, part)
  BY <1>1, <1>2 DEF AnsweringOK, CursorOK
<1>5. /\ Len(Pieces(rec)) \in Nat /\ piece \in Nat /\ part + 1 \in 0..Len(Pieces(rec))
      /\ Mark(rec, part) \in Nat /\ Mark(rec, part + 1) = Mark(rec, part) + piece
  <2>1. Len(Pieces(rec)) \in Nat
    BY <1>2, PiecesAdd
  <2>2. part \in 0..Len(Pieces(rec)) - 1 /\ part + 1 \in 0..Len(Pieces(rec))
    BY <1>1, <1>4, <2>1
  <2> QED
    BY <1>2, <1>4, <2>1, <2>2, PiecesAdd
<1> HIDE DEF piece
<1>6. /\ Base' = Base /\ (NsAnswered' <=> NsAnswered) /\ (Asked({"NS"})' <=> Asked({"NS"}))
      /\ \A kind : /\ Size(kind)' = Size(kind) /\ FitsFirst(kind)' = FitsFirst(kind)
                   /\ Pieces(kind)' = Pieces(kind)
      /\ \A kind, i : Mark(kind, i)' = Mark(kind, i)
  BY <1>1, SameRecords
<1>7. ToWrite' = ToWrite /\ End' = End
  BY <1>1 DEF ToWrite, Authority, Asked, End
<1>8. outpos' \in Nat /\ outpos' > Header /\ outpos' <= End /\ outpos' <= BUFLEN
  BY <1>1, <1>2, <1>3, <1>5 DEF End, Header, BUFLEN
<1>9. oldpos \in Nat /\ outpos' = oldpos' + Mark(rec, part + 1)
  <2>1. oldpos \in Nat
    BY <1>2, <1>4, Bases
  <2> QED
    BY <1>1, <1>4, <1>5, <2>1
<1>10. CursorOK'
  <2>1. (part \in 0..Len(Pieces(rec)) /\ outpos = oldpos + Mark(rec, part))'
    <3>1. Len(Pieces(rec))' = Len(Pieces(rec)) /\ Mark(rec, part)' = Mark(rec, part + 1)
      BY <1>1 DEF Pieces, Mark
    <3> QED
      BY <1>1, <1>5, <1>9, <3>1
  <2> QED
    BY <1>1, <1>4, <1>6, <1>7, <1>8, <2>1 DEF CursorOK
<1>11. ReserveOK'
  BY <1>1, <1>2, <1>6 DEF AnsweringOK, ReserveOK, Trial
<1>12. AnsweringOK'
  BY <1>1, <1>2, <1>3, <1>6, <1>10, <1>11 DEF AnsweringOK
<1>13. LengthIsRecords' /\ AuthorityKept'
  BY <1>1, <1>2, <1>8 DEF LengthIsRecords, AuthorityKept
<1> QED
  BY <1>1, <1>2, <1>8, <1>12, <1>13 DEF ReplyInv

(* The end of a record: what Finish, GiveUp and Skip have in common.       *)

(* Whatever record comes next to what is there, its authority has the room *)
(* reserved, or had none behind the question.                              *)
LEMMA RoomForAuthority ==
  ASSUME ReplyInv, step = "auth", NEW kind \in Authority, FitsFirst(kind)
  PROVE  Base + Size(kind) <= BUFLEN
<1>1. /\ AnsweringOK /\ ReserveOK /\ NsAnswered /\ opt \in Opts /\ an \in [Kinds -> Nat]
      /\ ~ Trial /\ Base + reserve <= BUFLEN /\ reserve \in Nat
  BY DEF ReplyInv, AnsweringOK, ReserveOK, Trial
<1>2. kind \in {"NS", "SOA"} /\ (kind = "SOA" <=> an = NoRecords)
  BY DEF Authority
<1>3. Base \in Nat /\ (an = NoRecords => Base = Header + query.question)
  BY Bases
<1>4. Size(kind) \in Nat
  BY <1>1, <1>2, Sizes DEF Kinds
<1>5. CASE ~ Asked({"NS"})
  <2>1. Size(kind) <= reserve
    BY <1>1, <1>2, <1>5 DEF ReserveOK
  <2> QED
    BY <1>1, <1>3, <1>4, <2>1 DEF BUFLEN
<1>6. CASE an = NoRecords
  BY <1>3, <1>6 DEF FitsFirst
<1>7. CASE Asked({"NS"}) /\ an # NoRecords
  <2>1. kind = "NS" /\ ~ (an["NS"] > 0)
    BY <1>7 DEF Authority
  <2> QED
    BY <1>1, <1>7, <2>1 DEF NsAnswered
<1> QED
  BY <1>5, <1>6, <1>7

LEMMA SkipStep ==
  ASSUME ReplyInv, Skip
  PROVE  ReplyInv'
<1>1. /\ step \in DOMAIN Following /\ rec = "none" /\ ToWrite = {} /\ step' = Following[step]
      /\ UNCHANGED <<query, opt, rec, part, oldpos, outpos, reserve, an, au, addr>>
  BY DEF Skip
<1>2. step \in {"tryns", "trysoa", "ns", "soa", "addr", "auth"} /\ step # "recv"
  BY <1>1 DEF Following
<1>3. /\ AnsweringOK /\ ReserveOK /\ opt \in Opts /\ outpos \in Nat /\ outpos > Header
      /\ outpos <= BUFLEN /\ part = 0 /\ outpos = Base
  BY <1>1, <1>2 DEF ReplyInv, AnsweringOK, CursorOK
<1>4. /\ Base' = Base /\ (NsAnswered' <=> NsAnswered) /\ (Asked({"NS"})' <=> Asked({"NS"}))
      /\ \A kind : Size(kind)' = Size(kind) /\ FitsFirst(kind)' = FitsFirst(kind)
  BY <1>1, SameRecords
<1>5. CASE step = "auth"
  <2>1. step' = "recv"
    BY <1>1, <1>5 DEF Following
  <2>2. Authority = {}
    BY <1>1, <1>5 DEF ToWrite
  <2>3. Authority' = {}
    BY <1>1, <2>2, SameRecords
  <2>4. AuthorityKept'
    BY <2>3 DEF AuthorityKept
  <2>5. LengthIsRecords'
    BY <1>1, <1>3, <1>4 DEF LengthIsRecords, Base
  <2> QED
    BY <1>1, <1>3, <2>1, <2>4, <2>5 DEF ReplyInv, Steps
<1>6. CASE step # "auth"
  <2>1. /\ step' \in {"trysoa", "ns", "soa", "cb", "auth"}
        /\ step = "tryns" <=> step' = "trysoa"
        /\ step = "trysoa" <=> step' = "ns"
        /\ step = "ns" <=> step' = "soa"
        /\ step = "soa" <=> step' = "cb"
        /\ step = "addr" <=> step' = "auth"
    BY <1>1, <1>2, <1>6 DEF Following
  <2>2. Trial => Asked({"NS"})
    BY <1>1 DEF Trial, ToWrite
  <2>3. ReserveOK'
    BY <1>1, <1>3, <1>4, <2>1, <2>2 DEF ReserveOK, Trial
  <2>4. step' \in {"soa", "cb", "addr", "auth"} => NsAnswered'
    <3>1. CASE step = "ns"
      <4>1. ~ Asked({"NS"})
        BY <1>1, <3>1 DEF ToWrite
      <4> QED
        BY <1>4, <4>1 DEF NsAnswered
    <3>2. CASE step \in {"soa", "addr"}
      BY <1>3, <1>4, <3>2 DEF AnsweringOK
    <3> QED
      BY <1>2, <1>6, <2>1, <3>1, <3>2
  <2>5. CursorOK'
    BY <1>1, <1>3, <1>4 DEF CursorOK
  <2>6. AnsweringOK'
    BY <1>1, <1>3, <1>4, <2>1, <2>3, <2>4, <2>5 DEF AnsweringOK
  <2>7. LengthIsRecords' /\ AuthorityKept'
    BY <1>1, <1>3, <2>1 DEF LengthIsRecords, AuthorityKept
  <2> QED
    BY <1>1, <1>3, <2>1, <2>6, <2>7 DEF ReplyInv, Steps
<1> QED
  BY <1>5, <1>6

LEMMA FinishStep ==
  ASSUME ReplyInv, Finish
  PROVE  ReplyInv'
<1>1. /\ rec # "none" /\ part = Len(Pieces(rec)) /\ Leave(outpos)
      /\ UNCHANGED <<query, opt>> /\ rec' = "none" /\ part' = 0
  BY DEF Finish, Leave
<1>2. /\ step # "recv" /\ rec \in Kinds /\ AnsweringOK /\ ReserveOK /\ opt \in Opts
      /\ outpos \in Nat /\ outpos > Header /\ outpos <= BUFLEN
      /\ an \in [Kinds -> Nat] /\ au \in [Kinds -> Nat] /\ au = NoRecords
  BY <1>1 DEF ReplyInv, AnsweringOK
<1>3. /\ rec \in ToWrite /\ oldpos = Base /\ outpos = oldpos + Mark(rec, part) /\ outpos <= End
      /\ step # "cb"
  BY <1>1, <1>2 DEF AnsweringOK, CursorOK
<1>4. /\ Base \in Nat /\ Base > Header /\ Written(an) \in Nat /\ Written(au) = 0
      /\ Base = Header + query.question + Written(an)
      /\ (an = NoRecords => Base = Header + query.question)
      /\ query.question \in 5..BUFLEN - Header
  BY <1>2, Bases
<1>5. Size(rec) \in Nat /\ outpos = Base + Size(rec)
  BY <1>1, <1>2, <1>3, PiecesAdd, Sizes
<1>6. /\ \A kind : Size(kind)' = Size(kind) /\ FitsFirst(kind)' = FitsFirst(kind)
      /\ (Asked({"NS"})' <=> Asked({"NS"})) /\ \A n : Written(n)' = Written(n)
  BY <1>1 DEF Size, FitsFirst, Asked, Written
<1>7. CASE Trial
  <2>1. /\ outpos' = oldpos /\ UNCHANGED <<an, au, addr>> /\ step' = Following[step]
        /\ reserve' = IF reserve < outpos - oldpos THEN outpos - oldpos ELSE reserve
        /\ step \in {"tryns", "trysoa"}
    BY <1>1, <1>7 DEF Finish, Leave, Trial
  <2>2. /\ step = "tryns" => rec = "NS" /\ step' = "trysoa" /\ ~ Asked({"NS"})
        /\ step = "trysoa" => rec = "SOA" /\ step' = "ns" /\ ~ Asked({"NS"})
        /\ step' \in {"trysoa", "ns"} /\ an = NoRecords
    BY <1>2, <1>3, <2>1 DEF ToWrite, Following, AnsweringOK
  <2>3. outpos - oldpos = Size(rec) /\ reserve \in Nat
    BY <1>2, <1>3, <1>4, <1>5 DEF ReserveOK
  <2>4. /\ reserve' \in Nat /\ reserve <= reserve' /\ Size(rec) <= reserve'
        /\ reserve' \in {reserve, Size(rec)}
    BY <1>5, <2>1, <2>3
  <2>5. Header + query.question + reserve' <= BUFLEN
    BY <1>2, <1>4, <1>5, <2>2, <2>4 DEF ReserveOK
  <2>6. ReserveOK'
    <3>1. /\ reserve' \in Nat /\ Header + query'.question + reserve' <= BUFLEN
          /\ Asked({"NS"})' => reserve' = 0
      BY <1>1, <1>6, <2>1, <2>2, <2>4, <2>5
    <3>2. ~ Asked({"NS"})' /\ step' # "tryns" /\ FitsFirst("NS")' => Size("NS")' <= reserve'
      <4>1. CASE step = "tryns"
        BY <1>6, <2>2, <2>4, <4>1
      <4>2. CASE step = "trysoa" /\ ~ FitsFirst("NS")
        BY <1>6, <4>2
      <4>3. CASE step = "trysoa" /\ FitsFirst("NS")
        <5>1. Size("NS") <= reserve /\ Size("NS") \in Nat
          BY <1>2, <2>2, <4>3, Sizes DEF ReserveOK, Kinds
        <5> QED
          BY <1>6, <2>3, <2>4, <5>1
      <4> QED
        BY <2>1, <4>1, <4>2, <4>3
    <3>3. ~ Asked({"NS"})' /\ ~ Trial' /\ FitsFirst("SOA")' => Size("SOA")' <= reserve'
      BY <1>6, <2>1, <2>2, <2>4 DEF Trial
    <3> QED
      BY <3>1, <3>2, <3>3 DEF ReserveOK
  <2>7. Base' = Base
    BY <1>1, <2>1, SameRecords
  <2>8. CursorOK'
    BY <1>1, <1>3, <2>1, <2>7 DEF CursorOK
  <2>9. Base' + reserve' <= BUFLEN
    BY <1>4, <2>2, <2>5, <2>7
  <2>10. AnsweringOK'
    BY <1>1, <1>2, <2>1, <2>2, <2>6, <2>8, <2>9 DEF AnsweringOK
  <2>11. outpos' \in Nat /\ outpos' > Header /\ outpos' <= BUFLEN
    BY <1>2, <1>3, <1>4, <1>5, <2>1 DEF Header, BUFLEN
  <2>12. LengthIsRecords' /\ AuthorityKept'
    BY <2>2, <2>11 DEF LengthIsRecords, AuthorityKept
  <2> QED
    BY <1>1, <1>2, <2>1, <2>2, <2>10, <2>11, <2>12 DEF ReplyInv, Steps
<1>8. CASE step \in {"ns", "soa", "addr"}
  <2>1. /\ ~ Trial /\ outpos' = outpos /\ UNCHANGED <<au, reserve>>
        /\ an' = [an EXCEPT ![rec] = @ + 1]
        /\ step = "ns" => step' = "soa" /\ addr' = addr
        /\ step = "soa" => step' = "cb" /\ addr' = addr
        /\ step = "addr" => step' = "addr" /\ addr' = addr - 1
    BY <1>1, <1>8 DEF Finish, Leave, Trial, Following
  <2>2. /\ step' \in {"soa", "cb", "addr"} /\ addr' \in Nat
    <3>1. step = "addr" => addr \in Nat /\ addr > 0
      BY <1>2, <1>3 DEF AnsweringOK, ToWrite
    <3> QED
      BY <1>2, <1>8, <2>1, <3>1 DEF AnsweringOK
  <2>3. an' \in [Kinds -> Nat] /\ Written(an') = Written(an) + Size(rec)
    <3>1. Written([an EXCEPT ![rec] = @ + 1]) = Written(an) + Size(rec)
      BY <1>2, Totals
    <3>2. [an EXCEPT ![rec] = @ + 1] \in [Kinds -> Nat]
      BY <1>2
    <3> QED
      BY <2>1, <3>1, <3>2
  <2>4. Base' = outpos'
    <3>1. Base' = Header + query.question + Written(an') + Written(au)
      BY <1>1, <1>6, <2>1 DEF Base
    <3> QED
      BY <1>4, <1>5, <2>1, <2>3, <3>1 DEF Header
  <2>5. outpos + reserve <= BUFLEN /\ reserve \in Nat
    BY <1>2, <1>3, <1>8 DEF End, ReserveOK, BUFLEN
  <2>6. CursorOK'
    BY <1>1, <2>4 DEF CursorOK
  <2>7. ReserveOK'
    BY <1>1, <1>2, <1>6, <1>8, <2>1, <2>2 DEF ReserveOK, Trial
  <2>8. NsAnswered'
    <3>1. \A kind \in Kinds : an'[kind] >= an[kind] /\ an'[rec] > 0
      BY <1>2, <2>1
    <3>2. "NS" \in Kinds /\ an["NS"] \in Nat /\ an'["NS"] \in Nat
      BY <1>2, <2>3 DEF Kinds
    <3>3. CASE step = "ns"
      <4>1. rec = "NS"
        BY <1>3, <3>3 DEF ToWrite
      <4> QED
        BY <3>1, <3>2, <4>1 DEF NsAnswered
    <3>4. CASE step # "ns"
      <4>1. NsAnswered
        BY <1>2, <1>8, <3>4 DEF AnsweringOK
      <4> QED
        BY <1>6, <3>1, <3>2, <4>1 DEF NsAnswered
    <3> QED
      BY <3>3, <3>4
  <2>9. AnsweringOK'
    BY <1>1, <1>2, <2>1, <2>2, <2>4, <2>5, <2>6, <2>7, <2>8 DEF AnsweringOK
  <2>10. LengthIsRecords' /\ AuthorityKept'
    BY <1>2, <2>1, <2>2 DEF LengthIsRecords, AuthorityKept
  <2> QED
    BY <1>1, <1>2, <2>1, <2>2, <2>3, <2>9, <2>10 DEF ReplyInv, Steps
<1>9. CASE step = "auth"
  <2>1. /\ ~ Trial /\ outpos' = outpos /\ an' = an /\ step' = "recv"
        /\ au' = [au EXCEPT ![rec] = @ + 1]
    BY <1>1, <1>9 DEF Finish, Leave, Trial, Following
  <2>2. rec \in Authority
    BY <1>3, <1>9 DEF ToWrite
  <2>3. au' \in [Kinds -> Nat] /\ Written(au') = Size(rec)
    <3>1. Written([au EXCEPT ![rec] = @ + 1]) = Written(au) + Size(rec)
      BY <1>2, Totals
    <3>2. [au EXCEPT ![rec] = @ + 1] \in [Kinds -> Nat]
      BY <1>2
    <3>3. Written([au EXCEPT ![rec] = @ + 1]) = Size(rec)
      BY <1>4, <1>5, <3>1
    <3> QED
      BY <2>1, <3>2, <3>3
  <2>4. LengthIsRecords'
    <3>1. Written(an)' = Written(an) /\ Written(au)' = Written(au')
      BY <1>6, <2>1
    <3>2. outpos' = Header + query'.question + Written(an)' + Written(au)'
      BY <1>1, <1>4, <1>5, <2>1, <2>3, <3>1 DEF Header
    <3> QED
      BY <1>2, <2>1, <3>2 DEF LengthIsRecords
  <2>5. AuthorityKept'
    <3>1. Authority' = Authority
      BY <2>1 DEF Authority
    <3>2. \A kind \in Authority : kind = rec
      BY <2>2 DEF Authority
    <3>3. au' = [NoRecords EXCEPT ![rec] = 1]
      BY <1>2, <2>1 DEF NoRecords
    <3> QED
      BY <3>1, <3>2, <3>3 DEF AuthorityKept
  <2> QED
    BY <1>1, <1>2, <2>1, <2>3, <2>4, <2>5 DEF ReplyInv, Steps
<1> QED
  BY <1>2, <1>3, <1>7, <1>8, <1>9 DEF ReplyInv, Steps, Trial

LEMMA GiveUpStep ==
  ASSUME ReplyInv, GiveUp
  PROVE  ReplyInv'
<1>1. /\ rec # "none" /\ part < Len(Pieces(rec)) /\ ~ HasRoom /\ Leave(oldpos)
      /\ UNCHANGED <<query, opt, an, au, addr>> /\ rec' = "none" /\ part' = 0
      /\ step' = Following[step]
  BY DEF GiveUp, Leave, RolledBack
<1>2. /\ step # "recv" /\ rec \in Kinds /\ AnsweringOK /\ ReserveOK /\ opt \in Opts
      /\ outpos \in Nat /\ outpos > Header /\ outpos <= BUFLEN
      /\ an \in [Kinds -> Nat] /\ au \in [Kinds -> Nat] /\ au = NoRecords
      /\ Base + reserve <= BUFLEN /\ reserve \in Nat
  BY <1>1 DEF ReplyInv, AnsweringOK, ReserveOK
<1>3. /\ rec \in ToWrite /\ oldpos = Base /\ outpos = oldpos + Mark(rec, part)
      /\ part \in 0..Len(Pieces(rec)) /\ step # "cb"
  BY <1>1, <1>2 DEF AnsweringOK, CursorOK
<1>4. /\ Base \in Nat /\ Base > Header
      /\ (an = NoRecords => Base = Header + query.question)
      /\ query.question \in 5..BUFLEN - Header
  BY <1>2, Bases
<1>5. Size(rec) \in Nat /\ End < Base + Size(rec)
  <2>1. Len(Pieces(rec)) \in Nat
    BY <1>2, PiecesAdd
  <2>2. part \in 0..Len(Pieces(rec)) - 1 /\ part + 1 \in 0..Len(Pieces(rec))
    BY <1>1, <1>3, <2>1
  <2>3. /\ Mark(rec, part) \in Nat /\ Mark(rec, part + 1) <= Size(rec)
        /\ Pieces(rec)[part + 1] \in Nat
        /\ Mark(rec, part + 1) = Mark(rec, part) + Pieces(rec)[part + 1]
    BY <1>2, <1>3, <2>1, <2>2, PiecesAdd
  <2>4. ~ (outpos + Pieces(rec)[part + 1] <= End)
    BY <1>1 DEF HasRoom
  <2>5. End \in Int
    BY <1>2 DEF End, BUFLEN
  <2>6. Size(rec) \in Nat
    BY <1>2, Sizes
  <2> QED
    BY <1>3, <1>4, <2>3, <2>4, <2>5, <2>6
<1>6. /\ Base' = Base /\ (NsAnswered' <=> NsAnswered) /\ (Asked({"NS"})' <=> Asked({"NS"}))
      /\ (\A kind : Size(kind)' = Size(kind) /\ FitsFirst(kind)' = FitsFirst(kind))
      /\ Authority' = Authority
  BY <1>1, SameRecords
<1>7. outpos' = Base /\ reserve' = reserve
  BY <1>1, <1>2, <1>3, <1>4 DEF Leave
<1>8. outpos' \in Nat /\ outpos' > Header /\ outpos' <= BUFLEN
  BY <1>2, <1>4, <1>7 DEF BUFLEN
<1>9. CursorOK'
  BY <1>1, <1>6, <1>7 DEF CursorOK
<1>10. CASE step = "auth"
  <2>1. step' = "recv" /\ rec \in Authority
    BY <1>1, <1>3, <1>10 DEF Following, ToWrite
  <2>2. ~ FitsFirst(rec)
    <3>1. End = BUFLEN
      BY <1>10 DEF End
    <3> QED
      BY <1>4, <1>5, <1>10, <2>1, <3>1, RoomForAuthority DEF BUFLEN
  <2>3. AuthorityKept'
    <3>1. \A kind \in Authority : kind = rec
      BY <2>1 DEF Authority
    <3> QED
      BY <1>1, <1>6, <2>2, <3>1 DEF AuthorityKept, FitsFirst
  <2>4. LengthIsRecords'
    BY <1>6, <1>7, <1>8 DEF LengthIsRecords, Base
  <2> QED
    BY <1>1, <1>2, <1>8, <2>1, <2>3, <2>4 DEF ReplyInv, Steps
<1>11. CASE step # "auth"
  <2>1. step \in {"tryns", "trysoa", "ns", "soa", "addr"}
    BY <1>2, <1>3, <1>11 DEF ReplyInv, Steps
  <2>2. /\ step' \in {"trysoa", "ns", "soa", "cb", "auth"}
        /\ step = "tryns" <=> step' = "trysoa"
        /\ step = "trysoa" <=> step' = "ns"
        /\ step = "ns" <=> step' = "soa"
        /\ step = "soa" <=> step' = "cb"
        /\ step = "addr" <=> step' = "auth"
    BY <1>1, <2>1 DEF Following
  <2>3. /\ step = "tryns" => rec = "NS" /\ an = NoRecords
        /\ step = "trysoa" => rec = "SOA" /\ an = NoRecords
        /\ step = "ns" => rec = "NS" /\ an = NoRecords /\ Asked({"NS"})
    BY <1>2, <1>3 DEF ToWrite, AnsweringOK
  <2>4. step \in {"tryns", "trysoa", "ns"} => ~ FitsFirst(rec)
    <3>1. CASE Trial
      BY <1>4, <1>5, <2>3, <3>1 DEF End, Trial, FitsFirst, BUFLEN, Header
    <3>2. CASE step = "ns"
      <4>1. reserve = 0
        BY <1>2, <2>3, <3>2 DEF ReserveOK
      <4> QED
        BY <1>4, <1>5, <2>3, <3>2, <4>1 DEF End, FitsFirst, BUFLEN, Header
    <3> QED
      BY <3>1, <3>2 DEF Trial
  <2>5. ReserveOK'
    BY <1>1, <1>2, <1>6, <1>7, <2>1, <2>2, <2>3, <2>4 DEF ReserveOK, Trial
  <2>6. step' \in {"soa", "cb", "addr", "auth"} => NsAnswered'
    <3>1. CASE step = "ns"
      BY <1>6, <2>3, <2>4, <3>1 DEF NsAnswered
    <3>2. CASE step \in {"soa", "addr"}
      BY <1>2, <1>6, <3>2 DEF AnsweringOK
    <3> QED
      BY <2>1, <2>2, <3>1, <3>2
  <2>7. AnsweringOK'
    BY <1>1, <1>2, <1>6, <1>7, <1>9, <2>1, <2>2, <2>3, <2>5, <2>6 DEF AnsweringOK
  <2>8. LengthIsRecords' /\ AuthorityKept'
    BY <1>8, <2>2 DEF LengthIsRecords, AuthorityKept
  <2> QED
    BY <1>1, <1>2, <1>8, <2>2, <2>7, <2>8 DEF ReplyInv, Steps
<1> QED
  BY <1>10, <1>11

LEMMA ReplyStep == ReplyInv /\ [ReplyNext]_replyVars => ReplyInv'
<1> SUFFICES ASSUME ReplyInv, [ReplyNext]_replyVars PROVE ReplyInv'
  OBVIOUS
<1>1. CASE UNCHANGED replyVars
  <2>1. UNCHANGED <<step, query, opt, rec, part, oldpos, outpos, reserve, an, au, addr>>
    BY <1>1 DEF replyVars
  <2>2. /\ Base' = Base /\ (NsAnswered' <=> NsAnswered) /\ (Asked({"NS"})' <=> Asked({"NS"}))
        /\ \A kind : /\ Size(kind)' = Size(kind) /\ FitsFirst(kind)' = FitsFirst(kind)
                     /\ Pieces(kind)' = Pieces(kind)
        /\ \A kind, i : Mark(kind, i)' = Mark(kind, i)
        /\ Authority' = Authority
    BY <2>1, SameRecords
  <2>3. ToWrite' = ToWrite /\ End' = End /\ Trial' = Trial
    BY <2>1 DEF ToWrite, Authority, Asked, End, Trial
  <2>4. ReserveOK' <=> ReserveOK
    BY <2>1, <2>2, <2>3 DEF ReserveOK
  <2>5. CursorOK' <=> CursorOK
    BY <2>1, <2>2, <2>3 DEF CursorOK
  <2>6. AnsweringOK' <=> AnsweringOK
    BY <2>1, <2>2, <2>4, <2>5 DEF AnsweringOK
  <2>7. LengthIsRecords' /\ AuthorityKept'
    BY <2>1, <2>2 DEF ReplyInv, LengthIsRecords, AuthorityKept, Base, FitsFirst
  <2> QED
    BY <2>1, <2>6, <2>7 DEF ReplyInv
<1>2. CASE Recv       BY <1>2, RecvStep
<1>3. CASE CallBack   BY <1>3, CallBackStep
<1>4. CASE Skip       BY <1>4, SkipStep
<1>5. CASE Begin      BY <1>5, BeginStep
<1>6. CASE WritePiece BY <1>6, WritePieceStep
<1>7. CASE Finish     BY <1>7, FinishStep
<1>8. CASE GiveUp     BY <1>8, GiveUpStep
<1> QED
  BY <1>1, <1>2, <1>3, <1>4, <1>5, <1>6, <1>7, <1>8 DEF ReplyNext

LEMMA ReplyStart == ReplyInit => ReplyInv
  BY DEF ReplyInit, ReplyInv, LengthIsRecords, AuthorityKept, Header, BUFLEN, Steps, NoRecords

(* dns.cpp:322-340: whatever the question and however many addresses the   *)
(* callback returns, an authority record that fits behind the question is  *)
(* in the reply when it is needed.                                         *)
THEOREM AuthorityHasRoom == ReplySpec => []AuthorityKept
<1>1. ReplyInv => AuthorityKept
  BY DEF ReplyInv
<1> QED
  BY <1>1, ReplyStart, ReplyStep, PTL DEF ReplySpec

(* dns.cpp:130-256, 318: no piece of a record is written past BUFLEN, and  *)
(* whatever trials and records run out of room at whatever piece, every    *)
(* reply is the question and the whole records it counts.                  *)
THEOREM RepliesAreWhole == ReplySpec => []LengthIsRecords
<1>1. ReplyInv => LengthIsRecords
  BY DEF ReplyInv
<1> QED
  BY <1>1, ReplyStart, ReplyStep, PTL DEF ReplySpec

-----------------------------------------------------------------------------
(* DnsCache.                                                               *)

Data == [cache : Seq(Addresses), nIPv4 : Nat, nIPv6 : Nat, hits : Nat, age : Nat]

(* The cache of one flag word: ips in some order and its counts, and no    *)
(* more late answers than hits.                                            *)
Sound(d, ips, n) ==
  /\ d \in Data /\ ips \in SUBSET Addresses /\ n \in Nat
  /\ {d.cache[k] : k \in DOMAIN d.cache} = ips /\ Len(d.cache) = Cardinality(ips)
  /\ \A j, k \in DOMAIN d.cache : d.cache[j] = d.cache[k] => j = k
  /\ d.nIPv4 = Cardinality(ips \cap IPv4) /\ d.nIPv6 = Cardinality(ips \cap IPv6)
  /\ n <= d.hits /\ n * n * SoftRate <= Len(d.cache)

(* What is drawn is in front of the cache, in the order it was drawn.      *)
Answering ==
  /\ asked.flags \in DOMAIN perflag /\ drawn \in Seq(Addresses) /\ max \in Nat /\ Len(drawn) <= max
  /\ LET cache == perflag[asked.flags].cache
     IN  \A i \in DOMAIN drawn : i \in DOMAIN cache /\ drawn[i] = cache[i] /\ Wanted(drawn[i])
  /\ max = Min({MaxMany, Cardinality({a \in taken[asked.flags] : Wanted(a)})})

CacheInv ==
  /\ DOMAIN taken = DOMAIN perflag /\ DOMAIN late = DOMAIN perflag
  /\ \A f \in DOMAIN perflag : Sound(perflag[f], taken[f], late[f])
  /\ IF max = -1 THEN drawn = <<>> ELSE Answering
(* Min finds the least number of a set.                                    *)
LEMMA Smallest ==
  ASSUME NEW S \in SUBSET Nat, S # {}
  PROVE  Min(S) \in S /\ \A n \in S : Min(S) <= n
<1>1. PICK n \in S : \A m \in S : ~(<<m, n>> \in OpToRel(<, Nat))
  BY WFMin, NatLessThanWellFounded
<1>2. \A m \in S : n <= m
  <2>1. n \in Nat /\ \A m \in S : m \in Nat
    OBVIOUS
  <2>2. \A m \in S : ~(m < n)
    BY <1>1, <2>1 DEF OpToRel
  <2> QED
    BY <2>1, <2>2
<1> QED
  BY <1>2 DEF Min

LEMMA UpTo ==
  ASSUME NEW n \in Nat
  PROVE  IsFiniteSet(1..n) /\ Cardinality(1..n) = n
<1>1. IsFiniteSet(1..n) /\ Cardinality(1..n) = IF 1 > n THEN 0 ELSE n - 1 + 1
  BY FS_Interval
<1>2. (IF 1 > n THEN 0 ELSE n - 1 + 1) = n
  OBVIOUS
<1> QED
  BY <1>1, <1>2

(* The order a refill leaves the sample in is none the code relies on.     *)
LEMMA Listed ==
  ASSUME NEW S, IsFiniteSet(S)
  PROVE  /\ SetToSeq(S) \in Seq(S) /\ Len(SetToSeq(S)) = Cardinality(S)
         /\ {SetToSeq(S)[k] : k \in DOMAIN SetToSeq(S)} = S
         /\ \A j, k \in DOMAIN SetToSeq(S) : SetToSeq(S)[j] = SetToSeq(S)[k] => j = k
<1> DEFINE n == Cardinality(S)
           q == SetToSeq(S)
<1>1. n \in Nat /\ ExistsBijection(1..n, S)
  BY FS_CardinalityType
<1>2. PICK f : f \in Bijection(1..n, S)
  BY <1>1 DEF ExistsBijection
<1>3. f \in [1..n -> S] /\ IsInjective(f)
  BY <1>2 DEF Bijection, Injection
<1>4. q \in [1..n -> S] /\ IsInjective(q)
  BY <1>3 DEF SetToSeq
<1>5. q \in Injection(1..n, S)
  BY <1>4 DEF Injection
<1>6. IsFiniteSet(1..n) /\ Cardinality(1..n) = n
  BY <1>1, UpTo
<1>7. q \in Surjection(1..n, S)
  BY <1>5, <1>6, FS_Injection
<1> HIDE DEF q
<1>8. \A s \in S : \E k \in 1..n : q[k] = s
  BY <1>7 DEF Surjection
<1>9. DOMAIN q = 1..n /\ q \in Seq(S) /\ Len(q) = n
  BY <1>1, <1>4
<1>10. {q[k] : k \in DOMAIN q} = S
  BY <1>4, <1>8, <1>9
<1> QED
  BY <1>4, <1>9, <1>10 DEF q, IsInjective

LEMMA FilledSound ==
  ASSUME NEW d \in Data, NEW ips \in SUBSET Addresses
  PROVE  Sound(Filled(d, ips), ips, 0)
<1> DEFINE q == SetToSeq(ips)
           a == Cardinality(ips \cap IPv4)
           b == Cardinality(ips \cap IPv6)
<1>1. IsFiniteSet(ips)
  BY CacheAssumption, FS_Subset DEF Addresses
<1>2. a \in Nat /\ b \in Nat /\ Cardinality(ips) \in Nat
  BY <1>1, FS_CardinalityType, FS_Intersection
<1>3. /\ q \in Seq(Addresses) /\ Len(q) = Cardinality(ips) /\ {q[k] : k \in DOMAIN q} = ips
      /\ \A j, k \in DOMAIN q : q[j] = q[k] => j = k
  <2>1. q \in Seq(ips)
    BY <1>1, Listed
  <2> HIDE DEF q
  <2>2. q \in Seq(Addresses)
    BY <2>1
  <2> QED
    BY <1>1, <2>2, Listed DEF q
<1>4. Filled(d, ips) = [cache |-> q, nIPv4 |-> a, nIPv6 |-> b, hits |-> 0, age |-> 0]
  BY DEF Filled
<1>5. SoftRate \in Nat
  BY CacheAssumption
<1> HIDE DEF q, a, b
<1>6. Filled(d, ips) \in Data
  BY <1>2, <1>3, <1>4 DEF Data
<1>7. Filled(d, ips).nIPv4 = Cardinality(ips \cap IPv4) /\ Filled(d, ips).nIPv6 = Cardinality(ips \cap IPv6)
  BY <1>4 DEF a, b
<1>8. /\ Filled(d, ips).cache = q /\ Filled(d, ips).hits = 0
      /\ 0 * 0 * SoftRate <= Len(q)
  BY <1>2, <1>3, <1>4, <1>5
<1> QED
  BY <1>3, <1>6, <1>7, <1>8 DEF Sound

LEMMA SwapSound ==
  ASSUME NEW d, NEW ips, NEW n, Sound(d, ips, n), NEW i \in DOMAIN d.cache, NEW k \in DOMAIN d.cache
  PROVE  Sound([d EXCEPT !.cache = Swap(@, i, k)], ips, n)
<1> DEFINE q == d.cache
           r == Swap(q, i, k)
           e == [d EXCEPT !.cache = r]
<1>1. q \in Seq(Addresses) /\ DOMAIN q = 1..Len(q) /\ Len(q) \in Nat
  BY DEF Sound, Data
<1>2. r \in Seq(Addresses) /\ Len(r) = Len(q) /\ DOMAIN r = DOMAIN q
  BY <1>1 DEF Swap
<1>3. \A j \in DOMAIN q : r[j] = IF j = k THEN q[i] ELSE IF j = i THEN q[k] ELSE q[j]
  BY <1>1 DEF Swap
<1>4. e \in Data /\ e.cache = r /\ e.nIPv4 = d.nIPv4 /\ e.nIPv6 = d.nIPv6 /\ e.hits = d.hits
  <2>1. d \in Data
    BY DEF Sound
  <2> HIDE DEF r
  <2> QED
    BY <1>2, <2>1 DEF Data
<1> HIDE DEF r
<1>5. {r[j] : j \in DOMAIN r} = {q[j] : j \in DOMAIN q}
  BY <1>2, <1>3
<1>6. \A j, m \in DOMAIN r : r[j] = r[m] => j = m
  BY <1>2, <1>3 DEF Sound
<1> HIDE DEF e
<1>7. Sound(e, ips, n)
  <2>1. /\ {e.cache[j] : j \in DOMAIN e.cache} = ips /\ Len(e.cache) = Len(d.cache)
        /\ \A j, m \in DOMAIN e.cache : e.cache[j] = e.cache[m] => j = m
    <3>1. e.cache = r /\ Len(r) = Len(d.cache)
      BY <1>2, <1>4
    <3>2. {r[j] : j \in DOMAIN r} = ips
      BY <1>5 DEF Sound
    <3> QED
      BY <1>6, <3>1, <3>2
  <2>2. n <= e.hits /\ n * n * SoftRate <= Len(e.cache)
    BY <1>4, <2>1 DEF Sound
  <2> QED
    BY <1>4, <2>1, <2>2 DEF Sound
<1> QED
  BY <1>7 DEF e, r

Chosen(S, ipv4, ipv6) == {a \in S : (ipv4 /\ a \in IPv4) \/ (ipv6 /\ a \in IPv6)}

(* The counts of the families are the number of addresses to draw from.    *)
LEMMA CutIsAll ==
  ASSUME NEW d, NEW ips, NEW n, Sound(d, ips, n), NEW ipv4 \in BOOLEAN, NEW ipv6 \in BOOLEAN
  PROVE  /\ Cardinality(Chosen(ips, ipv4, ipv6)) \in Nat
         /\ Cut(d, ipv4, ipv6) = Min({MaxMany, Cardinality(Chosen(ips, ipv4, ipv6))})
<1> DEFINE four == IF ipv4 THEN ips \cap IPv4 ELSE {}
           six  == IF ipv6 THEN ips \cap IPv6 ELSE {}
           c    == Cardinality(Chosen(ips, ipv4, ipv6))
           m    == (IF ipv4 THEN d.nIPv4 ELSE 0) + (IF ipv6 THEN d.nIPv6 ELSE 0)
<1>1. IsFiniteSet(ips) /\ Cardinality(ips) \in Nat /\ MaxMany \in Nat
  BY CacheAssumption, FS_Subset, FS_CardinalityType DEF Addresses, Sound
<1>2. Chosen(ips, ipv4, ipv6) = four \cup six /\ four \cap six = {}
  BY CacheAssumption DEF Chosen
<1>3. IsFiniteSet(four) /\ IsFiniteSet(six)
  BY <1>1, FS_Intersection, FS_EmptySet
<1>4. /\ Cardinality(four) = (IF ipv4 THEN d.nIPv4 ELSE 0)
      /\ Cardinality(six) = (IF ipv6 THEN d.nIPv6 ELSE 0)
  BY FS_EmptySet DEF Sound
<1>5. Cardinality(four) \in Nat /\ Cardinality(six) \in Nat
  BY <1>3, FS_CardinalityType
<1>6. c = m /\ c \in Nat
  <2> HIDE DEF four, six
  <2>1. Cardinality(four \cup six) = Cardinality(four) + Cardinality(six)
    BY <1>2, <1>3, <1>5, FS_Union, FS_EmptySet
  <2> QED
    BY <1>2, <1>4, <1>5, <2>1
<1>7. c <= Cardinality(ips)
  BY <1>1, FS_Subset DEF Chosen
<1>8. Cut(d, ipv4, ipv6) = Min({MaxMany, Cardinality(ips), m})
  BY DEF Cut, Sound
<1> HIDE DEF c, m
<1>9. /\ Min({MaxMany, Cardinality(ips), c}) \in {MaxMany, Cardinality(ips), c}
      /\ \A x \in {MaxMany, Cardinality(ips), c} : Min({MaxMany, Cardinality(ips), c}) <= x
  BY <1>1, <1>6, Smallest
<1>10. /\ Min({MaxMany, c}) \in {MaxMany, c}
       /\ \A x \in {MaxMany, c} : Min({MaxMany, c}) <= x
  BY <1>1, <1>6, Smallest
<1>11. Min({MaxMany, Cardinality(ips), c}) = Min({MaxMany, c})
  BY <1>1, <1>6, <1>7, <1>9, <1>10
<1> QED
  BY <1>6, <1>8, <1>11 DEF c
LEMMA CountedSound ==
  ASSUME NEW d, NEW ips, NEW n, Sound(d, ips, n)
  PROVE  Counted(d) \in Data /\ Counted(d).hits = d.hits + 1 /\ Sound(Counted(d), ips, n)
<1>1. d \in Data
  BY DEF Sound
<1>2. /\ Counted(d) \in Data /\ Counted(d).hits = d.hits + 1 /\ Counted(d).cache = d.cache
      /\ Counted(d).nIPv4 = d.nIPv4 /\ Counted(d).nIPv6 = d.nIPv6
  BY <1>1 DEF Counted, Data
<1>3. n <= Counted(d).hits
  BY <1>1, <1>2 DEF Sound, Data
<1> QED
  BY <1>2, <1>3 DEF Sound

(* A late answer was due under the limit for a cache past SoftAge.         *)
LEMMA LateSound ==
  ASSUME NEW d, NEW ips, NEW n, Sound(d, ips, n),
         ~Due(Counted(d)), Counted(d).age > SoftAge
  PROVE  Sound(Counted(d), ips, n + 1)
<1> DEFINE c == Counted(d)
           h == c.hits
           size == Len(c.cache)
<1>1. c \in Data /\ h = d.hits + 1 /\ Sound(c, ips, n)
  BY CountedSound
<1>2. d.hits \in Nat /\ n \in Nat /\ n <= d.hits /\ SoftRate \in Nat /\ size \in Nat
  BY <1>1, CacheAssumption DEF Sound, Data
<1>3. ~ (h * h * SoftRate > size)
  BY DEF Due
<1>4. (n + 1) * (n + 1) * SoftRate <= size
  <2> HIDE DEF c, size
  <2>1. n + 1 \in Nat /\ h \in Nat /\ n + 1 <= h
    BY <1>1, <1>2
  <2> HIDE DEF h
  <2> DEFINE m == n + 1
  <2> HIDE DEF m
  <2>2. m * m \in Nat /\ h * h \in Nat /\ m * m <= h * h
    <3>1. m \in Nat /\ m <= h
      BY <2>1 DEF m
    <3>2. m * m <= m * h /\ m * h <= h * h /\ m * m \in Nat /\ m * h \in Nat /\ h * h \in Nat
      BY <2>1, <3>1
    <3> QED
      BY <3>2
  <2> DEFINE mm == m * m
             hh == h * h
  <2> HIDE DEF mm, hh
  <2>3. mm * SoftRate <= hh * SoftRate /\ mm * SoftRate \in Nat /\ hh * SoftRate \in Nat
    BY <1>2, <2>2 DEF mm, hh
  <2>4. ~ (hh * SoftRate > size)
    BY <1>3 DEF hh
  <2> QED
    BY <1>2, <2>3, <2>4 DEF mm, m
<1>5. n + 1 <= h
  BY <1>1, <1>2
<1> HIDE DEF c
<1>6. Sound(c, ips, n + 1)
  <2>1. n + 1 \in Nat /\ n + 1 <= c.hits /\ (n + 1) * (n + 1) * SoftRate <= Len(c.cache)
    BY <1>2, <1>4, <1>5
  <2> DEFINE m == n + 1
  <2> HIDE DEF m
  <2>2. m \in Nat /\ m <= c.hits /\ m * m * SoftRate <= Len(c.cache)
    BY <2>1 DEF m
  <2>3. Sound(c, ips, m)
    BY <1>1, <2>2 DEF Sound
  <2> QED
    BY <2>3 DEF m
<1> QED
  BY <1>6 DEF c

LEMMA OlderSound ==
  ASSUME NEW d, NEW ips, NEW n, Sound(d, ips, n)
  PROVE  Sound([d EXCEPT !.age = Min({@ + 1, SoftAge + 1})], ips, n)
<1>1. d \in Data /\ d.age \in Nat
  BY DEF Sound, Data
<1>2. SoftAge \in Nat
  BY CacheAssumption
<1> DEFINE g == Min({d.age + 1, SoftAge + 1})
           e == [d EXCEPT !.age = g]
<1>3. g \in Nat
  BY <1>1, <1>2, Smallest
<1> HIDE DEF g
<1>4. e \in Data /\ e.cache = d.cache /\ e.nIPv4 = d.nIPv4 /\ e.nIPv6 = d.nIPv6 /\ e.hits = d.hits
  BY <1>1, <1>3 DEF Data
<1> HIDE DEF e
<1>5. Sound(e, ips, n)
  BY <1>4 DEF Sound
<1> QED
  BY <1>5 DEF e, g

(* main.cpp:369-377: as long as fewer are drawn than max, some wanted      *)
(* address is still behind them.                                           *)
LEMMA ScanFinds == CacheInv => ScanEnds
<1> SUFFICES ASSUME CacheInv, max # -1, Len(drawn) < max,
                    \A k \in Len(drawn) + 1..Len(perflag[asked.flags].cache) :
                      ~ Wanted(perflag[asked.flags].cache[k])
             PROVE  FALSE
  BY DEF ScanEnds
<1> DEFINE f == asked.flags
           cache == perflag[f].cache
           n == Len(drawn)
           all == {a \in taken[f] : Wanted(a)}
<1>1. Answering /\ Sound(perflag[f], taken[f], late[f])
  BY DEF CacheInv, Answering
<1>2. cache \in Seq(Addresses) /\ {cache[k] : k \in DOMAIN cache} = taken[f] /\ taken[f] \in SUBSET Addresses
  BY <1>1 DEF Sound, Data
<1>3. n \in Nat /\ drawn \in Seq(Addresses) /\ max \in Nat /\ n <= Len(cache)
  <2>1. drawn \in Seq(Addresses) /\ max \in Nat /\ \A i \in DOMAIN drawn : i \in DOMAIN cache
    BY <1>1 DEF Answering
  <2>2. n \in Nat /\ DOMAIN drawn = 1..n /\ DOMAIN cache = 1..Len(cache) /\ Len(cache) \in Nat
    BY <1>2, <2>1
  <2> QED
    BY <2>1, <2>2
<1>4. IsFiniteSet(all) /\ Cardinality(all) \in Nat /\ MaxMany \in Nat
  BY <1>2, CacheAssumption, FS_Subset, FS_CardinalityType DEF Addresses
<1>5. max <= Cardinality(all)
  <2>1. max = Min({MaxMany, Cardinality(all)})
    BY <1>1 DEF Answering
  <2> QED
    BY <1>4, <2>1, Smallest
<1>6. \A a \in all : \E k \in 1..n : cache[k] = a
  <2> SUFFICES ASSUME NEW a \in all PROVE \E k \in 1..n : cache[k] = a
    OBVIOUS
  <2>1. PICK k \in DOMAIN cache : cache[k] = a
    BY <1>2
  <2>2. k \in 1..Len(cache)
    BY <1>2
  <2>3. Wanted(cache[k])
    BY <2>1
  <2>4. k \notin n + 1..Len(cache)
    BY <2>3
  <2> QED
    BY <1>3, <2>1, <2>2, <2>4
<1>7. Cardinality(all) <= n
  <2> DEFINE K == {k \in 1..n : cache[k] \in all}
             g == [k \in K |-> cache[k]]
  <2>1. g \in Surjection(K, all)
    BY <1>6 DEF Surjection
  <2>2. IsFiniteSet(1..n) /\ Cardinality(1..n) = n /\ K \subseteq 1..n
    <3>1. K \subseteq 1..n
      OBVIOUS
    <3> HIDE DEF n, K
    <3>2. n \in Nat
      BY <1>3
    <3>3. IsFiniteSet(1..n) /\ Cardinality(1..n) = n
      BY <3>2, UpTo
    <3> QED
      BY <3>1, <3>3
  <2>3. IsFiniteSet(K) /\ Cardinality(K) <= n /\ Cardinality(K) \in Nat
    BY <2>2, FS_Subset, FS_CardinalityType
  <2> HIDE DEF K, g, all
  <2>4. Cardinality(all) <= Cardinality(K)
    BY <2>1, <2>3, FS_Surjection
  <2> QED
    BY <1>3, <1>4, <2>3, <2>4
<1> HIDE DEF all, n
<1>8. n < max
  BY DEF n
<1> QED
  BY <1>3, <1>4, <1>5, <1>7, <1>8
LEMMA CacheStart == CacheInit => CacheInv
<1> SUFFICES ASSUME CacheInit PROVE CacheInv
  OBVIOUS
<1>1. DOMAIN perflag = {} /\ DOMAIN taken = {} /\ DOMAIN late = {}
  BY DEF CacheInit
<1> QED
  BY <1>1 DEF CacheInit, CacheInv

LEMMA HitStep ==
  ASSUME CacheInv, max = -1, NEW flags, NEW ipv4 \in BOOLEAN, NEW ipv6 \in BOOLEAN,
         NEW ips \in SUBSET Addresses, Hit(flags, ipv4, ipv6, ips), UNCHANGED drawn
  PROVE  CacheInv'
<1> DEFINE had == IF flags \in DOMAIN perflag THEN perflag[flags] ELSE Fresh
           hit == Counted(had)
           due == Due(hit)
           d   == IF due THEN Filled(hit, ips) ELSE hit
           got == IF due THEN ips ELSE taken[flags]
           n   == CASE due -> 0 [] ~due /\ d.age > SoftAge -> late[flags] + 1 [] OTHER -> late[flags]
<1>1. /\ perflag' = Set(perflag, flags, d)
      /\ taken' = IF due THEN Set(taken, flags, ips) ELSE taken
      /\ late' = Set(late, flags, n)
      /\ asked' = [flags |-> flags, ipv4 |-> ipv4, ipv6 |-> ipv6]
      /\ max' = Cut(d, ipv4, ipv6)
  BY DEF Hit
<1>2. DOMAIN taken = DOMAIN perflag /\ DOMAIN late = DOMAIN perflag
  BY DEF CacheInv
<1>3. Sound(d, got, n) /\ (due \/ flags \in DOMAIN perflag)
  <2>1. CASE flags \in DOMAIN perflag
    <3>1. Sound(perflag[flags], taken[flags], late[flags]) /\ had = perflag[flags]
      BY <2>1 DEF CacheInv
    <3>2. hit \in Data /\ Sound(hit, taken[flags], late[flags])
      BY <3>1, CountedSound
    <3>3. CASE due
      <4>1. d = Filled(hit, ips) /\ got = ips /\ n = 0
        BY <3>3
      <4> QED
        BY <3>2, <3>3, <4>1, FilledSound
    <3>4. CASE ~due /\ hit.age > SoftAge
      <4>1. d = hit /\ got = taken[flags] /\ n = late[flags] + 1
        BY <3>4
      <4>2. Sound(hit, taken[flags], late[flags] + 1)
        BY <3>1, <3>4, LateSound
      <4> HIDE DEF d, got, n, hit, due
      <4> QED
        BY <2>1, <4>1, <4>2
    <3>5. CASE ~due /\ ~ (hit.age > SoftAge)
      <4>1. d = hit /\ got = taken[flags] /\ n = late[flags]
        BY <3>5
      <4> HIDE DEF d, got, n, hit, due
      <4> QED
        BY <2>1, <3>2, <4>1
    <3> QED
      BY <3>3, <3>4, <3>5
  <2>2. CASE flags \notin DOMAIN perflag
    <3>1. had = Fresh
      BY <2>2
    <3>2. HitRate \in Nat \ {0} /\ SoftAge \in Nat
      BY CacheAssumption
    <3>3. Fresh \in Data
      BY <3>2 DEF Fresh, Data
    <3>4. hit \in Data /\ hit.hits = 1 /\ hit.cache = <<>>
      <4>1. hit = [Fresh EXCEPT !.hits = @ + 1]
        BY <3>1 DEF Counted
      <4>2. Fresh.hits = 0 /\ Fresh.cache = <<>>
        BY DEF Fresh
      <4> HIDE DEF hit
      <4> QED
        BY <3>3, <4>1, <4>2 DEF Data
    <3>5. due
      <4>1. 1 * HitRate > 0 * 0
        BY <3>2
      <4> HIDE DEF hit
      <4>2. Len(hit.cache) = 0
        BY <3>4
      <4> QED
        BY <3>4, <4>1, <4>2 DEF Due
    <3>6. d = Filled(hit, ips) /\ got = ips /\ n = 0
      BY <3>5
    <3> HIDE DEF hit
    <3> QED
      BY <3>4, <3>5, <3>6, FilledSound
  <2> QED
    BY <2>1, <2>2
<1> HIDE DEF n, d, got, due, hit
<1>4. /\ DOMAIN perflag' = DOMAIN perflag \cup {flags}
      /\ \A f \in DOMAIN perflag' : perflag'[f] = IF f = flags THEN d ELSE perflag[f]
  BY <1>1 DEF Set
<1>5. /\ DOMAIN late' = DOMAIN perflag \cup {flags}
      /\ \A f \in DOMAIN perflag' : late'[f] = IF f = flags THEN n ELSE late[f]
  BY <1>1, <1>2, <1>4 DEF Set
<1>6. /\ DOMAIN taken' = DOMAIN perflag \cup {flags}
      /\ \A f \in DOMAIN perflag' : taken'[f] = IF f = flags THEN got ELSE taken[f]
  <2>1. CASE due
    <3>1. got = ips
      BY <2>1 DEF got
    <3> QED
      BY <1>1, <1>2, <1>4, <2>1, <3>1 DEF Set
  <2>2. CASE ~due
    <3>1. got = taken[flags] /\ flags \in DOMAIN perflag /\ taken' = taken
      BY <1>1, <1>3, <2>2 DEF got
    <3> QED
      BY <1>2, <1>4, <3>1
  <2> QED
    BY <2>1, <2>2
<1>7. \A f \in DOMAIN perflag' : Sound(perflag'[f], taken'[f], late'[f])
  BY <1>3, <1>4, <1>5, <1>6 DEF CacheInv
<1>8. max' = Min({MaxMany, Cardinality(Chosen(got, ipv4, ipv6))}) /\ max' \in Nat
  <2>1. /\ Cardinality(Chosen(got, ipv4, ipv6)) \in Nat
        /\ max' = Min({MaxMany, Cardinality(Chosen(got, ipv4, ipv6))})
    BY <1>1, <1>3, CutIsAll
  <2>2. MaxMany \in Nat
    BY CacheAssumption
  <2> QED
    BY <2>1, <2>2, Smallest
<1>9. {a \in taken'[asked'.flags] : Wanted(a)'} = Chosen(got, ipv4, ipv6) /\ asked'.flags = flags
  <2>1. asked'.flags = flags /\ asked'.ipv4 = ipv4 /\ asked'.ipv6 = ipv6
    BY <1>1
  <2>2. taken'[flags] = got
    BY <1>4, <1>6
  <2> QED
    BY <2>1, <2>2 DEF Wanted, Chosen
<1>10. drawn' = <<>>
  BY DEF CacheInv
<1>11. Answering'
  <2>1. drawn' \in Seq(Addresses) /\ Len(drawn') = 0 /\ DOMAIN drawn' = {}
    BY <1>10
  <2>2. asked'.flags \in DOMAIN perflag' /\ Len(drawn') <= max'
    BY <1>4, <1>8, <1>9, <2>1
  <2>3. max' = Min({MaxMany, Cardinality({a \in taken'[asked'.flags] : Wanted(a)'})})
    BY <1>8, <1>9
  <2> QED
    BY <1>8, <2>1, <2>2, <2>3 DEF Answering, Addresses
<1> QED
  BY <1>4, <1>5, <1>6, <1>7, <1>10, <1>11 DEF CacheInv

LEMMA DrawStep == CacheInv /\ Draw => CacheInv'
<1> SUFFICES ASSUME CacheInv, Draw PROVE CacheInv'
  OBVIOUS
<1> DEFINE f == asked.flags
           cache == perflag[f].cache
           i == Len(drawn) + 1
           ok == {m \in i..Len(cache) : Wanted(cache[m])}
<1>1. /\ max # -1 /\ Len(drawn) < max /\ UNCHANGED <<taken, late, asked, max>>
      /\ Answering /\ f \in DOMAIN perflag /\ Sound(perflag[f], taken[f], late[f])
  BY DEF Draw, CacheInv, Answering
<1>2. PICK j \in i..Len(cache) :
        /\ drawn' = Append(drawn, cache[Scan(cache, i, j)])
        /\ perflag' = [perflag EXCEPT ![f].cache = Swap(cache, i, Scan(cache, i, j))]
  BY DEF Draw
<1> DEFINE k == Scan(cache, i, j)
<1>3. cache \in Seq(Addresses) /\ Len(cache) \in Nat /\ DOMAIN cache = 1..Len(cache)
  BY <1>1 DEF Sound, Data
<1>4. drawn \in Seq(Addresses) /\ Len(drawn) \in Nat /\ DOMAIN drawn = 1..Len(drawn) /\ max \in Nat
  BY <1>1 DEF Answering
<1>5. k \in ok
  <2>1. ok # {}
    BY <1>1, ScanFinds DEF ScanEnds
  <2>2. \A m \in ok : m \in Nat
    BY <1>3, <1>4
  <2> DEFINE up == IF \E m \in ok : m >= j THEN {m \in ok : m >= j} ELSE ok
  <2>3. up \in SUBSET Nat /\ up # {} /\ up \subseteq ok
    BY <2>1, <2>2
  <2>4. k = Min(up)
    BY DEF Scan
  <2> HIDE DEF up, k, ok
  <2> QED
    BY <2>3, <2>4, Smallest
<1>6. k \in i..Len(cache) /\ Wanted(cache[k]) /\ k \in DOMAIN cache /\ i \in DOMAIN cache
  <2>1. k \in i..Len(cache) /\ Wanted(cache[k])
    BY <1>5
  <2> HIDE DEF k
  <2> QED
    BY <1>3, <1>4, <2>1
<1> HIDE DEF k
<1> DEFINE d == [perflag[f] EXCEPT !.cache = Swap(@, i, k)]
<1>7. /\ DOMAIN perflag' = DOMAIN perflag /\ perflag'[f] = d
      /\ \A g \in DOMAIN perflag : g # f => perflag'[g] = perflag[g]
  BY <1>1, <1>2 DEF k
<1>8. Sound(d, taken[f], late[f])
  BY <1>1, <1>6, SwapSound
<1>9. \A g \in DOMAIN perflag' : Sound(perflag'[g], taken'[g], late'[g])
  <2> HIDE DEF d
  <2> QED
    BY <1>1, <1>7, <1>8 DEF CacheInv
<1>10. d.cache = Swap(cache, i, k)
  BY <1>1 DEF Sound, Data
<1>11. /\ DOMAIN d.cache = DOMAIN cache /\ d.cache[i] = cache[k]
       /\ \A m \in DOMAIN drawn : m \in DOMAIN cache /\ d.cache[m] = cache[m]
  <2>1. \A m \in DOMAIN drawn : m \in DOMAIN cache /\ m # i /\ m # k
    <3>1. \A m \in DOMAIN drawn : m \in DOMAIN cache
      BY <1>1 DEF Answering
    <3>2. \A m \in DOMAIN drawn : m # i /\ m # k
      BY <1>3, <1>4, <1>6
    <3> QED
      BY <3>1, <3>2
  <2> HIDE DEF d, i, f
  <2> QED
    BY <1>3, <1>6, <1>10, <2>1 DEF Swap
<1>12. drawn' = Append(drawn, cache[k])
  BY <1>2 DEF k
<1>13. /\ drawn' \in Seq(Addresses) /\ Len(drawn') = i /\ DOMAIN drawn' = DOMAIN drawn \cup {i}
       /\ drawn'[i] = cache[k] /\ \A m \in DOMAIN drawn : drawn'[m] = drawn[m]
  <2>1. cache[k] \in Addresses
    BY <1>3, <1>6
  <2> HIDE DEF cache
  <2> QED
    BY <1>4, <1>12, <2>1
<1>14. Answering'
  <2>1. asked'.flags \in DOMAIN perflag' /\ max' \in Nat /\ Len(drawn') <= max'
    BY <1>1, <1>4, <1>7, <1>13
  <2>2. \A a : Wanted(a)' <=> Wanted(a)
    BY <1>1 DEF Wanted
  <2>3. \A m \in DOMAIN drawn : m \in DOMAIN cache /\ drawn[m] = cache[m] /\ Wanted(drawn[m])
    BY <1>1 DEF Answering
  <2>4. perflag'[asked'.flags] = d
    BY <1>1, <1>7
  <2>5. max' = Min({MaxMany, Cardinality({a \in taken'[asked'.flags] : Wanted(a)'})})
    BY <1>1, <2>2 DEF Answering
  <2>6. \A m \in DOMAIN drawn' : m \in DOMAIN d.cache /\ drawn'[m] = d.cache[m] /\ Wanted(drawn'[m])
    <3> HIDE DEF d, i, cache, f
    <3> QED
      BY <1>6, <1>11, <1>13, <2>3
  <2> HIDE DEF d
  <2> QED
    BY <1>13, <2>1, <2>2, <2>4, <2>5, <2>6 DEF Answering, Addresses
<1> QED
  BY <1>1, <1>7, <1>9, <1>14 DEF CacheInv

LEMMA CacheInvStep == CacheInv /\ [CacheNext]_cacheVars => CacheInv'
<1> SUFFICES ASSUME CacheInv, [CacheNext]_cacheVars PROVE CacheInv'
  OBVIOUS
<1>1. CASE GetIPList
  BY <1>1, HitStep DEF GetIPList
<1>2. CASE Draw
  BY <1>2, DrawStep
<1>3. CASE ReturnMax
  BY <1>3 DEF ReturnMax, CacheInv
<1>4. CASE Second
  <2> DEFINE old(f) == [perflag[f] EXCEPT !.age = Min({@ + 1, SoftAge + 1})]
  <2>1. /\ max = -1 /\ UNCHANGED <<taken, late, asked, drawn, max>>
        /\ perflag' = [f \in DOMAIN perflag |-> old(f)]
    BY <1>4 DEF Second
  <2>2. \A f \in DOMAIN perflag : Sound(old(f), taken[f], late[f])
    BY OlderSound DEF CacheInv
  <2> HIDE DEF old
  <2> QED
    BY <2>1, <2>2 DEF CacheInv
<1>5. CASE UNCHANGED cacheVars
  BY <1>5 DEF cacheVars, CacheInv, Answering, Wanted
<1> QED
  BY <1>1, <1>2, <1>3, <1>4, <1>5 DEF CacheNext

(* main.cpp:378-380: drawing loses and doubles no address of the sample,   *)
(* and the counts of the families stay those of the cache.                 *)
THEOREM CacheKeepsSample == CacheSpec => []CacheIsSample
<1>1. CacheInv => CacheIsSample
  BY DEF CacheInv, Sound, CacheIsSample
<1> QED
  BY <1>1, CacheStart, CacheInvStep, PTL DEF CacheSpec

(* main.cpp:369-377: the scan for a wanted address always finds one.       *)
THEOREM ScansEnd == CacheSpec => []ScanEnds
<1> QED
  BY ScanFinds, CacheStart, CacheInvStep, PTL DEF CacheSpec

(* main.cpp:361-383: an answer repeats no address, holds wanted families   *)
(* only, and is as long as the sample and the caller's limit allow.        *)
THEOREM AnswersAreFull == CacheSpec => []FullAnswer
<1>1. CacheInv => FullAnswer
  <2> SUFFICES ASSUME CacheInv PROVE FullAnswer
    OBVIOUS
  <2>1. CASE max = -1
    BY <2>1 DEF CacheInv, FullAnswer
  <2>2. CASE max # -1
    <3>1. Answering /\ Sound(perflag[asked.flags], taken[asked.flags], late[asked.flags])
      BY <2>2 DEF CacheInv, Answering
    <3> QED
      BY <2>2, <3>1 DEF Answering, Sound, FullAnswer
  <2> QED
    BY <2>1, <2>2
<1> QED
  BY <1>1, CacheStart, CacheInvStep, PTL DEF CacheSpec

(* main.cpp:292: a cache past SoftAge answers at most sqrt(size / 20) more *)
(* queries, whatever the order of queries, refills and seconds.            *)
THEOREM LateAnswersAreFew == CacheSpec => []FewLateAnswers
<1>1. CacheInv => FewLateAnswers
  BY DEF CacheInv, Sound, FewLateAnswers
<1> QED
  BY <1>1, CacheStart, CacheInvStep, PTL DEF CacheSpec
-----------------------------------------------------------------------------
(* DnsName.                                                                *)

(* parse_name called on any message, at any position of it.                *)
Called ==
  /\ inbuf \in Seq(0..255) /\ inpos \in 0..Len(inbuf) /\ inend = Len(inbuf)
  /\ buf = <<>> /\ init = TRUE /\ octet = -1 /\ after = -1 /\ ret = 1

NameInv ==
  /\ inbuf \in Seq(0..255) /\ inend \in Nat /\ octet \in Int /\ after \in Int
  /\ init \in BOOLEAN /\ buf \in Seq(Int)
  /\ NameStaysInside

LEMMA OctetIsByte ==
  ASSUME inbuf \in Seq(0..255), NEW p \in Nat
  PROVE  Octet(p) \in 0..255
<1>1. CASE p < Len(inbuf)
  <2>1. p + 1 \in 1..Len(inbuf) /\ DOMAIN inbuf = 1..Len(inbuf)
    BY <1>1
  <2>2. Octet(p) = inbuf[p + 1]
    BY <1>1 DEF Octet
  <2>3. \A k \in DOMAIN inbuf : inbuf[k] \in 0..255
    BY <2>1, ElementOfSeq
  <2> DEFINE k == p + 1
  <2> HIDE DEF k
  <2>4. inbuf[k] \in 0..255
    BY <2>1, <2>3 DEF k
  <2> QED
    BY <2>2, <2>4 DEF k
<1>2. CASE ~ (p < Len(inbuf))
  BY <1>2 DEF Octet
<1> QED
  BY <1>1, <1>2

LEMMA NameStep == NameInv /\ [NameNext]_nameVars => NameInv'
<1> SUFFICES ASSUME NameInv, [NameNext]_nameVars PROVE NameInv'
  OBVIOUS
<1>1. /\ inbuf \in Seq(0..255) /\ Len(inbuf) \in Nat /\ inend \in Nat /\ inend <= Len(inbuf)
      /\ inpos \in Nat /\ inpos <= inend /\ buf \in Seq(Int) /\ Len(buf) \in Nat
      /\ after \in Int /\ after <= Len(inbuf)
      /\ Len(buf) <= bufsize - 1 /\ bufsize \in Nat
  BY NameAssumption DEF NameInv, NameStaysInside, bufused
<1>2. \A p \in Nat : Octet(p) \in 0..255
  BY <1>1, OctetIsByte
(* What is left to show when the name ends or goes on in the same place.   *)
<1>3. ASSUME UNCHANGED inbuf, inpos' \in {inpos, inpos + 1, inpos + 2}, inpos' <= inend,
             UNCHANGED <<inend, after>>, octet' \in Int, init' \in BOOLEAN,
             buf' \in Seq(Int), Len(buf') <= bufsize - 1
      PROVE  NameInv'
  <2>1. inpos' \in 0..inend'
    BY <1>1, <1>3
  <2> QED
    BY <1>1, <1>3, <2>1 DEF NameInv, NameStaysInside, bufused
<1>4. CASE NextLabel
  <2> DEFINE o    == Octet(inpos)
             full == ~ init /\ bufused = bufsize - 1
             out  == IF init THEN buf ELSE Append(buf, Dot)
  <2>1. UNCHANGED inbuf /\ o \in 0..255
    BY <1>1, <1>2, <1>4 DEF NextLabel
  <2>2. CASE inpos = inend
    BY <1>1, <1>3, <1>4, <2>1, <2>2 DEF NextLabel, Return, NameInv
  <2>3. CASE inpos # inend /\ o = 0
    BY <1>1, <1>3, <1>4, <2>1, <2>3 DEF NextLabel, Return, NameInv
  <2>4. CASE inpos # inend /\ o # 0 /\ full
    BY <1>1, <1>3, <1>4, <2>1, <2>4 DEF NextLabel, Return, NameInv
  <2>5. CASE inpos # inend /\ o # 0 /\ ~ full
    <3>1. out \in Seq(Int) /\ Len(out) <= bufsize - 1
      BY <1>1, <2>5 DEF NameInv, bufused, Dot
    <3>2. inpos + 1 <= inend
      BY <1>1, <2>5
    <3>3. IF o >= Ref THEN Reference(o, out)
          ELSE IF o > MaxLabel THEN Return(-1) /\ inpos' = inpos + 1 /\ buf' = out
          ELSE /\ inpos' = inpos + 1 /\ octet' = o /\ init' = FALSE /\ buf' = out
               /\ UNCHANGED <<inend, after, ret>>
      BY <1>4, <2>5 DEF NextLabel
    <3> HIDE DEF out, o
    <3>4. CASE ~ (o >= Ref)
      <4>1. inpos' = inpos + 1 /\ buf' = out /\ UNCHANGED <<inend, after>>
        BY <3>3, <3>4 DEF Return
      <4>2. octet' \in Int /\ init' \in BOOLEAN
        <5>1. octet \in Int /\ init \in BOOLEAN /\ o \in Int
          BY <2>1 DEF NameInv
        <5> QED
          BY <3>3, <3>4, <5>1 DEF Return
      <4> QED
        BY <1>3, <2>1, <3>1, <3>2, <4>1, <4>2
    <3>5. CASE o >= Ref
      <4> DEFINE behind == inpos + 2
                 ref    == (o - Ref) * 256 + Octet(inpos + 1)
      <4>1. Reference(o, out) /\ buf' = out
        BY <3>3, <3>5 DEF Reference
      <4>2. CASE inpos + 1 = inend
        BY <1>1, <1>3, <2>1, <3>1, <3>2, <4>1, <4>2 DEF Reference, Return, NameInv
      <4>3. CASE inpos + 1 # inend
        <5>1. behind <= inend /\ behind \in Nat
          BY <1>1, <3>2, <4>3
        <5>2. ref \in Nat
          <6> DEFINE next == Octet(inpos + 1)
          <6>1. next \in 0..255
            BY <1>1, <1>2
          <6> HIDE DEF next
          <6>2. o - Ref \in Nat
            BY <2>1, <3>5 DEF Ref
          <6>3. (o - Ref) * 256 + next \in Nat
            BY <6>1, <6>2
          <6> QED
            BY <6>3 DEF next
        <5>3. CASE ~ Backwards(ref, behind)
          BY <1>1, <1>3, <2>1, <3>1, <4>1, <4>3, <5>1, <5>3 DEF Reference, Return, NameInv
        <5>4. CASE Backwards(ref, behind)
          <6>1. /\ inpos' = ref /\ inend' = behind - 2 /\ init' = TRUE
                /\ after' = (IF after = -1 THEN behind ELSE after) /\ octet' = octet
            BY <4>1, <4>3, <5>4 DEF Reference
          <6>2. ref < behind - 2
            BY <5>4 DEF Backwards
          <6> HIDE DEF ref
          <6>3. inpos' \in 0..inend' /\ inend' \in Nat /\ inend' <= Len(inbuf)
            BY <1>1, <5>1, <5>2, <6>1, <6>2
          <6>4. after' \in Int /\ after' <= Len(inbuf)
            BY <1>1, <5>1, <6>1
          <6> QED
            BY <1>1, <2>1, <3>1, <4>1, <6>1, <6>3, <6>4 DEF NameInv, NameStaysInside, bufused
        <5> QED
          BY <5>3, <5>4
      <4> QED
        BY <4>2, <4>3
    <3> QED
      BY <3>4, <3>5
  <2> QED
    BY <2>2, <2>3, <2>4, <2>5
<1>5. CASE Character
  <2>1. UNCHANGED inbuf /\ octet \in Int /\ init \in BOOLEAN /\ octet > 0
    BY <1>5 DEF Character, NameInv
  <2>2. CASE inpos = inend \/ bufused = bufsize - 1
    BY <1>1, <1>3, <1>5, <2>1, <2>2 DEF Character, Return
  <2>3. CASE inpos # inend /\ bufused # bufsize - 1
    <3> DEFINE o == Octet(inpos)
    <3>1. inpos + 1 <= inend /\ o \in 0..255
      BY <1>1, <1>2, <2>3
    <3>2. /\ inpos' = inpos + 1 /\ UNCHANGED <<inend, after, init>>
          /\ octet' \in {octet, -1, octet - 1} /\ buf' \in {buf, Append(buf, o)}
      <4>1. CASE o = Dot
        BY <1>5, <2>3, <4>1 DEF Character, Return
      <4>2. CASE o # Dot
        BY <1>5, <2>3, <4>2 DEF Character
      <4> QED
        BY <4>1, <4>2
    <3> HIDE DEF o
    <3>3. Len(buf) # bufsize - 1 /\ o \in Int
      BY <2>3, <3>1 DEF bufused
    <3>4. Append(buf, o) \in Seq(Int) /\ Len(Append(buf, o)) = Len(buf) + 1
      BY <1>1, <3>3
    <3>5. Len(buf) + 1 <= bufsize - 1
      BY <1>1, <3>3
    <3>6. buf' \in Seq(Int) /\ Len(buf') <= bufsize - 1 /\ octet' \in Int
      <4>1. octet' \in Int
        BY <2>1, <3>2
      <4>2. CASE buf' = buf
        BY <1>1, <4>1, <4>2
      <4>3. CASE buf' = Append(buf, o)
        BY <3>4, <3>5, <4>1, <4>3
      <4> QED
        BY <3>2, <4>2, <4>3
    <3> QED
      BY <1>3, <2>1, <3>1, <3>2, <3>6
  <2> QED
    BY <2>2, <2>3
<1>6. CASE UNCHANGED nameVars
  BY <1>6 DEF nameVars, NameInv, NameStaysInside, bufused
<1> QED
  BY <1>4, <1>5, <1>6 DEF NameNext

(* dns.cpp:50-97: on any message whatever, references included, parse_name *)
(* reads inside it and keeps room for the zero that ends the name.         *)
THEOREM AnyMessageStaysInside == Called /\ [][NameNext]_nameVars => []NameStaysInside
<1>1. Called => NameInv
  BY NameAssumption DEF Called, NameInv, NameStaysInside, bufused
<1>2. NameInv => NameStaysInside
  BY DEF NameInv
<1> QED
  BY <1>1, <1>2, NameStep, PTL

-----------------------------------------------------------------------------
(* A label ends before a dot or with the name.                             *)
LEMMA LabelEnds ==
  ASSUME NEW text \in Seq(1..255), NEW p \in DOMAIN text
  PROVE  LET n == LabelLength(text, p)
         IN  /\ n \in 0..Len(text) + 1 - p
             /\ \A i \in p..p + n - 1 : text[i] # Dot
             /\ p + n \in DOMAIN text => text[p + n] = Dot
<1> DEFINE L == Len(text)
           stops == {i \in p..L + 1 : i \in DOMAIN text => text[i] = Dot}
           m == Min(stops)
<1>1. L \in Nat /\ DOMAIN text = 1..L /\ p \in 1..L
  OBVIOUS
<1>2. stops \in SUBSET Nat /\ L + 1 \in stops
  BY <1>1
<1>3. m \in stops /\ \A i \in stops : m <= i
  <2>1. stops # {}
    BY <1>2
  <2> HIDE DEF stops
  <2> QED
    BY <1>2, <2>1, Smallest
<1>4. \A i \in p..m - 1 : text[i] # Dot
  <2> HIDE DEF m
  <2> SUFFICES ASSUME NEW i \in p..m - 1, text[i] = Dot PROVE FALSE
    OBVIOUS
  <2>1. i \in p..L + 1 /\ i < m
    BY <1>1, <1>3
  <2>2. i \in stops
    BY <2>1
  <2> QED
    BY <1>1, <1>3, <2>1, <2>2
<1>5. \E n \in 0..L + 1 - p :
        /\ \A i \in p..p + n - 1 : text[i] # Dot
        /\ p + n \in DOMAIN text => text[p + n] = Dot
  <2> HIDE DEF m
  <2>1. m \in p..L + 1 /\ (m \in DOMAIN text => text[m] = Dot)
    BY <1>3
  <2>3. m - p \in 0..L + 1 - p
    BY <1>1, <2>1
  <2> WITNESS m - p \in 0..L + 1 - p
  <2>2. p + (m - p) = m
    BY <1>1, <2>1
  <2> QED
    BY <1>4, <2>1, <2>2
<1> QED
  BY <1>5 DEF LabelLength

(* write_name and parse_name.  The lemmas before the invariant say what    *)
(* the bytes of a name are; Reading says how far parse_name has come in    *)
(* them.                                                                   *)

(* The name a writer accepts: every label has a length it may have.        *)
Legible(text) == \A p \in Heads(text) : LabelLength(text, p) \in 1..MaxLabel

(* The end of a name that is not empty.                                    *)
LEMMA UndottedIs ==
  ASSUME NEW text \in Seq(1..255), text # <<>>
  PROVE  /\ Undotted(text) \in Seq(1..255)
         /\ Len(Undotted(text)) = IF text[Len(text)] = Dot THEN Len(text) - 1 ELSE Len(text)
         /\ \A i \in 1..Len(Undotted(text)) : Undotted(text)[i] = text[i]
         /\ Len(text) \in Nat \ {0}
<1>1. Len(text) \in Nat \ {0} /\ Last(text) = text[Len(text)]
  BY DEF Last
<1>2. CASE text[Len(text)] = Dot
  <2> DEFINE l == Len(text) - 1
             u == SubSeq(text, 1, l)
  <2>1. Undotted(text) = u
    BY <1>1, <1>2 DEF Undotted, Front
  <2>2. l \in Nat /\ l <= Len(text)
    BY <1>1
  <2>3. \A i \in 1..l : text[i] \in 1..255
    <3>1. \A i \in 1..Len(text) : text[i] \in 1..255
      BY ElementOfSeq
    <3> HIDE DEF l
    <3> QED
      BY <1>1, <2>2, <3>1
  <2>4. u \in Seq(1..255) /\ Len(u) = l /\ \A i \in 1..Len(u) : u[i] = text[i]
    <3> HIDE DEF l
    <3>1. /\ u \in Seq(1..255) /\ Len(u) = IF 1 <= l THEN l - 1 + 1 ELSE 0
          /\ \A i \in 1..l - 1 + 1 : u[i] = text[1 + i - 1]
      BY <2>2, <2>3, SubSeqProperties
    <3> HIDE DEF u
    <3> QED
      BY <2>2, <3>1
  <2> HIDE DEF u
  <2> QED
    BY <1>1, <1>2, <2>1, <2>4
<1>3. CASE text[Len(text)] # Dot
  BY <1>1, <1>3 DEF Undotted
<1> QED
  BY <1>2, <1>3

(* The bytes of a name: at every head the length of a label, in between    *)
(* its characters, one place behind their own.                             *)
LEMMA Layout ==
  ASSUME NEW text \in Seq(1..255), Legible(text)
  PROVE  LET n == Len(Encoded(text))
         IN  /\ n \in Nat /\ Encoded(text) \in Seq(0..255)
             /\ n = IF text = <<>> THEN 0 ELSE Len(Undotted(text)) + 1
             /\ 1 \in Heads(text) \cup {n + 1}
             /\ \A p \in Heads(text) :
                  LET l == Encoded(text)[p]
                  IN  /\ p \in 1..n - 1 /\ l \in 1..MaxLabel /\ (p > 1 => text[p - 1] = Dot)
                      /\ p + l + 1 \in Heads(text) \cup {n + 1}
                      /\ \A i \in p + 1..p + l : i \notin Heads(text) /\ text[i - 1] # Dot
             /\ \A i \in 1..n : i \notin Heads(text) => Encoded(text)[i] = text[i - 1]
<1>3. MaxLabel \in 1..63
  BY NameAssumption
<1>1. CASE text = <<>>
  <2>1. Encoded(text) = <<>> /\ Heads(text) = {}
    BY <1>1 DEF Encoded, Heads
  <2>2. Len(Encoded(text)) = 0 /\ Encoded(text) \in Seq(0..255)
    BY <2>1
  <2> QED
    BY <1>1, <2>1, <2>2
<1>2. CASE text # <<>>
  <2> DEFINE L == Len(text)
             u == Len(Undotted(text))
             H == Heads(text)
             E == Encoded(text)
             n == u + 1
             length(p) == LabelLength(text, p)
  <2>1. /\ L \in Nat \ {0} /\ DOMAIN text = 1..L
        /\ u = IF text[L] = Dot THEN L - 1 ELSE L
        /\ u \in Nat
    BY <1>2, UndottedIs
  <2>2. E = [i \in 1..n |-> IF i \in H THEN length(i) ELSE text[i - 1]]
    BY <1>2 DEF Encoded
  <2>3. H = {p \in 1..L : p > 1 => text[p - 1] = Dot} /\ 1 \in H
    <3>1. H = {p \in 1..L : p > 1 => text[p - 1] = Dot}
      BY <2>1 DEF Heads
    <3> HIDE DEF H, L
    <3> QED
      BY <2>1, <3>1
  <2>4. \A i \in 1..L : text[i] \in 1..255
    BY <2>1, ElementOfSeq
  <2> HIDE DEF L, u
  <2>5. ASSUME NEW p \in H
        PROVE  LET l == length(p)
               IN  /\ p \in 1..n - 1 /\ l \in 1..MaxLabel /\ (p > 1 => text[p - 1] = Dot)
                   /\ p + l + 1 \in H \cup {n + 1}
                   /\ \A i \in p + 1..p + l : i \notin H /\ text[i - 1] # Dot
    <3> DEFINE l == length(p)
    <3>1. p \in 1..L /\ (p > 1 => text[p - 1] = Dot)
      BY <2>3
    <3>2. l \in 1..MaxLabel
      BY DEF Legible
    <3>3. /\ l \in 0..L + 1 - p
          /\ \A i \in p..p + l - 1 : text[i] # Dot
          /\ p + l \in 1..L => text[p + l] = Dot
      BY <2>1, <3>1, LabelEnds DEF L
    <3> HIDE DEF l, H
    <3>4. l \in Nat \ {0} /\ p + l <= L + 1
      BY <3>1, <3>2, <3>3, <2>1
    <3>5. text[p] # Dot
      BY <3>1, <3>3, <3>4
    <3>6. p \in 1..u
      BY <2>1, <3>1, <3>5
    <3>7. \A i \in p + 1..p + l : i \notin H /\ text[i - 1] # Dot
      <4> TAKE i \in p + 1..p + l
      <4>1. i - 1 \in p..p + l - 1 /\ i > 1
        BY <3>1, <3>4
      <4>2. text[i - 1] # Dot
        BY <3>3, <4>1
      <4> QED
        BY <2>3, <4>1, <4>2
    <3>8. p + l + 1 \in H \cup {n + 1}
      <4>1. CASE p + l = L + 1
        <5>1. text[L] # Dot
          <6>1. L \in p..p + l - 1
            BY <2>1, <3>1, <3>4, <4>1
          <6> QED
            BY <3>3, <6>1
        <5> QED
          BY <2>1, <4>1, <5>1
      <4>2. CASE p + l = L
        <5>1. text[L] = Dot
          BY <2>1, <3>3, <4>2
        <5> QED
          BY <2>1, <4>2, <5>1
      <4>3. CASE p + l < L
        <5>1. text[p + l] = Dot /\ p + l + 1 \in 1..L /\ (p + l + 1) - 1 = p + l
          BY <2>1, <3>1, <3>3, <3>4, <4>3
        <5> QED
          BY <2>3, <5>1
      <4> QED
        BY <2>1, <3>1, <3>4, <4>1, <4>2, <4>3
    <3>9. p \in 1..n - 1
      BY <2>1, <3>6
    <3> QED
      BY <3>1, <3>2, <3>7, <3>8, <3>9 DEF l, H
  <2>6. \A i \in 1..n : i \notin H => E[i] = text[i - 1]
    BY <2>2
  <2>7. \A p \in H : E[p] = length(p)
    <3> TAKE p \in H
    <3>1. p \in 1..n - 1
      BY <2>5
    <3>2. p \in 1..n
      BY <2>1, <3>1
    <3> QED
      BY <2>2, <3>2
  <2>8. E \in Seq(0..255) /\ Len(E) = n
    <3>1. \A i \in 1..n : E[i] \in 0..255
      <4> TAKE i \in 1..n
      <4>1. CASE i \in H
        <5>1. E[i] \in 1..MaxLabel
          BY <2>5, <2>7, <4>1
        <5> QED
          <6>1. \A x \in 1..MaxLabel : x \in 0..255
            BY <1>3
          <6> QED
            BY <5>1, <6>1
      <4>2. CASE i \notin H
        <5>1. i # 1 /\ i - 1 \in 1..L
          BY <2>1, <2>3, <4>2
        <5>2. E[i] = text[i - 1] /\ text[i - 1] \in 1..255
          BY <2>4, <2>6, <4>2, <5>1
        <5> HIDE DEF E
        <5> QED
          BY <5>2
      <4> QED
        BY <4>1, <4>2
    <3>2. E = [i \in 1..n |-> E[i]]
      BY <2>2
    <3> HIDE DEF E
    <3>3. E \in [1..n -> 0..255]
      BY <3>1, <3>2
    <3> QED
      BY <2>1, <3>3
  <2> HIDE DEF E, H, u
  <2>9. n = IF text = <<>> THEN 0 ELSE u + 1
    BY <1>2
  <2> QED
    BY <2>1, <2>3, <2>5, <2>6, <2>7, <2>8, <2>9 DEF E, H, u
<1> QED
  BY <1>1, <1>2
(* The bytes of text stand in the message behind the first base of them,   *)
(* and its characters in the name meant behind the first lead of them.     *)
Stands(text, base, lead) ==
  /\ Legible(text)
  /\ \A i \in 1..Len(Encoded(text)) : base + i \in DOMAIN inbuf /\ inbuf[base + i] = Encoded(text)[i]
  /\ \A i \in 1..Len(Encoded(text)) - 1 : lead + i \in DOMAIN meant /\ meant[lead + i] = text[i]

(* The characters read so far are the first k of the name meant.           *)
Begun(k) == Len(buf) = k /\ \A i \in 1..k : buf[i] = meant[i]

(* p bytes of text have been read: up to a label, or into one.             *)
ReadSoFar(text, p, lead) ==
  LET next == Heads(text) \cup {Len(Encoded(text)) + 1}
  IN  /\ p \in 0..Len(Encoded(text)) /\ (init <=> p = 0)
      /\ Begun(IF p = 0 THEN lead ELSE lead + p - 1)
      /\ \/ octet = -1 /\ p + 1 \in next
         \/ /\ octet > 0 /\ p > 0 /\ p + octet + 1 \in next
            /\ \A i \in p + 1..p + octet : i \notin Heads(text) /\ text[i - 1] # Dot

(* The name ends behind text.                                              *)
EndsAt(text, base, lead) ==
  LET n == Len(Encoded(text))
  IN  /\ base + n + 1 \in DOMAIN inbuf /\ inbuf[base + n + 1] = 0
      /\ Len(meant) = IF n = 0 THEN lead ELSE lead + n - 1

(* It goes on with a reference to a name at the start of the message.      *)
GoesOn(text, base, lead) ==
  LET n == Len(Encoded(text))
      more == IF n = 0 THEN lead ELSE lead + n
  IN  \E first \in Texts :
        /\ base > Len(Encoded(first)) /\ base + n + 2 <= inend
        /\ {base + n + 1, base + n + 2} \subseteq DOMAIN inbuf
        /\ inbuf[base + n + 1] = Ref /\ inbuf[base + n + 2] = 0
        /\ n > 0 => lead + n \in DOMAIN meant /\ meant[lead + n] = Dot
        /\ Stands(first, 0, more) /\ EndsAt(first, 0, more)

(* A text is being read, behind a text that led to it or by itself.        *)
Reading ==
  \E text \in Texts, base, lead, p \in Nat :
    /\ Stands(text, base, lead) /\ base + Len(Encoded(text)) < inend
    /\ inpos = base + p /\ ReadSoFar(text, p, lead)
    /\ EndsAt(text, base, lead) \/ GoesOn(text, base, lead)

CopyInv ==
  /\ meant \in Seq(0..255)
  /\ meant # Raw => IF ret = 1 THEN Reading ELSE NameComesBack

(* One more character of the name meant.                                   *)
LEMMA OneMoreCharacter ==
  ASSUME buf \in Seq(Int), NEW k \in Nat, Begun(k), NEW c \in Int, c = meant[k + 1],
         buf' = Append(buf, c), meant' = meant
  PROVE  Begun(k + 1)'
<1>1. /\ Len(buf') = k + 1 /\ buf'[k + 1] = c
      /\ \A i \in 1..k : buf'[i] = buf[i]
  BY DEF Begun
<1> QED
  BY <1>1 DEF Begun

(* A sequence over a set is one over a larger set.                         *)
LEMMA SeqWider ==
  ASSUME NEW A, NEW B, A \subseteq B, NEW s \in Seq(A)
  PROVE  s \in Seq(B)
<1> DEFINE n == Len(s)
<1>1. n \in Nat /\ s = [i \in 1..n |-> s[i]] /\ \A i \in 1..n : s[i] \in A
  BY ElementOfSeq
<1> HIDE DEF n
<1>2. \A i \in 1..n : s[i] \in B
  BY <1>1
<1>3. s \in [1..n -> B]
  BY <1>1, <1>2
<1> QED
  BY <1>1, <1>3

(* Inside the message, Octet is the message.                               *)
LEMMA ByteRead ==
  ASSUME NEW p \in Nat, inbuf \in Seq(0..255), p + 1 \in DOMAIN inbuf
  PROVE  Octet(p) = inbuf[p + 1] /\ p + 1 <= Len(inbuf)
BY DEF Octet

(* Every step of parse_name in a name that was written reads on in it.     *)
LEMMA CopyStep == NameInv /\ CopyInv /\ [NameNext]_nameVars => CopyInv'
<1> SUFFICES ASSUME NameInv, CopyInv, [NameNext]_nameVars PROVE CopyInv'
  OBVIOUS
<1>1. UNCHANGED <<inbuf, meant>>
  BY DEF NameNext, NextLabel, Character, nameVars
<1>2. CASE UNCHANGED nameVars
  <2>1. Reading => Reading'
    <3>1. \A text, base, lead :
            /\ Stands(text, base, lead) => Stands(text, base, lead)'
            /\ EndsAt(text, base, lead) => EndsAt(text, base, lead)'
            /\ ReadSoFar(text, base, lead) => ReadSoFar(text, base, lead)'
      BY <1>2 DEF nameVars, Stands, ReadSoFar, Begun, EndsAt
    <3>2. \A text, base, lead : GoesOn(text, base, lead) => GoesOn(text, base, lead)'
      BY <1>2, <3>1 DEF nameVars, GoesOn
    <3> QED
      BY <1>2, <3>1, <3>2 DEF nameVars, Reading
  <2>2. NameComesBack => NameComesBack'
    BY <1>2 DEF nameVars, NameComesBack
  <2> QED
    BY <1>1, <1>2, <2>1, <2>2 DEF CopyInv, nameVars
<1>3. CASE meant = Raw \/ ret # 1
  BY <1>1, <1>2, <1>3 DEF CopyInv, NameNext, NextLabel, Character
<1>4. CASE meant # Raw /\ ret = 1 /\ NameNext
  <2>1. PICK text \in Texts, base \in Nat, lead \in Nat, p \in Nat :
          /\ Stands(text, base, lead) /\ base + Len(Encoded(text)) < inend
          /\ inpos = base + p /\ ReadSoFar(text, p, lead)
          /\ EndsAt(text, base, lead) \/ GoesOn(text, base, lead)
    BY <1>4 DEF CopyInv, Reading
  <2> DEFINE code == Encoded(text)
             n == Len(code)
             H == Heads(text)
             next == H \cup {n + 1}
             k == IF p = 0 THEN lead ELSE lead + p - 1
  <2>2. /\ n \in Nat /\ (n = 0 <=> text = <<>>)
        /\ \A q \in H : /\ q \in 1..n - 1 /\ code[q] \in 1..MaxLabel /\ (q > 1 => text[q - 1] = Dot)
                        /\ q + code[q] + 1 \in next
                        /\ \A i \in q + 1..q + code[q] : i \notin H /\ text[i - 1] # Dot
        /\ \A i \in 1..n : i \notin H => code[i] = text[i - 1]
        /\ text \in Seq(1..255)
    <3>1. text \in Seq(1..255) /\ Legible(text)
      BY <2>1, NameAssumption DEF Stands
    <3>2. text # <<>> => Len(Undotted(text)) \in Nat
      BY <3>1, UndottedIs
    <3> QED
      BY <3>1, <3>2, Layout
  <2>3. /\ \A i \in 1..n : base + i \in DOMAIN inbuf /\ inbuf[base + i] = code[i]
        /\ \A i \in 1..n - 1 : lead + i \in DOMAIN meant /\ meant[lead + i] = text[i]
    BY <2>1 DEF Stands
  <2>4. /\ p \in 0..n /\ (init <=> p = 0) /\ Begun(k)
        /\ \/ octet = -1 /\ p + 1 \in next
           \/ /\ octet > 0 /\ p > 0 /\ p + octet + 1 \in next
              /\ \A i \in p + 1..p + octet : i \notin H /\ text[i - 1] # Dot
    BY <2>1 DEF ReadSoFar
  <2>5. /\ inbuf \in Seq(0..255) /\ buf \in Seq(Int) /\ meant \in Seq(0..255) /\ Len(meant) \in Nat
        /\ bufsize \in Nat \ {0} /\ octet \in Int /\ inend \in Nat /\ MaxLabel \in 1..63
        /\ DOMAIN meant = 1..Len(meant)
    BY NameAssumption DEF NameInv, CopyInv
  <2> HIDE DEF code, n, H
  <2>6. inpos \in Nat /\ inpos # inend /\ Len(buf) = k /\ k \in Nat
    BY <2>1, <2>2, <2>4, <2>5 DEF Begun, code, n
  (* What a step that goes on in the same text leaves to show.             *)
  <2>7. ASSUME inpos' = inpos + 1, UNCHANGED <<inend, ret>>, ReadSoFar(text, p + 1, lead)'
        PROVE  CopyInv'
    <3>1. Stands(text, base, lead)'
      BY <1>1, <2>1 DEF Stands
    <3>2. (EndsAt(text, base, lead) \/ GoesOn(text, base, lead))'
      BY <1>1, <2>1, <2>7 DEF EndsAt, GoesOn, Stands
    <3>3. inpos' = base + (p + 1) /\ p + 1 \in Nat
      BY <2>1, <2>7
    <3>4. base + Len(Encoded(text)) < inend'
      BY <2>1, <2>7
    <3>5. Reading'
      BY <2>7, <3>1, <3>2, <3>3, <3>4 DEF Reading
    <3> QED
      BY <1>1, <1>4, <2>5, <2>7, <3>5 DEF CopyInv
  (* And one that gives up for want of room.                               *)
  <2>8. ASSUME ret' = -2, Len(meant) >= bufsize PROVE CopyInv'
    BY <1>1, <2>5, <2>8 DEF CopyInv, NameComesBack
  <2>9. CASE NextLabel
    <3> DEFINE o    == Octet(inpos)
               full == ~ init /\ bufused = bufsize - 1
               out  == IF init THEN buf ELSE Append(buf, Dot)
               last == Len(code) + 1
    <3>1. octet = -1 /\ p + 1 \in next
      BY <2>4, <2>5, <2>9 DEF NextLabel
    <3>2. /\ o = 0 => ret' = 0 /\ UNCHANGED buf
          /\ o # 0 /\ full => ret' = -2
          /\ o # 0 /\ ~ full /\ o >= Ref => Reference(o, out)
          /\ o # 0 /\ ~ full /\ ~ (o >= Ref) /\ ~ (o > MaxLabel) =>
               /\ inpos' = inpos + 1 /\ octet' = o /\ init' = FALSE /\ buf' = out
               /\ UNCHANGED <<inend, after, ret>>
      BY <2>6, <2>9 DEF NextLabel, Return
    (* The dot that is written between two labels.                         *)
    <3>3. ASSUME p # 0 => /\ lead + p \in DOMAIN meant /\ meant[lead + p] = Dot
          PROVE  /\ full => Len(meant) >= bufsize
                 /\ buf' = out => Begun(IF p = 0 THEN lead ELSE lead + p)'
      <4>1. CASE p = 0
        <5>1. init /\ k = lead
          BY <2>4, <4>1
        <5> QED
          BY <1>1, <2>4, <4>1, <5>1 DEF Begun
      <4>2. CASE p # 0
        <5>1. ~ init /\ k + 1 = lead + p
          BY <2>4, <4>2
        <5>2. Dot \in Int
          BY DEF Dot
        <5> HIDE DEF k
        <5>3. full => Len(meant) >= bufsize
          BY <2>5, <2>6, <3>3, <4>2, <5>1 DEF bufused
        <5>4. buf' = out => Begun(k + 1)'
          BY <1>1, <2>4, <2>5, <2>6, <3>3, <4>2, <5>1, <5>2, OneMoreCharacter
        <5> QED
          BY <4>2, <5>1, <5>3, <5>4
      <4> QED
        BY <4>1, <4>2
    <3> HIDE DEF full, out
    <3>4. CASE p + 1 \in H
      <4> DEFINE l == code[p + 1]
      <4>1. /\ p + 1 \in 1..n - 1 /\ l \in 1..MaxLabel /\ (p > 0 => text[p] = Dot)
            /\ p + 1 + l + 1 \in next
            /\ \A i \in p + 1 + 1..p + 1 + l : i \notin H /\ text[i - 1] # Dot
        <5>1. (p + 1) - 1 = p /\ (p + 1 > 1 <=> p > 0)
          OBVIOUS
        <5> QED
          BY <2>2, <3>4, <5>1
      <4>2. o = l
        <5>1. p + 1 \in 1..n /\ base + (p + 1) = inpos + 1
          BY <2>1, <2>2, <4>1
        <5> QED
          BY <2>3, <2>5, <2>6, <5>1, ByteRead
      <4> HIDE DEF o, l
      <4>3. p # 0 => lead + p \in DOMAIN meant /\ meant[lead + p] = Dot
        BY <2>2, <2>3, <4>1
      <4>4. o # 0 /\ ~ (o >= Ref) /\ ~ (o > MaxLabel)
        BY <2>5, <4>1, <4>2 DEF Ref
      <4>5. CASE full
        BY <2>8, <3>2, <3>3, <4>3, <4>4, <4>5
      <4>6. CASE ~ full
        <5>1. /\ inpos' = inpos + 1 /\ octet' = l /\ init' = FALSE /\ UNCHANGED <<inend, ret>>
              /\ Begun(IF p = 0 THEN lead ELSE lead + p)'
          BY <3>2, <3>3, <4>2, <4>3, <4>4, <4>6
        <5>2. /\ (IF p = 0 THEN lead ELSE lead + p) = (IF p + 1 = 0 THEN lead ELSE lead + (p + 1) - 1)
              /\ p + 1 \in 0..n /\ p + 1 > 0 /\ p + 1 # 0 /\ octet' > 0
          BY <2>2, <2>5, <4>1, <5>1
        <5>3. ReadSoFar(text, p + 1, lead)'
          BY <4>1, <5>1, <5>2 DEF ReadSoFar, code, n, H
        <5> QED
          BY <2>7, <5>1, <5>3
      <4> QED
        BY <4>5, <4>6
    <3>5. CASE p = n /\ EndsAt(text, base, lead)
      <4>1. /\ inpos + 1 \in DOMAIN inbuf /\ inbuf[inpos + 1] = 0
            /\ Len(meant) = k
        BY <2>1, <3>5 DEF EndsAt, code, n
      <4>2. o = 0
        BY <2>5, <2>6, <4>1, ByteRead
      <4>3. ret' = 0 /\ buf' = buf
        BY <3>2, <4>2
      <4>4. buf = meant
        <5>1. Len(buf) = Len(meant) /\ \A i \in 1..Len(buf) : buf[i] = meant[i]
          BY <2>4, <4>1 DEF Begun
        <5>2. meant \in Seq(Int)
          BY <2>5, SeqWider
        <5> QED
          BY <2>5, <5>1, <5>2, SeqEqual
      <4> QED
        BY <1>1, <2>5, <4>3, <4>4 DEF CopyInv, NameComesBack
    <3>6. CASE p = n /\ GoesOn(text, base, lead)
      <4>1. PICK first \in Texts :
              LET more == IF n = 0 THEN lead ELSE lead + n
              IN  /\ base > Len(Encoded(first)) /\ base + n + 2 <= inend
                  /\ {base + n + 1, base + n + 2} \subseteq DOMAIN inbuf
                  /\ inbuf[base + n + 1] = Ref /\ inbuf[base + n + 2] = 0
                  /\ n > 0 => lead + n \in DOMAIN meant /\ meant[lead + n] = Dot
                  /\ Stands(first, 0, more) /\ EndsAt(first, 0, more)
        BY <3>6 DEF GoesOn, code, n
      <4> DEFINE more == IF n = 0 THEN lead ELSE lead + n
                 e == Len(Encoded(first))
      <4>2. o = Ref /\ Octet(inpos + 1) = 0
        <5>1. inpos + 1 = base + n + 1 /\ (inpos + 1) + 1 = base + n + 2
          BY <2>1, <3>6
        <5> QED
          BY <2>5, <2>6, <4>1, <5>1, ByteRead
      <4>3. p # 0 => lead + p \in DOMAIN meant /\ meant[lead + p] = Dot
        BY <2>4, <3>6, <4>1
      <4> HIDE DEF o
      <4>4. CASE full
        BY <2>8, <3>2, <3>3, <4>2, <4>3, <4>4 DEF Ref
      <4>5. CASE ~ full
        <5>1. Reference(o, out)
          BY <3>2, <4>2, <4>5 DEF Ref
        <5>2. /\ inpos + 1 # inend /\ inpos + 2 = base + n + 2
              /\ (Ref - Ref) * 256 + 0 = 0
          BY <2>1, <2>2, <2>5, <3>6, <4>1 DEF Ref
        <5>3. e \in Nat /\ (e = 0 <=> first = <<>>) /\ 1 \in Heads(first) \cup {e + 1}
          <6>1. first \in Seq(1..255) /\ Legible(first)
            BY <4>1, NameAssumption DEF Stands
          <6>2. first # <<>> => Len(Undotted(first)) \in Nat
            BY <6>1, UndottedIs
          <6> QED
            BY <6>1, <6>2, Layout
        <5>4. Backwards(0, inpos + 2)
          <6> HIDE DEF e
          <6> QED
            BY <2>2, <4>1, <5>2, <5>3 DEF Backwards, e
        <5>5. /\ inpos' = 0 /\ inend' = base + n /\ init' = TRUE /\ buf' = out
              /\ octet' = octet /\ ret' = ret
          <6> DEFINE behind == inpos + 2
                     ref    == (o - Ref) * 256 + Octet(inpos + 1)
          <6>1. ref = 0
            BY <4>2, <5>2
          <6>2. inpos + 1 # inend /\ Backwards(ref, behind)
            BY <5>2, <5>4, <6>1
          <6>3. /\ inpos' = ref /\ inend' = behind - 2 /\ init' = TRUE /\ buf' = out
                /\ octet' = octet /\ ret' = ret
            BY <5>1, <6>2 DEF Reference
          <6>4. behind - 2 = base + n
            BY <2>2, <5>2
          <6> HIDE DEF ref, behind
          <6> QED
            BY <6>1, <6>3, <6>4
        <5>6. Begun(more)'
          BY <3>3, <3>6, <4>3, <5>5
        <5>7. ReadSoFar(first, 0, more)'
          BY <3>1, <5>3, <5>5, <5>6 DEF ReadSoFar
        <5>8. Stands(first, 0, more)' /\ EndsAt(first, 0, more)'
          BY <1>1, <4>1 DEF Stands, EndsAt
        <5>9. 0 + e < inend' /\ inpos' = 0 + 0 /\ more \in Nat
          <6>1. base > e
            BY <4>1
          <6> HIDE DEF e
          <6>2. more \in Nat
            BY <2>2
          <6> QED
            BY <2>2, <5>3, <5>5, <6>1, <6>2
        <5>10. Reading'
          <6> HIDE DEF more
          <6> QED
            BY <5>7, <5>8, <5>9 DEF Reading
        <5> QED
          BY <1>1, <1>4, <2>5, <5>5, <5>10 DEF CopyInv
      <4> QED
        BY <4>4, <4>5
    <3>7. p + 1 = n + 1 => p = n
      BY <2>2
    <3> QED
      BY <2>1, <3>1, <3>4, <3>5, <3>6, <3>7
  <2>10. CASE Character
    <3> DEFINE c == text[p]
    <3>1. /\ octet > 0 /\ p > 0 /\ p + octet + 1 \in next
          /\ \A i \in p + 1..p + octet : i \notin H /\ text[i - 1] # Dot
      BY <2>4, <2>5, <2>10 DEF Character
    <3>2. p + octet <= n /\ p + 1 \in 1..n /\ p \in 1..n - 1 /\ p + 1 \in p + 1..p + octet
      <4>1. p + octet + 1 <= n + 1
        <5> DEFINE q == p + octet + 1
        <5>1. \A m \in next : m <= n + 1
          <6>1. \A m \in H : m <= n + 1
            <7> TAKE m \in H
            <7>1. m \in 1..n - 1
              BY <2>2
            <7> QED
              BY <2>2, <7>1
          <6> QED
            BY <2>2, <6>1
        <5> HIDE DEF q, next
        <5> QED
          BY <3>1, <5>1 DEF q
      <4> QED
        BY <2>2, <2>5, <3>1, <4>1
    <3>3. Octet(inpos) = c /\ c # Dot /\ lead + p \in DOMAIN meant /\ meant[lead + p] = c
      <4>1. code[p + 1] = c /\ c # Dot
        <5>1. (p + 1) - 1 = p
          OBVIOUS
        <5> QED
          BY <2>2, <3>1, <3>2, <5>1
      <4>2. base + (p + 1) = inpos + 1
        BY <2>1
      <4> QED
        BY <2>3, <2>5, <2>6, <3>2, <4>1, <4>2, ByteRead
    <3>4. k + 1 = lead + p /\ ~ init
      BY <2>4, <3>1
    <3>5. CASE bufused = bufsize - 1
      <4>1. ret' = -2
        BY <2>6, <2>10, <3>5 DEF Character, Return
      <4>2. Len(meant) >= bufsize
        <5>1. k + 1 = bufsize
          <6>1. Len(buf) = k /\ k \in Nat /\ bufsize \in Nat
            BY <2>5, <2>6
          <6>2. Len(buf) = bufsize - 1
            BY <3>5 DEF bufused
          <6> HIDE DEF k
          <6> QED
            BY <6>1, <6>2
        <5>2. lead + p \in 1..Len(meant) /\ Len(meant) \in Nat
          BY <2>5, <3>3
        <5> HIDE DEF k
        <5> QED
          BY <3>4, <5>1, <5>2
      <4> QED
        BY <2>8, <4>1, <4>2
    <3>6. CASE bufused # bufsize - 1
      <4>1. /\ inpos' = inpos + 1 /\ octet' = (IF octet = 1 THEN -1 ELSE octet - 1)
            /\ buf' = Append(buf, c) /\ UNCHANGED <<inend, init, ret>>
        BY <2>6, <2>10, <3>3, <3>6 DEF Character
      <4>2. c \in Int
        <5> HIDE DEF c
        <5>1. meant[lead + p] \in 0..255
          BY <2>5, <3>3, ElementOfSeq
        <5> QED
          BY <3>3, <5>1
      <4> HIDE DEF c, k
      <4>3. Begun(k + 1)'
        BY <1>1, <2>4, <2>5, <2>6, <3>3, <3>4, <4>1, <4>2, OneMoreCharacter
      <4>4. /\ k + 1 = (IF p + 1 = 0 THEN lead ELSE lead + (p + 1) - 1)
            /\ p + 1 \in 0..n /\ p + 1 # 0 /\ p + 1 > 0
        BY <3>2, <3>4
      <4>5. \/ octet' = -1 /\ p + 1 + 1 \in next
            \/ /\ octet' > 0 /\ p + 1 + octet' + 1 \in next
               /\ \A i \in p + 1 + 1..p + 1 + octet' : i \notin H /\ text[i - 1] # Dot
        <5>1. CASE octet = 1
          BY <3>1, <4>1, <5>1
        <5>2. CASE octet # 1
          <6>1. octet' = octet - 1 /\ octet' > 0 /\ p + 1 + octet' = p + octet
            BY <2>5, <3>1, <4>1, <5>2
          <6>2. \A i \in p + 1 + 1..p + 1 + octet' : i \in p + 1..p + octet
            BY <2>5, <6>1
          <6> QED
            BY <3>1, <6>1, <6>2
        <5> QED
          BY <5>1, <5>2
      <4>6. ReadSoFar(text, p + 1, lead)'
        BY <2>4, <3>4, <4>1, <4>3, <4>4, <4>5 DEF ReadSoFar, code, n, H
      <4> QED
        BY <2>7, <4>1, <4>6
    <3> QED
      BY <3>5, <3>6
  <2> QED
    BY <1>4, <2>9, <2>10 DEF NameNext
<1> QED
  BY <1>2, <1>3, <1>4
(* What write_name has written when it returns without an error.           *)
LEMMA NameWritten ==
  ASSUME NEW text \in Seq(1..255), NEW room \in Int, NEW offset \in {-1, 0},
         write_name(room, text, offset).ret = 0
  PROVE  /\ Legible(text)
         /\ offset = -1 => write_name(room, text, offset).out = Encoded(text) \o <<0>>
         /\ offset = 0 => write_name(room, text, offset).out = Encoded(text) \o <<Ref, 0>>
<1> DEFINE bad == {p \in Heads(text) : LabelError(room, text, p) # 0}
           end == IF offset = -1 THEN <<0>> ELSE <<Ref + (offset \div 256), offset % 256>>
           w   == write_name(room, text, offset)
<1>1. w = IF bad # {} THEN [out |-> <<>>, ret |-> LabelError(room, text, Min(bad))]
          ELSE IF room - Len(Encoded(text)) < Len(end) THEN [out |-> <<>>, ret |-> -2]
          ELSE [out |-> Encoded(text) \o end, ret |-> 0]
  BY DEF write_name
<1>2. bad = {}
  <2> SUFFICES ASSUME bad # {} PROVE FALSE
    OBVIOUS
  <2>1. bad \in SUBSET Nat
    BY DEF Heads
  <2>2. Min(bad) \in bad
    <3> HIDE DEF bad
    <3> QED
      BY <2>1, Smallest
  <2> DEFINE m == Min(bad)
  <2>3. LabelError(room, text, m) # 0
    BY <2>2
  <2>4. w.ret = LabelError(room, text, m)
    <3> HIDE DEF bad
    <3> QED
      BY <1>1
  <2> QED
    BY <2>3, <2>4
<1>3. Legible(text)
  <2> SUFFICES ASSUME NEW p \in Heads(text) PROVE LabelLength(text, p) \in 1..MaxLabel
    BY DEF Legible
  <2> DEFINE n == LabelLength(text, p)
  <2>1. p \in DOMAIN text
    BY DEF Heads
  <2>2. n \in Nat
    BY <2>1, LabelEnds
  <2>3. LabelError(room, text, p) = 0
    BY <1>2
  <2> HIDE DEF n
  <2>4. ~ (n > MaxLabel) /\ n # 0
    <3>1. CASE n > MaxLabel
      BY <2>3, <3>1 DEF LabelError, n
    <3>2. CASE ~ (n > MaxLabel) /\ n = 0
      BY <2>3, <3>2 DEF LabelError, n
    <3> QED
      BY <3>1, <3>2
  <2> QED
    BY <2>2, <2>4, NameAssumption DEF n
<1>4. w.out = Encoded(text) \o end
  <2> DEFINE c == Encoded(text)
  <2>1. w = IF room - Len(c) < Len(end) THEN [out |-> <<>>, ret |-> -2]
            ELSE [out |-> c \o end, ret |-> 0]
    BY <1>1, <1>2
  <2>2. w.ret = 0
    OBVIOUS
  <2> HIDE DEF w
  <2>3. CASE room - Len(c) < Len(end)
    <3>1. w = [out |-> <<>>, ret |-> -2]
      BY <2>1, <2>3
    <3> QED
      BY <2>2, <3>1
  <2>4. CASE ~ (room - Len(c) < Len(end))
    <3>1. w = [out |-> c \o end, ret |-> 0]
      BY <2>1, <2>4
    <3> QED
      BY <3>1, Zenon
  <2> QED
    BY <2>3, <2>4
<1>5. (offset = -1 => end = <<0>>) /\ (offset = 0 => end = <<Ref, 0>>)
  BY DEF Ref
<1> HIDE DEF end
<1> QED
  BY <1>3, <1>4, <1>5, Zenon

(* The name a reader is meant to get, and where its bytes end.             *)
LEMMA Short ==
  ASSUME NEW text \in Seq(1..255), Legible(text)
  PROVE  LET n == Len(Encoded(text))
         IN  /\ n \in Nat /\ Encoded(text) \in Seq(0..255)
             /\ (n = 0 <=> text = <<>>) /\ 1 \in Heads(text) \cup {n + 1}
             /\ Undotted(text) \in Seq(0..255) /\ Len(Undotted(text)) = IF n = 0 THEN 0 ELSE n - 1
             /\ \A i \in 1..n - 1 : Undotted(text)[i] = text[i]
<1> DEFINE u == Undotted(text)
           n == Len(Encoded(text))
<1>1. /\ n \in Nat /\ Encoded(text) \in Seq(0..255)
      /\ n = IF text = <<>> THEN 0 ELSE Len(u) + 1
      /\ 1 \in Heads(text) \cup {n + 1}
  BY Layout
<1>2. CASE text = <<>>
  <2>1. u = <<>>
    BY <1>2 DEF Undotted
  <2>2. u \in Seq(0..255) /\ Len(u) = 0
    BY <2>1
  <2> HIDE DEF u, n
  <2> QED
    BY <1>1, <1>2, <2>2 DEF u, n
<1>3. CASE text # <<>>
  <2>1. u \in Seq(1..255) /\ \A i \in 1..Len(u) : u[i] = text[i]
    BY <1>3, UndottedIs
  <2>2. u \in Seq(0..255) /\ Len(u) \in Nat
    <3>1. 1..255 \subseteq 0..255
      OBVIOUS
    <3> HIDE DEF u
    <3> QED
      BY <2>1, <3>1, SeqWider
  <2> HIDE DEF u, n
  <2>3. n = Len(u) + 1 /\ n # 0 /\ Len(u) = n - 1
    BY <1>1, <1>3, <2>2
  <2> QED
    BY <1>1, <1>3, <2>1, <2>2, <2>3 DEF u, n
<1> QED
  BY <1>2, <1>3

(* Every call of parse_name that the model makes is on a message.          *)
(* What stands where in two sequences put behind each other.               *)
LEMMA BehindEachOther ==
  ASSUME NEW a \in Seq(0..255), NEW b \in Seq(0..255)
  PROVE  /\ a \o b \in Seq(0..255) /\ Len(a \o b) = Len(a) + Len(b)
         /\ \A i \in 1..Len(a) : (a \o b)[i] = a[i]
         /\ \A i \in 1..Len(b) : (a \o b)[Len(a) + i] = b[i]
<1> DEFINE ab == a \o b
<1>1. /\ ab \in Seq(0..255) /\ Len(ab) = Len(a) + Len(b)
      /\ \A i \in 1..Len(a) + Len(b) : ab[i] = IF i <= Len(a) THEN a[i] ELSE b[i - Len(a)]
  BY ConcatProperties
<1>2. Len(a) \in Nat /\ Len(b) \in Nat
  OBVIOUS
<1> HIDE DEF ab
<1>3. \A i \in 1..Len(b) : ab[Len(a) + i] = b[i]
  <2> TAKE i \in 1..Len(b)
  <2>1. /\ Len(a) + i \in 1..Len(a) + Len(b) /\ ~ (Len(a) + i <= Len(a))
        /\ (Len(a) + i) - Len(a) = i
    BY <1>2
  <2> QED
    BY <1>1, <2>1
<1>4. \A i \in 1..Len(a) : ab[i] = a[i]
  BY <1>1, <1>2
<1> QED
  BY <1>1, <1>3, <1>4 DEF ab

LEMMA NameStart == NameInit => Called /\ CopyInv
<1> SUFFICES ASSUME NameInit PROVE Called /\ CopyInv
  OBVIOUS
<1>1. inend = Len(inbuf) /\ buf = <<>> /\ init = TRUE /\ octet = -1 /\ after = -1 /\ ret = 1
  BY DEF NameInit
<1>2. ASSUME NEW lead \in Nat, lead = 0 PROVE Begun(lead)
  BY <1>1, <1>2 DEF Begun
(* The first text is read from its first byte.                             *)
<1>3. ASSUME NEW text \in Texts, NEW base \in Nat, Stands(text, base, 0), inpos = base,
             base + Len(Encoded(text)) < inend, EndsAt(text, base, 0) \/ GoesOn(text, base, 0),
             inbuf \in Seq(0..255), meant \in Seq(0..255)
      PROVE  Called /\ CopyInv
  <2>1. Len(Encoded(text)) \in Nat /\ 1 \in Heads(text) \cup {Len(Encoded(text)) + 1}
    BY <1>3, NameAssumption, Short DEF Stands
  <2>2. ReadSoFar(text, 0, 0)
    BY <1>1, <1>2, <2>1 DEF ReadSoFar
  <2>3. inpos = base + 0
    BY <1>3
  <2>4. Reading
    BY <1>3, <2>2, <2>3 DEF Reading
  <2> DEFINE n == Len(Encoded(text))
  <2> HIDE DEF n
  <2>5. inpos \in 0..Len(inbuf)
    <3>1. base + n < inend /\ n \in Nat /\ Len(inbuf) \in Nat
      BY <1>3, <2>1 DEF n
    <3> QED
      BY <1>1, <1>3, <3>1
  <2> QED
    BY <1>1, <1>3, <2>4, <2>5 DEF Called, CopyInv
<1>4. CASE \E n \in 0..MaxQuery : inbuf \in [1..n -> Bytes] /\ inpos \in Starts \cap 0..n /\ meant = Raw
  <2>1. PICK n \in 0..MaxQuery : inbuf \in [1..n -> Bytes] /\ inpos \in 0..n /\ meant = Raw
    BY <1>4
  <2>2. inbuf \in [1..n -> 0..255] /\ n \in Nat
    <3>1. Bytes \subseteq 0..255 /\ MaxQuery \in Nat
      BY NameAssumption
    <3>2. n \in Nat
      BY <3>1
    <3>3. inbuf \in [1..n -> 0..255]
      BY <2>1, <3>1, Zenon
    <3> QED
      BY <3>2, <3>3
  <2>3. inbuf \in Seq(0..255) /\ Len(inbuf) = n /\ meant \in Seq(0..255)
    BY <2>1, <2>2 DEF Raw
  <2> QED
    BY <1>1, <2>1, <2>3 DEF Called, CopyInv
<1>5. CASE \E text \in Texts, room \in 0..bufsize + 2 :
             LET w == write_name(room, text, -1)
             IN  w.ret = 0 /\ inbuf = w.out /\ inpos = 0 /\ meant = Undotted(text)
  <2>1. PICK text \in Texts, room \in 0..bufsize + 2 :
          /\ write_name(room, text, -1).ret = 0 /\ inbuf = write_name(room, text, -1).out
          /\ inpos = 0 /\ meant = Undotted(text)
    BY <1>5
  <2> DEFINE c == Encoded(text)
             n == Len(c)
             u == Undotted(text)
  <2>2. text \in Seq(1..255)
    BY NameAssumption
  <2>3. Legible(text) /\ inbuf = c \o <<0>>
    <3>1. room \in Int /\ -1 \in {-1, 0}
      BY NameAssumption
    <3>2. Legible(text) /\ write_name(room, text, -1).out = c \o <<0>>
      BY <2>1, <2>2, <3>1, NameWritten, Zenon
    <3> QED
      BY <2>1, <3>2, Zenon
  <2>4. /\ n \in Nat /\ c \in Seq(0..255) /\ u \in Seq(0..255) /\ Len(u) = IF n = 0 THEN 0 ELSE n - 1
        /\ \A i \in 1..n - 1 : u[i] = text[i]
    BY <2>2, <2>3, Short
  <2>5. /\ inbuf \in Seq(0..255) /\ Len(inbuf) = n + 1 /\ inbuf[n + 1] = 0
        /\ \A i \in 1..n : inbuf[i] = c[i]
    <3> HIDE DEF c
    <3> QED
      BY <2>3, <2>4
  <2> HIDE DEF c, n, u
  <2>6. Stands(text, 0, 0)
    <3>1. \A i \in 1..n : 0 + i \in DOMAIN inbuf /\ inbuf[0 + i] = c[i]
      BY <2>4, <2>5
    <3>2. \A i \in 1..n - 1 : 0 + i \in DOMAIN u /\ u[0 + i] = text[i]
      BY <2>4
    <3> QED
      BY <2>1, <2>3, <3>1, <3>2 DEF Stands, c, n, u
  <2>7. EndsAt(text, 0, 0)
    <3>1. 0 + n + 1 \in DOMAIN inbuf /\ inbuf[0 + n + 1] = 0
      BY <2>4, <2>5
    <3>2. Len(u) = IF n = 0 THEN 0 ELSE 0 + n - 1
      BY <2>4
    <3> QED
      BY <2>1, <3>1, <3>2 DEF EndsAt, c, n, u
  <2>8. 0 + n < inend
    BY <1>1, <2>4, <2>5
  <2> QED
    BY <1>3, <2>1, <2>4, <2>5, <2>6, <2>7, <2>8 DEF n, c, u
<1>6. CASE \E first, text \in Texts :
             LET q == write_name(bufsize + 2, first, -1)
                 w == write_name(bufsize + 2, text, 0)
             IN  /\ q.ret = 0 /\ w.ret = 0 /\ first # <<>>
                 /\ inbuf = q.out \o w.out /\ inpos = Len(q.out)
                 /\ meant = GoingOn(text, first)
  <2>1. PICK first, text \in Texts :
          /\ write_name(bufsize + 2, first, -1).ret = 0
          /\ write_name(bufsize + 2, text, 0).ret = 0 /\ first # <<>>
          /\ inbuf = write_name(bufsize + 2, first, -1).out \o write_name(bufsize + 2, text, 0).out
          /\ inpos = Len(write_name(bufsize + 2, first, -1).out) /\ meant = GoingOn(text, first)
    BY <1>6
  <2> DEFINE c == Encoded(text)
             n == Len(c)
             d == Encoded(first)
             e == Len(d)
             u == Undotted(text)
             v == Undotted(first)
             base == e + 1
  <2>2. text \in Seq(1..255) /\ first \in Seq(1..255) /\ bufsize + 2 \in Int
    BY NameAssumption
  <2>3. /\ Legible(text) /\ Legible(first)
        /\ inbuf = (d \o <<0>>) \o (c \o <<Ref, 0>>) /\ inpos = Len(d \o <<0>>)
    <3>1. 0 \in {-1, 0} /\ -1 \in {-1, 0}
      OBVIOUS
    <3>2. Legible(text) /\ write_name(bufsize + 2, text, 0).out = c \o <<Ref, 0>>
      BY <2>1, <2>2, <3>1, NameWritten, Zenon
    <3>3. Legible(first) /\ write_name(bufsize + 2, first, -1).out = d \o <<0>>
      BY <2>1, <2>2, <3>1, NameWritten, Zenon
    <3> QED
      BY <2>1, <3>2, <3>3, Zenon
  <2>4. /\ n \in Nat /\ c \in Seq(0..255) /\ u \in Seq(0..255) /\ Len(u) = IF n = 0 THEN 0 ELSE n - 1
        /\ \A i \in 1..n - 1 : u[i] = text[i]
        /\ n = 0 <=> text = <<>>
    BY <2>2, <2>3, Short
  <2>5. /\ e \in Nat \ {0} /\ d \in Seq(0..255) /\ v \in Seq(0..255) /\ Len(v) = e - 1
        /\ \A i \in 1..e - 1 : v[i] = first[i]
    <3>1. /\ e \in Nat /\ e # 0 /\ d \in Seq(0..255) /\ v \in Seq(0..255)
          /\ Len(v) = (IF e = 0 THEN 0 ELSE e - 1) /\ \A i \in 1..e - 1 : v[i] = first[i]
      BY <2>1, <2>2, <2>3, Short
    <3> QED
      BY <3>1
  <2>6. meant = IF n = 0 THEN v ELSE (u \o <<Dot>>) \o v
    BY <2>1, <2>4 DEF GoingOn
  <2> HIDE DEF c, d, u, v
  <2>7. /\ inbuf \in Seq(0..255) /\ Len(inbuf) = base + n + 2 /\ inpos = base
        /\ \A i \in 1..e : inbuf[i] = d[i]
        /\ inbuf[e + 1] = 0
        /\ \A i \in 1..n : inbuf[base + i] = c[i]
        /\ inbuf[base + n + 1] = Ref /\ inbuf[base + n + 2] = 0
    <3> DEFINE a == d \o <<0>>
               b == c \o <<Ref, 0>>
    <3>1. /\ a \in Seq(0..255) /\ Len(a) = base /\ a[e + 1] = 0
          /\ \A i \in 1..e : a[i] = d[i]
      BY <2>5
    <3>2. /\ b \in Seq(0..255) /\ Len(b) = n + 2 /\ b[n + 1] = Ref /\ b[n + 2] = 0
          /\ \A i \in 1..n : b[i] = c[i]
      BY <2>4 DEF Ref
    <3>3. inbuf = a \o b
      BY <2>3
    <3>4. inpos = base
      BY <2>3, <3>1
    <3> HIDE DEF a, b, n, e
    <3>5. /\ inbuf \in Seq(0..255) /\ Len(inbuf) = base + (n + 2)
          /\ \A i \in 1..base : inbuf[i] = a[i]
          /\ \A i \in 1..n + 2 : inbuf[base + i] = b[i]
      <4>1. /\ a \o b \in Seq(0..255) /\ Len(a \o b) = Len(a) + Len(b)
            /\ \A i \in 1..Len(a) : (a \o b)[i] = a[i]
            /\ \A i \in 1..Len(b) : (a \o b)[Len(a) + i] = b[i]
        BY <3>1, <3>2, BehindEachOther
      <4>2. Len(a) = base /\ Len(b) = n + 2
        BY <3>1, <3>2
      <4> HIDE DEF base
      <4> QED
        BY <3>3, <4>1, <4>2, Zenon
    <3> HIDE DEF base
    <3>6. base = e + 1 /\ base + (n + 2) = base + n + 2
      BY <2>4, <2>5 DEF base
    <3>7. (\A i \in 1..e : inbuf[i] = d[i]) /\ inbuf[e + 1] = 0
      BY <2>5, <3>1, <3>5, <3>6
    <3>8. (\A i \in 1..n : inbuf[base + i] = c[i])
      BY <2>4, <3>2, <3>5
    <3>9. inbuf[base + n + 1] = Ref /\ inbuf[base + n + 2] = 0
      <4>1. base + n + 1 = base + (n + 1) /\ base + n + 2 = base + (n + 2)
        BY <2>4, <2>5, <3>6
      <4>2. n + 1 \in 1..n + 2 /\ n + 2 \in 1..n + 2
        BY <2>4
      <4> QED
        BY <3>2, <3>5, <4>1, <4>2
    <3> QED
      BY <3>4, <3>5, <3>6, <3>7, <3>8, <3>9
  <2>8. /\ meant \in Seq(0..255) /\ Len(meant) = n + e - 1
        /\ \A i \in 1..n - 1 : meant[i] = text[i]
        /\ n > 0 => meant[n] = Dot
        /\ \A i \in 1..e - 1 : meant[n + i] = first[i]
    <3>1. CASE n = 0
      BY <2>4, <2>5, <2>6, <3>1
    <3>2. CASE n # 0
      <4> DEFINE a == u \o <<Dot>>
      <4>1. /\ a \in Seq(0..255) /\ Len(a) = n /\ a[n] = Dot
            /\ \A i \in 1..n - 1 : a[i] = u[i]
        BY <2>4, <3>2 DEF Dot
      <4>2. meant = a \o v
        BY <2>6, <3>2
      <4> HIDE DEF a, n, e
      <4>3. /\ meant \in Seq(0..255) /\ Len(meant) = n + (e - 1)
            /\ \A i \in 1..n : meant[i] = a[i]
            /\ \A i \in 1..e - 1 : meant[n + i] = v[i]
        <5>1. /\ a \o v \in Seq(0..255) /\ Len(a \o v) = Len(a) + Len(v)
              /\ \A i \in 1..Len(a) : (a \o v)[i] = a[i]
              /\ \A i \in 1..Len(v) : (a \o v)[Len(a) + i] = v[i]
          BY <2>5, <4>1, BehindEachOther
        <5>2. Len(a) = n /\ Len(v) = e - 1
          BY <2>5, <4>1
        <5> QED
          BY <4>2, <5>1, <5>2, Zenon
      <4> QED
        BY <2>4, <2>5, <3>2, <4>1, <4>3
    <3> QED
      BY <3>1, <3>2
  <2> HIDE DEF n, e
  <2>9. Stands(text, base, 0)
    <3>1. \A i \in 1..n : base + i \in DOMAIN inbuf /\ inbuf[base + i] = c[i]
      BY <2>4, <2>5, <2>7
    <3>2. \A i \in 1..n - 1 : 0 + i \in DOMAIN meant /\ meant[0 + i] = text[i]
      <4> TAKE i \in 1..n - 1
      <4>1. 0 + i = i /\ i \in 1..n + e - 1
        BY <2>4, <2>5
      <4> QED
        BY <2>4, <2>5, <2>8, <4>1
    <3> QED
      BY <2>3, <3>1, <3>2 DEF Stands, c, n
  <2>10. Stands(first, 0, n)
    <3>1. \A i \in 1..e : 0 + i \in DOMAIN inbuf /\ inbuf[0 + i] = d[i]
      BY <2>4, <2>5, <2>7
    <3>2. \A i \in 1..e - 1 : n + i \in DOMAIN meant /\ meant[n + i] = first[i]
      <4> TAKE i \in 1..e - 1
      <4>1. n + i \in 1..n + e - 1
        BY <2>4, <2>5
      <4> QED
        <5>1. meant[n + i] = first[i]
          BY <2>8
        <5>2. DOMAIN meant = 1..n + e - 1
          BY <2>8
        <5> QED
          BY <4>1, <5>1, <5>2
    <3> QED
      BY <2>3, <3>1, <3>2 DEF Stands, d, e
  <2>11. EndsAt(first, 0, n)
    <3>1. 0 + e + 1 \in DOMAIN inbuf /\ inbuf[0 + e + 1] = 0
      BY <2>4, <2>5, <2>7
    <3>2. Len(meant) = IF e = 0 THEN n ELSE n + e - 1
      BY <2>5, <2>8
    <3> QED
      BY <3>1, <3>2 DEF EndsAt, d, e
  <2>12. GoesOn(text, base, 0)
    <3>1. /\ base > e /\ base + n + 2 <= inend
          /\ {base + n + 1, base + n + 2} \subseteq DOMAIN inbuf
          /\ n > 0 => 0 + n \in DOMAIN meant /\ meant[0 + n] = Dot
          /\ (IF n = 0 THEN 0 ELSE 0 + n) = n
      BY <1>1, <2>4, <2>5, <2>7, <2>8
    <3> HIDE DEF base
    <3> QED
      BY <2>7, <2>10, <2>11, <3>1 DEF GoesOn, c, n, d, e
  <2>13. base \in Nat /\ base + n < inend
    BY <1>1, <2>4, <2>5, <2>7
  <2> HIDE DEF base
  <2> QED
    BY <1>3, <2>7, <2>8, <2>9, <2>12, <2>13 DEF n, c
<1> QED
  BY <1>4, <1>5, <1>6 DEF NameInit

(* dns.cpp:50-97: the messages of the model are among them, those that     *)
(* write_name wrote included.                                              *)
THEOREM NamesStayInside == NameSpec => []NameStaysInside
<1>1. NameSpec => Called /\ [][NameNext]_nameVars
  BY NameStart DEF NameSpec
<1> QED
  BY <1>1, AnyMessageStaysInside

(* dns.cpp:50-128: whatever the name, its labels, and the buffers it is    *)
(* written to and read into, what write_name writes is what parse_name     *)
(* gives back, a reference to an earlier name included.                    *)
THEOREM NamesComeBack == NameSpec => []NameComesBack
<1>1. NameInit => NameInv /\ CopyInv
  <2>1. Called => NameInv
    BY NameAssumption DEF Called, NameInv, NameStaysInside, bufused
  <2> QED
    BY <2>1, NameStart
<1>2. NameInv /\ CopyInv => NameComesBack
  <2> SUFFICES ASSUME NameInv, CopyInv, ret \in {0, -1, -2}, meant # Raw PROVE NameComesBack
    BY DEF NameComesBack
  <2> QED
    BY DEF CopyInv
<1> QED
  BY <1>1, <1>2, NameStep, CopyStep, PTL DEF NameSpec
=============================================================================
