------------------------------- MODULE MCDns -------------------------------
(***************************************************************************)
(* The four parts of the DNS server for TLC, each by itself: what a        *)
(* thread does in one of them touches no state of the others.              *)
(***************************************************************************)
EXTENDS DnsStart, DnsCache, DnsReply, DnsName

CONSTANTS Questions, t1, t2, a4, b4, a6, f1, f2

VARIABLE unit   \* the part that moves in this behaviour

allVars == <<unit, startVars, cacheVars, replyVars, nameVars>>

Plain(d) == [runt |-> FALSE, qr |-> FALSE, opcode |-> 0, nquestion |-> 1, name |-> "ok",
             hosted |-> TRUE, tail |-> TRUE, typ |-> "A", cls |-> "IN", question |-> 30]

Odd == {[Plain(0) EXCEPT !.runt = TRUE], [Plain(0) EXCEPT !.qr = TRUE],
        [Plain(0) EXCEPT !.opcode = 4], [Plain(0) EXCEPT !.nquestion = 0],
        [Plain(0) EXCEPT !.nquestion = 2], [Plain(0) EXCEPT !.name = "bad"],
        [Plain(0) EXCEPT !.name = "long"], [Plain(0) EXCEPT !.hosted = FALSE],
        [Plain(0) EXCEPT !.tail = FALSE]}

MCDatagram == Odd \cup {[Plain(0) EXCEPT !.typ = t, !.cls = c, !.question = n] :
                          t \in Types, c \in {"IN", "CHAOS"}, n \in Questions}
              \cup {[Plain(0) EXCEPT !.typ = "ANY", !.cls = "ANY"]}

(* A short pair, a long name server, a long pair, names that cannot be     *)
(* written.                                                                *)
MCOpts == {[ns |-> 20, mbox |-> 20], [ns |-> 200, mbox |-> 100], [ns |-> 255, mbox |-> 255],
           [ns |-> NoName, mbox |-> 20], [ns |-> 20, mbox |-> NoName]}

MCTexts == UNION {[1..n -> {Dot, 97}] : n \in 0..4}

MCInit ==
  /\ unit \in {"start", "cache", "reply", "name"}
  /\ StartInit /\ CacheInit /\ ReplyInit
  /\ unit # "reply" => opt = CHOOSE o \in Opts : TRUE
  /\ IF unit = "name" THEN NameInit
     ELSE /\ inbuf = <<>> /\ meant = Raw /\ inpos = 0 /\ inend = 0 /\ buf = <<>>
          /\ init = TRUE /\ octet = -1 /\ after = -1 /\ ret = 1

MCNext ==
  /\ UNCHANGED unit
  /\ unit # "start" => UNCHANGED startVars
  /\ unit # "cache" => UNCHANGED cacheVars
  /\ unit # "reply" => UNCHANGED replyVars
  /\ unit # "name" => UNCHANGED nameVars
  /\ \/ unit = "start" /\ StartNext
     \/ unit = "cache" /\ CacheNext
     \/ unit = "reply" /\ ReplyNext
     \/ unit = "name" /\ NameNext

MCSpec == MCInit /\ [][MCNext]_allVars /\ StartFairness /\ CacheFairness
=============================================================================
