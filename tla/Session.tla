------------------------------ MODULE Session ------------------------------
(***************************************************************************)
(* TestNode: one connection to one peer (bitcoin.cpp:13-305), with the     *)
(* connection through a SOCKS5 proxy or without one (netbase.cpp:209-486). *)
(*                                                                         *)
(* A stream is a sequence of symbols.  The message start is two of them,   *)
(* so that it can be cut in the middle; the command, the size and the      *)
(* checksum are one each, and so is a payload.  Times are seconds left,    *)
(* scaled, and run on their own while the program waits.                   *)
(***************************************************************************)
EXTENDS Integers, SequencesExt

CONSTANTS
  Script,      \* what a peer may send before it stops
  ConnectTime, \* nConnectTimeout: 5
  Timeout,     \* GetTimeout(): 30, or 120 for Tor
  MaxAddr,     \* 1000
  MaxElapsed   \* bound on the clock of the whole session

ASSUME SessionAssumption ==
  /\ {ConnectTime, Timeout, MaxAddr, MaxElapsed} \subseteq Nat /\ Timeout > 0
  /\ Script \subseteq Seq(STRING)

VARIABLES
  pc,        \* direct; greet request bound port (SOCKS5); loop select frame send; end
  proxied,   \* the peer's network has a proxy
  sock,      \* "none", "open", "closed": the descriptor of this session
  wire,      \* what the peer has still to send
  got,       \* everything recv returned
  vRecv,     \* what of it is not consumed
  old,       \* the stream's version is below 209: no checksums
  said,      \* the last version message, or "nothing"
  vSend,     \* messages not yet sent, the first perhaps in part
  sent,      \* messages the peer has got
  vAddr,     \* addresses collected by the batch, up to one too many; -1 for no getaddr
  ban,       \* ban # 0
  wait,      \* seconds left of the call that blocks
  left,      \* doneAfter - now; -1 while doneAfter is 0
  res,       \* Run's res
  seen,      \* the messages processed, in order
  elapsed    \* seconds since the session began

streamVars == <<wire, got, vRecv>>
peerVars   == <<old, said, seen, ban>>
sendVars   == <<vSend, sent>>
sessionVars ==
  <<pc, proxied, sock, streamVars, peerVars, sendVars, vAddr, wait, left, res, elapsed>>

Commands == {"version", "verack", "addr", "ping"}
Versions == {"v300h", "v300", "v150"}   \* with height, without, below 209
AddrCount == [one |-> 1, two |-> 2, many |-> MaxAddr + 1]

HeaderSize == IF old THEN 4 ELSE 5
-----------------------------------------------------------------------------
(* Where the message start is, or one past the end.                        *)
Start(s) ==
  LET at == {p \in 1..Len(s) - 1 : s[p] = "m1" /\ s[p + 1] = "m2"}
  IN  IF at = {} THEN Len(s) + 1 ELSE CHOOSE p \in at : \A q \in at : p <= q

(* Any other four bytes read as more than MAX_SIZE.                        *)
MessageSize(h) == CASE h[4] = "0" -> 0 [] h[4] = "1" -> 1 [] h[4] = "2" -> 2 [] OTHER -> -1

ValidHeader(h) == h[3] \in Commands /\ MessageSize(h) # -1

(* The hash of a payload, written with the symbol of what is hashed.       *)
Hash(payload) == IF payload = <<>> THEN "empty" ELSE payload[1]

From(s, p) == SubSeq(s, p, Len(s))
-----------------------------------------------------------------------------
SessionInit ==
  /\ pc = "direct" /\ proxied \in BOOLEAN /\ sock = "none"
  /\ wire \in Script /\ got = <<>> /\ vRecv = <<>>
  /\ old = FALSE /\ said = "nothing" /\ seen = <<>> /\ ban = FALSE
  /\ vSend = <<>> /\ sent = <<>> /\ vAddr \in {-1, 0, MaxAddr, MaxAddr + 1}
  /\ wait = ConnectTime /\ left = -1 /\ res = TRUE /\ elapsed = 0

End(socket) == pc' = "end" /\ sock' = socket

Idle == UNCHANGED <<proxied, streamVars, peerVars, sendVars, vAddr, left, elapsed>>

(* socket() and fcntl fail at once, connect or its select within the time. *)
ConnectSocketDirectly ==
  /\ pc = "direct"
  /\ \/ End("none") /\ res' = FALSE /\ UNCHANGED wait
     \/ End("closed") /\ res' = FALSE /\ UNCHANGED wait
     \/ /\ wait > 0 /\ sock' = "open" /\ UNCHANGED <<res, wait>>
        /\ pc' = IF proxied THEN "greet" ELSE "hello"
  /\ Idle

Stage == [greet |-> "request", request |-> "bound", bound |-> "port", port |-> "hello"]

(* One send and the recv of its answer; the proxy may answer what is       *)
(* expected, something else, or close.  A silent proxy leaves recv blocked *)
(* for good: the socket was made blocking again and no call sets a limit.  *)
Socks5 ==
  /\ pc \in DOMAIN Stage
  /\ \/ pc' = Stage[pc] /\ UNCHANGED <<sock, res>>
     \/ End("closed") /\ res' = FALSE
     \/ pc = "bound" /\ End("open") /\ res' = FALSE   \* the length of a name cut off
  /\ UNCHANGED wait /\ Idle

(* PushVersion; Send comes next.                                           *)
PushVersion ==
  /\ pc = "hello" /\ pc' = "send" /\ vSend' = <<"version">>
  /\ UNCHANGED <<proxied, sock, streamVars, peerVars, sent, vAddr, wait, left, res, elapsed>>

(* Slip: what send did not take is dropped.                                *)
Slip_Send ==
  /\ pc = "send" /\ pc' = "loop" /\ vSend' = <<>>
  /\ \E n \in 0..Len(vSend) : sent' = sent \o SubSeq(vSend, 1, n)
  /\ UNCHANGED <<proxied, sock, streamVars, peerVars, vAddr, wait, left, res, elapsed>>

(* send takes all, a part that ends in or behind some message, or fails.   *)
Send ==
  /\ pc = "send" /\ pc' = "loop"
  /\ \/ \E n \in 0..Len(vSend) :
          /\ sent' = sent \o SubSeq(vSend, 1, n) /\ vSend' = From(vSend, n + 1)
          /\ UNCHANGED sock
     \/ vSend # <<>> /\ sock' = "closed" /\ UNCHANGED sendVars
  /\ UNCHANGED <<proxied, streamVars, peerVars, vAddr, wait, left, res, elapsed>>

Loop ==
  /\ pc = "loop"
  /\ IF ~ ban /\ left # 0 /\ sock = "open"
       THEN pc' = "select" /\ wait' = (IF left = -1 THEN Timeout ELSE left) /\ UNCHANGED <<sock, res>>
       ELSE End("closed") /\ res' = (sock = "open") /\ UNCHANGED wait
  /\ Idle

(* Slip: the wait begins again as long as nothing was heard.               *)
Slip_SelectEnds ==
  /\ pc = "select" /\ wait = 0 /\ left # -1
  /\ End("closed") /\ res' = TRUE
  /\ UNCHANGED wait /\ Idle

(* Slip: a good result whether or not there was a deadline.                *)
Slip_SelectEnds_Good ==
  /\ pc = "select" /\ wait = 0
  /\ End("closed") /\ UNCHANGED res
  /\ UNCHANGED wait /\ Idle

(* select ran out.                                                         *)
SelectEnds ==
  /\ pc = "select" /\ wait = 0
  /\ End("closed") /\ res' = (left # -1)
  /\ UNCHANGED wait /\ Idle

(* select returns -1, or 2 for data of both kinds: taken for a timeout.    *)
SelectFails ==
  /\ pc = "select" /\ wait # 0
  /\ End("closed") /\ res' = (left # -1)
  /\ UNCHANGED wait /\ Idle

(* Slip: the early return does not close the socket.                       *)
Slip_PeerGone ==
  /\ pc = "select" /\ End(sock) /\ res' = FALSE
  /\ UNCHANGED wait /\ Idle

(* The peer closed, or the connection broke.                               *)
PeerGone ==
  /\ pc = "select" /\ End("closed") /\ res' = FALSE
  /\ UNCHANGED wait /\ Idle

Recv ==
  /\ pc = "select" /\ pc' = "frame"
  /\ \E n \in 1..Len(wire) :
       LET part == SubSeq(wire, 1, n)
       IN  /\ wire' = From(wire, n + 1) /\ got' = got \o part /\ vRecv' = vRecv \o part
  /\ UNCHANGED <<proxied, sock, peerVars, sendVars, vAddr, wait, left, res, elapsed>>
-----------------------------------------------------------------------------
Head_ == From(vRecv, Start(vRecv))

Payload(h) == SubSeq(h, HeaderSize + 1, HeaderSize + MessageSize(h))

(* Slip: everything before the end dropped when no header is complete.     *)
Slip_Kept == IF Len(Head_) < HeaderSize THEN <<>> ELSE Head_

(* What is left of vRecv when the loop of ProcessMessages gives up.        *)
Kept ==
  IF Len(Head_) >= HeaderSize THEN Head_
  ELSE IF Len(vRecv) > HeaderSize THEN From(vRecv, Len(vRecv) - HeaderSize + 1) ELSE vRecv

Incomplete ==
  Len(Head_) < HeaderSize + (IF Len(Head_) >= HeaderSize /\ ValidHeader(Head_)
                               THEN MessageSize(Head_) ELSE 0)

(* No complete message: the loop ends, and Send comes next.                *)
NoMessage ==
  /\ pc = "frame" /\ Incomplete /\ pc' = "send" /\ vRecv' = Kept
  /\ UNCHANGED <<wire, got, sock, res, proxied, peerVars, sendVars, vAddr, wait, left, elapsed>>

BadHeader ==
  /\ pc = "frame" /\ ~ Incomplete /\ ~ ValidHeader(Head_)
  /\ ban' = TRUE /\ vRecv' = From(Head_, HeaderSize + 1) /\ pc' = "send"
  /\ UNCHANGED <<wire, got, sock, res, proxied, old, said, seen, sendVars, vAddr, wait, left, elapsed>>

Complete == pc = "frame" /\ ~ Incomplete /\ ValidHeader(Head_)

SumOK == ~ old => Hash(Payload(Head_)) = Head_[5]

(* The header is consumed, the payload is searched for the next start.     *)
BadChecksum ==
  /\ Complete /\ ~ SumOK
  /\ vRecv' = From(Head_, HeaderSize + 1)
  /\ UNCHANGED <<pc, wire, got, sock, res, proxied, peerVars, sendVars, vAddr, wait, left, elapsed>>

(* GotVersion: the deadline, and getaddr if addresses are wanted.          *)
GotVersion(queue) ==
  /\ vSend' = IF vAddr # -1 THEN Append(queue, "getaddr") ELSE queue
  /\ left' = IF vAddr # -1 THEN Timeout ELSE 1

GotVersionMessage(v) ==
  /\ said' = v
  /\ IF v = "v150"
       THEN old' = TRUE /\ GotVersion(vSend)
       ELSE vSend' = Append(vSend, "verack") /\ UNCHANGED <<old, left>>
  /\ pc' = "frame" /\ UNCHANGED vAddr

(* The version set is that of said: with nothing said it is 0, and old.    *)
GotVerack ==
  /\ old' = (said \in {"nothing", "v150"}) /\ GotVersion(vSend)
  /\ pc' = "frame" /\ UNCHANGED <<said, vAddr>>

(* The deadline after a message of so many addresses.                      *)
Hurry(count) == IF count > 1 /\ (left = -1 \/ left > 1) THEN 1 ELSE left

Full(fresh) == vAddr + fresh > MaxAddr

(* fresh of the addresses are not too old to keep; ProcessMessages ends    *)
(* when the batch has more than MaxAddr.                                   *)
GotAddr(count, fresh) ==
  /\ vAddr' = IF Full(fresh) THEN MaxAddr + 1 ELSE vAddr + fresh
  /\ left' = IF Full(fresh) THEN 0 ELSE Hurry(count)
  /\ pc' = IF Full(fresh) THEN "send" ELSE "frame"
  /\ UNCHANGED <<old, said, vSend>>

Body == IF Payload(Head_) = <<>> THEN "short" ELSE Payload(Head_)[1]

(* Reading a payload that is too short throws out of Run.                  *)
Throws ==
  \/ Head_[3] = "version" /\ Body \notin Versions
  \/ Head_[3] = "addr" /\ vAddr # -1 /\ Body \notin DOMAIN AddrCount

ProcessMessage ==
  /\ Complete /\ SumOK /\ ~ Throws
  /\ vRecv' = From(Head_, HeaderSize + MessageSize(Head_) + 1)
  /\ seen' = Append(seen, <<Head_[3], Body>>)
  /\ \/ Head_[3] = "version" /\ GotVersionMessage(Body)
     \/ Head_[3] = "verack" /\ GotVerack
     \/ /\ Head_[3] = "addr" /\ vAddr # -1
        /\ \E fresh \in 0..AddrCount[Body] : GotAddr(AddrCount[Body], fresh)
     \/ /\ Head_[3] = "ping" \/ (Head_[3] = "addr" /\ vAddr = -1)
        /\ UNCHANGED <<pc, old, said, vSend, vAddr, left>>
  /\ UNCHANGED <<wire, got, sock, res, proxied, ban, sent, wait, elapsed>>

(* TestNode catches the exception; nothing closes the socket.              *)
Throw ==
  /\ Complete /\ SumOK /\ Throws
  /\ End(sock) /\ res' = FALSE
  /\ UNCHANGED wait /\ Idle

Tick ==
  /\ IF pc \in {"direct", "select"} THEN wait > 0 ELSE pc \in DOMAIN Stage
  /\ wait' = IF pc \in DOMAIN Stage THEN wait ELSE wait - 1
  /\ left' = IF left > 0 THEN left - 1 ELSE left
  /\ elapsed' = IF elapsed < MaxElapsed THEN elapsed + 1 ELSE elapsed
  /\ UNCHANGED <<pc, proxied, sock, streamVars, peerVars, sendVars, vAddr, res>>

Program ==
  \/ PushVersion \/ Send \/ Loop \/ SelectEnds
  \/ NoMessage \/ BadHeader \/ BadChecksum \/ ProcessMessage \/ Throw

SessionNext ==
  Program \/ ConnectSocketDirectly \/ Socks5 \/ SelectFails \/ PeerGone \/ Recv \/ Tick

(* The program moves when it can, time passes, and connect ends in time;   *)
(* nothing is asked of the peer or of the proxy.                           *)
SessionFairness ==
  /\ WF_sessionVars(Program) /\ WF_sessionVars(Tick)
  /\ WF_sessionVars(ConnectSocketDirectly)

SessionSpec == SessionInit /\ [][SessionNext]_sessionVars /\ SessionFairness
-----------------------------------------------------------------------------
(* Properties.                                                             *)

SessionTypeOK ==
  /\ pc \in {"direct", "hello", "send", "loop", "select", "frame", "end"} \cup DOMAIN Stage
  /\ sock \in {"none", "open", "closed"} /\ {proxied, old, ban, res} \subseteq BOOLEAN
  /\ said \in Versions \cup {"nothing"}
  /\ vAddr \in -1..MaxAddr + 1 /\ left \in -1..Timeout
  /\ wait \in 0..(Timeout + ConnectTime) /\ elapsed \in 0..MaxElapsed

Good == pc = "end" /\ res /\ ~ ban

(* bitcoin.cpp:216-263: a node is never reported good on silence: it sent  *)
(* a verack, an old version message, or addresses that were asked for, and *)
(* no header of it was invalid.                                            *)
GoodWasHeard ==
  Good => \E i \in DOMAIN seen :
            \/ seen[i][1] = "verack" \/ seen[i] = <<"version", "v150">>
            \/ seen[i][1] = "addr" /\ vAddr # -1

(* What a message makes the program send.                                  *)
Reply(m) ==
  LET ask == IF vAddr # -1 THEN <<"getaddr">> ELSE <<>>
  IN  CASE m[1] = "verack" \/ m = <<"version", "v150">> -> ask
        [] m[1] = "version" /\ m[2] # "v150" -> <<"verack">>
        [] OTHER -> <<>>

(* bitcoin.cpp:34-74: sends that take a part only never lose, repeat or    *)
(* reorder a message: the peer has got a prefix of what is due to it, and  *)
(* the buffer holds the rest.                                              *)
SentInOrder ==
  pc \notin {"direct", "hello"} \cup DOMAIN Stage /\ sent \o vSend # <<>> =>
    sent \o vSend = <<"version">> \o FlattenSeq([i \in DOMAIN seen |-> Reply(seen[i])])

(* bitcoin.cpp:218-261, 301, netbase.cpp:290-291: the descriptor is closed *)
(* at the end of every session, but for the two ways out that forget it: a *)
(* message that is too short, and a proxy that breaks off before the name. *)
ClosedAtEnd ==
  pc = "end" /\ sock = "open" =>
    \/ proxied /\ sent = <<>> /\ vSend = <<>>
    \/ ~ Incomplete /\ Throws

(* bitcoin.cpp:222-258: a session with a peer that stops sending ends,     *)
(* unless a proxy leaves it waiting for an answer.                         *)
SessionEnds == <>(pc = "end") \/ <>[](pc \in DOMAIN Stage)

(* db.h:233-234, "(16 nodes, up to ~35s each)": five seconds to connect    *)
(* and thirty for the peer.                                                *)
SessionInTime == ~ proxied => elapsed <= ConnectTime + Timeout
=============================================================================
