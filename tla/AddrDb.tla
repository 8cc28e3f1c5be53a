------------------------------- MODULE AddrDb -------------------------------
(***************************************************************************)
(* CAddrDb (db.h, db.cpp) and the threads of main.cpp that write to it:    *)
(* the crawlers, which take a batch of nodes under the lock, test them     *)
(* without it and report and add what they learnt under it again; the      *)
(* seeder, which force-adds the addresses it resolves; and the statistics  *)
(* thread, whose "shared" access writes too.                               *)
(*                                                                         *)
(* A public method of CAddrDb runs under the critical section cs.  Its     *)
(* loops (GetMany, the retry loop of Get_, ResultMany, Add(vector)) are    *)
(* steps of the thread that holds `lock', so every action below is one     *)
(* pass through a loop body; no other thread can step in between.  Reading *)
(* the clock twice inside one critical section gives the same second.      *)
(*                                                                         *)
(* Abstracted data: the five decaying averages of a record are represented *)
(* by the verdict IsGood, GetBanTime and GetIgnoreTime draw from them,     *)
(* chosen afresh at each Update among those its counters allow; the peer's *)
(* version and height by whether they pass the gates of IsGood; lastTry    *)
(* and nDirty are written and never read, and are left out.                *)
(*                                                                         *)
(* A definition named Slip_X is the definition that follows it with a slip *)
(* a programmer could make; no action uses it.  Put in that definition's   *)
(* place it shows which property notices.                                  *)
(***************************************************************************)
EXTENDS Integers, Sequences, FiniteSets, Functions

CONSTANTS
  Addr,         \* network addresses (CService)
  NoAddr,       \* the address of a default-constructed CAddrInfo
  Crawler,      \* crawler threads
  Free,         \* the owner of `lock' when nobody holds it
  Routable,     \* addresses for which IsRoutable() is true
  DefaultPort,  \* addresses on the network's default port
  Seeds,        \* addresses the seeder thread resolves
  Rumours,      \* service sets that ADDR gossip claims for an address
  Hellos,       \* what a peer's VERSION message can leave in a record
  Verdicts,     \* what the averages of a record can say of it
  Garbage,      \* what ourId[0] can read when ourId is empty
  MaxBatch,     \* nodes a crawler asks for at once (16)
  MinRetry,     \* MIN_RETRY, seconds between two tests of a node (1000)
  IgnoreTime,   \* what GetIgnoreTime returns when it is not 0
  BanTime,      \* what GetBanTime returns when it is not 0
  NodeBan,      \* the ban CNode asks for on a malformed header (100000)
  Grace,        \* tests during which the success ratio alone decides (3)
  MinSamples,   \* weight of history below which no average counts (2)
  BanSamples,   \* weight of history below which no average bans (8)
  MaxTotal,     \* bound: the counters total and success saturate here
  MaxId,        \* bound: ids handed out
  MaxTime       \* bound: the clock

Flags == {"NETWORK", "BLAKE2B"}

Levels == {"none", "ignore", "ban"}

ASSUME AddrAssumption ==
  /\ NoAddr \notin Addr
  /\ Routable \subseteq Addr /\ DefaultPort \subseteq Addr /\ Seeds \subseteq Addr
  /\ Free \notin Crawler

ASSUME DataAssumption ==
  /\ Rumours \subseteq SUBSET Flags
  /\ Hellos \subseteq [services : SUBSET Flags, fit : BOOLEAN, ancient : BOOLEAN]
  /\ Verdicts \subseteq [reliable : BOOLEAN, level : Levels]
  /\ Garbage \subseteq Int

ASSUME NumberAssumption ==
  /\ MaxBatch \in Nat \ {0} /\ MinRetry \in Nat \ {0}
  /\ IgnoreTime \in Nat \ {0} /\ BanTime \in Nat \ {0} /\ NodeBan \in Nat \ {0}
  /\ Grace \in Nat /\ MinSamples \in Nat /\ BanSamples \in Nat /\ MaxTotal \in Nat
  /\ MaxTotal > Grace /\ MaxTotal > MinSamples /\ MaxTotal > BanSamples
  /\ MaxId \in Nat /\ MaxTime \in Nat

VARIABLES
  nId,       \* next id to give out
  idToInfo,  \* id -> record
  ipToId,    \* address -> id
  ourId,     \* rotation queue of tried nodes
  unkId,     \* ids not tried yet
  goodId,    \* ids that are served
  forkId,    \* rotation queue of BLAKE2b nodes
  inFlight,  \* ids handed out by Get_ whose result is outstanding
  banned,    \* address -> the time its ban runs out
  lock,      \* owner of cs
  tot,       \* Get_'s local of that name, for the thread inside Get_
  pc,        \* where each crawler is in ThreadCrawler
  ips,       \* each crawler's batch: the addresses of its CServiceResults
  now        \* time(NULL)

qVars  == <<ourId, unkId, forkId, inFlight>>
dbVars == <<nId, idToInfo, ipToId, qVars, goodId, banned>>
vars   == <<dbVars, lock, tot, pc, ips, now>>
-----------------------------------------------------------------------------
(* Records.                                                                *)

Info == [ip : Addr \cup {NoAddr}, services : SUBSET Flags,
         ourLastTry : Nat, ignoreTill : Nat, total : 0..MaxTotal, success : 0..MaxTotal,
         fit : BOOLEAN, ancient : BOOLEAN, reliable : BOOLEAN, level : Levels]

NewInfo(a, services) ==
  [ip |-> a, services |-> services, ourLastTry |-> 0, ignoreTill |-> 0,
   total |-> 0, success |-> 0, fit |-> TRUE, ancient |-> FALSE,
   reliable |-> FALSE, level |-> "none"]

IsGood(i) ==
  /\ i.ip \in DefaultPort
  /\ "NETWORK" \in i.services
  /\ i.ip \in Routable
  /\ i.fit
  /\ \/ i.total <= Grace /\ i.success * 2 >= i.total
     \/ i.reliable

GetBanTime(i) ==
  IF ~IsGood(i) /\ (i.ancient \/ i.level = "ban") THEN BanTime ELSE 0

GetIgnoreTime(i) ==
  IF ~IsGood(i) /\ i.level # "none" THEN IgnoreTime ELSE 0

(* The verdicts the averages can give after a test: an average counts only *)
(* once it has seen enough tests, none is reliable without a success, and  *)
(* none condemns without a failure (a saturated total may hide one).       *)
VerdictsAfter(total, success) ==
  {v \in Verdicts : /\ v.reliable => total > MinSamples /\ success > 0
                    /\ v.level # "none" =>
                         total > MinSamples /\ (success < total \/ total = MaxTotal)
                    /\ v.level = "ban" => total > BanSamples}

Count(n) == IF n < MaxTotal THEN n + 1 ELSE n

(* Slip: ourLastTry set, like ourLastSuccess, only by a success.            *)
Slip_Tested(i, good) ==
  [i EXCEPT !.ourLastTry = IF good THEN now ELSE @,
            !.total = Count(@),
            !.success = IF good THEN Count(@) ELSE @]

Tested(i, good) ==
  [i EXCEPT !.ourLastTry = now,
            !.total = Count(@),
            !.success = IF good THEN Count(@) ELSE @]

Judged(i, v) == [i EXCEPT !.reliable = v.reliable, !.level = v.level]

Ignored(i) ==
  LET ign == GetIgnoreTime(i)
  IN  IF ign > 0 /\ (i.ignoreTill = 0 \/ i.ignoreTill < ign + now)
        THEN [i EXCEPT !.ignoreTill = ign + now] ELSE i

Update(i, good, v) == Ignored(Judged(Tested(i, good), v))

(* Slip: one second short.                                                 *)
Slip_TooRecent(i) == now - i.ourLastTry < MinRetry - 1

TooRecent(i) == now - i.ourLastTry < MinRetry
-----------------------------------------------------------------------------
(* Maps and queues.                                                        *)

NoMap == [x \in {} |-> x]

Put(f, k, v) == [x \in DOMAIN f \cup {k} |-> IF x = k THEN v ELSE f[x]]

Drop(f, k) == Restrict(f, DOMAIN f \ {k})

Scrub(q, id) ==
  IF id \in Range(q) THEN SelectSeq(q, LAMBDA x : x # id) ELSE q

(* Slip: enrolled on the rumour, the bug the comment in Requeue_ records.  *)
Slip_Requeue_Rumour(id, info) ==
  IF "BLAKE2B" \in info.services
    THEN /\ forkId' = IF id \in Range(forkId) THEN forkId ELSE Append(forkId, id)
         /\ UNCHANGED ourId
    ELSE ourId' = Append(ourId, id) /\ UNCHANGED forkId

(* Slip: forkId as an overlay of ourId.                                    *)
Slip_Requeue_Overlay(id, info) ==
  /\ forkId' = IF info.success > 0 /\ "BLAKE2B" \in info.services /\ id \notin Range(forkId)
                 THEN Append(forkId, id) ELSE forkId
  /\ ourId' = Append(ourId, id)

Requeue_(id, info) ==
  IF info.success > 0 /\ "BLAKE2B" \in info.services
    THEN /\ forkId' = IF id \in Range(forkId) THEN forkId ELSE Append(forkId, id)
         /\ UNCHANGED ourId
    ELSE ourId' = Append(ourId, id) /\ UNCHANGED forkId
-----------------------------------------------------------------------------
Init ==
  /\ nId = 0 /\ idToInfo = NoMap /\ ipToId = NoMap
  /\ ourId = <<>> /\ forkId = <<>> /\ unkId = {} /\ inFlight = {}
  /\ goodId = {} /\ banned = NoMap
  /\ lock = Free /\ tot = 0 /\ now = 1
  /\ pc = [c \in Crawler |-> "idle"]
  /\ ips = [c \in Crawler |-> <<>>]

Goto(c, where) == pc' = [pc EXCEPT ![c] = where]

Inside(c, where) == pc[c] = where /\ lock = c
-----------------------------------------------------------------------------
(* GetMany and Get_.                                                       *)

StartGetMany(c) ==
  /\ pc[c] = "idle" /\ lock = Free
  /\ lock' = c /\ Goto(c, "get")
  /\ UNCHANGED <<dbVars, tot, ips, now>>

(* Get_ returned false, or the batch is full: GetMany returns.             *)
ReturnBatch(c) ==
  /\ lock' = Free /\ tot' = 0
  /\ Goto(c, IF ips[c] = <<>> THEN "idle" ELSE "test")
  /\ UNCHANGED <<ips, now>>

EndGetMany(c) ==
  /\ Inside(c, "get")
  /\ Len(ips[c]) >= MaxBatch \/ (unkId = {} /\ ourId = <<>>)
  /\ ReturnBatch(c) /\ UNCHANGED dbVars

(* Slip: forkId counted in.                                                *)
Slip_StartGet(c) ==
  /\ Inside(c, "get") /\ Len(ips[c]) < MaxBatch
  /\ unkId # {} \/ ourId # <<>>
  /\ tot' = Cardinality(unkId) + Len(ourId) + Len(forkId)
  /\ Goto(c, "loop") /\ UNCHANGED <<dbVars, lock, ips, now>>

StartGet(c) ==
  /\ Inside(c, "get") /\ Len(ips[c]) < MaxBatch
  /\ unkId # {} \/ ourId # <<>>
  /\ tot' = Cardinality(unkId) + Len(ourId)
  /\ Goto(c, "loop") /\ UNCHANGED <<dbVars, lock, ips, now>>

HandOut(c, id) ==
  /\ inFlight' = inFlight \cup {id}
  /\ ips' = [ips EXCEPT ![c] = Append(@, idToInfo[id].ip)]
  /\ tot' = 0 /\ Goto(c, "get")

(* Slip: the slice taken only when ourId has nothing.                      *)
Slip_ForkSlice(c, id) ==
  /\ Inside(c, "loop") /\ forkId # <<>> /\ id = Head(forkId)
  /\ ourId = <<>>

(* The fork slice: the 5% coin, the front of forkId, and its two refusals. *)
ForkSlice(c, id) ==
  /\ Inside(c, "loop") /\ forkId # <<>> /\ id = Head(forkId)

SkipFork(c) ==
  /\ Inside(c, "loop")
  /\ Goto(c, "pick") /\ UNCHANGED <<dbVars, lock, tot, ips, now>>

ForkPassOver(c) ==
  \E id \in Range(forkId) :
    /\ ForkSlice(c, id)
    /\ id \notin DOMAIN idToInfo \/ TooRecent(idToInfo[id])
    /\ forkId' = IF id \in DOMAIN idToInfo THEN Append(Tail(forkId), id) ELSE Tail(forkId)
    /\ Goto(c, "pick")
    /\ UNCHANGED <<nId, idToInfo, ipToId, ourId, unkId, inFlight, goodId, banned>>
    /\ UNCHANGED <<lock, tot, ips, now>>

ForkHandOut(c) ==
  \E id \in Range(forkId) :
    /\ ForkSlice(c, id)
    /\ id \in DOMAIN idToInfo /\ ~TooRecent(idToInfo[id])
    /\ forkId' = Tail(forkId) /\ HandOut(c, id)
    /\ UNCHANGED <<nId, idToInfo, ipToId, ourId, unkId, goodId, banned, lock, now>>

(* The common end of the normal selection: rest is ourId after the pop.    *)
Offer(c, id, rest) ==
  IF idToInfo[id].ignoreTill # 0 /\ idToInfo[id].ignoreTill < now
    THEN /\ ourId' = Append(rest, id)
         /\ idToInfo' = [idToInfo EXCEPT ![id].ourLastTry = now]
         /\ Goto(c, "loop") /\ UNCHANGED <<inFlight, ips, tot>>
    ELSE /\ ourId' = rest /\ HandOut(c, id) /\ UNCHANGED idToInfo

PickUnk(c) ==
  \E id \in unkId :
    /\ Inside(c, "pick")
    /\ \A x \in unkId : x <= id
    /\ unkId' = unkId \ {id} /\ Offer(c, id, ourId)
    /\ UNCHANGED <<nId, ipToId, forkId, goodId, banned, lock, now>>

(* rand() % tot can fall beyond unkId only if tot exceeds its size.        *)
OurSlice(c, id) ==
  /\ Inside(c, "pick") /\ tot > Cardinality(unkId)
  /\ ourId # <<>> /\ id = Head(ourId)

PickOur(c) ==
  \E id \in Range(ourId) :
    /\ OurSlice(c, id)
    /\ id \in DOMAIN idToInfo /\ ~TooRecent(idToInfo[id])
    /\ Offer(c, id, Tail(ourId))
    /\ UNCHANGED <<nId, ipToId, unkId, forkId, goodId, banned, lock, now>>

OurRefused(c) ==
  \E id \in Range(ourId) :
    /\ OurSlice(c, id)
    /\ id \notin DOMAIN idToInfo \/ TooRecent(idToInfo[id])
    /\ ourId' = IF id \in DOMAIN idToInfo THEN ourId ELSE Tail(ourId)
    /\ IF id \in DOMAIN idToInfo \/ Tail(ourId) = <<>>
         THEN ReturnBatch(c)
         ELSE Goto(c, "loop") /\ UNCHANGED <<lock, tot, ips, now>>
    /\ UNCHANGED <<nId, idToInfo, ipToId, unkId, forkId, inFlight, goodId, banned>>
-----------------------------------------------------------------------------
(* ResultMany: Good_ or Bad_ for each node of the batch, in order.         *)

StartResultMany(c) ==
  /\ pc[c] = "test" /\ lock = Free
  /\ lock' = c /\ Goto(c, "result")
  /\ UNCHANGED <<dbVars, tot, ips, now>>

(* Slip: inFlight not cleared.                                             *)
Slip_Finished(id) ==
  /\ unkId' = unkId \ {id}
  /\ UNCHANGED inFlight

Finished(id) ==
  /\ unkId' = unkId \ {id}
  /\ inFlight' = inFlight \ {id}

Good_(a, hello, v) ==
  LET id == ipToId[a]
      said == [idToInfo[id] EXCEPT !.services = hello.services,
                                   !.fit = hello.fit, !.ancient = hello.ancient]
      info == Update(said, TRUE, v)
  IN
  IF a \notin DOMAIN ipToId THEN UNCHANGED dbVars ELSE
    /\ v \in VerdictsAfter(info.total, info.success)
    /\ Finished(id)
    /\ banned' = Drop(banned, a)
    /\ idToInfo' = [idToInfo EXCEPT ![id] = info]
    /\ goodId' = IF IsGood(info) THEN goodId \cup {id} ELSE goodId
    /\ Requeue_(id, info)
    /\ UNCHANGED <<nId, ipToId>>

(* Slip: the node banned, its record and its place in ipToId kept.          *)
Slip_Forget_Keep(id, info, until) ==
  /\ banned' = Put(banned, info.ip, until)
  /\ forkId' = Scrub(forkId, id)
  /\ UNCHANGED <<ourId, ipToId, idToInfo>>

(* Slip: ipToId not cleaned.                                               *)
Slip_Forget_Map(id, info, until) ==
  /\ banned' = Put(banned, info.ip, until)
  /\ idToInfo' = Drop(idToInfo, id)
  /\ forkId' = Scrub(forkId, id)
  /\ UNCHANGED <<ourId, ipToId>>

(* Slip: the ban not recorded.                                             *)
Slip_Forget_Ban(id, info, until) ==
  /\ ipToId' = Drop(ipToId, info.ip)
  /\ idToInfo' = Drop(idToInfo, id)
  /\ forkId' = Scrub(forkId, id)
  /\ UNCHANGED <<ourId, banned>>

(* A ban takes the node out of the maps and of forkId, not out of ourId.   *)
Forget(id, info, until) ==
  /\ banned' = Put(banned, info.ip, until)
  /\ ipToId' = Drop(ipToId, info.ip)
  /\ idToInfo' = Drop(idToInfo, id)
  /\ forkId' = Scrub(forkId, id)
  /\ UNCHANGED ourId

(* ban is what CNode asked for; the record's own ban time may exceed it.   *)
Bad_(a, ban, v) ==
  LET id == ipToId[a]
      info == Update(idToInfo[id], FALSE, v)
      ter == GetBanTime(info)
      time == IF ban < ter THEN ter ELSE ban
  IN
  IF a \notin DOMAIN ipToId THEN UNCHANGED dbVars ELSE
    /\ v \in VerdictsAfter(info.total, info.success)
    /\ Finished(id)
    /\ goodId' = goodId \ {id}
    /\ IF time > 0
         THEN Forget(id, info, time + now)
         ELSE /\ idToInfo' = [idToInfo EXCEPT ![id] = info]
              /\ Requeue_(id, info)
              /\ UNCHANGED <<banned, ipToId>>
    /\ UNCHANGED nId

(* One pass of ResultMany; the last one leaves the critical section.       *)
Reported(c) ==
  /\ Inside(c, "result")
  /\ ips' = [ips EXCEPT ![c] = Tail(@)]
  /\ IF Tail(ips[c]) = <<>> THEN lock' = Free /\ Goto(c, "add")
                            ELSE UNCHANGED <<lock, pc>>
  /\ UNCHANGED <<tot, now>>

Good(c) ==
  \E hello \in Hellos, v \in Verdicts :
    Reported(c) /\ Good_(Head(ips[c]), hello, v)

Bad(c) ==
  \E ban \in {0, NodeBan}, v \in Verdicts :
    Reported(c) /\ Bad_(Head(ips[c]), ban, v)
-----------------------------------------------------------------------------
(* Add_: gossip is added by the crawler that collected it (force FALSE),   *)
(* resolved names by the seeder thread (force TRUE).                       *)

(* Slip: the id taken after the increment.                                 *)
Slip_Enter(a, services) ==
  /\ nId < MaxId /\ nId' = nId + 1
  /\ idToInfo' = Put(idToInfo, nId + 1, NewInfo(a, services))
  /\ ipToId' = Put(ipToId, a, nId + 1)
  /\ unkId' = unkId \cup {nId + 1}

(* A new node enters the database untried.                                 *)
Enter(a, services) ==
  /\ nId < MaxId /\ nId' = nId + 1
  /\ idToInfo' = Put(idToInfo, nId, NewInfo(a, services))
  /\ ipToId' = Put(ipToId, a, nId)
  /\ unkId' = unkId \cup {nId}

Add_(a, services, nTime, force) ==
  LET barred == a \in DOMAIN banned
      pardon == force \/ (banned[a] < now /\ nTime > banned[a])
  IN
  IF (~force /\ a \notin Routable) \/ (barred /\ ~pardon) THEN UNCHANGED dbVars ELSE
    /\ banned' = IF barred THEN Drop(banned, a) ELSE banned
    /\ IF a \in DOMAIN ipToId
         THEN /\ idToInfo' = IF force THEN [idToInfo EXCEPT ![ipToId[a]].ignoreTill = 0]
                                      ELSE idToInfo
              /\ UNCHANGED <<nId, ipToId, unkId>>
         ELSE Enter(a, services)
    /\ UNCHANGED <<ourId, forkId, inFlight, goodId>>

(* One pass of Add(vector): the first takes cs and keeps it to EndAdd.     *)
AddGossip(c) ==
  \E a \in Addr, services \in Rumours, nTime \in 0..now :
    /\ pc[c] = "add" /\ lock \in {Free, c}
    /\ lock' = c /\ Add_(a, services, nTime, FALSE)
    /\ UNCHANGED <<tot, pc, ips, now>>

EndAdd(c) ==
  /\ pc[c] = "add" /\ lock \in {Free, c}
  /\ lock' = Free /\ Goto(c, "idle")
  /\ UNCHANGED <<dbVars, tot, ips, now>>

(* ThreadSeeder: CAddress defaults to NODE_NETWORK and a time long past.   *)
AddSeed ==
  \E a \in Seeds :
    /\ lock = Free
    /\ Add_(a, {"NETWORK"}, 0, TRUE)
    /\ UNCHANGED <<lock, tot, pc, ips, now>>

(* GetStats reads idToInfo[ourId[0]] with operator[], which inserts a blank *)
(* record for an id that has none; on an empty ourId the id is whatever    *)
(* the deque's memory holds.                                               *)
GetStats ==
  \E id \in IF ourId = <<>> THEN Garbage ELSE {Head(ourId)} :
    /\ lock = Free
    /\ idToInfo' = IF id \in DOMAIN idToInfo THEN idToInfo
                   ELSE Put(idToInfo, id, NewInfo(NoAddr, {}))
    /\ UNCHANGED <<nId, ipToId, qVars, goodId, banned, lock, tot, pc, ips, now>>

Tick ==
  /\ lock = Free /\ now < MaxTime
  /\ now' = now + 1
  /\ UNCHANGED <<dbVars, lock, tot, pc, ips>>
-----------------------------------------------------------------------------
Get_(c) ==
  \/ StartGet(c) \/ SkipFork(c) \/ ForkPassOver(c) \/ ForkHandOut(c)
  \/ PickUnk(c) \/ PickOur(c) \/ OurRefused(c)

ThreadCrawler(c) ==
  \/ StartGetMany(c) \/ Get_(c) \/ EndGetMany(c)
  \/ StartResultMany(c) \/ Good(c) \/ Bad(c)
  \/ AddGossip(c) \/ EndAdd(c)

Next ==
  \/ \E c \in Crawler : ThreadCrawler(c)
  \/ AddSeed
  \/ GetStats
  \/ Tick

Spec == Init /\ [][Next]_vars
(* The coin of the fork slice comes up again and again; every thread runs. *)
Fairness ==
  /\ \A c \in Crawler : WF_vars(ThreadCrawler(c))
  /\ SF_vars(\E c \in Crawler : ForkHandOut(c))

FairSpec == Spec /\ Fairness
-----------------------------------------------------------------------------
(* What the readers see: GetIPs_ (any of the answers its random choice can *)
(* give) and GetAll.                                                       *)

GetIPs_(flags, max, nets) ==
  LET serves(id) == id \in DOMAIN idToInfo /\ flags \subseteq idToInfo[id].services
      ipsOf(S) == {idToInfo[id].ip : id \in S}
      first == IF ourId # <<>> THEN {Head(ourId)}
               ELSE {id \in unkId : \A x \in unkId : id <= x}
      filtered == {id \in goodId : serves(id)}
      half == Cardinality(filtered) \div 2
      want == IF max > half THEN half ELSE max
      size == IF want < 1 THEN 1 ELSE want
  IN  IF goodId = {} THEN {ipsOf({id \in first : serves(id)})}
      ELSE IF filtered = {} THEN {{}}
      ELSE {ipsOf(S) \cap nets : S \in {T \in SUBSET filtered : Cardinality(T) = size}}
-----------------------------------------------------------------------------
(* Properties.                                                             *)

Known == DOMAIN ipToId

KnownIds == {ipToId[a] : a \in Known}

Held == UNION {Range(ips[c]) : c \in Crawler}

States == {"idle", "get", "loop", "pick", "test", "result", "add"}

TypeOK ==
  /\ nId \in 0..MaxId
  /\ DOMAIN idToInfo \subseteq Int /\ idToInfo \in [DOMAIN idToInfo -> Info]
  /\ ipToId \in [Known -> 0..nId - 1] /\ Known \subseteq Addr
  /\ ourId \in Seq(0..nId - 1) /\ forkId \in Seq(0..nId - 1)
  /\ unkId \subseteq 0..nId - 1 /\ inFlight \subseteq 0..nId - 1
  /\ goodId \subseteq 0..nId - 1
  /\ banned \in [DOMAIN banned -> Nat] /\ DOMAIN banned \subseteq Addr
  /\ lock \in Crawler \cup {Free}
  /\ tot \in Nat
  /\ pc \in [Crawler -> States]
  /\ ips \in [Crawler -> Seq(Addr)]
  /\ now \in Nat \ {0}

(* A thread is inside a method of CAddrDb only while it owns cs; a batch   *)
(* is empty exactly where ThreadCrawler has no nodes to test.              *)
ThreadsInOrder ==
  \A c \in Crawler :
    /\ pc[c] \in {"get", "loop", "pick", "result"} => lock = c
    /\ lock = c => pc[c] \in {"get", "loop", "pick", "result", "add"}
    /\ pc[c] \in {"idle", "add"} => ips[c] = <<>>
    /\ pc[c] \in {"test", "result"} => ips[c] # <<>>

(* ipToId and idToInfo agree, so two addresses never share an id.          *)
MapsAgree ==
  \A a \in Known : /\ ipToId[a] \in DOMAIN idToInfo
                   /\ idToInfo[ipToId[a]].ip = a

NoRepeat(q) == \A i, j \in DOMAIN q : q[i] = q[j] => i = j

(* The partition db.h:226-238 promises: each known node is in exactly one  *)
(* of unkId, ourId, forkId and inFlight, once, and they hold nothing else; *)
(* no banned id survives in a queue, none is queued twice, none is lost.   *)
OneSlot ==
  /\ NoRepeat(ourId) /\ NoRepeat(forkId)
  /\ unkId \cap Range(ourId) = {} /\ unkId \cap Range(forkId) = {}
  /\ unkId \cap inFlight = {} /\ Range(ourId) \cap Range(forkId) = {}
  /\ Range(ourId) \cap inFlight = {} /\ Range(forkId) \cap inFlight = {}
  /\ KnownIds = unkId \cup Range(ourId) \cup Range(forkId) \cup inFlight

(* inFlight (db.h:231-239) is exactly what the crawlers are testing: every *)
(* node in a batch is still known when its result is reported, no node is  *)
(* in two batches or twice in one, and nothing stays in inFlight for good. *)
InFlightIsHeld ==
  /\ Held \subseteq Known
  /\ inFlight = {ipToId[a] : a \in Held}
  /\ \A c \in Crawler : NoRepeat(ips[c])
  /\ \A c, d \in Crawler : c # d => Range(ips[c]) \cap Range(ips[d]) = {}

(* A banned address has no record: it cannot be handed out, served or      *)
(* written to the dump until Add_ lifts the ban.                           *)
BannedUnknown == DOMAIN banned \cap Known = {}

(* What is served and what takes the fork slice has answered at least once *)
(* and so carries the service bits of its own VERSION, not of gossip       *)
(* (db.cpp:129-137); what is in unkId has never been tried.                *)
Proven ==
  /\ goodId \subseteq KnownIds
  /\ \A id \in goodId \cap KnownIds : idToInfo[id].success > 0
  /\ \A id \in Range(forkId) : /\ idToInfo[id].success > 0
                               /\ "BLAKE2B" \in idToInfo[id].services
  /\ \A id \in unkId : /\ idToInfo[id].ourLastTry = 0
                       /\ idToInfo[id].ignoreTill = 0

(* ourId is in the order its nodes were tried, whichever crawler reports   *)
(* or postpones them: Get_ gives up when the front is too recent, and this *)
(* is what makes that right.                                               *)
OurIdByTry ==
  \A i, j \in DOMAIN ourId :
    i < j => idToInfo[ourId[i]].ourLastTry <= idToInfo[ourId[j]].ourLastTry

(* db.cpp:63-66: "ourId is a strict FIFO, so its front being too recent    *)
(* means the whole queue is too recent".                                   *)
FrontDecides ==
  ourId # <<>> /\ TooRecent(idToInfo[Head(ourId)])
    => \A id \in Range(ourId) : TooRecent(idToInfo[id])

(* Get_ computes tot once, before its retry loop: it still is the size of  *)
(* the two queues at every pass, so rand() % tot falls beyond unkId only   *)
(* when ourId has a front to read, and every queued node can be drawn.     *)
TotIsFresh ==
  \A c \in Crawler :
    pc[c] \in {"loop", "pick"} => tot = Cardinality(unkId) + Len(ourId)

(* A node the database knows is forgotten only by being banned, and keeps  *)
(* its id until then, whatever crawlers, gossip and the seeder do to it.   *)
ForgottenOnlyByBan ==
  [][\A a \in Known : IF a \in Known' THEN ipToId'[a] = ipToId[a]
                                      ELSE a \in DOMAIN banned']_vars

Due(id) == id \in DOMAIN idToInfo /\ ~TooRecent(idToInfo[id])

(* db.cpp:50-51: "forkId rotates those nodes independently so they keep    *)
(* being served": a fork node that is due is polled again.                 *)
ForkRotates ==
  \A a \in Addr :
    (a \in Known /\ ipToId[a] \in Range(forkId) /\ Due(ipToId[a]))
      ~> (a \in Known => ipToId[a] \in inFlight)

(* What the code does give: a due fork node is polled again provided the   *)
(* two other queues do not run dry for good, because Get_ returns before   *)
(* it looks at forkId when both are empty.                                 *)
ForkRotatesBesideOthers ==
  []<>(lock = Free /\ unkId = {} /\ ourId = <<>>) \/ ForkRotates

(* README:44 and main.cpp:357: a query is only ever answered with nodes    *)
(* that said themselves that they are BLAKE2b nodes.                       *)
OnlyForkServed ==
  \A ans \in GetIPs_({"BLAKE2B"}, Cardinality(Addr), Addr) :
    \A a \in ans : a \in Known /\ idToInfo[ipToId[a]].success > 0

(* db.cpp:58-60 and db.h:305-307: no default-constructed phantom records.  *)
NoPhantom == DOMAIN idToInfo = KnownIds
=============================================================================
