-------------------------- MODULE AddrDbLife_proofs --------------------------
(***************************************************************************)
(* AddrDb implements NodeLife, for any values of the constants: its initial *)
(* state is one of NodeLife's, and each of its steps is, under the mapping *)
(* of AddrDbLife, a step of NodeLife or no step at all.                    *)
(***************************************************************************)
EXTENDS AddrDbLife, AddrDb_proofs

-----------------------------------------------------------------------------
LEMMA InitLife == Init => Life!LifeInit
<1> SUFFICES ASSUME Init PROVE Life!LifeInit
  OBVIOUS
<1>1. Known = {} /\ DOMAIN banned = {} /\ now = 1
  BY DEF Init, NoMap, Known
<1>2. \A a \in Addr : StatusOf(a) = "unknown" /\ LastOf(a) = 0
  BY <1>1 DEF StatusOf, LastOf
<1>3. \A c \in Crawler : Range(ips[c]) = {}
  BY DEF Init, Range
<1>4. {a \in Known : ipToId[a] \in goodId} = {}
  BY <1>1
<1> QED
  BY <1>1, <1>2, <1>3, <1>4 DEF Life!LifeInit

(* Steps that only move ids between queues, or threads along, are not seen. *)
LEMMA Unseen ==
  ASSUME UNCHANGED <<ipToId, unkId, inFlight, goodId, ips, now>>,
         DOMAIN banned' = DOMAIN banned,
         \A a \in Known : idToInfo'[ipToId[a]].ourLastTry = idToInfo[ipToId[a]].ourLastTry
  PROVE  UNCHANGED Life!vars
<1>1. Known' = Known
  BY DEF Known
<1>2. \A a \in Addr : StatusOf(a)' = StatusOf(a) /\ LastOf(a)' = LastOf(a)
  BY <1>1 DEF StatusOf, LastOf
<1>3. [a \in Addr |-> StatusOf(a)]' = [a \in Addr |-> StatusOf(a)]
  BY <1>2
<1>4. [a \in Addr |-> LastOf(a)]' = [a \in Addr |-> LastOf(a)]
  BY <1>2
<1>5. [c \in Crawler |-> Range(ips[c])]' = [c \in Crawler |-> Range(ips[c])]
  OBVIOUS
<1>6. {a \in Known : ipToId[a] \in goodId}' = {a \in Known : ipToId[a] \in goodId}
  BY <1>1
<1> QED
  BY <1>3, <1>4, <1>5, <1>6 DEF Life!vars

(* Handing a node out takes it: it waited long enough, and one crawler     *)
(* holds it.                                                               *)
LEMMA TakeStep ==
  ASSUME IInv, NEW c \in Crawler, NEW id \in KnownIds, id \notin inFlight,
         HandOut(c, id), unkId' \in {unkId, unkId \ {id}},
         UNCHANGED <<idToInfo, ipToId, goodId, banned, now>>,
         id \in unkId \/ ~TooRecent(idToInfo[id])
  PROVE  Life!LifeNext
<1>0. PICK a : a = idToInfo[id].ip
  OBVIOUS
<1>1. /\ a \in Known /\ a \in Addr /\ ipToId[a] = id /\ idToInfo[id] \in Info
      /\ \A b \in Known : b # a => ipToId[b] # id
  BY <1>0, Correspond
<1>2. /\ ips \in [Crawler -> Seq(Addr)] /\ now \in Nat /\ MinRetry \in Nat
      /\ inFlight' = inFlight \cup {id} /\ ips' = [ips EXCEPT ![c] = Append(ips[c], a)]
  BY <1>0, NumberAssumption DEF HandOut, IInv, TypeOK
<1>3. idToInfo[id].ourLastTry \in Nat
  BY <1>1 DEF Info
<1>4. Known' = Known
  BY DEF Known
<1>5. Life!Waited(a)
  <2>1. LastOf(a) = idToInfo[id].ourLastTry
    BY <1>1 DEF LastOf
  <2>2. StatusOf(a) = IF id \in unkId THEN "untried" ELSE "tried"
    BY <1>1 DEF StatusOf
  <2>3. ~TooRecent(idToInfo[id]) => now - idToInfo[id].ourLastTry >= MinRetry
    BY <1>2, <1>3 DEF TooRecent
  <2> QED
    BY <1>1, <2>1, <2>2, <2>3 DEF Life!Waited
<1>6. /\ StatusOf(a)' = "testing"
      /\ \A b \in Addr \ {a} : StatusOf(b)' = StatusOf(b)
  BY <1>1, <1>2, <1>4 DEF StatusOf
<1>7. [b \in Addr |-> StatusOf(b)]' = [[b \in Addr |-> StatusOf(b)] EXCEPT ![a] = "testing"]
  BY <1>1, <1>6
<1>8. [d \in Crawler |-> Range(ips[d])]'
        = [[d \in Crawler |-> Range(ips[d])] EXCEPT ![c] = @ \cup {a}]
  <2>1. Range(Append(ips[c], a)) = Range(ips[c]) \cup {a}
    BY <1>1, <1>2, Pushed
  <2> QED
    BY <1>2, <2>1
<1>9. [b \in Addr |-> LastOf(b)]' = [b \in Addr |-> LastOf(b)]
  BY <1>4 DEF LastOf
<1>10. {b \in Known : ipToId[b] \in goodId}' = {b \in Known : ipToId[b] \in goodId}
  BY <1>4
<1>11. Life!Take(c, a)
  BY <1>5, <1>7, <1>8, <1>9, <1>10 DEF Life!Take
<1> QED
  BY <1>1, <1>11 DEF Life!LifeNext

(* Reporting a node takes it from the crawler that held it.                *)
LEMMA HeldShrinks ==
  ASSUME IInv, NEW c \in Crawler, Reported(c), NEW a, a = Head(ips[c])
  PROVE  /\ a \in Range(ips[c])
         /\ [d \in Crawler |-> Range(ips[d])]'
              = [[d \in Crawler |-> Range(ips[d])] EXCEPT ![c] = @ \ {a}]
<1>1. /\ ips' = [ips EXCEPT ![c] = Tail(ips[c])] /\ ips \in [Crawler -> Seq(Addr)]
      /\ ips[c] # <<>> /\ NoRepeat(ips[c])
  BY DEF Reported, Inside, IInv, TypeOK, ThreadsInOrder, InFlightIsHeld
<1>2. a \in Range(ips[c]) /\ Range(Tail(ips[c])) = Range(ips[c]) \ {a}
  BY <1>1, Popped
<1> QED
  BY <1>1, <1>2

(* A reported node, unless it is banned, is settled as tried.              *)
LEMMA SettleTried ==
  ASSUME IInv, NEW c \in Crawler, Reported(c), NEW a, a = Head(ips[c]),
         NEW id, id = ipToId[a], NEW info, info.ourLastTry = now,
         unkId' = unkId \ {id}, inFlight' = inFlight \ {id},
         goodId' \in {goodId, goodId \cup {id}, goodId \ {id}},
         idToInfo' = [idToInfo EXCEPT ![id] = info],
         DOMAIN banned' \subseteq DOMAIN banned, UNCHANGED ipToId,
         \A b \in DOMAIN banned : b \in DOMAIN banned' \/ b \in Known
  PROVE  Life!LifeNext
<1>1. /\ a \in Known /\ a \in Addr /\ id \in inFlight /\ id \in KnownIds
      /\ id \notin unkId /\ ips \in [Crawler -> Seq(Addr)] /\ now' = now
      /\ \A b \in Known : b # a => ipToId[b] # id
      /\ \A b \in Known : ipToId[b] \in DOMAIN idToInfo
  BY ReportedNode, Correspond DEF Reported, IInv, TypeOK
<1>2. Known' = Known
  BY DEF Known
<1>3. StatusOf(a) = "testing" /\ StatusOf(a)' = "tried"
  BY <1>1, <1>2 DEF StatusOf
<1>4. \A b \in Addr \ {a} : StatusOf(b)' = StatusOf(b)
  BY <1>1, <1>2 DEF StatusOf
<1>5. [b \in Addr |-> StatusOf(b)]' = [[b \in Addr |-> StatusOf(b)] EXCEPT ![a] = "tried"]
  BY <1>1, <1>3, <1>4
<1>6. LastOf(a)' = now /\ \A b \in Addr \ {a} : LastOf(b)' = LastOf(b)
  BY <1>1, <1>2 DEF LastOf
<1>7. [b \in Addr |-> LastOf(b)]' = [[b \in Addr |-> LastOf(b)] EXCEPT ![a] = now]
  BY <1>1, <1>6
<1>8. /\ a \in Range(ips[c])
      /\ [d \in Crawler |-> Range(ips[d])]'
           = [[d \in Crawler |-> Range(ips[d])] EXCEPT ![c] = @ \ {a}]
  BY HeldShrinks
<1>9. \/ {b \in Known : ipToId[b] \in goodId}' = {b \in Known : ipToId[b] \in goodId}
      \/ {b \in Known : ipToId[b] \in goodId}' = {b \in Known : ipToId[b] \in goodId} \cup {a}
      \/ {b \in Known : ipToId[b] \in goodId}' = {b \in Known : ipToId[b] \in goodId} \ {a}
  BY <1>1, <1>2
<1>10. Life!Settle(c, a)
  BY <1>1, <1>3, <1>5, <1>7, <1>8, <1>9 DEF Life!Settle
<1> QED
  BY <1>1, <1>10 DEF Life!LifeNext

(* A ban settles the node as banned and takes it off the list.             *)
LEMMA SettleBanned ==
  ASSUME IInv, NEW c \in Crawler, Reported(c), NEW a, a = Head(ips[c]),
         NEW id, id = ipToId[a], NEW until,
         unkId' = unkId \ {id}, inFlight' = inFlight \ {id}, goodId' = goodId \ {id},
         banned' = Put(banned, a, until), ipToId' = Drop(ipToId, a),
         idToInfo' = Drop(idToInfo, id)
  PROVE  Life!LifeNext
<1>1. /\ a \in Known /\ a \in Addr /\ id \in inFlight /\ id \in KnownIds
      /\ id \notin unkId /\ ips \in [Crawler -> Seq(Addr)] /\ now' = now
      /\ \A b \in Known : b # a => ipToId[b] # id
      /\ \A b \in Known : ipToId[b] \in DOMAIN idToInfo
  BY ReportedNode, Correspond DEF Reported, IInv, TypeOK
<1>2. /\ Known' = Known \ {a} /\ \A b \in Known' : ipToId'[b] = ipToId[b]
      /\ DOMAIN banned' = DOMAIN banned \cup {a}
      /\ \A x \in DOMAIN idToInfo \ {id} : idToInfo'[x] = idToInfo[x]
  BY DEF Known, Drop, Put, Restrict
<1>3. StatusOf(a) = "testing" /\ StatusOf(a)' = "banned"
  BY <1>1, <1>2 DEF StatusOf
<1>4. \A b \in Addr \ {a} : StatusOf(b)' = StatusOf(b)
  BY <1>1, <1>2 DEF StatusOf
<1>5. [b \in Addr |-> StatusOf(b)]' = [[b \in Addr |-> StatusOf(b)] EXCEPT ![a] = "banned"]
  BY <1>1, <1>3, <1>4
<1>6. LastOf(a)' = 0 /\ \A b \in Addr \ {a} : LastOf(b)' = LastOf(b)
  BY <1>1, <1>2 DEF LastOf
<1>7. [b \in Addr |-> LastOf(b)]' = [[b \in Addr |-> LastOf(b)] EXCEPT ![a] = 0]
  BY <1>1, <1>6
<1>8. /\ a \in Range(ips[c])
      /\ [d \in Crawler |-> Range(ips[d])]'
           = [[d \in Crawler |-> Range(ips[d])] EXCEPT ![c] = @ \ {a}]
  BY HeldShrinks
<1>9. {b \in Known : ipToId[b] \in goodId}' = {b \in Known : ipToId[b] \in goodId} \ {a}
  BY <1>1, <1>2
<1>10. Life!Settle(c, a)
  BY <1>1, <1>3, <1>5, <1>7, <1>8, <1>9 DEF Life!Settle
<1> QED
  BY <1>1, <1>10 DEF Life!LifeNext

LEMMA GoodSettles ==
  ASSUME IInv, NEW c \in Crawler, Good(c)
  PROVE  Life!LifeNext
<1>0. PICK a, id : a = Head(ips[c]) /\ id = ipToId[a]
  OBVIOUS
<1>1. PICK hello \in Hellos, v \in Verdicts : Reported(c) /\ Good_(a, hello, v)
  BY <1>0 DEF Good
<1> DEFINE said == [idToInfo[id] EXCEPT !.services = hello.services,
                                        !.fit = hello.fit, !.ancient = hello.ancient]
           info == Update(said, TRUE, v)
<1>2. a \in Known /\ idToInfo[id] \in Info /\ now \in Nat
  BY <1>0, <1>1, ReportedNode DEF IInv, TypeOK
<1>3. said \in Info
  BY <1>2, DataAssumption DEF Info
<1>4. info.ourLastTry = now
  BY <1>2, <1>3, Updated
<1>5. /\ unkId' = unkId \ {id} /\ inFlight' = inFlight \ {id}
      /\ banned' = Drop(banned, a)
      /\ idToInfo' = [idToInfo EXCEPT ![id] = info]
      /\ goodId' = IF IsGood(info) THEN goodId \cup {id} ELSE goodId
      /\ UNCHANGED ipToId
  BY <1>0, <1>1, <1>2 DEF Good_, Finished, Known
<1> HIDE DEF info
<1>6. DOMAIN banned' = DOMAIN banned \ {a}
  BY <1>5, Lifted
<1> QED
  BY <1>0, <1>1, <1>2, <1>4, <1>5, <1>6, SettleTried

LEMMA BadSettles ==
  ASSUME IInv, NEW c \in Crawler, Bad(c)
  PROVE  Life!LifeNext
<1>0. PICK a, id : a = Head(ips[c]) /\ id = ipToId[a]
  OBVIOUS
<1>1. PICK ban \in {0, NodeBan}, v \in Verdicts : Reported(c) /\ Bad_(a, ban, v)
  BY <1>0 DEF Bad
<1> DEFINE info == Update(idToInfo[id], FALSE, v)
<1>2. /\ a \in Known /\ idToInfo[id] \in Info /\ idToInfo[id].ip = a /\ now \in Nat
  BY <1>0, <1>1, ReportedNode DEF IInv, TypeOK
<1>3. info.ourLastTry = now /\ info.ip = a
  BY <1>2, Updated
<1>4. /\ unkId' = unkId \ {id} /\ inFlight' = inFlight \ {id} /\ goodId' = goodId \ {id}
      /\ \/ \E until : /\ banned' = Put(banned, info.ip, until)
                       /\ ipToId' = Drop(ipToId, info.ip) /\ idToInfo' = Drop(idToInfo, id)
         \/ /\ idToInfo' = [idToInfo EXCEPT ![id] = info]
            /\ UNCHANGED <<banned, ipToId>>
  BY <1>0, <1>1, <1>2 DEF Bad_, Finished, Forget, Known
<1> HIDE DEF info
<1> QED
  BY <1>0, <1>1, <1>3, <1>4, SettleTried, SettleBanned

-----------------------------------------------------------------------------
(* Adding a node that is known is not seen; a new or pardoned one is       *)
(* learnt.                                                                 *)
LEMMA AddLearns ==
  ASSUME IInv, NEW a \in Addr, NEW services, NEW nTime, NEW force,
         Add_(a, services, nTime, force), UNCHANGED <<ips, now>>
  PROVE  Life!LifeNext \/ UNCHANGED Life!vars
<1> DEFINE info == NewInfo(a, services)
<1>1. /\ nId \notin KnownIds /\ inFlight \subseteq KnownIds /\ goodId \subseteq KnownIds
      /\ \A b \in Known : ipToId[b] \in KnownIds /\ ipToId[b] \in DOMAIN idToInfo
      /\ idToInfo \in [DOMAIN idToInfo -> Info]
  BY Correspond DEF IInv, Proven, TypeOK
<1>2. CASE UNCHANGED dbVars
  BY <1>2, Unseen DEF dbVars, qVars
<1>3. CASE ~UNCHANGED dbVars /\ a \in Known
  <2>1. /\ UNCHANGED <<ipToId, unkId, inFlight, goodId>> /\ banned' = banned
        /\ \/ idToInfo' = idToInfo
           \/ idToInfo' = [idToInfo EXCEPT ![ipToId[a]].ignoreTill = 0]
    BY <1>3 DEF Add_, Enter, Known, IInv, BannedUnknown
  <2>2. PICK id : id = ipToId[a]
    OBVIOUS
  <2>3. PICK r : r = [idToInfo[id] EXCEPT !.ignoreTill = 0]
    OBVIOUS
  <2>4. id \in DOMAIN idToInfo /\ r.ourLastTry = idToInfo[id].ourLastTry
    BY <1>1, <1>3, <2>2, <2>3 DEF Info
  <2>5. idToInfo' = idToInfo \/ idToInfo' = [idToInfo EXCEPT ![id] = r]
    BY <2>1, <2>2, <2>3
  <2>6. \A b \in Known : idToInfo'[ipToId[b]].ourLastTry = idToInfo[ipToId[b]].ourLastTry
    BY <1>1, <2>4, <2>5
  <2> QED
    BY <2>1, <2>6, Unseen
<1>4. CASE ~UNCHANGED dbVars /\ a \notin Known
  <2>1. /\ idToInfo' = Put(idToInfo, nId, info) /\ ipToId' = Put(ipToId, a, nId)
        /\ unkId' = unkId \cup {nId} /\ UNCHANGED <<inFlight, goodId>>
        /\ \/ banned' = banned /\ a \notin DOMAIN banned
           \/ banned' = Drop(banned, a)
    BY <1>4 DEF Add_, Enter, Known
  <2>2. DOMAIN banned' = DOMAIN banned \ {a}
    BY <2>1, Lifted
  <2>3. /\ Known' = Known \cup {a} /\ ipToId'[a] = nId
        /\ \A b \in Known : ipToId'[b] = ipToId[b]
        /\ idToInfo'[nId] = info
        /\ \A x \in DOMAIN idToInfo \ {nId} : idToInfo'[x] = idToInfo[x]
    BY <1>4, <2>1 DEF Put, Known
  <2>4. info.ourLastTry = 0
    BY DEF NewInfo
  <2> HIDE DEF info
  <2>5. StatusOf(a) \in {"unknown", "banned"} /\ StatusOf(a)' = "untried"
    BY <1>1, <1>4, <2>1, <2>3 DEF StatusOf
  <2>6. \A b \in Addr \ {a} : StatusOf(b)' = StatusOf(b)
    BY <1>1, <2>1, <2>2, <2>3 DEF StatusOf
  <2>7. [b \in Addr |-> StatusOf(b)]' = [[b \in Addr |-> StatusOf(b)] EXCEPT ![a] = "untried"]
    BY <2>5, <2>6
  <2>8. \A b \in Addr : LastOf(b)' = LastOf(b)
    BY <1>1, <1>4, <2>3, <2>4 DEF LastOf
  <2>9. [b \in Addr |-> LastOf(b)]' = [b \in Addr |-> LastOf(b)]
    BY <2>8
  <2>10. {b \in Known : ipToId[b] \in goodId}' = {b \in Known : ipToId[b] \in goodId}
    BY <1>1, <2>1, <2>3
  <2>11. [d \in Crawler |-> Range(ips[d])]' = [d \in Crawler |-> Range(ips[d])]
    OBVIOUS
  <2>12. Life!Learn(a)
    BY <2>5, <2>7, <2>9, <2>10, <2>11 DEF Life!Learn
  <2> QED
    BY <2>12 DEF Life!LifeNext
<1> QED
  BY <1>2, <1>3, <1>4

-----------------------------------------------------------------------------
(* An ignored node at the front of ourId goes to its back: it is postponed. *)
LEMMA Postponed ==
  ASSUME IInv, NEW id \in KnownIds, id \notin inFlight, id \notin unkId,
         ~TooRecent(idToInfo[id]), idToInfo' = [idToInfo EXCEPT ![id].ourLastTry = now],
         UNCHANGED <<ipToId, unkId, inFlight, goodId, banned, ips, now>>
  PROVE  Life!LifeNext
<1>0. PICK a : a = idToInfo[id].ip
  OBVIOUS
<1>1. /\ a \in Known /\ a \in Addr /\ ipToId[a] = id /\ idToInfo[id] \in Info
      /\ now \in Nat /\ MinRetry \in Nat /\ id \in DOMAIN idToInfo
      /\ idToInfo \in [DOMAIN idToInfo -> Info]
      /\ \A b \in Known : ipToId[b] \in DOMAIN idToInfo /\ (b # a => ipToId[b] # id)
  BY <1>0, Correspond, NumberAssumption DEF IInv, TypeOK
<1>2. Known' = Known
  BY DEF Known
<1>3. /\ idToInfo'[id].ourLastTry = now
      /\ \A x \in DOMAIN idToInfo \ {id} : idToInfo'[x] = idToInfo[x]
  BY <1>1, Retried
<1>4. LastOf(a) = idToInfo[id].ourLastTry /\ LastOf(a) \in Nat /\ StatusOf(a) = "tried"
  BY <1>1 DEF LastOf, StatusOf, Info
<1>5. now - LastOf(a) >= MinRetry
  BY <1>1, <1>4 DEF TooRecent
<1>6. \A b \in Addr : StatusOf(b)' = StatusOf(b)
  BY <1>2 DEF StatusOf
<1>7. [b \in Addr |-> StatusOf(b)]' = [b \in Addr |-> StatusOf(b)]
  BY <1>6
<1>8. LastOf(a)' = now /\ \A b \in Addr \ {a} : LastOf(b)' = LastOf(b)
  BY <1>1, <1>2, <1>3 DEF LastOf
<1>9. [b \in Addr |-> LastOf(b)]' = [[b \in Addr |-> LastOf(b)] EXCEPT ![a] = now]
  BY <1>1, <1>8
<1>10. {b \in Known : ipToId[b] \in goodId}' = {b \in Known : ipToId[b] \in goodId}
  BY <1>2
<1>11. [d \in Crawler |-> Range(ips[d])]' = [d \in Crawler |-> Range(ips[d])]
  OBVIOUS
<1>12. Life!Postpone(a)
  BY <1>1, <1>4, <1>5, <1>7, <1>9, <1>10, <1>11 DEF Life!Postpone, Life!Waited
<1> QED
  BY <1>1, <1>12 DEF Life!LifeNext

LEMMA GetLife ==
  ASSUME IInv, NEW c \in Crawler, Get_(c)
  PROVE  Life!LifeNext \/ UNCHANGED Life!vars
<1>1. CASE StartGet(c) \/ SkipFork(c)
  BY <1>1, Unseen DEF StartGet, SkipFork, dbVars, qVars
<1>2. CASE ForkPassOver(c)
  BY <1>2, Unseen DEF ForkPassOver
<1>3. CASE OurRefused(c)
  BY <1>3, Unseen DEF OurRefused, ReturnBatch
<1>4. CASE ForkHandOut(c)
  <2>1. PICK id \in Range(forkId) :
          /\ ~TooRecent(idToInfo[id]) /\ HandOut(c, id)
          /\ UNCHANGED <<idToInfo, ipToId, unkId, goodId, banned, now>>
    BY <1>4 DEF ForkHandOut
  <2>2. id \in KnownIds /\ id \notin inFlight
    BY <2>1, Correspond DEF IInv, OneSlot
  <2> QED
    BY <2>1, <2>2, TakeStep
<1>5. CASE PickUnk(c)
  <2>1. PICK id \in unkId : /\ unkId' = unkId \ {id} /\ Offer(c, id, ourId)
                            /\ UNCHANGED <<ipToId, goodId, banned, now>>
    BY <1>5 DEF PickUnk
  <2>2. id \in KnownIds /\ id \notin inFlight /\ HandOut(c, id) /\ idToInfo' = idToInfo
    BY <2>1, Correspond DEF IInv, OneSlot, Proven, Offer
  <2> QED
    BY <2>1, <2>2, TakeStep
<1>6. CASE PickOur(c)
  <2>1. PICK id \in Range(ourId) :
          /\ ~TooRecent(idToInfo[id]) /\ Offer(c, id, Tail(ourId))
          /\ UNCHANGED <<ipToId, unkId, goodId, banned, now>>
    BY <1>6 DEF PickOur
  <2>2. id \in KnownIds /\ id \notin inFlight /\ id \notin unkId
    BY <2>1, Correspond DEF IInv, OneSlot
  <2>3. CASE HandOut(c, id) /\ idToInfo' = idToInfo
    BY <2>1, <2>2, <2>3, TakeStep
  <2>4. CASE /\ idToInfo' = [idToInfo EXCEPT ![id].ourLastTry = now]
             /\ UNCHANGED <<inFlight, ips>>
    BY <2>1, <2>2, <2>4, Postponed
  <2> QED
    BY <2>1, <2>3, <2>4 DEF Offer
<1> QED
  BY <1>1, <1>2, <1>3, <1>4, <1>5, <1>6 DEF Get_

(* The blank record of GetStats belongs to no address.                     *)
LEMMA StatsLife ==
  ASSUME IInv, GetStats
  PROVE  UNCHANGED Life!vars
<1>1. \A a \in Known : ipToId[a] \in DOMAIN idToInfo
  BY DEF IInv, MapsAgree
<1>2. \A x \in DOMAIN idToInfo : idToInfo'[x] = idToInfo[x]
  BY DEF GetStats, Put
<1> QED
  BY <1>1, <1>2, Unseen DEF GetStats, qVars

LEMMA TickLife ==
  ASSUME Tick
  PROVE  Life!LifeNext
<1>1. UNCHANGED <<ipToId, unkId, inFlight, goodId, banned, ips, idToInfo>> /\ now' = now + 1
  BY DEF Tick, dbVars, qVars
<1>2. Known' = Known
  BY <1>1 DEF Known
<1>3. \A a \in Addr : StatusOf(a)' = StatusOf(a) /\ LastOf(a)' = LastOf(a)
  BY <1>1, <1>2 DEF StatusOf, LastOf
<1>4. Life!Pass
  BY <1>1, <1>2, <1>3 DEF Life!Pass
<1> QED
  BY <1>4 DEF Life!LifeNext

LEMMA StepLife ==
  ASSUME IInv, [Next]_vars
  PROVE  [Life!LifeNext]_(Life!vars)
<1>1. ASSUME NEW c \in Crawler, ThreadCrawler(c)
      PROVE  Life!LifeNext \/ UNCHANGED Life!vars
  <2>1. CASE StartGetMany(c) \/ EndGetMany(c) \/ StartResultMany(c) \/ EndAdd(c)
    BY <2>1, Unseen
    DEF StartGetMany, EndGetMany, ReturnBatch, StartResultMany, EndAdd, dbVars, qVars
  <2>2. CASE AddGossip(c)
    BY <2>2, AddLearns DEF AddGossip
  <2> QED
    BY <1>1, <2>1, <2>2, GetLife, GoodSettles, BadSettles DEF ThreadCrawler
<1>2. CASE AddSeed
  BY <1>2, AddLearns, AddrAssumption DEF AddSeed
<1>3. CASE GetStats
  BY <1>3, StatsLife
<1>4. CASE Tick
  BY <1>4, TickLife
<1>5. CASE UNCHANGED vars
  BY <1>5, Unseen DEF vars, dbVars, qVars
<1> QED
  BY <1>1, <1>2, <1>3, <1>4, <1>5 DEF Next

(* The database keeps NodeLife's promises to every address: one crawler at *)
(* a time tests it, never twice within MinRetry, and it enters or leaves   *)
(* the served list only by a report of its own test.                       *)
THEOREM Implementation == Spec => ImplementsLife
<1>1. Init => Life!LifeInit
  BY InitLife
<1>2. IInv /\ [Next]_vars => [Life!LifeNext]_(Life!vars)
  BY StepLife
<1> QED
  BY <1>1, <1>2, Inductive, PTL DEF Spec, ImplementsLife, Life!LifeSpec
=============================================================================
