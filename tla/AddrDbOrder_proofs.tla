------------------------- MODULE AddrDbOrder_proofs -------------------------
(***************************************************************************)
(* Proofs about what the steps of AddrDb do over time: the order of ourId, *)
(* and how a node is forgotten.                                            *)
(***************************************************************************)
EXTENDS AddrDb_proofs

-----------------------------------------------------------------------------
(* Forgetting.                                                             *)

(* Only Bad_ takes an address out of ipToId, and it bans it first.         *)
LEMMA ForgetStep ==
  ASSUME [Next]_vars
  PROVE  \A a \in Known : IF a \in Known' THEN ipToId'[a] = ipToId[a]
                                          ELSE a \in DOMAIN banned'
<1> DEFINE Kept == \A a \in Known : IF a \in Known' THEN ipToId'[a] = ipToId[a]
                                                    ELSE a \in DOMAIN banned'
<1>1. ipToId' = ipToId => Kept
  BY DEF Known
<1>2. ASSUME NEW a, NEW ban, NEW v, Bad_(a, ban, v) PROVE Kept
  <2>1. \/ ipToId' = ipToId
        \/ \E k, t : ipToId' = Drop(ipToId, k) /\ banned' = Put(banned, k, t)
    BY <1>2 DEF Bad_, Finished, Forget, dbVars
  <2> QED
    BY <1>1, <2>1 DEF Drop, Put, Restrict, Known
<1>3. ASSUME NEW a, NEW services, NEW nTime, NEW force, Add_(a, services, nTime, force)
      PROVE  Kept
  <2>1. \/ ipToId' = ipToId
        \/ a \notin Known /\ \E id : ipToId' = Put(ipToId, a, id)
    BY <1>3 DEF Add_, Enter, dbVars, Known
  <2> QED
    BY <1>1, <2>1 DEF Put, Known
<1>4. ASSUME NEW c \in Crawler, ThreadCrawler(c) PROVE Kept
  <2>1. CASE Bad(c)
    BY <1>2, <2>1 DEF Bad
  <2>2. CASE Good(c)
    BY <1>1, <2>2 DEF Good, Good_, dbVars
  <2>3. CASE AddGossip(c)
    BY <1>3, <2>3 DEF AddGossip
  <2>4. CASE Get_(c)
    BY <1>1, <2>4 DEF Get_, StartGet, SkipFork, ForkPassOver, ForkHandOut, PickUnk, PickOur,
                      OurRefused, dbVars
  <2>5. CASE StartGetMany(c) \/ EndGetMany(c) \/ StartResultMany(c) \/ EndAdd(c)
    BY <1>1, <2>5 DEF StartGetMany, EndGetMany, StartResultMany, EndAdd, dbVars
  <2> QED
    BY <1>4, <2>1, <2>2, <2>3, <2>4, <2>5 DEF ThreadCrawler
<1>5. CASE AddSeed
  BY <1>3, <1>5 DEF AddSeed
<1>6. CASE GetStats \/ Tick \/ UNCHANGED vars
  BY <1>1, <1>6 DEF GetStats, Tick, dbVars, vars
<1> QED
  BY <1>4, <1>5, <1>6 DEF Next

(* A known node keeps its id until a ban forgets it, whatever is added,    *)
(* reported or rotated meanwhile (db.cpp:176-258).                         *)
THEOREM OnlyBansForget == Spec => ForgottenOnlyByBan
  BY ForgetStep, PTL DEF Spec, ForgottenOnlyByBan

-----------------------------------------------------------------------------
(* Order of trying.                                                        *)

(* No record was tried after the present second.                           *)
Timely == \A x \in DOMAIN idToInfo : idToInfo[x].ourLastTry <= now

LastTryKept(S) ==
  \A x \in S : x \in DOMAIN idToInfo' /\ idToInfo'[x].ourLastTry = idToInfo[x].ourLastTry

(* A step leaves ourId or takes its front, then at most pushes one node    *)
(* that was tried in this very second; no queued node's time changes.      *)
Turn(r) ==
  /\ r = ourId \/ (ourId # <<>> /\ r = Tail(ourId))
  /\ LastTryKept(Range(r))
  /\ \/ ourId' = r
     \/ \E id : ourId' = Append(r, id) /\ idToInfo'[id].ourLastTry = now

Clocked ==
  /\ now' \in Nat /\ now <= now'
  /\ \A x \in DOMAIN idToInfo' :
       \/ x \in DOMAIN idToInfo /\ idToInfo'[x].ourLastTry = idToInfo[x].ourLastTry
       \/ idToInfo'[x].ourLastTry \in {0, now}

(* A queue is a queue over whatever set holds all its elements.            *)
LEMMA SeqNarrows ==
  ASSUME NEW S, NEW T, NEW q \in Seq(T), Range(q) \subseteq S
  PROVE  q \in Seq(S)
<1>1. Len(q) \in Nat /\ q = [i \in 1..Len(q) |-> q[i]]
  OBVIOUS
<1>2. \A i \in 1..Len(q) : q[i] \in S
  BY DEF Range
<1> QED
  BY <1>1, <1>2

(* Such a step keeps ourId in order.                                       *)
LEMMA TurnKeepsOrder ==
  ASSUME IInv, Timely, OurIdByTry, NEW r, Turn(r)
  PROVE  OurIdByTry'
<1> DEFINE S == DOMAIN idToInfo
           t(x) == idToInfo[x].ourLastTry
<1>1. /\ ourId \in Seq(S) /\ now \in Nat
      /\ \A x \in S : t(x) \in Nat /\ t(x) <= now
  <2>1. Range(ourId) \subseteq S /\ \A x \in S : idToInfo[x] \in Info
    BY Correspond DEF IInv, TypeOK
  <2>2. ourId \in Seq(0..nId - 1) /\ now \in Nat
    BY DEF IInv, TypeOK
  <2>3. ourId \in Seq(S)
    <3> DEFINE T == 0..nId - 1
    <3>1. ourId \in Seq(T)
      BY <2>2
    <3> HIDE DEF S, T
    <3> QED
      BY <2>1, <3>1, SeqNarrows
  <2> QED
    BY <2>1, <2>2, <2>3 DEF Timely, Info
<1> HIDE DEF S
<1>2. r \in Seq(S) /\ \A i, j \in DOMAIN r : i < j => t(r[i]) <= t(r[j])
  <2>1. CASE r = ourId
    BY <1>1, <2>1 DEF OurIdByTry
  <2>2. CASE ourId # <<>> /\ r = Tail(ourId)
    <3>1. /\ r \in Seq(S) /\ DOMAIN r = 1..Len(ourId) - 1 /\ DOMAIN ourId = 1..Len(ourId)
          /\ \A i \in DOMAIN r : r[i] = ourId[i + 1]
      BY <1>1, <2>2
    <3>2. ASSUME NEW i \in DOMAIN r, NEW j \in DOMAIN r, i < j PROVE t(r[i]) <= t(r[j])
      <4>1. i + 1 \in DOMAIN ourId /\ j + 1 \in DOMAIN ourId /\ i + 1 < j + 1
        BY <1>1, <3>1, <3>2
      <4>2. t(ourId[i + 1]) <= t(ourId[j + 1])
        BY <4>1 DEF OurIdByTry
      <4> QED
        BY <3>1, <4>2
    <3> QED
      BY <3>1, <3>2
  <2> QED
    BY <2>1, <2>2 DEF Turn
<1>3. \A i \in DOMAIN r : r[i] \in Range(r) /\ r[i] \in S
  BY <1>2 DEF Range
<1>4. \A i \in DOMAIN r : idToInfo'[r[i]].ourLastTry = t(r[i])
  BY <1>3 DEF Turn, LastTryKept
<1> HIDE DEF t
<1>5. CASE ourId' = r
  BY <1>2, <1>4, <1>5 DEF OurIdByTry
<1>6. ASSUME NEW id, ourId' = Append(r, id), idToInfo'[id].ourLastTry = now
      PROVE  OurIdByTry'
  <2>1. /\ DOMAIN ourId' = 1..Len(r) + 1 /\ DOMAIN r = 1..Len(r) /\ Len(r) \in Nat
        /\ \A i \in 1..Len(r) : ourId'[i] = r[i]
        /\ ourId'[Len(r) + 1] = id
    BY <1>2, <1>6
  <2>2. \A i \in DOMAIN r : t(r[i]) <= now
    BY <1>1, <1>3
  <2> QED
    BY <1>2, <1>4, <1>6, <2>1, <2>2 DEF OurIdByTry
<1> QED
  BY <1>5, <1>6 DEF Turn

(* Most steps touch neither the records nor ourId.                         *)
LEMMA Unturned ==
  ASSUME IInv, UNCHANGED <<idToInfo, ourId>>, now' \in {now, now + 1}
  PROVE  Clocked /\ Turn(ourId)
<1>1. now \in Nat /\ Range(ourId) \subseteq DOMAIN idToInfo
  BY Correspond DEF IInv, TypeOK
<1> QED
  BY <1>1 DEF Clocked, Turn, LastTryKept

LEMMA OfferTurns ==
  ASSUME IInv, NEW c, NEW id \in KnownIds, NEW rest, Offer(c, id, rest), UNCHANGED now,
         id \notin Range(rest), Range(rest) \subseteq Range(ourId),
         rest = ourId \/ (ourId # <<>> /\ rest = Tail(ourId))
  PROVE  Clocked /\ Turn(rest)
<1>1. /\ now \in Nat /\ id \in DOMAIN idToInfo /\ Range(ourId) \subseteq DOMAIN idToInfo
      /\ idToInfo \in [DOMAIN idToInfo -> Info]
  BY Correspond DEF IInv, TypeOK
<1>2. CASE idToInfo[id].ignoreTill # 0 /\ idToInfo[id].ignoreTill < now
  <2>1. ourId' = Append(rest, id) /\ idToInfo' = [idToInfo EXCEPT ![id].ourLastTry = now]
    BY <1>2 DEF Offer
  <2>2. /\ DOMAIN idToInfo' = DOMAIN idToInfo /\ idToInfo'[id].ourLastTry = now
        /\ \A x \in DOMAIN idToInfo \ {id} : idToInfo'[x] = idToInfo[x]
    BY <1>1, <2>1, Retried
  <2> QED
    BY <1>1, <2>1, <2>2 DEF Clocked, Turn, LastTryKept
<1>3. CASE ~(idToInfo[id].ignoreTill # 0 /\ idToInfo[id].ignoreTill < now)
  <2>1. ourId' = rest /\ idToInfo' = idToInfo
    BY <1>3 DEF Offer
  <2> QED
    BY <1>1, <2>1 DEF Clocked, Turn, LastTryKept
<1> QED
  BY <1>2, <1>3

LEMMA GetTurns ==
  ASSUME IInv, NEW c \in Crawler, Get_(c)
  PROVE  Clocked /\ \E r : Turn(r)
<1>1. CASE StartGet(c) \/ SkipFork(c) \/ ForkPassOver(c) \/ ForkHandOut(c)
  <2>1. UNCHANGED <<idToInfo, ourId, now>>
    BY <1>1 DEF StartGet, SkipFork, ForkPassOver, ForkHandOut, dbVars, qVars
  <2> QED
    BY <2>1, Unturned
<1>2. CASE PickUnk(c)
  <2>1. PICK id \in unkId : Offer(c, id, ourId) /\ UNCHANGED now
    BY <1>2 DEF PickUnk
  <2>2. id \in KnownIds /\ id \notin Range(ourId)
    BY <2>1, Correspond DEF IInv, OneSlot
  <2> QED
    BY <2>1, <2>2, OfferTurns
<1>3. CASE PickOur(c)
  <2>1. PICK id \in Range(ourId) : /\ ourId # <<>> /\ id = Head(ourId)
                                   /\ Offer(c, id, Tail(ourId)) /\ UNCHANGED now
    BY <1>3 DEF PickOur, OurSlice
  <2>2. id \in KnownIds
    BY <2>1, Correspond
  <2>3. ourId \in Seq(0..nId - 1) /\ NoRepeat(ourId)
    BY DEF IInv, TypeOK, OneSlot
  <2>4. Range(Tail(ourId)) = Range(ourId) \ {id}
    BY <2>1, <2>3, Popped
  <2> QED
    BY <2>1, <2>2, <2>4, OfferTurns
<1>4. CASE OurRefused(c)
  <2>1. UNCHANGED <<idToInfo, now>> /\ ourId' = ourId
    BY <1>4, Correspond DEF OurRefused, ReturnBatch
  <2> QED
    BY <2>1, Unturned
<1> QED
  BY <1>1, <1>2, <1>3, <1>4 DEF Get_

(* A reported node is in neither queue; Update has set its time to now.    *)
LEMMA RequeueTurns ==
  ASSUME IInv, UNCHANGED now, NEW id \in KnownIds, id \notin Range(ourId),
         NEW info, info.ourLastTry = now,
         idToInfo' = [idToInfo EXCEPT ![id] = info], Requeue_(id, info)
  PROVE  Clocked /\ Turn(ourId)
<1>1. /\ now \in Nat /\ id \in DOMAIN idToInfo /\ Range(ourId) \subseteq DOMAIN idToInfo
      /\ idToInfo \in [DOMAIN idToInfo -> Info]
  BY Correspond DEF IInv, TypeOK
<1>2. /\ DOMAIN idToInfo' = DOMAIN idToInfo /\ idToInfo'[id].ourLastTry = now
      /\ \A x \in DOMAIN idToInfo \ {id} : idToInfo'[x] = idToInfo[x]
  BY <1>1
<1>3. ourId' = ourId \/ ourId' = Append(ourId, id)
  BY DEF Requeue_
<1> QED
  BY <1>1, <1>2, <1>3 DEF Clocked, Turn, LastTryKept

LEMMA GoodTurns ==
  ASSUME IInv, NEW c \in Crawler, Good(c)
  PROVE  Clocked /\ \E r : Turn(r)
<1> DEFINE a == Head(ips[c])
           id == ipToId[a]
<1>1. PICK hello \in Hellos, v \in Verdicts : Reported(c) /\ Good_(a, hello, v)
  BY DEF Good
<1> DEFINE said == [idToInfo[id] EXCEPT !.services = hello.services,
                                        !.fit = hello.fit, !.ancient = hello.ancient]
           info == Update(said, TRUE, v)
<1>2. /\ a \in Known /\ id \in KnownIds /\ id \notin Range(ourId)
      /\ idToInfo[id] \in Info /\ now' = now /\ now \in Nat
  BY <1>1, ReportedNode DEF Reported, IInv, TypeOK
<1>3. said \in Info
  BY <1>2, DataAssumption DEF Info
<1>4. info.ourLastTry = now
  BY <1>2, <1>3, Updated
<1>5. idToInfo' = [idToInfo EXCEPT ![id] = info] /\ Requeue_(id, info)
  BY <1>1, <1>2 DEF Good_, Finished, Known
<1> HIDE DEF info, id, a
<1> QED
  BY <1>2, <1>4, <1>5, RequeueTurns

LEMMA BadTurns ==
  ASSUME IInv, NEW c \in Crawler, Bad(c)
  PROVE  Clocked /\ \E r : Turn(r)
<1> DEFINE a == Head(ips[c])
           id == ipToId[a]
<1>1. PICK ban \in {0, NodeBan}, v \in Verdicts : Reported(c) /\ Bad_(a, ban, v)
  BY DEF Bad
<1> DEFINE info == Update(idToInfo[id], FALSE, v)
<1>2. /\ a \in Known /\ id \in KnownIds /\ id \notin Range(ourId)
      /\ idToInfo[id] \in Info /\ now' = now /\ now \in Nat
  BY <1>1, ReportedNode DEF Reported, IInv, TypeOK
<1>3. info.ourLastTry = now
  BY <1>2, Updated
<1>4. \/ idToInfo' = [idToInfo EXCEPT ![id] = info] /\ Requeue_(id, info)
      \/ idToInfo' = Drop(idToInfo, id) /\ ourId' = ourId
  BY <1>1, <1>2 DEF Bad_, Finished, Forget, Known
<1> HIDE DEF info, id, a
<1>5. CASE idToInfo' = [idToInfo EXCEPT ![id] = info] /\ Requeue_(id, info)
  BY <1>2, <1>3, <1>5, RequeueTurns
<1>6. CASE idToInfo' = Drop(idToInfo, id) /\ ourId' = ourId
  <2>1. /\ DOMAIN idToInfo' = DOMAIN idToInfo \ {id}
        /\ \A x \in DOMAIN idToInfo' : idToInfo'[x] = idToInfo[x]
    BY <1>6 DEF Drop, Restrict
  <2>2. Range(ourId) \subseteq DOMAIN idToInfo'
    BY <1>2, <2>1, Correspond
  <2> QED
    BY <1>2, <1>6, <2>1, <2>2 DEF Clocked, Turn, LastTryKept
<1> QED
  BY <1>4, <1>5, <1>6

LEMMA AddTurns ==
  ASSUME IInv, NEW a, NEW services, NEW nTime, NEW force,
         Add_(a, services, nTime, force), UNCHANGED now
  PROVE  Clocked /\ Turn(ourId)
<1>1. /\ now \in Nat /\ idToInfo \in [DOMAIN idToInfo -> Info] /\ nId \notin KnownIds
      /\ Range(ourId) \subseteq KnownIds /\ Range(ourId) \subseteq DOMAIN idToInfo
  BY Correspond DEF IInv, TypeOK
<1>2. /\ ourId' = ourId
      /\ \/ idToInfo' = idToInfo
         \/ \E id \in KnownIds : idToInfo' = [idToInfo EXCEPT ![id].ignoreTill = 0]
         \/ idToInfo' = Put(idToInfo, nId, NewInfo(a, services))
  BY DEF Add_, Enter, dbVars, qVars, Known, KnownIds
<1>3. CASE idToInfo' = idToInfo
  BY <1>2, <1>3, Unturned
<1>4. ASSUME NEW id \in KnownIds, idToInfo' = [idToInfo EXCEPT ![id].ignoreTill = 0]
      PROVE  Clocked /\ Turn(ourId)
  <2> DEFINE r == [idToInfo[id] EXCEPT !.ignoreTill = 0]
  <2>1. id \in DOMAIN idToInfo /\ r.ourLastTry = idToInfo[id].ourLastTry
    BY <1>1, <1>4, Correspond DEF Info
  <2>2. idToInfo' = [idToInfo EXCEPT ![id] = r]
    BY <1>4
  <2> HIDE DEF r
  <2>3. /\ DOMAIN idToInfo' = DOMAIN idToInfo
        /\ \A x \in DOMAIN idToInfo : idToInfo'[x].ourLastTry = idToInfo[x].ourLastTry
    BY <1>1, <2>1, <2>2
  <2> QED
    BY <1>1, <1>2, <2>3 DEF Clocked, Turn, LastTryKept
<1>5. CASE idToInfo' = Put(idToInfo, nId, NewInfo(a, services))
  <2>1. /\ DOMAIN idToInfo' = DOMAIN idToInfo \cup {nId}
        /\ idToInfo'[nId].ourLastTry = 0
        /\ \A x \in DOMAIN idToInfo \ {nId} : idToInfo'[x] = idToInfo[x]
    BY <1>5 DEF Put, NewInfo
  <2> QED
    BY <1>1, <1>2, <2>1 DEF Clocked, Turn, LastTryKept
<1> QED
  BY <1>2, <1>3, <1>4, <1>5

(* The blank record of GetStats has never been tried.                      *)
LEMMA StatsTurns ==
  ASSUME IInv, GetStats
  PROVE  Clocked /\ Turn(ourId)
<1>1. /\ now \in Nat /\ idToInfo \in [DOMAIN idToInfo -> Info]
      /\ Range(ourId) \subseteq DOMAIN idToInfo
  BY Correspond DEF IInv, TypeOK
<1>2. /\ UNCHANGED <<ourId, now>>
      /\ \/ idToInfo' = idToInfo
         \/ \E id : /\ id \notin DOMAIN idToInfo
                    /\ idToInfo' = Put(idToInfo, id, NewInfo(NoAddr, {}))
  BY DEF GetStats, qVars
<1>3. CASE idToInfo' = idToInfo
  BY <1>2, <1>3, Unturned
<1>4. ASSUME NEW id, id \notin DOMAIN idToInfo,
             idToInfo' = Put(idToInfo, id, NewInfo(NoAddr, {}))
      PROVE  Clocked /\ Turn(ourId)
  <2>1. /\ DOMAIN idToInfo' = DOMAIN idToInfo \cup {id}
        /\ idToInfo'[id].ourLastTry = 0
        /\ \A x \in DOMAIN idToInfo : idToInfo'[x] = idToInfo[x]
    BY <1>4 DEF Put, NewInfo
  <2> QED
    BY <1>1, <1>2, <2>1 DEF Clocked, Turn, LastTryKept
<1> QED
  BY <1>2, <1>3, <1>4

LEMMA EveryStepTurns ==
  ASSUME IInv, [Next]_vars
  PROVE  Clocked /\ \E r : Turn(r)
<1>1. ASSUME NEW c \in Crawler, ThreadCrawler(c) PROVE Clocked /\ \E r : Turn(r)
  <2>1. CASE StartGetMany(c) \/ EndGetMany(c) \/ StartResultMany(c) \/ EndAdd(c)
    <3>1. UNCHANGED <<idToInfo, ourId, now>>
      BY <2>1 DEF StartGetMany, EndGetMany, StartResultMany, EndAdd, ReturnBatch, dbVars, qVars
    <3> QED
      BY <3>1, Unturned
  <2>2. CASE AddGossip(c)
    BY <2>2, AddTurns DEF AddGossip
  <2> QED
    BY <1>1, <2>1, <2>2, GetTurns, GoodTurns, BadTurns DEF ThreadCrawler
<1>2. CASE AddSeed
  BY <1>2, AddTurns DEF AddSeed
<1>3. CASE GetStats
  BY <1>3, StatsTurns
<1>4. CASE Tick \/ UNCHANGED vars
  <2>1. UNCHANGED <<idToInfo, ourId>> /\ now' \in {now, now + 1}
    BY <1>4 DEF Tick, vars, dbVars, qVars
  <2> QED
    BY <2>1, Unturned
<1> QED
  BY <1>1, <1>2, <1>3, <1>4 DEF Next

LEMMA OrderStep ==
  IInv /\ Timely /\ OurIdByTry /\ [Next]_vars => Timely' /\ OurIdByTry'
<1> SUFFICES ASSUME IInv, Timely, OurIdByTry, [Next]_vars PROVE Timely' /\ OurIdByTry'
  OBVIOUS
<1>1. OurIdByTry'
  BY EveryStepTurns, TurnKeepsOrder
<1>2. Timely'
  <2>1. now \in Nat /\ \A x \in DOMAIN idToInfo : idToInfo[x].ourLastTry \in Nat
    BY DEF IInv, TypeOK, Info
  <2> QED
    BY <2>1, EveryStepTurns DEF Timely, Clocked
<1> QED
  BY <1>1, <1>2

(* ourId stays in the order its nodes were tried while the process runs,   *)
(* so the front Get_ looks at is the node tried longest ago (db.cpp:100).  *)
THEOREM QueueInTryOrder == Spec => []OurIdByTry
<1>1. Init => Timely /\ OurIdByTry
  BY DEF Init, Timely, OurIdByTry, NoMap
<1> QED
  BY <1>1, OrderStep, Inductive, PTL DEF Spec
=============================================================================
