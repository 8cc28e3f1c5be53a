---------------------------- MODULE AddrDb_proofs ----------------------------
(***************************************************************************)
(* Proofs about AddrDb, for any set of addresses, any number of crawlers,  *)
(* any batch size, clock and thresholds.                                   *)
(***************************************************************************)
EXTENDS AddrDb, TLAPS, FiniteSetTheorems, SequenceTheorems

-----------------------------------------------------------------------------
(* Queues: what push_back, pop_front and a change of the id bound do.      *)

(* A queue over a set is a queue over any larger one.                      *)
LEMMA SeqGrows ==
  ASSUME NEW S, NEW T, S \subseteq T, NEW q \in Seq(S)
  PROVE  q \in Seq(T)
  OBVIOUS

(* push_back of a new element keeps a queue free of repetitions.           *)
LEMMA Pushed ==
  ASSUME NEW S, NEW q \in Seq(S), NEW e \in S
  PROVE  /\ Append(q, e) \in Seq(S)
         /\ Append(q, e) # <<>>
         /\ Len(Append(q, e)) = Len(q) + 1
         /\ Range(Append(q, e)) = Range(q) \cup {e}
         /\ NoRepeat(q) /\ e \notin Range(q) => NoRepeat(Append(q, e))
<1>1. /\ Append(q, e) \in Seq(S)
      /\ Len(Append(q, e)) = Len(q) + 1
      /\ \A i \in 1..Len(q) : Append(q, e)[i] = q[i]
      /\ Append(q, e)[Len(q) + 1] = e
  OBVIOUS
<1>2. DOMAIN Append(q, e) = 1..(Len(q) + 1) /\ DOMAIN q = 1..Len(q) /\ Len(q) \in Nat
  BY <1>1
<1>3. Range(Append(q, e)) = Range(q) \cup {e}
  BY <1>1, <1>2 DEF Range
<1>4. NoRepeat(q) /\ e \notin Range(q) => NoRepeat(Append(q, e))
  BY <1>1, <1>2 DEF NoRepeat, Range
<1> QED
  BY <1>1, <1>2, <1>3, <1>4

(* pop_front takes exactly the front out of a queue without repetitions.   *)
LEMMA Popped ==
  ASSUME NEW S, NEW q \in Seq(S), q # <<>>
  PROVE  /\ Head(q) \in S /\ Head(q) \in Range(q)
         /\ Tail(q) \in Seq(S) /\ Len(Tail(q)) = Len(q) - 1
         /\ NoRepeat(q) => /\ NoRepeat(Tail(q))
                           /\ Range(Tail(q)) = Range(q) \ {Head(q)}
<1>1. /\ Len(q) \in Nat /\ Len(q) > 0 /\ DOMAIN q = 1..Len(q)
      /\ Head(q) = q[1] /\ Head(q) \in S
      /\ Tail(q) \in Seq(S) /\ Len(Tail(q)) = Len(q) - 1
      /\ DOMAIN Tail(q) = 1..(Len(q) - 1)
      /\ \A i \in 1..(Len(q) - 1) : Tail(q)[i] = q[i + 1]
  OBVIOUS
<1>2. Head(q) \in Range(q)
  BY <1>1 DEF Range
<1>3. ASSUME NoRepeat(q)
      PROVE  NoRepeat(Tail(q)) /\ Range(Tail(q)) = Range(q) \ {Head(q)}
  <2>1. NoRepeat(Tail(q))
    BY <1>1, <1>3 DEF NoRepeat
  <2>2. \A x \in Range(Tail(q)) : x \in Range(q) /\ x # Head(q)
    BY <1>1, <1>3 DEF NoRepeat, Range
  <2>3. \A x \in Range(q) : x # Head(q) => x \in Range(Tail(q))
    <3>1. SUFFICES ASSUME NEW i \in 1..Len(q), q[i] # Head(q)
                   PROVE  q[i] \in Range(Tail(q))
      BY <1>1 DEF Range
    <3>2. i - 1 \in DOMAIN Tail(q) /\ Tail(q)[i - 1] = q[i]
      BY <1>1, <3>1
    <3> QED BY <3>2 DEF Range
  <2> QED BY <2>1, <2>2, <2>3
<1> QED
  BY <1>1, <1>2, <1>3
(* Moving the front of a queue to its back keeps what the queue holds.      *)
LEMMA Rotated ==
  ASSUME NEW S, NEW q \in Seq(S), q # <<>>, NoRepeat(q)
  PROVE  /\ Append(Tail(q), Head(q)) \in Seq(S)
         /\ NoRepeat(Append(Tail(q), Head(q)))
         /\ Range(Append(Tail(q), Head(q))) = Range(q)
         /\ Len(Append(Tail(q), Head(q))) = Len(q)
<1> DEFINE t == Tail(q)
           h == Head(q)
<1>1. /\ h \in S /\ h \in Range(q) /\ t \in Seq(S) /\ NoRepeat(t)
      /\ Range(t) = Range(q) \ {h} /\ Len(t) = Len(q) - 1 /\ Len(q) \in Nat
  BY Popped, LenProperties
<1> HIDE DEF t, h
<1>2. /\ Append(t, h) \in Seq(S) /\ NoRepeat(Append(t, h))
      /\ Range(Append(t, h)) = Range(t) \cup {h} /\ Len(Append(t, h)) = Len(t) + 1
  BY <1>1, Pushed
<1>3. Range(Append(t, h)) = Range(q) /\ Len(Append(t, h)) = Len(q)
  BY <1>1, <1>2
<1> QED
  BY <1>2, <1>3 DEF t, h

-----------------------------------------------------------------------------
(* Records.                                                                *)

(* Update yields a record of the same address, tried now.                  *)
LEMMA Updated ==
  ASSUME NEW i \in Info, NEW good \in BOOLEAN, NEW v \in Verdicts, now \in Nat
  PROVE  /\ Update(i, good, v) \in Info
         /\ Update(i, good, v).ip = i.ip
         /\ Update(i, good, v).services = i.services
         /\ Update(i, good, v).ourLastTry = now
         /\ Update(i, good, v).success >= i.success
         /\ good => Update(i, good, v).success > 0
<1> DEFINE t == Tested(i, good)
           j == Judged(t, v)
<1>1. /\ t \in Info /\ t.ip = i.ip /\ t.services = i.services
      /\ t.ourLastTry = now /\ t.success >= i.success
      /\ good => t.success > 0
  <2> DEFINE n == IF good THEN Count(i.success) ELSE i.success
  <2>1. /\ Count(i.total) \in 0..MaxTotal
        /\ n \in 0..MaxTotal /\ n >= i.success
        /\ good => n > 0
    BY NumberAssumption DEF Count, Info
  <2>2. t = [i EXCEPT !.ourLastTry = now, !.total = Count(i.total), !.success = n]
    BY DEF Tested, Info
  <2> HIDE DEF n, t
  <2>3. /\ t.ip = i.ip /\ t.services = i.services /\ t.ourLastTry = now
        /\ t.success = n /\ t \in Info
    BY <2>1, <2>2 DEF Info
  <2> QED
    BY <2>1, <2>3
<1>2. /\ j \in Info /\ j.ip = t.ip /\ j.services = t.services
      /\ j.ourLastTry = t.ourLastTry /\ j.success = t.success
  BY <1>1, DataAssumption DEF Judged, Info, Levels
<1>3. GetIgnoreTime(j) \in Nat
  BY NumberAssumption DEF GetIgnoreTime
<1>4. /\ Ignored(j) \in Info /\ Ignored(j).ip = j.ip /\ Ignored(j).services = j.services
      /\ Ignored(j).ourLastTry = j.ourLastTry /\ Ignored(j).success = j.success
  BY <1>2, <1>3 DEF Ignored, Info
<1> QED
  BY <1>1, <1>2, <1>4 DEF Update

(* A new record is a record, never tried.                                  *)
LEMMA Blank ==
  ASSUME NEW a \in Addr \cup {NoAddr}, NEW services \in SUBSET Flags
  PROVE  /\ NewInfo(a, services) \in Info
         /\ NewInfo(a, services).ip = a
         /\ NewInfo(a, services).ourLastTry = 0
         /\ NewInfo(a, services).ignoreTill = 0
  BY NumberAssumption DEF NewInfo, Info, Levels

-----------------------------------------------------------------------------
(* The inductive invariant.                                                *)

IInv ==
  /\ TypeOK /\ ThreadsInOrder /\ MapsAgree /\ OneSlot
  /\ InFlightIsHeld /\ BannedUnknown /\ Proven /\ TotIsFresh

LEMMA Initially == Init => IInv
<1> SUFFICES ASSUME Init PROVE IInv
  OBVIOUS
<1>1. Range(ourId) = {} /\ Range(forkId) = {} /\ Held = {} /\ Known = {} /\ KnownIds = {}
  BY DEF Init, Range, Held, Known, KnownIds, NoMap
<1>2. TypeOK
  BY NumberAssumption, AddrAssumption DEF Init, TypeOK, States, Known, NoMap
<1>3. ThreadsInOrder /\ TotIsFresh
  BY AddrAssumption DEF Init, ThreadsInOrder, TotIsFresh
<1>4. OneSlot
  BY <1>1 DEF Init, OneSlot, NoRepeat
<1>5. InFlightIsHeld
  BY <1>1 DEF Init, InFlightIsHeld, NoRepeat, Range
<1>6. MapsAgree /\ BannedUnknown /\ Proven
  BY <1>1 DEF Init, MapsAgree, BannedUnknown, Proven
<1> QED
  BY <1>2, <1>3, <1>4, <1>5, <1>6 DEF IInv

(* Steps that leave the database alone keep what is said of it.            *)
LEMMA DbUnchanged ==
  ASSUME IInv, UNCHANGED <<dbVars, ips>>
  PROVE  MapsAgree' /\ OneSlot' /\ InFlightIsHeld' /\ BannedUnknown' /\ Proven'
<1>1. UNCHANGED <<nId, idToInfo, ipToId, ourId, unkId, forkId, inFlight, goodId, banned, ips>>
  BY DEF dbVars, qVars
<1>2. Known' = Known /\ KnownIds' = KnownIds /\ Held' = Held
  BY <1>1 DEF Known, KnownIds, Held
<1>3. MapsAgree' /\ BannedUnknown'
  BY <1>1, <1>2 DEF IInv, MapsAgree, BannedUnknown
<1>4. OneSlot'
  BY <1>1, <1>2 DEF IInv, OneSlot
<1>5. InFlightIsHeld'
  BY <1>1, <1>2 DEF IInv, InFlightIsHeld
<1>6. Proven'
  BY <1>1, <1>2 DEF IInv, Proven
<1> QED
  BY <1>3, <1>4, <1>5, <1>6

LEMMA StartGetManyStep ==
  ASSUME IInv, NEW c \in Crawler, StartGetMany(c)
  PROVE  IInv'
<1>1. UNCHANGED <<dbVars, ips>>
  BY DEF StartGetMany
<1>2. TypeOK'
  BY <1>1 DEF IInv, TypeOK, StartGetMany, Goto, Known, States, dbVars, qVars
<1>3. ThreadsInOrder' /\ TotIsFresh'
  BY <1>1, AddrAssumption
  DEF IInv, TypeOK, ThreadsInOrder, TotIsFresh, StartGetMany, Goto, dbVars, qVars
<1> QED
  BY <1>1, <1>2, <1>3, DbUnchanged DEF IInv

LEMMA EndGetManyStep ==
  ASSUME IInv, NEW c \in Crawler, EndGetMany(c)
  PROVE  IInv'
<1>1. UNCHANGED <<dbVars, ips>>
  BY DEF EndGetMany, ReturnBatch
<1>2. TypeOK'
  BY <1>1 DEF IInv, TypeOK, EndGetMany, ReturnBatch, Goto, Known, States, dbVars, qVars
<1>3. ThreadsInOrder' /\ TotIsFresh'
  BY <1>1, AddrAssumption
  DEF IInv, TypeOK, ThreadsInOrder, TotIsFresh, EndGetMany, ReturnBatch, Inside, Goto, dbVars, qVars
<1> QED
  BY <1>1, <1>2, <1>3, DbUnchanged DEF IInv

LEMMA StartGetStep ==
  ASSUME IInv, NEW c \in Crawler, StartGet(c)
  PROVE  IInv'
<1>1. UNCHANGED <<dbVars, ips>>
  BY DEF StartGet
<1>2. UNCHANGED <<nId, idToInfo, ipToId, ourId, unkId, forkId, inFlight, goodId, banned, lock, now>>
  BY DEF StartGet, dbVars, qVars
<1>3. Cardinality(unkId) + Len(ourId) \in Nat
  <2>1. ourId \in Seq(0..nId - 1) /\ unkId \subseteq 0..nId - 1 /\ nId \in 0..MaxId
    BY DEF IInv, TypeOK
  <2>2. Len(ourId) \in Nat
    BY <2>1, LenProperties
  <2>3. 0 \in Int /\ nId - 1 \in Int
    BY <2>1, NumberAssumption
  <2>4. IsFiniteSet(0..nId - 1)
    BY <2>3, FS_Interval
  <2>5. IsFiniteSet(unkId)
    BY <2>1, <2>4, FS_Subset
  <2>6. Cardinality(unkId) \in Nat
    BY <2>5, FS_CardinalityType
  <2> QED
    BY <2>2, <2>6
<1>4. TypeOK'
  BY <1>1, <1>2, <1>3 DEF IInv, TypeOK, StartGet, Goto, Known, States
<1>5. ThreadsInOrder' /\ TotIsFresh'
  BY <1>1, <1>2 DEF IInv, TypeOK, ThreadsInOrder, TotIsFresh, StartGet, Inside, Goto
<1> QED
  BY <1>1, <1>4, <1>5, DbUnchanged DEF IInv

LEMMA SkipForkStep ==
  ASSUME IInv, NEW c \in Crawler, SkipFork(c)
  PROVE  IInv'
<1>1. UNCHANGED <<dbVars, ips>>
  BY DEF SkipFork
<1>2. UNCHANGED <<nId, idToInfo, ipToId, ourId, unkId, forkId, inFlight, goodId, banned, lock, tot, now>>
  BY DEF SkipFork, dbVars, qVars
<1>3. TypeOK'
  BY <1>1, <1>2 DEF IInv, TypeOK, SkipFork, Goto, Known, States
<1>4. ThreadsInOrder' /\ TotIsFresh'
  BY <1>1, <1>2 DEF IInv, TypeOK, ThreadsInOrder, TotIsFresh, SkipFork, Inside, Goto
<1> QED
  BY <1>1, <1>3, <1>4, DbUnchanged DEF IInv

LEMMA StartResultManyStep ==
  ASSUME IInv, NEW c \in Crawler, StartResultMany(c)
  PROVE  IInv'
<1>1. UNCHANGED <<dbVars, ips>>
  BY DEF StartResultMany
<1>2. UNCHANGED <<nId, idToInfo, ipToId, ourId, unkId, forkId, inFlight, goodId, banned, tot, now>>
  BY DEF StartResultMany, dbVars, qVars
<1>3. TypeOK'
  BY <1>1, <1>2 DEF IInv, TypeOK, StartResultMany, Goto, Known, States
<1>4. ThreadsInOrder' /\ TotIsFresh'
  BY <1>1, <1>2, AddrAssumption
  DEF IInv, TypeOK, ThreadsInOrder, TotIsFresh, StartResultMany, Goto
<1> QED
  BY <1>1, <1>3, <1>4, DbUnchanged DEF IInv

LEMMA EndAddStep ==
  ASSUME IInv, NEW c \in Crawler, EndAdd(c)
  PROVE  IInv'
<1>1. UNCHANGED <<dbVars, ips>>
  BY DEF EndAdd
<1>2. UNCHANGED <<nId, idToInfo, ipToId, ourId, unkId, forkId, inFlight, goodId, banned, tot, now>>
  BY DEF EndAdd, dbVars, qVars
<1>3. TypeOK'
  BY <1>1, <1>2 DEF IInv, TypeOK, EndAdd, Goto, Known, States
<1>4. ThreadsInOrder' /\ TotIsFresh'
  BY <1>1, <1>2, AddrAssumption DEF IInv, TypeOK, ThreadsInOrder, TotIsFresh, EndAdd, Goto
<1> QED
  BY <1>1, <1>3, <1>4, DbUnchanged DEF IInv

LEMMA TickStep ==
  ASSUME IInv, Tick
  PROVE  IInv'
<1>1. UNCHANGED <<dbVars, ips>>
  BY DEF Tick
<1>2. UNCHANGED <<nId, idToInfo, ipToId, ourId, unkId, forkId, inFlight, goodId, banned, lock, tot, pc>>
  BY DEF Tick, dbVars, qVars
<1>3. TypeOK'
  BY <1>1, <1>2 DEF IInv, TypeOK, Tick, Known, States
<1>4. ThreadsInOrder' /\ TotIsFresh'
  BY <1>1, <1>2 DEF IInv, ThreadsInOrder, TotIsFresh
<1> QED
  BY <1>1, <1>3, <1>4, DbUnchanged DEF IInv

(* Addresses and ids correspond one to one, and every slot holds known ids. *)
LEMMA Correspond ==
  ASSUME IInv
  PROVE  /\ \A a, b \in Known : ipToId[a] = ipToId[b] => a = b
         /\ \A id \in KnownIds : /\ id \in DOMAIN idToInfo /\ idToInfo[id] \in Info
                                 /\ idToInfo[id].ip \in Known
                                 /\ ipToId[idToInfo[id].ip] = id
                                 /\ id \in 0..nId - 1
         /\ \A a \in Known : ipToId[a] \in KnownIds /\ a \in Addr
         /\ unkId \subseteq KnownIds /\ Range(ourId) \subseteq KnownIds
         /\ Range(forkId) \subseteq KnownIds /\ inFlight \subseteq KnownIds
<1>1. \A a, b \in Known : ipToId[a] = ipToId[b] => a = b
  BY DEF IInv, MapsAgree
<1>2. \A a \in Known : ipToId[a] \in KnownIds /\ a \in Addr /\ ipToId[a] \in 0..nId - 1
  BY DEF IInv, TypeOK, KnownIds, Known
<1>3. \A id \in KnownIds : /\ id \in DOMAIN idToInfo /\ idToInfo[id] \in Info
                           /\ idToInfo[id].ip \in Known
                           /\ ipToId[idToInfo[id].ip] = id
                           /\ id \in 0..nId - 1
  BY <1>2 DEF IInv, TypeOK, MapsAgree, KnownIds
<1> QED
  BY <1>1, <1>2, <1>3 DEF IInv, OneSlot

(* Handing out an id that no crawler holds keeps inFlight and the batches  *)
(* in step.                                                                *)
LEMMA HandedOut ==
  ASSUME IInv, NEW c \in Crawler, NEW id \in KnownIds, id \notin inFlight,
         HandOut(c, id), UNCHANGED ipToId
  PROVE  /\ InFlightIsHeld'
         /\ ips' \in [Crawler -> Seq(Addr)] /\ ips'[c] # <<>>
         /\ \A d \in Crawler \ {c} : ips'[d] = ips[d]
         /\ inFlight' = inFlight \cup {id} /\ inFlight' \subseteq 0..nId - 1
<1> DEFINE a == idToInfo[id].ip
<1>1. a \in Known /\ ipToId[a] = id /\ a \in Addr /\ id \in 0..nId - 1
  BY Correspond
<1>2. a \notin Held
  BY <1>1 DEF IInv, InFlightIsHeld
<1>3. ips \in [Crawler -> Seq(Addr)]
  BY DEF IInv, TypeOK
<1>4. ips' = [ips EXCEPT ![c] = Append(ips[c], a)] /\ inFlight' = inFlight \cup {id}
  BY <1>3 DEF HandOut
<1> HIDE DEF a
<1>5. ips[c] \in Seq(Addr) /\ a \notin Range(ips[c]) /\ NoRepeat(ips[c])
  BY <1>2, <1>3 DEF Held, IInv, InFlightIsHeld
<1>6. /\ Append(ips[c], a) \in Seq(Addr) /\ Append(ips[c], a) # <<>>
      /\ Range(Append(ips[c], a)) = Range(ips[c]) \cup {a}
      /\ NoRepeat(Append(ips[c], a))
  BY <1>1, <1>5, Pushed
<1>7. /\ ips' \in [Crawler -> Seq(Addr)] /\ ips'[c] = Append(ips[c], a)
      /\ \A d \in Crawler \ {c} : ips'[d] = ips[d]
  BY <1>3, <1>4, <1>6
<1>8. Known' = Known /\ Held' = Held \cup {a}
  BY <1>6, <1>7 DEF Known, Held
<1>9. InFlightIsHeld'
  <2>1. Held' \subseteq Known'
    BY <1>1, <1>8 DEF IInv, InFlightIsHeld
  <2>2. inFlight' = {ipToId'[b] : b \in Held'}
    BY <1>1, <1>4, <1>8 DEF IInv, InFlightIsHeld
  <2>3. \A d \in Crawler : NoRepeat(ips'[d])
    BY <1>6, <1>7 DEF IInv, InFlightIsHeld
  <2>4. \A d \in Crawler \ {c} : a \notin Range(ips[d])
    BY <1>2 DEF Held
  <2>5. ASSUME NEW d \in Crawler, NEW e \in Crawler, d # e
        PROVE  Range(ips'[d]) \cap Range(ips'[e]) = {}
    <3>1. Range(ips[d]) \cap Range(ips[e]) = {}
      BY <2>5 DEF IInv, InFlightIsHeld
    <3>2. CASE d # c /\ e # c
      BY <1>7, <3>1, <3>2
    <3>3. CASE d = c
      BY <1>6, <1>7, <2>4, <2>5, <3>1, <3>3
    <3>4. CASE e = c
      BY <1>6, <1>7, <2>4, <2>5, <3>1, <3>4
    <3> QED BY <3>2, <3>3, <3>4
  <2> QED
    BY <2>1, <2>2, <2>3, <2>5 DEF InFlightIsHeld
<1> QED
  BY <1>1, <1>4, <1>6, <1>7, <1>9 DEF IInv, TypeOK

(* While c is inside Get_ nobody else is.                                  *)
LEMMA AloneInside ==
  ASSUME IInv, NEW c \in Crawler, lock = c
  PROVE  \A d \in Crawler \ {c} : pc[d] \in {"idle", "test", "add"}
<1>1. \A d \in Crawler : pc[d] \in States
  BY DEF IInv, TypeOK
<1> QED
  BY <1>1 DEF IInv, ThreadsInOrder, States

LEMMA ForkPassOverStep ==
  ASSUME IInv, NEW c \in Crawler, ForkPassOver(c)
  PROVE  IInv'
<1>1. PICK id \in Range(forkId) :
        /\ Inside(c, "loop") /\ forkId # <<>> /\ id = Head(forkId)
        /\ forkId' = IF id \in DOMAIN idToInfo THEN Append(Tail(forkId), id) ELSE Tail(forkId)
        /\ Goto(c, "pick")
        /\ UNCHANGED <<nId, idToInfo, ipToId, ourId, unkId, inFlight, goodId, banned>>
        /\ UNCHANGED <<lock, tot, ips, now>>
  BY DEF ForkPassOver, ForkSlice
<1>2. forkId' = Append(Tail(forkId), id)
  BY <1>1, Correspond
<1>3. forkId \in Seq(0..nId - 1) /\ id \in 0..nId - 1 /\ NoRepeat(forkId)
  BY <1>1, Correspond DEF IInv, TypeOK, OneSlot
<1>5. forkId' \in Seq(0..nId - 1) /\ NoRepeat(forkId') /\ Range(forkId') = Range(forkId)
  BY <1>1, <1>2, <1>3, Rotated
<1>6. Known' = Known /\ KnownIds' = KnownIds /\ Held' = Held
  BY <1>1 DEF Known, KnownIds, Held
<1>7. TypeOK'
  BY <1>1, <1>5, <1>6 DEF IInv, TypeOK, Goto, States
<1>8. ThreadsInOrder' /\ TotIsFresh'
  BY <1>1 DEF IInv, TypeOK, ThreadsInOrder, TotIsFresh, Inside, Goto
<1>9. MapsAgree' /\ BannedUnknown' /\ InFlightIsHeld'
  BY <1>1, <1>6 DEF IInv, MapsAgree, BannedUnknown, InFlightIsHeld
<1>10. OneSlot' /\ Proven'
  BY <1>1, <1>5, <1>6 DEF IInv, OneSlot, Proven
<1> QED
  BY <1>7, <1>8, <1>9, <1>10 DEF IInv

LEMMA ForkHandOutStep ==
  ASSUME IInv, NEW c \in Crawler, ForkHandOut(c)
  PROVE  IInv'
<1>1. PICK id \in Range(forkId) :
        /\ Inside(c, "loop") /\ forkId # <<>> /\ id = Head(forkId)
        /\ forkId' = Tail(forkId) /\ HandOut(c, id)
        /\ UNCHANGED <<nId, idToInfo, ipToId, ourId, unkId, goodId, banned, lock, now>>
  BY DEF ForkHandOut, ForkSlice
<1>2. forkId \in Seq(0..nId - 1) /\ NoRepeat(forkId) /\ id \in KnownIds /\ id \notin inFlight
  BY <1>1, Correspond DEF IInv, TypeOK, OneSlot
<1>3. /\ forkId' \in Seq(0..nId - 1) /\ NoRepeat(forkId')
      /\ Range(forkId') = Range(forkId) \ {id}
  BY <1>1, <1>2, Popped
<1>4. /\ InFlightIsHeld'
      /\ ips' \in [Crawler -> Seq(Addr)] /\ ips'[c] # <<>>
      /\ \A d \in Crawler \ {c} : ips'[d] = ips[d]
      /\ inFlight' = inFlight \cup {id} /\ inFlight' \subseteq 0..nId - 1
  BY <1>1, <1>2, HandedOut
<1>5. Known' = Known /\ KnownIds' = KnownIds
  BY <1>1 DEF Known, KnownIds
<1>6. TypeOK'
  BY <1>1, <1>3, <1>4, <1>5 DEF IInv, TypeOK, HandOut, Goto, States
<1>7. ThreadsInOrder' /\ TotIsFresh'
  BY <1>1, <1>4 DEF IInv, TypeOK, ThreadsInOrder, TotIsFresh, HandOut, Inside, Goto
<1>8. MapsAgree' /\ BannedUnknown'
  BY <1>1, <1>5 DEF IInv, MapsAgree, BannedUnknown
<1>9. OneSlot' /\ Proven'
  BY <1>1, <1>3, <1>4, <1>5 DEF IInv, OneSlot, Proven
<1> QED
  BY <1>4, <1>6, <1>7, <1>8, <1>9 DEF IInv

LEMMA PickUnkStep ==
  ASSUME IInv, NEW c \in Crawler, PickUnk(c)
  PROVE  IInv'
<1>1. PICK id \in unkId :
        /\ Inside(c, "pick")
        /\ unkId' = unkId \ {id} /\ Offer(c, id, ourId)
        /\ UNCHANGED <<nId, ipToId, forkId, goodId, banned, lock, now>>
  BY DEF PickUnk
<1>2. ourId' = ourId /\ HandOut(c, id) /\ idToInfo' = idToInfo
  BY <1>1 DEF IInv, Proven, Offer
<1>3. id \in KnownIds /\ id \notin inFlight
  BY <1>1, Correspond DEF IInv, OneSlot
<1>4. /\ InFlightIsHeld'
      /\ ips' \in [Crawler -> Seq(Addr)] /\ ips'[c] # <<>>
      /\ \A d \in Crawler \ {c} : ips'[d] = ips[d]
      /\ inFlight' = inFlight \cup {id} /\ inFlight' \subseteq 0..nId - 1
  BY <1>1, <1>2, <1>3, HandedOut
<1>5. Known' = Known /\ KnownIds' = KnownIds
  BY <1>1 DEF Known, KnownIds
<1>6. TypeOK'
  BY <1>1, <1>2, <1>4, <1>5 DEF IInv, TypeOK, HandOut, Goto, States
<1>7. TotIsFresh'
  BY <1>1, <1>2, AloneInside DEF IInv, TypeOK, TotIsFresh, HandOut, Inside, Goto
<1>8. ThreadsInOrder'
  BY <1>1, <1>2, <1>4 DEF IInv, TypeOK, ThreadsInOrder, HandOut, Inside, Goto
<1>9. MapsAgree' /\ BannedUnknown'
  BY <1>1, <1>2, <1>5 DEF IInv, MapsAgree, BannedUnknown
<1>10. OneSlot' /\ Proven'
  BY <1>1, <1>2, <1>4, <1>5 DEF IInv, OneSlot, Proven
<1> QED
  BY <1>4, <1>6, <1>7, <1>8, <1>9, <1>10 DEF IInv

(* Moving a record's ourLastTry leaves the rest of it, and of the map.     *)
LEMMA Retried ==
  ASSUME NEW D, NEW f \in [D -> Info], NEW k \in D, NEW t \in Nat,
         NEW g, g = [f EXCEPT ![k].ourLastTry = t]
  PROVE  /\ g \in [D -> Info] /\ g[k].ip = f[k].ip
         /\ g[k].services = f[k].services /\ g[k].success = f[k].success
         /\ g[k].ourLastTry = t
         /\ \A x \in D \ {k} : g[x] = f[x]
<1> DEFINE r == [f[k] EXCEPT !.ourLastTry = t]
<1>1. /\ r \in Info /\ r.ip = f[k].ip /\ r.services = f[k].services
      /\ r.success = f[k].success /\ r.ourLastTry = t
  BY DEF Info
<1>2. g = [f EXCEPT ![k] = r]
  OBVIOUS
<1> HIDE DEF r
<1> QED
  BY <1>1, <1>2

(* Get_ rotates an ignored node to the back of ourId instead of testing it. *)
LEMMA PickOurStep ==
  ASSUME IInv, NEW c \in Crawler, PickOur(c)
  PROVE  IInv'
<1>1. PICK id \in Range(ourId) :
        /\ Inside(c, "pick") /\ ourId # <<>> /\ id = Head(ourId)
        /\ id \in DOMAIN idToInfo
        /\ Offer(c, id, Tail(ourId))
        /\ UNCHANGED <<nId, ipToId, unkId, forkId, goodId, banned, lock, now>>
  BY DEF PickOur, OurSlice
<1>2. /\ ourId \in Seq(0..nId - 1) /\ NoRepeat(ourId) /\ id \in KnownIds /\ id \notin inFlight
      /\ id \in 0..nId - 1 /\ id \notin Range(forkId) /\ id \notin unkId
  BY <1>1, Correspond DEF IInv, TypeOK, OneSlot
<1> DEFINE q == Tail(ourId)
<1>3. /\ q \in Seq(0..nId - 1) /\ NoRepeat(q) /\ Len(q) = Len(ourId) - 1
      /\ Range(q) = Range(ourId) \ {id}
  BY <1>1, <1>2, Popped
<1> HIDE DEF q
<1>4. Known' = Known /\ KnownIds' = KnownIds
  BY <1>1 DEF Known, KnownIds
<1>5. CASE idToInfo[id].ignoreTill # 0 /\ idToInfo[id].ignoreTill < now
  <2>1. /\ ourId' = Append(q, id) /\ idToInfo' = [idToInfo EXCEPT ![id].ourLastTry = now]
        /\ Goto(c, "loop") /\ UNCHANGED <<inFlight, ips, tot>>
    BY <1>1, <1>5 DEF Offer, q
  <2>2. /\ ourId' \in Seq(0..nId - 1) /\ NoRepeat(ourId')
        /\ Range(ourId') = Range(ourId) /\ Len(ourId') = Len(ourId)
    BY <1>1, <1>2, <2>1, Rotated DEF q
  <2>3. /\ DOMAIN idToInfo' = DOMAIN idToInfo
        /\ idToInfo' \in [DOMAIN idToInfo -> Info] /\ idToInfo'[id].ip = idToInfo[id].ip
        /\ idToInfo'[id].success = idToInfo[id].success
        /\ \A x \in DOMAIN idToInfo \ {id} : idToInfo'[x] = idToInfo[x]
    <3>1. idToInfo \in [DOMAIN idToInfo -> Info] /\ now \in Nat
      BY DEF IInv, TypeOK
    <3> QED
      BY <1>1, <2>1, <3>1, Retried
  <2>4. TypeOK'
    BY <1>1, <1>4, <2>1, <2>2, <2>3 DEF IInv, TypeOK, Goto, States
  <2>5. ThreadsInOrder' /\ TotIsFresh'
    BY <1>1, <2>1, <2>2 DEF IInv, TypeOK, ThreadsInOrder, TotIsFresh, Inside, Goto
  <2>6. Held' = Held
    BY <2>1 DEF Held
  <2>7. MapsAgree' /\ BannedUnknown' /\ InFlightIsHeld'
    <3>1. \A a \in Known : idToInfo'[ipToId[a]].ip = idToInfo[ipToId[a]].ip
      BY <2>3 DEF IInv, MapsAgree
    <3>2. MapsAgree'
      BY <1>1, <1>4, <2>3, <3>1 DEF IInv, MapsAgree
    <3>3. BannedUnknown'
      BY <1>1, <1>4 DEF IInv, BannedUnknown
    <3>4. InFlightIsHeld'
      BY <1>1, <1>4, <2>1, <2>6 DEF IInv, InFlightIsHeld
    <3> QED
      BY <3>2, <3>3, <3>4
  <2>8. OneSlot'
    BY <1>1, <1>4, <2>1, <2>2 DEF IInv, OneSlot
  <2>9. Proven'
    <3>1. goodId \subseteq KnownIds /\ Range(forkId) \subseteq KnownIds /\ unkId \subseteq KnownIds
      BY Correspond DEF IInv, Proven
    <3>2. \A x \in KnownIds : x \in DOMAIN idToInfo
      BY Correspond
    <3> QED
      BY <1>1, <1>2, <1>4, <2>3, <3>1, <3>2 DEF IInv, Proven
  <2> QED
    BY <2>4, <2>5, <2>7, <2>8, <2>9 DEF IInv
<1>6. CASE ~(idToInfo[id].ignoreTill # 0 /\ idToInfo[id].ignoreTill < now)
  <2>1. ourId' = q /\ HandOut(c, id) /\ idToInfo' = idToInfo
    BY <1>1, <1>6 DEF Offer, q
  <2>2. /\ InFlightIsHeld'
        /\ ips' \in [Crawler -> Seq(Addr)] /\ ips'[c] # <<>>
        /\ \A d \in Crawler \ {c} : ips'[d] = ips[d]
        /\ inFlight' = inFlight \cup {id} /\ inFlight' \subseteq 0..nId - 1
    BY <1>1, <1>2, <2>1, HandedOut
  <2>3. TypeOK'
    BY <1>1, <1>3, <1>4, <2>1, <2>2 DEF IInv, TypeOK, HandOut, Goto, States
  <2>4. TotIsFresh'
    BY <1>1, <2>1, AloneInside DEF IInv, TypeOK, TotIsFresh, HandOut, Inside, Goto
  <2>5. ThreadsInOrder'
    BY <1>1, <2>1, <2>2 DEF IInv, TypeOK, ThreadsInOrder, HandOut, Inside, Goto
  <2>6. MapsAgree' /\ BannedUnknown'
    BY <1>1, <1>4, <2>1 DEF IInv, MapsAgree, BannedUnknown
  <2>7. OneSlot' /\ Proven'
    BY <1>1, <1>2, <1>3, <1>4, <2>1, <2>2 DEF IInv, OneSlot, Proven
  <2> QED
    BY <2>2, <2>3, <2>4, <2>5, <2>6, <2>7 DEF IInv
<1> QED
  BY <1>5, <1>6

LEMMA OurRefusedStep ==
  ASSUME IInv, NEW c \in Crawler, OurRefused(c)
  PROVE  IInv'
<1>1. PICK id \in Range(ourId) :
        /\ Inside(c, "pick") /\ ourId # <<>> /\ id = Head(ourId)
        /\ ourId' = IF id \in DOMAIN idToInfo THEN ourId ELSE Tail(ourId)
        /\ IF id \in DOMAIN idToInfo \/ Tail(ourId) = <<>>
             THEN ReturnBatch(c)
             ELSE Goto(c, "loop") /\ UNCHANGED <<lock, tot, ips, now>>
        /\ UNCHANGED <<nId, idToInfo, ipToId, unkId, forkId, inFlight, goodId, banned>>
  BY DEF OurRefused, OurSlice
<1>2. ourId' = ourId /\ ReturnBatch(c)
  BY <1>1, Correspond
<1>3. UNCHANGED <<dbVars, ips>>
  BY <1>1, <1>2 DEF dbVars, qVars, ReturnBatch
<1>4. TypeOK'
  BY <1>1, <1>2, <1>3 DEF IInv, TypeOK, ReturnBatch, Goto, Known, States
<1>5. TotIsFresh'
  BY <1>1, <1>2, AloneInside DEF IInv, TypeOK, TotIsFresh, ReturnBatch, Inside, Goto
<1>6. ThreadsInOrder'
  BY <1>1, <1>2, AddrAssumption DEF IInv, TypeOK, ThreadsInOrder, ReturnBatch, Inside, Goto
<1> QED
  BY <1>3, <1>4, <1>5, <1>6, DbUnchanged DEF IInv

(* One pass of ResultMany takes a known node, held by this crawler alone,   *)
(* out of the batch.                                                       *)
LEMMA ReportedNode ==
  ASSUME IInv, NEW c \in Crawler, Reported(c), NEW a, a = Head(ips[c]),
         NEW id, id = ipToId[a]
  PROVE  /\ a \in Known /\ a \in Addr /\ id \in inFlight /\ id \in KnownIds
         /\ id \in 0..nId - 1 /\ idToInfo[id] \in Info /\ idToInfo[id].ip = a
         /\ id \notin unkId /\ id \notin Range(ourId) /\ id \notin Range(forkId)
         /\ ips' \in [Crawler -> Seq(Addr)]
         /\ Held' = Held \ {a}
         /\ {ipToId[b] : b \in Held'} = inFlight \ {id}
         /\ \A d \in Crawler : NoRepeat(ips'[d])
         /\ \A d, e \in Crawler : d # e => Range(ips'[d]) \cap Range(ips'[e]) = {}
<1>1. /\ pc[c] = "result" /\ lock = c /\ ips' = [ips EXCEPT ![c] = Tail(ips[c])]
      /\ ips \in [Crawler -> Seq(Addr)] /\ ips[c] \in Seq(Addr) /\ ips[c] # <<>>
      /\ NoRepeat(ips[c])
  BY DEF Reported, Inside, IInv, TypeOK, ThreadsInOrder, InFlightIsHeld
<1>2. /\ a \in Range(ips[c]) /\ Tail(ips[c]) \in Seq(Addr) /\ NoRepeat(Tail(ips[c]))
      /\ Range(Tail(ips[c])) = Range(ips[c]) \ {a}
  BY <1>1, Popped
<1>3. /\ ips' \in [Crawler -> Seq(Addr)] /\ ips'[c] = Tail(ips[c])
      /\ \A d \in Crawler \ {c} : ips'[d] = ips[d]
  BY <1>1, <1>2
<1>4. a \in Held /\ a \in Known
  BY <1>2 DEF Held, IInv, InFlightIsHeld
<1>5. id \in inFlight /\ id \in KnownIds
  BY <1>4 DEF KnownIds, IInv, InFlightIsHeld
<1>6. /\ a \in Addr /\ id \in 0..nId - 1 /\ idToInfo[id] \in Info /\ idToInfo[id].ip = a
  BY <1>4, <1>5, Correspond DEF IInv, MapsAgree
<1>7. id \notin unkId /\ id \notin Range(ourId) /\ id \notin Range(forkId)
  BY <1>5 DEF IInv, OneSlot
<1>8. \A d \in Crawler \ {c} : a \notin Range(ips[d])
  BY <1>2 DEF IInv, InFlightIsHeld
<1>9. \A d \in Crawler : Range(ips'[d]) = Range(ips[d]) \ {a}
  BY <1>2, <1>3, <1>8
<1>10. Held' = Held \ {a}
  BY <1>9 DEF Held
<1>11. {ipToId[b] : b \in Held'} = inFlight \ {id}
  <2>1. \A b \in Held : ipToId[b] = id => b = a
    BY <1>4, Correspond DEF IInv, InFlightIsHeld
  <2> QED
    BY <1>10, <2>1 DEF IInv, InFlightIsHeld
<1>12. \A d \in Crawler : NoRepeat(ips'[d])
  BY <1>2, <1>3 DEF IInv, InFlightIsHeld
<1>13. \A d, e \in Crawler : d # e => Range(ips'[d]) \cap Range(ips'[e]) = {}
  <2>1. \A d, e \in Crawler : d # e => Range(ips[d]) \cap Range(ips[e]) = {}
    BY DEF IInv, InFlightIsHeld
  <2> QED
    BY <1>9, <2>1
<1> QED
  BY <1>3, <1>4, <1>5, <1>6, <1>7, <1>10, <1>11, <1>12, <1>13

(* ... and stays inside the critical section until the batch is empty.     *)
LEMMA ReportedThread ==
  ASSUME IInv, NEW c \in Crawler, Reported(c)
  PROVE  /\ pc' \in [Crawler -> States] /\ lock' \in Crawler \cup {Free}
         /\ tot' = tot /\ now' = now
         /\ ThreadsInOrder' /\ TotIsFresh'
<1>1. /\ pc[c] = "result" /\ lock = c /\ ips' = [ips EXCEPT ![c] = Tail(ips[c])]
      /\ ips \in [Crawler -> Seq(Addr)] /\ pc \in [Crawler -> States]
      /\ tot' = tot /\ now' = now
  BY DEF Reported, Inside, IInv, TypeOK
<1>2. CASE Tail(ips[c]) = <<>>
  <2>1. lock' = Free /\ pc' = [pc EXCEPT ![c] = "add"]
    BY <1>2 DEF Reported, Goto
  <2> QED
    BY <1>1, <1>2, <2>1, AloneInside, AddrAssumption
    DEF IInv, ThreadsInOrder, TotIsFresh, States
<1>3. CASE Tail(ips[c]) # <<>>
  <2>1. lock' = lock /\ pc' = pc
    BY <1>3 DEF Reported
  <2> QED
    BY <1>1, <1>3, <2>1, AloneInside
    DEF IInv, TypeOK, ThreadsInOrder, TotIsFresh, States
<1> QED
  BY <1>2, <1>3

(* Requeue_ pushes an id that is in neither queue onto exactly one.        *)
LEMMA Requeued ==
  ASSUME IInv, NEW id \in 0..nId - 1, NEW info, Requeue_(id, info),
         id \notin Range(ourId), id \notin Range(forkId)
  PROVE  /\ ourId' \in Seq(0..nId - 1) /\ forkId' \in Seq(0..nId - 1)
         /\ NoRepeat(ourId') /\ NoRepeat(forkId')
         /\ \/ /\ ourId' = ourId /\ Range(forkId') = Range(forkId) \cup {id}
               /\ info.success > 0 /\ "BLAKE2B" \in info.services
            \/ forkId' = forkId /\ Range(ourId') = Range(ourId) \cup {id}
<1> DEFINE S == 0..nId - 1
<1>1. /\ id \in S /\ ourId \in Seq(S) /\ forkId \in Seq(S)
      /\ NoRepeat(ourId) /\ NoRepeat(forkId)
  BY DEF IInv, TypeOK, OneSlot
<1> HIDE DEF S
<1>2. /\ Append(ourId, id) \in Seq(S) /\ NoRepeat(Append(ourId, id))
      /\ Range(Append(ourId, id)) = Range(ourId) \cup {id}
  BY <1>1, Pushed
<1>3. /\ Append(forkId, id) \in Seq(S) /\ NoRepeat(Append(forkId, id))
      /\ Range(Append(forkId, id)) = Range(forkId) \cup {id}
  BY <1>1, Pushed
<1>4. /\ ourId' \in Seq(S) /\ forkId' \in Seq(S)
      /\ NoRepeat(ourId') /\ NoRepeat(forkId')
      /\ \/ /\ ourId' = ourId /\ Range(forkId') = Range(forkId) \cup {id}
            /\ info.success > 0 /\ "BLAKE2B" \in info.services
         \/ forkId' = forkId /\ Range(ourId') = Range(ourId) \cup {id}
  BY <1>1, <1>2, <1>3 DEF Requeue_
<1> QED
  BY <1>4 DEF S

(* A tested node that stays in the database goes from inFlight back to one *)
(* queue, with a record that Update produced.                              *)
LEMMA Returned ==
  ASSUME IInv, NEW c \in Crawler, Reported(c), NEW a, a = Head(ips[c]),
         NEW id, id = ipToId[a], NEW info \in Info, info.ip = a,
         unkId' = unkId \ {id}, inFlight' = inFlight \ {id},
         idToInfo' = [idToInfo EXCEPT ![id] = info],
         goodId' \subseteq goodId \cup {id}, id \in goodId' => info.success > 0,
         banned' \in [DOMAIN banned' -> Nat], DOMAIN banned' \subseteq DOMAIN banned,
         Requeue_(id, info), UNCHANGED <<nId, ipToId>>
  PROVE  IInv'
<1>1. /\ a \in Known /\ a \in Addr /\ id \in inFlight /\ id \in KnownIds
      /\ id \in 0..nId - 1 /\ id \in DOMAIN idToInfo
      /\ id \notin unkId /\ id \notin Range(ourId) /\ id \notin Range(forkId)
      /\ ips' \in [Crawler -> Seq(Addr)] /\ Held' = Held \ {a}
      /\ {ipToId[b] : b \in Held'} = inFlight \ {id}
      /\ \A d \in Crawler : NoRepeat(ips'[d])
      /\ \A d, e \in Crawler : d # e => Range(ips'[d]) \cap Range(ips'[e]) = {}
  BY ReportedNode, Correspond
<1>2. /\ pc' \in [Crawler -> States] /\ lock' \in Crawler \cup {Free}
      /\ tot' = tot /\ now' = now /\ ThreadsInOrder' /\ TotIsFresh'
  BY ReportedThread
<1>3. /\ ourId' \in Seq(0..nId - 1) /\ forkId' \in Seq(0..nId - 1)
      /\ NoRepeat(ourId') /\ NoRepeat(forkId')
      /\ \/ /\ ourId' = ourId /\ Range(forkId') = Range(forkId) \cup {id}
            /\ info.success > 0 /\ "BLAKE2B" \in info.services
         \/ forkId' = forkId /\ Range(ourId') = Range(ourId) \cup {id}
  BY <1>1, Requeued
<1>4. /\ DOMAIN idToInfo' = DOMAIN idToInfo /\ idToInfo' \in [DOMAIN idToInfo -> Info]
      /\ idToInfo'[id] = info /\ \A x \in DOMAIN idToInfo \ {id} : idToInfo'[x] = idToInfo[x]
  BY <1>1 DEF IInv, TypeOK
<1>5. Known' = Known /\ KnownIds' = KnownIds
  BY DEF Known, KnownIds
<1>6. TypeOK'
  BY <1>1, <1>2, <1>3, <1>4, <1>5 DEF IInv, TypeOK
<1>7. MapsAgree'
  BY <1>1, <1>4, <1>5 DEF IInv, MapsAgree
<1>8. OneSlot'
  BY <1>1, <1>3, <1>5 DEF IInv, OneSlot
<1>9. InFlightIsHeld'
  BY <1>1, <1>5 DEF IInv, InFlightIsHeld
<1>10. BannedUnknown'
  BY <1>5 DEF IInv, BannedUnknown
<1>11. Proven'
  <2>1. unkId \subseteq KnownIds /\ Range(forkId) \subseteq KnownIds /\ goodId \subseteq KnownIds
    BY Correspond DEF IInv, Proven
  <2>2. \A x \in KnownIds : x \in DOMAIN idToInfo
    BY Correspond
  <2> QED
    BY <1>1, <1>3, <1>4, <1>5, <2>1, <2>2 DEF IInv, Proven
<1> QED
  BY <1>2, <1>6, <1>7, <1>8, <1>9, <1>10, <1>11 DEF IInv

(* Lifting a ban keeps the shape of the ban list.                          *)
LEMMA Lifted ==
  ASSUME IInv, NEW a
  PROVE  /\ Drop(banned, a) \in [DOMAIN banned \ {a} -> Nat]
         /\ DOMAIN Drop(banned, a) = DOMAIN banned \ {a}
  BY DEF IInv, TypeOK, Drop, Restrict

LEMMA GoodStep ==
  ASSUME IInv, NEW c \in Crawler, Good(c)
  PROVE  IInv'
<1> DEFINE a == Head(ips[c])
           id == ipToId[a]
<1>1. PICK hello \in Hellos, v \in Verdicts : Reported(c) /\ Good_(a, hello, v)
  BY DEF Good
<1> DEFINE said == [idToInfo[id] EXCEPT !.services = hello.services,
                                        !.fit = hello.fit, !.ancient = hello.ancient]
           info == Update(said, TRUE, v)
<1>2. a \in Known /\ idToInfo[id] \in Info /\ idToInfo[id].ip = a
  BY <1>1, ReportedNode
<1>3. said \in Info /\ said.ip = a
  <2>1. /\ hello.services \in SUBSET Flags /\ hello.fit \in BOOLEAN /\ hello.ancient \in BOOLEAN
    BY DataAssumption
  <2> QED
    BY <1>2, <2>1 DEF Info
<1>4. now \in Nat
  BY DEF IInv, TypeOK
<1>5. info \in Info /\ info.ip = a /\ info.success > 0
  BY <1>3, <1>4, Updated
<1>6. /\ unkId' = unkId \ {id} /\ inFlight' = inFlight \ {id}
      /\ banned' = Drop(banned, a)
      /\ idToInfo' = [idToInfo EXCEPT ![id] = info]
      /\ goodId' = IF IsGood(info) THEN goodId \cup {id} ELSE goodId
      /\ Requeue_(id, info)
      /\ UNCHANGED <<nId, ipToId>>
  BY <1>1, <1>2 DEF Good_, Finished, Known
<1> HIDE DEF info, said
<1>7. banned' \in [DOMAIN banned' -> Nat] /\ DOMAIN banned' \subseteq DOMAIN banned
  BY <1>6, Lifted
<1>8. goodId' \subseteq goodId \cup {id}
  BY <1>6
<1> HIDE DEF id, a
<1> QED
  BY <1>1, <1>5, <1>6, <1>7, <1>8, Returned DEF id, a

(* A ban removes the node from every map and every set, and from no queue, *)
(* because a node under test is in none.                                   *)
LEMMA Banned ==
  ASSUME IInv, NEW c \in Crawler, Reported(c), NEW a, a = Head(ips[c]),
         NEW id, id = ipToId[a], NEW until \in Nat,
         unkId' = unkId \ {id}, inFlight' = inFlight \ {id}, goodId' = goodId \ {id},
         banned' = Put(banned, a, until), ipToId' = Drop(ipToId, a),
         idToInfo' = Drop(idToInfo, id), forkId' = Scrub(forkId, id),
         UNCHANGED <<ourId, nId>>
  PROVE  IInv'
<1>1. /\ a \in Known /\ a \in Addr /\ id \in inFlight /\ id \in KnownIds
      /\ id \notin unkId /\ id \notin Range(ourId) /\ id \notin Range(forkId)
      /\ ips' \in [Crawler -> Seq(Addr)] /\ Held' = Held \ {a}
      /\ {ipToId[b] : b \in Held'} = inFlight \ {id}
      /\ \A d \in Crawler : NoRepeat(ips'[d])
      /\ \A d, e \in Crawler : d # e => Range(ips'[d]) \cap Range(ips'[e]) = {}
  BY ReportedNode
<1>2. /\ pc' \in [Crawler -> States] /\ lock' \in Crawler \cup {Free}
      /\ tot' = tot /\ now' = now /\ ThreadsInOrder' /\ TotIsFresh'
  BY ReportedThread
<1>3. forkId' = forkId
  BY <1>1 DEF Scrub
<1>4. /\ Known' = Known \ {a} /\ \A b \in Known' : ipToId'[b] = ipToId[b]
      /\ DOMAIN idToInfo' = DOMAIN idToInfo \ {id}
      /\ \A x \in DOMAIN idToInfo' : idToInfo'[x] = idToInfo[x]
      /\ DOMAIN banned' = DOMAIN banned \cup {a}
  BY DEF Drop, Put, Restrict, Known
<1>5. \A b \in Known' : ipToId[b] # id
  BY <1>1, <1>4, Correspond
<1>6. KnownIds' = KnownIds \ {id}
  BY <1>1, <1>4, <1>5 DEF KnownIds
<1>7. TypeOK'
  <2>1. ipToId' \in [Known' -> 0..nId' - 1] /\ Known' \subseteq Addr
    BY <1>4 DEF IInv, TypeOK, Drop, Restrict, Known
  <2>2. DOMAIN idToInfo' \subseteq Int /\ idToInfo' \in [DOMAIN idToInfo' -> Info]
    BY <1>4 DEF IInv, TypeOK, Drop, Restrict
  <2>3. banned' \in [DOMAIN banned' -> Nat] /\ DOMAIN banned' \subseteq Addr
    BY <1>1, <1>4 DEF IInv, TypeOK, Put
  <2> QED
    BY <1>1, <1>2, <1>3, <2>1, <2>2, <2>3 DEF IInv, TypeOK
<1>8. MapsAgree'
  BY <1>4, <1>5 DEF IInv, MapsAgree
<1>9. OneSlot'
  BY <1>1, <1>3, <1>6 DEF IInv, OneSlot
<1>10. InFlightIsHeld'
  <2>1. Held' \subseteq Known'
    BY <1>1, <1>4 DEF IInv, InFlightIsHeld
  <2>2. {ipToId'[b] : b \in Held'} = {ipToId[b] : b \in Held'}
    BY <1>4, <2>1
  <2>3. inFlight' = {ipToId'[b] : b \in Held'}
    BY <1>1, <2>2
  <2> QED
    BY <1>1, <2>1, <2>3 DEF InFlightIsHeld
<1>11. BannedUnknown'
  BY <1>4 DEF IInv, BannedUnknown
<1>12. Proven'
  <2>1. unkId \subseteq KnownIds /\ Range(forkId) \subseteq KnownIds /\ goodId \subseteq KnownIds
    BY Correspond DEF IInv, Proven
  <2>2. \A x \in KnownIds' : x \in DOMAIN idToInfo'
    BY <1>4, <1>6, Correspond
  <2> QED
    BY <1>1, <1>3, <1>4, <1>6, <2>1, <2>2 DEF IInv, Proven
<1> QED
  BY <1>2, <1>7, <1>8, <1>9, <1>10, <1>11, <1>12 DEF IInv

LEMMA BadStep ==
  ASSUME IInv, NEW c \in Crawler, Bad(c)
  PROVE  IInv'
<1> DEFINE a == Head(ips[c])
           id == ipToId[a]
<1>1. PICK ban \in {0, NodeBan}, v \in Verdicts : Reported(c) /\ Bad_(a, ban, v)
  BY DEF Bad
<1> DEFINE info == Update(idToInfo[id], FALSE, v)
           ter == GetBanTime(info)
           time == IF ban < ter THEN ter ELSE ban
<1>2. a \in Known /\ idToInfo[id] \in Info /\ idToInfo[id].ip = a
  BY <1>1, ReportedNode
<1>3. now \in Nat /\ banned \in [DOMAIN banned -> Nat]
  BY DEF IInv, TypeOK
<1>4. info \in Info /\ info.ip = a
  BY <1>2, <1>3, Updated
<1>5. time \in Nat
  <2>1. ter \in Nat
    BY NumberAssumption DEF GetBanTime
  <2>2. ban \in Nat
    BY NumberAssumption
  <2> HIDE DEF ter
  <2> QED
    BY <2>1, <2>2
<1>6. /\ unkId' = unkId \ {id} /\ inFlight' = inFlight \ {id}
      /\ goodId' = goodId \ {id}
      /\ IF time > 0
           THEN /\ banned' = Put(banned, info.ip, time + now)
                /\ ipToId' = Drop(ipToId, info.ip)
                /\ idToInfo' = Drop(idToInfo, id)
                /\ forkId' = Scrub(forkId, id)
                /\ UNCHANGED ourId
           ELSE /\ idToInfo' = [idToInfo EXCEPT ![id] = info]
                /\ Requeue_(id, info)
                /\ UNCHANGED <<banned, ipToId>>
      /\ UNCHANGED nId
  BY <1>1, <1>2 DEF Bad_, Finished, Forget, Known
<1> HIDE DEF info, ter, time
<1>7. CASE time > 0
  <2>1. time + now \in Nat
    BY <1>3, <1>5
  <2> HIDE DEF id, a
  <2> QED
    BY <1>1, <1>4, <1>6, <1>7, <2>1, Banned DEF id, a
<1>8. CASE ~(time > 0)
  <2>1. banned' \in [DOMAIN banned' -> Nat] /\ DOMAIN banned' \subseteq DOMAIN banned
    BY <1>3, <1>6, <1>8
  <2> HIDE DEF id, a
  <2> QED
    BY <1>1, <1>4, <1>6, <1>8, <2>1, Returned DEF id, a
<1> QED
  BY <1>7, <1>8

(* Add_ forgets no node and gives a new one a fresh id in unkId.           *)
LEMMA Added ==
  ASSUME IInv, NEW a \in Addr, NEW services \in SUBSET Flags, NEW nTime,
         NEW force \in BOOLEAN, Add_(a, services, nTime, force),
         UNCHANGED <<tot, pc, ips, now>>, lock' \in Crawler \cup {Free},
         \A c \in Crawler : pc[c] \notin {"loop", "pick"}, ThreadsInOrder'
  PROVE  IInv'
<1> DEFINE barred == a \in DOMAIN banned
           id == IF a \in DOMAIN ipToId THEN ipToId[a] ELSE nId
<1>1. CASE UNCHANGED dbVars
  <2>1. UNCHANGED <<dbVars, ips>>
    BY <1>1
  <2>2. TypeOK'
    BY <1>1 DEF IInv, TypeOK, Known, dbVars, qVars
  <2>3. TotIsFresh'
    BY DEF TotIsFresh
  <2> QED
    BY <2>1, <2>2, <2>3, DbUnchanged DEF IInv
<1>2. CASE ~UNCHANGED dbVars
  <2>1. /\ banned' = IF barred THEN Drop(banned, a) ELSE banned
        /\ IF a \in Known
             THEN /\ idToInfo' = IF force THEN [idToInfo EXCEPT ![id].ignoreTill = 0]
                                          ELSE idToInfo
                  /\ UNCHANGED <<nId, ipToId, unkId>>
             ELSE /\ nId < MaxId /\ nId' = nId + 1
                  /\ idToInfo' = Put(idToInfo, id, NewInfo(a, services))
                  /\ ipToId' = Put(ipToId, a, id)
                  /\ unkId' = unkId \cup {id}
        /\ UNCHANGED <<ourId, forkId, inFlight, goodId>>
    BY <1>2 DEF Add_, Enter, Known
  <2>2. /\ banned' \in [DOMAIN banned' -> Nat] /\ DOMAIN banned' \subseteq DOMAIN banned
        /\ a \notin DOMAIN banned' /\ DOMAIN banned' \subseteq Addr
    BY <2>1, Lifted DEF IInv, TypeOK
  <2>3. TotIsFresh'
    BY DEF TotIsFresh
  <2>4. Held' = Held
    BY DEF Held
  <2>5. CASE a \in Known
    <3>1. id \in KnownIds /\ id \in DOMAIN idToInfo /\ UNCHANGED <<nId, ipToId, unkId>>
      BY <2>1, <2>5, Correspond DEF Known
    <3>2. /\ DOMAIN idToInfo' = DOMAIN idToInfo /\ idToInfo' \in [DOMAIN idToInfo -> Info]
          /\ \A x \in DOMAIN idToInfo :
               /\ idToInfo'[x].ip = idToInfo[x].ip
               /\ idToInfo'[x].services = idToInfo[x].services
               /\ idToInfo'[x].success = idToInfo[x].success
               /\ idToInfo'[x].ourLastTry = idToInfo[x].ourLastTry
               /\ idToInfo[x].ignoreTill = 0 => idToInfo'[x].ignoreTill = 0
      <4> DEFINE r == [idToInfo[id] EXCEPT !.ignoreTill = 0]
      <4>1. idToInfo \in [DOMAIN idToInfo -> Info]
        BY DEF IInv, TypeOK
      <4>2. /\ r \in Info /\ r.ip = idToInfo[id].ip /\ r.services = idToInfo[id].services
            /\ r.success = idToInfo[id].success
            /\ r.ourLastTry = idToInfo[id].ourLastTry /\ r.ignoreTill = 0
        BY <3>1, <4>1 DEF Info
      <4>3. idToInfo' = idToInfo \/ idToInfo' = [idToInfo EXCEPT ![id] = r]
        BY <2>1, <2>5
      <4> HIDE DEF r, id
      <4> QED
        BY <3>1, <4>1, <4>2, <4>3
    <3>3. Known' = Known /\ KnownIds' = KnownIds
      BY <3>1 DEF Known, KnownIds
    <3>4. TypeOK'
      BY <2>1, <2>2, <3>1, <3>2, <3>3 DEF IInv, TypeOK
    <3>5. MapsAgree'
      BY <3>1, <3>2, <3>3 DEF IInv, MapsAgree
    <3>6. OneSlot' /\ BannedUnknown' /\ InFlightIsHeld'
      BY <2>1, <2>2, <2>4, <3>1, <3>3 DEF IInv, OneSlot, BannedUnknown, InFlightIsHeld
    <3>7. Proven'
      <4>1. \A x \in KnownIds : x \in DOMAIN idToInfo
        BY Correspond
      <4>2. unkId \subseteq KnownIds /\ Range(forkId) \subseteq KnownIds
        BY Correspond
      <4> QED
        BY <2>1, <3>1, <3>2, <3>3, <4>1, <4>2 DEF IInv, Proven
    <3> QED
      BY <2>3, <3>4, <3>5, <3>6, <3>7 DEF IInv
  <2>6. CASE a \notin Known
    <3>1. /\ nId \in Nat /\ nId < MaxId /\ nId' = nId + 1 /\ id = nId
          /\ idToInfo' = Put(idToInfo, nId, NewInfo(a, services))
          /\ ipToId' = Put(ipToId, a, nId) /\ unkId' = unkId \cup {nId}
      BY <2>1, <2>6, NumberAssumption DEF IInv, TypeOK, Known
    <3>2. /\ NewInfo(a, services) \in Info /\ NewInfo(a, services).ip = a
          /\ NewInfo(a, services).ourLastTry = 0 /\ NewInfo(a, services).ignoreTill = 0
      BY Blank
    <3>3. /\ DOMAIN idToInfo' = DOMAIN idToInfo \cup {nId}
          /\ idToInfo' \in [DOMAIN idToInfo' -> Info]
          /\ idToInfo'[nId] = NewInfo(a, services)
          /\ \A x \in DOMAIN idToInfo \ {nId} : idToInfo'[x] = idToInfo[x]
      BY <3>1, <3>2 DEF IInv, TypeOK, Put
    <3>4. /\ Known' = Known \cup {a} /\ ipToId'[a] = nId
          /\ \A b \in Known : ipToId'[b] = ipToId[b]
      BY <2>6, <3>1 DEF Put, Known
    <3>5. KnownIds' = KnownIds \cup {nId}
      BY <3>4 DEF KnownIds
    <3>6. nId \notin KnownIds /\ \A x \in KnownIds : x \in DOMAIN idToInfo
      BY <3>1, Correspond
    <3>7. TypeOK'
      <4>1. 0..nId - 1 \subseteq 0..nId' - 1 /\ nId \in 0..nId' - 1 /\ nId' \in 0..MaxId
        BY <3>1, NumberAssumption
      <4>2. ourId' \in Seq(0..nId' - 1) /\ forkId' \in Seq(0..nId' - 1)
        <5> DEFINE S == 0..nId - 1
                   T == 0..nId' - 1
        <5>1. S \subseteq T /\ ourId \in Seq(S) /\ forkId \in Seq(S)
          BY <4>1 DEF IInv, TypeOK
        <5> HIDE DEF S, T
        <5>2. ourId \in Seq(T) /\ forkId \in Seq(T)
          BY <5>1, SeqGrows
        <5> QED
          BY <2>1, <5>2 DEF T
      <4>3. ipToId' \in [Known' -> 0..nId' - 1] /\ Known' \subseteq Addr
        BY <3>1, <3>4, <4>1 DEF IInv, TypeOK, Put, Known
      <4>4. DOMAIN idToInfo' \subseteq Int
        BY <3>1, <3>3 DEF IInv, TypeOK
      <4>5. /\ unkId' \subseteq 0..nId' - 1 /\ inFlight' \subseteq 0..nId' - 1
            /\ goodId' \subseteq 0..nId' - 1
        BY <2>1, <3>1, <4>1 DEF IInv, TypeOK
      <4> QED
        BY <2>2, <3>3, <4>1, <4>2, <4>3, <4>4, <4>5 DEF IInv, TypeOK
    <3>8. MapsAgree'
      <4>1. \A b \in Known : ipToId[b] \in KnownIds
        BY DEF KnownIds
      <4> QED
        BY <3>2, <3>3, <3>4, <3>6, <4>1 DEF IInv, MapsAgree
    <3>9. OneSlot'
      BY <2>1, <3>1, <3>5, <3>6, Correspond DEF IInv, OneSlot
    <3>10. BannedUnknown'
      BY <2>2, <3>4 DEF IInv, BannedUnknown
    <3>11. InFlightIsHeld'
      <4>1. {ipToId'[b] : b \in Held'} = {ipToId[b] : b \in Held}
        BY <2>4, <3>4 DEF IInv, InFlightIsHeld
      <4> QED
        BY <2>1, <2>4, <3>4, <4>1 DEF IInv, InFlightIsHeld
    <3>12. Proven'
      <4>1. /\ unkId \subseteq KnownIds /\ Range(forkId) \subseteq KnownIds
            /\ goodId \subseteq KnownIds
        BY Correspond DEF IInv, Proven
      <4> QED
        BY <2>1, <3>1, <3>2, <3>3, <3>5, <3>6, <4>1 DEF IInv, Proven
    <3> QED
      BY <2>3, <3>7, <3>8, <3>9, <3>10, <3>11, <3>12 DEF IInv
  <2> QED
    BY <2>5, <2>6
<1> QED
  BY <1>1, <1>2

LEMMA AddGossipStep ==
  ASSUME IInv, NEW c \in Crawler, AddGossip(c)
  PROVE  IInv'
<1>1. PICK a \in Addr, services \in Rumours, nTime \in 0..now :
        /\ pc[c] = "add" /\ lock \in {Free, c}
        /\ lock' = c /\ Add_(a, services, nTime, FALSE)
        /\ UNCHANGED <<tot, pc, ips, now>>
  BY DEF AddGossip
<1>2. \A d \in Crawler : pc[d] \notin {"loop", "pick"}
  BY <1>1, AddrAssumption DEF IInv, ThreadsInOrder
<1>3. ThreadsInOrder'
  BY <1>1, AddrAssumption DEF IInv, ThreadsInOrder
<1>4. services \in SUBSET Flags /\ FALSE \in BOOLEAN
  BY DataAssumption
<1> QED
  BY <1>1, <1>2, <1>3, <1>4, Added

LEMMA AddSeedStep ==
  ASSUME IInv, AddSeed
  PROVE  IInv'
<1>1. PICK a \in Seeds :
        /\ lock = Free /\ Add_(a, {"NETWORK"}, 0, TRUE)
        /\ UNCHANGED <<lock, tot, pc, ips, now>>
  BY DEF AddSeed
<1>2. \A d \in Crawler : pc[d] \notin {"loop", "pick"}
  BY <1>1, AddrAssumption DEF IInv, ThreadsInOrder
<1>3. ThreadsInOrder'
  BY <1>1 DEF IInv, ThreadsInOrder
<1>4. {"NETWORK"} \in SUBSET Flags /\ TRUE \in BOOLEAN /\ a \in Addr
  BY AddrAssumption DEF Flags
<1> QED
  BY <1>1, <1>2, <1>3, <1>4, Added

(* A phantom record belongs to no address and to no queue.                 *)
LEMMA GetStatsStep ==
  ASSUME IInv, GetStats
  PROVE  IInv'
<1>1. PICK id \in IF ourId = <<>> THEN Garbage ELSE {Head(ourId)} :
        /\ idToInfo' = IF id \in DOMAIN idToInfo THEN idToInfo
                       ELSE Put(idToInfo, id, NewInfo(NoAddr, {}))
        /\ UNCHANGED <<nId, ipToId, qVars, goodId, banned, lock, tot, pc, ips, now>>
  BY DEF GetStats
<1>2. UNCHANGED <<ourId, unkId, forkId, inFlight>>
  BY <1>1 DEF qVars
<1>3. id \in Int
  <2>1. CASE ourId = <<>>
    BY <1>1, <2>1, DataAssumption
  <2>2. CASE ourId # <<>>
    <3>1. ourId \in Seq(0..nId - 1)
      BY DEF IInv, TypeOK
    <3>2. Head(ourId) \in 0..nId - 1
      BY <2>2, <3>1, Popped
    <3> QED
      BY <1>1, <2>2, <3>2
  <2> QED
    BY <2>1, <2>2
<1>4. NewInfo(NoAddr, {}) \in Info
  BY Blank
<1>5. /\ DOMAIN idToInfo \subseteq DOMAIN idToInfo' /\ DOMAIN idToInfo' \subseteq Int
      /\ idToInfo' \in [DOMAIN idToInfo' -> Info]
      /\ \A x \in DOMAIN idToInfo : idToInfo'[x] = idToInfo[x]
  BY <1>1, <1>3, <1>4 DEF IInv, TypeOK, Put
<1>6. Known' = Known /\ KnownIds' = KnownIds /\ Held' = Held
  BY <1>1 DEF Known, KnownIds, Held
<1>7. TypeOK'
  BY <1>1, <1>2, <1>5, <1>6 DEF IInv, TypeOK
<1>8. MapsAgree'
  BY <1>1, <1>5, <1>6 DEF IInv, MapsAgree
<1>9. ThreadsInOrder' /\ TotIsFresh'
  BY <1>1, <1>2 DEF IInv, ThreadsInOrder, TotIsFresh
<1>10. OneSlot' /\ InFlightIsHeld' /\ BannedUnknown'
  BY <1>1, <1>2, <1>6 DEF IInv, OneSlot, InFlightIsHeld, BannedUnknown
<1>11. Proven'
  <2>1. \A x \in KnownIds : x \in DOMAIN idToInfo
    BY Correspond
  <2>2. unkId \subseteq KnownIds /\ Range(forkId) \subseteq KnownIds
    BY Correspond
  <2> QED
    BY <1>1, <1>2, <1>5, <1>6, <2>1, <2>2 DEF IInv, Proven
<1> QED
  BY <1>7, <1>8, <1>9, <1>10, <1>11 DEF IInv

LEMMA Step == IInv /\ [Next]_vars => IInv'
<1> SUFFICES ASSUME IInv, [Next]_vars PROVE IInv'
  OBVIOUS
<1>1. CASE UNCHANGED vars
  <2>1. UNCHANGED <<dbVars, ips>> /\ UNCHANGED <<lock, tot, pc, now>>
    BY <1>1 DEF vars
  <2>2. TypeOK' /\ ThreadsInOrder' /\ TotIsFresh'
    BY <2>1 DEF IInv, TypeOK, ThreadsInOrder, TotIsFresh, Known, dbVars, qVars
  <2> QED
    BY <2>1, <2>2, DbUnchanged DEF IInv
<1>2. ASSUME NEW c \in Crawler, ThreadCrawler(c) PROVE IInv'
  <2>1. CASE StartGetMany(c)    BY <2>1, StartGetManyStep
  <2>2. CASE EndGetMany(c)      BY <2>2, EndGetManyStep
  <2>3. CASE StartGet(c)        BY <2>3, StartGetStep
  <2>4. CASE SkipFork(c)        BY <2>4, SkipForkStep
  <2>5. CASE ForkPassOver(c)    BY <2>5, ForkPassOverStep
  <2>6. CASE ForkHandOut(c)     BY <2>6, ForkHandOutStep
  <2>7. CASE PickUnk(c)         BY <2>7, PickUnkStep
  <2>8. CASE PickOur(c)         BY <2>8, PickOurStep
  <2>9. CASE OurRefused(c)      BY <2>9, OurRefusedStep
  <2>10. CASE StartResultMany(c) BY <2>10, StartResultManyStep
  <2>11. CASE Good(c)           BY <2>11, GoodStep
  <2>12. CASE Bad(c)            BY <2>12, BadStep
  <2>13. CASE AddGossip(c)      BY <2>13, AddGossipStep
  <2>14. CASE EndAdd(c)         BY <2>14, EndAddStep
  <2> QED
    BY <1>2, <2>1, <2>2, <2>3, <2>4, <2>5, <2>6, <2>7, <2>8, <2>9, <2>10, <2>11,
       <2>12, <2>13, <2>14 DEF ThreadCrawler, Get_
<1>3. CASE AddSeed    BY <1>3, AddSeedStep
<1>4. CASE GetStats   BY <1>4, GetStatsStep
<1>5. CASE Tick       BY <1>5, TickStep
<1> QED
  BY <1>1, <1>2, <1>3, <1>4, <1>5 DEF Next

(* The invariant everything below follows from.                            *)
THEOREM Inductive == Spec => []IInv
  BY Initially, Step, PTL DEF Spec

-----------------------------------------------------------------------------
(* Results.                                                                *)

(* CAddrDb's maps, queues and sets, and its threads, stay well formed.     *)
THEOREM TypeCorrect == Spec => []TypeOK
  BY Inductive, PTL DEF IInv

(* db.h:217-218, db.cpp:185-202, 226-258: ipToId and idToInfo agree on     *)
(* every known address, whatever is added, banned and ignored.             *)
THEOREM MapsStayInStep == Spec => []MapsAgree
  BY Inductive, PTL DEF IInv

(* db.h:226-238: a known node is in exactly one of unkId, ourId, forkId    *)
(* and inFlight, once; nothing else ever is in them, so the stale ids and  *)
(* the duplicates that GetAll, the serializer and Requeue_ guard against   *)
(* do not arise.                                                           *)
THEOREM Partition == Spec => []OneSlot
  BY Inductive, PTL DEF IInv

(* db.h:231-239: inFlight is exactly the set of nodes the crawlers hold,   *)
(* each node is held by one crawler only, and it is still known when its   *)
(* result comes back: no Good_ or Bad_ misses its node.                    *)
THEOREM Balanced == Spec => []InFlightIsHeld
  BY Inductive, PTL DEF IInv

(* A banned address is not known: it can be neither handed out nor served. *)
THEOREM NoBannedNode == Spec => []BannedUnknown
  BY Inductive, PTL DEF IInv

(* db.cpp:129-137: only nodes that have answered are served or take the    *)
(* fork slice, whatever gossip claims.                                     *)
THEOREM ServedAreProven == Spec => []Proven
  BY Inductive, PTL DEF IInv

(* Get_'s tot stays the size of the queues it draws from.                  *)
THEOREM DrawIsSound == Spec => []TotIsFresh
  BY Inductive, PTL DEF IInv
=============================================================================
