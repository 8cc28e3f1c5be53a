--------------------------- MODULE Session_proofs ---------------------------
(***************************************************************************)
(* Theorems about one session with a peer.                                 *)
(***************************************************************************)
EXTENDS Framing, SequenceTheorems, WellFoundedInduction, TLAPS

(* A message that sets the deadline was processed.                         *)
Heard ==
  \E i \in DOMAIN seen :
    \/ seen[i][1] = "verack" \/ seen[i] = <<"version", "v150">>
    \/ seen[i][1] = "addr" /\ vAddr # -1

(* Nothing is sent before the first message is queued, and only a session  *)
(* with a proxy speaks to one.                                             *)
Early ==
  /\ pc \in {"direct", "hello"} \cup DOMAIN Stage => sent = <<>> /\ vSend = <<>>
  /\ pc \in DOMAIN Stage => proxied

(* The deadline is what tells a good session from a silent one.            *)
Deadline ==
  /\ \E S : seen \in Seq(S)
  /\ left # -1 => Heard
  /\ Good => left # -1

SessionIInv == SessionTypeOK /\ Early /\ ClosedAtEnd /\ Deadline

LEMMA Stages ==
  /\ DOMAIN Stage = {"greet", "request", "bound", "port"}
  /\ \A s \in DOMAIN Stage : Stage[s] \in {"request", "bound", "port", "hello"}
BY DEF Stage

LEMMA Bounds == ConnectTime \in Nat /\ Timeout \in Nat /\ Timeout > 0 /\ MaxAddr \in Nat /\ MaxElapsed \in Nat
BY SessionAssumption DEF SessionAssumption

LEMMA SessionIInvInit == SessionInit => SessionIInv
<1> SUFFICES ASSUME SessionInit PROVE SessionIInv
  OBVIOUS
<1> USE DEF SessionInit
<1>1. SessionTypeOK
  <2>1. vAddr \in -1..MaxAddr + 1
    BY Bounds
  <2>2. wait \in 0..(Timeout + ConnectTime) /\ elapsed \in 0..MaxElapsed /\ left \in -1..Timeout
    BY Bounds
  <2> QED BY <2>1, <2>2 DEF SessionTypeOK
<1>2. Early
  BY Stages DEF Early
<1>3. ClosedAtEnd
  BY DEF ClosedAtEnd
<1>4. Deadline
  <2>1. seen \in Seq({})
    BY EmptySeq
  <2> QED BY <2>1 DEF Deadline, Good
<1> QED BY <1>1, <1>2, <1>3, <1>4 DEF SessionIInv
-----------------------------------------------------------------------------
(* Each step.                                                              *)

(* The steps that process no message and leave seen, left and vAddr alone. *)
LEMMA QuietDeadline ==
  ASSUME Deadline, UNCHANGED <<seen, left, vAddr>>, Good' => left # -1
  PROVE  Deadline'
BY DEF Deadline, Heard

LEMMA Connecting ==
  ASSUME SessionIInv, ConnectSocketDirectly \/ Socks5
  PROVE  SessionIInv'
<1> USE DEF SessionIInv, Idle, peerVars, sendVars, streamVars, End
<1>1. SessionTypeOK'
  BY Stages DEF SessionTypeOK, ConnectSocketDirectly, Socks5
<1>2. Early'
  BY Stages DEF Early, ConnectSocketDirectly, Socks5
<1>3. ClosedAtEnd'
  BY Stages DEF ClosedAtEnd, Early, ConnectSocketDirectly, Socks5
<1>4. Deadline'
  <2>1. Good' => left # -1
    BY Stages DEF Good, ConnectSocketDirectly, Socks5
  <2> QED BY <2>1, QuietDeadline DEF ConnectSocketDirectly, Socks5
<1> QED BY <1>1, <1>2, <1>3, <1>4

LEMMA Waiting ==
  ASSUME SessionIInv, Loop \/ SelectEnds \/ SelectFails \/ PeerGone
  PROVE  SessionIInv'
<1> USE DEF SessionIInv, Idle, peerVars, sendVars, streamVars, End, Loop, SelectEnds, SelectFails, PeerGone
<1>1. SessionTypeOK'
  <2>1. wait' \in 0..(Timeout + ConnectTime)
    BY Bounds DEF SessionTypeOK
  <2>2. res' \in BOOLEAN
    BY DEF SessionTypeOK
  <2> QED BY <2>1, <2>2 DEF SessionTypeOK
<1>2. Early'
  BY Stages DEF Early
<1>3. ClosedAtEnd'
  BY DEF ClosedAtEnd
<1>4. Deadline'
  <2>1. Good' => left # -1
    <3>1. CASE Loop
      <4>1. CASE ban
        BY <3>1, <4>1 DEF Good
      <4>2. CASE sock # "open"
        <5>1. res' = FALSE
          BY <3>1, <4>2
        <5> QED BY <5>1 DEF Good
      <4>3. CASE left = 0
        BY <4>3
      <4>4. CASE ~ ban /\ left # 0 /\ sock = "open"
        BY <3>1, <4>4 DEF Good
      <4> QED BY <4>1, <4>2, <4>3, <4>4
    <3>2. CASE SelectEnds \/ SelectFails \/ PeerGone
      BY <3>2 DEF Good
    <3> QED BY <3>1, <3>2
  <2> QED BY <2>1, QuietDeadline
<1> QED BY <1>1, <1>2, <1>3, <1>4

LEMMA Moving ==
  ASSUME SessionIInv, PushVersion \/ Send \/ Recv \/ NoMessage \/ BadHeader \/ BadChecksum
  PROVE  SessionIInv'
<1> USE DEF SessionIInv, peerVars, sendVars, streamVars,
            PushVersion, Send, Recv, NoMessage, BadHeader, BadChecksum, Complete
<1>1. SessionTypeOK'
  BY DEF SessionTypeOK
<1>2. Early'
  BY Stages DEF Early
<1>3. ClosedAtEnd'
  BY DEF ClosedAtEnd
<1>4. Deadline'
  <2>1. Good' => left # -1
    BY DEF Good
  <2> QED BY <2>1, QuietDeadline
<1> QED BY <1>1, <1>2, <1>3, <1>4

LEMMA Throwing == ASSUME SessionIInv, Throw PROVE SessionIInv'
<1> USE DEF SessionIInv, Throw, Idle, peerVars, sendVars, streamVars, End, Complete
<1>1. SessionTypeOK'
  BY DEF SessionTypeOK
<1>2. Early'
  BY Stages DEF Early
<1>3. ClosedAtEnd'
  <2>1. Incomplete' = Incomplete /\ Throws' = Throws
    BY DEF Incomplete, Throws, Head_, HeaderSize, Body, Payload
  <2> QED BY <2>1 DEF ClosedAtEnd
<1>4. Deadline'
  <2>1. Good' => left # -1
    BY DEF Good
  <2> QED BY <2>1, QuietDeadline
<1> QED BY <1>1, <1>2, <1>3, <1>4

LEMMA Ticking == ASSUME SessionIInv, Tick PROVE SessionIInv'
<1> USE DEF SessionIInv, Tick, peerVars, sendVars, streamVars
<1>1. SessionTypeOK'
  BY SessionAssumption, Stages DEF SessionTypeOK
<1>2. Early'
  BY Stages DEF Early
<1>3. ClosedAtEnd'
  BY Stages DEF ClosedAtEnd
<1>4. Deadline'
  BY Stages DEF Deadline, Heard, Good, SessionTypeOK
<1> QED BY <1>1, <1>2, <1>3, <1>4

LEMMA Counts == \A b \in DOMAIN AddrCount : AddrCount[b] \in Nat
BY Bounds DEF AddrCount

(* What a message does to the deadline and to the batch of addresses.      *)
LEMMA MessageTypes == ASSUME SessionTypeOK, ProcessMessage PROVE SessionTypeOK'
<1> USE DEF SessionTypeOK
<1>1. Timeout \in Nat /\ MaxAddr \in Nat /\ Timeout >= 1
  BY Bounds
<1>2. CASE Head_[3] = "version" /\ GotVersionMessage(Body)
  <2>1. Body \in Versions
    BY <1>2 DEF ProcessMessage, Throws
  <2>2. left' \in -1..Timeout
    BY <1>1, <1>2 DEF GotVersionMessage, GotVersion
  <2> QED BY <1>1, <1>2, <2>1, <2>2 DEF ProcessMessage, GotVersionMessage
<1>3. CASE Head_[3] = "verack" /\ GotVerack
  <2>1. left' \in -1..Timeout
    BY <1>1, <1>3 DEF GotVerack, GotVersion
  <2> QED BY <1>1, <1>3, <2>1 DEF ProcessMessage, GotVerack
<1>4. ASSUME Head_[3] = "addr", vAddr # -1,
             NEW fresh \in 0..AddrCount[Body], GotAddr(AddrCount[Body], fresh)
      PROVE  SessionTypeOK'
  <2>1. Body \in DOMAIN AddrCount
    BY <1>4 DEF ProcessMessage, Throws
  <2>2. AddrCount[Body] \in Nat
    BY <2>1, Counts
  <2>3. vAddr' \in -1..MaxAddr + 1 /\ left' \in -1..Timeout
    BY <1>1, <1>4, <2>2 DEF GotAddr, Full, Hurry
  <2> QED BY <1>1, <1>4, <2>3 DEF ProcessMessage, GotAddr
<1>5. CASE UNCHANGED <<pc, old, said, vSend, vAddr, left>>
  BY <1>5 DEF ProcessMessage
<1> QED BY <1>2, <1>3, <1>4, <1>5 DEF ProcessMessage

LEMMA Growing ==
  ASSUME Deadline, SessionTypeOK, NEW m, seen' = Append(seen, m), vAddr # -1 => vAddr' # -1
  PROVE  /\ \E S : seen' \in Seq(S)
         /\ Heard => Heard'
         /\ Len(seen') \in DOMAIN seen' /\ seen'[Len(seen')] = m
<1>1. PICK S : seen \in Seq(S)
  BY DEF Deadline
<1>2. seen \in Seq(S \cup {m}) /\ m \in S \cup {m}
  BY <1>1
<1>3. seen' \in Seq(S \cup {m})
  BY <1>2
<1>4. \A i \in DOMAIN seen : i \in DOMAIN seen' /\ seen'[i] = seen[i]
  BY <1>2
<1>5. Heard => Heard'
  BY <1>4 DEF Heard
<1>6. Len(seen') \in DOMAIN seen' /\ seen'[Len(seen')] = m
  BY <1>2
<1> QED BY <1>3, <1>5, <1>6

LEMMA Messages == ASSUME SessionIInv, ProcessMessage PROVE SessionIInv'
<1> USE DEF SessionIInv
<1>1. pc = "frame" /\ pc' \in {"frame", "send"}
  BY DEF ProcessMessage, Complete, GotVersionMessage, GotVerack, GotAddr
<1>2. SessionTypeOK'
  BY MessageTypes
<1>3. Early'
  BY <1>1, Stages DEF Early
<1>4. ClosedAtEnd'
  BY <1>1 DEF ClosedAtEnd
<1>5. ~ Good'
  BY <1>1 DEF Good
<1>6. vAddr # -1 => vAddr' # -1
  <2>1. ASSUME vAddr # -1, Head_[3] = "addr",
               NEW fresh \in 0..AddrCount[Body], GotAddr(AddrCount[Body], fresh)
        PROVE  vAddr' # -1
    <3>1. AddrCount[Body] \in Nat
      BY <2>1, Counts DEF ProcessMessage, Throws
    <3> QED BY <2>1, <3>1, Bounds DEF GotAddr, SessionTypeOK
  <2> QED BY <2>1 DEF ProcessMessage, GotVersionMessage, GotVerack
<1>7. seen' = Append(seen, <<Head_[3], Body>>)
  BY DEF ProcessMessage
<1>8. left' # -1 => Heard'
  <2>1. CASE left' = left
    BY <2>1, <1>6, <1>7, Growing DEF Deadline
  <2>2. CASE left' # left
    <3>1. \/ Head_[3] = "verack" \/ <<Head_[3], Body>> = <<"version", "v150">>
          \/ Head_[3] = "addr" /\ vAddr # -1
      BY <2>2 DEF ProcessMessage, GotVersionMessage
    <3> QED BY <3>1, <1>6, <1>7, Growing DEF Heard
  <2> QED BY <2>1, <2>2
<1>9. Deadline'
  BY <1>5, <1>6, <1>7, <1>8, Growing DEF Deadline
<1> QED BY <1>2, <1>3, <1>4, <1>9

LEMMA SessionIInvStep ==
  SessionIInv /\ [SessionNext]_sessionVars => SessionIInv'
<1> SUFFICES ASSUME SessionIInv, [SessionNext]_sessionVars PROVE SessionIInv'
  OBVIOUS
<1>1. CASE UNCHANGED sessionVars
  <2> USE <1>1 DEF SessionIInv, sessionVars, streamVars, peerVars, sendVars
  <2>1. SessionTypeOK'
    BY DEF SessionTypeOK
  <2>2. Early'
    BY DEF Early
  <2>3. ClosedAtEnd'
    <3>1. Incomplete' = Incomplete /\ Throws' = Throws
      BY DEF Incomplete, Throws, Head_, HeaderSize, Body, Payload
    <3> QED BY <3>1 DEF ClosedAtEnd
  <2>4. Deadline'
    BY DEF Deadline, Heard, Good
  <2> QED BY <2>1, <2>2, <2>3, <2>4
<1>2. CASE Program
  BY <1>2, Waiting, Moving, Throwing, Messages DEF Program
<1>3. CASE SessionNext /\ ~ Program
  BY <1>3, Connecting, Waiting, Moving, Ticking DEF SessionNext
<1> QED
  BY <1>1, <1>2, <1>3

LEMMA SessionIInvHolds == SessionSpec => []SessionIInv
BY SessionIInvInit, SessionIInvStep, PTL DEF SessionSpec
-----------------------------------------------------------------------------
(* FlattenSeq, one sequence at a time: its recursive function exists, and  *)
(* what it is for a sequence does not change when the sequence grows.      *)
Unrolled(f, s) == [i \in 1..Len(s) |-> IF i = 1 THEN s[i] ELSE f[i - 1] \o s[i]]

LEMMA LeastOf ==
  ASSUME NEW N \in SUBSET Nat, N # {}
  PROVE  \E n \in N : \A m \in N : n <= m
<1>1. PICK n \in N : \A m \in N : ~ (<<m, n>> \in OpToRel(<, Nat))
  BY WFMin, NatLessThanWellFounded
<1>2. n \in Nat /\ \A m \in N : m \in Nat
  OBVIOUS
<1>3. \A m \in N : ~ (m < n)
  BY <1>1, <1>2 DEF OpToRel
<1> QED
  BY <1>2, <1>3

LEMMA FlattenExists ==
  ASSUME NEW S, NEW s \in Seq(Seq(S))
  PROVE  \E f \in [1..Len(s) -> Seq(S)] :
            \A i \in 1..Len(s) : f[i] = IF i = 1 THEN s[i] ELSE f[i - 1] \o s[i]
<1> DEFINE Upto(n) == \E f \in [1..n -> Seq(S)] :
                         \A i \in 1..n : f[i] = IF i = 1 THEN s[i] ELSE f[i - 1] \o s[i]
           Missing == {n \in 0..Len(s) : ~ Upto(n)}
<1>1. Len(s) \in Nat /\ \A i \in 1..Len(s) : s[i] \in Seq(S)
  BY LenProperties, ElementOfSeq
<1>2. SUFFICES ASSUME Missing # {} PROVE FALSE
  <2>1. Len(s) \in 0..Len(s)
    BY <1>1
  <2>2. Missing = {} => Upto(Len(s))
    BY <2>1
  <2> QED
    BY <2>2
<1>3. PICK n \in Missing : \A m \in Missing : n <= m
  <2>1. Missing \in SUBSET Nat
    BY <1>1
  <2> QED
    BY <1>2, <2>1, LeastOf
<1>4. Upto(0)
  <2>1. 1..0 = {}
    OBVIOUS
  <2>2. [i \in 1..0 |-> {}] \in [1..0 -> Seq(S)]
    BY <2>1
  <2> QED
    BY <2>1, <2>2
<1>5. n \in 1..Len(s) /\ n - 1 \in 0..Len(s) /\ n - 1 < n
  <2>1. n \in 0..Len(s) /\ ~ Upto(n)
    BY <1>3
  <2>2. n # 0
    BY <1>4, <2>1
  <2> QED
    BY <1>1, <2>1, <2>2
<1>6. Upto(n - 1)
  <2>1. ~ (n <= n - 1)
    BY <1>1, <1>5
  <2>2. n - 1 \notin Missing
    BY <1>3, <2>1
  <2> QED
    BY <1>5, <2>2
<1>7. PICK f \in [1..n - 1 -> Seq(S)] :
         \A i \in 1..n - 1 : f[i] = IF i = 1 THEN s[i] ELSE f[i - 1] \o s[i]
  BY <1>6
<1> DEFINE last == IF n = 1 THEN s[n] ELSE f[n - 1] \o s[n]
           g == [i \in 1..n |-> IF i = n THEN last ELSE f[i]]
<1>8. last \in Seq(S)
  <2>1. CASE n = 1
    BY <1>1, <1>5, <2>1
  <2>2. CASE n # 1
    <3>1. n - 1 \in 1..n - 1
      BY <1>5, <2>2
    <3>2. f[n - 1] \in Seq(S) /\ s[n] \in Seq(S)
      BY <1>1, <1>5, <3>1
    <3> QED
      BY <2>2, <3>2, ConcatProperties
  <2> QED
    BY <2>1, <2>2
<1> HIDE DEF last
<1>9. g \in [1..n -> Seq(S)]
  <2>1. \A i \in 1..n : i # n => i \in 1..n - 1
    BY <1>5
  <2> QED
    BY <1>8, <2>1
<1>10. ASSUME NEW i \in 1..n PROVE g[i] = IF i = 1 THEN s[i] ELSE g[i - 1] \o s[i]
  <2>1. CASE i = n
    <3>1. n # 1 => n - 1 \in 1..n /\ n - 1 # n
      BY <1>5
    <3> QED
      BY <2>1, <3>1 DEF last
  <2>2. CASE i # n
    <3>1. i \in 1..n - 1 /\ (i # 1 => i - 1 \in 1..n /\ i - 1 # n)
      BY <1>5, <2>2
    <3> QED
      BY <1>7, <2>2, <3>1
  <2> QED
    BY <2>1, <2>2
<1>11. Upto(n)
  BY <1>9, <1>10
<1> QED
  BY <1>3, <1>11

LEMMA FlattenIs ==
  ASSUME NEW S, NEW s \in Seq(Seq(S)), s # <<>>
  PROVE  \E f \in [1..Len(s) -> Seq(S)] :
            /\ FlattenSeq(s) = f[Len(s)]
            /\ \A i \in 1..Len(s) : f[i] = IF i = 1 THEN s[i] ELSE f[i - 1] \o s[i]
<1> DEFINE g == CHOOSE f : f = Unrolled(f, s)
<1>1. FlattenSeq(s) = g[Len(s)]
  <2>1. Len(s) # 0
    BY EmptySeq
  <2> QED
    BY <2>1 DEF FlattenSeq, Unrolled
<1>2. PICK f \in [1..Len(s) -> Seq(S)] :
         \A i \in 1..Len(s) : f[i] = IF i = 1 THEN s[i] ELSE f[i - 1] \o s[i]
  BY FlattenExists
<1>3. f = Unrolled(f, s)
  BY <1>2 DEF Unrolled
<1>4. g = Unrolled(g, s)
  BY <1>3
<1> HIDE DEF g
<1>5. DOMAIN g = 1..Len(s) /\ \A i \in 1..Len(s) : g[i] = IF i = 1 THEN s[i] ELSE g[i - 1] \o s[i]
  BY <1>4 DEF Unrolled
<1>6. g = [i \in DOMAIN g |-> g[i]]
  BY <1>4 DEF Unrolled
<1> DEFINE Other == {n \in 1..Len(s) : g[n] # f[n]}
<1>7. Other = {}
  <2>1. SUFFICES ASSUME Other # {} PROVE FALSE
    OBVIOUS
  <2>2. PICK n \in Other : \A m \in Other : n <= m
    <3>1. Other \in SUBSET Nat
      BY LenProperties
    <3> QED
      BY <2>1, <3>1, LeastOf
  <2>3. n \in 1..Len(s) /\ Len(s) \in Nat /\ (n # 1 => n - 1 \in 1..Len(s) /\ n - 1 < n)
    BY <2>2, LenProperties
  <2>4. n # 1 => g[n - 1] = f[n - 1]
    BY <2>2, <2>3
  <2>5. g[n] = f[n]
    BY <1>2, <1>5, <2>3, <2>4
  <2> QED
    BY <2>2, <2>5
<1>8. g[Len(s)] = f[Len(s)]
  <2>1. Len(s) \in 1..Len(s)
    BY EmptySeq, LenProperties
  <2> QED
    BY <1>7, <2>1
<1> QED
  BY <1>1, <1>2, <1>8

LEMMA FlattenMore ==
  ASSUME NEW S, NEW s \in Seq(Seq(S)), NEW x \in Seq(S)
  PROVE  FlattenSeq(s) \in Seq(S) /\ FlattenSeq(Append(s, x)) = FlattenSeq(s) \o x
<1> DEFINE n == Len(s)
           t == Append(s, x)
<1>1. n \in Nat /\ t \in Seq(Seq(S)) /\ Len(t) = n + 1 /\ t[n + 1] = x
      /\ \A i \in 1..n : t[i] = s[i]
  BY AppendProperties, LenProperties
<1>2. t # <<>>
  BY <1>1, EmptySeq
<1> HIDE DEF t
<1>3. PICK h \in [1..Len(t) -> Seq(S)] :
         /\ FlattenSeq(t) = h[Len(t)]
         /\ \A i \in 1..Len(t) : h[i] = IF i = 1 THEN t[i] ELSE h[i - 1] \o t[i]
  BY <1>1, <1>2, FlattenIs
<1>4. n + 1 \in 1..Len(t) /\ h[n + 1] = IF n + 1 = 1 THEN x ELSE h[n] \o x
  <2>1. n + 1 \in 1..Len(t) /\ n + 1 - 1 = n
    BY <1>1
  <2> QED
    <3>1. PICK i : i = n + 1 /\ i \in 1..Len(t) /\ i - 1 = n
      BY <2>1
    <3>2. h[i] = IF i = 1 THEN t[i] ELSE h[i - 1] \o t[i]
      BY <1>3, <3>1
    <3> QED
      BY <1>1, <2>1, <3>1, <3>2
<1>5. CASE s = <<>>
  <2>1. n = 0 /\ FlattenSeq(s) = <<>>
    BY <1>5, EmptySeq DEF FlattenSeq
  <2>2. <<>> \o x = x /\ <<>> \in Seq(S)
    BY ConcatEmptySeq, EmptySeq
  <2>3. FlattenSeq(t) = x
    BY <1>1, <1>3, <1>4, <2>1
  <2> QED
    BY <2>1, <2>2, <2>3 DEF t
<1>6. CASE s # <<>>
  <2>1. PICK f \in [1..n -> Seq(S)] :
           /\ FlattenSeq(s) = f[n]
           /\ \A i \in 1..n : f[i] = IF i = 1 THEN s[i] ELSE f[i - 1] \o s[i]
    BY <1>6, FlattenIs
  <2>2. n \in 1..n
    BY <1>6, EmptySeq, LenProperties
  <2> DEFINE Other == {k \in 1..n : f[k] # h[k]}
  <2>3. Other = {}
    <3>1. SUFFICES ASSUME Other # {} PROVE FALSE
      OBVIOUS
    <3>2. PICK k \in Other : \A m \in Other : k <= m
      <4>1. Other \in SUBSET Nat
        BY <1>1
      <4> QED
        BY <3>1, <4>1, LeastOf
    <3> HIDE DEF n
    <3>3. k \in 1..n /\ k \in 1..Len(t) /\ (k # 1 => k - 1 \in 1..n /\ k - 1 < k)
      BY <1>1, <3>2
    <3>4. k # 1 => f[k - 1] = h[k - 1]
      BY <1>1, <3>2, <3>3
    <3>5. f[k] = h[k]
      <4>1. f[k] = IF k = 1 THEN s[k] ELSE f[k - 1] \o s[k]
        BY <2>1, <3>3
      <4>2. h[k] = IF k = 1 THEN t[k] ELSE h[k - 1] \o t[k]
        BY <1>3, <3>3
      <4>3. t[k] = s[k]
        BY <1>1, <3>3
      <4> QED
        BY <3>4, <4>1, <4>2, <4>3
    <3> QED
      BY <3>2, <3>5
  <2>4. f[n] = h[n] /\ f[n] \in Seq(S)
    BY <2>1, <2>2, <2>3
  <2>5. h[n + 1] = h[n] \o x
    BY <1>1, <1>4, <2>2
  <2> QED
    BY <1>1, <1>3, <2>1, <2>4, <2>5 DEF t
<1> QED
  BY <1>5, <1>6
-----------------------------------------------------------------------------
(* What is sent.                                                           *)

Sayings == {"version", "verack", "getaddr"}

Replies == [i \in DOMAIN seen |-> Reply(seen[i])]

Due == <<"version">> \o FlattenSeq(Replies)

Begun == {"send", "loop", "select", "frame"}

(* Before the end of a session, all that is due is sent or queued, in its  *)
(* order, from the version message on.                                     *)
Delivery ==
  /\ vSend \in Seq(Sayings) /\ sent \in Seq(Sayings)
  /\ pc \in {"direct", "hello"} \cup DOMAIN Stage => seen = <<>>
  /\ pc \in Begun => sent \o vSend = Due
  /\ pc = "end" => sent \o vSend = Due \/ sent \o vSend = <<>>

LEMMA RepliesAre ==
  ASSUME Deadline
  PROVE  /\ Replies \in Seq(Seq(Sayings)) /\ DOMAIN Replies = DOMAIN seen
         /\ Len(Replies) = Len(seen) /\ \A m : Reply(m) \in Seq(Sayings)
<1>1. PICK S : seen \in Seq(S)
  BY DEF Deadline
<1>2. \A m : Reply(m) \in Seq(Sayings)
  BY DEF Reply, Sayings
<1>3. Len(seen) \in Nat /\ DOMAIN seen = 1..Len(seen)
  BY <1>1, LenProperties
<1>4. Replies \in [1..Len(seen) -> Seq(Sayings)]
  BY <1>2, <1>3 DEF Replies
<1> QED
  BY <1>2, <1>3, <1>4

(* The steps that neither queue nor send a message.                        *)
LEMMA SilentStep ==
  ASSUME Delivery, UNCHANGED <<seen, sendVars, vAddr>>,
         pc' \in Begun => pc \in Begun,
         pc' = "end" => pc \in Begun \cup {"end"} \/ (sent = <<>> /\ vSend = <<>>),
         pc' \in {"direct", "hello"} \cup DOMAIN Stage => pc \in {"direct", "hello"} \cup DOMAIN Stage
  PROVE  Delivery'
<1>1. Due' = Due
  BY DEF Due, Replies, Reply
<1>2. <<>> \o <<>> = <<>>
  OBVIOUS
<1> QED
  BY <1>1, <1>2 DEF Delivery, sendVars

LEMMA Partly ==
  ASSUME NEW S, NEW v \in Seq(S), NEW w \in Seq(S), NEW n \in 0..Len(v)
  PROVE  /\ w \o SubSeq(v, 1, n) \in Seq(S) /\ SubSeq(v, n + 1, Len(v)) \in Seq(S)
         /\ (w \o SubSeq(v, 1, n)) \o SubSeq(v, n + 1, Len(v)) = w \o v
<1> DEFINE a == SubSeq(v, 1, n)
           b == SubSeq(v, n + 1, Len(v))
<1>1. Len(v) \in Nat /\ n \in Nat /\ n <= Len(v) /\ \A i \in 1..Len(v) : v[i] \in S
  BY LenProperties, ElementOfSeq
<1>2. a \in Seq(S)
  <2>1. \A i \in 1..n : v[i] \in S
    BY <1>1
  <2> QED
    BY <1>1, <2>1, SubSeqProperties
<1>3. b \in Seq(S)
  <2>1. \A i \in n + 1..Len(v) : v[i] \in S
    BY <1>1
  <2> QED
    BY <1>1, <2>1, SubSeqProperties
<1> HIDE DEF a, b
<1>4. a \o b = v
  <2>1. 1 \in 1..Len(v) + 1 /\ n \in 1 - 1..Len(v) /\ Len(v) \in n..Len(v)
    BY <1>1
  <2>2. SubSeq(v, 1, n) \o SubSeq(v, n + 1, Len(v)) = SubSeq(v, 1, Len(v))
    BY <2>1, ConcatAdjacentSubSeq
  <2> QED
    BY <2>2, SubSeqFull DEF a, b
<1>5. (w \o a) \o b = w \o (a \o b)
  BY <1>2, <1>3, ConcatAssociative
<1>6. w \o a \in Seq(S)
  BY <1>2, ConcatProperties
<1> QED
  BY <1>3, <1>4, <1>5, <1>6 DEF a, b

LEMMA PushStep == ASSUME SessionIInv, Delivery, PushVersion PROVE Delivery'
<1>1. pc' = "send" /\ vSend' = <<"version">> /\ sent' = <<>> /\ seen' = <<>>
  BY DEF SessionIInv, Early, Delivery, PushVersion, peerVars
<1>2. Replies' = <<>>
  BY <1>1 DEF Replies
<1>3. Due' = <<"version">>
  BY <1>2 DEF Due, FlattenSeq
<1>4. sent' \o vSend' = Due'
  BY <1>1, <1>3
<1> QED
  BY <1>1, <1>4, Stages DEF Delivery, Sayings, Begun

LEMMA SendStep == ASSUME SessionIInv, Delivery, Send PROVE Delivery'
<1>1. pc = "send" /\ pc' = "loop" /\ Due' = Due /\ sent \o vSend = Due
  <2>1. pc = "send" /\ pc' = "loop" /\ seen' = seen /\ vAddr' = vAddr
    BY DEF Send, peerVars
  <2>2. Due' = Due
    BY <2>1 DEF Due, Replies, Reply
  <2> QED
    BY <2>1, <2>2 DEF Delivery, Begun
<1>2. CASE UNCHANGED sendVars
  BY <1>1, <1>2, Stages DEF Delivery, sendVars
<1>3. ASSUME NEW n \in 0..Len(vSend),
             sent' = sent \o SubSeq(vSend, 1, n), vSend' = From(vSend, n + 1)
      PROVE  Delivery'
  <2>1. PICK v, w : v = vSend /\ w = sent /\ v \in Seq(Sayings) /\ w \in Seq(Sayings)
    BY DEF Delivery
  <2>2. /\ w \o SubSeq(v, 1, n) \in Seq(Sayings) /\ SubSeq(v, n + 1, Len(v)) \in Seq(Sayings)
        /\ (w \o SubSeq(v, 1, n)) \o SubSeq(v, n + 1, Len(v)) = w \o v
    <3>1. n \in 0..Len(v) /\ v \in Seq(Sayings) /\ w \in Seq(Sayings)
      BY <1>3, <2>1
    <3> QED
      BY ONLY <3>1, Partly
  <2>3. sent' = w \o SubSeq(v, 1, n) /\ vSend' = SubSeq(v, n + 1, Len(v))
    BY <1>3, <2>1 DEF From
  <2>4. sent' \o vSend' = Due' /\ vSend' \in Seq(Sayings) /\ sent' \in Seq(Sayings)
    BY <1>1, <2>1, <2>2, <2>3
  <2> QED
    BY <1>1, <2>4, Stages DEF Delivery
<1> QED
  BY <1>2, <1>3 DEF Send

(* A message processed queues its reply behind what is queued.             *)
LEMMA ReplyQueued ==
  ASSUME SessionIInv, Delivery, ProcessMessage
  PROVE  /\ vSend' = vSend \o Reply(<<Head_[3], Body>>)
         /\ vAddr # -1 <=> vAddr' # -1
<1> DEFINE m == <<Head_[3], Body>>
<1>1. vSend \in Seq(Sayings)
  BY DEF Delivery
<1>2. vSend \o <<>> = vSend /\ \A e \in Sayings : Append(vSend, e) = vSend \o <<e>>
  BY <1>1, ConcatEmptySeq, AppendIsConcat
<1>3. m[1] = Head_[3] /\ m[2] = Body /\ (m = <<"version", "v150">> <=> Head_[3] = "version" /\ Body = "v150")
  OBVIOUS
<1>4. CASE Head_[3] = "version" /\ GotVersionMessage(Body)
  <2>1. Reply(m) = IF Body = "v150" THEN IF vAddr # -1 THEN <<"getaddr">> ELSE <<>> ELSE <<"verack">>
    BY <1>3, <1>4 DEF Reply
  <2> QED
    BY <1>2, <1>4, <2>1 DEF GotVersionMessage, GotVersion, Sayings
<1>5. CASE Head_[3] = "verack" /\ GotVerack
  <2>1. Reply(m) = IF vAddr # -1 THEN <<"getaddr">> ELSE <<>>
    BY <1>3, <1>5 DEF Reply
  <2> QED
    BY <1>2, <1>5, <2>1 DEF GotVerack, GotVersion, Sayings
<1>6. ASSUME Head_[3] = "addr", vAddr # -1,
             NEW fresh \in 0..AddrCount[Body], GotAddr(AddrCount[Body], fresh)
      PROVE  vSend' = vSend \o Reply(m) /\ vAddr' # -1
  <2>1. Reply(m) = <<>>
    BY <1>3, <1>6 DEF Reply
  <2>2. AddrCount[Body] \in Nat
    BY <1>6, Counts DEF ProcessMessage, Throws
  <2>3. vAddr' # -1
    BY <1>6, <2>2, Bounds DEF GotAddr, SessionIInv, SessionTypeOK
  <2> QED
    BY <1>2, <1>6, <2>1, <2>3 DEF GotAddr
<1>7. CASE /\ Head_[3] = "ping" \/ (Head_[3] = "addr" /\ vAddr = -1)
           /\ UNCHANGED <<pc, old, said, vSend, vAddr, left>>
  <2>1. Reply(m) = <<>>
    BY <1>3, <1>7 DEF Reply
  <2> QED
    BY <1>2, <1>7, <2>1
<1> QED
  BY <1>4, <1>5, <1>6, <1>7 DEF ProcessMessage

LEMMA MessageDelivery == ASSUME SessionIInv, Delivery, ProcessMessage PROVE Delivery'
<1>1. PICK m : m = <<Head_[3], Body>>
  OBVIOUS
<1>2. /\ vSend' = vSend \o Reply(m) /\ sent' = sent /\ seen' = Append(seen, m)
      /\ vAddr # -1 <=> vAddr' # -1
  BY <1>1, ReplyQueued DEF ProcessMessage
<1>3. pc = "frame" /\ pc' \in {"frame", "send"} /\ sent \o vSend = Due
  BY DEF ProcessMessage, Complete, GotVersionMessage, GotVerack, GotAddr, Delivery, Begun
<1>4. \A k : Reply(k)' = Reply(k)
  BY <1>2 DEF Reply
<1>5. /\ Replies \in Seq(Seq(Sayings)) /\ DOMAIN Replies = DOMAIN seen
      /\ Len(Replies) = Len(seen) /\ Reply(m) \in Seq(Sayings)
  BY RepliesAre DEF SessionIInv
<1>6. PICK r, x : r = Replies /\ x = Reply(m)
  OBVIOUS
<1>7. x \in Seq(Sayings) /\ r \in Seq(Seq(Sayings))
  BY <1>5, <1>6
<1>8. Replies' = Append(r, x)
  <2>1. PICK S : seen \in Seq(S)
    BY DEF SessionIInv, Deadline
  <2>2. seen \in Seq(S \cup {m}) /\ m \in S \cup {m}
    BY <2>1
  <2>3. /\ DOMAIN seen' = 1..Len(seen) + 1 /\ Len(seen) \in Nat /\ DOMAIN seen = 1..Len(seen)
        /\ \A i \in 1..Len(seen) : seen'[i] = seen[i]
        /\ seen'[Len(seen) + 1] = m
    BY <1>2, <2>2
  <2>4. /\ Append(r, x) \in Seq(Seq(Sayings)) /\ Len(r) = Len(seen)
        /\ Len(Append(r, x)) = Len(r) + 1 /\ Append(r, x)[Len(r) + 1] = x
        /\ \A i \in 1..Len(r) : Append(r, x)[i] = r[i]
    BY <1>5, <1>6, <1>7, AppendProperties
  <2>5. Replies' = [i \in 1..Len(seen) + 1 |-> Reply(seen'[i])]
    BY <1>4, <2>3 DEF Replies
  <2>6. ASSUME NEW i \in 1..Len(seen) + 1
        PROVE  Reply(seen'[i]) = Append(r, x)[i]
    <3>1. CASE i = Len(seen) + 1
      BY <1>6, <2>3, <2>4, <3>1
    <3>2. CASE i # Len(seen) + 1
      <4>1. i \in 1..Len(seen) /\ i \in 1..Len(r) /\ i \in DOMAIN seen
        BY <2>3, <2>4, <3>2
      <4>2. r[i] = Reply(seen[i])
        BY <1>6, <4>1 DEF Replies
      <4> QED
        BY <2>3, <2>4, <4>1, <4>2
    <3> QED
      BY <3>1, <3>2
  <2>7. Append(r, x) = [i \in 1..Len(seen) + 1 |-> Append(r, x)[i]]
    <3>1. PICK t : t = Append(r, x) /\ t \in Seq(Seq(Sayings)) /\ Len(t) = Len(seen) + 1
      BY <2>4
    <3>2. t \in [1..Len(t) -> Seq(Sayings)]
      BY <3>1, LenProperties
    <3>3. t = [i \in 1..Len(seen) + 1 |-> t[i]]
      BY <3>1, <3>2
    <3> QED
      BY <3>1, <3>3
  <2> QED
    BY <2>5, <2>6, <2>7
<1>9. FlattenSeq(r) \in Seq(Sayings) /\ FlattenSeq(Append(r, x)) = FlattenSeq(r) \o x
  BY <1>7, FlattenMore
<1>10. Due' = Due \o x
  <2>1. PICK first, f : first = <<"version">> /\ f = FlattenSeq(r)
    OBVIOUS
  <2>2. first \in Seq(Sayings) /\ f \in Seq(Sayings)
    BY <1>9, <2>1 DEF Sayings
  <2>3. first \o (f \o x) = (first \o f) \o x
    <3>1. x \in Seq(Sayings)
      BY <1>7
    <3> QED
      BY ONLY <2>2, <3>1, ConcatAssociative
  <2>4. Due' = first \o (f \o x) /\ Due = first \o f
    BY <1>6, <1>8, <1>9, <2>1 DEF Due
  <2> QED
    BY <2>3, <2>4
<1>11. sent' \o vSend' = Due' /\ vSend' \in Seq(Sayings)
  <2>1. PICK v, w : v = vSend /\ w = sent /\ v \in Seq(Sayings) /\ w \in Seq(Sayings)
    BY DEF Delivery
  <2>2. w \o (v \o x) = (w \o v) \o x /\ v \o x \in Seq(Sayings)
    BY <1>7, <2>1, ConcatAssociative, ConcatProperties
  <2> QED
    BY <1>2, <1>3, <1>6, <1>10, <2>1, <2>2
<1> QED
  BY <1>2, <1>3, <1>11, Stages DEF Delivery

LEMMA DeliveryInit == SessionInit => Delivery
<1>1. <<>> \in Seq(Sayings)
  BY EmptySeq
<1> QED
  BY <1>1 DEF SessionInit, Delivery, Begun

LEMMA DeliveryStep ==
  SessionIInv /\ Delivery /\ [SessionNext]_sessionVars => Delivery'
<1> SUFFICES ASSUME SessionIInv, Delivery, [SessionNext]_sessionVars PROVE Delivery'
  OBVIOUS
<1>1. CASE UNCHANGED sessionVars
  BY <1>1, SilentStep, Stages DEF sessionVars, peerVars, sendVars
<1>2. CASE ConnectSocketDirectly \/ Socks5
  BY <1>2, SilentStep, Stages
     DEF ConnectSocketDirectly, Socks5, Idle, peerVars, sendVars, End, SessionIInv, Early, Begun
<1>3. CASE Loop \/ SelectEnds \/ SelectFails \/ PeerGone
  BY <1>3, SilentStep, Stages
     DEF Loop, SelectEnds, SelectFails, PeerGone, Idle, peerVars, sendVars, End, Begun
<1>4. CASE Recv \/ NoMessage \/ BadHeader \/ BadChecksum
  BY <1>4, SilentStep, Stages
     DEF Recv, NoMessage, BadHeader, BadChecksum, Complete, peerVars, sendVars, Begun
<1>5. CASE Throw \/ Tick
  BY <1>5, SilentStep, Stages DEF Throw, Tick, Complete, Idle, peerVars, sendVars, End, Begun
<1> QED
  BY <1>1, <1>2, <1>3, <1>4, <1>5, PushStep, SendStep, MessageDelivery DEF SessionNext, Program

-----------------------------------------------------------------------------
(* What is left of a stream from a position on.                            *)
LEMMA FromIs ==
  ASSUME NEW S, NEW s \in Seq(S), NEW p \in 1..Len(s) + 1
  PROVE  /\ From(s, p) \in Seq(S) /\ Len(From(s, p)) = Len(s) - p + 1
         /\ \A i \in 1..Len(s) - p + 1 : From(s, p)[i] = s[p + i - 1]
<1>1. Len(s) \in Nat /\ \A k \in p..Len(s) : s[k] \in S
  <2>1. Len(s) \in Nat
    BY LenProperties
  <2>2. \A k \in p..Len(s) : k \in 1..Len(s)
    BY <2>1
  <2> QED
    BY <2>1, <2>2, ElementOfSeq
<1>2. /\ From(s, p) \in Seq(S)
      /\ Len(From(s, p)) = IF p <= Len(s) THEN Len(s) - p + 1 ELSE 0
      /\ \A i \in 1..Len(s) - p + 1 : From(s, p)[i] = s[p + i - 1]
  BY <1>1, SubSeqProperties DEF From
<1>3. (IF p <= Len(s) THEN Len(s) - p + 1 ELSE 0) = Len(s) - p + 1
  BY <1>1
<1> QED
  BY <1>2, <1>3

LEMMA FromOn ==
  ASSUME NEW S, NEW s \in Seq(S), NEW p \in 1..Len(s) + 1, NEW k \in 1..Len(s) - p + 2
  PROVE  /\ p + k - 1 \in 1..Len(s) + 1
         /\ From(From(s, p), k) = From(s, p + k - 1)
<1>1. Len(s) \in Nat
  BY LenProperties
<1>2. PICK u : u = From(s, p)
  OBVIOUS
<1>3. u \in Seq(S) /\ Len(u) = Len(s) - p + 1 /\ \A i \in 1..Len(s) - p + 1 : u[i] = s[p + i - 1]
  BY <1>2, FromIs
<1>4. p + k - 1 \in 1..Len(s) + 1 /\ k \in 1..Len(u) + 1
  BY <1>1, <1>3
<1>5. PICK a, b, q : a = From(u, k) /\ q = p + k - 1 /\ b = From(s, q)
  OBVIOUS
<1>6. q \in 1..Len(s) + 1
  BY <1>4, <1>5
<1>7. a \in Seq(S) /\ Len(a) = Len(u) - k + 1 /\ \A i \in 1..Len(u) - k + 1 : a[i] = u[k + i - 1]
  BY <1>3, <1>4, <1>5, FromIs
<1>8. b \in Seq(S) /\ Len(b) = Len(s) - q + 1 /\ \A i \in 1..Len(s) - q + 1 : b[i] = s[q + i - 1]
  BY <1>5, <1>6, FromIs
<1>9. Len(a) = Len(b)
  BY <1>1, <1>3, <1>5, <1>7, <1>8
<1>10. ASSUME NEW i \in 1..Len(a) PROVE a[i] = b[i]
  <2>1. i \in 1..Len(u) - k + 1 /\ i \in 1..Len(s) - q + 1
    BY <1>1, <1>3, <1>5, <1>7, <1>10
  <2>2. k + i - 1 \in 1..Len(s) - p + 1 /\ p + (k + i - 1) - 1 = q + i - 1
    BY <1>1, <1>3, <1>5, <1>7, <1>10
  <2>3. a[i] = u[k + i - 1] /\ u[k + i - 1] = s[p + (k + i - 1) - 1]
    BY <1>3, <1>7, <2>1, <2>2
  <2>4. b[i] = s[q + i - 1]
    BY <1>8, <2>1
  <2> QED
    BY <2>2, <2>3, <2>4
<1>11. a = b
  BY <1>7, <1>8, <1>9, <1>10, SeqEqual
<1> QED
  BY <1>2, <1>4, <1>5, <1>11

LEMMA FromMore ==
  ASSUME NEW S, NEW s \in Seq(S), NEW t \in Seq(S), NEW p \in 1..Len(s) + 1
  PROVE  /\ p \in 1..Len(s \o t) + 1
         /\ From(s \o t, p) = From(s, p) \o t
<1>1. Len(s) \in Nat /\ Len(t) \in Nat
  BY LenProperties
<1>2. PICK x : x = s \o t
  OBVIOUS
<1>3. /\ x \in Seq(S) /\ Len(x) = Len(s) + Len(t)
      /\ \A i \in 1..Len(s) + Len(t) : x[i] = IF i <= Len(s) THEN s[i] ELSE t[i - Len(s)]
  BY <1>2, ConcatProperties
<1>4. PICK u : u = From(s, p)
  OBVIOUS
<1>5. u \in Seq(S) /\ Len(u) = Len(s) - p + 1 /\ \A i \in 1..Len(s) - p + 1 : u[i] = s[p + i - 1]
  BY <1>4, FromIs
<1>6. p \in 1..Len(x) + 1
  BY <1>1, <1>3
<1>7. PICK a, b : a = From(x, p) /\ b = u \o t
  OBVIOUS
<1>8. a \in Seq(S) /\ Len(a) = Len(x) - p + 1 /\ \A i \in 1..Len(x) - p + 1 : a[i] = x[p + i - 1]
  BY <1>3, <1>6, <1>7, FromIs
<1>9. /\ b \in Seq(S) /\ Len(b) = Len(u) + Len(t)
      /\ \A i \in 1..Len(u) + Len(t) : b[i] = IF i <= Len(u) THEN u[i] ELSE t[i - Len(u)]
  BY <1>5, <1>7, ConcatProperties
<1>10. Len(a) = Len(b)
  BY <1>1, <1>3, <1>5, <1>8, <1>9
<1>11. ASSUME NEW i \in 1..Len(a) PROVE a[i] = b[i]
  <2>1. i \in Int /\ i \in 1..Len(x) - p + 1 /\ i \in 1..Len(u) + Len(t)
        /\ p + i - 1 \in 1..Len(s) + Len(t)
    BY <1>1, <1>3, <1>5, <1>8, <1>9, <1>10
  <2>2. a[i] = IF p + i - 1 <= Len(s) THEN s[p + i - 1] ELSE t[p + i - 1 - Len(s)]
    BY <1>3, <1>8, <2>1
  <2>3. b[i] = IF i <= Len(u) THEN u[i] ELSE t[i - Len(u)]
    BY <1>9, <2>1
  <2>4. CASE i <= Len(u)
    <3>1. i \in 1..Len(s) - p + 1 /\ p + i - 1 <= Len(s)
      BY <1>1, <1>5, <2>1, <2>4
    <3> QED
      BY <1>5, <2>2, <2>3, <2>4, <3>1
  <2>5. CASE ~ (i <= Len(u))
    <3>1. ~ (p + i - 1 <= Len(s)) /\ p + i - 1 - Len(s) = i - Len(u)
      BY <1>1, <1>5, <2>1, <2>5
    <3> QED
      BY <2>2, <2>3, <2>5, <3>1
  <2> QED
    BY <2>4, <2>5
<1>12. a = b
  BY <1>8, <1>9, <1>10, <1>11, SeqEqual
<1> QED
  BY <1>2, <1>4, <1>6, <1>7, <1>12
-----------------------------------------------------------------------------
(* A message begins at q.                                                  *)
Begins(s, q) == q \in 1..Len(s) - 1 /\ s[q] = "m1" /\ s[q + 1] = "m2"

LEMMA StartIs ==
  ASSUME NEW S, NEW s \in Seq(S)
  PROVE  /\ Start(s) \in 1..Len(s) + 1
         /\ Start(s) = Len(s) + 1 \/ Begins(s, Start(s))
         /\ \A q \in 1..Start(s) - 1 : ~ Begins(s, q)
<1> DEFINE at == {p \in 1..Len(s) - 1 : s[p] = "m1" /\ s[p + 1] = "m2"}
<1>1. Len(s) \in Nat /\ \A q : q \in at <=> Begins(s, q)
  BY LenProperties DEF Begins
<1>2. Start(s) = IF at = {} THEN Len(s) + 1 ELSE CHOOSE p \in at : \A q \in at : p <= q
  BY DEF Start
<1> HIDE DEF at
<1>3. CASE at = {}
  BY <1>1, <1>2, <1>3
<1>4. CASE at # {}
  <2>1. at \in SUBSET Nat
    BY <1>1 DEF Begins
  <2>2. \E p \in at : \A q \in at : p <= q
    BY <1>4, <2>1, LeastOf
  <2>3. Start(s) \in at /\ \A q \in at : Start(s) <= q
    BY <1>2, <1>4, <2>2
  <2>4. Begins(s, Start(s)) /\ Start(s) \in 1..Len(s) - 1
    BY <1>1, <2>3 DEF Begins
  <2>5. ASSUME NEW q \in 1..Start(s) - 1, Begins(s, q) PROVE FALSE
    <3>1. Start(s) <= q
      BY <1>1, <2>3, <2>5
    <3> QED
      BY <1>1, <2>4, <2>5, <3>1
  <2> QED
    BY <1>1, <2>4, <2>5
<1> QED
  BY <1>3, <1>4

LEMMA BeginsBehind ==
  ASSUME NEW S, NEW s \in Seq(S), NEW p \in 1..Len(s) + 1, NEW k \in Nat, k > 0
  PROVE  Begins(From(s, p), k) <=> Begins(s, p + k - 1)
<1>1. Len(s) \in Nat
  BY LenProperties
<1>2. PICK u : u = From(s, p)
  OBVIOUS
<1>3. Len(u) = Len(s) - p + 1 /\ \A i \in 1..Len(s) - p + 1 : u[i] = s[p + i - 1]
  BY <1>2, FromIs
<1>4. k \in 1..Len(u) - 1 <=> p + k - 1 \in 1..Len(s) - 1
  BY <1>1, <1>3
<1>5. ASSUME k \in 1..Len(u) - 1 PROVE u[k] = s[p + k - 1] /\ u[k + 1] = s[(p + k - 1) + 1]
  <2>1. k \in 1..Len(s) - p + 1 /\ k + 1 \in 1..Len(s) - p + 1 /\ p + (k + 1) - 1 = (p + k - 1) + 1
    BY <1>1, <1>3, <1>5
  <2> QED
    BY <1>3, <2>1
<1> QED
  BY <1>2, <1>4, <1>5 DEF Begins

(* NextStart, and the only position it can be.                             *)
LEMMA NextStartIs ==
  ASSUME NEW S, NEW s \in Seq(S), NEW p \in 1..Len(s) + 1
  PROVE  /\ NextStart(s, p) \in p..Len(s) + 1
         /\ NextStart(s, p) = Len(s) + 1 \/ Begins(s, NextStart(s, p))
         /\ \A q \in p..NextStart(s, p) - 1 : ~ Begins(s, q)
<1>1. Len(s) \in Nat
  BY LenProperties
<1>2. PICK u, k : u = From(s, p) /\ k = Start(u)
  OBVIOUS
<1>3. u \in Seq(S) /\ Len(u) = Len(s) - p + 1
  BY <1>2, FromIs
<1>4. k \in 1..Len(u) + 1 /\ (k = Len(u) + 1 \/ Begins(u, k)) /\ \A q \in 1..k - 1 : ~ Begins(u, q)
  BY <1>2, <1>3, StartIs
<1>5. NextStart(s, p) = p + k - 1
  BY <1>2 DEF NextStart
<1>6. NextStart(s, p) \in p..Len(s) + 1
  BY <1>1, <1>3, <1>4, <1>5
<1>7. NextStart(s, p) = Len(s) + 1 \/ Begins(s, NextStart(s, p))
  <2>1. k = Len(u) + 1 => p + k - 1 = Len(s) + 1
    BY <1>1, <1>3
  <2>2. Begins(u, k) => Begins(s, p + k - 1)
    <3>1. k \in Nat /\ k > 0
      BY <1>1, <1>3, <1>4
    <3> QED
      BY <1>2, <3>1, BeginsBehind
  <2> QED
    BY <1>4, <1>5, <2>1, <2>2
<1>8. ASSUME NEW q \in p..NextStart(s, p) - 1, Begins(s, q) PROVE FALSE
  <2>1. PICK i : i = q - p + 1 /\ i \in Nat /\ i > 0 /\ i \in 1..k - 1 /\ p + i - 1 = q
    BY <1>1, <1>3, <1>4, <1>5, <1>8
  <2>2. Begins(u, i)
    BY <1>2, <1>8, <2>1, BeginsBehind
  <2> QED
    BY <1>4, <2>1, <2>2
<1> QED
  BY <1>6, <1>7, <1>8

LEMMA NextStartOnly ==
  ASSUME NEW S, NEW s \in Seq(S), NEW p \in 1..Len(s) + 1, NEW n \in p..Len(s) + 1,
         n = Len(s) + 1 \/ Begins(s, n),
         \A q \in p..n - 1 : ~ Begins(s, q)
  PROVE  NextStart(s, p) = n
<1>1. Len(s) \in Nat
  BY LenProperties
<1>2. PICK m : m = NextStart(s, p)
  OBVIOUS
<1>3. m \in p..Len(s) + 1 /\ (m = Len(s) + 1 \/ Begins(s, m)) /\ \A q \in p..m - 1 : ~ Begins(s, q)
  BY <1>2, NextStartIs
<1>4. ~ (m < n)
  <2>1. SUFFICES ASSUME m < n PROVE FALSE
    OBVIOUS
  <2>2. m \in p..n - 1 /\ m # Len(s) + 1
    BY <1>1, <1>3, <2>1
  <2> QED
    BY <1>3, <2>2
<1>5. ~ (n < m)
  <2>1. SUFFICES ASSUME n < m PROVE FALSE
    OBVIOUS
  <2>2. n \in p..m - 1 /\ n # Len(s) + 1
    BY <1>1, <1>3, <2>1
  <2> QED
    BY <1>3, <2>2
<1> QED
  BY <1>1, <1>2, <1>3, <1>4, <1>5

(* Rubbish that is skipped leaves the next message where it was.           *)
LEMMA NextStartSkips ==
  ASSUME NEW S, NEW s \in Seq(S), NEW p \in 1..Len(s) + 1, NEW r \in p..Len(s) + 1,
         \A q \in p..r - 1 : ~ Begins(s, q)
  PROVE  NextStart(s, p) = NextStart(s, r)
<1>1. Len(s) \in Nat /\ r \in 1..Len(s) + 1
  BY LenProperties
<1>2. PICK n : n = NextStart(s, r)
  OBVIOUS
<1>3. n \in r..Len(s) + 1 /\ (n = Len(s) + 1 \/ Begins(s, n)) /\ \A q \in r..n - 1 : ~ Begins(s, q)
  BY <1>1, <1>2, NextStartIs
<1>4. n \in p..Len(s) + 1
  BY <1>1, <1>3
<1>5. ASSUME NEW q \in p..n - 1 PROVE ~ Begins(s, q)
  <2>1. q \in p..r - 1 \/ q \in r..n - 1
    BY <1>1, <1>3, <1>5
  <2> QED
    BY <1>3, <2>1
<1> QED
  BY <1>2, <1>3, <1>4, <1>5, NextStartOnly

(* A message begins where it does whatever comes behind it.                *)
LEMMA BeginsMore ==
  ASSUME NEW S, NEW s \in Seq(S), NEW t \in Seq(S), NEW q \in 1..Len(s) - 1
  PROVE  Begins(s \o t, q) <=> Begins(s, q)
<1>1. Len(s) \in Nat /\ Len(t) \in Nat
  BY LenProperties
<1>2. /\ Len(s \o t) = Len(s) + Len(t)
      /\ \A i \in 1..Len(s) + Len(t) : (s \o t)[i] = IF i <= Len(s) THEN s[i] ELSE t[i - Len(s)]
  BY ConcatProperties
<1>3. PICK x : x = s \o t
  OBVIOUS
<1>4. /\ q \in 1..Len(x) - 1 /\ q \in 1..Len(s) + Len(t) /\ q + 1 \in 1..Len(s) + Len(t)
      /\ q <= Len(s) /\ q + 1 <= Len(s)
  BY <1>1, <1>2, <1>3
<1>5. x[q] = s[q] /\ x[q + 1] = s[q + 1]
  BY <1>2, <1>3, <1>4
<1> QED
  BY <1>3, <1>4, <1>5 DEF Begins
-----------------------------------------------------------------------------
(* The reference reading.                                                  *)
Text == STRING \cup {"ban", "throw", "short"}

Said == Seq(Seq(Text))

Known == Versions \cup {"nothing"}

SizeOf(o) == IF o THEN 4 ELSE 5

LEMMA SizeIs ==
  ASSUME NEW h, ValidHeader(h)
  PROVE  MessageSize(h) \in 0..2
BY DEF ValidHeader, MessageSize

(* The message that comes next and its payload.                            *)
Frame(s, p) == From(s, NextStart(s, p))

Inside(h, size) == SubSeq(h, size + 1, size + MessageSize(h))

(* A message that is there in full leaves a place further on.              *)
LEMMA FrameIs ==
  ASSUME NEW s \in Seq(Text), NEW p \in 1..Len(s) + 1, NEW size, size = 4 \/ size = 5
  PROVE  /\ NextStart(s, p) \in p..Len(s) + 1
         /\ Frame(s, p) \in Seq(Text) /\ Len(Frame(s, p)) = Len(s) - NextStart(s, p) + 1
         /\ ValidHeader(Frame(s, p)) /\ ~ (Len(Frame(s, p)) < size)
            /\ ~ (Len(Frame(s, p)) < size + MessageSize(Frame(s, p))) =>
              /\ MessageSize(Frame(s, p)) \in 0..2
              /\ Inside(Frame(s, p), size) \in Seq(Text)
              /\ Len(Inside(Frame(s, p), size)) = MessageSize(Frame(s, p))
              /\ NextStart(s, p) + size \in p + 1..Len(s) + 1
              /\ NextStart(s, p) + size + MessageSize(Frame(s, p)) \in p + 1..Len(s) + 1
<1> DEFINE q == NextStart(s, p)
           h == Frame(s, p)
           n == MessageSize(h)
           body == Inside(h, size)
<1>1. Len(s) \in Nat
  BY LenProperties
<1>2. q \in p..Len(s) + 1
  BY <1>1, NextStartIs
<1>3. h \in Seq(Text) /\ Len(h) = Len(s) - q + 1
  <2>1. q \in 1..Len(s) + 1
    BY <1>1, <1>2
  <2> QED
    BY <2>1, FromIs DEF Frame
<1> HIDE DEF q, h, n, body
<1>4. ASSUME ValidHeader(h), ~ (Len(h) < size), ~ (Len(h) < size + n)
      PROVE  /\ n \in 0..2 /\ body \in Seq(Text) /\ Len(body) = n
             /\ q + size \in p + 1..Len(s) + 1
             /\ q + size + n \in p + 1..Len(s) + 1
  <2>1. n \in 0..2
    BY <1>4, SizeIs DEF n
  <2>2. /\ q + size \in p + 1..Len(s) + 1
        /\ q + size + n \in p + 1..Len(s) + 1
    <3>1. PICK l, k : l = Len(s) /\ k = Len(h)
      OBVIOUS
    <3>2. l \in Nat /\ p \in 1..l + 1 /\ q \in p..l + 1 /\ k = l - q + 1 /\ size \in 4..5 /\ n \in 0..2
          /\ ~ (k < size) /\ ~ (k < size + n)
      BY <1>1, <1>2, <1>3, <1>4, <2>1, <3>1
    <3>3. q + size \in p + 1..l + 1 /\ q + size + n \in p + 1..l + 1
      BY ONLY <3>2
    <3> QED
      BY <3>1, <3>3
  <2>3. \A i \in size + 1..size + n : h[i] \in Text
    <3>1. Len(h) \in Nat /\ size + n <= Len(h) /\ size \in Nat /\ n \in Nat
      BY <1>3, <1>4, <2>1, LenProperties
    <3>2. \A i \in size + 1..size + n : i \in 1..Len(h)
      BY ONLY <3>1
    <3> QED
      BY <1>3, <3>2, ElementOfSeq
  <2>4. size + 1 \in Int /\ size + n \in Int /\ (IF size + 1 <= size + n THEN (size + n) - (size + 1) + 1 ELSE 0) = n
    BY <2>1
  <2>5. /\ SubSeq(h, size + 1, size + n) \in Seq(Text)
        /\ Len(SubSeq(h, size + 1, size + n)) = IF size + 1 <= size + n THEN (size + n) - (size + 1) + 1 ELSE 0
    BY <2>3, <2>4, SubSeqProperties
  <2> QED
    BY <2>1, <2>2, <2>4, <2>5 DEF body, n, Inside
<1> QED
  BY <1>2, <1>3, <1>4 DEF q, h, n, body

LEMMA AfterIs ==
  ASSUME NEW h, NEW body, NEW wanted, NEW v \in Known, NEW o \in BOOLEAN,
         ~ CannotRead(h, body, wanted)
  PROVE  /\ VersionAfter(h, body, v) \in Known
         /\ FramingAfter(h, body, v, o) \in BOOLEAN
<1>1. VersionAfter(h, body, v) \in Known
  BY DEF VersionAfter, CannotRead, Known
<1>2. FramingAfter(h, body, v, o) \in BOOLEAN
  <2>1. CASE h[3] = "version"
    BY <2>1 DEF FramingAfter
  <2>2. CASE h[3] # "version" /\ h[3] = "verack"
    BY <2>2 DEF FramingAfter
  <2>3. CASE h[3] # "version" /\ h[3] # "verack"
    BY <2>3 DEF FramingAfter
  <2> QED
    BY <2>1, <2>2, <2>3
<1> QED
  BY <1>1, <1>2

(* What processing a message adds.                                         *)
Message(h, body) == <<h[3], IF body = <<>> THEN "short" ELSE body[1]>>

LEMMA MessageIs ==
  ASSUME NEW h \in Seq(Text), 3 \in 1..Len(h), NEW body \in Seq(Text)
  PROVE  Message(h, body) \in Seq(Text) /\ <<Message(h, body)>> \in Said
<1>1. h[3] \in Text
  BY ElementOfSeq
<1>2. (IF body = <<>> THEN "short" ELSE body[1]) \in Text
  <2>1. body # <<>> => 1 \in 1..Len(body)
    BY EmptySeq
  <2>2. body # <<>> => body[1] \in Text
    BY <2>1, ElementOfSeq
  <2>3. "short" \in Text
    BY DEF Text
  <2> QED
    BY <2>2, <2>3
<1>3. PICK a, b : a = h[3] /\ b = (IF body = <<>> THEN "short" ELSE body[1])
  OBVIOUS
<1>4. a \in Text /\ b \in Text
  BY <1>1, <1>2, <1>3
<1>5. <<a, b>> \in Seq(Text)
  BY <1>4
<1>6. Message(h, body) = <<a, b>>
  BY <1>3 DEF Message
<1> QED
  BY <1>5, <1>6 DEF Said

(* A reading from p uses no more of rest than what lies further on.        *)
LEMMA ReadingGoesOn ==
  ASSUME NEW s \in Seq(Text), NEW p \in 1..Len(s) + 1, NEW v \in Known,
         NEW o \in BOOLEAN, NEW wanted, NEW f, NEW g,
         \A r \in p + 1..Len(s) + 1, v2 \in Known, o2 \in BOOLEAN :
            f[<<r, v2, o2>>] = g[<<r, v2, o2>>] /\ f[<<r, v2, o2>>] \in Said
  PROVE  /\ Reading(f, s, p, v, o, wanted) = Reading(g, s, p, v, o, wanted)
         /\ Reading(f, s, p, v, o, wanted) \in Said
<1>1. PICK q, h, size : q = NextStart(s, p) /\ h = Frame(s, p) /\ size = SizeOf(o)
  OBVIOUS
<1>2. PICK n, body : n = MessageSize(h) /\ body = Inside(h, size)
  OBVIOUS
<1>3. size \in {4, 5}
  BY <1>1 DEF SizeOf
<1> DEFINE a == <<q + size, v, o>>
           b == <<q + size + n, VersionAfter(h, body, v), FramingAfter(h, body, v, o)>>
           R(r) == IF Len(h) < size THEN <<>>
                   ELSE IF ~ ValidHeader(h) THEN << <<"ban">> >>
                   ELSE IF Len(h) < size + n THEN <<>>
                   ELSE IF ~ o /\ Hash(body) # h[5] THEN r[a]
                   ELSE IF CannotRead(h, body, wanted) THEN << <<"throw">> >>
                   ELSE <<Message(h, body)>> \o r[b]
<1>4. Reading(f, s, p, v, o, wanted) = R(f) /\ Reading(g, s, p, v, o, wanted) = R(g)
  BY <1>1, <1>2, Zenon DEF Reading, Message, SizeOf, Frame, Inside
<1>5. /\ q \in p..Len(s) + 1 /\ h \in Seq(Text) /\ Len(h) = Len(s) - q + 1
      /\ ValidHeader(h) /\ ~ (Len(h) < size) /\ ~ (Len(h) < size + n) =>
           /\ n \in 0..2 /\ body \in Seq(Text) /\ Len(body) = n
           /\ q + size \in p + 1..Len(s) + 1
           /\ q + size + n \in p + 1..Len(s) + 1
  BY <1>1, <1>2, <1>3, FrameIs
<1> HIDE DEF R
<1>6. <<>> \in Said /\ << <<"ban">> >> \in Said /\ << <<"throw">> >> \in Said
  <2>1. "ban" \in Text /\ "throw" \in Text
    BY DEF Text
  <2>2. \A t \in Text : <<t>> \in Seq(Text)
    OBVIOUS
  <2>3. <<"ban">> \in Seq(Text) /\ <<"throw">> \in Seq(Text)
    BY <2>1, <2>2
  <2>4. <<>> \in Seq(Seq(Text)) /\ \A t \in Seq(Text) : <<t>> \in Seq(Seq(Text))
    OBVIOUS
  <2> QED
    BY <2>3, <2>4 DEF Said
<1>7. CASE Len(h) < size \/ ~ ValidHeader(h) \/ Len(h) < size + n
  <2>1. R(f) = R(g) /\ R(f) \in {<<>>, << <<"ban">> >>}
    BY <1>7 DEF R
  <2> QED
    BY <1>4, <1>6, <2>1
<1>8. CASE ~ (Len(h) < size) /\ ValidHeader(h) /\ ~ (Len(h) < size + n)
  <2>1. CASE ~ o /\ Hash(body) # h[5]
    <3>1. f[a] = g[a] /\ f[a] \in Said
      BY <1>5, <1>8
    <3>2. R(f) = f[a] /\ R(g) = g[a]
      BY <1>8, <2>1 DEF R
    <3> QED
      BY <1>4, <3>1, <3>2
  <2>2. CASE ~ (~ o /\ Hash(body) # h[5]) /\ CannotRead(h, body, wanted)
    <3>1. R(f) = << <<"throw">> >> /\ R(g) = << <<"throw">> >>
      BY <1>8, <2>2 DEF R
    <3> QED
      BY <1>4, <1>6, <3>1
  <2>3. CASE ~ (~ o /\ Hash(body) # h[5]) /\ ~ CannotRead(h, body, wanted)
    <3>1. VersionAfter(h, body, v) \in Known /\ FramingAfter(h, body, v, o) \in BOOLEAN
      BY <2>3, AfterIs
    <3>2. f[b] = g[b] /\ f[b] \in Said
      BY <1>5, <1>8, <3>1
    <3>3. <<Message(h, body)>> \in Said
      <4>1. 3 \in 1..Len(h)
        BY <1>3, <1>5, <1>8, LenProperties
      <4> QED
        BY <1>5, <1>8, <4>1, MessageIs
    <3>4. R(f) = <<Message(h, body)>> \o f[b] /\ R(g) = <<Message(h, body)>> \o g[b]
      BY <1>8, <2>3 DEF R
    <3>5. PICK m, r : m = <<Message(h, body)>> /\ r = f[b]
      OBVIOUS
    <3>6. m \o r \in Said
      BY <3>2, <3>3, <3>5, ConcatProperties DEF Said
    <3> QED
      BY <1>4, <3>2, <3>4, <3>5, <3>6
  <2> QED
    BY <2>1, <2>2, <2>3
<1> QED
  BY <1>7, <1>8

(* The function exists, and it is what its definition says.                *)
LEMMA PlacesAre ==
  ASSUME NEW s
  PROVE  /\ \A p \in 1..Len(s) + 1, v \in Known, o \in BOOLEAN : <<p, v, o>> \in Places(s)
         /\ \A x \in Places(s) : /\ x[1] \in 1..Len(s) + 1 /\ x[2] \in Known /\ x[3] \in BOOLEAN
                                 /\ x = <<x[1], x[2], x[3]>>
BY DEF Places, Known

(* The reading from p on, where f is right further on.                     *)
LEMMA OnePieceExists ==
  ASSUME NEW s \in Seq(Text), NEW wanted
  PROVE  \E f \in [Places(s) -> Said] :
           \A p \in 1..Len(s) + 1, v \in Known, o \in BOOLEAN :
              f[<<p, v, o>>] = Reading(f, s, p, v, o, wanted)
<1> DEFINE L == Len(s) + 1
           Good_(f, k) == \A p \in k..L, v \in Known, o \in BOOLEAN :
                            f[<<p, v, o>>] = Reading(f, s, p, v, o, wanted)
           Upto(n) == \E f \in [Places(s) -> Said] : Good_(f, L + 1 - n)
           Missing == {n \in 0..L : ~ Upto(n)}
<1>1. Len(s) \in Nat /\ L \in Nat
  BY LenProperties
<1>2. SUFFICES ASSUME Missing # {} PROVE FALSE
  <2>1. L \in 0..L /\ L + 1 - L = 1
    BY <1>1
  <2>2. Missing = {} => Upto(L)
    BY <2>1
  <2>3. Upto(L) => \E f \in [Places(s) -> Said] : Good_(f, 1)
    BY <2>1
  <2> QED
    BY <2>2, <2>3
<1> HIDE DEF L
<1>3. PICK n \in Missing : \A m \in Missing : n <= m
  <2>1. Missing \in SUBSET Nat
    BY <1>1
  <2> QED
    BY <1>2, <2>1, LeastOf
<1>4. Upto(0)
  <2>1. L + 1 - 0..L = {}
    BY <1>1
  <2>2. \A f : Good_(f, L + 1 - 0)
    BY <2>1
  <2>3. [x \in Places(s) |-> <<>>] \in [Places(s) -> Said]
    BY DEF Said
  <2> QED
    BY <2>2, <2>3
<1>5. n \in 1..L /\ n - 1 \in 0..L /\ ~ (n <= n - 1)
  <2>1. n \in 0..L /\ n # 0
    BY <1>3, <1>4
  <2> QED
    BY <1>1, <2>1
<1>6. Upto(n - 1)
  BY <1>3, <1>5
<1>7. PICK k : k = L + 1 - n
  OBVIOUS
<1>8. k \in 1..L /\ L + 1 - (n - 1) = k + 1
  BY <1>1, <1>5, <1>7
<1>9. PICK f \in [Places(s) -> Said] : Good_(f, k + 1)
  BY <1>6, <1>8
<1> DEFINE g == [x \in Places(s) |-> IF x[1] = k THEN Reading(f, s, x[1], x[2], x[3], wanted) ELSE f[x]]
<1>10. \A p \in 1..L, v \in Known, o \in BOOLEAN :
          <<p, v, o>> \in Places(s) /\ f[<<p, v, o>>] \in Said
  BY PlacesAre DEF L
<1>11. \A p \in 1..L, v \in Known, o \in BOOLEAN :
          g[<<p, v, o>>] = IF p = k THEN Reading(f, s, p, v, o, wanted) ELSE f[<<p, v, o>>]
  BY <1>10
<1>12. ASSUME NEW p \in k..L, NEW v \in Known, NEW o \in BOOLEAN
       PROVE  Reading(f, s, p, v, o, wanted) = Reading(g, s, p, v, o, wanted)
              /\ Reading(f, s, p, v, o, wanted) \in Said
  <2>1. p \in 1..Len(s) + 1
    BY <1>1, <1>8 DEF L
  <2>2. ASSUME NEW r \in p + 1..Len(s) + 1, NEW v2 \in Known, NEW o2 \in BOOLEAN
        PROVE  f[<<r, v2, o2>>] = g[<<r, v2, o2>>] /\ f[<<r, v2, o2>>] \in Said
    <3>1. r \in 1..L /\ r # k
      BY <1>1, <1>8, <2>1 DEF L
    <3> QED
      BY <1>10, <1>11, <3>1
  <2> HIDE DEF g
  <2> QED
    BY <2>1, <2>2, ReadingGoesOn
<1>13. g \in [Places(s) -> Said]
  <2>1. ASSUME NEW x \in Places(s) PROVE g[x] \in Said
    <3>1. x[1] \in 1..L /\ x[2] \in Known /\ x[3] \in BOOLEAN
      BY PlacesAre DEF L
    <3>2. CASE x[1] = k
      <4>1. x[1] \in k..L
        BY <1>8, <3>2
      <4>2. Reading(f, s, x[1], x[2], x[3], wanted) \in Said
        BY <1>12, <3>1, <4>1
      <4> QED
        BY <3>2, <4>2
    <3>3. CASE x[1] # k
      BY <3>3
    <3> QED
      BY <3>2, <3>3
  <2> QED
    BY <2>1
<1>14. Good_(g, k)
  <2>1. SUFFICES ASSUME NEW p \in k..L, NEW v \in Known, NEW o \in BOOLEAN
                 PROVE  g[<<p, v, o>>] = Reading(g, s, p, v, o, wanted)
    OBVIOUS
  <2>2. p \in 1..L /\ (p = k \/ p \in k + 1..L)
    BY <1>1, <1>8, <2>1
  <2>3. g[<<p, v, o>>] = IF p = k THEN Reading(f, s, p, v, o, wanted) ELSE f[<<p, v, o>>]
    BY <1>11, <2>2
  <2>4. p # k => f[<<p, v, o>>] = Reading(f, s, p, v, o, wanted)
    BY <1>9, <2>2
  <2>5. Reading(f, s, p, v, o, wanted) = Reading(g, s, p, v, o, wanted)
    BY <1>12
  <2> HIDE DEF g
  <2> QED
    BY <2>3, <2>4, <2>5
<1>15. Upto(n)
  <2> HIDE DEF g
  <2> QED
    BY <1>7, <1>13, <1>14
<1> QED
  BY <1>3, <1>15

LEMMA OnePieceIs ==
  ASSUME NEW s \in Seq(Text), NEW wanted, NEW p \in 1..Len(s) + 1, NEW v \in Known, NEW o \in BOOLEAN
  PROVE  /\ InOnePiece(s, wanted)[<<p, v, o>>] = Reading(InOnePiece(s, wanted), s, p, v, o, wanted)
         /\ InOnePiece(s, wanted)[<<p, v, o>>] \in Said
<1> DEFINE Unfolded(f) == [x \in Places(s) |-> Reading(f, s, x[1], x[2], x[3], wanted)]
           g == CHOOSE f : f = Unfolded(f)
<1>1. InOnePiece(s, wanted) = g
  BY DEF InOnePiece
<1>2. PICK f \in [Places(s) -> Said] :
        \A a \in 1..Len(s) + 1, b \in Known, c \in BOOLEAN : f[<<a, b, c>>] = Reading(f, s, a, b, c, wanted)
  BY OnePieceExists
<1>3. f = Unfolded(f)
  <2>1. ASSUME NEW x \in Places(s) PROVE f[x] = Reading(f, s, x[1], x[2], x[3], wanted)
    <3>1. PICK a, b, c : a = x[1] /\ b = x[2] /\ c = x[3] /\ x = <<a, b, c>>
      BY PlacesAre
    <3>2. a \in 1..Len(s) + 1 /\ b \in Known /\ c \in BOOLEAN
      BY PlacesAre, <3>1
    <3>3. f[<<a, b, c>>] = Reading(f, s, a, b, c, wanted)
      BY <1>2, <3>2
    <3> QED
      BY <3>1, <3>3
  <2> QED
    BY <2>1
<1>4. g = Unfolded(g)
  BY <1>3
<1> HIDE DEF g
<1>5. \A a \in 1..Len(s) + 1, b \in Known, c \in BOOLEAN : g[<<a, b, c>>] = Reading(g, s, a, b, c, wanted)
  <2>1. SUFFICES ASSUME NEW a \in 1..Len(s) + 1, NEW b \in Known, NEW c \in BOOLEAN
                 PROVE  g[<<a, b, c>>] = Reading(g, s, a, b, c, wanted)
    OBVIOUS
  <2>2. <<a, b, c>> \in Places(s)
    BY PlacesAre
  <2>3. Unfolded(g)[<<a, b, c>>] = Reading(g, s, a, b, c, wanted)
    BY <2>2
  <2> QED
    BY <1>4, <2>3
<1> DEFINE Other == {i \in 0..Len(s) : \E b \in Known, c \in BOOLEAN :
                        f[<<Len(s) + 1 - i, b, c>>] # g[<<Len(s) + 1 - i, b, c>>]}
<1>6. Len(s) \in Nat
  BY LenProperties
<1>7. Other = {}
  <2>1. SUFFICES ASSUME Other # {} PROVE FALSE
    OBVIOUS
  <2>2. PICK i \in Other : \A m \in Other : i <= m
    <3>1. Other \in SUBSET Nat
      BY <1>6
    <3> QED
      BY <2>1, <3>1, LeastOf
  <2>3. PICK b \in Known, c \in BOOLEAN : f[<<Len(s) + 1 - i, b, c>>] # g[<<Len(s) + 1 - i, b, c>>]
    BY <2>2
  <2> DEFINE a == Len(s) + 1 - i
  <2>4. a \in 1..Len(s) + 1 /\ i \in 0..Len(s)
    BY <1>6, <2>2
  <2> HIDE DEF a
  <2>5. ASSUME NEW r \in a + 1..Len(s) + 1, NEW v2 \in Known, NEW o2 \in BOOLEAN
        PROVE  f[<<r, v2, o2>>] = g[<<r, v2, o2>>] /\ f[<<r, v2, o2>>] \in Said
    <3>1. PICK j : j = Len(s) + 1 - r
      OBVIOUS
    <3>2. j \in 0..Len(s) /\ ~ (i <= j) /\ r = Len(s) + 1 - j /\ r \in 1..Len(s) + 1
      BY <1>6, <2>4, <3>1 DEF a
    <3>3. j \notin Other
      BY <2>2, <3>2
    <3>4. f[<<r, v2, o2>>] = g[<<r, v2, o2>>]
      BY <3>2, <3>3
    <3>5. <<r, v2, o2>> \in Places(s)
      BY <3>2, PlacesAre
    <3> QED
      BY <3>4, <3>5
  <2>6. Reading(f, s, a, b, c, wanted) = Reading(g, s, a, b, c, wanted)
    BY <2>4, <2>5, ReadingGoesOn
  <2>7. f[<<a, b, c>>] = g[<<a, b, c>>]
    BY <1>2, <1>5, <2>4, <2>6
  <2> QED
    BY <2>3, <2>7 DEF a
<1>8. f[<<p, v, o>>] = g[<<p, v, o>>]
  <2>1. PICK j : j = Len(s) + 1 - p
    OBVIOUS
  <2>2. j \in 0..Len(s) /\ p = Len(s) + 1 - j
    BY <1>6, <2>1
  <2>3. j \notin Other
    BY <1>7
  <2> QED
    BY <2>2, <2>3
<1>9. f[<<p, v, o>>] \in Said
  BY PlacesAre
<1> QED
  BY <1>1, <1>5, <1>8, <1>9
-----------------------------------------------------------------------------
(* The receive loop beside the reference.                                  *)

HeaderSizes == {4, 5}

(* A header that has come in stays the same when more comes in.            *)
LEMMA HeaderStays ==
  ASSUME NEW h \in Seq(Text), NEW ext \in Seq(Text), NEW size \in HeaderSizes, ~ (Len(h) < size)
  PROVE  /\ h \o ext \in Seq(Text) /\ ~ (Len(h \o ext) < size)
         /\ ValidHeader(h \o ext) <=> ValidHeader(h)
         /\ (h \o ext)[3] = h[3] /\ (size = 5 => (h \o ext)[5] = h[5])
         /\ MessageSize(h \o ext) = MessageSize(h)
         /\ ValidHeader(h) /\ ~ (Len(h) < size + MessageSize(h)) =>
               /\ ~ (Len(h \o ext) < size + MessageSize(h))
               /\ Inside(h \o ext, size) = Inside(h, size)
<1>1. Len(h) \in Nat /\ Len(ext) \in Nat /\ (size = 4 \/ size = 5)
  BY LenProperties DEF HeaderSizes
<1>2. PICK x : x = h \o ext
  OBVIOUS
<1>3. /\ x \in Seq(Text) /\ Len(x) = Len(h) + Len(ext)
      /\ \A i \in 1..Len(h) + Len(ext) : x[i] = IF i <= Len(h) THEN h[i] ELSE ext[i - Len(h)]
  BY <1>2, ConcatProperties
<1>4. \A i \in 1..Len(h) : x[i] = h[i]
  <2>1. \A i \in 1..Len(h) : i \in 1..Len(h) + Len(ext) /\ i <= Len(h)
    BY <1>1
  <2> QED
    BY <1>3, <2>1
<1>5. x[3] = h[3] /\ x[4] = h[4] /\ (size = 5 => x[5] = h[5])
  <2>1. 3 \in 1..Len(h) /\ 4 \in 1..Len(h) /\ (size = 5 => 5 \in 1..Len(h))
    BY <1>1
  <2> QED
    BY <1>1, <1>4, <2>1
<1>6. MessageSize(x) = MessageSize(h)
  BY <1>5, Zenon DEF MessageSize
<1>7. ValidHeader(x) <=> ValidHeader(h)
  BY <1>5, <1>6 DEF ValidHeader
<1>8. ASSUME ValidHeader(h), ~ (Len(h) < size + MessageSize(h))
      PROVE  ~ (Len(x) < size + MessageSize(h)) /\ Inside(x, size) = Inside(h, size)
  <2>1. PICK n : n = MessageSize(h) /\ n \in 0..2
    BY <1>8, SizeIs
  <2>2. ~ (Len(x) < size + n)
    BY <1>1, <1>3, <1>8, <2>1
  <2>3. size + 1 \in Int /\ size + n \in Int /\ size + n <= Len(h) /\ size + n <= Len(x)
    BY <1>1, <1>3, <1>8, <2>1, <2>2
  <2>4. \A i \in size + 1..size + n : i \in 1..Len(h) /\ i \in 1..Len(x)
    BY <1>1, <2>3
  <2>5. \A i \in size + 1..size + n : h[i] \in Text /\ x[i] \in Text /\ x[i] = h[i]
    BY <1>3, <1>4, <2>4, ElementOfSeq
  <2>6. PICK a, b : a = SubSeq(x, size + 1, size + n) /\ b = SubSeq(h, size + 1, size + n)
    OBVIOUS
  <2>7. /\ a \in Seq(Text)
        /\ Len(a) = IF size + 1 <= size + n THEN (size + n) - (size + 1) + 1 ELSE 0
        /\ \A i \in 1..(size + n) - (size + 1) + 1 : a[i] = x[size + 1 + i - 1]
    BY <2>3, <2>5, <2>6, SubSeqProperties
  <2>8. /\ b \in Seq(Text)
        /\ Len(b) = IF size + 1 <= size + n THEN (size + n) - (size + 1) + 1 ELSE 0
        /\ \A i \in 1..(size + n) - (size + 1) + 1 : b[i] = h[size + 1 + i - 1]
    BY <2>3, <2>5, <2>6, SubSeqProperties
  <2>9. ASSUME NEW i \in 1..Len(a) PROVE a[i] = b[i]
    <3>1. i \in 1..(size + n) - (size + 1) + 1 /\ size + 1 + i - 1 \in size + 1..size + n
      BY <1>1, <2>1, <2>7, <2>9
    <3> QED
      BY <2>5, <2>7, <2>8, <3>1
  <2>10. a = b
    BY <2>7, <2>8, <2>9, SeqEqual
  <2> QED
    BY <1>6, <2>1, <2>2, <2>6, <2>10 DEF Inside
<1> QED
  BY <1>2, <1>1, <1>3, <1>5, <1>6, <1>7, <1>8

(* The message at the head of what is left of r is the next from p on,     *)
(* whatever still comes.                                                   *)
LEMMA FrameIsHead ==
  ASSUME NEW r \in Seq(Text), NEW ext \in Seq(Text), NEW p \in 1..Len(r) + 1, NEW size \in Nat, size > 3,
         ~ (Len(From(From(r, p), Start(From(r, p)))) < size)
  PROVE  /\ NextStart(r \o ext, p) = NextStart(r, p)
         /\ From(From(r, p), Start(From(r, p))) = Frame(r, p)
         /\ Frame(r, p) \in Seq(Text)
         /\ Frame(r \o ext, p) = Frame(r, p) \o ext
<1>1. Len(r) \in Nat /\ Len(ext) \in Nat
  BY LenProperties
<1>2. PICK u, k : u = From(r, p) /\ k = Start(u)
  OBVIOUS
<1>3. u \in Seq(Text) /\ Len(u) = Len(r) - p + 1 /\ k \in 1..Len(u) + 1
  BY <1>2, FromIs, StartIs
<1>4. PICK q : q = NextStart(r, p)
  OBVIOUS
<1>5. q = p + k - 1
  BY <1>2, <1>4 DEF NextStart
<1>6. k \in 1..Len(r) - p + 2
  BY <1>1, <1>3
<1>7. q \in 1..Len(r) + 1 /\ From(u, k) = From(r, q)
  BY <1>2, <1>5, <1>6, FromOn
<1>8. Frame(r, p) = From(r, q) /\ From(r, q) \in Seq(Text) /\ Len(From(r, q)) = Len(r) - q + 1
  BY <1>4, <1>7, FromIs DEF Frame
<1>9. q # Len(r) + 1
  BY <1>1, <1>2, <1>7, <1>8
<1>10. q \in p..Len(r) + 1 /\ Begins(r, q) /\ \A i \in p..q - 1 : ~ Begins(r, i)
  BY <1>4, <1>9, NextStartIs
<1>11. q \in 1..Len(r) - 1
  BY <1>10 DEF Begins
<1>12. \A i \in p..q : Begins(r \o ext, i) <=> Begins(r, i)
  <2>1. \A i \in p..q : i \in 1..Len(r) - 1
    BY <1>1, <1>11
  <2> QED
    BY <2>1, BeginsMore
<1>13. PICK x : x = r \o ext /\ x \in Seq(Text) /\ Len(x) = Len(r) + Len(ext)
  BY ConcatProperties
<1>14. NextStart(x, p) = q
  <2>1. p \in 1..Len(x) + 1 /\ q \in p..Len(x) + 1
    BY <1>1, <1>10, <1>13
  <2>2. Begins(x, q) /\ \A i \in p..q - 1 : ~ Begins(x, i)
    <3>1. q \in p..q /\ \A i \in p..q - 1 : i \in p..q
      BY <1>1, <1>10
    <3> QED
      BY <1>10, <1>12, <1>13, <3>1
  <2> QED
    BY <1>13, <2>1, <2>2, NextStartOnly
<1>15. From(x, q) = From(r, q) \o ext
  BY <1>7, <1>13, FromMore
<1> QED
  BY <1>2, <1>4, <1>7, <1>8, <1>13, <1>14, <1>15 DEF Frame

(* Everything the peer has said so far, and whatever it will still say.    *)
Whole(ext) == InOnePiece(got \o ext, vAddr # -1)

Rest(ext, p) == Whole(ext)[<<p, said, old>>]

(* Up to p the stream is read, and what of the reference lies behind p is  *)
(* still to be seen.                                                       *)
ReadUpTo(p) ==
  /\ p \in 1..Len(got) + 1 /\ vRecv = From(got, p)
  /\ \A ext \in Seq(Text) :
       Whole(ext)[<<1, "nothing", FALSE>>] = seen \o (IF ban THEN << <<"ban">> >> ELSE Rest(ext, p))

Waits == pc \in {"send", "loop"} => Incomplete \/ ban \/ left = 0

Framed ==
  /\ got \in Seq(Text) /\ wire \in Seq(Text) /\ seen \in Said
  /\ \E p \in Nat : ReadUpTo(p)
  /\ pc \in {"direct", "hello"} \cup DOMAIN Stage => vRecv = <<>>
  /\ Waits
  /\ pc = "select" => Incomplete
  /\ ban => pc \in {"send", "loop", "end"}

LEMMA HeaderSizeIs == HeaderSize = SizeOf(old) /\ (HeaderSize = 4 \/ HeaderSize = 5) /\ (~ old => HeaderSize = 5)
BY DEF HeaderSize, SizeOf

(* One step of the reference from p, in the terms of the receive loop.     *)
LEMMA NextRead ==
  ASSUME SessionTypeOK, got \in Seq(Text), NEW p \in 1..Len(got) + 1, vRecv = From(got, p),
         NEW ext \in Seq(Text), ~ (Len(Head_) < HeaderSize)
  PROVE  LET q == NextStart(got, p) IN
         /\ Head_ = Frame(got, p) /\ Head_ \in Seq(Text)
         /\ ~ ValidHeader(Head_) => Rest(ext, p) = << <<"ban">> >>
         /\ ValidHeader(Head_) /\ ~ Incomplete =>
              /\ ~ SumOK => Rest(ext, p) = Whole(ext)[<<q + HeaderSize, said, old>>]
              /\ SumOK /\ ~ Throws =>
                   /\ ~ CannotRead(Head_, Payload(Head_), vAddr # -1)
                   /\ Rest(ext, p) = << <<Head_[3], Body>> >> \o
                        Whole(ext)[<<q + HeaderSize + MessageSize(Head_),
                                     VersionAfter(Head_, Payload(Head_), said),
                                     FramingAfter(Head_, Payload(Head_), said, old)>>]
<1> DEFINE q == NextStart(got, p)
<1>1. PICK size : size = HeaderSize
  OBVIOUS
<1>2. size = SizeOf(old) /\ (size = 4 \/ size = 5) /\ (~ old => size = 5)
  BY <1>1, HeaderSizeIs
<1>3. /\ NextStart(got \o ext, p) = q /\ Head_ = Frame(got, p) /\ Head_ \in Seq(Text)
      /\ Frame(got \o ext, p) = Head_ \o ext
  <2>1. ~ (Len(From(From(got, p), Start(From(got, p)))) < size)
    BY <1>1 DEF Head_
  <2>2. size \in Nat /\ size > 3
    BY <1>2
  <2>3. /\ NextStart(got \o ext, p) = NextStart(got, p)
        /\ From(From(got, p), Start(From(got, p))) = Frame(got, p)
        /\ Frame(got, p) \in Seq(Text)
        /\ Frame(got \o ext, p) = Frame(got, p) \o ext
    BY <2>1, <2>2, FrameIsHead
  <2>4. Head_ = From(From(got, p), Start(From(got, p)))
    BY DEF Head_
  <2> QED
    BY <2>3, <2>4
<1> HIDE DEF q
<1>4. PICK h : h = Head_ /\ h \in Seq(Text) /\ ~ (Len(h) < size)
  BY <1>1, <1>3
<1>5. PICK x : x = h \o ext
  OBVIOUS
<1>6. /\ x \in Seq(Text) /\ ~ (Len(x) < size)
      /\ ValidHeader(x) <=> ValidHeader(h)
      /\ x[3] = h[3] /\ (size = 5 => x[5] = h[5])
      /\ MessageSize(x) = MessageSize(h)
      /\ ValidHeader(h) /\ ~ (Len(h) < size + MessageSize(h)) =>
               /\ ~ (Len(x) < size + MessageSize(h))
               /\ Inside(x, size) = Inside(h, size)
  <2>1. /\ h \o ext \in Seq(Text) /\ ~ (Len(h \o ext) < size)
        /\ ValidHeader(h \o ext) <=> ValidHeader(h)
        /\ (h \o ext)[3] = h[3] /\ (size = 5 => (h \o ext)[5] = h[5])
        /\ MessageSize(h \o ext) = MessageSize(h)
        /\ ValidHeader(h) /\ ~ (Len(h) < size + MessageSize(h)) =>
              /\ ~ (Len(h \o ext) < size + MessageSize(h))
              /\ Inside(h \o ext, size) = Inside(h, size)
    <3>1. size \in HeaderSizes
      BY <1>2 DEF HeaderSizes
    <3> QED
      BY <1>4, <3>1, HeaderStays
  <2> QED
    BY <1>5, <2>1
<1>7. PICK w, f : w = (vAddr # -1) /\ f = Whole(ext)
  OBVIOUS
<1>8. PICK body, v, o : body = Inside(x, size) /\ v = said /\ o = old
  OBVIOUS
<1>9. Rest(ext, p) = Reading(f, got \o ext, p, v, o, w)
  <2>1. got \o ext \in Seq(Text) /\ p \in 1..Len(got \o ext) + 1
    BY FromMore, ConcatProperties
  <2>2. v \in Known /\ o \in BOOLEAN
    BY <1>8 DEF SessionTypeOK, Known
  <2>3. PICK s : s = got \o ext
    OBVIOUS
  <2>4. InOnePiece(s, w)[<<p, v, o>>] = Reading(InOnePiece(s, w), s, p, v, o, w)
    BY <2>1, <2>2, <2>3, OnePieceIs
  <2>5. f = InOnePiece(s, w)
    BY <1>7, <2>3 DEF Whole
  <2> QED
    BY <1>7, <1>8, <2>3, <2>4, <2>5 DEF Rest
<1>10. Reading(f, got \o ext, p, v, o, w) =
         IF Len(x) < size THEN <<>>
         ELSE IF ~ ValidHeader(x) THEN << <<"ban">> >>
         ELSE IF Len(x) < size + MessageSize(x) THEN <<>>
         ELSE IF ~ o /\ Hash(body) # x[5] THEN f[<<q + size, v, o>>]
         ELSE IF CannotRead(x, body, w) THEN << <<"throw">> >>
         ELSE <<Message(x, body)>> \o
              f[<<q + size + MessageSize(x), VersionAfter(x, body, v), FramingAfter(x, body, v, o)>>]
  <2>1. x = From(got \o ext, NextStart(got \o ext, p)) /\ q = NextStart(got \o ext, p)
    BY <1>3, <1>4, <1>5 DEF Frame
  <2>2. size = (IF o THEN 4 ELSE 5) /\ body = SubSeq(x, size + 1, size + MessageSize(x))
    BY <1>2, <1>8 DEF SizeOf, Inside
  <2> QED
    BY <2>1, <2>2, Zenon DEF Reading, Message
<1>11. ASSUME ~ ValidHeader(h) PROVE Rest(ext, p) = << <<"ban">> >>
  BY <1>6, <1>9, <1>10, <1>11
<1>12. ASSUME ValidHeader(h), ~ Incomplete
       PROVE  /\ ~ SumOK => Rest(ext, p) = f[<<q + size, said, old>>]
              /\ SumOK /\ ~ Throws =>
                   /\ ~ CannotRead(h, Payload(h), w)
                   /\ Rest(ext, p) = << <<h[3], Body>> >> \o
                        f[<<q + size + MessageSize(h), VersionAfter(h, Payload(h), said),
                            FramingAfter(h, Payload(h), said, old)>>]
  <2>1. ~ (Len(h) < size + MessageSize(h))
    <3>1. MessageSize(h) \in 0..2 /\ Len(h) \in Nat
      BY <1>4, <1>12, SizeIs, LenProperties
    <3> QED
      BY <1>1, <1>2, <1>4, <1>12, <3>1 DEF Incomplete
  <2>2. ~ (Len(x) < size + MessageSize(x)) /\ ValidHeader(x) /\ body = Payload(h)
    BY <1>1, <1>6, <1>8, <1>12, <2>1 DEF Payload, Inside
  <2>3. SumOK <=> ~ (~ o /\ Hash(body) # x[5])
    BY <1>2, <1>4, <1>6, <1>8, <2>2 DEF SumOK
  <2>4. CannotRead(x, body, w) <=> Throws
    <3>1. "short" \notin Versions /\ "short" \notin DOMAIN AddrCount
      BY DEF Versions, AddrCount
    <3>2. Body = IF body = <<>> THEN "short" ELSE body[1]
      BY <1>4, <2>2 DEF Body
    <3> QED
      BY <1>4, <1>6, <1>7, <3>1, <3>2 DEF CannotRead, Throws
  <2>5. Message(x, body) = <<h[3], Body>>
    BY <1>4, <1>6, <2>2 DEF Message, Body
  <2>6. /\ CannotRead(x, body, w) <=> CannotRead(h, body, w)
        /\ VersionAfter(x, body, v) = VersionAfter(h, body, v)
        /\ FramingAfter(x, body, v, o) = FramingAfter(h, body, v, o)
    BY <1>6, Zenon DEF CannotRead, VersionAfter, FramingAfter
  <2>7. CASE ~ SumOK
    BY <1>6, <1>8, <1>9, <1>10, <2>2, <2>3, <2>7
  <2>8. CASE SumOK /\ ~ Throws
    BY <1>6, <1>8, <1>9, <1>10, <2>2, <2>3, <2>4, <2>5, <2>6, <2>8
  <2>9. CASE SumOK /\ Throws
    BY <2>9
  <2> QED
    BY <2>7, <2>8, <2>9
<1> QED
  BY <1>1, <1>3, <1>4, <1>7, <1>11, <1>12 DEF q
-----------------------------------------------------------------------------
(* Framed, in each step.                                                   *)

(* A script is a text.                                                     *)
LEMMA TextIs == Script \subseteq Seq(Text)
<1>1. Script \subseteq Seq(STRING) /\ STRING \subseteq Text
  BY SessionAssumption DEF SessionAssumption, Text
<1>2. ASSUME NEW s \in Script PROVE s \in Seq(Text)
  <2>1. PICK S : S = STRING
    OBVIOUS
  <2>2. s \in Seq(S) /\ S \subseteq Text
    BY <1>1, <2>1
  <2> QED
    BY <2>2, SeqMonotonic
<1> QED
  BY <1>2

LEMMA FramedInit == SessionInit => Framed
<1> SUFFICES ASSUME SessionInit PROVE Framed
  OBVIOUS
<1>1. /\ pc = "direct" /\ wire \in Script /\ got = <<>> /\ vRecv = <<>> /\ seen = <<>>
      /\ ban = FALSE /\ said = "nothing" /\ old = FALSE
  BY DEF SessionInit
<1>2. got \in Seq(Text) /\ wire \in Seq(Text) /\ seen \in Said
  BY <1>1, TextIs, EmptySeq DEF Said
<1>3. Len(got) = 0
  BY <1>1, EmptySeq
<1>4. 1 \in 1..Len(got) + 1 /\ vRecv = From(got, 1)
  BY <1>1, <1>3, SubSeqEmpty DEF From
<1>5. ASSUME NEW ext \in Seq(Text)
      PROVE  Whole(ext)[<<1, "nothing", FALSE>>] = seen \o (IF ban THEN << <<"ban">> >> ELSE Rest(ext, 1))
  <2>1. got \o ext \in Seq(Text) /\ 1 \in 1..Len(got \o ext) + 1
    BY <1>2, <1>4, FromMore, ConcatProperties
  <2>2. "nothing" \in Known /\ FALSE \in BOOLEAN
    BY DEF Known
  <2>3. PICK s, w : s = got \o ext /\ w = (vAddr # -1)
    OBVIOUS
  <2>4. InOnePiece(s, w)[<<1, "nothing", FALSE>>] \in Said
    BY <2>1, <2>2, <2>3, OnePieceIs
  <2>5. PICK r : r = Whole(ext)[<<1, "nothing", FALSE>>] /\ r \in Said
    BY <2>3, <2>4 DEF Whole
  <2>6. <<>> \o r = r
    BY <2>5, ConcatEmptySeq DEF Said
  <2>7. Rest(ext, 1) = r
    BY <1>1, <2>5 DEF Rest
  <2> QED
    BY <1>1, <2>5, <2>6, <2>7
<1>6. ReadUpTo(1)
  BY <1>4, <1>5 DEF ReadUpTo
<1> QED
  BY <1>1, <1>2, <1>6 DEF Framed, Waits

(* The steps that neither receive nor read.                                *)
LEMMA FramedKeeps ==
  ASSUME Framed, UNCHANGED <<streamVars, peerVars, vAddr>>,
         pc' \in {"direct", "hello"} \cup DOMAIN Stage => pc \in {"direct", "hello"} \cup DOMAIN Stage,
         Waits', pc' = "select" => Incomplete, ban => pc' \in {"send", "loop", "end"}
  PROVE  Framed'
<1>1. UNCHANGED <<wire, got, vRecv, old, said, seen, ban, vAddr>>
  BY DEF streamVars, peerVars
<1>2. Incomplete' = Incomplete
  BY <1>1 DEF Incomplete, Head_, HeaderSize
<1>3. ASSUME NEW p PROVE ReadUpTo(p)' = ReadUpTo(p)
  BY <1>1 DEF ReadUpTo, Rest, Whole
<1> QED
  BY <1>1, <1>2, <1>3 DEF Framed

LEMMA NothingYet == vRecv = <<>> => Incomplete
<1> SUFFICES ASSUME vRecv = <<>> PROVE Incomplete
  OBVIOUS
<1>1. PICK S : S = {}
  OBVIOUS
<1>2. vRecv \in Seq(S) /\ Len(vRecv) = 0
  BY EmptySeq
<1>3. PICK k : k = Start(vRecv)
  OBVIOUS
<1>4. k = 1
  <2>1. k \in 1..Len(vRecv) + 1
    BY <1>2, <1>3, StartIs
  <2> QED
    BY <1>2, <2>1
<1>5. Len(From(vRecv, k)) = Len(vRecv) - k + 1
  <2>1. k \in 1..Len(vRecv) + 1
    BY <1>2, <1>4
  <2> QED
    BY <1>2, <2>1, FromIs
<1>6. Len(Head_) = 0
  BY <1>2, <1>3, <1>4, <1>5 DEF Head_
<1>7. Len(Head_) < HeaderSize /\ ~ (Len(Head_) >= HeaderSize)
  BY <1>6, HeaderSizeIs
<1> QED
  BY <1>7, HeaderSizeIs DEF Incomplete

LEMMA FramedOther ==
  ASSUME SessionTypeOK, Framed,
         ConnectSocketDirectly \/ Socks5 \/ PushVersion \/ Send \/ Loop \/ SelectEnds \/ SelectFails
         \/ PeerGone \/ Throw \/ Tick \/ UNCHANGED sessionVars
  PROVE  Framed'
<1>1. CASE ConnectSocketDirectly \/ Socks5
  <2>1. UNCHANGED <<streamVars, peerVars, vAddr>> /\ pc \in {"direct"} \cup DOMAIN Stage
        /\ pc' \in {"hello", "end"} \cup DOMAIN Stage
    BY <1>1, Stages DEF ConnectSocketDirectly, Socks5, Idle, End
  <2>2. ~ ban
    BY <2>1, Stages DEF Framed
  <2> QED
    BY <2>1, <2>2, Stages, FramedKeeps DEF Waits
<1>2. CASE PushVersion
  <2>1. UNCHANGED <<streamVars, peerVars, vAddr>> /\ pc = "hello" /\ pc' = "send"
    BY <1>2 DEF PushVersion, peerVars
  <2>2. (vRecv = <<>>)'
    BY <2>1 DEF Framed, streamVars
  <2>3. Incomplete'
    BY <2>2, NothingYet, PTL
  <2> QED
    BY <2>1, <2>3, Stages, FramedKeeps DEF Waits
<1>3. CASE Send
  <2>1. UNCHANGED <<streamVars, peerVars, vAddr, left>> /\ pc = "send" /\ pc' = "loop"
    BY <1>3 DEF Send
  <2>2. Waits'
    BY <2>1 DEF Framed, Waits, Incomplete, Head_, HeaderSize, streamVars, peerVars
  <2> QED
    BY <2>1, <2>2, Stages, FramedKeeps
<1>4. CASE Loop
  <2>1. UNCHANGED <<streamVars, peerVars, vAddr, left>> /\ pc = "loop" /\ pc' \in {"select", "end"}
        /\ (pc' = "select" => ~ ban /\ left # 0)
    BY <1>4 DEF Loop, Idle, End
  <2>2. pc' = "select" => Incomplete
    BY <2>1 DEF Framed, Waits
  <2> QED
    BY <2>1, <2>2, Stages, FramedKeeps DEF Waits
<1>5. CASE SelectEnds \/ SelectFails \/ PeerGone \/ Throw
  <2>1. UNCHANGED <<streamVars, peerVars, vAddr>> /\ pc' = "end"
    BY <1>5 DEF SelectEnds, SelectFails, PeerGone, Throw, Idle, End
  <2> QED
    BY <2>1, Stages, FramedKeeps DEF Waits
<1>6. CASE Tick
  <2>1. UNCHANGED <<streamVars, peerVars, vAddr, pc>> /\ pc \in {"direct", "select"} \cup DOMAIN Stage
    BY <1>6 DEF Tick
  <2>2. Waits' /\ (pc' = "select" => Incomplete) /\ (ban => pc' \in {"send", "loop", "end"})
    BY <2>1, Stages DEF Framed, Waits
  <2> QED
    BY <2>1, <2>2, Stages, FramedKeeps
<1>7. CASE UNCHANGED sessionVars
  <2>1. UNCHANGED <<streamVars, peerVars, vAddr, pc, left>>
    BY <1>7 DEF sessionVars
  <2>2. Waits' /\ (pc' = "select" => Incomplete) /\ (ban => pc' \in {"send", "loop", "end"})
    BY <2>1 DEF Framed, Waits, Incomplete, Head_, HeaderSize, streamVars, peerVars
  <2> QED
    BY <2>1, <2>2, FramedKeeps
<1> QED
  BY <1>1, <1>2, <1>3, <1>4, <1>5, <1>6, <1>7

LEMMA FramedRecv == ASSUME Framed, Recv PROVE Framed'
<1>0. PICK n \in 1..Len(wire) : \E part : part = SubSeq(wire, 1, n)
        /\ wire' = From(wire, n + 1) /\ got' = got \o part /\ vRecv' = vRecv \o part
  BY DEF Recv
<1>1. PICK part : part = SubSeq(wire, 1, n)
        /\ wire' = From(wire, n + 1) /\ got' = got \o part /\ vRecv' = vRecv \o part
  BY <1>0
<1>2. pc = "select" /\ pc' = "frame" /\ ~ ban /\ UNCHANGED <<old, said, seen, ban, vAddr>>
  BY DEF Recv, peerVars, Framed
<1>3. part \in Seq(Text) /\ wire' \in Seq(Text)
  <2>1. wire \in Seq(Text) /\ Len(wire) \in Nat
    BY LenProperties DEF Framed
  <2>2. \A i \in 1..n : i \in 1..Len(wire)
    BY <2>1
  <2>3. \A i \in 1..n : wire[i] \in Text
    BY <2>1, <2>2, ElementOfSeq
  <2>4. n + 1 \in 1..Len(wire) + 1 /\ n \in Int /\ 1 \in Int
    BY <2>1
  <2> QED
    BY <1>1, <2>1, <2>3, <2>4, SubSeqProperties, FromIs
<1>4. got \in Seq(Text) /\ got' \in Seq(Text)
  BY <1>1, <1>3, ConcatProperties DEF Framed
<1>5. PICK p \in Nat : ReadUpTo(p)
  BY DEF Framed
<1>6. p \in 1..Len(got') + 1 /\ vRecv' = From(got', p)
  BY <1>1, <1>3, <1>4, <1>5, FromMore DEF ReadUpTo
<1>7. ASSUME NEW ext \in Seq(Text)
      PROVE  Whole(ext)'[<<1, "nothing", FALSE>>] = seen' \o (IF ban' THEN << <<"ban">> >> ELSE Rest(ext, p)')
  <2>1. PICK more : more = part \o ext
    OBVIOUS
  <2>2. more \in Seq(Text) /\ got' \o ext = got \o more
    <3>1. PICK a : a = got /\ a \in Seq(Text)
      BY <1>4
    <3>2. part \in Seq(Text) /\ ext \in Seq(Text) /\ a \in Seq(Text)
      BY <1>3, <3>1
    <3>3. (a \o part) \o ext = a \o (part \o ext)
      BY ONLY <3>2, ConcatAssociative
    <3>4. part \o ext \in Seq(Text)
      BY ONLY <3>2, ConcatProperties
    <3> QED
      BY <1>1, <2>1, <3>1, <3>3, <3>4
  <2>3. Whole(ext)' = Whole(more) /\ Rest(ext, p)' = Rest(more, p)
    BY <1>2, <2>2 DEF Whole, Rest
  <2> QED
    BY <1>2, <1>5, <2>2, <2>3 DEF ReadUpTo
<1>8. ReadUpTo(p)'
  BY <1>6, <1>7 DEF ReadUpTo
<1> QED
  BY <1>2, <1>3, <1>4, <1>8, Stages DEF Framed, Waits

(* What NoMessage keeps begins no later than the next message does.        *)
LEMMA KeptIs ==
  ASSUME vRecv \in Seq(Text)
  PROVE  \E k \in 1..Len(vRecv) + 1 :
           /\ Kept = From(vRecv, k) /\ k <= Start(vRecv) /\ (k = 1 \/ k <= Len(vRecv))
           /\ From(Kept, Start(Kept)) = Head_
<1>1. Len(vRecv) \in Nat /\ Start(vRecv) \in 1..Len(vRecv) + 1 /\ (HeaderSize = 4 \/ HeaderSize = 5)
  BY LenProperties, StartIs, HeaderSizeIs
<1>2. Len(Head_) = Len(vRecv) - Start(vRecv) + 1
  BY <1>1, FromIs DEF Head_
<1>3. PICK k \in 1..Len(vRecv) + 1 : Kept = From(vRecv, k) /\ k <= Start(vRecv) /\ (k = 1 \/ k <= Len(vRecv))
  <2>1. CASE Len(Head_) >= HeaderSize
    <3>1. Start(vRecv) <= Len(vRecv)
      BY <1>1, <1>2, <2>1
    <3>2. Kept = From(vRecv, Start(vRecv))
      BY <2>1 DEF Kept, Head_
    <3> QED
      BY <1>1, <3>1, <3>2
  <2>2. CASE ~ (Len(Head_) >= HeaderSize) /\ Len(vRecv) > HeaderSize
    <3>1. PICK j : j = Len(vRecv) - HeaderSize + 1
      OBVIOUS
    <3>2. j \in 1..Len(vRecv) + 1 /\ j <= Start(vRecv) /\ j <= Len(vRecv)
      BY <1>1, <1>2, <2>2, <3>1
    <3>3. Kept = From(vRecv, j)
      BY <2>2, <3>1 DEF Kept
    <3> QED
      BY <3>2, <3>3
  <2>3. CASE ~ (Len(Head_) >= HeaderSize) /\ ~ (Len(vRecv) > HeaderSize)
    <3>1. Kept = From(vRecv, 1)
      <4>1. From(vRecv, 1) = vRecv
        BY SubSeqFull DEF From
      <4> QED
        BY <2>3, <4>1 DEF Kept
    <3> QED
      BY <1>1, <3>1
  <2> QED
    BY <2>1, <2>2, <2>3
<1>4. \A q \in 1..k - 1 : ~ Begins(vRecv, q)
  <2>1. \A q \in 1..k - 1 : q \in 1..Start(vRecv) - 1
    BY <1>1, <1>3
  <2> QED
    BY <2>1, StartIs
<1>5. NextStart(vRecv, 1) = NextStart(vRecv, k)
  <2>1. 1 \in 1..Len(vRecv) + 1 /\ k \in 1..Len(vRecv) + 1
    BY <1>1
  <2> QED
    BY <1>4, <2>1, NextStartSkips
<1>6. NextStart(vRecv, 1) = Start(vRecv)
  <2>1. From(vRecv, 1) = vRecv
    BY SubSeqFull DEF From
  <2> QED
    BY <1>1, <2>1 DEF NextStart
<1>7. Start(Kept) = Start(vRecv) - k + 1
  <2>1. Kept \in Seq(Text)
    BY <1>3, FromIs
  <2>2. Start(Kept) \in 1..Len(Kept) + 1 /\ Len(Kept) \in Nat
    BY <2>1, StartIs, LenProperties
  <2>3. NextStart(vRecv, k) = k + Start(Kept) - 1
    BY <1>3 DEF NextStart
  <2> QED
    BY <1>1, <1>5, <1>6, <2>2, <2>3
<1>8. From(Kept, Start(Kept)) = Head_
  <2>1. PICK j : j = Start(vRecv) - k + 1
    OBVIOUS
  <2>2. j \in 1..Len(vRecv) - k + 2 /\ k + j - 1 = Start(vRecv)
    BY <1>1, <1>3, <2>1
  <2>3. From(From(vRecv, k), j) = From(vRecv, k + j - 1)
    BY <2>2, FromOn
  <2> QED
    BY <1>3, <1>7, <2>1, <2>2, <2>3 DEF Head_
<1> QED
  BY <1>3, <1>8

LEMMA FramedNoMessage == ASSUME SessionTypeOK, Framed, NoMessage PROVE Framed'
<1>1. pc = "frame" /\ pc' = "send" /\ Incomplete /\ vRecv' = Kept /\ ~ ban
      /\ UNCHANGED <<wire, got, old, said, seen, ban, vAddr>>
  BY DEF NoMessage, peerVars, Framed
<1>2. PICK p \in Nat : ReadUpTo(p)
  BY DEF Framed
<1>3. got \in Seq(Text) /\ p \in 1..Len(got) + 1 /\ vRecv = From(got, p) /\ Len(got) \in Nat
  BY <1>2, LenProperties DEF Framed, ReadUpTo
<1>4. vRecv \in Seq(Text) /\ Len(vRecv) = Len(got) - p + 1
  BY <1>3, FromIs
<1>5. PICK k \in 1..Len(vRecv) + 1 :
        /\ Kept = From(vRecv, k) /\ k <= Start(vRecv) /\ (k = 1 \/ k <= Len(vRecv))
        /\ From(Kept, Start(Kept)) = Head_
  BY <1>4, KeptIs
<1>6. PICK r : r = p + k - 1
  OBVIOUS
<1>7. r \in 1..Len(got) + 1 /\ r \in Nat /\ r \in p..Len(got) + 1 /\ Kept = From(got, r)
  <2>1. k \in 1..Len(got) - p + 2
    BY <1>3, <1>4
  <2>2. p + k - 1 \in 1..Len(got) + 1 /\ From(From(got, p), k) = From(got, p + k - 1)
    BY <1>3, <2>1, FromOn
  <2> QED
    BY <1>3, <1>5, <1>6, <2>1, <2>2
<1>8. \A q \in p..r - 1 : q \in 1..Len(got) - 1 /\ ~ Begins(got, q)
  <2>1. SUFFICES ASSUME NEW q \in p..r - 1 PROVE q \in 1..Len(got) - 1 /\ ~ Begins(got, q)
    OBVIOUS
  <2>2. PICK i : i = q - p + 1
    OBVIOUS
  <2>3. k <= Len(vRecv)
    BY <1>3, <1>4, <1>5, <1>6, <2>1
  <2>4. q \in 1..Len(got) - 1 /\ i \in Nat /\ i > 0 /\ p + i - 1 = q
    BY <1>3, <1>4, <1>6, <2>1, <2>2, <2>3
  <2>5. i \in 1..Start(vRecv) - 1
    <3>1. Start(vRecv) \in 1..Len(vRecv) + 1
      BY <1>4, StartIs
    <3> QED
      BY <1>3, <1>4, <1>5, <1>6, <2>1, <2>2, <3>1
  <2>6. ~ Begins(vRecv, i)
    BY <1>4, <2>5, StartIs
  <2>7. Begins(From(got, p), i) <=> Begins(got, p + i - 1)
    BY <1>3, <2>4, BeginsBehind
  <2> QED
    BY <1>3, <2>4, <2>6, <2>7
<1>9. ASSUME NEW ext \in Seq(Text) PROVE Rest(ext, p) = Rest(ext, r)
  <2>1. PICK x : x = got \o ext /\ x \in Seq(Text) /\ p \in 1..Len(x) + 1 /\ r \in 1..Len(x) + 1
    BY <1>3, <1>7, FromMore, ConcatProperties
  <2>2. \A q \in p..r - 1 : ~ Begins(x, q)
    BY <1>3, <1>8, <2>1, BeginsMore
  <2>3. NextStart(x, p) = NextStart(x, r)
    <3>1. r \in p..Len(x) + 1
      BY <1>7, <2>1, LenProperties
    <3> QED
      BY <2>1, <2>2, <3>1, NextStartSkips
  <2>4. PICK v, o, w, f : v = said /\ o = old /\ w = (vAddr # -1) /\ f = InOnePiece(x, w)
    OBVIOUS
  <2>5. v \in Known /\ o \in BOOLEAN
    BY <2>4 DEF SessionTypeOK, Known
  <2>6. f[<<p, v, o>>] = Reading(f, x, p, v, o, w) /\ f[<<r, v, o>>] = Reading(f, x, r, v, o, w)
    <3>1. InOnePiece(x, w)[<<p, v, o>>] = Reading(InOnePiece(x, w), x, p, v, o, w)
      BY <2>1, <2>5, OnePieceIs
    <3>2. InOnePiece(x, w)[<<r, v, o>>] = Reading(InOnePiece(x, w), x, r, v, o, w)
      BY <2>1, <2>5, OnePieceIs
    <3> QED
      BY <2>4, <3>1, <3>2
  <2>7. Reading(f, x, p, v, o, w) = Reading(f, x, r, v, o, w)
    BY <2>3 DEF Reading
  <2> QED
    BY <2>1, <2>4, <2>6, <2>7 DEF Rest, Whole
<1>10. ReadUpTo(r)'
  <2>1. \A ext : Whole(ext)' = Whole(ext) /\ Rest(ext, r)' = Rest(ext, r)
    BY <1>1 DEF Whole, Rest
  <2> QED
    BY <1>1, <1>2, <1>7, <1>9, <2>1 DEF ReadUpTo
<1>11. Incomplete'
  <2>1. Head_' = Head_ /\ HeaderSize' = HeaderSize
    BY <1>1, <1>5 DEF Head_, HeaderSize
  <2> QED
    BY <1>1, <2>1 DEF Incomplete
<1> QED
  BY <1>1, <1>7, <1>10, <1>11, Stages DEF Framed, Waits

(* Reading goes on k symbols behind the message start.                     *)
LEMMA ReadOn ==
  ASSUME got \in Seq(Text), NEW p \in 1..Len(got) + 1, vRecv = From(got, p), Head_ = Frame(got, p),
         NEW k \in Nat, k <= Len(Head_)
  PROVE  /\ NextStart(got, p) + k \in 1..Len(got) + 1
         /\ From(Head_, k + 1) = From(got, NextStart(got, p) + k)
<1>1. Len(got) \in Nat
  BY LenProperties
<1>2. PICK q : q = NextStart(got, p) /\ q \in p..Len(got) + 1
  BY NextStartIs
<1>3. q \in 1..Len(got) + 1 /\ Head_ = From(got, q)
  BY <1>1, <1>2 DEF Frame
<1>4. Len(Head_) = Len(got) - q + 1
  BY <1>3, FromIs
<1>5. PICK j : j = k + 1
  OBVIOUS
<1>6. j \in 1..Len(got) - q + 2 /\ q + j - 1 = q + k
  BY <1>1, <1>3, <1>4, <1>5
<1>7. q + j - 1 \in 1..Len(got) + 1 /\ From(From(got, q), j) = From(got, q + j - 1)
  BY <1>3, <1>6, FromOn
<1> QED
  BY <1>2, <1>3, <1>5, <1>6, <1>7

LEMMA FramedBad ==
  ASSUME SessionTypeOK, Framed, BadHeader \/ BadChecksum
  PROVE  Framed'
<1>1. pc = "frame" /\ ~ Incomplete /\ vRecv' = From(Head_, HeaderSize + 1) /\ ~ ban
      /\ UNCHANGED <<wire, got, old, said, seen, vAddr, left>>
      /\ pc' \in {"frame", "send"} /\ (pc' = "send" => ban') /\ (ban' => pc' = "send")
  BY DEF BadHeader, BadChecksum, Complete, peerVars, Framed
<1>2. PICK p \in Nat : ReadUpTo(p)
  BY DEF Framed
<1>3. got \in Seq(Text) /\ p \in 1..Len(got) + 1 /\ vRecv = From(got, p)
  BY <1>2 DEF Framed, ReadUpTo
<1>4. HeaderSize = 4 \/ HeaderSize = 5
  BY HeaderSizeIs
<1>5. ~ (Len(Head_) < HeaderSize)
  <2>1. vRecv \in Seq(Text) /\ Start(vRecv) \in 1..Len(vRecv) + 1
    BY <1>3, FromIs, StartIs
  <2>2. Head_ \in Seq(Text) /\ Len(Head_) \in Nat
    BY <2>1, FromIs, LenProperties DEF Head_
  <2> QED
    BY <1>1, <1>4, <2>2 DEF Incomplete
<1>6. <<>> \in Seq(Text)
  BY EmptySeq
<1>7. Head_ = Frame(got, p) /\ Head_ \in Seq(Text)
  BY <1>3, <1>5, <1>6, NextRead
<1>8. PICK r : r = NextStart(got, p) + HeaderSize
  OBVIOUS
<1>9. r \in 1..Len(got) + 1 /\ vRecv' = From(got, r)
  <2>1. HeaderSize \in Nat /\ HeaderSize <= Len(Head_)
    BY <1>4, <1>5, <1>7, LenProperties
  <2> QED
    BY <1>1, <1>3, <1>7, <1>8, <2>1, ReadOn
<1>10. \A ext : Whole(ext)' = Whole(ext) /\ Rest(ext, r)' = Rest(ext, r)
  BY <1>1 DEF Whole, Rest
<1>11. CASE BadHeader
  <2>1. ban' /\ ~ ValidHeader(Head_)
    BY <1>11 DEF BadHeader
  <2>2. \A ext \in Seq(Text) : Rest(ext, p) = << <<"ban">> >>
    BY <1>3, <1>5, <2>1, NextRead
  <2>3. ReadUpTo(r)'
    BY <1>1, <1>2, <1>9, <1>10, <2>1, <2>2 DEF ReadUpTo
  <2> QED
    BY <1>1, <1>9, <2>1, <2>3, Stages DEF Framed, Waits
<1>12. CASE BadChecksum
  <2>1. ~ ban' /\ ValidHeader(Head_) /\ ~ SumOK
    BY <1>1, <1>12 DEF BadChecksum, Complete, peerVars
  <2>2. \A ext \in Seq(Text) : Rest(ext, p) = Rest(ext, r)
    <3>1. SUFFICES ASSUME NEW ext \in Seq(Text) PROVE Rest(ext, p) = Rest(ext, r)
      OBVIOUS
    <3>2. Rest(ext, p) = Whole(ext)[<<NextStart(got, p) + HeaderSize, said, old>>]
      BY <1>1, <1>3, <1>5, <2>1, NextRead
    <3> QED
      BY <1>8, <3>2 DEF Rest
  <2>3. ReadUpTo(r)'
    BY <1>1, <1>2, <1>9, <1>10, <2>1, <2>2 DEF ReadUpTo
  <2> QED
    BY <1>1, <1>9, <2>1, <2>3, Stages DEF Framed, Waits
<1> QED
  BY <1>11, <1>12

(* A message processed is the next of the reference, and what is behind it *)
(* is read with the version and in the framing the reference goes on with. *)
LEMMA MessageRead ==
  ASSUME SessionIInv, Delivery, ProcessMessage
  PROVE  /\ said' = VersionAfter(Head_, Payload(Head_), said)
         /\ old' = FramingAfter(Head_, Payload(Head_), said, old)
         /\ vAddr' # -1 <=> vAddr # -1
         /\ pc' \in {"frame", "send"} /\ (pc' = "send" => left' = 0)
<1>1. vAddr' # -1 <=> vAddr # -1
  BY ReplyQueued
<1>2. CASE Head_[3] = "version" /\ GotVersionMessage(Body)
  <2>1. Payload(Head_) # <<>> /\ Body = Payload(Head_)[1]
    <3>1. Body \in Versions
      BY <1>2 DEF ProcessMessage, Throws
    <3>2. "short" \notin Versions
      BY DEF Versions
    <3> QED
      BY <3>1, <3>2 DEF Body
  <2>2. old \in BOOLEAN
    BY DEF SessionIInv, SessionTypeOK
  <2> QED
    BY <1>1, <1>2, <2>1, <2>2 DEF GotVersionMessage, VersionAfter, FramingAfter
<1>3. CASE Head_[3] = "verack" /\ GotVerack
  BY <1>1, <1>3 DEF GotVerack, VersionAfter, FramingAfter
<1>4. CASE Head_[3] = "addr" /\ \E fresh \in 0..AddrCount[Body] : GotAddr(AddrCount[Body], fresh)
  BY <1>1, <1>4 DEF GotAddr, VersionAfter, FramingAfter
<1>5. CASE /\ Head_[3] = "ping" \/ (Head_[3] = "addr" /\ vAddr = -1)
           /\ UNCHANGED <<pc, old, said, vSend, vAddr, left>>
  <2>1. pc = "frame"
    BY DEF ProcessMessage, Complete
  <2> QED
    BY <1>1, <1>5, <2>1 DEF VersionAfter, FramingAfter
<1> QED
  BY <1>2, <1>3, <1>4, <1>5 DEF ProcessMessage

LEMMA FramedMessage ==
  ASSUME SessionIInv, Delivery, Framed, ProcessMessage
  PROVE  Framed'
<1>1. /\ ~ Incomplete /\ ValidHeader(Head_) /\ SumOK /\ ~ Throws /\ pc = "frame" /\ ~ ban
      /\ vRecv' = From(Head_, HeaderSize + MessageSize(Head_) + 1)
      /\ seen' = Append(seen, <<Head_[3], Body>>)
      /\ UNCHANGED <<wire, got, ban>>
  BY DEF ProcessMessage, Complete, Framed
<1>2. /\ said' = VersionAfter(Head_, Payload(Head_), said)
      /\ old' = FramingAfter(Head_, Payload(Head_), said, old)
      /\ vAddr' # -1 <=> vAddr # -1
      /\ pc' \in {"frame", "send"} /\ (pc' = "send" => left' = 0)
  BY MessageRead
<1>3. PICK p \in Nat : ReadUpTo(p)
  BY DEF Framed
<1>4. got \in Seq(Text) /\ p \in 1..Len(got) + 1 /\ vRecv = From(got, p) /\ SessionTypeOK
  BY <1>3 DEF Framed, ReadUpTo, SessionIInv
<1>5. PICK size, n, m : size = HeaderSize /\ n = MessageSize(Head_) /\ m = <<Head_[3], Body>>
  OBVIOUS
<1>6. (size = 4 \/ size = 5) /\ n \in 0..2
  BY <1>1, <1>5, HeaderSizeIs, SizeIs
<1>7. Len(Head_) \in Nat
  <2>1. vRecv \in Seq(Text) /\ Start(vRecv) \in 1..Len(vRecv) + 1
    BY <1>4, FromIs, StartIs
  <2> QED
    BY <2>1, FromIs, LenProperties DEF Head_
<1>8. size + n <= Len(Head_) /\ ~ (Len(Head_) < size)
  BY <1>1, <1>5, <1>6, <1>7 DEF Incomplete
<1>9. <<>> \in Seq(Text)
  BY EmptySeq
<1>10. Head_ = Frame(got, p) /\ Head_ \in Seq(Text) /\ ~ CannotRead(Head_, Payload(Head_), vAddr # -1)
  BY <1>1, <1>4, <1>5, <1>8, <1>9, NextRead
<1>11. PICK k : k = size + n
  OBVIOUS
<1>12. k \in Nat /\ k <= Len(Head_)
  BY <1>6, <1>8, <1>11
<1>13. PICK r : r = NextStart(got, p) + k
  OBVIOUS
<1>14. r \in 1..Len(got) + 1 /\ r \in Nat /\ vRecv' = From(got, r)
  <2>1. NextStart(got, p) + k \in 1..Len(got) + 1 /\ From(Head_, k + 1) = From(got, NextStart(got, p) + k)
    BY <1>4, <1>10, <1>12, ReadOn
  <2>2. Len(got) \in Nat
    BY <1>4, LenProperties
  <2> QED
    BY <1>1, <1>5, <1>11, <1>13, <2>1, <2>2
<1>15. m \in Seq(Text) /\ <<m>> \in Said
  <2>1. 3 \in 1..Len(Head_)
    BY <1>6, <1>7, <1>8
  <2>2. Inside(Head_, size) = Payload(Head_) /\ m = Message(Head_, Payload(Head_))
    BY <1>5 DEF Inside, Payload, Message, Body
  <2>3. Payload(Head_) \in Seq(Text)
    <3>1. ValidHeader(Frame(got, p)) /\ ~ (Len(Frame(got, p)) < size)
          /\ ~ (Len(Frame(got, p)) < size + MessageSize(Frame(got, p)))
      <4>1. Len(Frame(got, p)) \in Nat /\ MessageSize(Frame(got, p)) = n /\ Head_ = Frame(got, p)
        BY <1>5, <1>7, <1>10
      <4> QED
        BY <1>1, <1>6, <1>8, <4>1
    <3>2. Inside(Frame(got, p), size) \in Seq(Text)
      BY <1>4, <1>6, <3>1, FrameIs
    <3> QED
      BY <1>10, <2>2, <3>2
  <2> QED
    BY <1>10, <2>1, <2>2, <2>3, MessageIs
<1>16. PICK s : s = seen /\ s \in Said
  BY DEF Framed
<1>17. seen' = s \o <<m>> /\ seen' \in Said
  <2>1. Append(s, m) = s \o <<m>> /\ s \o <<m>> \in Seq(Seq(Text))
    BY <1>15, <1>16, AppendIsConcat, ConcatProperties DEF Said
  <2> QED
    BY <1>1, <1>5, <1>16, <2>1 DEF Said
<1>18. ASSUME NEW ext \in Seq(Text)
       PROVE  Whole(ext)'[<<1, "nothing", FALSE>>] = seen' \o (IF ban' THEN << <<"ban">> >> ELSE Rest(ext, r)')
  <2>1. Whole(ext)' = Whole(ext)
    BY <1>1, <1>2 DEF Whole
  <2>2. PICK rest : rest = Rest(ext, r)'
    OBVIOUS
  <2>3. rest = Whole(ext)[<<r, VersionAfter(Head_, Payload(Head_), said),
                               FramingAfter(Head_, Payload(Head_), said, old)>>]
    BY <1>2, <2>1, <2>2 DEF Rest
  <2>4. NextStart(got, p) + HeaderSize + MessageSize(Head_) = r
    <3>1. NextStart(got, p) \in Nat
      BY <1>4, NextStartIs, LenProperties
    <3> QED
      BY <1>5, <1>6, <1>11, <1>13, <3>1
  <2>5. Rest(ext, p) = <<m>> \o rest
    BY <1>1, <1>4, <1>5, <1>8, <2>3, <2>4, NextRead
  <2>6. rest \in Said
    <3>1. PICK x, w : x = got \o ext /\ w = (vAddr # -1)
      OBVIOUS
    <3>2. x \in Seq(Text) /\ r \in 1..Len(x) + 1
      BY <1>4, <1>14, <3>1, FromMore, ConcatProperties
    <3>3. PICK v, o : v = VersionAfter(Head_, Payload(Head_), said)
                      /\ o = FramingAfter(Head_, Payload(Head_), said, old)
      OBVIOUS
    <3>4. v \in Known /\ o \in BOOLEAN
      <4>1. said \in Known /\ old \in BOOLEAN
        BY <1>4 DEF SessionTypeOK, Known
      <4> QED
        BY <1>10, <3>3, <4>1, AfterIs
    <3>5. InOnePiece(x, w)[<<r, v, o>>] \in Said
      BY <3>2, <3>4, OnePieceIs
    <3> QED
      BY <2>3, <3>1, <3>3, <3>5 DEF Whole
  <2>7. (s \o <<m>>) \o rest = s \o (<<m>> \o rest)
    <3>1. s \in Seq(Seq(Text)) /\ <<m>> \in Seq(Seq(Text)) /\ rest \in Seq(Seq(Text))
      BY <1>15, <1>16, <2>6 DEF Said
    <3> QED
      BY ONLY <3>1, ConcatAssociative
  <2>8. Whole(ext)[<<1, "nothing", FALSE>>] = s \o Rest(ext, p)
    BY <1>1, <1>3, <1>16 DEF ReadUpTo
  <2> QED
    BY <1>1, <1>17, <2>1, <2>2, <2>5, <2>7, <2>8
<1>19. ReadUpTo(r)'
  BY <1>1, <1>14, <1>18 DEF ReadUpTo
<1>20. Waits'
  BY <1>2 DEF Waits
<1> QED
  BY <1>1, <1>2, <1>14, <1>17, <1>19, <1>20, Stages DEF Framed

LEMMA FramedStep == SessionIInv /\ Delivery /\ Framed /\ [SessionNext]_sessionVars => Framed'
<1> SUFFICES ASSUME SessionIInv, Delivery, Framed, [SessionNext]_sessionVars PROVE Framed'
  OBVIOUS
<1>1. SessionTypeOK
  BY DEF SessionIInv
<1>2. CASE NoMessage
  BY <1>1, <1>2, FramedNoMessage
<1>3. CASE BadHeader \/ BadChecksum
  BY <1>1, <1>3, FramedBad
<1>4. CASE ProcessMessage
  BY <1>4, FramedMessage
<1>5. CASE Recv
  BY <1>5, FramedRecv
<1> QED
  BY <1>1, <1>2, <1>3, <1>4, <1>5, FramedOther DEF SessionNext, Program
-----------------------------------------------------------------------------
(* What Framed says of the messages processed.                             *)

(* Nothing of the reference is left when no message is complete.           *)
LEMMA NothingLeft ==
  ASSUME SessionTypeOK, got \in Seq(Text), NEW p \in 1..Len(got) + 1, vRecv = From(got, p), Incomplete
  PROVE  Rest(<<>>, p) = <<>>
<1>1. got \o <<>> = got
  BY ConcatEmptySeq
<1>2. PICK s, w, v, o : s = got /\ w = (vAddr # -1) /\ v = said /\ o = old
  OBVIOUS
<1>3. Rest(<<>>, p) = Reading(InOnePiece(s, w), s, p, v, o, w)
  <2>1. v \in Known /\ o \in BOOLEAN /\ s \in Seq(Text) /\ p \in 1..Len(s) + 1
    BY <1>2 DEF SessionTypeOK, Known
  <2>2. InOnePiece(s, w)[<<p, v, o>>] = Reading(InOnePiece(s, w), s, p, v, o, w)
    BY <2>1, OnePieceIs
  <2> QED
    BY <1>1, <1>2, <2>2 DEF Rest, Whole
<1>4. PICK h, size : h = From(s, NextStart(s, p)) /\ size = HeaderSize
  OBVIOUS
<1>5. Head_ = h
  <2>1. PICK k : k = Start(vRecv)
    OBVIOUS
  <2>2. k \in 1..Len(got) - p + 2
    <3>1. vRecv \in Seq(Text) /\ Len(vRecv) = Len(got) - p + 1 /\ Len(got) \in Nat
      BY FromIs, LenProperties
    <3>2. k \in 1..Len(vRecv) + 1
      BY <2>1, <3>1, StartIs
    <3> QED
      BY <3>1, <3>2
  <2>3. From(From(got, p), k) = From(got, p + k - 1)
    BY <2>2, FromOn
  <2> QED
    BY <1>2, <1>4, <2>1, <2>3 DEF Head_, NextStart
<1>6. size = (IF o THEN 4 ELSE 5)
  BY <1>2, <1>4 DEF HeaderSize
<1>7. Len(h) < size \/ (ValidHeader(h) /\ Len(h) < size + MessageSize(h))
  <2>1. CASE Len(h) < size
    BY <2>1
  <2>2. CASE ~ (Len(h) < size)
    <3>1. Len(h) \in Nat /\ (size = 4 \/ size = 5)
      <4>1. vRecv \in Seq(Text)
        BY FromIs
      <4>2. Start(vRecv) \in 1..Len(vRecv) + 1
        BY <4>1, StartIs
      <4>3. Head_ \in Seq(Text)
        BY <4>1, <4>2, FromIs DEF Head_
      <4> QED
        BY <1>4, <1>5, <4>3, HeaderSizeIs, LenProperties
    <3>2. Len(h) >= size
      BY <2>2, <3>1
    <3>3. CASE ValidHeader(h)
      BY <1>4, <1>5, <3>2, <3>3 DEF Incomplete
    <3>4. CASE ~ ValidHeader(h)
      BY <1>4, <1>5, <2>2, <3>1, <3>4 DEF Incomplete
    <3> QED
      BY <3>3, <3>4
  <2> QED
    BY <2>1, <2>2
<1>8. Reading(InOnePiece(s, w), s, p, v, o, w) = <<>>
  <2>1. CASE Len(h) < size
    BY <1>4, <1>6, <2>1 DEF Reading
  <2>2. CASE ~ (Len(h) < size) /\ ValidHeader(h) /\ Len(h) < size + MessageSize(h)
    BY <1>4, <1>6, <2>2 DEF Reading
  <2> QED
    BY <1>7, <2>1, <2>2
<1> QED
  BY <1>3, <1>8

LEMMA FramedSays == ASSUME SessionTypeOK, Framed PROVE FramingIgnoresCuts
<1>1. PICK p \in Nat : ReadUpTo(p)
  BY DEF Framed
<1>2. got \in Seq(Text) /\ p \in 1..Len(got) + 1 /\ vRecv = From(got, p) /\ <<>> \in Seq(Text)
  BY <1>1, EmptySeq DEF Framed, ReadUpTo
<1>3. PICK s, r, whole :
        /\ s = seen /\ r = (IF ban THEN << <<"ban">> >> ELSE Rest(<<>>, p))
        /\ whole = InOnePiece(got, vAddr # -1)[<<1, "nothing", FALSE>>]
  OBVIOUS
<1>4. whole = s \o r
  <2>1. got \o <<>> = got
    BY <1>2, ConcatEmptySeq
  <2>2. Whole(<<>>)[<<1, "nothing", FALSE>>] = s \o r
    BY <1>1, <1>2, <1>3 DEF ReadUpTo
  <2> QED
    BY <1>3, <2>1, <2>2 DEF Whole
<1>5. s \in Said /\ r \in Said
  <2>1. s \in Said
    BY <1>3 DEF Framed
  <2>2. << <<"ban">> >> \in Said
    BY DEF Said, Text
  <2>3. Rest(<<>>, p) \in Said
    <3>1. PICK t, w, v, o : t = got /\ w = (vAddr # -1) /\ v = said /\ o = old
      OBVIOUS
    <3>2. v \in Known /\ o \in BOOLEAN /\ t \in Seq(Text) /\ p \in 1..Len(t) + 1
      BY <1>2, <3>1 DEF SessionTypeOK, Known
    <3>3. InOnePiece(t, w)[<<p, v, o>>] \in Said
      BY <3>2, OnePieceIs
    <3>4. got \o <<>> = got
      BY <1>2, ConcatEmptySeq
    <3> QED
      BY <3>1, <3>3, <3>4 DEF Rest, Whole
  <2> QED
    BY <1>3, <2>1, <2>2, <2>3
<1>6. /\ Len(whole) = Len(s) + Len(r) /\ Len(s) \in Nat /\ Len(r) \in Nat
      /\ \A i \in 1..Len(s) + Len(r) : whole[i] = IF i <= Len(s) THEN s[i] ELSE r[i - Len(s)]
  <2>1. s \in Seq(Seq(Text)) /\ r \in Seq(Seq(Text))
    BY <1>5 DEF Said
  <2> QED
    BY <1>4, <2>1, ConcatProperties, LenProperties
<1>7. IsPrefix(s, whole)
  <2>1. whole \in Seq(Seq(Text)) /\ s \in Seq(Seq(Text))
    BY <1>4, <1>5, ConcatProperties DEF Said
  <2>2. Len(s) <= Len(whole)
    BY <1>6
  <2>3. SubSeq(whole, 1, Len(s)) = s
    <3>1. PICK t : t = SubSeq(whole, 1, Len(s))
      OBVIOUS
    <3>2. /\ t \in Seq(Seq(Text)) /\ Len(t) = Len(s)
          /\ \A i \in 1..Len(s) : t[i] = whole[1 + i - 1]
      <4>1. \A i \in 1..Len(s) : whole[i] \in Seq(Text)
        <5>1. \A i \in 1..Len(s) : i \in 1..Len(whole)
          BY <1>6
        <5> QED
          BY <2>1, <5>1, ElementOfSeq
      <4>2. 1 \in Int /\ Len(s) \in Int /\ (1 > Len(s) => Len(s) = 0)
        BY <1>6
      <4> QED
        BY <1>6, <3>1, <4>1, <4>2, SubSeqProperties
    <3>3. \A i \in 1..Len(s) : t[i] = s[i]
      <4>1. \A i \in 1..Len(s) : i \in 1..Len(s) + Len(r) /\ i <= Len(s) /\ 1 + i - 1 = i
        BY <1>6
      <4> QED
        BY <1>6, <3>2, <4>1
    <3> QED
      BY <2>1, <3>1, <3>2, <3>3, SeqEqual
  <2>4. SubSeq(s, 1, Len(s)) = s
    BY <2>1, SubSeqFull
  <2> QED
    BY <2>2, <2>3, <2>4 DEF IsPrefix
<1>8. ASSUME pc = "select" PROVE s = whole
  <2>1. ~ ban /\ Incomplete
    BY <1>8 DEF Framed
  <2>2. r = <<>>
    BY <1>2, <1>3, <2>1, NothingLeft
  <2> QED
    BY <1>4, <1>5, <2>2, ConcatEmptySeq DEF Said
<1>9. ASSUME ban PROVE Len(s) < Len(whole) /\ whole[Len(s) + 1] = <<"ban">>
  <2>1. Len(r) = 1 /\ r[1] = <<"ban">>
    BY <1>3, <1>9
  <2>2. Len(s) + 1 \in 1..Len(s) + Len(r) /\ ~ (Len(s) + 1 <= Len(s)) /\ Len(s) + 1 - Len(s) = 1
    BY <1>6, <2>1
  <2>3. PICK i : i = Len(s) + 1
    OBVIOUS
  <2>4. whole[i] = r[1]
    BY <1>6, <2>2, <2>3
  <2> QED
    BY <1>6, <2>1, <2>3, <2>4
<1> QED
  BY <1>3, <1>7, <1>8, <1>9 DEF FramingIgnoresCuts
-----------------------------------------------------------------------------
(* The theorems.                                                           *)

(* bitcoin.cpp:90-98, 137-155, 222-235: the deadline, the wait of a        *)
(* blocking call and the batch of addresses stay in their ranges.          *)
THEOREM SessionTypes == SessionSpec => []SessionTypeOK
<1>1. SessionIInv => SessionTypeOK
  BY DEF SessionIInv
<1> QED BY <1>1, SessionIInvHolds, PTL

(* bitcoin.cpp:218-261, netbase.cpp:290-291: the descriptor of a session   *)
(* leaks in the two known ways and in no other.                            *)
THEOREM SocketsClosed == SessionSpec => []ClosedAtEnd
<1>1. SessionIInv => ClosedAtEnd
  BY DEF SessionIInv
<1> QED BY <1>1, SessionIInvHolds, PTL

(* bitcoin.cpp:216-263: no node is reported good on silence.               *)
THEOREM NotGoodOnSilence == SessionSpec => []GoodWasHeard
<1>1. SessionIInv => GoodWasHeard
  BY DEF SessionIInv, Deadline, Heard, GoodWasHeard
<1> QED BY <1>1, SessionIInvHolds, PTL

(* bitcoin.cpp:34-74: whatever part of the buffer each send takes, the     *)
(* peer gets what is due to it in order, nothing lost and nothing twice.   *)
THEOREM MessagesArriveInOrder == SessionSpec => []SentInOrder
<1>1. SessionTypeOK /\ Delivery => SentInOrder
  <2> SUFFICES ASSUME SessionTypeOK, Delivery,
                      pc \notin {"direct", "hello"} \cup DOMAIN Stage, sent \o vSend # <<>>
               PROVE  sent \o vSend = Due
    BY DEF SentInOrder, Due, Replies
  <2>1. pc \in Begun \cup {"end"}
    BY DEF SessionTypeOK, Begun
  <2> QED
    BY <2>1 DEF Delivery
<1>2. SessionSpec => []Delivery
  BY SessionIInvHolds, DeliveryInit, DeliveryStep, PTL DEF SessionSpec
<1>3. SessionIInv => SessionTypeOK
  BY DEF SessionIInv
<1> QED
  BY <1>1, <1>2, <1>3, SessionIInvHolds, PTL

(* bitcoin.cpp:160-203: wherever the network cuts the stream, and whatever *)
(* the parts are that NoMessage drops or keeps, the messages processed are *)
(* those of the whole stream read in one piece.                            *)
THEOREM FramingIsSound == SessionSpec => []FramingIgnoresCuts
<1>1. SessionTypeOK /\ Framed => FramingIgnoresCuts
  BY FramedSays
<1>2. SessionSpec => []Delivery
  BY SessionIInvHolds, DeliveryInit, DeliveryStep, PTL DEF SessionSpec
<1>3. SessionSpec => []Framed
  BY <1>2, SessionIInvHolds, FramedInit, FramedStep, PTL DEF SessionSpec
<1>4. SessionIInv => SessionTypeOK
  BY DEF SessionIInv
<1> QED
  BY <1>1, <1>3, <1>4, SessionIInvHolds, PTL
=============================================================================
