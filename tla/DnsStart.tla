------------------------------ MODULE DnsStart ------------------------------
(***************************************************************************)
(* What the DNS threads share, none of it under a lock: the static         *)
(* listenSocket that dnsserver opens (dns.cpp:401-449) and the static nets *)
(* that CDnsThread::cacheHit fills at the first query (main.cpp:283-288).  *)
(* main() leaves 20 ms between two threads, which orders nothing.          *)
(***************************************************************************)
EXTENDS Integers, Sequences, FiniteSets

CONSTANTS
  DnsThread,
  MaxFaults    \* bound: calls of the operating system that fail

ASSUME StartAssumption == IsFiniteSet(DnsThread) /\ MaxFaults \in Nat

Family == {"IPv4", "IPv6"}

VARIABLES
  at,            \* where each thread is
  listenSocket,  \* -1, or the number of a descriptor
  fds,           \* descriptor -> "open" "bound" "closed"
  nets,          \* the families a refill asks GetIPs for
  filled,        \* thread -> the families of its last refill, {} before it
  faults,        \* calls that failed
  overlap        \* two threads were in the start-up at once

startVars == <<at, listenSocket, fds, nets, filled, faults, overlap>>
-----------------------------------------------------------------------------
StartInit ==
  /\ at = [t \in DnsThread |-> "start"] /\ listenSocket = -1 /\ fds = <<>>
  /\ nets = {} /\ filled = [t \in DnsThread |-> {}] /\ faults = 0 /\ overlap = FALSE

Move(t, where) == at' = [at EXCEPT ![t] = where]

InStartUp(t) == at[t] \in {"open", "reply", "bind"}

(* The socket behind the static.                                           *)
Listening == IF listenSocket = -1 THEN "closed" ELSE fds[listenSocket]

Fault == faults < MaxFaults /\ faults' = faults + 1

(* Slip: every thread opens a socket of its own.                           *)
Slip_Check(t) ==
  /\ at[t] = "start" /\ Move(t, "open")
  /\ overlap' = (overlap \/ \E u \in DnsThread : InStartUp(u))
  /\ UNCHANGED <<listenSocket, fds, nets, filled, faults>>

(* senderSocket, which nothing uses, and the test of listenSocket.         *)
Check(t) ==
  /\ at[t] = "start"
  /\ \/ Fault /\ Move(t, "ended") /\ UNCHANGED overlap
     \/ UNCHANGED faults /\ Move(t, IF listenSocket = -1 THEN "open" ELSE "serve")
          /\ overlap' = (overlap \/ \E u \in DnsThread : InStartUp(u))
  /\ UNCHANGED <<listenSocket, fds, nets, filled>>

Open(t) ==
  /\ at[t] = "open"
  /\ \/ Fault /\ Move(t, "ended") /\ listenSocket' = -1 /\ UNCHANGED fds
     \/ UNCHANGED faults /\ Move(t, "reply")
          /\ fds' = Append(fds, "open") /\ listenSocket' = Len(fds')
  /\ UNCHANGED <<nets, filled, overlap>>

(* Opening replySocket; on failure the listening socket is closed, but the *)
(* static keeps its number.                                                *)
Reply(t) ==
  /\ at[t] = "reply"
  /\ \/ Fault /\ Move(t, "ended")
          /\ fds' = IF listenSocket = -1 THEN fds ELSE [fds EXCEPT ![listenSocket] = "closed"]
     \/ UNCHANGED <<faults, fds>> /\ Move(t, "bind")
  /\ UNCHANGED <<listenSocket, nets, filled, overlap>>

(* bind refuses a descriptor that is bound or closed and an address that   *)
(* is taken; the failure leaves the static as it is.                       *)
Bind(t) ==
  /\ at[t] = "bind"
  /\ \/ /\ Listening = "open"
        /\ \A n \in DOMAIN fds : fds[n] # "bound"
        /\ fds' = [fds EXCEPT ![listenSocket] = "bound"]
        /\ Move(t, "serve") /\ UNCHANGED faults
     \/ /\ Listening # "open" \/ \E n \in DOMAIN fds : fds[n] = "bound"
        /\ Move(t, "ended") /\ UNCHANGED <<fds, faults>>
     \/ Fault /\ Move(t, "ended") /\ UNCHANGED fds
  /\ UNCHANGED <<listenSocket, nets, filled, overlap>>

Hears == Listening = "bound"

(* A datagram that reaches cacheHit; then the test of nets, its two writes *)
(* and the refill, if the thread's hit rule asks for one: an empty cache   *)
(* always does.                                                            *)
Query(t) ==
  /\ at[t] = "serve" /\ Hears
  /\ Move(t, IF "IPv4" \in nets THEN "rule" ELSE "set4")
  /\ UNCHANGED <<listenSocket, fds, nets, filled, faults, overlap>>

Set4(t) ==
  /\ at[t] = "set4" /\ Move(t, "set6") /\ nets' = nets \cup {"IPv4"}
  /\ UNCHANGED <<listenSocket, fds, filled, faults, overlap>>

(* Slip: the second entry forgotten.                                       *)
Slip_Set6(t) ==
  /\ at[t] = "set6" /\ Move(t, "rule")
  /\ UNCHANGED <<listenSocket, fds, nets, filled, faults, overlap>>

Set6(t) ==
  /\ at[t] = "set6" /\ Move(t, "rule") /\ nets' = nets \cup {"IPv6"}
  /\ UNCHANGED <<listenSocket, fds, filled, faults, overlap>>

Rule(t) ==
  /\ at[t] = "rule"
  /\ \/ Move(t, "refill")
     \/ filled[t] # {} /\ Move(t, "serve")
  /\ UNCHANGED <<listenSocket, fds, nets, filled, faults, overlap>>

Refill(t) ==
  /\ at[t] = "refill" /\ Move(t, "serve")
  /\ filled' = [filled EXCEPT ![t] = nets]
  /\ UNCHANGED <<listenSocket, fds, nets, faults, overlap>>

CacheStep(t) == Set4(t) \/ Set6(t) \/ Rule(t) \/ Refill(t)

StartNext ==
  \E t \in DnsThread : Check(t) \/ Open(t) \/ Reply(t) \/ Bind(t) \/ Query(t) \/ CacheStep(t)

StartFairness == \A t \in DnsThread : WF_startVars(CacheStep(t))

StartSpec == StartInit /\ [][StartNext]_startVars
-----------------------------------------------------------------------------
(* Properties.                                                             *)

(* dns.cpp:411-431: when no call fails and no two threads are in the       *)
(* start-up at once, every thread that left it serves the bound socket.    *)
EveryThreadHears ==
  faults = 0 /\ ~ overlap =>
    \A t \in DnsThread :
      /\ at[t] # "ended"
      /\ ~ (at[t] = "start" \/ InStartUp(t)) => Hears

(* main.cpp:284-288: the cache a thread filled between the two writes of   *)
(* another lacks a family only until its next refill or so.                *)
NetsCatchUp ==
  \A t \in DnsThread : []<>(at[t] = "refill") => <>[](filled[t] = Family)
=============================================================================
