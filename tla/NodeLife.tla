------------------------------ MODULE NodeLife ------------------------------
(***************************************************************************)
(* What CAddrDb promises of each address, without ids, queues, locks or    *)
(* records: an address becomes known, is tested by one crawler at a time   *)
(* and not twice within MinRetry, comes back from its test or is banned by *)
(* it, and enters or leaves the list that is served only when a test of    *)
(* its own is reported.                                                    *)
(***************************************************************************)
EXTENDS Integers

CONSTANTS Addr, Crawler, MinRetry

VARIABLES
  status,  \* address -> where it is in its life
  holds,   \* crawler -> the addresses it is testing
  last,    \* address -> when it was last dealt with, 0 for never
  listed,  \* the addresses that are served
  now

vars == <<status, holds, last, listed, now>>

LifeInit ==
  /\ status = [a \in Addr |-> "unknown"]
  /\ holds = [c \in Crawler |-> {}]
  /\ last = [a \in Addr |-> 0]
  /\ listed = {}
  /\ now = 1

Learn(a) ==
  /\ status[a] \in {"unknown", "banned"}
  /\ status' = [status EXCEPT ![a] = "untried"]
  /\ UNCHANGED <<holds, last, listed, now>>

Waited(a) ==
  status[a] = "untried" \/ (status[a] = "tried" /\ now - last[a] >= MinRetry)

Take(c, a) ==
  /\ Waited(a)
  /\ status' = [status EXCEPT ![a] = "testing"]
  /\ holds' = [holds EXCEPT ![c] = @ \cup {a}]
  /\ UNCHANGED <<last, listed, now>>

(* An address that is to be ignored waits again instead of being tested.   *)
Postpone(a) ==
  /\ status[a] = "tried" /\ Waited(a)
  /\ last' = [last EXCEPT ![a] = now]
  /\ UNCHANGED <<status, holds, listed, now>>

Settle(c, a) ==
  /\ a \in holds[c] /\ status[a] = "testing"
  /\ holds' = [holds EXCEPT ![c] = @ \ {a}]
  /\ \/ /\ status' = [status EXCEPT ![a] = "tried"]
        /\ last' = [last EXCEPT ![a] = now]
        /\ listed' \in {listed, listed \cup {a}, listed \ {a}}
     \/ /\ status' = [status EXCEPT ![a] = "banned"]
        /\ last' = [last EXCEPT ![a] = 0]
        /\ listed' = listed \ {a}
  /\ UNCHANGED now

Pass == now' = now + 1 /\ UNCHANGED <<status, holds, last, listed>>

LifeNext ==
  \/ \E a \in Addr : Learn(a) \/ Postpone(a)
  \/ \E c \in Crawler, a \in Addr : Take(c, a) \/ Settle(c, a)
  \/ Pass

LifeSpec == LifeInit /\ [][LifeNext]_vars
=============================================================================
