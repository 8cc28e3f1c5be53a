----------------------------- MODULE AddrDbLife -----------------------------
(***************************************************************************)
(* AddrDb implements NodeLife: the refinement mapping reads each address's *)
(* life off the maps, queues and sets of CAddrDb.                          *)
(***************************************************************************)
EXTENDS AddrDb

StatusOf(a) ==
  IF a \in Known
    THEN IF ipToId[a] \in inFlight THEN "testing"
         ELSE IF ipToId[a] \in unkId THEN "untried" ELSE "tried"
    ELSE IF a \in DOMAIN banned THEN "banned" ELSE "unknown"

LastOf(a) == IF a \in Known THEN idToInfo[ipToId[a]].ourLastTry ELSE 0

Life == INSTANCE NodeLife WITH
  status <- [a \in Addr |-> StatusOf(a)],
  holds  <- [c \in Crawler |-> Range(ips[c])],
  last   <- [a \in Addr |-> LastOf(a)],
  listed <- {a \in Known : ipToId[a] \in goodId}

(* Every behaviour of the database and its threads is, seen per address,   *)
(* one that NodeLife allows.                                               *)
ImplementsLife == Life!LifeSpec
=============================================================================
