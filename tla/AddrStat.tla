------------------------------ MODULE AddrStat ------------------------------
(***************************************************************************)
(* The five decaying averages of a record and what IsGood, GetBanTime and  *)
(* GetIgnoreTime read from them (db.h:38-145, db.cpp:9-28): the part of a  *)
(* record that AddrDb takes as a choice among Verdicts.  An average is in  *)
(* parts of Unit, and exp(-age/tau) is a table.                            *)
(***************************************************************************)
EXTENDS Integers

CONSTANTS
  Unit,
  Decay,     \* age -> average -> exp(-age / tau), in parts of Unit
  First,     \* age of the first test: MIN_RETRY
  Ages,      \* ages of the others
  Quick,     \* ages below the 83 minutes of db.h:25
  MaxTests,  \* bound: tests of one node
  MaxTurns   \* bound: changes of outcome or of age

Averages == {"2H", "8H", "1D", "1W", "1M"}

ASSUME StatAssumption ==
  /\ Unit \in Nat \ {0} /\ {First} \cup Ages \subseteq DOMAIN Decay /\ Quick \subseteq Ages
  /\ Decay \in [DOMAIN Decay -> [Averages -> 0..Unit]]
  /\ MaxTests \in Nat /\ MaxTurns \in Nat

(* From MIN_RETRY (db.h:18) to the 83 minutes of db.h:19, exp(-age / 2h)   *)
(* lies between 0.5007 and 0.8704; so does the table, whose unit is fine.  *)
ASSUME QuickAssumption ==
  /\ Unit >= 2000
  /\ \A age \in Quick \cup {First} : 10000 * Decay[age]["2H"] \in 5007 * Unit..8704 * Unit

VARIABLES
  stat,            \* average -> reliability, count, weight
  total, success,
  last,            \* the last test: its outcome and its age
  run,             \* how many in a row went like it, at ages as quick or not
  turns

statVars == <<stat, total, success, last, run, turns>>

Of(x, y) == (x * y) \div Unit

(* Slip: the weight counts tests as count does.                            *)
Slip_Averaged(s, good, f) ==
  [reliability |-> Of(s.reliability, f) + (IF good THEN Unit - f ELSE 0),
   count |-> Of(s.count, f) + Unit,
   weight |-> Of(s.weight, f) + Unit]

(* Slip: the count grows like the weight.                                  *)
Slip_Averaged_Count(s, good, f) ==
  [reliability |-> Of(s.reliability, f) + (IF good THEN Unit - f ELSE 0),
   count |-> Of(s.count, f) + Unit - f,
   weight |-> Of(s.weight, f) + Unit - f]

Averaged(s, good, f) ==
  [reliability |-> Of(s.reliability, f) + (IF good THEN Unit - f ELSE 0),
   count |-> Of(s.count, f) + Unit,
   weight |-> Of(s.weight, f) + Unit - f]

Untested == [reliability |-> 0, count |-> 0, weight |-> 0]

StatInit ==
  /\ stat = [a \in Averages |-> Untested] /\ total = 0 /\ success = 0
  /\ last = <<FALSE, First>> /\ run = 0 /\ turns = 0

(* CAddrInfo::Update: the first test is taken to be MIN_RETRY old.         *)
Update(good, age) ==
  LET f == Decay[IF total = 0 THEN First ELSE age]
  IN  /\ stat' = [a \in Averages |-> Averaged(stat[a], good, f[a])]
      /\ total' = total + 1 /\ success' = success + (IF good THEN 1 ELSE 0)
      /\ last' = <<good, age>>
      /\ run' = (IF good = last[1] /\ (age \in Quick <=> last[2] \in Quick) THEN run + 1 ELSE 1)
      /\ turns' = (IF total = 0 \/ last' = last THEN turns ELSE turns + 1)

StatNext ==
  \E good \in BOOLEAN, age \in Ages :
    /\ total < MaxTests /\ (total = 0 \/ turns < MaxTurns \/ <<good, age>> = last)
    /\ Update(good, age)

StatSpec == StatInit /\ [][StatNext]_statVars
-----------------------------------------------------------------------------
Percent(a, n) == stat[a].reliability * 100 > n * Unit
Seen(a, n) == stat[a].count > n * Unit

(* The averages' part of IsGood.                                           *)
Reliable ==
  \/ (Percent("2H", 85) /\ Seen("2H", 2)) \/ (Percent("8H", 70) /\ Seen("8H", 4))
  \/ (Percent("1D", 55) /\ Seen("1D", 8)) \/ (Percent("1W", 45) /\ Seen("1W", 16))
  \/ (Percent("1M", 35) /\ Seen("1M", 32))

Poor(a, n) == (stat[a].reliability - stat[a].weight + Unit) * 100 < n * Unit

(* GetBanTime and GetIgnoreTime of a node that is not good.                *)
Banned ==
  \/ (Poor("1M", 15) /\ Seen("1M", 32)) \/ (Poor("1W", 10) /\ Seen("1W", 16))
  \/ (Poor("1D", 5) /\ Seen("1D", 8))

Ignored ==
  \/ (Poor("1M", 20) /\ Seen("1M", 2)) \/ (Poor("1W", 16) /\ Seen("1W", 2))
  \/ (Poor("1D", 12) /\ Seen("1D", 2)) \/ (Poor("8H", 8) /\ Seen("8H", 2))
-----------------------------------------------------------------------------
(* db.h:120-145: what AddrDb supposes of verdicts (VerdictsAfter): no node  *)
(* is reliable or condemned before its third test, or banned before its    *)
(* ninth, none is reliable that never answered, none condemned that always *)
(* did, and whatever bans a node sets it aside as well.                    *)
VerdictsSound ==
  /\ Reliable => total > 2 /\ success > 0
  /\ Ignored => total > 2 /\ success < total
  /\ Banned => total > 8 /\ Ignored

(* db.h:19-26: a node polled more often than every 83 minutes, as the fork *)
(* slice is there to do, is reliable after fourteen answers in a row, at   *)
(* whichever such ages, whatever came before.                              *)
QuickPollsCount == last[1] /\ last[2] \in Quick /\ run >= 14 => Reliable
=============================================================================
