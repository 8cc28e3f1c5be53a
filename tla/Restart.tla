------------------------------ MODULE Restart ------------------------------
(***************************************************************************)
(* AddrDb across restarts: ThreadDumper takes its report and saves         *)
(* dnsseed.dat, record by record, and dnsseed.dump beside the other        *)
(* threads, calls on files can fail, the process can die at any point,     *)
(* between two records of the file or two results of a batch included, and *)
(* main() reads the file back record by record before it starts any thread *)
(* (db.h:345-410, main.cpp:406-457 and 600-610, serialize.h:1189-1298).    *)
(***************************************************************************)
EXTENDS AddrDb

CONSTANTS
  MaxBoots,   \* bound: restarts
  MaxDumps,   \* bound: rounds of the dumper
  OptionSets, \* the options a restart may be given
  MayFail     \* calls on files can fail

WipeOptions == {"wipeban", "wipeignore"}

ASSUME BootAssumption ==
  /\ IsFiniteSet(Addr) /\ MaxId >= Cardinality(Addr)
  /\ MaxBoots \in Nat /\ MaxDumps \in Nat
  /\ OptionSets \subseteq SUBSET WipeOptions /\ MayFail \in BOOLEAN

VARIABLES
  dat,     \* dnsseed.dat: records in file order, ban list, torn if it is cut
  datNew,  \* dnsseed.dat.new: torn until its last buffer has been written
  toSave,  \* what is left of Serialize's ids
  dump,    \* dnsseed.dump: addresses
  report,  \* ThreadDumper's v: the addresses it got from GetAll
  round,   \* where ThreadDumper is, see Rounds
  dumps,   \* rounds so far
  failed,  \* the calls on files that have failed, see Calls
  phase,   \* "up", "load" while main() reads the file, "dead" if it cannot
  todo,    \* the records still to be read
  opts,    \* the wipe options this process was started with
  boots    \* restarts so far

dumpVars == <<dat, datNew, toSave, dump, report, round, dumps, failed>>
bootVars == <<phase, todo, opts, boots>>
fileVars == <<dumpVars, bootVars>>

Rounds == {"boot", "save", "write", "close", "rename", "dump", "sleep"}

Calls == {"open", "close", "rename"}

(* main.cpp:87-88: both long options point at the same variable.           *)
fWipeBan == opts \cap WipeOptions # {}
fWipeIgnore == FALSE
-----------------------------------------------------------------------------
(* The members of a finite set of numbers, in increasing order.            *)
Ascending(S) ==
  CHOOSE q \in [1..Cardinality(S) -> S] :
    \A i, j \in 1..Cardinality(S) : i < j => q[i] < q[j]

(* What a walk over the containers visits: the ids among those wanted,     *)
(* each once, at its first occurrence.                                     *)
Walk(q, wanted) ==
  LET first(i) == q[i] \in wanted /\ \A j \in 1..i-1 : q[j] # q[i]
      at == Ascending({i \in DOMAIN q : first(i)})
  IN  [k \in DOMAIN at |-> q[at[k]]]

(* A record that was never tried is written without its history.           *)
Written(i) == IF i.ourLastTry # 0 THEN i ELSE NewInfo(i.ip, i.services)

(* Slip: the nodes under test left out.                                    *)
Slip_SavedIds == Walk(ourId \o forkId \o Ascending(unkId), DOMAIN idToInfo)

SavedIds == Walk(ourId \o forkId \o Ascending(inFlight) \o Ascending(unkId), DOMAIN idToInfo)

Answered == {id \in DOMAIN idToInfo : idToInfo[id].success > 0}

(* Slip: the nodes under test left out.                                    *)
Slip_GetAll ==
  LET ids == Walk(ourId \o forkId, Answered)
  IN  [k \in 1..Len(ids) |-> idToInfo[ids[k]].ip]

(* The addresses GetAll reports for the dump, in order.                    *)
GetAll ==
  LET ids == Walk(ourId \o forkId \o Ascending(inFlight), Answered)
  IN  [k \in 1..Len(ids) |-> idToInfo[ids[k]].ip]
-----------------------------------------------------------------------------
NoFile == [infos |-> <<>>, banned |-> NoMap, torn |-> FALSE]

BootInit ==
  /\ Init
  /\ dat = NoFile /\ datNew = NoFile /\ toSave = <<>> /\ dump = <<>> /\ report = <<>>
  /\ round = "boot" /\ dumps = 0 /\ failed = {}
  /\ phase = "up" /\ todo = <<>> /\ opts = {} /\ boots = 0

(* Slip: the ban list written after the block that holds cs.               *)
Slip_Sharing == round = "write" /\ toSave # <<>>

(* Serialize holds cs shared while it writes.                              *)
Sharing == round = "write"

(* Beside a shared lock only the clock moves, and the statistics thread,   *)
(* whose access is shared too.                                             *)
Run ==
  /\ phase = "up"
  /\ IF Sharing THEN GetStats \/ Tick ELSE Next
  /\ UNCHANGED fileVars

Fail(call) == MayFail /\ failed' = failed \cup {call}

(* The report is sorted for the dump, whose order no property is about.    *)
TakeReport ==
  /\ phase = "up" /\ lock = Free /\ round \in {"boot", "sleep"}
  /\ dumps < MaxDumps /\ dumps' = dumps + 1
  /\ report' = GetAll /\ round' = "save"
  /\ UNCHANGED <<vars, dat, datNew, toSave, dump, failed, bootVars>>

(* The temporary file is emptied, or cannot be opened and no file is       *)
(* written; the ids are listed, and written, under the shared lock.        *)
Save ==
  /\ phase = "up" /\ lock = Free /\ round = "save"
  /\ \/ /\ datNew' = [NoFile EXCEPT !.torn = TRUE]
        /\ toSave' = SavedIds /\ round' = "write" /\ UNCHANGED failed
     \/ Fail("open") /\ round' = "dump" /\ UNCHANGED <<datNew, toSave>>
  /\ UNCHANGED <<vars, dat, dump, report, dumps, bootVars>>

(* One pass of the loop.  A write that fails, here or in WriteBanned,      *)
(* throws, and nothing catches it: the process dies, as in Crash.          *)
WriteInfo ==
  /\ phase = "up" /\ round = "write" /\ toSave # <<>> /\ toSave' = Tail(toSave)
  /\ datNew' = [datNew EXCEPT !.infos = Append(@, Written(idToInfo[Head(toSave)]))]
  /\ UNCHANGED <<vars, dat, dump, report, round, dumps, failed, bootVars>>

WriteBanned ==
  /\ phase = "up" /\ round = "write" /\ toSave = <<>> /\ round' = "close"
  /\ datNew' = [datNew EXCEPT !.banned = banned]
  /\ UNCHANGED <<vars, dat, toSave, dump, report, dumps, failed, bootVars>>

(* Closing writes the last buffer; nobody looks whether it could.          *)
Close ==
  /\ phase = "up" /\ round = "close" /\ round' = "rename"
  /\ \/ datNew' = [datNew EXCEPT !.torn = FALSE] /\ UNCHANGED failed
     \/ Fail("close") /\ UNCHANGED datNew
  /\ UNCHANGED <<vars, dat, toSave, dump, report, dumps, bootVars>>

(* The file is renamed over dnsseed.dat either way, unless rename fails,   *)
(* which nobody looks at either.                                           *)
Rename ==
  /\ phase = "up" /\ round = "rename" /\ round' = "dump"
  /\ \/ dat' = datNew /\ datNew' = NoFile /\ UNCHANGED failed
     \/ Fail("rename") /\ UNCHANGED <<dat, datNew>>
  /\ UNCHANGED <<vars, toSave, dump, report, dumps, bootVars>>

(* Not being able to open dnsseed.dump.new kills the process: see Crash.   *)
WriteDump ==
  /\ phase = "up" /\ round = "dump" /\ round' = "sleep"
  /\ dump' = report /\ report' = <<>>
  /\ UNCHANGED <<vars, dat, datNew, toSave, dumps, failed, bootVars>>

(* The process dies wherever its threads are; the next one starts later.   *)
(* What is left of the temporary file is never read, and the next save     *)
(* empties it.                                                             *)
Crash ==
  \E t \in now..MaxTime, o \in OptionSets :
    /\ phase = "up" /\ boots < MaxBoots /\ boots' = boots + 1
    /\ nId' = 0 /\ idToInfo' = NoMap /\ ipToId' = NoMap
    /\ ourId' = <<>> /\ forkId' = <<>> /\ unkId' = {} /\ inFlight' = {}
    /\ goodId' = {} /\ banned' = NoMap
    /\ lock' = Free /\ tot' = 0 /\ now' = t
    /\ pc' = [c \in Crawler |-> "idle"] /\ ips' = [c \in Crawler |-> <<>>]
    /\ phase' = "load" /\ todo' = dat.infos /\ opts' = o
    /\ datNew' = NoFile /\ toSave' = <<>> /\ report' = <<>> /\ round' = "boot"
    /\ UNCHANGED <<dat, dump, dumps, failed>>

(* Slip: IsGood asked of every record.                                     *)
Slip_Enlist_Good(id, info) ==
  /\ ourId' = IF info.ourLastTry # 0 THEN Append(ourId, id) ELSE ourId
  /\ unkId' = IF info.ourLastTry # 0 THEN unkId ELSE unkId \cup {id}
  /\ goodId' = IF IsGood(info) THEN goodId \cup {id} ELSE goodId

(* Slip: the else forgotten.                                               *)
Slip_Enlist_Both(id, info) ==
  /\ ourId' = IF info.ourLastTry # 0 THEN Append(ourId, id) ELSE ourId
  /\ unkId' = unkId \cup {id}
  /\ goodId' = IF info.ourLastTry # 0 /\ IsGood(info) THEN goodId \cup {id} ELSE goodId

(* Slip: push_front.                                                       *)
Slip_Enlist_Front(id, info) ==
  IF info.ourLastTry # 0
    THEN /\ ourId' = <<id>> \o ourId
         /\ goodId' = IF IsGood(info) THEN goodId \cup {id} ELSE goodId
         /\ UNCHANGED unkId
    ELSE unkId' = unkId \cup {id} /\ UNCHANGED <<ourId, goodId>>

(* A tried record goes to ourId, and to goodId if it is good, any other to *)
(* unkId.                                                                  *)
Enlist(id, info) ==
  IF info.ourLastTry # 0
    THEN /\ ourId' = Append(ourId, id)
         /\ goodId' = IF IsGood(info) THEN goodId \cup {id} ELSE goodId
         /\ UNCHANGED unkId
    ELSE unkId' = unkId \cup {id} /\ UNCHANGED <<ourId, goodId>>

(* One pass of the read loop; a record due for a ban is left out.          *)
ReadInfo ==
  /\ phase = "load" /\ ~ dat.torn /\ todo # <<>> /\ todo' = Tail(todo)
  /\ LET info == Head(todo)
     IN  IF GetBanTime(info) # 0 THEN UNCHANGED dbVars ELSE
           /\ nId' = nId + 1
           /\ idToInfo' = Put(idToInfo, nId, info)
           /\ ipToId' = Put(ipToId, info.ip, nId)
           /\ Enlist(nId, info)
           /\ UNCHANGED <<forkId, inFlight, banned>>
  /\ UNCHANGED <<lock, tot, pc, ips, now, dumpVars, phase, opts, boots>>

(* The ban list comes last; then the wipe options, then the threads start. *)
ReadBanned ==
  /\ phase = "load" /\ ~ dat.torn /\ todo = <<>> /\ phase' = "up"
  /\ banned' = IF fWipeBan THEN NoMap ELSE dat.banned
  /\ idToInfo' = IF fWipeIgnore
                   THEN [id \in DOMAIN idToInfo |-> [idToInfo[id] EXCEPT !.ignoreTill = 0]]
                   ELSE idToInfo
  /\ UNCHANGED <<nId, ipToId, qVars, goodId, lock, tot, pc, ips, now, dumpVars, todo, opts, boots>>

(* A read beyond the end throws out of main; whoever starts the process    *)
(* again finds the same file.                                              *)
ReadTorn ==
  /\ dat.torn
  /\ \/ phase = "load" /\ phase' = "dead"
     \/ phase = "dead" /\ phase' = "load"
  /\ UNCHANGED <<vars, dumpVars, todo, opts, boots>>

Dumper == \/ TakeReport \/ Save \/ WriteInfo \/ WriteBanned \/ Close \/ Rename
          \/ WriteDump

BootNext == Run \/ Dumper \/ Crash \/ ReadInfo \/ ReadBanned \/ ReadTorn

BootSpec == BootInit /\ [][BootNext]_<<vars, fileVars>>
-----------------------------------------------------------------------------
(* Properties.                                                             *)

(* db.h:351-365: a save writes every known node, those under test          *)
(* included, exactly once, so a restart neither loses nor doubles a node,  *)
(* and ourId first, in the order it is in.                                 *)
SnapshotExact ==
  phase = "up" /\ lock = Free =>
    /\ {idToInfo[id].ip : id \in Range(SavedIds)} = Known
    /\ Len(SavedIds) = Cardinality(Known)
    /\ \A k \in DOMAIN ourId : SavedIds[k] = ourId[k]

(* db.h:299-303: every node that ever answered is in the dump exactly once. *)
CensusExact ==
  phase = "up" /\ lock = Free =>
    /\ Range(GetAll) = {a \in Known : idToInfo[ipToId[a]].success > 0}
    /\ NoRepeat(GetAll)

(* main.cpp:413-439: the two files of a finished round agree although they *)
(* come from two moments with other threads between: a node of the dump    *)
(* has a record in dnsseed.dat or is on its ban list.                      *)
DumpWithinDat ==
  phase = "up" /\ round = "sleep" /\ failed = {} =>
    Range(dump) \subseteq {i.ip : i \in Range(dat.infos)} \cup DOMAIN dat.banned

(* db.h:340-344 and main.cpp:415-421: whatever step the process dies at,   *)
(* and however often, the file the next one reads is a whole one, and all  *)
(* of it from one moment of the database although the records were written *)
(* one by one beside the other threads: no address twice, none that is on  *)
(* the ban list too.  Only a failed close can leave another.               *)
FileFromOneMoment ==
  "close" \notin failed =>
    /\ ~ dat.torn /\ phase # "dead"
    /\ \A j, k \in DOMAIN dat.infos : dat.infos[j].ip = dat.infos[k].ip => j = k
    /\ \A j \in DOMAIN dat.infos : dat.infos[j].ip \notin DOMAIN dat.banned

(* db.h:388-408: a restart gives back every record of the file but those   *)
(* due for a ban, with its history, in the place its history calls for and *)
(* in the order of the file, and knows no other node.                      *)
Restores ==
  [][phase = "load" /\ phase' = "up" =>
       \E at \in [DOMAIN idToInfo' -> DOMAIN dat.infos] :
         /\ Range(at) = {n \in DOMAIN dat.infos : GetBanTime(dat.infos[n]) = 0}
         /\ \A i, j \in DOMAIN at : i < j => at[i] < at[j]
         /\ \A id \in DOMAIN at :
              LET info == dat.infos[at[id]]
              IN  /\ idToInfo'[id] = info /\ ipToId'[info.ip] = id
                  /\ id \in Range(ourId') <=> info.ourLastTry # 0
                  /\ id \in unkId' <=> info.ourLastTry = 0
                  /\ id \in goodId' <=> info.ourLastTry # 0 /\ IsGood(info)
         /\ \A k, l \in DOMAIN ourId' : k < l => ourId'[k] < ourId'[l]]_<<vars, fileVars>>

(* main.cpp:64, "--wipeignore  Wipe list of ignored nodes": started with   *)
(* that option alone, the process still knows the bans it saved.           *)
WipeIgnoreKeepsBans ==
  [][phase = "load" /\ phase' = "up" /\ opts = {"wipeignore"}
       => banned' = dat.banned]_<<vars, fileVars>>
=============================================================================
