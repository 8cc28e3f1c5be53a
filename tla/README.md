# A verification of the BLAKE2b DNS seeder

The program crawls the peer-to-peer network, keeps a database of the nodes it
knows and how reliable they are, and answers DNS queries for its host name with
nodes that can be connected to. This directory holds TLA+ models of it, TLC
configurations that check them on small instances, and TLAPS proofs for all
instances. Paths such as `db.cpp:100` are relative to `src/`.

## 1. The system

Processes are threads of one program; all of them share one `CAddrDb db`
behind one critical section `cs`.

| Part | State | Operations | Used by |
|---|---|---|---|
| **CAddrDb** (`db.h`, `db.cpp`) | `nId`, `idToInfo`, `ipToId`, the queues `ourId`, `unkId`, `forkId`, `inFlight`, `goodId`, `banned` | `GetMany`, `ResultMany`, `Add`, `GetIPs`, `GetAll`, `GetStats`, `ResetIgnores`, save and load | every thread |
| **Crawlers** (`main.cpp` ThreadCrawler, 96 by default) | a batch of up to 16 `CServiceResult`, the gossip they collected | `GetMany` under the lock, `TestNode` for each node without it, `ResultMany` and `Add` under it again | CAddrDb, peer session |
| **Peer session** (`bitcoin.cpp` CNode) | receive and send buffers, versions, `doneAfter`, `ban` | connect, `version`/`verack`/`getaddr`/`addr`, framing and checksum | crawlers |
| **Seeder** (`main.cpp` ThreadSeeder) | the seed names | resolves them every 30 min, forced `Add` | CAddrDb, resolver |
| **DNS answer cache** (`main.cpp` CDnsThread, GetIPList) | per DNS thread and service mask: addresses, hits, age | `cacheHit` refills through `GetIPs`; `GetIPList` draws a sample | DNS server |
| **DNS protocol server** (`dns.cpp`) | one packet | `parse_name`, `write_name`, the record writers, `dnshandle` | clients |
| **Dumper** (`main.cpp` ThreadDumper) | `dnsseed.dat`, `dnsseed.dump`, two logs | save to a `.new` file and rename, with a delay that doubles up to 3200 s | CAddrDb, scripts |
| **Statistics** (`main.cpp` ThreadStats) | none | `GetStats` each second | CAddrDb |
| **Start-up** (`main.cpp` main, options) | options | read `dnsseed.dat`, the two wipe options, start the threads | operator |
| **Addresses and sockets** (`netbase.*`) | the proxy table | address classes, comparison, name lookup, SOCKS5, connect with a timeout | everything |
| **Messages** (`protocol.*`, `serialize.h`) | `CDataStream` buffer and read position | serializers, headers, `CAddress` | session, save and load |
| **Utilities** (`util.*`, `uint256.h`, `strlcpy.h`, `compat.h`) | none | hashes, Base32, Base64, critical sections | everything |
| **Operations scripts** (`deploy/`) | published files | install, health check, census, stable list, status | the dump and the logs |

What is hard in it, and what makes each part correct:

* **CAddrDb and the crawlers.** A crawler keeps plain copies of addresses for
  minutes with the lock released, while other crawlers draw from the same
  queues, report bans, and gossip and the seeder add. Each pop of `Get_` must be
  balanced by one push in `Good_` or `Bad_`, by a different call, of a node that
  may have been banned and come back. Correct means: a known node is in exactly
  one of four places and never lost, two crawlers never test the same node, no
  node is retried within `MIN_RETRY`, a banned node has no record, what is
  served has answered at least once, and no node that is due waits for ever.
* **Dumper and start-up.** The two files of a round come from two moments, a
  call on a file can fail, and the process can die at any point with batches
  outstanding. A saved file must hold every node once, and what a restart builds
  from it must be as well formed as what was lost.
* **Answer cache.** Hits and ages decide when an answer is refreshed; the
  sampling loop must stop and must not repeat or exceed an address family. The
  `nets` table is a static shared by all DNS threads without a lock.
* **DNS server.** Arithmetic on a packet's offsets: no name may be read twice
  without end, no record written past the buffer, no answer may take the room of
  the authority record. The threads share a listening socket without a lock.
* **Peer session.** Message order is the peer's choice; a session must end, and
  its verdict (good, bad, ban) must follow from what was received.
* **Addresses, streams, counted data.** The text of a seed or a proxy goes
  through four parsers before a connection is made; a stream is cut, read and
  put back by offset; a count from a peer decides how much memory is taken.
* **Scripts.** They parse the dump by column and must not raise an alarm on a
  healthy program, nor stay silent on a dead one.

`PROJECT.json` lists every hazard with its line, and the properties against it.

## 2. The modules

| Module | What it is | Code |
|---|---|---|
| `AddrDb` | CAddrDb with the crawler, seeder and statistics threads | `db.h`, `db.cpp`, `main.cpp` |
| `NodeLife` | abstract: the life one address leads, without ids, queues, locks or records | |
| `AddrDbLife` | the refinement mapping from `AddrDb` to `NodeLife` | |
| `AddrStat` | the five decaying averages and the verdicts read from them | `db.h:19-145` |
| `Restart` | `AddrDb` with the dumper step by step, failing calls, crashes, loading, wipe options | `main.cpp:406-457, 600-610`, `db.h:345-410` |
| `Session` | `TestNode`: connecting, the proxy, handshake, framing, deadline, sends | `bitcoin.cpp`, `netbase.cpp:209-486` |
| `Framing` | a peer's stream read in one piece: the reference for `Session`'s receive loop | |
| `NetAddr` | from the text of a seed and of the proxies to the connection made | `netbase.cpp`, `util.cpp`, `main.cpp` |
| `DataStream`, `ByteQueue` | CDataStream, and the queue of bytes it implements | `serialize.h:836-1089` |
| `Wire` | reading counted strings, vectors and maps | `serialize.h:197-704` |
| `DnsCache` | the answer cache of one DNS thread and the sampling loop | `main.cpp:267-384` |
| `DnsReply` | how one datagram is answered: records, room, sections | `dns.cpp:130-399` |
| `DnsName` | `parse_name` and `write_name`, byte by byte | `dns.cpp:50-128` |
| `DnsStart` | what the DNS threads share without a lock | `dns.cpp:401-449`, `main.cpp:283-288` |
| `MC…` | values of the constants for TLC; `MCDns` and `MCParts` put parts side by side | |
| `…_proofs` | theorems and their proofs, section 4 | |

How they compose. `Restart` extends `AddrDb`: all threads of the database run
beside the dumper and the crash. `AddrDb` takes two things as free choices that
other modules detail: how a test ends (`Session` is the test) and what verdict
a record gets (`AddrStat` has the arithmetic, and its `VerdictsSound` is the
three rules `VerdictsAfter` relies on). `DnsReply` takes any addresses the
callback may return, `DnsCache` is that callback, and what a refill gets is any
set, of which the answers of `GetIPs_` are some. `Session` works on streams by
value; `DataStream` shows that the class it is built on behaves so.

### AddrDb and the code

The variables carry the names of the members of `CAddrDb`. `lock` is the owner
of `cs`; `tot` is the local of `Get_`; `pc` and `ips` are a crawler's place in
`ThreadCrawler` and its batch.

A public method runs under `cs`, but most of them loop: `GetMany` calls `Get_`
up to 16 times, `Get_` retries, `ResultMany` and `Add` walk a vector. Each
**pass through a loop body is one action**, taken by the thread that owns
`lock`. That keeps the model's steps small enough to be read against the code;
no other thread can interleave with them, except where the code releases `cs`:
between `GetMany`, `ResultMany` and `Add`.

| Actions | Code |
|---|---|
| `StartGetMany`, `EndGetMany` | `GetMany`, and the empty-batch `continue` of ThreadCrawler |
| `StartGet` | the entry of `Get_`: `tot`, and the return when it is 0 |
| `SkipFork`, `ForkPassOver`, `ForkHandOut` | the 5% slice: coin lost; stale or too recent front; front handed out |
| `PickUnk`, `PickOur`, `OurRefused` | the draw `rand() % tot`; a node set aside (`Offer`) goes round the loop again |
| `StartResultMany`, `Good`, `Bad` | `ResultMany`, one call of `Good_` or `Bad_` each, with `Requeue_` |
| `AddGossip`, `EndAdd` | `Add(vector)` of what the tests collected |
| `AddSeed` | the forced `Add` of ThreadSeeder |
| `GetStats` | ThreadStats; `idToInfo[ourId[0]]` may insert a record (one step; see section 5) |
| `Tick` | a second passes |

`GetIPs_` is an operator: the set of answers its random choice allows.

**Data that is abstracted.** The five decaying averages of a record are replaced
by the verdict that `IsGood`, `GetBanTime` and `GetIgnoreTime` draw from them:
whether an average makes the node `reliable`, and whether the averages call for
nothing, an ignore or a ban. A verdict is chosen at each `Update`, among those
the code's thresholds on the number of tests allow (`VerdictsAfter`). This
allows more histories than the arithmetic does, so a safety property that holds
here holds there. A peer's version and height appear as `fit` (they pass the
gates of `IsGood`) and `ancient` (the version alone calls for a ban). Names,
client strings and `ourLastSuccess` are left out, `lastTry` and `nDirty` too
(written, never read).

In any module a definition named `Slip_X` is `X` with a slip a programmer could
make. No action uses them; substituted for `X` they show that a property notices
the slip (`mutants` in `PROJECT.json`).

### AddrStat and the code

`Update` is `CAddrStat::Update` of all five averages. An average is an integer
in parts of `Unit`; `exp(-age/tau)` is a table for the ages a run uses, rounded
like the products. `Reliable`, `Banned` and `Ignored` are the parts of `IsGood`,
`GetBanTime` and `GetIgnoreTime` that read the averages.

### Restart and the code

A round of ThreadDumper is `TakeReport` (the `GetAll` before the lock is let go
of), `Save` (`dnsseed.dat.new` is emptied and the ids are listed), `WriteInfo`
once per id, `WriteBanned`, `Close` (of which nobody looks whether it worked),
`Rename` (neither) and `WriteDump` (the report of the beginning, after everything
in between). Other threads run between any two, but while the file is being
written (`Sharing`) the dumper holds `cs` as shared: then only the statistics
thread, whose lock is shared too, and the clock move. The new file is `torn` until
its last buffer is out. With `MayFail` a call on a file fails; a failure the code
does not handle kills the process. `Crash` may happen at any step of any thread,
in the middle of a save too; it
forgets everything but the files, lets time pass, and picks wipe options.
`ReadInfo` is one pass of the read loop, `ReadBanned` the end of it with what
`main()` does before it starts the threads, `ReadTorn` the exception of a file
that was cut. The option variables are modelled as `main.cpp:87-88` sets them.

### NodeLife

A node is `unknown`, `untried`, `testing`, `tried` or `banned`; it is taken for
a test only when untried or `MinRetry` after it was last dealt with, by one
crawler at a time; it leaves `testing` only by that crawler's report, which
alone can put it on or take it off the served list; and only that report can
ban it. `AddrDbLife` reads this off the real containers. Everything between —
ids, queues, the fork slice, phantom records, the lock — is stutter.

### Session and the code

A stream is a sequence of symbols: the message start is two of them, so that it
can be cut in the middle; command, size, checksum and payload are one each.
`wire` is what the peer still sends, `vRecv` and `vSend` are CNode's, `left` is
`doneAfter - now` (-1 while `doneAfter` is 0), `vAddr` counts the addresses the
batch collected.

| Actions | Code |
|---|---|
| `ConnectSocketDirectly`, `Socks5` | the connect with its timeout, then one send and recv of the proxy each |
| `PushVersion`, `Send` | the first message; `send` takes all, a part, or fails |
| `Loop`, `SelectEnds`, `SelectFails`, `PeerGone`, `Recv` | the loop of `Run`, by what `select` and `recv` return |
| `NoMessage`, `BadHeader`, `BadChecksum`, `ProcessMessage`, `Throw` | one pass of the loop of `ProcessMessages` |
| `Tick` | a second of a call that blocks |

### NetAddr, DataStream and Wire

`Seed` is ThreadSeeder with `Add_`'s filter, `ConnectSocket` the choice between
proxy and direct connection; everything else in `NetAddr` is an operator with
the name it has in the code. A dotted quad, an IPv6 group, a port and the end of
a special name are one symbol; base32 is decoded bit by bit. `DataStream` has
`vch` and `nReadPos` and an action per operation CNode calls. `Wire` reads in
steps: the count, then blocks of memory and one object or entry at a time.

### The DNS modules and the code

`DnsCache`: `GetIPList` with `cacheHit` in it, one pass of the sampling loop
(`Draw`), the return, and a second. `perflag` is the code's map; `taken` and
`late` record what the last refill got and how many answers came late.
`DnsReply`: `step` follows the sections of `dnshandle`, the two trial writes that
compute `max_auth_size` first. A record is begun (`Begin`), written piece by piece
as the `write_record_` functions do (`WritePiece`, one check of room each), and
either counted (`Finish`) or, where the next piece has no room, taken back to
where it began (`GiveUp`, `RolledBack`); names are lengths. `DnsName`: one action per length
octet and one per character; the recursive call of a reference is the last thing
its caller does, so it continues in the same buffer. `write_name` is one
operator: its loop over labels is stated by where labels begin, as every label is
written by itself, and the first with an error (`LabelError`) ends it. `DnsStart`: every step
between two accesses to a shared static is an action.

## 3. What is checked

Runs that must find no error:

| Run | Instance | Question |
|---|---|---|
| `core` | 2 nodes, 2 crawlers, batches of 2, clock to 3, 3 ids | the invariants of `AddrDb`, that only a ban forgets a node, and that `AddrDb` implements `NodeLife` |
| `rotation` | 2 nodes, 1 crawler, batches of 1, fairness; `GetStats` may insert records under ids 0 and 1 | is a fork node that is due polled again? |
| `restart` | 2 nodes, 1 crawler, one restart, one round of the dumper, failing calls | are the file and the dump exact, do they fit together, can the next process read them, and does it get back what they say? |
| `dns` | two DNS threads at start-up, one cache, queries of every shape, names of every spelling | are answers whole, fresh enough, in place and inside the buffer? |
| `parts` | sessions, streams, counts, averages, seeds and proxies | is a session's verdict earned, its stream whole, its socket closed, its end certain; and the four below it |

In `dns` and `parts` the units run **one per behaviour**, never interleaved: the
threads and calls of one touch no state of another. They share a run because
each alone is small, not because they interact.

The invariants of `AddrDb`: `TypeOK`; `MapsAgree`; `OneSlot` (the partition that
`db.h:226-238` promises); `InFlightIsHeld` (`inFlight` is exactly what crawlers
hold, one crawler per node, still known when reported); `BannedUnknown`;
`Proven` (served and fork-queued nodes have answered, and their bits are their
own); `OurIdByTry` (`ourId` is in the order its nodes were tried: the reason
`Get_` may give up on the front); `TotIsFresh` (`tot`, computed before the loop,
is still right at each draw, so `rand() % tot` never reaches an empty `ourId`).

Of `Restart`: `SnapshotExact` and `CensusExact` (a save and a dump hold each node
once, those under test included, and a save has `ourId` first and in its order);
`Restores` (an action property: when the threads of a new process start, it holds
exactly the records of the file not due for a ban, in their order, each in the
queue its history calls for); `DumpWithinDat` (a dumped node is in the saved
file or banned there, although the report is older); `FileFromOneMoment` (whatever
step of the writing the process dies at, the file the next start reads is whole,
has no address twice and none that it bans too: it is of one moment, although it is
written record by record beside the other threads. Only a failed close makes
another, which no later start can read).

Of the DNS server: `CacheIsSample`, `ScanEnds`, `FullAnswer` (drawing neither
loses nor repeats, always ends, and gives as many as it can of the families
asked for); `FewLateAnswers` and `CacheTurnsOver` (an answer cache past its age
answers at most `sqrt(size/20)` more queries, and is always filled again while it
is asked; with no queries it has no age limit); `AuthorityKept` (whatever the
trial writes came to, the answers leave room for the authority record) and
`LengthIsRecords` (what was given up half way leaves nothing behind: a reply is the
question and as many whole records as its header counts); `NameStaysInside` and `NameComesBack` (reading stays in
the packet for every packet, and gives back what writing wrote);
`EveryThreadHears` and `NetsCatchUp` (as long as no two threads are in the start-up
at once and no call fails, every thread that left it listens; and a cache filled between the
two writes of another thread is repaired by a later refill).

Of the session and what it stands on: `GoodWasHeard` (no good result on
silence), `SentInOrder` (partial sends neither lose, repeat nor reorder),
`ClosedAtEnd` (the socket leaks in two ways only: an exception out of `Run`, and
one early return of `Socks5`), `FramingIgnoresCuts` (the messages processed are
those of the whole stream read in one piece, however the network cut it),
`EverySessionEnds`; `StreamIsQueue`; `ReadIsWhole` and `MemoryFollowsData` (a
count takes memory only as data arrives, save for a string);
`VerdictsSound` and `QuickPollsCount` (what `AddrDb` supposes of verdicts, and
what `db.h:19-26` says of frequent polls); `DialledAsConfigured` (an onion seed
is dialled by the name it was given and only through the Tor proxy, and a
network with a proxy only through that proxy).

Runs that must find a violation, each of what a comment, a help text or the
README says:

| Run | What TLC shows |
|---|---|
| `fifo_front` | after a restart the front of `ourId` can be too recent while a node behind it is long due: saving appends `forkId` and `inFlight` to `ourId`, so it is not the strict FIFO of `db.cpp:63-65` |
| `fork_only` | with `goodId` empty a query is answered with a node whose service bits are gossip, against `README.md:44` and `main.cpp:357` |
| `phantom` | `GetStats` inserts a default-constructed record, which `db.h:305-306` and `db.cpp:58-59` warn of |
| `fork_starved` | with `unkId` and `ourId` empty `Get_` returns before it looks at `forkId`: fork nodes alone are never polled again, against `db.cpp:50-51` |
| `wipe_ignore` | `--wipeignore` wipes the bans and not the ignores (`main.cpp:88`, `main.cpp:64`) |
| `endless_session` | a peer that keeps sending before a deadline is set holds a crawler for ever (`bitcoin.cpp:222`), against the "~35s each" of `db.h:233-234` |
| `i2p_seed` | a `.oc.b32.i2p` seed gets the prefix of Tor (`netbase.cpp:548`), against `netbase.h:47` |

The other way round, two comments describe more than the code can do: `db.h:299`
and `db.h:359` keep `seen` because "an id can genuinely be in two of these at
once", and `db.h:307` and `db.cpp:91` guard against ids in `ourId` whose record a
ban erased. `OneSlot`, proved for `AddrDb` and across restarts, says
that neither happens: the guards are defensive. They become necessary as soon as
the rotation is an overlay, as the mutant `Slip_Requeue_Overlay` makes it.

### Bounds, and why they are enough

The database:

* `Addr`: two nodes give every pair of places a node and another can be in.
* `MaxBatch` 2 (16): a batch with a node before and after each report.
* `MaxId` 3 with two nodes: a node is banned, comes back under a new id, and
  the other keeps its own. Each id given out is one `Add_` of a new node.
* `MaxTime` 3 with `MinRetry` 1, `IgnoreTime` 1, `BanTime` 2: a node is tried,
  due again, set aside, banned, and the ban runs out. `now` starts at 1 because
  0 means "never" in `ourLastTry`.
* `MaxTotal` 2: `total` and `success` saturate. With `Grace` 1 and `MinSamples`
  0 and `BanSamples` 1 (3, 2 and 8 in the code) both sides of every comparison
  occur. The thresholds are constants; the proofs hold for the code's values.
* `Hellos`: a fork node and a main-chain node. Peers that lag or are too old are
  in the proofs, which hold for any `Hellos`. `Verdicts`: no verdict, ignore, ban
  (in `restart`, where no ignored node is wiped: none and ban).
* `Rumours` is one service set in the passing runs: a rumour of the fork bit is
  what the enrolment rule must not trust.
* `Garbage` is what `ourId[0]` reads from an empty deque: nothing in `core` and
  `restart`, the ids 0 and 1 in `rotation` and `phantom`. The proofs allow any
  integers.
* `Tick` only when the lock is free: a critical section lasts less than a
  second, and the code reads the clock more than once inside one.
* `restart`: `MaxBoots` 1 and `MaxDumps` 1; a batch can be outstanding at every
  step of the round, between two records of the file too, and a round can end in a
  crash or a torn file. The wipe
  options are `wipe_ignore`'s question.

The parts:

* `Session`: `ConnectTime` 1, `Timeout` 2, `MaxAddr` 2 (5, 30 or 120, 1000): a
  second passes before, between and after the messages, and a batch is full or
  one too many. `Script` has every message, headers that are wrong in each field,
  starts cut by rubbish, starts inside payloads, versions old and new, and the
  network cuts each anywhere. `MaxElapsed` is 0 where no property reads it.
* `DataStream`: vectors of 4 bytes of 2 values, chunks of 2: reading comes to the
  end, stops short of it, and a header is put back in both cases.
* `Wire`: the counts at each change of width and around `MAX_SIZE`, with `Block` 2
  and up to 5 elements behind them: no block, a whole one, one and a part.
* `AddrStat`: ages of 1000 seconds (`MIN_RETRY`), 82 minutes and a day, at most
  two changes of outcome or age, 36 tests: every threshold on a count (32 at most) is passed.
* `DnsCache`: three addresses of two families, `MaxMany` 2, `HitRate` 3, `SoftRate`
  1, `SoftAge` 1 (32, 400, 20, 5): caches larger and smaller than an answer, both
  rules of refilling in use. `DnsName`: `bufsize` 4, `MaxLabel` 2 (256, 63), every
  packet of up to 5 of 7 bytes, references included. `DnsReply` has the code's
  numbers: questions of 30, 168, 188, 189 and 489 bytes leave room for everything,
  for an SOA record to the byte, for a whole number of addresses beside a reserve
  and for one byte less, and for the first two pieces of a record only.
* `DnsStart`: two threads and one failing call.

Deadlock is checked in every run of the database, and none occurs: the loops of
its threads have no end. `dns`, `parts` and the two small runs of a session and of
a seed switch it off, because names, counts and sessions come to an end.

### Fairness

`FairSpec` of `AddrDb` has weak fairness of each crawler thread: the scheduler
runs it, and `TestNode` returns. `endless_session` shows that the second
half is an assumption about the peers: one that talks without end holds its
crawler. It has strong fairness of handing out from the fork slice:
an independent coin of 5% that is thrown again and again while the node is due
comes up. There is none of the clock, gossip, seeder or statistics. Under it
`ForkRotatesBesideOthers` holds and the unconditional `ForkRotates` does not.

`SessionFairness` has weak fairness of the program's own steps, of the clock, and
of the connect, which has a timeout. Nothing is asked of the peer or of a proxy:
`EverySessionEnds` excepts a proxy that never answers, since no timeout is set on
that socket (`netbase.cpp:228`). The peers of `Script` stop after finitely many
messages. `CacheFairness` and `StartFairness` have weak fairness of a thread in
the middle of a query; that queries come is a hypothesis of the properties.

## 4. What is proved

For every set of addresses, crawlers and DNS threads, every threshold, every
bound and every peer. What is assumed of the constants stands in the modules
that declare them, by name: that bounds and thresholds are natural numbers, that
a set which the program holds in memory is finite (`BootAssumption`,
`CacheAssumption`), that there are as many ids as addresses (`BootAssumption`:
`nId` is an `int`, and a file with more nodes than that cannot be written), that
a count fits 32 bits (`WireAssumption`: `serialize.h:537` reads it into an
`unsigned int`), that a decay is at most 1 (`StatAssumption`), that the quick
ages lie between `MIN_RETRY` and 83 minutes, so that their decay over two hours is
between 0.5007 and 0.8704 (`QuickAssumption`), that what a peer
sends is made of symbols (`SessionAssumption`), that a query is made of bytes and
a name of characters other than the zero that ends it (`NameAssumption`).

| Theorem | Module | States |
|---|---|---|
| `TypeCorrect` | `AddrDb_proofs` | `Spec => []TypeOK` |
| `MapsStayInStep` | `AddrDb_proofs` | `Spec => []MapsAgree` |
| `Partition` | `AddrDb_proofs` | `Spec => []OneSlot` |
| `Balanced` | `AddrDb_proofs` | `Spec => []InFlightIsHeld` |
| `NoBannedNode` | `AddrDb_proofs` | `Spec => []BannedUnknown` |
| `ServedAreProven` | `AddrDb_proofs` | `Spec => []Proven` |
| `DrawIsSound` | `AddrDb_proofs` | `Spec => []TotIsFresh` |
| `QueueInTryOrder` | `AddrDbOrder_proofs` | `Spec => []OurIdByTry` |
| `OnlyBansForget` | `AddrDbOrder_proofs` | `Spec => ForgottenOnlyByBan` |
| `Implementation` | `AddrDbLife_proofs` | `Spec => ImplementsLife` |
| `PartitionAcrossRestarts` | `Restart_proofs` | `BootSpec => []OneSlot` |
| `NoBannedNodeAcrossRestarts` | `Restart_proofs` | `BootSpec => []BannedUnknown` |
| `ServedAreProvenAcrossRestarts` | `Restart_proofs` | `BootSpec => []Proven` |
| `SnapshotIsExact` | `Restart_proofs` | `BootSpec => []SnapshotExact` |
| `CensusIsExact` | `Restart_proofs` | `BootSpec => []CensusExact` |
| `FilesAgree` | `Restart_proofs` | `BootSpec => []DumpWithinDat` |
| `EveryFileIsOneMoment` | `Restart_proofs` | `BootSpec => []FileFromOneMoment` |
| `RestartRestores` | `Restart_proofs` | `BootSpec => Restores` |
| `VerdictsAreSound` | `AddrStat_proofs` | `StatSpec => []VerdictsSound` |
| `QuickPollsAreEnough` | `AddrStat_proofs` | `StatSpec => []QuickPollsCount` |
| `SessionTypes` | `Session_proofs` | `SessionSpec => []SessionTypeOK` |
| `SocketsClosed` | `Session_proofs` | `SessionSpec => []ClosedAtEnd` |
| `NotGoodOnSilence` | `Session_proofs` | `SessionSpec => []GoodWasHeard` |
| `MessagesArriveInOrder` | `Session_proofs` | `SessionSpec => []SentInOrder` |
| `FramingIsSound` | `Session_proofs` | `SessionSpec => []FramingIgnoresCuts` |
| `BoundedMemory` | `Stream_proofs` | `WireSpec => []MemoryFollowsData` |
| `ReadsAreWhole` | `Stream_proofs` | `WireSpec => []ReadIsWhole` |
| `StreamImplementsQueue` | `Stream_proofs` | `DataStreamSpec => StreamIsQueue` |
| `ThreadsHear` | `Dns_proofs` | `StartSpec => []EveryThreadHears` |
| `AuthorityHasRoom` | `Dns_proofs` | `ReplySpec => []AuthorityKept` |
| `RepliesAreWhole` | `Dns_proofs` | `ReplySpec => []LengthIsRecords` |
| `CacheKeepsSample` | `Dns_proofs` | `CacheSpec => []CacheIsSample` |
| `ScansEnd` | `Dns_proofs` | `CacheSpec => []ScanEnds` |
| `AnswersAreFull` | `Dns_proofs` | `CacheSpec => []FullAnswer` |
| `LateAnswersAreFew` | `Dns_proofs` | `CacheSpec => []FewLateAnswers` |
| `NamesStayInside` | `Dns_proofs` | `NameSpec => []NameStaysInside` |
| `AnyMessageStaysInside` | `Dns_proofs` | `Called /\ [][NameNext]_nameVars => []NameStaysInside` |
| `NamesComeBack` | `Dns_proofs` | `NameSpec => []NameComesBack` |

**The database.** None of the invariants is inductive alone: that a ban leaves no
stale id in `ourId` (`OneSlot`) holds because a node under test is in no queue
(`OneSlot` again), because its address still leads to its id (`InFlightIsHeld`),
because no other address has that id (`MapsAgree`), and because a thread inside
`ResultMany` has a batch and the lock (`ThreadsInOrder`). `IInv` is the
conjunction of all of these with `TypeOK`, `BannedUnknown`, `Proven` and
`TotIsFresh`. The proof that a step preserves it has one lemma per action; the
facts about what `Put`, `Drop`, `Scrub`, `Append` and `Tail` do to a map or a
queue are lemmas of their own.

The order of `ourId` needs one more conjunct: no record was tried later than
now. Then the node a report appends, tried now, belongs at the end, and so does
the node that `Get_` postpones. `OurIdByTry` is about one life of the process;
`fifo_front` shows that a restart breaks it.

For the refinement, each action is shown to map to one action of `NodeLife` or
to none: `Enter` to `Learn`, handing out to `Take`, setting aside to `Postpone`,
a report to `Settle`, `Tick` to `Pass`.

**Restarts.** `BootInv` carries `IInv` through the files. A restart builds the
database from `dat`, so whatever `IInv` needs of it must be true of the file,
and whatever the file needs must be true of the database when it is saved:

* `RecordsSeasoned`: a record's history counts a test as soon as anything of it
  is set. A record never tried is saved without its history, and only this says
  that nothing is lost by that.
* `FilesOK`: a file lists a node once, with seasoned records, and bans none that
  it lists. It follows from `OneSlot` and `BannedUnknown` at the moment of the
  save, because the walk over the containers visits each id once (`Walked`), and
  from `WriteOK` for the time the writing takes.
* `WriteOK`: in the middle of a save, the addresses in the new file and those of the
  ids still to be written are together the known ones, each once. It survives the
  steps of other threads only because those beside a shared lock move no node
  (`RunStep`), and hands over to `FilesOK` when the ban list is written.
* `LoadOK`: in the middle of the read loop nothing that is still to be read is
  known yet, so the next record is a new node (`EnteredFromFile`), and there are
  ids enough for the rest.
* `RoundsOK`: what the dumper's round has in its hands. A node reported at its
  beginning is still known or banned when the file is saved, because only a ban
  forgets a node (`NextKept`, one lemma per kind of step).

`Restores` speaks of the two ends of a load, so its proof needs to know every
moment between them. `Loading` says that the nodes in memory are the records read
so far that are not due for a ban: there is an increasing map `at` from the ids to
those records (`Matches`). A record passed over leaves `at` as it is
(`PassedOver`), any other extends it by the next id (`Restored`), and at the end of
the file `at` is the witness that `Restores` asks for. With `SnapshotExact` it
gives what the comment at `db.h:364` promises: the rotation order of `ourId`
survives a restart (of `ourId`, not of the nodes in `forkId` and under test, which
is what `fifo_front` is about).

`Ascending`, the order a `std::set` is walked in, is a `CHOOSE` of a function;
that there is one is proved from a smallest set without one (`Enumerable`).

**The averages.** `StatInv` says of each average that its reliability lies between
nothing and its weight, is nothing if no test succeeded and the weight if all
did, and that its count is at most the number of tests. With that, every
threshold of `IsGood`, `GetBanTime` and `GetIgnoreTime` says something of the
number of tests and of their outcomes, rounding included. This is what entitles
`AddrDb` to choose its verdicts by `VerdictsAfter`.

`QuickPollsCount` follows from a table (`CountAfter`, `ReliableAfter`): how much an
average of two hours has counted, and how reliable it is, at least, after one,
two, ... fourteen good answers in a row at quick ages. `RunInv` says that the
averages keep to the row of the present run. It is inductive because each answer
leads from a row at least to the next one (`CountStep`, `ReliableStep`: the worst
decay of a quick age and the worst rounding), the first answer to the first row
from anything at all, and the fourteenth row to itself, where the count is at least
2.0016 and the reliability 0.8531. Both bounds are tight: at `MIN_RETRY` apart it
takes all fourteen answers for the reliability to pass 0.85, and at 83 minutes
apart no number of answers brings the count of a new node past 2.003.

**The session.** `GoodWasHeard` looks at the end, so `Deadline` carries it through
the middle: a deadline is only ever set by a message that counts as an answer,
`seen` only grows, the batch never stops wanting addresses, and a session ends
well only with a deadline set. `ClosedAtEnd` needs `Early`: as long as a proxy is
spoken to there is one, and nothing has been sent or queued. `SentInOrder` needs
`Delivery`: from the version message on, sent and queued together are what is
due; a send moves the cut between them and a message processed appends its reply
to both sides. What is due is `FlattenSeq` of the replies, a recursive function;
that it exists, and that its value grows by the last reply, are proved from a
smallest counterexample (`FlattenExists`, `FlattenMore`). All hold for every
`Script`: for any stream a peer may send.

`FramingIgnoresCuts` relates the session to `InOnePiece`, a recursive function on
the positions of a stream that is proved to exist and to be what its definition
says (`OnePieceExists`, `OnePieceIs`). As it stands the property is far from
inductive: it says nothing of `vRecv`, and what has come in so far may be read
differently once more follows. `Framed` says instead that there is a position
`p` such that `vRecv` is what was received from `p` on and that, **whatever the peer will
still send**, the messages of the whole stream are those seen, followed by what
the reference makes of it from `p` on with the version and the framing of now.
Receiving then only moves symbols from what will come to what has come. A message
processed, a bad header and a bad checksum are each one step of the reference
(`NextRead`), because a header that has come in stays the same when more comes
in (`HeaderStays`). `NoMessage` drops a part of `vRecv` only in front of the next
message start, even where the start itself is cut in two (`KeptIs`,
`NextStartSkips`): this is what `Slip_Kept` breaks. `Waits` says that the
loop only goes back to `select` when no message is complete, so that the property
can ask for everything to have been read there.

**Streams and counted data.** `WireInv` ties `slots`, `i` and `nSize` together in
each phase; the lemmas before it show that a count, whoever wrote it, is read as
a natural number no larger than `MAX_SIZE`, or not at all, and that each of the
three widths gives back the number that was written (`CountComesBack`). For the
queue, `StreamInv` only says that reading has not passed the end. The work is in
the lemmas about what lies behind `nReadPos` (`BehindMore` to `BehindFront`), one
for each way an operation changes the vector: a step of the vector is a step of
the queue on what lies behind.

**The DNS server.** `StartInv` follows the one thread that opens and binds while
the others have not begun. `ReplyInv` has three parts. `CursorOK`: between two records
the cursor is behind whole records (`Base`), inside one it is as far behind `oldpos`
as the pieces written (`Mark`), and the pieces add up to the record (`PiecesAdd`);
so a record finished makes one more whole record, and one given up, which may be
inside its third or fifth piece, leaves what was there. `ReserveOK`: after each
trial the reserve is at least the authority record tried, if that has room behind
the question at all, and never more than the room there. `Base + reserve <= BUFLEN`
while answers are added; whichever authority record is written last then fits
(`RoomForAuthority`), or an NS record that was asked for is already in the answer
(`NsAnswered`). `CacheInv` says that
the addresses drawn are the first of the cache, that the families' counts are
those of the cache, and that the hits and age of a cache keep the account of
late answers. A swap is then a rearrangement, and as long as fewer than `max` are
drawn one that is wanted remains behind them. `NameInv` says that reading never
reaches `inend` and that the buffer keeps room for the zero; it is proved for
**any** message of bytes and any position in it (`Called`), and every start of
`NameSpec` is one (`NameStart`).

`NameComesBack` needs what parse_name is in the middle of. `write_name` is stated
label by label, by where labels begin (`Heads`) and how long they are
(`LabelLength`), without recursion, so what it writes can be proved about:
`Layout` says that a length leads exactly to the next head or behind the last
label, and that between heads stand the characters, one place behind their own,
because each length takes the place of a dot. `Reading` then says that some text
stands in the message, that `p` of its bytes have been read, that `buf` holds the
first characters of the name meant, as many as those bytes account for, and that
behind the text comes the end, or a reference to a text at the start of the
message with the rest of the name. Following the reference is `Reading` again,
of the second text from its first byte.

**Only model-checked.**

* Liveness (`ForkRotatesBesideOthers`, `EverySessionEnds`, `NetsCatchUp`,
  `CacheTurnsOver`): fairness and `ENABLED` are out of the prover's reach.
* `DialledAsConfigured` compares folds over base32 letters with what they undo:
  induction over data, with an operator as a parameter of the fold.

## 5. What is not modelled, and why

* `Skipped_` and the single-node wrappers of CAddrDb; `GetGroup`,
  `GetReachabilityFrom`, `GetHash`, `GetKey`, the name proxy and SOCKS4 in
  `netbase.cpp`; `AbortMessage`; Base64: no caller in this program.
* `uint256.h` and the hash wrapper: pure data. A checksum in `Session` names what
  was hashed.
* Option parsing beyond the wipe options and the proxies: constants of a process.
* The templates of `serialize.h` that copy a field of fixed size; printing; the
  log lines and `dnsstats.log`; the contents of the dump's columns.
* A host name that begins with `x` (`main.cpp:347` takes it for a flag word), and
  the height a peer never gave (`bitcoin.cpp:278`, uninitialised): `AddrDb` leaves
  the verdict on a height free. A clock that steps back (`db.cpp:62`): the clock
  of the model only advances. `PROJECT.json` lists the last two as hazards without
  a property.
* A dump file that cannot be opened (`main.cpp:426`) kills the process: it is a
  `Crash` of `Restart`, not an action of its own.
* Two threads inside one `std::map` at once: `GetStats` inserts while it holds `cs`
  only as shared (`db.h:264`), which is undefined behaviour if another reader is
  in the middle of a walk. The insertion is one step here; that it happens at all
  is what `phantom` shows, and the invariants hold with it.
* The number of a socket that was closed being given to another one
  (`dns.cpp:420-431`): `DnsStart` gives each socket a name of its own. It takes a
  failed call to close one.
* What should happen when DNS threads overlap in the start-up, when a proxy's text
  is no address, and when a proxy never answers: the models contain all
  three, but nothing in the repository says what to expect, and the properties
  next to them except them. They are listed as hazards without a property.
* The scripts of `deploy/` and the build files: nothing in the program reads what
  they write.

## 6. What remains open

The plan of this project is carried out but for these, most important first:

1. `DialledAsConfigured`: the round trip of base32 groups, and of `host:port`
   text, for every address.
2. The order of a database across a restart where it is not kept (`fifo_front`): a
   bound on how long a node can be held up by one in front of it.
