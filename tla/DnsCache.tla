------------------------------ MODULE DnsCache ------------------------------
(***************************************************************************)
(* GetIPList, the callback of dnshandle, over the cache of one DNS thread  *)
(* (main.cpp:267-384).  The cache is the thread's own, so nothing moves    *)
(* while a query is answered; the node database is met only when a refill  *)
(* asks GetIPs_ for a sample, of any addresses it likes.                   *)
(***************************************************************************)
EXTENDS Integers, SequencesExt

CONSTANTS
  IPv4, IPv6,   \* addresses the database knows, by family
  Filters,      \* flag words a name can ask for, besides none
  filterWhitelist,
  MaxMany,      \* bound on an answer: 32
  HitRate,      \* 400
  SoftRate,     \* 20
  SoftAge,      \* 5 seconds
  Bare          \* NODE_BLAKE2B alone, what the host name itself asks for

ASSUME CacheAssumption ==
  /\ IPv4 \cap IPv6 = {} /\ filterWhitelist \subseteq Filters /\ Bare \notin Filters
  /\ IsFiniteSet(IPv4 \cup IPv6)
  /\ {MaxMany, SoftRate, SoftAge} \subseteq Nat /\ HitRate \in Nat \ {0}

VARIABLES
  perflag,   \* flag word -> FlagSpecificData, made when first asked for
  taken,     \* flag word -> what GetIPs_ returned at the last refill
  late,      \* flag word -> answers since then from a cache past SoftAge
  asked,     \* the query being answered: flags and families
  drawn,     \* GetIPList's addr
  max        \* GetIPList's max, once cut; -1 between two queries

cacheVars == <<perflag, taken, late, asked, drawn, max>>

Addresses == IPv4 \cup IPv6

-----------------------------------------------------------------------------
(* The flag words a name asks for, as a set of at most one: the host name  *)
(* itself, "x<flags>." in front of it with flags on the white list, or     *)
(* nothing.                                                                *)
FlagsOf(name) ==
  CASE name = "host" -> {Bare}
    [] name = "other" -> {}
    [] OTHER -> {name} \cap filterWhitelist

Fresh == [cache |-> <<>>, nIPv4 |-> 0, nIPv6 |-> 0, hits |-> 0, age |-> SoftAge + 1]

(* Slip: no limit for a cache past SoftAge.                                *)
Slip_Due(d) == d.hits * HitRate > Len(d.cache) * Len(d.cache)

(* Slip: a counter that saturates.                                         *)
Slip_Counted(d) == [d EXCEPT !.hits = Min({@ + 1, 2})]

Counted(d) == [d EXCEPT !.hits = @ + 1]

Due(d) ==
  LET size == Len(d.cache)
  IN  \/ d.hits * HitRate > size * size
      \/ d.hits * d.hits * SoftRate > size /\ d.age > SoftAge

(* Slip: the counts of the families not cleared.                           *)
Slip_Filled(d, ips) ==
  [cache |-> SetToSeq(ips), nIPv4 |-> d.nIPv4 + Cardinality(ips \cap IPv4),
   nIPv6 |-> Cardinality(ips \cap IPv6), hits |-> 0, age |-> 0]

Filled(d, ips) ==
  [cache |-> SetToSeq(ips), nIPv4 |-> Cardinality(ips \cap IPv4),
   nIPv6 |-> Cardinality(ips \cap IPv6), hits |-> 0, age |-> 0]

(* Slip: max not cut to what the wanted families have.                     *)
Slip_Cut(d, ipv4, ipv6) == Min({MaxMany, Len(d.cache)})

Cut(d, ipv4, ipv6) ==
  Min({MaxMany, Len(d.cache), (IF ipv4 THEN d.nIPv4 ELSE 0) + (IF ipv6 THEN d.nIPv6 ELSE 0)})
-----------------------------------------------------------------------------
Nothing == [flags |-> Bare, ipv4 |-> FALSE, ipv6 |-> FALSE]

CacheInit ==
  /\ perflag = <<>> /\ taken = <<>> /\ late = <<>>
  /\ asked = Nothing /\ drawn = <<>> /\ max = -1

Set(f, k, v) == [x \in DOMAIN f \cup {k} |-> IF x = k THEN v ELSE f[x]]

(* cacheHit and the cuts of max; ips is what a refill would get.           *)
Hit(flags, ipv4, ipv6, ips) ==
  LET had == IF flags \in DOMAIN perflag THEN perflag[flags] ELSE Fresh
      hit == Counted(had)
      d   == IF Due(hit) THEN Filled(hit, ips) ELSE hit
      old == ~ Due(hit) /\ d.age > SoftAge
  IN  /\ perflag' = Set(perflag, flags, d)
      /\ taken' = IF Due(hit) THEN Set(taken, flags, ips) ELSE taken
      /\ late' = Set(late, flags, CASE Due(hit) -> 0 [] old -> late[flags] + 1 [] OTHER -> late[flags])
      /\ asked' = [flags |-> flags, ipv4 |-> ipv4, ipv6 |-> ipv6]
      /\ max' = Cut(d, ipv4, ipv6)

(* A name that asks for no flag word gets no address and touches nothing.  *)
GetIPList ==
  /\ max = -1
  /\ \E name \in {"host", "other"} \cup Filters, ipv4, ipv6 \in BOOLEAN, ips \in SUBSET Addresses :
       /\ ipv4 \/ ipv6
       /\ \E flags \in FlagsOf(name) : Hit(flags, ipv4, ipv6, ips)
  /\ UNCHANGED drawn

Wanted(a) == (asked.ipv4 /\ a \in IPv4) \/ (asked.ipv6 /\ a \in IPv6)

(* Slip: the family of the entry not looked at.                            *)
Slip_Scan(cache, from, j) == j

(* Where a scan from j stops: it goes up and starts again at from.         *)
Scan(cache, from, j) ==
  LET ok == {k \in from..Len(cache) : Wanted(cache[k])}
  IN  Min(IF \E k \in ok : k >= j THEN {k \in ok : k >= j} ELSE ok)

Swap(q, i, j) == [q EXCEPT ![i] = q[j], ![j] = q[i]]

(* One pass of the sampling loop.                                          *)
Draw ==
  LET cache == perflag[asked.flags].cache
      i     == Len(drawn) + 1
  IN  /\ max # -1 /\ Len(drawn) < max
      /\ \E j \in i..Len(cache) :
           LET k == Scan(cache, i, j)
           IN  /\ drawn' = Append(drawn, cache[k])
               /\ perflag' = [perflag EXCEPT ![asked.flags].cache = Swap(cache, i, k)]
      /\ UNCHANGED <<taken, late, asked, max>>

ReturnMax ==
  /\ max # -1 /\ Len(drawn) = max
  /\ max' = -1 /\ asked' = Nothing /\ drawn' = <<>>
  /\ UNCHANGED <<perflag, taken, late>>

Second ==
  /\ max = -1
  /\ perflag' = [f \in DOMAIN perflag |->
       [perflag[f] EXCEPT !.age = Min({@ + 1, SoftAge + 1})]]
  /\ UNCHANGED <<taken, late, asked, drawn, max>>

CacheNext == GetIPList \/ Draw \/ ReturnMax \/ Second

CacheFairness == WF_cacheVars(Draw \/ ReturnMax)

CacheSpec == CacheInit /\ [][CacheNext]_cacheVars
-----------------------------------------------------------------------------
(* Properties.                                                             *)

(* main.cpp:378-380: drawing reorders the cache in place and neither loses *)
(* nor doubles an address of the sample it was filled with, and the counts *)
(* of the families stay those of the cache.                                *)
CacheIsSample ==
  \A f \in DOMAIN perflag :
    LET d == perflag[f]
    IN  /\ {d.cache[k] : k \in DOMAIN d.cache} = taken[f]
        /\ Len(d.cache) = Cardinality(taken[f])
        /\ d.nIPv4 = Cardinality(taken[f] \cap IPv4)
        /\ d.nIPv6 = Cardinality(taken[f] \cap IPv6)

(* main.cpp:369-377: whenever the loop draws once more there is an address *)
(* of a wanted family left at or behind i, or its scan would not end.      *)
ScanEnds ==
  max # -1 /\ Len(drawn) < max =>
    LET cache == perflag[asked.flags].cache
    IN  \E k \in Len(drawn) + 1..Len(cache) : Wanted(cache[k])

(* main.cpp:361-383: an answer repeats no address, holds wanted families   *)
(* only, and as many of them as the cache has, up to the caller's 32.      *)
FullAnswer ==
  /\ \A i, j \in DOMAIN drawn : drawn[i] = drawn[j] => i = j
  /\ \A i \in DOMAIN drawn : Wanted(drawn[i])
  /\ max # -1 =>
       max = Min({MaxMany, Cardinality({a \in taken[asked.flags] : Wanted(a)})})

(* main.cpp:292: a cache past SoftAge answers at most sqrt(size / 20) more *)
(* queries before it is filled again, the early hits counted.              *)
FewLateAnswers ==
  \A f \in DOMAIN perflag :
    late[f] * late[f] * SoftRate <= Len(perflag[f].cache)

(* main.cpp:292: while a flag word is asked for again and again its cache  *)
(* is filled again and again, with no limit on age in the code.            *)
CacheTurnsOver ==
  \A f \in filterWhitelist \cup {Bare} :
    ([]<>(max # -1 /\ asked.flags = f)) => []<>(f \in DOMAIN perflag /\ perflag[f].hits = 0)
=============================================================================
