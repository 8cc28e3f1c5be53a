------------------------------ MODULE NetAddr ------------------------------
(***************************************************************************)
(* From the text of a seed to the connection it leads to: base32           *)
(* (util.cpp:33-172), CNetAddr and CService (netbase.cpp:38-163, 530-806,  *)
(* 976-1129), the seeder's choice of a lookup (main.cpp:497-516), the      *)
(* proxies main sets (main.cpp:534-553) and ConnectSocket (netbase.cpp:    *)
(* 417-486).                                                               *)
(*                                                                         *)
(* A text is a sequence of symbols: a letter or digit each, but a dotted   *)
(* quad, a group of an IPv6 address, a port and the end of a special name  *)
(* are one symbol.                                                         *)
(***************************************************************************)
EXTENDS Integers, SequencesExt

CONSTANTS
  SeedTexts,    \* what -s, or the list in the program, may hold
  ProxyTexts,   \* what -o, -i and -k may hold
  NumericText,  \* text of an address -> its sixteen bytes
  PortText,     \* text of a port -> what strtol makes of it
  DnsAnswers,   \* what a resolver may answer: sets of addresses
  DefaultPort

Onion == ".onion"
Garlic == ".oc.b32.i2p"

VARIABLES
  seed,
  options,  \* network -> text, for the proxies given
  proxies,  \* proxyInfo, for the networks that have one
  known,    \* services in the database
  asked     \* what the last ConnectSocket went to

netVars == <<seed, options, proxies, known, asked>>

Nowhere == [how |-> "nowhere"]
-----------------------------------------------------------------------------
(* Base32: what is left of a byte, already shifted, and the next one.      *)

Encoded(acc, enc) ==
  LET to(out, left, mode) == [out |-> acc.out \o out, left |-> left, mode |-> mode]
      l == acc.left
  IN  CASE acc.mode = 0 -> to(<<enc \div 8>>, (enc % 8) * 4, 1)
        [] acc.mode = 1 -> to(<<l + enc \div 64, (enc \div 2) % 32>>, (enc % 2) * 16, 2)
        [] acc.mode = 2 -> to(<<l + enc \div 16>>, (enc % 16) * 2, 3)
        [] acc.mode = 3 -> to(<<l + enc \div 128, (enc \div 4) % 32>>, (enc % 4) * 8, 4)
        [] acc.mode = 4 -> to(<<l + enc \div 32, enc % 32>>, l, 0)

(* Padded with "=" for a rest that is not a whole group of five bytes.     *)
pbase32 == <<"a", "b", "c", "d", "e", "f", "g", "h", "i", "j", "k", "l", "m", "n", "o", "p", "q",
             "r", "s", "t", "u", "v", "w", "x", "y", "z", "2", "3", "4", "5", "6", "7">>

EncodeBase32(bytes) ==
  LET e == FoldLeft(Encoded, [out |-> <<>>, left |-> 0, mode |-> 0], bytes)
      nPadding == <<6, 4, 3, 1>>
      text == [n \in DOMAIN e.out |-> pbase32[e.out[n] + 1]]
  IN  IF e.mode = 0 THEN text
      ELSE Append(text, pbase32[e.left + 1]) \o [n \in 1..nPadding[e.mode] |-> "="]

(* Slip: two bits kept of five, in the sixth character as in the second.   *)
Slip_Decoded(acc, dec) ==
  LET to(byte, left, mode) == [out |-> acc.out \o byte, left |-> left, mode |-> mode]
      l == acc.left
  IN  CASE acc.mode = 0 -> to(<<>>, dec, 1)
        [] acc.mode = 1 -> to(<<l * 8 + dec \div 4>>, dec % 4, 2)
        [] acc.mode = 2 -> to(<<>>, l * 32 + dec, 3)
        [] acc.mode = 3 -> to(<<l * 2 + dec \div 16>>, dec % 16, 4)
        [] acc.mode = 4 -> to(<<l * 16 + dec \div 2>>, dec % 4, 5)
        [] acc.mode = 5 -> to(<<>>, l * 32 + dec, 6)
        [] acc.mode = 6 -> to(<<l * 4 + dec \div 8>>, dec % 8, 7)
        [] acc.mode = 7 -> to(<<l * 32 + dec>>, l, 0)

Decoded(acc, dec) ==
  LET to(byte, left, mode) == [out |-> acc.out \o byte, left |-> left, mode |-> mode]
      l == acc.left
  IN  CASE acc.mode = 0 -> to(<<>>, dec, 1)
        [] acc.mode = 1 -> to(<<l * 8 + dec \div 4>>, dec % 4, 2)
        [] acc.mode = 2 -> to(<<>>, l * 32 + dec, 3)
        [] acc.mode = 3 -> to(<<l * 2 + dec \div 16>>, dec % 16, 4)
        [] acc.mode = 4 -> to(<<l * 16 + dec \div 2>>, dec % 2, 5)
        [] acc.mode = 5 -> to(<<>>, l * 32 + dec, 6)
        [] acc.mode = 6 -> to(<<l * 4 + dec \div 8>>, dec % 8, 7)
        [] acc.mode = 7 -> to(<<l * 32 + dec>>, l, 0)

Letter(c) == c \in Range(pbase32)

(* decode32_table, which has the capitals too.                             *)
decode32(c) == (CHOOSE n \in DOMAIN pbase32 : pbase32[n] = c) - 1

(* Decoding ends at the first symbol that is no letter.                    *)
DecodeBase32(text) ==
  LET stops == {p \in DOMAIN text : ~ Letter(text[p])}
      n     == IF stops = {} THEN Len(text) ELSE (CHOOSE p \in stops : \A q \in stops : p <= q) - 1
  IN  FoldLeft(LAMBDA a, c : Decoded(a, decode32(c)),
               [out |-> <<>>, left |-> 0, mode |-> 0], SubSeq(text, 1, n)).out
-----------------------------------------------------------------------------
(* Addresses: ip, sixteen bytes.                                           *)

pchIPv4 == <<0, 0, 0, 0, 0, 0, 0, 0, 0, 0, 255, 255>>
pchOnionCat == <<253, 135, 216, 126, 235, 67>>
pchGarliCat == <<253, 96, 219, 77, 221, 181>>
Zeroes(n) == [p \in 1..n |-> 0]

Quad(a, b, c, d) == pchIPv4 \o <<a, b, c, d>>
NoIP == Zeroes(16)

IsIPv4(ip) == IsPrefix(pchIPv4, ip)
IsTor(ip) == IsPrefix(pchOnionCat, ip)
IsI2P(ip) == IsPrefix(pchGarliCat, ip)
IsIPv6(ip) == ~ IsIPv4(ip) /\ ~ IsTor(ip) /\ ~ IsI2P(ip)

IsReserved(ip) == IsIPv4(ip) /\ ip[13] >= 240

IsRFC1918(ip) ==
  IsIPv4(ip) /\ \/ ip[13] = 10
                \/ ip[13] = 192 /\ ip[14] = 168
                \/ ip[13] = 172 /\ ip[14] \in 16..31

IsRFC3927(ip) == IsIPv4(ip) /\ ip[13] = 169 /\ ip[14] = 254
IsRFC3849(ip) == IsPrefix(<<32, 1, 13, 184>>, ip)
IsRFC4862(ip) == IsPrefix(<<254, 128, 0, 0, 0, 0, 0, 0>>, ip)
IsRFC4193(ip) == ip[1] \in {252, 253}
IsRFC4843(ip) == IsPrefix(<<32, 1, 0>>, ip) /\ ip[4] \div 16 = 1
IsLocal(ip) == (IsIPv4(ip) /\ ip[13] \in {0, 127}) \/ ip = Append(Zeroes(15), 1)

(* The first line drops addresses shifted by three bytes.                  *)
IsValid(ip) ==
  /\ ~ IsPrefix(SubSeq(pchIPv4, 4, 12), ip) /\ ip # NoIP /\ ~ IsRFC3849(ip)
  /\ ip \notin {Quad(255, 255, 255, 255), Quad(0, 0, 0, 0)}

IsRoutable(ip) ==
  /\ IsValid(ip)
  /\ ~ (IsReserved(ip) \/ IsRFC1918(ip) \/ IsRFC3927(ip) \/ IsRFC4862(ip) \/ IsRFC4843(ip) \/ IsLocal(ip))
  /\ IsRFC4193(ip) => IsTor(ip) \/ IsI2P(ip)

GetNetwork(ip) ==
  CASE ~ IsRoutable(ip) -> "unroutable"
    [] IsRoutable(ip) /\ IsIPv4(ip) -> "ipv4"
    [] IsRoutable(ip) /\ IsTor(ip) -> "tor"
    [] IsRoutable(ip) /\ IsI2P(ip) -> "i2p"
    [] OTHER -> "ipv6"

EndsIn(text, suffix) == Len(text) > 1 /\ Last(text) = suffix

Special(text, prefix) ==
  LET b == DecodeBase32(Front(text)) IN IF Len(b) = 10 THEN prefix \o b ELSE <<>>

(* <<>> when the text is no such name.  Both kinds get the prefix of Tor.  *)
SetSpecial(text) ==
  CASE EndsIn(text, Onion) -> Special(text, pchOnionCat)
    [] EndsIn(text, Garlic) -> Special(text, pchOnionCat)
    [] OTHER -> <<>>

ToStringIP(ip) ==
  CASE IsTor(ip) -> Append(EncodeBase32(SubSeq(ip, 7, 16)), Onion)
    [] IsI2P(ip) -> Append(EncodeBase32(SubSeq(ip, 7, 16)), Garlic)
    [] OTHER -> CHOOSE text \in DOMAIN NumericText : NumericText[text] = ip
-----------------------------------------------------------------------------
(* Texts: a port behind the last colon, if it is the only one, follows a   *)
(* bracket, or is the first symbol, and if strtol takes all of the rest.   *)
SplitHostPort(text, portDefault) ==
  LET colons == {p \in DOMAIN text : text[p] = ":"}
      colon  == IF colons = {} THEN 0 ELSE CHOOSE p \in colons : \A q \in colons : q <= p
      rest   == SubSeq(text, colon + 1, Len(text))
      fBracketed  == colon > 1 /\ text[1] = "[" /\ text[colon - 1] = "]"
      fMultiColon == colon = 1 \/ \E p \in colons : p < colon
      n == IF rest = <<>> THEN 0
           ELSE IF rest \in DOMAIN PortText THEN PortText[rest] ELSE -1
      taken == colon # 0 /\ (colon = 1 \/ fBracketed \/ ~ fMultiColon) /\ n >= 0
      in    == IF taken THEN SubSeq(text, 1, colon - 1) ELSE text
  IN  [port |-> IF taken /\ n \in 1..65535 THEN n ELSE portDefault,
       host |-> IF in # <<>> /\ in[1] = "[" /\ Last(in) = "]" THEN SubSeq(in, 2, Len(in) - 1) ELSE in]

(* With fAllowLookup a name that is not an address goes to the resolver.   *)
LookupIntern(host, answers) ==
  IF SetSpecial(host) # <<>> THEN {SetSpecial(host)}
  ELSE IF host \in DOMAIN NumericText THEN {NumericText[host]} ELSE answers

Service(ip, port) == [ip |-> ip, port |-> port]

(* CService(text, portDefault), without fAllowLookup.                      *)
NewService(text, portDefault) ==
  LET s  == SplitHostPort(text, portDefault)
      ip == LookupIntern(s.host, {})
  IN  IF text = <<>> \/ ip = {} THEN Service(NoIP, 0) ELSE Service(CHOOSE a \in ip : TRUE, s.port)

(* LookupHost takes the brackets off and knows no port.                    *)
LookupHost(text, answers) ==
  LET host == IF text[1] = "[" /\ Last(text) = "]" THEN SubSeq(text, 2, Len(text) - 1) ELSE text
  IN  IF text = <<>> THEN {} ELSE LookupIntern(host, answers)
-----------------------------------------------------------------------------
(* main, before any thread: a proxy that is no address is left out.        *)
SetProxies(given) ==
  LET s == [net \in DOMAIN given |-> NewService(given[net], 9050)]
  IN  [net \in {x \in DOMAIN s : IsValid(s[x].ip)} |-> s[net]]

NetInit ==
  /\ seed \in SeedTexts
  /\ \E given \in SUBSET {"tor", "ipv4", "ipv6"}, text \in ProxyTexts :
       options = [net \in given |-> text]
  /\ proxies = SetProxies(options) /\ known = {} /\ asked = Nowhere

(* ThreadSeeder, and Add_, which takes only what is routable.              *)
Seed ==
  /\ \E answers \in DnsAnswers :
       LET found == IF EndsIn(seed, Onion) THEN {NewService(seed, DefaultPort)}
                    ELSE {Service(ip, DefaultPort) : ip \in LookupHost(seed, answers)}
       IN  known' = known \cup {s \in found : IsRoutable(s.ip)}
  /\ UNCHANGED <<seed, options, proxies, asked>>

(* ConnectSocket; a direct connection needs a socket address, which only   *)
(* IPv4 and IPv6 have.                                                     *)
ConnectSocket ==
  /\ \E s \in known :
       LET net == GetNetwork(s.ip)
       IN  asked' = IF net \in DOMAIN proxies
                      THEN [how |-> "proxy", by |-> proxies[net], net |-> net, to |-> ToStringIP(s.ip)]
                    ELSE IF IsIPv4(s.ip) \/ IsIPv6(s.ip)
                      THEN [how |-> "direct", net |-> net, to |-> ToStringIP(s.ip)]
                    ELSE Nowhere
  /\ UNCHANGED <<seed, options, proxies, known>>

NetNext == Seed \/ ConnectSocket

NetSpec == NetInit /\ [][NetNext]_netVars
-----------------------------------------------------------------------------
(* A name of sixteen letters, which is what ten bytes come to.             *)
Named(text, suffix) ==
  EndsIn(text, suffix) /\ Len(text) = 17 /\ \A p \in 1..16 : Letter(text[p])

(* A proxy as somebody who writes <ip:port> means it.                      *)
Meant(text) ==
  LET bare == {t \in DOMAIN NumericText : text \in {t, <<"[">> \o t \o <<"]">>}}
      withPort == {<<t, p>> \in (DOMAIN NumericText) \X (DOMAIN PortText) :
                     \/ text = t \o <<":">> \o p /\ ":" \notin Range(t)
                     \/ text = <<"[">> \o t \o <<"]", ":">> \o p}
  IN  {Service(NumericText[t], 9050) : t \in bare} \cup
      {Service(NumericText[x[1]], PortText[x[2]]) : x \in {y \in withPort : PortText[y[2]] \in 1..65535}}

(* main.cpp:497-513, 534-553, netbase.cpp:38-57, 456-486, 530-543: an      *)
(* onion seed is dialled only by a proxy for Tor, by the very name that    *)
(* was given; and where a network was given a proxy as <ip:port>, nothing  *)
(* of that network is dialled but through it.                              *)
DialledAsConfigured ==
  asked # Nowhere =>
    /\ Named(seed, Onion) => asked.net = "tor" /\ asked.how = "proxy" /\ asked.to = seed
    /\ asked.net \in DOMAIN options /\ (\E s \in Meant(options[asked.net]) : IsValid(s.ip)) =>
         asked.how = "proxy" /\ asked.by \in Meant(options[asked.net])

(* netbase.h:47, "for Tor and I2P addresses": a seed that names an I2P     *)
(* address is known as one.                                                *)
GarlicIsGarlic == Named(seed, Garlic) => \A s \in known : GetNetwork(s.ip) = "i2p"
=============================================================================
