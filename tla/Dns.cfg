SPECIFICATION MCSpec
CHECK_DEADLOCK FALSE
CONSTANTS
  t1 = t1
  t2 = t2
  a4 = a4
  b4 = b4
  a6 = a6
  f1 = f1
  f2 = f2
  Bare = Bare
  DnsThread = {t1, t2}
  MaxFaults = 1
  IPv4 = {a4, b4}
  IPv6 = {a6}
  Filters = {f1, f2}
  filterWhitelist = {f1}
  MaxMany = 2
  HitRate = 3
  SoftRate = 1
  SoftAge = 1
  Datagram <- MCDatagram
  Opts <- MCOpts
  Counts = {0, 2, 32}
  Questions = {30, 168, 188, 189, 489}
  MaxLabel = 2
  bufsize = 4
  Bytes = {0, 1, 2, 3, 46, 97, 192}
  MaxQuery = 5
  Starts = {0, 2}
  Texts <- MCTexts
INVARIANTS
  EveryThreadHears
  CacheIsSample
  ScanEnds
  FullAnswer
  FewLateAnswers
  AuthorityKept
  LengthIsRecords
  NameStaysInside
  NameComesBack
PROPERTIES
  NetsCatchUp
  CacheTurnsOver
