SPECIFICATION MCSpec
CHECK_DEADLOCK FALSE
CONSTANTS
  Script <- MCScript
  ConnectTime = 1
  Timeout = 2
  MaxAddr = 2
  MaxElapsed = 0
  SeedTexts <- MCSeedTexts
  ProxyTexts <- MCProxyTexts
  NumericText <- MCNumericText
  PortText <- MCPortText
  DnsAnswers <- MCDnsAnswers
  DefaultPort = 8333
  Byte = {0, 1}
  MaxChunk = 2
  MaxVector = 4
  MAX_SIZE = 33554432
  Block = 2
  Sizes = {0, 1, 2, 3, 4, 252, 253, 254, 65535, 65536, 33554432, 33554433}
  Odd <- MCOdd
  MaxHave = 5
  Unit = 5000
  Decay <- MCDecay
  First = 1000
  Ages = {1000, 4920, 86400}
  Quick = {1000, 4920}
  MaxTests = 36
  MaxTurns = 2
INVARIANTS
  GoodWasHeard
  SentInOrder
  ClosedAtEnd
  FramingIgnoresCuts
  DialledAsConfigured
  ReadIsWhole
  MemoryFollowsData
  VerdictsSound
  QuickPollsCount
PROPERTIES
  StreamIsQueue
  EverySessionEnds
