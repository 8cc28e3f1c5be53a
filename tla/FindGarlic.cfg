SPECIFICATION NetSpec
CHECK_DEADLOCK FALSE
CONSTANTS
  SeedTexts <- MCSeedTexts
  ProxyTexts <- MCProxyTexts
  NumericText <- MCNumericText
  PortText <- MCPortText
  DnsAnswers <- MCDnsAnswers
  DefaultPort = 8333
INVARIANT GarlicIsGarlic
