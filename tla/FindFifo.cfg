SPECIFICATION BootSpec
CONSTANTS
  a1 = a1
  a2 = a2
  NoAddr = NoAddr
  c1 = c1
  Free = Free
  Addr = {a1, a2}
  Crawler = {c1}
  Routable = {a1, a2}
  DefaultPort = {a1, a2}
  Seeds = {a1}
  Rumours <- ForkRumour
  Hellos <- MCHellos
  Verdicts <- MCVerdicts
  Garbage = {}
  MaxBatch = 2
  MinRetry = 1
  IgnoreTime = 1
  BanTime = 2
  NodeBan = 1
  Grace = 1
  MinSamples = 0
  BanSamples = 1
  MaxTotal = 2
  MaxId = 3
  MaxTime = 3
  MaxBoots = 1
  MaxDumps = 1
  OptionSets = {{}}
  MayFail = FALSE
INVARIANT
  FrontDecides
