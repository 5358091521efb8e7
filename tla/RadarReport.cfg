SPECIFICATION FairSpec
CONSTANTS
  MaxUavs = 1
  Addresses <- TwoAddresses
  Packs <- MCPacks
  MaxPacks = 1
  Timeout = 1
  KeepAlive = 9
  ClockMod = 16
  MaxTime = 2
PROPERTIES
  DetectedIsReported
