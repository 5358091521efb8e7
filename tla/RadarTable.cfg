SPECIFICATION FairSpec
CONSTANTS
  MaxUavs = 2
  Addresses <- MCAddresses
  Packs <- MCPacks
  MaxPacks = 1
  Timeout = 0
  KeepAlive = 9
  ClockMod = 16
  MaxTime = 2
INVARIANTS
  TypeOK
  UniqueSlot
  SlotInUseHasData
  NoImmortalSlot
PROPERTIES
  CopiedDataIsSenders
  OnlyLastSlotIsStolen
  SilentSlotIsFreed
  ImplementsTracker
