SPECIFICATION FairSpec
CONSTANTS
  BasicIDs = 2
  AuthPages = 2
  PackMax = 2
  Incoming <- mcIncoming
  IncomingPacks <- mcPacks
  MaxSeq = 3
INVARIANTS TypeOK OneSlotPerIdType SentWasReceived HeldPackIsDecodable
PROPERTY ValidIsSent
