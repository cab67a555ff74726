SPECIFICATION FairSpec
CONSTANTS
  W = W
  G = G
  d1 = d1
  d2 = d2
  e1 = e1
  NoValue = NoValue
  Messages <- MCMessages
  Streams <- MCStreams
  Required <- Columns
INVARIANTS
  TypeOK
  DeliveredIsStored
  RebuildIsReference
  FinalIsNetOpenVolume
PROPERTIES
  LedgerSpec
  CallsReturn
