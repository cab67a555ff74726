SPECIFICATION Spec
CONSTANTS
  W = W
  NoValue = NoValue
  SomePrice = SomePrice
  Universe <- MCUniverse
  NSessions = 2
  MaxActions = 2
  Volumes <- MCVolumes
  Changes <- MCChanges
  Repeats = {1, 3}
  DupPercent = 25
  Window = 3
INVARIANTS
  BlotterIsCanonical
  BitIdentical
  ResultIsOpenBook
  StatsMatch
CHECK_DEADLOCK FALSE
