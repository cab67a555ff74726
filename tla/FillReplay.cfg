SPECIFICATION Spec
CONSTANTS
  A = A
  B = B
  NoValue = NoValue
  Universe <- MCUniverse
  NSessions = 2
  MaxFills = 2
  Trades <- MCTrades
  Repeats = {1, 3}
  DupPercent = 12
  Window = 2
INVARIANTS
  StreamIsCanonical
  MultisetPreserved
  OvertakingIsBounded
  BitIdentical
  StatsMatch
CHECK_DEADLOCK FALSE
