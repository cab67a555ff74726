SPECIFICATION FairSpec
CONSTANTS
  NInstruments = 2
  NSessions = 3
  GapEvery = 3
  GapShockMultiplier = 3
  VolFloor = 1
  VolCap = 4
  DT = 2
  MaturityFloor = 1
  ClosedForm <- MCClosedForm
  Coefficient <- MCCoefficient
  Theta <- MCTheta
  Roughness <- MCRoughness
  Moved <- MCMoved
  Listings <- MCListings
  Draws <- MCDraws
  DirectCalls <- MCDirectCalls
INVARIANTS
  MarketStaysPriced
  ExpiredMovesAreDelta
  ResidualIsWhatTaylorOmits
  PnlTelescopes
  SummaryHidesNothing
  ShocksStayInGapSessions
  RowsBelongToTheirMoves
  DiscrepancyIsVanna
PROPERTIES
  BatchSpec
  EveryMoveOrException
CHECK_DEADLOCK FALSE
