SPECIFICATION Spec
CONSTANTS
  Wti = Wti
  Near = Near
  Far = Far
  NoValue = NoValue
  Commodities <- MCCommodities
  Universe <- MCUniverse
  NSessions = 2
  Grid <- MCGrid
  BaseCurve <- MCBaseCurve
  LevelDraws <- MCLevelDraws
  ShapeDraws <- MCShapeDraws
  Scale = 4
  MaxActions = 2
  Volumes <- MCVolumes
  Changes <- MCChanges
  CommodityOf <- MCCommodityOf
  InitialTenor <- MCInitialTenor
  Spreads <- MCSpreads
INVARIANTS
  LevelIsParallelMove
  FullyExplained
  VolumesAreNetPositions
  PnlAddsUp
