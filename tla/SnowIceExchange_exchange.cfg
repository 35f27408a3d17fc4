SPECIFICATION ExchangeSpec
CONSTANTS
  dzsnow <- MCdzsnow
  glimmer_ice_density <- MCice_density
  Packs <- MCPacks
  IcePack <- MCIcePack
  Fracs <- MCFracs
  Anomalies <- MCNothing
  MaxYears = 2
  Cells <- MCCells
  Thicknesses <- MCThicknesses
  Balances <- MCBalances
  Neighbours <- MCNeighbours
  Nearness <- MCNearness
  depth_snow2ice <- MCdepth
  min_thck <- MCmin_thck
  water_to_ice <- MCwater_to_ice
  IceSteps = 1
PROPERTY ExchangeKeepsMass
CHECK_DEADLOCK FALSE
