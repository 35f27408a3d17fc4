SPECIFICATION AdjustSpec
CONSTANTS
  dzsnow <- MCdzsnow
  glimmer_ice_density <- MCice_density
  Packs <- MCPacks
  IcePack <- MCIcePack
  Fracs <- MCFracs
  Anomalies <- MCAnomalies
  MaxYears = 2
  Densities = {4,9}
  Thin = {0,1,4}
  Given2 = {0,1,4}
  Taken2 = {1,3}
INVARIANTS LayersRegular
PROPERTIES LayeredBudgetKept ProfileKept
CHECK_DEADLOCK FALSE
