SPECIFICATION Spec
CONSTANTS
  ny = 2
  Layouts <- MCLayouts
  nelev = 2
  nsmax = 2
  Fractions <- MCFractions
  MassBalances <- MCMassBalances
  Snowfalls <- MCSnowfalls
  coupling_period = 2
  LayerMass = 3
  LayerDepth = 4
  Years = 2
  MaxAttempts = 2
INVARIANTS OnlySnowOnIce StandardPack MeanOfItsTiles
CHECK_DEADLOCK FALSE
