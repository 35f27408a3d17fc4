SPECIFICATION Spec
CONSTANTS
  NJ = 4
  NI = 5
  TemBathy <- MCTemBathy
  TemIsf <- MCTemIsf
  ShelfPoints <- MCShelfPoints
  PointsOf <- MCPointsOf
  Mapped <- MCMapped
  South <- MCSouth
  IceLand <- MCIceLand
  Script = "global with halo"
  Thresh = 2
  MinDepIsf = 5
  MinCav = 5
  TopOpen = 6
  BathyThreshold <- MCBathyThreshold
  MeltScript = "nemo4.2"
  OceanMasks = TRUE
  Rate <- MCRate
  Area <- MCArea
  Grid <- MCGrid
  Outside <- MCOutside
  Corner <- MCCorner
  OtherCorner <- MCOtherCorner
  Weight <- MCWeight
  HowFar <- MCHowFar
  Years = 2
  Months = 2
  MaxAttempts = 2
  Coupled = {"GrIS", "AIS"}
  Melange <- MCMelange
  Inactive = {}
  Home <- MCHome
  Volumes = {0, 2}
  IceTstepMultiply = 1
  HaloStripped = FALSE
  AsFound <- MCAsFound
INVARIANTS TakenOnce SurfaceKept BergsOnWater GroundIsGround MeltOfTheYear
CHECK_DEADLOCK FALSE
