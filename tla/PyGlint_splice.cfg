SPECIFICATION Spec
CONSTANTS
  NLon = 4
  NLat = 6
  Lat <- MCLat
  XAxis <- MCXAxis
  YAxis <- MCYAxis
  Down <- MCDown
  UpLat <- MCUpLat
  Elevs <- MCElevs
  BoxArea <- MCBoxArea
  Means <- MCMeans
  Linear <- MCLinear
  Unit = 4
  FracUnit = 2
  topo_mid <- MCTopoMid
  topo_max <- MCTopoMax
  Surfaces <- MCSurfaces
  Thresh = 5
  Excluded <- MCExcluded
CHECK_DEADLOCK FALSE
INVARIANTS OthersKept
