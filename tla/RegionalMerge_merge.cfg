SPECIFICATION Spec
CONSTANTS
  Years = 2
  MaxAttempts = 2
  Boxes <- MCBoxes
  Unit = 4
  Cover <- MCCover
  Block <- MCBlock
  Coast <- MCCoast
  ElevatedTiles <- MCElevated
  PolarRows <- MCPolar
  NewLand <- MCNewLand
  Shapes <- MCShapes
INVARIANTS AreaKept NothingOld OrographyWithTiles SheetsArrive
 
CHECK_DEADLOCK FALSE
