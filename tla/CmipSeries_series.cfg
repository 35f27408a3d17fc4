SPECIFICATION Spec
CONSTANTS
    Archives <- MCArchives
    Commands <- MCCommands
    Quantities <- MCQuantities
    ReferenceYear <- MCReferenceYear
    Transects <- MCTransects
    Pyproj = TRUE
    Yaml = TRUE
    MaxAttempts = 2
INVARIANTS SeriesAligned SuccessIsComplete ScalarsComplete FailureLeavesWholeFiles AxisOrdered IceGroundedOrFloating
CHECK_DEADLOCK FALSE
