CONSTANTS
  NotANumber = NotANumber
  Vecs = {"near", "far", "nan"}
  IdSets = {1, 2}
  Sim <- MCSim
  Threshold = 50
  Delta <- MCDelta
  NMin = 1
  Capacity = 3
  ObsWindow = 2
  ParThreshold = 2
  Workers = 2
  GridSize = 2
  Scale = 4
  Faces = 2
  MaxRecords = 5
SPECIFICATION ReplaySpec
CHECK_DEADLOCK FALSE
INVARIANTS ReplayTypeOK ScanIsSerial WindowIsMostRecent ListIsNewestInserted ServedWereTested
