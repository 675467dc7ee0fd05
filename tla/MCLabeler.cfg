CONSTANTS
  Jobs = {1, 2, 3, 4}
  Equivalent <- MCEquivalent
  QueueSize = 2
  WorkerCount = 2
SPECIFICATION LabelerSpec
CHECK_DEADLOCK FALSE
INVARIANTS LabelerTypeOK JobConservation CloseDrains
PROPERTIES EveryAcceptedJobLabelled CloseTerminates
