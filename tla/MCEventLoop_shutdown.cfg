SPECIFICATION FairSpec
CONSTANTS
  Devices <- ThreeDevices
  HasOutputs = TRUE
INVARIANTS NeverWaitsClosed CleanShutdown
PROPERTY StopEndsLoop
CHECK_DEADLOCK FALSE
