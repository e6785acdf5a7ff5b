SPECIFICATION FairSpec
CONSTANTS
  Devices <- ThreeDevices
  HasOutputs = TRUE
PROPERTY SignalTerminates
CHECK_DEADLOCK FALSE
