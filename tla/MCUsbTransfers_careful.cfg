SPECIFICATION FairSpec
CONSTANTS
  Devices = {"dac", "mic"}
  Transfers = {t1, t2}
  NoTransfer = NoTransfer
  NoDevice = NoDevice
  MaxAttach = 2
  Careful = TRUE
INVARIANTS FlyingIsCurrent NoUseAfterFree LeaksOnlyWithDevice
PROPERTY UnplugIsNoticed
