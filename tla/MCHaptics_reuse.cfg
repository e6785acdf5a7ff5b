SPECIFICATION Spec
CONSTANTS
  Sinks = {"pad"}
  Removable = {"pad"}
  Others = {"hidraw0"}
  Sources = {"game"}
  MaxIds = 1
  MaxEffects = 2
  MaxFd = 2
  MaxOneShot = 1
INVARIANTS PlaysOnItsDevice
