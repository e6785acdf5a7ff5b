SPECIFICATION Spec
CONSTANTS
  Sinks = {"pad", "wheel"}
  Removable = {"pad"}
  Others = {"hidraw0"}
  Sources = {"game"}
  MaxIds = 1
  MaxEffects = 2
  MaxFd = 2
  MaxOneShot = 2
INVARIANTS SlotsAreCurrent NoEffectLeak
PROPERTY PlaySounds
