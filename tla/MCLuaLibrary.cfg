SPECIFICATION LibraryFairSpec
CONSTANTS
  Buttons = {"a", "b"}
  NoButton = "none"
  Thresholds = {1, 2}
  Patterns <- LPatterns
  MaxPatterns = 2
  MaxPresses = 4
  max_slots = 2
  MaxTid = 3
  BtnId = "BTN"
  MouseButtons = {"left", "right"}
  Codes <- KCodes
  Mods <- KMods
  Identity <- KMods
  normal_map <- KNormal
  modifier_map <- KModifier
  fn_map <- KFn
  FN_CODE = "KEY_FN"
INVARIANTS LibraryTypeOK ClicksAreTold TickerRuns ContactsAgree ButtonsFollow NoStuckKeys  FnIsHeld
PROPERTIES  ClickEnds SequenceMatches TimeoutFiresOnce SequenceEnds
