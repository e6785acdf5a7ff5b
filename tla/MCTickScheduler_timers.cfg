SPECIFICATION FairSpec
CONSTANTS
  Keys = {k1, k2}
  NoKey = NoKey
  MaxFd = 3
INVARIANTS OneTimerPerKey CallbacksAreWatched
PROPERTIES ImplementsTimers LeftAloneKeepsTicking
