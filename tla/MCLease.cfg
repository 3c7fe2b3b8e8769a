\* Heartbeats in time, ticks that end before the next one starts.
SPECIFICATION LiveSpec
CONSTANTS
  p1 = p1
  p2 = p2
  Pod = {p1, p2}
  Slot = {tick}
  Handle = {lease}
  Skew <- Clocks
  MaxSkew = 1
  TTL = 3
  MaxDelay = 1
  MaxSilence = 1
  None = None
INVARIANTS
  IInv
  OneWatcher
PROPERTIES
  ActiveIsWatched
  InactiveIsUnwatched
