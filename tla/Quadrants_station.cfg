SPECIFICATION Spec
CONSTANTS
  w = w
  f = f
  none = none
  Senders = {w, f}
  Watchdog = w
  Unknown = none
  Interval = 2
  MaxMoves = 2
  MaxFrames = 5
INVARIANTS StationStays
