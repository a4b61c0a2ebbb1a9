SPECIFICATION Spec
CONSTANTS
  w = w
  f = f
  none = none
  Senders = {w, f}
  Watchdog = w
  Unknown = none
  Interval = 2
  MaxMoves = 3
  MaxFrames = 5
INVARIANTS NoMissedChange LastIsLatest ResyncsBounded
