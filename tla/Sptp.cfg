SPECIFICATION FairSpec
CONSTANTS
  w = w
  f1 = f1
  q0 = q0
  q1 = q1
  none = none
  Watchdog = w
  Unknown = none
  Forwarders = {f1}
  Quadrants = {q0, q1}
  RsuQuadrants = {q0, q1}
  Poll = 2
  Silence = 4
  MaxDelay = 1
  SeqMod = 3
  EpochMod = 2
  MaxMoves = 1
INVARIANTS SilenceBound RightWhileParked
PROPERTIES KeepsSynchronised
