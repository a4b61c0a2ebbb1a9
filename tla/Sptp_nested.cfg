SPECIFICATION Spec
CONSTANTS
  w = w
  f1 = f1
  q0 = q0
  q1 = q1
  none = none
  Watchdog = w
  Unknown = none
  Forwarders = {}
  Quadrants = {q0, q1}
  RsuQuadrants = {q0, q1}
  Poll = 2
  Silence = 4
  MaxDelay = 1
  SeqMod = 4
  EpochMod = 3
  MaxMoves = 1
INVARIANTS
  PairedRight
