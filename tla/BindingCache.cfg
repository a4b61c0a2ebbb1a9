SPECIFICATION FairSpec
CONSTANTS
  a1 = a1
  a2 = a2
  q0 = q0
  q1 = q1
  Remote = {a1, a2}
  Local = {}
  Periods = {1, 3}
  LifetimeMin = 2
  Factor = 1
  ReaperPeriod = 1
  Capacity = 1
  Quadrants = {q0, q1}
  MaxFrames = 3
  MaxMoves = 1
  MaxSteps = 1
INVARIANTS ThreadFollowsBindings LeaseBounded
PROPERTIES InterestKept EventuallySilent HandlerReturns
CHECK_DEADLOCK FALSE
