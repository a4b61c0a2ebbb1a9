SPECIFICATION Spec
CONSTANTS
  c1 = c1
  c2 = c2
  Consumers = {c1, c2}
  Period <- FastAndSlow
  Stations = {TRUE, FALSE}
  Refresh = 2
  LifetimeMin = 7
  Factor = 4
  ReaperPeriod = 2
  Repeat = 3
  Lease = 8
  Ages = {0, 6}
  TtlFactor = 3
  MaxFaults = 1
INVARIANTS SilenceBounded StaysFresh StopsInTime
