SPECIFICATION FairSpec
CONSTANTS
  Threads = {t1, t2, t3}
  Readings = {1, 2}
  MaxStamps = 3
INVARIANTS StrictlyIncreasing NeverBehindReading
PROPERTY LockFree
