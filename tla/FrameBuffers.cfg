SPECIFICATION FairSpec
CONSTANTS
  l1 = l1
  r1 = r1
  s1 = s1
  j1 = j1
  t1 = t1
  b1 = b1
  b2 = b2
  b4 = b4
  b5 = b5
  LocalFrames = {l1}
  RemoteFrames = {r1}
  SptpFrames = {s1}
  JunkFrames = {j1}
  Kept = {r1}
  Senders = {t1}
  ShmPool = {b1, b2}
  RawPool = {b4, b5}
  Capacity = 1
INVARIANTS BuffersOwned MessagesOwned BridgedOnce
PROPERTIES LostOnlyEarly ReceiversReturn
CHECK_DEADLOCK FALSE
