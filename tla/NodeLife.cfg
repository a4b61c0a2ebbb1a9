CONSTANTS
  Count = 2
  SlotCount = 1
  MaxFrames = 2
  MaxFaults = 1
SPECIFICATION FairSpec
CHECK_DEADLOCK FALSE
INVARIANTS NoLostWakeup OneLateUpdate RingOutlivesUsers
PROPERTIES ShutsDown
