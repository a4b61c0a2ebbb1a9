SPECIFICATION Spec
CONSTANTS
  g = g
  c1 = c1
  c2 = c2
  w0 = w0
  w1 = w1
  Gateway = g
  GatewayWriter = gw
  Components <- OneComponent
  Writers <- WritersGC
  ProcOf <- ProcOfGC
  SlotCount = 2
  MaxSends = 1
  StartupBarrier = FALSE
  Closers = {}
INVARIANT ReadsPublished
