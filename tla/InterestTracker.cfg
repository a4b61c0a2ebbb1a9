SPECIFICATION Spec
CONSTANTS
  a1 = a1
  a2 = a2
  a3 = a3
  v1 = v1
  v2 = v2
  u1 = u1
  u2 = u2
  Vehicles = {v1, v2}
  Units = {u1, u2}
  Addrs = {a1, a3}
  VehicleOf <- OnOneEach
  Lease = 3
  Repeat = 2
  SyncPeriod = 2
  Poll = 1
  MaxLosses = 1
  MaxHeard = 2
  MaxMoves = 2
INVARIANTS RegisteredArePresent ForgottenInTime ToldWhatIsActive
PROPERTIES DropsOnlySilent NeverTakenForGone
