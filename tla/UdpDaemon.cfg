SPECIFICATION DaemonSpec
CONSTANTS
  k1 = k1
  k2 = k2
  q1 = q1
  q2 = q2
  Key = {k1, k2}
  Request = {q1, q2}
  Max = 1
  QueueLen = 2
  MaxPackets = 3
  Saveable <- MCSaveable
INVARIANTS OnePlace HeldBounded
PROPERTIES AllDecided ReleasedByItsOwnAllow JudgedByLastSave ImplementsFlowGate
CHECK_DEADLOCK FALSE
