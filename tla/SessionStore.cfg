SPECIFICATION StoreSpec
CONSTANTS
  n1 = n1
  n2 = n2
  n3 = n3
  p1 = p1
  p2 = p2
  p3 = p3
  Name = {n1, n2, n3}
  Proc = {p1, p2, p3}
  MaxSaves = 3
INVARIANT BystandersKept
CHECK_DEADLOCK FALSE
SYMMETRY Interchangeable
