SPECIFICATION Spec
CONSTANTS
  s1 = s1
  s2 = s2
  s3 = s3
  p1 = p1
  p2 = p2
  Session = {s1, s2, s3}
  Proc = {p1, p2}
  Pool <- Pools
  Size = {1, 2}
  MaxPort = 4
  None = None
SYMMETRY Symmetry
INVARIANTS NoOverlapUnlessRaced LedgerKnowsRunning LedgerDisjoint ExhaustionIsReal
