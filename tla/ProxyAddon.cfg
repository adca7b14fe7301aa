SPECIFICATION FairSpec
CONSTANTS
  f1 = f1
  f2 = f2
  f3 = f3
  r1 = r1
  r2 = r2
  r3 = r3
  Flow = {f1, f2, f3}
  Unaddressed = {f3}
  RuleId = {r1, r2}
  Body <- MCBody
  Seed <- MCSeed
  None = None
INVARIANTS TypeOK HeldIsTracked OneDecider FileMatchesStore
PROPERTIES HeldIsDecided FailsClosed DenyWins ImplementsFlowGate
