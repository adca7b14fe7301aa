SPECIFICATION Spec
CONSTANTS
  s1 = s1
  s2 = s2
  c1 = c1
  c2 = c2
  Port = {1, 2}
  Stmt = {s1, s2}
  Within <- Apart
  Call = {c1, c2}
  MaxIds = 2
  None = None
INVARIANTS RulesMatchEntries ChainMatchesEntries
