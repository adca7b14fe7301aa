CONSTANTS
  p1 = p1
  p2 = p2
  Procs = {p1, p2}
  Commands = {"new", "bare", "task", "attach", "stop", "rm", "gc", "gcAll", "tuiStop", "tuiRemove", "tuiAttach"}
  MaxProxies = 3
  MaxCommands = 3
SPECIFICATION Spec
CHECK_DEADLOCK FALSE
INVARIANTS RecordedBoxGated RecordedBoxHasRange CleanupLeavesOnlyFailures OneOwner
CONSTRAINT OneOrTwoCreators
SYMMETRY Interchangeable
