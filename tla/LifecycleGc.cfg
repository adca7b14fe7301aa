CONSTANTS
  Procs = {p1}
  Commands = {"new", "gc"}
  MaxProxies = 2
  MaxCommands = 2
SPECIFICATION Spec
CHECK_DEADLOCK FALSE
PROPERTY PlainGcKeepsBranch
