SPECIFICATION Spec
CONSTANTS
  a = a
  b = b
  s = s
  t = t
  p = p
  q = q
  Conv = {a, b}
  Session = {s, t}
  Proc = {p, q}
  MaxVer = 2
  Link = Link
  Torn = Torn
  Loop = Loop
SYMMETRY Symmetry
CONSTRAINT FewMishaps
INVARIANTS KeptUnlessResumed SavedWhenDone
