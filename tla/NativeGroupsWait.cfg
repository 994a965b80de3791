SPECIFICATION Spec
CONSTANTS
  p1 = p1  p2 = p2  p3 = p3  a = a  b = b
  Procs = {p1, p2}
  Paths = {a, b}
  Path <- OneEach
  Indexable = {a, b}
  MaxCalls = 2
  MaxDamages = 0
INVARIANTS
  NoMutualWait
