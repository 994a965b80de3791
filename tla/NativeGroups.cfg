SPECIFICATION FairSpec
CONSTANTS
  p1 = p1  p2 = p2  p3 = p3  a = a  b = b
  Procs = {p1, p2, p3}
  Paths = {a, b}
  Path <- TwoAndOne
  Indexable = {b}
  MaxCalls = 3
  MaxDamages = 1
INVARIANTS
  ReadyIsComplete
PROPERTIES
  GroupsStay
  PreparationEnds
