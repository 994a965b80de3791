SPECIFICATION FairSpec
CONSTANTS
  p1 = p1  p2 = p2  k1 = k1  s1 = s1  s2 = s2  z1 = z1  z2 = z2
  Procs = {p1, p2}
  Keys = {k1}
  Sizes = {s1, s2}
  Factors = {z1, z2}
  One = z1
  None = None
  MaxEdits = 3
  MaxFaults = 1
INVARIANTS
  NothingForgotten
  RestoredZoomUndone
PROPERTIES
  OnlyOwnEdits
  LastEditIsSaved
  PendingIsSaved
