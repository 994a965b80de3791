SPECIFICATION FairAll
CONSTANTS
  p1 = p1  p2 = p2  a = a  b = b  v1 = v1  v2 = v2
  Procs = {p1, p2}
  Contents = {a, b}
  Content <- Upgrade
  MaxStamp = 2
  MaxKills = 1
  Lingering = {p1}
  Runtimes = {v1, v2}
  Runtime <- Versions
INVARIANTS
  InUseStays
  WritesSurvive
  CurrentIsSource
  CompiledStays
PROPERTIES
  CleanSparesPath
  OpenReclaims
