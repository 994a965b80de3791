SPECIFICATION FairSpec
CONSTANTS
  w1 = w1  w2 = w2  k1 = k1  u1 = u1  u2 = u2  n1 = n1  c1 = c1  c2 = c2
  NoKey = NoKey  NoUrl = NoUrl
  Windows = {w1}
  Keys = {k1}
  MainKey = k1
  Urls = {u1}
  Names = {n1}
  Calls = {c1}
  Policies <- MCPolicies
  Capacity = 1
  MaxDelay = 2
  MaxNatives = 2
INVARIANTS
  OneLiveNative
  NoneLeftBehind
  AnsweredOnce
PROPERTIES
  ExportedStays
  ShowIsHonoured
  HiddenIsReleased
  CallsAreAnswered
