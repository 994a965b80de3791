SPECIFICATION Spec
CONSTANTS
  MaxHops = 3
  Host = "t1"
  MaxEdits = 1
  Jobs <- AllJobs
  Nodes <- Edited
CHECK_DEADLOCK FALSE
INVARIANTS
  TypeOK
  ServedOrUnavailable
  EveryPlatformReads
PROPERTIES
  NotClobbered
