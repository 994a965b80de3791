SPECIFICATION Spec
CONSTANTS
  MaxHops = 3
  Host = "t1"
  MaxEdits = 0
  Jobs <- LinkJobs
  Nodes <- Edited
CHECK_DEADLOCK FALSE
INVARIANTS
  GroupLinksWork
