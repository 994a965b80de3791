CONSTANTS
  Installers = {i1, i2, i3}
  Apps = {a}
  Versions = {v1, v2}
  MaxKills = 1
  MaxReplaced = 1
SPECIFICATION Spec
SYMMETRY Symmetry
CHECK_DEADLOCK FALSE
INVARIANTS TypeOK RunsOwnTree PairAgrees
PROPERTIES RunningStays InstallationKept NoForceKeeps
