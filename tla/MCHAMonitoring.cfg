SPECIFICATION Spec
CONSTANTS
  Node = {n1}
  MinServing = 1
  n1 = n1
  Snapshot <- MCSnapshot
  Tries = 2
  MaxVersion = 2
  MaxChanges = 2
  Calls = {"refresh", "nodes", "tls", "release"}
  Faults = {"dns", "api", "age", "repository", "cancel", "restart"}
PROPERTIES
  
  RedundancyAnnounced
  
  VersionAnnounced
\* With every node disabled a pass does nothing.
CHECK_DEADLOCK FALSE
