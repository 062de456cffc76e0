SPECIFICATION DriftSpec
CONSTANTS
  n1 = n1
  n2 = n2
  r1 = r1
  r2 = r2
  Node = {n1}
  Revision = {r1}
  Deployment = {d1}
  DriftId = {e1}
  StartRevision = {r1}
  StartPolicy = {"enforce"}
  Rank <- MCRank
  DhcpOwner <- MCDhcpOwner
  Covers <- MCCovers
  MaxTargets = 1
  MaxStarts = 1
  Calls = {"deploy", "restore", "delete", "removeNode", "maintenance", "policy"}
  Faults = {"repository", "node", "restart"}
  None = None
  Foreign = Foreign
CHECK_DEADLOCK FALSE
INVARIANTS
  EnforcementTargetsDrift
PROPERTIES
  ResolvedOnlyByObservation
