SPECIFICATION Spec
CONSTANTS
  n1 = n1
  n2 = n2
  r1 = r1
  r2 = r2
  Node = {n1, n2}
  Revision = {r1}
  Deployment = {d1}
  Rank <- MCRank
  DhcpOwner <- MCDhcpOwner
  Covers <- MCCovers
  MaxTargets = 2
  MaxStarts = 1
  Calls = {"deploy", "cancel", "updateNode", "removeNode", "maintenance"}
  Faults = {"node", "restart", "edit"}
  None = None
  Foreign = Foreign
CHECK_DEADLOCK FALSE
PROPERTIES
  DeploymentTerminates
