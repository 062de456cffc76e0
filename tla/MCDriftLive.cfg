SPECIFICATION DriftSpec
CONSTANTS
  n1 = n1
  n2 = n2
  r1 = r1
  r2 = r2
  Node = {n1, n2}
  Revision = {r1, r2}
  Deployment = {d1, d2, d3}
  DriftId = {e1, e2}
  StartRevision = {r1}
  StartPolicy = {"enforce"}
  Rank <- MCRank
  DhcpOwner <- MCDhcpOwner
  Covers <- MCCovers
  MaxTargets = 2
  MaxStarts = 1
  Calls = {}
  Faults = {}
  None = None
  Foreign = Foreign
CHECK_DEADLOCK FALSE
PROPERTIES
  DriftIsRepaired
