SPECIFICATION Spec
CONSTANTS
  NodeCount = 2
  Slot = {k1, k2}
  fleet = fleet
  reset = reset
  FleetInput = {fleet}
  DhcpInput = {reset}
  Scope <- MCScope
  DhcpNode <- MCDhcpNode
  MaxStarting = 1
  Faults = {"repository", "node", "payload", "restart", "manage"}
  None = None
CHECK_DEADLOCK FALSE
INVARIANTS
  CalledAtMostOnce
  OutcomeMatchesResults
PROPERTIES
  EndedIsFinal
  FleetCommandEnds
