SPECIFICATION Spec
CONSTANTS
  n1 = n1
  n2 = n2
  r1 = r1
  r2 = r2
  Node = {n1, n2}
  Revision = {r1, r2}
  Deployment = {d1, d2}
  Rank <- MCRank
  DhcpOwner <- MCDhcpOwner
  Covers <- MCCovers
  MaxTargets = 2
  MaxStarts = 1
  Calls = {"deploy", "cancel", "delete"}
  Faults = {"repository", "node", "restart"}
  None = None
  Foreign = Foreign
SYMMETRY Symmetry
CHECK_DEADLOCK FALSE
INVARIANTS
  TypeOK
  OneActiveDeployment
  SequentialStopOnFailure
  OutcomeMatchesTasks
  NeverReplayed
  CancelStopsRollout
PROPERTIES
  ActivationVerified
  TerminalIsFinal
  DhcpDisabledBeforeEnabled
