SPECIFICATION Spec
CONSTANTS
  Nodes = {n1}
  Values = {good, bad}
  Invalid = {bad}
  Ids = {r1, r2}
  Deployments = {d1, d2}
  Requests = {q1, q2}
  MaxVersion = 4
  MaxChanges = 2
  None = None
SYMMETRY Symmetry
INVARIANTS
  ReferencesExist
PROPERTIES
  NumbersNeverReused
  PublishedAsReviewed
  NoLostEdit
CHECK_DEADLOCK FALSE
