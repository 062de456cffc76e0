SPECIFICATION Spec
CONSTANTS
  n1 = n1
  s1 = s1
  s2 = s2
  u1 = u1
  None = None
  Node = {n1}
  Slot = {s1, s2}
  Upgrade = {u1}
  MaxVersion = 2
  MaxRecord = 4
  MaxSettings = 1
  MaxChanges = 1
  Faults = {"repository", "restart"}
SYMMETRY Symmetry
INVARIANTS
  DisabledIsDisabled
  
PROPERTIES
  ReturnOnCurrentEvidence
CHECK_DEADLOCK FALSE
