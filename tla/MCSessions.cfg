SPECIFICATION Spec
CONSTANTS
  User = {u1, u2}
  Session = {a, b}
  Challenge = {c1, c2}
  Slot = {q1, q2}
  Code = {k1}
  MaxFailures = 2
  MaxGeneration = 2
  None = None
SYMMETRY Symmetry
INVARIANTS AdministratorRemains DisabledHasNoSession FactorUsedOnce
 
CHECK_DEADLOCK FALSE
