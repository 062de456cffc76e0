SPECIFICATION Spec
CONSTANTS
  MaxTime = 4
  PageSize = 1
  MaxPages = 2
  Overlap = 1
  Retention = 2
  CleanupLimit = 2
  MaxChanges = 2
  Worker = worker
  Requested = {request}
  None = None

  
PROPERTIES
  
  
  CoverageRecovers
CHECK_DEADLOCK FALSE
