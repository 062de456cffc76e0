SPECIFICATION Spec
CONSTANTS
  c1 = c1
  e1 = e1
  e2 = e2
  Channel = {c1}
  Event = {e1, e2}
  EventType = {"dns.failed"}
  MaxAttempts = 2
  Calls = {"channel", "policy", "test", "clear", "prune", "maintenance"}
  Faults = {"post", "repository", "restart"}
  None = None
CHECK_DEADLOCK FALSE
INVARIANTS
  PostsMatchRows
PROPERTIES
  SentIsFinal
  ImplementsOutbox
  
