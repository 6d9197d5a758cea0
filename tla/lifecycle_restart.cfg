SPECIFICATION Spec
CONSTANTS
  Agents = {a1}
  Instances = {i1}
  Tasks = {t1}
  None = None
  MaxRetries = 1
  Strategies = {"RETRY_WITH_BACKOFF"}
  HasBackoff = {TRUE}
  Controls = {"pause", "restart"}
  MaxStarts = 2
INVARIANT BlockedOnlyWhilePaused
CHECK_DEADLOCK FALSE
