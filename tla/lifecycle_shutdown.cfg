SPECIFICATION Spec
CONSTANTS
  Agents = {a1, a2}
  Instances = {i1, i2}
  Tasks = {t1}
  None = None
  MaxRetries = 1
  Strategies = {"RETRY_WITH_BACKOFF"}
  HasBackoff = {TRUE}
  Controls = {"shutdown"}
  MaxStarts = 2
PROPERTY ShutdownStopsAll
CHECK_DEADLOCK FALSE
