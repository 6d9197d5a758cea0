SPECIFICATION Spec
CONSTANTS
  Agents = {a1}
  Instances = {i1, i2}
  Tasks = {t1, t2}
  None = None
  MaxRetries = 1
  Strategies = {"RETRY_WITH_BACKOFF", "ESCALATE", "FAIL"}
  HasBackoff = {TRUE, FALSE}
  Controls = {"start", "pause", "resume", "stop", "complete", "restart", "report_error", "unregister", "shutdown", "cancel"}
  MaxStarts = 2
SYMMETRY Interchangeable
INVARIANTS
  TypeOK
PROPERTIES
  OrphansStayDead
  ImplementsContract
