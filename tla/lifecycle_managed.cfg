SPECIFICATION FairSpec
CONSTANTS
  Agents = {a1, a2}
  Instances = {i1, i2}
  Tasks = {t1, t2}
  None = None
  MaxRetries = 2
  Strategies = {"RETRY_WITH_BACKOFF", "ESCALATE", "FAIL"}
  HasBackoff = {TRUE, FALSE}
  Controls = {"start", "pause", "resume", "stop", "complete", "shutdown", "cancel"}
  MaxStarts = 4
INVARIANTS
  PauseEventAgrees
  OneRunPerAgent
  AttemptsWithinBudget
  DriftWithinRetries
PROPERTIES
  EveryRunEnds
  StopEndsTheRun
