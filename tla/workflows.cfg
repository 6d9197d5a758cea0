SPECIFICATION FairSpec
CONSTANTS
  Roots = {r1}
  MaxKids = 5
  None = None
  Plans <- MCPlans
  Kind <- MCKind
  Programs <- MCPrograms
  Parts <- MCParts
  MaxRounds = 2
  MaxRuns = 2
  MaxLeft = 1
INVARIANTS OneIdPerRun AwaitedOrCancelled VerdictAgrees
PROPERTIES EveryTaskEnds ImplementsContract
CHECK_DEADLOCK FALSE
