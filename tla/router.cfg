SPECIFICATION Spec
CONSTANTS
  m1 = m1  m2 = m2
  Messages = {m1, m2}
  Addresses <- MCAddresses
  Keys <- MCKeys
  Protocols = {"mcp"}
  Prefixes = {"mcp", "a2a", "acp"}
  Star = "*"
  Scheme <- MCScheme
  TargetOf <- MCTargetOf
  InitTTL <- MCTTL
  MaxDead = 1
  Calls = {c1, c2}
  MaxSubs = 2
  MaxDrops = 1
SYMMETRY Interchangeable
INVARIANTS TypeOK HopsWithinTTL EveryRouteCounted
PROPERTIES UnallowedGoesNowhere
CHECK_DEADLOCK FALSE
