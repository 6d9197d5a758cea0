SPECIFICATION ContextsAlone
CONSTANTS
  Agents = {"a1"}
  Resources = {"search", "query"}
  Star = Star
  None = None
  Text = Text
  PolicySet <- MCPolicySet
  Messages <- MCMessages
  Hour = 2
  Day = 4
  MaxTime = 3
  MaxAsked = 3
  Parties = {"a", "b", "c"}
  Grants <- MCGrants
  Forwarded <- MCForwarded
  KeyIds = {k1}
  NoKey = NoKey
  MaxDepth = 3
  MaxHops = 3
  MaxStamp = 1
  Rings = {ra, rb}
  DurableRings = {ra}
  Keys = {k1, k2}
  Holders = {h1}
  Configured = {sc}
  Random = {sr}
  Nil = Nil
  Lifetimes = {1}
  MaxTokens = 1
  MaxNow = 2
  Ids = {i1, i2, i3}
  MemoryLimit = 2
  MaxLines = 2
  MaxLogged = 5
  Conversations = {c1, c2}
  MaxSessions = 2
  MaxAge = 0
  LastTime = 2
  MaxMade = 4
  Users = {u1}
  Names = {n1}
  Objects = {o1, o2}
  Absent = Absent
  Ttls = {0, 1, Absent}
  LastSecond = 2
  MaxVersion = 1
  Nodes = {a1, a2}
  Gone = Gone
  Ttl = 1
  LastMinute = 4
  Loops = {r1}
  Talks = {k1}
  MaxTurns = 2
  MaxPrinted = 2
  Exchanges = {e1}
  Numbers = {i1}
  NoId = NoId
INVARIANTS SavedOverIsKept
CHECK_DEADLOCK FALSE
