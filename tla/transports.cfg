SPECIFICATION FairTransports
CONSTANTS
  Conns = {c1, c2}
  Listeners = {l1, l2}
  Beats = {b1, b2}
  None = None
  Reconnect = TRUE
  Polite = TRUE
  Calls = {p1}
  Paths = {"aurc", "route", "dashboard", "other"}
  MaxRetries = 1
  MaxPools = 2
  Sockets = {s1, s2}
  MaxMessages = 2
INVARIANTS TransportsTypeOK OneListener BeatWhileConnected ShutStopsListening AnsweredRunsOnce ClientsAreKnown
PROPERTIES LossIsRepaired CloseReturns HTTPEnds
CHECK_DEADLOCK FALSE
