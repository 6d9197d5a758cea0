SPECIFICATION Spec
CONSTANTS
  Conns = {c1, c2}
  Listeners = {l1}
  Beats = {b1, b2}
  None = None
  Reconnect = TRUE
  Polite = TRUE
INVARIANTS ClosedIsDisconnected
CHECK_DEADLOCK FALSE
