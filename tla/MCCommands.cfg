SPECIFICATION FairSpec
CONSTANTS
  ph1 = ph1
  ph2 = ph2
  p1 = p1
  p2 = p2
  c1 = c1
  c2 = c2
  Phone = {ph1, ph2}
  Project = {p1, p2}
  None = None
  Cmd = {c1, c2}
  MaxEvents = 1
INVARIANTS ToldWasEntered MergesAreExplained
PROPERTIES NobodyWaitsForEver
CHECK_DEADLOCK FALSE
