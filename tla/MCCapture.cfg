SPECIFICATION FairSpec
CONSTANTS
  title = title
  a = a
  b = b
  c = c
  d = d
  Text = {title, a, b, c, d}
  Screens <- MCScreens
  Cap = 4
  MaxPrints = 5
  MaxCuts = 1
INVARIANTS CapturedOnceInOrder DedupWindow StableIsStored
PROPERTIES EveryLineIsStored
CHECK_DEADLOCK FALSE
