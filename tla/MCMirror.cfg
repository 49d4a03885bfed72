SPECIFICATION FairSpec
CONSTANTS
  p1 = p1
  p2 = p2
  m1 = m1
  m2 = m2
  o1 = o1
  o2 = o2
  Project = {p1, p2}
  Menu = {m1, m2}
  None = None
  Op = {o1, o2}
  MaxTaps = 2
  MaxEvents = 1
INVARIANTS TextIsOfOpenProject MenuIsOfText
PROPERTIES DesktopGetsItsSize ClosedSessionsCloseTheView DismissedStaysDismissed
CHECK_DEADLOCK FALSE
