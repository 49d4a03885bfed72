SPECIFICATION MCFairSpec
CONSTANTS
  a1 = a1
  a2 = a2
  t1 = t1
  t2 = t2
  s1 = s1
  s2 = s2
  s3 = s3
  Address = {a1, a2}
  Token = {t1, t2}
  None = None
  Slot = {s1, s2, s3}
  MaxTaps = 2
  MaxChanges = 2
INVARIANTS OneOpenClient TargetIsPursued
PROPERTIES KeepsTrying
CHECK_DEADLOCK FALSE
