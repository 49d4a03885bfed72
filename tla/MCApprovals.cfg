SPECIFICATION FairSpec
CONSTANTS
  r1 = r1
  r2 = r2
  r3 = r3
  Phone = {"ph1", "ph2"}
  Request = {r1, r2, r3}
  Key = {"k1", "k2"}
  Session = {"s1", "s2"}
  KeyOf <- Keys
  SessionOf <- Sessions
  MaxActs = 2
INVARIANTS NoRequestIsLost
PROPERTIES KeepsPromise
CHECK_DEADLOCK FALSE
