SPECIFICATION MachinesSpec
CONSTANTS
  a1 = a1
  a2 = a2
  i1 = i1
  i2 = i2
  None = None
  Address = {a1, a2}
  Id = {i1, i2}
  TokenOf <- Tokens
  MaxWrites = 2
  MaxEvents = 5
SYMMETRY Symmetry
INVARIANTS Unique ConfirmedPairingsAreKept
CHECK_DEADLOCK FALSE
