\* A wrapper session and a spawned one of one project, four changes.
SPECIFICATION Spec
CONSTANTS
  wrapper = wrapper
  spawned = spawned
  Session = {wrapper, spawned}
  Spawned = {spawned}
  Monitor = monitor
  None = None
  MaxChanges = 4
INVARIANTS
  TypeOK
  AdoptedRowsRun
CHECK_DEADLOCK FALSE
PROPERTIES
  DeletionsAreExplained
  RejectionsFollowDeletions
