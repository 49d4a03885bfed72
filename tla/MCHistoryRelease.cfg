\* Deleting a project whose session runs.
SPECIFICATION Spec
CONSTANTS
  wrapper = wrapper
  spawned = spawned
  Session = {wrapper}
  Spawned = {}
  Monitor = monitor
  None = None
  MaxChanges = 3
PROPERTIES
  DiscoveryMarksStopped
CHECK_DEADLOCK FALSE
