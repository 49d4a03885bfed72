\* One wrapper session, one spawned session and two disturbances: the safety
\* properties, the refinement of the abstract registry, and what must eventually happen.
SPECIFICATION FairSpec
CONSTANTS
  Adoptable = {a1}
  Spawned = {s1}
  Project = {p1}
  TheProject = p1
  ProjectOf <- MCProjectOf
  MaxDisturbances = 2
INVARIANTS
  OneRunningPerSpawned
  RelaunchIsUnregistered
  TrackedAdoptedIsLatest
  StoppedEventFollowsUpdate
PROPERTIES
  RegistrySpec
  GoneWorkersAreMarked
  DeadAgentsAreRelaunched
  RecoveryRegistersReplacement
  TrackingConverges
