\* Two ticks, a session that may be closed and opened again, and a project that a
\* spawned session and one of the wrapper share: who discovers, and what the phones are shown.
SPECIFICATION BadgeFairSpec
CONSTANTS
  s1 = s1
  s2 = s2
  s3 = s3
  p1 = p1
  p2 = p2
  None = None
  Session <- MCSession
  Project <- MCProject
  ProjectOf <- MCProjectOf
  Spawned = {s2}
  Closable = {s1}
  Tick = {t1, t2}
  MaxChanges = 5
INVARIANTS
  DiscoveryLock
PROPERTIES
  MenusAreShown
  ResolvedMenusAreCleared
