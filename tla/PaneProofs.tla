----------------------------- MODULE PaneProofs -----------------------------
(***************************************************************************)
(* What the daemon reads off the panes of its agents: the badge and the    *)
(* captured history.                                                       *)
(*                                                                         *)
(* The badge: #busy excludes overlapping discoveries, for any number of    *)
(* sessions and of ticks under way.  The invariant is the lock together    *)
(* with what it means: it is set exactly while some tick is in its         *)
(* discovery.  No session is tracked twice.                                *)
(*                                                                         *)
(* The capture: whatever the screens and the lines printed are, and        *)
(* however the reads cut what the tail appends, no line is captured twice  *)
(* or out of order, and no text is emitted twice within the window of the  *)
(* snapshots' memory.  The invariant (CaptureInv) says what is captured at *)
(* each stage of the CLI, and that all that is captured is older than all  *)
(* that is still to be read.                                               *)
(***************************************************************************)
EXTENDS WaitingBadge, Capture, WellFoundedInduction, TLAPS

-----------------------------------------------------------------------------
\* Numbers and sequences.

\* A set of numbers has a least one: the form of induction the provers can use.
LEMMA LeastNumber ==
  ASSUME NEW T, T \subseteq Nat, T # {}
  PROVE  \E n \in T : \A m \in T : n <= m
<1> DEFINE R == OpToRel(<, Nat)
<1>1. IsWellFoundedOn(R, Nat)
  BY NatLessThanWellFounded
<1>2. \A m, n \in Nat : m < n => <<m, n>> \in R
  BY DEF OpToRel
<1> HIDE DEF R
<1>3. PICK n \in T : \A m \in T : ~ (<<m, n>> \in R)
  BY <1>1, WFMin
<1>4. ASSUME NEW m \in T PROVE n <= m
  <2>1. m \in Nat /\ n \in Nat /\ ~(m < n)
    BY <1>2, <1>3
  <2>2. QED
    BY <2>1
<1>5. QED
  BY <1>4

LEMMA MinIsLeast ==
  ASSUME NEW T, T \subseteq Nat, T # {}
  PROVE  Min(T) \in T /\ \A m \in T : Min(T) <= m
BY LeastNumber DEF Min

\* What is left when one entry is removed is what was there, once.
Once(s) == \A i, j \in DOMAIN s : s[i] = s[j] => i = j

LEMMA RemovalFacts ==
  ASSUME NEW S, NEW s \in Seq(S), NEW e
  PROVE  /\ RemoveFirst(s, e) \in Seq(S)
         /\ ToSet(RemoveFirst(s, e)) \subseteq ToSet(s)
         /\ Once(s) => Once(RemoveFirst(s, e))
<1> DEFINE T == {i \in 1..Len(s) : s[i] = e}
<1>1. CASE T = {}
  <2>1. RemoveFirst(s, e) = s
    BY <1>1 DEF RemoveFirst
  <2>2. QED
    BY <2>1
<1>2. CASE T # {}
  <2>1. T \subseteq Nat
    OBVIOUS
  <2>2. RemoveFirst(s, e) = RemoveAt(s, Min(T))
    BY <1>2 DEF RemoveFirst, SelectInSeq
  <2>3. Min(T) \in T
    <3> HIDE DEF T
    <3>1. QED
      BY <1>2, <2>1, MinIsLeast
  <2>4. PICK k \in 1..Len(s) : RemoveFirst(s, e) = SubSeq(s, 1, k - 1) \o SubSeq(s, k + 1, Len(s))
    BY <2>2, <2>3 DEF RemoveAt
  <2> DEFINE a == SubSeq(s, 1, k - 1)
             b == SubSeq(s, k + 1, Len(s))
             r == RemoveFirst(s, e)
  <2>5. /\ a \in Seq(S) /\ Len(a) = k - 1 /\ \A i \in 1..k - 1 : a[i] = s[i]
        /\ b \in Seq(S) /\ Len(b) = Len(s) - k /\ \A i \in 1..Len(s) - k : b[i] = s[i + k]
    OBVIOUS
  <2>6. r = a \o b
    BY <2>4
  <2> HIDE DEF a, b, r
  <2>7. /\ r \in Seq(S) /\ Len(r) = Len(s) - 1
        /\ \A i \in 1..Len(s) - 1 : r[i] = IF i < k THEN s[i] ELSE s[i + 1]
    <3>1. r \in Seq(S) /\ Len(r) = Len(s) - 1
      BY <2>5, <2>6
    <3>2. ASSUME NEW i \in 1..Len(s) - 1 PROVE r[i] = IF i < k THEN s[i] ELSE s[i + 1]
      <4>1. CASE i < k
        <5>1. i \in 1..Len(a) /\ r[i] = a[i]
          BY <2>5, <2>6, <4>1
        <5>2. QED
          BY <2>5, <4>1, <5>1
      <4>2. CASE ~(i < k)
        <5>1. i - Len(a) \in 1..Len(b) /\ i - Len(a) = i - k + 1
          BY <2>5, <4>2
        <5>2. r[i] = b[i - Len(a)]
          BY <2>5, <2>6, <5>1
        <5>3. QED
          BY <2>5, <4>2, <5>1, <5>2
      <4>3. QED
        BY <4>1, <4>2
    <3>3. QED
      BY <3>1, <3>2
  <2>8. ToSet(r) \subseteq ToSet(s)
    BY <2>7 DEF ToSet
  <2>9. ASSUME Once(s), NEW i \in DOMAIN r, NEW j \in DOMAIN r, r[i] = r[j] PROVE i = j
    <3>1. i \in 1..Len(s) - 1 /\ j \in 1..Len(s) - 1 /\ DOMAIN s = 1..Len(s)
      BY <2>7
    <3> DEFINE x == IF i < k THEN i ELSE i + 1
               y == IF j < k THEN j ELSE j + 1
    <3>2. x \in 1..Len(s) /\ y \in 1..Len(s) /\ r[i] = s[x] /\ r[j] = s[y]
      BY <2>7, <3>1
    <3>3. x = y
      BY <2>9, <3>1, <3>2 DEF Once
    <3>4. QED
      BY <3>1, <3>3
  <2>10. Once(s) => Once(r)
    BY <2>9 DEF Once
  <2>11. QED
    BY <2>7, <2>8, <2>10 DEF r
<1>3. QED
  BY <1>1, <1>2

LEMMA AppendingFacts ==
  ASSUME NEW S, NEW s \in Seq(S), NEW e \in S
  PROVE  /\ Append(s, e) \in Seq(S)
         /\ ToSet(Append(s, e)) = ToSet(s) \cup {e}
         /\ Once(s) /\ e \notin ToSet(s) => Once(Append(s, e))
<1>1. /\ Append(s, e) \in Seq(S) /\ DOMAIN Append(s, e) = 1..Len(s) + 1 /\ DOMAIN s = 1..Len(s)
      /\ Append(s, e)[Len(s) + 1] = e /\ \A i \in 1..Len(s) : Append(s, e)[i] = s[i]
      /\ Len(s) \in Nat
  OBVIOUS
<1> DEFINE r == Append(s, e)
<1> HIDE DEF r
<1>2. DOMAIN r = 1..Len(s) + 1 /\ r[Len(s) + 1] = e /\ \A i \in 1..Len(s) : r[i] = s[i]
  BY <1>1 DEF r
<1>3. ToSet(r) = ToSet(s) \cup {e}
  <2>1. \A i \in 1..Len(s) + 1 : i = Len(s) + 1 \/ i \in 1..Len(s)
    BY <1>1
  <2>2. 1..Len(s) \subseteq 1..Len(s) + 1 /\ Len(s) + 1 \in 1..Len(s) + 1
    BY <1>1
  <2>3. QED
    BY <1>1, <1>2, <2>1, <2>2 DEF ToSet
<1>4. ASSUME Once(s), e \notin ToSet(s) PROVE Once(r)
  <2>1. \A i \in 1..Len(s) : s[i] # e
    BY <1>1, <1>4 DEF ToSet
  <2>2. QED
    BY <1>1, <1>2, <1>4, <2>1 DEF Once
<1>5. QED
  BY <1>1, <1>3, <1>4 DEF r

-----------------------------------------------------------------------------
\* The badge.

Discovering(t) == phase[t] \in {"list", "scan"}

PhaseOK == phase \in [Tick -> Phase] /\ busy \in BOOLEAN

LockInv == PhaseOK /\ OneDiscovery /\ BusyWhileDiscovering

\* A tick that begins or goes on with its check is outside its discovery then,
\* and the phases of the others stay.
LEMMA ProceedFacts ==
  ASSUME NEW t \in Tick, NEW passed, PhaseOK, Proceed(t, passed)
  PROVE  /\ phase' \in [Tick -> Phase]
         /\ ~Discovering(t)'
         /\ \A u \in Tick \ {t} : phase'[u] = phase[u]
<1>1. phase' = [phase EXCEPT ![t] = "look"] \/ phase' = [phase EXCEPT ![t] = "idle"]
  BY DEF Proceed
<1>2. QED
  BY <1>1 DEF PhaseOK, Phase, Discovering

\* Once a tick of the discovery leaves it and frees the lock, nobody is left.
LEMMA StepKeepsLock ==
  ASSUME NEW t \in Tick, LockInv, Step(t)
  PROVE  LockInv'
<1> USE DEF LockInv, PhaseOK, Phase
<1>1. CASE TickDiscovers(t)
  <2>1. ~busy /\ busy' = TRUE /\ phase' = [phase EXCEPT ![t] = "list"]
    BY <1>1 DEF TickDiscovers
  <2>2. \A u \in Tick : phase[u] \notin {"list", "scan"}
    BY <2>1 DEF BusyWhileDiscovering
  <2>3. QED
    BY <2>1, <2>2 DEF OneDiscovery, BusyWhileDiscovering
<1>2. CASE TickOverlaps(t)
  <2>1. Proceed(t, {}) /\ busy' = busy /\ phase[t] = "idle"
    BY <1>2 DEF TickOverlaps, BeginCheck
  <2>2. QED
    BY <2>1, ProceedFacts DEF OneDiscovery, BusyWhileDiscovering, Discovering
<1>3. CASE List(t)
  <2>1. phase[t] = "list" /\ phase' = [phase EXCEPT ![t] = "scan"] /\ busy' = busy
    BY <1>3 DEF List
  <2>2. QED
    BY <2>1 DEF OneDiscovery, BusyWhileDiscovering
<1>4. CASE \E s \in Session : Adopt(t, s) \/ Release(t, s)
  <2>1. phase' = phase /\ busy' = busy
    BY <1>4 DEF Adopt, Release
  <2>2. QED
    BY <2>1 DEF OneDiscovery, BusyWhileDiscovering
<1>5. CASE DiscoverEnd(t)
  <2>1. Proceed(t, {}) /\ busy' = FALSE /\ phase[t] = "scan"
    BY <1>5 DEF DiscoverEnd, BeginCheck
  <2>2. \A u \in Tick \ {t} : phase[u] \notin {"list", "scan"}
    BY <2>1 DEF OneDiscovery
  <2>3. QED
    BY <2>1, <2>2, ProceedFacts DEF OneDiscovery, BusyWhileDiscovering, Discovering
<1>6. CASE Capture(t)
  <2>1. phase[t] = "look" /\ phase' = [phase EXCEPT ![t] = "mark"] /\ busy' = busy
    BY <1>6 DEF Capture
  <2>2. QED
    BY <2>1 DEF OneDiscovery, BusyWhileDiscovering
<1>7. CASE Mark(t)
  <2>1. Proceed(t, visited[t]) /\ busy' = busy /\ phase[t] = "mark"
    BY <1>7 DEF Mark
  <2>2. QED
    BY <2>1, ProceedFacts DEF OneDiscovery, BusyWhileDiscovering, Discovering
<1>8. QED
  BY <1>1, <1>2, <1>3, <1>4, <1>5, <1>6, <1>7 DEF Step

LEMMA LockInvariance == BadgeSpec => []LockInv
<1>1. BadgeInit => LockInv
  BY DEF BadgeInit, LockInv, PhaseOK, Phase, OneDiscovery, BusyWhileDiscovering
<1>2. ASSUME LockInv, [BadgeNext]_badgeVars
      PROVE  LockInv'
  <2>1. CASE World
    BY <1>2, <2>1 DEF World, LockInv, PhaseOK, OneDiscovery, BusyWhileDiscovering
  <2>2. CASE \E t \in Tick : Step(t)
    BY <1>2, <2>2, StepKeepsLock
  <2>3. CASE UNCHANGED badgeVars
    BY <1>2, <2>3 DEF badgeVars, LockInv, PhaseOK, OneDiscovery, BusyWhileDiscovering
  <2>4. QED
    BY <1>2, <2>1, <2>2, <2>3 DEF BadgeNext
<1>3. QED
  BY <1>1, <1>2, PTL DEF BadgeSpec

\* #busy excludes overlapping discoveries and is never left behind, whatever the
\* number of ticks under way (manager.ts:106, #tick).
THEOREM DiscoveriesExclude == BadgeSpec => []DiscoveryLock
<1>1. LockInv => DiscoveryLock
  BY DEF LockInv, DiscoveryLock
<1>2. QED
  BY <1>1, LockInvariance, PTL

-----------------------------------------------------------------------------
\* The types of the badge, and the Map of tracked sessions.

\* The sequence stands for a Map: no key is in it twice.  What Cato spawned never
\* closes, and so is never spawned again while its entry is there.
TrackedOnce == Once(tracked)
SpawnedStayOpen == Tracked \cap Spawned \subseteq open
AtEntry == \A t \in Tick : phase[t] \in {"look", "mark"} => at[t] \in Session
BadgeInv == BadgeTypeOK /\ TrackedOnce /\ SpawnedStayOpen /\ AtEntry

\* A check visits an entry of the Map, or ends and may tell WsServer.
LEMMA ProceedTypes ==
  ASSUME BadgeInv, NEW t \in Tick, NEW passed \in SUBSET Session, Proceed(t, passed),
         waiting' \in SUBSET Project
  PROVE  /\ phase' \in [Tick -> Phase] /\ at' \in [Tick -> Session \cup {None}]
         /\ visited' \in [Tick -> SUBSET Session] /\ badge' \in SUBSET Project
         /\ AtEntry'
<1> DEFINE left == {k \in DOMAIN tracked : tracked[k] \notin passed}
           next == tracked[Min(left)]
<1>1. CASE left # {}
  <2>1. left \subseteq Nat /\ \A k \in left : tracked[k] \in Session
    BY DEF BadgeInv, BadgeTypeOK
  <2>2. Min(left) \in left
    <3> HIDE DEF left
    <3>1. QED
      BY <1>1, <2>1, MinIsLeast
  <2>3. next \in Session
    <3> HIDE DEF left
    <3>1. QED
      BY <2>1, <2>2
  <2>4. /\ phase' = [phase EXCEPT ![t] = "look"] /\ at' = [at EXCEPT ![t] = next]
        /\ visited' = [visited EXCEPT ![t] = passed \cup {next}] /\ badge' = badge
    BY <1>1 DEF Proceed
  <2> HIDE DEF next, left
  <2>5. QED
    BY <2>3, <2>4 DEF BadgeInv, BadgeTypeOK, AtEntry, Phase
<1>2. CASE left = {}
  <2>1. /\ phase' = [phase EXCEPT ![t] = "idle"] /\ at' = [at EXCEPT ![t] = None]
        /\ visited' = [visited EXCEPT ![t] = {}] /\ badge' \in {waiting', badge}
    BY <1>2 DEF Proceed
  <2>2. QED
    BY <2>1 DEF BadgeInv, BadgeTypeOK, AtEntry, Phase
<1>3. QED
  BY <1>1, <1>2

LEMMA BeginCheckTypes ==
  ASSUME BadgeInv, NEW t \in Tick, BeginCheck(t)
  PROVE  /\ phase' \in [Tick -> Phase] /\ at' \in [Tick -> Session \cup {None}]
         /\ visited' \in [Tick -> SUBSET Session] /\ badge' \in SUBSET Project
         /\ AtEntry'
         /\ before' \in [Tick -> SUBSET Project] /\ UNCHANGED <<tracked, waiting, seen>>
<1>1. /\ before' = [before EXCEPT ![t] = waiting] /\ UNCHANGED <<tracked, waiting, seen>>
      /\ Proceed(t, {}) /\ {} \in SUBSET Session
  BY DEF BeginCheck
<1>2. waiting' \in SUBSET Project
  BY <1>1 DEF BadgeInv, BadgeTypeOK
<1>3. QED
  BY <1>1, <1>2, ProceedTypes DEF BadgeInv, BadgeTypeOK

LEMMA StepKeepsTypes ==
  ASSUME BadgeInv, NEW t \in Tick, Step(t)
  PROVE  BadgeInv'
<1> USE BadgeAssumption
<1>0. ProjectOf \in [Session -> Project]
  OBVIOUS
<1>1. CASE TickDiscovers(t) \/ List(t) \/ Capture(t)
  <2>1. /\ UNCHANGED <<open, menu, changes, tracked, waiting, badge, before, visited, at>>
        /\ listing' \in {listing, open} /\ busy' \in BOOLEAN
        /\ \/ phase' = [phase EXCEPT ![t] = "list"] \/ phase' = [phase EXCEPT ![t] = "scan"]
           \/ phase[t] = "look" /\ phase' = [phase EXCEPT ![t] = "mark"]
        /\ seen' = seen \/ seen' = [seen EXCEPT ![t] = at[t] \in menu]
    BY <1>1 DEF TickDiscovers, List, Capture, world, BadgeInv, BadgeTypeOK
  <2>2. phase' \in [Tick -> Phase] /\ AtEntry'
    BY <2>1 DEF BadgeInv, BadgeTypeOK, AtEntry, Phase
  <2>3. seen' \in [Tick -> BOOLEAN]
    <3>1. (at[t] \in menu) \in BOOLEAN
      OBVIOUS
    <3>2. QED
      BY <2>1, <3>1 DEF BadgeInv, BadgeTypeOK
  <2>4. listing' \subseteq Session
    BY <2>1 DEF BadgeInv, BadgeTypeOK
  <2>5. QED
    BY <2>1, <2>2, <2>3, <2>4 DEF BadgeInv, BadgeTypeOK, TrackedOnce, SpawnedStayOpen, Tracked
<1>2. CASE TickOverlaps(t) \/ DiscoverEnd(t)
  <2>1. /\ BeginCheck(t) /\ UNCHANGED <<open, menu, changes>>
        /\ busy' \in BOOLEAN /\ listing' \in {listing, {}}
    BY <1>2 DEF TickOverlaps, DiscoverEnd, world, BadgeInv, BadgeTypeOK
  <2>2. QED
    BY <2>1, BeginCheckTypes DEF BadgeInv, BadgeTypeOK, TrackedOnce, SpawnedStayOpen, Tracked
<1>3. ASSUME NEW s \in Session, Adopt(t, s) PROVE BadgeInv'
  <2>1. /\ tracked' = Append(tracked, s) /\ s \notin Tracked \cup Spawned
        /\ UNCHANGED <<open, menu, changes, busy, listing, waiting, badge, phase, before, visited, at, seen>>
    BY <1>3 DEF Adopt, world
  <2>2. tracked' \in Seq(Session) /\ TrackedOnce' /\ Tracked' = Tracked \cup {s}
    BY <2>1, AppendingFacts DEF BadgeInv, BadgeTypeOK, TrackedOnce, Tracked
  <2>3. QED
    BY <2>1, <2>2 DEF BadgeInv, BadgeTypeOK, SpawnedStayOpen, AtEntry
<1>4. ASSUME NEW s \in Session, Release(t, s) PROVE BadgeInv'
  <2>1. /\ tracked' = RemoveFirst(tracked, s) /\ waiting' = waiting \ {ProjectOf[s]}
        /\ visited' = [u \in Tick |-> visited[u] \ {s}]
        /\ UNCHANGED <<open, menu, changes, busy, listing, badge, phase, before, at, seen>>
    BY <1>4 DEF Release, world
  <2>2. tracked' \in Seq(Session) /\ TrackedOnce' /\ Tracked' \subseteq Tracked
    BY <2>1, RemovalFacts DEF BadgeInv, BadgeTypeOK, TrackedOnce, Tracked
  <2>3. visited' \in [Tick -> SUBSET Session] /\ waiting' \subseteq Project
    BY <2>1 DEF BadgeInv, BadgeTypeOK
  <2>4. QED
    BY <2>1, <2>2, <2>3 DEF BadgeInv, BadgeTypeOK, SpawnedStayOpen, AtEntry
<1>5. CASE Mark(t)
  <2>1. /\ phase[t] = "mark" /\ Proceed(t, visited[t])
        /\ \/ waiting' = waiting \cup {ProjectOf[at[t]]} \/ waiting' = waiting \ {ProjectOf[at[t]]}
        /\ UNCHANGED <<open, menu, changes, tracked, busy, listing, before, seen>>
    BY <1>5 DEF Mark, world
  <2>2. at[t] \in Session /\ visited[t] \in SUBSET Session
    BY <2>1 DEF BadgeInv, BadgeTypeOK, AtEntry
  <2>3. waiting' \in SUBSET Project
    BY <1>0, <2>1, <2>2 DEF BadgeInv, BadgeTypeOK
  <2>4. QED
    BY <2>1, <2>2, <2>3, ProceedTypes DEF BadgeInv, BadgeTypeOK, TrackedOnce, SpawnedStayOpen, Tracked
<1>6. QED
  BY <1>1, <1>2, <1>3, <1>4, <1>5 DEF Step

LEMMA WorldKeepsTypes == BadgeInv /\ World => BadgeInv'
<1> SUFFICES ASSUME BadgeInv, World PROVE BadgeInv'
  OBVIOUS
<1> USE BadgeAssumption
<1>1. /\ changes' = changes + 1
      /\ UNCHANGED <<busy, listing, waiting, badge, phase, before, visited, at, seen>>
  BY DEF World
<1>2. PICK s \in Session : OpenSession(s) \/ SpawnSession(s) \/ Close(s) \/ Ask(s) \/ Answer(s)
  BY DEF World
<1>3. /\ open' \subseteq Session /\ menu' \subseteq open' /\ open \cap Spawned \subseteq open'
      /\ UNCHANGED tracked \/ SpawnSession(s)
  BY <1>2 DEF OpenSession, SpawnSession, Close, Ask, Answer, BadgeInv, BadgeTypeOK
<1>4. tracked' \in Seq(Session) /\ TrackedOnce' /\ SpawnedStayOpen'
  <2>1. CASE UNCHANGED tracked
    BY <1>3, <2>1 DEF BadgeInv, BadgeTypeOK, TrackedOnce, SpawnedStayOpen, Tracked
  <2>2. CASE SpawnSession(s)
    <3>1. s \notin Tracked /\ tracked' = Append(tracked, s) /\ open' = open \cup {s}
      BY <2>2 DEF SpawnSession, BadgeInv, SpawnedStayOpen
    <3>2. tracked' \in Seq(Session) /\ TrackedOnce' /\ Tracked' = Tracked \cup {s}
      BY <3>1, AppendingFacts DEF BadgeInv, BadgeTypeOK, TrackedOnce, Tracked
    <3>3. QED
      BY <3>1, <3>2 DEF BadgeInv, SpawnedStayOpen
  <2>3. QED
    BY <1>3, <2>1, <2>2
<1>5. QED
  BY <1>1, <1>3, <1>4 DEF BadgeInv, BadgeTypeOK, AtEntry

LEMMA BadgeInvAlways == BadgeSpec => []BadgeInv
<1>1. BadgeInit => BadgeInv
  <2> SUFFICES ASSUME BadgeInit PROVE BadgeInv
    OBVIOUS
  <2>1. BadgeTypeOK /\ AtEntry
    <3>1. /\ phase \in [Tick -> Phase] /\ AtEntry
          /\ before \in [Tick -> SUBSET Project] /\ visited \in [Tick -> SUBSET Session]
      BY DEF BadgeInit, AtEntry, Phase
    <3>2. at \in [Tick -> Session \cup {None}] /\ seen \in [Tick -> BOOLEAN] /\ busy \in BOOLEAN
      BY DEF BadgeInit
    <3>3. tracked \in Seq(Session)
      BY DEF BadgeInit
    <3>4. QED
      BY <3>1, <3>2, <3>3 DEF BadgeInit, BadgeTypeOK
  <2>2. tracked = <<>> /\ DOMAIN tracked = {}
    BY DEF BadgeInit
  <2>3. TrackedOnce /\ Tracked = {}
    BY <2>2 DEF TrackedOnce, Once, Tracked, ToSet
  <2>4. QED
    BY <2>1, <2>3 DEF BadgeInv, SpawnedStayOpen
<1>2. BadgeInv /\ [BadgeNext]_badgeVars => BadgeInv'
  <2> SUFFICES ASSUME BadgeInv, [BadgeNext]_badgeVars PROVE BadgeInv'
    OBVIOUS
  <2>1. CASE World
    BY <2>1, WorldKeepsTypes
  <2>2. CASE \E t \in Tick : Step(t)
    BY <2>2, StepKeepsTypes
  <2>3. CASE UNCHANGED badgeVars
    BY <2>3 DEF badgeVars, BadgeInv, BadgeTypeOK, TrackedOnce, SpawnedStayOpen, Tracked, AtEntry
  <2>4. QED
    BY <2>1, <2>2, <2>3 DEF BadgeNext
<1>3. QED
  BY <1>1, <1>2, PTL DEF BadgeSpec

\* Every variable of the manager, its ticks and the server's copy has its type.
THEOREM BadgeTypes == BadgeSpec => []BadgeTypeOK
<1>1. BadgeInv => BadgeTypeOK
  BY DEF BadgeInv
<1>2. QED
  BY <1>1, BadgeInvAlways, PTL

\* #tracked is a Map (manager.ts:53): the adoptions of the ticks and the spawns,
\* which add to it without asking each other, never enter a session twice.
THEOREM SessionsAreTrackedOnce == BadgeSpec => []TrackedOnce
<1>1. BadgeInv => TrackedOnce
  BY DEF BadgeInv
<1>2. QED
  BY <1>1, BadgeInvAlways, PTL

-----------------------------------------------------------------------------
\* The capture.

\* Where the CLI is, and what it has by then.
StageOK ==
  /\ Draws => pc \in {"start", "scrollback", "backfill", "look", "emit", "exited"}
  /\ pc = "launched" => command = "spawn"
  /\ pc \in {"scrollback", "backfill"} => command \in {"adopt", "snapshot"}
  /\ pc \in {"look", "emit"} => Draws
  /\ pc \in {"start", "launched", "scrollback", "backfill"} => ~armed
  /\ ~armed => pc \in {"start", "launched", "scrollback", "backfill", "exited"}
  /\ ~armed => order = <<>> /\ live = 0
  /\ live <= Len(stored)
  /\ pc \in {"start", "launched", "scrollback"} => stored = <<>>
  /\ pc = "open" => live = Len(stored) /\ (command # "adopt" => stored = <<>>)
  /\ pc \in {"start", "launched", "scrollback", "backfill", "open"} => buffer = <<>>

\* What the source remembers is what it emitted last; if that is not all that it
\* emitted, then a cut has left it more than half of its cap.
MemoryOK ==
  Draws /\ armed =>
    /\ Len(order) <= Len(stored) - live
    /\ \A k \in 1..Len(order) : order[k] = stored[Len(stored) - Len(order) + k]
    /\ Len(stored) - live > Len(order) => Len(order) > Cap - Cap \div 2

\* Of the texts on both snapshots, those worked through are captured.
EmitOK ==
  pc = "emit" => \A x \in ToSet(cur) \cap ToSet(prev) :
                   x \in ToSet(todo) \/ \E k \in live+1..Len(stored) : stored[k] = x

Increasing(s) == \A i, j \in DOMAIN s : i < j => s[i] < s[j]
Below(s, t) == \A i \in DOMAIN s, j \in DOMAIN t : s[i] < t[j]
UpTo(s, n) == \A i \in DOMAIN s : s[i] <= n
Consecutive(s) == \A i \in DOMAIN s : i + 1 \in DOMAIN s => s[i + 1] = s[i] + 1
OneLine(s) == \A i, j \in DOMAIN s : LineOf(s[i]) = LineOf(s[j])

Captured == FlattenSeq(stored) \o buffer

\* What is captured is older than what the tail has not read, and than the
\* scrollback that is not yet ingested.
CapturedIsPrinted == ~Draws => Increasing(Captured) /\ UpTo(Captured, printed)
FileIsPrinted == Increasing(file) /\ UpTo(file, printed)
UnreadIsNew ==
  ~Draws /\ HasTail => \A k \in DOMAIN file : k > offset \/ offset > Len(file) =>
                         \A i \in DOMAIN Captured : Captured[i] < file[k]
ScrollbackIsNew ==
  ~Draws /\ pc = "backfill" =>
    /\ \A l \in DOMAIN todo : /\ Increasing(todo[l]) /\ UpTo(todo[l], printed)
                              /\ OneLine(todo[l]) /\ Below(Captured, todo[l])
    /\ \A l, m \in DOMAIN todo : l < m => Below(todo[l], todo[m])
OnceOK == CapturedIsPrinted /\ FileIsPrinted /\ UnreadIsNew /\ ScrollbackIsNew

\* Nobody cut the file: it is what was printed since the pipe was opened.
FileOK ==
  ~Draws /\ cuts = 0 =>
    /\ Consecutive(file)
    /\ file # <<>> => piped /\ file[Len(file)] = printed
    /\ (command = "spawn" /\ pc = "start") \/ (command = "adopt" /\ ~armed) => ~piped
    /\ HasTail => begin <= offset /\ offset <= Len(file)
    /\ pc = "read" => offset < size /\ size <= Len(file)

\* Where the cap leaves room for a cut, the memory stays within it.
MemoryIsBounded == Cap > 1 => Len(order) <= Cap

CaptureInv ==
  /\ TypeOK /\ StageOK /\ MemoryOK /\ EmitOK /\ DedupWindow /\ MemoryIsBounded
  /\ OnceOK /\ FileOK /\ TailedInOrder /\ LinesAreWhole

-----------------------------------------------------------------------------
\* Concatenation: FlattenSeq, whose recursive function has its values by minimal
\* counterexample.

\* What FlattenSeq builds for the first n sequences of s.
Flat(f, s, n) == f = [i \in 1..n |-> IF i = 1 THEN s[i] ELSE f[i - 1] \o s[i]]

LEMMA FlattenDef ==
  ASSUME NEW s, Len(s) # 0
  PROVE  FlattenSeq(s) = (CHOOSE f : Flat(f, s, Len(s)))[Len(s)]
BY DEF FlattenSeq, Flat

LEMMA FlatAt ==
  \A f, s, n, i : Flat(f, s, n) /\ i \in 1..n => f[i] = IF i = 1 THEN s[i] ELSE f[i - 1] \o s[i]
BY DEF Flat

LEMMA FlatExtends ==
  ASSUME NEW A, NEW s \in Seq(Seq(A)), NEW n \in Nat, n + 1 <= Len(s),
         NEW f \in [1..n -> Seq(A)], Flat(f, s, n)
  PROVE  \E g \in [1..n + 1 -> Seq(A)] : Flat(g, s, n + 1)
<1> DEFINE g == [i \in 1..n + 1 |-> IF i <= n THEN f[i] ELSE IF i = 1 THEN s[i] ELSE f[n] \o s[i]]
<1>1. g \in [1..n + 1 -> Seq(A)]
  <2> SUFFICES ASSUME NEW i \in 1..n + 1
               PROVE (IF i <= n THEN f[i] ELSE IF i = 1 THEN s[i] ELSE f[n] \o s[i]) \in Seq(A)
    OBVIOUS
  <2>1. s[i] \in Seq(A) /\ (i <= n => f[i] \in Seq(A)) /\ (i # 1 /\ ~(i <= n) => f[n] \in Seq(A))
    OBVIOUS
  <2>2. QED
    BY <2>1
<1>2. Flat(g, s, n + 1)
  <2>1. ASSUME NEW i \in 1..n + 1 PROVE g[i] = IF i = 1 THEN s[i] ELSE g[i - 1] \o s[i]
    <3>1. CASE i <= n
      <4>1. f[i] = IF i = 1 THEN s[i] ELSE f[i - 1] \o s[i]
        <5>1. i \in 1..n
          BY <3>1
        <5>2. QED
          BY <5>1 DEF Flat
      <4>2. g[i] = f[i] /\ (i # 1 => g[i - 1] = f[i - 1])
        BY <3>1
      <4>3. QED
        BY <4>1, <4>2
    <3>2. CASE ~(i <= n)
      <4>1. i = n + 1 /\ g[i] = IF i = 1 THEN s[i] ELSE f[n] \o s[i]
        BY <3>2
      <4>2. i # 1 => g[i - 1] = f[n]
        BY <4>1
      <4>3. QED
        BY <4>1, <4>2
    <3>3. QED
      BY <3>1, <3>2
  <2> DEFINE h == [i \in 1..n + 1 |-> IF i = 1 THEN s[i] ELSE g[i - 1] \o s[i]]
  <2>2. DOMAIN g = 1..n + 1 /\ DOMAIN h = 1..n + 1 /\ \A i \in 1..n + 1 : g[i] = h[i]
    BY <2>1
  <2>3. g = [i \in 1..n + 1 |-> g[i]] /\ h = [i \in 1..n + 1 |-> h[i]]
    OBVIOUS
  <2> HIDE DEF g, h
  <2>4. g = h
    BY <2>2, <2>3
  <2>5. QED
    BY <2>4 DEF Flat, h
<1>3. QED
  BY <1>1, <1>2

LEMMA FlatExists ==
  ASSUME NEW A, NEW s \in Seq(Seq(A))
  PROVE  \E f \in [1..Len(s) -> Seq(A)] : Flat(f, s, Len(s))
<1> DEFINE Bad == {n \in 0..Len(s) : ~ \E f \in [1..n -> Seq(A)] : Flat(f, s, n)}
<1> SUFFICES Bad = {}
  OBVIOUS
<1> SUFFICES ASSUME Bad # {} PROVE FALSE
  OBVIOUS
<1>1. PICK n \in Bad : \A m \in Bad : n <= m
  <2>1. Bad \subseteq Nat
    OBVIOUS
  <2> HIDE DEF Bad
  <2>2. QED
    BY <2>1, LeastNumber
<1>2. n # 0
  <2>1. \E f \in [1..0 -> Seq(A)] : Flat(f, s, 0)
    <3> DEFINE f == [i \in 1..0 |-> <<>>]
    <3>1. f \in [1..0 -> Seq(A)]
      OBVIOUS
    <3>2. Flat(f, s, 0)
      BY DEF Flat
    <3>3. QED
      BY <3>1, <3>2
  <2>2. QED
    BY <2>1
<1>3. n \in 0..Len(s) /\ n - 1 \in 0..Len(s) /\ n - 1 \notin Bad
  <2>1. n \in 0..Len(s) /\ n - 1 \in 0..Len(s) /\ ~(n <= n - 1)
    BY <1>2
  <2> HIDE DEF Bad
  <2>2. QED
    BY <2>1, <1>1
<1>4. PICK f \in [1..n - 1 -> Seq(A)] : Flat(f, s, n - 1)
  BY <1>3
<1>5. \E g \in [1..n -> Seq(A)] : Flat(g, s, n)
  <2>1. n - 1 \in Nat /\ (n - 1) + 1 = n /\ (n - 1) + 1 <= Len(s)
    BY <1>2, <1>3
  <2> DEFINE m == n - 1
  <2>2. m \in Nat /\ m + 1 = n /\ m + 1 <= Len(s) /\ f \in [1..m -> Seq(A)] /\ Flat(f, s, m)
    BY <2>1, <1>4
  <2> HIDE DEF m
  <2>3. \E g \in [1..m + 1 -> Seq(A)] : Flat(g, s, m + 1)
    BY <2>2, FlatExtends
  <2>4. QED
    BY <2>2, <2>3
<1>6. QED
  BY <1>5

LEMMA FlatUnique ==
  \A f, g, s : \A n, m \in Nat :
    n <= m /\ Flat(f, s, n) /\ Flat(g, s, m) => \A i \in 1..n : f[i] = g[i]
<1> TAKE f, g, s
<1> TAKE n, m \in Nat
<1> HAVE n <= m /\ Flat(f, s, n) /\ Flat(g, s, m)
<1> DEFINE Bad == {i \in 1..n : f[i] # g[i]}
<1> SUFFICES ASSUME Bad # {} PROVE FALSE
  OBVIOUS
<1>1. PICK i \in Bad : \A j \in Bad : i <= j
  <2>1. Bad \subseteq Nat
    OBVIOUS
  <2> HIDE DEF Bad
  <2>2. QED
    BY <2>1, LeastNumber
<1>2. i \in 1..n /\ i \in 1..m
  OBVIOUS
<1>3. f[i] = IF i = 1 THEN s[i] ELSE f[i - 1] \o s[i]
  BY <1>2 DEF Flat
<1>4. g[i] = IF i = 1 THEN s[i] ELSE g[i - 1] \o s[i]
  BY <1>2 DEF Flat
<1>5. i # 1 => f[i - 1] = g[i - 1]
  BY <1>1
<1>6. QED
  BY <1>3, <1>4, <1>5

\* FlattenSeq, one sequence at a time.
LEMMA FlattenValue ==
  ASSUME NEW A, NEW s \in Seq(Seq(A)), Len(s) # 0, NEW n, n = Len(s),
         NEW f, Flat(f, s, n)
  PROVE  FlattenSeq(s) = f[n]
<1> DEFINE g == CHOOSE g : Flat(g, s, n)
<1>1. FlattenSeq(s) = g[n]
  BY FlattenDef
<1>2. Flat(g, s, n)
  OBVIOUS
<1> HIDE DEF g
<1>3. n \in Nat /\ n \in 1..n /\ n <= n
  OBVIOUS
<1>4. f[n] = g[n]
  BY <1>2, <1>3, FlatUnique
<1>5. QED
  BY <1>1, <1>4

LEMMA FlattenType ==
  ASSUME NEW A, NEW s \in Seq(Seq(A))
  PROVE  FlattenSeq(s) \in Seq(A)
<1>1. CASE Len(s) = 0
  BY <1>1 DEF FlattenSeq
<1>2. CASE Len(s) # 0
  <2>1. PICK f \in [1..Len(s) -> Seq(A)] : Flat(f, s, Len(s))
    BY FlatExists
  <2>2. FlattenSeq(s) = f[Len(s)]
    BY <1>2, <2>1, FlattenValue
  <2>3. QED
    BY <1>2, <2>2
<1>3. QED
  BY <1>1, <1>2

LEMMA FlattenAppend ==
  ASSUME NEW A, NEW s \in Seq(Seq(A)), NEW x \in Seq(A)
  PROVE  FlattenSeq(Append(s, x)) = FlattenSeq(s) \o x
<1> DEFINE t == Append(s, x)
           n == Len(s)
<1>1. t \in Seq(Seq(A)) /\ n \in Nat /\ Len(t) = n + 1 /\ t[n + 1] = x /\ \A i \in 1..n : t[i] = s[i]
  OBVIOUS
<1>2. PICK g \in [1..n + 1 -> Seq(A)] : Flat(g, t, n + 1)
  BY <1>1, FlatExists
<1>3. FlattenSeq(t) = g[n + 1]
  <2>1. Len(t) # 0 /\ n + 1 = Len(t)
    BY <1>1
  <2> HIDE DEF t, n
  <2>2. QED
    BY <1>1, <1>2, <2>1, FlattenValue
<1>4. CASE n = 0
  <2>1. FlattenSeq(s) = <<>>
    BY <1>4 DEF FlattenSeq
  <2>2. g[n + 1] = x
    BY <1>1, <1>2, <1>4, FlatAt
  <2>3. <<>> \o x = x
    OBVIOUS
  <2>4. QED
    BY <1>3, <2>1, <2>2, <2>3
<1>5. CASE n # 0
  <2>1. PICK f \in [1..n -> Seq(A)] : Flat(f, s, n)
    BY FlatExists
  <2>2. FlattenSeq(s) = f[n]
    BY <1>5, <2>1, FlattenValue
  <2>3. Flat(f, t, n)
    BY <1>1, <2>1 DEF Flat
  <2>4. f[n] = g[n]
    <3>1. n + 1 \in Nat /\ n <= n + 1 /\ n \in 1..n
      BY <1>1, <1>5
    <3> HIDE DEF t, n
    <3>2. QED
      BY <1>2, <2>3, <3>1, FlatUnique
  <2>5. g[n + 1] = g[n] \o x
    <3>1. n + 1 \in 1..n + 1 /\ n + 1 # 1 /\ (n + 1) - 1 = n
      BY <1>1, <1>5
    <3>2. g[n + 1] = IF n + 1 = 1 THEN t[n + 1] ELSE g[(n + 1) - 1] \o t[n + 1]
      <4> HIDE DEF t, n
      <4>1. QED
        BY <1>2, <3>1 DEF Flat
    <3> HIDE DEF t, n
    <3>3. QED
      BY <1>1, <3>1, <3>2
  <2>6. QED
    BY <1>3, <2>2, <2>4, <2>5
<1>6. QED
  BY <1>4, <1>5

-----------------------------------------------------------------------------
\* One read of the file, and the newlines in what it brought.

LEMMA MinFacts ==
  ASSUME NEW x \in Nat, NEW y \in Nat
  PROVE  Min({x, y}) = IF x <= y THEN x ELSE y
<1>1. \E z \in {x, y} : \A u \in {x, y} : z <= u
  OBVIOUS
<1>2. Min({x, y}) \in {x, y} /\ \A u \in {x, y} : Min({x, y}) <= u
  BY <1>1 DEF Min
<1>3. QED
  BY <1>2

\* What a read brings: the file from the offset, up to the size seen before.
There == SubSeq(file, offset + 1, Min({size, Len(file)}))

LEMMA ReadFacts ==
  ASSUME TypeOK
  PROVE  /\ There \in Seq(Half)
         /\ offset + Len(There) <= Len(file) \/ Len(There) = 0
         /\ Len(file) >= size /\ size >= offset => Len(There) = size - offset
         /\ \A k \in DOMAIN There : offset + k \in DOMAIN file /\ There[k] = file[offset + k]
<1> DEFINE n == Min({size, Len(file)})
<1>1. file \in Seq(Half) /\ offset \in Nat /\ size \in Nat
  BY DEF TypeOK
<1>2. n \in Nat /\ n <= Len(file) /\ (Len(file) >= size => n = size)
  BY <1>1, MinFacts
<1>3. There = SubSeq(file, offset + 1, n)
  BY DEF There
<1> HIDE DEF n
<1>4. CASE offset < n
  BY <1>1, <1>2, <1>3, <1>4
<1>5. CASE ~(offset < n)
  BY <1>1, <1>2, <1>3, <1>5
<1>6. QED
  BY <1>4, <1>5

\* A line is taken off the buffer: up to the first newline.
FirstNewline == CHOOSE k \in Newlines : \A j \in Newlines : k <= j

LEMMA NewlineFacts ==
  ASSUME TypeOK, Newlines # {}
  PROVE  /\ FirstNewline \in 1..Len(buffer) /\ EndsLine(buffer[FirstNewline])
         /\ \A j \in 1..FirstNewline - 1 : ~EndsLine(buffer[j])
<1>1. Newlines \subseteq Nat
  BY DEF Newlines
<1>2. \E k \in Newlines : \A j \in Newlines : k <= j
  BY <1>1, LeastNumber
<1>3. FirstNewline \in Newlines /\ \A j \in Newlines : FirstNewline <= j
  BY <1>2 DEF FirstNewline
<1>4. Len(buffer) \in Nat
  <2>1. buffer \in Seq(Half)
    BY DEF TypeOK
  <2>2. QED
    BY <2>1
<1>5. QED
  BY <1>3, <1>4 DEF Newlines

-----------------------------------------------------------------------------
(***************************************************************************)
(* Types.                                                                  *)
(***************************************************************************)
LEMMA MembershipIsBoolean == \A p, c, S : p = (c \in S) => p \in BOOLEAN
OBVIOUS

LEMMA CaptureInitTypes == Init => TypeOK
<1> SUFFICES ASSUME Init PROVE TypeOK
  OBVIOUS
<1>1. printed \in 0..MaxPrints /\ printed <= 1
  <2>1. printed \in 0..(IF command = "spawn" THEN 0 ELSE 1)
    BY DEF Init
  <2>2. QED
    BY <2>1, Bounds
<1>2. file \in Seq(Half)
  <2>1. CASE piped
    <3>1. file = [h \in 1..printed |-> h]
      BY <2>1 DEF Init
    <3>2. QED
      BY <1>1, <3>1 DEF Half
  <2>2. CASE ~piped
    <3>1. file = <<>>
      BY <2>2 DEF Init
    <3>2. QED
      BY <3>1
  <2>3. QED
    BY <2>1, <2>2
<1>3. <<>> \in Seq(Half) /\ <<>> \in Seq(Text) /\ <<>> \in Seq(StoredLine)
  OBVIOUS
<1>4. screen \in Screen /\ <<>> \in Screen /\ piped \in BOOLEAN /\ 0 \in 0..MaxCuts
  <2>1. screen \in Screen
    BY DEF Init, Screen
  <2>2. piped \in BOOLEAN
    <3>1. piped = (command \in {"ingest", "ingest --from-start"})
      BY DEF Init
    <3>2. QED
      BY <3>1, MembershipIsBoolean
  <2>3. QED
    BY <2>1, <2>2, Bounds DEF Screen
<1>5. QED
  BY <1>1, <1>2, <1>3, <1>4 DEF Init, TypeOK

LEMMA CaptureTypesPreserved == TypeOK /\ StageOK /\ [Next]_vars => TypeOK'
<1> SUFFICES ASSUME TypeOK, StageOK, [Next]_vars PROVE TypeOK'
  OBVIOUS
<1>0. command' = command /\ StoredLine' = StoredLine
  <2>1. command' = command
    BY DEF Next, Cli, Spawn, StartWorker, CapturePaneHistory, Backfill, Open, Stat, Read, Split, Look,
         Emit, Interrupt, StopWorker, Output, PaneEnds, Disturb, vars
  <2>2. QED
    BY <2>1 DEF StoredLine, Draws
<1>t. file \in Seq(Half) /\ buffer \in Seq(Half) /\ order \in Seq(Text) /\ todo \in Seq(StoredLine)
      /\ stored \in Seq(StoredLine)
  BY DEF TypeOK
<1> USE <1>0
<1>s. screen \in Seq(Text) /\ prev \in Seq(Text) /\ cur \in Seq(Text)
  <2>1. \A x \in Screen : x \in Seq(Text)
    <3>1. <<>> \in Seq(Text)
      OBVIOUS
    <3>2. QED
      BY <3>1, ScreensAreTexts DEF Screen
  <2>2. QED
    BY <2>1 DEF TypeOK
<1>p. printed \in 0..MaxPrints /\ printed \in Nat /\ offset \in Nat /\ cuts \in 0..MaxCuts
  <2>1. printed \in 0..MaxPrints /\ offset \in Nat /\ cuts \in 0..MaxCuts
    BY DEF TypeOK
  <2>2. QED
    BY <2>1, Bounds
<1>1. CASE Spawn
  BY <1>1 DEF Spawn, After, Toggle, tail, snapshot, TypeOK
<1>2. CASE StartWorker
  BY <1>2 DEF StartWorker, pane, tail, snapshot, TypeOK
<1>3. CASE CapturePaneHistory
  <2>1. todo' \in Seq(StoredLine)
    <3>1. CASE Draws
      <4>1. screen \in Seq(Text) /\ todo' = screen
        BY <1>3, <1>s, <3>1 DEF CapturePaneHistory
      <4>2. QED
        BY <3>1, <4>1 DEF StoredLine
    <3>2. CASE ~Draws
      <4> DEFINE L(l) == IF 2*l <= printed THEN <<2*l - 1, 2*l>> ELSE <<2*l - 1>>
      <4>1. printed \in 0..MaxPrints /\ LineOf(printed) \in Nat
        BY <1>p DEF LineOf
      <4>2. ASSUME NEW l \in 1..LineOf(printed) PROVE L(l) \in Seq(Half)
        <5>1. 2*l - 1 \in Half /\ (2*l <= printed => 2*l \in Half)
          BY <4>1, Bounds DEF LineOf, Half
        <5>2. QED
          BY <5>1
      <4>3. todo' = [l \in 1..LineOf(printed) |-> L(l)]
        BY <1>3, <3>2 DEF CapturePaneHistory
      <4> HIDE DEF L
      <4>4. todo' \in Seq(Seq(Half))
        BY <4>1, <4>2, <4>3
      <4>5. QED
        BY <3>2, <4>4 DEF StoredLine
    <3>3. QED
      BY <3>1, <3>2
  <2>2. QED
    BY <1>3, <2>1 DEF CapturePaneHistory, After, pane, tail, snapshot, TypeOK
<1>4. CASE Backfill
  <2>1. CASE todo # <<>>
    <3>1. Append(stored, Head(todo)) \in Seq(StoredLine) /\ Tail(todo) \in Seq(StoredLine)
      BY <1>t, <2>1
    <3>2. QED
      BY <1>4, <2>1, <3>1 DEF Backfill, tail, snapshot, TypeOK
  <2>2. CASE todo = <<>>
    <3>1. Len(stored) \in Nat
      BY <1>t
    <3>2. QED
      BY <1>4, <2>2, <3>1 DEF Backfill, Toggle, tail, snapshot, TypeOK
  <2>3. QED
    BY <2>1, <2>2
<1>5. CASE Open
  <2>1. Len(file) \in Nat
    BY <1>t
  <2>2. QED
    BY <1>5, <2>1 DEF Open, After, pane, snapshot, TypeOK
<1>6. CASE Stat
  <2>1. Len(file) \in Nat
    BY <1>t
  <2>2. QED
    BY <1>6, <2>1 DEF Stat, pane, snapshot, TypeOK
<1>7. CASE Read
  <2>1. There \in Seq(Half) /\ Len(There) \in Nat
    BY ReadFacts
  <2>2. buffer' = buffer \o There /\ offset' = offset + Len(There)
    BY <1>7 DEF Read, There
  <2>3. buffer' \in Seq(Half) /\ offset' \in Nat
    BY <1>t, <1>p, <2>1, <2>2
  <2>4. QED
    BY <1>7, <2>3 DEF Read, After, pane, snapshot, TypeOK
<1>8. CASE Split
  <2>1. CASE Newlines # {}
    <3> DEFINE k == FirstNewline
    <3>1. k \in 1..Len(buffer)
      BY <2>1, NewlineFacts
    <3>2. stored' = Append(stored, SubSeq(buffer, 1, k)) /\ buffer' = SubSeq(buffer, k + 1, Len(buffer)) /\ pc' = pc
      BY <1>8, <2>1 DEF Split, FirstNewline
    <3>3. ~Draws
      BY <1>8 DEF Split, StageOK
    <3> HIDE DEF k
    <3>4. SubSeq(buffer, 1, k) \in Seq(Half) /\ SubSeq(buffer, k + 1, Len(buffer)) \in Seq(Half)
      BY <1>t, <3>1
    <3>5. stored' \in Seq(StoredLine)
      BY <1>t, <3>2, <3>3, <3>4 DEF StoredLine
    <3>6. QED
      BY <1>8, <3>2, <3>4, <3>5 DEF Split, pane, snapshot, TypeOK
  <2>2. CASE Newlines = {}
    BY <1>8, <2>2 DEF Split, pane, snapshot, TypeOK
  <2>3. QED
    BY <2>1, <2>2
<1>9. CASE Look
  <2>1. Draws
    BY <1>9 DEF Look, StageOK
  <2>2. QED
    BY <1>9, <1>s, <2>1 DEF Look, pane, tail, StoredLine, TypeOK
<1>10. CASE Emit
  <2>1. Draws
    BY <1>10 DEF Emit, StageOK
  <2>2. CASE todo = <<>>
    BY <1>10, <2>2 DEF Emit, pane, tail, TypeOK
  <2>3. CASE todo # <<>>
    <3>1. Head(todo) \in Text /\ Tail(todo) \in Seq(StoredLine) /\ Append(stored, Head(todo)) \in Seq(StoredLine)
          /\ todo' = Tail(todo)
      BY <1>10, <1>t, <2>1, <2>3 DEF StoredLine, Emit
    <3>2. order' \in Seq(Text) /\ stored' \in Seq(StoredLine)
      <4>1. CASE Fresh(Head(todo))
        <5> DEFINE all == Append(order, Head(todo))
        <5>1. all \in Seq(Text) /\ Len(all) \in Nat
          BY <1>t, <3>1
        <5>2. order' = IF Len(all) > Cap THEN SubSeq(all, Cap \div 2 + 1, Len(all)) ELSE all
          BY <1>10, <2>3, <4>1 DEF Emit, Remember
        <5> HIDE DEF all
        <5>3. Cap \div 2 + 1 \in Nat /\ Cap \div 2 + 1 >= 1
          BY Bounds
        <5>4. order' \in Seq(Text)
          BY <5>1, <5>2, <5>3
        <5>5. QED
          BY <1>10, <2>3, <3>1, <4>1, <5>4 DEF Emit
      <4>2. CASE ~Fresh(Head(todo))
        BY <1>10, <1>t, <2>3, <4>2 DEF Emit
      <4>3. QED
        BY <4>1, <4>2
    <3>3. QED
      BY <1>10, <2>3, <3>1, <3>2 DEF Emit, pane, tail, TypeOK
  <2>4. QED
    BY <2>2, <2>3
<1>11. CASE Interrupt
  BY <1>11 DEF Interrupt, pane, tail, snapshot, TypeOK
<1>12. CASE StopWorker
  BY <1>12 DEF StopWorker, pane, tail, snapshot, TypeOK
<1>13. CASE Output
  <2>1. printed' \in Half /\ printed' \in 0..MaxPrints
    BY <1>13, <1>p, Bounds DEF Output, Half
  <2>2. file' \in Seq(Half) /\ screen' \in Screen
    <3>1. CASE Draws
      BY <1>13, <1>t, <3>1 DEF Output, Screen
    <3>2. CASE ~Draws
      <4>1. screen' = screen /\ file' = IF piped THEN Append(file, printed') ELSE file
        BY <1>13, <3>2 DEF Output
      <4>2. Append(file, printed') \in Seq(Half)
        BY <1>t, <2>1
      <4>3. QED
        BY <1>t, <4>1, <4>2 DEF TypeOK
    <3>3. QED
      BY <3>1, <3>2
  <2>3. QED
    BY <1>13, <2>1, <2>2 DEF Output, tail, snapshot, TypeOK
<1>14. CASE PaneEnds
  BY <1>14 DEF PaneEnds, tail, snapshot, TypeOK
<1>15. CASE Disturb
  <2>1. file' \in Seq(Half) /\ piped' \in BOOLEAN /\ cuts' \in 0..MaxCuts
    <3>1. cuts < MaxCuts /\ cuts' = cuts + 1 /\ (file' = <<>> \/ file' = file) /\ (piped' = piped \/ piped' = ~piped)
      BY <1>15 DEF Disturb, Toggle
    <3>2. cuts' \in 0..MaxCuts
      BY <1>p, <3>1, Bounds
    <3>3. QED
      <4>1. piped \in BOOLEAN
        BY DEF TypeOK
      <4>2. piped' \in BOOLEAN
        BY <3>1, <4>1
      <4>3. file' \in Seq(Half)
        <5>1. <<>> \in Seq(Half)
          OBVIOUS
        <5>2. QED
          BY <1>t, <3>1, <5>1, Zenon
      <4>4. QED
        BY <3>2, <4>2, <4>3
  <2>2. QED
    BY <1>15, <2>1 DEF Disturb, tail, snapshot, TypeOK
<1>16. CASE UNCHANGED vars
  BY <1>16 DEF vars, pane, tail, snapshot, TypeOK
<1>17. QED
  BY <1>1, <1>2, <1>3, <1>4, <1>5, <1>6, <1>7, <1>8, <1>9, <1>10, <1>11, <1>12, <1>13, <1>14, <1>15,
     <1>16 DEF Next, Cli

LEMMA StageInitially == Init => StageOK
<1> SUFFICES ASSUME Init PROVE StageOK
  OBVIOUS
<1>1. Len(stored) = 0
  BY DEF Init
<1>2. /\ pc = "start" /\ armed = FALSE /\ order = <<>> /\ live = 0 /\ stored = <<>> /\ buffer = <<>>
  BY DEF Init
<1>3. QED
  BY <1>1, <1>2 DEF StageOK

LEMMA StagePreserved == TypeOK /\ StageOK /\ [Next]_vars => StageOK'
<1> SUFFICES ASSUME TypeOK, StageOK, [Next]_vars PROVE StageOK'
  OBVIOUS
<1>0. Len(stored) \in Nat /\ live \in Nat /\ stored \in Seq(StoredLine)
  <2>1. live \in Nat /\ stored \in Seq(StoredLine)
    BY DEF TypeOK
  <2>2. QED
    BY <2>1
<1> USE DEF StageOK, Draws
<1>1. CASE Spawn
  BY <1>1 DEF Spawn, After, tail, snapshot
<1>2. CASE StartWorker
  BY <1>0, <1>2 DEF StartWorker, pane, tail, snapshot
<1>3. CASE CapturePaneHistory
  BY <1>3 DEF CapturePaneHistory, After, pane, tail, snapshot
<1>4. CASE Backfill
  <2>1. CASE todo # <<>>
    <3>1. Len(stored') \in Nat
      BY <1>0, <1>4, <2>1 DEF Backfill
    <3>2. QED
      BY <1>4, <2>1, <3>1 DEF Backfill, tail, snapshot
  <2>2. CASE todo = <<>>
    BY <1>0, <1>4, <2>2 DEF Backfill, tail, snapshot
  <2>3. QED
    BY <2>1, <2>2
<1>5. CASE Open
  BY <1>5 DEF Open, After, pane, snapshot
<1>6. CASE Stat
  BY <1>6 DEF Stat, pane, snapshot
<1>7. CASE Read
  BY <1>7 DEF Read, After, pane, snapshot
<1>8. CASE Split
  <2>1. live <= Len(stored')
    <3>1. stored' = stored \/ \E x : stored' = Append(stored, x)
      BY <1>8 DEF Split
    <3>2. QED
      BY <1>0, <3>1
  <2>2. QED
    BY <1>8, <2>1 DEF Split, pane, snapshot
<1>9. CASE Look
  BY <1>9 DEF Look, pane, tail
<1>10. CASE Emit
  <2>1. live <= Len(stored')
    <3>1. stored' = stored \/ \E x : stored' = Append(stored, x)
      BY <1>10 DEF Emit
    <3>2. QED
      BY <1>0, <3>1
  <2>2. pc = "emit" /\ pc' \in {"emit", "look"} /\ UNCHANGED <<command, armed, buffer, live>>
    BY <1>10 DEF Emit, tail
  <2>3. QED
    BY <2>1, <2>2
<1>11. CASE Interrupt
  BY <1>11 DEF Interrupt, pane, tail, snapshot
<1>12. CASE StopWorker
  BY <1>12 DEF StopWorker, pane, tail, snapshot
<1>13. CASE Output
  BY <1>13 DEF Output, tail, snapshot
<1>14. CASE PaneEnds
  BY <1>14 DEF PaneEnds, tail, snapshot
<1>15. CASE Disturb
  BY <1>15 DEF Disturb, tail, snapshot
<1>16. CASE UNCHANGED vars
  BY <1>16 DEF vars, pane, tail, snapshot
<1>17. QED
  BY <1>1, <1>2, <1>3, <1>4, <1>5, <1>6, <1>7, <1>8, <1>9, <1>10, <1>11, <1>12, <1>13, <1>14, <1>15,
     <1>16 DEF Next, Cli

-----------------------------------------------------------------------------
(***************************************************************************)
(* The snapshots: what is remembered, and what of a snapshot is captured.  *)
(***************************************************************************)
\* What a line that is captured does to the memory.
LEMMA RememberFacts ==
  ASSUME TypeOK, NEW h \in Text, Remember(h)
  PROVE  \E c \in Nat : /\ c <= Len(order) /\ c <= Cap \div 2
                        /\ order' \in Seq(Text) /\ Len(order') = Len(order) + 1 - c
                        /\ \A k \in 1..Len(order) - c : order'[k] = order[k + c]
                        /\ order'[Len(order')] = h
                        /\ c > 0 => Len(order) >= Cap
                        /\ Len(order) + 1 > Cap => c = Cap \div 2
<1> DEFINE all == Append(order, h)
           d == Cap \div 2
<1>1. order \in Seq(Text)
  BY DEF TypeOK
<1>2. /\ all \in Seq(Text) /\ Len(all) = Len(order) + 1 /\ all[Len(order) + 1] = h /\ Len(order) \in Nat
      /\ \A k \in 1..Len(order) : all[k] = order[k]
  BY <1>1
<1>3. d \in Nat /\ d <= Cap /\ d < Cap /\ Cap \in Nat
  BY Bounds
<1>4. order' = IF Len(all) > Cap THEN SubSeq(all, d + 1, Len(all)) ELSE all
  BY DEF Remember
<1> HIDE DEF all, d
<1>5. CASE Len(all) > Cap
  <2>1. order' = SubSeq(all, d + 1, Len(all))
    BY <1>4, <1>5
  <2>2. /\ order' \in Seq(Text) /\ Len(order') = Len(all) - d
        /\ \A k \in 1..Len(all) - d : order'[k] = all[k + d]
    BY <1>2, <1>3, <1>5, <2>1
  <2>3. d <= Len(order) /\ Len(order) >= Cap /\ Len(order') = Len(order) + 1 - d /\ Len(order') \in 1..Len(all) - d
    BY <1>2, <1>3, <1>5, <2>2
  <2>4. \A k \in 1..Len(order) - d : order'[k] = order[k + d]
    BY <1>2, <1>3, <2>2, <2>3
  <2>5. order'[Len(order')] = h
    BY <1>2, <1>3, <2>2, <2>3
  <2>6. d = Cap \div 2
    BY DEF d
  <2>7. d \in Nat
    BY <1>3
  <2>8. WITNESS d \in Nat
  <2>9. QED
    BY <1>3, <2>2, <2>3, <2>4, <2>5, <2>6
<1>6. CASE ~(Len(all) > Cap)
  <2>1. order' = all
    BY <1>4, <1>6
  <2>2. /\ 0 \in Nat /\ 0 <= Len(order) /\ 0 <= Cap \div 2
        /\ order' \in Seq(Text) /\ Len(order') = Len(order) + 1 - 0
        /\ \A k \in 1..Len(order) - 0 : order'[k] = order[k + 0]
        /\ order'[Len(order')] = h /\ ~(0 > 0) /\ ~(Len(order) + 1 > Cap)
    BY <1>2, <1>3, <1>6, <2>1 DEF d
  <2>3. QED
    BY <2>2
<1>7. QED
  BY <1>5, <1>6

\* A text that is fresh: it was not captured lately, and it is captured now.
LEMMA FreshFacts ==
  ASSUME TypeOK, StageOK, MemoryOK, DedupWindow, Draws, armed, UNCHANGED <<command, armed, live>>,
         NEW h \in Text, Fresh(h), stored' = Append(stored, h), Remember(h)
  PROVE  MemoryOK' /\ DedupWindow'
<1> DEFINE S == Len(stored)
           L == Len(order)
<1>1. stored \in Seq(Text) /\ order \in Seq(Text) /\ live \in Nat
  BY DEF TypeOK, StoredLine
<1>2. S \in Nat /\ L \in Nat /\ live <= S /\ L <= S - live
  BY <1>1 DEF MemoryOK, StageOK
<1>3. /\ Len(stored') = S + 1 /\ stored'[S + 1] = h
      /\ \A k \in 1..S : stored'[k] = stored[k]
  BY <1>1
<1>4. PICK c \in Nat : /\ c <= L /\ c <= Cap \div 2
                       /\ order' \in Seq(Text) /\ Len(order') = L + 1 - c
                       /\ \A k \in 1..L - c : order'[k] = order[k + c]
                       /\ order'[Len(order')] = h
                       /\ c > 0 => L >= Cap
                       /\ L + 1 > Cap => c = Cap \div 2
  BY RememberFacts
<1>5. \A k \in 1..L : order[k] = stored[S - L + k]
  BY DEF MemoryOK
<1>6. S - live > L => L > Cap - Cap \div 2
  BY DEF MemoryOK
<1>7. Cap \in Nat /\ Cap \div 2 \in Nat /\ Cap \div 2 < Cap
  BY Bounds
<1>8. \A k \in 1..L : order[k] # h
  <2>1. h \notin ToSet(order)
    BY DEF Fresh, Emitted
  <2>2. QED
    BY <1>1, <2>1 DEF ToSet
<1>9. Draws' /\ armed' /\ live' = live
  BY DEF Draws
<1> DEFINE d == Cap \div 2
<1> HIDE DEF S, L, d
<1>10. MemoryOK'
  <2>1. Len(order') <= Len(stored') - live'
    BY <1>1, <1>2, <1>3, <1>4, <1>9
  <2>2. ASSUME NEW k \in 1..Len(order') PROVE order'[k] = stored'[Len(stored') - Len(order') + k]
    <3>1. Len(stored') - Len(order') + k = S - L + (k + c)
      BY <1>2, <1>3, <1>4
    <3>2. CASE k = Len(order')
      <4>1. S - L + (k + c) = S + 1
        BY <1>2, <1>4, <3>2
      <4>2. QED
        BY <1>3, <1>4, <3>1, <3>2, <4>1
    <3>3. CASE k # Len(order')
      <4>1. k \in 1..L - c /\ k + c \in 1..L /\ S - L + (k + c) \in 1..S
        BY <1>1, <1>2, <1>4, <3>3
      <4>2. QED
        BY <1>3, <1>4, <1>5, <3>1, <4>1
    <3>4. QED
      BY <3>2, <3>3
  <2>3. Len(stored') - live' > Len(order') => Len(order') > Cap - d
    <3>1. CASE L + 1 > Cap
      <4>1. c = d
        BY <1>4, <3>1 DEF d
      <4>2. QED
        BY <1>2, <1>4, <1>7, <3>1, <4>1 DEF d
    <3>2. CASE ~(L + 1 > Cap)
      <4>1. c = 0
        BY <1>2, <1>4, <1>7, <3>2
      <4>2. QED
        BY <1>1, <1>2, <1>3, <1>4, <1>6, <1>7, <1>9, <4>1 DEF d
    <3>3. QED
      BY <3>1, <3>2
  <2>4. QED
    BY <2>1, <2>2, <2>3 DEF MemoryOK, d
<1>11. DedupWindow'
  <2> SUFFICES ASSUME NEW i \in live+1..S+1, NEW j \in live+1..S+1, i < j, stored'[i] = stored'[j]
               PROVE  j - i >= Cap - d + 2
    BY <1>3, <1>9 DEF DedupWindow, d
  <2>1. CASE j = S + 1
    <3>1. i \in 1..S /\ stored[i] = h
      BY <1>1, <1>2, <1>3, <2>1
    <3>2. ~(i > S - L)
      <4> SUFFICES ASSUME i > S - L PROVE FALSE
        OBVIOUS
      <4>1. i - (S - L) \in 1..L /\ S - L + (i - (S - L)) = i
        BY <1>2, <3>1
      <4>2. order[i - (S - L)] = stored[i]
        BY <1>5, <4>1
      <4>3. QED
        BY <1>8, <3>1, <4>1, <4>2
    <3>3. S - live > L
      BY <1>1, <1>2, <3>1, <3>2
    <3>4. QED
      BY <1>1, <1>2, <1>6, <1>7, <2>1, <3>1, <3>2, <3>3 DEF d
  <2>2. CASE j # S + 1
    <3>1. i \in live+1..S /\ j \in live+1..S /\ i \in 1..S /\ j \in 1..S
      BY <1>1, <1>2, <2>2
    <3>2. stored[i] = stored[j]
      BY <1>3, <3>1
    <3>3. QED
      BY <3>1, <3>2 DEF DedupWindow, S, d
  <2>3. QED
    BY <2>1, <2>2
<1>12. QED
  BY <1>10, <1>11

LEMMA MemoryPreserved ==
  TypeOK /\ StageOK /\ MemoryOK /\ DedupWindow /\ [Next]_vars => MemoryOK' /\ DedupWindow'
<1> SUFFICES ASSUME TypeOK, StageOK, MemoryOK, DedupWindow, [Next]_vars PROVE MemoryOK' /\ DedupWindow'
  OBVIOUS
<1>1. ASSUME UNCHANGED <<command, armed, order, stored, live>> PROVE MemoryOK' /\ DedupWindow'
  BY <1>1 DEF MemoryOK, DedupWindow, Draws
<1>2. ASSUME ~(Draws' /\ armed') PROVE MemoryOK' /\ DedupWindow'
  BY <1>2 DEF MemoryOK, DedupWindow
<1>3. CASE StartWorker
  BY <1>2, <1>3 DEF StartWorker, Draws
<1>4. CASE Backfill
  <2>1. CASE todo # <<>>
    BY <1>2, <1>4, <2>1 DEF Backfill, StageOK
  <2>2. CASE todo = <<>>
    <3>1. stored' = stored /\ live' = Len(stored) /\ order' = <<>> /\ Len(stored) \in Nat
      <4>1. stored \in Seq(StoredLine)
        BY DEF TypeOK
      <4>2. QED
        BY <1>4, <2>2, <4>1 DEF Backfill, StageOK, snapshot
    <3>2. Len(order') = 0 /\ Len(stored') - live' = 0 /\ live' + 1..Len(stored') = {}
      BY <3>1
    <3>3. MemoryOK'
      BY <3>2 DEF MemoryOK
    <3>4. DedupWindow'
      BY <3>2 DEF DedupWindow
    <3>5. QED
      BY <3>3, <3>4
  <2>3. QED
    BY <2>1, <2>2
<1>5. CASE Split
  BY <1>2, <1>5 DEF Split, StageOK, Draws
<1>6. CASE Emit
  <2>1. Draws /\ armed /\ UNCHANGED <<command, armed, live>>
    BY <1>6 DEF Emit, StageOK
  <2>2. CASE todo # <<>> /\ Fresh(Head(todo))
    <3>1. Head(todo) \in Text
      <4>1. todo \in Seq(Text)
        BY <2>1 DEF TypeOK, StoredLine
      <4>2. QED
        BY <2>2, <4>1
    <3>2. stored' = Append(stored, Head(todo)) /\ Remember(Head(todo))
      BY <1>6, <2>2 DEF Emit
    <3>3. QED
      BY <2>1, <2>2, <3>1, <3>2, FreshFacts
  <2>3. CASE ~(todo # <<>> /\ Fresh(Head(todo)))
    BY <1>1, <1>6, <2>1, <2>3 DEF Emit
  <2>4. QED
    BY <2>2, <2>3
<1>7. CASE Spawn \/ CapturePaneHistory \/ Open \/ Stat \/ Read \/ Look \/ StopWorker
  BY <1>1, <1>7 DEF Spawn, CapturePaneHistory, Open, Stat, Read, Look, StopWorker, snapshot
<1>8. CASE Interrupt \/ Output \/ PaneEnds \/ Disturb \/ UNCHANGED vars
  BY <1>1, <1>8 DEF Interrupt, Output, PaneEnds, Disturb, vars, snapshot
<1>9. QED
  BY <1>3, <1>4, <1>5, <1>6, <1>7, <1>8 DEF Next, Cli

LEMMA EmitPreserved == TypeOK /\ StageOK /\ MemoryOK /\ EmitOK /\ [Next]_vars => EmitOK'
<1> SUFFICES ASSUME TypeOK, StageOK, MemoryOK, EmitOK, [Next]_vars, pc' = "emit" PROVE EmitOK'
  BY DEF EmitOK
<1>1. ASSUME pc = "emit", UNCHANGED <<prev, cur, todo, stored, live>> PROVE EmitOK'
  BY <1>1 DEF EmitOK
<1>2. CASE Look
  <2>1. cur' = screen /\ todo' = screen
    BY <1>2 DEF Look
  <2>2. QED
    BY <2>1 DEF EmitOK
<1>3. CASE Emit
  <2>1. pc = "emit" /\ Draws /\ armed /\ todo # <<>> /\ UNCHANGED <<prev, cur, live>> /\ todo' = Tail(todo)
    BY <1>3 DEF Emit, StageOK
  <2>2. stored \in Seq(Text) /\ order \in Seq(Text) /\ todo \in Seq(Text) /\ live \in Nat /\ live <= Len(stored)
    BY <2>1 DEF TypeOK, StageOK, StoredLine
  <2>3. stored' = stored \/ stored' = Append(stored, Head(todo))
    BY <1>3, <2>1 DEF Emit
  <2>4. \A k \in live+1..Len(stored) : k \in live'+1..Len(stored') /\ stored'[k] = stored[k]
    BY <2>1, <2>2, <2>3
  <2>5. \A x \in ToSet(todo) : x = Head(todo) \/ x \in ToSet(todo')
    <3>1. \A k \in DOMAIN todo : k = 1 \/ (k - 1 \in DOMAIN Tail(todo) /\ Tail(todo)[k - 1] = todo[k])
      BY <2>1, <2>2
    <3>2. todo[1] = Head(todo)
      BY <2>1, <2>2
    <3>3. QED
      BY <2>1, <3>1, <3>2 DEF ToSet
  <2>6. ASSUME Head(todo) \in ToSet(prev)
        PROVE  \E k \in live'+1..Len(stored') : stored'[k] = Head(todo)
    <3>1. CASE Fresh(Head(todo))
      <4>1. stored' = Append(stored, Head(todo))
        BY <1>3, <2>1, <3>1 DEF Emit
      <4>2. stored'[Len(stored')] = Head(todo) /\ Len(stored') \in live'+1..Len(stored')
        BY <2>1, <2>2, <4>1
      <4>3. QED
        BY <4>2
    <3>2. CASE ~Fresh(Head(todo))
      <4>1. Head(todo) \in ToSet(order)
        BY <2>6, <3>2 DEF Fresh, Emitted
      <4>2. PICK k \in 1..Len(order) : order[k] = Head(todo)
        BY <2>2, <4>1 DEF ToSet
      <4>3. /\ Len(order) <= Len(stored) - live
            /\ order[k] = stored[Len(stored) - Len(order) + k]
        BY <2>1 DEF MemoryOK
      <4>4. Len(stored) - Len(order) + k \in live+1..Len(stored)
        BY <2>2, <4>3
      <4>5. QED
        BY <2>4, <4>2, <4>3, <4>4
    <3>3. QED
      BY <3>1, <3>2
  <2>7. ASSUME NEW x \in ToSet(cur) \cap ToSet(prev)
        PROVE  x \in ToSet(todo') \/ \E k \in live'+1..Len(stored') : stored'[k] = x
    <3>1. x \in ToSet(todo) \/ \E k \in live+1..Len(stored) : stored[k] = x
      BY <2>1 DEF EmitOK
    <3>2. CASE x \in ToSet(todo)
      BY <2>5, <2>6, <2>7, <3>2
    <3>3. CASE \E k \in live+1..Len(stored) : stored[k] = x
      BY <2>4, <3>3
    <3>4. QED
      BY <3>1, <3>2, <3>3
  <2>8. QED
    BY <2>1, <2>7 DEF EmitOK
<1>4. CASE Spawn \/ StartWorker \/ CapturePaneHistory \/ Backfill \/ Open \/ Stat \/ Read \/ Split \/ StopWorker
  BY <1>4 DEF Spawn, StartWorker, CapturePaneHistory, Backfill, Open, Stat, Read, Split, StopWorker, After
<1>5. CASE Interrupt \/ Output \/ PaneEnds \/ Disturb \/ UNCHANGED vars
  BY <1>1, <1>5 DEF Interrupt, Output, PaneEnds, Disturb, vars, snapshot
<1>6. QED
  BY <1>2, <1>3, <1>4, <1>5 DEF Next, Cli

\* Once a snapshot is worked through, what it shares with the one before is captured.
LEMMA EmitMeans == TypeOK /\ StageOK /\ EmitOK => StableIsStored
<1> SUFFICES ASSUME TypeOK, StageOK, EmitOK, pc = "emit", todo = <<>>, NEW x \in ToSet(cur) \cap ToSet(prev)
             PROVE  x \in ToSet(SubSeq(stored, live + 1, Len(stored)))
  BY DEF StableIsStored
<1>1. stored \in Seq(StoredLine) /\ live \in Nat /\ live <= Len(stored)
  BY DEF TypeOK, StageOK
<1>2. x \notin ToSet(todo)
  BY DEF ToSet
<1>3. PICK k \in live+1..Len(stored) : stored[k] = x
  BY <1>2 DEF EmitOK
<1> DEFINE s == SubSeq(stored, live + 1, Len(stored))
<1>4. k - live \in DOMAIN s /\ s[k - live] = stored[k]
  BY <1>1
<1>5. QED
  BY <1>3, <1>4 DEF ToSet

LEMMA BoundPreserved == TypeOK /\ StageOK /\ MemoryIsBounded /\ [Next]_vars => MemoryIsBounded'
<1> SUFFICES ASSUME TypeOK, StageOK, MemoryIsBounded, [Next]_vars, Cap > 1 PROVE Len(order') <= Cap
  BY DEF MemoryIsBounded
<1>1. CASE order' = order
  BY <1>1 DEF MemoryIsBounded
<1>2. CASE Emit /\ order' # order
  <2>1. Draws /\ todo # <<>> /\ Remember(Head(todo))
    BY <1>2 DEF Emit, StageOK
  <2>2. Head(todo) \in Text /\ order \in Seq(Text)
    <3>1. todo \in Seq(Text) /\ order \in Seq(Text)
      BY <2>1 DEF TypeOK, StoredLine
    <3>2. QED
      BY <2>1, <3>1
  <2>3. PICK c \in Nat : /\ Len(order') = Len(order) + 1 - c
                         /\ Len(order) + 1 > Cap => c = Cap \div 2
    BY <2>1, <2>2, RememberFacts
  <2>4. Cap \in Nat /\ Cap \div 2 >= 1 /\ Len(order) \in Nat /\ Len(order) <= Cap /\ Cap \div 2 \in Nat
    BY <2>2, Bounds DEF MemoryIsBounded
  <2>5. QED
    BY <2>3, <2>4
<1>3. QED
  BY <1>1, <1>2 DEF Next, Cli, Spawn, StartWorker, CapturePaneHistory, Backfill, Open, Stat, Read, Split,
     Look, Interrupt, StopWorker, Output, PaneEnds, Disturb, vars, snapshot

-----------------------------------------------------------------------------
(***************************************************************************)
(* The tail: nothing is captured twice.                                    *)
(***************************************************************************)
LEMMA IncreasingConcat ==
  ASSUME NEW s \in Seq(Nat), NEW t \in Seq(Nat), Increasing(s), Increasing(t), Below(s, t)
  PROVE  Increasing(s \o t)
<1>1. /\ Len(s) \in Nat /\ Len(t) \in Nat /\ DOMAIN s = 1..Len(s) /\ DOMAIN t = 1..Len(t)
      /\ DOMAIN (s \o t) = 1..Len(s) + Len(t)
  OBVIOUS
<1>2. /\ \A i \in 1..Len(s) : (s \o t)[i] = s[i]
      /\ \A i \in 1..Len(s) + Len(t) : i > Len(s) => i - Len(s) \in 1..Len(t) /\ (s \o t)[i] = t[i - Len(s)]
  OBVIOUS
<1> SUFFICES ASSUME NEW i \in 1..Len(s) + Len(t), NEW j \in 1..Len(s) + Len(t), i < j
             PROVE  (s \o t)[i] < (s \o t)[j]
  BY <1>1 DEF Increasing
<1>3. CASE j <= Len(s)
  <2>1. i \in DOMAIN s /\ j \in DOMAIN s
    BY <1>1, <1>3
  <2>2. QED
    BY <1>1, <1>2, <2>1 DEF Increasing
<1>4. CASE i <= Len(s) /\ j > Len(s)
  <2>1. i \in DOMAIN s /\ j - Len(s) \in DOMAIN t
    BY <1>1, <1>4
  <2>2. s[i] < t[j - Len(s)]
    BY <2>1 DEF Below
  <2>3. QED
    BY <1>1, <1>2, <1>4, <2>1, <2>2
<1>5. CASE i > Len(s)
  <2>1. i - Len(s) \in DOMAIN t /\ j - Len(s) \in DOMAIN t /\ i - Len(s) < j - Len(s)
    BY <1>1, <1>5
  <2>2. t[i - Len(s)] < t[j - Len(s)]
    BY <2>1 DEF Increasing
  <2>3. QED
    BY <1>1, <1>2, <1>5, <2>2
<1>6. QED
  BY <1>1, <1>3, <1>4, <1>5

LEMMA ConcatElements ==
  ASSUME NEW s \in Seq(Nat), NEW t \in Seq(Nat), NEW i \in DOMAIN (s \o t)
  PROVE  \/ i \in DOMAIN s /\ (s \o t)[i] = s[i]
         \/ i - Len(s) \in DOMAIN t /\ (s \o t)[i] = t[i - Len(s)]
OBVIOUS

LEMMA HalvesAreNumbers ==
  ASSUME NEW s \in Seq(Half)
  PROVE  s \in Seq(Nat)
<1>1. Half \subseteq Nat
  BY DEF Half
<1>2. Len(s) \in Nat /\ \A i \in 1..Len(s) : s[i] \in Half
  OBVIOUS
<1>3. \A i \in 1..Len(s) : s[i] \in Nat
  BY <1>1, <1>2
<1>4. QED
  BY <1>2, <1>3

LEMMA CapturedType ==
  ASSUME TypeOK, ~Draws
  PROVE  Captured \in Seq(Half) /\ FlattenSeq(stored) \in Seq(Half)
<1>1. stored \in Seq(Seq(Half)) /\ buffer \in Seq(Half)
  BY DEF TypeOK, StoredLine
<1>2. FlattenSeq(stored) \in Seq(Half)
  BY <1>1, FlattenType
<1>3. QED
  BY <1>1, <1>2 DEF Captured

\* The concatenation of sequences is associative.
LEMMA ConcatAssoc ==
  ASSUME NEW s \in Seq(Half), NEW t \in Seq(Half), NEW u \in Seq(Half)
  PROVE  (s \o t) \o u = s \o (t \o u)
OBVIOUS

LEMMA EmptyRight ==
  ASSUME NEW A, NEW s \in Seq(A)
  PROVE  s \o <<>> = s /\ <<>> \o s = s
OBVIOUS

\* A line that is split off has been captured before.
LEMMA SplitFacts ==
  ASSUME TypeOK, ~Draws, NEW k \in 1..Len(buffer), stored' = Append(stored, SubSeq(buffer, 1, k)),
         buffer' = SubSeq(buffer, k + 1, Len(buffer))
  PROVE  /\ FlattenSeq(stored') = FlattenSeq(stored) \o SubSeq(buffer, 1, k)
         /\ SubSeq(buffer, 1, k) \o buffer' = buffer
         /\ Captured' = Captured
<1>1. stored \in Seq(Seq(Half)) /\ buffer \in Seq(Half) /\ FlattenSeq(stored) \in Seq(Half)
  BY CapturedType DEF TypeOK, StoredLine
<1> DEFINE x == SubSeq(buffer, 1, k)
<1>2. x \in Seq(Half) /\ buffer' \in Seq(Half) /\ x \o buffer' = buffer
  BY <1>1
<1> HIDE DEF x
<1>3. FlattenSeq(stored') = FlattenSeq(stored) \o x
  BY <1>1, <1>2, FlattenAppend DEF x
<1>4. Captured' = (FlattenSeq(stored) \o x) \o buffer'
  BY <1>3 DEF Captured
<1>5. Captured = FlattenSeq(stored) \o (x \o buffer')
  BY <1>2 DEF Captured
<1>6. Captured' = Captured
  <2> DEFINE f == FlattenSeq(stored)
             y == buffer'
  <2>1. f \in Seq(Half) /\ x \in Seq(Half) /\ y \in Seq(Half) /\ Captured' = (f \o x) \o y /\ Captured = f \o (x \o y)
    BY <1>1, <1>2, <1>4, <1>5
  <2> HIDE DEF f, y
  <2>2. (f \o x) \o y = f \o (x \o y)
    BY <2>1, ConcatAssoc
  <2>3. QED
    BY <2>1, <2>2
<1>7. QED
  BY <1>2, <1>3, <1>6 DEF x

\* A read, and a line of the scrollback, come after what was captured.
LEMMA ReadCaptures ==
  ASSUME TypeOK, ~Draws, buffer' = buffer \o There, stored' = stored
  PROVE  Captured' = Captured \o There
<1>1. buffer \in Seq(Half) /\ FlattenSeq(stored) \in Seq(Half) /\ There \in Seq(Half)
  BY CapturedType, ReadFacts DEF TypeOK
<1>2. Captured' = FlattenSeq(stored) \o (buffer \o There)
  BY DEF Captured
<1>3. QED
  BY <1>1, <1>2, ConcatAssoc DEF Captured

LEMMA BackfillCaptures ==
  ASSUME TypeOK, ~Draws, buffer = <<>>, buffer' = <<>>, NEW x \in Seq(Half), stored' = Append(stored, x)
  PROVE  Captured' = Captured \o x
<1>1. stored \in Seq(Seq(Half)) /\ FlattenSeq(stored) \in Seq(Half)
  BY CapturedType DEF TypeOK, StoredLine
<1>2. FlattenSeq(stored') = FlattenSeq(stored) \o x
  BY <1>1, FlattenAppend
<1>3. FlattenSeq(stored) \o x \in Seq(Half)
  BY <1>1
<1>4. Captured' = FlattenSeq(stored) \o x /\ Captured = FlattenSeq(stored)
  BY <1>1, <1>2, <1>3, EmptyRight DEF Captured
<1>5. QED
  BY <1>4

LEMMA CapturedGrows ==
  ASSUME NEW s \in Seq(Nat), NEW t \in Seq(Nat), NEW n \in Nat, Increasing(s), Increasing(t), Below(s, t),
         UpTo(s, n), UpTo(t, n)
  PROVE  Increasing(s \o t) /\ UpTo(s \o t, n)
<1>1. Increasing(s \o t)
  BY IncreasingConcat
<1>2. ASSUME NEW i \in DOMAIN (s \o t) PROVE (s \o t)[i] <= n
  BY <1>2, ConcatElements DEF UpTo
<1>3. QED
  BY <1>1, <1>2 DEF UpTo

\* Steps that touch neither the file, nor the tail, nor what is stored.
LEMMA OnceStutters ==
  ASSUME OnceOK, UNCHANGED <<command, stored, buffer, file, printed, offset, todo>>,
         pc' = pc \/ pc' \notin {"stat", "read", "split", "backfill"}
  PROVE  OnceOK'
<1>1. Captured' = Captured /\ Draws' = Draws
  BY DEF Captured, Draws
<1>2. CapturedIsPrinted' /\ FileIsPrinted'
  BY <1>1 DEF OnceOK, CapturedIsPrinted, FileIsPrinted, Increasing, UpTo
<1>3. UnreadIsNew'
  BY <1>1 DEF OnceOK, UnreadIsNew, HasTail
<1>4. ScrollbackIsNew'
  BY <1>1 DEF OnceOK, ScrollbackIsNew, Increasing, UpTo, OneLine, Below, LineOf
<1>5. QED
  BY <1>2, <1>3, <1>4 DEF OnceOK

\* The scrollback: the numbers of a line are its own, and the lines are in order.
LEMMA ScrollbackFacts ==
  ASSUME TypeOK, StageOK, ~Draws, CapturePaneHistory
  PROVE  /\ Captured' = <<>>
         /\ \A l \in DOMAIN todo' : Increasing(todo'[l]) /\ UpTo(todo'[l], printed) /\ OneLine(todo'[l])
         /\ \A l, m \in DOMAIN todo' : l < m => Below(todo'[l], todo'[m])
<1> DEFINE L(l) == IF 2*l <= printed THEN <<2*l - 1, 2*l>> ELSE <<2*l - 1>>
<1>1. printed \in Nat /\ LineOf(printed) \in Nat
  <2>1. printed \in 0..MaxPrints
    BY DEF TypeOK
  <2>2. QED
    BY <2>1, Bounds DEF LineOf
<1>2. todo' = [l \in 1..LineOf(printed) |-> L(l)]
  BY DEF CapturePaneHistory
<1>3. Captured' = <<>>
  <2>1. stored' = <<>> /\ buffer' = <<>> /\ Len(<<>>) = 0
    BY DEF CapturePaneHistory, After, StageOK, tail
  <2>2. FlattenSeq(stored') = <<>>
    BY <2>1 DEF FlattenSeq
  <2>3. <<>> \o <<>> = <<>>
    OBVIOUS
  <2>4. QED
    BY <2>1, <2>2, <2>3 DEF Captured
<1>4. ASSUME NEW l \in 1..LineOf(printed)
      PROVE  /\ l \in Nat /\ 2*l - 1 <= printed
             /\ DOMAIN L(l) \subseteq {1, 2} /\ 1 \in DOMAIN L(l) /\ L(l)[1] = 2*l - 1
             /\ 2 \in DOMAIN L(l) => L(l)[2] = 2*l /\ 2*l <= printed
  <2>1. l \in Nat /\ 2*l - 1 <= printed
    BY <1>1 DEF LineOf
  <2>2. CASE 2*l <= printed
    BY <2>1, <2>2
  <2>3. CASE ~(2*l <= printed)
    BY <2>1, <2>3
  <2>4. QED
    BY <2>1, <2>2, <2>3
<1> HIDE DEF L
<1>5. ASSUME NEW l \in 1..LineOf(printed)
      PROVE  Increasing(L(l)) /\ UpTo(L(l), printed) /\ OneLine(L(l))
  <2>1. \A i \in DOMAIN L(l) : i \in {1, 2} /\ (i = 1 => L(l)[i] = 2*l - 1) /\ (i = 2 => L(l)[i] = 2*l /\ 2*l <= printed)
    BY <1>4
  <2>2. Increasing(L(l))
    BY <1>4, <2>1 DEF Increasing
  <2>3. UpTo(L(l), printed)
    BY <1>4, <2>1 DEF UpTo
  <2>4. OneLine(L(l))
    <3>1. \A i \in DOMAIN L(l) : LineOf(L(l)[i]) = l
      BY <1>4, <2>1 DEF LineOf
    <3>2. QED
      BY <3>1 DEF OneLine
  <2>5. QED
    BY <2>2, <2>3, <2>4
<1>6. ASSUME NEW l \in 1..LineOf(printed), NEW m \in 1..LineOf(printed), l < m PROVE Below(L(l), L(m))
  <2>1. \A i \in DOMAIN L(l) : L(l)[i] \in {2*l - 1, 2*l}
    BY <1>4
  <2>2. \A j \in DOMAIN L(m) : L(m)[j] \in {2*m - 1, 2*m}
    BY <1>4
  <2>3. 2*l < 2*m - 1 /\ 2*l - 1 < 2*l /\ 2*m - 1 < 2*m
    BY <1>1, <1>6
  <2>4. QED
    BY <1>1, <2>1, <2>2, <2>3 DEF Below
<1>7. DOMAIN todo' = 1..LineOf(printed) /\ \A l \in 1..LineOf(printed) : todo'[l] = L(l)
  BY <1>2
<1>8. QED
  BY <1>3, <1>5, <1>6, <1>7

LEMMA OnceInHistory ==
  ASSUME TypeOK, StageOK, OnceOK, CapturePaneHistory
  PROVE  OnceOK'
<1>1. /\ pc' = "backfill" /\ Draws' = Draws
      /\ UNCHANGED <<stored, buffer, file, printed, offset>>
  BY DEF CapturePaneHistory, After, Draws, pane, tail
<1>2. Captured' = Captured
  BY <1>1 DEF Captured
<1>3. CapturedIsPrinted' /\ FileIsPrinted' /\ UnreadIsNew'
  BY <1>1, <1>2 DEF OnceOK, CapturedIsPrinted, FileIsPrinted, UnreadIsNew, HasTail, Increasing, UpTo
<1>4. ScrollbackIsNew'
  <2> SUFFICES ASSUME ~Draws PROVE ScrollbackIsNew'
    BY <1>1 DEF ScrollbackIsNew
  <2>1. /\ Captured' = <<>>
        /\ \A l \in DOMAIN todo' : Increasing(todo'[l]) /\ UpTo(todo'[l], printed) /\ OneLine(todo'[l])
        /\ \A l, m \in DOMAIN todo' : l < m => Below(todo'[l], todo'[m])
    BY ScrollbackFacts
  <2>2. \A l \in DOMAIN todo' : Below(Captured', todo'[l])
    BY <2>1 DEF Below
  <2>3. QED
    BY <1>1, <2>1, <2>2 DEF ScrollbackIsNew, Increasing, UpTo, OneLine, Below, LineOf
<1>5. QED
  BY <1>3, <1>4 DEF OnceOK

LEMMA OnceInBackfill ==
  ASSUME TypeOK, StageOK, OnceOK, Backfill
  PROVE  OnceOK'
<1>1. CASE Draws \/ todo = <<>>
  <2>1. FileIsPrinted'
    BY DEF Backfill, OnceOK, FileIsPrinted, Increasing, UpTo
  <2>2. CASE Draws
    <3>1. Draws'
      BY <2>2 DEF Backfill, Draws
    <3>2. QED
      BY <2>1, <3>1 DEF OnceOK, CapturedIsPrinted, UnreadIsNew, ScrollbackIsNew
  <2>3. CASE todo = <<>>
    <3>1. /\ UNCHANGED <<command, stored, buffer, file, printed, offset, todo>>
          /\ pc' \in {"look", "open"}
      BY <2>3 DEF Backfill, tail
    <3>2. QED
      BY <3>1, OnceStutters
  <2>4. QED
    BY <1>1, <2>2, <2>3
<1>2. CASE ~Draws /\ todo # <<>>
  <2> DEFINE x == Head(todo)
  <2>1. /\ pc = "backfill" /\ pc' = "backfill" /\ stored' = Append(stored, x) /\ todo' = Tail(todo)
        /\ UNCHANGED <<command, buffer, file, printed, offset>> /\ buffer = <<>>
    BY <1>2 DEF Backfill, tail, StageOK
  <2>2. todo \in Seq(Seq(Half)) /\ x \in Seq(Half) /\ x = todo[1] /\ 1 \in DOMAIN todo
    <3>1. todo \in Seq(Seq(Half))
      BY <1>2 DEF TypeOK, StoredLine
    <3>2. QED
      BY <1>2, <3>1
  <2>3. Draws' = Draws
    BY <2>1 DEF Draws
  <2>4. /\ Increasing(x) /\ UpTo(x, printed) /\ Below(Captured, x)
        /\ Increasing(Captured) /\ UpTo(Captured, printed)
    BY <1>2, <2>1, <2>2 DEF OnceOK, ScrollbackIsNew, CapturedIsPrinted
  <2>5. Captured \in Seq(Nat) /\ x \in Seq(Nat) /\ printed \in Nat
    <3>1. printed \in 0..MaxPrints
      BY DEF TypeOK
    <3>2. QED
      BY <1>2, <2>2, <3>1, CapturedType, HalvesAreNumbers, Bounds
  <2>6. Captured' = Captured \o x
    BY <1>2, <2>1, <2>2, BackfillCaptures
  <2> HIDE DEF x
  <2>7. Increasing(Captured \o x) /\ UpTo(Captured \o x, printed)
    BY <2>4, <2>5, CapturedGrows
  <2>8. CapturedIsPrinted' /\ FileIsPrinted' /\ UnreadIsNew'
    <3>1. Increasing(Captured') /\ UpTo(Captured', printed')
      BY <2>1, <2>6, <2>7
    <3>2. CapturedIsPrinted'
      BY <3>1 DEF CapturedIsPrinted, Increasing, UpTo
    <3>3. QED
      BY <2>1, <3>2 DEF OnceOK, FileIsPrinted, UnreadIsNew, HasTail, Increasing, UpTo
  <2>9. \A l \in DOMAIN todo' : l \in Nat /\ l + 1 \in DOMAIN todo /\ todo'[l] = todo[l + 1]
    BY <1>2, <2>1, <2>2
  <2>10. ASSUME NEW l \in DOMAIN todo'
         PROVE  /\ Increasing(todo'[l]) /\ UpTo(todo'[l], printed) /\ OneLine(todo'[l])
                /\ Below(Captured', todo'[l])
    <3> DEFINE y == todo[l + 1]
    <3>1. l + 1 \in DOMAIN todo /\ todo'[l] = y /\ 1 < l + 1 /\ y \in Seq(Nat)
      <4>1. l \in Nat /\ l + 1 \in DOMAIN todo /\ y \in Seq(Half)
        BY <2>2, <2>9
      <4>2. todo'[l] = y /\ 1 < l + 1
        BY <2>9, <4>1
      <4> HIDE DEF y
      <4>3. y \in Seq(Nat)
        BY <4>1, HalvesAreNumbers
      <4>4. QED
        BY <4>1, <4>2, <4>3
    <3>2. /\ Increasing(y) /\ UpTo(y, printed) /\ OneLine(y) /\ Below(Captured, y) /\ Below(x, y)
      BY <1>2, <2>1, <2>2, <3>1 DEF OnceOK, ScrollbackIsNew
    <3> HIDE DEF y
    <3>3. Below(Captured \o x, y)
      <4> SUFFICES ASSUME NEW i \in DOMAIN (Captured \o x), NEW j \in DOMAIN y
                   PROVE  (Captured \o x)[i] < y[j]
        BY DEF Below
      <4>1. QED
        BY <2>5, <3>2, ConcatElements DEF Below
    <3>4. QED
      BY <2>6, <3>1, <3>2, <3>3
  <2>11. ASSUME NEW l \in DOMAIN todo', NEW m \in DOMAIN todo', l < m PROVE Below(todo'[l], todo'[m])
    <3>1. l + 1 \in DOMAIN todo /\ m + 1 \in DOMAIN todo /\ l + 1 < m + 1
      BY <2>9, <2>11
    <3>2. Below(todo[l + 1], todo[m + 1])
      BY <1>2, <2>1, <3>1 DEF OnceOK, ScrollbackIsNew
    <3>3. QED
      BY <2>9, <3>2
  <2>12. ScrollbackIsNew'
    BY <2>1, <2>10, <2>11 DEF ScrollbackIsNew, Increasing, UpTo, OneLine, Below, LineOf
  <2>13. QED
    BY <2>8, <2>12 DEF OnceOK
<1>3. QED
  BY <1>1, <1>2

LEMMA OnceInOpen ==
  ASSUME TypeOK, StageOK, OnceOK, Open
  PROVE  OnceOK'
<1>1. /\ pc = "open" /\ pc' = "stat" /\ Draws' = Draws
      /\ UNCHANGED <<stored, buffer, file, printed>>
      /\ offset' = IF command = "ingest --from-start" THEN 0 ELSE Len(file)
  BY DEF Open, After, Draws, pane
<1>2. Captured' = Captured
  BY <1>1 DEF Captured
<1>3. CapturedIsPrinted' /\ FileIsPrinted' /\ ScrollbackIsNew'
  BY <1>1, <1>2 DEF OnceOK, CapturedIsPrinted, FileIsPrinted, ScrollbackIsNew, Increasing, UpTo
<1>4. file \in Seq(Half)
  BY DEF TypeOK
<1>5. UnreadIsNew'
  <2>1. CASE command = "ingest --from-start"
    <3>1. stored = <<>> /\ buffer = <<>> /\ Len(<<>>) = 0
      BY <1>1, <2>1 DEF StageOK
    <3>2. FlattenSeq(stored) = <<>>
      BY <3>1 DEF FlattenSeq
    <3>3. <<>> \o <<>> = <<>>
      OBVIOUS
    <3>4. DOMAIN Captured' = {}
      BY <1>2, <3>1, <3>2, <3>3 DEF Captured
    <3>5. QED
      BY <3>4 DEF UnreadIsNew
  <2>2. CASE command # "ingest --from-start"
    <3>1. \A k \in DOMAIN file : ~(k > Len(file)) /\ ~(Len(file) > Len(file))
      BY <1>4
    <3>2. QED
      BY <1>1, <2>2, <3>1 DEF UnreadIsNew
  <2>3. QED
    BY <2>1, <2>2
<1>6. QED
  BY <1>3, <1>5 DEF OnceOK

LEMMA OnceInStat ==
  ASSUME TypeOK, StageOK, OnceOK, Stat
  PROVE  OnceOK'
<1>1. /\ pc = "stat" /\ pc' \in {"stat", "read"} /\ Draws' = Draws
      /\ UNCHANGED <<stored, buffer, file, printed>>
      /\ offset' = IF Len(file) < offset THEN 0 ELSE offset
  BY DEF Stat, Draws, pane
<1>2. Captured' = Captured
  BY <1>1 DEF Captured
<1>3. CapturedIsPrinted' /\ FileIsPrinted' /\ ScrollbackIsNew'
  BY <1>1, <1>2 DEF OnceOK, CapturedIsPrinted, FileIsPrinted, ScrollbackIsNew, Increasing, UpTo
<1>4. file \in Seq(Half) /\ offset \in Nat
  BY DEF TypeOK
<1>5. UnreadIsNew'
  <2> SUFFICES ASSUME ~Draws, NEW k \in DOMAIN file, k > offset' \/ offset' > Len(file),
                      NEW i \in DOMAIN Captured
               PROVE  Captured[i] < file[k]
    BY <1>1, <1>2 DEF UnreadIsNew
  <2>1. k > offset \/ offset > Len(file)
    BY <1>1, <1>4
  <2>2. QED
    BY <1>1, <2>1 DEF OnceOK, UnreadIsNew, HasTail
<1>6. QED
  BY <1>3, <1>5 DEF OnceOK

LEMMA OnceInRead ==
  ASSUME TypeOK, StageOK, OnceOK, Read
  PROVE  OnceOK'
<1>1. /\ pc = "read" /\ pc' = "split" /\ Draws' = Draws /\ ~Draws
      /\ UNCHANGED <<stored, file, printed>>
      /\ buffer' = buffer \o There /\ offset' = offset + Len(There)
  BY DEF Read, There, After, Draws, pane, StageOK
<1>2. Captured' = Captured \o There
  BY <1>1, ReadCaptures
<1>3. /\ There \in Seq(Half)
      /\ offset + Len(There) <= Len(file) \/ Len(There) = 0
      /\ \A k \in DOMAIN There : offset + k \in DOMAIN file /\ There[k] = file[offset + k]
  BY ReadFacts
<1>4. file \in Seq(Half) /\ offset \in Nat /\ printed \in Nat
  <2>1. file \in Seq(Half) /\ offset \in Nat /\ printed \in 0..MaxPrints
    BY DEF TypeOK
  <2>2. QED
    BY <2>1, Bounds
<1>5. Captured \in Seq(Nat) /\ There \in Seq(Nat) /\ file \in Seq(Nat)
  BY <1>1, <1>3, <1>4, CapturedType, HalvesAreNumbers
<1>6. \A k \in DOMAIN file : k > offset \/ offset > Len(file) => \A i \in DOMAIN Captured : Captured[i] < file[k]
  BY <1>1 DEF OnceOK, UnreadIsNew, HasTail
<1>7. Increasing(file) /\ UpTo(file, printed)
  BY DEF OnceOK, FileIsPrinted
<1>8. Increasing(There)
  <2> SUFFICES ASSUME NEW i \in DOMAIN There, NEW j \in DOMAIN There, i < j PROVE There[i] < There[j]
    BY DEF Increasing
  <2>1. offset + i < offset + j
    BY <1>4, <1>5
  <2>2. QED
    BY <1>3, <1>7, <2>1 DEF Increasing
<1>9. UpTo(There, printed)
  BY <1>3, <1>7 DEF UpTo
<1>10. Below(Captured, There)
  <2> SUFFICES ASSUME NEW i \in DOMAIN Captured, NEW j \in DOMAIN There PROVE Captured[i] < There[j]
    BY DEF Below
  <2>1. offset + j \in DOMAIN file /\ offset + j > offset
    BY <1>3, <1>4, <1>5
  <2>2. QED
    BY <1>3, <1>6, <2>1
<1>11. Increasing(Captured) /\ UpTo(Captured, printed)
  BY <1>1 DEF OnceOK, CapturedIsPrinted
<1>12. Increasing(Captured \o There) /\ UpTo(Captured \o There, printed)
  BY <1>4, <1>5, <1>8, <1>9, <1>10, <1>11, CapturedGrows
<1>13. CapturedIsPrinted' /\ FileIsPrinted' /\ ScrollbackIsNew'
  <2>1. CapturedIsPrinted'
    BY <1>1, <1>2, <1>12 DEF CapturedIsPrinted, Increasing, UpTo
  <2>2. QED
    BY <1>1, <2>1 DEF OnceOK, FileIsPrinted, ScrollbackIsNew, Increasing, UpTo
<1>14. ASSUME NEW k \in DOMAIN file, k > offset' \/ offset' > Len(file), NEW i \in DOMAIN Captured'
       PROVE  Captured'[i] < file[k]
  <2>1. k \in 1..Len(file) /\ Len(There) \in Nat /\ Len(file) \in Nat
    BY <1>4, <1>5
  <2>2. \/ i \in DOMAIN Captured /\ Captured'[i] = Captured[i]
        \/ i - Len(Captured) \in DOMAIN There /\ Captured'[i] = There[i - Len(Captured)]
    <3>1. i \in DOMAIN (Captured \o There) /\ Captured'[i] = (Captured \o There)[i]
      BY <1>2, <1>14
    <3>2. \/ i \in DOMAIN Captured /\ (Captured \o There)[i] = Captured[i]
          \/ i - Len(Captured) \in DOMAIN There /\ (Captured \o There)[i] = There[i - Len(Captured)]
      BY <1>5, <3>1, ConcatElements
    <3>3. QED
      BY <3>1, <3>2
  <2>3. CASE i \in DOMAIN Captured /\ Captured'[i] = Captured[i]
    <3>1. k > offset \/ offset > Len(file)
      BY <1>1, <1>3, <1>4, <1>14, <2>1
    <3>2. QED
      BY <1>6, <2>3, <3>1
  <2>4. CASE i - Len(Captured) \in DOMAIN There /\ Captured'[i] = There[i - Len(Captured)]
    <3> DEFINE j == i - Len(Captured)
    <3>1. j \in 1..Len(There) /\ There[j] = file[offset + j] /\ offset + j \in DOMAIN file
      BY <1>3, <1>5, <2>4
    <3> HIDE DEF j
    <3>2. offset + j < k
      BY <1>1, <1>3, <1>4, <1>14, <2>1, <3>1
    <3>3. file[offset + j] < file[k]
      BY <1>7, <3>1, <3>2 DEF Increasing
    <3>4. QED
      BY <2>4, <3>1, <3>3 DEF j
  <2>5. QED
    BY <2>2, <2>3, <2>4
<1>15. UnreadIsNew'
  BY <1>1, <1>14 DEF UnreadIsNew
<1>16. QED
  BY <1>13, <1>15 DEF OnceOK

LEMMA OnceInSplit ==
  ASSUME TypeOK, StageOK, OnceOK, Split
  PROVE  OnceOK'
<1>1. /\ pc = "split" /\ pc' \in {"split", "stat"} /\ Draws' = Draws /\ ~Draws
      /\ UNCHANGED <<file, printed, offset>>
  BY DEF Split, Draws, pane, StageOK
<1>2. Captured' = Captured
  <2>1. CASE Newlines # {}
    <3> DEFINE k == FirstNewline
    <3>1. k \in 1..Len(buffer)
      BY <2>1, NewlineFacts
    <3>2. stored' = Append(stored, SubSeq(buffer, 1, k)) /\ buffer' = SubSeq(buffer, k + 1, Len(buffer))
      BY <2>1 DEF Split, FirstNewline
    <3> HIDE DEF k
    <3>3. QED
      BY <1>1, <3>1, <3>2, SplitFacts
  <2>2. CASE Newlines = {}
    BY <2>2 DEF Split, Captured
  <2>3. QED
    BY <2>1, <2>2
<1>3. QED
  BY <1>1, <1>2 DEF OnceOK, CapturedIsPrinted, FileIsPrinted, UnreadIsNew, ScrollbackIsNew, HasTail,
     Increasing, UpTo

LEMMA OnceInOutput ==
  ASSUME TypeOK, StageOK, OnceOK, Output
  PROVE  OnceOK'
<1>1. /\ Draws' = Draws /\ printed' = printed + 1 /\ (file' = file \/ file' = Append(file, printed + 1))
      /\ UNCHANGED <<pc, stored, buffer, offset, todo>>
  BY DEF Output, Draws, tail
<1>2. Captured' = Captured
  BY <1>1 DEF Captured
<1>3. file \in Seq(Half) /\ offset \in Nat /\ printed \in Nat
  <2>1. file \in Seq(Half) /\ offset \in Nat /\ printed \in 0..MaxPrints
    BY DEF TypeOK
  <2>2. QED
    BY <2>1, Bounds
<1>4. file \in Seq(Nat) /\ Len(file) \in Nat /\ \A k \in DOMAIN file : file[k] \in Nat
  BY <1>3, HalvesAreNumbers
<1>5. ASSUME NEW s \in Seq(Nat), UpTo(s, printed) PROVE UpTo(s, printed + 1)
  <2>1. \A i \in DOMAIN s : s[i] \in Nat /\ s[i] <= printed
    BY <1>5 DEF UpTo
  <2>2. QED
    BY <1>3, <2>1 DEF UpTo
<1>6. /\ file' \in Seq(Nat) /\ Len(file') >= Len(file) /\ Len(file') \in Nat
      /\ \A k \in DOMAIN file' : \/ k \in DOMAIN file /\ file'[k] = file[k]
                                 \/ k = Len(file) + 1 /\ file'[k] = printed + 1
  <2>1. CASE file' = file
    BY <1>4, <2>1
  <2>2. CASE file' = Append(file, printed + 1)
    BY <1>3, <1>4, <2>2
  <2>3. QED
    BY <1>1, <2>1, <2>2
<1>7. FileIsPrinted'
  <2>1. Increasing(file) /\ UpTo(file, printed)
    BY DEF OnceOK, FileIsPrinted
  <2>2. Increasing(file')
    <3> SUFFICES ASSUME NEW i \in DOMAIN file', NEW j \in DOMAIN file', i < j PROVE file'[i] < file'[j]
      BY DEF Increasing
    <3>1. CASE j \in DOMAIN file /\ file'[j] = file[j]
      BY <1>4, <1>6, <2>1, <3>1 DEF Increasing
    <3>2. CASE j = Len(file) + 1 /\ file'[j] = printed + 1
      <4>1. i \in DOMAIN file /\ file'[i] = file[i]
        BY <1>4, <1>6, <3>2
      <4>2. QED
        BY <1>3, <1>4, <2>1, <3>2, <4>1 DEF UpTo
    <3>3. QED
      BY <1>6, <3>1, <3>2
  <2>3. UpTo(file', printed')
    BY <1>1, <1>3, <1>4, <1>6, <2>1 DEF UpTo
  <2>4. QED
    BY <2>2, <2>3 DEF FileIsPrinted, Increasing, UpTo
<1>8. CASE Draws
  BY <1>1, <1>7, <1>8 DEF OnceOK, CapturedIsPrinted, UnreadIsNew, ScrollbackIsNew
<1>9. CASE ~Draws
  <2>1. Captured \in Seq(Nat) /\ Increasing(Captured) /\ UpTo(Captured, printed)
    BY <1>9, CapturedType, HalvesAreNumbers DEF OnceOK, CapturedIsPrinted
  <2>2. CapturedIsPrinted'
    <3>1. UpTo(Captured, printed + 1)
      BY <1>5, <2>1
    <3>2. QED
      BY <1>1, <1>2, <2>1, <3>1 DEF CapturedIsPrinted, Increasing, UpTo
  <2>3. UnreadIsNew'
    <3> SUFFICES ASSUME HasTail, NEW k \in DOMAIN file', k > offset \/ offset > Len(file'), NEW i \in DOMAIN Captured
                 PROVE  Captured[i] < file'[k]
      BY <1>1, <1>2 DEF UnreadIsNew, HasTail
    <3>1. CASE k \in DOMAIN file /\ file'[k] = file[k]
      <4>1. k > offset \/ offset > Len(file)
        BY <1>3, <1>4, <1>6
      <4>2. QED
        BY <1>9, <3>1, <4>1 DEF OnceOK, UnreadIsNew
    <3>2. CASE k = Len(file) + 1 /\ file'[k] = printed + 1
      <4>1. Captured[i] \in Nat /\ Captured[i] <= printed
        BY <2>1 DEF UpTo
      <4>2. QED
        BY <1>3, <3>2, <4>1
    <3>3. QED
      BY <1>6, <3>1, <3>2
  <2>4. ScrollbackIsNew'
    <3> SUFFICES ASSUME pc = "backfill" PROVE ScrollbackIsNew'
      BY <1>1 DEF ScrollbackIsNew
    <3>1. todo \in Seq(Seq(Half))
      BY <1>9 DEF TypeOK, StoredLine
    <3>2. \A l \in DOMAIN todo : UpTo(todo[l], printed')
      <4> SUFFICES ASSUME NEW l \in DOMAIN todo PROVE UpTo(todo[l], printed + 1)
        BY <1>1
      <4> DEFINE y == todo[l]
      <4>1. y \in Seq(Half) /\ UpTo(y, printed)
        BY <1>9, <3>1 DEF OnceOK, ScrollbackIsNew
      <4> HIDE DEF y
      <4>2. y \in Seq(Nat)
        BY <4>1, HalvesAreNumbers
      <4>3. UpTo(y, printed + 1)
        BY <1>5, <4>1, <4>2
      <4>4. QED
        BY <4>3 DEF y
    <3>3. QED
      BY <1>1, <1>2, <1>9, <3>2 DEF OnceOK, ScrollbackIsNew, Increasing, UpTo, OneLine, Below, LineOf
  <2>5. QED
    BY <1>7, <2>2, <2>3, <2>4 DEF OnceOK
<1>10. QED
  BY <1>8, <1>9

LEMMA OnceInDisturb ==
  ASSUME OnceOK, Disturb
  PROVE  OnceOK'
<1>1. /\ UNCHANGED <<command, pc, stored, buffer, printed, offset, todo>>
      /\ file' = file \/ file' = <<>>
  BY DEF Disturb, tail
<1>2. CASE file' = file
  BY <1>1, <1>2, OnceStutters
<1>3. CASE file' = <<>>
  <2>1. DOMAIN file' = {} /\ Captured' = Captured /\ Draws' = Draws
    BY <1>1, <1>3 DEF Captured, Draws
  <2>2. CapturedIsPrinted' /\ FileIsPrinted' /\ UnreadIsNew'
    BY <1>1, <2>1 DEF OnceOK, CapturedIsPrinted, FileIsPrinted, UnreadIsNew, Increasing, UpTo
  <2>3. ScrollbackIsNew'
    BY <1>1, <2>1 DEF OnceOK, ScrollbackIsNew, Increasing, UpTo, OneLine, Below, LineOf
  <2>4. QED
    BY <2>2, <2>3 DEF OnceOK
<1>4. QED
  BY <1>1, <1>2, <1>3

LEMMA OnceInSnapshots ==
  ASSUME StageOK, OnceOK, Look \/ Emit
  PROVE  OnceOK'
<1>1. Draws' /\ UNCHANGED <<file, printed>>
  BY DEF Look, Emit, Draws, StageOK, pane
<1>2. FileIsPrinted'
  BY <1>1 DEF OnceOK, FileIsPrinted, Increasing, UpTo
<1>3. QED
  BY <1>1, <1>2 DEF OnceOK, CapturedIsPrinted, UnreadIsNew, ScrollbackIsNew

LEMMA OncePreserved == TypeOK /\ StageOK /\ OnceOK /\ [Next]_vars => OnceOK'
<1> SUFFICES ASSUME TypeOK, StageOK, OnceOK, [Next]_vars PROVE OnceOK'
  OBVIOUS
<1>1. CASE Spawn \/ StartWorker
  <2>1. /\ UNCHANGED <<command, stored, buffer, file, printed, offset, todo>>
        /\ pc' \in {"launched", "open", "scrollback"}
    BY <1>1 DEF Spawn, StartWorker, After, pane, tail
  <2>2. QED
    BY <2>1, OnceStutters
<1>2. CASE Interrupt \/ StopWorker \/ PaneEnds \/ UNCHANGED vars
  <2>1. /\ UNCHANGED <<command, stored, buffer, file, printed, offset, todo>>
        /\ pc' = pc \/ pc' = "exited"
    BY <1>2 DEF Interrupt, StopWorker, PaneEnds, vars, pane, tail
  <2>2. QED
    BY <2>1, OnceStutters
<1>3. QED
  BY <1>1, <1>2, OnceInHistory, OnceInBackfill, OnceInOpen, OnceInStat, OnceInRead, OnceInSplit,
     OnceInOutput, OnceInDisturb, OnceInSnapshots DEF Next, Cli

LEMMA OnceInitially == Init => OnceOK
<1> SUFFICES ASSUME Init PROVE OnceOK
  OBVIOUS
<1>1. pc = "start" /\ stored = <<>> /\ buffer = <<>> /\ Len(<<>>) = 0
  BY DEF Init
<1>2. FlattenSeq(stored) = <<>>
  BY <1>1 DEF FlattenSeq
<1>3. <<>> \o <<>> = <<>>
  OBVIOUS
<1>4. DOMAIN Captured = {}
  BY <1>1, <1>2, <1>3 DEF Captured
<1>5. FileIsPrinted
  <2>1. CASE piped
    <3>1. file = [h \in 1..printed |-> h]
      BY <2>1 DEF Init
    <3>2. printed \in Nat
      <4>1. printed \in 0..MaxPrints
        BY CaptureInitTypes DEF TypeOK
      <4>2. QED
        BY <4>1, Bounds
    <3>3. \A h \in DOMAIN file : h \in 1..printed /\ file[h] = h
      BY <3>1
    <3>4. QED
      BY <3>2, <3>3 DEF FileIsPrinted, Increasing, UpTo
  <2>2. CASE ~piped
    <3>1. DOMAIN file = {}
      <4>1. file = <<>>
        BY <2>2 DEF Init
      <4>2. QED
        BY <4>1
    <3>2. QED
      BY <3>1 DEF FileIsPrinted, Increasing, UpTo
  <2>3. QED
    BY <2>1, <2>2
<1>6. QED
  BY <1>1, <1>4, <1>5 DEF OnceOK, CapturedIsPrinted, UnreadIsNew, ScrollbackIsNew, HasTail, Increasing, UpTo

LEMMA OnceMeans == TypeOK /\ OnceOK => NothingTwice
<1> SUFFICES ASSUME TypeOK, OnceOK, ~Draws PROVE IsInjective(FlattenSeq(stored))
  BY DEF NothingTwice
<1> DEFINE f == FlattenSeq(stored)
<1>1. f \in Seq(Nat) /\ buffer \in Seq(Nat)
  <2>1. f \in Seq(Half) /\ buffer \in Seq(Half)
    BY CapturedType DEF TypeOK
  <2> HIDE DEF f
  <2>2. QED
    BY <2>1, HalvesAreNumbers
<1>2. Increasing(f \o buffer)
  BY DEF OnceOK, CapturedIsPrinted, Captured
<1> HIDE DEF f
<1>3. \A i \in DOMAIN f : i \in Nat /\ f[i] \in Nat /\ i \in DOMAIN (f \o buffer) /\ (f \o buffer)[i] = f[i]
  BY <1>1
<1>4. ASSUME NEW i \in DOMAIN f, NEW j \in DOMAIN f, f[i] = f[j] PROVE i = j
  <2>1. CASE i < j
    BY <1>2, <1>3, <1>4, <2>1 DEF Increasing
  <2>2. CASE j < i
    BY <1>2, <1>3, <1>4, <2>2 DEF Increasing
  <2>3. QED
    BY <1>3, <2>1, <2>2
<1>5. QED
  BY <1>4 DEF IsInjective, f

-----------------------------------------------------------------------------
(***************************************************************************)
(* The tail: while nobody cuts the file, it is captured as it is, and      *)
(* whole lines of it.                                                      *)
(***************************************************************************)
LEMMA FileInitially == Init => FileOK
<1> SUFFICES ASSUME Init PROVE FileOK
  OBVIOUS
<1>1. pc = "start" /\ piped = (command \in {"ingest", "ingest --from-start"})
  BY DEF Init
<1>2. CASE piped
  <2>1. file = [h \in 1..printed |-> h] /\ printed \in 0..1
    <3>1. printed \in 0..(IF command = "spawn" THEN 0 ELSE 1)
      BY DEF Init
    <3>2. QED
      BY <1>2, <3>1 DEF Init
  <2>2. Len(file) = printed /\ DOMAIN file = 1..printed /\ \A h \in 1..printed : file[h] = h
    BY <2>1
  <2>3. file # <<>> => file[Len(file)] = printed
    <3>1. Len(<<>>) = 0
      OBVIOUS
    <3>2. file # <<>> => printed = 1
      <4>1. printed = 0 => file = <<>>
        BY <2>1
      <4>2. QED
        BY <2>1, <4>1
    <3>3. QED
      BY <2>2, <3>2
  <2>4. Consecutive(file)
    BY <2>1, <2>2 DEF Consecutive
  <2>5. QED
    BY <1>1, <1>2, <2>3, <2>4 DEF FileOK, HasTail
<1>3. CASE ~piped
  <2>1. file = <<>> /\ DOMAIN file = {}
    <3>1. file = <<>>
      BY <1>3 DEF Init
    <3>2. QED
      BY <3>1
  <2>2. QED
    BY <1>1, <1>3, <2>1 DEF FileOK, HasTail, Consecutive
<1>4. QED
  BY <1>2, <1>3

LEMMA FilePreserved == TypeOK /\ StageOK /\ FileOK /\ [Next]_vars => FileOK'
<1> SUFFICES ASSUME TypeOK, StageOK, FileOK, [Next]_vars, ~Draws', cuts' = 0 PROVE FileOK'
  BY DEF FileOK
<1>0. /\ file \in Seq(Half) /\ piped \in BOOLEAN /\ offset \in Nat /\ begin \in Nat /\ size \in Nat
      /\ cuts \in Nat /\ Len(file) \in Nat /\ printed \in Nat
  <2>1. /\ file \in Seq(Half) /\ piped \in BOOLEAN /\ offset \in Nat /\ begin \in Nat /\ size \in Nat
        /\ cuts \in 0..MaxCuts /\ printed \in 0..MaxPrints
    BY DEF TypeOK
  <2>2. QED
    BY <2>1, Bounds
<1>1. command' = command /\ ~Draws
  <2>1. command' = command
    BY DEF Next, Cli, Spawn, StartWorker, CapturePaneHistory, Backfill, Open, Stat, Read, Split, Look,
         Emit, Interrupt, StopWorker, Output, PaneEnds, Disturb, vars
  <2>2. QED
    BY <2>1 DEF Draws
<1>2. cuts = 0
  <2>1. cuts' = cuts \/ cuts' = cuts + 1
    BY DEF Next, Cli, Spawn, StartWorker, CapturePaneHistory, Backfill, Open, Stat, Read, Split, Look,
         Emit, Interrupt, StopWorker, Output, PaneEnds, Disturb, vars
  <2>2. QED
    BY <1>0, <2>1
<1>3. /\ Consecutive(file)
      /\ file # <<>> => piped /\ file[Len(file)] = printed
      /\ (command = "spawn" /\ pc = "start") \/ (command = "adopt" /\ ~armed) => ~piped
      /\ HasTail => begin <= offset /\ offset <= Len(file)
      /\ pc = "read" => offset < size /\ size <= Len(file)
  BY <1>1, <1>2 DEF FileOK
<1>4. ASSUME UNCHANGED <<file, printed, piped, begin, offset, size>>,
             (command = "spawn" /\ pc' = "start") \/ (command = "adopt" /\ ~armed') =>
                (command = "spawn" /\ pc = "start") \/ (command = "adopt" /\ ~armed),
             pc' = pc \/ pc' \notin {"stat", "read", "split"} \/ (pc = "split" /\ pc' = "stat")
      PROVE  FileOK'
  BY <1>1, <1>3, <1>4 DEF FileOK, HasTail, Consecutive
<1>5. CASE Spawn
  <2>1. piped' = ~piped /\ ~piped /\ pc' = "launched" /\ UNCHANGED <<armed, file, printed, begin, offset, size>>
    BY <1>3, <1>5 DEF Spawn, After, Toggle, tail
  <2>2. file = <<>> /\ command = "spawn"
    BY <1>3, <1>5, <2>1 DEF Spawn
  <2>3. QED
    BY <1>1, <1>3, <2>1, <2>2 DEF FileOK, HasTail, Consecutive
<1>6. CASE StartWorker
  <2>1. /\ UNCHANGED <<file, printed, piped, begin, offset, size>>
        /\ pc' \in {"open", "scrollback"}
        /\ ~armed
    BY <1>6 DEF StartWorker, pane, tail, StageOK
  <2>2. QED
    BY <1>4, <2>1
<1>7. CASE CapturePaneHistory
  <2>1. UNCHANGED <<file, printed, piped, begin, offset, size, armed>> /\ pc' = "backfill"
    BY <1>7 DEF CapturePaneHistory, After, pane, tail
  <2>2. QED
    BY <1>4, <2>1
<1>8. CASE Backfill
  <2>1. CASE todo # <<>>
    <3>1. UNCHANGED <<file, printed, piped, begin, offset, size, armed, pc>>
      BY <1>8, <2>1 DEF Backfill, tail
    <3>2. QED
      BY <1>4, <3>1
  <2>2. CASE todo = <<>>
    <3>1. /\ command = "adopt" /\ ~armed /\ armed' /\ piped' = ~piped /\ pc' = "open"
          /\ UNCHANGED <<file, printed, begin, offset, size>>
      BY <1>1, <1>8, <2>2 DEF Backfill, Toggle, tail, StageOK, Draws
    <3>2. ~piped /\ file = <<>>
      BY <1>3, <3>1
    <3>3. QED
      BY <1>1, <1>3, <3>1, <3>2 DEF FileOK, HasTail, Consecutive
  <2>3. QED
    BY <2>1, <2>2
<1>9. CASE Open
  <2>1. /\ UNCHANGED <<file, printed, piped, armed>> /\ pc' = "stat"
        /\ begin' = offset' /\ offset' \in {0, Len(file)}
    BY <1>9 DEF Open, After, pane
  <2>2. begin' <= offset' /\ offset' <= Len(file)
    BY <1>0, <2>1
  <2>3. QED
    BY <1>1, <1>3, <2>1, <2>2 DEF FileOK, HasTail, Consecutive
<1>10. CASE Stat
  <2>1. /\ UNCHANGED <<file, printed, piped, armed, begin>> /\ pc = "stat"
        /\ size' = Len(file) /\ offset' = IF size' < offset THEN 0 ELSE offset
        /\ pc' = IF size' > offset' THEN "read" ELSE "stat"
    BY <1>10 DEF Stat, pane
  <2>2. begin <= offset /\ offset <= Len(file)
    BY <1>3, <2>1 DEF HasTail
  <2>3. offset' = offset
    BY <1>0, <2>1, <2>2
  <2>4. pc' = "read" => offset' < size' /\ size' <= Len(file)
    BY <1>0, <2>1, <2>3
  <2>5. QED
    BY <1>1, <1>3, <2>1, <2>2, <2>3, <2>4 DEF FileOK, HasTail, Consecutive
<1>11. CASE Read
  <2>1. /\ UNCHANGED <<file, printed, piped, armed, begin>> /\ pc = "read" /\ pc' = "split"
        /\ offset' = offset + Len(There)
    BY <1>11 DEF Read, There, After, pane
  <2>2. Len(There) = size - offset /\ offset < size /\ size <= Len(file) /\ begin <= offset
    BY <1>0, <1>3, <2>1, ReadFacts DEF HasTail
  <2>3. begin <= offset' /\ offset' <= Len(file)
    BY <1>0, <2>1, <2>2
  <2>4. QED
    BY <1>1, <1>3, <2>1, <2>3 DEF FileOK, HasTail, Consecutive
<1>12. CASE Split
  <2>1. /\ UNCHANGED <<file, printed, piped, armed, begin, offset, size>>
        /\ pc = "split" /\ pc' \in {"split", "stat"}
    BY <1>12 DEF Split, pane
  <2>2. QED
    BY <1>4, <2>1
<1>13. CASE Look \/ Emit
  BY <1>1, <1>13 DEF Look, Emit, StageOK
<1>14. CASE Interrupt \/ StopWorker \/ PaneEnds \/ UNCHANGED vars
  <2>1. /\ UNCHANGED <<file, printed, piped, begin, offset, size, armed>>
        /\ pc' = pc \/ pc' = "exited"
    BY <1>14 DEF Interrupt, StopWorker, PaneEnds, vars, pane, tail
  <2>2. QED
    BY <1>4, <2>1
<1>15. CASE Output
  <2>1. /\ UNCHANGED <<pc, piped, armed, begin, offset, size>> /\ printed' = printed + 1
        /\ file' = IF piped THEN Append(file, printed + 1) ELSE file
    BY <1>1, <1>15 DEF Output, tail
  <2>2. CASE piped
    <3>1. /\ file' = Append(file, printed + 1) /\ Len(file') = Len(file) + 1 /\ file'[Len(file) + 1] = printed + 1
          /\ \A k \in 1..Len(file) : file'[k] = file[k]
      BY <1>0, <2>1, <2>2
    <3>2. Consecutive(file')
      <4> SUFFICES ASSUME NEW i \in 1..Len(file) PROVE file'[i + 1] = file'[i] + 1
        BY <1>0, <3>1 DEF Consecutive
      <4>1. CASE i = Len(file)
        <5>1. file # <<>>
          BY <1>0, <4>1
        <5>2. QED
          BY <1>0, <1>3, <3>1, <4>1, <5>1
      <4>2. CASE i # Len(file)
        <5>1. i \in DOMAIN file /\ i + 1 \in DOMAIN file
          BY <1>0, <4>2
        <5>2. QED
          BY <1>0, <1>3, <3>1, <5>1 DEF Consecutive
      <4>3. QED
        BY <4>1, <4>2
    <3>3. QED
      BY <1>0, <1>1, <1>3, <2>1, <2>2, <3>1, <3>2 DEF FileOK, HasTail, Consecutive
  <2>3. CASE ~piped
    BY <1>1, <1>3, <2>1, <2>3 DEF FileOK, HasTail, Consecutive
  <2>4. QED
    BY <2>2, <2>3
<1>16. CASE Disturb
  BY <1>2, <1>16 DEF Disturb
<1>17. QED
  BY <1>5, <1>6, <1>7, <1>8, <1>9, <1>10, <1>11, <1>12, <1>13, <1>14, <1>15, <1>16 DEF Next, Cli

LEMMA SubSeqConcat ==
  ASSUME NEW s \in Seq(Half), NEW a \in Nat, NEW b \in Nat, NEW c \in Nat, a <= b, b <= c, c <= Len(s)
  PROVE  SubSeq(s, a + 1, b) \o SubSeq(s, b + 1, c) = SubSeq(s, a + 1, c)
OBVIOUS

LEMMA SubSeqAppend ==
  ASSUME NEW s \in Seq(Half), NEW x \in Half, NEW a \in Nat, NEW b \in Nat, a <= b, b <= Len(s)
  PROVE  SubSeq(Append(s, x), a + 1, b) = SubSeq(s, a + 1, b)
OBVIOUS

LEMMA SubSeqGrows ==
  ASSUME NEW A, NEW s \in Seq(A), NEW x \in A, NEW a \in Nat, a <= Len(s)
  PROVE  SubSeq(Append(s, x), a + 1, Len(s) + 1) = Append(SubSeq(s, a + 1, Len(s)), x)
<1> DEFINE u == Append(s, x)
           v == SubSeq(s, a + 1, Len(s))
           n == Len(s) + 1 - a
<1>1. u \in Seq(A) /\ Len(u) = Len(s) + 1 /\ Len(s) \in Nat /\ n \in Nat
      /\ \A i \in 1..Len(s) + 1 : u[i] = IF i = Len(s) + 1 THEN x ELSE s[i]
  OBVIOUS
<1>2. v \in Seq(A) /\ Len(v) = Len(s) - a /\ \A i \in 1..Len(s) - a : v[i] = s[i + a]
  OBVIOUS
<1>3. /\ SubSeq(u, a + 1, Len(s) + 1) \in Seq(A) /\ Len(SubSeq(u, a + 1, Len(s) + 1)) = n
      /\ \A i \in 1..n : SubSeq(u, a + 1, Len(s) + 1)[i] = u[i + a]
  <2> HIDE DEF u
  <2>1. QED
    BY <1>1
<1>4. /\ Append(v, x) \in Seq(A) /\ Len(Append(v, x)) = n
      /\ \A i \in 1..n : Append(v, x)[i] = IF i = n THEN x ELSE v[i]
  <2>1. Len(v) + 1 = n
    BY <1>1, <1>2
  <2> HIDE DEF v, n
  <2>2. QED
    BY <1>2, <2>1
<1> HIDE DEF u, v
<1>5. ASSUME NEW i \in 1..n PROVE SubSeq(u, a + 1, Len(s) + 1)[i] = Append(v, x)[i]
  <2>1. i + a \in 1..Len(s) + 1
    BY <1>1
  <2>2. CASE i = n
    BY <1>1, <1>3, <1>4, <2>1, <2>2
  <2>3. CASE i # n
    <3>1. i \in 1..Len(s) - a /\ i + a # Len(s) + 1
      BY <1>1, <2>3
    <3>2. v[i] = s[i + a] /\ Append(v, x)[i] = v[i]
      BY <1>2, <1>4, <2>3, <3>1
    <3>3. SubSeq(u, a + 1, Len(s) + 1)[i] = u[i + a] /\ u[i + a] = s[i + a]
      BY <1>1, <1>3, <2>1, <3>1
    <3>4. QED
      BY <3>2, <3>3
  <2>4. QED
    BY <2>2, <2>3
<1>6. SubSeq(u, a + 1, Len(s) + 1) = Append(v, x)
  <2> HIDE DEF n
  <2>1. QED
    BY <1>3, <1>4, <1>5
<1>7. QED
  BY <1>6 DEF u, v

LEMMA EmptySubSeq ==
  ASSUME NEW A, NEW s \in Seq(A), NEW a \in Nat
  PROVE  SubSeq(s, a + 1, a) = <<>>
OBVIOUS

\* What the tail has stored grows by the line that is split off.
LEMMA TailedType ==
  ASSUME TypeOK, StageOK, ~Draws
  PROVE  Tailed \in Seq(Half)
<1>1. stored \in Seq(Seq(Half)) /\ live \in Nat /\ live <= Len(stored)
  BY DEF TypeOK, StageOK, StoredLine
<1>2. SubSeq(stored, live + 1, Len(stored)) \in Seq(Seq(Half))
  BY <1>1
<1>3. QED
  BY <1>2, FlattenType DEF Tailed

LEMMA TailedGrows ==
  ASSUME TypeOK, StageOK, ~Draws, ~Draws', live' = live, NEW x \in Seq(Half), stored' = Append(stored, x)
  PROVE  Tailed' = Tailed \o x
<1> DEFINE s == SubSeq(stored, live + 1, Len(stored))
<1>1. stored \in Seq(Seq(Half)) /\ live \in Nat /\ live <= Len(stored) /\ Len(stored) \in Nat
  <2>1. stored \in Seq(Seq(Half)) /\ live \in Nat /\ live <= Len(stored)
    BY DEF TypeOK, StageOK, StoredLine
  <2>2. QED
    BY <2>1
<1>2. s \in Seq(Seq(Half)) /\ SubSeq(stored', live' + 1, Len(stored')) = Append(s, x)
  <2>1. s \in Seq(Seq(Half)) /\ Len(stored') = Len(stored) + 1
    BY <1>1
  <2>2. SubSeq(Append(stored, x), live + 1, Len(stored) + 1) = Append(s, x)
    BY <1>1, SubSeqGrows
  <2>3. QED
    BY <2>1, <2>2
<1>3. Tailed' = FlattenSeq(Append(s, x)) /\ Tailed = FlattenSeq(s)
  BY <1>2 DEF Tailed
<1> HIDE DEF s
<1>4. QED
  BY <1>2, <1>3, FlattenAppend

LEMMA TailPreserved ==
  TypeOK /\ StageOK /\ FileOK /\ TailedInOrder /\ [Next]_vars => TailedInOrder'
<1> SUFFICES ASSUME TypeOK, StageOK, FileOK, TailedInOrder, [Next]_vars, HasTail', cuts' = 0
             PROVE  Tailed' \o buffer' = SubSeq(file', begin' + 1, offset')
  BY DEF TailedInOrder
<1>0. /\ file \in Seq(Half) /\ offset \in Nat /\ begin \in Nat /\ size \in Nat /\ buffer \in Seq(Half)
      /\ cuts \in Nat /\ Len(file) \in Nat /\ printed \in Nat
  <2>1. /\ file \in Seq(Half) /\ offset \in Nat /\ begin \in Nat /\ size \in Nat
        /\ cuts \in 0..MaxCuts /\ printed \in 0..MaxPrints /\ buffer \in Seq(Half)
    BY DEF TypeOK
  <2>2. QED
    BY <2>1, Bounds
<1>1. cuts = 0 /\ command' = command /\ Draws' = Draws
  <2>1. (cuts' = cuts \/ cuts' = cuts + 1) /\ command' = command
    BY DEF Next, Cli, Spawn, StartWorker, CapturePaneHistory, Backfill, Open, Stat, Read, Split, Look,
         Emit, Interrupt, StopWorker, Output, PaneEnds, Disturb, vars
  <2>2. QED
    BY <1>0, <2>1 DEF Draws
<1>2. ASSUME HasTail
      PROVE  /\ ~Draws /\ begin <= offset /\ offset <= Len(file)
             /\ pc = "read" => offset < size /\ size <= Len(file)
             /\ Tailed \o buffer = SubSeq(file, begin + 1, offset) /\ Tailed \in Seq(Half)
  <2>1. ~Draws
    BY <1>2 DEF HasTail, StageOK
  <2>2. QED
    BY <1>1, <1>2, <2>1, TailedType DEF FileOK, TailedInOrder
<1>3. ASSUME UNCHANGED <<stored, live, buffer, file, begin, offset>>, HasTail
      PROVE  Tailed' \o buffer' = SubSeq(file', begin' + 1, offset')
  <2>1. Tailed' = Tailed
    BY <1>1, <1>3 DEF Tailed
  <2>2. QED
    BY <1>2, <1>3, <2>1
<1>4. CASE Open
  <2>1. /\ pc = "open" /\ UNCHANGED <<stored, live, buffer, file>> /\ begin' = offset' /\ offset' \in {0, Len(file)}
    BY <1>4 DEF Open, After, pane
  <2>2. live = Len(stored) /\ buffer = <<>> /\ ~Draws
    BY <2>1 DEF StageOK
  <2>3. Tailed' = <<>>
    <3>1. stored \in Seq(StoredLine) /\ live \in Nat
      BY DEF TypeOK
    <3>2. SubSeq(stored, live + 1, Len(stored)) = <<>> /\ Len(<<>>) = 0
      BY <2>2, <3>1, EmptySubSeq
    <3>3. QED
      BY <1>1, <2>1, <2>2, <3>2 DEF Tailed, FlattenSeq
  <2>4. SubSeq(file', begin' + 1, offset') = <<>>
    BY <1>0, <2>1, EmptySubSeq
  <2>5. <<>> \o <<>> = <<>>
    OBVIOUS
  <2>6. QED
    BY <2>1, <2>2, <2>3, <2>4, <2>5
<1>5. CASE Stat
  <2>1. /\ HasTail /\ UNCHANGED <<stored, live, buffer, file, begin>>
        /\ offset' = IF Len(file) < offset THEN 0 ELSE offset
    BY <1>5 DEF Stat, HasTail, pane
  <2>2. offset' = offset
    BY <1>0, <1>2, <2>1
  <2>3. QED
    BY <1>3, <2>1, <2>2
<1>6. CASE Read
  <2>1. /\ HasTail /\ pc = "read" /\ UNCHANGED <<stored, live, file, begin>>
        /\ buffer' = buffer \o There /\ offset' = offset + Len(There)
    BY <1>6 DEF Read, There, After, HasTail, pane
  <2>2. begin <= offset /\ offset < size /\ size <= Len(file) /\ Tailed \in Seq(Half)
    BY <1>2, <2>1
  <2>3. There = SubSeq(file, offset + 1, size) /\ Len(There) = size - offset /\ There \in Seq(Half)
    <3>1. Min({size, Len(file)}) = size
      BY <1>0, <2>2, MinFacts
    <3>2. QED
      <4>1. There = SubSeq(file, offset + 1, size)
        BY <3>1 DEF There
      <4>2. Len(file) >= size /\ size >= offset
        BY <1>0, <2>2
      <4>3. QED
        BY <4>1, <4>2, ReadFacts
  <2>4. offset' = size
    BY <1>0, <2>1, <2>3
  <2>5. Tailed' = Tailed
    BY <1>1, <2>1 DEF Tailed
  <2>6. Tailed \o (buffer \o There) = (Tailed \o buffer) \o There
    <3>1. There \in Seq(Half)
      BY ReadFacts
    <3>2. QED
      BY <1>0, <2>2, <3>1, ConcatAssoc
  <2>7. SubSeq(file, begin + 1, offset) \o SubSeq(file, offset + 1, size) = SubSeq(file, begin + 1, size)
    BY <1>0, <2>2, SubSeqConcat
  <2>8. QED
    BY <1>2, <2>1, <2>3, <2>4, <2>5, <2>6, <2>7
<1>7. CASE Split
  <2>1. HasTail /\ UNCHANGED <<live, file, begin, offset>> /\ ~Draws
    BY <1>7 DEF Split, HasTail, pane, StageOK
  <2>2. CASE Newlines # {}
    <3> DEFINE k == FirstNewline
               x == SubSeq(buffer, 1, k)
    <3>1. k \in 1..Len(buffer)
      BY <2>2, NewlineFacts
    <3>2. stored' = Append(stored, SubSeq(buffer, 1, k)) /\ buffer' = SubSeq(buffer, k + 1, Len(buffer))
      BY <1>7, <2>2 DEF Split, FirstNewline
    <3> HIDE DEF k
    <3>3. x \in Seq(Half) /\ buffer' \in Seq(Half) /\ x \o buffer' = buffer
      BY <1>0, <3>1, <3>2
    <3>4. stored' = Append(stored, x)
      BY <3>2
    <3> HIDE DEF x
    <3>5. Tailed' = Tailed \o x
      BY <1>1, <2>1, <3>3, <3>4, TailedGrows
    <3> DEFINE y == buffer'
               t == Tailed
    <3>6. t \in Seq(Half) /\ y \in Seq(Half) /\ x \o y = buffer /\ Tailed' = t \o x
          /\ t \o buffer = SubSeq(file', begin' + 1, offset')
      BY <1>2, <2>1, <3>3, <3>5
    <3> HIDE DEF y, t
    <3>7. (t \o x) \o y = t \o (x \o y)
      BY <3>3, <3>6, ConcatAssoc
    <3>8. Tailed' \o y = SubSeq(file', begin' + 1, offset')
      BY <3>6, <3>7
    <3>9. QED
      BY <3>8 DEF y
  <2>3. CASE Newlines = {}
    <3>1. UNCHANGED <<stored, buffer>>
      BY <1>7, <2>3 DEF Split
    <3>2. QED
      BY <1>3, <2>1, <3>1
  <2>4. QED
    BY <2>2, <2>3
<1>8. CASE Output
  <2>1. /\ HasTail /\ UNCHANGED <<stored, live, buffer, begin, offset>>
        /\ printed' = printed + 1 /\ printed < MaxPrints
    BY <1>8 DEF Output, tail, HasTail
  <2>2. ~Draws /\ begin <= offset /\ offset <= Len(file)
    BY <1>2, <2>1
  <2>3. printed' \in Half
    BY <1>0, <2>1, Bounds DEF Half
  <2>4. file' = file \/ file' = Append(file, printed')
    BY <1>8, <2>2 DEF Output
  <2>5. SubSeq(file', begin + 1, offset) = SubSeq(file, begin + 1, offset)
    BY <1>0, <2>2, <2>3, <2>4, SubSeqAppend
  <2>6. Tailed' = Tailed
    BY <1>1, <2>1 DEF Tailed
  <2>7. QED
    BY <1>2, <2>1, <2>5, <2>6
<1>9. CASE Disturb
  BY <1>0, <1>1, <1>9 DEF Disturb
<1>10. CASE Interrupt \/ StopWorker \/ PaneEnds \/ UNCHANGED vars
  <2>1. HasTail /\ UNCHANGED <<stored, live, buffer, file, begin, offset>>
    BY <1>10 DEF Interrupt, StopWorker, PaneEnds, vars, pane, tail, HasTail
  <2>2. QED
    BY <1>3, <2>1
<1>11. CASE Spawn \/ StartWorker \/ CapturePaneHistory \/ Backfill \/ Look \/ Emit
  <2>1. pc' \notin {"stat", "read", "split"}
    BY <1>11 DEF Spawn, StartWorker, CapturePaneHistory, Backfill, Look, Emit, After
  <2>2. QED
    BY <2>1 DEF HasTail
<1>12. QED
  BY <1>4, <1>5, <1>6, <1>7, <1>8, <1>9, <1>10, <1>11 DEF Next, Cli

\* A half that does not end its line is on the line of the next, which does.
LEMMA HalvesOfALine ==
  ASSUME NEW h \in Nat, ~EndsLine(h)
  PROVE  EndsLine(h + 1) /\ LineOf(h + 1) = LineOf(h)
BY DEF EndsLine, LineOf

LEMMA ConcatIndex ==
  ASSUME NEW s \in Seq(Half), NEW t \in Seq(Half)
  PROVE  /\ Len(s) \in Nat /\ Len(t) \in Nat /\ Len(s \o t) = Len(s) + Len(t)
         /\ \A i \in 1..Len(t) : (s \o t)[Len(s) + i] = t[i]
OBVIOUS

\* What the tail holds back is consecutive, and up to the first newline a line.
LEMMA BufferConsecutive ==
  ASSUME TypeOK, StageOK, FileOK, TailedInOrder, HasTail, cuts = 0
  PROVE  Consecutive(buffer)
<1>1. ~Draws
  BY DEF HasTail, StageOK
<1>2. file \in Seq(Half) /\ buffer \in Seq(Half) /\ begin \in Nat /\ offset \in Nat /\ Tailed \in Seq(Half)
  BY <1>1, TailedType DEF TypeOK
<1>3. begin <= offset /\ offset <= Len(file) /\ Consecutive(file)
  BY <1>1 DEF FileOK
<1> DEFINE t == Tailed
           f == SubSeq(file, begin + 1, offset)
<1>4. t \in Seq(Half) /\ t \o buffer = f
  BY <1>2 DEF TailedInOrder
<1>5. Len(f) = offset - begin /\ \A k \in 1..offset - begin : f[k] = file[k + begin]
  BY <1>2, <1>3
<1> HIDE DEF t
<1>6. Len(t) \in Nat /\ Len(buffer) \in Nat /\ Len(t \o buffer) = Len(t) + Len(buffer)
      /\ \A i \in 1..Len(buffer) : (t \o buffer)[Len(t) + i] = buffer[i]
  <2>1. t \in Seq(Half) /\ buffer \in Seq(Half)
    BY <1>2, <1>4
  <2> HIDE DEF f
  <2>2. QED
    BY <2>1, ConcatIndex
<1> HIDE DEF f
<1>7. Len(t) + Len(buffer) = offset - begin
  BY <1>4, <1>5, <1>6
<1>8. ASSUME NEW i \in 1..Len(buffer) PROVE buffer[i] = file[begin + (Len(t) + i)]
  <2>1. Len(t) + i \in 1..offset - begin
    BY <1>6, <1>7
  <2>2. QED
    BY <1>2, <1>4, <1>5, <1>6, <2>1
<1>9. ASSUME NEW i \in DOMAIN buffer, i + 1 \in DOMAIN buffer PROVE buffer[i + 1] = buffer[i] + 1
  <2> DEFINE j == begin + (Len(t) + i)
  <2>1. i \in 1..Len(buffer) /\ i + 1 \in 1..Len(buffer)
    BY <1>2, <1>9
  <2>2. j \in DOMAIN file /\ j + 1 \in DOMAIN file /\ j + 1 = begin + (Len(t) + (i + 1))
    <3>1. /\ begin \in Nat /\ Len(t) \in Nat /\ Len(buffer) \in Nat /\ offset \in Nat /\ Len(file) \in Nat
          /\ offset <= Len(file) /\ DOMAIN file = 1..Len(file)
      BY <1>2, <1>3, <1>6
    <3>2. j \in 1..Len(file) /\ j + 1 \in 1..Len(file) /\ j + 1 = begin + (Len(t) + (i + 1))
      <4> DEFINE p == Len(t)
                 q == Len(buffer)
                 r == Len(file)
      <4>1. /\ begin \in Nat /\ p \in Nat /\ q \in Nat /\ offset \in Nat /\ r \in Nat /\ i \in Nat
            /\ offset <= r /\ p + q = offset - begin /\ 1 <= i /\ i + 1 <= q
        BY <1>7, <2>1, <3>1
      <4> HIDE DEF p, q, r
      <4>2. 1 <= begin + (p + i) /\ begin + (p + i) + 1 <= r /\ begin + (p + i) + 1 = begin + (p + (i + 1))
        BY <4>1
      <4>3. begin + (p + i) \in 1..r /\ begin + (p + i) + 1 \in 1..r
        BY <4>1, <4>2
      <4>4. QED
        BY <4>2, <4>3 DEF p, q, r
    <3>3. QED
      BY <3>1, <3>2
  <2>3. buffer[i] = file[j] /\ buffer[i + 1] = file[j + 1]
    BY <1>8, <2>1, <2>2
  <2> HIDE DEF j
  <2>4. QED
    BY <1>3, <2>2, <2>3 DEF Consecutive
<1>10. QED
  BY <1>9 DEF Consecutive

LEMMA FirstLineIsOne ==
  ASSUME TypeOK, Newlines # {}, Consecutive(buffer)
  PROVE  /\ OneLine(SubSeq(buffer, 1, FirstNewline))
         /\ EndsLine(Last(SubSeq(buffer, 1, FirstNewline)))
<1> DEFINE k == FirstNewline
           x == SubSeq(buffer, 1, k)
<1>1. buffer \in Seq(Nat) /\ buffer \in Seq(Half)
  BY HalvesAreNumbers DEF TypeOK
<1>2. k \in 1..Len(buffer) /\ EndsLine(buffer[k]) /\ \A j \in 1..k - 1 : ~EndsLine(buffer[j])
  BY NewlineFacts
<1> HIDE DEF k
<1>3. Len(x) = k /\ DOMAIN x = 1..k /\ \A i \in 1..k : x[i] = buffer[i]
  BY <1>1, <1>2
<1>4. ASSUME NEW i \in 1..k PROVE LineOf(buffer[i]) = LineOf(buffer[k])
  <2>1. CASE i = k
    BY <2>1
  <2>2. CASE i # k
    <3>1. i \in 1..k - 1 /\ i \in DOMAIN buffer /\ i + 1 \in DOMAIN buffer /\ buffer[i] \in Nat
      BY <1>1, <1>2, <2>2
    <3>2. buffer[i + 1] = buffer[i] + 1
      BY <3>1 DEF Consecutive
    <3>3. EndsLine(buffer[i + 1]) /\ LineOf(buffer[i + 1]) = LineOf(buffer[i])
      BY <1>2, <3>1, <3>2, HalvesOfALine
    <3>4. i + 1 \notin 1..k - 1
      BY <1>2, <3>3
    <3>5. i + 1 = k
      BY <1>2, <3>1, <3>4
    <3>6. QED
      BY <3>3, <3>5
  <2>3. QED
    BY <2>1, <2>2
<1> HIDE DEF x
<1>5. OneLine(x)
  BY <1>3, <1>4 DEF OneLine
<1>6. EndsLine(Last(x))
  <2>1. k \in 1..k
    BY <1>1, <1>2
  <2>2. QED
    BY <1>2, <1>3, <2>1 DEF Last
<1>7. QED
  BY <1>5, <1>6 DEF x, k

LEMMA LinesPreserved ==
  /\ TypeOK /\ StageOK /\ OnceOK /\ FileOK /\ TailedInOrder /\ LinesAreWhole
  /\ [Next]_vars
  => LinesAreWhole'
<1> SUFFICES ASSUME TypeOK, StageOK, OnceOK, FileOK, TailedInOrder, LinesAreWhole, [Next]_vars,
                    ~Draws', cuts' = 0
             PROVE  \A n \in 1..Len(stored') : /\ OneLine(stored'[n])
                                               /\ armed' /\ n > live' => EndsLine(Last(stored'[n]))
  BY DEF LinesAreWhole, OneLine, LineOf, EndsLine
<1>1. cuts = 0 /\ command' = command /\ Draws' = Draws
  <2>1. (cuts' = cuts \/ cuts' = cuts + 1) /\ command' = command
    BY DEF Next, Cli, Spawn, StartWorker, CapturePaneHistory, Backfill, Open, Stat, Read, Split, Look,
         Emit, Interrupt, StopWorker, Output, PaneEnds, Disturb, vars
  <2>2. cuts \in Nat
    <3>1. cuts \in 0..MaxCuts
      BY DEF TypeOK
    <3>2. QED
      BY <3>1, Bounds
  <2>3. QED
    BY <2>1, <2>2 DEF Draws
<1>2. /\ stored \in Seq(Seq(Half)) /\ live \in Nat /\ Len(stored) \in Nat
      /\ \A n \in 1..Len(stored) : /\ OneLine(stored[n])
                                   /\ armed /\ n > live => EndsLine(Last(stored[n]))
  <2>1. stored \in Seq(Seq(Half)) /\ live \in Nat
    BY <1>1 DEF TypeOK, StoredLine
  <2>2. ASSUME NEW n \in 1..Len(stored)
        PROVE  OneLine(stored[n]) /\ (armed /\ n > live => EndsLine(Last(stored[n])))
    <3>1. DOMAIN stored[n] = 1..Len(stored[n])
      BY <2>1
    <3>2. /\ \A i, j \in 1..Len(stored[n]) : LineOf(stored[n][i]) = LineOf(stored[n][j])
          /\ armed /\ n > live => EndsLine(Last(stored[n]))
      BY <1>1 DEF LinesAreWhole
    <3>3. QED
      BY <3>1, <3>2 DEF OneLine
  <2>3. QED
    BY <2>1, <2>2
<1>3. CASE UNCHANGED <<stored, live, armed>>
  BY <1>2, <1>3
<1>4. CASE StartWorker
  <2>1. stored' = <<>> /\ Len(<<>>) = 0
    BY <1>4 DEF StartWorker, StageOK
  <2>2. QED
    BY <2>1
<1>5. CASE Backfill
  <2>1. CASE todo # <<>>
    <3>1. todo \in Seq(Seq(Half))
      BY <1>1 DEF TypeOK, StoredLine
    <3> DEFINE x == Head(todo)
    <3>2. x = todo[1] /\ 1 \in DOMAIN todo /\ x \in Seq(Half)
      BY <2>1, <3>1
    <3>3. OneLine(x)
      BY <1>1, <1>5, <3>2 DEF Backfill, OnceOK, ScrollbackIsNew
    <3>4. stored' = Append(stored, x) /\ armed' = armed /\ ~armed
      BY <1>5, <2>1 DEF Backfill, StageOK
    <3> HIDE DEF x
    <3>5. \A n \in 1..Len(stored') : stored'[n] = x \/ (n \in 1..Len(stored) /\ stored'[n] = stored[n])
      BY <1>2, <3>2, <3>4
    <3>6. QED
      BY <1>2, <3>3, <3>4, <3>5
  <2>2. CASE todo = <<>>
    <3>1. stored' = stored /\ live' = Len(stored)
      BY <1>5, <2>2 DEF Backfill
    <3>2. QED
      BY <1>2, <3>1
  <2>3. QED
    BY <2>1, <2>2
<1>6. CASE Split
  <2>1. CASE Newlines # {}
    <3> DEFINE x == SubSeq(buffer, 1, FirstNewline)
    <3>1. Consecutive(buffer)
      BY <1>1, <1>6, BufferConsecutive DEF Split, HasTail
    <3>2. OneLine(x) /\ EndsLine(Last(x))
      BY <2>1, <3>1, FirstLineIsOne
    <3>3. stored' = Append(stored, x) /\ armed' = armed /\ live' = live
      BY <1>6, <2>1 DEF Split, FirstNewline
    <3>4. x \in Seq(Half)
      <4>1. FirstNewline \in 1..Len(buffer) /\ buffer \in Seq(Half)
        BY <2>1, NewlineFacts DEF TypeOK
      <4>2. QED
        BY <4>1
    <3> HIDE DEF x
    <3>5. \A n \in 1..Len(stored') : stored'[n] = x \/ (n \in 1..Len(stored) /\ stored'[n] = stored[n])
      BY <1>2, <3>3, <3>4
    <3>6. QED
      BY <1>2, <3>2, <3>3, <3>5
  <2>2. CASE Newlines = {}
    <3>1. UNCHANGED <<stored, live, armed>>
      BY <1>6, <2>2 DEF Split
    <3>2. QED
      BY <1>3, <3>1
  <2>3. QED
    BY <2>1, <2>2
<1>7. CASE Emit
  BY <1>1, <1>7 DEF Emit, StageOK
<1>8. QED
  BY <1>3, <1>4, <1>5, <1>6, <1>7 DEF Next, Cli, Spawn, CapturePaneHistory, Open, Stat, Read, Look,
     Interrupt, StopWorker, Output, PaneEnds, Disturb, vars

-----------------------------------------------------------------------------
LEMMA CaptureInvInitially == Init => CaptureInv
<1> SUFFICES ASSUME Init PROVE CaptureInv
  OBVIOUS
<1>1. TypeOK /\ StageOK /\ OnceOK /\ FileOK
  BY CaptureInitTypes, StageInitially, OnceInitially, FileInitially
<1>2. pc = "start" /\ armed = FALSE /\ Len(stored) = 0 /\ Len(order) = 0
  BY DEF Init
<1>3. MemoryOK /\ EmitOK /\ DedupWindow /\ MemoryIsBounded
  BY <1>2, Bounds DEF MemoryOK, EmitOK, DedupWindow, MemoryIsBounded
<1>4. TailedInOrder /\ LinesAreWhole
  BY <1>2 DEF TailedInOrder, LinesAreWhole, HasTail
<1>5. QED
  BY <1>1, <1>3, <1>4 DEF CaptureInv

LEMMA CaptureInvAlways == Spec => []CaptureInv
<1>1. CaptureInv /\ [Next]_vars => CaptureInv'
  BY CaptureTypesPreserved, StagePreserved, MemoryPreserved, EmitPreserved, BoundPreserved, OncePreserved,
     FilePreserved, TailPreserved, LinesPreserved DEF CaptureInv
<1>2. QED
  BY <1>1, CaptureInvInitially, PTL DEF Spec

(* The variables have their types, for any screens, cap and bounds.        *)
THEOREM CaptureTypes == Spec => []TypeOK
<1>1. CaptureInv => TypeOK
  BY DEF CaptureInv
<1>2. QED
  BY <1>1, CaptureInvAlways, PTL

(* Every line is captured whole, once and in order, whatever is appended   *)
(* between a stat and its read, and however the file is rotated: the tail  *)
(* of file-tail.ts and the scrollback of cli/capture.ts together.          *)
THEOREM LinesAreCapturedOnce == Spec => []CapturedOnceInOrder
<1>1. CaptureInv => CapturedOnceInOrder
  BY OnceMeans DEF CaptureInv, CapturedOnceInOrder
<1>2. QED
  BY <1>1, CaptureInvAlways, PTL

(* A text is not captured again within half the cap (snapshot-capture.ts,  *)
(* #remember), for every cap and every sequence of screens.                *)
THEOREM DedupWindowHolds == Spec => []DedupWindow
<1>1. CaptureInv => DedupWindow
  BY DEF CaptureInv
<1>2. QED
  BY <1>1, CaptureInvAlways, PTL

(* What stays on the screen for two snapshots is captured, whatever the    *)
(* memory has forgotten.                                                   *)
THEOREM StableTextIsStored == Spec => []StableIsStored
<1>1. CaptureInv => StableIsStored
  BY EmitMeans DEF CaptureInv
<1>2. QED
  BY <1>1, CaptureInvAlways, PTL

(* A cap of two or more is kept: #remember cuts what exceeds it.  With a   *)
(* cap of one, half of it is nothing, and the memory only grows.           *)
THEOREM MemoryStaysBounded == Spec => []MemoryIsBounded
<1>1. CaptureInv => MemoryIsBounded
  BY DEF CaptureInv
<1>2. QED
  BY <1>1, CaptureInvAlways, PTL
=============================================================================
