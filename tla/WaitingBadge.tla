----------------------------- MODULE WaitingBadge -----------------------------
(***************************************************************************)
(* The WAITING badge.  Every tick of the AgentManager (agents/manager.ts)  *)
(* discovers sessions and then looks at the screen of each tracked one     *)
(* (#checkQuestions).  #waiting is the manager's set of projects blocked   *)
(* on a live menu; WsServer keeps a copy of it, with which it overlays the *)
(* statuses the phones get, and is told only when a check ends with        *)
(* another set than it began with.                                         *)
(*                                                                         *)
(* The timer does not wait for a tick to end.  #busy keeps discoveries     *)
(* from overlapping; a tick that finds it set goes on to its check.        *)
(***************************************************************************)
EXTENDS Naturals, Sequences, SequencesExt, FiniteSets

CONSTANTS
  Session,    \* sessions of the wrapper and of Cato
  Spawned,    \* those that Cato spawns
  Project,    \* project names
  ProjectOf,  \* the project of each session
  Closable,   \* sessions their user may close
  Tick,       \* ticks that may be under way at the same time
  None,       \* no session
  MaxChanges  \* bound on what users and agents do

ASSUME BadgeAssumption ==
  /\ ProjectOf \in [Session -> Project]
  /\ Spawned \subseteq Session
  /\ Closable \subseteq Session \ Spawned
  /\ None \notin Session
  /\ MaxChanges \in Nat

VARIABLES
  open,     \* sessions that exist
  menu,     \* sessions whose screen shows a live menu
  tracked,  \* keys of #tracked, in the order of the Map
  busy,     \* #busy
  listing,  \* answer of listAllSessions
  waiting,  \* #waiting of the manager
  badge,    \* #waiting of WsServer
  phase,    \* where each tick stands
  before,   \* #waiting as the check of a tick found it
  visited,  \* sessions the loop of a check has passed
  at,       \* the entry of #tracked a check is at
  seen,     \* whether its screen showed a menu
  changes   \* how many of MaxChanges have happened

badgeVars == <<open, menu, tracked, busy, listing, waiting, badge, phase, before,
          visited, at, seen, changes>>

world == <<open, menu, changes>>

Phase == {"idle", "list", "scan", "look", "mark"}

BadgeInit ==
  /\ open = {}
  /\ menu = {}
  /\ tracked = << >>
  /\ busy = FALSE
  /\ listing = {}
  /\ waiting = {}
  /\ badge = {}
  /\ phase = [t \in Tick |-> "idle"]
  /\ before = [t \in Tick |-> {}]
  /\ visited = [t \in Tick |-> {}]
  /\ at = [t \in Tick |-> None]
  /\ seen = [t \in Tick |-> FALSE]
  /\ changes = 0

BadgeTypeOK ==
  /\ open \subseteq Session
  /\ menu \subseteq open
  /\ tracked \in Seq(Session)
  /\ busy \in BOOLEAN
  /\ listing \subseteq Session
  /\ waiting \subseteq Project
  /\ badge \subseteq Project
  /\ phase \in [Tick -> Phase]
  /\ before \in [Tick -> SUBSET Project]
  /\ visited \in [Tick -> SUBSET Session]
  /\ at \in [Tick -> Session \cup {None}]
  /\ seen \in [Tick -> BOOLEAN]
  /\ changes \in Nat

Tracked == ToSet(tracked)

-----------------------------------------------------------------------------
(* #tick: #discover, then #checkQuestions                                  *)

\* Mutant of Proceed: the sets are compared by their sizes.
ProceedBySize(t, passed) ==
  LET left == {k \in DOMAIN tracked : tracked[k] \notin passed}
      next == tracked[Min(left)]
  IN  \/ /\ left # {}
         /\ phase' = [phase EXCEPT ![t] = "look"]
         /\ at' = [at EXCEPT ![t] = next]
         /\ visited' = [visited EXCEPT ![t] = passed \cup {next}]
         /\ UNCHANGED badge
      \/ /\ left = {}
         /\ phase' = [phase EXCEPT ![t] = "idle"]
         /\ visited' = [visited EXCEPT ![t] = {}]
         /\ badge' = IF Cardinality(waiting') # Cardinality(before'[t])
                     THEN waiting' ELSE badge
         /\ at' = [at EXCEPT ![t] = None]

\* A loop over #tracked goes on with the first entry it has not passed: one that
\* was added while the loop waited comes last and is visited too.  After the
\* last entry the sets are compared, and WsServer may be told.
Proceed(t, passed) ==
  LET left == {k \in DOMAIN tracked : tracked[k] \notin passed}
      next == tracked[Min(left)]
  IN  \/ /\ left # {}
         /\ phase' = [phase EXCEPT ![t] = "look"]
         /\ at' = [at EXCEPT ![t] = next]
         /\ visited' = [visited EXCEPT ![t] = passed \cup {next}]
         /\ UNCHANGED badge
      \/ /\ left = {}
         /\ phase' = [phase EXCEPT ![t] = "idle"]
         /\ visited' = [visited EXCEPT ![t] = {}]
         /\ badge' = IF waiting' # before'[t] THEN waiting' ELSE badge
         /\ at' = [at EXCEPT ![t] = None]

BeginCheck(t) ==
  /\ before' = [before EXCEPT ![t] = waiting]
  /\ UNCHANGED <<tracked, waiting, seen>>
  /\ Proceed(t, {})

\* Mutant of TickDiscovers: #busy is looked at and not set.
TickDiscoversUnlocked(t) ==
  /\ phase[t] = "idle"
  /\ ~busy
  /\ phase' = [phase EXCEPT ![t] = "list"]
  /\ UNCHANGED <<world, tracked, busy, listing, waiting, badge, before, visited, at, seen>>

TickDiscovers(t) ==
  /\ phase[t] = "idle"
  /\ ~busy
  /\ busy' = TRUE
  /\ phase' = [phase EXCEPT ![t] = "list"]
  /\ UNCHANGED <<world, tracked, listing, waiting, badge, before, visited, at, seen>>

TickOverlaps(t) ==
  /\ phase[t] = "idle"
  /\ busy
  /\ BeginCheck(t)
  /\ UNCHANGED <<world, busy, listing>>

List(t) ==
  /\ phase[t] = "list"
  /\ listing' = open
  /\ phase' = [phase EXCEPT ![t] = "scan"]
  /\ UNCHANGED <<world, tracked, busy, waiting, badge, before, visited, at, seen>>

\* #adopt; only its last statement, #tracked.set, matters here.
Adopt(t, s) ==
  /\ phase[t] = "scan"
  /\ s \in listing \ (Tracked \cup Spawned)
  /\ tracked' = Append(tracked, s)
  /\ UNCHANGED <<world, busy, listing, waiting, badge, phase, before, visited, at, seen>>

\* The entry goes, and with it what the loops under way have passed of it.
Release(t, s) ==
  /\ phase[t] = "scan"
  /\ listing \ Spawned \subseteq Tracked
  /\ s \in Tracked \ listing
  /\ tracked' = RemoveFirst(tracked, s)
  /\ waiting' = waiting \ {ProjectOf[s]}
  /\ visited' = [u \in Tick |-> visited[u] \ {s}]
  /\ UNCHANGED <<world, busy, listing, badge, phase, before, at, seen>>

DiscoverEnd(t) ==
  /\ phase[t] = "scan"
  /\ listing \ Spawned \subseteq Tracked
  /\ Tracked \subseteq listing
  /\ busy' = FALSE
  /\ listing' = {}
  /\ BeginCheck(t)
  /\ UNCHANGED world

\* tmux answers capturePaneVisible; a session that is gone shows no menu.
Capture(t) ==
  /\ phase[t] = "look"
  /\ seen' = [seen EXCEPT ![t] = at[t] \in menu]
  /\ phase' = [phase EXCEPT ![t] = "mark"]
  /\ UNCHANGED <<world, tracked, busy, listing, waiting, badge, before, visited, at>>

\* Mutant of Mark: without the else branch.
MarkOnly(t) ==
  /\ phase[t] = "mark"
  /\ waiting' = IF seen[t] THEN waiting \cup {ProjectOf[at[t]]} ELSE waiting
  /\ UNCHANGED <<world, tracked, busy, listing, before, seen>>
  /\ Proceed(t, visited[t])

Mark(t) ==
  /\ phase[t] = "mark"
  /\ waiting' = IF seen[t] THEN waiting \cup {ProjectOf[at[t]]}
                           ELSE waiting \ {ProjectOf[at[t]]}
  /\ UNCHANGED <<world, tracked, busy, listing, before, seen>>
  /\ Proceed(t, visited[t])

Step(t) ==
  \/ TickDiscovers(t)
  \/ TickOverlaps(t)
  \/ List(t)
  \/ \E s \in Session : Adopt(t, s) \/ Release(t, s)
  \/ DiscoverEnd(t)
  \/ Capture(t)
  \/ Mark(t)

-----------------------------------------------------------------------------
(* Users and agents.                                                       *)

OpenSession(s) ==
  /\ s \notin open \cup Spawned
  /\ open' = open \cup {s}
  /\ UNCHANGED <<menu, tracked>>

\* spawnForProject tracks its session itself.  A discovery that listed the sessions
\* before releases it again, for good.
SpawnSession(s) ==
  /\ s \in Spawned \ open
  /\ open' = open \cup {s}
  /\ tracked' = Append(tracked, s)
  /\ UNCHANGED menu

Close(s) ==
  /\ s \in open \cap Closable
  /\ open' = open \ {s}
  /\ menu' = menu \ {s}
  /\ UNCHANGED tracked

Ask(s) ==
  /\ s \in open \ menu
  /\ menu' = menu \cup {s}
  /\ UNCHANGED <<open, tracked>>

Answer(s) ==
  /\ s \in menu
  /\ menu' = menu \ {s}
  /\ UNCHANGED <<open, tracked>>

World ==
  /\ changes < MaxChanges
  /\ changes' = changes + 1
  /\ \E s \in Session : OpenSession(s) \/ SpawnSession(s) \/ Close(s) \/ Ask(s) \/ Answer(s)
  /\ UNCHANGED <<busy, listing, waiting, badge, phase, before, visited, at, seen>>

BadgeNext == World \/ \E t \in Tick : Step(t)

BadgeSpec == BadgeInit /\ [][BadgeNext]_badgeVars

\* The timer starts ticks for ever, and what a tick waits for comes.
BadgeFairSpec == BadgeSpec /\ \A t \in Tick : WF_badgeVars(Step(t))

-----------------------------------------------------------------------------
(* Properties.                                                             *)

\* #busy is a lock: discoveries never overlap, and it is set exactly while one
\* runs, so that no tick leaves it behind.
OneDiscovery ==
  \A t, u \in Tick :
    (phase[t] \in {"list", "scan"} /\ phase[u] \in {"list", "scan"}) => t = u

BusyWhileDiscovering ==
  busy <=> \E t \in Tick : phase[t] \in {"list", "scan"}

DiscoveryLock == OneDiscovery /\ BusyWhileDiscovering

TicksAlone == \A t, u \in Tick : t = u \/ "idle" \in {phase[t], phase[u]}

\* The tracked sessions of a project.
TrackedOf(p) == {s \in Tracked : ProjectOf[s] = p}

\* A project whose tracked sessions all keep showing a menu is waiting in the end
\* in the manager's own set, however many checks overlap and whatever a look that
\* was under way writes late.  The phones are told so if the ticks do not overlap:
\* what two checks change together may go unreported (OverlappingChecksReport).
\* All of the sessions, because the one that is looked at last decides
\* (OneMenuIsEnough).
MenusAreShown ==
  \A p \in Project :
    (<>[](TrackedOf(p) # {} /\ TrackedOf(p) \subseteq menu)) =>
      /\ <>[](p \in waiting)
      /\ []TicksAlone => <>[](p \in badge)

\* A menu that was resolved, on either side, is no longer shown in the end, if
\* ticks do not overlap and the sessions of the project stay: a release clears the
\* mark before the check begins, which then has no change to report.
ResolvedMenusAreCleared ==
  []TicksAlone =>
    \A p \in {ProjectOf[s] : s \in Session} \ {ProjectOf[s] : s \in Closable} :
      (<>[](\A s \in Session : ProjectOf[s] = p => s \in Tracked \ menu))
        => <>[](p \notin badge)

-----------------------------------------------------------------------------
(* Statements of the source the code does not keep.                        *)

\* manager.ts: a project is "waiting" while its session shows a live menu, with
\* checks that overlap: each compares #waiting with what it found itself, and
\* takes what the other has reported for known.
OverlappingChecksReport ==
  \A p \in Project :
    (<>[](TrackedOf(p) # {} /\ TrackedOf(p) \subseteq menu)) => <>[](p \in badge)

\* The same of a project with another session that shows no menu: the mark of the
\* one that waits is cleared by the one that is looked at after it.
OneMenuIsEnough ==
  []TicksAlone =>
    \A s \in Session : (<>[](s \in Tracked \cap menu)) => <>[](ProjectOf[s] \in badge)

\* manager.ts: the badge "self-clears when the prompt is resolved on EITHER
\* side", in sessions that are closed and opened again too.
BadgeSelfClears ==
  \A s \in Session :
    (<>[](s \in open /\ s \notin menu)) => <>[](ProjectOf[s] \notin badge)
=============================================================================
