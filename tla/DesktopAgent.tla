----------------------------- MODULE DesktopAgent ----------------------------
(***************************************************************************)
(* The desktop agent (index.ts): one Node process in which the discovery   *)
(* loop and the spawns of the AgentManager, the sweeps of the              *)
(* RecoveryMonitor and the commands of the Orchestrator interleave at      *)
(* every await, over one database and one tmux server.                     *)
(*                                                                         *)
(* The process may die: killed from outside, or of a promise rejection     *)
(* nobody handles, which ends a Node process.  Its service manager starts  *)
(* it again.  Sessions and rows survive, everything else is lost.          *)
(***************************************************************************)
EXTENDS AgentManager, RecoveryMonitor

CONSTANT MaxDisturbances  \* bound on what users, agents and crashes may do

ASSUME DisturbanceAssumption == MaxDisturbances \in Nat

VARIABLES
  up,           \* the process is running
  killing,      \* sessions closeSession has looked up and is about to kill, and
                \* whether that is all, or deleteSession goes on from there
  deletion,     \* where deleteProject stands
  disturbances  \* how many of MaxDisturbances have happened

orchestratorVars == <<killing, deletion>>

vars == <<pane, tables, managerVars, recoveryVars, up, orchestratorVars, disturbances>>

DeletionStep == {"none", "event", "worker", "task"}

NoDeletion == [p \in Project |-> "none"]

Init ==
  /\ TmuxInit
  /\ MemoryInit
  /\ ManagerInit
  /\ RecoveryInit
  /\ up = TRUE
  /\ killing = {}
  /\ deletion = NoDeletion
  /\ disturbances = 0

TypeOK ==
  /\ TmuxTypeOK
  /\ MemoryTypeOK
  /\ ManagerTypeOK
  /\ RecoveryTypeOK
  /\ up \in BOOLEAN
  /\ killing \subseteq Session \X {"close", "delete"}
  /\ deletion \in [Project -> DeletionStep]
  /\ disturbances \in Nat

-----------------------------------------------------------------------------
(* Steps of the process.                                                   *)

Discover ==
  \/ DiscoverList
  \/ \E s \in Adoptable : AdoptFile(s) \/ AdoptInsert(s)
  \/ AdoptTrack
  \/ \E s \in Session : ReleaseDrop(s)
  \/ ReleaseStop
  \/ ReleaseEvent
  \/ DiscoverEnd

SpawnStep(s) ==
  \/ SpawnLaunch(s)
  \/ SpawnFails(s)
  \/ SpawnFile(s)
  \/ SpawnInsert(s)
  \/ SpawnTrack(s)
  \/ SpawnTask(s)

Recover ==
  \/ SweepStart
  \/ \E w \in sweep : SweepSkip(w) \/ SweepGone(w) \/ SweepShell(w)
  \/ SweepEnd
  \/ GoneStop
  \/ GoneEvent
  \/ RecoverStop
  \/ RecoverEvent
  \/ Relaunch
  \/ RestoreCheckpoint
  \/ Replace
  \/ ReplaceEvent

\* closeSession: look the youngest running worker of the project up ...
CloseLookup(p, next) ==
  \E w \in Worker :
    /\ IsRunningWorker(w, p)
    /\ killing' = killing \cup {<<worker[w].target, next>>}

CloseSession(p) ==
  /\ CloseLookup(p, "close")
  /\ UNCHANGED <<pane, tables, deletion>>

\* ... and kill its session, be it still there or not.
CloseKill(s, next) ==
  /\ <<s, next>> \in killing
  /\ KillSession(s)
  /\ killing' = killing \ {<<s, next>>}
  /\ deletion' = IF next = "delete" THEN [deletion EXCEPT ![ProjectOf[s]] = "event"]
                                    ELSE deletion
  /\ UNCHANGED tables

\* deleteSession: close what runs, then deleteProject.  One deletion of a project
\* at a time.
DeleteSession(p) ==
  /\ deletion[p] = "none"
  /\ \A s \in SessionsOf(p) : <<s, "delete">> \notin killing
  /\ \/ CloseLookup(p, "delete") /\ UNCHANGED deletion
     \/ /\ \A s \in SessionsOf(p) : Running(s) = {}
        /\ deletion' = [deletion EXCEPT ![p] = "event"]
        /\ UNCHANGED killing

Deletes(p, table, next) ==
  /\ deletion[p] = table
  /\ deletion' = [deletion EXCEPT ![p] = next]
  /\ UNCHANGED <<pane, killing>>

\* deleteProject, one statement after the other.  The lines, and the project's own
\* row, which goes last, are told by nothing else here.
DeleteStep(p) ==
  \/ Deletes(p, "event", "worker") /\ DeleteEvents(p)
  \/ Deletes(p, "worker", "task") /\ DeleteWorkers(p)
  \/ Deletes(p, "task", "none") /\ DeleteTasks(p)

DiscoverStep ==
  /\ up
  /\ Discover
  /\ UNCHANGED <<recoveryVars, up, orchestratorVars, disturbances>>

\* worker.spawn, session.reopen or a voice command asks for a worker.
SpawnRequest ==
  /\ up
  /\ \E s \in Spawned : SpawnShell(s)
  /\ UNCHANGED <<recoveryVars, up, orchestratorVars, disturbances>>

SpawnProgress ==
  /\ up
  /\ \E s \in Spawned : SpawnStep(s)
  /\ UNCHANGED <<recoveryVars, up, orchestratorVars, disturbances>>

RecoveryStep ==
  /\ up
  /\ Recover
  /\ UNCHANGED <<managerVars, up, orchestratorVars, disturbances>>

OrchestratorStep ==
  /\ up
  /\ \/ \E p \in Project : CloseSession(p) \/ DeleteStep(p)
     \/ \E s \in Session, next \in {"close", "delete"} : CloseKill(s, next)
  /\ UNCHANGED <<managerVars, recoveryVars, up, disturbances>>

TimeStep ==
  /\ (\E w \in Worker : GracePasses(w)) \/ (\E t \in Spawned : CooldownPasses(t))
  /\ UNCHANGED <<managerVars, up, orchestratorVars, disturbances>>

-----------------------------------------------------------------------------
(* Death and restart of the process.                                       *)

ProcessDies ==
  /\ up
  /\ up' = FALSE
  /\ killing' = {}
  /\ deletion' = NoDeletion
  /\ ManagerLost
  /\ RecoveryLost
  /\ UNCHANGED <<pane, tables>>

Rejection ==
  /\ \/ DiscoverRejected
     \/ RecoveryRejected
     \/ \E s \in Spawned : SpawnRejected(s) \/ SpawnTaskRejected(s)
  /\ ProcessDies
  /\ UNCHANGED disturbances

Restart ==
  /\ ~up
  /\ up' = TRUE
  /\ UNCHANGED <<pane, tables, managerVars, recoveryVars, orchestratorVars, disturbances>>

-----------------------------------------------------------------------------
(* The world around the process.                                           *)

Disturbance ==
  /\ disturbances < MaxDisturbances
  /\ disturbances' = disturbances + 1

Kill == Disturbance /\ ProcessDies

\* A user deletes a chat.
DeleteRequest ==
  /\ up
  /\ Disturbance
  /\ \E p \in Project : DeleteSession(p)
  /\ UNCHANGED <<pane, tables, managerVars, recoveryVars, up>>

Environment ==
  /\ Disturbance
  /\ \E s \in Session :
       UserOpens(s) \/ UserCloses(s) \/ AgentExits(s) \/ UserRelaunches(s)
  /\ UNCHANGED <<tables, managerVars, recoveryVars, up, orchestratorVars>>

Next ==
  \/ DiscoverStep
  \/ SpawnRequest
  \/ SpawnProgress
  \/ RecoveryStep
  \/ OrchestratorStep
  \/ TimeStep
  \/ Rejection
  \/ Kill
  \/ DeleteRequest
  \/ Restart
  \/ Environment

Spec == Init /\ [][Next]_vars

(***************************************************************************)
(* Fairness.  A process that is up runs its two interval timers and every  *)
(* continuation that is ready, and the service manager restarts it.  Time  *)
(* passes: the pauses between two sweeps recur for ever, so an expiry that *)
(* is due in them is not put off for ever (strong fairness).  Users,       *)
(* agents and crashes owe nothing.                                         *)
(***************************************************************************)
Fairness ==
  /\ WF_vars(DiscoverStep)
  /\ WF_vars(SpawnProgress)
  /\ WF_vars(RecoveryStep)
  /\ WF_vars(Rejection)
  /\ WF_vars(Restart)
  /\ SF_vars(TimeStep)

FairSpec == Spec /\ Fairness

-----------------------------------------------------------------------------
(* Safety.                                                                 *)

\* A session spawned by Cato never has two running rows, whatever the order
\* of spawn, release, sweep, crash and restart: the replacement is registered
\* after its predecessor was stopped, and a target is in one sweep only once.
OneRunningPerSpawned ==
  \A s \in Spawned : \A v, w \in Running(s) : v = w

\* From the crash record of Worker #1 to the registration of Worker #2 the
\* target has no running row, so that no command is routed to a pane whose
\* launch command is only being typed.
RelaunchIsUnregistered ==
  recovery \in {"recoverEvent", "relaunch", "checkpoint", "replace"} =>
    Running(Target(victim)) = {}

\* The row an adopted session is tracked with is running, unless its project was
\* deleted, and no running row of the session is younger, rows left over by an
\* earlier process included.
TrackedAdoptedIsLatest ==
  \A s \in Adoptable : Tracked(s) =>
    /\ tracked[s] \in Running(s) \/ ~Kept(tracked[s])
    /\ \A w \in Running(s) : w <= tracked[s]

\* WorkerStopped is never published about a row that still reads running.
StoppedEventFollowsUpdate ==
  \A w \in Worker : worker[w].state = "running" => worker[w].stops = {}

\* A table as the abstract registry sees it.
LifeOf(table) ==
  [w \in DOMAIN table |->
     [owner  |-> table[w].target,
      status |-> CASE table[w].state = "running" -> "alive"
                   [] table[w].state = "deleted" -> "removed"
                   [] OTHER                      -> "ended"]]

Registry ==
  INSTANCE WorkerRegistry WITH
    Exclusive <- Spawned,
    Group     <- {SessionsOf(p) : p \in Project},
    life      <- LifeOf(worker)

\* The agent implements the registry: rows are added, and deleted with those of
\* their project; none comes back to life, of those either that stopWorker stops
\* twice or after their deletion; and in a spawned session a row is added only when
\* none runs there.
RegistrySpec == Registry!Spec

-----------------------------------------------------------------------------
(* Liveness.                                                               *)

\* Once a spawned session is gone its rows end up stopped for good, through
\* releases, sweeps, rejections and restarts.
GoneWorkersAreMarked ==
  \A s \in Spawned :
    (spawn[s] # "idle" /\ pane[s] = "none") ~> [](Running(s) = {})

\* An agent that exits to its shell under a running row is relaunched, unless
\* the process dies, the session goes, discovery has released the session or its
\* project was deleted.
DeadAgentsAreRelaunched ==
  \A s \in Spawned :
    (pane[s] = "shell" /\ Running(s) # {})
      ~> \/ pane[s] # "shell"
         \/ ~up
         \/ \E w \in Worker : worker[w].target = s /\ worker[w].state \in {"stopped", "deleted"}

\* A recovery that has recorded the crash registers a replacement, unless the
\* process dies of it.
RecoveryRegistersReplacement ==
  \A s \in Spawned :
    (recovery = "recoverEvent" /\ Target(victim) = s)
      ~> (Running(s) # {} \/ ~up)

\* Tracking converges: in the end exactly the wrapper sessions that exist are
\* tracked.
TrackingConverges ==
  \A s \in Adoptable : <>[](Tracked(s) <=> pane[s] # "none")

-----------------------------------------------------------------------------
(* Statements of the documentation the code does not keep.                 *)

\* manager.ts: discovery is to "release ones that disappeared".
OnlyGoneAreReleased ==
  [][\A s \in Spawned : (Tracked(s) /\ tracked'[s] = 0 /\ up') => pane[s] = "none"]_vars

\* memory-engine.ts: a project is shown when it has a LIVE worker, that is, a
\* row whose session is gone does not stay running.
ShownWorkersAreLive ==
  \A s \in Session : <>[](pane[s] = "none" => Running(s) = {})

\* ARCHITECTURE.md: on restart the agent re-attaches to existing panes.
PanesAreReattached ==
  \A s \in Spawned : [](spawn[s] = "done" => <>(Tracked(s) \/ pane[s] = "none"))

\* PROTOCOL.md: WorkerStopped tells that a worker exits, clean or crash.
OneReasonPerStop ==
  \A w \in Worker : worker[w].stops # {"clean", "crash"}

-----------------------------------------------------------------------------
(***************************************************************************)
(* The inductive invariant.  The safety properties above are not inductive *)
(* by themselves: they rest on what each half-done procedure knows about   *)
(* the table while it waits.                                               *)
(***************************************************************************)

\* A spawn inserts the first row of its target, and tracks that row.
SpawnInv ==
  \A s \in Spawned :
    /\ spawn[s] \in {"idle", "shell", "launched", "filed"} =>
         \A w \in Worker : worker[w].target # s
    /\ spawn[s] = "inserted" =>
         spawnRow[s] \in Worker /\ worker[spawnRow[s]].target = s

\* The rows still to be visited have targets of their own, and no row but
\* themselves runs there.
SweepInv ==
  \A v \in sweep :
    /\ worker[v].target \in Spawned
    /\ \A w \in Worker :
         (worker[w].target = worker[v].target
            /\ (w \in sweep \/ worker[w].state = "running")) => w = v

\* So has the row under recovery; once it is marked, nothing runs there, until its
\* replacement does.
VictimInv ==
  recovery \notin {"idle", "sweep"} =>
    /\ victim \in Worker
    /\ worker[victim].target \in Spawned
    /\ \A v \in sweep : worker[v].target # worker[victim].target
    /\ \A w \in Worker :
         (worker[w].target = worker[victim].target
            /\ worker[w].state = "running") =>
              recovery \in {"gone", "recover", "replaced"} /\ w = victim

\* A session is tracked with a row of its own, a wrapper session with its
\* youngest row, which is running unless it was deleted.
TrackInv ==
  \A s \in Session : Tracked(s) =>
    /\ worker[tracked[s]].target = s
    /\ s \in Adoptable =>
         /\ worker[tracked[s]].state \in {"running", "deleted"}
         /\ \A w \in Worker : worker[w].target = s => w <= tracked[s]

\* The row #discover works on belongs to a session that is not tracked.
HandledInv ==
  /\ discover = "filing" => \A s \in adoptee : ~Tracked(s)
  /\ discover = "adopting" =>
       /\ handled \in Worker
       /\ worker[handled].state \in {"running", "deleted"}
       /\ worker[handled].target \in Adoptable
       /\ ~Tracked(worker[handled].target)
       /\ \A w \in Worker :
            worker[w].target = worker[handled].target => w <= handled
  /\ discover \in {"stopping", "stopped"} =>
       /\ handled \in Worker
       /\ worker[handled].target \in Adoptable =>
            ~Tracked(worker[handled].target)
  /\ discover = "stopped" => worker[handled].state # "running"

IInv ==
  /\ TypeOK
  /\ OneRunningPerSpawned
  /\ StoppedEventFollowsUpdate
  /\ SpawnInv
  /\ SweepInv
  /\ VictimInv
  /\ TrackInv
  /\ HandledInv
=============================================================================
