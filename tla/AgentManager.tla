----------------------------- MODULE AgentManager ----------------------------
(***************************************************************************)
(* AgentManager (agents/manager.ts): the discovery loop that adopts and    *)
(* releases sessions, and spawnForProject.  Every await of the source ends *)
(* a step, so that each step runs one query or tmux command and the        *)
(* synchronous code after it.                                              *)
(*                                                                         *)
(* The WAITING badge (#checkQuestions, #waiting) is not part of this       *)
(* module: it reads #tracked and writes nothing that is modelled here.     *)
(***************************************************************************)
EXTENDS MemoryEngine

VARIABLES
  tracked,   \* #tracked: the row a session was tracked with, 0 if it is not
  discover,  \* where #discover stands; "idle" is #busy = false
  live,      \* the answer of listAllSessions #discover works with
  adoptee,   \* the session #adopt has filed a task for, none or one
  handled,   \* the row #discover is adopting or releasing, 0 if none
  spawn,     \* where spawnForProject stands, per session it creates
  spawnRow   \* the row spawnForProject inserted, until it is tracked

managerVars == <<tracked, discover, live, adoptee, handled, spawn, spawnRow>>

DiscoverPhase == {"idle", "scan", "filing", "adopting", "stopping", "stopped"}

SpawnPhase == {"idle", "shell", "launched", "filed", "inserted", "task", "done"}

ManagerInit ==
  /\ tracked = [s \in Session |-> 0]
  /\ discover = "idle"
  /\ live = {}
  /\ adoptee = {}
  /\ handled = 0
  /\ spawn = [s \in Spawned |-> "idle"]
  /\ spawnRow = [s \in Spawned |-> 0]

ManagerTypeOK ==
  /\ tracked \in [Session -> Worker \cup {0}]
  /\ discover \in DiscoverPhase
  /\ live \subseteq Session
  /\ adoptee \subseteq Adoptable
  /\ handled \in Worker \cup {0}
  /\ spawn \in [Spawned -> SpawnPhase]
  /\ spawnRow \in [Spawned -> Worker \cup {0}]

Tracked(s) == tracked[s] # 0

-----------------------------------------------------------------------------
(* #discover                                                               *)

DiscoverList ==
  /\ discover = "idle"
  /\ discover' = "scan"
  /\ live' = LiveSessions
  /\ UNCHANGED <<pane, tables, tracked, adoptee, handled, spawn, spawnRow>>

\* Mutant of AdoptFile: without the question whether s is tracked already.
AdoptAgain(s) ==
  /\ discover = "scan"
  /\ s \in live \cap Adoptable
  /\ FileTask(s)
  /\ adoptee' = {s}
  /\ discover' = "filing"
  /\ UNCHANGED <<pane, tracked, live, handled, spawn, spawnRow>>

\* #adopt files a task for the session ...
AdoptFile(s) ==
  /\ discover = "scan"
  /\ s \in live \cap Adoptable
  /\ ~Tracked(s)
  /\ FileTask(s)
  /\ adoptee' = {s}
  /\ discover' = "filing"
  /\ UNCHANGED <<pane, tracked, live, handled, spawn, spawnRow>>

\* ... and inserts the worker.
AdoptInsert(s) ==
  /\ discover = "filing"
  /\ s \in adoptee
  /\ StartWorker(s)
  /\ handled' = NextWorker
  /\ adoptee' = {}
  /\ discover' = "adopting"
  /\ UNCHANGED <<pane, tracked, live, spawn, spawnRow>>

\* The rest of #adopt: WorkerStarted, backfill of the scrollback, #tracked.set.
AdoptTrack ==
  /\ discover = "adopting"
  /\ Kept(handled)
  /\ tracked' = [tracked EXCEPT ![worker[handled].target] = handled]
  /\ handled' = 0
  /\ discover' = "scan"
  /\ UNCHANGED <<pane, tables, live, adoptee, spawn, spawnRow>>

\* A deletion of the project removed what the INSERT of the worker or of an event
\* refers to.  Nobody handles the rejection of #tick.
DiscoverRejected ==
  \/ discover = "filing" /\ adoptee \cap filed = {}
  \/ discover \in {"adopting", "stopped"} /\ ~Kept(handled)

AdoptionsDone == \A s \in live \cap Adoptable : Tracked(s)

\* A tracked session that is not in the listing: #tracked.delete.
ReleaseDrop(s) ==
  /\ discover = "scan"
  /\ AdoptionsDone
  /\ Tracked(s)
  /\ s \notin live
  /\ tracked' = [tracked EXCEPT ![s] = 0]
  /\ handled' = tracked[s]
  /\ discover' = "stopping"
  /\ UNCHANGED <<pane, tables, live, adoptee, spawn, spawnRow>>

\* Mutant of ReleaseStop: the event is published before the UPDATE.
ReleaseEventFirst ==
  /\ discover = "stopping"
  /\ AppendStopped(handled, "clean")
  /\ discover' = "stopped"
  /\ UNCHANGED <<pane, tracked, live, adoptee, handled, spawn, spawnRow>>

ReleaseStop ==
  /\ discover = "stopping"
  /\ StopWorker(handled, "clean")
  /\ discover' = "stopped"
  /\ UNCHANGED <<pane, tracked, live, adoptee, handled, spawn, spawnRow>>

ReleaseEvent ==
  /\ discover = "stopped"
  /\ AppendStopped(handled, "clean")
  /\ handled' = 0
  /\ discover' = "scan"
  /\ UNCHANGED <<pane, tracked, live, adoptee, spawn, spawnRow>>

\* Mutant of DiscoverEnd: without the finally, #busy stays set.
DiscoverStaysBusy ==
  /\ discover = "scan"
  /\ AdoptionsDone
  /\ \A s \in Session : Tracked(s) => s \in live
  /\ discover' = "busy"
  /\ live' = {}
  /\ UNCHANGED <<pane, tables, tracked, adoptee, handled, spawn, spawnRow>>

DiscoverEnd ==
  /\ discover = "scan"
  /\ AdoptionsDone
  /\ \A s \in Session : Tracked(s) => s \in live
  /\ discover' = "idle"
  /\ live' = {}
  /\ UNCHANGED <<pane, tables, tracked, adoptee, handled, spawn, spawnRow>>

-----------------------------------------------------------------------------
(* spawnForProject                                                         *)

\* Mutant of SpawnShell: names that are used again instead of fresh ULIDs.
SpawnShellReusingName(s) ==
  /\ spawn[s] \in {"idle", "done"}
  /\ NewShellSession(s)
  /\ spawn' = [spawn EXCEPT ![s] = "shell"]
  /\ UNCHANGED <<tables, tracked, discover, live, adoptee, handled, spawnRow>>

SpawnShell(s) ==
  /\ spawn[s] = "idle"
  /\ NewShellSession(s)
  /\ spawn' = [spawn EXCEPT ![s] = "shell"]
  /\ UNCHANGED <<tables, tracked, discover, live, adoptee, handled, spawnRow>>

SpawnLaunch(s) ==
  /\ spawn[s] = "shell"
  /\ SendLaunch(s)
  /\ spawn' = [spawn EXCEPT ![s] = "launched"]
  /\ UNCHANGED <<tables, tracked, discover, live, adoptee, handled, spawnRow>>

\* A task is filed ...
SpawnFile(s) ==
  /\ spawn[s] = "launched"
  /\ FileTask(s)
  /\ spawn' = [spawn EXCEPT ![s] = "filed"]
  /\ UNCHANGED <<pane, tracked, discover, live, adoptee, handled, spawnRow>>

\* ... and a worker inserted.
SpawnInsert(s) ==
  /\ spawn[s] = "filed"
  /\ StartWorker(s)
  /\ spawnRow' = [spawnRow EXCEPT ![s] = NextWorker]
  /\ spawn' = [spawn EXCEPT ![s] = "inserted"]
  /\ UNCHANGED <<pane, tracked, discover, live, adoptee, handled>>

\* The session was closed before the launch command was typed, and sendLine
\* rejects; or a deletion overtook an INSERT.  spawnForProject rejects with it.
SpawnRejected(s) ==
  \/ spawn[s] = "shell" /\ SendRejected(s)
  \/ spawn[s] = "filed" /\ s \notin filed
  \/ spawn[s] = "inserted" /\ ~Kept(spawnRow[s])

\* The voice command and session.reopen catch the rejection.
SpawnFails(s) ==
  /\ SpawnRejected(s)
  /\ spawn' = [spawn EXCEPT ![s] = "done"]
  /\ spawnRow' = [spawnRow EXCEPT ![s] = 0]
  /\ UNCHANGED <<pane, tables, tracked, discover, live, adoptee, handled>>

\* WorkerStarted and #tracked.set; with a task, a timer that will type it is set as well.
SpawnTrack(s) ==
  /\ spawn[s] = "inserted"
  /\ Kept(spawnRow[s])
  /\ tracked' = [tracked EXCEPT ![s] = spawnRow[s]]
  /\ spawnRow' = [spawnRow EXCEPT ![s] = 0]
  /\ \E next \in {"task", "done"} : spawn' = [spawn EXCEPT ![s] = next]
  /\ UNCHANGED <<pane, tables, discover, live, adoptee, handled>>

SpawnTask(s) ==
  /\ spawn[s] = "task"
  /\ SendText(s)
  /\ spawn' = [spawn EXCEPT ![s] = "done"]
  /\ UNCHANGED <<tables, tracked, discover, live, adoptee, handled, spawnRow>>

\* The timer finds the session gone; nobody handles the rejection.
SpawnTaskRejected(s) == spawn[s] = "task" /\ SendRejected(s)

-----------------------------------------------------------------------------
\* What the death of the process leaves of the manager: nothing but the fact
\* that a session name has been used.
ManagerLost ==
  /\ tracked' = [s \in Session |-> 0]
  /\ discover' = "idle"
  /\ live' = {}
  /\ adoptee' = {}
  /\ handled' = 0
  /\ spawn' = [s \in Spawned |-> IF spawn[s] = "idle" THEN "idle" ELSE "done"]
  /\ spawnRow' = [s \in Spawned |-> 0]
=============================================================================
