---------------------------- MODULE ProjectHistory ----------------------------
(***************************************************************************)
(* The rows Cato keeps of one project (memory/memory-engine.ts, db.ts) and *)
(* the handlers that write them: the adoption, spawn and release of a      *)
(* session (agents/manager.ts), the recovery of a worker                   *)
(* (recovery/monitor.ts), the ingestion of captured lines, the command     *)
(* "stop" and the deletion of the project (orchestrator/orchestrator.ts).  *)
(*                                                                         *)
(* Each handler awaits one SQL statement after the other, without a        *)
(* transaction, and holds ids that another one may delete meanwhile.  The  *)
(* foreign keys of the schema then refuse the statement: some callers      *)
(* ignore the rejection, the others end the process.                       *)
(***************************************************************************)
EXTENDS Naturals, Sequences, FiniteSets

CONSTANTS
  Session,    \* tmux sessions of the project
  Spawned,    \* those that Cato spawns
  Monitor,    \* the recovery monitor, a handler like those of the sessions
  None,       \* no session
  MaxChanges  \* bound on what users, agents and the operating system do

ASSUME HistoryAssumption ==
  /\ Spawned \subseteq Session
  /\ Monitor \notin Session
  /\ None \notin Session
  /\ MaxChanges \in Nat

VARIABLES
  project,   \* id of the project's row, Null without one
  tasks,     \* rows of task
  workers,   \* rows of worker
  events,    \* what the rows of event refer to
  captures,  \* what the rows of capture_line refer to
  pinned,    \* whether a checkpoint or a memory refers to the project
  lastId,    \* last id given to a row
  open,      \* sessions that exist
  up,        \* whether the process runs
  tracked,   \* keys of #tracked
  todo,      \* statements each handler has still to execute
  ids,       \* the row ids each handler holds
  line,      \* ids held by the ingestion of a line, its event not yet inserted
  stopping,  \* worker the command "stop" has looked up and interrupted
  deletion,  \* where the deletion stands
  quiet,     \* whether nobody wrote rows since it looked the project up
  deleted,   \* whether this process has executed a DELETE
  changes    \* how many of MaxChanges have happened

tables == <<project, tasks, workers, events, captures, pinned, lastId>>
memory == <<tracked, todo, ids, line, stopping, deletion>>
ghosts == <<quiet, deleted>>
vars == <<tables, open, up, memory, ghosts, changes>>

Null == 0
Handler == Session \cup {Monitor}
Ids == [project : Nat, task : Nat, worker : Nat, session : Session \cup {None}]
NoIds == [project |-> Null, task |-> Null, worker |-> Null, session |-> None]

Statement == {"project", "task", "worker", "started", "track", "stop", "stopped", "send"}

Start == <<"project", "task", "worker", "started", "track">>
Stop == <<"stop", "stopped">>
Recover == <<"stop", "stopped", "send", "worker", "started">>

NoDeletion == [at |-> "none", id |-> Null, session |-> None]
DeletionStep == {"none", "kill", "select", "capture_line", "event", "worker", "task", "project"}

Init ==
  /\ project = Null
  /\ tasks = {} /\ workers = {} /\ events = {} /\ captures = {}
  /\ pinned = FALSE
  /\ lastId = 0
  /\ open = {}
  /\ up = TRUE
  /\ tracked = {}
  /\ todo = [h \in Handler |-> << >>]
  /\ ids = [h \in Handler |-> NoIds]
  /\ line = [s \in Session |-> NoIds]
  /\ stopping = Null
  /\ deletion = NoDeletion
  /\ quiet = FALSE
  /\ deleted = FALSE
  /\ changes = 0

-----------------------------------------------------------------------------
(* Foreign keys                                                            *)

ProjectRow(id) == id = project /\ id # Null
TaskRow(id) == \E t \in tasks : t.id = id
WorkerRow(id) == \E w \in workers : w.id = id

\* The keys of a row that names a project and a worker.
KeysHold(i) == ProjectRow(i.project) /\ WorkerRow(i.worker)

RowTypes ==
  /\ project \in Nat
  /\ tasks \subseteq [id : Nat, project : Nat]
  /\ workers \subseteq [id : Nat, project : Nat, task : Nat, session : Session \cup {None},
                        running : BOOLEAN]
  /\ events \subseteq [project : Nat, worker : Nat]
  /\ captures \subseteq [project : Nat, worker : Nat]
  /\ pinned \in BOOLEAN
  /\ lastId \in Nat

\* What the schema promises: every row refers to rows that exist.
References ==
  /\ \A t \in tasks : t.project = project /\ project # Null
  /\ \A w \in workers : w.project = project /\ project # Null /\ TaskRow(w.task)
  /\ \A e \in events : e.project \in {project, Null} /\ WorkerRow(e.worker)
  /\ \A c \in captures : c.project = project /\ WorkerRow(c.worker)
  /\ pinned => project # Null

TypeOK ==
  /\ RowTypes
  /\ References
  /\ open \subseteq Session
  /\ up \in BOOLEAN
  /\ tracked \subseteq Session
  /\ todo \in [Handler -> Seq(Statement)]
  /\ ids \in [Handler -> Ids]
  /\ line \in [Session -> Ids]
  /\ stopping \in Nat
  /\ deletion \in [at : DeletionStep, id : Nat, session : Session \cup {None}]
  /\ quiet \in BOOLEAN /\ deleted \in BOOLEAN
  /\ changes \in Nat

-----------------------------------------------------------------------------
(* The statements of a handler                                             *)

At(h, statement) == todo[h] # << >> /\ Head(todo[h]) = statement

\* The handler goes on; "quiet" is about the deletion under way.
Proceed(h) ==
  /\ todo' = [todo EXCEPT ![h] = Tail(@)]
  /\ UNCHANGED <<open, up, tracked, line, stopping, deletion, deleted, changes>>

Wrote == quiet' = FALSE

\* An unhandled rejection, or a signal: what is in memory is lost.
Die ==
  /\ up' = FALSE
  /\ tracked' = {}
  /\ todo' = [h \in Handler |-> << >>]
  /\ ids' = [h \in Handler |-> NoIds]
  /\ line' = [s \in Session |-> NoIds]
  /\ stopping' = Null
  /\ deletion' = NoDeletion
  /\ quiet' = FALSE
  /\ deleted' = FALSE
  /\ UNCHANGED <<tables, open>>

\* A statement is refused.  Only session.reopen catches what becomes of a spawn.
Refused(h) ==
  \/ Die /\ UNCHANGED changes
  \/ /\ h \in Spawned
     /\ todo' = [todo EXCEPT ![h] = << >>]
     /\ UNCHANGED <<tables, open, up, tracked, ids, line, stopping, deletion, ghosts, changes>>

EnsureProject(h) ==
  /\ At(h, "project")
  /\ \/ project # Null /\ UNCHANGED <<project, lastId>>
     \/ project = Null /\ project' = lastId + 1 /\ lastId' = lastId + 1
  /\ ids' = [ids EXCEPT ![h].project = project']
  /\ Proceed(h)
  /\ Wrote
  /\ UNCHANGED <<tasks, workers, events, captures, pinned>>

\* Mutant of CreateTask: the id is made up here, and the row not yet inserted when
\* the handler goes on.
CreateTaskUnawaited(h) ==
  /\ At(h, "task")
  /\ lastId' = lastId + 1
  /\ ids' = [ids EXCEPT ![h].task = lastId']
  /\ Proceed(h)
  /\ Wrote
  /\ UNCHANGED <<project, tasks, workers, events, captures, pinned>>

CreateTask(h) ==
  /\ At(h, "task")
  /\ \/ /\ ProjectRow(ids[h].project)
        /\ lastId' = lastId + 1
        /\ tasks' = tasks \cup {[id |-> lastId', project |-> project]}
        /\ ids' = [ids EXCEPT ![h].task = lastId']
        /\ Proceed(h)
        /\ Wrote
        /\ UNCHANGED <<project, workers, events, captures, pinned>>
     \/ ~ProjectRow(ids[h].project) /\ Refused(h)

StartWorker(h) ==
  /\ At(h, "worker")
  /\ \/ /\ ProjectRow(ids[h].project) /\ TaskRow(ids[h].task)
        /\ lastId' = lastId + 1
        /\ workers' = workers \cup
             {[id |-> lastId', project |-> project, task |-> ids[h].task,
               session |-> ids[h].session, running |-> TRUE]}
        /\ ids' = [ids EXCEPT ![h].worker = lastId']
        /\ Proceed(h)
        /\ Wrote
        /\ UNCHANGED <<project, tasks, events, captures, pinned>>
     \/ ~(ProjectRow(ids[h].project) /\ TaskRow(ids[h].task)) /\ Refused(h)

\* The events WorkerStarted and WorkerStopped.
InsertEvent(h) ==
  /\ KeysHold(ids[h])
  /\ events' = events \cup {[project |-> project, worker |-> ids[h].worker]}
  /\ Proceed(h)
  /\ Wrote
  /\ UNCHANGED <<project, tasks, workers, captures, pinned, lastId, ids>>

Started(h) ==
  /\ At(h, "started")
  /\ InsertEvent(h) \/ (~KeysHold(ids[h]) /\ Refused(h))

\* #tracked.set of #adopt and spawnForProject
Track(s) ==
  /\ At(s, "track")
  /\ tracked' = tracked \cup {s}
  /\ todo' = [todo EXCEPT ![s] = Tail(@)]
  /\ UNCHANGED <<tables, open, up, ids, line, stopping, deletion, ghosts, changes>>

Halted(id) == {IF w.id = id THEN [w EXCEPT !.running = FALSE] ELSE w : w \in workers}

StopWorker(h) ==
  /\ At(h, "stop")
  /\ workers' = Halted(ids[h].worker)
  /\ Proceed(h)
  /\ UNCHANGED <<project, tasks, events, captures, pinned, lastId, ids, quiet>>

Stopped(h) ==
  /\ At(h, "stopped")
  /\ InsertEvent(h) \/ (~KeysHold(ids[h]) /\ Die /\ UNCHANGED changes)

\* control.send is refused by tmux once the session is gone.
Send(h) ==
  /\ At(h, "send")
  /\ \/ /\ ids[h].session \in open
        /\ Proceed(h)
        /\ UNCHANGED <<tables, ids, quiet>>
     \/ ids[h].session \notin open /\ Die /\ UNCHANGED changes

Statements(h) ==
  \/ EnsureProject(h) \/ CreateTask(h) \/ StartWorker(h) \/ Started(h)
  \/ StopWorker(h) \/ Stopped(h) \/ Send(h)

-----------------------------------------------------------------------------
(* What the handlers start with.  AgentManager's discovery adopts and      *)
(* releases one session after the other; the monitor sweeps the rows of    *)
(* spawned sessions.                                                       *)

Begin(h, statements, holds) ==
  /\ todo[h] = << >>
  /\ todo' = [todo EXCEPT ![h] = statements]
  /\ ids' = [ids EXCEPT ![h] = holds]
  /\ UNCHANGED <<tables, up, line, stopping, deletion, ghosts>>

Discovering ==
  \E s \in Session : todo[s] # << >> /\ (s \in Spawned => Head(todo[s]) \in {"stop", "stopped"})

Adopt(s) ==
  /\ up /\ ~Discovering
  /\ s \in open \ (Spawned \cup tracked)
  /\ Begin(s, Start, [NoIds EXCEPT !.session = s])
  /\ UNCHANGED <<open, tracked, changes>>

Release(s) ==
  /\ up /\ ~Discovering
  /\ s \in tracked \ open
  /\ tracked' = tracked \ {s}
  /\ Begin(s, Stop, ids[s])
  /\ UNCHANGED <<open, changes>>

IdsOf(w) == [project |-> w.project, task |-> w.task, worker |-> w.id, session |-> w.session]

\* Mutant of SweepGone: without launch_command IS NOT NULL.
SweepAnyGone(w) ==
  /\ up
  /\ w.running /\ w.session \notin open
  /\ Begin(Monitor, Stop, IdsOf(w))
  /\ UNCHANGED <<open, tracked, changes>>

SweepGone(w) ==
  /\ up
  /\ w.running /\ w.session \in Spawned \ open
  /\ Begin(Monitor, Stop, IdsOf(w))
  /\ UNCHANGED <<open, tracked, changes>>

\* The agent of a spawned session has died, and the monitor finds a shell.
SweepDead(w) ==
  /\ up
  /\ w.running /\ w.session \in Spawned \cap open
  /\ Begin(Monitor, Recover, IdsOf(w))
  /\ UNCHANGED <<open, tracked>>

-----------------------------------------------------------------------------
(* Ingestion: a line of a tracked session, or of the scrollback of one     *)
(* that is being adopted.  Refusals are ignored.                           *)

IngestLine(s) ==
  /\ s \in tracked \/ (s \notin Spawned /\ At(s, "track"))
  /\ line[s] = NoIds
  /\ KeysHold(ids[s])
  /\ captures' = captures \cup {[project |-> project, worker |-> ids[s].worker]}
  /\ line' = [line EXCEPT ![s] = ids[s]]
  /\ Wrote
  /\ UNCHANGED <<project, tasks, workers, events, pinned, lastId, open, up, tracked, todo,
                 ids, stopping, deletion, deleted, changes>>

\* A line may hold a notable event.
IngestEvent(s) ==
  /\ line[s] # NoIds
  /\ line' = [line EXCEPT ![s] = NoIds]
  /\ \/ /\ KeysHold(line[s])
        /\ events' = events \cup {[project |-> project, worker |-> line[s].worker]}
        /\ Wrote
     \/ UNCHANGED <<events, quiet>>
  /\ UNCHANGED <<project, tasks, workers, captures, pinned, lastId, open, up, tracked, todo,
                 ids, stopping, deletion, deleted, changes>>

-----------------------------------------------------------------------------
(* Commands                                                                *)

\* runningWorker: the youngest running row.
Running(w) ==
  /\ w \in workers /\ w.running
  /\ \A v \in workers : v.running => v.id <= w.id

\* "stop": look the worker up and interrupt it ...
StopCommand(w) ==
  /\ up /\ stopping = Null
  /\ Running(w) /\ w.session \in open
  /\ stopping' = w.id
  /\ UNCHANGED <<tables, open, up, tracked, todo, ids, line, deletion, ghosts>>

\* ... then DecisionMade, an event that names the worker and no project.
StopDecided ==
  /\ stopping # Null
  /\ stopping' = Null
  /\ \/ /\ WorkerRow(stopping)
        /\ events' = events \cup {[project |-> Null, worker |-> stopping]}
        /\ Wrote
     \/ ~WorkerRow(stopping) /\ UNCHANGED <<events, quiet>>
  /\ UNCHANGED <<project, tasks, workers, captures, pinned, lastId, open, up, tracked, todo,
                 ids, line, deletion, deleted, changes>>

\* deleteSession: closeSession looks a worker up ...
DeleteCommand ==
  /\ up /\ deletion.at = "none"
  /\ \/ \E w \in workers :
          Running(w) /\ deletion' = [NoDeletion EXCEPT !.at = "kill", !.session = w.session]
     \/ (\A w \in workers : ~w.running) /\ deletion' = [NoDeletion EXCEPT !.at = "select"]
  /\ UNCHANGED <<tables, open, up, tracked, todo, ids, line, stopping, ghosts>>

Deleting == UNCHANGED <<pinned, lastId, up, tracked, todo, ids, line, stopping, changes>>

\* ... and kills its session.
DeleteKill ==
  /\ deletion.at = "kill"
  /\ open' = open \ {deletion.session}
  /\ deletion' = [NoDeletion EXCEPT !.at = "select"]
  /\ Deleting /\ UNCHANGED <<project, tasks, workers, events, captures, ghosts>>

DeleteSelect ==
  /\ deletion.at = "select"
  /\ deletion' = IF project = Null THEN NoDeletion
                 ELSE [NoDeletion EXCEPT !.at = "capture_line", !.id = project]
  /\ quiet' = TRUE
  /\ Deleting /\ UNCHANGED <<project, tasks, workers, events, captures, open, deleted>>

\* One DELETE ... WHERE project_id = id; a row that something refers to refuses
\* the whole statement, and that is ignored.
DeleteFrom(table, next) ==
  /\ deletion.at = table
  /\ deletion' = IF next = "none" THEN NoDeletion ELSE [deletion EXCEPT !.at = next]
  /\ deleted' = TRUE
  /\ Deleting /\ UNCHANGED <<open, quiet>>

Others(rows) == {r \in rows : r.project # deletion.id}

DeleteCaptures ==
  /\ DeleteFrom("capture_line", "event")
  /\ captures' = Others(captures)
  /\ UNCHANGED <<project, tasks, workers, events>>

\* Mutant of DeleteEvents: event was forgotten in the list of tables.
DeleteNoEvents ==
  /\ DeleteFrom("event", "worker")
  /\ UNCHANGED <<project, tasks, workers, events, captures>>

DeleteEvents ==
  /\ DeleteFrom("event", "worker")
  /\ events' = Others(events)
  /\ UNCHANGED <<project, tasks, workers, captures>>

\* Mutant of DeleteWorkers: event.worker_id does not refer to worker.
DeleteReferredWorkers ==
  /\ DeleteFrom("worker", "task")
  /\ workers' = Others(workers)
  /\ UNCHANGED <<project, tasks, events, captures>>

DeleteWorkers ==
  /\ DeleteFrom("worker", "task")
  /\ workers' = IF \E e \in events \cup captures : \E w \in workers \ Others(workers) : e.worker = w.id
                THEN workers ELSE Others(workers)
  /\ UNCHANGED <<project, tasks, events, captures>>

DeleteTasks ==
  /\ DeleteFrom("task", "project")
  /\ tasks' = IF \E w \in workers : \E t \in tasks \ Others(tasks) : w.task = t.id
              THEN tasks ELSE Others(tasks)
  /\ UNCHANGED <<project, workers, events, captures>>

DeleteProject ==
  /\ DeleteFrom("project", "none")
  /\ project' = IF \/ project # deletion.id \/ pinned
                   \/ \E r \in tasks \cup workers \cup events \cup captures : r.project = project
                THEN project ELSE Null
  /\ UNCHANGED <<tasks, workers, events, captures>>

Deletion ==
  \/ DeleteKill \/ DeleteSelect \/ DeleteCaptures \/ DeleteEvents
  \/ DeleteWorkers \/ DeleteTasks \/ DeleteProject

-----------------------------------------------------------------------------
(* Users, agents, the operating system.                                    *)

\* Nothing refers to the session of a new ULID.
Fresh(s) ==
  /\ s \notin open \cup tracked
  /\ todo[s] = << >> /\ line[s] = NoIds /\ ids[Monitor].session # s
  /\ \A w \in workers : w.session # s

Spawn(s) ==
  /\ up
  /\ s \in Spawned /\ Fresh(s)
  /\ open' = open \cup {s}
  /\ Begin(s, Start, [NoIds EXCEPT !.session = s])
  /\ UNCHANGED tracked

Open(s) ==
  /\ s \notin open \cup Spawned
  /\ open' = open \cup {s}
  /\ UNCHANGED <<tables, up, memory, ghosts>>

Close(s) ==
  /\ s \in open
  /\ open' = open \ {s}
  /\ UNCHANGED <<tables, up, memory, ghosts>>

Kill == up /\ Die

\* The command line tool adds a checkpoint or a memory; the database is embedded,
\* and open to one process at a time.
Remember ==
  /\ ~up
  /\ project # Null
  /\ pinned' = TRUE
  /\ UNCHANGED <<project, tasks, workers, events, captures, lastId, open, up, memory, ghosts>>

Change ==
  /\ changes < MaxChanges
  /\ changes' = changes + 1
  /\ \/ \E s \in Session : Spawn(s) \/ Open(s) \/ Close(s)
     \/ \E w \in workers : SweepDead(w) \/ StopCommand(w)
     \/ DeleteCommand \/ Kill \/ Remember

Restart ==
  /\ ~up
  /\ up' = TRUE
  /\ UNCHANGED <<tables, open, memory, ghosts, changes>>

-----------------------------------------------------------------------------
Discover == \E s \in Session : Adopt(s) \/ Release(s)
Sweep == \E w \in workers : SweepGone(w)
Ingest(s) == IngestLine(s) \/ IngestEvent(s)
Handle(h) == Statements(h) \/ (h \in Session /\ Track(h))

Next ==
  \/ \E h \in Handler : Handle(h)
  \/ \E s \in Session : Ingest(s)
  \/ Discover \/ Sweep \/ StopDecided \/ Deletion \/ Restart \/ Change

Spec == Init /\ [][Next]_vars

\* Every statement is answered, the timers tick, the service manager restarts
\* the process.
FairSpec ==
  /\ Spec
  /\ \A h \in Handler : WF_vars(Handle(h))
  /\ WF_vars(Discover) /\ WF_vars(Sweep) /\ WF_vars(Deletion) /\ WF_vars(Restart)
  /\ WF_vars(StopDecided) /\ \A s \in Session : WF_vars(IngestEvent(s))

-----------------------------------------------------------------------------
(* Properties                                                              *)

DeletionEnds == deletion.at = "project" /\ deletion'.at = "none" /\ up'

\* A deletion that ends removes the project, unless a row was written for it
\* while it ran, or one of the tables it leaves alone refers to the project.
DeletionsAreExplained ==
  [][DeletionEnds =>
       \/ project' # deletion.id
       \/ ~quiet
       \/ pinned
       \/ \E e \in events : e.project = Null]_vars

\* The process ends by itself only after a deletion that it executed itself, or
\* because a pane went away between the check of the monitor and its typing: a
\* process that was just started holds no id that could be refused.
RejectionsFollowDeletions ==
  [][(up /\ ~up' /\ changes' = changes) => (deleted \/ At(Monitor, "send"))]_vars

\* What a deletion leaves of an adopted session is consistent: while its row
\* exists, it is running, and the project is shown.
AdoptedRowsRun ==
  \A s \in tracked \ Spawned : \A w \in workers : w.id = ids[s].worker => w.running

-----------------------------------------------------------------------------
(* Statements of the source the code does not keep.                        *)

\* memory-engine.ts: deleteProject permanently removes a project and all its rows.
QuietDeletionsRemove == [][DeletionEnds => (project' # deletion.id \/ ~quiet)]_vars

\* orchestrator.ts: closing a chat kills its session, "discovery then marks the
\* worker stopped": it does not fail to.
DiscoveryMarksStopped ==
  [][(up /\ ~up' /\ changes' = changes) => \A s \in Session : ~At(s, "stopped")]_vars

\* memory-engine.ts: a project is shown when it has a live worker, such as one in
\* a session that Cato follows.
LiveWorkersAreShown ==
  \A s \in Session : (<>[](s \in open \cap tracked)) => <>[](\E w \in workers : w.running)
=============================================================================
