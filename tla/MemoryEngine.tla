----------------------------- MODULE MemoryEngine ----------------------------
(***************************************************************************)
(* The worker table of the Memory Engine (memory/memory-engine.ts) and the *)
(* WorkerStopped events about its rows.  The database outlives the desktop *)
(* agent's process.                                                        *)
(*                                                                         *)
(* Rows are numbered in the order of started_at, so a later row is a       *)
(* younger worker.  A row keeps its tmux target; its project follows from  *)
(* the target, and so does whether it has a launch command: spawnForProject*)
(* always stores one and #adopt never does.  Columns nothing here reads    *)
(* (agent kind, session id) are left out.  Of the event table only the     *)
(* reasons of a row's WorkerStopped events are kept, and of the task table *)
(* whether the last task a session was started with still has a row.       *)
(*                                                                         *)
(* deleteProject removes the rows of a project.  Ids are never given       *)
(* twice, so a removed row stays in its place, with the state "deleted".   *)
(* A worker refers to its task and to its project, an event to both: a     *)
(* row that is there shows that they are.                                  *)
(***************************************************************************)
EXTENDS Naturals, Sequences, Tmux

CONSTANTS
  Project,   \* project names
  ProjectOf  \* the project each session belongs to

ASSUME ProjectAssumption == ProjectOf \in [Session -> Project]

VARIABLES
  worker,  \* the worker table, oldest row first
  filed    \* sessions whose task has a row

tables == <<worker, filed>>

WorkerState == {"running", "stopped", "crashed", "deleted"}

Reason == {"clean", "crash"}

Row == [state  : WorkerState,
        target : Session,
        aged   : BOOLEAN,        \* started_at is at least graceMs ago
        stops  : SUBSET Reason]  \* reasons of its WorkerStopped events

MemoryInit == worker = << >> /\ filed = {}

MemoryTypeOK == worker \in Seq(Row) /\ filed \subseteq Session

Worker == DOMAIN worker

NextWorker == Len(worker) + 1

\* The row is there, and with it its task and its project.
Kept(w) == worker[w].state # "deleted"

SessionsOf(p) == {s \in Session : ProjectOf[s] = p}

RowsOf(p) == {w \in Worker : ProjectOf[worker[w].target] = p}

-----------------------------------------------------------------------------
(* Statements the engine runs; each is one query, hence one step.          *)

\* ensureProject and createTask.
FileTask(s) ==
  /\ filed' = filed \cup {s}
  /\ UNCHANGED worker

\* The INSERT of startWorker; without the task, or its project, it is refused.
StartWorker(s) ==
  /\ s \in filed
  /\ worker' = Append(worker, [state  |-> "running",
                               target |-> s,
                               aged   |-> FALSE,
                               stops  |-> {}])
  /\ UNCHANGED filed

\* The UPDATE of stopWorker: no condition on the state the row is in, and no
\* effect on a row that is gone.
StopWorker(w, reason) ==
  /\ worker' = [worker EXCEPT ![w].state =
                  IF @ = "deleted" THEN @
                  ELSE IF reason = "clean" THEN "stopped" ELSE "crashed"]
  /\ UNCHANGED filed

\* The WorkerStopped event that stopWorker appends once its UPDATE returned; it
\* is refused once the row is gone.
AppendStopped(w, reason) ==
  /\ Kept(w)
  /\ worker' = [worker EXCEPT ![w].stops = @ \cup {reason}]
  /\ UNCHANGED filed

\* Time passes: a row becomes older than graceMs.
GraceExpires(w) ==
  /\ ~worker[w].aged
  /\ worker' = [worker EXCEPT ![w].aged = TRUE]
  /\ UNCHANGED filed

-----------------------------------------------------------------------------
(* The DELETEs of deleteProject, each one statement; a refusal is ignored. *)

DeleteEvents(p) ==
  /\ worker' = [w \in Worker |->
                  IF w \in RowsOf(p) THEN [worker[w] EXCEPT !.stops = {}] ELSE worker[w]]
  /\ UNCHANGED filed

\* An event, or a captured line, that was written since then refuses the
\* statement.  Not all of them are kept here: it may be refused at any time.
DeleteWorkers(p) ==
  /\ \/ /\ \A w \in RowsOf(p) : worker[w].stops = {}
        /\ worker' = [w \in Worker |->
                        IF w \in RowsOf(p) THEN [worker[w] EXCEPT !.state = "deleted"]
                                          ELSE worker[w]]
     \/ UNCHANGED worker
  /\ UNCHANGED filed

\* A worker that is left refuses the statement.
DeleteTasks(p) ==
  /\ filed' = IF \E w \in RowsOf(p) : Kept(w) THEN filed ELSE filed \ SessionsOf(p)
  /\ UNCHANGED worker

-----------------------------------------------------------------------------
(* Queries.                                                                *)

Running(s) ==
  {w \in Worker : worker[w].target = s /\ worker[w].state = "running"}

\* Mutant of RunningManagedWorkers: without w.state = 'running'.
AllManagedWorkers == {w \in Worker : Kept(w) /\ worker[w].target \in Spawned}

RunningManagedWorkers == UNION {Running(s) : s \in Spawned}

\* runningWorker(p): the youngest running row of the project, if there is one.
IsRunningWorker(w, p) ==
  LET ofProject == UNION {Running(s) : s \in SessionsOf(p)}
  IN  w \in ofProject /\ \A v \in ofProject : v <= w
=============================================================================
