------------------------- MODULE ProjectHistoryProofs -------------------------
(***************************************************************************)
(* Foreign keys, refusals and deletions of ProjectHistory, for any number  *)
(* of sessions and of changes.                                             *)
(***************************************************************************)
EXTENDS ProjectHistory, TLAPS

-----------------------------------------------------------------------------
(* TypeOK, which holds the foreign keys, is inductive.                     *)

MemoryOK ==
  /\ open \subseteq Session
  /\ up \in BOOLEAN
  /\ tracked \subseteq Session
  /\ todo \in [Handler -> Seq(Statement)]
  /\ ids \in [Handler -> Ids]
  /\ line \in [Session -> Ids]
  /\ stopping \in Nat
  /\ deletion \in [at : DeletionStep, id : Nat, session : Session \cup {None}]
  /\ quiet \in BOOLEAN /\ deleted \in BOOLEAN
  /\ changes \in Nat

LEMMA TypeParts == TypeOK <=> (RowTypes /\ References /\ MemoryOK)
  BY DEF TypeOK, MemoryOK

LEMMA Constants ==
  /\ NoIds \in Ids
  /\ NoDeletion \in [at : DeletionStep, id : Nat, session : Session \cup {None}]
  /\ Start \in Seq(Statement) /\ Stop \in Seq(Statement) /\ Recover \in Seq(Statement)
  /\ Session \subseteq Handler
  BY DEF NoIds, Ids, Null, NoDeletion, DeletionStep, Start, Stop, Recover, Statement, Handler

\* A step that leaves the tables alone keeps the foreign keys.
LEMMA SameRows ==
  ASSUME RowTypes, References, UNCHANGED tables
  PROVE  RowTypes' /\ References'
  BY DEF RowTypes, References, tables, TaskRow, WorkerRow

LEMMA DieTypes ==
  ASSUME TypeOK, Die, changes' \in Nat
  PROVE  TypeOK'
<1>1. RowTypes' /\ References'
  BY SameRows, TypeParts DEF Die, tables
<1>2. open' = open
  BY DEF Die
<1>3. todo' \in [Handler -> Seq(Statement)]
  BY DEF Die
<1>4. ids' \in [Handler -> Ids] /\ line' \in [Session -> Ids]
  BY Constants DEF Die
<1>5. MemoryOK'
  BY <1>2, <1>3, <1>4, Constants, TypeParts DEF Die, MemoryOK, Null
<1>6. QED
  BY <1>1, <1>5 DEF TypeOK, MemoryOK

LEMMA RefusedTypes ==
  ASSUME TypeOK, NEW h \in Handler, Refused(h)
  PROVE  TypeOK'
<1>1. CASE Die /\ UNCHANGED changes
  BY <1>1, DieTypes DEF TypeOK
<1>2. CASE /\ todo' = [todo EXCEPT ![h] = << >>]
           /\ UNCHANGED <<tables, open, up, tracked, ids, line, stopping, deletion, ghosts, changes>>
  <2>1. RowTypes' /\ References'
    BY <1>2, SameRows, TypeParts
  <2>2. MemoryOK'
    BY <1>2, TypeParts DEF MemoryOK, ghosts
  <2>3. QED
    BY <2>1, <2>2 DEF TypeOK, MemoryOK
<1>3. QED
  BY <1>1, <1>2 DEF Refused

\* What an action of a handler does to its memory when it goes on.
LEMMA ProceedTypes ==
  ASSUME MemoryOK, NEW h \in Handler, todo[h] # << >>, Proceed(h),
         ids' \in [Handler -> Ids], quiet' \in BOOLEAN
  PROVE  MemoryOK'
<1>1. Tail(todo[h]) \in Seq(Statement)
  BY DEF MemoryOK
<1>2. QED
  BY <1>1 DEF MemoryOK, Proceed

LEMMA InsertEventTypes ==
  ASSUME TypeOK, NEW h \in Handler, todo[h] # << >>, InsertEvent(h)
  PROVE  TypeOK'
<1> USE DEF InsertEvent
<1>1. MemoryOK'
  BY ProceedTypes, TypeParts DEF Wrote, MemoryOK
<1>2. RowTypes'
  BY TypeParts DEF RowTypes, KeysHold, ProjectRow, MemoryOK, Ids
<1>3. References'
  BY TypeParts DEF References, KeysHold, ProjectRow, TaskRow, WorkerRow
<1>4. QED
  BY <1>1, <1>2, <1>3 DEF TypeOK, MemoryOK

\* Taking a field of the ids a handler holds.
LEMMA HeldTypes ==
  ASSUME MemoryOK, NEW h \in Handler, NEW v \in Nat,
         \/ ids' = [ids EXCEPT ![h].project = v]
         \/ ids' = [ids EXCEPT ![h].task = v]
         \/ ids' = [ids EXCEPT ![h].worker = v]
  PROVE  ids' \in [Handler -> Ids]
<1>1. ids \in [Handler -> Ids] /\ ids[h] \in Ids
  BY DEF MemoryOK
<1>2. /\ [ids[h] EXCEPT !.project = v] \in Ids
      /\ [ids[h] EXCEPT !.task = v] \in Ids
      /\ [ids[h] EXCEPT !.worker = v] \in Ids
  BY <1>1 DEF Ids
<1>3. QED
  BY <1>1, <1>2

\* UPDATE worker changes no key.
LEMMA HaltedRows ==
  ASSUME RowTypes, NEW id \in Nat, workers' = Halted(id)
  PROVE  /\ \A w \in workers' : \E v \in workers :
              /\ v.id = w.id /\ v.project = w.project /\ v.task = w.task /\ v.session = w.session
         /\ \A r : WorkerRow(r)' <=> WorkerRow(r)
<1> DEFINE Halt(w) == IF w.id = id THEN [w EXCEPT !.running = FALSE] ELSE w
<1>1. \A w \in workers : /\ Halt(w) \in workers'
                         /\ Halt(w).id = w.id /\ Halt(w).project = w.project
                         /\ Halt(w).task = w.task /\ Halt(w).session = w.session
  BY DEF Halted, RowTypes
<1>2. \A w \in workers' : \E v \in workers : w = Halt(v)
  BY DEF Halted
<1>3. QED
  BY <1>1, <1>2 DEF WorkerRow

LEMMA StatementTypes ==
  ASSUME TypeOK, NEW h \in Handler, Handle(h)
  PROVE  TypeOK'
<1> USE TypeParts
<1>1. CASE EnsureProject(h)
  <2> USE <1>1 DEF EnsureProject
  <2>1. project' \in Nat /\ lastId' \in Nat
    BY DEF RowTypes
  <2>2. MemoryOK'
    BY <2>1, ProceedTypes, HeldTypes DEF At, Wrote
  <2>3. RowTypes'
    BY <2>1 DEF RowTypes
  <2>4. References'
    <3>1. CASE project' = project
      BY <3>1 DEF References, TaskRow, WorkerRow
    <3>2. CASE project = Null
      BY <3>2 DEF References, TaskRow, WorkerRow
    <3>3. QED
      BY <3>1, <3>2
  <2>5. QED
    BY <2>2, <2>3, <2>4 DEF TypeOK, MemoryOK
<1>2. CASE CreateTask(h)
  <2>1. CASE ~ProjectRow(ids[h].project)
    BY <1>2, <2>1, RefusedTypes DEF CreateTask
  <2>2. CASE ProjectRow(ids[h].project)
    <3>1. /\ todo[h] # << >>
          /\ lastId' = lastId + 1
          /\ tasks' = tasks \cup {[id |-> lastId', project |-> project]}
          /\ ids' = [ids EXCEPT ![h].task = lastId']
          /\ Proceed(h) /\ quiet' = FALSE
          /\ UNCHANGED <<project, workers, events, captures, pinned>>
      BY <1>2, <2>2 DEF CreateTask, At, Wrote
    <3>2. lastId' \in Nat
      BY <3>1 DEF RowTypes
    <3>3. MemoryOK'
      BY <3>1, <3>2, ProceedTypes, HeldTypes
    <3>4. RowTypes'
      BY <3>1, <3>2 DEF RowTypes
    <3>5. References'
      BY <2>2, <3>1, <3>2 DEF References, ProjectRow, TaskRow, WorkerRow
    <3>6. QED
      BY <3>3, <3>4, <3>5 DEF TypeOK, MemoryOK
  <2>3. QED
    BY <2>1, <2>2
<1>3. CASE StartWorker(h)
  <2>1. CASE ~(ProjectRow(ids[h].project) /\ TaskRow(ids[h].task))
    BY <1>3, <2>1, RefusedTypes DEF StartWorker
  <2>2. CASE ProjectRow(ids[h].project) /\ TaskRow(ids[h].task)
    <3> DEFINE row == [id |-> lastId', project |-> project, task |-> ids[h].task,
                       session |-> ids[h].session, running |-> TRUE]
    <3>1. /\ todo[h] # << >>
          /\ lastId' = lastId + 1
          /\ workers' = workers \cup {row}
          /\ ids' = [ids EXCEPT ![h].worker = lastId']
          /\ Proceed(h) /\ quiet' = FALSE
          /\ UNCHANGED <<project, tasks, events, captures, pinned>>
      BY <1>3, <2>2 DEF StartWorker, At, Wrote
    <3>2. lastId' \in Nat
      BY <3>1 DEF RowTypes
    <3>3. MemoryOK'
      BY <3>1, <3>2, ProceedTypes, HeldTypes
    <3>4. RowTypes'
      <4>1. ids[h] \in Ids
        BY DEF MemoryOK
      <4>2. row \in [id : Nat, project : Nat, task : Nat, session : Session \cup {None},
                    running : BOOLEAN]
        BY <3>2, <4>1 DEF RowTypes, Ids
      <4>3. QED
        BY <3>1, <3>2, <4>2 DEF RowTypes
    <3>5. References'
      BY <2>2, <3>1, <3>2 DEF References, ProjectRow, TaskRow, WorkerRow
    <3>6. QED
      BY <3>3, <3>4, <3>5 DEF TypeOK, MemoryOK
  <2>3. QED
    BY <2>1, <2>2
<1>4. CASE Started(h)
  BY <1>4, InsertEventTypes, RefusedTypes DEF Started, At
<1>5. CASE StopWorker(h)
  <2>1. /\ todo[h] # << >> /\ Proceed(h)
        /\ workers' = Halted(ids[h].worker)
        /\ UNCHANGED <<project, tasks, events, captures, pinned, lastId, ids, quiet>>
    BY <1>5 DEF StopWorker, At
  <2>2. MemoryOK'
    BY <2>1, ProceedTypes DEF MemoryOK
  <2>3. RowTypes'
    BY <2>1 DEF RowTypes, Halted
  <2>4. ids[h].worker \in Nat
    BY DEF MemoryOK, Ids
  <2>5. References'
    <3>1. /\ \A w \in workers' : \E v \in workers : v.project = w.project /\ v.task = w.task
          /\ \A r : WorkerRow(r)' <=> WorkerRow(r)
      BY <2>1, <2>4, HaltedRows
    <3>2. QED
      BY <2>1, <3>1 DEF References, TaskRow
  <2>6. QED
    BY <2>2, <2>3, <2>5 DEF TypeOK, MemoryOK
<1>6. CASE Stopped(h)
  BY <1>6, InsertEventTypes, DieTypes DEF Stopped, At, MemoryOK
<1>7. CASE Send(h)
  <2>1. CASE Proceed(h) /\ UNCHANGED <<tables, ids, quiet>>
    <3>1. RowTypes' /\ References'
      BY <2>1, SameRows
    <3>2. MemoryOK'
      BY <1>7, <2>1, ProceedTypes DEF MemoryOK, Send, At
    <3>3. QED
      BY <3>1, <3>2 DEF TypeOK, MemoryOK
  <2>2. CASE Die /\ UNCHANGED changes
    BY <2>2, DieTypes DEF MemoryOK
  <2>3. QED
    BY <1>7, <2>1, <2>2 DEF Send
<1>8. CASE h \in Session /\ Track(h)
  <2>1. RowTypes' /\ References'
    BY <1>8, SameRows DEF Track
  <2>2. Tail(todo[h]) \in Seq(Statement)
    BY <1>8 DEF Track, At, MemoryOK
  <2>3. MemoryOK'
    BY <1>8, <2>2 DEF Track, MemoryOK, ghosts
  <2>4. QED
    BY <2>1, <2>3 DEF TypeOK, MemoryOK
<1>9. QED
  BY <1>1, <1>2, <1>3, <1>4, <1>5, <1>6, <1>7, <1>8 DEF Handle, Statements

\* Discovery and the sweep start handlers; ingestion and commands add rows.
LEMMA BeginTypes ==
  ASSUME TypeOK, NEW h \in Handler, NEW statements \in Seq(Statement), NEW holds \in Ids,
         Begin(h, statements, holds),
         open' \subseteq Session, tracked' \subseteq Session, changes' \in Nat
  PROVE  TypeOK'
<1>1. RowTypes' /\ References'
  BY SameRows, TypeParts DEF Begin
<1>2. MemoryOK'
  BY TypeParts DEF Begin, MemoryOK, ghosts
<1>3. QED
  BY <1>1, <1>2 DEF TypeOK, MemoryOK

LEMMA RowIds ==
  ASSUME RowTypes, NEW w \in workers
  PROVE  IdsOf(w) \in Ids
  BY DEF RowTypes, IdsOf, Ids

LEMMA SessionIds ==
  ASSUME NEW s \in Session
  PROVE  [NoIds EXCEPT !.session = s] \in Ids
  BY DEF NoIds, Ids, Null

LEMMA LoopTypes ==
  ASSUME TypeOK, Discover \/ Sweep \/ \E s \in Session : Ingest(s)
  PROVE  TypeOK'
<1> USE TypeParts
<1>1. ASSUME NEW s \in Session, Adopt(s)
      PROVE  TypeOK'
  BY <1>1, BeginTypes, Constants, SessionIds DEF Adopt, MemoryOK
<1>2. ASSUME NEW s \in Session, Release(s)
      PROVE  TypeOK'
  <2>1. s \in Handler /\ ids[s] \in Ids
    BY Constants DEF MemoryOK
  <2>2. QED
    BY <1>2, <2>1, BeginTypes, Constants DEF Release, MemoryOK
<1>3. ASSUME NEW w \in workers, SweepGone(w)
      PROVE  TypeOK'
  BY <1>3, BeginTypes, Constants, RowIds DEF SweepGone, MemoryOK, Handler
<1>4. ASSUME NEW s \in Session, IngestLine(s)
      PROVE  TypeOK'
  <2>1. ids[s] \in Ids
    BY Constants DEF MemoryOK
  <2>2. MemoryOK'
    BY <1>4, <2>1 DEF IngestLine, Wrote, MemoryOK
  <2>3. RowTypes'
    BY <1>4, <2>1 DEF IngestLine, KeysHold, ProjectRow, RowTypes, Ids
  <2>4. References'
    BY <1>4 DEF IngestLine, KeysHold, ProjectRow, References, TaskRow, WorkerRow
  <2>5. QED
    BY <2>2, <2>3, <2>4 DEF TypeOK, MemoryOK
<1>5. ASSUME NEW s \in Session, IngestEvent(s)
      PROVE  TypeOK'
  <2>1. line[s] \in Ids
    BY DEF MemoryOK
  <2>2. MemoryOK'
    BY <1>5, Constants DEF IngestEvent, Wrote, MemoryOK
  <2>3. RowTypes'
    BY <1>5, <2>1 DEF IngestEvent, KeysHold, ProjectRow, RowTypes, Ids
  <2>4. References'
    BY <1>5 DEF IngestEvent, KeysHold, ProjectRow, References, TaskRow, WorkerRow
  <2>5. QED
    BY <2>2, <2>3, <2>4 DEF TypeOK, MemoryOK
<1>6. QED
  BY <1>1, <1>2, <1>3, <1>4, <1>5 DEF Discover, Sweep, Ingest
\* Rows that a DELETE takes: those of deletion.id.
LEMMA DeletionTypes ==
  ASSUME TypeOK, Deletion
  PROVE  TypeOK'
<1> USE TypeParts
<1>1. CASE DeleteKill
  <2>1. RowTypes' /\ References'
    BY <1>1, SameRows DEF DeleteKill, Deleting, tables
  <2>2. MemoryOK'
    BY <1>1 DEF DeleteKill, Deleting, MemoryOK, ghosts, NoDeletion, DeletionStep, Null
  <2>3. QED
    BY <2>1, <2>2 DEF TypeOK, MemoryOK
<1>2. CASE DeleteSelect
  <2>1. RowTypes' /\ References'
    BY <1>2, SameRows DEF DeleteSelect, Deleting, tables
  <2>2. MemoryOK'
    BY <1>2 DEF DeleteSelect, Deleting, MemoryOK, NoDeletion, DeletionStep, Null, RowTypes
  <2>3. QED
    BY <2>1, <2>2 DEF TypeOK, MemoryOK
<1>3. ASSUME NEW table \in DeletionStep, NEW next \in DeletionStep, DeleteFrom(table, next)
      PROVE  MemoryOK'
  BY <1>3 DEF DeleteFrom, Deleting, MemoryOK, NoDeletion, DeletionStep, Null
<1>4. CASE DeleteCaptures
  <2>1. MemoryOK'
    BY <1>3, <1>4 DEF DeleteCaptures, DeletionStep
  <2>2. RowTypes' /\ References'
    BY <1>4 DEF DeleteCaptures, DeleteFrom, Deleting, Others, RowTypes, References, TaskRow, WorkerRow
  <2>3. QED
    BY <2>1, <2>2 DEF TypeOK, MemoryOK
<1>5. CASE DeleteEvents
  <2>1. MemoryOK'
    BY <1>3, <1>5 DEF DeleteEvents, DeletionStep
  <2>2. RowTypes' /\ References'
    BY <1>5 DEF DeleteEvents, DeleteFrom, Deleting, Others, RowTypes, References, TaskRow, WorkerRow
  <2>3. QED
    BY <2>1, <2>2 DEF TypeOK, MemoryOK
<1>6. CASE DeleteWorkers
  <2>1. MemoryOK'
    BY <1>3, <1>6 DEF DeleteWorkers, DeletionStep
  <2>2. RowTypes'
    BY <1>6 DEF DeleteWorkers, DeleteFrom, Deleting, Others, RowTypes
  <2>3. \A e \in events \cup captures : WorkerRow(e.worker)'
    BY <1>6 DEF DeleteWorkers, Others, References, WorkerRow
  <2>4. References'
    BY <1>6, <2>3 DEF DeleteWorkers, DeleteFrom, Deleting, Others, References, TaskRow
  <2>5. QED
    BY <2>1, <2>2, <2>4 DEF TypeOK, MemoryOK
<1>7. CASE DeleteTasks
  <2>1. MemoryOK'
    BY <1>3, <1>7 DEF DeleteTasks, DeletionStep
  <2>2. RowTypes'
    BY <1>7 DEF DeleteTasks, DeleteFrom, Deleting, Others, RowTypes
  <2>3. \A w \in workers : TaskRow(w.task)'
    BY <1>7 DEF DeleteTasks, Others, References, TaskRow
  <2>4. References'
    BY <1>7, <2>3 DEF DeleteTasks, DeleteFrom, Deleting, Others, References, WorkerRow
  <2>5. QED
    BY <2>1, <2>2, <2>4 DEF TypeOK, MemoryOK
<1>8. CASE DeleteProject
  <2>1. MemoryOK'
    BY <1>3, <1>8 DEF DeleteProject, DeletionStep
  <2>2. RowTypes'
    BY <1>8 DEF DeleteProject, DeleteFrom, Deleting, RowTypes, Null
  <2>3. UNCHANGED <<tasks, workers, events, captures, pinned>>
    BY <1>8 DEF DeleteProject, DeleteFrom, Deleting
  <2>4. CASE project' = project
    BY <2>1, <2>2, <2>3, <2>4 DEF TypeOK, MemoryOK, References, TaskRow, WorkerRow
  <2>5. CASE project' # project
    <3>1. ~pinned /\ \A r \in tasks \cup workers \cup events \cup captures : r.project # project
      BY <1>8, <2>5 DEF DeleteProject
    <3>2. tasks = {} /\ workers = {} /\ captures = {}
      BY <3>1 DEF References
    <3>3. events = {}
      BY <3>2 DEF References, WorkerRow
    <3>4. References'
      BY <2>3, <3>1, <3>2, <3>3 DEF References
    <3>5. QED
      BY <2>1, <2>2, <3>4 DEF TypeOK, MemoryOK
  <2>6. QED
    BY <2>4, <2>5
<1>9. QED
  BY <1>1, <1>2, <1>4, <1>5, <1>6, <1>7, <1>8 DEF Deletion

LEMMA ChangeTypes ==
  ASSUME TypeOK, Change
  PROVE  TypeOK'
<1> USE TypeParts
<1>0. changes' \in Nat
  BY DEF Change, MemoryOK
<1>1. ASSUME NEW s \in Session, Spawn(s)
      PROVE  TypeOK'
  BY <1>0, <1>1, BeginTypes, Constants, SessionIds DEF Spawn, MemoryOK
<1>2. ASSUME NEW s \in Session, Open(s) \/ Close(s)
      PROVE  TypeOK'
  <2>1. RowTypes' /\ References'
    BY <1>2, SameRows DEF Open, Close
  <2>2. MemoryOK'
    BY <1>0, <1>2 DEF Open, Close, memory, ghosts, MemoryOK
  <2>3. QED
    BY <2>1, <2>2 DEF TypeOK, MemoryOK
<1>3. ASSUME NEW w \in workers, SweepDead(w)
      PROVE  TypeOK'
  BY <1>0, <1>3, BeginTypes, Constants, RowIds DEF SweepDead, MemoryOK, Handler
<1>4. ASSUME NEW w \in workers, StopCommand(w)
      PROVE  TypeOK'
  <2>1. RowTypes' /\ References'
    BY <1>4, SameRows DEF StopCommand
  <2>2. MemoryOK'
    BY <1>0, <1>4 DEF StopCommand, ghosts, MemoryOK, RowTypes
  <2>3. QED
    BY <2>1, <2>2 DEF TypeOK, MemoryOK
<1>5. CASE DeleteCommand
  <2>1. RowTypes' /\ References'
    BY <1>5, SameRows DEF DeleteCommand
  <2>2. deletion' \in [at : DeletionStep, id : Nat, session : Session \cup {None}]
    <3>1. \A w \in workers : w.session \in Session \cup {None}
      BY DEF RowTypes
    <3>2. \/ deletion' = [at |-> "select", id |-> Null, session |-> None]
          \/ \E w \in workers : deletion' = [at |-> "kill", id |-> Null, session |-> w.session]
      BY <1>5 DEF DeleteCommand, NoDeletion
    <3>3. QED
      BY <3>1, <3>2 DEF DeletionStep, Null
  <2>3. MemoryOK'
    BY <1>0, <1>5, <2>2 DEF DeleteCommand, ghosts, MemoryOK
  <2>4. QED
    BY <2>1, <2>3 DEF TypeOK, MemoryOK
<1>6. CASE Kill
  BY <1>0, <1>6, DieTypes DEF Kill
<1>7. CASE Remember
  <2>1. RowTypes' /\ References'
    BY <1>7 DEF Remember, RowTypes, References, TaskRow, WorkerRow
  <2>2. MemoryOK'
    BY <1>0, <1>7 DEF Remember, memory, ghosts, MemoryOK
  <2>3. QED
    BY <2>1, <2>2 DEF TypeOK, MemoryOK
<1>8. QED
  BY <1>1, <1>2, <1>3, <1>4, <1>5, <1>6, <1>7 DEF Change

LEMMA TypeInvariance == Spec => []TypeOK
<1>1. ASSUME Init
      PROVE  TypeOK
  <2>1. RowTypes /\ References
    BY <1>1 DEF Init, RowTypes, References, Null
  <2>2. todo \in [Handler -> Seq(Statement)]
    BY <1>1 DEF Init
  <2>3. ids \in [Handler -> Ids] /\ line \in [Session -> Ids]
    BY <1>1, Constants DEF Init
  <2>4. QED
    BY <1>1, <2>1, <2>2, <2>3, Constants DEF Init, TypeOK, Null
<1>2. ASSUME TypeOK, [Next]_vars
      PROVE  TypeOK'
  <2>1. CASE StopDecided
    <3>1. MemoryOK'
      BY <1>2, <2>1, TypeParts DEF StopDecided, Wrote, MemoryOK, Null
    <3>2. RowTypes'
      BY <1>2, <2>1, TypeParts DEF StopDecided, RowTypes, MemoryOK, Null
    <3>3. References'
      BY <1>2, <2>1, TypeParts DEF StopDecided, References, TaskRow, WorkerRow
    <3>4. QED
      BY <3>1, <3>2, <3>3 DEF TypeOK, MemoryOK
  <2>2. CASE Restart \/ UNCHANGED vars
    <3>1. RowTypes' /\ References'
      BY <1>2, <2>2, SameRows, TypeParts DEF Restart, vars
    <3>2. MemoryOK'
      BY <1>2, <2>2, TypeParts DEF Restart, vars, memory, ghosts, MemoryOK
    <3>3. QED
      BY <3>1, <3>2 DEF TypeOK, MemoryOK
  <2>3. QED
    BY <1>2, <2>1, <2>2, StatementTypes, LoopTypes, DeletionTypes, ChangeTypes DEF Next
<1>3. QED
  BY <1>1, <1>2, PTL DEF Spec

\* Rows refer to rows that exist, whatever deletions run.
THEOREM ForeignKeys == Spec => []TypeOK
  BY TypeInvariance

-----------------------------------------------------------------------------
(* A statement is refused only after a deletion.  What has to be known is  *)
(* which of its ids each handler still relies on, at every statement; they *)
(* are those of rows that exist, until this process executes a DELETE.     *)

StopRests == {Stop, <<"stopped">>}

StartRests ==
  {Start, <<"task", "worker", "started", "track">>, <<"worker", "started", "track">>,
   <<"started", "track">>, <<"track">>}

RecoverRests ==
  {Recover, <<"stopped", "send", "worker", "started">>, <<"send", "worker", "started">>,
   <<"worker", "started">>, <<"started">>}

Rests(h) == {<< >>} \cup StopRests \cup (IF h = Monitor THEN RecoverRests ELSE StartRests)

NeedTask ==
  {<<"worker", "started", "track">>, Recover, <<"stopped", "send", "worker", "started">>,
   <<"send", "worker", "started">>, <<"worker", "started">>}

NeedWorker ==
  StopRests \cup {Recover, <<"stopped", "send", "worker", "started">>, <<"started">>,
                  <<"started", "track">>, <<"track">>}

\* The ids i are good for the statements in rest.
Covers(rest, i) ==
  /\ rest \notin {<< >>, Start} => ProjectRow(i.project)
  /\ rest \in NeedTask => TaskRow(i.task)
  /\ rest \in NeedWorker => WorkerRow(i.worker)

HeldInv ==
  /\ \A h \in Handler : todo[h] \in Rests(h) /\ (~deleted => Covers(todo[h], ids[h]))
  /\ \A s \in tracked : todo[s] = << >> /\ (~deleted => KeysHold(ids[s]))

RowsStay ==
  /\ \A r : ProjectRow(r) => ProjectRow(r)'
  /\ \A r : TaskRow(r) => TaskRow(r)'
  /\ \A r : WorkerRow(r) => WorkerRow(r)'

LEMMA UnchangedRowsStay ==
  ASSUME UNCHANGED <<project, tasks, workers>>
  PROVE  RowsStay
  BY DEF RowsStay, ProjectRow, TaskRow, WorkerRow

\* A step of one handler.
LEMMA HeldByOthers ==
  ASSUME TypeOK, HeldInv, NEW h \in Handler,
         deleted' = deleted, RowsStay,
         \A g \in Handler \ {h} : todo'[g] = todo[g] /\ ids'[g] = ids[g],
         tracked' \ {h} \subseteq tracked,
         todo'[h] \in Rests(h),
         ~deleted => Covers(todo[h], ids[h])',
         h \in tracked' => todo'[h] = << >> /\ (~deleted => KeysHold(ids[h])')
  PROVE  HeldInv'
<1>1. ASSUME NEW g \in Handler \ {h}, ~deleted
      PROVE  Covers(todo[g], ids[g])'
  BY <1>1 DEF HeldInv, Covers, RowsStay
<1>2. ASSUME NEW s \in tracked', s # h
      PROVE  todo'[s] = << >> /\ (~deleted => KeysHold(ids[s])')
  <2>1. s \in tracked /\ s \in Handler
    BY <1>2, Constants DEF TypeOK
  <2>2. QED
    BY <1>2, <2>1 DEF HeldInv, KeysHold, RowsStay
<1>3. QED
  BY <1>1, <1>2 DEF HeldInv, Rests

\* A step of no handler.
LEMMA HeldByAll ==
  ASSUME TypeOK, HeldInv, UNCHANGED <<todo, ids, tracked>>, deleted' \/ (deleted' = deleted /\ RowsStay)
  PROVE  HeldInv'
<1>1. CASE deleted'
  BY <1>1 DEF HeldInv, Rests
<1>2. CASE ~deleted' /\ ~deleted /\ RowsStay
  BY <1>2 DEF HeldInv, Rests, Covers, KeysHold, RowsStay
<1>3. QED
  BY <1>1, <1>2 DEF TypeOK

LEMMA HeldByDie ==
  ASSUME Die
  PROVE  HeldInv'
  BY DEF Die, HeldInv, Rests, Covers, NeedTask, NeedWorker, StopRests, Stop, Recover

\* What a handler has left when it stands at a statement.
LEMMA RestAt ==
  ASSUME HeldInv, NEW h \in Handler
  PROVE  /\ At(h, "project") => todo[h] = Start
         /\ At(h, "task") => todo[h] = <<"task", "worker", "started", "track">>
         /\ At(h, "worker") => todo[h] \in {<<"worker", "started", "track">>, <<"worker", "started">>}
         /\ At(h, "started") => todo[h] \in {<<"started", "track">>, <<"started">>}
         /\ At(h, "track") => todo[h] = <<"track">>
         /\ At(h, "stop") => todo[h] \in {Stop, Recover}
         /\ At(h, "stopped") => todo[h] \in {<<"stopped">>, <<"stopped", "send", "worker", "started">>}
         /\ At(h, "send") => h = Monitor /\ todo[h] = <<"send", "worker", "started">>
<1>1. todo[h] \in Rests(h)
  BY DEF HeldInv
<1>2. QED
  BY <1>1 DEF At, Rests, StopRests, StartRests, RecoverRests, Start, Stop, Recover

LEMMA Tails ==
  /\ Tail(Start) = <<"task", "worker", "started", "track">>
  /\ Tail(<<"task", "worker", "started", "track">>) = <<"worker", "started", "track">>
  /\ Tail(<<"worker", "started", "track">>) = <<"started", "track">>
  /\ Tail(<<"started", "track">>) = <<"track">>
  /\ Tail(<<"track">>) = << >>
  /\ Tail(Stop) = <<"stopped">>
  /\ Tail(<<"stopped">>) = << >>
  /\ Tail(Recover) = <<"stopped", "send", "worker", "started">>
  /\ Tail(<<"stopped", "send", "worker", "started">>) = <<"send", "worker", "started">>
  /\ Tail(<<"send", "worker", "started">>) = <<"worker", "started">>
  /\ Tail(<<"worker", "started">>) = <<"started">>
  /\ Tail(<<"started">>) = << >>
  BY DEF Start, Stop, Recover

\* What the statements that are left rely on.
LEMMA Needs ==
  /\ \A rest \in {<<"started", "track">>, <<"track">>, <<"stopped">>, <<"started">>, Stop} :
       rest \notin {<< >>, Start} /\ rest \notin NeedTask /\ rest \in NeedWorker
  /\ \A rest \in {Recover, <<"stopped", "send", "worker", "started">>} :
       rest \notin {<< >>, Start} /\ rest \in NeedTask /\ rest \in NeedWorker
  /\ \A rest \in {<<"send", "worker", "started">>, <<"worker", "started">>,
                  <<"worker", "started", "track">>} :
       rest \notin {<< >>, Start} /\ rest \in NeedTask /\ rest \notin NeedWorker
  /\ LET rest == <<"task", "worker", "started", "track">> IN
       rest \notin {<< >>, Start} /\ rest \notin NeedTask /\ rest \notin NeedWorker
  /\ \A rest \in {<< >>, Start} : rest \notin NeedTask /\ rest \notin NeedWorker
<1>1. ASSUME NEW rest \in {<<"started", "track">>, <<"track">>, <<"stopped">>, <<"started">>, Stop}
      PROVE  rest \notin {<< >>, Start} /\ rest \notin NeedTask /\ rest \in NeedWorker
  BY <1>1 DEF NeedTask, NeedWorker, StopRests, Start, Stop, Recover
<1>2. ASSUME NEW rest \in {Recover, <<"stopped", "send", "worker", "started">>}
      PROVE  rest \notin {<< >>, Start} /\ rest \in NeedTask /\ rest \in NeedWorker
  BY <1>2 DEF NeedTask, NeedWorker, StopRests, Start, Stop, Recover
<1>3. ASSUME NEW rest \in {<<"send", "worker", "started">>, <<"worker", "started">>,
                          <<"worker", "started", "track">>}
      PROVE  rest \notin {<< >>, Start} /\ rest \in NeedTask /\ rest \notin NeedWorker
  BY <1>3 DEF NeedTask, NeedWorker, StopRests, Start, Stop, Recover
<1>4. ASSUME NEW rest, rest = <<"task", "worker", "started", "track">>
      PROVE  rest \notin {<< >>, Start} /\ rest \notin NeedTask /\ rest \notin NeedWorker
  BY <1>4 DEF NeedTask, NeedWorker, StopRests, Start, Stop, Recover
<1>5. ASSUME NEW rest \in {<< >>, Start}
      PROVE  rest \notin NeedTask /\ rest \notin NeedWorker
  BY <1>5 DEF NeedTask, NeedWorker, StopRests, Start, Stop, Recover
<1>6. QED
  BY <1>1, <1>2, <1>3, <1>4, <1>5

\* What covers a statement of this kind covers those after it.
LEMMA CoversTail ==
  ASSUME NEW h \in Handler, NEW q \in Rests(h), NEW i,
         q \in {<<"started", "track">>, <<"started">>, Stop, Recover, <<"stopped">>,
                <<"stopped", "send", "worker", "started">>, <<"send", "worker", "started">>}
  PROVE  Tail(q) \in Rests(h) /\ (Covers(q, i) => Covers(Tail(q), i))
<1>1. CASE q = <<"started", "track">>
  <2>1. h # Monitor
    BY <1>1 DEF Rests, StopRests, RecoverRests, Stop, Recover
  <2>2. Tail(q) = <<"track">>
    BY <1>1, Tails
  <2>3. QED
    BY <1>1, <2>1, <2>2, Needs DEF Rests, StartRests, Covers
<1>2. CASE q \in {<<"started">>, <<"stopped">>}
  <2>1. Tail(q) = << >>
    BY <1>2, Tails
  <2>2. QED
    BY <2>1, Needs DEF Rests, Covers
<1>3. CASE q = Stop
  <2>1. Tail(q) = <<"stopped">>
    BY <1>3, Tails
  <2>2. QED
    BY <1>3, <2>1, Needs DEF Rests, StopRests, Covers
<1>4. CASE q \in {Recover, <<"stopped", "send", "worker", "started">>, <<"send", "worker", "started">>}
  <2>1. h = Monitor
    BY <1>4 DEF Rests, StopRests, StartRests, Start, Stop, Recover
  <2>2. Tail(q) \in RecoverRests
    BY <1>4, Tails DEF RecoverRests
  <2>3. ASSUME q = Recover
       PROVE  Covers(q, i) => Covers(Tail(q), i)
    <3>1. Tail(q) = <<"stopped", "send", "worker", "started">>
      BY <2>3, Tails
    <3>2. q \notin {<< >>, Start} /\ q \in NeedTask /\ q \in NeedWorker
      BY <2>3, Needs
    <3>3. QED
      BY <3>2 DEF Covers
  <2>4. ASSUME q = <<"stopped", "send", "worker", "started">>
       PROVE  Covers(q, i) => Covers(Tail(q), i)
    <3>1. Tail(q) = <<"send", "worker", "started">>
      BY <2>4, Tails
    <3>2. q \notin {<< >>, Start} /\ q \in NeedTask
      BY <2>4, Needs
    <3>3. Tail(q) \notin NeedWorker
      BY <3>1, Needs
    <3>4. QED
      BY <3>2, <3>3 DEF Covers
  <2>5. ASSUME q = <<"send", "worker", "started">>
       PROVE  Covers(q, i) => Covers(Tail(q), i)
    <3>1. Tail(q) = <<"worker", "started">>
      BY <2>5, Tails
    <3>2. q \notin {<< >>, Start} /\ q \in NeedTask
      BY <2>5, Needs
    <3>3. Tail(q) \notin NeedWorker
      BY <3>1, Needs
    <3>4. QED
      BY <3>2, <3>3 DEF Covers
  <2>6. Covers(q, i) => Covers(Tail(q), i)
    BY <1>4, <2>3, <2>4, <2>5
  <2>7. QED
    BY <2>1, <2>2, <2>6 DEF Rests
<1>5. QED
  BY <1>1, <1>2, <1>3, <1>4

\* A statement that does not change ids, and is not about new rows.
LEMMA GoesOn ==
  ASSUME TypeOK, HeldInv, NEW h \in Handler, RowsStay, UNCHANGED <<ids, tracked, deleted>>,
         todo' = [todo EXCEPT ![h] = Tail(@)],
         At(h, "started") \/ At(h, "stop") \/ At(h, "stopped") \/ At(h, "send")
  PROVE  HeldInv'
<1>1. todo'[h] = Tail(todo[h]) /\ \A g \in Handler \ {h} : todo'[g] = todo[g]
  BY DEF TypeOK
<1>2. todo[h] # << >>
  BY DEF At
<1>3. h \notin tracked
  BY <1>2 DEF HeldInv
<1>4. todo[h] \in Rests(h) /\ (~deleted => Covers(todo[h], ids[h]))
  BY DEF HeldInv
<1>5. Tail(todo[h]) \in Rests(h) /\ (~deleted => Covers(Tail(todo[h]), ids[h]))
  <2>1. todo[h] \in {<<"started", "track">>, <<"started">>, Stop, Recover, <<"stopped">>,
                     <<"stopped", "send", "worker", "started">>, <<"send", "worker", "started">>}
    BY RestAt
  <2>2. Tail(todo[h]) \in Rests(h) /\ (Covers(todo[h], ids[h]) => Covers(Tail(todo[h]), ids[h]))
    BY <1>4, <2>1, CoversTail
  <2>3. QED
    BY <1>4, <2>2
<1>7. ~deleted => Covers(todo[h], ids[h])'
  BY <1>1, <1>5 DEF Covers, RowsStay
<1>8. QED
  BY <1>1, <1>3, <1>5, <1>7, HeldByOthers DEF Rests

LEMMA HeldByRefused ==
  ASSUME TypeOK, HeldInv, NEW h \in Handler, h \notin tracked, Refused(h)
  PROVE  HeldInv'
<1>1. CASE Die
  BY <1>1, HeldByDie
<1>2. CASE /\ todo' = [todo EXCEPT ![h] = << >>]
           /\ UNCHANGED <<tables, tracked, ids, ghosts>>
  <2>1. todo'[h] = << >> /\ \A g \in Handler \ {h} : todo'[g] = todo[g]
    BY <1>2 DEF TypeOK
  <2>2. RowsStay /\ deleted' = deleted
    BY <1>2, UnchangedRowsStay DEF tables, ghosts
  <2>3. Covers(todo[h], ids[h])'
    BY <2>1, Needs DEF Covers
  <2>4. QED
    BY <1>2, <2>1, <2>2, <2>3, HeldByOthers DEF Rests
<1>3. QED
  BY <1>1, <1>2 DEF Refused

LEMMA HeldByStatement ==
  ASSUME TypeOK, HeldInv, NEW h \in Handler, Handle(h)
  PROVE  HeldInv'
<1>1. todo[h] # << >>
  BY DEF Handle, Statements, EnsureProject, CreateTask, StartWorker, Started, StopWorker, Stopped,
     Send, Track, At
<1>2. h \notin tracked
  BY <1>1 DEF HeldInv
<1>3. todo[h] \in Rests(h) /\ (~deleted => Covers(todo[h], ids[h]))
  BY DEF HeldInv
<1>4. ASSUME Proceed(h)
      PROVE  /\ todo'[h] = Tail(todo[h])
             /\ \A g \in Handler \ {h} : todo'[g] = todo[g]
             /\ UNCHANGED <<tracked, deleted>>
  BY <1>4 DEF Proceed, TypeOK
<1>5. CASE EnsureProject(h)
  <2>1. todo[h] = Start /\ h # Monitor
    <3>1. todo[h] = Start
      BY <1>5, RestAt DEF EnsureProject
    <3>2. QED
      BY <1>3, <3>1 DEF Rests, StopRests, RecoverRests, Start, Stop, Recover
  <2>2. todo'[h] = <<"task", "worker", "started", "track">>
    BY <1>4, <1>5, <2>1, Tails DEF EnsureProject
  <2>3. project' # Null /\ (project # Null => project' = project)
    BY <1>5 DEF EnsureProject, TypeOK, RowTypes, Null
  <2>4. RowsStay
    BY <1>5, <2>3 DEF EnsureProject, RowsStay, ProjectRow, TaskRow, WorkerRow
  <2>5. ids'[h].project = project' /\ \A g \in Handler \ {h} : ids'[g] = ids[g]
    BY <1>5 DEF EnsureProject, TypeOK, Ids
  <2>6. Covers(todo[h], ids[h])'
    BY <2>2, <2>3, <2>5, Needs DEF Covers, ProjectRow
  <2>7. todo'[h] \in Rests(h)
    BY <2>1, <2>2 DEF Rests, StartRests
  <2>8. QED
    BY <1>2, <1>4, <1>5, <2>4, <2>5, <2>6, <2>7, HeldByOthers DEF EnsureProject
<1>6. CASE CreateTask(h)
  <2>1. todo[h] = <<"task", "worker", "started", "track">>
    BY <1>6, RestAt DEF CreateTask
  <2>2. h # Monitor
    BY <1>3, <2>1 DEF Rests, StopRests, RecoverRests, Stop, Recover
  <2>3. CASE /\ ProjectRow(ids[h].project)
             /\ tasks' = tasks \cup {[id |-> lastId', project |-> project]}
             /\ ids' = [ids EXCEPT ![h].task = lastId']
             /\ Proceed(h)
             /\ UNCHANGED <<project, workers>>
    <3>1. todo'[h] = <<"worker", "started", "track">>
      BY <1>4, <2>1, <2>3, Tails
    <3>2. RowsStay
      BY <2>3 DEF RowsStay, ProjectRow, TaskRow, WorkerRow
    <3>3. /\ ids'[h].project = ids[h].project /\ ids'[h].task = lastId'
          /\ \A g \in Handler \ {h} : ids'[g] = ids[g]
      BY <2>3 DEF TypeOK, Ids
    <3>4. ProjectRow(ids[h].project)' /\ TaskRow(ids[h].task)'
      <4> DEFINE row == [id |-> lastId', project |-> project]
      <4>0. row \in tasks' /\ row.id = lastId'
        BY <2>3
      <4>1. \E t \in tasks' : t.id = lastId'
        BY <4>0
      <4>2. QED
        BY <2>3, <3>3, <4>1 DEF ProjectRow, TaskRow
    <3>5. Covers(todo[h], ids[h])'
      BY <3>1, <3>4, Needs DEF Covers
    <3>6. todo'[h] \in Rests(h)
      BY <2>2, <3>1 DEF Rests, StartRests
    <3>7. QED
      BY <1>2, <1>4, <2>3, <3>2, <3>3, <3>5, <3>6, HeldByOthers
  <2>4. QED
    BY <1>2, <1>6, <2>3, HeldByRefused DEF CreateTask
<1>7. CASE StartWorker(h)
  <2>1. todo[h] \in {<<"worker", "started", "track">>, <<"worker", "started">>}
    BY <1>7, RestAt DEF StartWorker
  <2>2. CASE /\ ProjectRow(ids[h].project)
             /\ workers' = workers \cup
                  {[id |-> lastId', project |-> project, task |-> ids[h].task,
                    session |-> ids[h].session, running |-> TRUE]}
             /\ ids' = [ids EXCEPT ![h].worker = lastId']
             /\ Proceed(h)
             /\ UNCHANGED <<project, tasks>>
    <3>1. /\ todo'[h] \in {<<"started", "track">>, <<"started">>}
          /\ todo'[h] \in Rests(h)
      <4>1. CASE todo[h] = <<"worker", "started", "track">>
        <5>1. h # Monitor
          BY <1>3, <4>1 DEF Rests, StopRests, RecoverRests, Stop, Recover
        <5>2. todo'[h] = <<"started", "track">>
          BY <1>4, <2>2, <4>1, Tails
        <5>3. QED
          BY <5>1, <5>2 DEF Rests, StartRests
      <4>2. CASE todo[h] = <<"worker", "started">>
        <5>1. h = Monitor
          BY <1>3, <4>2 DEF Rests, StopRests, StartRests, Start, Stop
        <5>2. todo'[h] = <<"started">>
          BY <1>4, <2>2, <4>2, Tails
        <5>3. QED
          BY <5>1, <5>2 DEF Rests, RecoverRests
      <4>3. QED
        BY <2>1, <4>1, <4>2
    <3>2. RowsStay
      BY <2>2 DEF RowsStay, ProjectRow, TaskRow, WorkerRow
    <3>3. /\ ids'[h].project = ids[h].project /\ ids'[h].worker = lastId'
          /\ \A g \in Handler \ {h} : ids'[g] = ids[g]
      BY <2>2 DEF TypeOK, Ids
    <3>4. ProjectRow(ids[h].project)' /\ WorkerRow(ids[h].worker)'
      <4> DEFINE row == [id |-> lastId', project |-> project, task |-> ids[h].task,
                         session |-> ids[h].session, running |-> TRUE]
      <4>0. row \in workers' /\ row.id = lastId'
        BY <2>2
      <4>1. \E w \in workers' : w.id = lastId'
        BY <4>0
      <4>2. QED
        BY <2>2, <3>3, <4>1 DEF ProjectRow, WorkerRow
    <3>5. Covers(todo[h], ids[h])'
      BY <3>1, <3>4, Needs DEF Covers
    <3>6. QED
      BY <1>2, <1>4, <2>2, <3>1, <3>2, <3>3, <3>5, HeldByOthers
  <2>3. QED
    BY <1>2, <1>7, <2>2, HeldByRefused DEF StartWorker
<1>8. CASE (Started(h) \/ Stopped(h)) /\ InsertEvent(h)
  <2>1. RowsStay
    BY <1>8, UnchangedRowsStay DEF InsertEvent
  <2>2. QED
    BY <1>4, <1>8, <2>1, GoesOn DEF InsertEvent, Started, Stopped, Proceed
<1>9. CASE StopWorker(h)
  <2>1. ids[h].worker \in Nat
    BY DEF TypeOK, Ids
  <2>2. RowsStay
    BY <1>9, <2>1, HaltedRows DEF StopWorker, TypeOK, RowsStay, ProjectRow, TaskRow
  <2>3. QED
    BY <1>4, <1>9, <2>2, GoesOn DEF StopWorker, Proceed
<1>10. CASE Send(h) /\ Proceed(h) /\ UNCHANGED <<tables, ids>>
  <2>1. RowsStay
    BY <1>10, UnchangedRowsStay DEF tables
  <2>2. QED
    BY <1>10, <2>1, GoesOn DEF Send, Proceed
<1>11. CASE h \in Session /\ Track(h)
  <2>1. todo[h] = <<"track">>
    BY <1>11, RestAt DEF Track
  <2>2. todo'[h] = << >> /\ \A g \in Handler \ {h} : todo'[g] = todo[g]
    BY <1>11, <2>1, Tails DEF Track, TypeOK
  <2>3. RowsStay
    BY <1>11, UnchangedRowsStay DEF Track, tables
  <2>4. ~deleted => KeysHold(ids[h])
    BY <1>3, <2>1, Needs DEF Covers, KeysHold
  <2>5. ~deleted => KeysHold(ids[h])'
    BY <1>11, <2>3, <2>4 DEF Track, KeysHold, RowsStay
  <2>6. Covers(todo[h], ids[h])'
    BY <2>2, Needs DEF Covers
  <2>7. QED
    BY <1>11, <2>2, <2>3, <2>5, <2>6, HeldByOthers DEF Track, ghosts, Rests
<1>12. CASE Refused(h) \/ Die
  BY <1>2, <1>12, HeldByRefused, HeldByDie
<1>13. QED
  BY <1>5, <1>6, <1>7, <1>8, <1>9, <1>10, <1>11, <1>12
  DEF Handle, Statements, Started, Stopped, Send

\* A handler begins with ids that are good for its statements.
LEMMA HeldByBegin ==
  ASSUME TypeOK, HeldInv, NEW h \in Handler, NEW q \in Rests(h), NEW i, Begin(h, q, i),
         tracked' \subseteq tracked \ {h},
         ~deleted => Covers(q, i)
  PROVE  HeldInv'
<1>1. /\ todo'[h] = q /\ ids'[h] = i
      /\ \A g \in Handler \ {h} : todo'[g] = todo[g] /\ ids'[g] = ids[g]
  BY DEF Begin, TypeOK
<1>2. RowsStay /\ deleted' = deleted
  BY UnchangedRowsStay DEF Begin, tables, ghosts
<1>3. ~deleted => Covers(todo[h], ids[h])'
  BY <1>1, <1>2 DEF Covers, RowsStay
<1>4. QED
  BY <1>1, <1>2, <1>3, HeldByOthers

LEMMA RowsCover ==
  ASSUME TypeOK, NEW w \in workers, NEW q
  PROVE  Covers(q, IdsOf(w))
<1>1. ProjectRow(w.project) /\ TaskRow(w.task)
  BY DEF TypeOK, References, ProjectRow
<1>2. WorkerRow(w.id)
  BY DEF WorkerRow
<1>3. QED
  BY <1>1, <1>2 DEF Covers, IdsOf

\* A step that leaves the handlers alone.
LEMMA HeldByRest ==
  ASSUME TypeOK, HeldInv, UNCHANGED <<todo, ids, tracked, project, tasks, workers, deleted>>
  PROVE  HeldInv'
  BY UnchangedRowsStay, HeldByAll

LEMMA HeldInvariance == Spec => []HeldInv
<1>1. ASSUME Init
      PROVE  HeldInv
  BY <1>1, Needs DEF Init, HeldInv, Rests, Covers
<1>2. ASSUME TypeOK, HeldInv, [Next]_vars
      PROVE  HeldInv'
  <2>1. CASE \E h \in Handler : Handle(h)
    BY <1>2, <2>1, HeldByStatement
  <2>2. ASSUME NEW s \in Session, Ingest(s)
        PROVE  HeldInv'
    BY <1>2, <2>2, HeldByRest DEF Ingest, IngestLine, IngestEvent
  <2>3. ASSUME NEW s \in Session, Adopt(s) \/ Spawn(s)
        PROVE  HeldInv'
    <3>1. s \in Handler /\ s # Monitor
      BY HistoryAssumption, Constants
    <3>2. Start \in Rests(s)
      BY <3>1 DEF Rests, StartRests
    <3>3. Covers(Start, [NoIds EXCEPT !.session = s])
      BY Needs DEF Covers
    <3>4. s \notin tracked /\ tracked' = tracked
      BY <2>3 DEF Adopt, Spawn, Fresh
    <3>5. Begin(s, Start, [NoIds EXCEPT !.session = s])
      BY <2>3 DEF Adopt, Spawn
    <3>6. QED
      BY <1>2, <3>1, <3>2, <3>3, <3>4, <3>5, HeldByBegin
  <2>4. ASSUME NEW s \in Session, Release(s)
        PROVE  HeldInv'
    <3>1. s \in Handler /\ Stop \in Rests(s)
      BY Constants DEF Rests, StopRests
    <3>2. ~deleted => KeysHold(ids[s])
      BY <1>2, <2>4 DEF Release, HeldInv
    <3>3. ~deleted => Covers(Stop, ids[s])
      BY <3>2, Needs DEF Covers, KeysHold
    <3>4. tracked' = tracked \ {s} /\ Begin(s, Stop, ids[s])
      BY <2>4 DEF Release
    <3>5. QED
      BY <1>2, <3>1, <3>3, <3>4, HeldByBegin
  <2>5. ASSUME NEW w \in workers, SweepGone(w) \/ SweepDead(w)
        PROVE  HeldInv'
    <3>1. Monitor \in Handler /\ Stop \in Rests(Monitor) /\ Recover \in Rests(Monitor)
      BY DEF Handler, Rests, StopRests, RecoverRests
    <3>2. tracked' = tracked /\ Monitor \notin tracked
      BY <1>2, <2>5, HistoryAssumption DEF SweepGone, SweepDead, TypeOK
    <3>3. PICK q \in {Stop, Recover} : Begin(Monitor, q, IdsOf(w))
      BY <2>5 DEF SweepGone, SweepDead
    <3>4. QED
      BY <1>2, <3>1, <3>2, <3>3, RowsCover, HeldByBegin
  <2>6. CASE StopDecided
    BY <1>2, <2>6, HeldByRest DEF StopDecided
  <2>7. CASE DeleteKill \/ DeleteSelect
    BY <1>2, <2>7, HeldByRest DEF DeleteKill, DeleteSelect, Deleting, ghosts
  <2>8. CASE DeleteCaptures \/ DeleteEvents \/ DeleteWorkers \/ DeleteTasks \/ DeleteProject
    BY <1>2, <2>8, HeldByAll
    DEF DeleteCaptures, DeleteEvents, DeleteWorkers, DeleteTasks, DeleteProject, DeleteFrom, Deleting
  <2>9. CASE Restart \/ Remember \/ DeleteCommand \/ \E w \in workers : StopCommand(w)
    BY <1>2, <2>9, HeldByRest DEF Restart, Remember, DeleteCommand, StopCommand, tables, memory, ghosts
  <2>10. CASE Kill
    BY <2>10, HeldByDie DEF Kill
  <2>11. CASE \E s \in Session : Open(s) \/ Close(s)
    BY <1>2, <2>11, HeldByRest DEF Open, Close, tables, memory, ghosts
  <2>12. CASE UNCHANGED vars
    BY <1>2, <2>12, HeldByRest DEF vars, tables, memory, ghosts
  <2>13. QED
    BY <1>2, <2>1, <2>2, <2>3, <2>4, <2>5, <2>6, <2>7, <2>8, <2>9, <2>10, <2>11, <2>12
    DEF Next, Discover, Sweep, Deletion, Change
<1>3. QED
  BY <1>1, <1>2, TypeInvariance, PTL DEF Spec

\* The process ends by itself only after a DELETE of its own, or when the monitor
\* types into a pane that went away.
THEOREM RejectionsExplained == Spec => RejectionsFollowDeletions
<1>1. ASSUME TypeOK, HeldInv, [Next]_vars
      PROVE  (up /\ ~up' /\ changes' = changes) => (deleted \/ At(Monitor, "send"))
  <2>1. SUFFICES ASSUME up, ~up', changes' = changes, ~deleted
                 PROVE  At(Monitor, "send")
    OBVIOUS
  <2>2. ~Change
    BY <1>1, <2>1 DEF Change, TypeOK
  <2>3. PICK h \in Handler : Handle(h)
    <3>1. ASSUME NEW s \in Session
          PROVE  ~Ingest(s) /\ ~Adopt(s) /\ ~Release(s)
      BY <2>1 DEF Ingest, IngestLine, IngestEvent, Adopt, Release, Begin
    <3>2. ~Sweep /\ ~StopDecided /\ ~Restart
      BY <2>1 DEF Sweep, SweepGone, Begin, StopDecided, Restart
    <3>3. ~Deletion
      BY <2>1 DEF Deletion, DeleteKill, DeleteSelect, DeleteCaptures, DeleteEvents, DeleteWorkers,
                  DeleteTasks, DeleteProject, DeleteFrom, Deleting
    <3>4. QED
      BY <1>1, <2>1, <2>2, <3>1, <3>2, <3>3 DEF Next, Discover, vars
  <2>4. Covers(todo[h], ids[h])
    BY <1>1, <2>1 DEF HeldInv
  <2>5. ~(Proceed(h) \/ Track(h) \/ EnsureProject(h) \/ InsertEvent(h) \/ StopWorker(h))
    BY <2>1 DEF Proceed, Track, EnsureProject, InsertEvent, StopWorker
  <2>6. ~CreateTask(h)
    <3>1. ASSUME At(h, "task")
          PROVE  ProjectRow(ids[h].project)
      BY <1>1, <2>4, <3>1, RestAt, Needs DEF Covers
    <3>2. QED
      BY <2>5, <3>1 DEF CreateTask
  <2>7. ~StartWorker(h)
    <3>1. ASSUME At(h, "worker")
          PROVE  ProjectRow(ids[h].project) /\ TaskRow(ids[h].task)
      BY <1>1, <2>4, <3>1, RestAt, Needs DEF Covers
    <3>2. QED
      BY <2>5, <3>1 DEF StartWorker
  <2>8. ~Started(h) /\ ~Stopped(h)
    <3>1. ASSUME At(h, "started") \/ At(h, "stopped")
          PROVE  KeysHold(ids[h])
      BY <1>1, <2>4, <3>1, RestAt, Needs DEF Covers, KeysHold
    <3>2. QED
      BY <2>5, <3>1 DEF Started, Stopped
  <2>9. Send(h)
    BY <2>3, <2>5, <2>6, <2>7, <2>8 DEF Handle, Statements
  <2>10. QED
    BY <1>1, <2>9, RestAt DEF Send
<1>2. QED
  BY <1>1, TypeInvariance, HeldInvariance, PTL DEF Spec, RejectionsFollowDeletions

-----------------------------------------------------------------------------
(* A deletion fails for a reason.  As long as nobody writes, each of its   *)
(* statements leaves its table empty, and those before it.                 *)

Undisturbed == quiet /\ project = deletion.id /\ \A e \in events : e.project # Null

DeletionInv ==
  /\ deletion.at \notin {"none", "kill", "select"} => deletion.id # Null
  /\ Undisturbed =>
       /\ deletion.at \in {"event", "worker", "task", "project"} => captures = {}
       /\ deletion.at \in {"worker", "task", "project"} => events = {}
       /\ deletion.at \in {"task", "project"} => workers = {}
       /\ deletion.at = "project" => tasks = {}

\* Nobody wrote a row, or the deletion is told so.
LEMMA ExplainedByOthers ==
  ASSUME DeletionInv, deletion' = deletion,
         \/ quiet' = FALSE
         \/ UNCHANGED <<quiet, project, tasks, events, captures>> /\ (workers = {} => workers' = {})
  PROVE  DeletionInv'
  BY DEF DeletionInv, Undisturbed

LEMMA ExplainedByNone ==
  ASSUME deletion'.at \in {"none", "kill", "select"}
  PROVE  DeletionInv'
  BY DEF DeletionInv

LEMMA ExplainedByStatement ==
  ASSUME DeletionInv, NEW h \in Handler, Handle(h)
  PROVE  DeletionInv'
<1>1. CASE Die
  BY <1>1, ExplainedByNone DEF Die, NoDeletion
<1>2. CASE Proceed(h) /\ Wrote
  BY <1>2, ExplainedByOthers DEF Proceed, Wrote
<1>3. CASE UNCHANGED <<deletion, quiet, project, tasks, workers, events, captures>>
  BY <1>3, ExplainedByOthers
<1>4. CASE StopWorker(h)
  BY <1>4, ExplainedByOthers DEF StopWorker, Proceed, Halted
<1>5. QED
  BY <1>1, <1>2, <1>3, <1>4
  DEF Handle, Statements, EnsureProject, CreateTask, StartWorker, Started, Stopped, InsertEvent, Send,
      Track, Refused, Proceed, tables, ghosts

LEMMA ExplainedByDeletion ==
  ASSUME TypeOK, DeletionInv, Deletion
  PROVE  DeletionInv'
<1> USE DEF DeletionInv, Undisturbed
<1>1. CASE DeleteKill
  BY <1>1 DEF DeleteKill, NoDeletion
<1>2. CASE DeleteSelect
  BY <1>2 DEF DeleteSelect, NoDeletion, Null
<1>3. ASSUME NEW table, NEW next \in DeletionStep \ {"none"}, DeleteFrom(table, next)
      PROVE  deletion'.at = next /\ deletion'.id = deletion.id /\ deletion.at = table
  BY <1>3 DEF DeleteFrom, TypeOK
<1>4. ASSUME NEW rows, deletion.id = project, \A r \in rows : r.project = project
      PROVE  Others(rows) = {}
  BY <1>4 DEF Others
<1>5. CASE DeleteCaptures
  <2>1. deletion.id = project => captures' = {}
    BY <1>4, <1>5 DEF DeleteCaptures, TypeOK, References
  <2>2. deletion'.at = "event" /\ deletion'.id = deletion.id /\ deletion.at = "capture_line"
    BY <1>3, <1>5 DEF DeleteCaptures, DeletionStep
  <2>3. QED
    BY <1>5, <2>1, <2>2 DEF DeleteCaptures, DeleteFrom, Deleting
<1>6. CASE DeleteEvents
  <2>1. deletion'.at = "worker" /\ deletion'.id = deletion.id /\ deletion.at = "event"
    BY <1>3, <1>6 DEF DeleteEvents, DeletionStep
  <2>2. ASSUME deletion.id = project, deletion.id # Null, \A e \in events' : e.project # Null
        PROVE  events' = {} /\ \A e \in events : e.project # Null
    BY <1>6, <2>2 DEF DeleteEvents, Others, TypeOK, References
  <2>3. UNCHANGED <<project, captures, quiet>>
    BY <1>6 DEF DeleteEvents, DeleteFrom
  <2>4. QED
    BY <2>1, <2>2, <2>3
<1>7. CASE DeleteWorkers
  <2>1. deletion'.at = "task" /\ deletion'.id = deletion.id /\ deletion.at = "worker"
    BY <1>3, <1>7 DEF DeleteWorkers, DeletionStep
  <2>2. UNCHANGED <<project, events, captures, quiet>>
    BY <1>7 DEF DeleteWorkers, DeleteFrom
  <2>3. ASSUME deletion.id = project, events = {}, captures = {}
        PROVE  workers' = {}
    BY <1>4, <1>7, <2>3 DEF DeleteWorkers, TypeOK, References
  <2>4. QED
    BY <2>1, <2>2, <2>3
<1>8. CASE DeleteTasks
  <2>1. deletion'.at = "project" /\ deletion'.id = deletion.id /\ deletion.at = "task"
    BY <1>3, <1>8 DEF DeleteTasks, DeletionStep
  <2>2. UNCHANGED <<project, workers, events, captures, quiet>>
    BY <1>8 DEF DeleteTasks, DeleteFrom
  <2>3. ASSUME deletion.id = project, workers = {}
        PROVE  tasks' = {}
    BY <1>4, <1>8, <2>3 DEF DeleteTasks, TypeOK, References
  <2>4. QED
    BY <2>1, <2>2, <2>3
<1>9. CASE DeleteProject
  BY <1>9 DEF DeleteProject, DeleteFrom, NoDeletion
<1>10. QED
  BY <1>1, <1>2, <1>5, <1>6, <1>7, <1>8, <1>9 DEF Deletion

LEMMA DeletionInvariance == Spec => []DeletionInv
<1>1. ASSUME Init
      PROVE  DeletionInv
  BY <1>1 DEF Init, DeletionInv, Undisturbed, NoDeletion
<1>2. ASSUME TypeOK, DeletionInv, [Next]_vars
      PROVE  DeletionInv'
  <2>1. CASE \E s \in Session : Ingest(s)
    BY <1>2, <2>1, ExplainedByOthers DEF Ingest, IngestLine, IngestEvent, Wrote
  <2>2. CASE StopDecided
    BY <1>2, <2>2, ExplainedByOthers DEF StopDecided, Wrote
  <2>3. ASSUME NEW h, NEW q, NEW i, Begin(h, q, i)
        PROVE  DeletionInv'
    BY <1>2, <2>3, ExplainedByOthers DEF Begin, tables, ghosts
  <2>4. CASE Discover \/ Sweep \/ \E s \in Session : Spawn(s)
    BY <2>3, <2>4 DEF Discover, Sweep, Adopt, Release, SweepGone, Spawn
  <2>5. CASE \E w \in workers : SweepDead(w)
    BY <2>3, <2>5 DEF SweepDead
  <2>6. CASE DeleteCommand
    BY <2>6, ExplainedByNone DEF DeleteCommand, NoDeletion
  <2>7. CASE Kill
    BY <2>7, ExplainedByNone DEF Kill, Die, NoDeletion
  <2>8. CASE \/ Restart \/ Remember \/ UNCHANGED vars
             \/ \E w \in workers : StopCommand(w)
             \/ \E s \in Session : Open(s) \/ Close(s)
    BY <1>2, <2>8, ExplainedByOthers
    DEF Restart, Remember, StopCommand, Open, Close, vars, tables, memory, ghosts
  <2>9. QED
    BY <1>2, <2>1, <2>2, <2>4, <2>5, <2>6, <2>7, <2>8, ExplainedByStatement, ExplainedByDeletion
    DEF Next, Change
<1>3. QED
  BY <1>1, <1>2, TypeInvariance, PTL DEF Spec

\* A deletion that ends and leaves the project was disturbed, or a table it leaves
\* alone refers to the project.
THEOREM DeletionsExplained == Spec => DeletionsAreExplained
<1>1. ASSUME TypeOK, DeletionInv, [Next]_vars, DeletionEnds
      PROVE  \/ project' # deletion.id
             \/ ~quiet
             \/ pinned
             \/ \E e \in events : e.project = Null
  <2>1. DeleteProject
    <3>1. deletion' # deletion /\ ~Die /\ deletion.at = "project"
      BY <1>1 DEF DeletionEnds, Die
    <3>2. ASSUME NEW h \in Handler
          PROVE  ~Handle(h)
      BY <3>1 DEF Handle, Statements, EnsureProject, CreateTask, StartWorker, Started, StopWorker,
                  Stopped, InsertEvent, Send, Track, Refused, Proceed
    <3>3. ~(\E s \in Session : Ingest(s)) /\ ~StopDecided /\ ~Restart
      BY <3>1 DEF Ingest, IngestLine, IngestEvent, StopDecided, Restart, memory
    <3>4. ~Discover /\ ~Sweep /\ ~Change
      BY <3>1 DEF Discover, Adopt, Release, Sweep, SweepGone, Begin, Change, Spawn, Open, Close,
                  SweepDead, StopCommand, DeleteCommand, Kill, Remember, memory
    <3>5. Deletion
      BY <1>1, <3>1, <3>2, <3>3, <3>4 DEF Next, vars, memory
    <3>6. QED
      BY <3>1, <3>5 DEF Deletion, DeleteKill, DeleteSelect, DeleteCaptures, DeleteEvents,
                        DeleteWorkers, DeleteTasks, DeleteFrom
  <2>2. deletion.at = "project"
    BY <1>1 DEF DeletionEnds
  <2>3. SUFFICES ASSUME project' = deletion.id, quiet, ~pinned, \A e \in events : e.project # Null
                 PROVE  FALSE
    OBVIOUS
  <2>4. project = deletion.id /\ project # Null
    BY <1>1, <2>1, <2>2, <2>3 DEF DeleteProject, DeletionInv
  <2>5. tasks = {} /\ workers = {} /\ events = {} /\ captures = {}
    BY <1>1, <2>2, <2>3, <2>4 DEF DeletionInv, Undisturbed
  <2>6. project' = Null
    BY <2>1, <2>3, <2>4, <2>5 DEF DeleteProject
  <2>7. QED
    BY <2>3, <2>4, <2>6
<1>2. QED
  BY <1>1, TypeInvariance, DeletionInvariance, PTL DEF Spec, DeletionsAreExplained

-----------------------------------------------------------------------------
(* An adopted session keeps a running row.  Nobody else stops it, because  *)
(* a row has one session, and the id of a row is not given again.          *)

Follows(s) == s \in tracked \/ At(s, "started") \/ At(s, "track")

RunInv ==
  /\ \A w \in workers : 0 < w.id /\ w.id <= lastId
  /\ \A v, w \in workers : v.id = w.id => v.session = w.session
  /\ \A h \in Handler : ids[h].worker <= lastId
  /\ \A s \in Session : todo[s] # << >> \/ s \in tracked => ids[s].session = s
  /\ todo[Monitor] # << >> => ids[Monitor].session \in Spawned
  /\ \A s \in Session : \A w \in workers :
       w.id = ids[s].worker => w.session = s /\ (s \notin Spawned /\ Follows(s) => w.running)
  /\ \A w \in workers : w.id = ids[Monitor].worker => w.session \in Spawned

\* A step that starts no worker, and stops none.
LEMMA RunsByRest ==
  ASSUME RunInv, workers' \subseteq workers, UNCHANGED <<lastId, todo, ids, tracked>>
  PROVE  RunInv'
  BY DEF RunInv, Follows, At

LEMMA RunsByHandler ==
  ASSUME TypeOK, RunInv, NEW h \in Handler,
         workers' \subseteq workers, lastId' \in Nat, lastId <= lastId',
         \A g \in Handler \ {h} : todo'[g] = todo[g] /\ ids'[g] = ids[g],
         tracked' \ {h} \subseteq tracked,
         ids'[h].worker = ids[h].worker /\ ids'[h].session = ids[h].session,
         todo'[h] # << >> \/ h \in tracked' => todo[h] # << >> \/ h \in tracked,
         h = Monitor => (todo'[h] # << >> => todo[h] # << >>),
         Follows(h)' => Follows(h)
  PROVE  RunInv'
<1>1. Session \subseteq Handler /\ Monitor \in Handler /\ lastId \in Nat
  BY DEF Handler, TypeOK, RowTypes
<1>2. \A g \in Handler : ids'[g].worker = ids[g].worker /\ ids'[g].session = ids[g].session
  OBVIOUS
<1>3. ASSUME NEW w \in workers'
      PROVE  0 < w.id /\ w.id <= lastId'
  <2>1. w.id \in Nat
    BY DEF TypeOK, RowTypes
  <2>2. 0 < w.id /\ w.id <= lastId
    BY DEF RunInv
  <2>3. QED
    BY <1>1, <2>1, <2>2
<1>4. ASSUME NEW g \in Handler
      PROVE  ids'[g].worker <= lastId'
  <2>1. ids[g].worker \in Nat
    BY DEF TypeOK, Ids
  <2>2. ids[g].worker <= lastId
    BY DEF RunInv
  <2>3. QED
    BY <1>1, <1>2, <2>1, <2>2
<1>5. \A s \in Session : todo'[s] # << >> \/ s \in tracked' => ids'[s].session = s
  BY <1>1, <1>2 DEF RunInv
<1>6. todo'[Monitor] # << >> => ids'[Monitor].session \in Spawned
  BY <1>1, <1>2 DEF RunInv
<1>7. \A s \in Session : Follows(s)' => Follows(s)
  BY <1>1 DEF Follows, At
<1>8. \A s \in Session : \A w \in workers' :
        w.id = ids'[s].worker => w.session = s /\ (s \notin Spawned /\ Follows(s)' => w.running)
  BY <1>1, <1>2, <1>7 DEF RunInv
<1>9. \A w \in workers' : w.id = ids'[Monitor].worker => w.session \in Spawned
  BY <1>1, <1>2 DEF RunInv
<1>10. QED
  BY <1>3, <1>4, <1>5, <1>6, <1>8, <1>9 DEF RunInv

LEMMA RunsByDie ==
  ASSUME TypeOK, RunInv, Die
  PROVE  RunInv'
  BY DEF RunInv, TypeOK, RowTypes, Die, tables, NoIds, Null, Follows, At, Handler

\* A handler begins, with no row or with one of a spawned session.
LEMMA RunsByBegin ==
  ASSUME TypeOK, RunInv, NEW h \in Handler, NEW q, NEW i \in Ids, Begin(h, q, i),
         tracked' \subseteq tracked, h \notin tracked,
         \/ /\ h \in Session
            /\ i.session = h /\ i.worker = Null
         \/ /\ h = Monitor
            /\ i.session \in Spawned
            /\ \E w \in workers : w.id = i.worker /\ w.session = i.session
  PROVE  RunInv'
<1>1. Session \subseteq Handler /\ Monitor \in Handler /\ lastId \in Nat /\ Monitor \notin Session
  BY HistoryAssumption DEF Handler, TypeOK, RowTypes
<1>2. /\ todo'[h] = q /\ ids'[h] = i
      /\ \A g \in Handler \ {h} : todo'[g] = todo[g] /\ ids'[g] = ids[g]
  BY DEF Begin, TypeOK
<1>3. workers' = workers /\ lastId' = lastId
  BY DEF Begin, tables
<1>4. \A g \in Handler : ids'[g].worker <= lastId'
  <2>1. i.worker <= lastId
    BY <1>1 DEF RunInv, Null
  <2>2. QED
    BY <1>2, <1>3, <2>1 DEF RunInv
<1>5. \A s \in Session : todo'[s] # << >> \/ s \in tracked' => ids'[s].session = s
  BY <1>1, <1>2 DEF RunInv
<1>6. todo'[Monitor] # << >> => ids'[Monitor].session \in Spawned
  BY <1>1, <1>2 DEF RunInv
<1>7. \A s \in Session \ {h} : Follows(s)' => Follows(s)
  BY <1>1, <1>2 DEF Follows, At
<1>8. \A s \in Session : \A w \in workers' :
        w.id = ids'[s].worker => w.session = s /\ (s \notin Spawned /\ Follows(s)' => w.running)
  BY <1>1, <1>2, <1>3, <1>7 DEF RunInv, Null
<1>9. \A w \in workers' : w.id = ids'[Monitor].worker => w.session \in Spawned
  BY <1>1, <1>2, <1>3 DEF RunInv
<1>10. QED
  BY <1>3, <1>4, <1>5, <1>6, <1>8, <1>9 DEF RunInv

\* The new row of a worker has a new id.
LEMMA RunsByStart ==
  ASSUME TypeOK, HeldInv, RunInv, NEW h \in Handler, StartWorker(h), Proceed(h)
  PROVE  RunInv'
<1> DEFINE row == [id |-> lastId', project |-> project, task |-> ids[h].task,
                   session |-> ids[h].session, running |-> TRUE]
<1>1. /\ workers' = workers \cup {row} /\ lastId' = lastId + 1
      /\ ids' = [ids EXCEPT ![h].worker = lastId']
  <2>1. ~Refused(h)
    <3>1. todo'[h] = Tail(todo[h]) /\ up' = up /\ deletion' = deletion /\ todo[h] # << >>
      BY DEF StartWorker, Proceed, TypeOK, At
    <3>2. todo[h] \in {<<"worker", "started", "track">>, <<"worker", "started">>}
      BY RestAt DEF StartWorker
    <3>3. todo'[h] # << >>
      <4>1. todo'[h] \in {<<"started", "track">>, <<"started">>}
        BY <3>1, <3>2, Tails
      <4>2. QED
        BY <4>1
    <3>4. QED
      BY <3>3 DEF Refused, Die, TypeOK
  <2>2. QED
    BY <2>1 DEF StartWorker
<1>2. Session \subseteq Handler /\ Monitor \in Handler /\ lastId \in Nat /\ Monitor \notin Session
  BY HistoryAssumption DEF Handler, TypeOK, RowTypes
<1>3. /\ ids'[h].worker = lastId' /\ ids'[h].session = ids[h].session
      /\ \A g \in Handler \ {h} : ids'[g] = ids[g] /\ todo'[g] = todo[g]
  BY <1>1 DEF Proceed, TypeOK, Ids
<1>4. todo[h] # << >> /\ h \notin tracked /\ tracked' = tracked
  BY DEF StartWorker, At, HeldInv, Proceed
<1>5. row.id = lastId + 1 /\ row.session = ids[h].session /\ row.running
  BY <1>1
<1>6. \A w \in workers : w.id \in Nat /\ w.id <= lastId /\ w.id # lastId + 1
  BY <1>2 DEF RunInv, TypeOK, RowTypes
<1>7. \A g \in Handler : ids[g].worker \in Nat /\ ids[g].worker <= lastId /\ ids[g].worker # lastId + 1
  BY <1>2 DEF RunInv, TypeOK, Ids
<1>8. \A w \in workers' : 0 < w.id /\ w.id <= lastId'
  BY <1>1, <1>2, <1>5, <1>6 DEF RunInv
<1>9. \A v, w \in workers' : v.id = w.id => v.session = w.session
  BY <1>1, <1>5, <1>6 DEF RunInv
<1>10. \A g \in Handler : ids'[g].worker <= lastId'
  BY <1>1, <1>2, <1>3, <1>7
<1>11. \A s \in Session : todo'[s] # << >> \/ s \in tracked' => ids'[s].session = s
  BY <1>2, <1>3, <1>4 DEF RunInv
<1>12. todo'[Monitor] # << >> => ids'[Monitor].session \in Spawned
  BY <1>2, <1>3, <1>4 DEF RunInv
<1>13. \A s \in Session : \A w \in workers' :
        w.id = ids'[s].worker => w.session = s /\ (s \notin Spawned /\ Follows(s)' => w.running)
  <2>1. ASSUME NEW s \in Session, NEW w \in workers', w.id = ids'[s].worker, s = h
        PROVE  w.session = s /\ w.running
    <3>1. w = row
      BY <1>1, <1>3, <1>6, <2>1
    <3>2. ids[h].session = s
      BY <1>4, <2>1 DEF RunInv
    <3>3. QED
      BY <1>5, <3>1, <3>2
  <2>2. ASSUME NEW s \in Session, NEW w \in workers', w.id = ids'[s].worker, s # h
        PROVE  w.session = s /\ (s \notin Spawned /\ Follows(s)' => w.running)
    <3>1. ids'[s] = ids[s] /\ todo'[s] = todo[s]
      BY <1>2, <1>3, <2>2
    <3>2. w \in workers
      BY <1>1, <1>2, <1>5, <1>7, <2>2, <3>1
    <3>3. Follows(s)' => Follows(s)
      BY <1>4, <3>1 DEF Follows, At
    <3>4. QED
      BY <2>2, <3>1, <3>2, <3>3 DEF RunInv
  <2>3. QED
    BY <2>1, <2>2
<1>14. \A w \in workers' : w.id = ids'[Monitor].worker => w.session \in Spawned
  <2>1. CASE h = Monitor
    BY <1>1, <1>3, <1>4, <1>5, <1>6, <2>1 DEF RunInv
  <2>2. CASE h # Monitor
    BY <1>1, <1>2, <1>3, <1>5, <1>7, <2>2 DEF RunInv
  <2>3. QED
    BY <2>1, <2>2
<1>15. QED
  BY <1>8, <1>9, <1>10, <1>11, <1>12, <1>13, <1>14 DEF RunInv

\* A handler stops rows of its own session, the monitor those of spawned ones.
LEMMA RunsByStop ==
  ASSUME TypeOK, HeldInv, RunInv, NEW h \in Handler, StopWorker(h)
  PROVE  RunInv'
<1> DEFINE id == ids[h].worker
<1>1. Session \subseteq Handler /\ Monitor \in Handler
  BY DEF Handler
<1>2. /\ todo'[h] = Tail(todo[h]) /\ \A g \in Handler \ {h} : todo'[g] = todo[g]
      /\ UNCHANGED <<ids, tracked, lastId>>
  BY DEF StopWorker, Proceed, TypeOK
<1>3. todo[h] # << >> /\ h \notin tracked /\ ~Follows(h)
  BY DEF StopWorker, At, HeldInv, Follows
<1>4. ~Follows(h)'
  <2>1. todo'[h] \in {<<"stopped">>, <<"stopped", "send", "worker", "started">>}
    BY <1>2, RestAt, Tails DEF StopWorker
  <2>2. Head(todo'[h]) = "stopped"
    BY <2>1
  <2>3. QED
    BY <1>2, <1>3, <2>2 DEF Follows, At
<1>5. ASSUME NEW w \in workers'
      PROVE  \E v \in workers : /\ v.id = w.id /\ v.session = w.session
                                /\ w.id # id => w.running = v.running
  <2>1. PICK v \in workers : w = IF v.id = id THEN [v EXCEPT !.running = FALSE] ELSE v
    BY DEF StopWorker, Halted
  <2>2. v.id = w.id /\ v.session = w.session /\ (w.id # id => w.running = v.running)
    BY <2>1 DEF TypeOK, RowTypes
  <2>3. QED
    BY <2>2
<1>6. \A w \in workers' : 0 < w.id /\ w.id <= lastId'
  BY <1>2, <1>5 DEF RunInv
<1>7. \A v, w \in workers' : v.id = w.id => v.session = w.session
  BY <1>5 DEF RunInv
<1>8. \A s \in Session : todo'[s] # << >> \/ s \in tracked' => ids'[s].session = s
  BY <1>1, <1>2, <1>3 DEF RunInv
<1>9. todo'[Monitor] # << >> => ids'[Monitor].session \in Spawned
  BY <1>1, <1>2, <1>3 DEF RunInv
<1>10. ASSUME NEW s \in Session, NEW w \in workers', w.id = ids'[s].worker
       PROVE  w.session = s /\ (s \notin Spawned /\ Follows(s)' => w.running)
  <2>1. PICK v \in workers : /\ v.id = w.id /\ v.session = w.session
                             /\ w.id # id => w.running = v.running
    BY <1>5
  <2>2. w.session = s
    BY <1>2, <1>10, <2>1 DEF RunInv
  <2>3. ASSUME s \notin Spawned, Follows(s)'
        PROVE  w.running
    <3>1. s # h
      BY <1>4, <2>3
    <3>2. w.id # id
      BY <1>1, <2>1, <2>2, <2>3, <3>1 DEF RunInv, Handler
    <3>3. Follows(s)
      BY <1>1, <1>2, <2>3, <3>1 DEF Follows, At
    <3>4. QED
      BY <1>2, <1>10, <2>1, <2>3, <3>2, <3>3 DEF RunInv
  <2>4. QED
    BY <2>2, <2>3
<1>11. \A w \in workers' : w.id = ids'[Monitor].worker => w.session \in Spawned
  BY <1>2, <1>5 DEF RunInv
<1>12. \A g \in Handler : ids'[g].worker <= lastId'
  BY <1>2 DEF RunInv
<1>13. QED
  BY <1>6, <1>7, <1>8, <1>9, <1>10, <1>11, <1>12 DEF RunInv

LEMMA RunsByStatement ==
  ASSUME TypeOK, HeldInv, RunInv, NEW h \in Handler, Handle(h)
  PROVE  RunInv'
<1>1. todo[h] # << >> /\ h \notin tracked
  BY DEF Handle, Statements, EnsureProject, CreateTask, StartWorker, Started, StopWorker, Stopped,
     Send, Track, At, HeldInv
<1>2. lastId \in Nat
  BY DEF TypeOK, RowTypes
<1>3. ASSUME todo' = [todo EXCEPT ![h] = Tail(@)]
      PROVE  todo'[h] = Tail(todo[h]) /\ \A g \in Handler \ {h} : todo'[g] = todo[g]
  BY <1>3 DEF TypeOK
<1>4. CASE EnsureProject(h)
  <2>1. todo'[h] = <<"task", "worker", "started", "track">>
    BY <1>3, <1>4, RestAt, Tails DEF EnsureProject, Proceed
  <2>2. /\ ids'[h].worker = ids[h].worker /\ ids'[h].session = ids[h].session
        /\ \A g \in Handler \ {h} : ids'[g] = ids[g]
    BY <1>4 DEF EnsureProject, TypeOK, Ids
  <2>3. ~At(h, "started")' /\ ~At(h, "track")'
    BY <2>1 DEF At
  <2>4. workers' = workers /\ lastId' \in Nat /\ lastId <= lastId' /\ tracked' = tracked
    BY <1>2, <1>4 DEF EnsureProject, Proceed
  <2>5. QED
    BY <1>1, <1>3, <1>4, <2>2, <2>3, <2>4, RunsByHandler DEF EnsureProject, Proceed, Follows
<1>5. CASE CreateTask(h) /\ Proceed(h) /\ lastId' = lastId + 1
           /\ ids' = [ids EXCEPT ![h].task = lastId'] /\ UNCHANGED workers
  <2>1. todo'[h] = <<"worker", "started", "track">>
    BY <1>3, <1>5, RestAt, Tails DEF CreateTask, Proceed
  <2>2. /\ ids'[h].worker = ids[h].worker /\ ids'[h].session = ids[h].session
        /\ \A g \in Handler \ {h} : ids'[g] = ids[g]
    BY <1>5 DEF TypeOK, Ids
  <2>3. ~At(h, "started")' /\ ~At(h, "track")'
    BY <2>1 DEF At
  <2>4. lastId' \in Nat /\ lastId <= lastId' /\ tracked' = tracked
    BY <1>2, <1>5 DEF Proceed
  <2>5. QED
    BY <1>1, <1>3, <1>5, <2>2, <2>3, <2>4, RunsByHandler DEF Proceed, Follows
<1>6. CASE StartWorker(h) /\ Proceed(h)
  BY <1>6, RunsByStart
<1>7. CASE /\ Started(h) \/ Stopped(h) \/ Send(h)
           /\ Proceed(h) /\ UNCHANGED <<workers, lastId, ids>>
  <2>1. Follows(h)' => Follows(h)
    <3>1. CASE Started(h)
      BY <3>1 DEF Started, Follows
    <3>2. CASE Stopped(h)
      <4>1. todo'[h] \in {<< >>, <<"send", "worker", "started">>}
        BY <1>3, <1>7, <3>2, RestAt, Tails DEF Stopped, Proceed
      <4>2. ~At(h, "started")' /\ ~At(h, "track")'
        BY <4>1 DEF At
      <4>3. QED
        BY <1>1, <1>7, <4>2 DEF Proceed, Follows
    <3>3. CASE Send(h)
      <4>1. todo'[h] = <<"worker", "started">>
        BY <1>3, <1>7, <3>3, RestAt, Tails DEF Send, Proceed
      <4>2. ~At(h, "started")' /\ ~At(h, "track")'
        BY <4>1 DEF At
      <4>3. QED
        BY <1>1, <1>7, <4>2 DEF Proceed, Follows
    <3>4. QED
      BY <1>7, <3>1, <3>2, <3>3
  <2>2. QED
    BY <1>1, <1>2, <1>3, <1>7, <2>1, RunsByHandler DEF Proceed
<1>8. CASE StopWorker(h)
  BY <1>8, RunsByStop
<1>9. CASE h \in Session /\ Track(h)
  <2>1. todo'[h] = Tail(todo[h]) /\ \A g \in Handler \ {h} : todo'[g] = todo[g]
    BY <1>3, <1>9 DEF Track
  <2>2. h # Monitor /\ Follows(h)
    BY <1>9, HistoryAssumption DEF Track, Follows
  <2>3. tracked' \ {h} \subseteq tracked /\ UNCHANGED <<workers, lastId, ids>>
    BY <1>9 DEF Track, tables
  <2>4. QED
    BY <1>1, <1>2, <2>1, <2>2, <2>3, RunsByHandler
<1>10. CASE Refused(h) \/ Die
  <2>1. CASE /\ todo' = [todo EXCEPT ![h] = << >>]
             /\ UNCHANGED <<tables, tracked, ids>>
    <3>1. todo'[h] = << >> /\ \A g \in Handler \ {h} : todo'[g] = todo[g]
      BY <2>1 DEF TypeOK
    <3>2. ~Follows(h)'
      BY <1>1, <2>1, <3>1 DEF Follows, At
    <3>3. QED
      BY <1>1, <1>2, <2>1, <3>1, <3>2, RunsByHandler DEF tables
  <2>2. QED
    BY <1>10, <2>1, RunsByDie DEF Refused
<1>11. QED
  BY <1>4, <1>5, <1>6, <1>7, <1>8, <1>9, <1>10
  DEF Handle, Statements, CreateTask, StartWorker, Started, Stopped, InsertEvent, Send, tables

LEMMA RunInvariance == Spec => []RunInv
<1>1. ASSUME Init
      PROVE  RunInv
  BY <1>1 DEF Init, RunInv, NoIds, Null, Handler
<1>2. ASSUME TypeOK, HeldInv, RunInv, [Next]_vars
      PROVE  RunInv'
  <2>1. CASE \E h \in Handler : Handle(h)
    BY <1>2, <2>1, RunsByStatement
  <2>2. CASE \E s \in Session : Ingest(s)
    BY <1>2, <2>2, RunsByRest DEF Ingest, IngestLine, IngestEvent
  <2>3. ASSUME NEW s \in Session, Adopt(s) \/ Spawn(s)
        PROVE  RunInv'
    <3>1. s \in Handler /\ s \notin tracked /\ tracked' = tracked
      BY <2>3, Constants DEF Adopt, Spawn, Fresh
    <3>2. /\ [NoIds EXCEPT !.session = s] \in Ids
          /\ [NoIds EXCEPT !.session = s].session = s /\ [NoIds EXCEPT !.session = s].worker = Null
      BY DEF NoIds, Ids, Null
    <3>3. Begin(s, Start, [NoIds EXCEPT !.session = s])
      BY <2>3 DEF Adopt, Spawn
    <3>4. QED
      BY <1>2, <3>1, <3>2, <3>3, RunsByBegin
  <2>4. ASSUME NEW s \in Session, Release(s)
        PROVE  RunInv'
    <3>1. s \in Handler /\ s # Monitor /\ s \in tracked /\ tracked' = tracked \ {s}
      BY <2>4, Constants, HistoryAssumption DEF Release
    <3>2. /\ todo'[s] = Stop /\ ids'[s] = ids[s]
          /\ \A g \in Handler \ {s} : todo'[g] = todo[g] /\ ids'[g] = ids[g]
      BY <1>2, <2>4, <3>1 DEF Release, Begin, TypeOK
    <3>3. Follows(s)
      BY <3>1 DEF Follows
    <3>4. UNCHANGED <<workers, lastId>> /\ lastId \in Nat
      BY <1>2, <2>4 DEF Release, Begin, tables, TypeOK, RowTypes
    <3>5. QED
      BY <1>2, <3>1, <3>2, <3>3, <3>4, RunsByHandler
  <2>5. ASSUME NEW w \in workers, SweepGone(w) \/ SweepDead(w)
        PROVE  RunInv'
    <3>1. Monitor \in Handler /\ tracked' = tracked /\ Monitor \notin tracked
      BY <1>2, <2>5, HistoryAssumption DEF SweepGone, SweepDead, TypeOK, Handler
    <3>2. PICK q : Begin(Monitor, q, IdsOf(w))
      BY <2>5 DEF SweepGone, SweepDead
    <3>3. IdsOf(w) \in Ids /\ IdsOf(w).session = w.session /\ IdsOf(w).worker = w.id
      BY <1>2, RowIds DEF IdsOf, TypeOK
    <3>4. w.session \in Spawned
      BY <2>5 DEF SweepGone, SweepDead
    <3>5. QED
      BY <1>2, <3>1, <3>2, <3>3, <3>4, RunsByBegin
  <2>6. CASE StopDecided \/ DeleteCommand
    BY <1>2, <2>6, RunsByRest DEF StopDecided, DeleteCommand, tables
  <2>7. CASE Deletion
    <3>1. workers' \subseteq workers
      BY <2>7 DEF Deletion, DeleteKill, DeleteSelect, DeleteCaptures, DeleteEvents, DeleteWorkers,
                  DeleteTasks, DeleteProject, Others
    <3>2. UNCHANGED <<lastId, todo, ids, tracked>>
      BY <2>7 DEF Deletion, DeleteKill, DeleteSelect, DeleteCaptures, DeleteEvents, DeleteWorkers,
                  DeleteTasks, DeleteProject, DeleteFrom, Deleting
    <3>3. QED
      BY <1>2, <3>1, <3>2, RunsByRest
  <2>8. CASE Kill
    BY <1>2, <2>8, RunsByDie DEF Kill
  <2>9. CASE \/ Restart \/ Remember \/ UNCHANGED vars
             \/ \E w \in workers : StopCommand(w)
             \/ \E s \in Session : Open(s) \/ Close(s)
    BY <1>2, <2>9, RunsByRest
    DEF Restart, Remember, StopCommand, Open, Close, vars, tables, memory, ghosts
  <2>10. QED
    BY <1>2, <2>1, <2>2, <2>3, <2>4, <2>5, <2>6, <2>7, <2>8, <2>9
    DEF Next, Discover, Sweep, Change
<1>3. QED
  BY <1>1, <1>2, TypeInvariance, HeldInvariance, PTL DEF Spec

\* The row of an adopted session, if a deletion has left it, is running.
THEOREM AdoptedRowsAreRunning == Spec => []AdoptedRowsRun
<1>1. TypeOK /\ RunInv => AdoptedRowsRun
  BY DEF TypeOK, RunInv, AdoptedRowsRun, Follows
<1>2. QED
  BY <1>1, TypeInvariance, RunInvariance, PTL
=============================================================================
