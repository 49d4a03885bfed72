-------------------------- MODULE DesktopAgentProofs -------------------------
(***************************************************************************)
(* Theorems about DesktopAgent, for every set of sessions and every bound  *)
(* on the disturbances.  The argument: IInv is inductive; each of its      *)
(* conjuncts says what one half-done procedure knows about the worker      *)
(* table, and a step of another procedure cannot take that knowledge away. *)
(***************************************************************************)
EXTENDS DesktopAgent, SequenceTheorems, TLAPS

USE SessionAssumption

-----------------------------------------------------------------------------
(* What the statements of the Memory Engine do to the worker table.        *)

\* INSERT adds one running row at the end and leaves the others alone.
LEMMA StartWorkerFacts ==
  ASSUME MemoryTypeOK, NEW s \in Session, StartWorker(s)
  PROVE  /\ MemoryTypeOK'
         /\ NextWorker \in Nat
         /\ Worker' = Worker \cup {NextWorker}
         /\ \A w \in Worker : w \in Nat /\ w < NextWorker
         /\ \A w \in Worker : worker'[w] = worker[w]
         /\ worker'[NextWorker].state = "running"
         /\ worker'[NextWorker].target = s
         /\ worker'[NextWorker].stops = {}
         /\ filed' = filed
<1> DEFINE row == [state |-> "running", target |-> s, aged |-> FALSE, stops |-> {}]
<1>1. row \in Row
  BY DEF Row, WorkerState
<1>2. /\ worker \in Seq(Row) /\ worker' = Append(worker, row)
      /\ filed \subseteq Session /\ filed' = filed
  BY DEF MemoryTypeOK, StartWorker
<1>3. QED
  BY <1>1, <1>2 DEF MemoryTypeOK, Worker, NextWorker

\* An UPDATE replaces one row by another.
LEMMA UpdateFacts ==
  ASSUME MemoryTypeOK, NEW v \in Worker, NEW row \in Row,
         worker' = [worker EXCEPT ![v] = row], filed' = filed
  PROVE  /\ MemoryTypeOK'
         /\ Worker' = Worker
         /\ \A w \in Worker : worker'[w] = IF w = v THEN row ELSE worker[w]
<1>1. worker \in Seq(Row) /\ v \in 1 .. Len(worker)
  BY DEF MemoryTypeOK, Worker
<1>2. worker' \in Seq(Row) /\ Len(worker') = Len(worker)
  BY <1>1, ExceptSeq
<1>3. QED
  BY <1>1, <1>2 DEF MemoryTypeOK, Worker

\* What the rows of a well-typed table are.
LEMMA RowFacts ==
  ASSUME MemoryTypeOK, NEW w \in Worker
  PROVE  w \in Nat \ {0} /\ worker[w] \in Row
<1>1. worker \in Seq(Row) /\ w \in 1 .. Len(worker) /\ Len(worker) \in Nat
  BY DEF MemoryTypeOK, Worker
<1>2. QED
  BY <1>1, ElementOfSeq

\* The UPDATE of stopWorker takes the row out of the running ones.
LEMMA StopWorkerFacts ==
  ASSUME MemoryTypeOK, NEW v \in Worker, NEW reason \in Reason, StopWorker(v,
         reason)
  PROVE  /\ MemoryTypeOK'
         /\ Worker' = Worker
         /\ \A w \in Worker : /\ worker'[w].target = worker[w].target
                              /\ worker'[w].stops = worker[w].stops
                              /\ w # v => worker'[w].state = worker[w].state
                              /\ Kept(w)' <=> Kept(w)
         /\ worker'[v].state # "running"
<1> DEFINE row == [worker[v] EXCEPT !.state =
                     IF @ = "deleted" THEN @
                     ELSE IF reason = "clean" THEN "stopped" ELSE "crashed"]
<1>1. worker[v] \in Row
  BY RowFacts
<1>2. row \in Row /\ row.target = worker[v].target /\ row.stops = worker[v].stops
  BY <1>1 DEF Row, WorkerState
<1>3. row.state # "running" /\ (row.state = "deleted" <=> worker[v].state = "deleted")
  BY <1>1 DEF Row
<1>4. worker' = [worker EXCEPT ![v] = row] /\ filed' = filed
  BY DEF StopWorker
<1> HIDE DEF row
<1>5. /\ MemoryTypeOK'
     /\ Worker' = Worker
     /\ \A w \in Worker : worker'[w] = IF w = v THEN row ELSE worker[w]
  BY <1>2, <1>3, <1>4, UpdateFacts
<1>6. QED
  BY <1>5, <1>2, <1>3, <1>4 DEF Kept

\* Appending a WorkerStopped event changes neither states nor targets.
LEMMA AppendStoppedFacts ==
  ASSUME MemoryTypeOK, NEW v \in Worker, NEW reason \in Reason, AppendStopped(v,
         reason)
  PROVE  /\ MemoryTypeOK'
         /\ Worker' = Worker
         /\ \A w \in Worker : /\ worker'[w].target = worker[w].target
                              /\ worker'[w].state = worker[w].state
                              /\ w # v => worker'[w].stops = worker[w].stops
<1> DEFINE row == [worker[v] EXCEPT !.stops = @ \cup {reason}]
<1>1. worker[v] \in Row
  BY RowFacts
<1>2. row \in Row /\ row.target = worker[v].target /\ row.state = worker[v].state
  BY <1>1 DEF Row
<1>3. worker' = [worker EXCEPT ![v] = row] /\ filed' = filed
  BY DEF AppendStopped
<1> HIDE DEF row
<1>4. /\ MemoryTypeOK'
     /\ Worker' = Worker
     /\ \A w \in Worker : worker'[w] = IF w = v THEN row ELSE worker[w]
  BY <1>2, <1>3, UpdateFacts
<1>5. QED
  BY <1>4, <1>2, <1>3

\* Neither does the passing of the grace period.
LEMMA GraceExpiresFacts ==
  ASSUME MemoryTypeOK, NEW v \in Worker, GraceExpires(v)
  PROVE  /\ MemoryTypeOK'
         /\ Worker' = Worker
         /\ \A w \in Worker : /\ worker'[w].target = worker[w].target
                              /\ worker'[w].state = worker[w].state
                              /\ worker'[w].stops = worker[w].stops
<1> DEFINE row == [worker[v] EXCEPT !.aged = TRUE]
<1>1. worker[v] \in Row
  BY RowFacts
<1>2. row \in Row /\ row.target = worker[v].target /\ row.state = worker[v].state
  BY <1>1 DEF Row
<1>3. row.stops = worker[v].stops
  BY <1>1 DEF Row
<1>4. worker' = [worker EXCEPT ![v] = row] /\ filed' = filed
  BY DEF GraceExpires
<1> HIDE DEF row
<1>5. /\ MemoryTypeOK'
     /\ Worker' = Worker
     /\ \A w \in Worker : worker'[w] = IF w = v THEN row ELSE worker[w]
  BY <1>2, <1>3, <1>4, UpdateFacts
<1>6. QED
  BY <1>5, <1>2, <1>3, <1>4

\* A statement that rewrites rows one by one keeps the table's length.
LEMMA RewriteFacts ==
  ASSUME MemoryTypeOK, NEW F, F \in [Worker -> Row], worker' = F, filed' = filed
  PROVE  MemoryTypeOK' /\ Worker' = Worker
<1>1. worker \in Seq(Row) /\ Worker = 1 .. Len(worker) /\ Len(worker) \in Nat
  BY DEF MemoryTypeOK, Worker
<1>2. F \in Seq(Row) /\ DOMAIN F = Worker
  BY <1>1
<1>3. QED
  BY <1>2 DEF MemoryTypeOK, Worker

\* DELETE FROM event changes neither states nor targets.
LEMMA DeleteEventsFacts ==
  ASSUME MemoryTypeOK, NEW p \in Project, DeleteEvents(p)
  PROVE  /\ MemoryTypeOK'
         /\ Worker' = Worker
         /\ \A w \in Worker : /\ worker'[w].target = worker[w].target
                              /\ worker'[w].state = worker[w].state
                              /\ worker'[w].stops \subseteq worker[w].stops
<1> DEFINE F == [w \in Worker |->
                   IF w \in RowsOf(p) THEN [worker[w] EXCEPT !.stops = {}] ELSE worker[w]]
<1>1. \A w \in Worker : worker[w] \in Row
  BY RowFacts
<1>2. \A w \in Worker : [worker[w] EXCEPT !.stops = {}] \in Row
  BY <1>1 DEF Row
<1>3. F \in [Worker -> Row]
  BY <1>1, <1>2
<1>4. worker' = F /\ filed' = filed
  BY DEF DeleteEvents
<1>5. MemoryTypeOK' /\ Worker' = Worker
  BY <1>3, <1>4, RewriteFacts
<1>6. \A w \in Worker : /\ worker'[w].target = worker[w].target
                        /\ worker'[w].state = worker[w].state
                        /\ worker'[w].stops \subseteq worker[w].stops
  BY <1>1, <1>4 DEF Row
<1>7. QED
  BY <1>5, <1>6

\* DELETE FROM worker removes the rows of the project, all or none.
LEMMA DeleteWorkersFacts ==
  ASSUME MemoryTypeOK, NEW p \in Project, DeleteWorkers(p)
  PROVE  /\ MemoryTypeOK'
         /\ Worker' = Worker
         /\ \A w \in Worker : /\ worker'[w].target = worker[w].target
                              /\ worker'[w].stops = worker[w].stops
         /\ \/ \A w \in Worker : worker'[w].state = worker[w].state
            \/ \A w \in Worker : worker'[w].state =
                  IF w \in RowsOf(p) THEN "deleted" ELSE worker[w].state
<1>1. \A w \in Worker : worker[w] \in Row
  BY RowFacts
<1>2. CASE UNCHANGED worker
  BY <1>2 DEF DeleteWorkers, MemoryTypeOK, Worker
<1>3. CASE worker' # worker
  <2> DEFINE F == [w \in Worker |->
                     IF w \in RowsOf(p) THEN [worker[w] EXCEPT !.state = "deleted"]
                                       ELSE worker[w]]
  <2>1. \A w \in Worker : [worker[w] EXCEPT !.state = "deleted"] \in Row
    BY <1>1 DEF Row, WorkerState
  <2>2. F \in [Worker -> Row]
    BY <1>1, <2>1
  <2>3. worker' = F /\ filed' = filed
    BY <1>3 DEF DeleteWorkers
  <2>4. MemoryTypeOK' /\ Worker' = Worker
    BY <2>2, <2>3, RewriteFacts
  <2>5. \A w \in Worker : /\ worker'[w].target = worker[w].target
                          /\ worker'[w].stops = worker[w].stops
                          /\ worker'[w].state =
                               IF w \in RowsOf(p) THEN "deleted" ELSE worker[w].state
    BY <1>1, <2>3 DEF Row
  <2>6. QED
    BY <2>4, <2>5
<1>4. QED
  BY <1>2, <1>3

-----------------------------------------------------------------------------
(* IInv is inductive.  USE makes the parts of the invariant and the frames *)
(* visible; the conjuncts themselves are cited where they are needed.      *)

LEMMA InitIInv == Init => IInv
BY DEF Init, TmuxInit, MemoryInit, ManagerInit, RecoveryInit, IInv, TypeOK,
       TmuxTypeOK, MemoryTypeOK, ManagerTypeOK, RecoveryTypeOK, PaneState,
       DiscoverPhase, SpawnPhase, RecoveryPhase, Worker, Session, Tracked,
       OneRunningPerSpawned, Running, StoppedEventFollowsUpdate,
       SpawnInv, SweepInv, VictimInv, TrackInv, HandledInv, NoDeletion,
       DeletionStep

LEMMA DiscoverStepIInv ==
  ASSUME IInv, DiscoverStep
  PROVE  IInv'
<1> USE DEF tables, orchestratorVars, Kept, IInv, TypeOK, TmuxTypeOK,
            ManagerTypeOK, RecoveryTypeOK, Session,
            DiscoverPhase, recoveryVars, Tracked, DiscoverStep
<1>1. CASE DiscoverList
  <2>1. TypeOK'
    BY <1>1 DEF DiscoverList, LiveSessions, MemoryTypeOK, Worker
  <2>2. OneRunningPerSpawned' /\ StoppedEventFollowsUpdate'
        /\ SpawnInv' /\ SweepInv' /\ VictimInv'
    BY <1>1 DEF DiscoverList, OneRunningPerSpawned, Running,
         StoppedEventFollowsUpdate,
         SpawnInv, SweepInv, VictimInv, Worker
  <2>3. TrackInv' /\ HandledInv'
    BY <1>1 DEF DiscoverList, TrackInv, HandledInv, Worker
  <2>4. QED
    BY <2>1, <2>2, <2>3
<1>2. ASSUME NEW s \in Adoptable, AdoptInsert(s)
      PROVE  IInv'
  <2>1. TypeOK'
    BY <1>2, StartWorkerFacts DEF AdoptInsert
  <2>2. OneRunningPerSpawned' /\ StoppedEventFollowsUpdate'
        /\ SpawnInv' /\ SweepInv' /\ VictimInv'
    BY <1>2, StartWorkerFacts DEF AdoptInsert, OneRunningPerSpawned, Running,
         StoppedEventFollowsUpdate,
         SpawnInv, SweepInv, VictimInv
  <2>3. TrackInv' /\ HandledInv'
    BY <1>2, StartWorkerFacts DEF AdoptInsert, TrackInv, HandledInv
  <2>4. QED
    BY <2>1, <2>2, <2>3
<1>3. CASE AdoptTrack
  <2>1. TypeOK'
    BY <1>3, RowFacts DEF AdoptTrack, MemoryTypeOK, Worker, HandledInv
  <2>2. OneRunningPerSpawned' /\ StoppedEventFollowsUpdate'
        /\ SpawnInv' /\ SweepInv' /\ VictimInv'
    BY <1>3 DEF AdoptTrack, OneRunningPerSpawned, Running,
         StoppedEventFollowsUpdate,
         SpawnInv, SweepInv, VictimInv, Worker
  <2>3. TrackInv' /\ HandledInv'
    BY <1>3 DEF AdoptTrack, TrackInv, HandledInv, Worker
  <2>4. QED
    BY <2>1, <2>2, <2>3
<1>4. ASSUME NEW s \in Session, ReleaseDrop(s)
      PROVE  IInv'
  <2>1. TypeOK'
    BY <1>4 DEF ReleaseDrop, MemoryTypeOK, Worker
  <2>2. OneRunningPerSpawned' /\ StoppedEventFollowsUpdate'
        /\ SpawnInv' /\ SweepInv' /\ VictimInv'
    BY <1>4 DEF ReleaseDrop, OneRunningPerSpawned, Running,
         StoppedEventFollowsUpdate,
         SpawnInv, SweepInv, VictimInv, Worker
  <2>3. TrackInv' /\ HandledInv'
    BY <1>4 DEF ReleaseDrop, TrackInv, HandledInv, Worker
  <2>4. QED
    BY <2>1, <2>2, <2>3
<1>5. CASE ReleaseStop
  <2>1. TypeOK'
    BY <1>5, StopWorkerFacts DEF ReleaseStop, HandledInv, Reason
  <2>2. OneRunningPerSpawned' /\ StoppedEventFollowsUpdate'
        /\ SpawnInv' /\ SweepInv' /\ VictimInv'
    BY <1>5, StopWorkerFacts DEF ReleaseStop, OneRunningPerSpawned, Running,
         StoppedEventFollowsUpdate,
         SpawnInv, SweepInv, VictimInv, HandledInv, TrackInv, Reason
  <2>3. TrackInv' /\ HandledInv'
    BY <1>5, StopWorkerFacts DEF ReleaseStop, TrackInv, HandledInv, Reason
  <2>4. QED
    BY <2>1, <2>2, <2>3
<1>6. CASE ReleaseEvent
  <2>1. TypeOK'
    BY <1>6, AppendStoppedFacts DEF ReleaseEvent, HandledInv, Reason
  <2>2. OneRunningPerSpawned' /\ StoppedEventFollowsUpdate'
        /\ SpawnInv' /\ SweepInv' /\ VictimInv'
    BY <1>6, AppendStoppedFacts DEF ReleaseEvent, OneRunningPerSpawned, Running,
         StoppedEventFollowsUpdate,
         SpawnInv, SweepInv, VictimInv, HandledInv, TrackInv, Reason
  <2>3. TrackInv' /\ HandledInv'
    BY <1>6, AppendStoppedFacts DEF ReleaseEvent, TrackInv, HandledInv, Reason
  <2>4. QED
    BY <2>1, <2>2, <2>3
<1>7. CASE DiscoverEnd
  <2>1. TypeOK'
    BY <1>7 DEF DiscoverEnd, MemoryTypeOK, Worker
  <2>2. OneRunningPerSpawned' /\ StoppedEventFollowsUpdate'
        /\ SpawnInv' /\ SweepInv' /\ VictimInv'
    BY <1>7 DEF DiscoverEnd, OneRunningPerSpawned, Running,
         StoppedEventFollowsUpdate,
         SpawnInv, SweepInv, VictimInv, Worker
  <2>3. TrackInv' /\ HandledInv'
    BY <1>7 DEF DiscoverEnd, TrackInv, HandledInv, Worker
  <2>4. QED
    BY <2>1, <2>2, <2>3
<1>8. ASSUME NEW s \in Adoptable, AdoptFile(s)
      PROVE  IInv'
  <2>1. TypeOK'
    BY <1>8 DEF AdoptFile, FileTask, MemoryTypeOK, Worker
  <2>2. OneRunningPerSpawned' /\ StoppedEventFollowsUpdate'
        /\ SpawnInv' /\ SweepInv' /\ VictimInv'
    BY <1>8 DEF AdoptFile, FileTask, OneRunningPerSpawned, Running,
         StoppedEventFollowsUpdate, SpawnInv, SweepInv, VictimInv, Worker
  <2>3. TrackInv' /\ HandledInv'
    BY <1>8 DEF AdoptFile, FileTask, TrackInv, HandledInv, Worker
  <2>4. QED
    BY <2>1, <2>2, <2>3
<1>9. QED
  BY <1>1, <1>2, <1>3, <1>4, <1>5, <1>6, <1>7, <1>8 DEF Discover

LEMMA SpawnStepIInv ==
  ASSUME IInv, SpawnRequest \/ SpawnProgress
  PROVE  IInv'
<1> USE DEF tables, orchestratorVars, Kept, IInv, TypeOK, TmuxTypeOK, PaneState,
            ManagerTypeOK, RecoveryTypeOK,
            Session, SpawnPhase, recoveryVars, Tracked, SpawnRequest, SpawnProgress
<1>1. ASSUME NEW s \in Spawned, SpawnShell(s)
      PROVE  IInv'
  <2>1. TypeOK'
    BY <1>1 DEF SpawnShell, NewShellSession, MemoryTypeOK, Worker
  <2>2. OneRunningPerSpawned' /\ StoppedEventFollowsUpdate'
        /\ SpawnInv' /\ SweepInv' /\ VictimInv'
    BY <1>1 DEF SpawnShell, OneRunningPerSpawned, Running,
         StoppedEventFollowsUpdate,
         SpawnInv, SweepInv, VictimInv, Worker
  <2>3. TrackInv' /\ HandledInv'
    BY <1>1 DEF SpawnShell, TrackInv, HandledInv, Worker
  <2>4. QED
    BY <2>1, <2>2, <2>3
<1>2. ASSUME NEW s \in Spawned, SpawnLaunch(s)
      PROVE  IInv'
  <2>1. TypeOK'
    BY <1>2 DEF SpawnLaunch, SendLaunch, MemoryTypeOK, Worker
  <2>2. OneRunningPerSpawned' /\ StoppedEventFollowsUpdate'
        /\ SpawnInv' /\ SweepInv' /\ VictimInv'
    BY <1>2 DEF SpawnLaunch, OneRunningPerSpawned, Running,
         StoppedEventFollowsUpdate,
         SpawnInv, SweepInv, VictimInv, Worker
  <2>3. TrackInv' /\ HandledInv'
    BY <1>2 DEF SpawnLaunch, TrackInv, HandledInv, Worker
  <2>4. QED
    BY <2>1, <2>2, <2>3
<1>3. ASSUME NEW s \in Spawned, SpawnFails(s)
      PROVE  IInv'
  <2>1. TypeOK'
    BY <1>3 DEF SpawnFails, SpawnRejected, MemoryTypeOK, Worker
  <2>2. OneRunningPerSpawned' /\ StoppedEventFollowsUpdate'
        /\ SpawnInv' /\ SweepInv' /\ VictimInv'
    BY <1>3 DEF SpawnFails, OneRunningPerSpawned, Running,
         StoppedEventFollowsUpdate,
         SpawnInv, SweepInv, VictimInv, Worker, SpawnRejected
  <2>3. TrackInv' /\ HandledInv'
    BY <1>3 DEF SpawnFails, TrackInv, HandledInv, Worker, SpawnRejected
  <2>4. QED
    BY <2>1, <2>2, <2>3
<1>4. ASSUME NEW s \in Spawned, SpawnInsert(s)
      PROVE  IInv'
  <2>1. TypeOK'
    BY <1>4, StartWorkerFacts DEF SpawnInsert
  <2>2. OneRunningPerSpawned' /\ StoppedEventFollowsUpdate'
        /\ SpawnInv' /\ SweepInv' /\ VictimInv'
    BY <1>4, StartWorkerFacts DEF SpawnInsert, OneRunningPerSpawned, Running,
         StoppedEventFollowsUpdate,
         SpawnInv, SweepInv, VictimInv
  <2>3. TrackInv' /\ HandledInv'
    BY <1>4, StartWorkerFacts DEF SpawnInsert, TrackInv, HandledInv
  <2>4. QED
    BY <2>1, <2>2, <2>3
<1>5. ASSUME NEW s \in Spawned, SpawnTrack(s)
      PROVE  IInv'
  <2>1. TypeOK'
    BY <1>5 DEF SpawnTrack, MemoryTypeOK, Worker, SpawnInv
  <2>2. OneRunningPerSpawned' /\ StoppedEventFollowsUpdate'
        /\ SpawnInv' /\ SweepInv' /\ VictimInv'
    BY <1>5 DEF SpawnTrack, OneRunningPerSpawned, Running,
         StoppedEventFollowsUpdate,
         SpawnInv, SweepInv, VictimInv, Worker, SpawnInv
  <2>3. TrackInv' /\ HandledInv'
    BY <1>5 DEF SpawnTrack, TrackInv, HandledInv, Worker, SpawnInv
  <2>4. QED
    BY <2>1, <2>2, <2>3
<1>6. ASSUME NEW s \in Spawned, SpawnTask(s)
      PROVE  IInv'
  <2>1. TypeOK'
    BY <1>6 DEF SpawnTask, SendText, MemoryTypeOK, Worker
  <2>2. OneRunningPerSpawned' /\ StoppedEventFollowsUpdate'
        /\ SpawnInv' /\ SweepInv' /\ VictimInv'
    BY <1>6 DEF SpawnTask, OneRunningPerSpawned, Running, StoppedEventFollowsUpdate,
         SpawnInv, SweepInv, VictimInv, Worker
  <2>3. TrackInv' /\ HandledInv'
    BY <1>6 DEF SpawnTask, TrackInv, HandledInv, Worker
  <2>4. QED
    BY <2>1, <2>2, <2>3
<1>7. ASSUME NEW s \in Spawned, SpawnFile(s)
      PROVE  IInv'
  <2>1. TypeOK'
    BY <1>7 DEF SpawnFile, FileTask, MemoryTypeOK, Worker
  <2>2. OneRunningPerSpawned' /\ StoppedEventFollowsUpdate'
        /\ SpawnInv' /\ SweepInv' /\ VictimInv'
    BY <1>7 DEF SpawnFile, FileTask, OneRunningPerSpawned, Running,
         StoppedEventFollowsUpdate, SpawnInv, SweepInv, VictimInv, Worker
  <2>3. TrackInv' /\ HandledInv'
    BY <1>7 DEF SpawnFile, FileTask, TrackInv, HandledInv, Worker
  <2>4. QED
    BY <2>1, <2>2, <2>3
<1>8. QED
  BY <1>1, <1>2, <1>3, <1>4, <1>5, <1>6, <1>7 DEF SpawnStep

LEMMA RecoveryStepIInv ==
  ASSUME IInv, RecoveryStep
  PROVE  IInv'
<1> USE DEF tables, orchestratorVars, Kept, IInv, TypeOK, TmuxTypeOK, PaneState,
            ManagerTypeOK, RecoveryTypeOK,
            Session, RecoveryPhase, managerVars, Tracked, Target, RecoveryStep
<1>1. CASE SweepStart
  <2>1. TypeOK'
    BY <1>1 DEF SweepStart, RunningManagedWorkers, Running, MemoryTypeOK, Worker
  <2>2. OneRunningPerSpawned' /\ StoppedEventFollowsUpdate'
        /\ SpawnInv' /\ SweepInv' /\ VictimInv'
    BY <1>1 DEF SweepStart, OneRunningPerSpawned, Running,
         StoppedEventFollowsUpdate,
         SpawnInv, SweepInv, VictimInv, Worker, RunningManagedWorkers
  <2>3. TrackInv' /\ HandledInv'
    BY <1>1 DEF SweepStart, TrackInv, HandledInv, Worker, RunningManagedWorkers
  <2>4. QED
    BY <2>1, <2>2, <2>3
<1>2. ASSUME NEW w \in sweep, SweepSkip(w)
      PROVE  IInv'
  <2>1. TypeOK'
    BY <1>2 DEF SweepSkip, MemoryTypeOK, Worker
  <2>2. OneRunningPerSpawned' /\ StoppedEventFollowsUpdate'
        /\ SpawnInv' /\ SweepInv' /\ VictimInv'
    BY <1>2 DEF SweepSkip, OneRunningPerSpawned, Running, StoppedEventFollowsUpdate,
         SpawnInv, SweepInv, VictimInv, Worker, Visited
  <2>3. TrackInv' /\ HandledInv'
    BY <1>2 DEF SweepSkip, TrackInv, HandledInv, Worker, Visited
  <2>4. QED
    BY <2>1, <2>2, <2>3
<1>3. ASSUME NEW w \in sweep, SweepGone(w)
      PROVE  IInv'
  <2>1. TypeOK'
    BY <1>3 DEF SweepGone, MemoryTypeOK, Worker
  <2>2. OneRunningPerSpawned' /\ StoppedEventFollowsUpdate'
        /\ SpawnInv' /\ SweepInv' /\ VictimInv'
    BY <1>3 DEF SweepGone, OneRunningPerSpawned, Running, StoppedEventFollowsUpdate,
         SpawnInv, SweepInv, VictimInv, Worker, Visited
  <2>3. TrackInv' /\ HandledInv'
    BY <1>3 DEF SweepGone, TrackInv, HandledInv, Worker, Visited
  <2>4. QED
    BY <2>1, <2>2, <2>3
<1>4. ASSUME NEW w \in sweep, SweepShell(w)
      PROVE  IInv'
  <2>1. TypeOK'
    BY <1>4 DEF SweepShell, SweepInv, MemoryTypeOK, Worker
  <2>2. OneRunningPerSpawned' /\ StoppedEventFollowsUpdate'
        /\ SpawnInv' /\ SweepInv' /\ VictimInv'
    BY <1>4 DEF SweepShell, OneRunningPerSpawned, Running,
         StoppedEventFollowsUpdate,
         SpawnInv, SweepInv, VictimInv, Worker, Visited
  <2>3. TrackInv' /\ HandledInv'
    BY <1>4 DEF SweepShell, TrackInv, HandledInv, Worker, Visited
  <2>4. QED
    BY <2>1, <2>2, <2>3
<1>5. CASE SweepEnd
  <2>1. TypeOK'
    BY <1>5 DEF SweepEnd, MemoryTypeOK, Worker
  <2>2. OneRunningPerSpawned' /\ StoppedEventFollowsUpdate'
        /\ SpawnInv' /\ SweepInv' /\ VictimInv'
    BY <1>5 DEF SweepEnd, OneRunningPerSpawned, Running, StoppedEventFollowsUpdate,
         SpawnInv, SweepInv, VictimInv, Worker
  <2>3. TrackInv' /\ HandledInv'
    BY <1>5 DEF SweepEnd, TrackInv, HandledInv, Worker
  <2>4. QED
    BY <2>1, <2>2, <2>3
<1>6. CASE GoneStop
  <2>1. TypeOK'
    BY <1>6, StopWorkerFacts DEF GoneStop, VictimInv, Reason
  <2>2. OneRunningPerSpawned' /\ StoppedEventFollowsUpdate'
        /\ SpawnInv' /\ SweepInv' /\ VictimInv'
    BY <1>6, StopWorkerFacts DEF GoneStop, OneRunningPerSpawned, Running,
         StoppedEventFollowsUpdate,
         SpawnInv, SweepInv, VictimInv, Reason
  <2>3. TrackInv' /\ HandledInv'
    BY <1>6, StopWorkerFacts DEF GoneStop, TrackInv, HandledInv, VictimInv, Reason
  <2>4. QED
    BY <2>1, <2>2, <2>3
<1>7. CASE GoneEvent
  <2>1. TypeOK'
    BY <1>7, AppendStoppedFacts DEF GoneEvent, VictimInv, Reason
  <2>2. OneRunningPerSpawned' /\ StoppedEventFollowsUpdate'
        /\ SpawnInv' /\ SweepInv' /\ VictimInv'
    BY <1>7, AppendStoppedFacts DEF GoneEvent, OneRunningPerSpawned, Running,
         StoppedEventFollowsUpdate,
         SpawnInv, SweepInv, VictimInv, Reason
  <2>3. TrackInv' /\ HandledInv'
    BY <1>7, AppendStoppedFacts DEF GoneEvent, TrackInv, HandledInv, VictimInv,
         Reason
  <2>4. QED
    BY <2>1, <2>2, <2>3
<1>8. CASE RecoverStop
  <2>1. TypeOK'
    BY <1>8, StopWorkerFacts DEF RecoverStop, VictimInv, Reason
  <2>2. OneRunningPerSpawned' /\ StoppedEventFollowsUpdate'
        /\ SpawnInv' /\ SweepInv' /\ VictimInv'
    BY <1>8, StopWorkerFacts DEF RecoverStop, OneRunningPerSpawned, Running,
         StoppedEventFollowsUpdate,
         SpawnInv, SweepInv, VictimInv, Reason
  <2>3. TrackInv' /\ HandledInv'
    BY <1>8, StopWorkerFacts DEF RecoverStop, TrackInv, HandledInv, VictimInv,
         Reason
  <2>4. QED
    BY <2>1, <2>2, <2>3
<1>9. CASE RecoverEvent
  <2>1. TypeOK'
    BY <1>9, AppendStoppedFacts DEF RecoverEvent, VictimInv, Reason
  <2>2. OneRunningPerSpawned' /\ StoppedEventFollowsUpdate'
        /\ SpawnInv' /\ SweepInv' /\ VictimInv'
    BY <1>9, AppendStoppedFacts DEF RecoverEvent, OneRunningPerSpawned, Running,
         StoppedEventFollowsUpdate,
         SpawnInv, SweepInv, VictimInv, Reason
  <2>3. TrackInv' /\ HandledInv'
    BY <1>9, AppendStoppedFacts DEF RecoverEvent, TrackInv, HandledInv,
         VictimInv, Reason
  <2>4. QED
    BY <2>1, <2>2, <2>3
<1>10. CASE Relaunch
  <2>1. TypeOK'
    BY <1>10 DEF Relaunch, SendLaunch, VictimInv, MemoryTypeOK, Worker
  <2>2. OneRunningPerSpawned' /\ StoppedEventFollowsUpdate'
        /\ SpawnInv' /\ SweepInv' /\ VictimInv'
    BY <1>10 DEF Relaunch, OneRunningPerSpawned, Running, StoppedEventFollowsUpdate,
         SpawnInv, SweepInv, VictimInv, Worker
  <2>3. TrackInv' /\ HandledInv'
    BY <1>10 DEF Relaunch, TrackInv, HandledInv, Worker
  <2>4. QED
    BY <2>1, <2>2, <2>3
<1>11. CASE RestoreCheckpoint
  <2>1. TypeOK'
    BY <1>11 DEF RestoreCheckpoint, SendText, MemoryTypeOK, Worker
  <2>2. OneRunningPerSpawned' /\ StoppedEventFollowsUpdate'
        /\ SpawnInv' /\ SweepInv' /\ VictimInv'
    BY <1>11 DEF RestoreCheckpoint, OneRunningPerSpawned, Running,
         StoppedEventFollowsUpdate,
         SpawnInv, SweepInv, VictimInv, Worker
  <2>3. TrackInv' /\ HandledInv'
    BY <1>11 DEF RestoreCheckpoint, TrackInv, HandledInv, Worker
  <2>4. QED
    BY <2>1, <2>2, <2>3
<1>12. CASE Replace
  <2>1. TypeOK'
    BY <1>12, StartWorkerFacts DEF Replace, VictimInv
  <2>2. OneRunningPerSpawned' /\ StoppedEventFollowsUpdate'
        /\ SpawnInv' /\ SweepInv' /\ VictimInv'
    BY <1>12, StartWorkerFacts DEF Replace, OneRunningPerSpawned, Running,
         StoppedEventFollowsUpdate,
         SpawnInv, SweepInv, VictimInv
  <2>3. TrackInv' /\ HandledInv'
    BY <1>12, StartWorkerFacts DEF Replace, TrackInv, HandledInv, VictimInv
  <2>4. QED
    BY <2>1, <2>2, <2>3
<1>13. CASE ReplaceEvent
  <2>1. TypeOK'
    BY <1>13 DEF ReplaceEvent, MemoryTypeOK, Worker
  <2>2. OneRunningPerSpawned' /\ StoppedEventFollowsUpdate'
        /\ SpawnInv' /\ SweepInv' /\ VictimInv'
    BY <1>13 DEF ReplaceEvent, OneRunningPerSpawned, Running,
         StoppedEventFollowsUpdate, SpawnInv, SweepInv, VictimInv, Worker
  <2>3. TrackInv' /\ HandledInv'
    BY <1>13 DEF ReplaceEvent, TrackInv, HandledInv, Worker
  <2>4. QED
    BY <2>1, <2>2, <2>3
<1>14. QED
  BY <1>1, <1>2, <1>3, <1>4, <1>5, <1>6, <1>7, <1>8, <1>9, <1>10, <1>11, <1>12,
     <1>13 DEF Recover

\* What closeSession and deleteSession remember, and which DELETE is next.
LEMMA LookupFacts ==
  ASSUME MemoryTypeOK, NEW p \in Project, NEW next \in {"close", "delete"},
         killing \subseteq Session \X {"close", "delete"}, CloseLookup(p, next)
  PROVE  killing' \subseteq Session \X {"close", "delete"}
<1>1. \A w \in Worker : worker[w].target \in Session
  BY RowFacts DEF Row
<1>2. QED
  BY <1>1 DEF CloseLookup

\* closeSession touches no row, and a deletion only takes rows away: what
\* #discover, a spawn or a sweep knows of running rows stays true of those left.
LEMMA OrchestratorStepIInv ==
  ASSUME IInv, OrchestratorStep
  PROVE  IInv'
<1> USE DEF tables, orchestratorVars, Kept, IInv, TypeOK, TmuxTypeOK, PaneState,
            ManagerTypeOK, RecoveryTypeOK, managerVars, recoveryVars, Tracked,
            DeletionStep, OrchestratorStep
<1>1. ASSUME NEW p \in Project, CloseSession(p)
      PROVE  IInv'
  <2>1. UNCHANGED <<pane, worker, filed, managerVars, recoveryVars, up, deletion,
                    disturbances>>
    BY <1>1 DEF CloseSession
  <2>2. killing' \subseteq Session \X {"close", "delete"}
    BY <1>1, LookupFacts DEF CloseSession
  <2>3. QED
    BY <2>1, <2>2 DEF MemoryTypeOK, Worker, OneRunningPerSpawned, Running,
         StoppedEventFollowsUpdate, SpawnInv, SweepInv, VictimInv, TrackInv,
         HandledInv
<1>2. ASSUME NEW s \in Session, NEW next \in {"close", "delete"}, CloseKill(s, next)
      PROVE  IInv'
  <2>1. UNCHANGED <<worker, filed, managerVars, recoveryVars, up, disturbances>>
    BY <1>2 DEF CloseKill
  <2>2. /\ pane' \in [Session -> PaneState]
        /\ killing' \subseteq Session \X {"close", "delete"}
        /\ deletion' \in [Project -> DeletionStep]
    BY <1>2 DEF CloseKill, KillSession
  <2>3. QED
    BY <2>1, <2>2 DEF MemoryTypeOK, Worker, OneRunningPerSpawned, Running,
         StoppedEventFollowsUpdate, SpawnInv, SweepInv, VictimInv, TrackInv,
         HandledInv
<1>3. ASSUME NEW p \in Project, DeleteStep(p)
      PROVE  IInv'
  <2>1. /\ UNCHANGED <<pane, managerVars, recoveryVars, up, killing, disturbances>>
        /\ deletion' \in [Project -> DeletionStep]
    BY <1>3 DEF DeleteStep, Deletes
  <2>2. CASE DeleteEvents(p)
    <3>1. TypeOK'
      BY <2>1, <2>2, DeleteEventsFacts
    <3>2. OneRunningPerSpawned' /\ SpawnInv' /\ SweepInv' /\ VictimInv'
      BY <2>1, <2>2, DeleteEventsFacts DEF OneRunningPerSpawned, Running, SpawnInv,
           SweepInv, VictimInv
    <3>3. StoppedEventFollowsUpdate'
      BY <2>2, DeleteEventsFacts DEF StoppedEventFollowsUpdate
    <3>4. TrackInv' /\ HandledInv'
      BY <2>1, <2>2, DeleteEventsFacts DEF TrackInv, HandledInv
    <3>5. QED
      BY <3>1, <3>2, <3>3, <3>4
  <2>3. CASE DeleteWorkers(p)
    <3>1. \A w \in Worker : worker'[w].state \in {worker[w].state, "deleted"}
      BY <2>3, DeleteWorkersFacts
    <3>2. \A w \in Worker : worker'[w].state = "running" => worker[w].state = "running"
      BY <3>1
    <3>3. TypeOK'
      BY <2>1, <2>3, DeleteWorkersFacts
    <3>4. OneRunningPerSpawned' /\ SpawnInv' /\ SweepInv' /\ VictimInv'
      BY <2>1, <2>3, <3>2, DeleteWorkersFacts DEF OneRunningPerSpawned, Running,
         SpawnInv,
           SweepInv, VictimInv
    <3>5. StoppedEventFollowsUpdate'
      BY <2>3, <3>2, DeleteWorkersFacts DEF StoppedEventFollowsUpdate
    <3>6. TrackInv' /\ HandledInv'
      BY <2>1, <2>3, <3>1, DeleteWorkersFacts DEF TrackInv, HandledInv
    <3>7. QED
      BY <3>3, <3>4, <3>5, <3>6
  <2>4. CASE DeleteTasks(p)
    <3>1. worker' = worker /\ filed' \subseteq filed
      BY <2>4 DEF DeleteTasks
    <3>2. QED
      BY <2>1, <3>1 DEF MemoryTypeOK, Worker, OneRunningPerSpawned, Running,
           StoppedEventFollowsUpdate, SpawnInv, SweepInv, VictimInv, TrackInv,
         HandledInv
  <2>5. QED
    BY <1>3, <2>2, <2>3, <2>4 DEF DeleteStep
<1>4. QED
  BY <1>1, <1>2, <1>3

LEMMA TimeStepIInv ==
  ASSUME IInv, TimeStep
  PROVE  IInv'
<1> USE DEF tables, orchestratorVars, Kept, IInv, TypeOK, ManagerTypeOK,
            RecoveryTypeOK, managerVars,
            recoveryVars, Tracked, TmuxTypeOK, TimeStep
<1>1. ASSUME NEW v \in Worker, GracePasses(v)
      PROVE  IInv'
  <2>1. TypeOK'
    BY <1>1, GraceExpiresFacts DEF GracePasses
  <2>2. OneRunningPerSpawned' /\ StoppedEventFollowsUpdate'
        /\ SpawnInv' /\ SweepInv' /\ VictimInv'
    BY <1>1, GraceExpiresFacts DEF GracePasses, OneRunningPerSpawned, Running,
         StoppedEventFollowsUpdate,
         SpawnInv, SweepInv, VictimInv
  <2>3. TrackInv' /\ HandledInv'
    BY <1>1, GraceExpiresFacts DEF GracePasses, TrackInv, HandledInv
  <2>4. QED
    BY <2>1, <2>2, <2>3
<1>2. ASSUME NEW t \in Spawned, CooldownPasses(t)
      PROVE  IInv'
  <2>1. TypeOK'
    BY <1>2 DEF CooldownPasses, MemoryTypeOK, Worker
  <2>2. OneRunningPerSpawned' /\ StoppedEventFollowsUpdate'
        /\ SpawnInv' /\ SweepInv' /\ VictimInv'
    BY <1>2 DEF CooldownPasses, OneRunningPerSpawned, Running,
         StoppedEventFollowsUpdate,
         SpawnInv, SweepInv, VictimInv, Worker
  <2>3. TrackInv' /\ HandledInv'
    BY <1>2 DEF CooldownPasses, TrackInv, HandledInv, Worker
  <2>4. QED
    BY <2>1, <2>2, <2>3
<1>3. QED
  BY <1>1, <1>2

\* A death forgets every half-done procedure, and with it what it knew.
LEMMA ProcessDiesIInv ==
  ASSUME IInv, ProcessDies, disturbances' \in Nat
  PROVE  IInv'
<1> USE DEF tables, orchestratorVars, Kept, IInv, TypeOK, TmuxTypeOK, MemoryTypeOK,
            ManagerTypeOK, RecoveryTypeOK, Tracked, Worker, ProcessDies,
            ManagerLost, RecoveryLost
<1>1. TypeOK'
  BY DEF DiscoverPhase, SpawnPhase, RecoveryPhase, NoDeletion, DeletionStep
<1>2. OneRunningPerSpawned' /\ StoppedEventFollowsUpdate'
        /\ SpawnInv' /\ SweepInv' /\ VictimInv'
  BY DEF OneRunningPerSpawned, Running, StoppedEventFollowsUpdate,
         SpawnInv, SweepInv, VictimInv
<1>3. TrackInv' /\ HandledInv'
  BY DEF TrackInv, HandledInv
<1>4. QED
  BY <1>1, <1>2, <1>3

\* What neither the table nor the procedures see preserves all they know.
LEMMA OutsideIInv ==
  ASSUME IInv, UNCHANGED <<tables, managerVars, recoveryVars>>,
         TmuxTypeOK', up' \in BOOLEAN, disturbances' \in Nat,
         killing' \subseteq Session \X {"close", "delete"},
         deletion' \in [Project -> DeletionStep]
  PROVE  IInv'
<1> USE DEF tables, orchestratorVars, Kept, IInv, TypeOK, MemoryTypeOK,
            ManagerTypeOK, RecoveryTypeOK,
            managerVars, recoveryVars, Tracked, Worker
<1>1. TypeOK'
  OBVIOUS
<1>2. OneRunningPerSpawned' /\ StoppedEventFollowsUpdate'
        /\ SpawnInv' /\ SweepInv' /\ VictimInv'
  BY DEF OneRunningPerSpawned, Running, StoppedEventFollowsUpdate,
         SpawnInv, SweepInv, VictimInv
<1>3. TrackInv' /\ HandledInv'
  BY DEF TrackInv, HandledInv
<1>4. QED
  BY <1>1, <1>2, <1>3

LEMMA NextIInv ==
  ASSUME IInv, [Next]_vars
  PROVE  IInv'
<1>1. CASE DiscoverStep
  BY <1>1, DiscoverStepIInv
<1>2. CASE SpawnRequest \/ SpawnProgress
  BY <1>2, SpawnStepIInv
<1>3. CASE RecoveryStep
  BY <1>3, RecoveryStepIInv
<1>4. CASE OrchestratorStep
  BY <1>4, OrchestratorStepIInv
<1>5. CASE TimeStep
  BY <1>5, TimeStepIInv
<1>6. CASE Rejection
  BY <1>6, ProcessDiesIInv DEF Rejection, IInv, TypeOK
<1>7. CASE Kill
  BY <1>7, ProcessDiesIInv DEF Kill, Disturbance, IInv, TypeOK
<1>8. CASE Restart
  <2>1. /\ UNCHANGED <<tables, managerVars, recoveryVars>>
        /\ TmuxTypeOK' /\ up' \in BOOLEAN /\ disturbances' \in Nat
        /\ killing' \subseteq Session \X {"close", "delete"}
        /\ deletion' \in [Project -> DeletionStep]
    BY <1>8 DEF Restart, orchestratorVars, IInv, TypeOK, TmuxTypeOK
  <2>2. QED
    BY <2>1, OutsideIInv
<1>9. CASE Environment
  <2>1. /\ UNCHANGED <<tables, managerVars, recoveryVars>>
        /\ up' \in BOOLEAN /\ disturbances' \in Nat
        /\ killing' \subseteq Session \X {"close", "delete"}
        /\ deletion' \in [Project -> DeletionStep]
    BY <1>9 DEF Environment, Disturbance, orchestratorVars, IInv, TypeOK
  <2>2. TmuxTypeOK'
    BY <1>9 DEF Environment, IInv, TypeOK, TmuxTypeOK, PaneState,
                UserOpens, UserCloses, AgentExits, UserRelaunches
  <2>3. QED
    BY <2>1, <2>2, OutsideIInv
<1>10. CASE UNCHANGED vars
  <2>1. /\ UNCHANGED <<tables, managerVars, recoveryVars>>
        /\ TmuxTypeOK' /\ up' \in BOOLEAN /\ disturbances' \in Nat
        /\ killing' \subseteq Session \X {"close", "delete"}
        /\ deletion' \in [Project -> DeletionStep]
    BY <1>10 DEF vars, orchestratorVars, IInv, TypeOK, TmuxTypeOK
  <2>2. QED
    BY <2>1, OutsideIInv
<1>11. CASE DeleteRequest
  <2>1. PICK p \in Project : DeleteSession(p)
    BY <1>11 DEF DeleteRequest
  <2>2. /\ UNCHANGED <<tables, managerVars, recoveryVars>>
        /\ TmuxTypeOK' /\ up' \in BOOLEAN /\ disturbances' \in Nat
    BY <1>11 DEF DeleteRequest, Disturbance, IInv, TypeOK, TmuxTypeOK
  <2>3. /\ killing' \subseteq Session \X {"close", "delete"}
        /\ deletion' \in [Project -> DeletionStep]
    BY <2>1, LookupFacts DEF DeleteSession, DeletionStep, IInv, TypeOK
  <2>4. QED
    BY <2>2, <2>3, OutsideIInv
<1>12. QED
  BY <1>1, <1>2, <1>3, <1>4, <1>5, <1>6, <1>7, <1>8, <1>9, <1>10, <1>11 DEF Next

-----------------------------------------------------------------------------
(* The theorems.                                                           *)

\* The inductive invariant holds in every reachable state.
THEOREM Invariance == Spec => []IInv
<1>1. IInv /\ [Next]_vars => IInv'
  BY NextIInv
<1>2. QED
  BY InitIInv, <1>1, PTL DEF Spec

\* Every variable keeps its type: in particular no procedure ever refers to a
\* row that does not exist.
THEOREM TypeCorrect == Spec => []TypeOK
<1>1. IInv => TypeOK
  BY DEF IInv
<1>2. QED
  BY <1>1, Invariance, PTL

\* A session spawned by Cato never has two running rows, however spawns,
\* releases, sweeps, deaths and restarts interleave.
THEOREM OneRunning == Spec => []OneRunningPerSpawned
<1>1. IInv => OneRunningPerSpawned
  BY DEF IInv
<1>2. QED
  BY <1>1, Invariance, PTL

\* While the launch command of a replacement is on its way, no row of the
\* target is running.
THEOREM RelaunchUnregistered == Spec => []RelaunchIsUnregistered
<1>1. IInv => RelaunchIsUnregistered
  BY DEF IInv, VictimInv, RelaunchIsUnregistered, Running, Target
<1>2. QED
  BY <1>1, Invariance, PTL

\* A wrapper session is tracked with its youngest row, and that row is running.
THEOREM TrackedLatest == Spec => []TrackedAdoptedIsLatest
<1>1. IInv => TrackedAdoptedIsLatest
  BY DEF IInv, TypeOK, ManagerTypeOK, TrackInv, TrackedAdoptedIsLatest, Tracked,
         Running, Kept, Session
<1>2. QED
  BY <1>1, Invariance, PTL

\* A row that still reads running has no WorkerStopped event.
THEOREM StoppedAfterUpdate == Spec => []StoppedEventFollowsUpdate
<1>1. IInv => StoppedEventFollowsUpdate
  BY DEF IInv
<1>2. QED
  BY <1>1, Invariance, PTL

-----------------------------------------------------------------------------
(* The desktop agent implements the abstract registry.                     *)

LifeRow == [owner : Session, status : {"alive", "ended", "removed"}]

LifeStatus(state) == CASE state = "running" -> "alive"
                       [] state = "deleted" -> "removed"
                       [] OTHER             -> "ended"

LEMMA LifeFacts ==
  ASSUME NEW table \in Seq(Row)
  PROVE  /\ LifeOf(table) \in Seq(LifeRow)
         /\ Len(LifeOf(table)) = Len(table)
         /\ DOMAIN LifeOf(table) = DOMAIN table
         /\ \A w \in DOMAIN table :
              /\ LifeOf(table)[w].owner = table[w].target
              /\ LifeOf(table)[w].status = LifeStatus(table[w].state)
<1>1. DOMAIN table = 1 .. Len(table) /\ Len(table) \in Nat
  OBVIOUS
<1>2. \A w \in DOMAIN table : table[w] \in Row
  BY <1>1, ElementOfSeq
<1>3. \A w \in DOMAIN table : LifeOf(table)[w] \in LifeRow
  BY <1>2 DEF LifeOf, LifeRow, Row, WorkerState
<1>4. DOMAIN LifeOf(table) = 1 .. Len(table)
  BY <1>1 DEF LifeOf
<1>5. LifeOf(table) \in Seq(LifeRow) /\ Len(LifeOf(table)) = Len(table)
  BY <1>1, <1>3, <1>4 DEF LifeOf
<1>6. QED
  BY <1>1, <1>4, <1>5 DEF LifeOf, LifeStatus

\* Tables whose rows agree on targets and statuses look the same.
LEMMA LifeSame ==
  ASSUME MemoryTypeOK, MemoryTypeOK', Worker' = Worker,
         \A w \in Worker : /\ worker'[w].target = worker[w].target
                           /\ LifeStatus(worker'[w].state) = LifeStatus(worker[w].state)
  PROVE  LifeOf(worker') = LifeOf(worker)
BY DEF LifeOf, LifeStatus, Worker

\* An INSERT is the start of a worker, allowed if no worker may be alive.
LEMMA StartRefines ==
  ASSUME MemoryTypeOK, NEW s \in Session, StartWorker(s),
         s \in Spawned => Running(s) = {}
  PROVE  Registry!Next
<1> DEFINE old == LifeOf(worker)
           new == LifeOf(worker')
           row == [owner |-> s, status |-> "alive"]
<1>1. worker \in Seq(Row) /\ worker' \in Seq(Row)
  BY StartWorkerFacts DEF MemoryTypeOK
<1>2. row \in LifeRow
  BY DEF LifeRow
<1>3. /\ old \in Seq(LifeRow) /\ Len(old) = Len(worker)
      /\ new \in Seq(LifeRow) /\ Len(new) = Len(worker')
  BY <1>1, LifeFacts
<1>4. Len(worker) \in Nat /\ Len(worker') = Len(worker) + 1
  BY <1>1 DEF StartWorker
<1>5. /\ Append(old, row) \in Seq(LifeRow)
      /\ Len(Append(old, row)) = Len(new)
      /\ \A i \in 1 .. Len(old) : Append(old, row)[i] = old[i]
      /\ Append(old, row)[Len(old) + 1] = row
  BY <1>2, <1>3, <1>4, AppendProperties
<1>6. \A i \in 1 .. Len(old) : new[i] = old[i]
  <2>1. \A i \in 1 .. Len(old) :
           i \in DOMAIN worker /\ i \in DOMAIN worker' /\ worker'[i] = worker[i]
    BY <1>1, <1>3, <1>4, StartWorkerFacts DEF Worker
  <2>2. QED
    BY <2>1 DEF LifeOf
<1>7. new[Len(old) + 1] = row
  BY <1>1, <1>3, <1>4, StartWorkerFacts DEF LifeOf, Worker, NextWorker
<1>8. new = Append(old, row)
  <2>1. \A i \in 1 .. Len(new) : new[i] = Append(old, row)[i]
    BY <1>3, <1>4, <1>5, <1>6, <1>7
  <2>2. QED
    BY <2>1, <1>3, <1>5, SeqEqual
<1>9. s \in Spawned => Registry!Alive(s) = {}
  BY <1>1, LifeFacts DEF Registry!Alive, Running, Worker, LifeOf
<1>10. Registry!Start(s)
  BY <1>8, <1>9 DEF Registry!Start
<1>11. QED
  BY <1>10 DEF Registry!Next

\* The UPDATE of stopWorker ends a worker, or repeats what is already true.
LEMMA StopRefines ==
  ASSUME MemoryTypeOK, NEW v \in Worker, NEW reason \in Reason, StopWorker(v,
         reason)
  PROVE  [Registry!Next]_(LifeOf(worker))
<1>1. CASE worker[v].state = "running"
  <2>1. LifeOf(worker') = [LifeOf(worker) EXCEPT ![v].status = "ended"]
    BY <1>1, StopWorkerFacts DEF LifeOf, Worker, Kept
  <2>2. v \in DOMAIN LifeOf(worker) /\ LifeOf(worker)[v].status = "alive"
    BY <1>1 DEF LifeOf, Worker
  <2>3. Registry!End(v)
    BY <2>1, <2>2 DEF Registry!End
  <2>4. QED
    BY <2>2, <2>3 DEF Registry!Next
<1>2. CASE worker[v].state # "running"
  <2>1. LifeOf(worker') = LifeOf(worker)
    BY <1>2, StopWorkerFacts, LifeSame DEF LifeStatus, Kept
  <2>2. QED
    BY <2>1
<1>3. QED
  BY <1>1, <1>2

\* The DELETE of the workers of a project removes them together, or none.
LEMMA DeleteRefines ==
  ASSUME MemoryTypeOK, NEW p \in Project, DeleteWorkers(p)
  PROVE  [Registry!Next]_(LifeOf(worker))
<1> DEFINE old == LifeOf(worker)
           new == LifeOf(worker')
<1>1. worker \in Seq(Row) /\ worker' \in Seq(Row) /\ DOMAIN worker' = DOMAIN worker
  BY DeleteWorkersFacts DEF MemoryTypeOK, Worker
<1>2. \A w \in DOMAIN worker : worker'[w].target = worker[w].target
  BY DeleteWorkersFacts DEF Worker
<1>3. CASE \A w \in Worker : worker'[w].state = worker[w].state
  BY <1>1, <1>2, <1>3 DEF LifeOf, Worker
<1>4. CASE \A w \in Worker : worker'[w].state =
             IF w \in RowsOf(p) THEN "deleted" ELSE worker[w].state
  <2>1. \A w \in DOMAIN worker : worker[w] \in Row
    BY RowFacts DEF Worker
  <2>2. \A w \in DOMAIN worker : old[w].owner \in SessionsOf(p) <=> w \in RowsOf(p)
    BY <2>1 DEF LifeOf, SessionsOf, RowsOf, Row, Worker
  <2>3. \A w \in DOMAIN worker :
           new[w] = IF w \in RowsOf(p) THEN [old[w] EXCEPT !.status = "removed"]
                                       ELSE old[w]
    BY <1>1, <1>2, <1>4 DEF LifeOf, Worker
  <2>4. new = [w \in DOMAIN old |->
                 IF old[w].owner \in SessionsOf(p)
                 THEN [old[w] EXCEPT !.status = "removed"] ELSE old[w]]
    BY <1>1, <2>2, <2>3 DEF LifeOf
  <2>5. Registry!Remove(SessionsOf(p))
    BY <2>4 DEF Registry!Remove
  <2>6. QED
    BY <2>5 DEF Registry!Next
<1>5. QED
  BY <1>3, <1>4, DeleteWorkersFacts

\* Every step of the agent is a step of the registry or invisible to it.
LEMMA StepRefines ==
  ASSUME IInv, [Next]_vars
  PROVE  [Registry!Next]_(LifeOf(worker))
<1> USE DEF IInv, TypeOK, tables
<1>1. CASE UNCHANGED worker
  BY <1>1
<1>2. ASSUME NEW s \in Adoptable, AdoptInsert(s)
      PROVE  Registry!Next
  BY <1>2, StartRefines DEF AdoptInsert, Session
<1>3. ASSUME NEW s \in Spawned, SpawnInsert(s)
      PROVE  Registry!Next
  BY <1>3, StartRefines DEF SpawnInsert, SpawnInv, Running, Session
<1>4. CASE Replace
  <2>1. /\ Target(victim) \in Session
        /\ Running(Target(victim)) = {}
        /\ StartWorker(Target(victim))
    BY <1>4 DEF Replace, VictimInv, Running, Target, Session
  <2>2. QED
    BY <2>1, StartRefines
<1>5. CASE ReleaseStop
  BY <1>5, StopRefines DEF ReleaseStop, HandledInv, Reason
<1>6. CASE GoneStop \/ RecoverStop
  BY <1>6, StopRefines DEF GoneStop, RecoverStop, VictimInv, Reason
<1>7. CASE ReleaseEvent
  BY <1>7, AppendStoppedFacts, LifeSame DEF ReleaseEvent, HandledInv, Reason
<1>8. CASE GoneEvent \/ RecoverEvent
  BY <1>8, AppendStoppedFacts, LifeSame DEF GoneEvent, RecoverEvent, VictimInv,
         Reason
<1>9. ASSUME NEW v \in Worker, GracePasses(v)
      PROVE  LifeOf(worker') = LifeOf(worker)
  BY <1>9, GraceExpiresFacts, LifeSame DEF GracePasses
<1>10. CASE DiscoverStep
  BY <1>1, <1>2, <1>5, <1>7, <1>10
     DEF DiscoverStep, Discover, DiscoverList, AdoptFile, FileTask, AdoptTrack,
         ReleaseDrop, DiscoverEnd
<1>11. CASE SpawnRequest \/ SpawnProgress
  BY <1>1, <1>3, <1>11
     DEF SpawnRequest, SpawnProgress, SpawnStep, SpawnShell, SpawnLaunch,
         SpawnFails, SpawnFile, FileTask, SpawnTrack, SpawnTask
<1>12. CASE RecoveryStep
  BY <1>1, <1>4, <1>6, <1>8, <1>12
     DEF RecoveryStep, Recover, SweepStart, SweepSkip, SweepGone, SweepShell,
         SweepEnd, Relaunch, RestoreCheckpoint, ReplaceEvent
<1>13. CASE TimeStep
  BY <1>1, <1>9, <1>13 DEF TimeStep, CooldownPasses
<1>14. ASSUME NEW p \in Project, DeleteEvents(p)
       PROVE  LifeOf(worker') = LifeOf(worker)
  BY <1>14, DeleteEventsFacts, LifeSame
<1>15. CASE OrchestratorStep
  <2>1. ASSUME NEW p \in Project, DeleteStep(p)
        PROVE  [Registry!Next]_(LifeOf(worker))
    BY <1>1, <1>14, <2>1, DeleteRefines DEF DeleteStep, DeleteTasks
  <2>2. QED
    BY <1>1, <1>15, <2>1 DEF OrchestratorStep, CloseSession, CloseKill
<1>16. CASE Rejection \/ Kill \/ DeleteRequest \/ Restart \/ Environment \/ UNCHANGED vars
  BY <1>1, <1>16
     DEF Rejection, Kill, ProcessDies, DeleteRequest, Restart, Environment, vars
<1>17. QED
  BY <1>10, <1>11, <1>12, <1>13, <1>15, <1>16 DEF Next

\* The desktop agent implements WorkerRegistry: workers that ended or were deleted
\* never come back, a deletion takes all workers of the project or none, and in a
\* spawned session a worker starts only when none is alive.
THEOREM Refinement == Spec => RegistrySpec
<1>1. Init => Registry!Init
  BY DEF Init, MemoryInit, Registry!Init, LifeOf
<1>2. IInv /\ [Next]_vars => [Registry!Next]_(LifeOf(worker))
  BY StepRefines
<1>3. QED
  BY <1>1, <1>2, Invariance, PTL DEF Spec, RegistrySpec, Registry!Spec
=============================================================================
