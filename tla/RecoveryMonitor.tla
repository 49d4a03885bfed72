--------------------------- MODULE RecoveryMonitor ---------------------------
(***************************************************************************)
(* RecoveryMonitor (recovery/monitor.ts): a sweep over the running managed *)
(* workers that marks the ones whose session is gone and relaunches the    *)
(* ones whose agent has exited to the shell.  Every await ends a step.     *)
(*                                                                         *)
(* Cooldown and grace are compared with a clock reading taken once, when   *)
(* the sweep starts.  Both are therefore flags that time changes between   *)
(* sweeps only: during a sweep their expiry could not be seen.             *)
(***************************************************************************)
EXTENDS MemoryEngine

VARIABLES
  recovery,  \* where tick stands; "idle" is #busy = false
  sweep,     \* rows of the runningManagedWorkers answer still to be visited
  victim,    \* the row being recovered or marked, 0 if none
  cooling    \* targets whose #cooldownUntil lies in the future

recoveryVars == <<recovery, sweep, victim, cooling>>

RecoveryPhase == {"idle", "sweep", "gone", "goneEvent", "recover",
                  "recoverEvent", "relaunch", "checkpoint", "replace", "replaced"}

RecoveryInit ==
  /\ recovery = "idle"
  /\ sweep = {}
  /\ victim = 0
  /\ cooling = {}

RecoveryTypeOK ==
  /\ recovery \in RecoveryPhase
  /\ sweep \subseteq Worker
  /\ victim \in Worker \cup {0}
  /\ cooling \subseteq Spawned

Target(w) == worker[w].target

-----------------------------------------------------------------------------
(* tick                                                                    *)

SweepStart ==
  /\ recovery = "idle"
  /\ recovery' = "sweep"
  /\ sweep' = RunningManagedWorkers
  /\ UNCHANGED <<pane, tables, victim, cooling>>

\* Rows are visited youngest first.
Visited(w) ==
  /\ recovery = "sweep"
  /\ w \in sweep
  /\ \A v \in sweep : v <= w

\* Mutant of Exempt: the grace comparison the wrong way round.
ExemptOnceAged(w) == Target(w) \in cooling \/ worker[w].aged

Exempt(w) == Target(w) \in cooling \/ ~worker[w].aged

SweepSkip(w) ==
  /\ Visited(w)
  /\ Exempt(w) \/ pane[Target(w)] = "agent"
  /\ sweep' = sweep \ {w}
  /\ UNCHANGED <<pane, tables, recovery, victim, cooling>>

\* Mutant of SweepGone: the worker is skipped, and not marked.
SweepGoneUnmarked(w) ==
  /\ Visited(w)
  /\ ~Exempt(w)
  /\ pane[Target(w)] = "none"
  /\ sweep' = sweep \ {w}
  /\ UNCHANGED <<pane, tables, recovery, victim, cooling>>

\* The session is gone: nothing to relaunch in.
SweepGone(w) ==
  /\ Visited(w)
  /\ ~Exempt(w)
  /\ pane[Target(w)] = "none"
  /\ sweep' = sweep \ {w}
  /\ victim' = w
  /\ recovery' = "gone"
  /\ UNCHANGED <<pane, tables, cooling>>

\* The agent has exited to its shell: recover starts with the cooldown.
SweepShell(w) ==
  /\ Visited(w)
  /\ ~Exempt(w)
  /\ pane[Target(w)] = "shell"
  /\ sweep' = sweep \ {w}
  /\ victim' = w
  /\ cooling' = cooling \cup {Target(w)}
  /\ recovery' = "recover"
  /\ UNCHANGED <<pane, tables>>

SweepEnd ==
  /\ recovery = "sweep"
  /\ sweep = {}
  /\ recovery' = "idle"
  /\ UNCHANGED <<pane, tables, sweep, victim, cooling>>

GoneStop ==
  /\ recovery = "gone"
  /\ StopWorker(victim, "crash")
  /\ recovery' = "goneEvent"
  /\ UNCHANGED <<pane, sweep, victim, cooling>>

GoneEvent ==
  /\ recovery = "goneEvent"
  /\ AppendStopped(victim, "crash")
  /\ victim' = 0
  /\ recovery' = "sweep"
  /\ UNCHANGED <<pane, sweep, cooling>>

-----------------------------------------------------------------------------
(* recover                                                                 *)

\* Mutant of RecoverStop: the UPDATE of Worker #1 is lost.
RecoverWithoutStop ==
  /\ recovery = "recover"
  /\ recovery' = "recoverEvent"
  /\ UNCHANGED <<pane, tables, sweep, victim, cooling>>

RecoverStop ==
  /\ recovery = "recover"
  /\ StopWorker(victim, "crash")
  /\ recovery' = "recoverEvent"
  /\ UNCHANGED <<pane, sweep, victim, cooling>>

RecoverEvent ==
  /\ recovery = "recoverEvent"
  /\ AppendStopped(victim, "crash")
  /\ recovery' = "relaunch"
  /\ UNCHANGED <<pane, sweep, victim, cooling>>

\* Mutant of Relaunch: returns where there is no checkpoint to restore.
RelaunchOnly ==
  /\ recovery = "relaunch"
  /\ SendLaunch(Target(victim))
  /\ \/ recovery' = "checkpoint" /\ UNCHANGED victim
     \/ recovery' = "sweep" /\ victim' = 0
  /\ UNCHANGED <<tables, sweep, cooling>>

\* The launch command is typed; the project may have a checkpoint to type next.
Relaunch ==
  /\ recovery = "relaunch"
  /\ SendLaunch(Target(victim))
  /\ recovery' \in {"checkpoint", "replace"}
  /\ UNCHANGED <<tables, sweep, victim, cooling>>

RestoreCheckpoint ==
  /\ recovery = "checkpoint"
  /\ SendText(Target(victim))
  /\ recovery' = "replace"
  /\ UNCHANGED <<tables, sweep, victim, cooling>>

\* Mutant of Replace: Worker #1 is revived, no Worker #2 registered.
Revive ==
  /\ recovery = "replace"
  /\ worker' = [worker EXCEPT ![victim].state = "running"]
  /\ recovery' = "replaced"
  /\ UNCHANGED <<pane, filed, sweep, victim, cooling>>

\* Worker #2 gets the target and the task of Worker #1.
Replace ==
  /\ recovery = "replace"
  /\ StartWorker(Target(victim))
  /\ victim' = NextWorker
  /\ recovery' = "replaced"
  /\ UNCHANGED <<pane, sweep, cooling>>

\* Its WorkerStarted event.
ReplaceEvent ==
  /\ recovery = "replaced"
  /\ Kept(victim)
  /\ victim' = 0
  /\ recovery' = "sweep"
  /\ UNCHANGED <<pane, tables, sweep, cooling>>

\* Nobody handles the rejection of tick: the session went away between the check
\* and the typing, or a deletion removed what an INSERT refers to.
RecoveryRejected ==
  \/ recovery \in {"relaunch", "checkpoint"} /\ SendRejected(Target(victim))
  \/ recovery \in {"goneEvent", "recoverEvent", "replaced"} /\ ~Kept(victim)
  \/ recovery = "replace" /\ Target(victim) \notin filed

-----------------------------------------------------------------------------
(* Time.                                                                   *)

GracePasses(w) ==
  /\ recovery = "idle"
  /\ w \in RunningManagedWorkers
  /\ GraceExpires(w)
  /\ UNCHANGED <<pane, recoveryVars>>

CooldownPasses(t) ==
  /\ recovery = "idle"
  /\ t \in cooling
  /\ cooling' = cooling \ {t}
  /\ UNCHANGED <<pane, tables, recovery, sweep, victim>>

RecoveryLost ==
  /\ recovery' = "idle"
  /\ sweep' = {}
  /\ victim' = 0
  /\ cooling' = {}
=============================================================================
