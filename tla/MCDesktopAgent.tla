---------------------------- MODULE MCDesktopAgent ---------------------------
(***************************************************************************)
(* DesktopAgent for TLC.  One project owns all sessions, so that           *)
(* closeSession has to choose among their workers.                         *)
(***************************************************************************)
EXTENDS DesktopAgent, TLC

CONSTANT TheProject

MCProjectOf == [s \in Session |-> TheProject]

\* Spawned sessions are interchangeable; safety runs only.
SpawnSymmetry == Permutations(Spawned)
=============================================================================
