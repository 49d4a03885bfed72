-------------------------------- MODULE Tmux --------------------------------
(***************************************************************************)
(* The tmux server as the desktop agent sees it: a set of named sessions,  *)
(* each with one pane.  The operators are the commands of tmux/tmux.ts the *)
(* worker life cycle uses; the actions at the end are what users and       *)
(* coding agents do behind the desktop agent's back.                       *)
(*                                                                         *)
(* A session of the `cato` wrapper (cato-<project>) runs its agent as the  *)
(* root process of the pane, so it ends with the agent.  A session spawned *)
(* by Cato (cato_<ulid>) runs a shell, and the agent inside it, so its     *)
(* pane survives the agent.  A ULID is used once, a wrapper name again and *)
(* again.                                                                  *)
(***************************************************************************)
CONSTANTS
  Adoptable,  \* names of sessions started with the `cato` wrapper
  Spawned     \* names of the sessions Cato may spawn itself

ASSUME SessionAssumption == Adoptable \cap Spawned = {}

VARIABLE pane  \* what runs in each session: nothing, a shell, or an agent

Session == Adoptable \cup Spawned

PaneState == {"none", "shell", "agent"}

TmuxInit == pane = [s \in Session |-> "none"]

TmuxTypeOK == pane \in [Session -> PaneState]

-----------------------------------------------------------------------------
(* Commands issued by the desktop agent.                                   *)

LiveSessions == {s \in Session : pane[s] # "none"}

NewShellSession(s) ==
  /\ pane[s] = "none"
  /\ pane' = [pane EXCEPT ![s] = "shell"]

\* Typing the launch command and Enter: a shell starts the agent, an agent
\* that is already there swallows the line.  tmux refuses when the session is
\* gone, and sendLine rejects.
SendLaunch(s) ==
  /\ pane[s] # "none"
  /\ pane' = [pane EXCEPT ![s] = "agent"]

\* Typing any other line leaves the kind of program in the pane as it is.
SendText(s) ==
  /\ pane[s] # "none"
  /\ UNCHANGED pane

SendRejected(s) == pane[s] = "none"

KillSession(s) == pane' = [pane EXCEPT ![s] = "none"]

-----------------------------------------------------------------------------
(* Users and agents.                                                       *)

UserOpens(s) ==
  /\ s \in Adoptable
  /\ pane[s] = "none"
  /\ pane' = [pane EXCEPT ![s] = "agent"]

UserCloses(s) ==
  /\ pane[s] # "none"
  /\ pane' = [pane EXCEPT ![s] = "none"]

\* The agent exits: to the shell that hosts it, or with its session.
AgentExits(s) ==
  /\ pane[s] = "agent"
  /\ pane' = [pane EXCEPT ![s] = IF s \in Spawned THEN "shell" ELSE "none"]

\* The user attaches to a spawned session and starts the agent by hand.
UserRelaunches(s) ==
  /\ s \in Spawned
  /\ pane[s] = "shell"
  /\ pane' = [pane EXCEPT ![s] = "agent"]
=============================================================================
