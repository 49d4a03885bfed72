--------------------------- MODULE TerminalMirror ---------------------------
(***************************************************************************)
(* The live view of a project's terminal: what the phone opens, polls,     *)
(* shows, surfaces as a menu and closes (App.tsx), and what the agent does *)
(* for each of its requests (orchestrator.ts, tmux.ts): handlers are not   *)
(* awaited, each looks its worker up when the frame arrives and then runs  *)
(* tmux commands that interleave with those of the others.                 *)
(*                                                                         *)
(* What a pane shows is abstracted to blank, plain text, or a menu; the    *)
(* width of its window to the phone's or the desktop's.                    *)
(***************************************************************************)
EXTENDS Naturals, Sequences

CONSTANTS Project,
          Menu,      \* the menus panes may show
          None,
          Op,        \* bound: requests on their way or under way at once
          MaxTaps,   \* bound: what the user does on the phone
          MaxEvents  \* bound: what happens on the computer and to the network

ASSUME NoneIsNone == None \notin Project \cup Menu \cup [project : Project, shows : {"blank", "plain"} \cup Menu]
ASSUME Bounds == MaxTaps \in Nat /\ MaxEvents \in Nat

VARIABLES
  open,      \* terminalProject and its ref, which change together
  text,      \* terminalText, with the project it came from; None: ""
  had,       \* termHadContent
  menu,      \* terminalMenu
  sig,       \* shownMenuSig
  starting,  \* startAgent's timeout will open this project
  linked,    \* the phone is connected
  toAgent, toPhone,  \* the socket
  op,        \* the handlers under way
  alive,     \* the project's session exists
  running,   \* runningWorker finds its row
  shows,     \* what its pane shows
  attached,  \* a desktop terminal is attached to it
  follows,   \* its window-size option is "largest" (else "manual")
  narrow,    \* its window has the phone's width
  taps, events

view == <<open, text, had, menu, sig, starting>>
tmux == <<alive, shows, attached, follows, narrow>>
vars == <<view, linked, toAgent, toPhone, op, running, tmux, taps, events>>

Contents == {"blank", "plain"} \cup Menu
Idle == [step |-> "idle"]
Steps == {"count", "largest", "manual", "resize", "capture", "follow", "snap", "key",
          "kill", "terminal"}

Init ==
  /\ open = None /\ text = None /\ had = FALSE /\ menu = None /\ sig = None
  /\ starting = None /\ linked = TRUE
  /\ toAgent = <<>> /\ toPhone = <<>> /\ op = [o \in Op |-> Idle]
  /\ alive = [p \in Project |-> TRUE] /\ running = alive
  /\ \E x \in {"plain"} \cup Menu : shows = [p \in Project |-> x]
  /\ attached \in [Project -> BOOLEAN]
  /\ follows = [p \in Project |-> TRUE] /\ narrow = [p \in Project |-> FALSE]
  /\ taps = 0 /\ events = 0
-----------------------------------------------------------------------------
(* The phone.                                                              *)
Request(kind, p) == [kind |-> kind, project |-> p]
Send(reqs) == toAgent' = IF linked THEN toAgent \o reqs ELSE toAgent
Room == (\E o \in Op : op[o] = Idle) /\ toAgent = <<>> /\ toPhone = <<>>  \* a bound

ParseMenu(t) == IF t # None /\ t.shows \in Menu THEN t.shows ELSE None

KeepMenu(p, t) ==  \* mutant: a menu that went away stays
  LET m == IF p = None THEN None ELSE ParseMenu(t) IN
  IF m \in {sig, None} THEN UNCHANGED <<menu, sig>> ELSE menu' = m /\ sig' = m
Resurface(p, t) ==  \* mutant: every screen brings the sheet back
  LET m == IF p = None THEN None ELSE ParseMenu(t) IN menu' = m /\ sig' = m

(* The effect that runs when the text or the project changed.              *)
SurfaceMenu(p, t) ==
  LET m == IF p = None THEN None ELSE ParseMenu(t) IN
  IF m = sig /\ m # None THEN UNCHANGED <<menu, sig>> ELSE menu' = m /\ sig' = m

OpenProject(p) ==
  /\ text' = None /\ had' = FALSE /\ open' = p
  /\ SurfaceMenu(p, None)
  /\ Send(<<Request("get", p)>>)

CloseView(reqs) ==
  /\ open' = None
  /\ SurfaceMenu(None, text)
  /\ Send(reqs)
  /\ UNCHANGED <<text, had, starting>>

Tap ==
  /\ taps < MaxTaps /\ taps' = taps + 1
  /\ linked
  /\ UNCHANGED <<linked, toPhone, op, running, tmux, events>>

Choose(p) == Tap /\ open = None /\ OpenProject(p) /\ UNCHANGED starting
StartAgent(p) ==  \* spawnWorker, and openProject 1.5 s later
  /\ Tap /\ open = None /\ starting = None
  /\ starting' = p
  /\ Send(<<Request("spawn", p)>>)
  /\ UNCHANGED <<open, text, had, menu, sig>>
Back == Tap /\ open # None /\ CloseView(<<Request("release", open)>>)
CloseSession == Tap /\ open # None /\ CloseView(<<Request("close", open), Request("release", open)>>)
OpenOnDesktop == Tap /\ open # None /\ Send(<<Request("openDesktop", open)>>) /\ UNCHANGED view
Answer ==  \* a tap on the sheet sends the option's number to the open project
  /\ Tap /\ open # None /\ menu # None
  /\ menu' = None
  /\ Send(<<Request("key", open)>>)
  /\ UNCHANGED <<open, text, had, sig, starting>>
Dismiss ==
  /\ Tap /\ open # None /\ menu # None
  /\ menu' = None
  /\ UNCHANGED <<open, text, had, sig, starting, toAgent>>
User == \/ \E p \in Project : Choose(p) \/ StartAgent(p)
        \/ Back \/ CloseSession \/ OpenOnDesktop \/ Answer \/ Dismiss

StartTimeout ==  \* whatever is open then
  /\ starting # None
  /\ OpenProject(starting) /\ starting' = None
  /\ UNCHANGED <<linked, toPhone, op, running, tmux, taps, events>>

Poll ==
  /\ open # None /\ linked /\ Room
  /\ Send(<<Request("get", open)>>)
  /\ UNCHANGED <<view, linked, toPhone, op, running, tmux, taps, events>>

OfAny(f) == open # None  \* mutant: late screens are not told apart
OfOpen(f) == f.project = open

OnTerminalScreen ==
  /\ toPhone # <<>> /\ toPhone' = Tail(toPhone)
  /\ LET f == Head(toPhone) IN
     IF ~OfOpen(f) THEN UNCHANGED view
     ELSE IF f.shows # "blank"
     THEN /\ had' = TRUE /\ text' = f
          /\ SurfaceMenu(open, f)
          /\ UNCHANGED <<open, starting>>
     ELSE IF had  \* the session was closed on the computer
     THEN /\ open' = None /\ text' = None
          /\ SurfaceMenu(None, None)
          /\ UNCHANGED <<had, starting>>
     ELSE UNCHANGED view
  /\ UNCHANGED <<linked, toAgent, op, running, tmux, taps, events>>
-----------------------------------------------------------------------------
(* The agent: the frames in the order they arrive, then each handler.      *)
Disconnected == linked' = FALSE /\ toAgent' = <<>> /\ toPhone' = <<>>

FirstStep == [get |-> "count", release |-> "follow", close |-> "kill", key |-> "key",
              openDesktop |-> "terminal"]

OnMessage ==
  /\ toAgent # <<>> /\ toAgent' = Tail(toAgent)
  /\ LET r == Head(toAgent) IN
     IF r.kind = "spawn"
     THEN /\ alive' = [alive EXCEPT ![r.project] = TRUE]
          /\ running' = [running EXCEPT ![r.project] = TRUE]
          /\ UNCHANGED <<toPhone, op>>
     ELSE /\ UNCHANGED <<alive, running>>
          /\ IF running[r.project]
             THEN /\ \E o \in Op : op[o] = Idle /\ op' = [op EXCEPT ![o] =
                       [step |-> FirstStep[r.kind], project |-> r.project, here |-> TRUE]]
                  /\ UNCHANGED toPhone
             ELSE /\ toPhone' = IF r.kind = "get"
                                THEN Append(toPhone, [project |-> r.project, shows |-> "blank"])
                                ELSE toPhone
                  /\ UNCHANGED op
  /\ UNCHANGED <<view, linked, shows, attached, follows, narrow, taps, events>>

GoTo(o, step) == op' = [op EXCEPT ![o].step = step] /\ UNCHANGED toPhone
Done(o) == op' = [op EXCEPT ![o] = Idle] /\ UNCHANGED toPhone
Set(f, p, x) == [f EXCEPT ![p] = IF alive[p] THEN x ELSE @]

Follow(p) ==  \* set-window-option window-size largest
  /\ follows' = Set(follows, p, TRUE)
  /\ narrow' = Set(narrow, p, narrow[p] /\ ~attached[p])
  /\ UNCHANGED <<alive, shows, attached>>

NeverAttached(p) == FALSE  \* mutant: the clients are not counted
IsAttached(p) == alive[p] /\ attached[p]

ResizeWindow(o) ==  \* resizeWindow, which begins by counting the clients
  LET p == op[o].project IN
  \/ /\ op[o].step = "count"
     /\ GoTo(o, IF IsAttached(p) THEN "largest" ELSE "manual")
     /\ UNCHANGED tmux
  \/ op[o].step = "largest" /\ Follow(p) /\ GoTo(o, "capture")
  \/ /\ op[o].step = "manual"
     /\ follows' = Set(follows, p, FALSE)
     /\ GoTo(o, "resize")
     /\ UNCHANGED <<alive, shows, attached, narrow>>
  \/ /\ op[o].step = "resize"  \* resize-window -x -y also sets "manual"
     /\ follows' = Set(follows, p, FALSE) /\ narrow' = Set(narrow, p, TRUE)
     /\ GoTo(o, "capture")
     /\ UNCHANGED <<alive, shows, attached>>

LastScreen(p) == shows[p]  \* mutant: a failed capture-pane is not noticed

(* capturePaneScreen takes 400 lines of scrollback along: in the program a *)
(* screen of a live session is blank more rarely than here.                *)
Screen(p) == IF alive[p] THEN shows[p] ELSE "blank"

TerminalScreen(o) ==  \* the end of terminalScreen, to the socket it came from
  LET p == op[o].project IN
  /\ op[o].step = "capture"
  /\ op' = [op EXCEPT ![o] = Idle]
  /\ toPhone' = IF op[o].here
                THEN Append(toPhone, [project |-> p, shows |-> Screen(p)])
                ELSE toPhone
  /\ UNCHANGED tmux

AutoSizeWindow(o) ==
  LET p == op[o].project IN
  \/ op[o].step = "follow" /\ Follow(p) /\ GoTo(o, "snap")
  \/ /\ op[o].step = "snap"  \* resize-window -A also sets "manual"
     /\ follows' = Set(follows, p, FALSE)
     /\ narrow' = Set(narrow, p, narrow[p] /\ ~attached[p])
     /\ Done(o)
     /\ UNCHANGED <<alive, shows, attached>>

TerminalKey(o) ==  \* the key answers the menu that is there now, if any
  LET p == op[o].project IN
  /\ op[o].step = "key"
  /\ shows' = [shows EXCEPT ![p] = IF @ \in Menu THEN "plain" ELSE @]
  /\ IF alive[p] THEN Done(o) /\ UNCHANGED <<linked, toAgent>>
     ELSE Disconnected /\ op' = [x \in Op |-> Idle]  \* rejected, not caught: the process ends
  /\ UNCHANGED <<alive, attached, follows, narrow>>

Attach(p) ==
  /\ attached' = [attached EXCEPT ![p] = TRUE]
  /\ narrow' = [narrow EXCEPT ![p] = @ /\ ~follows[p]]
  /\ UNCHANGED <<alive, shows, follows>>

OpenInTerminal(o) ==
  LET p == op[o].project IN
  /\ op[o].step = "terminal"
  /\ IF alive[p] THEN Attach(p) ELSE UNCHANGED tmux
  /\ Done(o)

Gone(p) ==  \* a new session of the project will have a new window
  /\ alive' = [alive EXCEPT ![p] = FALSE]
  /\ shows' = [shows EXCEPT ![p] = "plain"]
  /\ attached' = [attached EXCEPT ![p] = FALSE]
  /\ follows' = [follows EXCEPT ![p] = TRUE]
  /\ narrow' = [narrow EXCEPT ![p] = FALSE]

KillSession(o) == op[o].step = "kill" /\ Gone(op[o].project) /\ Done(o)

Command(o) == \/ ResizeWindow(o) \/ TerminalScreen(o) \/ AutoSizeWindow(o)
              \/ OpenInTerminal(o) \/ KillSession(o)
Handler(o) ==
  /\ op[o] # Idle
  /\ (Command(o) /\ UNCHANGED <<linked, toAgent>>) \/ TerminalKey(o)
  /\ UNCHANGED <<view, running, taps, events>>
-----------------------------------------------------------------------------
(* The computer and the network.                                           *)
Event(still) == events < MaxEvents /\ events' = events + 1 /\ UNCHANGED <<still, taps>>

Computer(p) ==
  /\ Event(<<view, linked, toAgent, toPhone, op>>)
  /\ \/ /\ alive[p] /\ ~attached[p] /\ Attach(p) /\ UNCHANGED running
     \/ /\ attached[p]
        /\ attached' = [attached EXCEPT ![p] = FALSE]
        /\ UNCHANGED <<alive, shows, follows, narrow, running>>
     \/ /\ alive[p]
        /\ \E x \in Contents \ {shows[p]} : shows' = [shows EXCEPT ![p] = x]
        /\ UNCHANGED <<alive, attached, follows, narrow, running>>
     \/ alive[p] /\ Gone(p) /\ UNCHANGED running
     \/ /\ running[p]  \* discovery releases the worker, or a recovery replaces it
        /\ running' = [running EXCEPT ![p] = FALSE] /\ UNCHANGED tmux

Replaced(p) ==  \* discovery adopts the session, or the recovery registers the replacement
  /\ alive[p] /\ ~running[p]
  /\ running' = [running EXCEPT ![p] = TRUE]
  /\ UNCHANGED <<view, linked, toAgent, toPhone, op, tmux, taps, events>>

LinkLost ==
  /\ linked /\ Disconnected
  /\ op' = [o \in Op |-> IF op[o] = Idle THEN Idle ELSE [op[o] EXCEPT !.here = FALSE]]
  /\ Event(<<view, running, tmux>>)

LinkBack ==  \* the phone reconnects, once the agent was started again if it ended
  /\ ~linked /\ linked' = TRUE
  /\ UNCHANGED <<view, toAgent, toPhone, op, running, tmux, taps, events>>

Next ==
  \/ User \/ StartTimeout \/ Poll \/ OnTerminalScreen \/ OnMessage
  \/ \E o \in Op : Handler(o)
  \/ \E p \in Project : Computer(p) \/ Replaced(p)
  \/ LinkLost \/ LinkBack

Spec == Init /\ [][Next]_vars
(* The interval fires, frames arrive and commands end.                     *)
FairSpec == /\ Spec
            /\ WF_vars(Poll) /\ WF_vars(OnTerminalScreen) /\ WF_vars(OnMessage)
            /\ \A o \in Op : WF_vars(Handler(o))
-----------------------------------------------------------------------------
(* Properties.                                                             *)

(* Every variable has its type.                                            *)
TypeOK ==
  /\ open \in Project \cup {None} /\ starting \in Project \cup {None}
  /\ text \in {None} \cup [project : Project, shows : Contents]
  /\ had \in BOOLEAN /\ linked \in BOOLEAN
  /\ menu \in Menu \cup {None} /\ sig \in Menu \cup {None}
  /\ toAgent \in Seq([kind : DOMAIN FirstStep \cup {"spawn"}, project : Project])
  /\ toPhone \in Seq([project : Project, shows : Contents])
  /\ op \in [Op -> {Idle} \cup [step : Steps, project : Project, here : BOOLEAN]]
  /\ shows \in [Project -> Contents]
  /\ {alive, running, attached, follows, narrow} \subseteq [Project -> BOOLEAN]
  /\ taps \in 0..MaxTaps /\ events \in 0..MaxEvents

(* However late a screen arrives and whatever was opened meanwhile, the    *)
(* view shows nothing of another project.                                  *)
TextIsOfOpenProject == open # None /\ text # None => text.project = open

(* The sheet offers the options of the menu in the text it covers; a tap   *)
(* never answers a menu the view no longer shows.                          *)
MenuIsOfText == menu # None => open # None /\ menu = ParseMenu(text)

(* A menu the user dismissed or answered stays away while the screens that *)
(* arrive show it still (App.tsx:280).                                     *)
DismissedStaysDismissed ==
  [][menu' \notin {menu, None} => ParseMenu(text') # ParseMenu(text) \/ open' # open]_vars

(* A desktop terminal attached to a session some phone is looking at gets  *)
(* its size back, whatever a resize under way had decided (tmux.ts:170).   *)
DesktopGetsItsSize ==
  \A p \in Project : (attached[p] /\ open = p /\ linked /\ running[p])
                     ~> (~narrow[p] \/ ~attached[p] \/ open # p \/ ~linked \/ ~running[p])

(* A view that has shown output does not outlive its session.              *)
ClosedSessionsCloseTheView ==
  \A p \in Project : (open = p /\ had /\ linked /\ ~alive[p]) ~> (open # p \/ ~linked \/ alive[p] \/ ~had)

(* When no phone views a session and no request is under way, its desktop  *)
(* terminal has its own size: orchestrator.ts:111 "Release the forced pane *)
(* size when the phone stops viewing (desktop size restored)."             *)
DesktopSizeRestored ==
  \A p \in Project : (/\ open # p /\ attached[p] /\ toAgent = <<>>
                      /\ \A o \in Op : op[o] = Idle) => ~narrow[p]
=============================================================================
