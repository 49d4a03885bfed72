------------------------- MODULE TerminalMirrorProofs -------------------------
(***************************************************************************)
(* The terminal view, for any number of projects, menus and requests: the  *)
(* menu that the effect has seen is always that of the text that the view  *)
(* shows, which is why a sheet never belongs to another screen and why it  *)
(* does not come back by itself.                                           *)
(***************************************************************************)
EXTENDS TerminalMirror, TLAPS

Messages == [kind : DOMAIN FirstStep \cup {"spawn"}, project : Project]
Screens == [project : Project, shows : Contents]
Jobs == {Idle} \cup [step : Steps, project : Project, here : BOOLEAN]

\* The menu of the text the view shows.
Shown(p, t) == IF p = None THEN None ELSE ParseMenu(t)
SigIsShown == sig = Shown(open, text)
MenuIsSig == menu # None => menu = sig
ViewInv == SigIsShown /\ MenuIsSig /\ TextIsOfOpenProject
MirrorInv == TypeOK /\ ViewInv

-----------------------------------------------------------------------------
LEMMA KindFacts ==
  /\ DOMAIN FirstStep = {"get", "release", "close", "key", "openDesktop"}
  /\ \A k \in DOMAIN FirstStep : FirstStep[k] \in Steps
BY DEF FirstStep, Steps

LEMMA MenuFacts ==
  ASSUME NEW t \in {None} \cup Screens
  PROVE  ParseMenu(t) \in Menu \cup {None} /\ (t = None => ParseMenu(t) = None)
BY DEF ParseMenu

\* The effect leaves the menu of the text as the one it has seen, and shows a
\* sheet only for a menu that it had not.
LEMMA SurfaceFacts ==
  ASSUME MirrorInv, NEW p, NEW t \in {None} \cup Screens, SurfaceMenu(p, t)
  PROVE  /\ sig' = Shown(p, t) /\ (menu' # None => menu' = sig')
         /\ sig' \in Menu \cup {None} /\ menu' \in Menu \cup {None}
         /\ menu' \notin {menu, None} => menu' = Shown(p, t) /\ Shown(p, t) # sig
<1> DEFINE m == Shown(p, t)
<1>1. m \in Menu \cup {None}
  BY MenuFacts DEF Shown
<1>2. IF m = sig /\ m # None THEN UNCHANGED <<menu, sig>> ELSE menu' = m /\ sig' = m
  BY DEF SurfaceMenu, Shown
<1> HIDE DEF m
<1>3. CASE m = sig /\ m # None
  BY <1>1, <1>2, <1>3 DEF MirrorInv, ViewInv, MenuIsSig, TypeOK, m
<1>4. CASE m # sig \/ m = None
  <2>1. menu' = m /\ sig' = m
    BY <1>2, <1>4
  <2>2. menu' # None => m # sig
    BY <1>4, <2>1
  <2>3. QED
    BY <1>1, <2>1, <2>2 DEF m
<1>5. QED
  BY <1>3, <1>4

\* What is sent reaches the socket or is dropped.
LEMMA SendFacts ==
  ASSUME TypeOK, NEW reqs \in Seq(Messages), Send(reqs)
  PROVE  toAgent' \in Seq(Messages)
<1>1. toAgent \in Seq(Messages)
  BY DEF TypeOK, Messages
<1>2. toAgent \o reqs \in Seq(Messages)
  BY <1>1
<1>3. QED
  BY <1>1, <1>2 DEF Send

LEMMA RequestFacts ==
  ASSUME NEW p \in Project
  PROVE  /\ \A k \in {"get", "release", "close", "key", "openDesktop", "spawn"} :
              Request(k, p) \in Messages /\ <<Request(k, p)>> \in Seq(Messages)
         /\ <<Request("close", p), Request("release", p)>> \in Seq(Messages)
<1>1. \A k \in {"get", "release", "close", "key", "openDesktop", "spawn"} : Request(k, p) \in Messages
  BY KindFacts DEF Request, Messages
<1>2. \A x \in Messages : <<x>> \in Seq(Messages)
  OBVIOUS
<1>3. \A x, y \in Messages : <<x, y>> \in Seq(Messages)
  OBVIOUS
<1>4. QED
  BY <1>1, <1>2, <1>3

-----------------------------------------------------------------------------
\* The phone opens, closes and answers.
LEMMA OpenFacts ==
  ASSUME MirrorInv, NEW p \in Project, OpenProject(p)
  PROVE  /\ open' = p /\ text' = None /\ had' = FALSE
         /\ menu' \in Menu \cup {None} /\ sig' \in Menu \cup {None}
         /\ toAgent' \in Seq(Messages)
         /\ ViewInv' /\ menu' \in {menu, None}
<1>1. open' = p /\ text' = None /\ had' = FALSE
  BY DEF OpenProject
<1>2. toAgent' \in Seq(Messages)
  BY SendFacts, RequestFacts DEF OpenProject, MirrorInv
<1>3. Shown(p, None) = None /\ p # None
  BY NoneIsNone, MenuFacts DEF Shown
<1>4. /\ sig' = Shown(p, None) /\ (menu' # None => menu' = sig')
      /\ sig' \in Menu \cup {None} /\ menu' \in Menu \cup {None}
  BY SurfaceFacts DEF OpenProject
<1>5. QED
  BY <1>1, <1>2, <1>3, <1>4 DEF ViewInv, SigIsShown, MenuIsSig, TextIsOfOpenProject

LEMMA CloseFacts ==
  ASSUME MirrorInv, NEW reqs \in Seq(Messages), CloseView(reqs)
  PROVE  /\ open' = None /\ UNCHANGED <<text, had, starting>>
         /\ menu' \in Menu \cup {None} /\ sig' \in Menu \cup {None}
         /\ toAgent' \in Seq(Messages)
         /\ ViewInv' /\ menu' \in {menu, None}
<1>1. open' = None /\ UNCHANGED <<text, had, starting>> /\ SurfaceMenu(None, text)
  BY DEF CloseView
<1>2. toAgent' \in Seq(Messages)
  BY SendFacts DEF CloseView, MirrorInv
<1>3. text \in {None} \cup Screens
  BY DEF MirrorInv, TypeOK, Screens
<1>4. /\ sig' = Shown(None, text) /\ (menu' # None => menu' = sig')
      /\ sig' \in Menu \cup {None} /\ menu' \in Menu \cup {None}
  BY <1>1, <1>3, SurfaceFacts
<1>5. QED
  BY <1>1, <1>2, <1>4 DEF ViewInv, SigIsShown, MenuIsSig, TextIsOfOpenProject, Shown

LEMMA SameView ==
  ASSUME MirrorInv, UNCHANGED <<open, text, sig>>, menu' \in {menu, None}
  PROVE  ViewInv' /\ menu' \in Menu \cup {None}
BY DEF MirrorInv, ViewInv, SigIsShown, MenuIsSig, TextIsOfOpenProject, Shown, ParseMenu, TypeOK

LEMMA UserFacts ==
  ASSUME MirrorInv, User
  PROVE  MirrorInv' /\ menu' \in {menu, None}
<1>1. /\ taps' \in 0..MaxTaps
      /\ UNCHANGED <<linked, toPhone, op, running, alive, shows, attached, follows, narrow, events>>
  <2>1. Tap
    BY DEF User, Choose, StartAgent, Back, CloseSession, OpenOnDesktop, Answer, Dismiss
  <2>2. taps < MaxTaps /\ taps' = taps + 1 /\ taps \in 0..MaxTaps
    <3>1. taps \in 0..MaxTaps
      BY DEF MirrorInv, TypeOK
    <3>2. QED
      BY <2>1, <3>1 DEF Tap
  <2>3. QED
    BY <2>1, <2>2, Bounds DEF Tap, tmux
<1>2. ASSUME NEW p \in Project, Choose(p) PROVE MirrorInv' /\ menu' \in {menu, None}
  <2>1. starting' = starting /\ OpenProject(p)
    BY <1>2 DEF Choose
  <2>2. /\ open' = p /\ text' = None /\ had' = FALSE
        /\ menu' \in Menu \cup {None} /\ sig' \in Menu \cup {None}
        /\ toAgent' \in Seq(Messages)
        /\ ViewInv' /\ menu' \in {menu, None}
    BY <2>1, OpenFacts
  <2>3. QED
    BY <1>1, <2>1, <2>2 DEF MirrorInv, TypeOK, Messages
<1>3. ASSUME NEW reqs \in Seq(Messages), CloseView(reqs) PROVE MirrorInv' /\ menu' \in {menu, None}
  <2>1. /\ open' = None /\ UNCHANGED <<text, had, starting>>
        /\ menu' \in Menu \cup {None} /\ sig' \in Menu \cup {None}
        /\ toAgent' \in Seq(Messages)
        /\ ViewInv' /\ menu' \in {menu, None}
    BY <1>3, CloseFacts
  <2>2. QED
    BY <1>1, <2>1 DEF MirrorInv, TypeOK, Messages
<1>4. CASE Back \/ CloseSession
  <2>1. open \in Project
    BY <1>4 DEF Back, CloseSession, MirrorInv, TypeOK
  <2>2. QED
    BY <1>3, <1>4, <2>1, RequestFacts DEF Back, CloseSession
<1>5. ASSUME NEW p \in Project, NEW k \in {"get", "release", "close", "key", "openDesktop", "spawn"},
             Send(<<Request(k, p)>>) \/ toAgent' = toAgent,
             UNCHANGED <<open, text, had, sig>>, starting' \in {starting, p}, menu' \in {menu, None}
      PROVE  MirrorInv' /\ menu' \in {menu, None}
  <2>1. toAgent' \in Seq(Messages)
    BY <1>5, SendFacts, RequestFacts DEF MirrorInv, TypeOK, Messages
  <2>2. ViewInv' /\ menu' \in Menu \cup {None}
    BY <1>5, SameView
  <2>3. QED
    BY <1>1, <1>5, <2>1, <2>2 DEF MirrorInv, TypeOK, Messages
<1>6. ASSUME NEW p \in Project, StartAgent(p) PROVE MirrorInv' /\ menu' \in {menu, None}
  BY <1>5, <1>6 DEF StartAgent
<1>7. CASE OpenOnDesktop \/ Answer \/ Dismiss
  <2>1. open \in Project
    BY <1>7 DEF OpenOnDesktop, Answer, Dismiss, MirrorInv, TypeOK
  <2>2. QED
    BY <1>5, <1>7, <2>1 DEF OpenOnDesktop, Answer, Dismiss, view
<1>8. QED
  BY <1>2, <1>4, <1>6, <1>7 DEF User

LEMMA TimerFacts ==
  ASSUME MirrorInv, StartTimeout \/ Poll
  PROVE  MirrorInv' /\ menu' \in {menu, None}
<1>1. CASE StartTimeout
  <2>1. starting \in Project /\ starting' = None /\ OpenProject(starting)
        /\ UNCHANGED <<linked, toPhone, op, running, alive, shows, attached, follows, narrow, taps, events>>
    BY <1>1 DEF StartTimeout, MirrorInv, TypeOK, tmux
  <2>2. /\ open' = starting /\ text' = None /\ had' = FALSE
        /\ menu' \in Menu \cup {None} /\ sig' \in Menu \cup {None}
        /\ toAgent' \in Seq(Messages)
        /\ ViewInv' /\ menu' \in {menu, None}
    BY <2>1, OpenFacts
  <2>3. QED
    BY <2>1, <2>2 DEF MirrorInv, TypeOK, Messages
<1>2. CASE Poll
  <2>1. open \in Project /\ Send(<<Request("get", open)>>)
        /\ UNCHANGED <<open, text, had, menu, sig, starting>>
        /\ UNCHANGED <<linked, toPhone, op, running, alive, shows, attached, follows, narrow, taps, events>>
    BY <1>2 DEF Poll, view, tmux, MirrorInv, TypeOK
  <2>2. toAgent' \in Seq(Messages)
    BY <2>1, SendFacts, RequestFacts DEF MirrorInv
  <2>3. ViewInv'
    BY <2>1, SameView
  <2>4. QED
    BY <2>1, <2>2, <2>3 DEF MirrorInv, TypeOK, Messages
<1>3. QED
  BY <1>1, <1>2

\* A screen that arrives: of another project, or blank, or what is shown now.
LEMMA ScreenFacts ==
  ASSUME MirrorInv, OnTerminalScreen
  PROVE  /\ MirrorInv'
         /\ menu' \notin {menu, None} => ParseMenu(text') # ParseMenu(text) \/ open' # open
<1> DEFINE f == Head(toPhone)
<1>1. /\ f \in Screens /\ toPhone' \in Seq(Screens)
      /\ UNCHANGED <<linked, toAgent, op, running, alive, shows, attached, follows, narrow, taps, events>>
  <2>1. toPhone \in Seq(Screens) /\ toPhone # <<>> /\ toPhone' = Tail(toPhone)
    BY DEF OnTerminalScreen, MirrorInv, TypeOK, Screens
  <2>2. f \in Screens /\ Tail(toPhone) \in Seq(Screens)
    BY <2>1
  <2>3. QED
    BY <2>1, <2>2 DEF OnTerminalScreen, tmux
<1>2. ASSUME ViewInv', open' \in {open, None}, text' \in {None} \cup Screens, had' \in BOOLEAN,
             menu' \in Menu \cup {None}, sig' \in Menu \cup {None}, starting' = starting
      PROVE  MirrorInv'
  BY <1>1, <1>2 DEF MirrorInv, TypeOK, Screens
<1>3. CASE UNCHANGED view
  <2>1. UNCHANGED <<open, text, had, menu, sig, starting>>
    BY <1>3 DEF view
  <2>2. ViewInv' /\ menu' \in Menu \cup {None}
    BY <2>1, SameView
  <2>3. QED
    BY <1>2, <2>1, <2>2 DEF MirrorInv, TypeOK, Screens
<1>4. CASE /\ OfOpen(f) /\ had' = TRUE /\ text' = f
           /\ SurfaceMenu(open, f) /\ UNCHANGED <<open, starting>>
  <2>1. f # None
    BY <1>1, NoneIsNone DEF Screens, Contents
  <2>2. /\ sig' = Shown(open, f) /\ (menu' # None => menu' = sig')
        /\ sig' \in Menu \cup {None} /\ menu' \in Menu \cup {None}
        /\ menu' \notin {menu, None} => menu' = Shown(open, f) /\ Shown(open, f) # sig
    BY <1>1, <1>4, SurfaceFacts
  <2>3. ViewInv'
    BY <1>4, <2>2 DEF ViewInv, SigIsShown, MenuIsSig, TextIsOfOpenProject, OfOpen
  <2>4. ASSUME menu' \notin {menu, None}, open' = open PROVE ParseMenu(text') # ParseMenu(text)
    <3>1. Shown(open, f) # sig /\ Shown(open, f) # None
      BY <2>2, <2>4
    <3>2. open # None /\ Shown(open, f) = ParseMenu(f)
      BY <3>1 DEF Shown
    <3>3. sig = ParseMenu(text)
      BY <3>2 DEF MirrorInv, ViewInv, SigIsShown, Shown
    <3>4. QED
      BY <1>4, <3>1, <3>2, <3>3
  <2>5. MirrorInv'
    BY <1>1, <1>2, <1>4, <2>2, <2>3
  <2>6. QED
    BY <2>4, <2>5
<1>5. CASE /\ open' = None /\ text' = None
           /\ SurfaceMenu(None, None) /\ UNCHANGED <<had, starting>>
  <2>1. Shown(None, None) = None
    BY DEF Shown
  <2>2. /\ sig' = Shown(None, None) /\ (menu' # None => menu' = sig')
        /\ sig' \in Menu \cup {None} /\ menu' \in Menu \cup {None}
    BY <1>5, SurfaceFacts
  <2>3. ViewInv'
    BY <1>5, <2>1, <2>2 DEF ViewInv, SigIsShown, MenuIsSig, TextIsOfOpenProject
  <2>4. MirrorInv'
    BY <1>2, <1>5, <2>2, <2>3 DEF MirrorInv, TypeOK
  <2>5. QED
    BY <2>1, <2>2, <2>4
<1>6. QED
  BY <1>3, <1>4, <1>5 DEF OnTerminalScreen

-----------------------------------------------------------------------------
\* The agent and the computer do not touch the view.
LEMMA AwayFacts ==
  ASSUME MirrorInv, UNCHANGED view,
         linked' \in BOOLEAN, taps' = taps, events' \in 0..MaxEvents,
         toAgent' \in Seq(Messages), toPhone' \in Seq(Screens), op' \in [Op -> Jobs],
         shows' \in [Project -> Contents],
         {alive', running', attached', follows', narrow'} \subseteq [Project -> BOOLEAN]
  PROVE  MirrorInv'
<1>1. UNCHANGED <<open, text, had, menu, sig, starting>>
  BY DEF view
<1>2. ViewInv'
  BY <1>1, SameView
<1>3. QED
  BY <1>1, <1>2 DEF MirrorInv, TypeOK, Messages, Screens, Jobs

LEMMA PartFacts ==
  ASSUME TypeOK
  PROVE  /\ toAgent \in Seq(Messages) /\ toPhone \in Seq(Screens) /\ op \in [Op -> Jobs]
         /\ alive \in [Project -> BOOLEAN] /\ running \in [Project -> BOOLEAN]
         /\ attached \in [Project -> BOOLEAN] /\ follows \in [Project -> BOOLEAN]
         /\ narrow \in [Project -> BOOLEAN] /\ shows \in [Project -> Contents]
         /\ linked \in BOOLEAN /\ events \in 0..MaxEvents
<1>1. toAgent \in Seq(Messages) /\ toPhone \in Seq(Screens) /\ op \in [Op -> Jobs]
  BY DEF TypeOK, Messages, Screens, Jobs
<1>2. {alive, running, attached, follows, narrow} \subseteq [Project -> BOOLEAN]
  BY DEF TypeOK
<1>3. shows \in [Project -> Contents] /\ linked \in BOOLEAN /\ events \in 0..MaxEvents
  BY DEF TypeOK
<1>4. QED
  BY <1>1, <1>2, <1>3

LEMMA AppendScreen ==
  ASSUME NEW q \in Seq(Screens), NEW x \in Screens
  PROVE  Append(q, x) \in Seq(Screens)
OBVIOUS

LEMMA MessageFacts ==
  ASSUME MirrorInv, OnMessage
  PROVE  MirrorInv'
<1> USE DEF MirrorInv
<1> DEFINE r == Head(toAgent)
<1>1. toAgent' \in Seq(Messages) /\ r \in Messages
      /\ UNCHANGED <<view, linked, shows, attached, follows, narrow, taps, events>>
  <2>1. toAgent \in Seq(Messages) /\ toAgent # <<>> /\ toAgent' = Tail(toAgent)
    BY PartFacts DEF OnMessage
  <2>2. r \in Messages /\ Tail(toAgent) \in Seq(Messages)
    BY <2>1
  <2>3. QED
    BY <2>1, <2>2 DEF OnMessage
<1>2. r.project \in Project /\ r.kind \in DOMAIN FirstStep \cup {"spawn"}
  BY <1>1 DEF Messages
<1>3. /\ alive' \in [Project -> BOOLEAN] /\ running' \in [Project -> BOOLEAN]
      /\ toPhone' \in Seq(Screens) /\ op' \in [Op -> Jobs]
  <2>1. CASE /\ alive' = [alive EXCEPT ![r.project] = TRUE]
             /\ running' = [running EXCEPT ![r.project] = TRUE]
             /\ UNCHANGED <<toPhone, op>>
    BY <2>1, PartFacts
  <2>2. CASE /\ r.kind # "spawn" /\ UNCHANGED <<alive, running, toPhone>>
             /\ \E o \in Op : op' = [op EXCEPT ![o] =
                  [step |-> FirstStep[r.kind], project |-> r.project, here |-> TRUE]]
    <3>1. [step |-> FirstStep[r.kind], project |-> r.project, here |-> TRUE] \in Jobs
      BY <1>2, <2>2, KindFacts DEF Jobs
    <3>2. QED
      BY <2>2, <3>1, PartFacts
  <2>3. CASE /\ UNCHANGED <<alive, running, op>>
             /\ toPhone' \in {toPhone, Append(toPhone, [project |-> r.project, shows |-> "blank"])}
    <3>1. [project |-> r.project, shows |-> "blank"] \in Screens
      BY <1>2 DEF Screens, Contents
    <3>2. Append(toPhone, [project |-> r.project, shows |-> "blank"]) \in Seq(Screens)
      BY <3>1, PartFacts, AppendScreen
    <3>3. QED
      BY <2>3, <3>2, PartFacts
  <2>4. QED
    BY <2>1, <2>2, <2>3 DEF OnMessage
<1>4. QED
  BY <1>1, <1>3, AwayFacts, PartFacts

LEMMA HandlerFacts ==
  ASSUME MirrorInv, NEW o \in Op, Handler(o)
  PROVE  MirrorInv'
<1> USE DEF MirrorInv
<1> DEFINE p == op[o].project
<1>1. p \in Project /\ op[o].here \in BOOLEAN /\ UNCHANGED <<view, running, taps, events>>
  <2>1. op[o] \in Jobs /\ op[o] # Idle
    BY PartFacts DEF Handler
  <2>2. QED
    BY <2>1 DEF Jobs, Handler
<1>2. op' \in [Op -> Jobs]
  <2>1. Idle \in Jobs /\ op \in [Op -> Jobs] /\ op[o] # Idle
    BY PartFacts DEF Jobs, Handler
  <2>2. CASE op' = [op EXCEPT ![o] = Idle] \/ op' = [x \in Op |-> Idle]
    BY <2>1, <2>2
  <2>3. ASSUME NEW s \in Steps, op' = [op EXCEPT ![o].step = s] PROVE op' \in [Op -> Jobs]
    <3>1. op[o] \in [step : Steps, project : Project, here : BOOLEAN]
      BY <2>1 DEF Jobs
    <3>2. [op[o] EXCEPT !.step = s] \in Jobs
      BY <3>1 DEF Jobs
    <3>3. op' = [op EXCEPT ![o] = [op[o] EXCEPT !.step = s]]
      BY <2>1, <2>3
    <3>4. QED
      BY <2>1, <3>2, <3>3
  <2>4. CASE Command(o)
    <3>1. \A s \in {"largest", "manual", "capture", "resize", "snap"} : s \in Steps
      BY DEF Steps
    <3>2. QED
      BY <2>2, <2>3, <2>4, <3>1 DEF Command, ResizeWindow, TerminalScreen, AutoSizeWindow,
                                    OpenInTerminal, KillSession, GoTo, Done
  <2>5. CASE TerminalKey(o)
    BY <2>2, <2>5 DEF TerminalKey, Done
  <2>6. QED
    BY <2>4, <2>5 DEF Handler
<1>3. linked' \in BOOLEAN /\ toAgent' \in Seq(Messages)
  <2>1. linked \in BOOLEAN /\ toAgent \in Seq(Messages) /\ <<>> \in Seq(Messages)
    BY PartFacts
  <2>2. QED
    BY <2>1 DEF Handler, TerminalKey, Disconnected
<1>4. toPhone' \in Seq(Screens)
  <2>1. toPhone \in Seq(Screens) /\ <<>> \in Seq(Screens)
    BY PartFacts
  <2>2. [project |-> p, shows |-> Screen(p)] \in Screens
    BY <1>1, PartFacts DEF Screens, Screen, Contents
  <2>3. Append(toPhone, [project |-> p, shows |-> Screen(p)]) \in Seq(Screens)
    BY <2>1, <2>2, AppendScreen
  <2>4. QED
    BY <2>1, <2>3 DEF Handler, Command, ResizeWindow, TerminalScreen, AutoSizeWindow, OpenInTerminal,
                      KillSession, TerminalKey, GoTo, Done, Disconnected
<1> HIDE DEF p
<1>5. /\ shows' \in [Project -> Contents]
      /\ {alive', attached', follows', narrow'} \subseteq [Project -> BOOLEAN]
  <2>0. /\ alive \in [Project -> BOOLEAN] /\ attached \in [Project -> BOOLEAN]
        /\ follows \in [Project -> BOOLEAN] /\ narrow \in [Project -> BOOLEAN]
        /\ shows \in [Project -> Contents] /\ "plain" \in Contents
    BY PartFacts DEF Contents
  <2>1. CASE UNCHANGED tmux
    BY <2>0, <2>1 DEF tmux
  <2>2. CASE Follow(p)
    BY <1>1, <2>0, <2>2 DEF Follow, Set
  <2>3. CASE Attach(p)
    BY <1>1, <2>0, <2>3 DEF Attach
  <2>4. CASE Gone(p)
    BY <1>1, <2>0, <2>4 DEF Gone
  <2>5. CASE /\ UNCHANGED <<alive, shows, attached>>
             /\ follows' = Set(follows, p, FALSE)
             /\ \/ narrow' = narrow
                \/ narrow' = Set(narrow, p, TRUE)
                \/ narrow' = Set(narrow, p, narrow[p] /\ ~attached[p])
    BY <1>1, <2>0, <2>5 DEF Set
  <2>6. CASE shows' = [shows EXCEPT ![p] = IF @ \in Menu THEN "plain" ELSE @]
             /\ UNCHANGED <<alive, attached, follows, narrow>>
    BY <1>1, <2>0, <2>6
  <2>7. CASE Command(o)
    BY <2>1, <2>2, <2>3, <2>4, <2>5, <2>7 DEF Command, ResizeWindow, TerminalScreen, AutoSizeWindow,
                                              OpenInTerminal, KillSession, p
  <2>8. CASE TerminalKey(o)
    BY <2>6, <2>8 DEF TerminalKey, p
  <2>9. QED
    BY <2>7, <2>8 DEF Handler
<1>6. QED
  BY <1>1, <1>2, <1>3, <1>4, <1>5, AwayFacts, PartFacts

LEMMA ComputerFacts ==
  ASSUME MirrorInv, (\E p \in Project : Computer(p) \/ Replaced(p)) \/ LinkLost \/ LinkBack
  PROVE  MirrorInv'
<1> USE DEF MirrorInv
<1>0. /\ toAgent \in Seq(Messages) /\ toPhone \in Seq(Screens) /\ op \in [Op -> Jobs]
      /\ alive \in [Project -> BOOLEAN] /\ running \in [Project -> BOOLEAN]
      /\ attached \in [Project -> BOOLEAN] /\ follows \in [Project -> BOOLEAN]
      /\ narrow \in [Project -> BOOLEAN] /\ shows \in [Project -> Contents]
      /\ linked \in BOOLEAN /\ events \in 0..MaxEvents /\ "plain" \in Contents
  BY PartFacts DEF Contents
<1>1. events < MaxEvents /\ events' = events + 1 => events' \in 0..MaxEvents
  BY <1>0, Bounds
<1>2. ASSUME NEW p \in Project, Computer(p) PROVE MirrorInv'
  <2>1. events' \in 0..MaxEvents /\ UNCHANGED <<view, linked, toAgent, toPhone, op, taps>>
    BY <1>1, <1>2 DEF Computer, Event
  <2>2. /\ shows' \in [Project -> Contents]
        /\ {alive', running', attached', follows', narrow'} \subseteq [Project -> BOOLEAN]
    <3>1. CASE Attach(p) /\ UNCHANGED running
      BY <1>0, <3>1 DEF Attach
    <3>2. CASE Gone(p) /\ UNCHANGED running
      BY <1>0, <3>2 DEF Gone
    <3>3. CASE attached' = [attached EXCEPT ![p] = FALSE]
               /\ UNCHANGED <<alive, shows, follows, narrow, running>>
      BY <1>0, <3>3
    <3>4. CASE (\E x \in Contents : shows' = [shows EXCEPT ![p] = x])
               /\ UNCHANGED <<alive, attached, follows, narrow, running>>
      BY <1>0, <3>4
    <3>5. CASE running' = [running EXCEPT ![p] = FALSE] /\ UNCHANGED tmux
      BY <1>0, <3>5 DEF tmux
    <3>6. QED
      BY <1>2, <3>1, <3>2, <3>3, <3>4, <3>5 DEF Computer
  <2>3. QED
    BY <1>0, <2>1, <2>2, AwayFacts
<1>3. ASSUME NEW p \in Project, Replaced(p) PROVE MirrorInv'
  BY <1>0, <1>3, AwayFacts DEF Replaced, tmux
<1>4. CASE LinkLost
  <2>1. /\ linked' = FALSE /\ toAgent' = <<>> /\ toPhone' = <<>> /\ events' \in 0..MaxEvents
        /\ UNCHANGED <<view, running, alive, shows, attached, follows, narrow, taps>>
    BY <1>1, <1>4 DEF LinkLost, Disconnected, Event, tmux
  <2>2. <<>> \in Seq(Messages) /\ <<>> \in Seq(Screens)
    OBVIOUS
  <2>3. ASSUME NEW o \in Op PROVE (IF op[o] = Idle THEN Idle ELSE [op[o] EXCEPT !.here = FALSE]) \in Jobs
    <3>1. CASE op[o] = Idle
      BY <3>1 DEF Jobs
    <3>2. CASE op[o] # Idle
      <4>1. op[o] \in [step : Steps, project : Project, here : BOOLEAN]
        BY <1>0, <3>2 DEF Jobs
      <4>2. [op[o] EXCEPT !.here = FALSE] \in Jobs
        BY <4>1 DEF Jobs
      <4>3. QED
        BY <3>2, <4>2
    <3>3. QED
      BY <3>1, <3>2
  <2>4. op' \in [Op -> Jobs]
    BY <1>4, <2>3 DEF LinkLost
  <2>5. QED
    BY <1>0, <2>1, <2>2, <2>4, AwayFacts
<1>5. CASE LinkBack
  BY <1>0, <1>5, AwayFacts DEF LinkBack, tmux
<1>6. QED
  BY <1>2, <1>3, <1>4, <1>5

-----------------------------------------------------------------------------
LEMMA StepFacts ==
  ASSUME MirrorInv, [Next]_vars
  PROVE  /\ MirrorInv'
         /\ menu' \notin {menu, None} => ParseMenu(text') # ParseMenu(text) \/ open' # open
<1>1. CASE User
  BY <1>1, UserFacts
<1>2. CASE StartTimeout \/ Poll
  BY <1>2, TimerFacts
<1>3. CASE OnTerminalScreen
  BY <1>3, ScreenFacts
<1>4. CASE OnMessage
  BY <1>4, MessageFacts DEF OnMessage, view
<1>5. ASSUME NEW o \in Op, Handler(o)
      PROVE  MirrorInv' /\ menu' = menu
  BY <1>5, HandlerFacts DEF Handler, view
<1>6. CASE (\E p \in Project : Computer(p) \/ Replaced(p)) \/ LinkLost \/ LinkBack
  BY <1>6, ComputerFacts DEF Computer, Replaced, LinkLost, LinkBack, Event, view
<1>7. CASE UNCHANGED vars
  <2>1. /\ UNCHANGED <<open, text, had, menu, sig, starting>>
        /\ UNCHANGED <<linked, toAgent, toPhone, op, running, alive, shows, attached, follows, narrow,
                       taps, events>>
    BY <1>7 DEF vars, view, tmux
  <2>2. ViewInv'
    BY <2>1, SameView
  <2>3. QED
    BY <2>1, <2>2 DEF MirrorInv, TypeOK
<1>8. QED
  BY <1>1, <1>2, <1>3, <1>4, <1>5, <1>6, <1>7 DEF Next

LEMMA MirrorInvHolds == Spec => []MirrorInv
<1>1. Init => MirrorInv
  <2> SUFFICES ASSUME Init PROVE MirrorInv
    OBVIOUS
  <2>1. /\ open = None /\ text = None /\ had = FALSE /\ menu = None /\ sig = None
        /\ starting = None /\ linked = TRUE /\ toAgent = <<>> /\ toPhone = <<>>
        /\ op = [o \in Op |-> Idle] /\ taps = 0 /\ events = 0
    BY DEF Init
  <2>2. /\ shows \in [Project -> Contents]
        /\ {alive, running, attached, follows, narrow} \subseteq [Project -> BOOLEAN]
    BY DEF Init, Contents
  <2>3. taps \in 0..MaxTaps /\ events \in 0..MaxEvents
    BY <2>1, Bounds
  <2>4. TypeOK
    <3>1. op \in [Op -> Jobs]
      BY <2>1 DEF Jobs
    <3>2. <<>> \in Seq(Messages) /\ <<>> \in Seq(Screens)
      OBVIOUS
    <3>3. QED
      BY <2>1, <2>2, <2>3, <3>1, <3>2 DEF TypeOK, Messages, Screens, Jobs
  <2>5. ViewInv
    BY <2>1 DEF ViewInv, SigIsShown, MenuIsSig, TextIsOfOpenProject, Shown
  <2>6. QED
    BY <2>4, <2>5 DEF MirrorInv
<1>2. MirrorInv /\ [Next]_vars => MirrorInv'
  BY StepFacts
<1>3. QED
  BY <1>1, <1>2, PTL DEF Spec

\* Every variable of the view, the wire and the tmux side has its type.
THEOREM MirrorTypes == Spec => []TypeOK
<1>1. MirrorInv => TypeOK
  BY DEF MirrorInv
<1>2. QED
  BY <1>1, MirrorInvHolds, PTL

\* However late a screen arrives and whatever was opened meanwhile, the view
\* shows nothing of another project (App.tsx:115-116).
THEOREM TextStaysOfOpenProject == Spec => []TextIsOfOpenProject
<1>1. MirrorInv => TextIsOfOpenProject
  BY DEF MirrorInv, ViewInv
<1>2. QED
  BY <1>1, MirrorInvHolds, PTL

\* The sheet offers the options of the menu in the text it covers.
THEOREM MenuStaysOfText == Spec => []MenuIsOfText
<1>1. MirrorInv => MenuIsOfText
  BY DEF MirrorInv, ViewInv, SigIsShown, MenuIsSig, MenuIsOfText, Shown
<1>2. QED
  BY <1>1, MirrorInvHolds, PTL

\* A menu that was dismissed or answered stays away while the screens that
\* arrive show it still (App.tsx:280).
THEOREM DismissalsHold == Spec => DismissedStaysDismissed
<1>1. MirrorInv /\ [Next]_vars =>
        [menu' \notin {menu, None} => ParseMenu(text') # ParseMenu(text) \/ open' # open]_vars
  BY StepFacts
<1>2. QED
  BY <1>1, MirrorInvHolds, PTL DEF Spec, DismissedStaysDismissed
=============================================================================
