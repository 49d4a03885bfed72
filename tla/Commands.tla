------------------------------ MODULE Commands ------------------------------
(***************************************************************************)
(* Commands to workers: what is spoken or pressed on a phone, understood   *)
(* by the Orchestrator and typed into a pane, the lines of the terminal    *)
(* view, and what the phone is told.  Handlers of ws/server.ts run side by *)
(* side, and a line is two tmux commands: its text, then Enter.            *)
(*                                                                         *)
(* A command stands for its text and for its answer.  ffmpeg, Whisper and  *)
(* Ollama answer in time or fail; the database answers.  A session that is *)
(* gone does not come back, and phones name no target (CatoClient's        *)
(* callers never pass one).                                                *)
(***************************************************************************)
EXTENDS Naturals, FiniteSets

CONSTANTS Phone, Project,
          None,
          Cmd,       \* bound: commands in all
          MaxEvents  \* bound: sessions and rows that go away, links lost

ASSUME NoneIsNone == None \notin Project \cup Cmd
ASSUME Bounds == IsFiniteSet(Project) /\ MaxEvents \in Nat

VARIABLES
  cmd,        \* each command, on the phone or in its handler
  busy,       \* phones that show the spinner
  linked,     \* phones that are connected
  alive,      \* projects whose session exists
  youngest,   \* projects with a running worker, by when it started
  typed,      \* texts in each pane's input line that were not entered
  lines,      \* history: the lines entered
  met,        \* history: the keys that came between a text and its Enter
  cut,        \* history: phones that lost a link
  lastSpoken, \* #lastSpoken
  events

panes == <<alive, typed, lines, met>>
phones == <<busy, linked, cut>>
vars == <<cmd, phones, panes, youngest, lastSpoken, events>>

Unsaid == [st |-> "unsaid"]
Keyed == {"tell", "continue", "stop", "input"}  \* need a worker
Asked == {"ask"}  \* status, projectStatus, summarize, spawnWorker: answered from elsewhere
Does == Keyed \cup Asked \cup {"voice", "repeat", "unknown"}
Active == {"heard", "words", "route", "recall", "think", "text", "enter", "key", "finish"}
New(ph, st, does, p) ==
  [st |-> st, from |-> ph, does |-> does, project |-> p, here |-> TRUE, said |-> "nothing"]

Init ==
  /\ cmd = [c \in Cmd |-> Unsaid]
  /\ busy = {} /\ linked = Phone /\ cut = {}
  /\ alive = Project /\ youngest \in [Project -> 1..Cardinality(Project)]
  /\ \A p, q \in Project : youngest[p] = youngest[q] => p = q
  /\ typed = [p \in Project |-> {}] /\ lines = {} /\ met = [c \in Cmd |-> {}]
  /\ lastSpoken = None /\ events = 0
-----------------------------------------------------------------------------
(* The phone.                                                              *)
Issue(ph, st, does, p) ==
  LET unsaid == {c \in Cmd : cmd[c] = Unsaid} IN
  /\ unsaid # {}
  /\ cmd' = [cmd EXCEPT ![CHOOSE c \in unsaid : TRUE] = New(ph, st, does, p)]

PressOut(ph) ==  \* onPressOut, until the recording is read
  /\ ph \in linked
  /\ Issue(ph, "recorded", "voice", None)
  /\ busy' = busy \cup {ph}
  /\ UNCHANGED <<linked, cut, panes, youngest, lastSpoken, events>>

SendVoice(c) ==  \* a recording that cannot be read, or a client that is gone
  /\ cmd[c].st = "recorded"
  /\ \/ cmd' = [cmd EXCEPT ![c].st = "lost"] /\ busy' = busy \ {cmd[c].from}
     \/ /\ cmd' = [cmd EXCEPT ![c].st = IF cmd[c].from \in linked THEN "heard" ELSE "lost"]
        /\ UNCHANGED busy
  /\ UNCHANGED <<linked, cut, panes, youngest, lastSpoken, events>>

Control(ph) ==  \* the settings' buttons, or a line typed into a terminal view
  /\ ph \in linked
  /\ \/ \E does \in {"continue", "stop", "repeat", "ask"} : Issue(ph, "route", does, None)
     \/ \E p \in Project : Issue(ph, "route", "input", p)
  /\ UNCHANGED <<phones, panes, youngest, lastSpoken, events>>
-----------------------------------------------------------------------------
(* Answers.  A phone that hears anything, or an error, stops its spinner.  *)
AnswerInWords(c, said) ==  \* mutant: an error does not stop the spinner
  /\ cmd' = [cmd EXCEPT ![c].st = "done", ![c].said = said]
  /\ busy' = IF cmd[c].here /\ said # "error" THEN busy \ {cmd[c].from} ELSE busy
  /\ UNCHANGED <<linked, cut>>
Answer(c, said) ==
  /\ cmd' = [cmd EXCEPT ![c].st = "done", ![c].said = said]
  /\ busy' = IF cmd[c].here THEN busy \ {cmd[c].from} ELSE busy
  /\ UNCHANGED <<linked, cut>>

Say(c, said) ==  \* run: what is said is remembered, unless it was a repeat
  /\ Answer(c, said)
  /\ lastSpoken' = IF cmd[c].does = "repeat" THEN lastSpoken ELSE c

Swallow(c) == Say(c, "ok")  \* mutant: tmux's failure is not noticed
Fail(c) ==  \* #route catches, and says so; a terminal line's rejection ends the process
  IF cmd[c].does # "input" THEN Answer(c, "error") /\ UNCHANGED lastSpoken
  ELSE /\ cmd' = [d \in Cmd |-> IF cmd[d].st \in Active THEN [cmd[d] EXCEPT !.st = "lost", !.here = FALSE]
                                ELSE cmd[d]]
       /\ linked' = {} /\ cut' = Phone
       /\ lastSpoken' = None
       /\ UNCHANGED busy
-----------------------------------------------------------------------------
(* The handlers.                                                           *)
Transcript == {"text", "empty", "failed"}  \* of Whisper; ffmpeg fails too
Transcribe(c) ==
  /\ cmd[c].st = "heard"
  /\ \E said \in Transcript :
       IF said = "text" THEN cmd' = [cmd EXCEPT ![c].st = "words"] /\ UNCHANGED phones
       ELSE Answer(c, "error")
  /\ UNCHANGED <<panes, youngest, lastSpoken, events>>

Classified == {"tell", "continue", "stop", "repeat", "unknown"} \cup Asked
Intents == {i \in Classified \X (Project \cup {None}) : i[1] \in Keyed \/ i[2] = None}
Classify(c) ==  \* a failure of the model leaves the intent unknown
  /\ cmd[c].st = "words"
  /\ \E i \in Intents : cmd' = [cmd EXCEPT ![c].st = "route", ![c].does = i[1], ![c].project = i[2]]
  /\ UNCHANGED <<phones, panes, youngest, lastSpoken, events>>

Worker(p) ==  \* runningWorker, if any: of the project, else the youngest of all
  LET found == {q \in Project : youngest[q] > 0 /\ p \in {None, q}} IN
  {q \in found : \A r \in found : youngest[r] <= youngest[q]}

GoTo(c, st) == cmd' = [cmd EXCEPT ![c].st = st] /\ UNCHANGED <<phones, lastSpoken>>

Dispatch(c) ==
  /\ cmd[c].st = "route"
  /\ IF cmd[c].does \in Asked THEN GoTo(c, "think")
     ELSE IF cmd[c].does \notin Keyed THEN Say(c, "ok")
     ELSE \/ \E w \in Worker(cmd[c].project) :
               /\ cmd' = [cmd EXCEPT ![c].project = w,
                                     ![c].st = CASE cmd[c].does = "tell" -> "recall"
                                                 [] cmd[c].does = "stop" -> "key"
                                                 [] OTHER -> "text"]
               /\ UNCHANGED <<phones, lastSpoken>>
          \/ /\ Worker(cmd[c].project) = {}
             /\ IF cmd[c].does = "input" THEN GoTo(c, "done") ELSE Say(c, "no_worker")
  /\ UNCHANGED <<panes, youngest, events>>

Think(c) ==  \* rows, and a model whose failure leaves the canned answer
  /\ cmd[c].st = "think"
  /\ Say(c, "ok")
  /\ UNCHANGED <<panes, youngest, events>>

Retrieve(c) ==  \* what is remembered becomes part of the text
  /\ cmd[c].st = "recall"
  /\ GoTo(c, "text")
  /\ UNCHANGED <<panes, youngest, events>>

(* A key reaches a pane: those whose text awaits its Enter meet it.        *)
Meet(c) == met' = [d \in Cmd |-> IF d # c /\ cmd[d].st = "enter" /\ cmd[d].project = cmd[c].project
                                 THEN met[d] \cup {c} ELSE met[d]]

SendText(c) ==
  /\ typed' = [typed EXCEPT ![cmd[c].project] = @ \cup {c}]
  /\ Meet(c)
  /\ GoTo(c, "enter")
  /\ UNCHANGED lines

EnterAgain(c) ==  \* mutant: the text stays in the input line
  /\ lines' = lines \cup {[project |-> cmd[c].project, texts |-> typed[cmd[c].project]]}
  /\ GoTo(c, IF cmd[c].does = "input" THEN "done" ELSE "finish")
  /\ UNCHANGED <<typed, met>>

SendEnter(c) ==
  LET p == cmd[c].project IN
  /\ lines' = lines \cup {[project |-> p, texts |-> typed[p]]}
  /\ typed' = [typed EXCEPT ![p] = {}]
  /\ Meet(c)
  /\ GoTo(c, IF cmd[c].does = "input" THEN "done" ELSE "finish")

Interrupt(c) ==  \* C-c, which may clear the input line
  /\ typed' \in {typed, [typed EXCEPT ![cmd[c].project] = {}]}
  /\ Meet(c)
  /\ GoTo(c, "finish")
  /\ UNCHANGED lines

Type(c) ==  \* one tmux command, rejected if the session is gone
  /\ cmd[c].st \in {"text", "enter", "key"}
  /\ IF cmd[c].project \notin alive THEN Fail(c) /\ UNCHANGED <<typed, lines, met>>
     ELSE \/ cmd[c].st = "text" /\ SendText(c)
          \/ cmd[c].st = "enter" /\ SendEnter(c)
          \/ cmd[c].st = "key" /\ Interrupt(c)
  /\ UNCHANGED <<alive, youngest, events>>

Finish(c) ==  \* after the task's intent or the event was written
  /\ cmd[c].st = "finish"
  /\ Say(c, "ok")
  /\ UNCHANGED <<panes, youngest, events>>
-----------------------------------------------------------------------------
Event == events < MaxEvents /\ events' = events + 1 /\ UNCHANGED <<lastSpoken, lines, met>>

SessionEnds(p) ==
  /\ Event /\ p \in alive
  /\ alive' = alive \ {p} /\ typed' = [typed EXCEPT ![p] = {}]
  /\ UNCHANGED <<cmd, phones, youngest>>

WorkerStops(p) ==
  /\ Event /\ youngest[p] > 0
  /\ youngest' = [youngest EXCEPT ![p] = 0]
  /\ UNCHANGED <<cmd, phones, alive, typed>>

LinkLost(ph) ==
  /\ Event /\ ph \in linked
  /\ linked' = linked \ {ph} /\ cut' = cut \cup {ph}
  /\ cmd' = [c \in Cmd |-> IF cmd[c].st \in Active /\ cmd[c].from = ph
                           THEN [cmd[c] EXCEPT !.here = FALSE] ELSE cmd[c]]
  /\ UNCHANGED <<busy, alive, typed, youngest>>

LinkBack(ph) ==
  /\ ph \notin linked /\ linked' = linked \cup {ph}
  /\ UNCHANGED <<cmd, busy, cut, panes, youngest, lastSpoken, events>>

Step(c) == SendVoice(c) \/ Transcribe(c) \/ Classify(c) \/ Dispatch(c) \/ Think(c) \/ Retrieve(c)
           \/ Type(c) \/ Finish(c)
Next == \/ \E ph \in Phone : PressOut(ph) \/ Control(ph) \/ LinkLost(ph) \/ LinkBack(ph)
        \/ \E c \in Cmd : Step(c)
        \/ \E p \in Project : SessionEnds(p) \/ WorkerStops(p)

Spec == Init /\ [][Next]_vars
FairSpec == Spec /\ \A c \in Cmd : WF_vars(Step(c))
-----------------------------------------------------------------------------
(* Every variable has its type.                                            *)
States == Active \cup {"recorded", "lost", "done"}
TypeOK ==
  /\ cmd \in [Cmd -> {Unsaid} \cup [st : States, from : Phone, does : Does,
                 project : Project \cup {None}, here : BOOLEAN,
                 said : {"nothing", "ok", "no_worker", "error"}]]
  /\ busy \subseteq Phone /\ linked \subseteq Phone /\ cut \subseteq Phone
  /\ alive \subseteq Project /\ youngest \in [Project -> 0..Cardinality(Project)]
  /\ typed \in [Project -> SUBSET Cmd] /\ met \in [Cmd -> SUBSET Cmd]
  /\ lines \subseteq [project : Project, texts : SUBSET Cmd]
  /\ lastSpoken \in Cmd \cup {None} /\ events \in 0..MaxEvents

(* "Done, I sent X a message" is only said when the text was entered in    *)
(* that project's pane, unless a stop cleared it on its way.               *)
ToldWasEntered ==
  \A c \in Cmd : cmd[c].st = "done" /\ cmd[c].does \in {"tell", "continue"} /\ cmd[c].said = "ok" =>
    \/ \E l \in lines : l.project = cmd[c].project /\ c \in l.texts
    \/ \E d \in met[c] : cmd[d].does = "stop"

(* Texts of two commands become one line only if one was typed while the   *)
(* other's Enter was outstanding, or if the process ended between a text   *)
(* and its Enter: commands that do not overlap never mix.                  *)
MergesAreExplained ==
  \A l \in lines : \A c, d \in l.texts :
    c = d \/ c \in met[d] \/ d \in met[c] \/ "lost" \in {cmd[c].st, cmd[d].st}

(* Nobody waits for ever: every command is answered, with words or an      *)
(* error, unless its link was lost or its answer is nothing, and the       *)
(* spinner of a phone that keeps its link ends.                            *)
EveryCommandIsAnswered ==
  \A c \in Cmd : (cmd[c].st \in Active /\ cmd[c].does # "input")
                 ~> (cmd[c].st \in {"done", "lost"} /\ (cmd[c].said # "nothing" \/ ~cmd[c].here))
BusyEnds == \A ph \in Phone : ph \in busy ~> (ph \notin busy \/ ph \in cut)
NobodyWaitsForEver == EveryCommandIsAnswered /\ BusyEnds
=============================================================================
