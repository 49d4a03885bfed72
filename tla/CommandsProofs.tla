---------------------------- MODULE CommandsProofs ----------------------------
(***************************************************************************)
(* Commands, for any number of phones, projects and commands.  The         *)
(* invariant follows a text from the pane's input line to the line that    *)
(* was entered: whose it is, what it met there, and what became of it when *)
(* its sender says that it was sent.                                       *)
(***************************************************************************)
EXTENDS Commands, TLAPS, FiniteSetTheorems

Records == [st : States, from : Phone, does : Does, project : Project \cup {None}, here : BOOLEAN,
            said : {"nothing", "ok", "no_worker", "error"}]

\* A command whose text or key has reached a pane, or never will.
Past == {"enter", "finish", "done", "lost"}

\* What a command's record says for itself.
Sound(r) ==
  /\ r.st = "key" => r.does = "stop"
  /\ r.st = "think" => r.does \in Asked
  /\ r.st \in {"recall", "text", "enter", "key"} => r.project \in Project

\* It was told to a worker, and that is said or about to be said.
Told(r) == r.does \in {"tell", "continue"}
SaidSo(r) == r.st = "finish" \/ (r.st = "done" /\ r.said = "ok")

Entered(c) == \E l \in lines : l.project = cmd[c].project /\ c \in l.texts
Stopped(c) == \E d \in met[c] : cmd[d].does = "stop"
Explained(S) ==
  \A c, d \in S : c = d \/ c \in met[d] \/ d \in met[c] \/ "lost" \in {cmd[c].st, cmd[d].st}

AllSound == \A c \in Cmd : Sound(cmd[c])
TypedInv == \A p \in Project : /\ p \notin alive => typed[p] = {}
                               /\ \A c \in typed[p] : cmd[c].project = p /\ cmd[c].st \in {"enter", "lost"}
                               /\ Explained(typed[p])
PastInv == /\ \A c \in Cmd : \A d \in met[c] : cmd[d].st \in Past
           /\ \A l \in lines : \A c \in l.texts : cmd[c].st \in Past
FateInv == \A c \in Cmd : Told(cmd[c]) =>
             /\ cmd[c].st = "enter" =>
                  Entered(c) \/ Stopped(c) \/ c \in typed[cmd[c].project] \/ cmd[c].project \notin alive
             /\ SaidSo(cmd[c]) => Entered(c) \/ Stopped(c)
CmdInv == TypeOK /\ AllSound /\ TypedInv /\ PastInv /\ FateInv /\ MergesAreExplained

\* From o to r a command goes on, without saying what did not happen.
Keeps(o, r) == /\ o.st \in Past => r.st \in Past /\ r.does = o.does /\ r.project = o.project
               /\ o.st = "lost" => r.st = "lost"
GoesOn(o, r) == /\ Keeps(o, r) /\ Sound(r)
                /\ r.st = "enter" => o.st = "enter"
                /\ SaidSo(r) /\ Told(r) => SaidSo(o) /\ Told(o)
                /\ o.st = "enter" => r.st \in {"enter", "lost"} \/ o.project \notin alive

-----------------------------------------------------------------------------
LEMMA CmdKinds ==
  ASSUME TypeOK, NEW c \in Cmd
  PROVE  /\ cmd[c] = Unsaid \/ cmd[c] \in Records
         /\ cmd[c].st = "unsaid" <=> cmd[c] = Unsaid
         /\ cmd[c] = Unsaid => cmd[c].st \notin Past
<1>1. cmd[c] = Unsaid \/ cmd[c] \in Records
  BY DEF TypeOK, Records
<1>2. \A r \in Records : r.st # "unsaid"
  BY DEF Records, States, Active
<1>3. QED
  BY <1>1, <1>2 DEF Unsaid, Past

\* Histories only grow, and what is past stays: what was explained, entered
\* or stopped remains so.
LEMMA HistoryFacts ==
  ASSUME TypeOK, PastInv, lines \subseteq lines', \A c \in Cmd : met[c] \subseteq met'[c],
         \A c \in Cmd : Keeps(cmd[c], cmd'[c])
  PROVE  /\ \A S \in SUBSET Cmd : Explained(S) => Explained(S)'
         /\ \A c \in Cmd : Entered(c) => Entered(c)'
         /\ \A c \in Cmd : Stopped(c) => Stopped(c)'
<1>1. \A c \in Cmd : met[c] \subseteq Cmd
  BY DEF TypeOK
<1>2. \A l \in lines : l.texts \subseteq Cmd
  BY DEF TypeOK
<1>3. ASSUME NEW S \in SUBSET Cmd, Explained(S) PROVE Explained(S)'
  BY <1>3 DEF Explained, Keeps
<1>4. ASSUME NEW c \in Cmd, Entered(c) PROVE Entered(c)'
  BY <1>4 DEF Entered, PastInv, Keeps
<1>5. ASSUME NEW c \in Cmd, Stopped(c) PROVE Stopped(c)'
  BY <1>1, <1>5 DEF Stopped, PastInv, Keeps
<1>6. QED
  BY <1>3, <1>4, <1>5

\* Commands go on while the panes stay as they are.
LEMMA GoOnFacts ==
  ASSUME CmdInv, UNCHANGED <<alive, typed, lines, met>>, cmd' \in [Cmd -> {Unsaid} \cup Records],
         \A c \in Cmd : cmd'[c] = cmd[c] \/ GoesOn(cmd[c], cmd'[c])
  PROVE  AllSound' /\ TypedInv' /\ PastInv' /\ FateInv' /\ MergesAreExplained'
<1> USE DEF CmdInv
<1>1. \A c \in Cmd : Keeps(cmd[c], cmd'[c])
  BY DEF GoesOn, Keeps
<1>2. /\ \A S \in SUBSET Cmd : Explained(S) => Explained(S)'
      /\ \A c \in Cmd : Entered(c) => Entered(c)'
      /\ \A c \in Cmd : Stopped(c) => Stopped(c)'
  BY <1>1, HistoryFacts
<1>3. AllSound'
  BY DEF AllSound, GoesOn
<1>4. TypedInv'
  <2>1. ASSUME NEW p \in Project, NEW c \in typed[p]
        PROVE  cmd'[c].project = p /\ cmd'[c].st \in {"enter", "lost"}
    <3>1. c \in Cmd /\ cmd[c].project = p /\ cmd[c].st \in {"enter", "lost"} /\ p \in alive
      BY DEF TypedInv, TypeOK
    <3>2. cmd'[c] = cmd[c] \/ GoesOn(cmd[c], cmd'[c])
      BY <3>1
    <3>3. QED
      BY <3>1, <3>2 DEF GoesOn, Keeps, Past
  <2>2. \A p \in Project : typed[p] \in SUBSET Cmd
    BY DEF TypeOK
  <2>3. QED
    BY <1>2, <2>1, <2>2 DEF TypedInv
<1>5. PastInv'
  <2>1. ASSUME NEW c \in Cmd, NEW d \in met[c] PROVE cmd'[d].st \in Past
    BY <1>1 DEF PastInv, Keeps, TypeOK
  <2>2. ASSUME NEW l \in lines, NEW c \in l.texts PROVE cmd'[c].st \in Past
    BY <1>1 DEF PastInv, Keeps, TypeOK
  <2>3. QED
    BY <2>1, <2>2 DEF PastInv
<1>6. FateInv'
  <2>1. ASSUME NEW c \in Cmd, Told(cmd'[c])
        PROVE  /\ cmd'[c].st = "enter" =>
                    Entered(c)' \/ Stopped(c)' \/ c \in typed[cmd'[c].project] \/ cmd'[c].project \notin alive
               /\ SaidSo(cmd'[c]) => Entered(c)' \/ Stopped(c)'
    <3>1. CASE cmd'[c] = cmd[c]
      BY <1>2, <2>1, <3>1 DEF FateInv
    <3>2. CASE GoesOn(cmd[c], cmd'[c])
      <4>1. ASSUME cmd'[c].st = "enter"
            PROVE  Entered(c)' \/ Stopped(c)' \/ c \in typed[cmd'[c].project] \/ cmd'[c].project \notin alive
        <5>1. cmd[c].st = "enter" /\ cmd'[c].project = cmd[c].project /\ Told(cmd[c])
          BY <2>1, <3>2, <4>1 DEF GoesOn, Keeps, Past, Told
        <5>2. QED
          BY <1>2, <5>1 DEF FateInv
      <4>2. SaidSo(cmd'[c]) => Entered(c)' \/ Stopped(c)'
        BY <1>2, <2>1, <3>2 DEF GoesOn, FateInv
      <4>3. QED
        BY <4>1, <4>2
    <3>3. QED
      BY <3>1, <3>2
  <2>2. QED
    BY <2>1 DEF FateInv
<1>7. MergesAreExplained'
  <2>1. MergesAreExplained <=> \A l \in lines : Explained(l.texts)
    BY DEF MergesAreExplained, Explained
  <2>2. MergesAreExplained' <=> \A l \in lines : Explained(l.texts)'
    BY DEF MergesAreExplained, Explained
  <2>3. \A l \in lines : l.texts \in SUBSET Cmd
    BY DEF TypeOK
  <2>4. QED
    BY <1>2, <2>1, <2>2, <2>3
<1>8. QED
  BY <1>3, <1>4, <1>5, <1>6, <1>7

-----------------------------------------------------------------------------
\* One command is replaced by a record that goes on from it.
LEMMA OneFacts ==
  ASSUME CmdInv, NEW c \in Cmd, NEW r \in Records, GoesOn(cmd[c], r), cmd' = [cmd EXCEPT ![c] = r],
         UNCHANGED <<alive, typed, lines, met>>
  PROVE  /\ cmd' \in [Cmd -> {Unsaid} \cup Records]
         /\ AllSound' /\ TypedInv' /\ PastInv' /\ FateInv' /\ MergesAreExplained'
<1>1. cmd \in [Cmd -> {Unsaid} \cup Records]
  BY DEF CmdInv, TypeOK, Records
<1>2. /\ cmd' \in [Cmd -> {Unsaid} \cup Records] /\ cmd'[c] = r
      /\ \A d \in Cmd \ {c} : cmd'[d] = cmd[d]
  BY <1>1
<1>3. QED
  BY <1>2, GoOnFacts

\* A record moves to another state, or is answered.
LEMMA RecordFacts ==
  ASSUME NEW o \in Records, NEW st \in States, NEW said \in {"nothing", "ok", "no_worker", "error"}
  PROVE  /\ [o EXCEPT !.st = st] \in Records
         /\ [o EXCEPT !.st = st].st = st /\ [o EXCEPT !.st = st].does = o.does
         /\ [o EXCEPT !.st = st].project = o.project /\ [o EXCEPT !.st = st].said = o.said
         /\ [[o EXCEPT !.st = st] EXCEPT !.said = said] \in Records
         /\ [[o EXCEPT !.st = st] EXCEPT !.said = said].st = st
         /\ [[o EXCEPT !.st = st] EXCEPT !.said = said].does = o.does
         /\ [[o EXCEPT !.st = st] EXCEPT !.said = said].project = o.project
         /\ [[o EXCEPT !.st = st] EXCEPT !.said = said].said = said
BY DEF Records

LEMMA EveryState ==
  {"recorded", "lost", "done", "heard", "words", "route", "recall", "think", "text", "enter", "key", "finish"}
    \subseteq States
BY DEF States, Active

\* The rest of the state, which these steps keep in its type.
OthersOK ==
  /\ busy \subseteq Phone /\ linked \subseteq Phone /\ cut \subseteq Phone
  /\ alive \subseteq Project /\ youngest \in [Project -> 0..Cardinality(Project)]
  /\ typed \in [Project -> SUBSET Cmd] /\ met \in [Cmd -> SUBSET Cmd]
  /\ lines \subseteq [project : Project, texts : SUBSET Cmd]
  /\ lastSpoken \in Cmd \cup {None} /\ events \in 0..MaxEvents
LEMMA TypeParts == TypeOK <=> OthersOK /\ cmd \in [Cmd -> {Unsaid} \cup Records]
BY DEF TypeOK, OthersOK, Records

LEMMA MoveFacts ==
  ASSUME CmdInv, NEW c \in Cmd, cmd[c] # Unsaid, NEW st \in States, cmd' = [cmd EXCEPT ![c].st = st],
         \A r \in Records : r.st = st /\ r.does = cmd[c].does /\ r.project = cmd[c].project
                            /\ r.said = cmd[c].said => GoesOn(cmd[c], r),
         UNCHANGED <<alive, typed, lines, met>>
  PROVE  /\ cmd' \in [Cmd -> {Unsaid} \cup Records]
         /\ AllSound' /\ TypedInv' /\ PastInv' /\ FateInv' /\ MergesAreExplained'
<1>1. cmd[c] \in Records
  BY CmdKinds DEF CmdInv
<1> DEFINE r == [cmd[c] EXCEPT !.st = st]
<1>2. /\ r \in Records /\ r.st = st /\ r.does = cmd[c].does /\ r.project = cmd[c].project
      /\ r.said = cmd[c].said
  BY <1>1, RecordFacts
<1>3. cmd' = [cmd EXCEPT ![c] = r]
  OBVIOUS
<1> HIDE DEF r
<1>4. GoesOn(cmd[c], r)
  BY <1>2
<1>5. QED
  BY <1>2, <1>3, <1>4, OneFacts

LEMMA AnswerFacts ==
  ASSUME CmdInv, NEW c \in Cmd, cmd[c] # Unsaid, NEW said \in {"ok", "no_worker", "error"}, Answer(c, said),
         cmd[c].st # "lost",
         said = "ok" /\ Told(cmd[c]) => SaidSo(cmd[c]),
         cmd[c].st = "enter" => cmd[c].project \notin alive,
         UNCHANGED <<alive, typed, lines, met>>
  PROVE  /\ cmd' \in [Cmd -> {Unsaid} \cup Records]
         /\ busy' \subseteq Phone /\ UNCHANGED <<linked, cut>>
         /\ AllSound' /\ TypedInv' /\ PastInv' /\ FateInv' /\ MergesAreExplained'
<1>1. cmd[c] \in Records
  BY CmdKinds DEF CmdInv
<1> DEFINE r == [[cmd[c] EXCEPT !.st = "done"] EXCEPT !.said = said]
<1>2. /\ r \in Records /\ r.st = "done" /\ r.does = cmd[c].does /\ r.project = cmd[c].project
      /\ r.said = said
  <2>1. "done" \in States /\ said \in {"nothing", "ok", "no_worker", "error"}
    BY EveryState
  <2>2. QED
    BY <1>1, <2>1 DEF Records
<1>3. cmd' = [cmd EXCEPT ![c] = r]
  BY DEF Answer, CmdInv, TypeOK
<1> HIDE DEF r
<1>4. GoesOn(cmd[c], r)
  BY <1>2 DEF GoesOn, Keeps, Sound, SaidSo, Told, Past
<1>5. /\ cmd' \in [Cmd -> {Unsaid} \cup Records]
      /\ AllSound' /\ TypedInv' /\ PastInv' /\ FateInv' /\ MergesAreExplained'
  BY <1>2, <1>3, <1>4, OneFacts
<1>6. busy' \subseteq Phone /\ UNCHANGED <<linked, cut>>
  BY DEF Answer, CmdInv, TypeOK
<1>7. QED
  BY <1>5, <1>6

-----------------------------------------------------------------------------
\* The phone speaks, and what it said is understood.
LEMMA IssueFacts ==
  ASSUME CmdInv, NEW ph \in Phone, NEW st \in {"recorded", "route"}, NEW does \in Does,
         NEW p \in Project \cup {None}, Issue(ph, st, does, p), UNCHANGED <<alive, typed, lines, met>>
  PROVE  /\ cmd' \in [Cmd -> {Unsaid} \cup Records]
         /\ AllSound' /\ TypedInv' /\ PastInv' /\ FateInv' /\ MergesAreExplained'
<1>1. PICK c \in Cmd : cmd[c] = Unsaid /\ cmd' = [cmd EXCEPT ![c] = New(ph, st, does, p)]
  BY DEF Issue
<1> DEFINE r == New(ph, st, does, p)
<1>2. r \in Records /\ r.st = st
  BY EveryState DEF New, Records
<1>3. cmd[c].st = "unsaid"
  BY <1>1 DEF Unsaid
<1>4. cmd' = [cmd EXCEPT ![c] = r]
  BY <1>1
<1> HIDE DEF r
<1>5. GoesOn(cmd[c], r)
  BY <1>2, <1>3 DEF GoesOn, Keeps, Sound, SaidSo, Past
<1>6. QED
  BY <1>2, <1>4, <1>5, OneFacts

LEMMA PhoneFacts ==
  ASSUME CmdInv, NEW ph \in Phone, PressOut(ph) \/ Control(ph)
  PROVE  CmdInv'
<1>1. /\ UNCHANGED <<linked, cut, alive, typed, lines, met, youngest, lastSpoken, events>>
      /\ busy' \subseteq Phone
  BY DEF PressOut, Control, phones, panes, CmdInv, TypeOK
<1>2. \E st \in {"recorded", "route"}, does \in Does, p \in Project \cup {None} : Issue(ph, st, does, p)
  <2>1. "voice" \in Does /\ \A does \in {"continue", "stop", "repeat", "ask", "input"} : does \in Does
    BY DEF Does, Keyed, Asked
  <2>2. QED
    BY <2>1 DEF PressOut, Control
<1>3. /\ cmd' \in [Cmd -> {Unsaid} \cup Records]
      /\ AllSound' /\ TypedInv' /\ PastInv' /\ FateInv' /\ MergesAreExplained'
  BY <1>1, <1>2, IssueFacts
<1>4. OthersOK'
  BY <1>1, TypeParts DEF OthersOK, CmdInv
<1>5. TypeOK'
  BY <1>3, <1>4 DEF TypeOK, OthersOK, Records
<1>6. QED
  BY <1>3, <1>5 DEF CmdInv

\* A handler that answers or goes on, while the panes stay as they are.
LEMMA KeptFacts ==
  ASSUME CmdInv,
         cmd' \in [Cmd -> {Unsaid} \cup Records],
         AllSound', TypedInv', PastInv', FateInv', MergesAreExplained',
         busy' \subseteq Phone, linked' \subseteq Phone, cut' \subseteq Phone,
         UNCHANGED <<alive, typed, lines, met, youngest, events>>,
         lastSpoken' \in Cmd \cup {None}
  PROVE  CmdInv'
<1>1. OthersOK'
  BY TypeParts DEF OthersOK, CmdInv
<1>2. TypeOK'
  BY <1>1 DEF TypeOK, OthersOK, Records
<1>3. QED
  BY <1>2 DEF CmdInv

LEMMA SayFacts ==
  ASSUME CmdInv, NEW c \in Cmd, cmd[c] # Unsaid, NEW said \in {"ok", "no_worker", "error"},
         Answer(c, said), lastSpoken' \in {lastSpoken, c},
         cmd[c].st # "lost",
         said = "ok" /\ Told(cmd[c]) => SaidSo(cmd[c]),
         cmd[c].st = "enter" => cmd[c].project \notin alive,
         UNCHANGED <<alive, typed, lines, met, youngest, events>>
  PROVE  CmdInv'
<1>1. /\ cmd' \in [Cmd -> {Unsaid} \cup Records]
      /\ busy' \subseteq Phone /\ UNCHANGED <<linked, cut>>
      /\ AllSound' /\ TypedInv' /\ PastInv' /\ FateInv' /\ MergesAreExplained'
  BY AnswerFacts
<1>2. lastSpoken' \in Cmd \cup {None} /\ linked \subseteq Phone /\ cut \subseteq Phone
  BY DEF CmdInv, TypeOK
<1>3. QED
  BY <1>1, <1>2, KeptFacts

LEMMA GoFacts ==
  ASSUME CmdInv, NEW c \in Cmd, NEW st \in States, cmd' = [cmd EXCEPT ![c].st = st],
         cmd[c].st \in {"recorded", "heard", "words", "route", "recall"},
         /\ st \in {"heard", "words", "lost", "think", "text"} \/ (st = "done" /\ cmd[c].does = "input")
         /\ st = "think" => cmd[c].does \in Asked
         /\ st = "text" => cmd[c].st = "recall",
         busy' \subseteq Phone,
         UNCHANGED <<linked, cut, alive, typed, lines, met, youngest, events, lastSpoken>>
  PROVE  CmdInv'
<1>1. cmd[c] # Unsaid
  BY DEF Unsaid
<1>2. cmd[c].st = "recall" => cmd[c].project \in Project
  BY DEF CmdInv, AllSound, Sound
<1>3. \A r \in Records : r.st = st /\ r.does = cmd[c].does /\ r.project = cmd[c].project
                         /\ r.said = cmd[c].said => GoesOn(cmd[c], r)
  BY <1>2 DEF GoesOn, Keeps, Sound, SaidSo, Told, Past
<1>4. /\ cmd' \in [Cmd -> {Unsaid} \cup Records]
      /\ AllSound' /\ TypedInv' /\ PastInv' /\ FateInv' /\ MergesAreExplained'
  BY <1>1, <1>3, MoveFacts
<1>5. linked' \subseteq Phone /\ cut' \subseteq Phone /\ lastSpoken' \in Cmd \cup {None}
  BY DEF CmdInv, TypeOK
<1>6. QED
  BY <1>4, <1>5, KeptFacts

LEMMA UnderstandFacts ==
  ASSUME CmdInv, NEW c \in Cmd, SendVoice(c) \/ Transcribe(c) \/ Classify(c)
  PROVE  CmdInv'
<1>1. CASE SendVoice(c)
  <2>1. PICK st \in {"lost", "heard"} : cmd' = [cmd EXCEPT ![c].st = st]
    BY <1>1 DEF SendVoice
  <2>2. st \in States /\ busy' \subseteq Phone
    BY <1>1, EveryState DEF SendVoice, CmdInv, TypeOK
  <2>3. cmd[c].st = "recorded"
        /\ UNCHANGED <<linked, cut, alive, typed, lines, met, youngest, events, lastSpoken>>
    BY <1>1 DEF SendVoice, panes
  <2>4. QED
    BY <2>1, <2>2, <2>3, GoFacts
<1>2. CASE Transcribe(c)
  <2>1. cmd[c].st = "heard" /\ cmd[c] # Unsaid
        /\ UNCHANGED <<alive, typed, lines, met, youngest, lastSpoken, events>>
    BY <1>2 DEF Transcribe, panes, Unsaid
  <2>2. CASE cmd' = [cmd EXCEPT ![c].st = "words"] /\ UNCHANGED phones
    BY <2>1, <2>2, EveryState, GoFacts DEF phones, CmdInv, TypeOK
  <2>3. CASE Answer(c, "error")
    BY <2>1, <2>3, SayFacts
  <2>4. QED
    BY <1>2, <2>2, <2>3 DEF Transcribe
<1>3. CASE Classify(c)
  <2>1. PICK i \in Intents :
          cmd' = [cmd EXCEPT ![c].st = "route", ![c].does = i[1], ![c].project = i[2]]
    BY <1>3 DEF Classify
  <2>2. cmd[c].st = "words" /\ i[1] \in Does /\ i[2] \in Project \cup {None}
        /\ UNCHANGED <<busy, linked, cut, alive, typed, lines, met, youngest, lastSpoken, events>>
    <3>1. cmd[c].st = "words"
          /\ UNCHANGED <<busy, linked, cut, alive, typed, lines, met, youngest, lastSpoken, events>>
      BY <1>3 DEF Classify, phones, panes
    <3>2. i \in Classified \X (Project \cup {None})
      BY DEF Intents
    <3>3. i[1] \in Classified /\ i[2] \in Project \cup {None}
      BY <3>2
    <3>4. Classified \subseteq Does
      BY DEF Classified, Does, Keyed, Asked
    <3>5. QED
      BY <3>1, <3>3, <3>4
  <2>3. cmd[c] \in Records
    BY <2>2, CmdKinds DEF CmdInv, Unsaid
  <2> DEFINE r == [[[cmd[c] EXCEPT !.st = "route"] EXCEPT !.does = i[1]] EXCEPT !.project = i[2]]
  <2>4. r \in Records /\ r.st = "route"
    BY <2>2, <2>3, EveryState DEF Records
  <2>5. cmd' = [cmd EXCEPT ![c] = r]
    BY <2>1 DEF CmdInv, TypeOK
  <2> HIDE DEF r
  <2>6. GoesOn(cmd[c], r)
    BY <2>2, <2>4 DEF GoesOn, Keeps, Sound, SaidSo, Past
  <2>7. /\ cmd' \in [Cmd -> {Unsaid} \cup Records]
        /\ AllSound' /\ TypedInv' /\ PastInv' /\ FateInv' /\ MergesAreExplained'
    BY <2>2, <2>4, <2>5, <2>6, OneFacts
  <2>8. QED
    BY <2>2, <2>7, KeptFacts DEF CmdInv, TypeOK
<1>4. QED
  BY <1>1, <1>2, <1>3

LEMMA DispatchFacts ==
  ASSUME CmdInv, NEW c \in Cmd, Dispatch(c)
  PROVE  CmdInv'
<1>1. cmd[c].st = "route" /\ cmd[c] # Unsaid
      /\ UNCHANGED <<alive, typed, lines, met, youngest, events>>
  BY DEF Dispatch, panes, Unsaid
<1>2. ASSUME NEW st \in {"think", "done"}, GoTo(c, st), st = "think" => cmd[c].does \in Asked,
             st = "done" => cmd[c].does = "input"
      PROVE  CmdInv'
  <2>1. cmd' = [cmd EXCEPT ![c].st = st] /\ UNCHANGED <<busy, linked, cut, lastSpoken>> /\ st \in States
    BY <1>2, EveryState DEF GoTo, phones
  <2>2. busy' \subseteq Phone
    BY <2>1 DEF CmdInv, TypeOK
  <2>3. QED
    BY <1>1, <1>2, <2>1, <2>2, GoFacts
<1>3. ASSUME NEW said \in {"ok", "no_worker"}, Say(c, said), said = "ok" => cmd[c].does \notin Keyed
      PROVE  CmdInv'
  <2>1. Answer(c, said) /\ lastSpoken' \in {lastSpoken, c}
    BY <1>3 DEF Say
  <2>2. said = "ok" => ~Told(cmd[c])
    BY <1>3 DEF Told, Keyed
  <2>3. QED
    BY <1>1, <1>3, <2>1, <2>2, SayFacts
<1>4. ASSUME NEW w \in Project, NEW st \in {"recall", "key", "text"},
             cmd' = [cmd EXCEPT ![c].project = w, ![c].st = st], UNCHANGED <<busy, linked, cut, lastSpoken>>,
             st = "key" => cmd[c].does = "stop"
      PROVE  CmdInv'
  <2>1. cmd[c] \in Records
    BY <1>1, CmdKinds DEF CmdInv
  <2> DEFINE r == [[cmd[c] EXCEPT !.project = w] EXCEPT !.st = st]
  <2>2. r \in Records /\ r.st = st /\ r.does = cmd[c].does /\ r.project = w
    BY <2>1, EveryState DEF Records
  <2>3. cmd' = [cmd EXCEPT ![c] = r]
    BY <1>4 DEF CmdInv, TypeOK
  <2> HIDE DEF r
  <2>4. GoesOn(cmd[c], r)
    BY <1>1, <1>4, <2>2 DEF GoesOn, Keeps, Sound, SaidSo, Past
  <2>5. /\ cmd' \in [Cmd -> {Unsaid} \cup Records]
        /\ AllSound' /\ TypedInv' /\ PastInv' /\ FateInv' /\ MergesAreExplained'
    BY <1>1, <2>2, <2>3, <2>4, OneFacts
  <2>6. QED
    BY <1>1, <1>4, <2>5, KeptFacts DEF CmdInv, TypeOK
<1>5. CASE cmd[c].does \in Asked
  BY <1>2, <1>5 DEF Dispatch
<1>6. CASE cmd[c].does \notin Asked /\ cmd[c].does \notin Keyed
  BY <1>3, <1>6 DEF Dispatch
<1>7. CASE cmd[c].does \notin Asked /\ cmd[c].does \in Keyed
  <2>1. CASE Worker(cmd[c].project) = {} /\ cmd[c].does = "input" /\ GoTo(c, "done")
    BY <1>2, <2>1
  <2>2. CASE Say(c, "no_worker")
    BY <1>3, <2>2
  <2>3. ASSUME NEW w \in Worker(cmd[c].project), UNCHANGED <<phones, lastSpoken>>,
               cmd' = [cmd EXCEPT ![c].project = w,
                                  ![c].st = CASE cmd[c].does = "tell" -> "recall"
                                              [] cmd[c].does = "stop" -> "key"
                                              [] OTHER -> "text"]
        PROVE  CmdInv'
    <3> DEFINE st == CASE cmd[c].does = "tell" -> "recall"
                       [] cmd[c].does = "stop" -> "key"
                       [] OTHER -> "text"
    <3>1. st \in {"recall", "key", "text"} /\ (st = "key" => cmd[c].does = "stop")
      OBVIOUS
    <3>2. w \in Project
      BY DEF Worker
    <3>3. cmd' = [cmd EXCEPT ![c].project = w, ![c].st = st] /\ UNCHANGED <<busy, linked, cut, lastSpoken>>
      BY <2>3 DEF phones
    <3> HIDE DEF st
    <3>4. QED
      BY <1>4, <3>1, <3>2, <3>3
  <2>4. QED
    BY <1>7, <2>1, <2>2, <2>3 DEF Dispatch
<1>8. QED
  BY <1>5, <1>6, <1>7

LEMMA ThoughtFacts ==
  ASSUME CmdInv, NEW c \in Cmd, Think(c) \/ Retrieve(c) \/ Finish(c)
  PROVE  CmdInv'
<1>1. CASE Think(c) \/ Finish(c)
  <2>1. /\ cmd[c].st \in {"think", "finish"} /\ cmd[c] # Unsaid
        /\ Answer(c, "ok") /\ lastSpoken' \in {lastSpoken, c}
        /\ UNCHANGED <<alive, typed, lines, met, youngest, events>>
    BY <1>1 DEF Think, Finish, Say, panes, Unsaid
  <2>2. Told(cmd[c]) => SaidSo(cmd[c])
    BY <2>1 DEF CmdInv, AllSound, Sound, Asked, Told, SaidSo
  <2>3. QED
    BY <2>1, <2>2, SayFacts
<1>2. CASE Retrieve(c)
  <2>1. /\ cmd[c].st = "recall" /\ cmd' = [cmd EXCEPT ![c].st = "text"]
        /\ UNCHANGED <<busy, linked, cut, alive, typed, lines, met, youngest, events, lastSpoken>>
    BY <1>2 DEF Retrieve, GoTo, phones, panes
  <2>2. "text" \in States /\ busy' \subseteq Phone
    BY <2>1, EveryState DEF CmdInv, TypeOK
  <2>3. QED
    BY <2>1, <2>2, GoFacts
<1>3. QED
  BY <1>1, <1>2

-----------------------------------------------------------------------------
\* A key reaches a pane.
LEMMA MeetFacts ==
  ASSUME CmdInv, NEW c \in Cmd, cmd[c].st \notin {"done"}, Meet(c)
  PROVE  /\ met' \in [Cmd -> SUBSET Cmd]
         /\ \A d \in Cmd : met[d] \subseteq met'[d] /\ met'[d] \subseteq met[d] \cup {c}
         /\ \A d \in Cmd : d # c /\ cmd[d].st = "enter" /\ cmd[d].project = cmd[c].project => c \in met'[d]
         /\ \A d \in Cmd : c \in met'[d] \ met[d] => d # c
<1>1. met \in [Cmd -> SUBSET Cmd]
  BY DEF CmdInv, TypeOK
<1>2. met' = [d \in Cmd |-> IF d # c /\ cmd[d].st = "enter" /\ cmd[d].project = cmd[c].project
                            THEN met[d] \cup {c} ELSE met[d]]
  BY DEF Meet
<1>3. \A d \in Cmd : met'[d] = IF d # c /\ cmd[d].st = "enter" /\ cmd[d].project = cmd[c].project
                               THEN met[d] \cup {c} ELSE met[d]
  BY <1>2
<1>4. QED
  BY <1>1, <1>2, <1>3

\* A key moves its command from before a pane to after it.
LEMMA KeyFacts ==
  ASSUME CmdInv, NEW c \in Cmd, cmd[c].st \in {"text", "enter", "key"},
         NEW st \in {"enter", "finish", "done"}, GoTo(c, st), Meet(c),
         st = "done" => cmd[c].does = "input",
         lines \subseteq lines', UNCHANGED <<alive, youngest, events>>
  PROVE  /\ cmd' \in [Cmd -> {Unsaid} \cup Records] /\ met' \in [Cmd -> SUBSET Cmd]
         /\ cmd[c].project \in Project
         /\ cmd'[c].st = st /\ cmd'[c].does = cmd[c].does /\ cmd'[c].project = cmd[c].project
         /\ cmd'[c].said = cmd[c].said
         /\ \A d \in Cmd \ {c} : cmd'[d] = cmd[d]
         /\ \A d \in Cmd : Keeps(cmd[d], cmd'[d])
         /\ \A S \in SUBSET Cmd : Explained(S) => Explained(S)'
         /\ \A d \in Cmd : (Entered(d) => Entered(d)') /\ (Stopped(d) => Stopped(d)')
         /\ \A d \in Cmd : \A e \in met'[d] : cmd'[e].st \in Past
         /\ AllSound'
         /\ UNCHANGED <<busy, linked, cut, lastSpoken>>
<1>1. cmd[c] \in Records /\ cmd[c] # Unsaid
  BY CmdKinds DEF CmdInv, Unsaid
<1> DEFINE r == [cmd[c] EXCEPT !.st = st]
<1>2. /\ r \in Records /\ r.st = st /\ r.does = cmd[c].does /\ r.project = cmd[c].project
      /\ r.said = cmd[c].said
  BY <1>1, EveryState DEF Records
<1>3. cmd' = [cmd EXCEPT ![c] = r] /\ UNCHANGED <<busy, linked, cut, lastSpoken>>
  BY DEF GoTo, phones
<1> HIDE DEF r
<1>4. cmd \in [Cmd -> {Unsaid} \cup Records]
  BY TypeParts DEF CmdInv
<1>5. /\ cmd' \in [Cmd -> {Unsaid} \cup Records] /\ cmd'[c] = r
      /\ \A d \in Cmd \ {c} : cmd'[d] = cmd[d]
  BY <1>2, <1>3, <1>4
<1>6. Keeps(cmd[c], r) /\ st \in Past /\ cmd[c].project \in Project
  BY <1>2 DEF Keeps, Past, CmdInv, AllSound, Sound
<1>7. \A d \in Cmd : Keeps(cmd[d], cmd'[d])
  BY <1>5, <1>6 DEF Keeps
<1>8. /\ met' \in [Cmd -> SUBSET Cmd]
      /\ \A d \in Cmd : met[d] \subseteq met'[d] /\ met'[d] \subseteq met[d] \cup {c}
  BY MeetFacts
<1>9. /\ \A S \in SUBSET Cmd : Explained(S) => Explained(S)'
      /\ \A d \in Cmd : (Entered(d) => Entered(d)') /\ (Stopped(d) => Stopped(d)')
  BY <1>7, <1>8, HistoryFacts DEF CmdInv
<1>10. ASSUME NEW d \in Cmd, NEW e \in met'[d] PROVE cmd'[e].st \in Past
  <2>1. CASE e = c
    BY <1>2, <1>5, <1>6, <2>1
  <2>2. CASE e # c
    <3>1. e \in met[d] /\ e \in Cmd
      BY <1>8, <2>2
    <3>2. QED
      BY <1>7, <3>1 DEF CmdInv, PastInv, Keeps
  <2>3. QED
    BY <2>1, <2>2
<1>11. AllSound'
  <2>1. Sound(r)
    BY <1>2, <1>6 DEF Sound
  <2>2. QED
    BY <1>5, <2>1 DEF CmdInv, AllSound
<1>12. QED
  BY <1>2, <1>5, <1>6, <1>7, <1>8, <1>9, <1>10, <1>11, <1>3

\* The parts, once the input lines and what was entered are known.
LEMMA PaneFacts ==
  ASSUME CmdInv, cmd' \in [Cmd -> {Unsaid} \cup Records], met' \in [Cmd -> SUBSET Cmd],
         typed' \in [Project -> SUBSET Cmd], lines' \subseteq [project : Project, texts : SUBSET Cmd],
         UNCHANGED <<busy, linked, cut, lastSpoken, alive, youngest, events>>,
         AllSound', TypedInv', PastInv', FateInv', MergesAreExplained'
  PROVE  CmdInv'
<1>1. OthersOK'
  BY TypeParts DEF OthersOK, CmdInv
<1>2. TypeOK'
  BY <1>1 DEF TypeOK, OthersOK, Records
<1>3. QED
  BY <1>2 DEF CmdInv

\* What was said of the others remains true when their text was typed,
\* entered or cleared by this key.
LEMMA OthersFate ==
  ASSUME CmdInv, NEW c \in Cmd, NEW d \in Cmd \ {c}, cmd'[d] = cmd[d], alive' = alive, Told(cmd[d]),
         Entered(d) => Entered(d)', Stopped(d) => Stopped(d)',
         cmd[d].st = "enter" /\ d \in typed[cmd[d].project] =>
            d \in typed'[cmd[d].project] \/ Entered(d)' \/ Stopped(d)'
  PROVE  /\ cmd'[d].st = "enter" =>
              Entered(d)' \/ Stopped(d)' \/ d \in typed'[cmd'[d].project] \/ cmd'[d].project \notin alive'
         /\ SaidSo(cmd'[d]) => Entered(d)' \/ Stopped(d)'
BY DEF CmdInv, FateInv

LEMMA SendTextFacts ==
  ASSUME CmdInv, NEW c \in Cmd, cmd[c].st = "text", cmd[c].project \in alive, SendText(c),
         UNCHANGED <<alive, youngest, events>>
  PROVE  CmdInv'
<1> DEFINE p == cmd[c].project
<1>1. GoTo(c, "enter") /\ Meet(c) /\ lines' = lines /\ typed' = [typed EXCEPT ![p] = @ \cup {c}]
  BY DEF SendText
<1>2. /\ cmd' \in [Cmd -> {Unsaid} \cup Records] /\ met' \in [Cmd -> SUBSET Cmd]
      /\ p \in Project
      /\ cmd'[c].st = "enter" /\ cmd'[c].project = p
      /\ \A d \in Cmd \ {c} : cmd'[d] = cmd[d]
      /\ \A d \in Cmd : Keeps(cmd[d], cmd'[d])
      /\ \A S \in SUBSET Cmd : Explained(S) => Explained(S)'
      /\ \A d \in Cmd : (Entered(d) => Entered(d)') /\ (Stopped(d) => Stopped(d)')
      /\ \A d \in Cmd : \A e \in met'[d] : cmd'[e].st \in Past
      /\ AllSound'
      /\ UNCHANGED <<busy, linked, cut, lastSpoken>>
  BY <1>1, KeyFacts
<1>3. \A d \in Cmd : d # c /\ cmd[d].st = "enter" /\ cmd[d].project = p => c \in met'[d]
  BY <1>1, MeetFacts
<1> HIDE DEF p
<1>4. /\ typed \in [Project -> SUBSET Cmd] /\ typed' \in [Project -> SUBSET Cmd]
      /\ typed'[p] = typed[p] \cup {c} /\ \A q \in Project \ {p} : typed'[q] = typed[q]
  BY <1>1, <1>2 DEF CmdInv, TypeOK
<1>5. TypedInv'
  <2>1. ASSUME NEW q \in Project, NEW d \in typed'[q]
        PROVE  cmd'[d].project = q /\ cmd'[d].st \in {"enter", "lost"}
    <3>1. CASE d = c
      <4>1. c \notin typed[q]
        BY DEF CmdInv, TypedInv
      <4>2. q = p
        BY <1>4, <3>1, <4>1
      <4>3. QED
        BY <1>2, <3>1, <4>2
    <3>2. CASE d # c
      <4>1. d \in typed[q] /\ d \in Cmd
        BY <1>4, <3>2
      <4>2. QED
        BY <1>2, <3>2, <4>1 DEF CmdInv, TypedInv
    <3>3. QED
      BY <3>1, <3>2
  <2>2. ASSUME NEW q \in Project PROVE Explained(typed[q])'
    <3>1. \A d, e \in typed[q] :
            d = e \/ d \in met'[e] \/ e \in met'[d] \/ "lost" \in {cmd'[d].st, cmd'[e].st}
      <4>1. typed[q] \in SUBSET Cmd /\ Explained(typed[q])
        BY <1>4 DEF CmdInv, TypedInv
      <4>2. QED
        BY <1>2, <4>1 DEF Explained
    <3>2. CASE q # p
      BY <1>4, <3>1, <3>2 DEF Explained
    <3>3. CASE q = p
      <4>1. ASSUME NEW d \in typed[p], d # c PROVE c \in met'[d] \/ cmd'[d].st = "lost"
        <5>1. d \in Cmd /\ cmd[d].project = p /\ cmd[d].st \in {"enter", "lost"}
          BY <1>2, <1>4 DEF CmdInv, TypedInv
        <5>2. QED
          BY <1>2, <1>3, <4>1, <5>1
      <4>2. \A d, e \in typed'[p] :
              d = e \/ d \in met'[e] \/ e \in met'[d] \/ "lost" \in {cmd'[d].st, cmd'[e].st}
        BY <1>4, <3>1, <3>3, <4>1
      <4>3. QED
        BY <3>3, <4>2 DEF Explained
    <3>4. QED
      BY <3>2, <3>3
  <2>3. ASSUME NEW q \in Project, q \notin alive' PROVE typed'[q] = {}
    BY <1>4, <2>3 DEF CmdInv, TypedInv, p
  <2>4. QED
    BY <2>1, <2>2, <2>3 DEF TypedInv
<1>6. PastInv'
  <2>1. \A l \in lines' : \A d \in l.texts : cmd'[d].st \in Past
    BY <1>1, <1>2 DEF CmdInv, PastInv, Keeps, TypeOK
  <2>2. QED
    BY <1>2, <2>1 DEF PastInv
<1>7. FateInv'
  <2>1. ASSUME NEW d \in Cmd, Told(cmd'[d])
        PROVE  /\ cmd'[d].st = "enter" =>
                    Entered(d)' \/ Stopped(d)' \/ d \in typed'[cmd'[d].project] \/ cmd'[d].project \notin alive'
               /\ SaidSo(cmd'[d]) => Entered(d)' \/ Stopped(d)'
    <3>1. CASE d = c
      BY <1>2, <1>4, <3>1 DEF SaidSo
    <3>2. CASE d # c
      <4>1. \A q \in Project : typed[q] \subseteq typed'[q]
        BY <1>4
      <4>2. cmd[d].st = "enter" /\ d \in typed[cmd[d].project] => d \in typed'[cmd[d].project]
        BY <4>1 DEF CmdInv, AllSound, Sound
      <4>3. QED
        BY <1>2, <2>1, <3>2, <4>2, OthersFate
    <3>3. QED
      BY <3>1, <3>2
  <2>2. QED
    BY <2>1 DEF FateInv
<1>8. MergesAreExplained'
  <2>1. \A l \in lines : Explained(l.texts)
    BY DEF CmdInv, MergesAreExplained, Explained
  <2>2. \A l \in lines : Explained(l.texts)'
    BY <1>2, <2>1 DEF CmdInv, TypeOK
  <2>3. QED
    BY <1>1, <2>2 DEF MergesAreExplained, Explained
<1>9. lines' \subseteq [project : Project, texts : SUBSET Cmd]
  BY <1>1 DEF CmdInv, TypeOK
<1>10. QED
  BY <1>2, <1>4, <1>5, <1>6, <1>7, <1>8, <1>9, PaneFacts

LEMMA SendEnterFacts ==
  ASSUME CmdInv, NEW c \in Cmd, cmd[c].st = "enter", cmd[c].project \in alive, SendEnter(c),
         UNCHANGED <<alive, youngest, events>>
  PROVE  CmdInv'
<1> DEFINE p == cmd[c].project
           st == IF cmd[c].does = "input" THEN "done" ELSE "finish"
           line == [project |-> p, texts |-> typed[p]]
<1>1. /\ GoTo(c, st) /\ Meet(c) /\ lines' = lines \cup {line}
      /\ typed' = [typed EXCEPT ![p] = {}]
      /\ st \in {"enter", "finish", "done"} /\ (st = "done" => cmd[c].does = "input")
  BY DEF SendEnter
<1> HIDE DEF st
<1>2. /\ cmd' \in [Cmd -> {Unsaid} \cup Records] /\ met' \in [Cmd -> SUBSET Cmd]
      /\ p \in Project
      /\ cmd'[c].st = st /\ cmd'[c].project = p /\ cmd'[c].does = cmd[c].does
      /\ \A d \in Cmd \ {c} : cmd'[d] = cmd[d]
      /\ \A d \in Cmd : Keeps(cmd[d], cmd'[d])
      /\ \A S \in SUBSET Cmd : Explained(S) => Explained(S)'
      /\ \A d \in Cmd : (Entered(d) => Entered(d)') /\ (Stopped(d) => Stopped(d)')
      /\ \A d \in Cmd : \A e \in met'[d] : cmd'[e].st \in Past
      /\ AllSound'
      /\ UNCHANGED <<busy, linked, cut, lastSpoken>>
  BY <1>1, KeyFacts
<1>3. st \in {"finish", "done"}
  BY DEF st
<1>4. /\ typed \in [Project -> SUBSET Cmd] /\ typed' \in [Project -> SUBSET Cmd]
      /\ typed'[p] = {} /\ \A q \in Project \ {p} : typed'[q] = typed[q]
      /\ line \in [project : Project, texts : SUBSET Cmd]
      /\ line.project = p /\ line.texts = typed[p]
  BY <1>1, <1>2 DEF CmdInv, TypeOK
<1> HIDE DEF p, line
<1>5. TypedInv'
  <2>1. ASSUME NEW q \in Project, q # p
        PROVE  /\ typed'[q] = typed[q]
               /\ \A d \in typed[q] : cmd'[d].project = q /\ cmd'[d].st \in {"enter", "lost"}
               /\ Explained(typed[q])'
    <3>1. \A d \in typed[q] : d # c
      BY <2>1 DEF CmdInv, TypedInv, p
    <3>2. QED
      BY <1>2, <1>4, <2>1, <3>1 DEF CmdInv, TypedInv
  <2>2. QED
    BY <1>4, <2>1 DEF CmdInv, TypedInv, Explained
<1>6. PastInv'
  <2>1. \A d \in typed[p] : cmd[d].st \in Past
    BY <1>2 DEF CmdInv, TypedInv, Past
  <2>2. \A l \in lines' : \A d \in l.texts : cmd[d].st \in Past /\ d \in Cmd
    BY <1>1, <1>4, <2>1 DEF CmdInv, PastInv, TypeOK
  <2>3. QED
    BY <1>2, <2>2 DEF PastInv, Keeps
<1>7. FateInv'
  <2>1. ASSUME NEW d \in Cmd, Told(cmd'[d])
        PROVE  /\ cmd'[d].st = "enter" =>
                    Entered(d)' \/ Stopped(d)' \/ d \in typed'[cmd'[d].project] \/ cmd'[d].project \notin alive'
               /\ SaidSo(cmd'[d]) => Entered(d)' \/ Stopped(d)'
    <3>1. d \in typed[p] /\ cmd'[d].project = p => Entered(d)'
      BY <1>1, <1>4 DEF Entered
    <3>2. CASE d = c
      <4>1. Told(cmd[c]) /\ p \in alive
        BY <1>2, <2>1, <3>2 DEF Told, p
      <4>2. Entered(c) \/ Stopped(c) \/ c \in typed[p]
        BY <4>1 DEF CmdInv, FateInv, p
      <4>3. QED
        BY <1>2, <1>3, <3>1, <3>2, <4>2
    <3>3. CASE d # c
      <4>1. ASSUME d \in typed[cmd[d].project], cmd[d].st = "enter"
            PROVE  d \in typed'[cmd[d].project] \/ Entered(d)' \/ Stopped(d)'
        <5>1. CASE cmd[d].project = p
          BY <1>2, <3>1, <3>3, <4>1, <5>1
        <5>2. CASE cmd[d].project # p
          <6>1. cmd[d].project \in Project
            BY <4>1 DEF CmdInv, AllSound, Sound
          <6>2. QED
            BY <1>4, <4>1, <5>2, <6>1
        <5>3. QED
          BY <5>1, <5>2
      <4>2. cmd'[d] = cmd[d] /\ Told(cmd[d])
        BY <1>2, <2>1, <3>3
      <4>3. QED
        BY <1>2, <3>3, <4>1, <4>2, OthersFate
    <3>4. QED
      BY <3>2, <3>3
  <2>2. QED
    BY <2>1 DEF FateInv
<1>8. MergesAreExplained'
  <2>1. \A l \in lines : Explained(l.texts)
    BY DEF CmdInv, MergesAreExplained, Explained
  <2>2. Explained(typed[p])
    BY <1>2 DEF CmdInv, TypedInv
  <2>3. \A l \in lines' : l.texts \in SUBSET Cmd /\ Explained(l.texts)
    BY <1>1, <1>4, <2>1, <2>2 DEF CmdInv, TypeOK
  <2>4. \A l \in lines' : Explained(l.texts)'
    BY <1>2, <2>3
  <2>5. QED
    BY <2>4 DEF MergesAreExplained, Explained
<1>9. lines' \subseteq [project : Project, texts : SUBSET Cmd]
  BY <1>1, <1>4 DEF CmdInv, TypeOK
<1>10. QED
  BY <1>2, <1>4, <1>5, <1>6, <1>7, <1>8, <1>9, PaneFacts

LEMMA InterruptFacts ==
  ASSUME CmdInv, NEW c \in Cmd, cmd[c].st = "key", cmd[c].project \in alive, Interrupt(c),
         UNCHANGED <<alive, youngest, events>>
  PROVE  CmdInv'
<1> DEFINE p == cmd[c].project
<1>1. /\ GoTo(c, "finish") /\ Meet(c) /\ lines' = lines
      /\ typed' \in {typed, [typed EXCEPT ![p] = {}]}
  BY DEF Interrupt
<1>2. /\ cmd' \in [Cmd -> {Unsaid} \cup Records] /\ met' \in [Cmd -> SUBSET Cmd]
      /\ p \in Project
      /\ cmd'[c].st = "finish" /\ cmd'[c].project = p /\ cmd'[c].does = cmd[c].does
      /\ \A d \in Cmd \ {c} : cmd'[d] = cmd[d]
      /\ \A d \in Cmd : Keeps(cmd[d], cmd'[d])
      /\ \A S \in SUBSET Cmd : Explained(S) => Explained(S)'
      /\ \A d \in Cmd : (Entered(d) => Entered(d)') /\ (Stopped(d) => Stopped(d)')
      /\ \A d \in Cmd : \A e \in met'[d] : cmd'[e].st \in Past
      /\ AllSound'
      /\ UNCHANGED <<busy, linked, cut, lastSpoken>>
  BY <1>1, KeyFacts
<1>3. \A d \in Cmd : d # c /\ cmd[d].st = "enter" /\ cmd[d].project = p => c \in met'[d]
  BY <1>1, MeetFacts
<1>s. cmd[c].does = "stop"
  BY DEF CmdInv, AllSound, Sound
<1> HIDE DEF p
<1>4. /\ typed \in [Project -> SUBSET Cmd] /\ typed' \in [Project -> SUBSET Cmd]
      /\ typed'[p] \in {typed[p], {}} /\ \A q \in Project \ {p} : typed'[q] = typed[q]
  BY <1>1, <1>2 DEF CmdInv, TypeOK
<1>5. TypedInv'
  <2>1. ASSUME NEW q \in Project
        PROVE  /\ typed'[q] \in {typed[q], {}}
               /\ \A d \in typed[q] : cmd'[d].project = q /\ cmd'[d].st \in {"enter", "lost"}
    <3>1. \A d \in typed[q] : d # c /\ d \in Cmd
      BY <1>4 DEF CmdInv, TypedInv
    <3>2. QED
      BY <1>2, <1>4, <3>1 DEF CmdInv, TypedInv
  <2>2. ASSUME NEW q \in Project PROVE Explained(typed[q])'
    <3>1. \A d, e \in typed[q] :
            d = e \/ d \in met'[e] \/ e \in met'[d] \/ "lost" \in {cmd'[d].st, cmd'[e].st}
      <4>1. typed[q] \in SUBSET Cmd /\ Explained(typed[q])
        BY <1>4 DEF CmdInv, TypedInv
      <4>2. QED
        BY <1>2, <4>1 DEF Explained
    <3>2. QED
      BY <2>1, <3>1 DEF Explained
  <2>3. ASSUME NEW q \in Project, q \notin alive' PROVE typed'[q] = {}
    BY <2>1, <2>3 DEF CmdInv, TypedInv
  <2>4. QED
    BY <2>1, <2>2, <2>3 DEF TypedInv
<1>6. PastInv'
  <2>1. \A l \in lines' : \A d \in l.texts : cmd'[d].st \in Past
    BY <1>1, <1>2 DEF CmdInv, PastInv, Keeps, TypeOK
  <2>2. QED
    BY <1>2, <2>1 DEF PastInv
<1>7. FateInv'
  <2>1. ASSUME NEW d \in Cmd, Told(cmd'[d])
        PROVE  /\ cmd'[d].st = "enter" =>
                    Entered(d)' \/ Stopped(d)' \/ d \in typed'[cmd'[d].project] \/ cmd'[d].project \notin alive'
               /\ SaidSo(cmd'[d]) => Entered(d)' \/ Stopped(d)'
    <3>1. d # c
      BY <1>2, <1>s, <2>1 DEF Told
    <3>2. ASSUME cmd[d].st = "enter", d \in typed[cmd[d].project]
          PROVE  d \in typed'[cmd[d].project] \/ Stopped(d)'
      <4>1. CASE cmd[d].project = p
        BY <1>2, <1>3, <1>s, <3>1, <3>2, <4>1 DEF Stopped
      <4>2. CASE cmd[d].project # p
        <5>1. cmd[d].project \in Project
          BY <3>2 DEF CmdInv, AllSound, Sound
        <5>2. QED
          BY <1>4, <3>2, <4>2, <5>1
      <4>3. QED
        BY <4>1, <4>2
    <3>3. QED
      BY <1>2, <2>1, <3>1, <3>2, OthersFate
  <2>2. QED
    BY <2>1 DEF FateInv
<1>8. MergesAreExplained'
  <2>1. \A l \in lines : Explained(l.texts)
    BY DEF CmdInv, MergesAreExplained, Explained
  <2>2. \A l \in lines : Explained(l.texts)'
    BY <1>2, <2>1 DEF CmdInv, TypeOK
  <2>3. QED
    BY <1>1, <2>2 DEF MergesAreExplained, Explained
<1>9. lines' \subseteq [project : Project, texts : SUBSET Cmd]
  BY <1>1 DEF CmdInv, TypeOK
<1>10. QED
  BY <1>2, <1>4, <1>5, <1>6, <1>7, <1>8, <1>9, PaneFacts

\* A pane that is gone: #route says so, a terminal line ends the process.
LEMMA FailFacts ==
  ASSUME CmdInv, NEW c \in Cmd, cmd[c].st \in {"text", "enter", "key"}, cmd[c].project \notin alive,
         Fail(c), UNCHANGED <<alive, typed, lines, met, youngest, events>>
  PROVE  CmdInv'
<1>1. CASE cmd[c].does # "input"
  <2>1. Answer(c, "error") /\ lastSpoken' = lastSpoken /\ cmd[c] # Unsaid
    BY <1>1 DEF Fail, Unsaid
  <2>2. QED
    BY <2>1, SayFacts
<1>2. CASE cmd[c].does = "input"
  <2>1. /\ cmd' = [d \in Cmd |-> IF cmd[d].st \in Active THEN [cmd[d] EXCEPT !.st = "lost", !.here = FALSE]
                                 ELSE cmd[d]]
        /\ linked' = {} /\ cut' = Phone /\ lastSpoken' = None /\ busy' = busy
    BY <1>2 DEF Fail
  <2>2. ASSUME NEW d \in Cmd
        PROVE  cmd'[d] \in {Unsaid} \cup Records /\ (cmd'[d] = cmd[d] \/ GoesOn(cmd[d], cmd'[d]))
    <3>1. CASE cmd[d].st \notin Active
      BY <2>1, <3>1, CmdKinds DEF CmdInv
    <3>2. CASE cmd[d].st \in Active
      <4>1. cmd[d] \in Records
        BY <3>2, CmdKinds DEF CmdInv, Unsaid, Active
      <4> DEFINE r == [[cmd[d] EXCEPT !.st = "lost"] EXCEPT !.here = FALSE]
      <4>2. /\ r \in Records /\ r.st = "lost" /\ r.does = cmd[d].does /\ r.project = cmd[d].project
        BY <4>1, EveryState DEF Records
      <4>3. cmd'[d] = r
        BY <2>1, <3>2
      <4> HIDE DEF r
      <4>4. GoesOn(cmd[d], r)
        BY <4>2 DEF GoesOn, Keeps, Sound, SaidSo, Past
      <4>5. QED
        BY <4>2, <4>3, <4>4
    <3>3. QED
      BY <3>1, <3>2
  <2>3. cmd' \in [Cmd -> {Unsaid} \cup Records]
    BY <2>1, <2>2
  <2>4. AllSound' /\ TypedInv' /\ PastInv' /\ FateInv' /\ MergesAreExplained'
    BY <2>2, <2>3, GoOnFacts
  <2>5. busy' \subseteq Phone /\ linked' \subseteq Phone /\ cut' \subseteq Phone
    BY <2>1 DEF CmdInv, TypeOK
  <2>6. QED
    BY <2>1, <2>3, <2>4, <2>5, KeptFacts
<1>3. QED
  BY <1>1, <1>2

LEMMA TypeFacts ==
  ASSUME CmdInv, NEW c \in Cmd, Type(c)
  PROVE  CmdInv'
<1>1. cmd[c].st \in {"text", "enter", "key"} /\ UNCHANGED <<alive, youngest, events>>
  BY DEF Type
<1>2. CASE cmd[c].project \notin alive
  BY <1>1, <1>2, FailFacts DEF Type
<1>3. CASE cmd[c].project \in alive
  BY <1>1, <1>3, SendTextFacts, SendEnterFacts, InterruptFacts DEF Type
<1>4. QED
  BY <1>2, <1>3

-----------------------------------------------------------------------------
\* Sessions and workers that go, links that are lost and come back.
LEMMA SessionFacts ==
  ASSUME CmdInv, NEW p \in Project, SessionEnds(p)
  PROVE  CmdInv'
<1>1. /\ alive' = alive \ {p} /\ typed' = [typed EXCEPT ![p] = {}]
      /\ events < MaxEvents /\ events' = events + 1
      /\ UNCHANGED <<cmd, busy, linked, cut, youngest, lastSpoken, lines, met>>
  BY DEF SessionEnds, Event, phones
<1>2. events' \in 0..MaxEvents
  BY <1>1, Bounds DEF CmdInv, TypeOK
<1>3. /\ typed' \in [Project -> SUBSET Cmd] /\ typed'[p] = {}
      /\ \A q \in Project \ {p} : typed'[q] = typed[q]
  BY <1>1 DEF CmdInv, TypeOK
<1>4. TypeOK'
  BY <1>1, <1>2, <1>3 DEF CmdInv, TypeOK
<1>5. TypedInv'
  BY <1>1, <1>3 DEF CmdInv, TypedInv, Explained
<1>6. AllSound' /\ PastInv' /\ MergesAreExplained'
  BY <1>1 DEF CmdInv, AllSound, PastInv, MergesAreExplained
<1>7. \A c \in Cmd : (Entered(c)' <=> Entered(c)) /\ (Stopped(c)' <=> Stopped(c))
  BY <1>1 DEF Entered, Stopped
<1>8. FateInv'
  <2>1. ASSUME NEW c \in Cmd, Told(cmd[c])
        PROVE  /\ cmd[c].st = "enter" =>
                    Entered(c) \/ Stopped(c) \/ c \in typed'[cmd[c].project] \/ cmd[c].project \notin alive'
               /\ SaidSo(cmd[c]) => Entered(c) \/ Stopped(c)
    <3>1. cmd[c].st = "enter" => cmd[c].project \in Project
      BY DEF CmdInv, AllSound, Sound
    <3>2. QED
      BY <1>1, <1>3, <2>1, <3>1 DEF CmdInv, FateInv
  <2>2. QED
    BY <1>1, <1>7, <2>1 DEF FateInv
<1>9. QED
  BY <1>4, <1>5, <1>6, <1>8 DEF CmdInv

LEMMA WorldFacts ==
  ASSUME CmdInv, (\E p \in Project : WorkerStops(p)) \/ \E ph \in Phone : LinkLost(ph) \/ LinkBack(ph)
  PROVE  CmdInv'
<1>0. events < MaxEvents /\ events' = events + 1 => events' \in 0..MaxEvents
  BY Bounds DEF CmdInv, TypeOK
<1>1. ASSUME cmd' \in [Cmd -> {Unsaid} \cup Records],
             \A c \in Cmd : cmd'[c] = cmd[c] \/ GoesOn(cmd[c], cmd'[c]),
             UNCHANGED <<alive, typed, lines, met, busy, lastSpoken>>,
             linked' \subseteq Phone, cut' \subseteq Phone, events' \in 0..MaxEvents,
             youngest' \in [Project -> 0..Cardinality(Project)]
      PROVE  CmdInv'
  <2>1. AllSound' /\ TypedInv' /\ PastInv' /\ FateInv' /\ MergesAreExplained'
    BY <1>1, GoOnFacts
  <2>2. OthersOK'
    BY <1>1, TypeParts DEF CmdInv, OthersOK
  <2>3. TypeOK'
    BY <1>1, <2>2 DEF TypeOK, OthersOK, Records
  <2>4. QED
    BY <2>1, <2>3 DEF CmdInv
<1>k. /\ cmd \in [Cmd -> {Unsaid} \cup Records] /\ linked \subseteq Phone /\ cut \subseteq Phone
      /\ events \in 0..MaxEvents /\ youngest \in [Project -> 0..Cardinality(Project)]
  BY TypeParts DEF CmdInv, OthersOK
<1>2. ASSUME NEW p \in Project, WorkerStops(p) PROVE CmdInv'
  <2>1. /\ youngest' = [youngest EXCEPT ![p] = 0] /\ events' \in 0..MaxEvents
        /\ UNCHANGED <<cmd, busy, linked, cut, alive, typed, lines, met, lastSpoken>>
    BY <1>0, <1>2 DEF WorkerStops, Event, phones
  <2>2. Cardinality(Project) \in Nat
    BY Bounds, FS_CardinalityType
  <2>3. youngest' \in [Project -> 0..Cardinality(Project)]
    BY <1>k, <2>1, <2>2
  <2>4. QED
    BY <1>1, <1>k, <2>1, <2>3
<1>3. ASSUME NEW ph \in Phone, LinkBack(ph) PROVE CmdInv'
  BY <1>1, <1>k, <1>3 DEF LinkBack, panes
<1>4. ASSUME NEW ph \in Phone, LinkLost(ph) PROVE CmdInv'
  <2>1. /\ linked' = linked \ {ph} /\ cut' = cut \cup {ph} /\ events' \in 0..MaxEvents
        /\ cmd' = [c \in Cmd |-> IF cmd[c].st \in Active /\ cmd[c].from = ph
                                 THEN [cmd[c] EXCEPT !.here = FALSE] ELSE cmd[c]]
        /\ UNCHANGED <<busy, alive, typed, lines, met, youngest, lastSpoken>>
    BY <1>0, <1>4 DEF LinkLost, Event
  <2>2. ASSUME NEW c \in Cmd
        PROVE  cmd'[c] \in {Unsaid} \cup Records /\ (cmd'[c] = cmd[c] \/ GoesOn(cmd[c], cmd'[c]))
    <3>1. CASE ~(cmd[c].st \in Active /\ cmd[c].from = ph)
      BY <1>k, <2>1, <3>1
    <3>2. CASE cmd[c].st \in Active /\ cmd[c].from = ph
      <4>1. cmd[c] \in Records
        BY <3>2, CmdKinds DEF CmdInv, Unsaid, Active
      <4> DEFINE r == [cmd[c] EXCEPT !.here = FALSE]
      <4>2. /\ r \in Records /\ r.st = cmd[c].st /\ r.does = cmd[c].does /\ r.project = cmd[c].project
            /\ r.said = cmd[c].said
        BY <4>1 DEF Records
      <4>3. cmd'[c] = r
        BY <2>1, <3>2
      <4> HIDE DEF r
      <4>4. Sound(cmd[c])
        BY DEF CmdInv, AllSound
      <4>5. GoesOn(cmd[c], r)
        BY <4>2, <4>4 DEF GoesOn, Keeps, Sound, SaidSo, Told
      <4>6. QED
        BY <4>2, <4>3, <4>5
    <3>3. QED
      BY <3>1, <3>2
  <2>3. cmd' \in [Cmd -> {Unsaid} \cup Records]
    BY <2>1, <2>2
  <2>4. QED
    BY <1>1, <1>k, <2>1, <2>2, <2>3
<1>5. QED
  BY <1>2, <1>3, <1>4

-----------------------------------------------------------------------------
LEMMA CmdInvHolds == Spec => []CmdInv
<1>1. Init => CmdInv
  <2> SUFFICES ASSUME Init PROVE CmdInv
    OBVIOUS
  <2>1. \A c \in Cmd : cmd[c] = Unsaid /\ cmd[c].st = "unsaid" /\ met[c] = {}
    BY DEF Init, Unsaid
  <2>2. Cardinality(Project) \in Nat /\ MaxEvents \in Nat
    BY Bounds, FS_CardinalityType
  <2>3. OthersOK
    BY <2>2 DEF Init, OthersOK
  <2>4. TypeOK
    BY <2>3 DEF Init, TypeOK, OthersOK
  <2>5. AllSound
    BY <2>1 DEF AllSound, Sound
  <2>6. TypedInv /\ PastInv /\ MergesAreExplained
    BY <2>1 DEF Init, TypedInv, PastInv, MergesAreExplained, Explained
  <2>7. FateInv
    BY <2>1 DEF FateInv, SaidSo
  <2>8. QED
    BY <2>4, <2>5, <2>6, <2>7 DEF CmdInv
<1>2. CmdInv /\ [Next]_vars => CmdInv'
  <2> SUFFICES ASSUME CmdInv, [Next]_vars PROVE CmdInv'
    OBVIOUS
  <2>1. ASSUME NEW ph \in Phone, PressOut(ph) \/ Control(ph) PROVE CmdInv'
    BY <2>1, PhoneFacts
  <2>2. ASSUME NEW c \in Cmd, Step(c) PROVE CmdInv'
    BY <2>2, UnderstandFacts, DispatchFacts, ThoughtFacts, TypeFacts DEF Step
  <2>3. ASSUME NEW p \in Project, SessionEnds(p) PROVE CmdInv'
    BY <2>3, SessionFacts
  <2>4. CASE (\E p \in Project : WorkerStops(p)) \/ \E ph \in Phone : LinkLost(ph) \/ LinkBack(ph)
    BY <2>4, WorldFacts
  <2>5. CASE UNCHANGED vars
    <3>1. UNCHANGED <<cmd, busy, linked, cut, alive, typed, lines, met, youngest, lastSpoken, events>>
      BY <2>5 DEF vars, panes, phones
    <3>2. AllSound' /\ TypedInv' /\ PastInv' /\ FateInv' /\ MergesAreExplained'
      BY <3>1, TypeParts, GoOnFacts DEF CmdInv
    <3>3. OthersOK'
      BY <3>1, TypeParts DEF CmdInv, OthersOK
    <3>4. TypeOK'
      BY <3>1, <3>3, TypeParts DEF CmdInv, TypeOK, OthersOK, Records
    <3>5. QED
      BY <3>2, <3>4 DEF CmdInv
  <2>6. QED
    BY <2>1, <2>2, <2>3, <2>4, <2>5 DEF Next
<1>3. QED
  BY <1>1, <1>2, PTL DEF Spec

\* Every variable has its type.
THEOREM CommandTypes == Spec => []TypeOK
<1>1. CmdInv => TypeOK
  BY DEF CmdInv
<1>2. QED
  BY <1>1, CmdInvHolds, PTL

\* "Done, I sent X a message" is said only of a text that was entered in that
\* project's pane or was cleared by a stop (orchestrator.ts, #route; tmux.ts:71).
THEOREM ToldIsEntered == Spec => []ToldWasEntered
<1>1. CmdInv => ToldWasEntered
  BY DEF CmdInv, FateInv, ToldWasEntered, Told, SaidSo, Entered, Stopped
<1>2. QED
  BY <1>1, CmdInvHolds, PTL

\* Two texts become one line only if one was typed while the other's Enter was
\* outstanding, or the process ended between a text and its Enter (tmux.ts:71).
THEOREM MergesStayExplained == Spec => []MergesAreExplained
<1>1. CmdInv => MergesAreExplained
  BY DEF CmdInv
<1>2. QED
  BY <1>1, CmdInvHolds, PTL
=============================================================================
