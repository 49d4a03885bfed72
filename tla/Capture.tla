------------------------------- MODULE Capture ------------------------------
(***************************************************************************)
(* How a terminal's output reaches memory: the CLI's ingest, spawn and     *)
(* adopt (cli/capture.ts) from the first statement to the exit, with the   *)
(* two sources they read, FileTailSource and SnapshotCaptureSource.        *)
(*                                                                         *)
(* The program prints half lines, numbered 1, 2, ...: an even one ends     *)
(* with the newline.  A file is the sequence of the halves that were       *)
(* appended to it.  A full-screen program draws screens, sequences of      *)
(* texts.                                                                  *)
(***************************************************************************)
EXTENDS Naturals, Sequences, SequencesExt

CONSTANTS Text,      \* the lines of a screen
          Screens,   \* what a full-screen program draws, without its chrome
          Cap,       \* memoryCap of the snapshot source
          MaxPrints, \* bound: half lines, or screens
          MaxCuts    \* bound: truncations, and adoptions by others

ASSUME Bounds == Cap \in Nat \ {0} /\ MaxPrints \in Nat \ {0} /\ MaxCuts \in Nat
ASSUME ScreensAreTexts == Screens \subseteq Seq(Text)

VARIABLES
  command,   \* what the CLI was asked to do
  pc,        \* where it is
  armed,     \* its SIGINT handler is registered
  closed,    \* #closed
  row,       \* its worker's row
  printed,   \* half lines printed, or screens drawn
  gone,      \* the pane is gone
  piped,     \* pipe-pane (or the file's writer) appends
  file,
  offset, size, buffer,   \* FileTailSource
  screen,
  prev, cur, order,       \* SnapshotCaptureSource; #emitted is the set of #order
  todo,      \* scrollback lines not yet ingested
  stored,    \* capture lines, in order
  begin,     \* history: where in the file the tail began
  live,      \* history: lines that were stored before the source began
  cuts       \* truncations and toggles of the pipe

tail == <<offset, size, buffer, begin>>
snapshot == <<prev, cur, order>>
pane == <<printed, gone, piped, file, screen>>
vars == <<command, pc, armed, closed, row, pane, tail, snapshot, todo, stored, live, cuts>>

Draws == command = "snapshot"
EndsLine(h) == h % 2 = 0
LineOf(h) == (h + 1) \div 2
Emitted == ToSet(order)

Init ==
  /\ command \in {"ingest", "ingest --from-start", "spawn", "adopt", "snapshot"}
  /\ pc = "start" /\ armed = FALSE /\ closed = FALSE /\ row = "none"
  /\ printed \in 0..(IF command = "spawn" THEN 0 ELSE 1) /\ gone = FALSE
  /\ piped = (command \in {"ingest", "ingest --from-start"})
  /\ file = IF piped THEN [h \in 1..printed |-> h] ELSE <<>>
  /\ offset = 0 /\ size = 0 /\ buffer = <<>> /\ begin = 0
  /\ screen \in IF Draws THEN Screens ELSE {<<>>}
  /\ prev = <<>> /\ cur = <<>> /\ order = <<>>
  /\ todo = <<>> /\ stored = <<>> /\ live = 0 /\ cuts = 0
-----------------------------------------------------------------------------
(* The commands.                                                           *)
After(a, b) == pc = a /\ pc' = b
Toggle == piped' = ~piped  \* pipe-pane -o opens a pipe, or closes the one there is

Spawn ==  \* TerminalAgent.spawn: the pipe, then the program
  /\ command = "spawn" /\ After("start", "launched")
  /\ Toggle
  /\ UNCHANGED <<command, armed, closed, row, printed, gone, file, screen, tail, snapshot,
                 todo, stored, live, cuts>>

StartWorker ==  \* ensureProject, startWorker; ingest and spawn are then ready
  /\ pc = IF command = "spawn" THEN "launched" ELSE "start"
  /\ row' = "running"
  /\ armed' = (command \notin {"adopt", "snapshot"})
  /\ pc' = IF armed' THEN "open" ELSE "scrollback"
  /\ UNCHANGED <<command, closed, pane, tail, snapshot, todo, stored, live, cuts>>

CapturePaneHistory ==
  /\ After("scrollback", "backfill")
  /\ todo' = IF Draws THEN screen
             ELSE [l \in 1..LineOf(printed) |-> IF 2*l <= printed THEN <<2*l - 1, 2*l>> ELSE <<2*l - 1>>]
  /\ UNCHANGED <<command, armed, closed, row, pane, tail, snapshot, stored, live, cuts>>

Backfill ==
  /\ pc = "backfill"
  /\ IF todo # <<>>
     THEN /\ stored' = Append(stored, Head(todo)) /\ todo' = Tail(todo)
          /\ UNCHANGED <<pc, armed, piped, live>>
     ELSE /\ live' = Len(stored) /\ armed' = TRUE
          /\ IF Draws THEN pc' = "look" /\ UNCHANGED piped ELSE pc' = "open" /\ Toggle
          /\ UNCHANGED <<stored, todo>>
  /\ UNCHANGED <<command, closed, row, printed, gone, file, screen, tail, snapshot, cuts>>
-----------------------------------------------------------------------------
(* FileTailSource.lines                                                    *)
Open ==
  /\ After("open", "stat")
  /\ offset' = IF command = "ingest --from-start" THEN 0 ELSE Len(file)
  /\ begin' = offset'
  /\ UNCHANGED <<command, armed, closed, row, pane, size, buffer, snapshot, todo, stored, live, cuts>>

Stat ==
  /\ pc = "stat" /\ (closed => command = "spawn")  \* spawn's handler does not close the source
  /\ size' = Len(file)
  /\ offset' = IF size' < offset THEN 0 ELSE offset
  /\ pc' = IF size' > offset' THEN "read" ELSE "stat"
  /\ UNCHANGED <<command, armed, closed, row, pane, buffer, begin, snapshot, todo, stored, live, cuts>>

Read ==  \* up to the size that was seen, of the file as it is now
  /\ After("read", "split")
  /\ LET there == SubSeq(file, offset + 1, Min({size, Len(file)})) IN
     /\ buffer' = buffer \o there
     /\ offset' = offset + Len(there)
  /\ UNCHANGED <<command, armed, closed, row, pane, size, begin, snapshot, todo, stored, live, cuts>>

AnyHalf == 1..Len(buffer)  \* mutant: what was read is yielded as it is
InnerNewlines ==  \* mutant: a newline at the end does not count
  {k \in 1..Len(buffer) - 1 : EndsLine(buffer[k])}
Newlines == {k \in 1..Len(buffer) : EndsLine(buffer[k])}
Split ==  \* one line is yielded and ingested, or none is left
  /\ pc = "split"
  /\ IF Newlines # {}
     THEN LET k == CHOOSE k \in Newlines : \A j \in Newlines : k <= j IN
          /\ stored' = Append(stored, SubSeq(buffer, 1, k))
          /\ buffer' = SubSeq(buffer, k + 1, Len(buffer))
          /\ UNCHANGED pc
     ELSE pc' = "stat" /\ UNCHANGED <<stored, buffer>>
  /\ UNCHANGED <<command, armed, closed, row, pane, offset, size, begin, snapshot, todo, live, cuts>>
-----------------------------------------------------------------------------
(* SnapshotCaptureSource.lines                                             *)
Look ==
  /\ pc = "look" /\ ~closed
  /\ IF gone THEN pc' = "exited" /\ UNCHANGED <<cur, todo>>
     ELSE pc' = "emit" /\ cur' = screen /\ todo' = screen
  /\ UNCHANGED <<command, armed, closed, row, pane, tail, prev, order, stored, live, cuts>>

RememberLast(line) ==  \* mutant: everything is forgotten at once
  order' = IF Len(order) = Cap THEN <<line>> ELSE Append(order, line)
Remember(line) ==
  LET all == Append(order, line) IN
  order' = IF Len(all) > Cap THEN SubSeq(all, Cap \div 2 + 1, Len(all)) ELSE all

FreshWithRoom(line) ==  \* mutant: a full memory takes no more
  line \in ToSet(prev) \ Emitted /\ Len(order) < Cap
Fresh(line) == line \in ToSet(prev) \ Emitted

Emit ==
  /\ pc = "emit"
  /\ IF todo = <<>> THEN pc' = "look" /\ prev' = cur /\ UNCHANGED <<todo, stored, order>>
     ELSE /\ todo' = Tail(todo)
          /\ IF Fresh(Head(todo))
             THEN stored' = Append(stored, Head(todo)) /\ Remember(Head(todo))
             ELSE UNCHANGED <<stored, order>>
          /\ UNCHANGED <<pc, prev>>
  /\ UNCHANGED <<command, armed, closed, row, pane, tail, cur, live, cuts>>
-----------------------------------------------------------------------------
(* Ctrl-C: the handler closes the source, stops the worker and exits; the  *)
(* process simply ends while it is not registered.                         *)
Interrupt ==
  /\ pc # "exited" /\ ~closed
  /\ IF armed THEN closed' = TRUE /\ UNCHANGED pc ELSE pc' = "exited" /\ UNCHANGED closed
  /\ UNCHANGED <<command, armed, row, pane, tail, snapshot, todo, stored, live, cuts>>

StopWorker ==
  /\ closed /\ pc # "exited"
  /\ row' = "stopped" /\ pc' = "exited"
  /\ UNCHANGED <<command, armed, closed, pane, tail, snapshot, todo, stored, live, cuts>>
-----------------------------------------------------------------------------
(* The program, and what others do to its pane and file.                   *)
Output ==
  /\ printed < MaxPrints /\ ~gone
  /\ command = "spawn" => pc # "start"
  /\ printed' = printed + 1
  /\ IF Draws THEN screen' \in Screens /\ UNCHANGED file
     ELSE /\ file' = IF piped THEN Append(file, printed') ELSE file
          /\ UNCHANGED screen
  /\ UNCHANGED <<command, pc, armed, closed, row, gone, piped, tail, snapshot, todo, stored, live, cuts>>

PaneEnds ==
  /\ Draws /\ ~gone /\ gone' = TRUE
  /\ UNCHANGED <<command, pc, armed, closed, row, printed, piped, file, screen, tail, snapshot,
                 todo, stored, live, cuts>>

Disturb ==  \* the file is rotated, or another process adopts the pane
  /\ cuts < MaxCuts /\ cuts' = cuts + 1
  /\ ~Draws /\ pc # "start"
  /\ \/ file' = <<>> /\ UNCHANGED piped
     \/ command \in {"adopt", "spawn"} /\ Toggle /\ UNCHANGED file
  /\ UNCHANGED <<command, pc, armed, closed, row, printed, gone, screen, tail, snapshot,
                 todo, stored, live>>

Cli == Spawn \/ StartWorker \/ CapturePaneHistory \/ Backfill \/ Open \/ Stat \/ Read \/ Split
       \/ Look \/ Emit \/ StopWorker
Next == Cli \/ Interrupt \/ Output \/ PaneEnds \/ Disturb
Spec == Init /\ [][Next]_vars
FairSpec == Spec /\ WF_vars(Cli)  \* timers fire, files and the database answer
-----------------------------------------------------------------------------
(* Every variable has its type.                                            *)
Half == 1..MaxPrints
Screen == Screens \cup {<<>>}
StoredLine == IF Draws THEN Text ELSE Seq(Half)
TypeOK ==
  /\ command \in {"ingest", "ingest --from-start", "spawn", "adopt", "snapshot"}
  /\ pc \in {"start", "launched", "scrollback", "backfill", "open", "stat", "read", "split",
             "look", "emit", "exited"}
  /\ armed \in BOOLEAN /\ closed \in BOOLEAN /\ gone \in BOOLEAN /\ piped \in BOOLEAN
  /\ row \in {"none", "running", "stopped"}
  /\ printed \in 0..MaxPrints /\ cuts \in 0..MaxCuts
  /\ file \in Seq(Half) /\ buffer \in Seq(Half)
  /\ offset \in Nat /\ size \in Nat /\ begin \in Nat /\ live \in Nat
  /\ screen \in Screen /\ prev \in Screen /\ cur \in Screen
  /\ order \in Seq(Text) /\ todo \in Seq(StoredLine) /\ stored \in Seq(StoredLine)

Tailed == IF Draws THEN <<>> ELSE FlattenSeq(SubSeq(stored, live + 1, Len(stored)))
HasTail == pc \in {"stat", "read", "split"}

(* Every line is captured whole, once and in order: what the tail has      *)
(* stored, and holds back, is what the file has from where it began to the *)
(* offset, whatever is appended between a stat and its read; the           *)
(* scrollback and the live stream do not overlap, even when the file is    *)
(* rotated; and no line is made of two (file-tail.ts:3 "complete lines").  *)
TailedInOrder == HasTail /\ cuts = 0 => Tailed \o buffer = SubSeq(file, begin + 1, offset)
NothingTwice == ~Draws => IsInjective(FlattenSeq(stored))
LinesAreWhole ==
  ~Draws /\ cuts = 0 => \A n \in 1..Len(stored) :
    /\ \A i, j \in 1..Len(stored[n]) : LineOf(stored[n][i]) = LineOf(stored[n][j])
    /\ armed /\ n > live => EndsLine(Last(stored[n]))
CapturedOnceInOrder == TailedInOrder /\ NothingTwice /\ LinesAreWhole

(* A text that is captured again was captured at least this many lines     *)
(* ago: cutting the memory back never makes the last lines new.            *)
DedupWindow ==
  Draws /\ armed => \A i, j \in live+1..Len(stored) :
             i < j /\ stored[i] = stored[j] => j - i >= Cap - Cap \div 2 + 2

(* Once a snapshot is worked through, every text it shares with the one    *)
(* before has been captured, whatever the memory forgot meanwhile.         *)
StableIsStored ==
  pc = "emit" /\ todo = <<>> => ToSet(cur) \cap ToSet(prev) \subseteq ToSet(SubSeq(stored, live + 1, Len(stored)))

(* Every whole line the file gets while it is tailed is captured.          *)
EveryLineIsStored ==
  \A h \in Half : (HasTail /\ EndsLine(h) /\ \E k \in begin+1..Len(file) : file[k] = h)
                  ~> (cuts > 0 \/ closed \/ h \in ToSet(Tailed))
=============================================================================
