------------------------------ MODULE WsServer ------------------------------
(***************************************************************************)
(* The sessions of ws/server.ts: sockets, the handshake and its lockout,   *)
(* the E2E keys, commands whose replies come in any order, and the         *)
(* statuses with the WAITING overlay that all phones get.                  *)
(*                                                                         *)
(* `authed' stands for #authed and for each connection's `authenticated':  *)
(* both are set together, and no message arrives after the close event     *)
(* that empties the first.  A statement's result and the frames made of    *)
(* it are one step: PGlite serves one statement at a time, and between its *)
(* answer and the emit there are only microtasks.                          *)
(***************************************************************************)
EXTENDS Naturals, FiniteSets

CONSTANTS Socket,     \* bound: connections at once
          Ip, IpOf,   \* the address of each
          Loopback,   \* addresses of the machine itself
          Project,
          Limit,      \* wrong tokens before an address is locked (5)
          MaxWindows, \* bound: lockouts that expire
          MaxCommands,\* bound: commands that wait at once
          MaxChanges  \* bound: changes of rows and of prompts

ASSUME Peers == IpOf \in [Socket -> Ip] /\ Loopback \subseteq Ip
ASSUME Positive == Limit \in Nat \ {0} /\ MaxWindows \in Nat /\ MaxCommands \in Nat
                   /\ MaxChanges \in Nat

VARIABLES
  secured,   \* the token is not the default: read once, at start
  sock,      \* each socket as the server sees it
  authed,    \* #authed
  key,       \* #sessionKeys
  fails,     \* #authFails: n, and whether `until' lies ahead
  waiting,   \* #waiting
  rows,      \* projects with a running worker
  jobs,      \* handlers that wait for the database, tmux or a model
  told,      \* what each phone shows of each project
  out,       \* the frames of the last step
  sealed,    \* history: open sockets whose phone holds a session key
  asked,     \* history: sockets whose last statuses answered a spoken command
  windows,   \* history: lockouts that expired since the last success
  tried,     \* history: wrong tokens since then, those during lockouts left out
  changes    \* the bound's counter

server == <<authed, key, fails>>
state == <<secured, sock, server, waiting, rows, jobs, told, sealed, asked, windows, tried, changes>>
vars == <<state, out>>

Commands == {"status.get", "command"}
Encrypted == {"welcome", "status", "reply", "push"}  \* what goes through #emit
Content == Encrypted \cup {"failure"}
PlainFrame(s, kind) == [to |-> s, kind |-> kind, enc |-> FALSE]  \* mutant: send, not #emit
Frame(s, kind) == [to |-> s, kind |-> kind, enc |-> key[s]]
Plain(s) == [to |-> s, kind |-> "error", enc |-> FALSE]      \* send: a fixed text
Failure(s) == [to |-> s, kind |-> "failure", enc |-> FALSE]  \* send: err.message
Alive(s) == sock[s] \in {"open", "closing"}
Reached(frames) == {f \in frames : sock[f.to] = "open"}  \* else ws drops them
Hidden == [p \in Project |-> "hidden"]
Statuses == [p \in Project |-> IF p \notin rows THEN "hidden"
                               ELSE IF p \in waiting THEN "waiting" ELSE "active"]
All == "all"

Init ==
  /\ secured \in BOOLEAN
  /\ sock = [s \in Socket |-> "closed"]
  /\ authed = {} /\ key = [s \in Socket |-> FALSE]
  /\ fails = [i \in Ip |-> [n |-> 0, locked |-> FALSE]]
  /\ waiting = {} /\ rows \in SUBSET Project /\ jobs = {}
  /\ told = [s \in Socket |-> Hidden]
  /\ out = {} /\ sealed = {} /\ asked = {}
  /\ windows = [i \in Ip |-> 0] /\ tried = [i \in Ip |-> 0] /\ changes = 0
-----------------------------------------------------------------------------
(* The handshake.                                                          *)
Connect(s) ==  \* a new socket, which no handler of an earlier one replies to
  /\ sock[s] = "closed" /\ \A j \in jobs : j.to # s
  /\ sock' = [sock EXCEPT ![s] = "open"]
  /\ out' = {}
  /\ UNCHANGED <<secured, server, waiting, rows, jobs, told, sealed, asked, windows, tried, changes>>

Refuse(s) ==  \* an error, in plain, and socket.close()
  /\ out' = Reached({Plain(s)})
  /\ sock' = [sock EXCEPT ![s] = "closing"]
  /\ UNCHANGED <<authed, key, told, jobs, sealed, asked>>

FinishAuth(s, sessionKey) ==
  /\ fails' = [fails EXCEPT ![IpOf[s]] = [n |-> 0, locked |-> FALSE]]
  /\ windows' = [windows EXCEPT ![IpOf[s]] = 0] /\ tried' = [tried EXCEPT ![IpOf[s]] = 0]
  /\ authed' = authed \cup {s}
  /\ key' = [key EXCEPT ![s] = @ \/ sessionKey]
  /\ out' = Reached({[to |-> s, kind |-> "welcome", enc |-> key'[s]]})
  /\ told' = [told EXCEPT ![s] = IF sock[s] = "open" THEN Hidden ELSE @]
  /\ jobs' = jobs \cup {[to |-> s, does |-> "initial"]}
  /\ sealed' = IF sessionKey THEN sealed \cup {s} ELSE sealed
  /\ UNCHANGED <<sock, asked>>

CountFailureLate(i) ==  \* mutant: > for >=
  fails' = [fails EXCEPT ![i] = [n |-> @.n + 1, locked |-> @.n + 1 > Limit]]
CountFailure(i) ==
  fails' = [fails EXCEPT ![i] = [n |-> @.n + 1, locked |-> @.n + 1 >= Limit]]

WrongToken(i) == CountFailure(i) /\ tried' = [tried EXCEPT ![i] = @ + 1]

TryAuthLockFirst(s, tokenOk, sessionKey) ==  \* mutant: the lock before the token
  \/ (~secured \/ fails[IpOf[s]].locked) /\ Refuse(s) /\ UNCHANGED <<fails, windows, tried>>
  \/ secured /\ ~fails[IpOf[s]].locked /\ tokenOk /\ FinishAuth(s, sessionKey)
  \/ /\ secured /\ ~fails[IpOf[s]].locked /\ ~tokenOk /\ Refuse(s) /\ UNCHANGED windows
     /\ WrongToken(IpOf[s])
TryAuth(s, tokenOk, sessionKey) ==
  \/ ~secured /\ Refuse(s) /\ UNCHANGED <<fails, windows, tried>>
  \/ secured /\ tokenOk /\ FinishAuth(s, sessionKey)
  \/ /\ secured /\ ~tokenOk /\ Refuse(s) /\ UNCHANGED windows
     /\ IF fails[IpOf[s]].locked THEN UNCHANGED <<fails, tried>> ELSE WrongToken(IpOf[s])

Hello(s, tokenOk) ==
  /\ Alive(s)
  /\ IF IpOf[s] \notin Loopback THEN Refuse(s) /\ UNCHANGED <<fails, windows, tried>>
     ELSE TryAuth(s, tokenOk, FALSE)
  /\ UNCHANGED <<secured, waiting, rows, changes>>

SecureHello(s, tokenOk) ==  \* a hello sealed for another key opens to nothing
  /\ Alive(s)
  /\ TryAuth(s, tokenOk, tokenOk)
  /\ UNCHANGED <<secured, waiting, rows, changes>>

LockExpires(i) ==
  /\ fails[i].locked /\ windows[i] < MaxWindows
  /\ fails' = [fails EXCEPT ![i].locked = FALSE]
  /\ windows' = [windows EXCEPT ![i] = @ + 1]
  /\ out' = {}
  /\ UNCHANGED <<secured, sock, authed, key, waiting, rows, jobs, told, sealed, asked, tried, changes>>

OnClose(s) ==  \* the phone leaves, or the closing handshake ends
  /\ Alive(s)
  /\ sock' = [sock EXCEPT ![s] = "closed"]
  /\ authed' = authed \ {s} /\ key' = [key EXCEPT ![s] = FALSE]
  /\ told' = [told EXCEPT ![s] = Hidden]
  /\ sealed' = sealed \ {s} /\ asked' = asked \ {s}
  /\ out' = {}
  /\ UNCHANGED <<secured, fails, waiting, rows, jobs, windows, tried, changes>>
-----------------------------------------------------------------------------
(* Messages.  An unauthenticated socket gets a pong, an error or nothing.  *)
Send(frames) == out' = Reached(frames)

Ping(s) ==
  /\ Alive(s)
  /\ Send({Frame(s, "pong")})
  /\ UNCHANGED state

BadFrame(s) ==  \* bad_json, or an envelope that does not open
  /\ Alive(s)
  /\ Send({Plain(s)})
  /\ UNCHANGED state

Anyone(s) == sock[s] = "open"  \* mutant: `authenticated' is not looked at
MayCommand(s) == s \in authed

(* One of the commands that are answered; `default' alone says so to a     *)
(* socket that may not give commands.                                      *)
Command(s, does) ==
  /\ Alive(s) /\ Cardinality({j \in jobs : j.does \in Commands}) < MaxCommands
  /\ IF MayCommand(s)
     THEN jobs' = jobs \cup {[to |-> s, does |-> does]} /\ out' = {}
     ELSE UNCHANGED jobs /\ (out' = {} \/ Send({Plain(s)}))
  /\ UNCHANGED <<secured, sock, server, waiting, rows, told, sealed, asked, windows, tried, changes>>

(* The end of a handler.  Each ends at any time, in any order, and also    *)
(* after its socket was closed.  The statuses that answer a spoken command *)
(* are those of the table, without the overlay.                            *)
FromTable == [p \in Project |-> IF p \in rows THEN "active" ELSE "hidden"]
Show(to, statuses) ==
  told' = [s \in Socket |-> IF s \in to /\ sock[s] = "open" THEN statuses ELSE told[s]]
ShowStatus(to) ==
  /\ Send({Frame(s, "status") : s \in to})
  /\ Show(to, Statuses)
  /\ asked' = asked \ to

(* #route: what is spoken, with or without statuses, or an error.  The     *)
(* message of a failed tmux command quotes the text that was to be typed.  *)
Route(s) ==
  \/ Send({Frame(s, "status"), Frame(s, "reply")}) /\ Show({s}, FromTable)
     /\ asked' = IF sock[s] = "open" THEN asked \cup {s} ELSE asked
  \/ (Send({Frame(s, "reply")}) \/ Send({Plain(s)}) \/ Send({Failure(s)})) /\ UNCHANGED <<told, asked>>

Complete(j) ==
  /\ j \in jobs
  /\ jobs' = jobs \ {j}
  /\ \/ j.does = "broadcast" /\ ShowStatus(authed)
     \/ j.does = "status.get" /\ ShowStatus({j.to})
     \/ j.does = "initial" /\ IF rows = {} THEN out' = {} /\ UNCHANGED <<told, asked>>
                              ELSE ShowStatus({j.to})
     \/ j.does = "command" /\ Route(j.to)
  /\ UNCHANGED <<secured, sock, server, waiting, rows, sealed, windows, tried, changes>>
-----------------------------------------------------------------------------
(* What the rest of the process does to it.                                *)
BroadcastWhenIdle ==  \* mutant: not while a handler is under way
  jobs' = IF jobs = {} THEN {[to |-> All, does |-> "broadcast"]} ELSE jobs
Broadcast == jobs' = jobs \cup {[to |-> All, does |-> "broadcast"]}
Changed == changes < MaxChanges /\ changes' = changes + 1 /\ out' = {}

SetWaiting(ps) ==
  /\ Changed /\ ps # waiting
  /\ waiting' = ps
  /\ Broadcast
  /\ UNCHANGED <<secured, sock, server, rows, told, sealed, asked, windows, tried>>

BroadcastStatus(ps) ==  \* discovery adopts or releases
  /\ Changed /\ ps # rows
  /\ rows' = ps
  /\ Broadcast
  /\ UNCHANGED <<secured, sock, server, waiting, told, sealed, asked, windows, tried>>

QuietChange(ps) ==  \* the monitor, a command or a deletion change rows, and tell nobody
  /\ Changed /\ ps # rows
  /\ rows' = ps
  /\ UNCHANGED <<secured, sock, server, waiting, jobs, told, sealed, asked, windows, tried>>

PushEvent ==
  /\ Send({Frame(s, "push") : s \in authed})
  /\ UNCHANGED state

Message(s) ==
  \/ \E ok \in BOOLEAN : Hello(s, ok) \/ SecureHello(s, ok)
  \/ Ping(s) \/ BadFrame(s)
  \/ \E does \in Commands : Command(s, does)
Next ==
  \/ \E s \in Socket : Connect(s) \/ Message(s) \/ OnClose(s)
  \/ \E j \in jobs : Complete(j)
  \/ \E i \in Ip : LockExpires(i)
  \/ \E ps \in SUBSET Project : SetWaiting(ps) \/ BroadcastStatus(ps) \/ QuietChange(ps)
  \/ PushEvent

Spec == Init /\ [][Next]_vars
-----------------------------------------------------------------------------
(* Every variable has its type; a job belongs to a socket or to all.       *)
Jobs == [to : Socket \cup {All}, does : {"initial", "status.get", "command", "broadcast"}]
TypeOK ==
  /\ secured \in BOOLEAN
  /\ sock \in [Socket -> {"open", "closing", "closed"}]
  /\ authed \subseteq Socket /\ key \in [Socket -> BOOLEAN] /\ sealed \subseteq Socket
  /\ asked \subseteq Socket
  /\ fails \in [Ip -> [n : Nat, locked : BOOLEAN]] /\ windows \in [Ip -> 0..MaxWindows]
  /\ tried \in [Ip -> Nat]
  /\ waiting \subseteq Project /\ rows \subseteq Project /\ jobs \subseteq Jobs
  /\ told \in [Socket -> [Project -> {"hidden", "active", "waiting"}]]
  /\ out \subseteq [to : Socket, kind : Content \cup {"error", "pong"}, enc : BOOLEAN]
  /\ changes \in 0..MaxChanges

(* Replies that come late, pushes and broadcasts reach sockets that were   *)
(* welcomed and are still open, and no others.                             *)
ContentIsForPhones == \A f \in out : f.kind \in Content => f.to \in authed

(* Once a phone holds a session key, whatever it is sent about the work is *)
(* encrypted, whatever closes and whatever comes late: all but the error   *)
(* of its own command (server.ts:466).                                     *)
OnlyFailuresArePlain == \A f \in out : f.kind \in Encrypted /\ f.to \in sealed => f.enc

(* The same without exception: server.ts:338-340 "the token is never on    *)
(* the wire and traffic is always E2E", SECURITY.md:25-26.                 *)
TrafficIsEncrypted == \A f \in out : f.kind \in Content /\ f.to \in sealed => f.enc

(* Outside of lockouts an address has Limit wrong tokens before the first  *)
(* lockout and one more after each that ran out: the count is not          *)
(* forgotten with the lock.  What it sends during a lockout is compared    *)
(* with the token too, and is not counted (see LockoutsStopGuessing).      *)
GuessesOutsideLockouts == \A i \in Ip : tried[i] <= Limit + windows[i]

(* During a lockout no guess is compared with the token: docs/SECURITY.md  *)
(* :20-21 "5 bad attempts per IP -> 30s lockout (defeats brute force)".    *)
(* What server.ts:314 wants, OwnerGetsIn, is the opposite.                 *)
LockoutsStopGuessing ==
  [][\A s \in Socket : fails[IpOf[s]].locked /\ s \notin authed => s \notin authed']_vars

(* A session ends with its socket: nothing is broadcast to, or kept for, a *)
(* socket that is gone, and nobody is in while the agent is not set up.    *)
SessionsEndWithSockets ==
  /\ \A s \in authed : Alive(s) /\ secured
  /\ \A s \in Socket : key[s] => s \in authed

(* When no handler is left, every phone that did not ask by voice since    *)
(* marks the projects it shows as WAITING exactly if they wait, in         *)
(* whatever order handlers ended.                                          *)
Settled == \A j \in jobs : j.does = "command"
RightlyMarked(s) ==
  \A p \in Project : told[s][p] # "hidden" => (told[s][p] = "waiting" <=> p \in waiting)
BadgesSettle == Settled => \A s \in authed \ asked : sock[s] = "open" => RightlyMarked(s)

(* The same of every phone: server.ts:267 "Current statuses with the live  *)
(* WAITING overlay (a blocked prompt -> state "waiting")."                 *)
StatusesCarryTheOverlay == Settled => \A s \in authed : sock[s] = "open" => RightlyMarked(s)

(* server.ts:314: "a correct token always gets in (and clears any          *)
(* lockout)", however many wrong ones came from its address.               *)
OwnerGetsIn ==
  [][\A s \in Socket : SecureHello(s, TRUE) /\ secured /\ sock[s] = "open" =>
       s \in authed' /\ ~fails'[IpOf[s]].locked /\ [to |-> s, kind |-> "welcome", enc |-> TRUE] \in out']_vars
=============================================================================
