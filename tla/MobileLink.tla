----------------------------- MODULE MobileLink -----------------------------
(***************************************************************************)
(* The phone's connection: what App.tsx and CatoClient do when the user    *)
(* picks a machine, enters a token, stops or leaves, when a socket opens,  *)
(* is refused, is welcomed or closes, and when a retry is due.             *)
(*                                                                         *)
(* A CatoClient that was told to close keeps its handlers: its frames in   *)
(* flight and its onClose still arrive, at any later time, and act on the  *)
(* App as those of the current client do.  A slot of `conn' holds one      *)
(* client from connect() to onClose and then, if onClose scheduled it, the *)
(* retry, with the arguments of the closure that scheduled it.             *)
(***************************************************************************)
EXTENDS Phone, Naturals

CONSTANTS Token,       \* pairing tokens
          Slot,        \* bound: clients and retries alive at once
          MaxTaps,     \* bound: what the user does
          MaxChanges   \* bound: agents set up or stopped, networks lost

ASSUME NoneIsNone == None \notin Address \cup Token \cup Slot \cup [address : Address, token : Token]
ASSUME Bounds == MaxTaps \in Nat /\ MaxChanges \in Nat

VARIABLES
  reconnect,     \* reconnect.current: the target of the automatic retries
  connected,     \* the App shows the machine (else the list of machines)
  reconnecting,  \* the App shows "Reconnecting..."
  connectingTo,  \* the row that is busy
  client,        \* client.current, until it reports its close
  timer,         \* reconnectTimer.current, while it has not fired
  conn,          \* clients and retries
  tokenFor,      \* the token sheet is open for this address
  gateFor,       \* the set-up sheet is open for this address
  machine,       \* the list: what is known of each address
  fetches,       \* taps that wait for GET /info, with what they read before
  agent,         \* the agents: whether they run, and their token
  taps, changes  \* the bounds' counters

app == <<reconnect, connected, reconnecting, connectingTo, client, timer, conn>>
sheets == <<tokenFor, gateFor>>
vars == <<app, sheets, machine, fetches, agent, taps, changes>>

Free == [st |-> "free"]
Errors == {"not_set_up", "unauthorized", "refused"}  \* refused: any other code
Live == {"connecting", "hello", "welcome", "linked", "lost"} \cup Errors
Conns == {Free} \cup [st : {"waiting"} \cup Live, address : Address, token : Token,
                      pub : BOOLEAN, closing : BOOLEAN]
IsLive(c) == conn[c].st \in Live

Init ==
  /\ reconnect = None /\ connected = FALSE /\ reconnecting = FALSE
  /\ connectingTo = None /\ client = None /\ timer = None
  /\ conn = [c \in Slot |-> Free]
  /\ tokenFor = None /\ gateFor = None
  /\ machine \in [Address -> [secured : {"unknown"}, pub : {FALSE}, token : Token \cup {None}]]
  /\ fetches = {}
  /\ agent \in [Address -> [up : {TRUE}, token : Token \cup {None}]]
  /\ taps = 0 /\ changes = 0
-----------------------------------------------------------------------------
(* connect(address, token) as the closure with `machines' that had pub p.  *)
(* cs: conn without the retry that is just firing or was just cleared.     *)
ClearTimeout(cs) == IF timer # None /\ cs[timer].st = "waiting"
                    THEN [cs EXCEPT ![timer] = Free] ELSE cs
ForgetClient(cs) == cs  \* mutant: the former client is not told to close
CloseClient(cs) == IF client # None THEN [cs EXCEPT ![client].closing = TRUE] ELSE cs

Connect(cs, a, t, p) ==
  LET rest == CloseClient(ClearTimeout(cs)) IN
  \E n \in {c \in Slot : rest[c] = Free} :
    /\ conn' = [rest EXCEPT ![n] = [st |-> "connecting", address |-> a, token |-> t,
                                    pub |-> p, closing |-> FALSE]]
    /\ client' = n
    /\ timer' = None
    /\ reconnect' = [address |-> a, token |-> t]
    /\ connectingTo' = a

StopTimer ==  \* mutant: the target stays
  conn' = ClearTimeout(conn) /\ timer' = None /\ reconnecting' = FALSE /\ UNCHANGED reconnect

StopReconnect ==  \* stopReconnect(), where nothing else changes the same state
  /\ conn' = ClearTimeout(conn)
  /\ timer' = None
  /\ reconnect' = None
  /\ reconnecting' = FALSE

(* The end of handleConnect, for m as the tap read it and /info merged.    *)
Decide(cs, a, m, p) ==
  IF m.secured = "no" THEN gateFor' = a /\ UNCHANGED tokenFor
  ELSE IF m.token = None THEN tokenFor' = a /\ UNCHANGED gateFor
  ELSE Connect(cs, a, m.token, p) /\ UNCHANGED sheets
Connects(m) == m.secured = "yes" /\ m.token # None

HandleConnect(a) ==
  LET m == machine[a] IN
  IF m.secured = "unknown"
  THEN /\ fetches' = fetches \cup {[address |-> a, token |-> m.token, pub |-> m.pub, tap |-> taps]}
       /\ UNCHANGED sheets
  ELSE /\ UNCHANGED fetches
       /\ Decide(conn, a, m, m.pub)
Goes(a) == machine[a].secured # "unknown" /\ Connects(machine[a])
-----------------------------------------------------------------------------
(* The user.  The list of machines is shown only while not connected, and  *)
(* an open sheet covers it.                                                *)
User == taps < MaxTaps /\ taps' = taps + 1
Listed == ~connected /\ tokenFor = None /\ gateFor = None

Tap(a) ==  \* onConnect: stopReconnect(); handleConnect(a)
  /\ User /\ Listed /\ connectingTo # a
  /\ HandleConnect(a)
  /\ IF Goes(a) THEN reconnecting' = FALSE
     ELSE StopReconnect /\ UNCHANGED <<client, connectingTo>>
  /\ UNCHANGED <<connected, machine, agent, changes>>

AddMachine(a) ==  \* the same without stopReconnect(), and the row may be busy
  /\ User /\ Listed
  /\ HandleConnect(a)
  /\ UNCHANGED <<connected, reconnecting, machine, agent, changes>>
  /\ IF Goes(a) THEN TRUE ELSE UNCHANGED app

SubmitToken(t) ==
  /\ User /\ ~connected /\ tokenFor # None
  /\ machine' = [machine EXCEPT ![tokenFor].token = t]
  /\ tokenFor' = None
  /\ Connect(conn, tokenFor, t, machine[tokenFor].pub)
  /\ UNCHANGED <<connected, reconnecting, gateFor, fetches, agent, changes>>

CloseSheet ==  \* either sheet is closed, or "I've run it - enter token"
  /\ ~connected
  /\ \/ tokenFor # None /\ tokenFor' = None /\ UNCHANGED gateFor
     \/ gateFor # None /\ gateFor' = None /\ tokenFor' \in {tokenFor, gateFor}
  /\ UNCHANGED <<app, machine, fetches, agent, taps, changes>>

Stop ==
  /\ User /\ ~connected /\ reconnecting
  /\ StopReconnect
  /\ UNCHANGED <<connected, connectingTo, client, sheets, machine, fetches, agent, changes>>

Disconnect ==
  /\ User /\ connected
  /\ conn' = CloseClient(ClearTimeout(conn))
  /\ timer' = None /\ reconnect' = None /\ reconnecting' = FALSE
  /\ client' = None
  /\ connected' = FALSE
  /\ UNCHANGED <<connectingTo, sheets, machine, fetches, agent, changes>>
-----------------------------------------------------------------------------
(* What arrives at the phone.                                              *)
Info(a) == IF agent[a].token = None THEN "no" ELSE "yes"
Learn(a) == machine' = [machine EXCEPT ![a].secured = Info(a), ![a].pub = TRUE]

(* The answer to a tap's GET /info: decided on what the tap read, by the   *)
(* closure of its render, whatever the user did since.                     *)
FetchDone(f) ==
  /\ fetches' = fetches \ {f}
  /\ IF agent[f.address].up
     THEN LET m == [secured |-> Info(f.address), token |-> f.token] IN
          /\ Learn(f.address)
          /\ Decide(conn, f.address, m, f.pub)
          /\ IF Connects(m) THEN TRUE ELSE UNCHANGED <<reconnect, connectingTo, client, timer, conn>>
     ELSE UNCHANGED <<reconnect, connectingTo, client, timer, conn, sheets, machine>>
  /\ UNCHANGED <<connected, reconnecting, agent, taps, changes>>

Enrich(a) ==  \* the list asks every machine for /info
  /\ ~connected /\ agent[a].up
  /\ Learn(a)
  /\ UNCHANGED <<app, sheets, fetches, agent, taps, changes>>

OnWelcome(c) ==
  /\ conn[c].st = "welcome"
  /\ conn' = [conn EXCEPT ![c].st = "linked"]
  /\ connected' = TRUE /\ connectingTo' = None /\ reconnecting' = FALSE
  /\ machine' = [machine EXCEPT ![conn[c].address].secured = "unknown"]
  /\ UNCHANGED <<reconnect, client, timer, sheets, fetches, agent, taps, changes>>

OnError(c) ==
  /\ conn[c].st \in Errors
  /\ conn' = [conn EXCEPT ![c].st = "lost"]
  /\ connectingTo' = None
  /\ gateFor' = IF conn[c].st = "not_set_up" THEN conn[c].address ELSE gateFor
  /\ tokenFor' = IF conn[c].st = "unauthorized" THEN conn[c].address ELSE tokenFor
  /\ UNCHANGED <<reconnect, connected, reconnecting, client, timer, machine, fetches,
                 agent, taps, changes>>

AgainOnce(c) ==  \* mutant: a retry that fails is the last
  ~reconnecting /\ reconnect # None /\ reconnect.address = conn[c].address
Again(c) == reconnect # None /\ reconnect.address = conn[c].address

OnClose(c) ==  \* of any client, current or not
  /\ IsLive(c)
  /\ conn[c].st = "lost" \/ conn[c].closing
  /\ connected' = FALSE /\ connectingTo' = None
  /\ client' = IF client = c THEN None ELSE client
  /\ IF Again(c)
     THEN /\ conn' = [conn EXCEPT ![c].st = "waiting", ![c].closing = FALSE]
          /\ timer' = c
          /\ reconnecting' = TRUE
     ELSE /\ conn' = [conn EXCEPT ![c] = Free]
          /\ UNCHANGED <<timer, reconnecting>>
  /\ UNCHANGED <<reconnect, sheets, machine, fetches, agent, taps, changes>>

Retry(c) ==  \* a scheduled connect(address, token) is due
  /\ conn[c].st = "waiting"
  /\ Connect([conn EXCEPT ![c] = Free], conn[c].address, conn[c].token, conn[c].pub)
  /\ UNCHANGED <<connected, reconnecting, sheets, machine, fetches, agent, taps, changes>>
-----------------------------------------------------------------------------
(* The sockets and the agents.                                             *)
SetState(c, st) ==
  /\ conn' = [conn EXCEPT ![c].st = st]
  /\ UNCHANGED <<reconnect, connected, reconnecting, connectingTo, client, timer>>
  /\ UNCHANGED <<sheets, machine, fetches, agent, taps, changes>>

Open(c) == /\ conn[c].st = "connecting" /\ ~conn[c].closing
           /\ agent[conn[c].address].up
           /\ SetState(c, "hello")

Fail(c) == /\ conn[c].st = "connecting"
           /\ ~agent[conn[c].address].up
           /\ SetState(c, "refused")   \* onerror, then onclose

Serve(c) ==  \* the agent's answer to hello or secure.hello, from the network
  /\ conn[c].st = "hello"
  /\ LET a == agent[conn[c].address] IN
     \/ ~conn[c].pub /\ SetState(c, "refused")
     \/ conn[c].pub /\ a.token = None /\ SetState(c, "not_set_up")
     \/ conn[c].pub /\ a.token = conn[c].token /\ SetState(c, "welcome")
     \/ /\ conn[c].pub /\ a.token \notin {None, conn[c].token}
        /\ \E st \in {"unauthorized", "refused"} : SetState(c, st)

(* Agents stop, and start with the token of `cato setup' or of a rotation; *)
(* networks fail.                                                          *)
Cut(lost) == conn' = [c \in Slot |-> IF c \in lost THEN [conn[c] EXCEPT !.st = "lost"] ELSE conn[c]]
Established == {c \in Slot : IsLive(c) /\ conn[c].st # "connecting"}

AgentStops(a) ==
  /\ agent[a].up
  /\ agent' = [agent EXCEPT ![a].up = FALSE]
  /\ Cut({c \in Established : conn[c].address = a})

AgentStarts(a, t) ==
  /\ ~agent[a].up
  /\ agent' = [agent EXCEPT ![a] = [up |-> TRUE, token |-> t]]
  /\ UNCHANGED conn

NetworkFails(c) == c \in Established /\ Cut({c}) /\ UNCHANGED agent

World ==
  /\ changes < MaxChanges /\ changes' = changes + 1
  /\ \/ \E a \in Address : AgentStops(a)
     \/ \E a \in Address, t \in Token : AgentStarts(a, t)
     \/ \E c \in Slot : NetworkFails(c)
  /\ UNCHANGED <<reconnect, connected, reconnecting, connectingTo, client, timer>>
  /\ UNCHANGED <<sheets, machine, fetches, taps>>

Socket(c) == Open(c) \/ Fail(c) \/ Serve(c)
Arrival(c) == OnWelcome(c) \/ OnError(c) \/ OnClose(c)
Next ==
  \/ \E a \in Address : Tap(a) \/ AddMachine(a) \/ Enrich(a)
  \/ \E t \in Token : SubmitToken(t)
  \/ CloseSheet \/ Stop \/ Disconnect
  \/ \E f \in fetches : FetchDone(f)
  \/ \E c \in Slot : Socket(c) \/ Arrival(c) \/ Retry(c)
  \/ World

Spec == Init /\ [][Next]_vars
(* Sockets make progress, their events are delivered and timers fire; the  *)
(* user and the agents do what they like.                                  *)
Fairness == \A c \in Slot : WF_vars(Socket(c)) /\ WF_vars(Arrival(c)) /\ WF_vars(Retry(c))
FairSpec == Spec /\ Fairness
-----------------------------------------------------------------------------
(* Properties.                                                             *)

(* Every variable of the App and of its environment has its type.          *)
TypeOK ==
  /\ reconnect \in {None} \cup [address : Address, token : Token]
  /\ connected \in BOOLEAN /\ reconnecting \in BOOLEAN
  /\ connectingTo \in Address \cup {None}
  /\ client \in Slot \cup {None} /\ timer \in Slot \cup {None}
  /\ conn \in [Slot -> Conns]
  /\ tokenFor \in Address \cup {None} /\ gateFor \in Address \cup {None}
  /\ machine \in [Address -> [secured : {"unknown", "no", "yes"}, pub : BOOLEAN,
                              token : Token \cup {None}]]
  /\ fetches \subseteq [address : Address, token : Token \cup {None}, pub : BOOLEAN,
                         tap : 0..MaxTaps]
  /\ agent \in [Address -> [up : BOOLEAN, token : Token \cup {None}]]
  /\ taps \in 0..MaxTaps /\ changes \in 0..MaxChanges

(* However connects, retries and closes interleave, every client but the   *)
(* current one has been told to close: no second session stays open.       *)
OneOpenClient == \A c \in Slot : IsLive(c) /\ ~conn[c].closing => client = c

(* While there is a target, a client for it is alive or a retry for it is  *)
(* scheduled, and "Reconnecting..." is only shown while there is a target: *)
(* the phone never waits for something nobody started.                     *)
TargetIsPursued ==
  /\ reconnect # None => \E c \in Slot : conn[c] # Free /\ conn[c].address = reconnect.address
  /\ reconnecting => reconnect # None

(* The App shows a machine only while some client that was welcomed has    *)
(* not reported its close.                                                 *)
ShownSessionExists == connected => \E c \in Slot : conn[c].st \in {"linked", "lost"}

(* A target without a client gets one, or is given up by the user.         *)
KeepsTrying == (reconnect # None /\ client = None) ~> (client # None \/ reconnect = None)

(* A retry is only ever made for the machine that is the target then:      *)
(* App.tsx:132 "Auto-reconnect with backoff while this is still the active *)
(* target."                                                                *)
RetriesAreForTheTarget ==
  [][\A c \in Slot : Retry(c) => reconnect # None /\ reconnect.address = conn[c].address]_vars
=============================================================================
