---------------------------- MODULE PhoneProofs -----------------------------
(***************************************************************************)
(* The phone.  Its connection, for any number of machines, clients and     *)
(* retries: at most one client is meant to stay, and what the phone shows  *)
(* it waits for, somebody works on.  Its list of machines, for any number  *)
(* of machines, addresses and tokens: no machine is listed twice, and the  *)
(* tokens of confirmed pairings outlive restarts.                          *)
(***************************************************************************)
EXTENDS MobileLink, Machines, TLAPS

\* The current client has not reported its close.
ClientLives == client # None => IsLive(client)
AppInv == OneOpenClient /\ TargetIsPursued /\ ClientLives
LinkInv == TypeOK /\ AppInv

Typed(cs) == cs \in [Slot -> Conns]
\* conn, where some retries that waited are gone.
Trimmed(cs) == Typed(cs) /\ \A c \in Slot : cs[c] = conn[c] \/ (cs[c] = Free /\ conn[c].st = "waiting")

-----------------------------------------------------------------------------
\* Slots are free, wait, or hold a live client.
LEMMA SlotKinds ==
  ASSUME NEW x \in Conns
  PROVE  /\ x = Free \/ x \in [st : {"waiting"} \cup Live, address : Address, token : Token,
                               pub : BOOLEAN, closing : BOOLEAN]
         /\ x.st = "free" <=> x = Free
         /\ x.st \in Live => x # Free
         /\ x.st \notin Live => x.st \in {"free", "waiting"}
BY DEF Conns, Free, Live, Errors

\* A slot changes its state and keeps whom it is for.
LEMMA StateFacts ==
  ASSUME NEW c \in Slot, Typed(conn), conn[c] # Free, NEW st \in {"waiting"} \cup Live,
         conn' = [conn EXCEPT ![c].st = st]
  PROVE  /\ Typed(conn)' /\ conn'[c] # Free
         /\ conn'[c].st = st /\ conn'[c].address = conn[c].address /\ conn'[c].closing = conn[c].closing
         /\ \A d \in Slot \ {c} : conn'[d] = conn[d]
<1>1. conn[c] \in [st : {"waiting"} \cup Live, address : Address, token : Token,
                   pub : BOOLEAN, closing : BOOLEAN]
  BY SlotKinds DEF Typed
<1>2. conn'[c] = [conn[c] EXCEPT !.st = st] /\ \A d \in Slot \ {c} : conn'[d] = conn[d]
  BY DEF Typed
<1>3. /\ [conn[c] EXCEPT !.st = st] \in [st : {"waiting"} \cup Live, address : Address, token : Token,
                                         pub : BOOLEAN, closing : BOOLEAN]
      /\ [conn[c] EXCEPT !.st = st].st = st
      /\ [conn[c] EXCEPT !.st = st].address = conn[c].address
      /\ [conn[c] EXCEPT !.st = st].closing = conn[c].closing
  BY <1>1
<1>4. conn'[c] \in Conns
  BY <1>2, <1>3 DEF Conns
<1>5. Typed(conn)'
  BY <1>2, <1>4 DEF Typed
<1>6. st # "free"
  BY DEF Live, Errors
<1>7. QED
  BY <1>2, <1>3, <1>5, <1>6 DEF Free

\* The retry that waited is cleared; the former client is told to close.
LEMMA ClearFacts ==
  ASSUME NEW cs, Trimmed(cs)
  PROVE  Trimmed(ClearTimeout(cs))
<1>1. CASE timer # None /\ cs[timer].st = "waiting" /\ timer \in Slot
  BY <1>1 DEF ClearTimeout, Trimmed, Typed, Conns, Free
<1>2. CASE timer # None /\ timer \notin Slot
  BY <1>2 DEF ClearTimeout, Trimmed, Typed, Conns, Free
<1>3. CASE ~(timer # None /\ cs[timer].st = "waiting")
  BY <1>3 DEF ClearTimeout
<1>4. QED
  BY <1>1, <1>2, <1>3

LEMMA CloseFacts ==
  ASSUME NEW cs, Trimmed(cs), LinkInv
  PROVE  /\ Typed(CloseClient(cs))
         /\ \A c \in Slot : /\ CloseClient(cs)[c].st \in Live => CloseClient(cs)[c].closing
                            /\ CloseClient(cs)[c].st = cs[c].st
                            /\ CloseClient(cs)[c] = Free <=> cs[c] = Free
                            /\ CloseClient(cs)[c].address = cs[c].address
<1>1. CASE client = None
  <2>1. CloseClient(cs) = cs
    BY <1>1 DEF CloseClient
  <2>2. \A c \in Slot : cs[c].st \in Live => cs[c].closing
    BY <1>1, NoneIsNone DEF Trimmed, Typed, LinkInv, AppInv, OneOpenClient, IsLive, Free, Live, Errors, TypeOK, Conns
  <2>3. QED
    BY <2>1, <2>2 DEF Trimmed
<1>2. CASE client # None
  <2>1. client \in Slot /\ conn[client].st \in Live
    BY <1>2 DEF LinkInv, AppInv, ClientLives, IsLive, TypeOK
  <2>2. cs[client] = conn[client]
    BY <2>1 DEF Trimmed, Live, Errors
  <2>3. conn[client] \in Conns /\ conn[client] # Free
    BY <2>1, SlotKinds DEF LinkInv, TypeOK
  <2>4. conn[client] \in [st : {"waiting"} \cup Live, address : Address, token : Token,
                          pub : BOOLEAN, closing : BOOLEAN]
    BY <2>3, SlotKinds
  <2> DEFINE r == [conn[client] EXCEPT !.closing = TRUE]
  <2>5. /\ r \in [st : {"waiting"} \cup Live, address : Address, token : Token,
                  pub : BOOLEAN, closing : BOOLEAN]
        /\ r.closing = TRUE /\ r.st = conn[client].st /\ r.address = conn[client].address
    BY <2>4
  <2>6. /\ \A c \in Slot \ {client} : CloseClient(cs)[c] = cs[c]
        /\ CloseClient(cs)[client] = r
        /\ CloseClient(cs) = [c \in Slot |-> IF c = client THEN r ELSE cs[c]]
    BY <1>2, <2>1, <2>2 DEF CloseClient, Trimmed, Typed
  <2>7. r # Free
    BY <2>1, <2>5 DEF Free, Live, Errors
  <2> HIDE DEF r
  <2>8. \A c \in Slot \ {client} : cs[c].st \in Live => cs[c].closing
    BY DEF Trimmed, Typed, LinkInv, AppInv, OneOpenClient, IsLive, Free, Live, Errors, TypeOK, Conns
  <2>9. r \in Conns
    BY <2>5 DEF Conns
  <2>10. Typed(CloseClient(cs))
    BY <2>6, <2>9 DEF Typed, Trimmed
  <2>11. QED
    BY <2>2, <2>3, <2>5, <2>6, <2>7, <2>8, <2>10
<1>3. QED
  BY <1>1, <1>2

\* connect(), from a tap, a sheet or a retry.
LEMMA ConnectFacts ==
  ASSUME NEW cs, Trimmed(cs), LinkInv, NEW a \in Address, NEW t \in Token, NEW p \in BOOLEAN,
         Connect(cs, a, t, p)
  PROVE  /\ Typed(conn)' /\ client' \in Slot /\ timer' = None /\ connectingTo' = a
         /\ reconnect' = [address |-> a, token |-> t]
         /\ AppInv'
<1> DEFINE rest == CloseClient(ClearTimeout(cs))
<1>1. Trimmed(ClearTimeout(cs))
  BY ClearFacts
<1>2. Typed(rest) /\ \A c \in Slot : rest[c].st \in Live => rest[c].closing
  BY <1>1, CloseFacts
<1> HIDE DEF rest
<1>3. PICK n \in Slot :
         /\ conn' = [rest EXCEPT ![n] = [st |-> "connecting", address |-> a, token |-> t,
                                         pub |-> p, closing |-> FALSE]]
         /\ client' = n /\ timer' = None /\ connectingTo' = a
         /\ reconnect' = [address |-> a, token |-> t]
  BY DEF Connect, rest
<1> DEFINE new == [st |-> "connecting", address |-> a, token |-> t, pub |-> p, closing |-> FALSE]
<1>4. new \in Conns /\ new # Free /\ new.st \in Live /\ new.address = a
  BY DEF Conns, Live, Free
<1> HIDE DEF new
<1>5. conn' = [rest EXCEPT ![n] = new]
  BY <1>3 DEF new
<1>6. Typed(conn)' /\ conn'[n] = new /\ \A c \in Slot \ {n} : conn'[c] = rest[c]
  BY <1>2, <1>4, <1>5 DEF Typed
<1>7. OneOpenClient'
  BY <1>2, <1>3, <1>6 DEF OneOpenClient, IsLive
<1>8. reconnect'.address = a /\ reconnect' # None
  BY <1>3, NoneIsNone
<1>9. TargetIsPursued'
  BY <1>4, <1>6, <1>8 DEF TargetIsPursued
<1>10. ClientLives'
  BY <1>3, <1>4, <1>6 DEF ClientLives, IsLive
<1>11. QED
  BY <1>3, <1>6, <1>7, <1>9, <1>10 DEF AppInv

-----------------------------------------------------------------------------
\* The taps, the sheets and the buttons.
LEMMA TrimmedConn == ASSUME TypeOK PROVE Trimmed(conn) /\ Trimmed(ClearTimeout(conn))
<1>1. Trimmed(conn)
  BY DEF Trimmed, Typed, TypeOK
<1>2. QED
  BY <1>1, ClearFacts

\* The target is given up.
LEMMA StopFacts ==
  ASSUME LinkInv, conn' = ClearTimeout(conn), timer' = None, reconnect' = None, reconnecting' = FALSE,
         client' = client
  PROVE  Typed(conn)' /\ AppInv'
<1>1. Trimmed(ClearTimeout(conn))
  BY TrimmedConn DEF LinkInv
<1>2. Typed(conn)' /\ \A c \in Slot : conn'[c] = conn[c] \/ (conn'[c] = Free /\ conn[c].st = "waiting")
  BY <1>1 DEF Trimmed, Typed
<1>3. \A c \in Slot : conn[c].st \in Live => conn'[c] = conn[c]
  BY <1>2 DEF Live, Errors
<1>4. \A c \in Slot : conn'[c].st \in Live => conn'[c] = conn[c]
  BY <1>2 DEF Live, Errors, Free
<1>5. client # None => client \in Slot
  BY DEF LinkInv, TypeOK
<1>6. QED
  BY <1>2, <1>3, <1>4, <1>5 DEF LinkInv, AppInv, OneOpenClient, TargetIsPursued, ClientLives, IsLive

\* handleConnect: at most a sheet, or a client that replaces the other.
LEMMA DecideFacts ==
  ASSUME LinkInv, NEW a \in Address, NEW m \in [secured : {"unknown", "no", "yes"}, token : Token \cup {None}],
         NEW p \in BOOLEAN, Decide(conn, a, m, p)
  PROVE  /\ tokenFor' \in Address \cup {None} /\ gateFor' \in Address \cup {None}
         /\ m.secured # "no" /\ m.token # None =>
              /\ Typed(conn)' /\ client' \in Slot /\ timer' = None /\ connectingTo' = a
              /\ reconnect' \in [address : Address, token : Token]
              /\ AppInv'
<1>1. CASE m.secured = "no" \/ m.token = None
  BY <1>1 DEF Decide, LinkInv, TypeOK
<1>2. CASE m.secured # "no" /\ m.token # None
  <2>1. Connect(conn, a, m.token, p) /\ UNCHANGED sheets /\ m.token \in Token
    BY <1>2 DEF Decide
  <2>2. Trimmed(conn)
    BY TrimmedConn DEF LinkInv
  <2>3. /\ Typed(conn)' /\ client' \in Slot /\ timer' = None /\ connectingTo' = a
        /\ reconnect' = [address |-> a, token |-> m.token]
        /\ AppInv'
    BY <2>1, <2>2, ConnectFacts
  <2>4. UNCHANGED <<tokenFor, gateFor>>
    BY <2>1 DEF sheets
  <2>5. QED
    BY <2>1, <2>3, <2>4 DEF LinkInv, TypeOK
<1>3. QED
  BY <1>1, <1>2

LEMMA StutterApp ==
  ASSUME LinkInv, UNCHANGED <<reconnect, reconnecting, client, conn>>
  PROVE  Typed(conn)' /\ AppInv'
BY DEF LinkInv, TypeOK, Typed, AppInv, OneOpenClient, TargetIsPursued, ClientLives, IsLive

\* The target stays, and so does who pursues it.
LEMMA HandleFacts ==
  ASSUME LinkInv, NEW a \in Address, taps < MaxTaps, taps' = taps + 1, HandleConnect(a)
  PROVE  /\ tokenFor' \in Address \cup {None} /\ gateFor' \in Address \cup {None}
         /\ taps' \in 0..MaxTaps
         /\ fetches' \subseteq [address : Address, token : Token \cup {None}, pub : BOOLEAN, tap : 0..MaxTaps]
         /\ Goes(a) =>
              /\ Typed(conn)' /\ client' \in Slot /\ timer' = None /\ connectingTo' = a
              /\ reconnect' \in [address : Address, token : Token]
              /\ AppInv'
<1>1. taps' \in 0..MaxTaps /\ taps \in 0..MaxTaps
  BY Bounds DEF LinkInv, TypeOK
<1> DEFINE m == machine[a]
<1>2. m \in [secured : {"unknown", "no", "yes"}, pub : BOOLEAN, token : Token \cup {None}]
  BY DEF LinkInv, TypeOK
<1>3. CASE m.secured = "unknown"
  <2>1. /\ fetches' = fetches \cup {[address |-> a, token |-> m.token, pub |-> m.pub, tap |-> taps]}
        /\ UNCHANGED <<tokenFor, gateFor>> /\ ~Goes(a)
    BY <1>3 DEF HandleConnect, sheets, Goes
  <2>2. [address |-> a, token |-> m.token, pub |-> m.pub, tap |-> taps]
          \in [address : Address, token : Token \cup {None}, pub : BOOLEAN, tap : 0..MaxTaps]
    BY <1>1, <1>2
  <2>3. QED
    BY <1>1, <2>1, <2>2 DEF LinkInv, TypeOK
<1>4. CASE m.secured # "unknown"
  <2> DEFINE k == [secured |-> m.secured, token |-> m.token]
  <2>1. UNCHANGED fetches /\ Decide(conn, a, m, m.pub) /\ m.pub \in BOOLEAN
    BY <1>2, <1>4 DEF HandleConnect
  <2>2. k \in [secured : {"unknown", "no", "yes"}, token : Token \cup {None}]
        /\ k.secured = m.secured /\ k.token = m.token
    BY <1>2
  <2>3. Decide(conn, a, k, m.pub)
    BY <2>1, <2>2 DEF Decide
  <2>4. Goes(a) => k.secured # "no" /\ k.token # None
    BY <2>2 DEF Goes, Connects
  <2> HIDE DEF k, m
  <2>5. QED
    BY <1>1, <2>1, <2>2, <2>3, <2>4, DecideFacts DEF LinkInv, TypeOK
<1>5. QED
  BY <1>3, <1>4

LEMMA TapFacts ==
  ASSUME LinkInv, NEW a \in Address, Tap(a) \/ AddMachine(a)
  PROVE  LinkInv'
<1>1. taps < MaxTaps /\ taps' = taps + 1 /\ HandleConnect(a)
      /\ UNCHANGED <<connected, machine, agent, changes>>
  BY DEF Tap, AddMachine, User
<1>2. /\ tokenFor' \in Address \cup {None} /\ gateFor' \in Address \cup {None}
      /\ taps' \in 0..MaxTaps
      /\ fetches' \subseteq [address : Address, token : Token \cup {None}, pub : BOOLEAN, tap : 0..MaxTaps]
  BY <1>1, HandleFacts
<1>3. CASE Goes(a)
  <2>1. /\ Typed(conn)' /\ client' \in Slot /\ timer' = None /\ connectingTo' = a
        /\ reconnect' \in [address : Address, token : Token]
        /\ AppInv'
    BY <1>1, <1>3, HandleFacts
  <2>2. reconnecting' \in BOOLEAN
    BY <1>3 DEF Tap, AddMachine, LinkInv, TypeOK
  <2>3. QED
    BY <1>1, <1>2, <2>1, <2>2 DEF LinkInv, TypeOK, Typed
<1>4. CASE ~Goes(a) /\ Tap(a)
  <2>1. StopReconnect /\ UNCHANGED <<client, connectingTo>>
    BY <1>4 DEF Tap
  <2>2. Typed(conn)' /\ AppInv'
    BY <2>1, StopFacts DEF StopReconnect
  <2>3. QED
    BY <1>1, <1>2, <2>1, <2>2 DEF LinkInv, TypeOK, Typed, StopReconnect
<1>5. CASE ~Goes(a) /\ AddMachine(a)
  <2>1. UNCHANGED <<reconnect, connected, reconnecting, connectingTo, client, timer, conn>>
    BY <1>5 DEF AddMachine, app
  <2>2. AppInv'
    BY <2>1, StutterApp
  <2>3. QED
    BY <1>1, <1>2, <2>1, <2>2 DEF LinkInv, TypeOK
<1>6. QED
  BY <1>3, <1>4, <1>5

LEMMA SheetFacts ==
  ASSUME LinkInv, (\E t \in Token : SubmitToken(t)) \/ CloseSheet \/ Stop \/ Disconnect
  PROVE  LinkInv'
<1>0. ASSUME User PROVE taps' \in 0..MaxTaps
  BY <1>0, Bounds DEF User, LinkInv, TypeOK
<1>1. ASSUME NEW t \in Token, SubmitToken(t) PROVE LinkInv'
  <2>1. tokenFor \in Address /\ machine[tokenFor].pub \in BOOLEAN
    BY <1>1 DEF SubmitToken, LinkInv, TypeOK
  <2>2. Connect(conn, tokenFor, t, machine[tokenFor].pub)
    BY <1>1 DEF SubmitToken
  <2>3. Trimmed(conn)
    BY TrimmedConn DEF LinkInv
  <2>4. /\ Typed(conn)' /\ client' \in Slot /\ timer' = None /\ connectingTo' = tokenFor
        /\ reconnect' = [address |-> tokenFor, token |-> t]
        /\ AppInv'
    BY <2>1, <2>2, <2>3, ConnectFacts
  <2>5. machine' \in [Address -> [secured : {"unknown", "no", "yes"}, pub : BOOLEAN, token : Token \cup {None}]]
    <3>1. machine' = [machine EXCEPT ![tokenFor].token = t]
      BY <1>1 DEF SubmitToken
    <3>2. QED
      BY <2>1, <3>1 DEF LinkInv, TypeOK
  <2>6. UNCHANGED <<connected, reconnecting, gateFor, fetches, agent, changes>> /\ tokenFor' = None
        /\ taps' \in 0..MaxTaps
    BY <1>0, <1>1 DEF SubmitToken
  <2>7. QED
    BY <2>1, <2>4, <2>5, <2>6 DEF LinkInv, TypeOK, Typed
<1>2. CASE CloseSheet
  <2>1. UNCHANGED <<reconnect, connected, reconnecting, connectingTo, client, timer, conn>>
        /\ UNCHANGED <<machine, fetches, agent, taps, changes>>
        /\ tokenFor' \in {tokenFor, gateFor, None} /\ gateFor' \in {gateFor, None}
    BY <1>2 DEF CloseSheet, app
  <2>2. AppInv'
    BY <2>1, StutterApp
  <2>3. QED
    BY <2>1, <2>2 DEF LinkInv, TypeOK
<1>3. CASE Stop
  <2>1. StopReconnect /\ UNCHANGED client
    BY <1>3 DEF Stop
  <2>2. Typed(conn)' /\ AppInv'
    BY <2>1, StopFacts DEF StopReconnect
  <2>3. QED
    BY <1>0, <1>3, <2>1, <2>2 DEF Stop, LinkInv, TypeOK, Typed, StopReconnect, sheets
<1>4. CASE Disconnect
  <2>1. Trimmed(ClearTimeout(conn))
    BY TrimmedConn DEF LinkInv
  <2>2. Typed(conn)' /\ \A c \in Slot : conn'[c].st \in Live => conn'[c].closing
    BY <1>4, <2>1, CloseFacts DEF Disconnect, Typed
  <2>3. AppInv'
    BY <1>4, <2>2 DEF Disconnect, AppInv, OneOpenClient, TargetIsPursued, ClientLives, IsLive
  <2>4. QED
    BY <1>0, <1>4, <2>2, <2>3 DEF Disconnect, LinkInv, TypeOK, Typed, sheets
<1>5. QED
  BY <1>1, <1>2, <1>3, <1>4

-----------------------------------------------------------------------------
\* What arrives.
LEMMA LearnFacts ==
  ASSUME TypeOK, NEW a \in Address, Learn(a)
  PROVE  machine' \in [Address -> [secured : {"unknown", "no", "yes"}, pub : BOOLEAN, token : Token \cup {None}]]
<1>1. machine[a] \in [secured : {"unknown", "no", "yes"}, pub : BOOLEAN, token : Token \cup {None}]
  BY DEF TypeOK
<1> DEFINE r == [[machine[a] EXCEPT !.secured = Info(a)] EXCEPT !.pub = TRUE]
<1>2. r \in [secured : {"unknown", "no", "yes"}, pub : BOOLEAN, token : Token \cup {None}]
  BY <1>1 DEF Info
<1>3. machine' = [machine EXCEPT ![a] = r]
  BY DEF Learn, TypeOK
<1> HIDE DEF r
<1>4. QED
  BY <1>2, <1>3 DEF TypeOK

LEMMA FetchFacts ==
  ASSUME LinkInv, (\E f \in fetches : FetchDone(f)) \/ \E a \in Address : Enrich(a)
  PROVE  LinkInv'
<1>1. ASSUME NEW f \in fetches, FetchDone(f) PROVE LinkInv'
  <2>1. f \in [address : Address, token : Token \cup {None}, pub : BOOLEAN, tap : 0..MaxTaps]
    BY DEF LinkInv, TypeOK
  <2>2. /\ fetches' \subseteq [address : Address, token : Token \cup {None}, pub : BOOLEAN, tap : 0..MaxTaps]
        /\ UNCHANGED <<connected, reconnecting, agent, taps, changes>>
    BY <1>1 DEF FetchDone, LinkInv, TypeOK
  <2>3. CASE agent[f.address].up
    <3> DEFINE m == [secured |-> Info(f.address), token |-> f.token]
    <3>1. Learn(f.address) /\ Decide(conn, f.address, m, f.pub)
          /\ (~Connects(m) => UNCHANGED <<reconnect, connectingTo, client, timer, conn>>)
      BY <1>1, <2>3 DEF FetchDone
    <3>2. m \in [secured : {"unknown", "no", "yes"}, token : Token \cup {None}]
          /\ (~Connects(m) <=> m.secured = "no" \/ m.token = None)
      BY <2>1 DEF Info, Connects
    <3> HIDE DEF m
    <3>3. machine' \in [Address -> [secured : {"unknown", "no", "yes"}, pub : BOOLEAN, token : Token \cup {None}]]
      BY <2>1, <3>1, LearnFacts DEF LinkInv
    <3>4. tokenFor' \in Address \cup {None} /\ gateFor' \in Address \cup {None}
      BY <2>1, <3>1, <3>2, DecideFacts
    <3>5. CASE Connects(m)
      <4>1. /\ Typed(conn)' /\ client' \in Slot /\ timer' = None /\ connectingTo' = f.address
            /\ reconnect' \in [address : Address, token : Token]
            /\ AppInv'
        BY <2>1, <3>1, <3>2, <3>5, DecideFacts
      <4>2. QED
        BY <2>1, <2>2, <3>3, <3>4, <4>1 DEF LinkInv, TypeOK, Typed
    <3>6. CASE ~Connects(m)
      <4>1. UNCHANGED <<reconnect, connectingTo, client, timer, conn>>
        BY <3>1, <3>6
      <4>2. AppInv'
        BY <2>2, <4>1, StutterApp
      <4>3. QED
        BY <2>2, <3>3, <3>4, <4>1, <4>2 DEF LinkInv, TypeOK
    <3>7. QED
      BY <3>5, <3>6
  <2>4. CASE ~agent[f.address].up
    <3>1. UNCHANGED <<reconnect, connectingTo, client, timer, conn, tokenFor, gateFor, machine>>
      BY <1>1, <2>4 DEF FetchDone, sheets
    <3>2. AppInv'
      BY <2>2, <3>1, StutterApp
    <3>3. QED
      BY <2>2, <3>1, <3>2 DEF LinkInv, TypeOK
  <2>5. QED
    BY <2>3, <2>4
<1>2. ASSUME NEW a \in Address, Enrich(a) PROVE LinkInv'
  <2>1. UNCHANGED <<reconnect, connected, reconnecting, connectingTo, client, timer, conn>>
        /\ UNCHANGED <<tokenFor, gateFor, fetches, agent, taps, changes>>
    BY <1>2 DEF Enrich, app, sheets
  <2>2. machine' \in [Address -> [secured : {"unknown", "no", "yes"}, pub : BOOLEAN, token : Token \cup {None}]]
    BY <1>2, LearnFacts DEF Enrich, LinkInv
  <2>3. AppInv'
    BY <2>1, StutterApp
  <2>4. QED
    BY <2>1, <2>2, <2>3 DEF LinkInv, TypeOK
<1>3. QED
  BY <1>1, <1>2

\* A live client goes on and stays live: no event but its close, a new
\* connect() and the end of the target can break what the App waits for.
LEMMA ProgressFacts ==
  ASSUME LinkInv, NEW c \in Slot, IsLive(c), NEW st \in Live, conn' = [conn EXCEPT ![c].st = st],
         UNCHANGED <<reconnect, client>>, reconnecting' => reconnecting
  PROVE  Typed(conn)' /\ AppInv'
<1>1. Typed(conn) /\ conn[c] # Free
  BY SlotKinds DEF LinkInv, TypeOK, Typed, IsLive
<1>2. /\ Typed(conn)' /\ conn'[c] # Free
      /\ conn'[c].st = st /\ conn'[c].address = conn[c].address /\ conn'[c].closing = conn[c].closing
      /\ \A d \in Slot \ {c} : conn'[d] = conn[d]
  BY <1>1, StateFacts
<1>3. OneOpenClient'
  BY <1>2 DEF LinkInv, AppInv, OneOpenClient, IsLive
<1>4. TargetIsPursued'
  BY <1>2 DEF LinkInv, AppInv, TargetIsPursued
<1>5. ClientLives'
  BY <1>2 DEF LinkInv, AppInv, ClientLives, IsLive, TypeOK
<1>6. QED
  BY <1>2, <1>3, <1>4, <1>5 DEF AppInv

LEMMA SocketFacts ==
  ASSUME LinkInv, NEW c \in Slot, Socket(c) \/ OnWelcome(c) \/ OnError(c)
  PROVE  LinkInv'
<1>1. ASSUME NEW st \in Live, IsLive(c), SetState(c, st) PROVE LinkInv'
  <2>1. /\ conn' = [conn EXCEPT ![c].st = st]
        /\ UNCHANGED <<reconnect, connected, reconnecting, connectingTo, client, timer>>
        /\ UNCHANGED <<tokenFor, gateFor, machine, fetches, agent, taps, changes>>
    BY <1>1 DEF SetState, sheets
  <2>2. Typed(conn)' /\ AppInv'
    BY <1>1, <2>1, ProgressFacts
  <2>3. QED
    BY <2>1, <2>2 DEF LinkInv, TypeOK, Typed
<1>2. CASE Socket(c)
  BY <1>1, <1>2 DEF Socket, Open, Fail, Serve, IsLive, Live, Errors
<1>3. CASE OnWelcome(c)
  <2>1. IsLive(c) /\ "linked" \in Live
    BY <1>3 DEF OnWelcome, IsLive, Live
  <2>2. Typed(conn)' /\ AppInv'
    BY <1>3, <2>1, ProgressFacts DEF OnWelcome
  <2>3. conn[c].address \in Address
    BY <2>1, SlotKinds DEF LinkInv, TypeOK, IsLive
  <2>4. machine' \in [Address -> [secured : {"unknown", "no", "yes"}, pub : BOOLEAN, token : Token \cup {None}]]
    BY <1>3, <2>3 DEF OnWelcome, LinkInv, TypeOK
  <2>5. QED
    BY <1>3, <2>2, <2>4 DEF OnWelcome, LinkInv, TypeOK, Typed, sheets
<1>4. CASE OnError(c)
  <2>1. IsLive(c) /\ "lost" \in Live
    BY <1>4 DEF OnError, IsLive, Live
  <2>2. Typed(conn)' /\ AppInv'
    BY <1>4, <2>1, ProgressFacts DEF OnError
  <2>3. conn[c].address \in Address
    BY <2>1, SlotKinds DEF LinkInv, TypeOK, IsLive
  <2>4. tokenFor' \in Address \cup {None} /\ gateFor' \in Address \cup {None}
    BY <1>4, <2>3 DEF OnError, LinkInv, TypeOK
  <2>5. QED
    BY <1>4, <2>2, <2>4 DEF OnError, LinkInv, TypeOK, Typed
<1>5. QED
  BY <1>2, <1>3, <1>4

LEMMA CloseEventFacts ==
  ASSUME LinkInv, NEW c \in Slot, OnClose(c)
  PROVE  LinkInv'
<1>0. /\ IsLive(c) /\ conn[c] # Free /\ Typed(conn) /\ conn[c] \in Conns
      /\ client' = (IF client = c THEN None ELSE client)
      /\ connected' = FALSE /\ connectingTo' = None
      /\ UNCHANGED <<reconnect, tokenFor, gateFor, machine, fetches, agent, taps, changes>>
  BY SlotKinds DEF OnClose, IsLive, LinkInv, TypeOK, Typed, sheets
<1>1. CASE Again(c)
  <2> DEFINE w == [[conn[c] EXCEPT !.st = "waiting"] EXCEPT !.closing = FALSE]
  <2>1. conn[c] \in [st : {"waiting"} \cup Live, address : Address, token : Token,
                     pub : BOOLEAN, closing : BOOLEAN]
    BY <1>0, SlotKinds
  <2>2. /\ w \in Conns /\ w.st = "waiting" /\ w.address = conn[c].address
    BY <2>1 DEF Conns
  <2>3. conn' = [conn EXCEPT ![c] = w] /\ timer' = c /\ reconnecting' = TRUE
    BY <1>0, <1>1 DEF OnClose, Typed
  <2>4. w # Free /\ "waiting" \notin Live
    BY <2>2 DEF Free, Live, Errors
  <2> HIDE DEF w
  <2>5. Typed(conn)' /\ conn'[c] = w /\ \A d \in Slot \ {c} : conn'[d] = conn[d]
    BY <1>0, <2>2, <2>3 DEF Typed
  <2>6. reconnect # None /\ reconnect.address = conn[c].address
    BY <1>1 DEF Again
  <2>7. OneOpenClient' /\ ClientLives'
    BY <1>0, <2>2, <2>4, <2>5 DEF LinkInv, AppInv, OneOpenClient, ClientLives, IsLive, TypeOK
  <2>8. TargetIsPursued'
    BY <1>0, <2>2, <2>4, <2>5, <2>6 DEF TargetIsPursued
  <2>9. QED
    BY <1>0, <2>3, <2>5, <2>7, <2>8 DEF LinkInv, AppInv, TypeOK, Typed
<1>2. CASE ~Again(c)
  <2>1. conn' = [conn EXCEPT ![c] = Free] /\ UNCHANGED <<timer, reconnecting>>
    BY <1>2 DEF OnClose
  <2>2. Free \in Conns /\ Free.st \notin Live
    BY DEF Conns, Free, Live, Errors
  <2>3. Typed(conn)' /\ conn'[c] = Free /\ \A d \in Slot \ {c} : conn'[d] = conn[d]
    BY <1>0, <2>1, <2>2 DEF Typed
  <2>4. OneOpenClient' /\ ClientLives'
    BY <1>0, <2>2, <2>3 DEF LinkInv, AppInv, OneOpenClient, ClientLives, IsLive, TypeOK
  <2>5. TargetIsPursued'
    BY <1>0, <1>2, <2>1, <2>3 DEF LinkInv, AppInv, TargetIsPursued, Again
  <2>6. QED
    BY <1>0, <2>1, <2>3, <2>4, <2>5 DEF LinkInv, AppInv, TypeOK, Typed
<1>3. QED
  BY <1>1, <1>2

LEMMA RetryFacts ==
  ASSUME LinkInv, NEW c \in Slot, Retry(c)
  PROVE  LinkInv'
<1>1. /\ conn[c].st = "waiting" /\ conn[c].address \in Address /\ conn[c].token \in Token
      /\ conn[c].pub \in BOOLEAN
  BY DEF Retry, LinkInv, TypeOK, Conns, Free
<1>2. Connect([conn EXCEPT ![c] = Free], conn[c].address, conn[c].token, conn[c].pub)
      /\ UNCHANGED <<connected, reconnecting, tokenFor, gateFor, machine, fetches, agent, taps, changes>>
  BY DEF Retry, sheets
<1>3. Trimmed([conn EXCEPT ![c] = Free])
  BY <1>1 DEF Trimmed, Typed, LinkInv, TypeOK, Conns
<1>4. /\ Typed(conn)' /\ client' \in Slot /\ timer' = None /\ connectingTo' = conn[c].address
      /\ reconnect' = [address |-> conn[c].address, token |-> conn[c].token]
      /\ AppInv'
  BY <1>1, <1>2, <1>3, ConnectFacts
<1>5. QED
  BY <1>1, <1>2, <1>4 DEF LinkInv, TypeOK, Typed

LEMMA WorldFacts ==
  ASSUME LinkInv, World
  PROVE  LinkInv'
<1>1. /\ changes' \in 0..MaxChanges
      /\ UNCHANGED <<reconnect, connected, reconnecting, connectingTo, client, timer>>
      /\ UNCHANGED <<tokenFor, gateFor, machine, fetches, taps>>
  BY Bounds DEF World, LinkInv, TypeOK, sheets
<1>2. /\ agent' \in [Address -> [up : BOOLEAN, token : Token \cup {None}]]
      /\ \/ UNCHANGED conn
         \/ \E lost \in SUBSET Established : Cut(lost)
  <2>1. ASSUME NEW a \in Address, AgentStops(a) PROVE <1>2!1 /\ \E lost \in SUBSET Established : Cut(lost)
    BY <2>1 DEF AgentStops, LinkInv, TypeOK
  <2>2. ASSUME NEW a \in Address, NEW t \in Token, AgentStarts(a, t) PROVE <1>2!1 /\ UNCHANGED conn
    BY <2>2 DEF AgentStarts, LinkInv, TypeOK
  <2>3. ASSUME NEW c \in Slot, NetworkFails(c) PROVE <1>2!1 /\ \E lost \in SUBSET Established : Cut(lost)
    BY <2>3 DEF NetworkFails, LinkInv, TypeOK
  <2>4. QED
    BY <2>1, <2>2, <2>3 DEF World
<1>3. CASE UNCHANGED conn
  <2>1. AppInv'
    BY <1>1, <1>3, StutterApp
  <2>2. QED
    BY <1>1, <1>2, <1>3, <2>1 DEF LinkInv, TypeOK
<1>4. ASSUME NEW lost \in SUBSET Established, Cut(lost) PROVE LinkInv'
  <2>1. ASSUME NEW c \in Slot
        PROVE  /\ conn'[c] \in Conns
               /\ IsLive(c)' <=> IsLive(c)
               /\ conn'[c] = Free <=> conn[c] = Free
               /\ IsLive(c) => conn'[c].closing = conn[c].closing
               /\ conn[c] # Free => conn'[c].address = conn[c].address
    <3>0. conn[c] \in Conns
      BY DEF LinkInv, TypeOK
    <3>1. CASE c \notin lost
      BY <1>4, <3>0, <3>1 DEF Cut, IsLive
    <3>2. CASE c \in lost
      <4>1. IsLive(c) /\ conn[c] # Free
        BY <3>0, <3>2, SlotKinds DEF Established, IsLive
      <4>2. conn[c] \in [st : {"waiting"} \cup Live, address : Address, token : Token,
                         pub : BOOLEAN, closing : BOOLEAN]
        BY <3>0, <4>1, SlotKinds
      <4>3. conn'[c] = [conn[c] EXCEPT !.st = "lost"]
        BY <1>4, <3>2 DEF Cut
      <4>4. /\ [conn[c] EXCEPT !.st = "lost"] \in Conns
            /\ [conn[c] EXCEPT !.st = "lost"].st = "lost"
            /\ [conn[c] EXCEPT !.st = "lost"].closing = conn[c].closing
            /\ [conn[c] EXCEPT !.st = "lost"].address = conn[c].address
        BY <4>2 DEF Conns, Live
      <4>5. QED
        BY <4>1, <4>3, <4>4 DEF IsLive, Live, Free
    <3>3. QED
      BY <3>1, <3>2
  <2>2. Typed(conn)'
    BY <1>4, <2>1 DEF Cut, Typed
  <2>3. OneOpenClient' /\ ClientLives' /\ TargetIsPursued'
    <3>1. OneOpenClient'
      BY <1>1, <2>1 DEF LinkInv, AppInv, OneOpenClient
    <3>2. ClientLives'
      BY <1>1, <2>1 DEF LinkInv, AppInv, ClientLives, TypeOK
    <3>3. TargetIsPursued'
      BY <1>1, <2>1 DEF LinkInv, AppInv, TargetIsPursued
    <3>4. QED
      BY <3>1, <3>2, <3>3
  <2>4. QED
    BY <1>1, <1>2, <2>2, <2>3 DEF LinkInv, AppInv, TypeOK, Typed
<1>5. QED
  BY <1>2, <1>3, <1>4

-----------------------------------------------------------------------------
LEMMA LinkInvHolds == Spec => []LinkInv
<1>1. Init => LinkInv
  <2> SUFFICES ASSUME Init PROVE LinkInv
    OBVIOUS
  <2>1. MaxTaps \in Nat /\ MaxChanges \in Nat
    BY Bounds
  <2>2. TypeOK
    <3>1. /\ machine \in [Address -> [secured : {"unknown", "no", "yes"}, pub : BOOLEAN, token : Token \cup {None}]]
          /\ agent \in [Address -> [up : BOOLEAN, token : Token \cup {None}]]
      BY DEF Init
    <3>2. conn \in [Slot -> Conns]
      BY DEF Init, Conns
    <3>3. /\ reconnect = None /\ connected = FALSE /\ reconnecting = FALSE /\ connectingTo = None
          /\ client = None /\ timer = None /\ tokenFor = None /\ gateFor = None /\ fetches = {}
          /\ taps = 0 /\ changes = 0
      BY DEF Init
    <3>4. taps \in 0..MaxTaps /\ changes \in 0..MaxChanges
      BY <2>1, <3>3
    <3>5. QED
      BY <3>1, <3>2, <3>3, <3>4 DEF TypeOK
  <2>3. \A c \in Slot : ~IsLive(c)
    BY DEF Init, IsLive, Free, Live, Errors
  <2>4. QED
    BY <2>2, <2>3 DEF Init, LinkInv, AppInv, OneOpenClient, TargetIsPursued, ClientLives
<1>2. LinkInv /\ [Next]_vars => LinkInv'
  <2> SUFFICES ASSUME LinkInv, [Next]_vars PROVE LinkInv'
    OBVIOUS
  <2>1. ASSUME NEW a \in Address, Tap(a) \/ AddMachine(a) PROVE LinkInv'
    BY <2>1, TapFacts
  <2>2. CASE (\E a \in Address : Enrich(a)) \/ \E f \in fetches : FetchDone(f)
    BY <2>2, FetchFacts
  <2>3. CASE (\E t \in Token : SubmitToken(t)) \/ CloseSheet \/ Stop \/ Disconnect
    BY <2>3, SheetFacts
  <2>4. ASSUME NEW c \in Slot, Socket(c) \/ Arrival(c) \/ Retry(c) PROVE LinkInv'
    BY <2>4, SocketFacts, CloseEventFacts, RetryFacts DEF Arrival
  <2>5. CASE World
    BY <2>5, WorldFacts
  <2>6. CASE UNCHANGED vars
    <3>1. UNCHANGED <<reconnect, connected, reconnecting, connectingTo, client, timer, conn>>
          /\ UNCHANGED <<tokenFor, gateFor, machine, fetches, agent, taps, changes>>
      BY <2>6 DEF vars, app, sheets
    <3>2. AppInv'
      BY <3>1, StutterApp
    <3>3. QED
      BY <3>1, <3>2 DEF LinkInv, TypeOK
  <2>7. QED
    BY <2>1, <2>2, <2>3, <2>4, <2>5, <2>6 DEF Next
<1>3. QED
  BY <1>1, <1>2, PTL DEF Spec

\* Every variable of the App and of its environment has its type.
THEOREM PhoneTypes == Spec => []TypeOK
<1>1. LinkInv => TypeOK
  BY DEF LinkInv
<1>2. QED
  BY <1>1, LinkInvHolds, PTL

\* However connect(), retries and closes interleave (App.tsx:86-90), every
\* client but the current one has been told to close.
THEOREM OneClientStays == Spec => []OneOpenClient
<1>1. LinkInv => OneOpenClient
  BY DEF LinkInv, AppInv
<1>2. QED
  BY <1>1, LinkInvHolds, PTL

\* While there is a target, a client or a retry is there for it, and
\* "Reconnecting..." is shown only while there is one (App.tsx:129-138).
THEOREM TargetStaysPursued == Spec => []TargetIsPursued
<1>1. LinkInv => TargetIsPursued
  BY DEF LinkInv, AppInv
<1>2. QED
  BY <1>1, LinkInvHolds, PTL

\* The session of the phone, once it was welcomed, until it reports its close.
SessionsStay == \A c \in Slot : conn[c].st \in {"linked", "lost"} => conn'[c].st \in {"linked", "lost"}

LEMMA ConnectKeepsSessions ==
  ASSUME NEW cs, Trimmed(cs), LinkInv, NEW a \in Address, NEW t \in Token, NEW p \in BOOLEAN,
         Connect(cs, a, t, p)
  PROVE  SessionsStay
<1> DEFINE rest == CloseClient(ClearTimeout(cs))
<1>1. Trimmed(ClearTimeout(cs))
  BY ClearFacts
<1>2. Typed(rest) /\ \A c \in Slot : rest[c].st = ClearTimeout(cs)[c].st
  BY <1>1, CloseFacts
<1>3. \A c \in Slot : conn[c].st \in {"linked", "lost"} => rest[c].st = conn[c].st
  BY <1>1, <1>2 DEF Trimmed
<1> HIDE DEF rest
<1>4. PICK n \in Slot : /\ rest[n] = Free
                        /\ conn' = [rest EXCEPT ![n] = [st |-> "connecting", address |-> a, token |-> t,
                                                        pub |-> p, closing |-> FALSE]]
  BY DEF Connect, rest
<1>5. \A c \in Slot \ {n} : conn'[c] = rest[c]
  BY <1>2, <1>4 DEF Typed
<1>6. conn[n].st \notin {"linked", "lost"}
  BY <1>3, <1>4 DEF Free
<1>7. QED
  BY <1>3, <1>5, <1>6 DEF SessionsStay

\* What the user does opens and closes clients, and ends no session by itself.
LEMMA UserKeepsSessions ==
  ASSUME LinkInv,
         \/ \E a \in Address : Tap(a) \/ AddMachine(a)
         \/ \E t \in Token : SubmitToken(t)
         \/ CloseSheet \/ Stop \/ Disconnect
         \/ \E f \in fetches : FetchDone(f)
  PROVE  SessionsStay /\ (connected' => connected)
<1>1. Trimmed(conn) /\ Trimmed(ClearTimeout(conn))
  BY TrimmedConn DEF LinkInv
<1>2. ASSUME conn' = ClearTimeout(conn) PROVE SessionsStay
  BY <1>1, <1>2 DEF SessionsStay, Trimmed
<1>3. ASSUME NEW a \in Address, NEW m, m.token \in Token \cup {None}, NEW p \in BOOLEAN,
             Decide(conn, a, m, p)
      PROVE  SessionsStay \/ ~(m.secured # "no" /\ m.token # None)
  BY <1>1, <1>3, ConnectKeepsSessions DEF Decide
<1>4. ASSUME NEW a \in Address, Tap(a) \/ AddMachine(a)
      PROVE  SessionsStay /\ (connected' => connected)
  <2>1. machine[a].token \in Token \cup {None} /\ machine[a].pub \in BOOLEAN
    BY DEF LinkInv, TypeOK
  <2>2. CASE Goes(a)
    BY <1>3, <1>4, <2>1, <2>2 DEF Tap, AddMachine, HandleConnect, Goes, Connects
  <2>3. CASE ~Goes(a)
    <3>1. conn' = ClearTimeout(conn) \/ conn' = conn
      BY <1>4, <2>3 DEF Tap, AddMachine, StopReconnect, app
    <3>2. connected' = connected
      BY <1>4 DEF Tap, AddMachine
    <3>3. QED
      BY <1>2, <3>1, <3>2 DEF SessionsStay
  <2>4. QED
    BY <2>2, <2>3
<1>5. ASSUME NEW t \in Token, SubmitToken(t)
      PROVE  SessionsStay /\ (connected' => connected)
  <2>1. tokenFor \in Address /\ machine[tokenFor].pub \in BOOLEAN
    BY <1>5 DEF SubmitToken, LinkInv, TypeOK
  <2>2. QED
    BY <1>1, <1>5, <2>1, ConnectKeepsSessions DEF SubmitToken
<1>6. ASSUME NEW f \in fetches, FetchDone(f)
      PROVE  SessionsStay /\ (connected' => connected)
  <2> DEFINE m == [secured |-> Info(f.address), token |-> f.token]
  <2>1. f.address \in Address /\ f.token \in Token \cup {None} /\ f.pub \in BOOLEAN
    BY DEF LinkInv, TypeOK
  <2>2. connected' = connected
    BY <1>6 DEF FetchDone
  <2>3. CASE agent[f.address].up /\ Connects(m)
    <3>1. Decide(conn, f.address, m, f.pub)
      BY <1>6, <2>3 DEF FetchDone
    <3>2. m.secured # "no" /\ m.token # None /\ m.token \in Token \cup {None}
      BY <2>1, <2>3 DEF Connects
    <3> HIDE DEF m
    <3>3. QED
      BY <1>3, <2>1, <2>2, <3>1, <3>2
  <2>4. CASE ~(agent[f.address].up /\ Connects(m))
    <3>1. conn' = conn
      BY <1>6, <2>4 DEF FetchDone
    <3>2. QED
      BY <2>2, <3>1 DEF SessionsStay
  <2>5. QED
    BY <2>3, <2>4
<1>7. ASSUME CloseSheet \/ Stop
      PROVE  SessionsStay /\ (connected' => connected)
  <2>1. (conn' = ClearTimeout(conn) \/ conn' = conn) /\ connected' = connected
    BY <1>7 DEF CloseSheet, Stop, StopReconnect, app
  <2>2. QED
    BY <1>2, <2>1 DEF SessionsStay
<1>8. ASSUME Disconnect
      PROVE  SessionsStay /\ (connected' => connected)
  <2>1. \A c \in Slot : conn'[c].st = ClearTimeout(conn)[c].st
    BY <1>1, <1>8, CloseFacts DEF Disconnect
  <2>2. QED
    BY <1>1, <1>8, <2>1 DEF Disconnect, SessionsStay, Trimmed
<1>9. QED
  BY <1>4, <1>5, <1>6, <1>7, <1>8

\* Sockets, the network and retries end no session either; only its close does,
\* which leaves the view.
LEMMA SocketsKeepSessions ==
  ASSUME LinkInv, ShownSessionExists, NEW c \in Slot, Socket(c) \/ Arrival(c) \/ Retry(c)
  PROVE  ShownSessionExists'
<1>1. conn \in [Slot -> Conns]
  BY DEF LinkInv, TypeOK
<1>2. ASSUME Socket(c) \/ OnError(c)
      PROVE  SessionsStay /\ connected' = connected
  <2>1. PICK st : conn' = [conn EXCEPT ![c].st = st]
    BY <1>2 DEF Socket, Open, Fail, Serve, SetState, OnError
  <2>2. conn[c].st \notin {"linked", "lost"}
    BY <1>2 DEF Socket, Open, Fail, Serve, OnError, Errors
  <2>3. \A d \in Slot \ {c} : conn'[d] = conn[d]
    BY <1>1, <2>1
  <2>4. connected' = connected
    BY <1>2 DEF Socket, Open, Fail, Serve, SetState, OnError
  <2>5. QED
    BY <2>2, <2>3, <2>4 DEF SessionsStay
<1>3. CASE OnWelcome(c)
  <2>1. conn[c] # Free /\ conn' = [conn EXCEPT ![c].st = "linked"]
    BY <1>3 DEF OnWelcome, Free
  <2>2. conn'[c].st = "linked"
    BY <1>1, <2>1, StateFacts DEF Typed, Live
  <2>3. QED
    BY <2>2 DEF ShownSessionExists
<1>4. CASE OnClose(c)
  BY <1>4 DEF OnClose, ShownSessionExists
<1>5. ASSUME Retry(c)
      PROVE  SessionsStay /\ connected' = connected
  <2>1. conn[c] \in [st : {"waiting"} \cup Live, address : Address, token : Token,
                     pub : BOOLEAN, closing : BOOLEAN]
    BY <1>1, <1>5, SlotKinds DEF Retry, Free
  <2>2. Trimmed([conn EXCEPT ![c] = Free])
    BY <1>1, <1>5 DEF Retry, Trimmed, Typed, Conns
  <2>3. SessionsStay
    BY <1>5, <2>1, <2>2, ConnectKeepsSessions DEF Retry
  <2>4. QED
    BY <1>5, <2>3 DEF Retry
<1>6. ASSUME SessionsStay, connected' = connected
      PROVE  ShownSessionExists'
  BY <1>6 DEF SessionsStay, ShownSessionExists
<1>7. QED
  BY <1>2, <1>3, <1>4, <1>5, <1>6 DEF Arrival

LEMMA WorldKeepsSessions ==
  ASSUME LinkInv, World
  PROVE  SessionsStay /\ connected' = connected
<1>1. connected' = connected
  BY DEF World
<1>2. conn' = conn \/ \E lost \in SUBSET Slot : Cut(lost)
  BY DEF World, AgentStops, AgentStarts, NetworkFails, Established
<1>3. ASSUME NEW lost \in SUBSET Slot, Cut(lost) PROVE SessionsStay
  <2>1. ASSUME NEW c \in Slot, conn[c].st \in {"linked", "lost"} PROVE conn'[c].st \in {"linked", "lost"}
    <3>1. conn[c] \in [st : {"waiting"} \cup Live, address : Address, token : Token,
                       pub : BOOLEAN, closing : BOOLEAN]
      BY <2>1, SlotKinds DEF LinkInv, TypeOK, Free
    <3>2. [conn[c] EXCEPT !.st = "lost"].st = "lost"
      BY <3>1
    <3>3. conn'[c] = IF c \in lost THEN [conn[c] EXCEPT !.st = "lost"] ELSE conn[c]
      BY <1>3 DEF Cut
    <3>4. QED
      BY <2>1, <3>2, <3>3
  <2>2. QED
    BY <2>1 DEF SessionsStay
<1>4. QED
  BY <1>1, <1>2, <1>3 DEF SessionsStay

\* The App leaves the view with the last session it may show: whatever client
\* reports its close (App.tsx:130-131), a view that is left open has a client
\* behind it that was welcomed and has not reported its own.
THEOREM ShownSessionsExist == Spec => []ShownSessionExists
<1>1. Init => ShownSessionExists
  BY DEF Init, ShownSessionExists
<1>2. LinkInv /\ ShownSessionExists /\ [Next]_vars => ShownSessionExists'
  <2> SUFFICES ASSUME LinkInv, ShownSessionExists, [Next]_vars PROVE ShownSessionExists'
    OBVIOUS
  <2>1. ASSUME SessionsStay, connected' => connected PROVE ShownSessionExists'
    BY <2>1 DEF SessionsStay, ShownSessionExists
  <2>2. CASE \/ \E a \in Address : Tap(a) \/ AddMachine(a)
             \/ \E t \in Token : SubmitToken(t)
             \/ CloseSheet \/ Stop \/ Disconnect
             \/ \E f \in fetches : FetchDone(f)
    BY <2>1, <2>2, UserKeepsSessions
  <2>3. CASE \E c \in Slot : Socket(c) \/ Arrival(c) \/ Retry(c)
    BY <2>3, SocketsKeepSessions
  <2>4. CASE World
    BY <2>1, <2>4, WorldKeepsSessions
  <2>5. CASE UNCHANGED vars \/ \E a \in Address : Enrich(a)
    BY <2>5 DEF vars, app, Enrich, ShownSessionExists
  <2>6. QED
    BY <2>2, <2>3, <2>4, <2>5 DEF Next
<1>3. QED
  BY <1>1, <1>2, LinkInvHolds, PTL DEF Spec
-----------------------------------------------------------------------------
(***************************************************************************)
(* The list of machines, for any number of machines and addresses: what    *)
(* the functions of machines.ts make of a list without duplicates, and     *)
(* what the writes on their way will leave behind.                         *)
(***************************************************************************)
\* What the file will hold when the writes that wait are done.
Latest == IF fileQ = <<>> THEN file ELSE fileQ[Len(fileQ)]

Queued(i) == \E k \in DOMAIN keyQ : keyQ[k] = i

\* The Keychain holds a machine's own token, or none.
KeychainHoldsOwn == \A i \in Id : keychain[i] \in {None, TokenOf[i]}

\* Before anything was learned, a start knows the confirmed pairings.
KnownAtStart ==
  loading # "no" /\ list = {} =>
    /\ fileQ = <<>> /\ keyQ = <<>> /\ (loading = "read" => text = file)
    /\ \A i \in welcomed \ moved : Known(i) /\ (secure => keychain[i] # None)

\* Later their machines are listed, in memory and in what is saved last, and
\* their tokens are in the Keychain, on their way there, or in both lists.
KeptLater ==
  loading = "no" =>
    \A i \in welcomed \ moved :
      /\ i \in IdsOf(list) /\ i \in IdsOf(Latest)
      /\ \/ keychain[i] = TokenOf[i]
         \/ Queued(i)
         \/ ~secure /\ i \in Held(list) /\ i \in Held(Latest)

KeptInv == KeychainHoldsOwn /\ KnownAtStart /\ KeptLater
MachinesInv == MachinesTypeOK /\ Unique /\ KeptInv

\* The functions on lists keep their type, and no machine gets in twice.
LEMMA TokenFacts ==
  ASSUME NEW m \in Machine, NEW t \in PairingToken \cup {None}
  PROVE  /\ [m EXCEPT !.token = t] \in Machine
         /\ [m EXCEPT !.token = t].address = m.address
         /\ [m EXCEPT !.token = t].id = m.id
         /\ [m EXCEPT !.token = t].token = t
BY DEF Machine

LEMMA UpsertFacts ==
  ASSUME NEW l \in Lists, NEW a \in Address, NEW t \in PairingToken \cup {None}, UniqueIn(l)
  PROVE  /\ Upsert(l, a, t) \in Lists /\ UniqueIn(Upsert(l, a, t)) /\ Upsert(l, a, t) # {}
         /\ IdsOf(l) \subseteq IdsOf(Upsert(l, a, t))
         /\ \A i \in Held(l) : i \in Held(Upsert(l, a, t)) \/ (t # None /\ i \in IdsOf(At(l, a)))
<1> DEFINE old == IF At(l, a) = {} THEN New(a) ELSE The(At(l, a))
           t2 == IF t = None THEN old.token ELSE t
           new == [old EXCEPT !.token = t2]
<1>1. old \in Machine /\ old.address = a /\ (old \in l \/ old.id = None)
  BY DEF Lists, Machine, New, At, The
<1>2. Upsert(l, a, t) = (l \ At(l, a)) \cup {new}
  BY DEF Upsert
<1>3. t2 \in PairingToken \cup {None}
  BY <1>1 DEF Machine
<1>7. (t = None => t2 = old.token) /\ (\A m \in At(l, a) : m = old)
  BY DEF At, The, UniqueIn
<1> HIDE DEF old, t2
<1>4. new \in Machine /\ new.address = a /\ new.id = old.id /\ new.token = t2
  BY <1>1, <1>3, TokenFacts
<1> HIDE DEF new
<1>5. ASSUME NEW m \in l \ At(l, a) PROVE m.address # a /\ (m.id = new.id => m.id = None)
  <2>1. m.address # a
    BY DEF At
  <2>2. QED
    BY <2>1, <1>1, <1>4 DEF UniqueIn
<1>6. Upsert(l, a, t) \in Lists /\ UniqueIn(Upsert(l, a, t)) /\ Upsert(l, a, t) # {}
  BY <1>2, <1>4, <1>5 DEF UniqueIn, Lists
<1>8. IdsOf(l) \subseteq IdsOf(Upsert(l, a, t))
  BY <1>2, <1>4, <1>7 DEF IdsOf
<1>9. ASSUME NEW i \in Held(l), ~(t # None /\ i \in IdsOf(At(l, a)))
      PROVE  i \in Held(Upsert(l, a, t))
  <2>1. PICK m \in l : i \in Id /\ m.id = i /\ m.token = TokenOf[i]
    BY DEF Held
  <2>2. CASE m \in At(l, a)
    BY <1>2, <1>4, <1>7, <1>9, <2>1, <2>2 DEF Held, IdsOf
  <2>3. CASE m \notin At(l, a)
    BY <1>2, <2>1, <2>3 DEF Held
  <2>4. QED
    BY <2>2, <2>3
<1>10. QED
  BY <1>6, <1>8, <1>9

LEMMA ApplyIdentityFacts ==
  ASSUME NEW l \in Lists, NEW a \in Address, NEW i \in Id, UniqueIn(l)
  PROVE  /\ ApplyIdentity(l, a, i) \in Lists /\ UniqueIn(ApplyIdentity(l, a, i))
         /\ ApplyIdentity(l, a, i) # {} /\ i \in IdsOf(ApplyIdentity(l, a, i))
         /\ Held(l) \cap IdsOf(ApplyIdentity(l, a, i)) \subseteq Held(ApplyIdentity(l, a, i))
<1> DEFINE prev == IF Of(l, i) # {} THEN The(Of(l, i))
                   ELSE IF At(l, a) # {} THEN The(At(l, a)) ELSE New(a)
           new == [prev EXCEPT !.address = a, !.id = i]
<1>1. prev \in Machine
  BY DEF Lists, Machine, New, At, Of, The
<1>2. ApplyIdentity(l, a, i) = (l \ (Of(l, i) \cup At(l, a))) \cup {new}
  BY DEF ApplyIdentity
<1>6. \A m \in Of(l, i) : m = prev
  BY NoneIsNew DEF Of, The, UniqueIn
<1> HIDE DEF prev
<1>3. new \in Machine /\ new.address = a /\ new.id = i /\ new.token = prev.token
  BY <1>1 DEF Machine
<1> HIDE DEF new
<1>4. ASSUME NEW m \in l \ (Of(l, i) \cup At(l, a)) PROVE m.address # a /\ m.id # i
  BY DEF At, Of
<1>5. ApplyIdentity(l, a, i) \in Lists /\ UniqueIn(ApplyIdentity(l, a, i)) /\ ApplyIdentity(l, a, i) # {}
  BY <1>2, <1>3, <1>4 DEF UniqueIn, Lists
<1>7. i \in IdsOf(ApplyIdentity(l, a, i))
  BY <1>2, <1>3 DEF IdsOf
<1>8. ASSUME NEW j \in Held(l), j \in IdsOf(ApplyIdentity(l, a, i))
      PROVE  j \in Held(ApplyIdentity(l, a, i))
  <2>1. PICK m \in l : j \in Id /\ m.id = j /\ m.token = TokenOf[j]
    BY DEF Held
  <2>2. CASE j = i
    BY <1>2, <1>3, <1>6, <2>1, <2>2 DEF Held, Of
  <2>3. CASE j # i
    <3>1. PICK n \in l \ (Of(l, i) \cup At(l, a)) : n.id = j
      BY <1>2, <1>3, <1>8, <2>3 DEF IdsOf
    <3>2. n = m
      BY <2>1, <3>1, NoneIsNew DEF UniqueIn
    <3>3. QED
      BY <1>2, <2>1, <3>1, <3>2 DEF Held
  <2>4. QED
    BY <2>2, <2>3
<1>9. QED
  BY <1>5, <1>7, <1>8

\* Stripping a list, or giving it the Keychain's tokens, changes tokens only.
LEMMA SavedFacts ==
  ASSUME NEW l \in Lists, UniqueIn(l)
  PROVE  /\ Saved(l) \in Lists /\ UniqueIn(Saved(l))
         /\ IdsOf(Saved(l)) = IdsOf(l) /\ (~secure => Saved(l) = l)
<1> DEFINE N(m) == [m EXCEPT !.token = None]
<1>1. ASSUME NEW m \in l PROVE N(m) \in Machine /\ N(m).address = m.address /\ N(m).id = m.id
  <2>1. m \in Machine /\ None \in PairingToken \cup {None}
    BY DEF Lists
  <2>2. QED
    BY <2>1, TokenFacts
<1>2. Stripped(l) = {N(m) : m \in l}
  BY DEF Stripped
<1> HIDE DEF N
<1>3. Stripped(l) \in Lists /\ UniqueIn(Stripped(l))
  BY <1>1, <1>2 DEF Lists, UniqueIn
<1>5. IdsOf(Stripped(l)) = IdsOf(l)
  BY <1>1, <1>2 DEF IdsOf
<1>4. QED
  BY <1>3, <1>5 DEF Saved

LEMMA WithTokensFacts ==
  ASSUME NEW l \in Lists, UniqueIn(l), MachinesTypeOK
  PROVE  /\ WithTokens(l) \in Lists /\ UniqueIn(WithTokens(l))
         /\ IdsOf(WithTokens(l)) = IdsOf(l)
         /\ (~secure => Held(l) \subseteq Held(WithTokens(l)))
<1> DEFINE T(m) == IF secure /\ m.id # None /\ keychain[m.id] # None THEN keychain[m.id] ELSE m.token
           N(m) == [m EXCEPT !.token = T(m)]
<1>1. WithTokens(l) = {N(m) : m \in l}
  BY DEF WithTokens
<1>2. ASSUME NEW m \in l PROVE N(m) \in Machine /\ N(m).address = m.address /\ N(m).id = m.id
  <2>1. m \in Machine /\ T(m) \in PairingToken \cup {None}
    BY DEF Lists, Machine, MachinesTypeOK
  <2> HIDE DEF T
  <2>2. QED
    BY <2>1, TokenFacts
<1>3. ASSUME ~secure, NEW m \in l PROVE N(m).token = m.token
  <2>1. T(m) = m.token /\ m \in Machine
    BY <1>3 DEF Lists
  <2>2. m.token \in PairingToken \cup {None}
    BY <2>1 DEF Machine
  <2> HIDE DEF T
  <2>3. QED
    BY <2>1, <2>2, TokenFacts
<1> HIDE DEF N
<1>4. WithTokens(l) \in Lists /\ UniqueIn(WithTokens(l))
  BY <1>1, <1>2 DEF Lists, UniqueIn
<1>5. IdsOf(WithTokens(l)) = IdsOf(l)
  BY <1>1, <1>2 DEF IdsOf
<1>6. ~secure => Held(l) \subseteq Held(WithTokens(l))
  BY <1>1, <1>2, <1>3 DEF Held
<1>7. QED
  BY <1>4, <1>5, <1>6

\* A change of the list: the list, what is on its way, and the last of it.
LEMMA SetMachinesFacts ==
  ASSUME MachinesInv, NEW l, l \in Lists, UniqueIn(l), SetMachines(l), UNCHANGED <<file, text, secure>>
  PROVE  /\ list' = l /\ fileQ' \in Seq(Lists) /\ Unique'
         /\ IdsOf(Latest') = IdsOf(l) /\ (~secure => Latest' = l)
<1>1. /\ Saved(l) \in Lists /\ UniqueIn(Saved(l))
      /\ IdsOf(Saved(l)) = IdsOf(l) /\ (~secure => Saved(l) = l)
  BY SavedFacts
<1>2. list' = l /\ fileQ' = Append(fileQ, Saved(l)) /\ fileQ \in Seq(Lists)
  BY DEF SetMachines, MachinesInv, MachinesTypeOK
<1>3. /\ fileQ' \in Seq(Lists) /\ Len(fileQ') = Len(fileQ) + 1 /\ fileQ' # <<>>
      /\ fileQ'[Len(fileQ')] = Saved(l)
      /\ \A k \in DOMAIN fileQ' : fileQ'[k] = Saved(l) \/ (k \in DOMAIN fileQ /\ fileQ'[k] = fileQ[k])
  <2> DEFINE s == Saved(l)
  <2>1. s \in Lists /\ fileQ' = Append(fileQ, s) /\ fileQ \in Seq(Lists)
    BY <1>1, <1>2
  <2> HIDE DEF s
  <2>2. fileQ' \in Seq(Lists) /\ Len(fileQ') = Len(fileQ) + 1 /\ fileQ'[Len(fileQ')] = s
    BY <2>1
  <2>3. \A k \in DOMAIN fileQ' : fileQ'[k] = s \/ (k \in DOMAIN fileQ /\ fileQ'[k] = fileQ[k])
    BY <2>1
  <2>4. fileQ' # <<>>
    BY <2>1
  <2>5. QED
    BY <2>2, <2>3, <2>4 DEF s
<1>4. Unique'
  <2>1. UniqueIn(list)' /\ UniqueIn(text)' /\ UniqueIn(file)'
    BY <1>2 DEF MachinesInv, Unique, UniqueIn
  <2>2. \A k \in DOMAIN fileQ' : UniqueIn(fileQ'[k])
    BY <1>1, <1>3 DEF MachinesInv, Unique
  <2>3. QED
    BY <2>1, <2>2 DEF Unique, UniqueIn
<1>5. Latest' = Saved(l)
  BY <1>3 DEF Latest
<1>6. QED
  BY <1>1, <1>2, <1>3, <1>4, <1>5

\* A change of the list keeps the pairings, if the machines stay listed and no
\* token goes that the list has to keep.
LEMMA ListChangeKeeps ==
  ASSUME MachinesInv, list' # {}, UNCHANGED <<loading, keychain, secure>>,
         IdsOf(Latest') = IdsOf(list'), ~secure => Latest' = list',
         \A i \in DOMAIN keyQ : \E k \in DOMAIN keyQ' : keyQ'[k] = keyQ[i],
         loading = "no" =>
           \A i \in welcomed' \ moved' :
             \/ i \in IdsOf(list') /\ Queued(i)'
             \/ i \in IdsOf(list') /\ ~secure /\ i \in Held(list')
             \/ /\ i \in welcomed \ moved /\ i \in IdsOf(list')
                /\ i \in Held(list) => i \in Held(list')
  PROVE  KeptInv'
<1>1. KeychainHoldsOwn' /\ KnownAtStart'
  BY DEF MachinesInv, KeptInv, KeychainHoldsOwn, KnownAtStart
<1>2. ASSUME loading = "no", NEW i \in welcomed' \ moved'
      PROVE  /\ i \in IdsOf(list') /\ i \in IdsOf(Latest')
             /\ \/ keychain'[i] = TokenOf[i]
                \/ Queued(i)'
                \/ ~secure' /\ i \in Held(list') /\ i \in Held(Latest')
  <2>1. CASE i \in IdsOf(list') /\ Queued(i)'
    BY <2>1
  <2>2. CASE i \in IdsOf(list') /\ ~secure /\ i \in Held(list')
    BY <2>2
  <2>3. CASE /\ i \in welcomed \ moved /\ i \in IdsOf(list')
             /\ i \in Held(list) => i \in Held(list')
    <3>1. keychain[i] = TokenOf[i] \/ Queued(i) \/ (~secure /\ i \in Held(list))
      BY <1>2, <2>3 DEF MachinesInv, KeptInv, KeptLater
    <3>2. Queued(i) => Queued(i)'
      BY DEF Queued
    <3>3. QED
      BY <2>3, <3>1, <3>2
  <2>4. QED
    BY <1>2, <2>1, <2>2, <2>3
<1>3. KeptLater'
  BY <1>2 DEF KeptLater, Held, IdsOf, Queued
<1>4. QED
  BY <1>1, <1>3 DEF KeptInv

LEMMA MachinesInvInitially == MachinesInit => MachinesInv
<1> SUFFICES ASSUME MachinesInit PROVE MachinesInv
  OBVIOUS
<1>1. MachinesTypeOK
  <2>1. {} \in Lists /\ <<>> \in Seq(Lists) /\ <<>> \in Seq(Id)
    BY DEF Lists
  <2>2. keychain \in [Id -> PairingToken \cup {None}] /\ events \in 0..MaxEvents
    BY Limits DEF MachinesInit
  <2>3. QED
    BY <2>1, <2>2 DEF MachinesInit, MachinesTypeOK
<1>2. Unique
  <2>1. DOMAIN fileQ = {}
    BY DEF MachinesInit
  <2>2. QED
    BY <2>1 DEF MachinesInit, Unique, UniqueIn
<1>3. KeptInv
  BY DEF MachinesInit, KeptInv, KeychainHoldsOwn, KnownAtStart, KeptLater
<1>4. QED
  BY <1>1, <1>2, <1>3 DEF MachinesInv

\* The steps that change the list: a machine is identified, added, or given a token.
LEMMA LearnInfoStep ==
  ASSUME MachinesInv, NEW a \in Address, LearnInfo(a)
  PROVE  MachinesInv'
<1> DEFINE l == IF FetchInfo(a) = None THEN Upsert(list, a, None)
                ELSE ApplyIdentity(list, a, FetchInfo(a))
<1>1. list \in Lists /\ UniqueIn(list) /\ (host[a] = None \/ host[a] \in Id)
  BY DEF MachinesInv, MachinesTypeOK, Unique
<1>2. /\ l \in Lists /\ UniqueIn(l) /\ l # {}
      /\ Held(list) \cap IdsOf(l) \subseteq Held(l)
  BY <1>1, UpsertFacts, ApplyIdentityFacts DEF FetchInfo
<1>3. SetMachines(l) /\ UNCHANGED <<host, loading, text, found, file, keychain, keyQ, secure, events>>
  BY DEF LearnInfo
<1>4. /\ welcomed' = welcomed \ (IdsOf(list) \ IdsOf(list'))
      /\ moved' = moved \cap welcomed'
  BY DEF LearnInfo, Paired
<1> HIDE DEF l
<1>5. /\ list' = l /\ fileQ' \in Seq(Lists) /\ Unique'
      /\ IdsOf(Latest') = IdsOf(l) /\ (~secure => Latest' = l)
  BY <1>2, <1>3, SetMachinesFacts
<1>6. MachinesTypeOK'
  BY <1>2, <1>3, <1>4, <1>5 DEF MachinesInv, MachinesTypeOK
<1>7. ASSUME loading = "no", NEW i \in welcomed' \ moved'
      PROVE  /\ i \in welcomed \ moved /\ i \in IdsOf(list')
             /\ i \in Held(list) => i \in Held(list')
  <2>1. i \in welcomed \ moved /\ i \notin IdsOf(list) \ IdsOf(list')
    BY <1>4, <1>7
  <2>2. i \in IdsOf(list)
    BY <1>7, <2>1 DEF MachinesInv, KeptInv, KeptLater
  <2>3. QED
    BY <1>2, <1>5, <2>1, <2>2
<1>8. KeptInv'
  BY <1>2, <1>3, <1>5, <1>7, ListChangeKeeps
<1>9. QED
  BY <1>5, <1>6, <1>8 DEF MachinesInv

LEMMA UpsertSteps ==
  ASSUME MachinesInv, NEW a \in Address,
         AddToList(a) \/ \E t \in PairingToken : TokenTyped(a, t)
  PROVE  MachinesInv'
<1>1. list \in Lists /\ UniqueIn(list)
  BY DEF MachinesInv, MachinesTypeOK, Unique
<1>2. PICK t \in PairingToken \cup {None} :
        /\ SetMachines(Upsert(list, a, t))
        /\ \/ t = None /\ UNCHANGED ghost
           \/ Paired(welcomed \ (IdsOf(At(list, a)) \ Held(list')))
  BY DEF AddToList, TokenTyped
<1> DEFINE l == Upsert(list, a, t)
<1>3. /\ l \in Lists /\ UniqueIn(l) /\ l # {} /\ IdsOf(list) \subseteq IdsOf(l)
      /\ \A i \in Held(list) : i \in Held(l) \/ (t # None /\ i \in IdsOf(At(list, a)))
  BY <1>1, UpsertFacts
<1> HIDE DEF l
<1>4. /\ UNCHANGED <<host, loading, text, found, file, keychain, keyQ, secure>>
      /\ events' \in 0..MaxEvents
  BY Limits DEF AddToList, TokenTyped, Event, MachinesInv, MachinesTypeOK
<1>5. /\ list' = l /\ fileQ' \in Seq(Lists) /\ Unique'
      /\ IdsOf(Latest') = IdsOf(l) /\ (~secure => Latest' = l)
  BY <1>2, <1>3, <1>4, SetMachinesFacts DEF l
<1>6. /\ welcomed' \subseteq welcomed /\ moved' = moved \cap welcomed'
      /\ t # None => welcomed' = welcomed \ (IdsOf(At(list, a)) \ Held(list'))
  BY <1>2 DEF ghost, Paired, MachinesInv, MachinesTypeOK
<1>7. MachinesTypeOK'
  BY <1>3, <1>4, <1>5, <1>6 DEF MachinesInv, MachinesTypeOK
<1>8. ASSUME loading = "no", NEW i \in welcomed' \ moved'
      PROVE  /\ i \in welcomed \ moved /\ i \in IdsOf(list')
             /\ i \in Held(list) => i \in Held(list')
  <2>1. i \in welcomed \ moved
    BY <1>6, <1>8
  <2>2. i \in IdsOf(list)
    BY <1>8, <2>1 DEF MachinesInv, KeptInv, KeptLater
  <2>3. QED
    BY <1>3, <1>5, <1>6, <1>8, <2>1, <2>2
<1>9. KeptInv'
  BY <1>3, <1>4, <1>5, <1>8, ListChangeKeeps
<1>10. QED
  BY <1>5, <1>7, <1>9 DEF MachinesInv

\* A machine welcomes the App: its token is on its way where the App will look for it.
LEMMA WelcomeStep ==
  ASSUME MachinesInv, NEW m \in list, Welcome(m)
  PROVE  MachinesInv'
<1> DEFINE i == host[m.address]
<1>1. m \in Machine /\ i \in Id /\ list \in Lists /\ UniqueIn(list) /\ keyQ \in Seq(Id)
  BY DEF Welcome, MachinesInv, MachinesTypeOK, Lists, Machine, Unique
<1>2. m.address \in Address
  BY <1>1 DEF Machine
<1> HIDE DEF i
<1> DEFINE l == ApplyIdentity(list, m.address, i)
<1>3. SetMachines(l) /\ UNCHANGED <<host, loading, text, file, keychain, secure>> /\ found' = {}
  BY DEF Welcome, i
<1>4. /\ l \in Lists /\ UniqueIn(l) /\ l # {} /\ i \in IdsOf(l)
      /\ Held(list) \cap IdsOf(l) \subseteq Held(l)
  BY <1>1, <1>2, ApplyIdentityFacts
<1> HIDE DEF l
<1>5. /\ list' = l /\ fileQ' \in Seq(Lists) /\ Unique'
      /\ IdsOf(Latest') = IdsOf(l) /\ (~secure => Latest' = l)
  BY <1>3, <1>4, SetMachinesFacts
<1>6. /\ keyQ' = IF secure THEN Append(keyQ, i) ELSE keyQ
      /\ welcomed' = (welcomed \ (IdsOf(list) \ IdsOf(list'))) \cup {j \in {i} : secure \/ j \in Held(list')}
      /\ moved' = (moved \cap welcomed') \ {j \in {i} : secure \/ j \in Held(list')}
  BY DEF Welcome, i
<1>7. events' \in 0..MaxEvents
  BY Limits DEF Welcome, Event, MachinesInv, MachinesTypeOK
<1>8. MachinesTypeOK'
  BY <1>1, <1>3, <1>4, <1>5, <1>6, <1>7 DEF MachinesInv, MachinesTypeOK
<1>9. /\ \A k \in DOMAIN keyQ : \E q \in DOMAIN keyQ' : keyQ'[q] = keyQ[k]
      /\ secure => \E q \in DOMAIN keyQ' : keyQ'[q] = i
  <2>1. CASE secure
    <3>1. /\ Len(keyQ') = Len(keyQ) + 1 /\ DOMAIN keyQ' = 1..Len(keyQ) + 1 /\ keyQ'[Len(keyQ) + 1] = i
          /\ \A k \in DOMAIN keyQ : k \in DOMAIN keyQ' /\ keyQ'[k] = keyQ[k]
      BY <1>1, <1>6, <2>1
    <3>2. Len(keyQ) + 1 \in DOMAIN keyQ'
      BY <1>1, <3>1
    <3>3. QED
      BY <3>1, <3>2
  <2>2. QED
    BY <2>1, <1>6
<1>10. ASSUME loading = "no", NEW j \in welcomed' \ moved'
       PROVE  \/ j \in IdsOf(list') /\ Queued(j)'
              \/ j \in IdsOf(list') /\ ~secure /\ j \in Held(list')
              \/ /\ j \in welcomed \ moved /\ j \in IdsOf(list')
                 /\ j \in Held(list) => j \in Held(list')
  <2>1. CASE j = i /\ (secure \/ j \in Held(list'))
    BY <1>4, <1>5, <1>9, <2>1 DEF Queued
  <2>2. CASE ~(j = i /\ (secure \/ j \in Held(list')))
    <3>1. j \in welcomed \ moved /\ j \notin IdsOf(list) \ IdsOf(list')
      BY <1>6, <1>10, <2>2
    <3>2. j \in IdsOf(list)
      BY <1>10, <3>1 DEF MachinesInv, KeptInv, KeptLater
    <3>3. QED
      BY <1>4, <1>5, <3>1, <3>2
  <2>3. QED
    BY <2>1, <2>2
<1>11. KeptInv'
  BY <1>3, <1>4, <1>5, <1>9, <1>10, ListChangeKeeps
<1>12. QED
  BY <1>5, <1>8, <1>11 DEF MachinesInv


\* Once the writes are done, what the machines confirmed is in the file or in
\* the Keychain.
LEMMA SettledIsKnown ==
  ASSUME MachinesInv, Settled, NEW i \in welcomed \ moved
  PROVE  Known(i)
<1>1. Latest = file /\ i \in Id /\ ~Queued(i) /\ keychain[i] \in {None, TokenOf[i]}
  BY DEF MachinesInv, MachinesTypeOK, KeptInv, KeychainHoldsOwn, Settled, Latest, Queued
<1>2. TokenOf[i] # None
  BY <1>1, NoneIsNew
<1>3. i \in IdsOf(file) /\ (keychain[i] = TokenOf[i] \/ i \in Held(file))
  BY <1>1 DEF MachinesInv, KeptInv, KeptLater, Settled
<1>4. QED
  BY <1>1, <1>2, <1>3 DEF Known, IdsOf, Held

\* A start of the App: nothing is learned yet, and the confirmed are known.
LEMMA RestartStep == MachinesInv /\ Restart => MachinesInv'
<1> SUFFICES ASSUME MachinesInv, Restart PROVE MachinesInv'
  OBVIOUS
<1>1. events' \in 0..MaxEvents
  BY Limits DEF Restart, Event, MachinesInv, MachinesTypeOK
<1>2. MachinesTypeOK'
  <2>1. {} \in Lists /\ <<>> \in Seq(Lists) /\ <<>> \in Seq(Id)
    BY DEF Lists
  <2>2. QED
    BY <1>1, <2>1 DEF Restart, MachinesInv, MachinesTypeOK
<1>3. Unique'
  <2>1. DOMAIN fileQ' = {} /\ list' = {} /\ text' = {}
    BY DEF Restart
  <2>2. UniqueIn(file)'
    BY DEF Restart, MachinesInv, Unique, UniqueIn
  <2>3. QED
    BY <2>1, <2>2 DEF Unique, UniqueIn
<1>4. ASSUME NEW i \in welcomed' \ moved' PROVE Known(i) /\ (secure' => keychain[i] # None)
  <2>1. i \in welcomed \ moved /\ i \in Id /\ (secure' => keychain[i] # None)
    BY <1>4 DEF Restart, MachinesInv, MachinesTypeOK
  <2>2. CASE fileQ # <<>> \/ keyQ # <<>> \/ Early
    BY <1>4, <2>1, <2>2 DEF Restart
  <2>3. CASE fileQ = <<>> /\ keyQ = <<>> /\ loading # "no" /\ list = {}
    BY <2>1, <2>3 DEF MachinesInv, KeptInv, KnownAtStart
  <2>4. CASE fileQ = <<>> /\ keyQ = <<>> /\ loading = "no"
    BY <2>1, <2>4, SettledIsKnown DEF Settled
  <2>5. QED
    BY <2>1, <2>2, <2>3, <2>4 DEF Early
<1>5. KeptInv'
  BY <1>4 DEF Restart, MachinesInv, KeptInv, KeychainHoldsOwn, KnownAtStart, KeptLater, Known
<1>6. QED
  BY <1>2, <1>3, <1>5 DEF MachinesInv

\* The list of the file takes the place of the list in memory.
LEMMA LoadDoneStep == MachinesInv /\ LoadDone => MachinesInv'
<1> SUFFICES ASSUME MachinesInv, LoadDone PROVE MachinesInv'
  OBVIOUS
<1>0. text \in Lists /\ file \in Lists /\ Unique /\ MachinesTypeOK /\ UniqueIn(text)
  BY DEF MachinesInv, MachinesTypeOK, Unique
<1>1. /\ WithTokens(text) \in Lists /\ UniqueIn(WithTokens(text))
      /\ IdsOf(WithTokens(text)) = IdsOf(text)
      /\ (~secure => Held(text) \subseteq Held(WithTokens(text)))
  BY <1>0, WithTokensFacts
<1>2. /\ list' = WithTokens(text) /\ loading = "read" /\ loading' = "no"
      /\ UNCHANGED <<host, text, found, file, fileQ, keychain, keyQ, secure, events>>
      /\ welcomed' = (IF Early THEN {} ELSE welcomed) /\ moved' = moved \cap welcomed'
  BY DEF LoadDone, store, Paired
<1>3. MachinesTypeOK' /\ Unique'
  BY <1>0, <1>1, <1>2 DEF MachinesTypeOK, Unique, UniqueIn
<1>4. ASSUME NEW i \in welcomed' \ moved'
      PROVE  /\ i \in IdsOf(list') /\ i \in IdsOf(Latest')
             /\ \/ keychain[i] = TokenOf[i]
                \/ ~secure /\ i \in Held(list') /\ i \in Held(Latest')
  <2>1. i \in welcomed \ moved /\ i \in Id /\ list = {}
    BY <1>0, <1>2, <1>4 DEF Early, MachinesTypeOK
  <2>2. Known(i) /\ (secure => keychain[i] # None) /\ fileQ = <<>> /\ text = file
    BY <1>2, <2>1 DEF MachinesInv, KeptInv, KnownAtStart
  <2>3. Latest' = file
    BY <1>2, <2>2 DEF Latest
  <2>4. PICK n \in file : n.id = i /\ TokenOf[i] = IF keychain[i] # None THEN keychain[i] ELSE n.token
    BY <2>2 DEF Known
  <2>5. i \in IdsOf(file) /\ (keychain[i] = None => i \in Held(file))
    BY <2>1, <2>4 DEF IdsOf, Held
  <2>6. QED
    BY <1>1, <1>2, <2>2, <2>3, <2>4, <2>5
<1>5. KeptInv'
  BY <1>2, <1>4 DEF MachinesInv, KeptInv, KeychainHoldsOwn, KnownAtStart, KeptLater, Held, IdsOf
<1>6. QED
  BY <1>3, <1>5 DEF MachinesInv

\* The steps that leave the lists and the Keychain alone.
LEMMA KeptUnchanged ==
  ASSUME KeptInv, UNCHANGED <<list, loading, text, file, fileQ, keychain, keyQ, secure, ghost>>
  PROVE  KeptInv'
BY DEF KeptInv, KeychainHoldsOwn, KnownAtStart, KeptLater, Known, Queued, Latest, Held, IdsOf, ghost

LEMMA MachinesInvPreserved == MachinesInv /\ [MachinesNext]_machinesVars => MachinesInv'
<1> SUFFICES ASSUME MachinesInv, [MachinesNext]_machinesVars PROVE MachinesInv'
  OBVIOUS
<1> USE DEF MachinesInv
<1>1. CASE LoadRead
  <2>1. KeptInv'
    BY <1>1 DEF LoadRead, KeptInv, KeychainHoldsOwn, KnownAtStart, KeptLater, Known, store, ghost
  <2>2. QED
    BY <1>1, <2>1 DEF LoadRead, MachinesTypeOK, Unique, UniqueIn, store, ghost
<1>3. CASE FileWritten
  <2>1. fileQ \in Seq(Lists) /\ fileQ # <<>> /\ file' = Head(fileQ) /\ fileQ' = Tail(fileQ)
    BY <1>3 DEF FileWritten, MachinesTypeOK
  <2>2. /\ Head(fileQ) = fileQ[1] /\ fileQ[1] \in Lists /\ 1 \in DOMAIN fileQ
        /\ Tail(fileQ) \in Seq(Lists) /\ Len(Tail(fileQ)) = Len(fileQ) - 1
        /\ \A k \in DOMAIN Tail(fileQ) : k + 1 \in DOMAIN fileQ /\ Tail(fileQ)[k] = fileQ[k + 1]
    BY <2>1
  <2>3. Unique'
    <3>1. UniqueIn(list)' /\ UniqueIn(text)' /\ UniqueIn(file')
      BY <1>3, <2>1, <2>2 DEF FileWritten, Unique, UniqueIn
    <3>2. \A k \in DOMAIN fileQ' : UniqueIn(fileQ'[k])
      BY <2>1, <2>2 DEF Unique
    <3>3. QED
      BY <3>1, <3>2 DEF Unique, UniqueIn
  <2>4. Latest' = Latest
    <3>1. CASE Len(fileQ) = 1
      BY <2>1, <2>2, <3>1 DEF Latest
    <3>2. CASE Len(fileQ) # 1
      <4>1. Len(fileQ) \in Nat /\ Len(fileQ) > 1 /\ Len(fileQ') = Len(fileQ) - 1 /\ fileQ' # <<>>
        BY <2>1, <2>2, <3>2
      <4>2. Len(fileQ') \in DOMAIN fileQ' /\ Len(fileQ') + 1 = Len(fileQ)
        BY <2>1, <2>2, <4>1
      <4>3. fileQ'[Len(fileQ')] = fileQ[Len(fileQ)]
        BY <2>1, <2>2, <4>2
      <4>4. QED
        BY <2>1, <4>1, <4>3 DEF Latest
    <3>3. QED
      BY <3>1, <3>2
  <2>5. KeptInv'
    BY <1>3, <2>1, <2>4 DEF FileWritten, KeptInv, KeychainHoldsOwn, KnownAtStart, KeptLater, Queued, Held,
         IdsOf, ghost
  <2>6. MachinesTypeOK'
    BY <1>3, <2>1, <2>2 DEF FileWritten, MachinesTypeOK, ghost
  <2>7. QED
    BY <2>3, <2>5, <2>6
<1>4. CASE KeyWritten
  <2>1. keyQ \in Seq(Id) /\ keyQ # <<>> /\ keyQ' = Tail(keyQ)
        /\ keychain \in [Id -> PairingToken \cup {None}]
        /\ keychain' = [keychain EXCEPT ![Head(keyQ)] = TokenOf[Head(keyQ)]]
    BY <1>4 DEF KeyWritten, MachinesTypeOK
  <2>2. /\ Head(keyQ) = keyQ[1] /\ keyQ[1] \in Id /\ Tail(keyQ) \in Seq(Id)
        /\ \A k \in DOMAIN keyQ : keyQ[k] = Head(keyQ) \/ (k - 1 \in DOMAIN Tail(keyQ) /\ Tail(keyQ)[k - 1] = keyQ[k])
    BY <2>1
  <2>3. /\ keychain' \in [Id -> PairingToken \cup {None}]
        /\ \A i \in Id : keychain'[i] = IF i = Head(keyQ) THEN TokenOf[i] ELSE keychain[i]
    BY <2>1, <2>2 DEF PairingToken
  <2>4. UNCHANGED <<host, list, loading, text, found, file, fileQ, secure, welcomed, moved, events>>
    BY <1>4 DEF KeyWritten, ghost
  <2>5. KeychainHoldsOwn' /\ KnownAtStart'
    BY <2>1, <2>3, <2>4 DEF KeptInv, KeychainHoldsOwn, KnownAtStart
  <2>6. ASSUME loading = "no", NEW i \in welcomed \ moved
        PROVE  /\ i \in IdsOf(list) /\ i \in IdsOf(Latest)
               /\ \/ keychain'[i] = TokenOf[i]
                  \/ Queued(i)'
                  \/ ~secure /\ i \in Held(list) /\ i \in Held(Latest)
    <3>1. i \in Id
      BY DEF MachinesTypeOK
    <3>2. Queued(i) => i = Head(keyQ) \/ Queued(i)'
      BY <2>1, <2>2 DEF Queued
    <3>3. QED
      BY <2>3, <2>6, <3>1, <3>2 DEF KeptInv, KeptLater
  <2>7. KeptLater'
    BY <2>4, <2>6 DEF KeptLater, Latest, Held, IdsOf
  <2>8. MachinesTypeOK' /\ Unique'
    BY <2>1, <2>2, <2>3, <2>4 DEF MachinesTypeOK, Unique, UniqueIn
  <2>9. QED
    BY <2>5, <2>7, <2>8 DEF KeptInv
<1>5. CASE KeyFails
  <2>1. keyQ \in Seq(Id) /\ keyQ # <<>> /\ keyQ' = Tail(keyQ) /\ keyQ' \in Seq(Id)
    BY <1>5 DEF KeyFails, MachinesTypeOK
  <2>2. \A k \in DOMAIN keyQ : keyQ[k] = Head(keyQ) \/ (k - 1 \in DOMAIN Tail(keyQ) /\ Tail(keyQ)[k - 1] = keyQ[k])
    BY <2>1
  <2>3. /\ UNCHANGED <<host, list, loading, text, found, file, fileQ, keychain>> /\ secure' = FALSE
        /\ welcomed' = {i \in welcomed : i = Head(keyQ) => keychain[i] # None}
        /\ moved' = moved \cap welcomed'
    BY <1>5 DEF KeyFails, Paired
  <2>4. events' \in 0..MaxEvents
    BY <1>5, Limits DEF KeyFails, Event, MachinesTypeOK
  <2>5. MachinesTypeOK' /\ Unique'
    BY <2>1, <2>3, <2>4 DEF MachinesTypeOK, Unique, UniqueIn
  <2>6. KeychainHoldsOwn' /\ KnownAtStart'
    BY <2>1, <2>3 DEF KeptInv, KeychainHoldsOwn, KnownAtStart
  <2>7. ASSUME loading = "no", NEW i \in welcomed' \ moved'
        PROVE  /\ i \in IdsOf(list) /\ i \in IdsOf(Latest)
               /\ \/ keychain[i] = TokenOf[i]
                  \/ Queued(i)'
                  \/ i \in Held(list) /\ i \in Held(Latest)
    <3>1. i \in welcomed \ moved /\ i \in Id /\ (i = Head(keyQ) => keychain[i] # None)
      BY <2>3, <2>7 DEF MachinesTypeOK
    <3>2. Queued(i) => i = Head(keyQ) \/ Queued(i)'
      BY <2>1, <2>2 DEF Queued
    <3>3. QED
      BY <2>7, <3>1, <3>2 DEF KeptInv, KeptLater, KeychainHoldsOwn
  <2>8. KeptLater'
    BY <2>3, <2>7 DEF KeptLater, Latest, Held, IdsOf
  <2>9. QED
    BY <2>5, <2>6, <2>8 DEF KeptInv
<1>7. ASSUME NEW a \in Address, Discover(a) PROVE MachinesInv'
  <2>1. KeptInv'
    BY <1>7, KeptUnchanged DEF Discover, store
  <2>2. QED
    BY <1>7, <2>1 DEF Discover, MachinesTypeOK, Unique, UniqueIn, store, ghost
<1>8. ASSUME NEW i \in Id, NEW a \in Address \cup {None}, Move(i, a) PROVE MachinesInv'
  <2>1. events' \in 0..MaxEvents
    BY <1>8, Limits DEF Move, Event, MachinesTypeOK
  <2>2. host' \in [Address -> Id \cup {None}]
    BY <1>8 DEF Move, MachinesTypeOK
  <2>3. KeptInv'
    BY <1>8, KeptUnchanged DEF Move, store
  <2>4. QED
    BY <1>8, <2>1, <2>2, <2>3 DEF Move, MachinesTypeOK, Unique, UniqueIn, store, ghost
<1>9. CASE UNCHANGED machinesVars
  <2>1. KeptInv'
    BY <1>9, KeptUnchanged DEF machinesVars, store
  <2>2. QED
    BY <1>9, <2>1 DEF machinesVars, MachinesTypeOK, Unique, UniqueIn, store, ghost
<1>10. QED
  BY <1>1, <1>3, <1>4, <1>5, <1>7, <1>8, <1>9, LearnInfoStep, UpsertSteps, WelcomeStep, RestartStep,
     LoadDoneStep DEF MachinesNext

LEMMA MachinesInvAlways == MachinesSpec => []MachinesInv
BY MachinesInvInitially, MachinesInvPreserved, PTL DEF MachinesSpec

(* The variables of the list of machines have their types: any number of   *)
(* machines and addresses.                                                 *)
THEOREM MachinesTypes == MachinesSpec => []MachinesTypeOK
<1>1. MachinesInv => MachinesTypeOK
  BY DEF MachinesInv
<1>2. QED
  BY <1>1, MachinesInvAlways, PTL

(* No machine is listed twice, in memory, in the file or in a write on its *)
(* way (upsert, applyIdentity, loadMachines and saveMachines together).    *)
THEOREM MachinesStayUnique == MachinesSpec => []Unique
<1>1. MachinesInv => Unique
  BY DEF MachinesInv
<1>2. QED
  BY <1>1, MachinesInvAlways, PTL

(* A pairing that its machine confirmed is found by every later start of   *)
(* the App, with the exceptions that the property names: any number of     *)
(* machines, starts and builds (machines.ts: saveToken, saveMachines,      *)
(* loadMachines).                                                          *)
THEOREM ConfirmedPairingsStay == MachinesSpec => []ConfirmedPairingsAreKept
<1>1. MachinesInv => ConfirmedPairingsAreKept
  BY SettledIsKnown DEF ConfirmedPairingsAreKept
<1>2. QED
  BY <1>1, MachinesInvAlways, PTL
=============================================================================
