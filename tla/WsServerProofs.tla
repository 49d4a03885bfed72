---------------------------- MODULE WsServerProofs ----------------------------
(***************************************************************************)
(* The sessions of WsServer, for any number of sockets, addresses,         *)
(* projects, guesses and handlers.  The invariant says for whom a handler  *)
(* works, who holds a key, and that a badge that is wrong is about to be   *)
(* broadcast.                                                              *)
(***************************************************************************)
EXTENDS WsServer, TLAPS

\* A handler that answers one socket works for a socket that was welcomed, or
\* that is not open any more.
JobsAreOfPhones ==
  \A j \in jobs : j.does # "broadcast" => /\ j.to \in Socket
                                          /\ sock[j.to] = "open" => j.to \in authed

\* Who holds a session key, holds it on both sides.
KeysAreShared == \A s \in sealed : key[s]

\* A phone that shows a mark wrongly is about to be told.
BroadcastPending == \E j \in jobs : j.does = "broadcast"
BadgeInv == \A s \in authed \ asked : sock[s] = "open" => RightlyMarked(s) \/ BroadcastPending

\* The table of failures counts them, and locks the address in time.
FailuresAreBounded ==
  \A i \in Ip : /\ fails[i].n <= (Limit - 1) + (windows[i] + 1)
                /\ fails[i].n >= Limit + windows[i] => fails[i].locked
GuessInv == FailuresAreBounded /\ \A i \in Ip : tried[i] = fails[i].n

SessionInv == SessionsEndWithSockets /\ JobsAreOfPhones /\ KeysAreShared
ServerInv == TypeOK /\ SessionInv /\ GuessInv /\ BadgeInv
                    /\ ContentIsForPhones /\ OnlyFailuresArePlain

-----------------------------------------------------------------------------
\* The table of failures: one more guess, an expired lock, a success.
LEMMA WrongTokenFacts ==
  ASSUME NEW i \in Ip, TypeOK, GuessInv, WrongToken(i), windows' = windows, ~fails[i].locked
  PROVE  fails' \in [Ip -> [n : Nat, locked : BOOLEAN]] /\ tried' \in [Ip -> Nat] /\ GuessInv'
<1>1. \A k \in Ip : windows[k] \in Nat /\ fails[k].n \in Nat
  BY DEF TypeOK
<1>2. Limit \in Nat \ {0}
  BY Positive
<1>3. /\ fails'[i] = [n |-> fails[i].n + 1, locked |-> fails[i].n + 1 >= Limit]
      /\ \A k \in Ip \ {i} : fails'[k] = fails[k]
  BY DEF WrongToken, CountFailure, TypeOK
<1>4. fails' \in [Ip -> [n : Nat, locked : BOOLEAN]]
  BY <1>1, <1>2 DEF WrongToken, CountFailure, TypeOK
<1>8. /\ tried' \in [Ip -> Nat] /\ tried'[i] = tried[i] + 1
      /\ \A k \in Ip \ {i} : tried'[k] = tried[k]
  BY DEF WrongToken, TypeOK
<1>5. fails[i].n < Limit + windows[i]
  BY <1>1, <1>2 DEF GuessInv, FailuresAreBounded
<1>6. ASSUME NEW k \in Ip
      PROVE  /\ fails'[k].n <= (Limit - 1) + (windows'[k] + 1)
             /\ fails'[k].n >= Limit + windows'[k] => fails'[k].locked
  <2>1. CASE k = i
    <3>1. fails'[i].n = fails[i].n + 1 /\ fails'[i].locked = (fails[i].n + 1 >= Limit)
      BY <1>3
    <3>2. windows'[i] >= 0 /\ fails[i].n + 1 <= (Limit - 1) + (windows'[i] + 1)
      BY <1>1, <1>2, <1>5
    <3>3. fails[i].n + 1 >= Limit + windows'[i] => fails[i].n + 1 >= Limit
      BY <1>1, <1>2
    <3>4. QED
      BY <2>1, <3>1, <3>2, <3>3, Zenon
  <2>2. CASE k # i
    BY <2>2, <1>3 DEF GuessInv, FailuresAreBounded
  <2>3. QED
    BY <2>1, <2>2
<1>9. ASSUME NEW k \in Ip PROVE tried'[k] = fails'[k].n
  <2>1. tried[k] = fails[k].n
    BY DEF GuessInv
  <2>2. CASE k = i
    BY <1>3, <1>8, <2>1, <2>2
  <2>3. CASE k # i
    BY <1>3, <1>8, <2>1, <2>3
  <2>4. QED
    BY <2>2, <2>3
<1>7. QED
  BY <1>4, <1>6, <1>8, <1>9 DEF GuessInv, FailuresAreBounded

LEMMA LockExpiresFacts ==
  ASSUME NEW i \in Ip, TypeOK, GuessInv, LockExpires(i)
  PROVE  /\ fails' \in [Ip -> [n : Nat, locked : BOOLEAN]] /\ windows' \in [Ip -> 0..MaxWindows] /\ tried' \in [Ip -> Nat]
         /\ GuessInv'
<1>1. \A k \in Ip : windows[k] \in Nat /\ fails[k].n \in Nat
  BY DEF TypeOK
<1>2. Limit \in Nat \ {0} /\ MaxWindows \in Nat
  BY Positive
<1>3. /\ fails'[i] = [fails[i] EXCEPT !.locked = FALSE] /\ windows'[i] = windows[i] + 1
      /\ \A k \in Ip \ {i} : fails'[k] = fails[k] /\ windows'[k] = windows[k]
  BY DEF LockExpires, TypeOK
<1>4. fails'[i].n = fails[i].n
  BY <1>3 DEF TypeOK
<1>5. fails' \in [Ip -> [n : Nat, locked : BOOLEAN]]
  BY DEF LockExpires, TypeOK
<1>6. windows' \in [Ip -> 0..MaxWindows] /\ tried' = tried /\ tried \in [Ip -> Nat]
  BY <1>1, <1>2 DEF LockExpires, TypeOK
<1>7. ASSUME NEW k \in Ip
      PROVE  /\ fails'[k].n <= (Limit - 1) + (windows'[k] + 1)
             /\ fails'[k].n >= Limit + windows'[k] => fails'[k].locked
  <2>1. CASE k = i
    <3>1. fails[i].n <= (Limit - 1) + (windows[i] + 1)
      BY DEF GuessInv, FailuresAreBounded
    <3>2. QED
      BY <2>1, <3>1, <1>1, <1>2, <1>3, <1>4
  <2>2. CASE k # i
    BY <2>2, <1>3 DEF GuessInv, FailuresAreBounded
  <2>3. QED
    BY <2>1, <2>2
<1>9. \A k \in Ip : fails'[k].n = fails[k].n
  BY <1>3, <1>4
<1>8. QED
  BY <1>5, <1>6, <1>7, <1>9 DEF GuessInv, FailuresAreBounded

LEMMA SuccessFacts ==
  ASSUME NEW i \in Ip, TypeOK, GuessInv,
         fails' = [fails EXCEPT ![i] = [n |-> 0, locked |-> FALSE]],
         windows' = [windows EXCEPT ![i] = 0], tried' = [tried EXCEPT ![i] = 0]
  PROVE  /\ fails' \in [Ip -> [n : Nat, locked : BOOLEAN]] /\ windows' \in [Ip -> 0..MaxWindows] /\ tried' \in [Ip -> Nat]
         /\ GuessInv'
<1>1. Limit \in Nat \ {0} /\ MaxWindows \in Nat
  BY Positive
<1>2. fails' \in [Ip -> [n : Nat, locked : BOOLEAN]] /\ windows' \in [Ip -> 0..MaxWindows] /\ tried' \in [Ip -> Nat]
  BY <1>1 DEF TypeOK
<1>3. /\ fails'[i].n = 0 /\ windows'[i] = 0 /\ tried'[i] = 0
      /\ \A k \in Ip \ {i} : fails'[k] = fails[k] /\ windows'[k] = windows[k] /\ tried'[k] = tried[k]
  BY DEF TypeOK
<1>4. QED
  BY <1>1, <1>2, <1>3 DEF GuessInv, FailuresAreBounded

-----------------------------------------------------------------------------
\* A socket that is refused, or one that is welcomed.
LEMMA RefuseFacts ==
  ASSUME NEW s \in Socket, TypeOK, SessionInv, BadgeInv, Alive(s), Refuse(s),
         UNCHANGED <<secured, waiting, rows, changes>>,
         fails' \in [Ip -> [n : Nat, locked : BOOLEAN]], windows' \in [Ip -> 0..MaxWindows] /\ tried' \in [Ip -> Nat]
  PROVE  TypeOK' /\ SessionInv' /\ BadgeInv' /\ ContentIsForPhones' /\ OnlyFailuresArePlain'
<1> USE DEF Refuse
<1>1. /\ out' \subseteq {[to |-> s, kind |-> "error", enc |-> FALSE]}
      /\ sock' = [sock EXCEPT ![s] = "closing"]
  BY DEF Reached, Plain
<1> DEFINE e == [to |-> s, kind |-> "error", enc |-> FALSE]
<1>e. e \in [to : Socket, kind : Content \cup {"error", "pong"}, enc : BOOLEAN] /\ e.kind \notin Content /\ e.kind \notin Encrypted
  BY DEF Content, Encrypted
<1>o. \A f \in out' : f = e
  BY <1>1
<1> HIDE DEF e
<1>2. TypeOK'
  <2>1. out' \subseteq [to : Socket, kind : Content \cup {"error", "pong"}, enc : BOOLEAN]
    BY <1>e, <1>o
  <2>2. QED
    BY <1>1, <2>1 DEF TypeOK
<1>3. \A u \in Socket : /\ Alive(u) => Alive(u)'
                        /\ sock'[u] = "open" => sock[u] = "open"
  BY <1>1 DEF Alive, TypeOK
<1>4. SessionsEndWithSockets'
  BY <1>3 DEF SessionInv, SessionsEndWithSockets, TypeOK
<1>5. JobsAreOfPhones' /\ KeysAreShared'
  BY <1>3 DEF SessionInv, JobsAreOfPhones, KeysAreShared
<1>6. BadgeInv'
  BY <1>3 DEF BadgeInv, RightlyMarked, BroadcastPending, TypeOK
<1>7. ContentIsForPhones' /\ OnlyFailuresArePlain'
  BY <1>e, <1>o DEF ContentIsForPhones, OnlyFailuresArePlain
<1>8. QED
  BY <1>2, <1>4, <1>5, <1>6, <1>7 DEF SessionInv

LEMMA FinishAuthFacts ==
  ASSUME NEW s \in Socket, NEW k \in BOOLEAN, TypeOK, SessionInv, BadgeInv, Alive(s), secured,
         FinishAuth(s, k), UNCHANGED <<secured, waiting, rows, changes>>,
         fails' \in [Ip -> [n : Nat, locked : BOOLEAN]], windows' \in [Ip -> 0..MaxWindows] /\ tried' \in [Ip -> Nat]
  PROVE  TypeOK' /\ SessionInv' /\ BadgeInv' /\ ContentIsForPhones' /\ OnlyFailuresArePlain'
<1>1. /\ authed' = authed \cup {s} /\ sock' = sock /\ asked' = asked
      /\ key' = [key EXCEPT ![s] = @ \/ k]
      /\ out' \subseteq {[to |-> s, kind |-> "welcome", enc |-> key'[s]]}
      /\ told' = [told EXCEPT ![s] = IF sock[s] = "open" THEN Hidden ELSE @]
      /\ jobs' = jobs \cup {[to |-> s, does |-> "initial"]}
      /\ sealed' = IF k THEN sealed \cup {s} ELSE sealed
  BY DEF FinishAuth, Reached
<1>2. key' \in [Socket -> BOOLEAN] /\ key'[s] = (key[s] \/ k)
      /\ \A u \in Socket \ {s} : key'[u] = key[u]
  BY <1>1 DEF TypeOK
<1>3. TypeOK'
  <2>1. told' \in [Socket -> [Project -> {"hidden", "active", "waiting"}]]
    BY <1>1 DEF TypeOK, Hidden
  <2>2. out' \subseteq [to : Socket, kind : Content \cup {"error", "pong"}, enc : BOOLEAN]
    <3>1. [to |-> s, kind |-> "welcome", enc |-> key'[s]]
             \in [to : Socket, kind : Content \cup {"error", "pong"}, enc : BOOLEAN]
      BY <1>2 DEF Content, Encrypted
    <3>2. QED
      BY <1>1, <3>1
  <2>3. QED
    BY <1>1, <1>2, <2>1, <2>2 DEF TypeOK, Jobs
<1>4. SessionsEndWithSockets'
  BY <1>1, <1>2 DEF SessionInv, SessionsEndWithSockets, Alive, TypeOK
<1>5. JobsAreOfPhones'
  BY <1>1 DEF SessionInv, JobsAreOfPhones
<1>6. KeysAreShared'
  BY <1>1, <1>2 DEF SessionInv, KeysAreShared, TypeOK
<1>7. BadgeInv'
  <2>1. ASSUME NEW u \in authed' \ asked', sock'[u] = "open"
        PROVE  RightlyMarked(u)' \/ BroadcastPending'
    <3>1. CASE u = s
      BY <1>1, <2>1, <3>1 DEF RightlyMarked, Hidden, TypeOK
    <3>2. CASE u # s
      BY <1>1, <2>1, <3>2 DEF BadgeInv, RightlyMarked, BroadcastPending, TypeOK
    <3>3. QED
      BY <3>1, <3>2
  <2>2. QED
    BY <2>1 DEF BadgeInv
<1>8. ContentIsForPhones' /\ OnlyFailuresArePlain'
  BY <1>1, <1>6 DEF ContentIsForPhones, OnlyFailuresArePlain, KeysAreShared
<1>9. QED
  BY <1>3, <1>4, <1>5, <1>6, <1>7, <1>8 DEF SessionInv

LEMMA TryAuthFacts ==
  ASSUME NEW s \in Socket, NEW ok \in BOOLEAN, NEW k \in BOOLEAN, ServerInv, Alive(s),
         TryAuth(s, ok, k), UNCHANGED <<secured, waiting, rows, changes>>
  PROVE  ServerInv'
<1> USE DEF ServerInv
<1>1. IpOf[s] \in Ip
  BY Peers
<1>2. CASE Refuse(s) /\ UNCHANGED <<fails, windows, tried>>
  <2>1. GuessInv'
    BY <1>2 DEF GuessInv, FailuresAreBounded
  <2>2. QED
    BY <1>2, <2>1, RefuseFacts DEF TypeOK
<1>3. CASE secured /\ FinishAuth(s, k)
  <2>1. /\ fails' \in [Ip -> [n : Nat, locked : BOOLEAN]] /\ windows' \in [Ip -> 0..MaxWindows] /\ tried' \in [Ip -> Nat]
        /\ GuessInv'
    BY <1>1, <1>3, SuccessFacts DEF FinishAuth
  <2>2. QED
    BY <1>3, <2>1, FinishAuthFacts
<1>4. CASE Refuse(s) /\ UNCHANGED windows /\ ~fails[IpOf[s]].locked /\ WrongToken(IpOf[s])
  <2>1. fails' \in [Ip -> [n : Nat, locked : BOOLEAN]] /\ tried' \in [Ip -> Nat] /\ GuessInv'
    BY <1>1, <1>4, WrongTokenFacts
  <2>2. windows' \in [Ip -> 0..MaxWindows] /\ tried' \in [Ip -> Nat]
    BY <1>4, <2>1 DEF TypeOK
  <2>3. QED
    BY <1>4, <2>1, <2>2, RefuseFacts
<1>5. QED
  BY <1>2, <1>3, <1>4 DEF TryAuth

-----------------------------------------------------------------------------
\* Frames that are sent without a change of any session.
LEMMA FramesFacts ==
  ASSUME ServerInv, NEW STATE frames, out' \subseteq Reached(frames), UNCHANGED state,
         \A f \in frames :
            \/ \E s \in authed : f = Frame(s, "push")
            \/ \E s \in Socket : f = Frame(s, "pong")
            \/ \E s \in Socket : f = Plain(s)
  PROVE  ServerInv'
<1> USE DEF ServerInv
<1>1. ASSUME NEW f \in out'
      PROVE  /\ f \in [to : Socket, kind : Content \cup {"error", "pong"}, enc : BOOLEAN]
             /\ f.kind \in Content => f.to \in authed /\ f.enc = key[f.to]
  <2>1. f \in frames
    BY DEF Reached
  <2>2. CASE \E s \in authed : f = Frame(s, "push")
    BY <2>2 DEF Frame, Content, Encrypted, TypeOK
  <2>3. CASE \E s \in Socket : f = Frame(s, "pong")
    BY <2>3 DEF Frame, Content, Encrypted, TypeOK
  <2>4. CASE \E s \in Socket : f = Plain(s)
    BY <2>4 DEF Plain, Content, Encrypted, TypeOK
  <2>5. QED
    BY <2>1, <2>2, <2>3, <2>4
<1>2. TypeOK'
  <2>1. out' \subseteq [to : Socket, kind : Content \cup {"error", "pong"}, enc : BOOLEAN]
    BY <1>1
  <2>2. QED
    BY <2>1 DEF TypeOK, state, server
<1>3. SessionInv'
  BY DEF SessionInv, SessionsEndWithSockets, JobsAreOfPhones, KeysAreShared, state, server, Alive
<1>4. GuessInv' /\ BadgeInv'
  BY DEF GuessInv, FailuresAreBounded, BadgeInv, RightlyMarked, BroadcastPending, state, server
<1>5. ContentIsForPhones' /\ OnlyFailuresArePlain'
  BY <1>1 DEF ContentIsForPhones, OnlyFailuresArePlain, Content, SessionInv, KeysAreShared, state, server
<1>6. QED
  BY <1>2, <1>3, <1>4, <1>5

LEMMA CommandFacts ==
  ASSUME NEW s \in Socket, NEW does \in Commands, ServerInv, Command(s, does)
  PROVE  ServerInv'
<1> USE DEF ServerInv
<1>1. CASE MayCommand(s) /\ jobs' = jobs \cup {[to |-> s, does |-> does]} /\ out' = {}
  <2>1. UNCHANGED <<secured, sock, authed, key, fails, waiting, rows, told, sealed, asked, windows, tried, changes>>
    BY DEF Command, server
  <2>2. TypeOK'
    BY <1>1, <2>1 DEF TypeOK, Jobs, Commands
  <2>3. SessionInv'
    BY <1>1, <2>1 DEF SessionInv, SessionsEndWithSockets, JobsAreOfPhones, KeysAreShared, Alive, MayCommand
  <2>4. GuessInv' /\ BadgeInv'
    BY <1>1, <2>1 DEF GuessInv, FailuresAreBounded, BadgeInv, RightlyMarked, BroadcastPending
  <2>5. QED
    BY <1>1, <2>2, <2>3, <2>4 DEF ContentIsForPhones, OnlyFailuresArePlain
<1>2. CASE UNCHANGED jobs /\ (out' = {} \/ Send({Plain(s)}))
  <2>1. UNCHANGED state
    BY <1>2 DEF Command, state, server
  <2>2. out' \subseteq Reached({Plain(s)})
    BY <1>2 DEF Send
  <2>3. \A f \in {Plain(s)} :
         \/ \E u \in authed : f = Frame(u, "push")
         \/ \E u \in Socket : f = Frame(u, "pong")
         \/ \E u \in Socket : f = Plain(u)
    OBVIOUS
  <2>4. QED
    BY <2>1, <2>2, <2>3, FramesFacts
<1>3. QED
  BY <1>1, <1>2 DEF Command

\* What the end of a handler shows and sends, by whom it works for.
LEMMA ShowStatusFacts ==
  ASSUME ServerInv, NEW to \in SUBSET Socket, NEW j \in jobs, ShowStatus(to), jobs' = jobs \ {j},
         \A s \in to : sock[s] = "open" => s \in authed, j.does = "broadcast" => to = authed,
         UNCHANGED <<secured, sock, server, waiting, rows, sealed, windows, tried, changes>>
  PROVE  ServerInv'
<1> USE DEF ServerInv
<1>1. /\ told' \in [Socket -> [Project -> {"hidden", "active", "waiting"}]]
      /\ \A s \in Socket : told'[s] = IF s \in to /\ sock[s] = "open" THEN Statuses ELSE told[s]
  BY DEF ShowStatus, Show, Statuses, TypeOK
<1>2. ASSUME NEW f \in out'
      PROVE  /\ f \in [to : Socket, kind : Content \cup {"error", "pong"}, enc : BOOLEAN]
             /\ f.to \in authed /\ f.enc = key[f.to]
  BY DEF ShowStatus, Send, Reached, Frame, Content, Encrypted, TypeOK
<1>3. UNCHANGED <<secured, sock, authed, key, fails, waiting, rows, sealed, windows, tried, changes>> /\ asked' = asked \ to
  BY DEF server, ShowStatus
<1>4. TypeOK'
  BY <1>1, <1>2, <1>3 DEF TypeOK
<1>5. SessionInv'
  BY <1>3 DEF SessionInv, SessionsEndWithSockets, JobsAreOfPhones, KeysAreShared, Alive
<1>6. BadgeInv'
  <2>1. ASSUME NEW s \in authed' \ asked', sock'[s] = "open"
        PROVE  RightlyMarked(s)' \/ BroadcastPending'
    <3>1. s \in Socket /\ s \in authed
      BY <1>3, <2>1 DEF TypeOK
    <3>2. CASE s \in to
      <4>1. told'[s] = Statuses
        BY <1>1, <1>3, <2>1, <3>1, <3>2
      <4>2. QED
        BY <1>3, <4>1 DEF RightlyMarked, Statuses
    <3>3. CASE s \notin to
      <4>1. told'[s] = told[s] /\ j.does # "broadcast" /\ s \notin asked
        BY <1>1, <1>3, <2>1, <3>1, <3>3
      <4>2. RightlyMarked(s) \/ BroadcastPending
        BY <1>3, <2>1, <3>1, <4>1 DEF BadgeInv
      <4>3. BroadcastPending => BroadcastPending'
        BY <4>1 DEF BroadcastPending
      <4>4. QED
        BY <1>3, <4>1, <4>2, <4>3 DEF RightlyMarked
    <3>4. QED
      BY <3>2, <3>3
  <2>2. QED
    BY <2>1 DEF BadgeInv
<1>7. GuessInv'
  BY <1>3 DEF GuessInv, FailuresAreBounded
<1>8. ContentIsForPhones' /\ OnlyFailuresArePlain'
  BY <1>2, <1>3 DEF ContentIsForPhones, OnlyFailuresArePlain, SessionInv, KeysAreShared
<1>9. QED
  BY <1>4, <1>5, <1>6, <1>7, <1>8

LEMMA RouteFacts ==
  ASSUME ServerInv, NEW j \in jobs, j.does = "command", Route(j.to), jobs' = jobs \ {j},
         UNCHANGED <<secured, sock, server, waiting, rows, sealed, windows, tried, changes>>
  PROVE  ServerInv'
<1> USE DEF ServerInv
<1> DEFINE to == j.to
<1>1. to \in Socket /\ (sock[to] = "open" => to \in authed)
  BY DEF SessionInv, JobsAreOfPhones
<1>2. UNCHANGED <<secured, sock, authed, key, fails, waiting, rows, sealed, windows, tried, changes>>
  BY DEF server
<1>3. /\ told' \in [Socket -> [Project -> {"hidden", "active", "waiting"}]]
      /\ \A s \in Socket : s \notin asked' => told'[s] = told[s]
      /\ asked' \in SUBSET Socket /\ asked \subseteq asked'
  <2>1. CASE Show({to}, FromTable) /\ asked' = IF sock[to] = "open" THEN asked \cup {to} ELSE asked
    <3>1. FromTable \in [Project -> {"hidden", "active", "waiting"}]
      BY DEF FromTable
    <3>2. told' = [s \in Socket |-> IF s \in {to} /\ sock[s] = "open" THEN FromTable ELSE told[s]]
      BY <2>1 DEF Show
    <3>3. asked' \in SUBSET Socket /\ asked \subseteq asked' /\ (sock[to] = "open" => to \in asked')
      BY <1>1, <2>1 DEF TypeOK
    <3>4. told' \in [Socket -> [Project -> {"hidden", "active", "waiting"}]]
      BY <3>1, <3>2 DEF TypeOK
    <3>5. QED
      BY <3>2, <3>3, <3>4
  <2>2. CASE UNCHANGED <<told, asked>>
    BY <2>2 DEF TypeOK
  <2>3. QED
    BY <2>1, <2>2 DEF Route
<1>4. ASSUME NEW f \in out'
      PROVE  /\ f \in [to : Socket, kind : Content \cup {"error", "pong"}, enc : BOOLEAN]
             /\ f.kind \in Content => f.to \in authed
             /\ f.kind \in Encrypted => f.enc = key[f.to]
  <2>1. f \in {Frame(to, "status"), Frame(to, "reply"), Plain(to), Failure(to)} /\ sock[f.to] = "open"
    BY DEF Route, Send, Reached
  <2>2. CASE f = Frame(to, "status") \/ f = Frame(to, "reply")
    <3>1. f.to = to /\ f.enc = key[to] /\ f \in [to : Socket, kind : Content \cup {"error", "pong"}, enc : BOOLEAN]
      BY <1>1, <2>2 DEF Frame, Content, Encrypted, TypeOK
    <3>2. QED
      BY <1>1, <2>1, <3>1
  <2>3. CASE f = Plain(to)
    BY <1>1, <2>3 DEF Plain, Content, Encrypted
  <2>4. CASE f = Failure(to)
    <3>1. /\ f.to = to /\ f.kind \notin Encrypted
          /\ f \in [to : Socket, kind : Content \cup {"error", "pong"}, enc : BOOLEAN]
      BY <1>1, <2>4 DEF Failure, Content, Encrypted
    <3>2. QED
      BY <1>1, <2>1, <3>1
  <2>5. QED
    BY <2>1, <2>2, <2>3, <2>4
<1> HIDE DEF to
<1>5. TypeOK'
  BY <1>2, <1>3, <1>4 DEF TypeOK
<1>6. SessionInv'
  BY <1>2 DEF SessionInv, SessionsEndWithSockets, JobsAreOfPhones, KeysAreShared, Alive
<1>7. BadgeInv'
  <2>1. ASSUME NEW s \in authed' \ asked', sock'[s] = "open"
        PROVE  RightlyMarked(s)' \/ BroadcastPending'
    <3>1. s \in Socket /\ told'[s] = told[s] /\ s \in authed \ asked
      BY <1>2, <1>3, <2>1 DEF TypeOK
    <3>2. RightlyMarked(s) \/ BroadcastPending
      BY <1>2, <2>1, <3>1 DEF BadgeInv
    <3>3. BroadcastPending => BroadcastPending'
      BY DEF BroadcastPending
    <3>4. QED
      BY <1>2, <3>1, <3>2, <3>3 DEF RightlyMarked
  <2>2. QED
    BY <2>1 DEF BadgeInv
<1>8. GuessInv'
  BY <1>2 DEF GuessInv, FailuresAreBounded
<1>9. ContentIsForPhones' /\ OnlyFailuresArePlain'
  BY <1>2, <1>4 DEF ContentIsForPhones, OnlyFailuresArePlain, Content, SessionInv, KeysAreShared
<1>10. QED
  BY <1>5, <1>6, <1>7, <1>8, <1>9

LEMMA CompleteFacts ==
  ASSUME NEW j \in jobs, ServerInv, Complete(j)
  PROVE  ServerInv'
<1>0. /\ jobs' = jobs \ {j}
      /\ UNCHANGED <<secured, sock, server, waiting, rows, sealed, windows, tried, changes>>
  BY DEF Complete
<1>1. j.does # "broadcast" => j.to \in Socket /\ (sock[j.to] = "open" => j.to \in authed)
  BY DEF ServerInv, SessionInv, JobsAreOfPhones
<1>2. CASE j.does = "broadcast" /\ ShowStatus(authed)
  <2>1. authed \in SUBSET Socket
    BY DEF ServerInv, TypeOK
  <2>2. QED
    BY <1>0, <1>2, <2>1, ShowStatusFacts
<1>3. CASE j.does \in {"status.get", "initial"} /\ ShowStatus({j.to})
  <2>1. {j.to} \in SUBSET Socket /\ j.does # "broadcast"
        /\ \A s \in {j.to} : sock[s] = "open" => s \in authed
    BY <1>1, <1>3
  <2>2. QED
    BY <1>0, <1>3, <2>1, ShowStatusFacts
<1>4. CASE j.does = "command" /\ Route(j.to)
  BY <1>0, <1>4, RouteFacts
<1>5. CASE j.does = "initial" /\ out' = {} /\ UNCHANGED <<told, asked>>
  <2>1. TypeOK'
    BY <1>0, <1>5 DEF ServerInv, TypeOK, server
  <2>2. SessionInv'
    BY <1>0, <1>5 DEF ServerInv, SessionInv, SessionsEndWithSockets, JobsAreOfPhones, KeysAreShared, Alive, server
  <2>3. BroadcastPending => BroadcastPending'
    BY <1>0, <1>5 DEF BroadcastPending
  <2>4. GuessInv' /\ BadgeInv'
    BY <1>0, <1>5, <2>3 DEF ServerInv, GuessInv, FailuresAreBounded, BadgeInv, RightlyMarked, server
  <2>5. QED
    BY <1>5, <2>1, <2>2, <2>4 DEF ServerInv, ContentIsForPhones, OnlyFailuresArePlain
<1>6. QED
  BY <1>2, <1>3, <1>4, <1>5 DEF Complete

-----------------------------------------------------------------------------
\* A socket that comes, one that goes, a lock that expires.
LEMMA SocketFacts ==
  ASSUME NEW s \in Socket, ServerInv, Connect(s) \/ OnClose(s)
  PROVE  ServerInv'
<1> USE DEF ServerInv
<1>1. CASE Connect(s)
  <2>1. /\ UNCHANGED <<secured, authed, key, fails, waiting, rows, jobs, told, sealed, asked, windows, tried, changes>>
        /\ sock' = [sock EXCEPT ![s] = "open"] /\ out' = {} /\ sock[s] = "closed"
        /\ \A j \in jobs : j.to # s
    BY <1>1 DEF Connect, server
  <2>2. TypeOK'
    BY <2>1 DEF TypeOK
  <2>3. SessionInv'
    BY <2>1 DEF SessionInv, SessionsEndWithSockets, JobsAreOfPhones, KeysAreShared, Alive, TypeOK
  <2>4. s \notin authed
    BY <2>1 DEF SessionInv, SessionsEndWithSockets, Alive
  <2>5. GuessInv' /\ BadgeInv'
    BY <2>1, <2>4 DEF GuessInv, FailuresAreBounded, BadgeInv, RightlyMarked, BroadcastPending, TypeOK
  <2>6. QED
    BY <2>1, <2>2, <2>3, <2>5 DEF ContentIsForPhones, OnlyFailuresArePlain
<1>2. CASE OnClose(s)
  <2>1. /\ UNCHANGED <<secured, fails, waiting, rows, jobs, windows, tried, changes>>
        /\ sock' = [sock EXCEPT ![s] = "closed"] /\ authed' = authed \ {s}
        /\ key' = [key EXCEPT ![s] = FALSE] /\ told' = [told EXCEPT ![s] = Hidden]
        /\ sealed' = sealed \ {s} /\ asked' = asked \ {s} /\ out' = {}
    BY <1>2 DEF OnClose
  <2>2. TypeOK'
    BY <2>1 DEF TypeOK, Hidden
  <2>3. SessionInv'
    BY <2>1 DEF SessionInv, SessionsEndWithSockets, JobsAreOfPhones, KeysAreShared, Alive, TypeOK
  <2>4. \A u \in Socket \ {s} : told'[u] = told[u] /\ sock'[u] = sock[u]
    BY <2>1 DEF TypeOK
  <2>5. BadgeInv'
    BY <2>1, <2>4 DEF BadgeInv, RightlyMarked, BroadcastPending, TypeOK
  <2>6. GuessInv'
    BY <2>1 DEF GuessInv, FailuresAreBounded
  <2>7. QED
    BY <2>1, <2>2, <2>3, <2>5, <2>6 DEF ContentIsForPhones, OnlyFailuresArePlain
<1>3. QED
  BY <1>1, <1>2

LEMMA ExpiryFacts ==
  ASSUME NEW i \in Ip, ServerInv, LockExpires(i)
  PROVE  ServerInv'
<1> USE DEF ServerInv
<1>1. /\ fails' \in [Ip -> [n : Nat, locked : BOOLEAN]] /\ windows' \in [Ip -> 0..MaxWindows] /\ tried' \in [Ip -> Nat]
      /\ GuessInv'
  BY LockExpiresFacts
<1>2. /\ UNCHANGED <<secured, sock, authed, key, waiting, rows, jobs, told, sealed, asked, changes>>
      /\ out' = {}
  BY DEF LockExpires
<1>3. TypeOK'
  BY <1>1, <1>2 DEF TypeOK
<1>4. SessionInv'
  BY <1>2 DEF SessionInv, SessionsEndWithSockets, JobsAreOfPhones, KeysAreShared, Alive
<1>5. BadgeInv'
  BY <1>2 DEF BadgeInv, RightlyMarked, BroadcastPending
<1>6. QED
  BY <1>1, <1>2, <1>3, <1>4, <1>5 DEF ContentIsForPhones, OnlyFailuresArePlain

\* A change of the prompts or of the table: who must hear of it, will.
LEMMA ChangeFacts ==
  ASSUME NEW ps \in SUBSET Project, ServerInv, SetWaiting(ps) \/ BroadcastStatus(ps) \/ QuietChange(ps)
  PROVE  ServerInv'
<1> USE DEF ServerInv
<1>1. /\ UNCHANGED <<secured, sock, authed, key, fails, told, sealed, asked, windows, tried>> /\ out' = {}
      /\ waiting' \subseteq Project /\ rows' \subseteq Project /\ changes' \in 0..MaxChanges
      /\ \/ Broadcast
         \/ jobs' = jobs /\ waiting' = waiting
  <2>1. changes < MaxChanges /\ changes' = changes + 1 => changes' \in 0..MaxChanges
    BY Positive DEF TypeOK
  <2>2. CASE SetWaiting(ps)
    BY <2>1, <2>2 DEF SetWaiting, Changed, TypeOK, server
  <2>3. CASE BroadcastStatus(ps)
    BY <2>1, <2>3 DEF BroadcastStatus, Changed, TypeOK, server
  <2>4. CASE QuietChange(ps)
    BY <2>1, <2>4 DEF QuietChange, Changed, TypeOK, server
  <2>5. QED
    BY <2>2, <2>3, <2>4
<1>2. CASE Broadcast
  <2>1. TypeOK'
    BY <1>1, <1>2 DEF Broadcast, TypeOK, Jobs
  <2>2. SessionInv'
    BY <1>1, <1>2 DEF Broadcast, SessionInv, SessionsEndWithSockets, JobsAreOfPhones, KeysAreShared, Alive
  <2>3. BroadcastPending'
    <3>1. [to |-> All, does |-> "broadcast"] \in jobs'
      BY <1>2 DEF Broadcast
    <3>2. QED
      BY <3>1 DEF BroadcastPending
  <2>4. GuessInv' /\ BadgeInv'
    BY <1>1, <2>3 DEF GuessInv, FailuresAreBounded, BadgeInv
  <2>5. QED
    BY <1>1, <2>1, <2>2, <2>4 DEF ContentIsForPhones, OnlyFailuresArePlain
<1>3. CASE jobs' = jobs /\ waiting' = waiting
  <2>1. TypeOK'
    BY <1>1, <1>3 DEF TypeOK
  <2>2. SessionInv'
    BY <1>1, <1>3 DEF SessionInv, SessionsEndWithSockets, JobsAreOfPhones, KeysAreShared, Alive
  <2>3. GuessInv' /\ BadgeInv'
    BY <1>1, <1>3 DEF GuessInv, FailuresAreBounded, BadgeInv, RightlyMarked, BroadcastPending
  <2>4. QED
    BY <1>1, <2>1, <2>2, <2>3 DEF ContentIsForPhones, OnlyFailuresArePlain
<1>4. QED
  BY <1>1, <1>2, <1>3

-----------------------------------------------------------------------------
\* What a socket may say, of which it may be any.
LEMMA MessageFacts ==
  ASSUME NEW s \in Socket, ServerInv, Message(s)
  PROVE  ServerInv'
<1>1. ASSUME NEW ok \in BOOLEAN, Hello(s, ok)
      PROVE  ServerInv'
  <2>1. Alive(s) /\ UNCHANGED <<secured, waiting, rows, changes>>
    BY <1>1 DEF Hello
  <2>2. CASE TryAuth(s, ok, FALSE)
    BY <2>1, <2>2, TryAuthFacts
  <2>3. CASE Refuse(s) /\ UNCHANGED <<fails, windows, tried>>
    <3>1. GuessInv'
      BY <2>3 DEF ServerInv, GuessInv, FailuresAreBounded
    <3>2. fails' \in [Ip -> [n : Nat, locked : BOOLEAN]] /\ windows' \in [Ip -> 0..MaxWindows] /\ tried' \in [Ip -> Nat]
      BY <2>3 DEF ServerInv, TypeOK
    <3>3. QED
      BY <2>1, <2>3, <3>1, <3>2, RefuseFacts DEF ServerInv
  <2>4. QED
    BY <1>1, <2>2, <2>3 DEF Hello
<1>2. ASSUME NEW ok \in BOOLEAN, SecureHello(s, ok)
      PROVE  ServerInv'
  BY <1>2, TryAuthFacts DEF SecureHello
<1>3. CASE Ping(s)
  <2>1. \A f \in {Frame(s, "pong")} :
         \/ \E u \in authed : f = Frame(u, "push")
         \/ \E u \in Socket : f = Frame(u, "pong")
         \/ \E u \in Socket : f = Plain(u)
    OBVIOUS
  <2>2. out' \subseteq Reached({Frame(s, "pong")}) /\ UNCHANGED state
    BY <1>3 DEF Ping, Send
  <2>3. QED
    BY <2>1, <2>2, FramesFacts
<1>4. CASE BadFrame(s)
  <2>1. \A f \in {Plain(s)} :
         \/ \E u \in authed : f = Frame(u, "push")
         \/ \E u \in Socket : f = Frame(u, "pong")
         \/ \E u \in Socket : f = Plain(u)
    OBVIOUS
  <2>2. out' \subseteq Reached({Plain(s)}) /\ UNCHANGED state
    BY <1>4 DEF BadFrame, Send
  <2>3. QED
    BY <2>1, <2>2, FramesFacts
<1>5. ASSUME NEW does \in Commands, Command(s, does)
      PROVE  ServerInv'
  BY <1>5, CommandFacts
<1>6. QED
  BY <1>1, <1>2, <1>3, <1>4, <1>5 DEF Message

LEMMA PushFacts ==
  ASSUME ServerInv, PushEvent
  PROVE  ServerInv'
<1> DEFINE frames == {Frame(s, "push") : s \in authed}
<1>1. \A f \in frames :
        \/ \E u \in authed : f = Frame(u, "push")
        \/ \E u \in Socket : f = Frame(u, "pong")
        \/ \E u \in Socket : f = Plain(u)
  OBVIOUS
<1>2. out' \subseteq Reached(frames) /\ UNCHANGED state
  BY DEF PushEvent, Send
<1> HIDE DEF frames
<1>3. QED
  BY <1>1, <1>2, FramesFacts

-----------------------------------------------------------------------------
LEMMA ServerInvHolds == Spec => []ServerInv
<1>1. Init => ServerInv
  <2> SUFFICES ASSUME Init PROVE ServerInv
    OBVIOUS
  <2>1. Limit \in Nat \ {0} /\ MaxWindows \in Nat /\ MaxChanges \in Nat
    BY Positive
  <2>2. TypeOK
    BY <2>1 DEF Init, TypeOK, Hidden
  <2>3. GuessInv
    <3>1. \A i \in Ip : fails[i].n = 0 /\ windows[i] = 0 /\ tried[i] = 0
      BY DEF Init
    <3>2. QED
      BY <2>1, <3>1 DEF GuessInv, FailuresAreBounded
  <2>4. SessionInv /\ BadgeInv
    BY DEF Init, SessionInv, SessionsEndWithSockets, JobsAreOfPhones, KeysAreShared, BadgeInv
  <2>5. QED
    BY <2>2, <2>3, <2>4 DEF Init, ServerInv, ContentIsForPhones, OnlyFailuresArePlain
<1>2. ServerInv /\ [Next]_vars => ServerInv'
  <2> SUFFICES ASSUME ServerInv, [Next]_vars PROVE ServerInv'
    OBVIOUS
  <2>1. ASSUME NEW s \in Socket, Connect(s) \/ OnClose(s) PROVE ServerInv'
    BY <2>1, SocketFacts
  <2>2. ASSUME NEW s \in Socket, Message(s) PROVE ServerInv'
    BY <2>2, MessageFacts
  <2>3. ASSUME NEW j \in jobs, Complete(j) PROVE ServerInv'
    BY <2>3, CompleteFacts
  <2>4. ASSUME NEW i \in Ip, LockExpires(i) PROVE ServerInv'
    BY <2>4, ExpiryFacts
  <2>5. ASSUME NEW ps \in SUBSET Project, SetWaiting(ps) \/ BroadcastStatus(ps) \/ QuietChange(ps)
        PROVE  ServerInv'
    BY <2>5, ChangeFacts
  <2>6. CASE PushEvent
    BY <2>6, PushFacts
  <2>7. CASE UNCHANGED vars
    <3>1. out' = out /\ UNCHANGED <<secured, sock, authed, key, fails, waiting, rows, jobs, told,
                                    sealed, asked, windows, tried, changes>>
      BY <2>7 DEF vars, state, server
    <3>2. TypeOK' /\ GuessInv'
      BY <3>1 DEF ServerInv, TypeOK, GuessInv, FailuresAreBounded
    <3>3. SessionInv' /\ BadgeInv'
      BY <3>1 DEF ServerInv, SessionInv, SessionsEndWithSockets, JobsAreOfPhones, KeysAreShared,
                  Alive, BadgeInv, RightlyMarked, BroadcastPending
    <3>4. QED
      BY <3>1, <3>2, <3>3 DEF ServerInv, ContentIsForPhones, OnlyFailuresArePlain
  <2>8. QED
    BY <2>1, <2>2, <2>3, <2>4, <2>5, <2>6, <2>7 DEF Next
<1>3. QED
  BY <1>1, <1>2, PTL DEF Spec

\* Every variable has its type, for any number of sockets and addresses.
THEOREM ServerTypes == Spec => []TypeOK
<1>1. ServerInv => TypeOK
  BY DEF ServerInv
<1>2. QED
  BY <1>1, ServerInvHolds, PTL

\* Replies that come late, pushes and broadcasts reach sockets that were
\* welcomed, and no others: #emit, and the handlers that end after a close.
THEOREM ContentReachesPhones == Spec => []ContentIsForPhones
<1>1. ServerInv => ContentIsForPhones
  BY DEF ServerInv
<1>2. QED
  BY <1>1, ServerInvHolds, PTL

\* Once a phone holds a session key, all that #emit sends it is encrypted,
\* whatever handler sends it and whatever closed meanwhile: the error of a
\* command of its own is the only frame about the work that goes in plain.
THEOREM OnlyFailuresGoPlain == Spec => []OnlyFailuresArePlain
<1>1. ServerInv => OnlyFailuresArePlain
  BY DEF ServerInv
<1>2. QED
  BY <1>1, ServerInvHolds, PTL

\* Limit wrong tokens outside of lockouts, and one more for each lockout that
\* ran out, for every Limit: #authFails does not forget with the lock.
THEOREM GuessesStayBounded == Spec => []GuessesOutsideLockouts
<1>1. ServerInv => GuessesOutsideLockouts
  <2> SUFFICES ASSUME ServerInv, NEW i \in Ip PROVE tried[i] <= Limit + windows[i]
    BY DEF GuessesOutsideLockouts
  <2>1. tried[i] = fails[i].n /\ fails[i].n <= (Limit - 1) + (windows[i] + 1)
    BY DEF ServerInv, GuessInv, FailuresAreBounded
  <2>2. windows[i] \in Nat /\ Limit \in Nat /\ fails[i].n \in Nat
    BY Positive DEF ServerInv, TypeOK
  <2>3. QED
    BY <2>1, <2>2
<1>2. QED
  BY <1>1, ServerInvHolds, PTL

\* A session ends with its socket, and nobody is in while the agent's token is
\* the default one.
THEOREM SessionsEnd == Spec => []SessionsEndWithSockets
<1>1. ServerInv => SessionsEndWithSockets
  BY DEF ServerInv, SessionInv
<1>2. QED
  BY <1>1, ServerInvHolds, PTL

\* When no handler is left, what the phones mark as WAITING waits, for any
\* number of phones and of broadcasts, in whatever order these ended.
THEOREM MarksSettle == Spec => []BadgesSettle
<1>1. ServerInv => BadgesSettle
  BY DEF ServerInv, BadgeInv, BadgesSettle, BroadcastPending, Settled
<1>2. QED
  BY <1>1, ServerInvHolds, PTL

\* A correct token gets in and clears the lockout, in every state that the
\* wrong ones of the same address can lead to (server.ts:314).
THEOREM OwnersGetIn == Spec => OwnerGetsIn
<1>1. ServerInv /\ [Next]_vars =>
        [\A s \in Socket : SecureHello(s, TRUE) /\ secured /\ sock[s] = "open" =>
           s \in authed' /\ ~fails'[IpOf[s]].locked
           /\ [to |-> s, kind |-> "welcome", enc |-> TRUE] \in out']_vars
  <2> SUFFICES ASSUME ServerInv, NEW s \in Socket, SecureHello(s, TRUE), secured, sock[s] = "open"
               PROVE  s \in authed' /\ ~fails'[IpOf[s]].locked
                      /\ [to |-> s, kind |-> "welcome", enc |-> TRUE] \in out'
    OBVIOUS
  <2>1. FinishAuth(s, TRUE)
    BY DEF SecureHello, TryAuth
  <2>2. key'[s] = TRUE
    BY <2>1 DEF FinishAuth, ServerInv, TypeOK
  <2>3. ~fails'[IpOf[s]].locked
    BY <2>1, Peers DEF FinishAuth, ServerInv, TypeOK
  <2>4. QED
    BY <2>1, <2>2, <2>3 DEF FinishAuth, Reached
<1>2. QED
  BY <1>1, ServerInvHolds, PTL DEF Spec, OwnerGetsIn
=============================================================================
