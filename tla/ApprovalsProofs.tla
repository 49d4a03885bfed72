---------------------------- MODULE ApprovalsProofs ----------------------------
(***************************************************************************)
(* The approvals, for any number of phones, requests and answers: they     *)
(* implement ToolDecisions, and a request stays in front of the phones     *)
(* until it is decided.                                                    *)
(***************************************************************************)
EXTENDS Approvals, TLAPS, FiniteSetTheorems

ApprovalInv == TypeOK /\ NoRequestIsLost /\ RulesComeFromAllowed

-----------------------------------------------------------------------------
\* Queues.
LEMMA AppendSet ==
  ASSUME NEW S, NEW q \in Seq(S), NEW x \in S
  PROVE  Append(q, x) \in Seq(S) /\ ToSet(Append(q, x)) = ToSet(q) \cup {x}
<1>1. Append(q, x) \in Seq(S)
  OBVIOUS
<1>2. /\ DOMAIN Append(q, x) = 1..(Len(q) + 1) /\ DOMAIN q = 1..Len(q) /\ Len(q) \in Nat
      /\ \A i \in 1..Len(q) : Append(q, x)[i] = q[i]
      /\ Append(q, x)[Len(q) + 1] = x
  OBVIOUS
<1>3. ASSUME NEW y PROVE y \in ToSet(Append(q, x)) <=> y \in ToSet(q) \cup {x}
  <2>1. y \in ToSet(Append(q, x)) <=> \E i \in 1..(Len(q) + 1) : y = Append(q, x)[i]
    BY <1>2 DEF ToSet
  <2>2. y \in ToSet(q) <=> \E i \in 1..Len(q) : y = q[i]
    BY <1>2 DEF ToSet
  <2>3. \A i \in 1..(Len(q) + 1) : i \in 1..Len(q) \/ i = Len(q) + 1
    BY <1>2
  <2>4. \A i \in 1..Len(q) : i \in 1..(Len(q) + 1)
    BY <1>2
  <2>5. Len(q) + 1 \in 1..(Len(q) + 1)
    BY <1>2
  <2>6. QED
    BY <1>2, <2>1, <2>2, <2>3, <2>4, <2>5
<1>4. QED
  BY <1>1, <1>3

LEMMA TailSet ==
  ASSUME NEW S, NEW q \in Seq(S), q # <<>>
  PROVE  /\ Head(q) \in S /\ Tail(q) \in Seq(S)
         /\ ToSet(q) = ToSet(Tail(q)) \cup {Head(q)}
<1>1. Head(q) \in S /\ Tail(q) \in Seq(S) /\ Len(q) \in Nat \ {0}
  OBVIOUS
<1>2. /\ DOMAIN Tail(q) = 1..(Len(q) - 1) /\ DOMAIN q = 1..Len(q)
      /\ \A i \in 1..(Len(q) - 1) : Tail(q)[i] = q[i + 1]
      /\ Head(q) = q[1]
  OBVIOUS
<1>3. ASSUME NEW y PROVE y \in ToSet(q) <=> y \in ToSet(Tail(q)) \cup {Head(q)}
  <2>1. y \in ToSet(Tail(q)) <=> \E i \in 1..(Len(q) - 1) : y = q[i + 1]
    BY <1>2 DEF ToSet
  <2>2. y \in ToSet(q) <=> \E i \in 1..Len(q) : y = q[i]
    BY <1>2 DEF ToSet
  <2>3. \A i \in 1..Len(q) : i = 1 \/ (i - 1 \in 1..(Len(q) - 1) /\ (i - 1) + 1 = i)
    BY <1>1
  <2>4. \A i \in 1..(Len(q) - 1) : i + 1 \in 1..Len(q)
    BY <1>1
  <2>5. 1 \in 1..Len(q)
    BY <1>1
  <2>6. QED
    BY <1>2, <2>1, <2>2, <2>3, <2>4, <2>5
<1>4. QED
  BY <1>1, <1>3

LEMMA ReplayFacts ==
  ASSUME NEW q \in Replays
  PROVE  q \in Seq(Request) /\ ToSet(q) = Pending
<1>1. Pending \subseteq Request
  BY DEF Pending
<1>2. Cardinality(Pending) \in Nat
  BY <1>1, Bounds, FS_Subset, FS_CardinalityType
<1>3. q \in [1..Cardinality(Pending) -> Pending] /\ ToSet(q) = Pending
  BY DEF Replays
<1>4. q \in [1..Cardinality(Pending) -> Request]
  BY <1>1, <1>3
<1>5. q \in Seq(Request)
  BY <1>2, <1>4, Z3
<1>6. QED
  BY <1>3, <1>5

-----------------------------------------------------------------------------
\* What the manager does to one request, and what that leaves.
LEMMA OutcomeFacts ==
  ASSUME ApprovalInv, NEW r \in Request, NEW o \in {"pending", "allow", "deny", "ask"},
         outcome[r] \in {"new", "pending"}, outcome' = [outcome EXCEPT ![r] = o],
         /\ alwaysAllow \subseteq alwaysAllow' /\ alwaysAllow' \subseteq Key
         /\ sessionAllow \subseteq sessionAllow' /\ sessionAllow' \subseteq Session,
         \A k \in alwaysAllow' \ alwaysAllow : k = KeyOf[r] /\ o = "allow",
         \A s \in sessionAllow' \ sessionAllow : s = SessionOf[r] /\ o = "allow"
  PROVE  /\ outcome' \in [Request -> {"new", "pending", "allow", "deny", "ask"}]
         /\ outcome'[r] = o /\ \A q \in Request \ {r} : outcome'[q] = outcome[q]
         /\ RulesComeFromAllowed'
<1>1. /\ outcome' \in [Request -> {"new", "pending", "allow", "deny", "ask"}]
      /\ outcome'[r] = o /\ \A q \in Request \ {r} : outcome'[q] = outcome[q]
  BY DEF ApprovalInv, TypeOK
<1>2. \A q \in Request : outcome[q] = "allow" => outcome'[q] = "allow"
  BY <1>1
<1>3. \A k \in alwaysAllow' : \E q \in Request : KeyOf[q] = k /\ outcome'[q] = "allow"
  BY <1>1, <1>2 DEF ApprovalInv, RulesComeFromAllowed
<1>4. \A s \in sessionAllow' : \E q \in Request : SessionOf[q] = s /\ outcome'[q] = "allow"
  BY <1>1, <1>2 DEF ApprovalInv, RulesComeFromAllowed
<1>5. QED
  BY <1>1, <1>3, <1>4 DEF RulesComeFromAllowed

\* Answers name a request; an answer in time decides it.
LEMMA SettleFacts ==
  ASSUME ApprovalInv, NEW a \in Answers, Settle(a)
  PROVE  /\ outcome' \in [Request -> {"new", "pending", "allow", "deny", "ask"}]
         /\ alwaysAllow' \subseteq Key /\ sessionAllow' \subseteq Session
         /\ Pending' = Pending \ {a.id}
         /\ RulesComeFromAllowed'
<1>1. a.id \in Request /\ a.decision \in {"allow", "deny"}
  BY DEF Answers
<1>2. CASE a.id \notin Pending
  <2>1. UNCHANGED <<outcome, alwaysAllow, sessionAllow>>
    BY <1>2 DEF Settle, manager
  <2>2. QED
    BY <1>2, <2>1 DEF ApprovalInv, TypeOK, Pending, RulesComeFromAllowed
<1>3. CASE a.id \in Pending
  <2>1. /\ outcome[a.id] = "pending"
        /\ outcome' = [outcome EXCEPT ![a.id] = a.decision]
        /\ alwaysAllow' = IF a.decision = "allow" /\ a.scope = "command"
                          THEN alwaysAllow \cup {KeyOf[a.id]} ELSE alwaysAllow
        /\ sessionAllow' = IF a.decision = "allow" /\ a.scope = "session"
                           THEN sessionAllow \cup {SessionOf[a.id]} ELSE sessionAllow
    BY <1>3 DEF Settle, Pending
  <2>2. KeyOf[a.id] \in Key /\ SessionOf[a.id] \in Session
    BY <1>1, Keyed
  <2>3. /\ alwaysAllow \subseteq alwaysAllow' /\ alwaysAllow' \subseteq Key
        /\ sessionAllow \subseteq sessionAllow' /\ sessionAllow' \subseteq Session
        /\ \A k \in alwaysAllow' \ alwaysAllow : k = KeyOf[a.id] /\ a.decision = "allow"
        /\ \A s \in sessionAllow' \ sessionAllow : s = SessionOf[a.id] /\ a.decision = "allow"
    BY <2>1, <2>2 DEF ApprovalInv, TypeOK
  <2>4. /\ outcome' \in [Request -> {"new", "pending", "allow", "deny", "ask"}]
        /\ outcome'[a.id] = a.decision /\ \A q \in Request \ {a.id} : outcome'[q] = outcome[q]
        /\ RulesComeFromAllowed'
    BY <1>1, <2>1, <2>3, OutcomeFacts
  <2>5. Pending' = Pending \ {a.id}
    BY <1>1, <2>4 DEF Pending
  <2>6. QED
    BY <2>3, <2>4, <2>5
<1>4. QED
  BY <1>2, <1>3

\* A request that was new, or a timeout.
LEMMA RequestFacts ==
  ASSUME ApprovalInv, NEW r \in Request, AutoAllow(r) \/ Ask(r) \/ Timeout(r)
  PROVE  ApprovalInv'
<1>1. /\ UNCHANGED <<alwaysAllow, sessionAllow, link, cards, toServer, acts>>
      /\ outcome[r] \in {"new", "pending"}
      /\ \E o \in {"pending", "allow", "deny", "ask"} :
           /\ outcome' = [outcome EXCEPT ![r] = o]
           /\ o = "pending" => Ask(r)
           /\ o # "pending" => toPhone' = toPhone
  BY DEF AutoAllow, Ask, Timeout, Pending
<1>2. PICK o \in {"pending", "allow", "deny", "ask"} :
           /\ outcome' = [outcome EXCEPT ![r] = o]
           /\ o = "pending" => Ask(r)
           /\ o # "pending" => toPhone' = toPhone
  BY <1>1
<1>3. /\ alwaysAllow \subseteq alwaysAllow' /\ alwaysAllow' \subseteq Key
      /\ sessionAllow \subseteq sessionAllow' /\ sessionAllow' \subseteq Session
  BY <1>1 DEF ApprovalInv, TypeOK
<1>4. /\ outcome' \in [Request -> {"new", "pending", "allow", "deny", "ask"}]
      /\ outcome'[r] = o /\ \A q \in Request \ {r} : outcome'[q] = outcome[q]
      /\ RulesComeFromAllowed'
  BY <1>1, <1>2, <1>3, OutcomeFacts
<1>5. /\ toPhone' \in [Phone -> Seq(Request)]
      /\ \A p \in Phone : /\ ToSet(toPhone[p]) \subseteq ToSet(toPhone'[p])
                          /\ o = "pending" /\ link[p] = "up" => r \in ToSet(toPhone'[p])
  <2>1. CASE o = "pending"
    <3>1. toPhone' = [p \in Phone |-> IF link[p] = "up" THEN Append(toPhone[p], r) ELSE toPhone[p]]
      BY <1>2, <2>1 DEF Ask
    <3>2. \A p \in Phone : toPhone[p] \in Seq(Request)
      BY DEF ApprovalInv, TypeOK
    <3>3. \A p \in Phone : /\ Append(toPhone[p], r) \in Seq(Request)
                           /\ ToSet(Append(toPhone[p], r)) = ToSet(toPhone[p]) \cup {r}
      BY <3>2, AppendSet
    <3>4. QED
      BY <3>1, <3>2, <3>3
  <2>2. CASE o # "pending"
    BY <1>2, <2>2 DEF ApprovalInv, TypeOK
  <2>3. QED
    BY <2>1, <2>2
<1>6. NoRequestIsLost'
  <2>1. ASSUME NEW p \in Phone, NEW q \in Pending', link'[p] = "up"
        PROVE  Offered(p, q)'
    <3>1. q \in Request /\ outcome'[q] = "pending"
      BY DEF Pending
    <3>2. CASE q = r
      BY <1>1, <1>4, <1>5, <2>1, <3>1, <3>2 DEF Offered
    <3>3. CASE q # r
      <4>1. Offered(p, q)
        BY <1>1, <1>4, <2>1, <3>1, <3>3 DEF ApprovalInv, NoRequestIsLost, Pending
      <4>2. QED
        BY <1>1, <1>5, <4>1 DEF Offered
    <3>4. QED
      BY <3>2, <3>3
  <2>2. QED
    BY <2>1 DEF NoRequestIsLost
<1>7. TypeOK'
  BY <1>1, <1>4, <1>5 DEF ApprovalInv, TypeOK
<1>8. QED
  BY <1>4, <1>6, <1>7 DEF ApprovalInv

LEMMA ResolveFacts ==
  ASSUME ApprovalInv, NEW p \in Phone, Resolve(p)
  PROVE  ApprovalInv'
<1> DEFINE a == Head(toServer[p])
<1>1. toServer[p] \in Seq(Answers) /\ toServer[p] # <<>>
  BY DEF Resolve, ApprovalInv, TypeOK
<1>2. /\ a \in Answers /\ Tail(toServer[p]) \in Seq(Answers)
      /\ ToSet(toServer[p]) = ToSet(Tail(toServer[p])) \cup {a}
  BY <1>1, TailSet
<1>3. Settle(a) /\ toServer' = [toServer EXCEPT ![p] = Tail(@)] /\ UNCHANGED <<link, cards, toPhone, acts>>
  BY DEF Resolve
<1> HIDE DEF a
<1>4. /\ outcome' \in [Request -> {"new", "pending", "allow", "deny", "ask"}]
      /\ alwaysAllow' \subseteq Key /\ sessionAllow' \subseteq Session
      /\ Pending' = Pending \ {a.id}
      /\ RulesComeFromAllowed'
  BY <1>2, <1>3, SettleFacts
<1>5. /\ toServer' \in [Phone -> Seq(Answers)]
      /\ toServer'[p] = Tail(toServer[p]) /\ \A u \in Phone \ {p} : toServer'[u] = toServer[u]
  BY <1>2, <1>3 DEF ApprovalInv, TypeOK
<1>6. NoRequestIsLost'
  <2>1. ASSUME NEW u \in Phone, NEW q \in Pending', link'[u] = "up" PROVE Offered(u, q)'
    <3>1. q \in Pending /\ q # a.id
      BY <1>4
    <3>2. Offered(u, q)
      BY <1>3, <2>1, <3>1 DEF ApprovalInv, NoRequestIsLost
    <3>3. CASE u = p
      BY <1>2, <1>3, <1>5, <3>1, <3>2, <3>3 DEF Offered
    <3>4. CASE u # p
      BY <1>3, <1>5, <3>2, <3>4 DEF Offered
    <3>5. QED
      BY <3>3, <3>4
  <2>2. QED
    BY <2>1 DEF NoRequestIsLost
<1>7. TypeOK'
  BY <1>3, <1>4, <1>5 DEF ApprovalInv, TypeOK
<1>8. QED
  BY <1>4, <1>6, <1>7 DEF ApprovalInv

\* The phones: the manager is left alone.
LEMMA PhoneFacts ==
  ASSUME ApprovalInv, NEW p \in Phone, UNCHANGED manager,
         Welcome(p) \/ OnApproval(p) \/ Break(p) \/ OnClose(p) \/ \E a \in Answers : Answer(p, a)
  PROVE  ApprovalInv'
<1>1. /\ outcome' = outcome /\ alwaysAllow' = alwaysAllow /\ sessionAllow' = sessionAllow
      /\ Pending' = Pending /\ RulesComeFromAllowed'
  BY DEF manager, Pending, ApprovalInv, RulesComeFromAllowed
<1>2. Acts => acts' \in 0..MaxActs
  BY Bounds DEF Acts, ApprovalInv, TypeOK
<1> DEFINE Others == \A u \in Phone \ {p} : /\ link'[u] = link[u] /\ cards'[u] = cards[u]
                                            /\ toPhone'[u] = toPhone[u] /\ toServer'[u] = toServer[u]
<1>3. ASSUME TypeOK', Others, \A q \in Pending : link'[p] = "up" => Offered(p, q)'
      PROVE  ApprovalInv'
  <2>1. ASSUME NEW u \in Phone, NEW q \in Pending', link'[u] = "up" PROVE Offered(u, q)'
    <3>1. CASE u = p
      BY <1>1, <1>3, <2>1, <3>1
    <3>2. CASE u # p
      <4>1. Offered(u, q)
        BY <1>1, <1>3, <2>1, <3>2 DEF ApprovalInv, NoRequestIsLost
      <4>2. QED
        BY <1>3, <3>2, <4>1 DEF Offered
    <3>3. QED
      BY <3>1, <3>2
  <2>2. QED
    BY <1>1, <1>3, <2>1 DEF ApprovalInv, NoRequestIsLost
<1>4. CASE Welcome(p)
  <2>1. PICK q \in Replays : toPhone' = [toPhone EXCEPT ![p] = q]
    BY <1>4 DEF Welcome
  <2>2. q \in Seq(Request) /\ ToSet(q) = Pending
    BY ReplayFacts
  <2>3. link' = [link EXCEPT ![p] = "up"] /\ UNCHANGED <<cards, toServer, acts>>
    BY <1>4 DEF Welcome
  <2>4. TypeOK' /\ Others /\ toPhone'[p] = q
    BY <1>1, <2>1, <2>2, <2>3 DEF ApprovalInv, TypeOK
  <2>5. QED
    BY <1>3, <2>2, <2>4 DEF Offered
<1>5. CASE OnApproval(p)
  <2>1. /\ link[p] = "up" /\ toPhone[p] # <<>> /\ toPhone[p] \in Seq(Request)
        /\ cards' = [cards EXCEPT ![p] = @ \cup {Head(toPhone[p])}]
        /\ toPhone' = [toPhone EXCEPT ![p] = Tail(@)]
        /\ UNCHANGED <<link, toServer, acts>>
    BY <1>5 DEF OnApproval, ApprovalInv, TypeOK
  <2>2. /\ Head(toPhone[p]) \in Request /\ Tail(toPhone[p]) \in Seq(Request)
        /\ ToSet(toPhone[p]) = ToSet(Tail(toPhone[p])) \cup {Head(toPhone[p])}
    BY <2>1, TailSet
  <2>3. /\ cards'[p] = cards[p] \cup {Head(toPhone[p])} /\ toPhone'[p] = Tail(toPhone[p])
        /\ Others /\ cards' \in [Phone -> SUBSET Request] /\ toPhone' \in [Phone -> Seq(Request)]
    BY <2>1, <2>2 DEF ApprovalInv, TypeOK
  <2>4. TypeOK'
    BY <1>1, <2>1, <2>3 DEF ApprovalInv, TypeOK
  <2>5. ASSUME NEW q \in Pending PROVE Offered(p, q)'
    <3>1. Offered(p, q)
      BY <2>1 DEF ApprovalInv, NoRequestIsLost
    <3>2. QED
      BY <2>1, <2>2, <2>3, <3>1 DEF Offered
  <2>6. QED
    BY <1>3, <2>3, <2>4, <2>5
<1>6. ASSUME NEW a \in Answers, Answer(p, a) PROVE ApprovalInv'
  <2>1. /\ acts' \in 0..MaxActs /\ UNCHANGED <<link, toPhone>>
        /\ cards' = [cards EXCEPT ![p] = @ \ {a.id}]
        /\ toServer[p] \in Seq(Answers)
    BY <1>2, <1>6 DEF Answer, ApprovalInv, TypeOK
  <2>2. /\ Append(toServer[p], a) \in Seq(Answers)
        /\ ToSet(Append(toServer[p], a)) = ToSet(toServer[p]) \cup {a}
    BY <2>1, AppendSet
  <2>3. /\ toServer' \in [Phone -> Seq(Answers)]
        /\ link[p] = "up" => toServer'[p] = Append(toServer[p], a)
        /\ \A u \in Phone \ {p} : toServer'[u] = toServer[u]
    BY <1>6, <2>2 DEF Answer, ApprovalInv, TypeOK
  <2>4. /\ cards' \in [Phone -> SUBSET Request] /\ cards'[p] = cards[p] \ {a.id}
        /\ \A u \in Phone \ {p} : cards'[u] = cards[u]
    BY <2>1 DEF ApprovalInv, TypeOK
  <2>5. TypeOK' /\ Others
    BY <1>1, <2>1, <2>3, <2>4 DEF ApprovalInv, TypeOK
  <2>6. ASSUME NEW q \in Pending, link'[p] = "up" PROVE Offered(p, q)'
    <3>1. link[p] = "up" /\ Offered(p, q)
      BY <2>1, <2>6 DEF ApprovalInv, NoRequestIsLost
    <3>2. CASE q = a.id
      BY <2>2, <2>3, <3>1, <3>2 DEF Offered
    <3>3. CASE q # a.id
      BY <2>1, <2>2, <2>3, <2>4, <3>1, <3>3 DEF Offered
    <3>4. QED
      BY <3>2, <3>3
  <2>7. QED
    BY <1>3, <2>5, <2>6
<1>7. CASE Break(p) \/ OnClose(p)
  <2>1. link' \in [Phone -> {"up", "broken", "down"}] /\ link'[p] # "up" /\ acts' \in 0..MaxActs
        /\ cards' = cards
    BY <1>2, <1>7 DEF Break, OnClose, ApprovalInv, TypeOK
  <2>2. Others
    BY <1>7 DEF Break, OnClose, ApprovalInv, TypeOK
  <2>e. <<>> \in Seq(Request) /\ <<>> \in Seq(Answers)
    OBVIOUS
  <2>q. toPhone' \in [Phone -> Seq(Request)] /\ toServer' \in [Phone -> Seq(Answers)]
    BY <1>7, <2>e DEF Break, OnClose, ApprovalInv, TypeOK
  <2>3. TypeOK'
    BY <1>1, <2>1, <2>q DEF ApprovalInv, TypeOK
  <2>4. QED
    BY <1>3, <2>1, <2>2, <2>3
<1>8. QED
  BY <1>4, <1>5, <1>6, <1>7

-----------------------------------------------------------------------------
LEMMA ApprovalInvHolds == Spec => []ApprovalInv
<1>1. Init => ApprovalInv
  <2> SUFFICES ASSUME Init PROVE ApprovalInv
    OBVIOUS
  <2>1. TypeOK
    BY Bounds DEF Init, TypeOK
  <2>2. NoRequestIsLost /\ RulesComeFromAllowed
    BY DEF Init, NoRequestIsLost, RulesComeFromAllowed
  <2>3. QED
    BY <2>1, <2>2 DEF ApprovalInv
<1>2. ApprovalInv /\ [Next]_vars => ApprovalInv'
  <2> SUFFICES ASSUME ApprovalInv, [Next]_vars PROVE ApprovalInv'
    OBVIOUS
  <2>1. ASSUME NEW r \in Request, AutoAllow(r) \/ Ask(r) \/ Timeout(r) PROVE ApprovalInv'
    BY <2>1, RequestFacts
  <2>2. ASSUME NEW p \in Phone, Resolve(p) PROVE ApprovalInv'
    BY <2>2, ResolveFacts
  <2>3. ASSUME NEW p \in Phone,
               Welcome(p) \/ OnApproval(p) \/ Break(p) \/ OnClose(p) \/ \E a \in Answers : Answer(p, a)
        PROVE  ApprovalInv'
    <3>1. UNCHANGED manager
      BY <2>3 DEF Welcome, OnApproval, Break, OnClose, Answer
    <3>2. QED
      BY <2>3, <3>1, PhoneFacts
  <2>4. CASE UNCHANGED vars
    BY <2>4 DEF vars, manager, ApprovalInv, TypeOK, NoRequestIsLost, RulesComeFromAllowed, Offered, Pending
  <2>5. QED
    BY <2>1, <2>2, <2>3, <2>4 DEF Next
<1>3. QED
  BY <1>1, <1>2, PTL DEF Spec

\* Every variable of the manager, the phones and the wire has its type.
THEOREM ApprovalTypes == Spec => []TypeOK
<1>1. ApprovalInv => TypeOK
  BY DEF ApprovalInv
<1>2. QED
  BY <1>1, ApprovalInvHolds, PTL

\* A connected phone shows every pending request, or is about to, or its
\* answer is on the way (manager.ts:40, server.ts: finishAuth).
THEOREM RequestsStayOffered == Spec => []NoRequestIsLost
<1>1. ApprovalInv => NoRequestIsLost
  BY DEF ApprovalInv
<1>2. QED
  BY <1>1, ApprovalInvHolds, PTL

\* An answer that comes after the timeout, or second, leaves no rule
\* (manager.ts, resolve).
THEOREM RulesAreEarned == Spec => []RulesComeFromAllowed
<1>1. ApprovalInv => RulesComeFromAllowed
  BY DEF ApprovalInv
<1>2. QED
  BY <1>1, ApprovalInvHolds, PTL

\* The manager, its timers, the phones and their losses implement
\* ToolDecisions: each call is decided once, by a human, a rule or the timeout.
THEOREM PromiseKept == Spec => KeepsPromise
<1>1. Init => Promise!Init
  BY DEF Init, Promise!Init
<1>2. ApprovalInv /\ [Next]_vars => [Promise!Next]_(Promise!vars)
  <2> SUFFICES ASSUME ApprovalInv, [Next]_vars, ~UNCHANGED Promise!vars PROVE Promise!Next
    OBVIOUS
  <2> USE DEF Promise!Becomes, Promise!rules, Promise!vars
  <2>1. ASSUME NEW r \in Request, AutoAllow(r) PROVE Promise!ByRule(r)
    BY <2>1 DEF AutoAllow, IsAutoAllowed, Promise!ByRule, Promise!Ruled
  <2>2. ASSUME NEW r \in Request, Ask(r) PROVE Promise!Ask(r)
    BY <2>2 DEF Ask, IsAutoAllowed, Promise!Ask, Promise!Ruled
  <2>3. ASSUME NEW r \in Request, Timeout(r) PROVE Promise!Expire(r)
    BY <2>3 DEF Timeout, Pending, Promise!Expire
  <2>4. ASSUME NEW p \in Phone, Resolve(p)
        PROVE  \E r \in Request : Promise!Deny(r) \/ Promise!Allow(r)
    <3> DEFINE a == Head(toServer[p])
    <3>1. Settle(a) /\ toServer[p] # <<>> /\ toServer[p] \in Seq(Answers)
      BY <2>4 DEF Resolve, ApprovalInv, TypeOK
    <3>2. a \in Answers
      BY <3>1, TailSet
    <3> HIDE DEF a
    <3>3. a.id \in Pending
      BY <3>1 DEF Settle, manager
    <3>4. a.id \in Request /\ outcome[a.id] = "pending" /\ outcome' = [outcome EXCEPT ![a.id] = a.decision]
      BY <3>1, <3>3 DEF Settle, Pending
    <3>5. CASE a.decision = "deny"
      BY <3>1, <3>3, <3>4, <3>5 DEF Settle, Promise!Deny
    <3>6. CASE a.decision = "allow"
      <4>1. a.scope \in {"once", "command", "session"}
        BY <3>2 DEF Answers
      <4>2. /\ alwaysAllow' = IF a.scope = "command" THEN alwaysAllow \cup {KeyOf[a.id]} ELSE alwaysAllow
            /\ sessionAllow' = IF a.scope = "session" THEN sessionAllow \cup {SessionOf[a.id]} ELSE sessionAllow
        BY <3>1, <3>3, <3>6 DEF Settle
      <4>3. Promise!Allow(a.id)
        BY <3>4, <3>6, <4>1, <4>2 DEF Promise!Allow
      <4>4. QED
        BY <3>4, <4>3
    <3>7. QED
      BY <3>2, <3>5, <3>6 DEF Answers
  <2>5. ASSUME NEW p \in Phone,
               Welcome(p) \/ OnApproval(p) \/ Break(p) \/ OnClose(p) \/ \E a \in Answers : Answer(p, a)
        PROVE  FALSE
    BY <2>5 DEF Welcome, OnApproval, Break, OnClose, Answer, manager
  <2>6. CASE UNCHANGED vars
    BY <2>6 DEF vars, manager
  <2>7. QED
    BY <2>1, <2>2, <2>3, <2>4, <2>5, <2>6 DEF Next, Promise!Next
<1>3. QED
  BY <1>1, <1>2, ApprovalInvHolds, PTL DEF Spec, KeepsPromise, Promise!Spec
=============================================================================
