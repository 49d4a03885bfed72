------------------------------ MODULE Approvals ------------------------------
(***************************************************************************)
(* approvals/manager.ts with the phones that answer: a request that no     *)
(* rule covers is kept with a timer and broadcast; a phone shows it as a   *)
(* card, takes the card away as soon as it is answered, and learns what is *)
(* pending again when it is welcomed.  Frames arrive in order and are lost *)
(* with their connection, which the App may notice late.                   *)
(*                                                                         *)
(* The caller of request() is external: the hook's handler consults the    *)
(* rules and otherwise leaves the question to the agent's own prompt.      *)
(***************************************************************************)
EXTENDS Naturals, Sequences, FiniteSets

CONSTANTS Phone, Request, Key, Session,
          KeyOf, SessionOf,  \* of each request: ruleKey(...), and the session
          MaxActs            \* bound: answers given and connections lost

ASSUME Keyed == KeyOf \in [Request -> Key] /\ SessionOf \in [Request -> Session]
ASSUME Bounds == IsFiniteSet(Request) /\ MaxActs \in Nat  \* #pending is a finite map

VARIABLES
  outcome,       \* of each request's promise, and what is in #pending
  alwaysAllow,   \* #alwaysAllow
  sessionAllow,  \* #sessionAllow
  link,          \* each phone's session: up, broken (not noticed yet), down
  cards,         \* the approvals each App shows
  toPhone,       \* requests on their way to each phone
  toServer,      \* answers on their way from each phone
  acts           \* the bound's counter

manager == <<outcome, alwaysAllow, sessionAllow>>
vars == <<manager, link, cards, toPhone, toServer, acts>>
Acts == acts < MaxActs /\ acts' = acts + 1

Answers == [id : Request, decision : {"allow"}, scope : {"once", "command", "session"}]
           \cup [id : Request, decision : {"deny"}, scope : {"once"}]
Pending == {r \in Request : outcome[r] = "pending"}  \* #pending
IsAutoAllowed(r) == KeyOf[r] \in alwaysAllow \/ SessionOf[r] \in sessionAllow
ToSet(s) == {s[i] : i \in DOMAIN s}

Init ==
  /\ outcome = [r \in Request |-> "new"] /\ alwaysAllow = {} /\ sessionAllow = {}
  /\ link = [p \in Phone |-> "down"] /\ cards = [p \in Phone |-> {}]
  /\ toPhone = [p \in Phone |-> <<>>] /\ toServer = [p \in Phone |-> <<>>]
  /\ acts = 0
-----------------------------------------------------------------------------
(* The manager.                                                            *)
AutoAllow(r) ==
  /\ outcome[r] = "new" /\ IsAutoAllowed(r)
  /\ outcome' = [outcome EXCEPT ![r] = "allow"]
  /\ UNCHANGED <<alwaysAllow, sessionAllow, link, cards, toPhone, toServer, acts>>

Ask(r) ==  \* request(), and onRequest: #broadcastApproval
  /\ outcome[r] = "new" /\ ~IsAutoAllowed(r)
  /\ outcome' = [outcome EXCEPT ![r] = "pending"]
  /\ toPhone' = [p \in Phone |-> IF link[p] = "up" THEN Append(toPhone[p], r) ELSE toPhone[p]]
  /\ UNCHANGED <<alwaysAllow, sessionAllow, link, cards, toServer, acts>>

Timeout(r) ==
  /\ r \in Pending
  /\ outcome' = [outcome EXCEPT ![r] = "ask"]
  /\ UNCHANGED <<alwaysAllow, sessionAllow, link, cards, toPhone, toServer, acts>>

SettleLate(a) ==  \* mutant: whether or not the request is pending
  outcome' = [outcome EXCEPT ![a.id] = a.decision] /\ UNCHANGED <<alwaysAllow, sessionAllow>>

Settle(a) ==  \* resolve(): nothing, if the request is no longer pending
  IF a.id \notin Pending THEN UNCHANGED manager
  ELSE /\ outcome' = [outcome EXCEPT ![a.id] = a.decision]
       /\ alwaysAllow' = IF a.decision = "allow" /\ a.scope = "command"
                         THEN alwaysAllow \cup {KeyOf[a.id]} ELSE alwaysAllow
       /\ sessionAllow' = IF a.decision = "allow" /\ a.scope = "session"
                          THEN sessionAllow \cup {SessionOf[a.id]} ELSE sessionAllow

Resolve(p) ==  \* approval.resolve arrives
  /\ link[p] = "up" /\ toServer[p] # <<>>
  /\ Settle(Head(toServer[p]))
  /\ toServer' = [toServer EXCEPT ![p] = Tail(@)]
  /\ UNCHANGED <<link, cards, toPhone, acts>>
-----------------------------------------------------------------------------
(* The phones.                                                             *)
NoReplay == {<<>>}  \* mutant: a phone that comes back is told nothing
Replays == {q \in [1..Cardinality(Pending) -> Pending] : ToSet(q) = Pending}

Welcome(p) ==  \* finishAuth: what is pending is sent again, in the map's order
  /\ link[p] = "down"
  /\ link' = [link EXCEPT ![p] = "up"]
  /\ \E q \in Replays : toPhone' = [toPhone EXCEPT ![p] = q]
  /\ UNCHANGED <<manager, cards, toServer, acts>>

OnApproval(p) ==
  /\ link[p] = "up" /\ toPhone[p] # <<>>
  /\ cards' = [cards EXCEPT ![p] = @ \cup {Head(toPhone[p])}]
  /\ toPhone' = [toPhone EXCEPT ![p] = Tail(@)]
  /\ UNCHANGED <<manager, link, toServer, acts>>

Answerable(p, a) == link[p] # "down" /\ a.id \in cards[p]  \* the approvals screen

Answer(p, a) ==  \* resolveApproval: the card goes, whatever becomes of the answer
  /\ Acts /\ Answerable(p, a)
  /\ cards' = [cards EXCEPT ![p] = @ \ {a.id}]
  /\ toServer' = IF link[p] = "up" THEN [toServer EXCEPT ![p] = Append(@, a)] ELSE toServer
  /\ UNCHANGED <<manager, link, toPhone>>

Break(p) ==  \* the connection is gone with all it carried
  /\ Acts /\ link[p] = "up"
  /\ link' = [link EXCEPT ![p] = "broken"]
  /\ toPhone' = [toPhone EXCEPT ![p] = <<>>]
  /\ toServer' = [toServer EXCEPT ![p] = <<>>]
  /\ UNCHANGED <<manager, cards>>

OnClose(p) ==  \* the App notices; its cards stay
  /\ link[p] = "broken"
  /\ link' = [link EXCEPT ![p] = "down"]
  /\ UNCHANGED <<manager, cards, toPhone, toServer, acts>>

Next ==
  \/ \E r \in Request : AutoAllow(r) \/ Ask(r) \/ Timeout(r)
  \/ \E p \in Phone : Resolve(p) \/ Welcome(p) \/ OnApproval(p) \/ Break(p) \/ OnClose(p)
  \/ \E p \in Phone, a \in Answers : Answer(p, a)

Spec == Init /\ [][Next]_vars
FairSpec == Spec /\ \A r \in Request : WF_vars(Timeout(r))  \* a timer that is set fires
-----------------------------------------------------------------------------
(* Every variable has its type.                                            *)
TypeOK ==
  /\ outcome \in [Request -> {"new", "pending", "allow", "deny", "ask"}]
  /\ alwaysAllow \subseteq Key /\ sessionAllow \subseteq Session
  /\ link \in [Phone -> {"up", "broken", "down"}]
  /\ cards \in [Phone -> SUBSET Request]
  /\ toPhone \in [Phone -> Seq(Request)] /\ toServer \in [Phone -> Seq(Answers)]
  /\ acts \in 0..MaxActs

(* A phone that is connected shows every pending request, or is about to,  *)
(* or its answer is on the way: a request is not lost with an answer that  *)
(* got lost, nor while the phone was away.                                 *)
Offered(p, r) == \/ r \in cards[p] \cup ToSet(toPhone[p])
                 \/ \E a \in ToSet(toServer[p]) : a.id = r
NoRequestIsLost ==
  \A p \in Phone, r \in Pending : link[p] = "up" => Offered(p, r)

(* A rule exists only where a human allowed a request in time: an answer   *)
(* that comes after the timeout, or second, leaves none.                   *)
RulesComeFromAllowed ==
  /\ \A k \in alwaysAllow : \E r \in Request : KeyOf[r] = k /\ outcome[r] = "allow"
  /\ \A s \in sessionAllow : \E r \in Request : SessionOf[r] = s /\ outcome[r] = "allow"

(* The phones, their queues and their losses implement the promise that    *)
(* each call is decided once.                                              *)
Promise == INSTANCE ToolDecisions
KeepsPromise == Promise!Spec

(* "we never hard-block" (manager.ts:8): every request that waits for a    *)
(* human is decided.                                                       *)
NobodyBlocks == \A r \in Request : outcome[r] = "pending" ~> outcome[r] \in {"allow", "deny", "ask"}
=============================================================================
