---------------------------- MODULE ToolDecisions ----------------------------
(***************************************************************************)
(* What the approvals promise, without phones: each tool call is decided   *)
(* once.  A human allows or denies it, a rule that a human made allows it, *)
(* or nobody answers and the agent's own prompt asks.                      *)
(***************************************************************************)
CONSTANTS Request, Key, Session, KeyOf, SessionOf

VARIABLES outcome,        \* of each call: new, pending, allow, deny or ask
          alwaysAllow,    \* rules for a command
          sessionAllow    \* rules for a session

vars == <<outcome, alwaysAllow, sessionAllow>>
rules == <<alwaysAllow, sessionAllow>>

Ruled(r) == KeyOf[r] \in alwaysAllow \/ SessionOf[r] \in sessionAllow
Becomes(r, from, to) == outcome[r] = from /\ outcome' = [outcome EXCEPT ![r] = to]

Init == /\ outcome = [r \in Request |-> "new"]
        /\ alwaysAllow = {} /\ sessionAllow = {}

Ask(r) == ~Ruled(r) /\ Becomes(r, "new", "pending") /\ UNCHANGED rules
ByRule(r) == Ruled(r) /\ Becomes(r, "new", "allow") /\ UNCHANGED rules
Expire(r) == Becomes(r, "pending", "ask") /\ UNCHANGED rules
Deny(r) == Becomes(r, "pending", "deny") /\ UNCHANGED rules
Allow(r) ==  \* once, for the command or for the session
  /\ Becomes(r, "pending", "allow")
  /\ \/ UNCHANGED rules
     \/ alwaysAllow' = alwaysAllow \cup {KeyOf[r]} /\ UNCHANGED sessionAllow
     \/ sessionAllow' = sessionAllow \cup {SessionOf[r]} /\ UNCHANGED alwaysAllow

Next == \E r \in Request : Ask(r) \/ ByRule(r) \/ Expire(r) \/ Deny(r) \/ Allow(r)
Spec == Init /\ [][Next]_vars
=============================================================================
