---------------------------- MODULE WorkerRegistry ---------------------------
(***************************************************************************)
(* What the rest of the system may rely on of the worker table, without    *)
(* the processes that write it (docs/ARCHITECTURE.md, section 5: a worker  *)
(* is replaceable).  A worker is added with the session it runs in; one    *)
(* that ended, or was removed, never comes back, and its place is not      *)
(* taken by another; those of a group of sessions (a project) are removed  *)
(* together; and in the sessions Cato manages, a worker starts only when   *)
(* no other is alive.                                                      *)
(***************************************************************************)
EXTENDS Naturals, Sequences

CONSTANT
  Session,   \* sessions workers run in
  Group,     \* sets of sessions whose workers are removed together
  Exclusive  \* sessions that have one worker at a time

VARIABLE life  \* the workers in the order they were started

Alive(s) == {w \in DOMAIN life : life[w].owner = s /\ life[w].status = "alive"}

Init == life = << >>

Start(s) ==
  /\ s \in Exclusive => Alive(s) = {}
  /\ life' = Append(life, [owner |-> s, status |-> "alive"])

End(w) ==
  /\ life[w].status = "alive"
  /\ life' = [life EXCEPT ![w].status = "ended"]

Remove(group) ==
  life' = [w \in DOMAIN life |->
             IF life[w].owner \in group THEN [life[w] EXCEPT !.status = "removed"] ELSE life[w]]

Next ==
  \/ \E s \in Session : Start(s)
  \/ \E w \in DOMAIN life : End(w)
  \/ \E group \in Group : Remove(group)

Spec == Init /\ [][Next]_life
=============================================================================
