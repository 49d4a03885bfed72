---------------------------- MODULE MCApprovals ----------------------------
(* An instance of Approvals for TLC: two calls of one command and a call   *)
(* of another in the first one's session.                                  *)
EXTENDS Approvals
CONSTANTS r1, r2, r3
Keys == [r \in Request |-> IF r = r3 THEN "k2" ELSE "k1"]
Sessions == [r \in Request |-> IF r = r2 THEN "s2" ELSE "s1"]
=============================================================================
