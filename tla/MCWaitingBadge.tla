---------------------------- MODULE MCWaitingBadge ---------------------------
(***************************************************************************)
(* WaitingBadge for TLC: a project of its own for the first session, one   *)
(* that the two others share.                                              *)
(***************************************************************************)
EXTENDS WaitingBadge

CONSTANTS s1, s2, s3, p1, p2  \* three sessions, two projects

MCSession == {s1, s2, s3}

MCProject == {p1, p2}

MCProjectOf == [s \in MCSession |-> IF s = s1 THEN p1 ELSE p2]
=============================================================================
