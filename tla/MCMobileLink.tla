---------------------------- MODULE MCMobileLink ----------------------------
(* An instance of MobileLink for TLC.  The tokens the phone has kept and   *)
(* those of the agents are t1; t2 is typed, or comes with a rotation.      *)
EXTENDS MobileLink
CONSTANTS a1, a2, t1, t2, s1, s2, s3
MCInit == Init /\ \A a \in Address : {machine[a].token, agent[a].token} \subseteq {t1, None}
MCFairSpec == MCInit /\ [][Next]_vars /\ Fairness
=============================================================================
