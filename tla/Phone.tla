-------------------------------- MODULE Phone -------------------------------
(* What the phone's connection and its list of machines have in common.    *)
CONSTANTS Address,  \* where machines are reached
          None      \* no address, machine, token, client or target
=============================================================================
