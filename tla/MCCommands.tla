----------------------------- MODULE MCCommands -----------------------------
(* An instance of Commands for TLC. *)
EXTENDS Commands
CONSTANTS ph1, ph2, p1, p2, c1, c2
=============================================================================
