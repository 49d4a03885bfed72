--------------------------- MODULE MCProjectHistory --------------------------
(***************************************************************************)
(* ProjectHistory for TLC: one session of the wrapper and one that Cato    *)
(* spawns, of the same project.                                            *)
(***************************************************************************)
EXTENDS ProjectHistory

CONSTANTS wrapper, spawned
=============================================================================
