-------------------------- MODULE MCTerminalMirror --------------------------
(* Instances of TerminalMirror for TLC. *)
EXTENDS TerminalMirror, TLC
CONSTANTS p1, p2, m1, m2, o1, o2
Symmetry == Permutations({p1, p2}) \cup Permutations({m1, m2}) \cup Permutations({o1, o2})
=============================================================================
