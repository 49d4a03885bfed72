----------------------------- MODULE MCMachines -----------------------------
(* An instance of Machines for TLC: two machines and two addresses.        *)
EXTENDS Machines, TLC
CONSTANTS a1, a2, i1, i2
Tokens == [i \in Id |-> <<"token", i>>]
Symmetry == Permutations({a1, a2}) \cup Permutations({i1, i2})
=============================================================================
