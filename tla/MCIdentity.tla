------------------------------ MODULE MCIdentity ------------------------------
(* Identity and the console's views of it, on a small instance.             *)
EXTENDS Console, TLC

CONSTANTS oA, oB, a1, a2, d

\* d is the id of a client that both organizations have.
MCUses == {<<oA, a1>>, <<oA, a2>>, <<oA, d>>, <<oB, d>>}

Symmetry == Permutations(Clis) \cup Permutations(Humans) \cup Permutations({a1, a2})
===============================================================================
