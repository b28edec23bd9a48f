------------------------------ MODULE MCGateway ------------------------------
(* Gateway on small instances: the agent's allowlist holds the only real    *)
(* tool or nothing.                                                         *)
EXTENDS Gateway, TLC

CONSTANTS a1, read, hb

MCAgentOf == [k \in Tokens |-> a1]
MCScopes == {{}, {read}}

Symmetry == Permutations(Gateways) \cup Permutations(Calls) \cup Permutations(Clis)
===============================================================================
