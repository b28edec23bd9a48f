----------------------------- MODULE MCOtelIngest -----------------------------
(* OtelIngest and the SDK on a small instance: a report next to a tool call. *)
EXTENDS Sdk, TLC

CONSTANTS a1, read, hb

MCAgentOf == [k \in Tokens |-> a1]
MCScopes == {{read}}

Symmetry == Permutations(Gateways) \cup Permutations(Calls) \cup Permutations(Reports)
===============================================================================
