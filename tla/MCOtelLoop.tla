------------------------------ MODULE MCOtelLoop ------------------------------
(* OtelIngest for its liveness: tool calls and a report on one gateway.      *)
EXTENDS OtelIngest, TLC

CONSTANTS a1, read, hb

MCAgentOf == [k \in Tokens |-> a1]
MCScopes == {{}, {read}}
===============================================================================
