------------------------------ MODULE MCEventLog ------------------------------
(* EventLog with the gap alert on a small instance: two gateways that       *)
(* restart, a CLI, pruners, and a webhook and an e-mail channel.            *)
EXTENDS Alerts, TLC

Symmetry == Permutations(Gateways) \cup Permutations(Clis) \cup Permutations(Pruners)
===============================================================================
