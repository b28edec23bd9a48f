---------------------------- MODULE MCCredentials ----------------------------
(* Credentials on a small instance: two CLI processes, two tokens.          *)
EXTENDS Credentials, TLC

Symmetry == Permutations(Clis) \cup Permutations(Tokens)
===============================================================================
