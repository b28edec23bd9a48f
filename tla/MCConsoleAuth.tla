---------------------------- MODULE MCConsoleAuth ----------------------------
(* ConsoleAuth on a small instance.                                         *)
EXTENDS ConsoleAuth, TLC

Symmetry == Permutations(Humans)
===============================================================================
