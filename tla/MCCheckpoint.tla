----------------------------- MODULE MCCheckpoint -----------------------------
(* Checkpoint on a small instance.                                          *)
EXTENDS Checkpoint, TLC

Symmetry == Permutations(Writers)
===============================================================================
