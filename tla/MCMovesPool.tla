---------------------------- MODULE MCMovesPool -----------------------------
(* TLC's instance of MovesPool: objects and moves are interchangeable.     *)
EXTENDS MovesPool, TLC

Symmetry == Permutations(Objects) \cup Permutations(Move)
=============================================================================
