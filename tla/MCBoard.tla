------------------------------ MODULE MCBoard ------------------------------
(* Board for TLC: items and slots are interchangeable.                     *)
EXTENDS Board, TLC

Symmetry == Permutations(Items) \cup Permutations(Ops)
=============================================================================
