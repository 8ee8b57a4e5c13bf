--------------------------- MODULE MCSessionTurns ---------------------------
(* SessionTurns for TLC: turns are interchangeable.                        *)
EXTENDS SessionTurns, TLC

Symmetry == Permutations(Turn)
=============================================================================
