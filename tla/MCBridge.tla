------------------------------ MODULE MCBridge ------------------------------
(* Small instances of Bridge for TLC. *)
EXTENDS Bridge, TLC

CONSTANTS p1, p2, c1, c2

MCPoints == {p1, p2}
MCConns  == {c1, c2}

Symmetry == Permutations(MCPoints) \cup Permutations(MCConns)
=============================================================================
