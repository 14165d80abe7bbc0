---------------------------- MODULE MCNatsBridge ----------------------------
(* Small instances of NatsBridge for TLC. *)
EXTENDS NatsBridge, TLC

CONSTANTS p1, p2, c1

MCPoints   == {p1, p2}
MCOnePoint == {p1}
MCOneConn  == {c1}
MCNoConn   == {}

PointSymmetry == Permutations(MCPoints)
=============================================================================
