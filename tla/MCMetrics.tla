----------------------------- MODULE MCMetrics ------------------------------
(* A small instance of Metrics for TLC. *)
EXTENDS Metrics

CONSTANTS p1, p2, s1

MCPoints   == {p1, p2}
MCNoConn   == {}
MCScrapers == {s1}
=============================================================================
