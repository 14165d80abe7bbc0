---------------------------- MODULE MCUnixBridge ----------------------------
(* Small instances of UnixBridge for TLC. *)
EXTENDS UnixBridge

CONSTANTS p1, k1, k2

MCPoints  == {p1}
MCNoConn  == {}
MCClients == {k1, k2}
MCSecond  == {k2}
MCNone    == {}

\* A peer that is allowed, and one that has the allowed user only.
MCAllowed == {[uid |-> 1, gid |-> 1]}
MCMixed   == {[uid |-> 1, gid |-> 1], [uid |-> 1, gid |-> 2]}
=============================================================================
