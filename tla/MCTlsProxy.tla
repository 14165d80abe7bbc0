----------------------------- MODULE MCTlsProxy -----------------------------
(* Small instances of TlsProxy for TLC. *)
EXTENDS TlsProxy

CONSTANTS m1, m2

MCMasters == {m1, m2}
MCSilent  == {m2}
MCCerts   == {"ours", "foreign", "none"}
MCTrusted == {"ours"}
=============================================================================
