-------------------------- MODULE MCDaemonWayland --------------------------
(* Small instances of DaemonWayland for TLC.                                 *)
EXTENDS DaemonWayland, TLC

SourceSymmetry == Permutations(SourceIds)
=============================================================================
