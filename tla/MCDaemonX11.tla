---------------------------- MODULE MCDaemonX11 ----------------------------
(* Small instances of DaemonX11 for TLC.                                     *)
EXTENDS DaemonX11, TLC

Symmetry ==
  Permutations(SourceIds) \cup Permutations(Monitors) \cup Permutations(Desktops \ {NoDesktop})
=============================================================================
