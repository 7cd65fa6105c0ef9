---------------------------- MODULE MCSelfUpdate ----------------------------
(* A small instance of SelfUpdate for TLC: a daemon nothing happens to; one  *)
(* that is stopped and replaced and that cannot restart itself; and one that *)
(* runs beside its unit, at a path that is not one word to sh.               *)
EXTENDS SelfUpdate

SmallFaultSets ==
  {{}, {"spawn", "systemctl", "replaced", "stopped"}, {"manual", "unquoted"}}
=============================================================================
