------------------------------- MODULE Strips -------------------------------
(***************************************************************************)
(* The hot strips at the monitors' edges, and on which side of them the    *)
(* activation events say the pointer is: what the backends report and the  *)
(* event glue of the overlay goes by.                                      *)
(***************************************************************************)
CONSTANTS
  Monitors,     \* monitors with a hot strip
  NoMonitor     \* pointer in no strip / no monitor entered yet

ASSUME MonitorAssumption == NoMonitor \notin Monitors

VARIABLE edge   \* side the events dispatched so far put the pointer on

Places == Monitors \cup {NoMonitor}

\* In some strip, or in none.
Sides   == {"inside", "outside"}
Side(p) == IF p = NoMonitor THEN "outside" ELSE "inside"
=============================================================================
