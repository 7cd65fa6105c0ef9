--------------------------- MODULE DaemonWayland ---------------------------
(***************************************************************************)
(* The overlay driven by the Wayland backend: the strips' handlers call    *)
(* the event glue directly, one main loop callback at a time.  There are   *)
(* no key grabs and no workspace events on Wayland; what remains are       *)
(* crossings, timeouts and commands.                                       *)
(***************************************************************************)
EXTENDS Daemon, WaylandActivation

dwvars == <<vars, wvars, inputs, overridden>>

DWInit == Init /\ listening /\ WInit /\ inputs = 0 /\ overridden = FALSE

DWMove(p) == Input /\ WMove(p) /\ UNCHANGED <<vars, overridden>>

\* A crossing that is reported reaches the glue's handler in the same callback.
DWEnter(m) ==
  /\ EnterStrip(m) /\ OnCornerEntered(m)
  /\ overridden' = FALSE
  /\ UNCHANGED inputs

DWLeave(m) ==
  /\ LeaveStrip(m) /\ OnCornerLeft
  /\ overridden' = FALSE
  /\ UNCHANGED inputs

DWIgnored(m) == Ignored(m) /\ UNCHANGED <<vars, inputs, overridden>>

DWFires(id) == Fires(id) /\ UNCHANGED <<wvars, inputs, overridden>>

DWCommand ==
  /\ Input
  /\ OverlayCommand
  /\ overridden' = TRUE
  /\ UNCHANGED wvars

DWNext ==
  \/ \E p \in Places : DWMove(p)
  \/ DWCommand
  \/ \E m \in Monitors : DWEnter(m) \/ DWLeave(m) \/ DWIgnored(m)
  \/ \E id \in SourceIds : DWFires(id)

DWSpec == DWInit /\ [][DWNext]_dwvars

-----------------------------------------------------------------------------
(***************************************************************************)
(* Properties.                                                             *)
(***************************************************************************)

\* Nothing left to do: every crossing delivered, no timeout armed.
DWAtRest == wire = <<>> /\ NoTimeout

\* At rest the overlay is up exactly if the pointer is in a strip, and then on
\* that strip's monitor, unless a command decided otherwise after the last
\* crossing: a quick pass over several strips, repeated crossings and timeouts
\* armed for one strip while the pointer is in the next do not mislead it.
ShownAtThePointer ==
  DWAtRest /\ ~overridden =>
    /\ visible <=> pointer # NoMonitor
    /\ visible => placed = pointer
=============================================================================
