------------------------- MODULE WaylandActivation -------------------------
(***************************************************************************)
(* Input activation on Wayland (src/src/backend/wayland.rs): one sentinel  *)
(* window, a strip, per monitor, whose enter and leave signals become      *)
(* corner events.  The compositor sends crossings in the order in which    *)
(* they happen, a leave before the next enter; GDK delivers each of them,  *)
(* some more than once, on the main loop, and the handler dispatches.      *)
(***************************************************************************)
EXTENDS Activation

wvars == <<pointer, wire, inCorner, edge, event>>

WInit ==
  /\ pointer = NoMonitor
  /\ wire = <<>>
  /\ inCorner = NoMonitor
  /\ edge = "outside" /\ event = <<"none">>

-----------------------------------------------------------------------------
\* The compositor: what the way from one place to another crosses.
Leaving(p)  == IF p = NoMonitor THEN <<>> ELSE <<<<"leave", p>>>>
Entering(p) == IF p = NoMonitor THEN <<>> ELSE <<<<"enter", p>>>>

WMove(p) ==
  /\ p # pointer
  /\ Len(wire) < MaxInFlight
  /\ wire' = wire \o Leaving(pointer) \o Entering(p)
  /\ pointer' = p
  /\ UNCHANGED <<inCorner, told>>

\* The next crossing is delivered, for the last time or not.
Delivered(kind, m) ==
  /\ wire # <<>> /\ Head(wire) = <<kind, m>>
  /\ wire' \in {wire, Tail(wire)}
  /\ UNCHANGED pointer

\* The enter handler of m's strip, which does nothing when in_corner is set.
EnterStrip(m) ==
  /\ Delivered("enter", m) /\ inCorner = NoMonitor
  /\ inCorner' = m
  /\ edge' = "inside" /\ event' = <<"entered", m>>

\* The leave handler reports the monitor it takes from in_corner.
LeaveStrip_Keeps(m) ==              \* mutant: in_corner is read, not taken
  /\ Delivered("leave", m) /\ inCorner # NoMonitor
  /\ edge' = "outside" /\ event' = <<"left", inCorner>>
  /\ UNCHANGED inCorner
LeaveStrip_Always(m) ==             \* mutant: an empty in_corner is reported
  /\ Delivered("leave", m)
  /\ inCorner' = NoMonitor /\ edge' = "outside" /\ event' = <<"left", inCorner>>
LeaveStrip(m) ==
  /\ Delivered("leave", m) /\ inCorner # NoMonitor
  /\ inCorner' = NoMonitor
  /\ edge' = "outside" /\ event' = <<"left", inCorner>>

Ignored(m) ==
  /\ \/ Delivered("enter", m) /\ inCorner # NoMonitor
     \/ Delivered("leave", m) /\ inCorner = NoMonitor
  /\ UNCHANGED <<inCorner, told>>

WNext ==
  \/ \E p \in Places : WMove(p)
  \/ \E m \in Monitors : EnterStrip(m) \/ LeaveStrip(m) \/ Ignored(m)

WSpec == WInit /\ [][WNext]_wvars

-----------------------------------------------------------------------------
(***************************************************************************)
(* Properties.                                                             *)
(***************************************************************************)

\* Once every crossing is delivered, backend and consumer know where the
\* pointer is, touching strips included: deliveries may repeat, but a leave
\* handler that takes whatever in_corner holds never takes the wrong one.
UpToDate == wire = <<>> => inCorner = pointer /\ edge = Side(pointer)
=============================================================================
