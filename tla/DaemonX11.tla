----------------------------- MODULE DaemonX11 -----------------------------
(***************************************************************************)
(* The overlay driven by the X11 backend, as `install_event_source` wires  *)
(* them: while the event source polls and dispatches, no timeout and no    *)
(* command runs; between two runs of the source any of them may, and each  *)
(* one that shows the overlay waits for replies and so reads the socket.   *)
(*                                                                         *)
(* Overlay supplies the handlers, X11Activation the queues.  They share    *)
(* `desktop`, `edge` (the event glue's view of the pointer) and escGrab,   *)
(* which is the backend's overlay_visible.                                 *)
(***************************************************************************)
EXTENDS Daemon, X11Activation

ovars  == <<visible, opacity, placed, mappedOn, monitor, dwell, hideTimer, fade,
            source, endings, quitting, escGrab, listening, seen, running>>
dxvars == <<vars, xvars, inputs, overridden>>

DXInit == Init /\ listening /\ XInit /\ inputs = 0 /\ overridden = FALSE

DXMove(p)    == Input /\ XMove(p) /\ UNCHANGED <<ovars, overridden>>
DXPress(key) == Input /\ (key = "esc" => escGrab) /\ Press(key)
                      /\ UNCHANGED <<ovars, overridden>>
DXSwitch(d)  == Input /\ XSwitch(d) /\ UNCHANGED <<ovars, overridden>>

\* start(), then the event source up to the dispatch.
Pump ==
  /\ \/ Starting \/ SourceFires \/ PollNone \/ HandleMotion \/ HandleKey
     \/ HandleProperty \/ QueryPointer \/ DispatchDone
  /\ UNCHANGED <<ovars, inputs, overridden>>

\* The handler the dispatch closure chooses for event e.
Handler(e) ==
  CASE e[1] = "entered"   -> OnCornerEntered(e[2])
    [] e[1] = "left"      -> OnCornerLeft
    [] e[1] = "workspace" -> OnWorkspaceChanged(e[2])
    [] e[1] = "toggle"    -> OnToggle
    [] e[1] = "dismiss"   -> OnDismiss

\* set_overlay_visible(true) grabs Esc and waits, unless it is grabbed already;
\* `released` says that the callback released it first.
Grabs(released) ==
  IF escGrab' /\ (released \/ ~escGrab) THEN GrabEsc ELSE UNCHANGED <<wire, inq>>

DXDispatch ==
  /\ Tell
  /\ Handler(Head(out))
  /\ Grabs(Head(out)[1] = "workspace")
  /\ overridden' = (Head(out)[1] \in {"toggle", "dismiss"})
  /\ UNCHANGED inputs

\* A timeout or a command, when the main loop is not in the event source.
Elsewhere ==
  /\ loop = <<"idle">>
  /\ Grabs(FALSE)
  /\ UNCHANGED <<pointer, inCorner, lastDesktop, loop, out, event, untold>>

DXFires(id) == Fires(id) /\ Elsewhere /\ UNCHANGED <<inputs, overridden>>

DXCommand ==
  /\ Input
  /\ OverlayCommand
  /\ Elsewhere
  /\ overridden' = TRUE

DXInput ==
  \/ \E p \in Places : DXMove(p)
  \/ \E key \in {"toggle", "esc"} : DXPress(key)
  \/ \E d \in Desktops : DXSwitch(d)
  \/ DXCommand

DXNext == DXInput \/ Pump \/ DXDispatch \/ \E id \in SourceIds : DXFires(id)

DXSpec == DXInit /\ [][DXNext]_dxvars

\* The main loop dispatches what is ready; it decides nothing about inputs.
DXFairness == /\ WF_dxvars(Pump \/ DXDispatch)
              /\ \A id \in SourceIds : WF_dxvars(DXFires(id))

DXFairSpec == DXSpec /\ DXFairness

-----------------------------------------------------------------------------
(***************************************************************************)
(* Properties.                                                             *)
(***************************************************************************)

\* Nothing left to do: queues drained, no timeout armed.
DXAtRest == Drained /\ NoTimeout

\* The whole path from pointer to overlay works out: at rest the overlay is up
\* exactly if the pointer is in a strip, whatever was queued, re-read, cancelled
\* or superseded on the way, unless a key or command decided otherwise after the
\* last pointer event or the pointer has not moved since the daemon began.
FollowsThePointer ==
  DXAtRest /\ ~overridden /\ "pointer" \notin untold => (visible <=> pointer # NoMonitor)

\* The event glue's timers stay consistent under the event sequences the
\* backend really produces, touching strips and stale motion included.
GlueConsistent == CellsOwnTheirSources /\ TimersMatchPointer

\* What backend/mod.rs says: "every activation event is reported exactly once
\* through `dispatch`".  An event that a wait for a reply took off the socket is
\* not reported until the server happens to send another one.
EveryEventDispatched == inq # <<>> ~> inq = <<>>

\* What x11.rs says of workspace switches: "the overlay never lingers on a
\* workspace the user has left".  Shown by a timeout or command after a switch
\* away that has not been read yet, it stays behind when the user switches back
\* first: the workspace read then is the last one known, and nothing is reported.
NeverLingers ==
  DXAtRest /\ visible /\ untold = {} /\ NoDesktop \notin {mappedOn, desktop} =>
    mappedOn = desktop
=============================================================================
