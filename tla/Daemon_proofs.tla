---------------------------- MODULE Daemon_proofs ----------------------------
(***************************************************************************)
(* Proofs about the daemons, for any monitors, workspaces, source ids,     *)
(* fade steps, events in flight and inputs.  What the overlay and the      *)
(* backends each keep (Overlay_proofs, Activation_proofs) holds of them    *)
(* composed, and with it the path from the pointer to the overlay: on both *)
(* the overlay at rest is up exactly if the pointer is in a strip.         *)
(***************************************************************************)
EXTENDS Overlay_proofs, Activation_proofs, DaemonX11, DaemonWayland

USE MonitorAssumption, SourceAssumption

-----------------------------------------------------------------------------
(***************************************************************************)
(* What the two have in common.                                            *)
(***************************************************************************)

\* Unless a key or command decided otherwise, the overlay is where the pointer
\* is, on its way there, or has the timeout armed that will take it there.
Settling ==
  ~overridden =>
    IF edge = "inside" THEN dwell # NoSource \/ Phase \in {"appearing", "shown"}
                       ELSE hideTimer # NoSource \/ Phase \in {"hidden", "vanishing"}

DInv ==
  /\ TInv
  /\ running = TRUE /\ listening = TRUE
  /\ overridden \in BOOLEAN
  /\ Settling

LEMMA DaemonInit == ASSUME Init, listening, overridden = FALSE PROVE DInv /\ Promise!Init
<1>1. TInv /\ running = TRUE /\ listening = TRUE
  BY InitInv DEF TInv, TypeOK, Init
<1>2. Phase = "hidden" /\ edge = "outside" /\ endings = <<>> /\ quitting = FALSE
  BY <1>1 DEF Init, Phase
<1> QED
  BY <1>1, <1>2 DEF DInv, Settling, Promise!Init

\* Steps the overlay takes no part in, a workspace switch among them.
LEMMA ApartInv ==
  ASSUME DInv, UNCHANGED <<ovars, edge, overridden>>, desktop' \in Desktops
  PROVE  DInv' /\ UNCHANGED Promise!vars
<1>1. UNCHANGED <<visible, opacity, placed, mappedOn, monitor, dwell, hideTimer, fade, source,
                  endings, quitting, escGrab, listening, edge, seen, running, overridden>>
  BY DEF ovars
<1>2. Phase' = Phase
  BY <1>1 DEF Phase
<1>3. TInv'
  BY <1>1 DEF DInv, TInv, TypeOK, CellsOwnTheirSources, TimersMatchPointer,
     NeverStuckTranslucent, EscGrabbedIffVisible
<1> QED
  BY <1>1, <1>2, <1>3 DEF DInv, Settling, Promise!vars

\* The handlers of the activation events.
LEMMA EnteredInv ==
  ASSUME DInv, edge = "outside", NEW m \in Monitors, OnCornerEntered(m), overridden' = FALSE
  PROVE  DInv' /\ Promise!Enter
<1>1. TInv' /\ Promise!Enter
  BY CornerEnteredInv, EnterStep DEF DInv
<1>2. /\ UNCHANGED world /\ edge' = "inside"
      /\ dwell' \in SourceIds
  BY DEF OnCornerEntered, Unused
<1> QED
  BY <1>1, <1>2 DEF DInv, Settling, world

LEMMA LeftInv ==
  ASSUME DInv, edge = "inside", OnCornerLeft, overridden' = FALSE
  PROVE  DInv' /\ Promise!Leave
<1>1. TInv' /\ Promise!Leave
  BY CornerLeftInv, LeaveStep DEF DInv
<1>2. UNCHANGED <<window, world>> /\ edge' = "outside"
  BY DEF OnCornerLeft
<1>3. CASE visible
  <2>1. hideTimer' \in SourceIds
    BY <1>3 DEF OnCornerLeft, Unused
  <2> QED
    BY <1>1, <1>2, <2>1 DEF DInv, Settling, world
<1>4. CASE ~visible
  <2>1. Phase' = "hidden"
    BY <1>2, <1>4 DEF window, Phase
  <2> QED
    BY <1>1, <1>2, <2>1 DEF DInv, Settling, world
<1> QED
  BY <1>3, <1>4

LEMMA SwitchedInv ==
  ASSUME DInv, NEW side \in Sides, OnWorkspaceChanged(side), overridden' = FALSE
  PROVE  DInv' /\ Promise!SwitchTo(side)
<1>1. TInv' /\ Promise!SwitchTo(side)
  BY WorkspaceChangedInv, SwitchStep DEF DInv
<1>2. UNCHANGED world /\ edge' = side
  BY DEF OnWorkspaceChanged
<1>3. Phase' = IF side = "outside" THEN "hidden" ELSE "appearing"
  BY <1>1 DEF Promise!SwitchTo
<1> QED
  BY <1>1, <1>2, <1>3 DEF DInv, Settling, Sides, world

LEMMA KeyInv ==
  ASSUME DInv, OnToggle \/ OnDismiss, overridden' = TRUE
  PROVE  DInv' /\ [Promise!Next]_(Promise!vars)
<1>1. TInv' /\ [Promise!Next]_(Promise!vars)
  BY ToggleInv, DismissInv, ToggleStep, HideStep DEF DInv, OnDismiss, Promise!Next
<1>2. UNCHANGED world
  BY DEF OnToggle, OnDismiss
<1> QED
  BY <1>1, <1>2 DEF DInv, Settling, world

LEMMA CommandInv ==
  ASSUME DInv, OverlayCommand, overridden' = TRUE
  PROVE  DInv' /\ [Promise!Next]_(Promise!vars) /\ UNCHANGED <<edge, desktop>>
<1>1. CASE IpcShow
  <2>1. TInv' /\ Promise!Appear
    BY <1>1, IpcShowInv, ShowStep DEF DInv, IpcShow
  <2>2. UNCHANGED <<edge, world>>
    BY <1>1 DEF IpcShow
  <2> QED
    BY <2>1, <2>2 DEF DInv, Settling, world, Promise!Next
<1>2. CASE IpcHide \/ IpcToggle
  <2>1. UNCHANGED <<edge, world>>
    BY <1>2 DEF IpcHide, IpcToggle, OnToggle, OnDismiss
  <2> QED
    BY <1>2, <2>1, KeyInv DEF IpcHide, IpcToggle, world
<1> QED
  BY <1>1, <1>2 DEF OverlayCommand

\* A timeout that comes due takes the overlay where Settling says it would: a
\* dwell timeout fires in a strip only, an auto-hide timeout only outside.
LEMMA TimeoutInv ==
  ASSUME DInv, NEW id \in SourceIds, Fires(id), overridden' = overridden
  PROVE  DInv' /\ [Promise!Next]_(Promise!vars) /\ UNCHANGED <<edge, desktop>>
<1>1. TInv' /\ [Promise!Next]_(Promise!vars)
  BY FiresInv, FiresStep DEF DInv, Promise!Next
<1>2. UNCHANGED <<edge, world>>
  BY DEF Fires, DwellFires, HideFires, FadeTick
<1>3. id # NoSource
  OBVIOUS
<1>4. CASE DwellFires(id)
  <2>1. dwell = id /\ edge = "inside"
    BY <1>3, <1>4 DEF DInv, TInv, CellsOwnTheirSources, TimersMatchPointer, DwellFires
  <2>2. Phase' = "appearing"
    BY <1>4, ShowAppears DEF DwellFires, DInv
  <2> QED
    BY <1>1, <1>2, <2>1, <2>2 DEF DInv, Settling, world
<1>5. CASE HideFires(id)
  <2>1. hideTimer = id /\ edge = "outside"
    BY <1>3, <1>5 DEF DInv, TInv, CellsOwnTheirSources, TimersMatchPointer, HideFires
  <2>2. Phase' \in {"vanishing", "hidden"}
    BY <1>5, HideVanishes, HiddenStays DEF HideFires, DInv
  <2> QED
    BY <1>1, <1>2, <2>1, <2>2 DEF DInv, Settling, world
<1>6. CASE FadeTick(id)
  <2>1. Promise!Settle \/ Phase' = Phase
    BY <1>6, FadeStep DEF DInv, Promise!vars
  <2>2. /\ Phase \in {"appearing", "shown"} => Phase' \in {"appearing", "shown"}
        /\ Phase \in {"hidden", "vanishing"} => Phase' \in {"hidden", "vanishing"}
    BY <2>1 DEF Promise!Settle
  <2>3. UNCHANGED <<dwell, hideTimer>>
    BY <1>6 DEF FadeTick
  <2> QED
    BY <1>1, <1>2, <2>2, <2>3 DEF DInv, Settling, world
<1> QED
  BY <1>2, <1>4, <1>5, <1>6, <1>1 DEF Fires, world

\* With no timeout armed the overlay is up exactly if the events say that the
\* pointer is in a strip, and no cell holds an id.
LEMMA RestsAtEdge ==
  ASSUME DInv, NoTimeout
  PROVE  /\ dwell = NoSource /\ hideTimer = NoSource /\ fade = NoSource
         /\ ~overridden => (visible <=> edge = "inside")
<1>1. \A i \in SourceIds : source[i].kind = "free"
  BY DEF NoTimeout, Unused
<1>2. dwell = NoSource /\ hideTimer = NoSource /\ fade = NoSource
  BY <1>1 DEF DInv, TInv, TypeOK, Cells, CellsOwnTheirSources
<1>3. Phase = IF visible THEN "shown" ELSE "hidden"
  BY <1>2 DEF Phase
<1>4. visible \in BOOLEAN
  BY DEF DInv, TInv, TypeOK
<1> QED
  BY <1>2, <1>3, <1>4 DEF DInv, Settling

-----------------------------------------------------------------------------
(***************************************************************************)
(* The daemon on X11.                                                      *)
(***************************************************************************)
DXInv == DInv /\ XInv

\* A timeout or command leaves the backend alone or, if it shows the overlay,
\* makes it read the socket.
LEMMA ElsewhereStep ==
  ASSUME XInv, Elsewhere, UNCHANGED <<edge, desktop>>
  PROVE  ShowFromElsewhere \/ UNCHANGED xvars
<1>1. /\ loop = <<"idle">> /\ (GrabEsc \/ UNCHANGED <<wire, inq>>)
      /\ UNCHANGED <<pointer, inCorner, lastDesktop, loop, out, event, untold>>
  BY DEF Elsewhere, Grabs
<1>2. CASE UNCHANGED <<wire, inq>>
  BY <1>1, <1>2 DEF xvars
<1>3. CASE GrabEsc /\ wire # <<>>
  BY <1>1, <1>3 DEF ShowFromElsewhere, server, state, told
<1>4. CASE GrabEsc /\ wire = <<>>
  <2>1. inq \in Seq(XEvents)
    BY DEF XInv, XTypeOK
  <2>2. inq' = inq \o <<>> /\ wire' = <<>>
    BY <1>4 DEF GrabEsc, RoundTrip
  <2>3. inq' = inq
    BY <2>1, <2>2, ConcatEmptySeq
  <2> QED
    BY <1>1, <1>4, <2>2, <2>3 DEF xvars
<1> QED
  BY <1>1, <1>2, <1>3, <1>4

\* The handler of a report: the corner events come as TimersMatchPointer needs
\* them, an entry from outside and a way out from inside.
LEMMA DXDispatchInv ==
  ASSUME DXInv, DXDispatch
  PROVE  DInv' /\ Dispatch /\ [Promise!Next]_(Promise!vars)
<1> DEFINE e == Head(out)
<1>1. Tell /\ Handler(e) /\ Grabs(e[1] = "workspace")
      /\ overridden' = (e[1] \in {"toggle", "dismiss"})
  BY DEF DXDispatch
<1>2. Dispatch
  BY <1>1 DEF Grabs, Dispatch, queues
<1>3. e \in XReports /\ Tells(edge, e, edge')
  BY <1>1, TellLeads DEF DXInv
<1> HIDE DEF e
<1>o. ASSUME e[1] \notin {"toggle", "dismiss"} PROVE overridden' = FALSE
  <2>1. (e[1] \in {"toggle", "dismiss"}) = FALSE
    BY <1>o
  <2> QED
    BY <1>1, <2>1
<1>4. CASE e[1] = "entered"
  <2>1. /\ e[2] \in Monitors /\ edge = "outside"
        /\ OnCornerEntered(e[2]) /\ overridden' = FALSE
    BY <1>1, <1>3, <1>o, <1>4, ReportKinds DEF Tells, Handler
  <2> QED
    BY <1>2, <2>1, EnteredInv DEF DXInv, Promise!Next
<1>5. CASE e[1] = "left"
  <2>1. edge = "inside" /\ OnCornerLeft /\ overridden' = FALSE
    BY <1>1, <1>3, <1>o, <1>5 DEF Tells, Handler
  <2> QED
    BY <1>2, <2>1, LeftInv DEF DXInv, Promise!Next
<1>6. CASE e[1] = "workspace"
  <2>1. e[2] \in Sides /\ OnWorkspaceChanged(e[2]) /\ overridden' = FALSE
    BY <1>1, <1>3, <1>o, <1>6, ReportKinds DEF Handler
  <2> QED
    BY <1>2, <2>1, SwitchedInv DEF DXInv, Promise!Next, Sides
<1>7. CASE e[1] \in {"toggle", "dismiss"}
  <2>1. (OnToggle \/ OnDismiss) /\ overridden' = TRUE
    BY <1>1, <1>7 DEF Handler
  <2> QED
    BY <1>2, <2>1, KeyInv DEF DXInv
<1> QED
  BY <1>3, <1>4, <1>5, <1>6, <1>7, ReportKinds

\* Every step keeps the invariants, is one of the backend and one of the promise.
LEMMA DXStep ==
  ASSUME DXInv, [DXNext]_dxvars
  PROVE  DXInv' /\ [XNext]_xvars /\ [Promise!Next]_(Promise!vars)
<1>1. desktop \in Desktops
  BY DEF DXInv, XInv, XTypeOK
<1>2. ASSUME DInv', [XNext]_xvars, [Promise!Next]_(Promise!vars)
      PROVE  DXInv' /\ [XNext]_xvars /\ [Promise!Next]_(Promise!vars)
  BY <1>2, XNextInv DEF DXInv
<1>3. ASSUME [XNext]_xvars, UNCHANGED <<ovars, edge, overridden>>, desktop' \in Desktops
      PROVE  DXInv' /\ [XNext]_xvars /\ [Promise!Next]_(Promise!vars)
  BY <1>2, <1>3, ApartInv DEF DXInv
<1>4. ASSUME NEW p \in Places, DXMove(p)
      PROVE  DXInv' /\ [XNext]_xvars /\ [Promise!Next]_(Promise!vars)
  <2>1. XNext
    BY <1>4 DEF DXMove, XNext, Environment
  <2>2. UNCHANGED <<ovars, edge, overridden, desktop>>
    BY <1>4 DEF DXMove, XMove, told
  <2> QED
    BY <1>1, <1>3, <2>1, <2>2
<1>5. ASSUME NEW key \in {"toggle", "esc"}, DXPress(key)
      PROVE  DXInv' /\ [XNext]_xvars /\ [Promise!Next]_(Promise!vars)
  <2>1. XNext
    BY <1>5 DEF DXPress, XNext, Environment
  <2>2. UNCHANGED <<ovars, edge, overridden, desktop>>
    BY <1>5 DEF DXPress, Press, told, server
  <2> QED
    BY <1>1, <1>3, <2>1, <2>2
<1>6. ASSUME NEW d \in Desktops, DXSwitch(d)
      PROVE  DXInv' /\ [XNext]_xvars /\ [Promise!Next]_(Promise!vars)
  <2>1. XNext
    BY <1>6 DEF DXSwitch, XNext, Environment
  <2>2. UNCHANGED <<ovars, edge, overridden>> /\ desktop' = d
    BY <1>6 DEF DXSwitch, XSwitch, told
  <2> QED
    BY <1>3, <2>1, <2>2
<1>7. CASE DXCommand
  <2>1. DInv' /\ [Promise!Next]_(Promise!vars) /\ UNCHANGED <<edge, desktop>>
    BY <1>7, CommandInv DEF DXCommand, DXInv
  <2>2. [XNext]_xvars
    BY <1>7, <2>1, ElsewhereStep DEF DXCommand, DXInv, XNext
  <2> QED
    BY <1>2, <2>1, <2>2
<1>8. CASE Pump
  <2>1. XNext
    BY <1>8 DEF Pump, XNext, Source
  <2>2. UNCHANGED <<ovars, edge, overridden, desktop>>
    BY <1>8 DEF Pump, Starting, ReadDesktop, Subscribe, GrabToggle, SourceFires, PollNone,
       HandleMotion, HandleKey, HandleProperty, QueryPointer, DispatchDone, told, server
  <2> QED
    BY <1>1, <1>3, <2>1, <2>2
<1>9. CASE DXDispatch
  <2>1. DInv' /\ Dispatch /\ [Promise!Next]_(Promise!vars)
    BY <1>9, DXDispatchInv
  <2>2. XNext
    BY <2>1 DEF XNext, Source
  <2> QED
    BY <1>2, <2>1, <2>2
<1>10. ASSUME NEW id \in SourceIds, DXFires(id)
       PROVE  DXInv' /\ [XNext]_xvars /\ [Promise!Next]_(Promise!vars)
  <2>1. DInv' /\ [Promise!Next]_(Promise!vars) /\ UNCHANGED <<edge, desktop>>
    BY <1>10, TimeoutInv DEF DXFires, DXInv
  <2>2. [XNext]_xvars
    BY <1>10, <2>1, ElsewhereStep DEF DXFires, DXInv, XNext
  <2> QED
    BY <1>2, <2>1, <2>2
<1>11. CASE UNCHANGED dxvars
  <2>1. UNCHANGED <<ovars, edge, overridden, desktop>> /\ UNCHANGED xvars
    BY <1>11 DEF dxvars, vars, ovars, xvars
  <2> QED
    BY <1>1, <1>3, <2>1
<1> QED
  BY <1>4, <1>5, <1>6, <1>7, <1>8, <1>9, <1>10, <1>11 DEF DXNext, DXInput

LEMMA DXInvHolds == DXSpec => []DXInv
<1>1. DXInit => DXInv
  BY DaemonInit, XInitInv DEF DXInit, DXInv
<1>2. DXInv /\ [DXNext]_dxvars => DXInv'
  BY DXStep
<1> QED
  BY <1>1, <1>2, PTL DEF DXSpec

\* Whatever the event glue does, the backend behaves as it does alone: grabbing
\* Esc while the overlay is shown is a wait for replies like any other.
THEOREM DXIsX11 == DXSpec => XSpec
<1>1. DXInit => XInit
  BY DEF DXInit
<1>2. DXInv /\ [DXNext]_dxvars => [XNext]_xvars
  BY DXStep
<1> QED
  BY <1>1, <1>2, DXInvHolds, PTL DEF DXSpec, XSpec

\* The glue's cells and timers stay consistent under the events that the X11
\* backend really sends, in whatever order they are read, repeated or overtaken.
THEOREM X11GlueConsistent == DXSpec => []GlueConsistent
<1>1. DXInv => GlueConsistent
  BY DEF DXInv, DInv, TInv, GlueConsistent
<1> QED
  BY <1>1, DXInvHolds, PTL

\* Nor do they leave the overlay translucent, or Esc grabbed while it is hidden.
THEOREM X11DaemonSafe == DXSpec => [](NeverStuckTranslucent /\ EscGrabbedIffVisible)
<1>1. DXInv => NeverStuckTranslucent /\ EscGrabbedIffVisible
  BY DEF DXInv, DInv, TInv
<1> QED
  BY <1>1, DXInvHolds, PTL

\* Once everything is read and no timeout is armed, the overlay is up exactly if
\* the pointer is in a strip, wherever it jumped, unless a key or command decided
\* otherwise or the pointer has rested in a strip since before the daemon began.
THEOREM X11FollowsThePointer == DXSpec => []FollowsThePointer
<1>1. DXInv => FollowsThePointer
  <2> SUFFICES ASSUME DXInv, DXAtRest, ~overridden, "pointer" \notin untold
               PROVE  visible <=> pointer # NoMonitor
    BY DEF FollowsThePointer
  <2>1. Queued = <<>> /\ out = <<>>
    BY DEF DXAtRest, Drained, Queued, DXInv, XInv
  <2>2. ~Later(Queued, 1, Motion(pointer))
    BY <2>1 DEF Later
  <2>3. inCorner = pointer
    BY <2>2 DEF DXInv, XInv, LastMotion
  <2>4. edge = "inside" <=> inCorner # NoMonitor
    BY <2>1, LeadsNowhere DEF DXInv, XInv, Told, Side
  <2>5. visible <=> edge = "inside"
    BY RestsAtEdge DEF DXInv, DXAtRest
  <2> QED
    BY <2>3, <2>4, <2>5
<1> QED
  BY <1>1, DXInvHolds, PTL

\* Backend and glue know where the pointer is and which workspace is current
\* once the queues are drained, in the daemon as in the backend alone.
THEOREM X11DaemonUpToDate == DXSpec => []UpToDateWhenDrained
BY DXIsX11, KnowsWhenDrained, PTL

\* What the consumer is told keeps the activation contract in the daemon too.
THEOREM X11DaemonKeepsContract == DXSpec => KeepsContract
BY DXIsX11, X11ImplementsContract, PTL

\* Driven by the X11 backend the overlay keeps its promise: workspace switches that
\* are reported late, twice or not at all make it do nothing it may not do.
THEOREM X11KeepsPromise == DXSpec => KeepsPromise
<1>1. DXInit => Promise!Init
  BY DaemonInit DEF DXInit
<1>2. DXInv /\ [DXNext]_dxvars => [Promise!Next]_(Promise!vars)
  BY DXStep
<1> QED
  BY <1>1, <1>2, DXInvHolds, PTL DEF DXSpec, KeepsPromise, Promise!Spec

-----------------------------------------------------------------------------
(***************************************************************************)
(* The daemon on Wayland.                                                  *)
(***************************************************************************)

\* Unless a command decided otherwise, the overlay is placed over the monitor the
\* pointer entered last, or will be when the dwell timeout fires.
PlacedAtEdge ==
  ~overridden /\ inCorner # NoMonitor =>
    monitor = inCorner /\ (dwell = NoSource => placed = inCorner)

DWInv == DInv /\ WInv /\ PlacedAtEdge

LEMMA PlacedByTimeout ==
  ASSUME DWInv, NEW id \in SourceIds, Fires(id), UNCHANGED <<inCorner, overridden>>
  PROVE  PlacedAtEdge'
<1>1. UNCHANGED <<monitor, edge>>
  BY DEF Fires, DwellFires, HideFires, FadeTick
<1>2. CASE DwellFires(id)
  <2>1. placed' = monitor
    BY <1>2 DEF DwellFires, Show
  <2> QED
    BY <1>1, <2>1 DEF DWInv, PlacedAtEdge
<1>3. CASE HideFires(id)
  <2>1. inCorner = NoMonitor
    BY <1>3 DEF DWInv, DInv, TInv, CellsOwnTheirSources, TimersMatchPointer, HideFires,
       WInv, WTypeInv, Side
  <2> QED
    BY <1>1, <2>1 DEF PlacedAtEdge
<1>4. CASE FadeTick(id)
  BY <1>1, <1>4 DEF FadeTick, DWInv, PlacedAtEdge
<1> QED
  BY <1>2, <1>3, <1>4 DEF Fires

\* Every step keeps the invariants, is one of the backend and one of the promise.
LEMMA DWStep ==
  ASSUME DWInv, [DWNext]_dwvars
  PROVE  DWInv' /\ [WNext]_wvars /\ [Promise!Next]_(Promise!vars)
<1>1. desktop \in Desktops
  BY DEF DWInv, DInv, TInv, TypeOK
<1>2. ASSUME DInv', PlacedAtEdge', [WNext]_wvars, [Promise!Next]_(Promise!vars)
      PROVE  DWInv' /\ [WNext]_wvars /\ [Promise!Next]_(Promise!vars)
  BY <1>2, WNextInv DEF DWInv
<1>3. ASSUME [WNext]_wvars, UNCHANGED <<vars, overridden>>, inCorner' = inCorner
      PROVE  DWInv' /\ [WNext]_wvars /\ [Promise!Next]_(Promise!vars)
  <2>1. UNCHANGED <<ovars, edge, overridden>> /\ desktop' = desktop
    BY <1>3 DEF vars, ovars
  <2>2. DInv' /\ UNCHANGED Promise!vars
    BY <1>1, <2>1, ApartInv DEF DWInv
  <2>3. PlacedAtEdge'
    BY <1>3 DEF DWInv, PlacedAtEdge, vars
  <2> QED
    BY <1>2, <1>3, <2>2, <2>3
<1>4. ASSUME NEW p \in Places, DWMove(p)
      PROVE  DWInv' /\ [WNext]_wvars /\ [Promise!Next]_(Promise!vars)
  BY <1>3, <1>4 DEF DWMove, WMove, WNext
<1>5. CASE DWCommand
  <2>1. /\ OverlayCommand /\ overridden' = TRUE /\ UNCHANGED wvars
    BY <1>5 DEF DWCommand
  <2>2. DInv' /\ [Promise!Next]_(Promise!vars)
    BY <2>1, CommandInv DEF DWInv
  <2>3. PlacedAtEdge'
    BY <2>1 DEF PlacedAtEdge
  <2> QED
    BY <1>2, <2>1, <2>2, <2>3
<1>6. ASSUME NEW m \in Monitors, DWEnter(m)
      PROVE  DWInv' /\ [WNext]_wvars /\ [Promise!Next]_(Promise!vars)
  <2>1. WNext /\ OnCornerEntered(m) /\ overridden' = FALSE /\ inCorner = NoMonitor
    BY <1>6 DEF DWEnter, WNext, EnterStrip
  <2>2. edge = "outside"
    BY <2>1 DEF DWInv, WInv, WTypeInv, Side
  <2>3. DInv' /\ Promise!Enter
    BY <2>1, <2>2, EnteredInv DEF DWInv
  <2>4. monitor' = m /\ inCorner' = m /\ dwell' \in SourceIds
    BY <1>6, <2>1 DEF DWEnter, EnterStrip, OnCornerEntered, Unused
  <2>5. PlacedAtEdge'
    BY <2>4 DEF PlacedAtEdge
  <2> QED
    BY <1>2, <2>1, <2>3, <2>5 DEF Promise!Next
<1>7. ASSUME NEW m \in Monitors, DWLeave(m)
      PROVE  DWInv' /\ [WNext]_wvars /\ [Promise!Next]_(Promise!vars)
  <2>1. /\ WNext /\ OnCornerLeft /\ overridden' = FALSE
        /\ inCorner # NoMonitor /\ inCorner' = NoMonitor
    BY <1>7 DEF DWLeave, WNext, LeaveStrip
  <2>2. edge = "inside"
    BY <2>1 DEF DWInv, WInv, WTypeInv, Side
  <2>3. DInv' /\ Promise!Leave
    BY <2>1, <2>2, LeftInv DEF DWInv
  <2>4. PlacedAtEdge'
    BY <2>1 DEF PlacedAtEdge
  <2> QED
    BY <1>2, <2>1, <2>3, <2>4 DEF Promise!Next
<1>8. ASSUME NEW m \in Monitors, DWIgnored(m)
      PROVE  DWInv' /\ [WNext]_wvars /\ [Promise!Next]_(Promise!vars)
  BY <1>3, <1>8 DEF DWIgnored, Ignored, WNext
<1>9. ASSUME NEW id \in SourceIds, DWFires(id)
      PROVE  DWInv' /\ [WNext]_wvars /\ [Promise!Next]_(Promise!vars)
  <2>1. Fires(id) /\ UNCHANGED <<wvars, inCorner, overridden>>
    BY <1>9 DEF DWFires, wvars
  <2>2. DInv' /\ [Promise!Next]_(Promise!vars)
    BY <2>1, TimeoutInv DEF DWInv
  <2>3. PlacedAtEdge'
    BY <2>1, PlacedByTimeout
  <2> QED
    BY <1>2, <2>1, <2>2, <2>3
<1>10. CASE UNCHANGED dwvars
  BY <1>3, <1>10 DEF dwvars, wvars
<1> QED
  BY <1>4, <1>5, <1>6, <1>7, <1>8, <1>9, <1>10 DEF DWNext

LEMMA DWInvHolds == DWSpec => []DWInv
<1>1. ASSUME DWInit PROVE DWInv
  <2>1. DInv /\ overridden = FALSE
    BY <1>1, DaemonInit DEF DWInit
  <2>2. WInv
    BY <1>1 DEF DWInit, WInit, WInv, WTypeInv, OneWay, Places, Side
  <2>3. inCorner = NoMonitor
    BY <1>1 DEF DWInit, WInit
  <2> QED
    BY <2>1, <2>2, <2>3 DEF DWInv, PlacedAtEdge
<1>2. DWInv /\ [DWNext]_dwvars => DWInv'
  BY DWStep
<1> QED
  BY <1>1, <1>2, PTL DEF DWSpec

\* The strips' handlers call the glue, which does not interfere with them: the
\* backend behaves in the daemon as it does alone.
THEOREM DWIsWayland == DWSpec => WSpec
<1>1. DWInit => WInit
  BY DEF DWInit
<1>2. DWInv /\ [DWNext]_dwvars => [WNext]_wvars
  BY DWStep
<1> QED
  BY <1>1, <1>2, DWInvHolds, PTL DEF DWSpec, WSpec

\* In the daemon on Wayland, too, backend and glue know where the pointer is once
\* every crossing is delivered.
THEOREM WaylandDaemonUpToDate == DWSpec => []UpToDate
BY DWIsWayland, KnowsThePointer, PTL

\* ... and the glue is told of the pointer's crossings as the contract says.
THEOREM WaylandDaemonKeepsContract == DWSpec => KeepsContract
BY DWIsWayland, WaylandImplementsContract, PTL

\* Once every crossing is delivered and no timeout is armed, the overlay is up
\* exactly if the pointer is in a strip, and over that strip's monitor, unless a
\* command decided otherwise.
THEOREM WaylandShownAtThePointer == DWSpec => []ShownAtThePointer
<1>1. DWInv => ShownAtThePointer
  <2> SUFFICES ASSUME DWInv, DWAtRest, ~overridden
               PROVE  (visible <=> pointer # NoMonitor) /\ (visible => placed = pointer)
    BY DEF ShownAtThePointer
  <2>1. inCorner = pointer /\ edge = Side(pointer)
    BY DEF DWInv, WInv, WTypeInv, OneWay, DWAtRest
  <2>2. dwell = NoSource /\ (visible <=> pointer # NoMonitor)
    BY <2>1, RestsAtEdge DEF DWInv, DWAtRest, Side
  <2>3. inCorner # NoMonitor => placed = inCorner
    BY <2>2 DEF DWInv, PlacedAtEdge
  <2> QED
    BY <2>1, <2>2, <2>3
<1> QED
  BY <1>1, DWInvHolds, PTL

\* Driven by the Wayland backend the overlay keeps its promise.
THEOREM WaylandKeepsPromise == DWSpec => KeepsPromise
<1>1. DWInit => Promise!Init
  BY DaemonInit DEF DWInit
<1>2. DWInv /\ [DWNext]_dwvars => [Promise!Next]_(Promise!vars)
  BY DWStep
<1> QED
  BY <1>1, <1>2, DWInvHolds, PTL DEF DWSpec, KeepsPromise, Promise!Spec
=============================================================================
