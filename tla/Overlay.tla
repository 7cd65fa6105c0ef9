------------------------------ MODULE Overlay ------------------------------
(***************************************************************************)
(* The overlay of the daemon: the event glue of `build_ui` and the         *)
(* `OverlayController` it drives (src/src/main.rs).                        *)
(*                                                                         *)
(* Everything here runs on the GTK main loop, one callback at a time, so   *)
(* one callback is one action.  The interleavings that matter are those of *)
(* the callbacks: activation events from the backend, commands from the    *)
(* control socket, and the glib timeouts that earlier callbacks armed.     *)
(*                                                                         *)
(* A dwell, auto-hide or fade timeout is an entry of the main loop's table *)
(* `source`, known by an id; the code remembers ids in the cells `dwell`,  *)
(* `hideTimer` and `fade` to be able to cancel them.  Time is abstracted:  *)
(* an armed timeout may fire at any later step.  The quits and re-execs    *)
(* deferred by stop and restart are never cancelled and all take 50 ms, so *)
(* they happen in the order in which they were armed: `endings`.  A quit   *)
(* only makes this iteration of the main loop the last one: whatever else  *)
(* is due in it still runs before the process ends.                        *)
(***************************************************************************)
EXTENDS Strips, Workspaces, Naturals, Sequences

CONSTANTS
  SourceIds,    \* ids of main loop sources
  NoSource,     \* an empty Option<SourceId> cell
  FadeSteps,    \* FADE_STEPS
  MaxEndings    \* bound: deferred quits and re-execs pending at a time

ASSUME SourceAssumption  == NoSource \notin SourceIds
ASSUME FadeAssumption    == FadeSteps \in Nat \ {0}
ASSUME EndingAssumption  == MaxEndings \in Nat

VARIABLES
  visible,      \* the GTK window is visible (mapped)
  opacity,      \* its opacity: "clear" (0), "partial" or "opaque" (1)
  placed,       \* monitor it was last placed over
  mappedOn,     \* workspace it was last mapped on
  monitor,      \* OverlayController.monitor
  dwell,        \* the glue's dwell cell
  hideTimer,    \* the glue's hide_timer cell
  fade,         \* OverlayController.fade
  source,       \* the main loop's cancellable timeouts
  endings,      \* deferred ends: "stop" (quit) or "restart" (re-exec)
  quitting,     \* app.quit() was called: the main loop is in its last iteration
  escGrab,      \* the backend's overlay_visible: Esc is grabbed
  listening,    \* install_event_source succeeded
  seen,         \* workspace the events dispatched so far report
  running       \* the daemon process is alive

window == <<visible, opacity, placed, mappedOn>>
cells  == <<dwell, hideTimer, fade>>
world  == <<endings, quitting, listening, desktop, running>>
vars   == <<visible, opacity, placed, mappedOn, monitor, dwell, hideTimer,
            fade, source, endings, quitting, escGrab, listening, edge, seen,
            desktop, running>>

Opacities == {"clear", "partial", "opaque"}
Cells     == SourceIds \cup {NoSource}
Kinds     == {"free", "dwell", "hide", "fade"}

(***************************************************************************)
(* A source: what its callback does, and for a fade what the closure       *)
(* captured (target, starting opacity, steps taken).                       *)
(***************************************************************************)
Sources == [kind : Kinds, to : {"clear", "opaque"}, start : Opacities,
            step : 0 .. FadeSteps - 1]

Timeout(k)  == [kind |-> k, to |-> "clear", start |-> "clear", step |-> 0]
Free        == Timeout("free")
Fading(t,s) == [kind |-> "fade", to |-> t, start |-> s, step |-> 0]

\* Is the n-th step of a fade the last one?
LastStep_Late(n) == n > FadeSteps       \* mutant: compares with > for >=
LastStep(n) == n >= FadeSteps

\* The opacity after n steps of fade f: interpolated, and exact at the end.
Faded_Short(f, n) ==                    \* mutant: t stays below 1
  IF f.start = f.to THEN f.to ELSE "partial"
Faded(f, n) == IF LastStep(n) \/ f.start = f.to THEN f.to ELSE "partial"

\* The source table once the sources in ids are removed.
Without(ids) == [i \in SourceIds |-> IF i \in ids THEN Free ELSE source[i]]

\* The ids glib may hand out for a new source.
Unused(table) == {i \in SourceIds : table[i].kind = "free"}

-----------------------------------------------------------------------------
(***************************************************************************)
(* A fresh process.  The overlay starts hidden; when the event source      *)
(* cannot be installed it is shown instead, without telling the backend.   *)
(***************************************************************************)
Init ==
  /\ running = TRUE
  /\ listening \in BOOLEAN
  /\ desktop \in Desktops
  /\ seen = desktop
  /\ visible = ~listening
  /\ mappedOn = desktop
  /\ opacity = "opaque"
  /\ placed = NoMonitor
  /\ monitor = NoMonitor
  /\ edge = "outside"
  /\ dwell = NoSource
  /\ hideTimer = NoSource
  /\ fade = NoSource
  /\ source = [i \in SourceIds |-> Free]
  /\ endings = <<>>
  /\ quitting = FALSE
  /\ escGrab = FALSE

\* The state a process image that begins (alive) or ends (~alive) leaves.
Reset(alive) ==
  /\ running' = alive
  /\ listening' \in IF alive THEN BOOLEAN ELSE {FALSE}
  /\ visible' = (alive /\ ~listening')
  /\ seen' = desktop
  /\ mappedOn' = desktop
  /\ opacity' = "opaque"
  /\ placed' = NoMonitor
  /\ monitor' = NoMonitor
  /\ edge' = "outside"
  /\ dwell' = NoSource
  /\ hideTimer' = NoSource
  /\ fade' = NoSource
  /\ source' = [i \in SourceIds |-> Free]
  /\ endings' = <<>>
  /\ quitting' = FALSE
  /\ escGrab' = FALSE
  /\ UNCHANGED desktop

-----------------------------------------------------------------------------
(***************************************************************************)
(* OverlayController.  `gone` holds the sources the caller has already     *)
(* removed; `wasMapped` says whether the window is mapped at the call.     *)
(***************************************************************************)

\* show(): replace any fade, place, map fully transparent, grab Esc, fade in.
Show(gone, wasMapped) ==
  LET rest == Without(gone \cup {fade})
  IN  \E id \in Unused(rest) :
        /\ source' = [rest EXCEPT ![id] = Fading("opaque", "clear")]
        /\ fade' = id
        /\ visible' = TRUE
        /\ mappedOn' = IF wasMapped THEN mappedOn ELSE desktop
        /\ opacity' = "clear"
        /\ placed' = monitor
        /\ escGrab' = TRUE

\* hide_instant(): unmap now and release Esc.  The caller gives source',
\* which no longer holds the fade.
HideInstant_KeepsEsc ==                 \* mutant: forgets the backend
  fade' = NoSource /\ visible' = FALSE /\ UNCHANGED <<opacity, placed, mappedOn, escGrab>>
HideInstant ==
  /\ fade' = NoSource
  /\ visible' = FALSE
  /\ escGrab' = FALSE
  /\ UNCHANGED <<opacity, placed, mappedOn>>

\* hide(): fade out from the current opacity; nothing when not visible.
Hide_Pops(gone) ==                      \* mutant: hides without fading out
  HideInstant /\ source' = Without(gone \cup {fade})
Hide(gone) ==
  IF visible
  THEN LET rest == Without(gone \cup {fade})
       IN  \E id \in Unused(rest) :
             /\ source' = [rest EXCEPT ![id] = Fading("clear", opacity)]
             /\ fade' = id
             /\ UNCHANGED <<window, escGrab>>
  ELSE /\ source' = Without(gone)
       /\ UNCHANGED <<window, fade, escGrab>>

ShowOrHide(gone) == IF visible THEN Hide(gone) ELSE Show(gone, FALSE)

\* Every trigger but the corner's own events drops both debounce timers.
CancelTimers == dwell' = NoSource /\ hideTimer' = NoSource
Pending_Dwell == {dwell}                \* mutant: hide_timer is not removed
Pending == {dwell, hideTimer}

-----------------------------------------------------------------------------
(***************************************************************************)
(* The glue: `dispatch`, one handler per activation event.                 *)
(***************************************************************************)
OnCornerEntered_KeepsHide(m) ==         \* mutant: auto-hide stays armed
  LET rest == Without({dwell})
  IN  /\ \E id \in Unused(rest) :
           source' = [rest EXCEPT ![id] = Timeout("dwell")] /\ dwell' = id
      /\ monitor' = m /\ edge' = "inside"
      /\ UNCHANGED <<window, hideTimer, fade, escGrab, seen, world>>
OnCornerEntered(m) ==
  LET rest == Without(Pending)
  IN  /\ \E id \in Unused(rest) :
           /\ source' = [rest EXCEPT ![id] = Timeout("dwell")]
           /\ dwell' = id
      /\ hideTimer' = NoSource
      /\ monitor' = m
      /\ edge' = "inside"
      /\ UNCHANGED <<window, fade, escGrab, seen, world>>

\* The auto-hide id overwrites whatever hide_timer holds: the old id is
\* dropped, not removed from the main loop.
OnCornerLeft ==
  LET rest == Without({dwell})
  IN  /\ IF visible
         THEN \E id \in Unused(rest) :
                /\ source' = [rest EXCEPT ![id] = Timeout("hide")]
                /\ hideTimer' = id
         ELSE source' = rest /\ UNCHANGED hideTimer
      /\ dwell' = NoSource
      /\ edge' = "outside"
      /\ UNCHANGED <<window, fade, escGrab, monitor, seen, world>>

OnToggle ==
  /\ CancelTimers
  /\ ShowOrHide(Pending)
  /\ UNCHANGED <<monitor, edge, seen, world>>

OnDismiss ==
  /\ CancelTimers
  /\ Hide(Pending)
  /\ UNCHANGED <<monitor, edge, seen, world>>

\* The event says whether the pointer is in a hot area now.
OnWorkspaceChanged_NoRemap(side) ==     \* mutant: shows without hiding first
  /\ CancelTimers
  /\ IF side = "inside"
     THEN Show(Pending, visible)
     ELSE HideInstant /\ source' = Without(Pending \cup {fade})
  /\ edge' = side /\ seen' = desktop
  /\ UNCHANGED <<monitor, world>>
OnWorkspaceChanged(side) ==
  /\ CancelTimers
  /\ IF side = "inside"
     THEN Show(Pending, FALSE)
     ELSE HideInstant /\ source' = Without(Pending \cup {fade})
  /\ edge' = side
  /\ seen' = desktop
  /\ UNCHANGED <<monitor, world>>

(***************************************************************************)
(* When the backend may report them: each edge of the pointer and each     *)
(* workspace switch once, in order (the ActivationEvent contract).         *)
(***************************************************************************)
Reports == running /\ listening

CornerEntered(m)       == Reports /\ edge = "outside" /\ OnCornerEntered(m)
CornerLeft             == Reports /\ edge = "inside" /\ OnCornerLeft
Toggle                 == Reports /\ OnToggle
Dismiss                == Reports /\ OnDismiss
WorkspaceChanged(side) == Reports /\ seen # desktop /\ OnWorkspaceChanged(side)

\* The window manager switches workspace; it waits for the last switch to be
\* reported (what two unreported switches do is the subject of DaemonX11).
SwitchDesktop(d) ==
  /\ seen = desktop
  /\ d # desktop
  /\ desktop' = d
  /\ UNCHANGED <<window, cells, source, endings, quitting, escGrab, monitor, edge,
                 seen, listening, running>>
-----------------------------------------------------------------------------
(***************************************************************************)
(* Control-plane commands (the `ipc_dispatch` closure).                    *)
(***************************************************************************)
IpcShow ==
  /\ running
  /\ CancelTimers
  /\ Show(Pending, visible)
  /\ UNCHANGED <<monitor, edge, seen, world>>

IpcHide   == running /\ OnDismiss
IpcToggle == running /\ OnToggle

\* stop and restart hide at once and act 50 ms later, after the answer; in the
\* last iteration there is no later.
Deferred(kind) ==
  /\ running
  /\ quitting \/ Len(endings) < MaxEndings
  /\ CancelTimers
  /\ HideInstant
  /\ source' = Without(Pending \cup {fade})
  /\ endings' = IF quitting THEN endings ELSE Append(endings, kind)
  /\ UNCHANGED <<monitor, edge, seen, quitting, listening, desktop, running>>

IpcStop    == Deferred("stop")
IpcRestart == Deferred("restart")

-----------------------------------------------------------------------------
(***************************************************************************)
(* Timeout callbacks.                                                      *)
(***************************************************************************)
DwellFires_Continues(id) ==             \* mutant: Continue for Break
  /\ source[id].kind = "dwell"
  /\ Show({}, visible)
  /\ UNCHANGED <<dwell, hideTimer, monitor, edge, seen, world>>
DwellFires(id) ==
  /\ source[id].kind = "dwell"
  /\ Show({id}, visible)
  /\ dwell' = NoSource
  /\ UNCHANGED <<hideTimer, monitor, edge, seen, world>>

HideFires(id) ==
  /\ source[id].kind = "hide"
  /\ Hide({id})
  /\ hideTimer' = NoSource
  /\ UNCHANGED <<dwell, monitor, edge, seen, world>>

\* One step of a fade; the last step of a fade-out unmaps and frees Esc.
FadeTick(id) ==
  LET f    == source[id]
      next == f.step + 1
      done == LastStep(next)
      out  == done /\ f.to = "clear"
  IN  /\ f.kind = "fade"
      /\ opacity' = Faded(f, next)
      /\ visible' = (visible /\ ~out)
      /\ escGrab' = (escGrab /\ ~out)
      /\ fade' = IF done THEN NoSource ELSE fade
      /\ source' = [source EXCEPT ![id] =
                      IF done THEN Free ELSE [f EXCEPT !.step = next]]
      /\ UNCHANGED <<placed, mappedOn, dwell, hideTimer, monitor, edge, seen,
                     world>>

\* The oldest deferred end comes due.
Due(kind) == endings # <<>> /\ Head(endings) = kind

Quit ==
  /\ quitting' = TRUE
  /\ endings' = Tail(endings)
  /\ UNCHANGED <<window, cells, source, escGrab, monitor, edge, seen, listening,
                 desktop, running>>

\* stop: app.quit() sets a flag.
StopDue_Restarts ==                     \* mutant: stop re-executes too
  Due("stop") /\ Reset(TRUE)
StopDue == Due("stop") /\ Quit

\* restart: re-exec in place, a fresh process image, also in the last iteration;
\* a quit when the exec fails.
RestartDue   == Due("restart") /\ Reset(TRUE)
RestartFails == Due("restart") /\ Quit

\* The last iteration is over: the process ends and with it window, timeouts and
\* grabs, whatever was still armed.
LoopEnds == quitting /\ Reset(FALSE)

\* `hover-clock --start` after the daemon has exited.
Start == ~running /\ Reset(TRUE)

-----------------------------------------------------------------------------
Event ==
  \/ \E m \in Monitors : CornerEntered(m)
  \/ CornerLeft
  \/ Toggle
  \/ Dismiss
  \/ \E side \in Sides : WorkspaceChanged(side)

Command == IpcShow \/ IpcHide \/ IpcToggle \/ IpcStop \/ IpcRestart

Fires(id) == DwellFires(id) \/ HideFires(id) \/ FadeTick(id)

EndDue == StopDue \/ RestartDue \/ RestartFails \/ LoopEnds

Next ==
  \/ Event
  \/ Command
  \/ \E id \in SourceIds : Fires(id)
  \/ EndDue
  \/ \E d \in Desktops : SwitchDesktop(d)
  \/ Start

Spec == Init /\ [][Next]_vars

\* glib dispatches a timeout once it is due: an armed one eventually fires.
Fairness == WF_vars(EndDue) /\ \A id \in SourceIds : WF_vars(Fires(id))

FairSpec == Spec /\ Fairness

-----------------------------------------------------------------------------
(***************************************************************************)
(* Properties.                                                             *)
(***************************************************************************)

\* Every variable has its type.
TypeOK ==
  /\ visible \in BOOLEAN /\ escGrab \in BOOLEAN
  /\ listening \in BOOLEAN /\ running \in BOOLEAN /\ quitting \in BOOLEAN
  /\ opacity \in Opacities
  /\ placed \in Places /\ monitor \in Places /\ edge \in Sides
  /\ mappedOn \in Desktops /\ seen \in Desktops /\ desktop \in Desktops
  /\ dwell \in Cells /\ hideTimer \in Cells /\ fade \in Cells
  /\ source \in [SourceIds -> Sources]
  /\ endings \in Seq({"stop", "restart"})

\* The cells and the main loop agree: a cell never holds the id of a source
\* that is gone (SourceId::remove would panic on it), and no dwell, auto-hide
\* or fade source is left running that no cell can cancel any more, although
\* CornerLeft overwrites hide_timer without removing what it held.
CellsOwnTheirSources ==
  \A id \in SourceIds :
    /\ source[id].kind = "dwell" <=> dwell = id
    /\ source[id].kind = "hide"  <=> hideTimer = id
    /\ source[id].kind = "fade"  <=> fade = id

\* The dwell timeout is pending only while the pointer is in the strip it
\* entered, and auto-hide only while it is outside: a pointer that went
\* through quickly never brings the overlay up, and one that came back never
\* loses it to an auto-hide armed before.
TimersMatchPointer ==
  /\ dwell # NoSource => edge = "inside" /\ monitor # NoMonitor
  /\ hideTimer # NoSource => edge = "outside"

\* Once no fade is running, the overlay is either hidden or fully opaque: no
\* sequence of superseded fades leaves it mapped but transparent, and none
\* animates an unmapped window.
NeverStuckTranslucent ==
  IF fade = NoSource THEN visible => opacity = "opaque" ELSE visible

\* Esc is grabbed exactly while the overlay is visible, so that the key is
\* free for other applications whenever it is hidden (and, where activation
\* events are unavailable, at most while it is visible).
EscGrabbedIffVisible ==
  /\ escGrab => visible
  /\ listening => escGrab = visible

\* The overlay does not linger on a workspace the user left: once the switch
\* has been reported it is mapped on the current workspace, or hidden.
OnCurrentWorkspace ==
  listening /\ visible /\ seen = desktop => mappedOn = desktop

\* The overlay implements its promise: it comes up only by fading in, goes away
\* only by fading out unless a workspace switch, stop or restart hides it at
\* once, pointer edges alone change nothing, and the daemon ends only on demand.
Phase ==
  IF ~visible THEN "hidden"
  ELSE IF fade = NoSource THEN "shown"
  ELSE IF source[fade].to = "opaque" THEN "appearing" ELSE "vanishing"

Promise == INSTANCE OverlayPromise
             WITH phase <- Phase, pointer <- edge, alive <- running,
                  ending <- endings # <<>> \/ quitting

KeepsPromise == Promise!Spec

\* Once triggers cease, every timeout runs out and the overlay comes to rest,
\* hidden or opaque, with nothing left on the main loop.
ComesToRest ==
  <>[][(\E id \in SourceIds : Fires(id)) \/ EndDue]_vars
    => <>[]( /\ endings = <<>> /\ ~quitting /\ Unused(source) = SourceIds
             /\ visible => opacity = "opaque" )

\* An accepted stop ends the daemon, unless a restart is pending with it: one
\* accepted before, or within the delay of the stop and due in the same last
\* iteration, re-executes the daemon instead.
Accepted(kind) == \E i \in 1 .. Len(endings) : endings[i] = kind
StopEndsDaemon == Accepted("stop") ~> (~running \/ Accepted("restart"))
=============================================================================
