--------------------------- MODULE X11Activation ---------------------------
(***************************************************************************)
(* Input activation on X11 (src/src/backend/x11.rs): the pointer, key and  *)
(* workspace events the X server sends, the two queues they pass through,  *)
(* and the event source that turns them into activation events.            *)
(*                                                                         *)
(* Events wait in the socket (`wire`) until the client reads them.  Any    *)
(* wait for a reply reads the socket too and leaves the events it meets in *)
(* x11rb's own queue (`inq`), which the main loop does not watch: the      *)
(* event source fires only while the socket is readable.                   *)
(*                                                                         *)
(* start() subscribes to motion, reads the workspace, subscribes to its    *)
(* changes and grabs the shortcut, one wait for a reply each.  It does not *)
(* ask where the pointer is.                                               *)
(***************************************************************************)
EXTENDS Activation, Workspaces

CONSTANT NoDesktop      \* _NET_CURRENT_DESKTOP where no window manager sets it

ASSUME DesktopAssumption == NoDesktop \in Desktops

\* The X server has pointer, desktop (_NET_CURRENT_DESKTOP) and wire.
VARIABLES
  inq,          \* events read into x11rb's queue, not yet polled
  lastDesktop,  \* ActivationState.last_desktop
  loop,         \* what the main loop is doing in the event source
  out,          \* activation events of this poll not yet dispatched
  untold        \* history: "pointer" or "desktop" is as no event has told

server == <<pointer, desktop>>
queues == <<wire, inq>>
state  == <<inCorner, lastDesktop>>
xvars  == <<pointer, desktop, wire, inq, inCorner, lastDesktop, loop, out, edge, event,
            untold>>

XEvents  == ({"motion"} \X Places) \cup {<<"toggle">>, <<"esc">>, <<"property">>}
XReports == ({"entered", "left"} \X Monitors) \cup ({"workspace"} \X Sides)
             \cup {<<"toggle">>, <<"dismiss">>}

\* start() has selected motion events, wherever the pointer is.
XInit ==
  /\ pointer \in Places
  /\ desktop \in Desktops
  /\ lastDesktop = NoDesktop
  /\ wire = <<>> /\ inq = <<>> /\ out = <<>>
  /\ inCorner = NoMonitor
  /\ loop = <<"start">>
  /\ edge = "outside" /\ event = <<"none">>
  /\ untold = IF pointer = NoMonitor THEN {"desktop"} ELSE {"pointer", "desktop"}

\* What start() has not come to yet.
Unwatched == loop \in {<<"start">>, <<"watch">>}

-----------------------------------------------------------------------------
(***************************************************************************)
(* The X server.  It sends at any time, also while the client is busy.     *)
(***************************************************************************)
Send(e) ==
  /\ Len(wire) + Len(inq) + Len(out) < MaxInFlight
  /\ wire' = Append(wire, e)

\* The pointer moves, inside a place, to the next one or with a jump.
XMove(p) ==
  /\ pointer' = p
  /\ Send(<<"motion", p>>)
  /\ untold' = untold \ {"pointer"}
  /\ UNCHANGED <<desktop, inq, state, loop, out, told>>

\* A grabbed key is pressed; Esc reaches us only while it is grabbed.
Press(key) ==
  /\ ~Unwatched
  /\ Send(<<key>>)
  /\ UNCHANGED <<server, inq, state, loop, out, told, untold>>

\* The window manager switches workspace, or begins or ceases to advertise it;
\* nobody is told before start() has subscribed.
XSwitch(d) ==
  /\ d # desktop
  /\ desktop' = d
  /\ IF Unwatched
     THEN untold' = untold \cup {"desktop"} /\ UNCHANGED wire
     ELSE untold' = untold \ {"desktop"} /\ Send(<<"property">>)
  /\ UNCHANGED <<pointer, inq, state, loop, out, told>>

-----------------------------------------------------------------------------
(***************************************************************************)
(* The event source: poll_events drains both queues, then every activation *)
(* event found is dispatched.                                              *)
(***************************************************************************)

\* A wait for a reply: what was on the wire before it is now in the queue.
RoundTrip == inq' = inq \o wire /\ wire' = <<>>

\* The rest of start(), a wait for a reply each: it reads the workspace, selects
\* property events, grabs the shortcut.
ReadDesktop ==
  /\ loop = <<"start">> /\ RoundTrip
  /\ lastDesktop' = desktop
  /\ untold' = untold \ {"desktop"}
  /\ loop' = <<"watch">>
  /\ UNCHANGED <<server, inCorner, out, told>>

Subscribe ==
  /\ loop = <<"watch">> /\ RoundTrip
  /\ loop' = <<"grab">>
  /\ UNCHANGED <<server, state, out, told, untold>>

GrabToggle ==
  /\ loop = <<"grab">> /\ RoundTrip
  /\ loop' = <<"idle">>
  /\ UNCHANGED <<server, state, out, told, untold>>

SourceFires ==
  /\ loop = <<"idle">> /\ wire # <<>>
  /\ loop' = <<"poll">>
  /\ UNCHANGED <<server, queues, state, out, told, untold>>

\* poll_for_event: the queue first; an empty queue is refilled from the socket.
Pollable == IF inq # <<>> THEN inq ELSE wire
Unpolled == IF inq # <<>> THEN wire ELSE <<>>

Poll(kinds) ==
  /\ loop = <<"poll">> /\ Pollable # <<>>
  /\ Head(Pollable)[1] \in kinds

PollNone ==
  /\ loop = <<"poll">> /\ Pollable = <<>>
  /\ loop' = <<"dispatch">>
  /\ UNCHANGED <<server, queues, state, out, told, untold>>

\* What a pointer now at p reports, coming from in_corner.
Crossing(p) ==
  CASE inCorner = NoMonitor /\ p # NoMonitor -> <<<<"entered", p>>>>
    [] inCorner # NoMonitor /\ p = NoMonitor -> <<<<"left", inCorner>>>>
    [] OTHER -> <<>>

HandleMotion_KeepsCorner ==              \* mutant: leaving does not clear in_corner
  /\ Poll({"motion"})
  /\ LET p == Head(Pollable)[2]
     IN  out' = out \o Crossing(p) /\ inCorner' = IF p = NoMonitor THEN inCorner ELSE p
  /\ inq' = Tail(Pollable) /\ wire' = Unpolled
  /\ UNCHANGED <<server, lastDesktop, loop, told, untold>>
HandleMotion ==
  /\ Poll({"motion"})
  /\ LET p == Head(Pollable)[2]
     IN  out' = out \o Crossing(p) /\ inCorner' = p
  /\ inq' = Tail(Pollable) /\ wire' = Unpolled
  /\ UNCHANGED <<server, lastDesktop, loop, told, untold>>

KeyEvent(key) == IF key = <<"toggle">> THEN key ELSE <<"dismiss">>

HandleKey ==
  /\ Poll({"toggle", "esc"})
  /\ out' = Append(out, KeyEvent(Head(Pollable)))
  /\ inq' = Tail(Pollable) /\ wire' = Unpolled
  /\ UNCHANGED <<server, state, loop, told, untold>>

\* PropertyNotify: read the desktop again; carry on only if there is one and it
\* changed.
HandleProperty ==
  /\ Poll({"property"})
  /\ inq' = Tail(Pollable) \o Unpolled /\ wire' = <<>>
  /\ loop' = IF desktop \in {lastDesktop, NoDesktop} THEN <<"poll">> ELSE <<"query", desktop>>
  /\ UNCHANGED <<server, state, out, told, untold>>

QueryPointer_Forgets ==                  \* mutant: last_desktop is not updated
  /\ loop[1] = "query" /\ RoundTrip
  /\ inCorner' = pointer /\ untold' = untold \ {"pointer"}
  /\ out' = Append(out, <<"workspace", Side(pointer)>>)
  /\ loop' = <<"poll">>
  /\ UNCHANGED <<server, lastDesktop, told>>
\* ... then ask where the pointer is now, which may be ahead of the queue.
QueryPointer ==
  /\ loop[1] = "query"
  /\ RoundTrip
  /\ lastDesktop' = loop[2]
  /\ inCorner' = pointer
  /\ untold' = untold \ {"pointer"}
  /\ out' = Append(out, <<"workspace", Side(pointer)>>)
  /\ loop' = <<"poll">>
  /\ UNCHANGED <<server, told>>

\* The consumer is told the next event.
Tell ==
  /\ loop = <<"dispatch">> /\ out # <<>>
  /\ LET e == Head(out)
     IN  /\ edge' = CASE e[1] = "entered"   -> "inside"
                      [] e[1] = "left"      -> "outside"
                      [] e[1] = "workspace" -> e[2]
                      [] OTHER              -> edge
         /\ event' = e
  /\ out' = Tail(out)
  /\ UNCHANGED <<server, state, loop, untold>>

DispatchDone ==
  /\ loop = <<"dispatch">> /\ out = <<>>
  /\ loop' = <<"idle">>
  /\ UNCHANGED <<server, queues, state, out, told, untold>>

\* set_overlay_visible(true) waits for the replies to its key grabs.
GrabEsc == RoundTrip

Dispatch == Tell /\ (GrabEsc \/ UNCHANGED queues)

\* A timer or command that shows the overlay, between two runs of the source.
ShowFromElsewhere ==
  /\ loop = <<"idle">> /\ wire # <<>>
  /\ GrabEsc
  /\ UNCHANGED <<server, state, loop, out, told, untold>>

-----------------------------------------------------------------------------
Environment ==
  \/ \E p \in Places : XMove(p)
  \/ \E key \in {"toggle", "esc"} : Press(key)
  \/ \E d \in Desktops : XSwitch(d)

Source ==
  \/ SourceFires
  \/ PollNone \/ HandleMotion \/ HandleKey \/ HandleProperty \/ QueryPointer
  \/ Dispatch \/ DispatchDone

Starting == ReadDesktop \/ Subscribe \/ GrabToggle

XNext == Environment \/ Starting \/ Source \/ ShowFromElsewhere

XSpec == XInit /\ [][XNext]_xvars

-----------------------------------------------------------------------------
(***************************************************************************)
(* Properties.                                                             *)
(***************************************************************************)

\* Every variable has its type.
XTypeOK ==
  /\ pointer \in Places /\ inCorner \in Places /\ edge \in Sides
  /\ desktop \in Desktops /\ lastDesktop \in Desktops
  /\ wire \in Seq(XEvents) /\ inq \in Seq(XEvents) /\ out \in Seq(XReports)
  /\ loop \in {<<"start">>, <<"watch">>, <<"grab">>, <<"idle">>, <<"poll">>, <<"dispatch">>}
               \cup ({"query"} \X Desktops)
  /\ untold \subseteq {"pointer", "desktop"}

Drained == loop = <<"idle">> /\ wire = <<>> /\ inq = <<>>

\* Once both queues are drained and dispatched, backend and consumer know where
\* the pointer is and which workspace is current, although query_pointer reads
\* the server ahead of motion events still queued, the pointer jumps between
\* strips and the workspace is read before its changes are subscribed to.  They
\* are not told of a pointer that has rested in a strip since before start(), nor
\* of a switch between start()'s reading and its subscription.
UpToDateWhenDrained ==
  Drained =>
    /\ "pointer" \notin untold => inCorner = pointer /\ edge = Side(pointer)
    /\ "desktop" \notin untold => desktop \in {lastDesktop, NoDesktop}
=============================================================================
