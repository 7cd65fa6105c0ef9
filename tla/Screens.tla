------------------------------ MODULE Screens ------------------------------
(***************************************************************************)
(* Monitors, strips and where a show puts the overlay: HotArea, `place` of *)
(* OverlayController, and what each platform's window backend makes of the *)
(* position.  The strips know the monitors as they were at the start; the  *)
(* outputs may be plugged, unplugged and moved after it.                   *)
(***************************************************************************)
EXTENDS Integers, Sequences

CONSTANTS
  Layouts,      \* sequences of monitors; an output keeps its index for good
  Points,       \* where the pointer may enter a strip
  Sizes,        \* of the overlay window
  UpOffset,     \* OVERLAY_UP_OFFSET
  StripHeight,  \* HOT_STRIP_HEIGHT (4 on X11, 2 on Wayland)
  Reserved      \* most that a bar and the strip reserve of an output's top edge

Monitor == [x : Int, y : Int, width : Nat \ {0}, height : Nat \ {0}]

Disjoint(a, b) ==
  \/ a.x + a.width <= b.x  \/ b.x + b.width <= a.x
  \/ a.y + a.height <= b.y \/ b.y + b.height <= a.y

ASSUME PointAssumption  == Points \subseteq [x : Int, y : Int]
ASSUME SizeAssumption   == Sizes \subseteq [width : Nat \ {0}, height : Nat \ {0}]
ASSUME OffsetAssumption == UpOffset \in Nat /\ Reserved \in Nat
ASSUME LayoutAssumption ==
  \A l \in Layouts :
    /\ l \in Seq(Monitor)
    /\ \A i, j \in DOMAIN l : i # j => Disjoint(l[i], l[j])
ASSUME StripAssumption ==
  StripHeight \in Nat /\ \A l \in Layouts : \A i \in DOMAIN l : StripHeight <= l[i].height

VARIABLES
  platform,     \* "x11" or "wayland"
  outputs,      \* the monitors there are
  monitors,     \* ... and were when the backend started
  monitor,      \* OverlayController.monitor
  shown         \* the last show: for which monitor, among which, and its area;
                \* Nothing if it was not placed

vars == <<platform, outputs, monitors, monitor, shown>>

Nothing == [none |-> TRUE]

\* Without any monitor, X11 makes do with the root window.
Init ==
  /\ monitors \in Layouts
  /\ platform \in {"x11", "wayland"} /\ (platform = "x11" => monitors # <<>>)
  /\ outputs = monitors
  /\ monitor = Nothing /\ shown = Nothing

-----------------------------------------------------------------------------
(***************************************************************************)
(* Triggering.                                                             *)
(***************************************************************************)
TopStrip(m) == [m EXCEPT !.height = StripHeight]

Contains_Closed(area, p) ==         \* mutant: the far edges are inside
  /\ area.x <= p.x /\ p.x <= area.x + area.width
  /\ area.y <= p.y /\ p.y <= area.y + area.height
Contains(area, p) ==
  /\ area.x <= p.x /\ p.x < area.x + area.width
  /\ area.y <= p.y /\ p.y < area.y + area.height

\* `find`: the first area with the point.
Hits(areas, p) == {i \in DOMAIN areas : Contains(areas[i], p)}
First(hits)    == CHOOSE i \in hits : \A j \in hits : i <= j

\* On X11 the strips are areas of the screen.
EnterX11(p) ==
  LET strips == [i \in DOMAIN monitors |-> TopStrip(monitors[i])]
  IN  /\ platform = "x11" /\ Hits(strips, p) # {}
      /\ monitor' = monitors[First(Hits(strips, p))]
      /\ UNCHANGED <<platform, outputs, monitors, shown>>

\* On Wayland they are windows, which stay with their output.
EnterWayland(i, p) ==
  /\ platform = "wayland"
  /\ i \in DOMAIN monitors \cap DOMAIN outputs /\ Contains(TopStrip(outputs[i]), p)
  /\ monitor' = monitors[i]
  /\ UNCHANGED <<platform, outputs, monitors, shown>>

Enter(p) == EnterX11(p) \/ \E i \in DOMAIN monitors : EnterWayland(i, p)

Replug(l) ==
  /\ l # outputs
  /\ outputs' = l
  /\ UNCHANGED <<platform, monitors, monitor, shown>>

-----------------------------------------------------------------------------
(***************************************************************************)
(* Placing.                                                                *)
(***************************************************************************)

\* Before any trigger: the X11 root window, which spans the monitors there were
\* when the backend connected, or the size of the first output, at the origin.
Largest(S) == CHOOSE n \in S : \A k \in S : k <= n

ScreenSize ==
  IF platform = "wayland"
  THEN [x |-> 0, y |-> 0, width |-> outputs[1].width, height |-> outputs[1].height]
  ELSE [x |-> 0, y |-> 0,
        width  |-> Largest({monitors[i].x + monitors[i].width : i \in DOMAIN monitors}),
        height |-> Largest({monitors[i].y + monitors[i].height : i \in DOMAIN monitors})]

\* Rust's division rounds towards zero.
Half(n) == IF n >= 0 THEN n \div 2 ELSE -((-n) \div 2)

Place_NoOrigin(c, size) ==          \* mutant: the monitor's own origin is left out
  [x |-> Half(c.width - size.width), y |-> Half(c.height - size.height) - UpOffset]
Place(c, size) ==
  [x |-> c.x + Half(c.width - size.width),
   y |-> c.y + Half(c.height - size.height) - UpOffset]

\* move_to on Wayland: the output that contains the position, or the first.
PickOutput(p) == IF Hits(outputs, p) = {} THEN 1 ELSE First(Hits(outputs, p))

\* Margins count from what is left of the output: r of its top edge is reserved.
Show(size, r) ==
  /\ platform = "x11" => r = 0
  /\ platform = "wayland" => outputs # <<>>
  /\ LET p == Place(IF monitor = Nothing THEN ScreenSize ELSE monitor, size)
     IN  shown' = [on     |-> monitor, among |-> outputs,
                   area   |-> [x |-> p.x, y |-> p.y + r,
                               width |-> size.width, height |-> size.height],
                   output |-> IF platform = "wayland" THEN PickOutput(p) ELSE 0]
  /\ UNCHANGED <<platform, outputs, monitors, monitor>>

\* With no output there is neither a size nor a place.
ShowUnplaced ==
  /\ platform = "wayland" /\ outputs = <<>>
  /\ shown' = Nothing
  /\ UNCHANGED <<platform, outputs, monitors, monitor>>

Next ==
  \/ \E p \in Points : Enter(p)
  \/ \E l \in Layouts : Replug(l)
  \/ \E size \in Sizes, r \in 0 .. Reserved : Show(size, r)
  \/ ShowUnplaced

Spec == Init /\ [][Next]_vars

-----------------------------------------------------------------------------
(***************************************************************************)
(* Properties.                                                             *)
(***************************************************************************)

\* Entering a strip triggers the one monitor the pointer is in, wherever strips
\* and monitors touch, while the outputs are those of the start.
TriggersItsMonitor ==
  [][outputs = monitors =>
       \A p \in Points : Enter(p) =>
         \A i \in DOMAIN outputs : Contains(outputs[i], p) <=> outputs[i] = monitor']_vars

\* An overlay fits that leaves above its middle the offset, and what is reserved.
Fits(area, m) ==
  /\ area.width <= m.width
  /\ area.height + 2 * UpOffset <= m.height /\ area.height + 2 * Reserved <= m.height

Inside(area, m) ==
  /\ m.x <= area.x /\ area.x + area.width <= m.x + m.width
  /\ m.y <= area.y /\ area.y + area.height <= m.y + m.height

Triggered == shown # Nothing /\ shown.on # Nothing

StillThere(m) == \E i \in DOMAIN shown.among : shown.among[i] = m

\* An overlay that fits the monitor that triggered it is shown wholly inside it,
\* and on Wayland on that output, whatever other outputs came, went or moved
\* since the start.
OnItsMonitor ==
  Triggered /\ Fits(shown.area, shown.on) /\ StillThere(shown.on) =>
    /\ Inside(shown.area, shown.on)
    /\ platform = "wayland" => shown.among[shown.output] = shown.on
=============================================================================
