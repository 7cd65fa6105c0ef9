--------------------------- MODULE Screens_proofs ---------------------------
(***************************************************************************)
(* Proofs about Screens, for any monitors that do not overlap, any overlay *)
(* and any offset: an overlay that fits the monitor that triggered it is   *)
(* shown inside it, and on Wayland on its output.                          *)
(***************************************************************************)
EXTENDS Screens, TLAPS

Size == [width : Nat \ {0}, height : Nat \ {0}]

\* Half of what is left over beside the overlay is at most what is left over.
LEMMA HalfFits ==
  ASSUME NEW n \in Int, NEW k \in Nat, 2 * k <= n
  PROVE  Half(n) \in Int /\ k <= Half(n) /\ 2 * Half(n) <= n
BY DEF Half

\* An overlay that fits a monitor is placed inside it.
LEMMA PlaceInside ==
  ASSUME NEW m \in Monitor, NEW size \in Size,
         size.width <= m.width, size.height + 2 * UpOffset <= m.height
  PROVE  LET p == Place(m, size)
         IN  /\ p.x \in Int /\ p.y \in Int
             /\ m.x <= p.x /\ p.x + size.width <= m.x + m.width
             /\ m.y <= p.y /\ p.y + size.height <= m.y + m.height
             /\ \A r \in 0 .. Reserved :
                  size.height + 2 * Reserved <= m.height =>
                    p.y + r + size.height <= m.y + m.height
<1> DEFINE dx == m.width - size.width
           dy == m.height - size.height
<1>1. /\ m.x \in Int /\ m.y \in Int
      /\ m.width \in Nat /\ m.height \in Nat /\ size.width \in Nat /\ size.height \in Nat
  BY DEF Monitor, Size
<1>2. dx \in Int /\ 2 * 0 <= dx /\ dy \in Int /\ 2 * UpOffset <= dy
  BY <1>1, OffsetAssumption
<1>3. Half(dx) \in Int /\ 0 <= Half(dx) /\ 2 * Half(dx) <= dx
  BY <1>2, HalfFits
<1>4. Half(dy) \in Int /\ UpOffset <= Half(dy) /\ 2 * Half(dy) <= dy
  BY <1>2, OffsetAssumption, HalfFits
<1>5. /\ Place(m, size).x = m.x + Half(dx)
      /\ Place(m, size).y = m.y + Half(dy) - UpOffset
  BY DEF Place
<1> QED
  BY <1>1, <1>2, <1>3, <1>4, <1>5, OffsetAssumption

\* Monitors that do not overlap have no point in common.
LEMMA OneContains ==
  ASSUME NEW a \in Monitor, NEW b \in Monitor, Disjoint(a, b),
         NEW p, p.x \in Int, p.y \in Int, Contains(a, p), Contains(b, p)
  PROVE  FALSE
<1>1. /\ a.x \in Int /\ a.y \in Int /\ a.width \in Int /\ a.height \in Int
      /\ b.x \in Int /\ b.y \in Int /\ b.width \in Int /\ b.height \in Int
  BY DEF Monitor
<1> QED
  BY <1>1 DEF Contains, Disjoint

\* A point inside one monitor of a layout is inside no other, so the first
\* output that contains it is that monitor.
LEMMA PicksIt ==
  ASSUME outputs \in Layouts, NEW i \in DOMAIN outputs,
         NEW p, p.x \in Int, p.y \in Int, Contains(outputs[i], p)
  PROVE  PickOutput(p) = i
<1>1. outputs \in Seq(Monitor)
  BY LayoutAssumption
<1>2. ASSUME NEW j \in Hits(outputs, p), j # i PROVE FALSE
  <2>1. j \in DOMAIN outputs /\ Contains(outputs[j], p)
    BY <1>2 DEF Hits
  <2>2. Disjoint(outputs[i], outputs[j])
    BY <1>2, <2>1, LayoutAssumption
  <2>3. outputs[i] \in Monitor /\ outputs[j] \in Monitor
    BY <1>1, <2>1
  <2> QED
    BY <2>1, <2>2, <2>3, OneContains
<1>3. Hits(outputs, p) = {i}
  BY <1>2 DEF Hits
<1>4. i \in Int
  BY <1>1
<1>5. First({i}) = i
  BY <1>4 DEF First
<1> QED
  BY <1>3, <1>5 DEF PickOutput

-----------------------------------------------------------------------------
(***************************************************************************)
(* The invariant: layouts and the monitor are what they are said to be,    *)
(* and the last show is where it should be.                                *)
(***************************************************************************)
TypeInv ==
  /\ outputs \in Layouts /\ monitors \in Layouts
  /\ monitor = Nothing \/ monitor \in Monitor

IInv == TypeInv /\ OnItsMonitor

\* A trigger remembers one of the monitors there were, and as long as nothing
\* was plugged since, the one the pointer is in.
LEMMA EnterFinds ==
  ASSUME TypeInv, NEW p \in Points, Enter(p)
  PROVE  \E i \in DOMAIN monitors : /\ monitor' = monitors[i]
                                    /\ outputs = monitors => Contains(monitors[i], p)
<1>1. monitors \in Seq(Monitor) /\ p.x \in Int /\ p.y \in Int
  BY LayoutAssumption, PointAssumption DEF TypeInv
<1>2. ASSUME NEW i \in DOMAIN monitors, Contains(TopStrip(monitors[i]), p)
      PROVE  monitors[i] \in Monitor /\ Contains(monitors[i], p)
  <2>1. monitors[i] \in Monitor /\ StripHeight <= monitors[i].height /\ StripHeight \in Nat
    BY <1>1, <1>2, StripAssumption DEF TypeInv
  <2>2. /\ TopStrip(monitors[i]).x = monitors[i].x
        /\ TopStrip(monitors[i]).y = monitors[i].y
        /\ TopStrip(monitors[i]).width = monitors[i].width
        /\ TopStrip(monitors[i]).height = StripHeight
    BY <2>1 DEF TopStrip, Monitor
  <2>3. monitors[i].y \in Int /\ monitors[i].height \in Int
    BY <2>1 DEF Monitor
  <2> QED
    BY <1>1, <1>2, <2>1, <2>2, <2>3 DEF Contains
<1>3. CASE EnterX11(p)
  <2> DEFINE strips == [i \in DOMAIN monitors |-> TopStrip(monitors[i])]
  <2>1. PICK i \in DOMAIN monitors : Contains(strips[i], p)
    BY <1>3 DEF EnterX11, Hits
  <2>2. ASSUME NEW j \in Hits(strips, p), j # i PROVE FALSE
    <3>1. j \in DOMAIN monitors /\ Contains(TopStrip(monitors[j]), p)
      BY <2>2 DEF Hits
    <3>2. Disjoint(monitors[i], monitors[j])
      BY <2>2, <3>1, LayoutAssumption DEF TypeInv
    <3>3. /\ monitors[i] \in Monitor /\ Contains(monitors[i], p)
          /\ monitors[j] \in Monitor /\ Contains(monitors[j], p)
      BY <1>2, <2>1, <3>1
    <3> QED
      BY <1>1, <3>2, <3>3, OneContains
  <2>3. Hits(strips, p) = {i}
    BY <2>1, <2>2 DEF Hits
  <2>4. First({i}) = i
    BY <1>1 DEF First
  <2>5. monitor' = monitors[First(Hits(strips, p))]
    BY <1>3 DEF EnterX11
  <2>6. monitor' = monitors[i]
    BY <2>3, <2>4, <2>5
  <2> QED
    BY <1>2, <2>1, <2>6
<1>4. CASE \E i \in DOMAIN monitors : EnterWayland(i, p)
  BY <1>2, <1>4 DEF EnterWayland
<1> QED
  BY <1>3, <1>4 DEF Enter

\* A show puts the overlay where it should be.
LEMMA ShowPlaces ==
  ASSUME TypeInv, NEW size \in Sizes, NEW r \in 0 .. Reserved, Show(size, r)
  PROVE  OnItsMonitor'
<1> DEFINE c == IF monitor = Nothing THEN ScreenSize ELSE monitor
           p == Place(c, size)
<1>1. size \in Size
  BY SizeAssumption DEF Size
<1>2. /\ shown'.on = monitor /\ shown'.among = outputs
      /\ shown'.area = [x |-> p.x, y |-> p.y + r, width |-> size.width, height |-> size.height]
      /\ shown'.output = IF platform = "wayland" THEN PickOutput(p) ELSE 0
      /\ platform' = platform
  BY DEF Show
<1>3. outputs \in Layouts /\ outputs \in Seq(Monitor)
  BY LayoutAssumption DEF TypeInv
<1>4. ASSUME Triggered', Fits(shown.area, shown.on)', StillThere(shown.on)'
      PROVE  /\ Inside(shown.area, shown.on)'
             /\ platform' = "wayland" => (shown.among[shown.output] = shown.on)'
  <2>1. monitor # Nothing /\ monitor \in Monitor /\ c = monitor
    BY <1>2, <1>4 DEF Triggered, TypeInv
  <2>2. /\ size.width <= monitor.width
        /\ size.height + 2 * UpOffset <= monitor.height
        /\ size.height + 2 * Reserved <= monitor.height
    BY <1>2, <1>4 DEF Fits
  <2>3. /\ p.x \in Int /\ p.y \in Int
        /\ monitor.x <= p.x /\ p.x + size.width <= monitor.x + monitor.width
        /\ monitor.y <= p.y /\ p.y + size.height <= monitor.y + monitor.height
        /\ p.y + r + size.height <= monitor.y + monitor.height
    BY <1>1, <2>1, <2>2, PlaceInside
  <2>4. Inside(shown.area, shown.on)'
    BY <1>2, <2>1, <2>3, OffsetAssumption DEF Inside, Monitor
  <2>5. Contains(monitor, p)
    BY <1>1, <2>1, <2>3 DEF Contains, Monitor, Size
  <2>6. PICK i \in DOMAIN outputs : outputs[i] = monitor
    BY <1>2, <1>4 DEF StillThere
  <2>7. PickOutput(p) = i
    BY <1>3, <2>3, <2>5, <2>6, PicksIt
  <2> QED
    BY <1>2, <2>4, <2>6, <2>7
<1> QED
  BY <1>4 DEF OnItsMonitor

LEMMA IInvHolds == Spec => []IInv
<1>1. Init => IInv
  <2> SUFFICES ASSUME Init PROVE IInv
    OBVIOUS
  <2> QED
    BY DEF Init, IInv, TypeInv, OnItsMonitor, Triggered
<1>2. IInv /\ [Next]_vars => IInv'
  <2> SUFFICES ASSUME IInv, [Next]_vars PROVE IInv'
    OBVIOUS
  <2>1. ASSUME NEW p \in Points, Enter(p) PROVE IInv'
    <3>1. monitor' \in Monitor
      BY <2>1, EnterFinds, LayoutAssumption DEF IInv, TypeInv
    <3>2. UNCHANGED <<platform, outputs, monitors, shown>>
      BY <2>1 DEF Enter, EnterX11, EnterWayland
    <3> QED
      BY <3>1, <3>2 DEF IInv, TypeInv, OnItsMonitor, Triggered, StillThere, Fits, Inside
  <2>2. ASSUME NEW l \in Layouts, Replug(l) PROVE IInv'
    BY <2>2 DEF Replug, IInv, TypeInv, OnItsMonitor, Triggered, StillThere, Fits, Inside
  <2>3. ASSUME NEW size \in Sizes, NEW r \in 0 .. Reserved, Show(size, r) PROVE IInv'
    <3>1. OnItsMonitor'
      BY <2>3, ShowPlaces DEF IInv
    <3>2. TypeInv'
      BY <2>3 DEF IInv, TypeInv, Show
    <3> QED
      BY <3>1, <3>2 DEF IInv
  <2>4. CASE ShowUnplaced
    BY <2>4 DEF ShowUnplaced, IInv, TypeInv, OnItsMonitor, Triggered
  <2>5. CASE UNCHANGED vars
    BY <2>5 DEF vars, IInv, TypeInv, OnItsMonitor, Triggered, StillThere, Fits, Inside
  <2> QED
    BY <2>1, <2>2, <2>3, <2>4, <2>5 DEF Next
<1> QED
  BY <1>1, <1>2, PTL DEF Spec

-----------------------------------------------------------------------------
\* An overlay that fits the monitor that triggered it is shown inside it, and
\* on Wayland on its output, for any monitors, sizes and changes of outputs.
THEOREM ShownOnItsMonitor == Spec => []OnItsMonitor
BY IInvHolds, PTL DEF IInv

\* Entering a strip triggers the one monitor the pointer is in.
THEOREM TriggersTheRightOne == Spec => TriggersItsMonitor
<1>1. ASSUME IInv, NEW p \in Points, Enter(p), outputs = monitors,
             NEW i \in DOMAIN outputs
      PROVE  Contains(outputs[i], p) <=> outputs[i] = monitor'
  <2>1. PICK k \in DOMAIN outputs : monitor' = outputs[k] /\ Contains(outputs[k], p)
    BY <1>1, EnterFinds DEF IInv
  <2>2. i # k => Disjoint(outputs[i], outputs[k])
    BY LayoutAssumption, <1>1 DEF IInv, TypeInv
  <2>3. outputs[i] \in Monitor /\ outputs[k] \in Monitor /\ p.x \in Int /\ p.y \in Int
    BY LayoutAssumption, PointAssumption, <1>1 DEF IInv, TypeInv
  <2>4. i # k => ~Contains(outputs[i], p) /\ outputs[i] # outputs[k]
    BY <2>1, <2>2, <2>3 DEF Contains, Disjoint, Monitor
  <2> QED
    BY <2>1, <2>4
<1> DEFINE Right == outputs = monitors =>
                      \A p \in Points : Enter(p) =>
                        \A i \in DOMAIN outputs :
                          Contains(outputs[i], p) <=> outputs[i] = monitor'
<1>2. IInv /\ [Next]_vars => [Right]_vars
  BY <1>1
<1> QED
  BY <1>2, IInvHolds, PTL DEF Spec, TriggersItsMonitor
=============================================================================
