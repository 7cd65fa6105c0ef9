-------------------------- MODULE Activation_proofs --------------------------
(***************************************************************************)
(* Proofs about the activation backends, for any monitors, workspaces and  *)
(* number of events in flight.  Both implement the activation contract.    *)
(* X11 is up to date, as far as it is told, once its queues are drained,   *)
(* Wayland once every crossing is delivered.                               *)
(***************************************************************************)
EXTENDS X11Activation, WaylandActivation, SequenceTheorems, TLAPS

(***************************************************************************)
(* X11.                                                                    *)
(***************************************************************************)
USE DesktopAssumption, FlightAssumption

\* Every event on its way to poll_events, in order.
Queued == inq \o wire

Motion(p) == <<"motion", p>>

\* e is in the queue, at place i or behind it.
Later(q, i, e) == \E j \in i .. Len(q) : q[j] = e

\* The last motion event tells where the pointer is; without one in_corner does,
\* if the pointer has been told of at all.
LastMotion ==
  /\ \A i \in 1 .. Len(Queued) :
       Queued[i][1] = "motion" => Later(Queued, i, Motion(pointer))
  /\ inCorner # pointer /\ "pointer" \notin untold => Later(Queued, 1, Motion(pointer))

\* The workspace that is, or is about to be, the last one known.
Known == IF loop[1] = "query" THEN loop[2] ELSE lastDesktop

DesktopKnown ==
  desktop \notin {Known, NoDesktop} /\ "desktop" \notin untold =>
    Later(Queued, 1, <<"property">>)

\* A report takes its consumer from the side p to the side r.
Tells(p, e, r) ==
  CASE e[1] = "entered"   -> p = "outside" /\ r = "inside"
    [] e[1] = "workspace" -> r = e[2]
    [] e[1] = "left"      -> p = "inside" /\ r = "outside"
    [] OTHER              -> r = p

\* The reports s take their consumer from the side p to the side r.
Leads(p, s, r) ==
  \E h \in [0 .. Len(s) -> Sides] :
    /\ h[0] = p /\ h[Len(s)] = r
    /\ \A k \in 1 .. Len(s) : Tells(h[k - 1], s[k], h[k])

\* What is still to be told leads the consumer to the side in_corner is on.
Told == Leads(edge, out, Side(inCorner))

XInv ==
  /\ XTypeOK
  /\ loop \in {<<"start">>, <<"watch">>, <<"grab">>, <<"idle">>} => out = <<>>
  /\ LastMotion
  /\ DesktopKnown
  /\ Told

-----------------------------------------------------------------------------
\* What is in the queue stays when one more comes, which is behind all others.
LEMMA LaterSent ==
  ASSUME NEW q \in Seq(XEvents), NEW e \in XEvents
  PROVE  /\ Append(q, e) \in Seq(XEvents) /\ Len(Append(q, e)) = Len(q) + 1
         /\ Append(q, e)[Len(q) + 1] = e
         /\ \A i \in 1 .. Len(q) : Append(q, e)[i] = q[i]
         /\ \A i \in 1 .. Len(q) + 1 : \A x : Later(q, i, x) => Later(Append(q, e), i, x)
         /\ \A i \in 1 .. Len(q) + 1 : Later(Append(q, e), i, e)
<1> DEFINE a == Append(q, e)
<1>1. /\ a \in Seq(XEvents) /\ Len(a) = Len(q) + 1 /\ Len(q) \in Nat
      /\ a[Len(q) + 1] = e /\ \A i \in 1 .. Len(q) : a[i] = q[i]
  OBVIOUS
<1> HIDE DEF a
<1>2. ASSUME NEW i \in 1 .. Len(q) + 1, NEW x, Later(q, i, x) PROVE Later(a, i, x)
  <2>1. PICK j \in i .. Len(q) : q[j] = x
    BY <1>2 DEF Later
  <2>2. j \in i .. Len(a) /\ a[j] = x
    BY <1>1, <2>1
  <2> QED
    BY <2>2 DEF Later
<1>3. ASSUME NEW i \in 1 .. Len(q) + 1 PROVE Later(a, i, e)
  <2>1. Len(q) + 1 \in i .. Len(a)
    BY <1>1
  <2> QED
    BY <1>1, <2>1 DEF Later
<1> QED
  BY <1>1, <1>2, <1>3 DEF a

\* What is in the queue stays when the first one is taken, unless that was it.
LEMMA LaterTaken ==
  ASSUME NEW q \in Seq(XEvents), q # <<>>
  PROVE  /\ Tail(q) \in Seq(XEvents) /\ q[1] \in XEvents /\ Len(q) \in Nat \ {0}
         /\ Len(Tail(q)) = Len(q) - 1
         /\ \A i \in 1 .. Len(Tail(q)) : Tail(q)[i] = q[i + 1] /\ i + 1 \in 1 .. Len(q)
         /\ \A i \in 1 .. Len(Tail(q)) : \A x : Later(q, i + 1, x) => Later(Tail(q), i, x)
         /\ \A x : Later(q, 1, x) /\ q[1] # x => Later(Tail(q), 1, x)
<1> DEFINE t == Tail(q)
<1>1. /\ t \in Seq(XEvents) /\ q[1] \in XEvents /\ Len(q) \in Nat \ {0}
      /\ Len(t) = Len(q) - 1 /\ \A i \in 1 .. Len(t) : t[i] = q[i + 1]
  BY HeadTailProperties
<1> HIDE DEF t
<1>2. ASSUME NEW i \in 1 .. Len(t), NEW x, Later(q, i + 1, x) PROVE Later(t, i, x)
  <2>1. PICK j \in i + 1 .. Len(q) : q[j] = x
    BY <1>2 DEF Later
  <2>2. j - 1 \in i .. Len(t) /\ t[j - 1] = x
    BY <1>1, <2>1
  <2> QED
    BY <2>2 DEF Later
<1>3. ASSUME NEW x, Later(q, 1, x), q[1] # x PROVE Later(t, 1, x)
  <2>1. PICK j \in 1 .. Len(q) : q[j] = x
    BY <1>3 DEF Later
  <2>2. j # 1
    BY <1>3, <2>1
  <2>3. j - 1 \in 1 .. Len(t) /\ t[j - 1] = x
    BY <1>1, <2>1, <2>2
  <2> QED
    BY <2>3 DEF Later
<1>4. \A i \in 1 .. Len(t) : i + 1 \in 1 .. Len(q)
  BY <1>1
<1> QED
  BY <1>1, <1>2, <1>3, <1>4 DEF t

\* The queues: an event sent is the last of both, the one polled the first, and a
\* wait for a reply leaves their order as it is.
LEMMA QueuedType ==
  ASSUME XTypeOK PROVE Queued \in Seq(XEvents)
  BY ConcatProperties DEF XTypeOK, Queued

LEMMA QueuedSent ==
  ASSUME XTypeOK, NEW e \in XEvents, wire' = Append(wire, e), inq' = inq
  PROVE  Queued' = Append(Queued, e) /\ wire' \in Seq(XEvents)
<1>1. wire \in Seq(XEvents) /\ inq \in Seq(XEvents) /\ <<e>> \in Seq(XEvents)
  BY DEF XTypeOK
<1>2. wire' = wire \o <<e>> /\ wire' \in Seq(XEvents)
  BY <1>1, AppendIsConcat, AppendProperties
<1>3. (inq \o wire) \o <<e>> = inq \o (wire \o <<e>>)
  BY <1>1, ConcatAssociative
<1>4. Append(inq \o wire, e) = (inq \o wire) \o <<e>>
  BY <1>1, ConcatProperties, AppendIsConcat
<1> QED
  BY <1>2, <1>3, <1>4 DEF Queued

LEMMA QueuedRead ==
  ASSUME XTypeOK, RoundTrip
  PROVE  Queued' = Queued /\ inq' \in Seq(XEvents) /\ wire' \in Seq(XEvents)
<1>1. wire \in Seq(XEvents) /\ inq \in Seq(XEvents)
  BY DEF XTypeOK
<1>2. inq \o wire \in Seq(XEvents)
  BY <1>1, ConcatProperties
<1>3. (inq \o wire) \o <<>> = inq \o wire
  BY <1>2, ConcatEmptySeq
<1> QED
  BY <1>2, <1>3 DEF RoundTrip, Queued

LEMMA QueuedPolled ==
  ASSUME XTypeOK, Pollable # <<>>
  PROVE  /\ Queued # <<>> /\ Head(Pollable) = Queued[1]
         /\ Tail(Pollable) \o Unpolled = Tail(Queued)
         /\ Tail(Pollable) \in Seq(XEvents) /\ Unpolled \in Seq(XEvents)
         /\ Tail(Pollable) \o Unpolled \in Seq(XEvents)
<1>1. wire \in Seq(XEvents) /\ inq \in Seq(XEvents)
  BY DEF XTypeOK
<1>2. CASE inq = <<>>
  <2>1. Queued = wire /\ Pollable = wire /\ Unpolled = <<>>
    BY <1>1, <1>2, ConcatEmptySeq DEF Queued, Pollable, Unpolled
  <2>2. Tail(wire) \in Seq(XEvents) /\ Head(wire) = wire[1]
    BY <1>1, <2>1, HeadTailProperties
  <2>3. Tail(wire) \o <<>> = Tail(wire)
    BY <2>2, ConcatEmptySeq
  <2> QED
    BY <2>1, <2>2, <2>3
<1>3. CASE inq # <<>>
  <2>1. Pollable = inq /\ Unpolled = wire
    BY <1>3 DEF Pollable, Unpolled
  <2>2. /\ Tail(inq) \in Seq(XEvents) /\ Head(inq) = inq[1] /\ Len(inq) \in Nat \ {0}
        /\ Len(Tail(inq)) = Len(inq) - 1
        /\ \A i \in 1 .. Len(Tail(inq)) : Tail(inq)[i] = inq[i + 1]
    BY <1>1, <1>3, HeadTailProperties
  <2>3. /\ Queued \in Seq(XEvents) /\ Len(Queued) = Len(inq) + Len(wire) /\ Len(wire) \in Nat
        /\ \A i \in 1 .. Len(inq) + Len(wire) :
             Queued[i] = IF i <= Len(inq) THEN inq[i] ELSE wire[i - Len(inq)]
    BY <1>1, ConcatProperties DEF Queued
  <2>4. Queued # <<>> /\ Queued[1] = inq[1]
    BY <2>2, <2>3
  <2> DEFINE t == Tail(inq)
             u == Tail(Queued)
             v == t \o wire
  <2>5. /\ u \in Seq(XEvents) /\ Len(u) = Len(inq) + Len(wire) - 1
        /\ \A i \in 1 .. Len(u) : u[i] = Queued[i + 1]
    BY <2>3, <2>4, HeadTailProperties
  <2>6. /\ v \in Seq(XEvents) /\ Len(v) = Len(inq) + Len(wire) - 1
        /\ \A i \in 1 .. Len(v) :
             v[i] = IF i <= Len(inq) - 1 THEN t[i] ELSE wire[i - (Len(inq) - 1)]
    BY <1>1, <2>2, <2>3, ConcatProperties
  <2> HIDE DEF t, u, v
  <2>7. ASSUME NEW i \in 1 .. Len(u) PROVE u[i] = v[i]
    <3>1. i \in Nat /\ i >= 1 /\ i <= Len(inq) + Len(wire) - 1 /\ i \in 1 .. Len(v)
      BY <2>2, <2>3, <2>5, <2>6
    <3>2. u[i] = IF i + 1 <= Len(inq) THEN inq[i + 1] ELSE wire[i + 1 - Len(inq)]
      BY <2>2, <2>3, <2>5, <3>1
    <3>3. CASE i + 1 <= Len(inq)
      <4>1. i \in 1 .. Len(Tail(inq)) /\ t[i] = inq[i + 1]
        BY <2>2, <3>1, <3>3 DEF t
      <4> QED
        BY <2>2, <2>6, <3>1, <3>2, <3>3, <4>1
    <3>4. CASE ~(i + 1 <= Len(inq))
      <4>1. i + 1 - Len(inq) = i - (Len(inq) - 1) /\ ~(i <= Len(inq) - 1)
        BY <2>2, <3>1, <3>4
      <4> QED
        BY <2>6, <3>1, <3>2, <3>4, <4>1
    <3> QED
      BY <3>3, <3>4
  <2>8. u = v
    BY <2>5, <2>6, <2>7
  <2> QED
    BY <1>1, <2>1, <2>2, <2>4, <2>6, <2>8 DEF t, u, v
<1> QED
  BY <1>2, <1>3

\* XReports: one more leads on, the first one leads to where the rest begin.
LEMMA LeadsOn ==
  ASSUME NEW s \in Seq(XReports), NEW e \in XReports, NEW p \in Sides, NEW q \in Sides,
         NEW r \in Sides, Leads(p, s, q), Tells(q, e, r)
  PROVE  Leads(p, Append(s, e), r)
<1> DEFINE a == Append(s, e)
<1>1. /\ Len(s) \in Nat /\ Len(a) = Len(s) + 1
      /\ a[Len(s) + 1] = e /\ \A k \in 1 .. Len(s) : a[k] = s[k]
  BY AppendProperties
<1> HIDE DEF a
<1>2. PICK h \in [0 .. Len(s) -> Sides] :
        /\ h[0] = p /\ h[Len(s)] = q
        /\ \A k \in 1 .. Len(s) : Tells(h[k - 1], s[k], h[k])
  BY DEF Leads
<1> DEFINE g == [k \in 0 .. Len(a) |-> IF k <= Len(s) THEN h[k] ELSE r]
<1>3. g \in [0 .. Len(a) -> Sides] /\ g[0] = p /\ g[Len(a)] = r
  BY <1>1, <1>2
<1>4. ASSUME NEW k \in 1 .. Len(a) PROVE Tells(g[k - 1], a[k], g[k])
  <2>1. CASE k <= Len(s)
    <3>1. k \in 1 .. Len(s) /\ g[k - 1] = h[k - 1] /\ g[k] = h[k] /\ a[k] = s[k]
      BY <1>1, <1>2, <2>1
    <3> QED
      BY <1>2, <3>1
  <2>2. CASE ~(k <= Len(s))
    <3>1. k = Len(s) + 1
      BY <1>1, <2>2
    <3>2. g[k - 1] = q /\ g[k] = r /\ a[k] = e
      BY <1>1, <1>2, <3>1
    <3> QED
      BY <3>2
  <2> QED
    BY <2>1, <2>2
<1> HIDE DEF g
<1>5. Leads(p, a, r)
  BY <1>3, <1>4 DEF Leads
<1> QED
  BY <1>5 DEF a

LEMMA LeadsFrom ==
  ASSUME NEW s \in Seq(XReports), s # <<>>, NEW p \in Sides, NEW r \in Sides, Leads(p, s, r)
  PROVE  \E q \in Sides : Tells(p, Head(s), q) /\ Leads(q, Tail(s), r)
<1> DEFINE t == Tail(s)
<1>1. /\ Len(s) \in Nat \ {0} /\ Len(t) = Len(s) - 1 /\ Head(s) = s[1]
      /\ \A k \in 1 .. Len(t) : t[k] = s[k + 1]
  BY HeadTailProperties
<1> HIDE DEF t
<1>2. PICK h \in [0 .. Len(s) -> Sides] :
        /\ h[0] = p /\ h[Len(s)] = r
        /\ \A k \in 1 .. Len(s) : Tells(h[k - 1], s[k], h[k])
  BY DEF Leads
<1> DEFINE g == [k \in 0 .. Len(t) |-> h[k + 1]]
<1>3. g \in [0 .. Len(t) -> Sides] /\ g[0] = h[1] /\ g[Len(t)] = r /\ h[1] \in Sides
  <2>1. Len(t) \in Nat /\ Len(t) + 1 = Len(s) /\ 1 \in 0 .. Len(s)
    BY <1>1
  <2>2. \A k \in 0 .. Len(t) : k + 1 \in 0 .. Len(s)
    BY <2>1
  <2>3. g \in [0 .. Len(t) -> Sides]
    BY <2>2
  <2>4. 0 \in 0 .. Len(t) /\ Len(t) \in 0 .. Len(t)
    BY <2>1
  <2>5. g[0] = h[1] /\ g[Len(t)] = h[Len(s)]
    BY <2>1, <2>4
  <2> QED
    BY <1>2, <2>1, <2>3, <2>5
<1>4. ASSUME NEW k \in 1 .. Len(t) PROVE Tells(g[k - 1], t[k], g[k])
  <2>1. k + 1 \in 1 .. Len(s) /\ t[k] = s[k + 1] /\ g[k] = h[k + 1] /\ g[k - 1] = h[k]
    BY <1>1, <1>2
  <2>2. (k + 1) - 1 = k
    BY <1>1
  <2>3. Tells(h[(k + 1) - 1], s[k + 1], h[k + 1])
    BY <1>2, <2>1
  <2> QED
    BY <2>1, <2>2, <2>3
<1> HIDE DEF g
<1>5. Leads(h[1], t, r)
  BY <1>3, <1>4 DEF Leads
<1>6. Tells(p, Head(s), h[1])
  <2>1. 1 \in 1 .. Len(s) /\ 1 - 1 = 0
    BY <1>1
  <2> QED
    BY <1>1, <1>2, <2>1
<1> QED
  BY <1>3, <1>5, <1>6 DEF t

LEMMA LeadsNowhere ==
  /\ \A p \in Sides : Leads(p, <<>>, p)
  /\ \A p, r : Leads(p, <<>>, r) => p = r
<1>1. ASSUME NEW p \in Sides PROVE Leads(p, <<>>, p)
  <2> DEFINE h == [k \in 0 .. 0 |-> p]
  <2>1. h \in [0 .. Len(<<>>) -> Sides] /\ h[0] = p /\ h[Len(<<>>)] = p
    OBVIOUS
  <2>2. \A k \in 1 .. Len(<<>>) : FALSE
    OBVIOUS
  <2> HIDE DEF h
  <2> QED
    BY <2>1, <2>2 DEF Leads
<1>2. \A p, r : Leads(p, <<>>, r) => p = r
  BY DEF Leads
<1> QED
  BY <1>1, <1>2

LEMMA EventKinds ==
  ASSUME NEW e \in XEvents
  PROVE  \/ e[1] = "motion" /\ e = Motion(e[2]) /\ e[2] \in Places
         \/ e[1] \in {"toggle", "esc", "property"} /\ e = <<e[1]>>
  BY DEF XEvents, Motion

-----------------------------------------------------------------------------
\* The server sends: a motion event tells of the pointer, a property event of the
\* workspace.
LEMMA SendInv ==
  ASSUME XInv, NEW e \in XEvents, Send(e), UNCHANGED <<inq, state, loop, out, told>>,
         pointer' \in Places, desktop' \in Desktops,
         untold' = untold \ {"pointer"} \/ untold' = untold \ {"desktop"} \/ untold' = untold,
         e[1] = "motion" => e = Motion(pointer'),
         pointer' # pointer \/ ("pointer" \in untold /\ "pointer" \notin untold') =>
           e = Motion(pointer'),
         desktop' # desktop \/ ("desktop" \in untold /\ "desktop" \notin untold') =>
           e = <<"property">>
  PROVE  XInv'
<1>1. XTypeOK /\ Queued \in Seq(XEvents) /\ wire' = Append(wire, e) /\ Len(Queued) \in Nat
  BY QueuedType DEF XInv, Send
<1>2. Queued' = Append(Queued, e) /\ wire' \in Seq(XEvents)
  BY <1>1, QueuedSent
<1>3. /\ Len(Queued') = Len(Queued) + 1 /\ Queued'[Len(Queued) + 1] = e
      /\ \A i \in 1 .. Len(Queued) : Queued'[i] = Queued[i]
      /\ \A i \in 1 .. Len(Queued) + 1 : \A x : Later(Queued, i, x) => Later(Queued', i, x)
      /\ \A i \in 1 .. Len(Queued) + 1 : Later(Queued', i, e)
  BY <1>1, <1>2, LaterSent
<1>4. \A i \in 1 .. Len(Queued') : i \in 1 .. Len(Queued) + 1 /\ (i \in 1 .. Len(Queued) \/ i = Len(Queued) + 1)
  BY <1>1, <1>3
<1>5. 1 \in 1 .. Len(Queued) + 1
  BY <1>1
<1>6. inCorner' = inCorner /\ lastDesktop' = lastDesktop /\ edge' = edge /\ out' = out /\ loop' = loop
  BY DEF state, told
<1>7. XTypeOK'
  BY <1>1, <1>2, <1>6 DEF XTypeOK, told, state
<1>8. LastMotion'
  <2>1. ASSUME NEW i \in 1 .. Len(Queued'), Queued'[i][1] = "motion"
        PROVE  Later(Queued', i, Motion(pointer'))
    <3>1. CASE pointer' # pointer \/ i = Len(Queued) + 1
      BY <1>3, <1>4, <2>1, <3>1
    <3>2. CASE pointer' = pointer /\ i \in 1 .. Len(Queued)
      BY <1>3, <1>4, <2>1, <3>2 DEF XInv, LastMotion
    <3> QED
      BY <1>4, <3>1, <3>2
  <2>2. ASSUME inCorner # pointer', "pointer" \notin untold'
        PROVE  Later(Queued', 1, Motion(pointer'))
    <3>1. CASE pointer' # pointer \/ "pointer" \in untold
      BY <1>3, <1>5, <2>2, <3>1
    <3>2. CASE pointer' = pointer /\ "pointer" \notin untold
      BY <1>3, <1>5, <2>2, <3>2 DEF XInv, LastMotion
    <3> QED
      BY <3>1, <3>2
  <2> QED
    BY <1>6, <2>1, <2>2 DEF LastMotion
<1>9. DesktopKnown'
  <2>1. Known' = Known
    BY <1>6 DEF Known
  <2>2. CASE desktop' = desktop /\ ("desktop" \in untold => "desktop" \in untold')
    BY <1>3, <1>5, <2>1, <2>2 DEF XInv, DesktopKnown
  <2>3. CASE desktop' # desktop \/ ("desktop" \in untold /\ "desktop" \notin untold')
    BY <1>3, <1>5, <2>3 DEF DesktopKnown
  <2> QED
    BY <2>2, <2>3
<1>10. Told'
  BY <1>6 DEF XInv, Told
<1> QED
  BY <1>6, <1>7, <1>8, <1>9, <1>10 DEF XInv

\* A switch before start() has subscribed: nobody is told, and that is on record.
LEMMA UnwatchedSwitchInv ==
  ASSUME XInv, NEW d \in Desktops, XSwitch(d), Unwatched PROVE XInv'
<1>1. /\ UNCHANGED <<pointer, wire, inq, state, loop, out, told>>
      /\ desktop' = d /\ untold' = untold \cup {"desktop"}
  BY DEF XSwitch
<1>2. /\ pointer' = pointer /\ wire' = wire /\ inq' = inq /\ inCorner' = inCorner
      /\ lastDesktop' = lastDesktop /\ loop' = loop /\ out' = out /\ edge' = edge
      /\ Queued' = Queued
  BY <1>1 DEF state, told, Queued
<1>3. LastMotion' /\ DesktopKnown' /\ Told'
  BY <1>1, <1>2 DEF XInv, LastMotion, DesktopKnown, Told
<1>4. XTypeOK'
  BY <1>1, <1>2 DEF XInv, XTypeOK
<1> QED
  BY <1>2, <1>3, <1>4 DEF XInv

LEMMA EnvironmentInv ==
  ASSUME XInv, Environment PROVE XInv'
<1>t. pointer \in Places /\ desktop \in Desktops
  BY DEF XInv, XTypeOK
<1>1. ASSUME NEW p \in Places, XMove(p) PROVE XInv'
  <2>1. /\ Motion(p) \in XEvents /\ Motion(p)[1] = "motion" /\ Send(Motion(p)) /\ pointer' = p
        /\ Motion(p) = Motion(pointer')
    BY <1>1 DEF XMove, Motion, XEvents
  <2>2. /\ UNCHANGED <<inq, state, loop, out, told>> /\ desktop' = desktop
        /\ untold' = untold \ {"pointer"}
    BY <1>1 DEF XMove
  <2>3. "desktop" \in untold => "desktop" \in untold'
    BY <2>2
  <2> HIDE DEF Motion
  <2> QED
    BY <1>t, <2>1, <2>2, <2>3, SendInv
<1>2. ASSUME NEW key \in {"toggle", "esc"}, Press(key) PROVE XInv'
  <2>1. <<key>> \in XEvents /\ <<key>>[1] # "motion" /\ Send(<<key>>)
    BY <1>2 DEF Press, XEvents
  <2>2. /\ UNCHANGED <<inq, state, loop, out, told>> /\ desktop' = desktop /\ pointer' = pointer
        /\ untold' = untold
    BY <1>2 DEF Press, server
  <2> QED
    BY <1>t, <2>1, <2>2, SendInv
<1>3. ASSUME NEW d \in Desktops, XSwitch(d) PROVE XInv'
  <2>1. CASE Unwatched
    BY <1>3, <2>1, UnwatchedSwitchInv
  <2>2. CASE ~Unwatched
    <3>1. <<"property">> \in XEvents /\ <<"property">>[1] # "motion" /\ Send(<<"property">>)
      BY <1>3, <2>2 DEF XSwitch, XEvents
    <3>2. /\ UNCHANGED <<inq, state, loop, out, told>> /\ desktop' = d /\ pointer' = pointer
          /\ untold' = untold \ {"desktop"}
      BY <1>3, <2>2 DEF XSwitch
    <3>3. "pointer" \in untold => "pointer" \in untold'
      BY <3>2
    <3> QED
      BY <1>t, <3>1, <3>2, <3>3, SendInv
  <2> QED
    BY <2>1, <2>2
<1> QED
  BY <1>1, <1>2, <1>3 DEF Environment

-----------------------------------------------------------------------------
\* The event source takes the first event: what the rest of the queue tells.
LEMMA TakenInv ==
  ASSUME XInv, Queued # <<>>, Queued' = Tail(Queued), pointer' = pointer
  PROVE  /\ Queued \in Seq(XEvents) /\ Queued[1] \in XEvents
         /\ \A i \in 1 .. Len(Queued') :
              Queued'[i][1] = "motion" => Later(Queued', i, Motion(pointer'))
         /\ \A x : Later(Queued, 1, x) /\ Queued[1] # x => Later(Queued', 1, x)
         /\ 1 \in 1 .. Len(Queued)
<1>1. Queued \in Seq(XEvents)
  BY QueuedType DEF XInv
<1>2. /\ Queued[1] \in XEvents /\ 1 \in 1 .. Len(Queued)
      /\ \A i \in 1 .. Len(Queued') : Queued'[i] = Queued[i + 1] /\ i + 1 \in 1 .. Len(Queued)
      /\ \A i \in 1 .. Len(Queued') : \A x : Later(Queued, i + 1, x) => Later(Queued', i, x)
      /\ \A x : Later(Queued, 1, x) /\ Queued[1] # x => Later(Queued', 1, x)
  BY <1>1, LaterTaken
<1>3. ASSUME NEW i \in 1 .. Len(Queued'), Queued'[i][1] = "motion"
      PROVE  Later(Queued', i, Motion(pointer'))
  BY <1>2, <1>3 DEF XInv, LastMotion
<1> QED
  BY <1>1, <1>2, <1>3

\* A key or property event leaves open what motion events are about.
LEMMA NoMotionInv ==
  ASSUME XInv, Queued # <<>>, Queued' = Tail(Queued), pointer' = pointer,
         inCorner' = inCorner, untold' = untold, Queued[1][1] # "motion"
  PROVE  LastMotion'
<1>1. \A p : Queued[1] # Motion(p)
  BY DEF Motion
<1> QED
  BY <1>1, TakenInv DEF XInv, LastMotion

LEMMA HandleKeyInv ==
  ASSUME XInv, HandleKey PROVE XInv'
<1>t. XTypeOK /\ out \in Seq(XReports) /\ edge \in Sides
  BY DEF XInv, XTypeOK
<1>1. /\ Pollable # <<>> /\ loop = <<"poll">> /\ Head(Pollable)[1] \in {"toggle", "esc"}
      /\ out' = Append(out, KeyEvent(Head(Pollable)))
      /\ inq' = Tail(Pollable) /\ wire' = Unpolled
      /\ pointer' = pointer /\ desktop' = desktop /\ inCorner' = inCorner
      /\ lastDesktop' = lastDesktop /\ loop' = loop /\ edge' = edge /\ untold' = untold
  BY DEF HandleKey, Poll, server, state, told
<1>2. /\ Queued # <<>> /\ Queued' = Tail(Queued) /\ Head(Pollable) = Queued[1]
      /\ inq' \in Seq(XEvents) /\ wire' \in Seq(XEvents)
  BY <1>1, <1>t, QueuedPolled DEF Queued
<1>3. Queued[1][1] \in {"toggle", "esc"} /\ Queued[1] # <<"property">>
  BY <1>1, <1>2
<1>4. LastMotion'
  BY <1>1, <1>2, <1>3, NoMotionInv
<1>5. DesktopKnown'
  <2>1. Known' = Known
    BY <1>1 DEF Known
  <2> QED
    BY <1>1, <1>2, <1>3, <2>1, TakenInv DEF XInv, DesktopKnown
<1> DEFINE e == KeyEvent(Head(Pollable))
<1>6. e \in XReports /\ e[1] \in {"toggle", "dismiss"}
  <2>1. e \in {<<"toggle">>, <<"dismiss">>}
    BY DEF KeyEvent
  <2> HIDE DEF e
  <2>2. e[1] \in {"toggle", "dismiss"}
    BY <2>1
  <2> QED
    BY <2>1, <2>2 DEF XReports
<1> HIDE DEF e
<1>7. out' \in Seq(XReports)
  BY <1>1, <1>6, <1>t, AppendProperties DEF e
<1>8. XTypeOK'
  BY <1>1, <1>2, <1>7 DEF XInv, XTypeOK
<1>9. Told'
  <2>1. \A r : Tells(r, e, r)
    BY <1>6 DEF Tells
  <2>2. Leads(edge', out', Side(inCorner'))
    BY <1>1, <1>6, <1>t, <2>1, LeadsOn DEF e, XInv, Told, Sides, Side
  <2> QED
    BY <2>2 DEF Told
<1> QED
  BY <1>1, <1>4, <1>5, <1>8, <1>9 DEF XInv

LEMMA HandlePropertyInv ==
  ASSUME XInv, HandleProperty PROVE XInv'
<1>t. XTypeOK /\ desktop \in Desktops
  BY DEF XInv, XTypeOK
<1>1. /\ Pollable # <<>> /\ loop = <<"poll">> /\ Head(Pollable)[1] = "property"
      /\ inq' = Tail(Pollable) \o Unpolled /\ wire' = <<>>
      /\ loop' = IF desktop \in {lastDesktop, NoDesktop} THEN <<"poll">> ELSE <<"query", desktop>>
      /\ pointer' = pointer /\ desktop' = desktop /\ inCorner' = inCorner
      /\ lastDesktop' = lastDesktop /\ edge' = edge /\ out' = out /\ untold' = untold
  BY DEF HandleProperty, Poll, server, state, told
<1>2. /\ Queued # <<>> /\ Head(Pollable) = Queued[1]
      /\ inq' = Tail(Queued) /\ inq' \in Seq(XEvents) /\ wire' \in Seq(XEvents)
  BY <1>1, <1>t, QueuedPolled
<1>3. Queued' = Tail(Queued)
  BY <1>1, <1>2, ConcatEmptySeq DEF Queued
<1>4. LastMotion'
  <2>1. Queued[1][1] # "motion"
    BY <1>1, <1>2
  <2> QED
    BY <1>1, <1>2, <1>3, <2>1, NoMotionInv
<1>5. /\ loop' \in {<<"poll">>, <<"query", desktop>>}
      /\ loop' \notin {<<"start">>, <<"watch">>, <<"grab">>, <<"idle">>}
  BY <1>1
<1>6. desktop' \in {Known', NoDesktop}
  <2>1. CASE desktop \in {lastDesktop, NoDesktop}
    BY <1>1, <2>1 DEF Known
  <2>2. CASE desktop \notin {lastDesktop, NoDesktop}
    BY <1>1, <2>2 DEF Known
  <2> QED
    BY <2>1, <2>2
<1>7. DesktopKnown'
  BY <1>6 DEF DesktopKnown
<1>8. XTypeOK'
  BY <1>1, <1>2, <1>5, <1>t DEF XTypeOK
<1>9. Told'
  BY <1>1, <1>4 DEF XInv, Told
<1> QED
  BY <1>4, <1>5, <1>7, <1>8, <1>9 DEF XInv

\* A motion event: what is reported, and what in_corner becomes.
LEMMA HandleMotionInv ==
  ASSUME XInv, HandleMotion PROVE XInv'
<1>t. XTypeOK /\ out \in Seq(XReports) /\ edge \in Sides /\ inCorner \in Places
  BY DEF XInv, XTypeOK
<1> DEFINE p == Head(Pollable)[2]
<1>1. /\ Pollable # <<>> /\ loop = <<"poll">> /\ Head(Pollable)[1] = "motion"
      /\ out' = out \o Crossing(p) /\ inCorner' = p
      /\ inq' = Tail(Pollable) /\ wire' = Unpolled
      /\ pointer' = pointer /\ desktop' = desktop /\ untold' = untold
      /\ lastDesktop' = lastDesktop /\ loop' = loop /\ edge' = edge
  BY DEF HandleMotion, Poll, server, told
<1>2. /\ Queued # <<>> /\ Queued' = Tail(Queued) /\ Head(Pollable) = Queued[1]
      /\ inq' \in Seq(XEvents) /\ wire' \in Seq(XEvents)
  BY <1>1, <1>t, QueuedPolled DEF Queued
<1>3. /\ Queued[1] \in XEvents /\ 1 \in 1 .. Len(Queued)
      /\ \A i \in 1 .. Len(Queued') :
           Queued'[i][1] = "motion" => Later(Queued', i, Motion(pointer'))
      /\ \A x : Later(Queued, 1, x) /\ Queued[1] # x => Later(Queued', 1, x)
  BY <1>1, <1>2, TakenInv
<1>4. Queued[1] = Motion(p) /\ p \in Places /\ Queued[1][1] = "motion" /\ Queued[1][2] = p
  BY <1>1, <1>2, <1>3, EventKinds
<1>5. \A r : r # p => Queued[1] # Motion(r)
  BY <1>4 DEF Motion
<1> HIDE DEF p
<1>6. LastMotion'
  <2>1. ASSUME p # pointer PROVE Later(Queued', 1, Motion(pointer))
    <3>1. Later(Queued, 1, Motion(pointer))
      BY <1>3, <1>4 DEF XInv, LastMotion
    <3> QED
      BY <1>3, <1>5, <2>1, <3>1
  <2> QED
    BY <1>1, <1>3, <2>1 DEF LastMotion
<1>7. DesktopKnown'
  <2>1. Known' = Known /\ Queued[1] # <<"property">>
    BY <1>1, <1>4 DEF Known
  <2> QED
    BY <1>1, <1>3, <2>1 DEF XInv, DesktopKnown
<1>8. Leads(edge, out, Side(inCorner)) /\ Side(inCorner) \in Sides /\ Side(p) \in Sides
  BY DEF XInv, Told, Side, Sides
<1>9. Leads(edge, out', Side(p)) /\ out' \in Seq(XReports)
  <2>1. CASE inCorner = NoMonitor /\ p # NoMonitor
    <3>1. out' = out \o <<<<"entered", p>>>>
      BY <1>1, <2>1 DEF Crossing
    <3>2. <<"entered", p>> \in XReports
      BY <1>4, <2>1 DEF XReports, Places
    <3>3. out' = Append(out, <<"entered", p>>) /\ out' \in Seq(XReports)
      BY <1>t, <3>1, <3>2, AppendIsConcat, AppendProperties
    <3>4. Tells(Side(inCorner), <<"entered", p>>, Side(p))
      BY <2>1 DEF Tells, Side
    <3> QED
      BY <1>t, <1>8, <3>2, <3>3, <3>4, LeadsOn
  <2>2. CASE inCorner # NoMonitor /\ p = NoMonitor
    <3>1. out' = out \o <<<<"left", inCorner>>>>
      BY <1>1, <2>2 DEF Crossing
    <3>2. <<"left", inCorner>> \in XReports
      BY <1>t, <2>2 DEF XReports, Places
    <3>3. out' = Append(out, <<"left", inCorner>>) /\ out' \in Seq(XReports)
      BY <1>t, <3>1, <3>2, AppendIsConcat, AppendProperties
    <3>4. Tells(Side(inCorner), <<"left", inCorner>>, Side(p))
      BY <2>2 DEF Tells, Side
    <3> QED
      BY <1>t, <1>8, <3>2, <3>3, <3>4, LeadsOn
  <2>3. CASE inCorner = NoMonitor <=> p = NoMonitor
    <3>1. Crossing(p) = <<>> /\ Side(p) = Side(inCorner)
      BY <2>3 DEF Crossing, Side
    <3>2. out' = out
      BY <1>t, <1>1, <3>1, ConcatEmptySeq
    <3> QED
      BY <1>t, <1>8, <3>1, <3>2
  <2> QED
    BY <2>1, <2>2, <2>3
<1>10. Told'
  BY <1>1, <1>9 DEF Told
<1>11. XTypeOK'
  BY <1>1, <1>2, <1>4, <1>9, <1>t DEF XTypeOK
<1> QED
  BY <1>1, <1>6, <1>7, <1>10, <1>11 DEF XInv

-----------------------------------------------------------------------------
\* What only moves events from the socket to x11rb's queue, or nothing.
LEMMA QuietInv ==
  ASSUME XInv, Queued' = Queued, UNCHANGED <<server, inCorner, untold>>
  PROVE  /\ LastMotion'
         /\ Known' = Known => DesktopKnown'
         /\ UNCHANGED <<out, edge>> => Told'
<1>1. pointer' = pointer /\ desktop' = desktop /\ inCorner' = inCorner /\ untold' = untold
  BY DEF server
<1>2. LastMotion'
  BY <1>1 DEF XInv, LastMotion
<1>3. Known' = Known => DesktopKnown'
  BY <1>1 DEF XInv, DesktopKnown
<1>4. UNCHANGED <<out, edge>> => Told'
  BY <1>1 DEF XInv, Told
<1> QED
  BY <1>2, <1>3, <1>4

\* start() reads the workspace, then subscribes to its changes.
LEMMA StartingInv ==
  ASSUME XInv, Starting PROVE XInv'
<1>t. XTypeOK /\ desktop \in Desktops
  BY DEF XInv, XTypeOK
<1>1. /\ RoundTrip
      /\ pointer' = pointer /\ desktop' = desktop /\ inCorner' = inCorner
      /\ out' = out /\ edge' = edge
      /\ loop \in {<<"start">>, <<"watch">>, <<"grab">>}
      /\ loop' \in {<<"watch">>, <<"grab">>, <<"idle">>}
      /\ lastDesktop' \in {lastDesktop, desktop}
      /\ untold' = untold \/ untold' = untold \ {"desktop"}
  BY DEF Starting, ReadDesktop, Subscribe, GrabToggle, server, state, told
<1>2. Queued' = Queued /\ inq' \in Seq(XEvents) /\ wire' \in Seq(XEvents)
  BY <1>1, <1>t, QueuedRead
<1>3. Known = lastDesktop /\ Known' = lastDesktop'
  <2>1. loop[1] # "query" /\ loop'[1] # "query"
    BY <1>1
  <2> QED
    BY <2>1 DEF Known
<1>4. LastMotion' /\ Told'
  BY <1>1, <1>2 DEF XInv, LastMotion, Told
<1>5. DesktopKnown'
  <2>1. CASE ReadDesktop
    BY <1>1, <1>3, <2>1 DEF ReadDesktop, DesktopKnown
  <2>2. CASE Subscribe \/ GrabToggle
    <3>1. lastDesktop' = lastDesktop /\ untold' = untold
      BY <2>2 DEF Subscribe, GrabToggle, state
    <3> QED
      BY <1>1, <1>2, <1>3, <3>1 DEF XInv, DesktopKnown
  <2> QED
    BY <2>1, <2>2 DEF Starting
<1>6. XTypeOK'
  BY <1>1, <1>2, <1>t DEF XTypeOK
<1>7. out' = <<>>
  BY <1>1 DEF XInv
<1> QED
  BY <1>4, <1>5, <1>6, <1>7 DEF XInv

\* query_pointer tells where the pointer is, ahead of the queue.
LEMMA QueryPointerInv ==
  ASSUME XInv, QueryPointer PROVE XInv'
<1>t. XTypeOK /\ out \in Seq(XReports) /\ edge \in Sides /\ pointer \in Places
  BY DEF XInv, XTypeOK
<1>1. /\ loop[1] = "query" /\ RoundTrip /\ lastDesktop' = loop[2] /\ inCorner' = pointer
      /\ out' = Append(out, <<"workspace", Side(pointer)>>) /\ loop' = <<"poll">>
      /\ pointer' = pointer /\ desktop' = desktop /\ edge' = edge
      /\ untold' = untold \ {"pointer"}
  BY DEF QueryPointer, server, told
<1>2. Queued' = Queued /\ inq' \in Seq(XEvents) /\ wire' \in Seq(XEvents)
  BY <1>1, <1>t, QueuedRead
<1>3. loop[2] \in Desktops
  BY <1>1, <1>t DEF XTypeOK
<1>4. LastMotion'
  BY <1>1, <1>2 DEF XInv, LastMotion
<1>5. DesktopKnown'
  <2>1. Known' = Known
    BY <1>1 DEF Known
  <2> QED
    BY <1>1, <1>2, <2>1 DEF XInv, DesktopKnown
<1> DEFINE e == <<"workspace", Side(pointer)>>
<1>6. e \in XReports /\ (\A r : Tells(r, e, Side(pointer))) /\ Side(pointer) \in Sides
  BY DEF XReports, Tells, Side, Sides
<1>7. Told' /\ out' \in Seq(XReports)
  <2>1. Leads(edge, out, Side(inCorner)) /\ Side(inCorner) \in Sides
    BY DEF XInv, Told, Side, Sides
  <2>2. out' = Append(out, e)
    BY <1>1
  <2> HIDE DEF e
  <2>3. out' \in Seq(XReports)
    BY <1>6, <1>t, <2>2, AppendProperties
  <2>4. Leads(edge', out', Side(pointer))
    BY <1>6, <1>t, <1>1, <2>1, <2>2, LeadsOn
  <2> QED
    BY <1>1, <2>3, <2>4 DEF Told
<1>8. XTypeOK'
  BY <1>1, <1>2, <1>3, <1>7, <1>t DEF XTypeOK
<1> QED
  BY <1>1, <1>4, <1>5, <1>7, <1>8 DEF XInv

LEMMA ReportKinds ==
  ASSUME NEW e \in XReports
  PROVE  \/ e[1] \in {"entered", "left"} /\ e = <<e[1], e[2]>> /\ e[2] \in Monitors
         \/ e[1] = "workspace" /\ e = <<"workspace", e[2]>> /\ e[2] \in Sides
         \/ e[1] \in {"toggle", "dismiss"} /\ e = <<e[1]>>
  BY DEF XReports

\* Telling the consumer a report takes it where the report leads.
LEMMA TellLeads ==
  ASSUME XInv, Tell
  PROVE  /\ Head(out) \in XReports /\ Tells(edge, Head(out), edge')
         /\ edge' \in Sides /\ out' \in Seq(XReports)
         /\ \A r \in Sides : Leads(edge, out, r) => Leads(edge', out', r)
<1>1. out \in Seq(XReports) /\ out # <<>> /\ edge \in Sides /\ out' = Tail(out)
  BY DEF XInv, XTypeOK, Tell
<1>2. Head(out) \in XReports /\ out' \in Seq(XReports)
  BY <1>1, HeadTailProperties
<1> DEFINE e == Head(out)
<1>3. edge' = CASE e[1] = "entered"   -> "inside"
                [] e[1] = "left"      -> "outside"
                [] e[1] = "workspace" -> e[2]
                [] OTHER              -> edge
  BY DEF Tell
<1> HIDE DEF e
<1>4. ASSUME NEW q, Tells(edge, e, q) PROVE q = edge'
  <2>1. CASE e[1] = "entered"
    BY <1>3, <1>4, <2>1 DEF Tells
  <2>2. CASE e[1] = "workspace"
    BY <1>3, <1>4, <2>2 DEF Tells
  <2>3. CASE e[1] = "left"
    BY <1>3, <1>4, <2>3 DEF Tells
  <2>4. CASE e[1] \notin {"entered", "workspace", "left"}
    BY <1>3, <1>4, <2>4 DEF Tells
  <2> QED
    BY <2>1, <2>2, <2>3, <2>4
<1>5. ASSUME NEW r \in Sides, Leads(edge, out, r)
      PROVE  Tells(edge, e, edge') /\ Leads(edge', out', r) /\ edge' \in Sides
  <2>1. PICK q \in Sides : Tells(edge, e, q) /\ Leads(q, Tail(out), r)
    BY <1>1, <1>5, LeadsFrom DEF e
  <2> QED
    BY <1>1, <1>4, <2>1
<1>6. \E r \in Sides : Leads(edge, out, r)
  BY DEF XInv, Told, Side, Sides
<1> QED
  BY <1>2, <1>5, <1>6 DEF e

LEMMA DispatchInv ==
  ASSUME XInv, Dispatch PROVE XInv'
<1>t. XTypeOK
  BY DEF XInv
<1>1. /\ Tell /\ (RoundTrip \/ UNCHANGED queues) /\ loop = <<"dispatch">>
      /\ UNCHANGED <<server, inCorner, lastDesktop, loop, untold>>
  BY DEF Dispatch, GrabEsc, Tell, state
<1>2. Queued' = Queued /\ inq' \in Seq(XEvents) /\ wire' \in Seq(XEvents)
  BY <1>1, <1>t, QueuedRead DEF queues, Queued, XTypeOK
<1>3. LastMotion' /\ DesktopKnown'
  <2>1. Known' = Known
    BY <1>1 DEF Known
  <2> QED
    BY <1>1, <1>2, <2>1, QuietInv
<1>4. XTypeOK'
  BY <1>1, <1>2, <1>t, TellLeads DEF XTypeOK, server
<1>5. Told'
  BY <1>1, TellLeads DEF XInv, Told, Side, Sides
<1> QED
  BY <1>1, <1>3, <1>4, <1>5 DEF XInv

\* The steps of the source that tell nobody anything.
LEMMA SilentInv ==
  ASSUME XInv,
         SourceFires \/ PollNone \/ DispatchDone \/ ShowFromElsewhere \/ UNCHANGED xvars
  PROVE  XInv'
<1>t. XTypeOK
  BY DEF XInv
<1>1. /\ RoundTrip \/ UNCHANGED queues
      /\ UNCHANGED <<pointer, desktop, inCorner, lastDesktop, out, edge, untold>>
  BY DEF SourceFires, PollNone, DispatchDone, ShowFromElsewhere, GrabEsc, xvars,
         server, state, told, queues
<1>2. Queued' = Queued /\ inq' \in Seq(XEvents) /\ wire' \in Seq(XEvents)
  BY <1>1, <1>t, QueuedRead DEF queues, Queued, XTypeOK
<1>3. \/ loop' = loop
      \/ loop \in {<<"idle">>, <<"poll">>, <<"dispatch">>}
           /\ loop' \in {<<"idle">>, <<"poll">>, <<"dispatch">>}
  BY DEF SourceFires, PollNone, DispatchDone, ShowFromElsewhere, xvars
<1>4. loop' \in {<<"start">>, <<"watch">>, <<"grab">>, <<"idle">>} => out' = <<>>
  BY DEF SourceFires, PollNone, DispatchDone, ShowFromElsewhere, xvars, XInv
<1>5. Known' = Known
  <2>1. CASE loop' = loop
    BY <1>1, <2>1 DEF Known
  <2>2. CASE loop' # loop
    <3>1. loop[1] # "query" /\ loop'[1] # "query"
      BY <1>3, <2>2
    <3> QED
      BY <1>1, <3>1 DEF Known
  <2> QED
    BY <2>1, <2>2
<1>6. LastMotion' /\ DesktopKnown' /\ Told'
  BY <1>1, <1>2, <1>5, QuietInv DEF server
<1>7. XTypeOK'
  BY <1>1, <1>2, <1>3, <1>t DEF XTypeOK
<1> QED
  BY <1>4, <1>6, <1>7 DEF XInv

LEMMA XInitInv ==
  XInit => XInv
<1> SUFFICES ASSUME XInit PROVE XInv
  OBVIOUS
<1>1. Queued = <<>> /\ Len(Queued) = 0
  BY DEF XInit, Queued
<1>2. XTypeOK
  <2>1. <<>> \in Seq(XEvents) /\ <<>> \in Seq(XReports)
    OBVIOUS
  <2> QED
    BY <2>1 DEF XInit, XTypeOK, Places, Sides
<1>3. LastMotion /\ DesktopKnown
  BY <1>1 DEF XInit, LastMotion, DesktopKnown
<1>4. Told
  BY LeadsNowhere DEF XInit, Told, Sides, Side
<1> QED
  BY <1>2, <1>3, <1>4 DEF XInit, XInv

LEMMA XNextInv ==
  XInv /\ [XNext]_xvars => XInv'
  BY EnvironmentInv, HandleKeyInv, HandlePropertyInv, HandleMotionInv, QueryPointerInv,
     DispatchInv, SilentInv, StartingInv
  DEF XNext, Source

LEMMA XInvHolds ==
  XSpec => []XInv
<1> QED
  BY XInitInv, XNextInv, PTL DEF XSpec

-----------------------------------------------------------------------------
\* Every variable has its type.
THEOREM X11TypeCorrect ==
  XSpec => []XTypeOK
<1>1. XInv => XTypeOK
  BY DEF XInv
<1> QED
  BY <1>1, XInvHolds, PTL

\* However the pointer moves and jumps and however motion events, queries ahead of them and
\* waits for replies interleave, the consumer is told of an entry only when it
\* believes the pointer outside, and of a way out only when inside.
THEOREM X11ImplementsContract ==
  XSpec => KeepsContract
<1>1. XInit => Contract!Init
  BY DEF XInit, Contract!Init
<1>2. XInv /\ [XNext]_xvars => [Contract!Next]_(Contract!vars)
  <2> SUFFICES ASSUME XInv, [XNext]_xvars PROVE [Contract!Next]_(Contract!vars)
    OBVIOUS
  <2>1. CASE Tell
    <3> DEFINE e == Head(out)
    <3>1. e \in XReports /\ Tells(edge, e, edge')
      BY <2>1, TellLeads
    <3>2. event' = e
      BY <2>1 DEF Tell
    <3> HIDE DEF e
    <3>3. CASE e[1] = "entered"
      <4>1. /\ e[2] \in Monitors /\ event' = <<"entered", e[2]>>
            /\ edge = "outside" /\ edge' = "inside"
        BY <3>1, <3>2, <3>3, ReportKinds DEF Tells
      <4> QED
        BY <4>1 DEF Contract!Next, Contract!Entered
    <3>4. CASE e[1] = "left"
      <4>1. /\ e[2] \in Monitors /\ event' = <<"left", e[2]>>
            /\ edge = "inside" /\ edge' = "outside"
        BY <3>1, <3>2, <3>4, ReportKinds DEF Tells
      <4> QED
        BY <4>1 DEF Contract!Next, Contract!Left
    <3>5. CASE e[1] = "workspace"
      <4>1. e[2] \in Sides /\ event' = <<"workspace", e[2]>> /\ edge' = e[2]
        BY <3>1, <3>2, <3>5, ReportKinds DEF Tells
      <4> QED
        BY <4>1 DEF Contract!Next, Contract!WorkspaceChanged, Sides
    <3>6. CASE e[1] \in {"toggle", "dismiss"}
      <4>1. event' = <<e[1]>> /\ edge' = edge
        BY <3>1, <3>2, <3>6, ReportKinds DEF Tells
      <4> QED
        BY <3>6, <4>1 DEF Contract!Next, Contract!Key
    <3> QED
      BY <3>1, <3>3, <3>4, <3>5, <3>6, ReportKinds
  <2>2. CASE ~Tell
    <3>1. UNCHANGED <<edge, event>>
      BY <2>2 DEF XNext, Environment, XMove, Press, XSwitch, Source, SourceFires, PollNone,
           HandleMotion, HandleKey, HandleProperty, QueryPointer, Dispatch, DispatchDone,
           ShowFromElsewhere, Starting, ReadDesktop, Subscribe, GrabToggle, told, xvars
    <3> QED
      BY <3>1 DEF Contract!vars
  <2> QED
    BY <2>1, <2>2
<1> QED
  BY <1>1, <1>2, XInvHolds, PTL DEF XSpec, KeepsContract, Contract!Spec

\* Whenever both queues are drained, backend and consumer know where the pointer
\* is and which workspace is current, wherever the pointer jumps and however the
\* workspace is read and queried ahead of them: except a pointer resting since
\* before start(), and a workspace switched before start() subscribes.
THEOREM KnowsWhenDrained ==
  XSpec => []UpToDateWhenDrained
<1>1. XInv => UpToDateWhenDrained
  <2> SUFFICES ASSUME XInv, Drained
               PROVE  /\ "pointer" \notin untold => inCorner = pointer /\ edge = Side(pointer)
                      /\ "desktop" \notin untold => desktop \in {lastDesktop, NoDesktop}
    BY DEF UpToDateWhenDrained
  <2>1. Queued = <<>> /\ out = <<>> /\ loop[1] # "query"
    BY DEF Drained, Queued, XInv
  <2>2. \A x : ~Later(Queued, 1, x)
    BY <2>1 DEF Later
  <2>3. /\ "pointer" \notin untold => inCorner = pointer
        /\ "desktop" \notin untold => desktop \in {lastDesktop, NoDesktop}
    BY <2>1, <2>2 DEF XInv, LastMotion, DesktopKnown, Known
  <2>4. edge = Side(inCorner)
    BY <2>1, LeadsNowhere DEF XInv, Told
  <2> QED
    BY <2>3, <2>4
<1> QED
  BY <1>1, XInvHolds, PTL

-----------------------------------------------------------------------------
(***************************************************************************)
(* Wayland.                                                                *)
(***************************************************************************)

\* Crossings of a strip; the outside has none.
Crossings == {"enter", "leave"} \X (Monitors \ {NoMonitor})

\* Where the pointer is after a crossing, and what may be the next one.
After(c) == IF c[1] = "enter" THEN c[2] ELSE NoMonitor

Follows(c, d) ==
  IF c[1] = "enter" THEN d = <<"leave", c[2]>> ELSE d[1] = "enter"

WTypeInv ==
  /\ pointer \in Places /\ inCorner \in Places
  /\ edge = Side(inCorner)
  /\ wire \in Seq(Crossings)

\* What is on the wire is one way of the pointer: enter and leave take turns,
\* the last crossing leads to where it is, and the first one is of the strip
\* that in_corner holds, if it holds one.
OneWay ==
  /\ \A k \in 1 .. Len(wire) - 1 : Follows(wire[k], wire[k + 1])
  /\ wire # <<>> => /\ After(wire[Len(wire)]) = pointer
                    /\ inCorner \in {wire[1][2], NoMonitor}
  /\ wire = <<>> => inCorner = pointer

WInv == WTypeInv /\ OneWay

\* One more crossing that starts where the last one led keeps it one way.
LEMMA OneMore ==
  ASSUME NEW w \in Seq(Crossings), NEW c \in Crossings,
         \A k \in 1 .. Len(w) - 1 : Follows(w[k], w[k + 1]),
         w # <<>> => Follows(w[Len(w)], c)
  PROVE  /\ Append(w, c) \in Seq(Crossings) /\ Append(w, c) # <<>>
         /\ Append(w, c)[Len(Append(w, c))] = c
         /\ Append(w, c)[1] = IF w = <<>> THEN c ELSE w[1]
         /\ \A k \in 1 .. Len(Append(w, c)) - 1 : Follows(Append(w, c)[k], Append(w, c)[k + 1])
<1> DEFINE a == Append(w, c)
<1>1. /\ a \in Seq(Crossings) /\ Len(a) = Len(w) + 1 /\ Len(w) \in Nat
      /\ a[Len(a)] = c /\ \A k \in 1 .. Len(w) : a[k] = w[k]
  OBVIOUS
<1>2. a # <<>> /\ a[1] = IF w = <<>> THEN c ELSE w[1]
  BY <1>1
<1>3. ASSUME NEW k \in 1 .. Len(a) - 1 PROVE Follows(a[k], a[k + 1])
  <2>1. CASE k = Len(w)
    <3>1. w # <<>> /\ a[k] = w[Len(w)] /\ a[k + 1] = c
      BY <1>1, <2>1
    <3> QED
      BY <3>1
  <2>2. CASE k # Len(w)
    <3>1. k \in 1 .. Len(w) - 1 /\ a[k] = w[k] /\ a[k + 1] = w[k + 1]
      BY <1>1, <2>2
    <3> QED
      BY <3>1
  <2> QED
    BY <2>1, <2>2
<1> QED
  BY <1>1, <1>2, <1>3

\* The pointer moves: it leaves where it was, then enters where it goes.
LEMMA WMoveInv == ASSUME WInv, NEW p \in Places, WMove(p) PROVE WInv'
<1> USE DEF WInv, WTypeInv
<1>1. /\ pointer' = p /\ p # pointer /\ UNCHANGED <<inCorner, edge>>
      /\ wire' = (wire \o Leaving(pointer)) \o Entering(p)
  BY DEF WMove, told
<1> DEFINE l == <<"leave", pointer>>
           n == <<"enter", p>>
           w == IF pointer = NoMonitor THEN wire ELSE Append(wire, l)
<1>2. /\ wire \o Leaving(pointer) = w
      /\ w \in Seq(Crossings)
      /\ \A k \in 1 .. Len(w) - 1 : Follows(w[k], w[k + 1])
      /\ w # <<>> => After(w[Len(w)]) = NoMonitor /\ inCorner \in {w[1][2], NoMonitor}
      /\ w = <<>> => inCorner = NoMonitor
      /\ pointer # NoMonitor => w # <<>>
  <2>1. CASE pointer = NoMonitor
    BY <2>1 DEF Leaving, OneWay
  <2>2. CASE pointer # NoMonitor
    <3>1. l \in Crossings /\ pointer \in Monitors
      BY <2>2 DEF Crossings, Places
    <3>2. w = Append(wire, l) /\ wire \o Leaving(pointer) = w
      BY <2>2 DEF Leaving
    <3>3. wire # <<>> => Follows(wire[Len(wire)], l)
      BY <2>2 DEF OneWay, Follows, After
    <3>4. After(l) = NoMonitor /\ l[2] = pointer
      BY DEF After
    <3>5. /\ w \in Seq(Crossings) /\ w # <<>> /\ w[Len(w)] = l
          /\ w[1] = IF wire = <<>> THEN l ELSE wire[1]
          /\ \A k \in 1 .. Len(w) - 1 : Follows(w[k], w[k + 1])
      <4>1. \A k \in 1 .. Len(wire) - 1 : Follows(wire[k], wire[k + 1])
        BY DEF OneWay
      <4> HIDE DEF l, w
      <4> QED
        BY <3>1, <3>2, <3>3, <4>1, OneMore
    <3> QED
      BY <2>2, <3>2, <3>4, <3>5 DEF OneWay
  <2> QED
    BY <2>1, <2>2
<1>3. CASE p = NoMonitor
  <2>1. wire' = w
    BY <1>1, <1>2, <1>3 DEF Entering
  <2> QED
    BY <1>1, <1>2, <1>3, <2>1 DEF OneWay
<1>4. CASE p # NoMonitor
  <2>1. n \in Crossings
    BY <1>4 DEF Crossings, Places
  <2>2. wire' = Append(w, n)
    BY <1>1, <1>2, <1>4 DEF Entering
  <2>3. w # <<>> => Follows(w[Len(w)], n)
    <3>1. w # <<>> => w[Len(w)] \in Crossings
      BY <1>2
    <3> QED
      BY <1>2, <1>4, <3>1 DEF Follows, After, Crossings
  <2>4. After(n) = p /\ n[2] = p
    BY DEF After
  <2>5. /\ wire' \in Seq(Crossings) /\ wire' # <<>> /\ wire'[Len(wire')] = n
        /\ wire'[1] = IF w = <<>> THEN n ELSE w[1]
        /\ \A k \in 1 .. Len(wire') - 1 : Follows(wire'[k], wire'[k + 1])
    BY <1>2, <2>1, <2>2, <2>3, OneMore
  <2> QED
    BY <1>1, <1>2, <2>4, <2>5 DEF OneWay
<1> QED
  BY <1>3, <1>4

\* A delivery after which in_corner says where its crossing leads.
LEMMA DeliveryInv ==
  ASSUME WInv, NEW kind \in {"enter", "leave"}, NEW m \in Monitors,
         Delivered(kind, m), inCorner' = After(<<kind, m>>), edge' = Side(inCorner')
  PROVE  WInv'
<1> USE DEF WInv, WTypeInv
<1>1. wire # <<>> /\ wire[1] = <<kind, m>> /\ pointer' = pointer
  BY DEF Delivered
<1>2. inCorner' \in Places /\ inCorner' \in {m, NoMonitor}
  BY DEF After, Places
<1>3. CASE wire' = wire
  BY <1>1, <1>2, <1>3 DEF OneWay
<1>4. CASE wire' = Tail(wire)
  <2> DEFINE t == Tail(wire)
  <2>1. /\ t \in Seq(Crossings) /\ Len(wire) \in Nat \ {0} /\ Len(t) = Len(wire) - 1
        /\ \A k \in 1 .. Len(t) : t[k] = wire[k + 1]
    BY <1>1
  <2>2. \A k \in 1 .. Len(t) - 1 : Follows(t[k], t[k + 1])
    BY <2>1 DEF OneWay
  <2>3. t = <<>> => inCorner' = pointer
    <3>1. t = <<>> => Len(wire) = 1
      <4> HIDE DEF t
      <4>1. t = <<>> => Len(t) = 0
        OBVIOUS
      <4> QED
        BY <2>1, <4>1
    <3> QED
      BY <1>1, <3>1 DEF OneWay
  <2>4. ASSUME t # <<>>
        PROVE  After(t[Len(t)]) = pointer /\ inCorner' \in {t[1][2], NoMonitor}
    <3>1. Len(t) \in Nat \ {0} /\ t[1] = wire[2] /\ t[Len(t)] = wire[Len(wire)]
      BY <2>1, <2>4
    <3>2. Follows(<<kind, m>>, wire[2])
      BY <1>1, <2>1, <3>1 DEF OneWay
    <3>3. kind = "enter" => wire[2][2] = m
      BY <3>2 DEF Follows
    <3>4. kind = "leave" => inCorner' = NoMonitor
      BY DEF After
    <3> QED
      BY <1>1, <1>2, <3>1, <3>3, <3>4 DEF OneWay
  <2> QED
    BY <1>1, <1>2, <1>4, <2>1, <2>2, <2>3, <2>4 DEF OneWay
<1> QED
  BY <1>3, <1>4 DEF Delivered

LEMMA WNextInv == WInv /\ [WNext]_wvars => WInv'
<1> SUFFICES ASSUME WInv, [WNext]_wvars PROVE WInv'
  OBVIOUS
<1>1. ASSUME NEW p \in Places, WMove(p) PROVE WInv'
  BY <1>1, WMoveInv
<1>2. ASSUME NEW m \in Monitors, EnterStrip(m) PROVE WInv'
  <2>1. Delivered("enter", m) /\ inCorner' = After(<<"enter", m>>) /\ edge' = Side(inCorner')
    BY <1>2, MonitorAssumption DEF EnterStrip, After, Side
  <2> QED
    BY <2>1, DeliveryInv
<1>3. ASSUME NEW m \in Monitors, LeaveStrip(m) PROVE WInv'
  <2>1. Delivered("leave", m) /\ inCorner' = After(<<"leave", m>>) /\ edge' = Side(inCorner')
    BY <1>3 DEF LeaveStrip, After, Side
  <2> QED
    BY <2>1, DeliveryInv
<1>4. ASSUME NEW m \in Monitors, Ignored(m) PROVE WInv'
  <2>1. inCorner' = inCorner /\ edge' = Side(inCorner')
    BY <1>4 DEF Ignored, told, WInv, WTypeInv
  <2>2. CASE Delivered("enter", m) /\ inCorner # NoMonitor
    <3>1. inCorner = After(<<"enter", m>>)
      BY <2>2 DEF Delivered, WInv, OneWay, WTypeInv, After
    <3> QED
      BY <2>1, <2>2, <3>1, DeliveryInv
  <2>3. CASE Delivered("leave", m) /\ inCorner = NoMonitor
    <3>1. inCorner = After(<<"leave", m>>)
      BY <2>3 DEF After
    <3> QED
      BY <2>1, <2>3, <3>1, DeliveryInv
  <2> QED
    BY <1>4, <2>2, <2>3 DEF Ignored
<1>5. CASE UNCHANGED wvars
  BY <1>5 DEF wvars, told, WInv, WTypeInv, OneWay, Side
<1> QED
  BY <1>1, <1>2, <1>3, <1>4, <1>5 DEF WNext

LEMMA WInvHolds == WSpec => []WInv
<1>1. WInit => WInv
  BY DEF WInit, WInv, WTypeInv, OneWay, Places, Side
<1> QED
  BY <1>1, WNextInv, PTL DEF WSpec

-----------------------------------------------------------------------------
\* Once every crossing is delivered, however often, backend and consumer know
\* where the pointer is: in_corner is taken by a leave of the strip it holds.
THEOREM KnowsThePointer == WSpec => []UpToDate
<1>1. WInv => UpToDate
  BY DEF WInv, WTypeInv, OneWay, UpToDate
<1> QED
  BY <1>1, WInvHolds, PTL

\* The backend implements the activation contract.
THEOREM WaylandImplementsContract == WSpec => KeepsContract
<1>1. WInit => Contract!Init
  BY DEF WInit, Contract!Init
<1>2. WInv /\ [WNext]_wvars => [Contract!Next]_(Contract!vars)
  <2> SUFFICES ASSUME WInv, [WNext]_wvars PROVE [Contract!Next]_(Contract!vars)
    OBVIOUS
  <2>1. ASSUME NEW m \in Monitors, EnterStrip(m) PROVE Contract!Next
    BY <2>1 DEF EnterStrip, WInv, WTypeInv, Side, Contract!Next, Contract!Entered
  <2>2. ASSUME NEW m \in Monitors, LeaveStrip(m) PROVE Contract!Next
    <3>1. inCorner \in Monitors /\ Contract!Left(inCorner)
      BY <2>2 DEF LeaveStrip, WInv, WTypeInv, Places, Side, Contract!Left
    <3> QED
      BY <3>1 DEF Contract!Next
  <2>3. ASSUME NEW p \in Places, WMove(p) PROVE UNCHANGED Contract!vars
    BY <2>3 DEF WMove, told, Contract!vars
  <2>4. ASSUME NEW m \in Monitors, Ignored(m) PROVE UNCHANGED Contract!vars
    BY <2>4 DEF Ignored, told, Contract!vars
  <2>5. CASE UNCHANGED wvars
    BY <2>5 DEF wvars, told, Contract!vars
  <2> QED
    BY <2>1, <2>2, <2>3, <2>4, <2>5 DEF WNext
<1> QED
  BY <1>1, <1>2, WInvHolds, PTL DEF WSpec, KeepsContract, Contract!Spec
=============================================================================
