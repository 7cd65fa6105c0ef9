--------------------------- MODULE Overlay_proofs ---------------------------
(***************************************************************************)
(* Proofs about Overlay, for any monitors, workspaces, source ids and      *)
(* number of fade steps.  The properties the runs check are inductive      *)
(* together: each handler relies on the cells owning their sources.  The   *)
(* lemmas about the handlers, without the guards of Overlay's own actions, *)
(* are those that the daemons composed with a backend rest on.             *)
(***************************************************************************)
EXTENDS Overlay, TLAPS

TInv ==
  /\ TypeOK
  /\ CellsOwnTheirSources
  /\ TimersMatchPointer
  /\ NeverStuckTranslucent
  /\ EscGrabbedIffVisible

\* Being on the current workspace does not help the others, and relies on the
\* window manager waiting with a switch until the last one was reported.
IInv == TInv /\ OnCurrentWorkspace

USE MonitorAssumption, SourceAssumption, FadeAssumption

\* The sources the model arms are well-typed.
LEMMA SourceTypes ==
  /\ \A k \in {"free", "dwell", "hide"} : Timeout(k) \in Sources /\ Timeout(k).kind = k
  /\ \A t \in {"clear", "opaque"}, s \in Opacities :
       Fading(t, s) \in Sources /\ Fading(t, s).kind = "fade"
BY DEF Timeout, Fading, Sources, Kinds, Opacities

\* Removing sources leaves a well-typed table: the removed ids are free, the
\* others keep their source.
LEMMA WithoutTypes ==
  ASSUME source \in [SourceIds -> Sources], NEW ids
  PROVE  /\ Without(ids) \in [SourceIds -> Sources]
         /\ \A i \in SourceIds :
              /\ i \in ids => Without(ids)[i].kind = "free"
              /\ i \notin ids => Without(ids)[i] = source[i]
BY SourceTypes DEF Without, Free

LEMMA InitInv == Init => TInv
<1> SUFFICES ASSUME Init PROVE TInv
  OBVIOUS
<1>1. visible \in BOOLEAN /\ listening \in BOOLEAN /\ visible = ~listening
  BY DEF Init
<1>2. Free \in Sources /\ Free.kind = "free"
  BY SourceTypes DEF Free
<1>3. source \in [SourceIds -> Sources] /\ \A i \in SourceIds : source[i].kind = "free"
  BY <1>2 DEF Init
<1>4. TypeOK
  <2>1. endings \in Seq({"stop", "restart"})
    BY DEF Init
  <2>2. QED
    BY <1>1, <1>3, <2>1 DEF Init, TypeOK, Opacities, Places, Sides, Cells
<1>5. CellsOwnTheirSources
  BY <1>3 DEF Init, CellsOwnTheirSources
<1>6. QED
  BY <1>1, <1>4, <1>5 DEF Init, TInv, TimersMatchPointer, NeverStuckTranslucent,
     EscGrabbedIffVisible

\* A process image that begins or ends satisfies the invariant.
LEMMA ResetInv == ASSUME TInv, NEW alive \in BOOLEAN, Reset(alive) PROVE TInv'
<1>1. visible' \in BOOLEAN /\ listening' \in BOOLEAN /\ (listening' => ~visible')
  BY DEF Reset
<1>2. Free \in Sources /\ Free.kind = "free"
  BY SourceTypes DEF Free
<1>3. source' \in [SourceIds -> Sources] /\ \A i \in SourceIds : source'[i].kind = "free"
  BY <1>2 DEF Reset
<1>4. TypeOK'
  <2>1. endings' \in Seq({"stop", "restart"})
    BY DEF Reset
  <2>2. QED
    BY <1>1, <1>3, <2>1 DEF Reset, TInv, TypeOK, Opacities, Places, Sides, Cells
<1>5. CellsOwnTheirSources'
  BY <1>3 DEF Reset, CellsOwnTheirSources
<1>6. QED
  BY <1>1, <1>4, <1>5 DEF Reset, TInv, TimersMatchPointer, NeverStuckTranslucent,
     EscGrabbedIffVisible

-----------------------------------------------------------------------------
(***************************************************************************)
(* What the controller does to the source table: the fade it starts is the *)
(* one its cell names, and of the debounce timers it removes just those    *)
(* the caller gave up.                                                     *)
(***************************************************************************)
SourcesAfter(gone) ==
  /\ source' \in [SourceIds -> Sources]
  /\ fade' \in Cells
  /\ \A i \in SourceIds :
       /\ source'[i].kind = "fade" <=> fade' = i
       /\ source'[i].kind = "dwell" <=> source[i].kind = "dwell" /\ i \notin gone
       /\ source'[i].kind = "hide" <=> source[i].kind = "hide" /\ i \notin gone

\* Arming source s under a free id changes that entry alone.
LEMMA ArmTypes ==
  ASSUME NEW table \in [SourceIds -> Sources], NEW id \in Unused(table),
         NEW s \in Sources
  PROVE  /\ [table EXCEPT ![id] = s] \in [SourceIds -> Sources]
         /\ [table EXCEPT ![id] = s][id] = s
         /\ \A i \in SourceIds : i # id => [table EXCEPT ![id] = s][i] = table[i]
         /\ id \in SourceIds /\ table[id].kind = "free"
BY DEF Unused

\* Starting a fade in place of the old one.
LEMMA FadeSources ==
  ASSUME TypeOK, CellsOwnTheirSources, NEW gone,
         NEW id \in Unused(Without(gone \cup {fade})),
         NEW new \in Sources, new.kind = "fade",
         source' = [Without(gone \cup {fade}) EXCEPT ![id] = new],
         fade' = id
  PROVE  SourcesAfter(gone) /\ fade' # NoSource
<1> DEFINE rest == Without(gone \cup {fade})
<1>1. source \in [SourceIds -> Sources] /\ fade \in Cells
  BY DEF TypeOK
<1>2. /\ rest \in [SourceIds -> Sources]
      /\ \A i \in SourceIds :
           /\ i \in gone \cup {fade} => rest[i].kind = "free"
           /\ i \notin gone \cup {fade} => rest[i] = source[i]
  BY <1>1, WithoutTypes
<1>3. source' = [rest EXCEPT ![id] = new] /\ id \in Unused(rest)
  OBVIOUS
<1> HIDE DEF rest
<1>4. /\ source' \in [SourceIds -> Sources]
      /\ source'[id] = new
      /\ \A i \in SourceIds : i # id => source'[i] = rest[i]
      /\ id \in SourceIds /\ rest[id].kind = "free"
  BY <1>2, <1>3 DEF Unused
<1>5. \A i \in SourceIds : source[i].kind = "fade" <=> fade = i
  BY DEF CellsOwnTheirSources
<1>6. ASSUME NEW i \in SourceIds
      PROVE  /\ source'[i].kind = "fade" <=> fade' = i
             /\ source'[i].kind = "dwell" <=> source[i].kind = "dwell" /\ i \notin gone
             /\ source'[i].kind = "hide" <=> source[i].kind = "hide" /\ i \notin gone
  <2>1. CASE i = id
    BY <2>1, <1>2, <1>4, <1>5
  <2>2. CASE i # id
    BY <2>2, <1>2, <1>4, <1>5
  <2>3. QED
    BY <2>1, <2>2
<1>7. QED
  BY <1>4, <1>6 DEF SourcesAfter, Cells

LEMMA ShowSources ==
  ASSUME TypeOK, CellsOwnTheirSources, NEW gone, NEW wasMapped,
         Show(gone, wasMapped)
  PROVE  SourcesAfter(gone) /\ fade' # NoSource
<1>1. PICK id \in Unused(Without(gone \cup {fade})) :
        /\ source' = [Without(gone \cup {fade}) EXCEPT ![id] = Fading("opaque", "clear")]
        /\ fade' = id
  BY DEF Show
<1>2. Fading("opaque", "clear") \in Sources /\ Fading("opaque", "clear").kind = "fade"
  BY SourceTypes DEF Opacities
<1>3. QED
  BY <1>1, <1>2, FadeSources

LEMMA WithoutSources ==
  ASSUME TypeOK, CellsOwnTheirSources, NEW gone,
         \/ fade' = NoSource /\ source' = Without(gone \cup {fade})
         \/ /\ fade' = fade /\ source' = Without(gone)
            /\ \A i \in SourceIds \cap gone : source[i].kind # "fade"
  PROVE  SourcesAfter(gone)
<1>1. source \in [SourceIds -> Sources] /\ fade \in Cells
  BY DEF TypeOK
<1>2. \A i \in SourceIds : source[i].kind = "fade" <=> fade = i
  BY DEF CellsOwnTheirSources
<1>3. CASE fade' = NoSource /\ source' = Without(gone \cup {fade})
  <2>1. /\ source' \in [SourceIds -> Sources]
        /\ \A i \in SourceIds :
             /\ i \in gone \cup {fade} => source'[i].kind = "free"
             /\ i \notin gone \cup {fade} => source'[i] = source[i]
    BY <1>1, <1>3, WithoutTypes
  <2>2. QED
    BY <1>2, <1>3, <2>1 DEF SourcesAfter, Cells
<1>4. CASE /\ fade' = fade /\ source' = Without(gone)
           /\ \A i \in SourceIds \cap gone : source[i].kind # "fade"
  <2>1. /\ source' \in [SourceIds -> Sources]
        /\ \A i \in SourceIds :
             /\ i \in gone => source'[i].kind = "free"
             /\ i \notin gone => source'[i] = source[i]
    BY <1>1, <1>4, WithoutTypes
  <2>2. QED
    BY <1>1, <1>2, <1>4, <2>1 DEF SourcesAfter, Cells
<1>5. QED
  BY <1>3, <1>4

\* hide() keeps the window's state; the fade cell is set when it is visible.
LEMMA HideSources ==
  ASSUME TypeOK, CellsOwnTheirSources, NEW gone, Hide(gone),
         \A i \in SourceIds \cap gone : source[i].kind # "fade"
  PROVE  /\ SourcesAfter(gone)
         /\ UNCHANGED <<window, escGrab>>
         /\ visible => fade' # NoSource
         /\ ~visible => fade' = fade
<1>1. CASE visible
  <2>1. PICK id \in Unused(Without(gone \cup {fade})) :
          /\ source' = [Without(gone \cup {fade}) EXCEPT ![id] = Fading("clear", opacity)]
          /\ fade' = id
          /\ UNCHANGED <<window, escGrab>>
    BY <1>1 DEF Hide
  <2>2. Fading("clear", opacity) \in Sources /\ Fading("clear", opacity).kind = "fade"
    BY SourceTypes DEF TypeOK
  <2>3. QED
    BY <1>1, <2>1, <2>2, FadeSources
<1>2. CASE ~visible
  <2>1. /\ source' = Without(gone) /\ fade' = fade
        /\ UNCHANGED <<window, escGrab>>
    BY <1>2 DEF Hide
  <2>2. SourcesAfter(gone)
    BY <2>1, WithoutSources
  <2>3. QED
    BY <1>2, <2>1, <2>2
<1>3. QED
  BY <1>1, <1>2

-----------------------------------------------------------------------------
(***************************************************************************)
(* Preservation, one lemma per group of actions with the same shape.       *)
(***************************************************************************)

\* A trigger that dropped both debounce timers leaves the cells consistent.
LEMMA TriggerCells ==
  ASSUME TypeOK, CellsOwnTheirSources, SourcesAfter(Pending), CancelTimers
  PROVE  CellsOwnTheirSources'
BY DEF TypeOK, CellsOwnTheirSources, SourcesAfter, Pending, CancelTimers, Cells

\* No debounce timer is a fade.
LEMMA PendingIsNoFade ==
  ASSUME CellsOwnTheirSources
  PROVE  \A i \in SourceIds \cap Pending : source[i].kind # "fade"
BY DEF CellsOwnTheirSources, Pending

\* show() after CancelTimers (IpcShow and the showing half of Toggle and
\* WorkspaceChanged).
LEMMA ShowInv ==
  ASSUME TInv, NEW wasMapped \in BOOLEAN, wasMapped => visible,
         CancelTimers, Show(Pending, wasMapped),
         edge' \in Sides, seen' \in Desktops,
         UNCHANGED <<monitor, world>>
  PROVE  TInv'
<1>1. SourcesAfter(Pending) /\ fade' # NoSource
  BY ShowSources DEF TInv
<1>2. CellsOwnTheirSources'
  BY <1>1, TriggerCells DEF TInv
<1>3. /\ visible' = TRUE /\ opacity' = "clear" /\ placed' = monitor /\ escGrab' = TRUE
      /\ mappedOn' = IF wasMapped THEN mappedOn ELSE desktop
  BY DEF Show
<1>4. TypeOK'
  BY <1>1, <1>3 DEF TInv, TypeOK, SourcesAfter, CancelTimers, world, Cells, Opacities
<1>5. TimersMatchPointer'
  BY DEF CancelTimers, TimersMatchPointer
<1>6. NeverStuckTranslucent' /\ EscGrabbedIffVisible'
  BY <1>1, <1>3 DEF NeverStuckTranslucent, EscGrabbedIffVisible
<1>7. QED
  BY <1>2, <1>4, <1>5, <1>6 DEF TInv

LEMMA IpcShowInv == ASSUME TInv, IpcShow PROVE TInv'
<1>1. /\ visible \in BOOLEAN /\ CancelTimers /\ Show(Pending, visible)
      /\ edge' \in Sides /\ seen' \in Desktops /\ UNCHANGED <<monitor, world>>
  BY DEF IpcShow, TInv, TypeOK
<1>2. QED
  BY <1>1, ShowInv

\* hide() after CancelTimers (Dismiss, IpcHide and the hiding half of Toggle).
LEMMA DismissInv == ASSUME TInv, OnDismiss PROVE TInv'
<1>1. CancelTimers /\ Hide(Pending) /\ UNCHANGED <<monitor, edge, seen, world>>
  BY DEF OnDismiss
<1>2. /\ SourcesAfter(Pending)
      /\ UNCHANGED <<window, escGrab>>
      /\ visible => fade' # NoSource
      /\ ~visible => fade' = fade
  BY <1>1, PendingIsNoFade, HideSources DEF TInv
<1>3. CellsOwnTheirSources'
  BY <1>1, <1>2, TriggerCells DEF TInv
<1>4. TypeOK'
  BY <1>1, <1>2 DEF TInv, TypeOK, SourcesAfter, CancelTimers, window, world, Cells
<1>5. TimersMatchPointer'
  BY <1>1 DEF CancelTimers, TimersMatchPointer
<1>6. NeverStuckTranslucent' /\ EscGrabbedIffVisible'
  BY <1>1, <1>2 DEF TInv, TypeOK, NeverStuckTranslucent, EscGrabbedIffVisible, window, world
<1>7. QED
  BY <1>3, <1>4, <1>5, <1>6 DEF TInv

LEMMA ToggleInv == ASSUME TInv, OnToggle PROVE TInv'
<1>1. CASE visible
  BY <1>1, DismissInv DEF OnToggle, OnDismiss, ShowOrHide
<1>2. CASE ~visible
  <2>1. CancelTimers /\ Show(Pending, FALSE) /\ UNCHANGED <<monitor, edge, seen, world>>
    BY <1>2 DEF OnToggle, ShowOrHide
  <2>2. edge' \in Sides /\ seen' \in Desktops
    BY <2>1 DEF TInv, TypeOK
  <2>3. QED
    BY <2>1, <2>2, ShowInv
<1>3. QED
  BY <1>1, <1>2

\* hide_instant() after CancelTimers (WorkspaceChanged away, stop, restart).
LEMMA InstantInv ==
  ASSUME TInv, CancelTimers, HideInstant,
         source' = Without(Pending \cup {fade}),
         edge' \in Sides, seen' \in Desktops,
         endings' \in Seq({"stop", "restart"}),
         UNCHANGED <<monitor, quitting, listening, desktop, running>>
  PROVE  TInv'
<1>1. /\ fade' = NoSource /\ visible' = FALSE /\ escGrab' = FALSE
      /\ UNCHANGED <<opacity, placed, mappedOn>>
  BY DEF HideInstant
<1>2. SourcesAfter(Pending)
  BY <1>1, WithoutSources DEF TInv
<1>3. CellsOwnTheirSources'
  BY <1>2, TriggerCells DEF TInv
<1>4. TypeOK'
  BY <1>1, <1>2 DEF TInv, TypeOK, SourcesAfter, CancelTimers, Cells
<1>5. QED
  BY <1>1, <1>3, <1>4 DEF TInv, CancelTimers, TimersMatchPointer,
     NeverStuckTranslucent, EscGrabbedIffVisible

LEMMA WorkspaceChangedInv ==
  ASSUME TInv, NEW side \in Sides, OnWorkspaceChanged(side) PROVE TInv'
<1>1. /\ CancelTimers /\ edge' = side /\ seen' = desktop
      /\ UNCHANGED <<monitor, world>> /\ desktop \in Desktops
      /\ endings \in Seq({"stop", "restart"})
  BY DEF OnWorkspaceChanged, TInv, TypeOK
<1>2. CASE side = "inside"
  <2>1. Show(Pending, FALSE)
    BY <1>2 DEF OnWorkspaceChanged
  <2>2. QED
    BY <1>1, <2>1, ShowInv
<1>3. CASE side # "inside"
  <2>1. HideInstant /\ source' = Without(Pending \cup {fade})
    BY <1>3 DEF OnWorkspaceChanged
  <2>2. UNCHANGED <<endings, quitting, listening, desktop, running>>
    BY <1>1 DEF world
  <2>3. QED
    BY <1>1, <2>1, <2>2, InstantInv
<1>4. QED
  BY <1>2, <1>3

LEMMA DeferredInv ==
  ASSUME TInv, NEW kind \in {"stop", "restart"}, Deferred(kind) PROVE TInv'
<1>1. edge \in Sides /\ seen \in Desktops /\ endings \in Seq({"stop", "restart"})
  BY DEF TInv, TypeOK
<1>2. endings' \in Seq({"stop", "restart"})
  BY <1>1 DEF Deferred
<1>3. QED
  BY <1>1, <1>2, InstantInv DEF Deferred

LEMMA CornerEnteredInv ==
  ASSUME TInv, NEW m \in Monitors, OnCornerEntered(m) PROVE TInv'
<1> DEFINE rest == Without(Pending)
<1>1. PICK id \in Unused(rest) :
        source' = [rest EXCEPT ![id] = Timeout("dwell")] /\ dwell' = id
  BY DEF OnCornerEntered
<1>2. /\ hideTimer' = NoSource /\ monitor' = m /\ edge' = "inside"
      /\ UNCHANGED <<window, fade, escGrab, seen, world>>
  BY DEF OnCornerEntered
<1>3. /\ rest \in [SourceIds -> Sources]
      /\ \A i \in SourceIds : /\ i \in Pending => rest[i].kind = "free"
                              /\ i \notin Pending => rest[i] = source[i]
  BY WithoutTypes DEF TInv, TypeOK
<1>4. Timeout("dwell") \in Sources /\ Timeout("dwell").kind = "dwell"
  BY SourceTypes
<1> HIDE DEF rest
<1>5. /\ source' \in [SourceIds -> Sources]
      /\ source'[id] = Timeout("dwell")
      /\ \A i \in SourceIds : i # id => source'[i] = rest[i]
      /\ id \in SourceIds /\ rest[id].kind = "free"
  BY <1>1, <1>3, <1>4, ArmTypes
<1>6. TypeOK'
  BY <1>1, <1>2, <1>5 DEF TInv, TypeOK, window, world, Cells, Places, Sides
<1>7. CellsOwnTheirSources'
  BY <1>1, <1>2, <1>3, <1>4, <1>5
     DEF TInv, TypeOK, CellsOwnTheirSources, Pending, Cells
<1>8. TimersMatchPointer'
  BY <1>2 DEF TimersMatchPointer
<1>9. QED
  BY <1>2, <1>6, <1>7, <1>8 DEF TInv, TypeOK, NeverStuckTranslucent,
     EscGrabbedIffVisible, window, world

\* The pointer was in the strip, so TimersMatchPointer says the hide_timer
\* cell that is overwritten was empty: no auto-hide is orphaned.
LEMMA CornerLeftInv == ASSUME TInv, edge = "inside", OnCornerLeft PROVE TInv'
<1> DEFINE rest == Without({dwell})
<1>1. /\ dwell' = NoSource /\ edge' = "outside"
      /\ UNCHANGED <<window, fade, escGrab, monitor, seen, world>>
  BY DEF OnCornerLeft
<1>2. hideTimer = NoSource
  BY DEF TInv, TimersMatchPointer
<1>3. /\ rest \in [SourceIds -> Sources]
      /\ \A i \in SourceIds : /\ i = dwell => rest[i].kind = "free"
                              /\ i # dwell => rest[i] = source[i]
  BY WithoutTypes DEF TInv, TypeOK
<1>4. /\ source' \in [SourceIds -> Sources] /\ hideTimer' \in Cells
      /\ \A i \in SourceIds :
           IF i = hideTimer' THEN source'[i].kind = "hide" /\ rest[i].kind = "free"
                             ELSE source'[i] = rest[i]
  <2>1. CASE visible
    <3>1. PICK id \in Unused(rest) :
            source' = [rest EXCEPT ![id] = Timeout("hide")] /\ hideTimer' = id
      BY <2>1 DEF OnCornerLeft
    <3>2. Timeout("hide") \in Sources /\ Timeout("hide").kind = "hide"
      BY SourceTypes
    <3> HIDE DEF rest
    <3>3. QED
      BY <1>3, <3>1, <3>2, ArmTypes DEF Cells
  <2>2. CASE ~visible
    BY <1>2, <1>3, <2>2 DEF OnCornerLeft, Cells
  <2>3. QED
    BY <2>1, <2>2
<1> HIDE DEF rest
<1>5. TypeOK'
  BY <1>1, <1>4 DEF TInv, TypeOK, window, world, Cells, Sides
<1>6. CellsOwnTheirSources'
  BY <1>1, <1>2, <1>3, <1>4 DEF TInv, TypeOK, CellsOwnTheirSources, Cells
<1>7. TimersMatchPointer'
  BY <1>1 DEF TimersMatchPointer
<1>8. QED
  BY <1>1, <1>5, <1>6, <1>7 DEF TInv, TypeOK, NeverStuckTranslucent,
     EscGrabbedIffVisible, window, world

LEMMA DwellFiresInv == ASSUME TInv, NEW id \in SourceIds, DwellFires(id) PROVE TInv'
<1>1. /\ source[id].kind = "dwell" /\ Show({id}, visible) /\ dwell' = NoSource
      /\ UNCHANGED <<hideTimer, monitor, edge, seen, world>>
  BY DEF DwellFires
<1>2. SourcesAfter({id}) /\ fade' # NoSource
  BY <1>1, ShowSources DEF TInv
<1>3. /\ visible' = TRUE /\ opacity' = "clear" /\ placed' = monitor /\ escGrab' = TRUE
      /\ mappedOn' = IF visible THEN mappedOn ELSE desktop
  BY <1>1 DEF Show
<1>4. CellsOwnTheirSources'
  BY <1>1, <1>2 DEF TInv, TypeOK, CellsOwnTheirSources, SourcesAfter, Cells
<1>5. TypeOK'
  BY <1>1, <1>2, <1>3 DEF TInv, TypeOK, SourcesAfter, world, Cells, Opacities
<1>6. QED
  BY <1>1, <1>2, <1>3, <1>4, <1>5 DEF TInv, TypeOK, TimersMatchPointer,
     NeverStuckTranslucent, EscGrabbedIffVisible, world

LEMMA HideFiresInv == ASSUME TInv, NEW id \in SourceIds, HideFires(id) PROVE TInv'
<1>1. /\ source[id].kind = "hide" /\ Hide({id}) /\ hideTimer' = NoSource
      /\ UNCHANGED <<dwell, monitor, edge, seen, world>>
  BY DEF HideFires
<1>2. /\ SourcesAfter({id})
      /\ UNCHANGED <<window, escGrab>>
      /\ visible => fade' # NoSource
      /\ ~visible => fade' = fade
  BY <1>1, HideSources DEF TInv
<1>3. CellsOwnTheirSources'
  BY <1>1, <1>2 DEF TInv, TypeOK, CellsOwnTheirSources, SourcesAfter, Cells
<1>4. TypeOK'
  BY <1>1, <1>2 DEF TInv, TypeOK, SourcesAfter, window, world, Cells
<1>5. QED
  BY <1>1, <1>2, <1>3, <1>4 DEF TInv, TypeOK, TimersMatchPointer,
     NeverStuckTranslucent, EscGrabbedIffVisible, window, world

LEMMA FadeTickInv == ASSUME TInv, NEW id \in SourceIds, FadeTick(id) PROVE TInv'
<1> DEFINE f    == source[id]
           done == LastStep(f.step + 1)
           out  == done /\ f.to = "clear"
<1>1. /\ f.kind = "fade" /\ fade = id /\ fade # NoSource
      /\ f \in Sources /\ f.step \in 0 .. FadeSteps - 1
      /\ source \in [SourceIds -> Sources]
  BY DEF FadeTick, TInv, TypeOK, CellsOwnTheirSources, Sources
<1>2. /\ opacity' = Faded(f, f.step + 1)
      /\ visible' = (visible /\ ~out)
      /\ escGrab' = (escGrab /\ ~out)
      /\ fade' = IF done THEN NoSource ELSE fade
      /\ source' = [source EXCEPT ![id] = IF done THEN Free ELSE [f EXCEPT !.step = f.step + 1]]
      /\ UNCHANGED <<placed, mappedOn, dwell, hideTimer, monitor, edge, seen, world>>
  BY DEF FadeTick
<1>3. opacity' \in Opacities /\ (done => opacity' = f.to)
  BY <1>1, <1>2 DEF Faded, Sources, Opacities
<1>4. visible' \in BOOLEAN /\ escGrab' \in BOOLEAN
  BY <1>2
<1>5. /\ source' \in [SourceIds -> Sources]
      /\ source'[id].kind = IF done THEN "free" ELSE "fade"
      /\ \A i \in SourceIds : i # id => source'[i] = source[i]
  <2>1. CASE done
    <3>1. Free \in Sources /\ Free.kind = "free"
      BY SourceTypes DEF Free
    <3>2. QED
      BY <1>1, <1>2, <2>1, <3>1
  <2>2. CASE ~done
    <3> DEFINE g == [f EXCEPT !.step = f.step + 1]
    <3>1. f.step + 1 \in 0 .. FadeSteps - 1
      BY <1>1, <2>2 DEF LastStep
    <3>2. g \in Sources /\ g.kind = "fade"
      BY <1>1, <3>1 DEF Sources
    <3>3. source' = [source EXCEPT ![id] = g]
      BY <1>2, <2>2
    <3> HIDE DEF g
    <3>4. QED
      BY <1>1, <2>2, <3>2, <3>3
  <2>3. QED
    BY <2>1, <2>2
<1>6. TypeOK'
  BY <1>2, <1>3, <1>4, <1>5 DEF TInv, TypeOK, world, Cells
<1>7. CellsOwnTheirSources'
  BY <1>1, <1>2, <1>5 DEF TInv, TypeOK, CellsOwnTheirSources
<1> HIDE DEF f, done
<1>8. NeverStuckTranslucent'
  <2>1. visible
    BY <1>1 DEF TInv, NeverStuckTranslucent
  <2>2. CASE done
    <3>1. f.to \in {"clear", "opaque"}
      BY <1>1 DEF Sources
    <3>2. fade' = NoSource /\ (visible' => opacity' = "opaque")
      BY <1>2, <1>3, <2>2, <3>1
    <3>3. QED
      BY <3>2 DEF NeverStuckTranslucent
  <2>3. CASE ~done
    BY <1>1, <1>2, <2>1, <2>3 DEF NeverStuckTranslucent
  <2>4. QED
    BY <2>2, <2>3
<1>9. EscGrabbedIffVisible' /\ TimersMatchPointer'
  BY <1>2 DEF TInv, TypeOK, EscGrabbedIffVisible, 
     TimersMatchPointer, world
<1>10. QED
  BY <1>6, <1>7, <1>8, <1>9 DEF TInv

\* Whatever timeout comes due.
LEMMA FiresInv == ASSUME TInv, NEW id \in SourceIds, Fires(id) PROVE TInv'
BY DwellFiresInv, HideFiresInv, FadeTickInv DEF Fires

LEMMA SwitchDesktopInv ==
  ASSUME TInv, NEW d \in Desktops, SwitchDesktop(d) PROVE TInv'
<1>1. /\ seen = desktop /\ d # desktop /\ desktop' = d
      /\ UNCHANGED <<window, cells, source, endings, quitting, escGrab, monitor, edge, seen,
                     listening, running>>
  BY DEF SwitchDesktop
<1>2. TypeOK'
  BY <1>1 DEF TInv, TypeOK, window, cells
<1>3. QED
  BY <1>1, <1>2 DEF TInv, CellsOwnTheirSources, TimersMatchPointer,
     NeverStuckTranslucent, EscGrabbedIffVisible, window, cells

\* app.quit() sets its flag and leaves the rest.
LEMMA QuitInv == ASSUME TInv, Quit, endings # <<>> PROVE TInv'
<1>1. /\ quitting' = TRUE /\ endings' = Tail(endings)
      /\ UNCHANGED <<window, cells, source, escGrab, monitor, edge, seen, listening,
                     desktop, running>>
  BY DEF Quit
<1>2. TypeOK'
  BY <1>1 DEF TInv, TypeOK, window, cells
<1>3. QED
  BY <1>1, <1>2 DEF TInv, CellsOwnTheirSources, TimersMatchPointer,
     NeverStuckTranslucent, EscGrabbedIffVisible, window, cells

LEMMA StutterInv == ASSUME TInv, UNCHANGED vars PROVE TInv'
BY DEF TInv, TypeOK, CellsOwnTheirSources, TimersMatchPointer,
   NeverStuckTranslucent, EscGrabbedIffVisible, vars

-----------------------------------------------------------------------------
(***************************************************************************)
(* The invariants of Overlay hold of every behaviour.                      *)
(***************************************************************************)
LEMMA NextTInv == TInv /\ [Next]_vars => TInv'
<1> SUFFICES ASSUME TInv, [Next]_vars PROVE TInv'
  OBVIOUS
<1>1. CASE Event
  <2>1. ASSUME NEW m \in Monitors, CornerEntered(m) PROVE TInv'
    BY <2>1, CornerEnteredInv DEF CornerEntered
  <2>2. CASE CornerLeft
    BY <2>2, CornerLeftInv DEF CornerLeft
  <2>3. CASE Toggle
    BY <2>3, ToggleInv DEF Toggle
  <2>4. CASE Dismiss
    BY <2>4, DismissInv DEF Dismiss
  <2>5. ASSUME NEW side \in Sides, WorkspaceChanged(side) PROVE TInv'
    BY <2>5, WorkspaceChangedInv DEF WorkspaceChanged
  <2>6. QED
    BY <1>1, <2>1, <2>2, <2>3, <2>4, <2>5 DEF Event
<1>2. CASE Command
  <2>1. CASE IpcShow
    BY <2>1, IpcShowInv
  <2>2. CASE IpcHide
    BY <2>2, DismissInv DEF IpcHide
  <2>3. CASE IpcToggle
    BY <2>3, ToggleInv DEF IpcToggle
  <2>4. CASE IpcStop
    BY <2>4, DeferredInv DEF IpcStop
  <2>5. CASE IpcRestart
    BY <2>5, DeferredInv DEF IpcRestart
  <2>6. QED
    BY <1>2, <2>1, <2>2, <2>3, <2>4, <2>5 DEF Command
<1>3. ASSUME NEW id \in SourceIds, Fires(id) PROVE TInv'
  BY <1>3, FiresInv
<1>4. CASE EndDue
  BY <1>4, ResetInv, QuitInv DEF EndDue, StopDue, RestartDue, RestartFails, LoopEnds, Due
<1>5. ASSUME NEW d \in Desktops, SwitchDesktop(d) PROVE TInv'
  BY <1>5, SwitchDesktopInv
<1>6. CASE Start
  BY <1>6, ResetInv DEF Start
<1>7. CASE UNCHANGED vars
  BY <1>7, StutterInv
<1>8. QED
  BY <1>1, <1>2, <1>3, <1>4, <1>5, <1>6, <1>7 DEF Next

\* A window mapped anew is on the current workspace, and until a switch is
\* reported nothing is claimed of the one that is mapped.
LEMMA NextCurrent == ASSUME IInv, [Next]_vars PROVE OnCurrentWorkspace'
<1> USE DEF IInv, OnCurrentWorkspace
<1>1. ASSUME UNCHANGED <<listening, seen, desktop, mappedOn>>, visible' => visible
      PROVE  OnCurrentWorkspace'
  BY <1>1
<1>2. ASSUME NEW gone, NEW wasMapped \in BOOLEAN, wasMapped => visible, Show(gone, wasMapped),
             UNCHANGED world, seen' = seen \/ ~wasMapped
      PROVE  OnCurrentWorkspace'
  <2>1. UNCHANGED <<listening, desktop>> /\ mappedOn' = IF wasMapped THEN mappedOn ELSE desktop
    BY <1>2 DEF Show, world
  <2>2. CASE wasMapped
    BY <1>2, <2>1, <2>2
  <2>3. CASE ~wasMapped
    BY <2>1, <2>3
  <2> QED
    BY <2>2, <2>3
<1>a. visible \in BOOLEAN
  BY DEF TInv, TypeOK
<1>3. ASSUME NEW gone, Hide(gone), UNCHANGED <<seen, world>> PROVE OnCurrentWorkspace'
  BY <1>1, <1>3 DEF Hide, window, world
<1>4. ASSUME HideInstant PROVE OnCurrentWorkspace'
  BY <1>4 DEF HideInstant
<1>5. ASSUME OnToggle PROVE OnCurrentWorkspace'
  BY <1>2, <1>3, <1>5 DEF OnToggle, ShowOrHide
<1>6. ASSUME OnDismiss PROVE OnCurrentWorkspace'
  BY <1>3, <1>6 DEF OnDismiss
<1>7. CASE Event
  <2>1. ASSUME NEW m \in Monitors, CornerEntered(m) PROVE OnCurrentWorkspace'
    BY <1>1, <2>1 DEF CornerEntered, OnCornerEntered, window, world
  <2>2. CASE CornerLeft
    BY <1>1, <2>2 DEF CornerLeft, OnCornerLeft, window, world
  <2>3. ASSUME NEW side \in Sides, WorkspaceChanged(side) PROVE OnCurrentWorkspace'
    BY <1>2, <1>4, <2>3 DEF WorkspaceChanged, OnWorkspaceChanged
  <2> QED
    BY <1>5, <1>6, <1>7, <2>1, <2>2, <2>3 DEF Event, Toggle, Dismiss
<1>8. CASE Command
  BY <1>a, <1>2, <1>4, <1>5, <1>6, <1>8 DEF Command, IpcShow, IpcHide, IpcToggle, IpcStop, IpcRestart,
     Deferred
<1>9. ASSUME NEW id \in SourceIds, Fires(id) PROVE OnCurrentWorkspace'
  <2>1. CASE DwellFires(id)
    BY <1>a, <1>2, <2>1 DEF DwellFires
  <2>2. CASE HideFires(id)
    BY <1>3, <2>2 DEF HideFires
  <2>3. CASE FadeTick(id)
    BY <1>1, <2>3 DEF FadeTick, world
  <2> QED
    BY <1>9, <2>1, <2>2, <2>3 DEF Fires
<1>10. CASE EndDue \/ Start
  <2>1. ASSUME NEW alive, Reset(alive) PROVE OnCurrentWorkspace'
    BY <2>1 DEF Reset
  <2>2. ASSUME Quit PROVE OnCurrentWorkspace'
    BY <1>1, <2>2 DEF Quit, window
  <2> QED
    BY <1>10, <2>1, <2>2 DEF EndDue, StopDue, RestartDue, RestartFails, LoopEnds, Start
<1>11. ASSUME NEW d \in Desktops, SwitchDesktop(d) PROVE OnCurrentWorkspace'
  BY <1>11 DEF SwitchDesktop
<1>12. CASE UNCHANGED vars
  BY <1>1, <1>12 DEF vars
<1> QED
  BY <1>7, <1>8, <1>9, <1>10, <1>11, <1>12 DEF Next

\* Every property in IInv is invariant.
THEOREM Invariance == Spec => []IInv
<1>1. Init => IInv
  BY InitInv DEF Init, IInv, OnCurrentWorkspace
<1>2. IInv /\ [Next]_vars => IInv'
  BY NextTInv, NextCurrent DEF IInv
<1> QED
  BY <1>1, <1>2, PTL DEF Spec

\* Type correctness of Overlay.
THEOREM TypeCorrect == Spec => []TypeOK
<1>1. IInv => TypeOK
  BY DEF IInv, TInv
<1>2. QED
  BY <1>1, Invariance, PTL

\* No cell ever holds a dead source and no timer is ever orphaned: no callback
\* or cancellation of build_ui can make SourceId::remove panic.
THEOREM NoStaleSource == Spec => []CellsOwnTheirSources
<1>1. IInv => CellsOwnTheirSources
  BY DEF IInv, TInv
<1>2. QED
  BY <1>1, Invariance, PTL

\* The debounce timers always match the side of the strip's edge the pointer
\* was last reported on.
THEOREM DebounceMatchesPointer == Spec => []TimersMatchPointer
<1>1. IInv => TimersMatchPointer
  BY DEF IInv, TInv
<1>2. QED
  BY <1>1, Invariance, PTL

\* Whatever supersedes whatever, the overlay at rest is hidden or opaque.
THEOREM RestsOpaqueOrHidden == Spec => []NeverStuckTranslucent
<1>1. IInv => NeverStuckTranslucent
  BY DEF IInv, TInv
<1>2. QED
  BY <1>1, Invariance, PTL

\* Esc is taken from other applications only while the overlay is visible.
THEOREM EscFreeWhenHidden == Spec => []EscGrabbedIffVisible
<1>1. IInv => EscGrabbedIffVisible
  BY DEF IInv, TInv
<1>2. QED
  BY <1>1, Invariance, PTL

\* A reported workspace switch never leaves the overlay on the old workspace.
THEOREM NeverLeftBehind == Spec => []OnCurrentWorkspace
<1>1. IInv => OnCurrentWorkspace
  BY DEF IInv, TInv
<1>2. QED
  BY <1>1, Invariance, PTL

-----------------------------------------------------------------------------
(***************************************************************************)
(* Overlay implements OverlayPromise.                                      *)
(***************************************************************************)

\* Without a process there is no main loop, and no timeout.
DeadIsIdle == ~running => \A i \in SourceIds : source[i].kind = "free"

LEMMA DeadIsIdleInv ==
  ASSUME TInv, DeadIsIdle, [Next]_vars PROVE DeadIsIdle'
<1>1. CASE Event \/ Command
  <2>1. running /\ running' = running
    BY <1>1 DEF Event, Command, CornerEntered, CornerLeft, Toggle, Dismiss, WorkspaceChanged,
       Reports, OnCornerEntered, OnCornerLeft, OnToggle, OnDismiss, OnWorkspaceChanged,
       IpcShow, IpcHide, IpcToggle, IpcStop, IpcRestart, Deferred, world
  <2>2. QED
    BY <2>1 DEF DeadIsIdle
<1>2. ASSUME NEW id \in SourceIds, Fires(id) PROVE DeadIsIdle'
  <2>1. source[id].kind # "free" /\ running' = running
    BY <1>2 DEF Fires, DwellFires, HideFires, FadeTick, world
  <2>2. QED
    BY <2>1 DEF DeadIsIdle
<1>3. ASSUME NEW alive \in BOOLEAN, Reset(alive) PROVE DeadIsIdle'
  BY <1>3 DEF Reset, DeadIsIdle, Free, Timeout
<1>4. CASE EndDue \/ Start
  <2>1. ASSUME Quit PROVE DeadIsIdle'
    BY <2>1 DEF Quit, DeadIsIdle
  <2> QED
    BY <1>3, <1>4, <2>1 DEF EndDue, StopDue, RestartDue, RestartFails, LoopEnds, Start
<1>5. ASSUME NEW d \in Desktops, SwitchDesktop(d) PROVE DeadIsIdle'
  BY <1>5 DEF SwitchDesktop, DeadIsIdle
<1>6. CASE UNCHANGED vars
  BY <1>6 DEF vars, DeadIsIdle
<1>7. QED
  BY <1>1, <1>2, <1>4, <1>5, <1>6 DEF Next

\* A fade runs on a source of its own, and animates a visible window.
LEMMA FadeApart ==
  ASSUME TInv, fade # NoSource
  PROVE  fade \in SourceIds /\ source[fade].kind = "fade" /\ fade \notin Pending /\ visible
<1>1. fade \in SourceIds
  BY DEF TInv, TypeOK, Cells
<1>2. source[fade].kind = "fade" /\ dwell # fade /\ hideTimer # fade
  BY <1>1 DEF TInv, CellsOwnTheirSources
<1>3. QED
  BY <1>1, <1>2 DEF TInv, NeverStuckTranslucent, Pending

\* Arming and removing other timeouts leaves the phase.
LEMMA OtherTimeouts ==
  ASSUME TInv, NEW gone, gone \subseteq Pending, UNCHANGED <<visible, fade>>,
         \/ source' = Without(gone)
         \/ \E id \in Unused(Without(gone)) : \E s : source' = [Without(gone) EXCEPT ![id] = s]
  PROVE  Phase' = Phase
<1>1. ASSUME fade # NoSource PROVE source'[fade] = source[fade]
  <2>1. fade \in SourceIds /\ source[fade].kind = "fade" /\ fade \notin gone
    BY <1>1, FadeApart
  <2>2. Without(gone)[fade] = source[fade] /\ fade \in DOMAIN Without(gone)
    BY <2>1 DEF Without
  <2>3. fade \notin Unused(Without(gone))
    BY <2>1, <2>2 DEF Unused
  <2>4. QED
    BY <2>2, <2>3
<1>2. QED
  BY <1>1 DEF Phase

\* The phases a show, a hide and an instant hide lead to.
LEMMA FadesTo ==
  ASSUME NEW table \in [SourceIds -> Sources], NEW id \in Unused(table),
         NEW t, NEW s, source' = [table EXCEPT ![id] = Fading(t, s)], fade' = id, visible'
  PROVE  Phase' = IF t = "opaque" THEN "appearing" ELSE "vanishing"
<1>1. id \in SourceIds /\ id # NoSource
  BY DEF Unused
<1>2. source'[id].to = t
  BY <1>1 DEF Fading
<1>3. QED
  BY <1>1, <1>2 DEF Phase

LEMMA TablesLeft == ASSUME TInv, NEW gone PROVE Without(gone) \in [SourceIds -> Sources]
BY SourceTypes DEF TInv, TypeOK, Without, Free

LEMMA ShowAppears ==
  ASSUME TInv, NEW gone, NEW w, Show(gone, w) PROVE Phase' = "appearing"
BY FadesTo, TablesLeft DEF Show

LEMMA HideVanishes ==
  ASSUME TInv, NEW gone, visible, Hide(gone) PROVE Phase' = "vanishing"
<1>1. visible' = visible
  BY DEF Hide, window
<1>2. QED
  BY <1>1, FadesTo, TablesLeft DEF Hide

LEMMA HiddenStays ==
  ASSUME NEW gone, ~visible, Hide(gone) PROVE Phase = "hidden" /\ Phase' = "hidden"
BY DEF Hide, window, Phase

LEMMA InstantlyHidden == ASSUME HideInstant PROVE Phase' = "hidden"
BY DEF HideInstant, Phase

\* What a hide, from whatever trigger, is to the user.
LEMMA HideStep ==
  ASSUME TInv, running, NEW gone, Hide(gone), UNCHANGED <<edge, world>>
  PROVE  Promise!Vanish \/ UNCHANGED Promise!vars
<1>1. UNCHANGED <<edge, endings, quitting, running>>
  BY DEF world
<1>2. CASE visible
  <2>1. Phase # "hidden"
    BY <1>2 DEF Phase
  <2>2. QED
    BY <1>1, <1>2, <2>1, HideVanishes DEF Promise!Vanish
<1>3. CASE ~visible
  BY <1>1, <1>3, HiddenStays DEF Promise!vars
<1>4. QED
  BY <1>2, <1>3

LEMMA ShowStep ==
  ASSUME TInv, running, NEW gone, NEW w, Show(gone, w), UNCHANGED <<edge, world>>
  PROVE  Promise!Appear
<1>1. UNCHANGED <<edge, endings, quitting, running>>
  BY DEF world
<1>2. QED
  BY <1>1, ShowAppears DEF Promise!Appear

LEMMA ToggleStep ==
  ASSUME TInv, running, OnToggle
  PROVE  Promise!Appear \/ Promise!Vanish \/ UNCHANGED Promise!vars
<1>1. UNCHANGED <<edge, world>>
  BY DEF OnToggle
<1>2. CASE visible
  BY <1>1, <1>2, HideStep DEF OnToggle, ShowOrHide
<1>3. CASE ~visible
  BY <1>1, <1>3, ShowStep DEF OnToggle, ShowOrHide
<1>4. QED
  BY <1>2, <1>3 DEF TInv, TypeOK

\* One tick of a fade: the last one settles, the others are not seen.
LEMMA FadeStep ==
  ASSUME TInv, NEW id \in SourceIds, FadeTick(id)
  PROVE  Promise!Settle \/ UNCHANGED Promise!vars
<1> DEFINE f == source[id]
           done == LastStep(f.step + 1)
<1>1. f.kind = "fade" /\ f \in Sources
  BY DEF FadeTick, TInv, TypeOK
<1>2. fade = id /\ fade # NoSource /\ visible
  BY <1>1, FadeApart DEF TInv, CellsOwnTheirSources
<1>3. UNCHANGED <<edge, endings, quitting, running>>
  BY DEF FadeTick, world
<1>4. /\ visible' = (visible /\ ~(done /\ f.to = "clear"))
      /\ fade' = IF done THEN NoSource ELSE fade
      /\ source' = [source EXCEPT ![id] = IF done THEN Free ELSE [f EXCEPT !.step = f.step + 1]]
  BY DEF FadeTick
<1>5. f.to \in {"clear", "opaque"} /\ Phase = IF f.to = "opaque" THEN "appearing" ELSE "vanishing"
  BY <1>1, <1>2 DEF Phase, Sources
<1>6. CASE done
  <2>1. Phase' = IF f.to = "opaque" THEN "shown" ELSE "hidden"
    BY <1>2, <1>4, <1>5, <1>6 DEF Phase
  <2>2. QED
    BY <1>3, <1>5, <2>1 DEF Promise!Settle
<1>7. CASE ~done
  <2>1. visible' = visible /\ fade' = fade /\ source'[id].to = f.to
    BY <1>1, <1>2, <1>4, <1>7 DEF Sources, TInv, TypeOK
  <2>2. Phase' = Phase
    BY <1>2, <2>1 DEF Phase
  <2>3. QED
    BY <1>3, <2>2 DEF Promise!vars
<1>8. QED
  BY <1>6, <1>7

\* A process that begins or ends is as promised, if that was asked for.
LEMMA ResetStep ==
  ASSUME NEW alive \in BOOLEAN, Reset(alive),
         endings # <<>> \/ quitting \/ (alive /\ ~running)
  PROVE  Promise!End \/ Promise!Begin
<1>1. /\ endings' = <<>> /\ quitting' = FALSE /\ edge' = "outside" /\ running' = alive
      /\ fade' = NoSource /\ visible' = (alive /\ ~listening')
  BY DEF Reset
<1>2. CASE alive
  <2>1. Phase' \in {"hidden", "shown"}
    BY <1>1 DEF Phase
  <2>2. QED
    BY <1>1, <1>2, <2>1 DEF Promise!Begin
<1>3. CASE ~alive
  <2>1. Phase' = "hidden"
    BY <1>1, <1>3 DEF Phase
  <2>2. QED
    BY <1>1, <1>3, <2>1 DEF Promise!End
<1>4. QED
  BY <1>2, <1>3

\* app.quit() is not seen: the end is only nearer.
LEMMA QuitStep == ASSUME Quit, endings # <<>> PROVE UNCHANGED Promise!vars
<1>1. /\ quitting' = TRUE /\ UNCHANGED <<edge, running, visible, fade, source>>
  BY DEF Quit, window, cells
<1>2. (endings # <<>> \/ quitting)' = (endings # <<>> \/ quitting)
  BY <1>1
<1> QED
  BY <1>1, <1>2 DEF Promise!vars, Phase

\* What the handlers of the corner and workspace events are to the user.
LEMMA EnterStep ==
  ASSUME TInv, running, edge = "outside", NEW m \in Monitors, OnCornerEntered(m)
  PROVE  Promise!Enter
<1>1. edge' = "inside" /\ UNCHANGED <<endings, quitting, running, visible, fade>>
  BY DEF OnCornerEntered, window, world
<1>2. Phase' = Phase
  BY <1>1, OtherTimeouts DEF OnCornerEntered
<1> QED
  BY <1>1, <1>2 DEF Promise!Enter

LEMMA LeaveStep ==
  ASSUME TInv, running, edge = "inside", OnCornerLeft PROVE Promise!Leave
<1>1. edge' = "outside" /\ UNCHANGED <<endings, quitting, running, visible, fade>>
  BY DEF OnCornerLeft, window, world
<1>2. \/ source' = Without({dwell})
      \/ \E id \in Unused(Without({dwell})) : \E s : source' = [Without({dwell}) EXCEPT ![id] = s]
  BY DEF OnCornerLeft
<1>3. {dwell} \subseteq Pending
  BY DEF Pending
<1>4. Phase' = Phase
  BY <1>1, <1>2, <1>3, OtherTimeouts
<1> QED
  BY <1>1, <1>4 DEF Promise!Leave

LEMMA SwitchStep ==
  ASSUME TInv, running, NEW side \in Sides, OnWorkspaceChanged(side)
  PROVE  Promise!SwitchTo(side)
<1>1. edge' = side /\ UNCHANGED <<endings, quitting, running>>
  BY DEF OnWorkspaceChanged, world
<1>2. CASE side = "inside"
  BY <1>1, <1>2, ShowAppears DEF OnWorkspaceChanged, Promise!SwitchTo
<1>3. CASE side = "outside"
  BY <1>1, <1>3, InstantlyHidden DEF OnWorkspaceChanged, Promise!SwitchTo
<1> QED
  BY <1>2, <1>3 DEF Sides

\* What a timeout that comes due is to the user.
LEMMA FiresStep ==
  ASSUME TInv, running, NEW id \in SourceIds, Fires(id)
  PROVE  Promise!Appear \/ Promise!Vanish \/ Promise!Settle \/ UNCHANGED Promise!vars
<1>1. CASE DwellFires(id)
  BY <1>1, ShowStep DEF DwellFires
<1>2. CASE HideFires(id)
  BY <1>2, HideStep DEF HideFires
<1>3. CASE FadeTick(id)
  BY <1>3, FadeStep
<1> QED
  BY <1>1, <1>2, <1>3 DEF Fires

LEMMA PromiseSteps ==
  ASSUME TInv, DeadIsIdle, [Next]_vars PROVE [Promise!Next]_(Promise!vars)
<1>1. ASSUME NEW m \in Monitors, CornerEntered(m) PROVE Promise!Enter
  BY <1>1, EnterStep DEF CornerEntered, Reports
<1>2. ASSUME CornerLeft PROVE Promise!Leave
  BY <1>2, LeaveStep DEF CornerLeft, Reports
<1>3. ASSUME NEW side \in Sides, WorkspaceChanged(side) PROVE Promise!SwitchTo(side)
  BY <1>3, SwitchStep DEF WorkspaceChanged, Reports
<1>4. ASSUME Toggle \/ IpcToggle
      PROVE  Promise!Appear \/ Promise!Vanish \/ UNCHANGED Promise!vars
  BY <1>4, ToggleStep DEF Toggle, IpcToggle, Reports
<1>5. ASSUME Dismiss \/ IpcHide PROVE Promise!Vanish \/ UNCHANGED Promise!vars
  BY <1>5, HideStep DEF Dismiss, IpcHide, OnDismiss, Reports
<1>6. ASSUME IpcShow PROVE Promise!Appear
  BY <1>6, ShowStep DEF IpcShow
<1>7. ASSUME NEW kind \in {"stop", "restart"}, Deferred(kind) PROVE Promise!AcceptEnd
  <2>1. /\ running /\ UNCHANGED <<edge, quitting, running>> /\ HideInstant
        /\ quitting \/ endings' = Append(endings, kind)
    BY <1>7 DEF Deferred
  <2>2. (endings # <<>> \/ quitting)' = TRUE
    BY <2>1 DEF TInv, TypeOK
  <2>3. QED
    BY <2>1, <2>2, InstantlyHidden DEF Promise!AcceptEnd
<1>8. ASSUME NEW id \in SourceIds, Fires(id)
      PROVE  Promise!Appear \/ Promise!Vanish \/ Promise!Settle \/ UNCHANGED Promise!vars
  <2>1. running
    BY <1>8 DEF Fires, DwellFires, HideFires, FadeTick, DeadIsIdle
  <2>2. QED
    BY <1>8, <2>1, FiresStep
<1>9. ASSUME EndDue \/ Start PROVE Promise!End \/ Promise!Begin \/ UNCHANGED Promise!vars
  BY <1>9, ResetStep, QuitStep DEF EndDue, StopDue, RestartDue, RestartFails, LoopEnds, Due, Start
<1>10. ASSUME (\E d \in Desktops : SwitchDesktop(d)) \/ UNCHANGED vars PROVE UNCHANGED Promise!vars
  BY <1>10 DEF SwitchDesktop, Phase, Promise!vars, vars, window, cells
<1>11. ASSUME Event PROVE [Promise!Next]_(Promise!vars)
  BY <1>1, <1>2, <1>3, <1>4, <1>5, <1>11 DEF Event, Promise!Next, Sides
<1>12. ASSUME Command PROVE [Promise!Next]_(Promise!vars)
  BY <1>4, <1>5, <1>6, <1>7, <1>12 DEF Command, IpcStop, IpcRestart, Promise!Next
<1>13. QED
  BY <1>8, <1>9, <1>10, <1>11, <1>12 DEF Next, Promise!Next

\* Whatever timers, fades, commands and events do, a user sees the overlay come
\* up only by fading in and go only by fading out, but for a workspace switch and
\* an accepted stop or restart, and the daemon ends only when asked to.
THEOREM ImplementsPromise == Spec => KeepsPromise
<1>1. Init => Promise!Init /\ DeadIsIdle
  BY DEF Init, Promise!Init, Phase, DeadIsIdle
<1>2. IInv /\ DeadIsIdle /\ [Next]_vars => DeadIsIdle' /\ [Promise!Next]_(Promise!vars)
  BY DeadIsIdleInv, PromiseSteps DEF IInv
<1>3. QED
  BY <1>1, <1>2, Invariance, PTL DEF Spec, KeepsPromise, Promise!Spec
=============================================================================
