-------------------------- MODULE Placement_proofs --------------------------
(***************************************************************************)
(* Proofs about Placement, for any positions, any length of a settle chain *)
(* and any number of shows, dropped moves and outstanding requests: the    *)
(* overlay ends where the last show asked for it, and once it stands there *)
(* it is never dragged away.                                               *)
(***************************************************************************)
EXTENDS Placement, TLAPS

USE PositionAssumption, CheckAssumption, ShowAssumption

\* All chains re-apply one position, that of the last show; before the first
\* show there is nothing that could re-apply it.
OnePosition ==
  /\ lastPos = asked
  /\ notify \/ retries > 0 \/ chains # <<>> => asked \in Positions

IInv == TypeOK /\ OnePosition

LEMMA MoveRequests ==
  /\ \A p \in Positions : MoveTo(p) \in Requests
  /\ MapIt \in Requests /\ UnmapIt \in Requests
  /\ \A p : MoveTo(p)[1] = "move" /\ MoveTo(p)[2] = p
  /\ \A p : MoveTo(p) # MapIt /\ MoveTo(p) # UnmapIt
  /\ MapIt # UnmapIt /\ MapIt[1] = "map" /\ UnmapIt[1] = "unmap"
BY DEF MoveTo, MapIt, UnmapIt, Requests

\* What a show remembers.
LEMMA RememberInv ==
  ASSUME IInv, NEW p \in Positions, Remember(p)
  PROVE  /\ lastPos' = p /\ asked' = p /\ p \in Positions'
         /\ chains' \in Seq(0 .. Checks) /\ shows' \in Nat
<1>1. Checks \in 0 .. Checks
  OBVIOUS
<1> QED
  BY <1>1 DEF Remember, IInv, TypeOK

\* Every show keeps the types and makes its position the one position.
LEMMA ShowInv ==
  ASSUME IInv, NEW p \in Positions, Show(p) \/ ShowAgain(p) \/ Remap(p)
  PROVE  IInv'
<1>1. Remember(p)
  BY DEF Show, ShowAgain, Remap
<1>2. requests' \in Seq(Requests)
  <2>1. requests \in Seq(Requests)
    BY DEF IInv, TypeOK
  <2>2. /\ <<MoveTo(p), MapIt>> \in Seq(Requests) /\ <<MoveTo(p)>> \in Seq(Requests)
        /\ <<UnmapIt, MoveTo(p), MapIt>> \in Seq(Requests)
        /\ <<MoveTo(p), UnmapIt, MapIt>> \in Seq(Requests)
    BY MoveRequests
  <2>3. \E rs \in {<<MoveTo(p), MapIt>>, <<MoveTo(p)>>, <<UnmapIt, MoveTo(p), MapIt>>,
                  <<MoveTo(p), UnmapIt, MapIt>>} : requests' = requests \o rs
    BY DEF Show, ShowAgain, Remap, Ask
  <2>4. ASSUME NEW rs \in Seq(Requests), requests' = requests \o rs
        PROVE  requests' \in Seq(Requests)
    BY <2>1, <2>4
  <2> QED
    BY <2>2, <2>3, <2>4
<1>3. {visible', notify'} \subseteq BOOLEAN /\ hint' \in Positions \cup {NoPosition}
  BY DEF Show, ShowAgain, Remap, IInv, TypeOK
<1>4. UNCHANGED <<retries, wm>>
  BY DEF Show, ShowAgain, Remap
<1> QED
  BY <1>1, <1>2, <1>3, <1>4, RememberInv DEF IInv, TypeOK, OnePosition, wm

\* Re-applying asks for the one position.
LEMMA ReapplyInv ==
  ASSUME IInv, asked \in Positions, Reapply
  PROVE  /\ requests' = requests \o <<MoveTo(asked)>>
         /\ requests' \in Seq(Requests) /\ hint' \in Positions
<1>1. <<MoveTo(asked)>> \in Seq(Requests) /\ requests \in Seq(Requests)
  BY MoveRequests DEF IInv, TypeOK
<1> QED
  BY <1>1 DEF Reapply, Ask, IInv, OnePosition

LEMMA GuardInv == ASSUME IInv, Guard PROVE IInv'
<1>1. CASE Notified
  <2>1. /\ notify /\ notify' = FALSE /\ retries' \in Nat /\ asked \in Positions
        /\ UNCHANGED <<visible, asked, lastPos, chains, shows, wm>>
    BY <1>1 DEF Notified, IInv, TypeOK, OnePosition
  <2>2. requests' \in Seq(Requests) /\ hint' \in Positions \cup {NoPosition}
    BY <1>1, <2>1, ReapplyInv DEF Notified, IInv, TypeOK
  <2> QED
    BY <2>1, <2>2 DEF IInv, TypeOK, OnePosition, wm
<1>2. CASE Retry
  <2>1. /\ retries > 0 /\ retries' \in Nat /\ asked \in Positions /\ Reapply
        /\ UNCHANGED <<visible, asked, lastPos, chains, notify, shows, wm>>
    BY <1>2 DEF Retry, IInv, TypeOK, OnePosition
  <2> QED
    BY <2>1, ReapplyInv DEF IInv, TypeOK, OnePosition, wm
<1>3. ASSUME NEW i \in DOMAIN chains, Check(i) PROVE IInv'
  <2>1. asked \in Positions
    <3>1. chains \in Seq(0 .. Checks) /\ chains # <<>>
      BY <1>3 DEF IInv, TypeOK
    <3> QED
      BY <3>1 DEF IInv, OnePosition
  <2>2. chains' \in Seq(0 .. Checks)
    <3>1. chains \in Seq(0 .. Checks) /\ chains[i] - 1 \in 0 .. Checks
      BY <1>3 DEF Check, IInv, TypeOK
    <3> QED
      BY <1>3, <3>1 DEF Check
  <2>3. requests' \in Seq(Requests) /\ hint' \in Positions \cup {NoPosition}
    BY <1>3, <2>1, ReapplyInv DEF Check, IInv, TypeOK
  <2> QED
    BY <1>3, <2>1, <2>2, <2>3 DEF Check, IInv, TypeOK, OnePosition, wm
<1> QED
  BY <1>1, <1>2, <1>3 DEF Guard

\* What the window manager takes is the oldest request.
LEMMA TakesFirst ==
  ASSUME IInv, NEW kind, Takes(kind)
  PROVE  /\ requests' \in Seq(Requests) /\ requests # <<>>
         /\ Head(requests) \in Requests /\ Head(requests)[1] = kind
         /\ Head(requests) = requests[1]
         /\ UNCHANGED <<client, hint>>
<1>1. requests \in Seq(Requests)
  BY DEF IInv, TypeOK
<1> QED
  BY <1>1 DEF Takes

LEMMA WindowManagerInv == ASSUME IInv, WindowManager PROVE IInv'
<1>1. PICK kind \in {"map", "unmap", "move"} : Takes(kind)
  BY DEF WindowManager, Manages, Unmanages, Moves, Drops
<1>2. position' \in Spots /\ drops' \in Nat
  <2>1. CASE Manages
    <3>1. hint # NoPosition => hint \in Spots
      BY DEF IInv, TypeOK, Spots
    <3> QED
      BY <2>1, <3>1 DEF Manages
  <2>2. CASE Unmanages
    BY <2>2 DEF Unmanages, wm, IInv, TypeOK
  <2>3. CASE Moves
    <3>1. Head(requests) \in Requests /\ Head(requests)[1] = "move"
      BY <2>3, TakesFirst DEF Moves
    <3>2. Head(requests)[2] \in Positions
      BY <3>1 DEF Requests, MapIt, UnmapIt
    <3> QED
      BY <2>3, <3>2 DEF Moves, Spots, IInv, TypeOK
  <2>4. CASE Drops
    BY <2>4 DEF Drops, IInv, TypeOK
  <2> QED
    BY <2>1, <2>2, <2>3, <2>4 DEF WindowManager
<1>3. requests' \in Seq(Requests) /\ UNCHANGED <<client, hint>>
  BY <1>1, TakesFirst
<1> QED
  BY <1>2, <1>3 DEF IInv, TypeOK, OnePosition, client

LEMMA IInvHolds == Spec => []IInv
<1>1. Init => IInv
  <2> SUFFICES ASSUME Init PROVE IInv
    OBVIOUS
  <2>1. chains \in Seq(0 .. Checks) /\ requests \in Seq(Requests)
    BY DEF Init
  <2>2. {visible, notify} \subseteq BOOLEAN /\ {retries, shows, drops} \subseteq Nat
    <3>1. visible \in BOOLEAN /\ notify \in BOOLEAN
      BY DEF Init
    <3>2. {visible, notify} \subseteq BOOLEAN
      BY <3>1, Zenon
    <3>3. {retries, shows, drops} \subseteq Nat
      BY DEF Init
    <3> QED
      BY <3>2, <3>3
  <2>3. position \in Spots /\ {asked, lastPos, hint} \subseteq Positions \cup {NoPosition}
    BY DEF Init, Spots
  <2>4. OnePosition
    BY DEF Init, OnePosition
  <2> QED
    BY <2>1, <2>2, <2>3, <2>4 DEF IInv, TypeOK
<1>2. IInv /\ [Next]_vars => IInv'
  <2> SUFFICES ASSUME IInv, [Next]_vars PROVE IInv'
    OBVIOUS
  <2>1. CASE Hide
    <3>1. <<UnmapIt>> \in Seq(Requests) /\ requests \in Seq(Requests)
      BY MoveRequests DEF IInv, TypeOK
    <3>2. requests' \in Seq(Requests)
      BY <2>1, <3>1 DEF Hide, Ask
    <3> QED
      BY <2>1, <3>2 DEF Hide, IInv, TypeOK, OnePosition, wm
  <2>2. CASE UNCHANGED vars
    BY <2>2 DEF vars, IInv, TypeOK, OnePosition
  <2> QED
    BY <2>1, <2>2, ShowInv, GuardInv, WindowManagerInv DEF Next
<1> QED
  BY <1>1, <1>2, PTL DEF Spec

-----------------------------------------------------------------------------
(***************************************************************************)
(* The last checks of the last chain outnumber the moves that may be       *)
(* dropped.  Each finds no request outstanding (Outlasts), so that since   *)
(* the first of them the window has been asked for one place only, and     *)
(* every one that does not find it there has cost a drop.                  *)
(***************************************************************************)
Last == chains[Len(chains)]

OneWay == \A k \in DOMAIN requests : requests[k] \in {UnmapIt, MoveTo(asked)}

OnItsWay ==
  \/ position = asked
  \/ Last + drops > MaxDrops
  \/ Last + drops = MaxDrops /\ \E k \in DOMAIN requests : requests[k] = MoveTo(asked)

Arriving ==
  /\ drops <= MaxDrops
  /\ visible => chains # <<>>
  /\ chains # <<>> /\ Last <= MaxDrops => OneWay /\ OnItsWay

\* A show starts a chain, which has all its checks before it.
LEMMA ShowArrives ==
  ASSUME IInv, Arriving, NEW p \in Positions, Show(p) \/ ShowAgain(p) \/ Remap(p)
  PROVE  Arriving'
<1>1. chains \in Seq(0 .. Checks) /\ chains' = Append(chains, Checks) /\ drops' = drops
  BY DEF Show, ShowAgain, Remap, Remember, IInv, TypeOK, wm
<1>2. chains' # <<>> /\ Last' = Checks
  BY <1>1 DEF Last
<1> QED
  BY <1>1, <1>2 DEF Arriving

\* A request for a place the window is already asked for changes nothing.
LEMMA AskedAgain ==
  ASSUME IInv, Arriving, NEW rs \in Seq({UnmapIt, MoveTo(asked)}), requests' = requests \o rs,
         UNCHANGED <<asked, chains, position, drops>>, visible' => visible
  PROVE  Arriving'
<1>1. requests \in Seq(Requests)
  BY DEF IInv, TypeOK
<1>2. ASSUME OneWay PROVE OneWay'
  <2>1. \A k \in DOMAIN requests' : \/ k \in DOMAIN requests /\ requests'[k] = requests[k]
                                    \/ requests'[k] \in {UnmapIt, MoveTo(asked)}
    BY <1>1
  <2> QED
    BY <1>2, <2>1 DEF OneWay
<1>3. ASSUME OnItsWay PROVE OnItsWay'
  <2>1. \A k \in DOMAIN requests : k \in DOMAIN requests' /\ requests'[k] = requests[k]
    BY <1>1
  <2> QED
    BY <1>3, <2>1 DEF OnItsWay, Last
<1> QED
  BY <1>2, <1>3 DEF Arriving, Last

LEMMA HideArrives == ASSUME IInv, Arriving, Hide PROVE Arriving'
<1>1. requests' = requests \o <<UnmapIt>> /\ <<UnmapIt>> \in Seq({UnmapIt, MoveTo(asked)})
  BY DEF Hide, Ask
<1> QED
  BY <1>1, AskedAgain DEF Hide, wm

\* A check of the last chain, once there are no more left than it takes.
LEMMA LastCheck ==
  ASSUME IInv, Arriving, asked \in Positions, Check(Len(chains)), Last <= MaxDrops + 1
  PROVE  Arriving'
<1> DEFINE n == Len(chains)
<1>1. chains \in Seq(0 .. Checks) /\ n \in DOMAIN chains
  BY DEF Check, IInv, TypeOK
<1>2. /\ chains' = [chains EXCEPT ![n] = @ - 1] /\ Last > 0 /\ requests = <<>>
      /\ UNCHANGED <<visible, asked, position, drops>>
  BY DEF Check, Outlasts, Last, wm
<1>3. chains' # <<>> /\ Last' = Last - 1 /\ Last \in Nat
  BY <1>1, <1>2 DEF Last
<1>4. drops \in Nat /\ drops <= MaxDrops
  BY DEF IInv, TypeOK, Arriving
\* What the checks before it have cost; before the first there was nothing to cost.
<1>5. position = asked \/ Last + drops > MaxDrops
  <2>1. CASE Last <= MaxDrops
    BY <1>1, <1>2, <2>1 DEF Arriving, OnItsWay
  <2>2. CASE Last = MaxDrops + 1
    BY <1>4, <2>2
  <2> QED
    BY <1>3, <2>1, <2>2
<1>6. CASE position = asked
  <2>1. requests' = <<>>
    BY <1>2, <1>6 DEF Check, IInv, OnePosition
  <2> QED
    BY <1>2, <1>3, <1>4, <1>6, <2>1 DEF Arriving, OneWay, OnItsWay
<1>7. CASE position # asked
  <2>1. requests' = <<MoveTo(asked)>>
    BY <1>2, <1>7, ReapplyInv DEF Check, IInv, OnePosition
  <2>2. OneWay'
    BY <1>2, <2>1 DEF OneWay, MoveTo, UnmapIt
  <2>3. \E k \in DOMAIN requests' : requests'[k] = MoveTo(asked)'
    <3>1. 1 \in DOMAIN requests' /\ requests'[1] = MoveTo(asked)'
      BY <1>2, <2>1 DEF MoveTo
    <3> QED
      BY <3>1
  <2>4. Last' + drops' >= MaxDrops
    BY <1>2, <1>3, <1>4, <1>5, <1>7
  <2>5. OnItsWay'
    BY <1>2, <1>3, <1>4, <2>3, <2>4 DEF OnItsWay
  <2> QED
    BY <1>2, <1>3, <1>4, <2>2, <2>5 DEF Arriving
<1> QED
  BY <1>6, <1>7

LEMMA GuardArrives == ASSUME IInv, Arriving, Guard PROVE Arriving'
<1>1. ASSUME asked \in Positions, Reapply, UNCHANGED <<visible, asked, chains, wm>>
      PROVE  Arriving'
  <2>1. <<MoveTo(asked)>> \in Seq({UnmapIt, MoveTo(asked)})
    OBVIOUS
  <2> QED
    BY <1>1, <2>1, ReapplyInv, AskedAgain DEF wm
<1>2. ASSUME UNCHANGED <<visible, asked, chains, requests, wm>> PROVE Arriving'
  BY <1>2 DEF Arriving, OneWay, OnItsWay, Last, wm
<1>3. notify \/ retries > 0 \/ chains # <<>> => asked \in Positions
  BY DEF IInv, OnePosition
<1>4. CASE Notified
  BY <1>1, <1>2, <1>3, <1>4 DEF Notified
<1>5. CASE Retry
  BY <1>1, <1>3, <1>5 DEF Retry
<1>6. ASSUME NEW i \in DOMAIN chains, Check(i) PROVE Arriving'
  <2>1. chains \in Seq(0 .. Checks) /\ chains # <<>> /\ asked \in Positions
    BY <1>3, <1>6 DEF IInv, TypeOK
  <2>2. chains' = [chains EXCEPT ![i] = @ - 1] /\ UNCHANGED <<visible, asked, wm>>
    BY <1>6 DEF Check
  <2>3. CASE i = Len(chains) /\ Last <= MaxDrops + 1
    BY <1>6, <2>1, <2>3, LastCheck
  <2>4. CASE i = Len(chains) /\ Last > MaxDrops + 1
    <3>1. ~(Last' <= MaxDrops) /\ chains' # <<>>
      BY <2>1, <2>2, <2>4 DEF Last
    <3> QED
      BY <2>2, <3>1 DEF Arriving, wm
  <2>5. CASE i # Len(chains)
    <3>1. Last' = Last /\ chains' # <<>>
      BY <2>1, <2>2, <2>5 DEF Last
    <3>2. requests' = requests \/ requests' = requests \o <<MoveTo(asked)>>
      BY <1>6, <2>1, ReapplyInv DEF Check
    <3>3. requests \in Seq(Requests)
      BY DEF IInv, TypeOK
    <3>4. \A k \in DOMAIN requests : k \in DOMAIN requests' /\ requests'[k] = requests[k]
      BY <3>2, <3>3
    <3>5. \A k \in DOMAIN requests' : \/ k \in DOMAIN requests /\ requests'[k] = requests[k]
                                      \/ requests'[k] = MoveTo(asked)
      BY <3>2, <3>3
    <3>6. OneWay => OneWay'
      BY <2>2, <3>5 DEF OneWay
    <3>7. OnItsWay => OnItsWay'
      BY <2>2, <3>1, <3>4 DEF OnItsWay, wm
    <3> QED
      BY <2>1, <2>2, <3>1, <3>6, <3>7 DEF Arriving, wm
  <2> QED
    BY <2>1, <2>3, <2>4, <2>5 DEF Last
<1> QED
  BY <1>4, <1>5, <1>6 DEF Guard

\* A move that is taken brings the window there, one that is dropped costs a drop.
LEMMA WindowManagerArrives == ASSUME IInv, Arriving, WindowManager PROVE Arriving'
<1>1. PICK kind \in {"map", "unmap", "move"} : Takes(kind)
  BY DEF WindowManager, Manages, Unmanages, Moves, Drops
<1>2. /\ requests \in Seq(Requests) /\ requests # <<>> /\ requests' = Tail(requests)
      /\ UNCHANGED <<visible, asked, chains>> /\ drops \in Nat
  BY <1>1, TakesFirst DEF client, Takes, IInv, TypeOK
<1>3. drops' <= MaxDrops
  BY DEF WindowManager, Manages, Unmanages, Moves, Drops, wm, Arriving, IInv, TypeOK
<1>4. ASSUME chains # <<>>, Last <= MaxDrops PROVE OneWay' /\ OnItsWay'
  <2>1. OneWay /\ OnItsWay
    BY <1>4 DEF Arriving
  <2>2. Head(requests) \in {UnmapIt, MoveTo(asked)}
    BY <1>2, <2>1 DEF OneWay
  <2>3. OneWay'
    <3>1. \A k \in DOMAIN requests' : k + 1 \in DOMAIN requests /\ requests'[k] = requests[k + 1]
      BY <1>2
    <3> QED
      BY <1>2, <2>1, <3>1 DEF OneWay
  <2>4. ~Manages
    BY <2>2, MoveRequests DEF Manages, Takes
  <2>5. CASE Unmanages
    <3>1. Head(requests)[1] = "unmap" /\ UNCHANGED <<position, drops>>
      BY <2>5 DEF Unmanages, Takes, wm
    <3>2. Head(requests) = requests[1] /\ Head(requests) # MoveTo(asked)
      BY <1>2, <3>1, MoveRequests
    <3>3. ASSUME NEW k \in DOMAIN requests, requests[k] = MoveTo(asked)
          PROVE  \E j \in DOMAIN requests' : requests'[j] = MoveTo(asked)
      <4>1. k - 1 \in DOMAIN requests' /\ requests'[k - 1] = MoveTo(asked)
        BY <1>2, <3>2, <3>3
      <4> QED
        BY <4>1
    <3> QED
      BY <1>2, <2>1, <2>3, <3>1, <3>3 DEF OnItsWay, Last
  <2>6. CASE Moves
    <3>1. Head(requests) = MoveTo(asked)
      BY <2>2, <2>6, MoveRequests DEF Moves, Takes
    <3>2. position' = asked'
      BY <1>2, <2>6, <3>1, MoveRequests DEF Moves
    <3> QED
      BY <2>3, <3>2 DEF OnItsWay
  <2>7. CASE Drops
    <3>1. drops' = drops + 1 /\ position' = position /\ Last' = Last
      BY <1>2, <2>7 DEF Drops, Last
    <3>2. Last \in Nat
      BY <1>4 DEF Last, IInv, TypeOK
    <3> QED
      BY <1>2, <2>1, <2>3, <3>1, <3>2 DEF OnItsWay
  <2> QED
    BY <2>4, <2>5, <2>6, <2>7 DEF WindowManager
<1> QED
  BY <1>2, <1>3, <1>4 DEF Arriving, Last

LEMMA ArrivingHolds == Spec => []Arriving
<1>1. Init => Arriving
  BY DEF Init, Arriving
<1>2. IInv /\ Arriving /\ [Next]_vars => Arriving'
  <2> SUFFICES ASSUME IInv, Arriving, [Next]_vars PROVE Arriving'
    OBVIOUS
  <2>1. CASE UNCHANGED vars
    BY <2>1 DEF vars, Arriving, OneWay, OnItsWay, Last
  <2> QED
    BY <2>1, ShowArrives, HideArrives, GuardArrives, WindowManagerArrives DEF Next
<1> QED
  BY <1>1, <1>2, IInvHolds, PTL DEF Spec

-----------------------------------------------------------------------------
\* Every variable of Placement keeps its type.
THEOREM TypeCorrect == Spec => []TypeOK
BY IInvHolds, PTL DEF IInv

\* Once timeouts and window manager are through, a visible overlay is where the
\* last show asked for it.
THEOREM EndsWhereAsked == Spec => []EndsInPlace
<1>1. IInv /\ Arriving => EndsInPlace
  <2> SUFFICES ASSUME IInv, Arriving, Quiet, visible PROVE position = asked
    BY DEF EndsInPlace
  <2>1. chains \in Seq(0 .. Checks) /\ chains # <<>> /\ requests = <<>>
    BY DEF IInv, TypeOK, Arriving, Quiet
  <2>2. Last = 0
    BY <2>1 DEF Quiet, Last
  <2> QED
    BY <2>1, <2>2 DEF Arriving, OnItsWay, IInv, TypeOK
<1> QED
  BY <1>1, IInvHolds, ArrivingHolds, PTL

\* An overlay that stands where the last show asked for it is never dragged away
\* by a check, a re-apply or a request still outstanding.
THEOREM NeverDraggedAway == Spec => StaysInPlace
<1> DEFINE Keeps == Standing /\ (Guard \/ WindowManager) => Standing'
<1>1. ASSUME IInv, Standing, Guard PROVE Standing'
  <2>1. UNCHANGED <<position, asked>>
    BY <1>1 DEF Guard, Notified, Retry, Check, wm
  <2>2. requests \in Seq(Requests)
    BY <1>1 DEF IInv, TypeOK
  <2>3. requests' = requests \/ requests' = requests \o <<MoveTo(asked)>>
    BY <1>1 DEF Guard, Notified, Retry, Check, Reapply, Ask, IInv, OnePosition
  <2>4. CASE requests' = requests
    BY <1>1, <2>1, <2>4 DEF Standing
  <2>5. CASE requests' = requests \o <<MoveTo(asked)>>
    <3>1. \A i \in DOMAIN requests' : \/ i \in DOMAIN requests /\ requests'[i] = requests[i]
                                      \/ requests'[i] = MoveTo(asked)
      BY <2>2, <2>5
    <3> QED
      BY <1>1, <2>1, <3>1 DEF Standing
  <2> QED
    BY <2>3, <2>4, <2>5
<1>2. ASSUME IInv, Standing, WindowManager PROVE Standing'
  <2>1. PICK kind \in {"map", "unmap", "move"} : Takes(kind)
    BY <1>2 DEF WindowManager, Manages, Unmanages, Moves, Drops
  <2>2. requests \in Seq(Requests) /\ requests # <<>> /\ requests' = Tail(requests)
    BY <1>2, <2>1 DEF IInv, TypeOK, Takes
  <2>3. Head(requests) \in {UnmapIt, MoveTo(asked)}
    BY <1>2, <2>2 DEF Standing
  <2>4. asked' = asked
    BY <1>2, <2>1, TakesFirst DEF client
  <2>5. position' = position
    <3>1. ~Manages
      BY <2>3, MoveRequests DEF Manages, Takes
    <3>2. ASSUME Moves PROVE position' = asked
      <4>1. Head(requests) = MoveTo(asked)
        BY <2>3, <3>2, MoveRequests DEF Moves, Takes
      <4> QED
        BY <3>2, <4>1, MoveRequests DEF Moves
    <3> QED
      BY <1>2, <3>1, <3>2 DEF WindowManager, Unmanages, Drops, wm, Standing
  <2>6. \A i \in DOMAIN requests' : i + 1 \in DOMAIN requests /\ requests'[i] = requests[i + 1]
    BY <2>2
  <2> QED
    BY <1>2, <2>4, <2>5, <2>6 DEF Standing
<1>3. IInv /\ [Next]_vars => [Keeps]_vars
  BY <1>1, <1>2
<1> QED
  BY <1>3, IInvHolds, PTL DEF Spec, StaysInPlace
=============================================================================
