----------------------------- MODULE Placement -----------------------------
(***************************************************************************)
(* Where the overlay appears on X11: `place` of OverlayController, move_to *)
(* and the position guard of X11WindowBackend (src/src/backend/x11.rs),    *)
(* against a window manager that works off its requests late, places a     *)
(* window itself when the position hint got lost, and may drop moves.      *)
(*                                                                         *)
(* Every show starts a settle chain, a fixed number of position checks     *)
(* 100 ms apart; chains are never cancelled and share last_pos.  A mapped  *)
(* notification re-applies the position, and once more 300 ms later.       *)
(***************************************************************************)
EXTENDS Naturals, Sequences

CONSTANTS
  Positions,    \* where a show may want the window: one place per monitor
  NoPosition,   \* no position: before the first show; a hint that was lost
  Corner,       \* where the window manager puts a window of its own accord
  Checks,       \* checks of a settle chain (20)
  MaxDrops,     \* bound: moves dropped after managing a window
  MaxRequests,  \* bound: requests the window manager is behind
  MaxShows      \* bound: shows of a behaviour

ASSUME PositionAssumption == NoPosition \notin Positions \cup {Corner}
ASSUME CheckAssumption    == Checks \in Nat /\ MaxDrops \in Nat /\ MaxDrops < Checks
ASSUME ShowAssumption     == MaxRequests \in Nat /\ MaxShows \in Nat

VARIABLES
  visible,      \* the GTK window is visible
  asked,        \* history: the position the last place() asked for
  lastPos,      \* X11WindowBackend.last_pos
  chains,       \* checks left to each settle chain, oldest first
  notify,       \* a mapped notification is on its way
  retries,      \* re-applies due 300 ms after a notification
  shows,        \* shows so far
  \* the X server and the window manager
  hint,         \* position in WM_NORMAL_HINTS, if USPosition is set
  requests,     \* requests the window manager has not handled yet
  position,     \* where the window really is
  drops         \* moves dropped since it was managed last

client == <<visible, asked, lastPos, chains, notify, retries, shows>>
wm     == <<position, drops>>
vars   == <<visible, asked, lastPos, chains, notify, retries, shows, hint,
            requests, position, drops>>

Spots    == Positions \cup {Corner}
MapIt    == <<"map">>
UnmapIt  == <<"unmap">>
MoveTo(p) == <<"move", p>>
Requests == {MapIt, UnmapIt} \cup ({"move"} \X Positions)

Init ==
  /\ visible = FALSE
  /\ asked = NoPosition /\ lastPos = NoPosition
  /\ chains = <<>> /\ notify = FALSE /\ retries = 0 /\ shows = 0
  /\ hint = NoPosition /\ requests = <<>>
  /\ position = Corner /\ drops = 0

-----------------------------------------------------------------------------
(***************************************************************************)
(* The controller: place, then map.                                        *)
(***************************************************************************)
Ask(rs) == Len(requests) + Len(rs) <= MaxRequests /\ requests' = requests \o rs

\* move_to remembers the position and starts a chain; its request and its hint
\* reach the server before it returns.
Remember_First(p) ==                \* mutant: an earlier position is kept
  /\ shows < MaxShows /\ shows' = shows + 1 /\ asked' = p
  /\ lastPos' = IF lastPos = NoPosition THEN p ELSE lastPos
  /\ chains' = Append(chains, Checks)
Remember(p) ==
  /\ shows < MaxShows /\ shows' = shows + 1
  /\ asked' = p
  /\ lastPos' = p
  /\ chains' = Append(chains, Checks)

\* A show of the hidden window.  GDK's own write of the size hints, in its show
\* path, may drop USPosition before the window manager reads it.
Show(p) ==
  /\ ~visible
  /\ Remember(p)
  /\ visible' = TRUE /\ notify' = TRUE
  /\ hint' \in {p, NoPosition}
  /\ Ask(<<MoveTo(p), MapIt>>)
  /\ UNCHANGED <<retries, wm>>

\* A show while it is up only moves it.
ShowAgain(p) ==
  /\ visible
  /\ Remember(p)
  /\ hint' = p
  /\ Ask(<<MoveTo(p)>>)
  /\ UNCHANGED <<visible, notify, retries, wm>>

\* hide_instant and show in one callback, on a workspace switch: the mapped
\* property does not change, so there is no notification.  The move goes over
\* another connection than GDK's unmap and may overtake it.
Remap(p) ==
  /\ visible
  /\ Remember(p)
  /\ hint' \in {p, NoPosition}
  /\ Ask(<<UnmapIt, MoveTo(p), MapIt>>) \/ Ask(<<MoveTo(p), UnmapIt, MapIt>>)
  /\ UNCHANGED <<visible, notify, retries, wm>>

Hide ==
  /\ visible
  /\ visible' = FALSE
  /\ Ask(<<UnmapIt>>)
  /\ UNCHANGED <<asked, lastPos, chains, notify, retries, shows, hint, wm>>

-----------------------------------------------------------------------------
(***************************************************************************)
(* The position guard.                                                     *)
(***************************************************************************)

\* reapply_position
Reapply == Ask(<<MoveTo(lastPos)>>) /\ hint' = lastPos

\* The mapped notification, for a window that is still mapped.
Notified ==
  /\ notify
  /\ notify' = FALSE
  /\ IF visible
     THEN Reapply /\ retries' = retries + 1
     ELSE UNCHANGED <<requests, hint, retries>>
  /\ UNCHANGED <<visible, asked, lastPos, chains, shows, wm>>

Retry ==
  /\ retries > 0
  /\ retries' = retries - 1
  /\ Reapply
  /\ UNCHANGED <<visible, asked, lastPos, chains, notify, shows, wm>>

\* All chains check every 100 ms: an older one is never behind a newer one.
Due(i) == \A j \in 1 .. i - 1 : chains[j] < chains[i]

\* What the length of a chain relies on: its last checks, one more than moves
\* may be dropped, find the window manager idle.
Outlasts(i) ==
  i = Len(chains) /\ chains[i] <= MaxDrops + 1 => requests = <<>>

\* One check re-applies the position unless the window is there, shown or not.
Check_Stops(i) ==                   \* mutant: the chain stops at a match
  /\ i \in DOMAIN chains /\ chains[i] > 0 /\ Due(i) /\ Outlasts(i)
  /\ chains' = [chains EXCEPT ![i] = IF position = lastPos THEN 0 ELSE @ - 1]
  /\ IF position = lastPos THEN UNCHANGED <<requests, hint>> ELSE Reapply
  /\ UNCHANGED <<visible, asked, lastPos, notify, retries, shows, wm>>
Check(i) ==
  /\ i \in DOMAIN chains /\ chains[i] > 0
  /\ Due(i) /\ Outlasts(i)
  /\ chains' = [chains EXCEPT ![i] = @ - 1]
  /\ IF position = lastPos THEN UNCHANGED <<requests, hint>> ELSE Reapply
  /\ UNCHANGED <<visible, asked, lastPos, notify, retries, shows, wm>>

-----------------------------------------------------------------------------
(***************************************************************************)
(* The window manager takes its requests in order.                         *)
(***************************************************************************)
Takes(kind) ==
  /\ requests # <<>> /\ Head(requests)[1] = kind
  /\ requests' = Tail(requests)
  /\ UNCHANGED <<client, hint>>

\* It manages a window anew on every map, at the hint or where it likes.
Manages ==
  /\ Takes("map")
  /\ position' \in IF hint = NoPosition THEN Spots ELSE {hint}
  /\ drops' = 0

Unmanages == Takes("unmap") /\ UNCHANGED wm

Moves == Takes("move") /\ position' = Head(requests)[2] /\ UNCHANGED drops

Drops ==
  /\ Takes("move")
  /\ drops < MaxDrops
  /\ drops' = drops + 1
  /\ UNCHANGED position

-----------------------------------------------------------------------------
Guard == Notified \/ Retry \/ \E i \in DOMAIN chains : Check(i)

WindowManager == Manages \/ Unmanages \/ Moves \/ Drops

Next ==
  \/ \E p \in Positions : Show(p) \/ ShowAgain(p) \/ Remap(p)
  \/ Hide
  \/ Guard
  \/ WindowManager

Spec == Init /\ [][Next]_vars

\* Timeouts fire, and the window manager works.
FairSpec == Spec /\ WF_vars(Guard) /\ WF_vars(WindowManager)

-----------------------------------------------------------------------------
(***************************************************************************)
(* Properties.                                                             *)
(***************************************************************************)

\* Every variable has its type.
TypeOK ==
  /\ {visible, notify} \subseteq BOOLEAN
  /\ {asked, lastPos, hint} \subseteq Positions \cup {NoPosition}
  /\ chains \in Seq(0 .. Checks)
  /\ {retries, shows, drops} \subseteq Nat
  /\ requests \in Seq(Requests)
  /\ position \in Spots

Quiet ==
  /\ requests = <<>> /\ ~notify /\ retries = 0
  /\ \A i \in DOMAIN chains : chains[i] = 0

\* Once timeouts and window manager are through, a visible overlay is where the
\* last show asked for it: no placement that lands late, lost hint, dropped
\* move or chain of an earlier show leaves it anywhere else.
EndsInPlace == Quiet /\ visible => position = asked

Standing ==
  /\ position = asked
  /\ \A i \in DOMAIN requests : requests[i] \in {UnmapIt, MoveTo(asked)}

\* An overlay that stands where the last show asked for it, with no placement
\* outstanding, is never dragged away: not by the chain of an earlier show on
\* another monitor, nor by a re-apply armed before it.
StaysInPlace == [][Standing /\ (Guard \/ WindowManager) => Standing']_vars

\* Once shows cease, the overlay comes to stand where the last one asked for it.
ComesToPlace == <>[](visible => position = asked)
=============================================================================
