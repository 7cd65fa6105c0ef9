--------------------------- MODULE OverlayPromise ---------------------------
(***************************************************************************)
(* What the overlay promises its user, without timers, fades or cells: the *)
(* phases it goes through and what may move it from one to the next.       *)
(* Overlay implements this specification.                                  *)
(***************************************************************************)
VARIABLES
  phase,     \* "hidden", "appearing", "shown" or "vanishing"
  pointer,   \* "inside" a strip or "outside", as far as is known
  ending,    \* a stop or restart has been accepted
  alive      \* the daemon is running

vars == <<phase, pointer, ending, alive>>

Init ==
  /\ phase \in {"hidden", "shown"}
  /\ pointer = "outside"
  /\ ending = FALSE
  /\ alive = TRUE

\* Pointer edges alone never change the phase.
Enter ==
  /\ alive /\ pointer = "outside"
  /\ pointer' = "inside"
  /\ UNCHANGED <<phase, ending, alive>>

Leave ==
  /\ alive /\ pointer = "inside"
  /\ pointer' = "outside"
  /\ UNCHANGED <<phase, ending, alive>>

\* A trigger brings the overlay up from any phase, always by fading in ...
Appear ==
  /\ alive
  /\ phase' = "appearing"
  /\ UNCHANGED <<pointer, ending, alive>>

\* ... and takes it away by fading out, unless it is already hidden.
Vanish ==
  /\ alive /\ phase # "hidden"
  /\ phase' = "vanishing"
  /\ UNCHANGED <<pointer, ending, alive>>

\* A fade runs to its end.
Settle ==
  /\ \/ phase = "appearing" /\ phase' = "shown"
     \/ phase = "vanishing" /\ phase' = "hidden"
  /\ UNCHANGED <<pointer, ending, alive>>

\* Only a workspace switch and an accepted stop or restart hide at once; the
\* switch brings the overlay back where the pointer is in a strip.
SwitchTo(side) ==
  /\ alive
  /\ pointer' = side
  /\ phase' = IF side = "outside" THEN "hidden" ELSE "appearing"
  /\ UNCHANGED <<ending, alive>>

AcceptEnd ==
  /\ alive
  /\ phase' = "hidden"
  /\ ending' = TRUE
  /\ UNCHANGED <<pointer, alive>>

\* The process ends, or is replaced, only when that was asked for.
End ==
  /\ ending
  /\ phase' = "hidden" /\ pointer' = "outside"
  /\ ending' = FALSE /\ alive' = FALSE

Begin ==
  /\ alive => ending
  /\ phase' \in {"hidden", "shown"}
  /\ pointer' = "outside"
  /\ ending' = FALSE
  /\ alive' = TRUE

Next ==
  \/ Enter \/ Leave
  \/ Appear \/ Vanish \/ Settle
  \/ \E side \in {"inside", "outside"} : SwitchTo(side)
  \/ AcceptEnd \/ End \/ Begin

Spec == Init /\ [][Next]_vars
=============================================================================
