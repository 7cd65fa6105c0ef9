----------------------------- MODULE Activation -----------------------------
(***************************************************************************)
(* What the activation backends have in common: where the pointer is, what *)
(* tells them on its way (`wire`), where they believe it to be, and what   *)
(* they have told their consumer.                                          *)
(***************************************************************************)
EXTENDS Strips, Naturals, Sequences

CONSTANT MaxInFlight    \* bound: events sent and not yet dispatched

ASSUME FlightAssumption == MaxInFlight \in Nat

VARIABLES
  pointer,      \* strip the pointer is in
  wire,         \* events sent, not yet read
  inCorner,     \* the backend's in_corner
  event         \* the event the consumer was told last

told == <<edge, event>>

\* A backend reports what its contract allows: strips are entered only from
\* outside and left only from inside, whatever order the events, queries ahead
\* of them and waits for replies interleave in, however often a crossing is
\* delivered and wherever the strips touch.
Contract == INSTANCE ActivationContract

KeepsContract == Contract!Spec
=============================================================================
