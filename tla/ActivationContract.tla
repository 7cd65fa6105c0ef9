------------------------- MODULE ActivationContract -------------------------
(***************************************************************************)
(* What backend/mod.rs promises the consumer of activation events: "All    *)
(* triggers are edge-triggered: each transition is reported exactly once." *)
(* The two backends implement this specification, the overlay's event glue *)
(* relies on it.                                                           *)
(***************************************************************************)
CONSTANT Monitors

VARIABLES
  edge,     \* "inside" a strip or "outside", by the events so far
  event     \* the event reported last

vars == <<edge, event>>

Init == edge = "outside" /\ event = <<"none">>

\* CornerEntered { monitor }: only from outside every strip.
Entered(m) ==
  /\ edge = "outside"
  /\ edge' = "inside"
  /\ event' = <<"entered", m>>

\* CornerLeft { monitor }: only from inside a strip.  Which monitor it names is
\* left open: after a workspace switch motion events still queued may name an
\* older one.
Left(m) ==
  /\ edge = "inside"
  /\ edge' = "outside"
  /\ event' = <<"left", m>>

\* WorkspaceChanged { pointer_in_hot_area } tells anew on which side it is.
WorkspaceChanged(side) ==
  /\ edge' = side
  /\ event' = <<"workspace", side>>

\* Toggle and Dismiss say nothing of the pointer.
Key(k) ==
  /\ event' = <<k>>
  /\ UNCHANGED edge

Next ==
  \/ \E m \in Monitors : Entered(m) \/ Left(m)
  \/ \E side \in {"inside", "outside"} : WorkspaceChanged(side)
  \/ \E k \in {"toggle", "dismiss"} : Key(k)

Spec == Init /\ [][Next]_vars
=============================================================================
