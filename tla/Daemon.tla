------------------------------- MODULE Daemon -------------------------------
(***************************************************************************)
(* The overlay driven by an activation backend: what the daemons on X11    *)
(* and on Wayland have in common.  Overlay supplies the handlers of the    *)
(* event glue and the timeouts, the backend the events.  The daemon is up  *)
(* and has its event source throughout.                                    *)
(***************************************************************************)
EXTENDS Overlay, Activation

CONSTANT MaxInputs      \* bound: inputs (pointer, keys, commands) of a behaviour

VARIABLES
  inputs,       \* inputs so far
  overridden    \* a key or command acted after the last pointer event

\* One more input from outside.
Input == inputs < MaxInputs /\ inputs' = inputs + 1

\* The commands that only show or hide.
OverlayCommand == IpcShow \/ IpcHide \/ IpcToggle

\* No timeout is armed.
NoTimeout == Unused(source) = SourceIds
=============================================================================
