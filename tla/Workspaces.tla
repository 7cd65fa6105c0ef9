----------------------------- MODULE Workspaces -----------------------------
(***************************************************************************)
(* The window manager's workspaces, and the one that is current.           *)
(***************************************************************************)
CONSTANT Desktops

VARIABLE desktop
=============================================================================
