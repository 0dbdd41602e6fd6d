----------------------------- MODULE MCLauncher -----------------------------
(* Launcher has no constants. *)
EXTENDS Launcher
=============================================================================
