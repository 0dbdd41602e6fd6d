------------------------------- MODULE MCPage -------------------------------
(* Page with its bounds given in the configurations. *)
EXTENDS Page
=============================================================================
