----------------------------- MODULE MCWindows ------------------------------
(* Gives the constants of WindowsViews their values. *)
EXTENDS WindowsViews
=============================================================================
