------------------------------- MODULE MCHub -------------------------------
(* One or two tabs on one project's pane.                                   *)
EXTENDS Hub
=============================================================================
