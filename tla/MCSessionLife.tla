--------------------------- MODULE MCSessionLife ---------------------------
(***************************************************************************)
(* People at one or two requests, and the sweep.                           *)
(***************************************************************************)
EXTENDS SessionLife

CONSTANTS h1, h2, sweep
=============================================================================
