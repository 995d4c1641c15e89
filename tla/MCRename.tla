------------------------------ MODULE MCRename ------------------------------
(***************************************************************************)
(* The intake box's old prefix X and its new one B, and the decisions D:   *)
(* the shape of the one rename there was.                                  *)
(***************************************************************************)
EXTENDS Rename, TLC

CONSTANTS X, B, D, h, n, pic

MCRec == Text

MCRoleOf == (X :> "finding") @@ (B :> "finding") @@ (D :> "decision")

\* The two homes of jots are told apart by nothing but what happens.
Symmetry == Permutations({X, B})
=============================================================================
