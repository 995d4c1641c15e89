----------------------------- MODULE MCHeldJots -----------------------------
(***************************************************************************)
(* Rae reads; Ann owns M and Bob owns L.  One line, sent to M or to L; the *)
(* page of an approver may still name a destination that is gone.          *)
(***************************************************************************)
EXTENDS HeldJots, TLC

CONSTANTS rae, ann, bob, line, toM, toL, gone, M, L, j1, j2, h1, h2, h3

MCWhere == line :> (toM :> M @@ toL :> L @@ gone :> None)
MCOwns  == {<<ann, M>>, <<bob, L>>}

Symmetry == Permutations({h1, h2, h3}) \cup Permutations({j1, j2})
=============================================================================
