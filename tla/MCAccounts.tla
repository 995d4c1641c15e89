----------------------------- MODULE MCAccounts -----------------------------
(***************************************************************************)
(* Ann owns the project; Bob has no account and may be invited.            *)
(***************************************************************************)
EXTENDS Accounts, TLC

CONSTANTS ann, bob, M, k1, k2, s1, s2, c1, i1, h1, h2

MCKnown   == ann :> k1
MCGranted == ann :> [x \in Project |-> "owner"] @@ bob :> [x \in Project |-> "none"]

Symmetry == Permutations({h1, h2}) \cup Permutations({s1, s2})
=============================================================================
