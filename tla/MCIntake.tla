------------------------------ MODULE MCIntake ------------------------------
(***************************************************************************)
(* Three destinations: the intake box, the project (whose list declares    *)
(* one status word) and the archive, which takes jots only on a confirmed  *)
(* move and is named by the text.                                          *)
(***************************************************************************)
EXTENDS Intake, TLC

CONSTANTS IB, M, box, app, archive, jot, filer, pic1, h1, h2, fixed

MCRec      == JotRecord
MCMentions == jot :> {archive}
MCPrefixOf == box :> IB @@ app :> M @@ archive :> M
MCDeclares == IB :> {} @@ M :> {fixed, Unreviewed}

Symmetry == Permutations({h1, h2})
=============================================================================
