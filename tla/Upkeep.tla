------------------------------- MODULE Upkeep -------------------------------
(***************************************************************************)
(* What is done to a store of records besides filing and answering: the    *)
(* renaming of identifiers (Rename), the words findings carry (Findings)   *)
(* and the import of another project's records (Importer).  The three      *)
(* share no state here.  A behaviour is one of one of them, so that their  *)
(* states add up and do not multiply.                                      *)
(***************************************************************************)
EXTENDS Rename, Findings, Importer

VARIABLE side   \* which of the three moves

upkeepVars == <<side, renameVars, findingsVars, importVars>>

\* Those that do not move stay in one of their initial states.
UpkeepInit ==
  /\ side \in {"rename", "findings", "import"}
  /\ RenameInit
  /\ FindingsInit /\ (side # "findings" => declared = [p \in Proj |-> <<>>])
  /\ ImportInit /\ (side # "import" => tree = CHOOSE t \in Trees : TRUE)
  /\ (side # "import" => DOMAIN kept = {})

UpkeepNext ==
  /\ UNCHANGED side
  /\ \/ side = "rename" /\ RenameNext /\ UNCHANGED <<findingsVars, importVars>>
     \/ side = "findings" /\ FindingsNext /\ UNCHANGED <<renameVars, importVars>>
     \/ side = "import" /\ ImportNext /\ UNCHANGED <<renameVars, findingsVars>>

UpkeepSpec == UpkeepInit /\ [][UpkeepNext]_upkeepVars

\* Each is in states of its kinds.
UpkeepTypeOK == RenameTypeOK /\ FindingsTypeOK /\ ImportTypeOK
=============================================================================
