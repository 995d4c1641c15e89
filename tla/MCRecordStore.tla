--------------------------- MODULE MCRecordStore ---------------------------
(***************************************************************************)
(* Two clients, one sequence of serials, two things a record may say and   *)
(* four rows of log: enough for a record to be filed, read by both         *)
(* clients, rewritten under one of them and superseded by the other.       *)
(***************************************************************************)
EXTENDS RecordStore, TLC

CONSTANTS P, c1, c2, r1, r2, pic1

\* An import that brings a record beyond the next serial, leaving a gap.
MCBatchId == {<<P, 2>>}

Symmetry == Permutations({c1, c2}) \cup Permutations({r1, r2})
=============================================================================
