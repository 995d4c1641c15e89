----------------------------- MODULE RecordMap -----------------------------
(***************************************************************************)
(* What the store promises its readers, with the log, the cache and the    *)
(* transactions hidden: a map from identifiers to what each record says    *)
(* now and the version it says it at.  An identifier once filed stays      *)
(* filed; every change is a write, and a write's version is later than any *)
(* version a reader can have seen, so equal versions mean equal records.   *)
(* A step files new records, rewrites one, or does both at once to put one *)
(* record in the place of another.                                         *)
(***************************************************************************)
EXTENDS Naturals

CONSTANTS Ids, Says

VARIABLE records  \* identifier -> [seq, rec]

Known     == DOMAIN records
New       == DOMAIN records' \ Known
Rewritten == {i \in Known : records'[i] # records[i]}
Written   == New \cup Rewritten

Init == records = [i \in {} |-> 0]

\* Nothing goes away, and what is written is later than all there was.
Writes ==
  /\ Known \subseteq DOMAIN records'
  /\ New \subseteq Ids
  /\ \A i \in Written :
       /\ records'[i] \in [seq : Nat, rec : Says]
       /\ \A j \in Known : records[j].seq < records'[i].seq
       /\ \A j \in Written : records'[i].seq = records'[j].seq => i = j

File    == Writes /\ Rewritten = {}
Rewrite == Writes /\ New = {} /\ \E i \in Known : Rewritten = {i}
Replace == Writes /\ \E i \in Known : Rewritten = {i} /\ \E j \in New : New = {j}

Next == File \/ Rewrite \/ Replace

Spec == Init /\ [][Next]_records
=============================================================================
