----------------------------- MODULE RecordLog -----------------------------
(***************************************************************************)
(* The record store of internal/store: an append-only log of events, the   *)
(* materialised latest state the insert trigger keeps beside it, and the   *)
(* pictures attached to records.  This module holds the state and the      *)
(* statements every writer is built from; RecordStore gives the calls of   *)
(* the package, Intake and Questions the callers that read, decide and     *)
(* then write.                                                             *)
(*                                                                         *)
(* Every operator below is one SQLite transaction (or one statement), and  *)
(* SQLite runs transactions one at a time.  Nothing serialises a caller's  *)
(* read with its later write, so a caller's read and its write are         *)
(* separate steps in the modules that extend this one.                     *)
(***************************************************************************)
EXTENDS Naturals, Sequences

CONSTANTS
  Prefix,   \* a project prefix and role letter, e.g. MUS-F: one serial sequence each
  Rec,      \* what a record may say, as far as the callers tell records apart
  Pic       \* pictures: the rows of the attachment table

VARIABLES
  log,        \* record_event: its row with seq = k is log[k]
  latest,     \* record_latest: identifier -> the seq and the payload of its row
  attachment  \* attachment: stored picture -> the identifier it hangs on

storeVars == <<log, latest, attachment>>

Id == Prefix \X (Nat \ {0})

\* One row of record_event.  `basis` is history, not a column: the version the
\* writing transaction compared with (checkVersion), 0 when it compared none.
Event == [id : Id, op : {"create", "amend"}, rec : Rec, basis : Nat]

Row == [seq : Nat \ {0}, rec : Rec]

Created(i, r)    == [id |-> i, op |-> "create", rec |-> r, basis |-> 0]
Amended(i, r, v) == [id |-> i, op |-> "amend",  rec |-> r, basis |-> v]

----------------------------------------------------------------------------
(* The two tables together, as a transaction sees and leaves them.          *)

Tables == [log |-> log, latest |-> latest]

IdsIn(events) == {events[k].id : k \in DOMAIN events}

\* The last event of a batch that is about record i.
LastAbout(events, i) ==
  CHOOSE k \in DOMAIN events :
    /\ events[k].id = i
    /\ \A m \in DOMAIN events : events[m].id = i => m <= k

\* Mutant: a trigger that does nothing on conflict keeps the old row.
InsertedKeepingRow(t, batch) ==
  [log    |-> t.log \o batch,
   latest |-> [i \in DOMAIN t.latest \cup IdsIn(batch) |->
                 IF i \in DOMAIN t.latest
                   THEN t.latest[i]
                   ELSE LET k == LastAbout(batch, i)
                        IN  [seq |-> Len(t.log) + k, rec |-> batch[k].rec]]]

\* INSERT INTO record_event, row after row, and the trigger that upserts
\* record_latest after each of them.
Inserted(t, batch) ==
  [log    |-> t.log \o batch,
   latest |-> [i \in DOMAIN t.latest \cup IdsIn(batch) |->
                 IF i \in IdsIn(batch)
                   THEN LET k == LastAbout(batch, i)
                        IN  [seq |-> Len(t.log) + k, rec |-> batch[k].rec]
                   ELSE t.latest[i]]]

Commit(t) == log' = t.log /\ latest' = t.latest

----------------------------------------------------------------------------
(* Allocation.                                                              *)

Serials(events, p) == {i[2] : i \in {j \in IdsIn(events) : j[1] = p}}

\* Mutant: the next serial counted from the records, as if none were missing.
NextIdByCount(events, p) ==
  <<p, 1 + Len(SelectSeq(events, LAMBDA e : e.id[1] = p /\ e.op = "create"))>>

\* One past the highest serial the log has ever carried under the prefix.
NextId(events, p) ==
  LET highest == CHOOSE n \in Serials(events, p) \cup {0} :
                   \A m \in Serials(events, p) : m <= n
  IN  <<p, highest + 1>>

----------------------------------------------------------------------------
(* Versions: the seq of a record's latest row.                              *)

Version(i) == latest[i].seq

\* Mutant: a write that trusts whatever the caller read.
AtVersionUnchecked(i, v) == i \in DOMAIN latest

\* checkVersion: the compare half of compare-and-set.
AtVersion(i, v) == i \in DOMAIN latest /\ Version(i) = v

----------------------------------------------------------------------------
(* The transactions of the package.                                         *)

CreateTx(p, r) == Commit(Inserted(Tables, <<Created(NextId(log, p), r)>>))

\* One INSERT: what Append sends once its check has passed.
AppendTx(i, op, r) ==
  Commit(Inserted(Tables, <<[id |-> i, op |-> op, rec |-> r, basis |-> 0]>>))

AmendIfTx(i, v, r) ==
  /\ AtVersion(i, v)
  /\ Commit(Inserted(Tables, <<Amended(i, r, v)>>))

\* Mutant: the pictures stay where they were.
MovedNone(i, j) == attachment

\* The pictures of record i after they moved to j.
MovedTo(i, j) ==
  [pic \in DOMAIN attachment |->
     IF attachment[pic] = i THEN j ELSE attachment[pic]]

\* Files fresh under p, retires i to stub and moves its pictures, all or
\* nothing.  stub is the retired record, which names the identifier filed.
SupersedeTx(p, fresh, i, v, stub) ==
  LET j == NextId(log, p)
  IN  /\ AtVersion(i, v)
      /\ Commit(Inserted(Tables, <<Created(j, fresh), Amended(i, stub, v)>>))
      /\ attachment' = MovedTo(i, j)

\* One INSERT of a picture row against the identifier the caller passed.
AttachTx(pic, i) ==
  /\ pic \notin DOMAIN attachment
  /\ attachment' = [q \in DOMAIN attachment \cup {pic} |->
                      IF q = pic THEN i ELSE attachment[q]]

ForgetTx(pic) ==
  /\ pic \in DOMAIN attachment
  /\ attachment' = [q \in DOMAIN attachment \ {pic} |-> attachment[q]]

\* Mutant: a replay that keeps the first event of each record.
ReplayedOldest(events) ==
  [i \in IdsIn(events) |->
     LET k == CHOOSE n \in DOMAIN events :
                /\ events[n].id = i
                /\ \A m \in DOMAIN events : events[m].id = i => n <= m
     IN  [seq |-> k, rec |-> events[k].rec]]

\* record_latest derived from the log alone, as `mustur rebuild` does.
Replayed(events) ==
  [i \in IdsIn(events) |->
     LET k == LastAbout(events, i)
     IN  [seq |-> k, rec |-> events[k].rec]]

StoreInit ==
  /\ log = << >>
  /\ latest = [i \in {} |-> 0]
  /\ attachment = [pic \in {} |-> 0]

StoreTypeOK ==
  /\ log \in Seq(Event)
  /\ DOMAIN latest \subseteq Id
  /\ \A i \in DOMAIN latest : latest[i] \in Row
  /\ DOMAIN attachment \subseteq Pic
  /\ \A pic \in DOMAIN attachment : attachment[pic] \in Id

\* The cache says what the log says: record_latest holds exactly the records
\* of the log, each with the seq and payload of its newest event, through every
\* interleaving of single inserts, two-record transactions, batches and
\* rebuilds (schema.sql: "a cache that `mustur rebuild` re-derives").
LatestIsNewest ==
  /\ DOMAIN latest = IdsIn(log)
  /\ \A i \in DOMAIN latest :
       LET k == latest[i].seq
       IN  /\ k \in DOMAIN log
           /\ log[k].id = i
           /\ log[k].rec = latest[i].rec
           /\ \A m \in DOMAIN log : log[m].id = i => m <= k
=============================================================================
