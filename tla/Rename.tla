------------------------------- MODULE Rename -------------------------------
(***************************************************************************)
(* `mustur rename`: the one exception to the permanence of identifiers     *)
(* (internal/store/rename.go, cmd/mustur/rename.go), over the tables of    *)
(* RecordLog, beside the commands and the intake box that read a record    *)
(* first and write it later.                                               *)
(*                                                                         *)
(* A record's text is abstracted to what a rename tells apart in it: the   *)
(* identifiers it cites, those it spells inside something longer, and the  *)
(* retirements its Renamed and Retired fields declare.  A rename is one    *)
(* transaction: everything it refuses, and every failure after the guard   *)
(* of the log is lifted, rolls back to nothing written, so only a run that *)
(* commits is an action.                                                   *)
(***************************************************************************)
EXTENDS RecordLog, FiniteSets

CONSTANTS
  RoleOf,      \* the role of a prefix: what its records are
  Citing,      \* bound: the prefixes whose records are given citations
  Note,        \* rows of held_jot and scratch
  Hand,        \* commands and filings that read before they write
  None,        \* no value
  MaxSerial,   \* bound: serials a new identifier may name
  MaxPairs,    \* bound: identifiers renamed at once
  MaxRows      \* bound: rows of record_event

\* A citation.  `of` is history: the seq of the event that first filed the
\* record it was written about.
Cite == [id : Id, of : Nat]

\* What a record says.  `route` is the Prefix field of a routing record.
Text ==
  [jot      : BOOLEAN,
   cites    : SUBSET Cite,
   inside   : SUBSET Id,
   declares : SUBSET Id,
   route    : Prefix \cup {None}]

ASSUME RenameAssumption ==
  /\ RoleOf \in [Prefix -> STRING]
  /\ Citing \subseteq Prefix
  /\ None \notin Prefix
  /\ MaxSerial \in Nat /\ MaxPairs \in Nat /\ MaxRows \in Nat

VARIABLES
  note,     \* held_jot and scratch: row -> the citations in its text, or None
  job,      \* hand -> the write it is on its way to, or None
  moved,    \* history: prefixes the box was repointed away from
  stopped,  \* history: no hand was under way when a rename committed
  carried   \* history: every rename kept the records that declare it, and let
            \* those be that an earlier one had kept

renameVars == <<storeVars, note, job, moved, stopped, carried>>

Job ==
  [op : {"file"}, p : Prefix] \cup [op : {"amend"}, id : Id, rec : Text]

Plain(cites) == [jot |-> FALSE, cites |-> cites, inside |-> {}, declares |-> {}, route |-> None]

Jot == [Plain({}) EXCEPT !.jot = TRUE]

AtRest(h) == job[h] = None

Fits(n) == Len(log) + n + Cardinality({h \in Hand : ~AtRest(h)}) <= MaxRows

\* The routing records: here, that of the intake box.
Routing == {i \in DOMAIN latest : latest[i].rec.route # None}

\* The seq of the event that first filed record i.
FiledAt(events, i) ==
  CHOOSE k \in DOMAIN events : events[k].id = i /\ \A m \in DOMAIN events : events[m].id = i => k <= m

CiteOf(i) == [id |-> i, of |-> FiledAt(log, i)]

\* What rec says, and a citation of record i.
WithCite(rec, i) == [rec EXCEPT !.cites = @ \cup {CiteOf(i)}]

RenameInit ==
  /\ StoreInit
  /\ note = [n \in Note |-> None]
  /\ job = [h \in Hand |-> None]
  /\ moved = {}
  /\ stopped = TRUE
  /\ carried = TRUE

history == <<moved, stopped, carried>>

----------------------------------------------------------------------------
(* Retirement (record.Retire): a record that declares identifiers retired   *)
(* has them shown as plain text in itself and in every record it cites.     *)

CitedIn(rec) == {c.id : c \in rec.cites}

Retired(rows) == UNION {rows[i].rec.declares : i \in DOMAIN rows}

PlainIn(rows, k) ==
  UNION {rows[i].rec.declares : i \in {j \in DOMAIN rows : j = k \/ k \in CitedIn(rows[j].rec)}}

----------------------------------------------------------------------------
(* The map of a rename, and what it makes of a text.                        *)

\* checkRenames: roles are kept, no two become one, and nothing is renamed to
\* what is itself renamed.
WellFormed(to) ==
  /\ DOMAIN to # {}
  /\ \A i, j \in DOMAIN to : to[i] = to[j] => i = j
  /\ \A i \in DOMAIN to : RoleOf[i[1]] = RoleOf[to[i][1]] /\ to[i] \notin DOMAIN to

To(to, i) == IF i \in DOMAIN to THEN to[i] ELSE i

RewriteCites(to, cites) == {[c EXCEPT !.id = To(to, c.id)] : c \in cites}

\* A declaration rewritten reads NEW = NEW, and declares nothing (ParseRenamed).
\* So declarations are Renamed fields: a Retired field says of an identifier that
\* it was never issued, and one that says it of an issued one, which alone a
\* rename can rewrite, would come to declare the new one.
RewriteRecord(to, rec) ==
  [rec EXCEPT !.cites = RewriteCites(to, rec.cites), !.declares = @ \ DOMAIN to]

\* Every event, but for those of the kept records.
Rewritten(to, keep) ==
  [k \in DOMAIN log |->
     IF log[k].id \in keep
       THEN log[k]
       ELSE [log[k] EXCEPT !.id = To(to, log[k].id), !.rec = RewriteRecord(to, log[k].rec)]]

----------------------------------------------------------------------------
(* What --apply refuses.                                                    *)

\* Mutant: a new identifier is not looked for.
NewUnchecked(to) == \A i \in DOMAIN to : i \in IdsIn(log) /\ to[i] \notin Retired(latest)

\* The old ones exist; the new ones name no record, nothing attached, and are
\* not retired.
NewAreFree(to) ==
  \A i \in DOMAIN to :
    /\ i \in IdsIn(log)
    /\ to[i] \notin IdsIn(log) \cup Retired(latest)
    /\ \A pic \in DOMAIN attachment : attachment[pic] # to[i]

\* Kept records exist and are not renamed.
KeepIsSound(to, keep) == keep \subseteq IdsIn(log) /\ keep \cap DOMAIN to = {}

\* Mutant: no look at what the kept records cite.
ScopeUnchecked(to, keep) == TRUE

\* Unscoped: every old identifier an event of a kept record cites is plain text
\* in that record, by the declarations as they stand before the rename.
Scoped(to, keep) ==
  \A k \in DOMAIN log :
    log[k].id \in keep => CitedIn(log[k].rec) \cap DOMAIN to \subseteq PlainIn(latest, log[k].id)

\* Unmatched: an event that is rewritten spells an old identifier inside
\* something longer.
Unmatched(to, keep) ==
  \E k \in DOMAIN log : log[k].id \notin keep /\ log[k].rec.inside \cap DOMAIN to # {}

\* A repointed record is a routing record, and is not renamed.
MayRepoint(to, i) ==
  i \notin DOMAIN to /\ i \in Routing

----------------------------------------------------------------------------
(* The rename.                                                              *)

\* Mutant: the repoint is left for a later command.
RepointLater(events, rp) == events

\* One amend after the rewritten log, of the record as rewritten.
Repointed(events, rp) ==
  IF rp = None
    THEN events
    ELSE LET k == LastAbout(events, rp[1])
         IN  Append(events, Amended(rp[1], [events[k].rec EXCEPT !.route = rp[2]], 0))

MovedWith(to) == [pic \in DOMAIN attachment |-> To(to, attachment[pic])]

NotesRewritten(to) ==
  [n \in Note |-> IF note[n] = None THEN None ELSE RewriteCites(to, note[n])]

Carriers(to) == {i \in DOMAIN latest : latest[i].rec.declares \cap DOMAIN to # {}}

\* A record that cites the spelling an earlier rename took from another is not
\* renamed, and is kept once more when that spelling is renamed again.
EarlierSpared(to, keep) ==
  \A k \in DOMAIN log : \A c \in log[k].rec.cites : log[c.of].id # c.id =>
    log[k].id \notin DOMAIN to /\ (c.id \in DOMAIN to => log[k].id \in keep)

\* One transaction; record_latest is derived from the rewritten log.
Rename(to, keep, accept, rp) ==
  LET events == Repointed(Rewritten(to, keep), rp)
  IN  /\ Fits(1)
      /\ WellFormed(to) /\ NewAreFree(to) /\ KeepIsSound(to, keep)
      /\ rp # None => MayRepoint(to, rp[1])
      /\ Scoped(to, keep)
      /\ Unmatched(to, keep) => accept
      /\ log' = events
      /\ latest' = Replayed(events)
      /\ attachment' = MovedWith(to)
      /\ note' = NotesRewritten(to)
      /\ moved' = IF rp = None THEN moved ELSE (moved \cup {latest[rp[1]].rec.route}) \ {rp[2]}
      /\ stopped' = (stopped /\ \A h \in Hand : AtRest(h))
      /\ carried' = (carried /\ Carriers(to) \subseteq keep /\ EarlierSpared(to, keep))
      /\ UNCHANGED job

----------------------------------------------------------------------------
(* The rest of the service, as far as a rename meets it.                    *)

\* `mustur add`.
Add(p, rec) ==
  /\ Fits(1)
  /\ CreateTx(p, rec)
  /\ UNCHANGED <<attachment, note, job, history>>

\* File: the box's prefix is read before the transaction that takes a serial.
ReadBox(h, i) ==
  /\ AtRest(h) /\ Fits(1)
  /\ job' = [job EXCEPT ![h] = [op |-> "file", p |-> latest[i].rec.route]]
  /\ UNCHANGED <<storeVars, note, history>>

\* An amend that adds a citation to the record it read.
ReadRecord(h, i, j) ==
  /\ AtRest(h) /\ Fits(1)
  /\ job' = [job EXCEPT ![h] = [op |-> "amend", id |-> i, rec |-> WithCite(latest[i].rec, j)]]
  /\ UNCHANGED <<storeVars, note, history>>

\* What a hand read is what it writes, whatever committed in between.
WriteRead(h) ==
  /\ ~AtRest(h)
  /\ IF job[h].op = "file"
       THEN CreateTx(job[h].p, Jot)
       ELSE AppendTx(job[h].id, "amend", job[h].rec)
  /\ job' = [job EXCEPT ![h] = None]
  /\ UNCHANGED <<attachment, note, history>>

\* Append finds that the record it was to amend is no longer there.
WriteRefused(h) ==
  /\ ~AtRest(h) /\ job[h].op = "amend" /\ job[h].id \notin DOMAIN latest
  /\ job' = [job EXCEPT ![h] = None]
  /\ UNCHANGED <<storeVars, note, history>>

AttachPicture(pic, i) ==
  /\ AttachTx(pic, i)
  /\ UNCHANGED <<log, latest, note, job, history>>

\* A note or a held jot is written, citing a record.
WriteNote(n, i) ==
  /\ note[n] = None
  /\ note' = [note EXCEPT ![n] = {CiteOf(i)}]
  /\ UNCHANGED <<storeVars, job, history>>

----------------------------------------------------------------------------

\* Bound: a record cites at most one record when it is added, and declares at
\* most one retirement; one that spells an identifier inside something longer,
\* or routes, says nothing else.  One record routes: the box's.
AtMostOne(S) == {{}} \cup {{x} : x \in S}

Told(cited, retired) == [Plain({CiteOf(i) : i \in cited}) EXCEPT !.declares = retired]

Telling == {Told(cited, retired) : cited \in AtMostOne(DOMAIN latest), retired \in AtMostOne(DOMAIN latest)}

Spelling == {[Plain({}) EXCEPT !.inside = {i}] : i \in DOMAIN latest}

Routes == {[Plain({}) EXCEPT !.route = q] : q \in {r \in Prefix : Routing = {}}}

Contents(p) == IF p \in Citing THEN Telling \cup Spelling \cup Routes ELSE {Plain({})}

\* Bound: what a rename names, one identifier or two at a time.
Renames ==
  UNION {[olds -> Prefix \X (1..MaxSerial)] :
           olds \in {S \in SUBSET DOMAIN latest : Cardinality(S) \in 1..MaxPairs}}

\* To keep a record that says nothing of the old identifiers changes nothing.
About(to) ==
  {log[k].id : k \in {n \in DOMAIN log :
     (CitedIn(log[n].rec) \cup log[n].rec.inside \cup log[n].rec.declares) \cap DOMAIN to # {}}}

\* Bound: an amend touches a record that cites, or cites one that does.
RenameNext ==
  \/ \E to \in Renames : \E keep \in SUBSET About(to), accept \in BOOLEAN,
        rp \in {None} \cup (Routing \X Prefix) : Rename(to, keep, accept, rp)
  \/ \E p \in Prefix : \E rec \in Contents(p) : Add(p, rec)
  \/ \E h \in Hand :
       \/ \E i \in Routing : ReadBox(h, i)
       \/ \E i \in DOMAIN latest : \E j \in DOMAIN latest \ {i} :
            (i[1] \in Citing \/ j[1] \in Citing) /\ ReadRecord(h, i, j)
       \/ WriteRead(h)
       \/ WriteRefused(h)
  \/ \E i \in {j \in DOMAIN latest : j[1] \notin Citing} :
       \/ \E pic \in Pic : AttachPicture(pic, i)
       \/ \E n \in Note : WriteNote(n, i)

RenameSpec == RenameInit /\ [][RenameNext]_renameVars

----------------------------------------------------------------------------
(* Properties.                                                              *)

RenameTypeOK ==
  /\ StoreTypeOK
  /\ note \in [Note -> (SUBSET Cite) \cup {None}]
  /\ job \in [Hand -> Job \cup {None}]
  /\ moved \subseteq Prefix
  /\ stopped \in BOOLEAN /\ carried \in BOOLEAN

\* A citation that is shown as a link, in any event of any record, leads to the
\* record it was written about, or nowhere, whatever was renamed and whatever
\* was filed since under the spelling it had; a picture hangs on a record that
\* is there ("never link to whatever Idea Warehouse later issues under the same
\* spelling").
LinksOf(e) == {c \in e.rec.cites : c.id \in DOMAIN latest \ PlainIn(latest, e.id)}

LinksHold ==
  /\ \A k \in DOMAIN log : \A c \in LinksOf(log[k]) : log[c.of].id = c.id
  /\ \A n \in Note : note[n] # None => \A c \in note[n] : log[c.of].id = c.id
  /\ \A pic \in DOMAIN attachment : attachment[pic] \in DOMAIN latest

\* Links keep to their records, if the service is stopped for the run, the
\* records that declare the rename are kept, and those an earlier rename kept are
\* let be.
LinksMeanTheirRecord == stopped /\ carried => LinksHold

\* The same, of any rename the command applies to a stopped service: "each has
\* to be one its declaring record shows as plain text there, or it links to
\* whatever is issued under that spelling next", which the check before
\* --apply is for.
KeptStayPlain == stopped => LinksHold

\* An identifier names one record for good: there is one create event under it,
\* before all its amends, through renames, filings and straddling writes.
NamesOneRecord ==
  stopped => \A k \in DOMAIN log : log[k].op = "create" <=> k = FiledAt(log, log[k].id)

\* No jot is filed under a prefix the box was moved away from in the same
\* transaction as the rename ("so no jot can be filed between the rename and
\* the repoint under a prefix the rename has just emptied").
BoxFilesWhereItMoved ==
  [][stopped => \A k \in DOMAIN log' \ DOMAIN log :
       log'[k].rec.jot /\ log'[k].op = "create" => log'[k].id[1] \notin moved]_renameVars
=============================================================================
