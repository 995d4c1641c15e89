------------------------------- MODULE Intake -------------------------------
(***************************************************************************)
(* The intake box: filing a jot, routing it, moving it where it belongs,   *)
(* keeping it where it is, and the pictures that came with it              *)
(* (internal/intake, the handlers of internal/web/intake.go and            *)
(* records.go, `mustur reroute`, `mustur amend`, `mustur image forget`).   *)
(*                                                                         *)
(* A hand is a request or a command.  File looks for a resend and then     *)
(* creates, in two steps; Reroute and Keep read a version and write only   *)
(* over it; a command's amend writes over whatever is there.               *)
(***************************************************************************)
EXTENDS RecordLog, FiniteSets

CONSTANTS
  Hand,       \* requests and commands under way at once
  Jot,        \* texts somebody may file
  Filer,      \* who files them
  Dest,       \* routing records a jot may be filed to
  Box,        \* the default destination, the intake box
  OptOut,     \* destinations that take jots only on a confirmed move
  Mentions,   \* text -> the destinations it names
  Cites,      \* pairs <<d, e>>: the routing record d cites e
  PrefixOf,   \* destination -> the prefix its records are filed under
  Word,       \* status words a triage may write
  Declares,   \* prefix -> the words its project declares; {} where it lists none
  None,       \* no value
  Tries,      \* how often Reroute and Keep read again (5 in the code)
  MaxEvents   \* bound: rows of record_event

Unreviewed == "unreviewed"
Superseded == "superseded"

\* The fields of a jot that code decides on.
JotRecord ==
  [text     : Jot,
   filer    : Filer,
   dest     : Dest,                              \* Routed to
   names    : SUBSET Dest,                       \* Names
   kept     : BOOLEAN,                           \* Kept
   word     : Word \cup {Unreviewed, Superseded},\* Status
   noted    : SUBSET (Word \cup {Superseded}),  \* words its Note says it had
   by       : Id \cup {None},                    \* Superseded by
   corrects : Id \cup {None}]                    \* Corrects, the last of them

ASSUME RoutingAssumption ==
  /\ Box \in Dest /\ OptOut \subseteq Dest
  /\ Mentions \in [Jot -> SUBSET Dest] /\ PrefixOf \in [Dest -> Prefix]
  /\ Declares \in [Prefix -> SUBSET (Word \cup {Unreviewed})]
ASSUME IntakeBounds == MaxEvents \in Nat /\ Tries \in Nat /\ IsFiniteSet(Pic)

VARIABLES
  job,    \* hand -> where its request has got to, or None
  recent, \* records filed within the last minute (Window)
  alone,  \* history: no two hands have been under way at once
  blind   \* history: an amend has written over a newer state than it read

vars == <<storeVars, job, recent, alone, blind>>

\* Where a request has got to: about to file, storing pictures, about to read a
\* jot and then to write what it made of it.
Job ==
       [at : {"file"}, text : Jot, filer : Filer, to : Dest \cup {None}, left : Nat]
  \cup [at : {"attach"}, id : Id, left : Nat]
  \cup [at : {"reroute"}, id : Id, to : Dest, page : BOOLEAN, tries : Nat]
  \cup [at : {"supersede"}, id : Id, to : Dest, page : BOOLEAN, tries : Nat,
        version : Nat, old : JotRecord]
  \cup [at : {"keep"}, id : Id, tries : Nat, version : Nat, old : JotRecord]
  \cup [at : {"amend"}, id : Id, version : Nat, rec : JotRecord]

ASSUME NoneAssumption == None \notin Job /\ None \notin Id

Idle(h) == job[h] = None

InTurn == \A g, h \in Hand : Idle(g) \/ Idle(h) \/ g = h

Rest(h) == job' = [job EXCEPT ![h] = None]

\* Bound: room for n more events, asked when a request begins and again when it
\* writes; a request that finds none left stays where it is.
Room(n) == Len(log) + n <= MaxEvents

Read(i) == latest[i].rec

Init ==
  /\ StoreInit
  /\ job = [h \in Hand |-> None]
  /\ recent = {}
  /\ alone = TRUE
  /\ blind = FALSE

----------------------------------------------------------------------------
(* Where a jot goes, and what a record says of it.                          *)

\* Of several matches, those that cite no other match.
Narrowed(M) ==
  LET inner == {d \in M : \A e \in M \ {d} : <<d, e>> \notin Cites}
  IN  IF inner = {} THEN M ELSE inner

\* The one destination the text names, or the box; one that opted out is
\* passed over.
Route(text) ==
  LET named == Narrowed(Mentions[text] \ OptOut)
  IN  IF Cardinality(named) = 1 THEN CHOOSE d \in named : TRUE ELSE Box

\* What draft decides for a filing: `to` is the filer's choice, or None.
Draft(text, filer, to) ==
  [text |-> text, filer |-> filer,
   dest |-> IF to = None THEN Route(text) ELSE to,
   names |-> IF to = None THEN Mentions[text] \cap OptOut ELSE {},
   kept |-> FALSE, word |-> Unreviewed, noted |-> {}, by |-> None, corrects |-> None]

CorrectedBy(r) == r.by

NeedsAttention(r) ==
  r.dest = Box /\ r.names # {} /\ r.word # Superseded /\ ~r.kept

FiledAt(i) == CHOOSE k \in DOMAIN log : log[k].id = i /\ log[k].op = "create"

\* The newest record of the window with the same text by the same filer, if
\* there is one.
RecentlyFiled(text, filer) ==
  LET same == {i \in recent : Read(i).text = text /\ Read(i).filer = filer}
  IN  {i \in same : \A j \in same : FiledAt(j) <= FiledAt(i)}

\* carryState: a word the new project does not declare becomes unreviewed and
\* is kept in the Note.
CarriedWord(r, p) ==
  IF Declares[p] = {} \/ r.word \in Declares[p]
    THEN r
    ELSE [r EXCEPT !.word = Unreviewed, !.noted = @ \cup ({r.word} \ {Unreviewed})]

\* Mutant: the draft as File would file it, as if nobody had triaged the jot.
Redrafted(i, r, to) == [Draft(r.text, r.filer, to) EXCEPT !.corrects = i]

\* The record filed in place of r: its claims, the new destination, and of a
\* proposed move only what is still proposed.
Refiled(i, r, to) ==
  LET names == IF to = Box THEN r.names \ {to} ELSE {}
  IN  [CarriedWord(r, PrefixOf[to]) EXCEPT
         !.dest = to, !.names = names, !.kept = r.kept /\ names # {}, !.corrects = i]

\* The record left behind.
Retired(r, j) == [r EXCEPT !.word = Superseded, !.by = j]

\* `mustur amend --data Status=word`: what it does not mention stays.
Merged(r, word) == [r EXCEPT !.word = word]

----------------------------------------------------------------------------
(* Filing.                                                                  *)

\* The look for a resend.  The pictures of a resend go to the record found.
FileLook(h, text, filer, to, n) ==
  /\ Idle(h) /\ Room(1)
  /\ IF RecentlyFiled(text, filer) = {}
       THEN job' = [job EXCEPT ![h] = [at |-> "file", text |-> text, filer |-> filer,
                                       to |-> to, left |-> n]]
       ELSE \E i \in RecentlyFiled(text, filer) :
              job' = [job EXCEPT ![h] = [at |-> "attach", id |-> i, left |-> n]]
  /\ UNCHANGED <<storeVars, recent>>

FileWrite(h) ==
  /\ ~Idle(h) /\ job[h].at = "file" /\ Room(1)
  /\ LET r == Draft(job[h].text, job[h].filer, job[h].to)
         p == PrefixOf[r.dest]
         i == NextId(log, p)
     IN  /\ CreateTx(p, r)
         /\ recent' = recent \cup {i}
         /\ job' = [job EXCEPT ![h] = [at |-> "attach", id |-> i, left |-> job[h].left]]
  /\ UNCHANGED attachment

\* attachAll: one INSERT per picture, to the identifier File came back with.
AttachNext(h) ==
  /\ ~Idle(h) /\ job[h].at = "attach" /\ job[h].left > 0
  /\ \E pic \in Pic : AttachTx(pic, job[h].id)
  /\ job' = [job EXCEPT ![h].left = @ - 1]
  /\ UNCHANGED <<log, latest, recent>>

\* All are stored, or one failed and the rest are not tried.
AttachEnds(h) ==
  /\ ~Idle(h) /\ job[h].at = "attach"
  /\ Rest(h)
  /\ UNCHANGED <<storeVars, recent>>

\* A minute after.
WindowPasses ==
  /\ recent # {}
  /\ recent' = {}
  /\ UNCHANGED <<storeVars, job>>

----------------------------------------------------------------------------
(* Moving and keeping.                                                      *)

\* `mustur reroute`.
RerouteByCommand(h, i, to) ==
  /\ Idle(h) /\ Room(2)
  /\ job' = [job EXCEPT ![h] = [at |-> "reroute", id |-> i, to |-> to, page |-> FALSE, tries |-> 1]]
  /\ UNCHANGED <<storeVars, recent>>

\* The Move button: the record as first read must propose this move.
MoveByPage(h, i, to) ==
  /\ Idle(h) /\ Room(2)
  /\ CorrectedBy(Read(i)) = None
  /\ NeedsAttention(Read(i))
  /\ to \in Read(i).names
  /\ job' = [job EXCEPT ![h] = [at |-> "reroute", id |-> i, to |-> to, page |-> TRUE, tries |-> 1]]
  /\ UNCHANGED <<storeVars, recent>>

\* GetVersioned and the draft.  A record corrected already ends it: the
\* caller is told by what (AlreadyCorrected).
RerouteRead(h) ==
  /\ ~Idle(h) /\ job[h].at = "reroute"
  /\ LET i == job[h].id
     IN  IF CorrectedBy(Read(i)) # None
           THEN Rest(h)
           ELSE job' = [job EXCEPT ![h] =
                          [at |-> "supersede", id |-> i, to |-> job[h].to, page |-> job[h].page,
                           tries |-> job[h].tries, version |-> Version(i), old |-> Read(i)]]
  /\ UNCHANGED <<storeVars, recent>>

RerouteWrite(h) ==
  /\ ~Idle(h) /\ job[h].at = "supersede" /\ Room(2)
  /\ SupersedeTx(PrefixOf[job[h].to], Refiled(job[h].id, job[h].old, job[h].to),
                 job[h].id, job[h].version,
                 Retired(job[h].old, NextId(log, PrefixOf[job[h].to])))
  /\ recent' = recent \cup {NextId(log, PrefixOf[job[h].to])}
  /\ Rest(h)

\* The first half of Keep: the record must propose a move.
KeepRead(h, i) ==
  /\ Idle(h) /\ Room(1)
  /\ ~Read(i).kept /\ NeedsAttention(Read(i))
  /\ job' = [job EXCEPT ![h] = [at |-> "keep", id |-> i, tries |-> 1, version |-> Version(i),
                                old |-> Read(i)]]
  /\ UNCHANGED <<storeVars, recent>>

KeepWrite(h) ==
  /\ ~Idle(h) /\ job[h].at = "keep" /\ Room(1)
  /\ AmendIfTx(job[h].id, job[h].version, [job[h].old EXCEPT !.kept = TRUE])
  /\ Rest(h)
  /\ UNCHANGED <<attachment, recent>>

\* ErrChanged: read again, or give up after Tries.
Again(h) ==
  /\ ~Idle(h) /\ job[h].at \in {"supersede", "keep"}
  /\ LET i == job[h].id
     IN  /\ ~AtVersion(i, job[h].version)
         /\ IF job[h].tries = Tries THEN Rest(h)
            ELSE IF job[h].at = "supersede"
            THEN job' = [job EXCEPT ![h] = [at |-> "reroute", id |-> i, to |-> job[h].to,
                                            page |-> job[h].page, tries |-> job[h].tries + 1]]
            ELSE IF Read(i).kept \/ ~NeedsAttention(Read(i)) THEN Rest(h)
            ELSE job' = [job EXCEPT ![h].tries = @ + 1, ![h].version = Version(i),
                                    ![h].old = Read(i)]
  /\ UNCHANGED <<storeVars, recent>>

----------------------------------------------------------------------------
(* Commands on a jot and its pictures.                                      *)

AmendRead(h, i, word) ==
  /\ Idle(h) /\ Room(1)
  /\ Declares[i[1]] = {} \/ word \in Declares[i[1]]
  /\ job' = [job EXCEPT ![h] = [at |-> "amend", id |-> i, version |-> Version(i),
                                rec |-> Merged(Read(i), word)]]
  /\ UNCHANGED <<storeVars, recent>>

AmendWrite(h) ==
  /\ ~Idle(h) /\ job[h].at = "amend" /\ Room(1)
  /\ AppendTx(job[h].id, "amend", job[h].rec)
  /\ Rest(h)
  /\ UNCHANGED <<attachment, recent>>

\* The amend of hand h, written now, would replace a state it has not read.
\* No code asks: the version is history.
OverwritesBlindly(h) ==
  ~Idle(h) /\ job[h].at = "amend" /\ job[h].version # Version(job[h].id)

ForgetImage(pic) ==
  /\ ForgetTx(pic)
  /\ UNCHANGED <<log, latest, job, recent>>

Begin(h) ==
  \/ \E text \in Jot, filer \in Filer, to \in Dest \cup {None}, n \in 0..Cardinality(Pic) :
       FileLook(h, text, filer, to, n)
  \/ \E i \in DOMAIN latest :
       \/ \E to \in Dest : RerouteByCommand(h, i, to)
       \/ \E to \in Dest : MoveByPage(h, i, to)
       \/ KeepRead(h, i)
       \/ \E word \in Word : AmendRead(h, i, word)

Continue(h) ==
  \/ FileWrite(h)
  \/ AttachNext(h)
  \/ AttachEnds(h)
  \/ RerouteRead(h)
  \/ RerouteWrite(h)
  \/ KeepWrite(h)
  \/ Again(h)
  \/ AmendWrite(h)

Next ==
  /\ \/ \E h \in Hand : Begin(h) \/ Continue(h)
     \/ WindowPasses
     \/ \E pic \in Pic : ForgetImage(pic)
  /\ alone' = (alone /\ InTurn')
  /\ blind' = (blind \/ \E h \in Hand : OverwritesBlindly(h) /\ job'[h] = None)

Spec == Init /\ [][Next]_vars

----------------------------------------------------------------------------
(* Properties.                                                              *)

\* The tables hold jots, and each hand's request is at a known step.
TypeOK ==
  /\ StoreTypeOK
  /\ \A i \in DOMAIN latest : Read(i) \in JotRecord
  /\ job \in [Hand -> Job \cup {None}]
  /\ recent \subseteq DOMAIN latest
  /\ alone \in BOOLEAN /\ blind \in BOOLEAN

\* What a jot became is one line of records: each stub names the record filed
\* in its place, that record names the stub, and no two records were filed in
\* place of one, whoever moves, keeps and amends the same jot at once (Reroute:
\* "Two corrections of one jot at once file one record between them"); only an
\* amend that wrote over a state it had not read can break the line.
LineOfRecords == blind \/
  /\ \A i \in DOMAIN latest :
       CorrectedBy(Read(i)) # None =>
         CorrectedBy(Read(i)) \in DOMAIN latest /\ Read(CorrectedBy(Read(i))).corrects = i
  /\ \A j \in DOMAIN latest :
       Read(j).corrects # None =>
         /\ Read(j).corrects \in DOMAIN latest
         /\ CorrectedBy(Read(Read(j).corrects)) = j
         /\ FiledAt(Read(j).corrects) < FiledAt(j)

\* The record filed in a jot's place says what the jot said the moment before,
\* amendments between the read and the write included: the same text, and its
\* status word or a Note of it ("Rerouting would have quietly undone every
\* amendment made since it was filed").
MoveCarriesClaims ==
  [][\A j \in DOMAIN latest' \ DOMAIN latest :
       LET i == latest'[j].rec.corrects
       IN  i # None =>
             /\ latest'[j].rec.text = Read(i).text
             /\ \/ latest'[j].rec.word = Read(i).word
                \/ Read(i).word \in latest'[j].rec.noted
             /\ Read(i).noted \subseteq latest'[j].rec.noted]_vars

\* No picture hangs on a stub, where nobody looks ("The pictures go with the
\* record, not with the stub"), as long as hands take turns: a move between a
\* filing and its last picture leaves that picture behind.
PicturesOnLiveRecords ==
  alone => \A pic \in DOMAIN attachment : CorrectedBy(Read(attachment[pic])) = None
=============================================================================
