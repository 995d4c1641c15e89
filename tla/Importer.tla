------------------------------ MODULE Importer ------------------------------
(***************************************************************************)
(* `mustur import linkctrl` (cmd/mustur/import.go, internal/linkctrl):     *)
(* what it reads in a frozen tree of another project, and how it writes    *)
(* it, once with --apply and again with --repair, beside people who write  *)
(* the same records since.                                                 *)
(*                                                                         *)
(* A stretch of prose is the set of the numbers it cites; a title, a cell, *)
(* a fence and a link are left out.  A day is a number, 0 where the tree   *)
(* dates nothing.  Milestone numbers are numbered in LinkCtrl's own order, *)
(* so that M24.5 is a number between those of M24 and M25.                 *)
(***************************************************************************)
EXTENDS StatusWords, FiniteSets

CONSTANTS
  Trees,          \* trees the importer may find
  FirstEntry,     \* FirstEntrySerial: the serial of the log's first entry
  MaxDay,         \* bound: days an import or a repair is run on
  MaxEdits        \* bound: records other people write

ASSUME ImporterAssumption ==
  /\ FirstEntry \in Nat \ {0}
  /\ MaxDay \in Nat \ {0} /\ MaxEdits \in Nat

\* A number cited: old is what the tree calls it, to the milestone that stands
\* for it once it is rewritten, 0 before.
Token(role, old) == [role |-> role, old |-> old, to |-> 0]

\* The prose of a tree, and the milestones it has or cites.
Texts(t) ==
  LET prose(part) == {part[n].text : n \in DOMAIN part}
  IN  (UNION {prose(part) : part \in {t.findings, t.rows, t.adrs, t.files, t.phase1, t.phases,
                                     t.questions, t.entries}})
        \cup (UNION {prose(t.entries[k].defs) : k \in DOMAIN t.entries})

Milestones(t) ==
  DOMAIN t.files \cup DOMAIN t.phase1
    \cup {c.old : c \in {d \in UNION Texts(t) : d.role = "M"}}

\* A checkout is finite, and nothing in it has been rewritten.
ASSUME TreeAssumption ==
  \A t \in Trees :
    /\ \A c \in UNION Texts(t) : c = Token(c.role, c.old)
    /\ Milestones(t) \subseteq Nat /\ IsFiniteSet(Milestones(t))
    /\ DOMAIN t.entries \subseteq Nat
    /\ \A k \in DOMAIN t.entries : \A i \in DOMAIN t.entries[k].defs :
         i \in Nat /\ t.entries[k].defs[i].form \in Nat

VARIABLES
  tree,     \* the checkout, which is frozen
  day,      \* the day it is
  kept,     \* the store: identifier -> its record and who wrote it last
  run,      \* the import under way
  edits,    \* bound: how much others wrote
  raced     \* history: records written by others after the repair looked at them

importVars == <<tree, day, kept, run, edits, raced>>

Resting == [mode |-> "none", todo |-> {}, looked |-> {}, create |-> {}]

----------------------------------------------------------------------------
(* The records of the tree.                                                 *)

\* mark: the record says it is dated on import.  old: the LinkCtrl field.
Item(role, serial, at, mark, old, word, text, refs) ==
  [id |-> <<role, serial>>, at |-> at, mark |-> mark, old |-> old,
   data |-> IF word = Empty THEN <<>> ELSE <<Exactly("Status", word)>>,
   text |-> text, refs |-> refs]

\* One dated nowhere is dated the day it is read, and says so.
Dated(role, serial, at, today, old, word, text, refs) ==
  Item(role, serial, IF at = 0 THEN today ELSE at, at = 0, old, word, text, refs)

Smallest(S) == CHOOSE n \in S : \A o \in S : n <= o

\* findings.go
FindingItems(t, today) ==
  {Dated("F", n, t.findings[n].at, today, n, t.findings[n].section, t.findings[n].text, {}) :
     n \in DOMAIN t.findings}

\* prose.go: an ADR without a date is dated today and does not say so.
Investigations(t, today) ==
  {Item("I", n, IF t.adrs[n].at = 0 THEN today ELSE t.adrs[n].at, FALSE, n, "accepted", t.adrs[n].text, {}) :
     n \in DOMAIN t.adrs}

\* prose.go: the questions take serials in the order of the file.
QuestionItems(t, today) ==
  {LET q == t.questions[n] IN
   Dated("Q", n, IF q.answered # 0 THEN q.answered ELSE q.at, today, n,
         IF q.answered # 0 THEN "answered" ELSE "open", q.text, {}) : n \in DOMAIN t.questions}

\* decisions.go: every entry of the log, from FirstEntry on.
EntryItems(t) ==
  {Item("D", FirstEntry + k - 1, t.entries[k].at, FALSE, 0, Empty, t.entries[k].text, {}) :
     k \in DOMAIN t.entries}

\* The definitions of number n, as [entry, place] of the log.
DefinitionsOf(t, n) ==
  {d \in UNION {{<<k, i>> : i \in DOMAIN t.entries[k].defs} : k \in DOMAIN t.entries} :
     t.entries[d[1]].defs[d[2]].number = n}

\* Which form wins, and among equals the one that comes first.
Before(t, a, b) ==
  LET form(d) == t.entries[d[1]].defs[d[2]].form
  IN  \/ form(a) < form(b)
      \/ form(a) = form(b) /\ a[1] < b[1]
      \/ form(a) = form(b) /\ a[1] = b[1] /\ a[2] <= b[2]

\* A number defined in the log, which then cites every entry that defines it.
DefinedItem(t, n) ==
  LET defs == DefinitionsOf(t, n)
      best == CHOOSE d \in defs : \A o \in defs : Before(t, d, o)
      row == IF n \in DOMAIN t.rows THEN t.rows[n].text ELSE {}
  IN  Item("D", n, t.entries[best[1]].at, FALSE, n, Empty,
           t.entries[best[1]].defs[best[2]].text \cup row,
           {<<"D", FirstEntry + d[1] - 1>> : d \in defs})

Numbers(t) ==
  DOMAIN t.rows \cup
  UNION {{t.entries[k].defs[i].number : i \in DOMAIN t.entries[k].defs} : k \in DOMAIN t.entries}

\* tableRows: a number only a phase table has.
RowItem(t, n, today) == Dated("D", n, t.rows[n].at, today, n, Empty, t.rows[n].text, {})

\* Every D number once: as the log defines it, or as a phase table has it.
DecisionItems(t, today) ==
  EntryItems(t) \cup
  {IF DefinitionsOf(t, n) # {} THEN DefinedItem(t, n) ELSE RowItem(t, n, today) : n \in Numbers(t)}

\* Sources read before the milestones.
EarlyItems(t, today) ==
  FindingItems(t, today) \cup DecisionItems(t, today) \cup QuestionItems(t, today)
    \cup Investigations(t, today)

----------------------------------------------------------------------------
(* Milestones, renumbered from one (MUS-D-0167).                            *)

Placed(t) == DOMAIN t.files \cup DOMAIN t.phase1

Rank(nums) == [n \in nums |-> Cardinality({m \in nums : m <= n})]

\* phaseRows: the phase a milestone is in.  The code visits the tables in no
\* fixed order: of several that hold it any may win, the smallest stands for it.
PhaseOf(t, n) ==
  IF n \in DOMAIN t.phase1 THEN 1
  ELSE LET held == {p \in DOMAIN t.phases : \E i \in DOMAIN t.phases[p].rows : t.phases[p].rows[i] = n}
       IN  IF held = {} THEN 0 ELSE Smallest(held)

\* columnByMilestone
DoneWord(t, n) == IF n \in t.done THEN "done" ELSE "open"

\* A milestone refers to its phase, and a file's to its work unit.
MilestoneItem(t, n, serial, today) ==
  LET source == IF n \in DOMAIN t.files THEN t.files[n] ELSE t.phase1[n]
      p == PhaseOf(t, n)
  IN  Dated("M", serial, source.at, today, n, DoneWord(t, n), source.text,
            (IF n \in DOMAIN t.files THEN {<<"W", serial>>} ELSE {})
              \cup IF p = 0 THEN {} ELSE {<<"P", p>>})

\* A work unit is dated by its milestone, and carries the same mark.
WorkUnitItem(t, n, serial, today) ==
  LET source == t.files[n] IN
  Dated("W", serial, source.at, today, n, Empty, source.text, {<<"M", serial>>})

\* A stub is dated by the first to cite it, and says nothing of that.
StubItem(n, serial, cited) ==
  Item("M", serial, cited[n], FALSE, n, "cited, never defined", {}, {})

\* `cited`: number -> date of the earliest record that cites it.
MilestoneItems(t, cited, today) ==
  LET rank == Rank(Placed(t) \cup DOMAIN cited) IN
  {MilestoneItem(t, n, rank[n], today) : n \in Placed(t)}
    \cup {WorkUnitItem(t, n, rank[n], today) : n \in DOMAIN t.files}
    \cup {StubItem(n, rank[n], cited) : n \in DOMAIN cited}

\* Unplaced: what `items` cite that has no place.
Unplaced(items, placed) ==
  LET citing(n) == {r \in items : Token("M", n) \in r.text}
      nums == (UNION {{c.old : c \in {d \in r.text : d.role = "M"}} : r \in items}) \ placed
  IN  [n \in nums |-> Smallest({r.at : r \in citing(n)})]

----------------------------------------------------------------------------
(* Phases (MUS-D-0173).                                                     *)

Held(t, p) == {n \in Placed(t) \cup UNION {{t.phases[q].rows[i] : i \in DOMAIN t.phases[q].rows} :
                                             q \in DOMAIN t.phases} : PhaseOf(t, n) = p}

\* Dated by the earliest of its milestones that something dates.
PhaseItem(t, p, rank, milestones, today) ==
  LET ids == {<<"M", rank[n]>> : n \in Held(t, p) \cap DOMAIN rank}
      dates == {r.at : r \in {m \in milestones : m.id \in ids /\ ~m.mark}}
      closed == Held(t, p) # {} /\ Held(t, p) \subseteq t.done
  IN  Dated("P", p, IF dates = {} THEN 0 ELSE Smallest(dates), today, p,
            IF closed THEN "closed" ELSE "live", t.phases[p].text, ids)

PhaseItems(t, rank, milestones, today) ==
  {PhaseItem(t, p, rank, milestones, today) : p \in DOMAIN t.phases}

----------------------------------------------------------------------------
(* The run up to the store.                                                 *)

\* What the sources read before the phases cite and nothing defines.
CitedEarly(t, today) ==
  Unplaced(EarlyItems(t, today) \cup MilestoneItems(t, <<>>, today), Placed(t))

\* Mutant: the phases are read before the stubs are placed.
CitedInPhasesToo(t, today) ==
  Unplaced(EarlyItems(t, today) \cup MilestoneItems(t, <<>>, today)
             \cup PhaseItems(t, Rank(Placed(t)), {}, today), Placed(t))

\* What the second pass stubs.  A number cited in a phase's prose alone adds
\* none: a stub shifts every serial after it, and those are cited by now.
Cited(t, today) == CitedEarly(t, today)

\* Rewrite: what has a place is named by its serial, the rest is left.
Renumbered(c, rank) == IF c.role = "M" /\ c.old \in DOMAIN rank THEN [c EXCEPT !.to = rank[c.old]] ELSE c

\* Cite: a citation of a record the import holds becomes a reference too.
Target(c) == IF c.role = "M" THEN <<"M", c.to>> ELSE <<c.role, c.old>>

Finished(items, rank) ==
  LET rewritten == {[r EXCEPT !.text = {Renumbered(c, rank) : c \in @}] : r \in items}
      have == {r.id : r \in rewritten}
  IN  {[r EXCEPT !.refs = @ \cup (({Target(c) : c \in r.text} \cap have) \ {r.id})] : r \in rewritten}

\* place: the Status a finding's section stands for in the list of LNK.
SectionWord(section) ==
  IF section = "closed" THEN "fixed" ELSE IF section = "open" THEN Unreviewed ELSE section

Placing(r, words) ==
  LET word == SectionWord(WordOf(r.data)) IN
  IF r.id[1] # "F" THEN r
  ELSE IF word \in DOMAIN words THEN [r EXCEPT !.data = Set(@, words[word], word)]
  ELSE IF DOMAIN words = {} THEN r
  ELSE [r EXCEPT !.data = Set(@, IF Unreviewed \in DOMAIN words THEN words[Unreviewed] ELSE "open", Unreviewed)]

PlacedIn(items, index) ==
  IF SomeDeclared(index) THEN {Placing(r, index["LNK"]) : r \in items} ELSE items

\* What a run on a day makes of the tree, with these numbers stubbed.
ReadingWith(t, cited, today) ==
  LET rank == Rank(Placed(t) \cup DOMAIN cited)
      milestones == MilestoneItems(t, cited, today)
      items == EarlyItems(t, today) \cup milestones \cup PhaseItems(t, rank, milestones, today)
  IN  PlacedIn(Finished(items, rank), IndexOf(t.lists))

Reading(t, today) == ReadingWith(t, Cited(t, today), today)

\* What ends the run before it writes: a milestone with a file and a phase-1
\* row, a D number among the entries', a table's milestone without a record, and
\* a finding the gate would reject.
Refused(t, today) ==
  \/ DOMAIN t.files \cap DOMAIN t.phase1 # {}
  \/ \E n \in Numbers(t) : n >= FirstEntry
  \/ \E p \in DOMAIN t.phases : ~ (Held(t, p) \subseteq Placed(t) \cup DOMAIN Cited(t, today))
  \/ \E r \in Reading(t, today) :
       r.id[1] = "F" /\ ~Accepts(IndexOf(t.lists), "LNK", r.data)

Store(items, who) == [id \in {r.id : r \in items} |->
                        [rec |-> CHOOSE r \in items : r.id = id, by |-> who]]

\* What an importer of before the phases, and before the mark of the work
\* units, left.
EarlierReading(t, today) ==
  {[r EXCEPT !.mark = @ /\ r.id[1] # "W", !.refs = {id \in @ : id[1] # "P"}] :
     r \in {s \in ReadingWith(t, CitedEarly(t, today), today) : s.id[1] # "P"}}

ImportInit ==
  /\ tree \in Trees
  /\ kept \in {<<>>} \cup IF Refused(tree, 1) THEN {} ELSE {Store(EarlierReading(tree, 1), "import")}
  /\ day = IF kept = <<>> THEN 1 ELSE 2
  /\ run = Resting
  /\ edits = 0 /\ raced = {}

\* --apply: the store is listed, and refused if it holds any of the project.
BeginApply ==
  /\ run = Resting /\ ~Refused(tree, day)
  /\ DOMAIN kept = {}
  /\ run' = [mode |-> "apply", todo |-> {}, looked |-> {}, create |-> Reading(tree, day)]
  /\ UNCHANGED <<tree, day, kept, edits, raced>>

\* --repair: the store is listed, to see that there was an import.
BeginRepair ==
  /\ run = Resting /\ ~Refused(tree, day)
  /\ DOMAIN kept # {}
  /\ run' = [mode |-> "repair", todo |-> Reading(tree, day), looked |-> {}, create |-> {}]
  /\ raced' = {}
  /\ UNCHANGED <<tree, day, kept, edits>>

\* Mutant: whoever wrote the record last.
AnyonesLast(id) == TRUE

\* A record somebody else has written since is left alone.
ImportersLast(id) == kept[id].by = "import"

\* Mutant: the mark is looked for on the stored record.
StampOnStored(r) == IF kept[r.id].rec.mark THEN [r EXCEPT !.at = kept[r.id].rec.at] ELSE r

\* One dated on import keeps the stamp it has, whether or not the stored copy
\* carries the mark.
Restamped(r) == IF r.mark THEN [r EXCEPT !.at = kept[r.id].rec.at] ELSE r

\* One record: its history is read.  The records to amend are looked at in
\* whatever order, and those of which the store holds nothing, or what is read
\* now, last and at once: nothing is written of them before the end.
Look ==
  /\ run.mode = "repair" /\ run.looked = {} /\ run.todo # {}
  /\ LET fresh == {r \in run.todo : r.id \notin DOMAIN kept}
         known == run.todo \ fresh
         differs == {r \in known : ImportersLast(r.id) /\ Restamped(r) # kept[r.id].rec}
     IN  \/ /\ differs = {}
            /\ run' = [run EXCEPT !.todo = {}, !.create = @ \cup fresh]
         \/ \E r \in differs :
              run' = [run EXCEPT !.todo = @ \ {r}, !.looked = {Restamped(r)}]
  /\ UNCHANGED <<tree, day, kept, edits, raced>>

\* Append: whatever was written under the identifier in between.
Amend ==
  \E r \in run.looked :
    /\ kept' = [kept EXCEPT ![r.id] = [rec |-> r, by |-> "import"]]
    /\ run' = [run EXCEPT !.looked = {}]
    /\ UNCHANGED <<tree, day, edits, raced>>

\* AppendAll: an import, or what the store never held, together or not at all.
CreateAll ==
  /\ run # Resting /\ run.todo = {} /\ run.looked = {}
  /\ kept' = IF \E r \in run.create : r.id \in DOMAIN kept
               THEN kept
               ELSE [id \in DOMAIN kept \cup {r.id : r \in run.create} |->
                       IF id \in DOMAIN kept THEN kept[id] ELSE Store(run.create, "import")[id]]
  /\ run' = Resting
  /\ UNCHANGED <<tree, day, edits, raced>>

\* The command is interrupted: what it amended stays amended.
Interrupted ==
  /\ run # Resting
  /\ run' = Resting
  /\ UNCHANGED <<tree, day, kept, edits, raced>>

----------------------------------------------------------------------------

\* Somebody amends an imported record, who may give it another day (--at), or
\* files one of their own.
Edited(r, at) == [r EXCEPT !.text = {}, !.refs = {}, !.at = at]

SomebodyAmends(id, at) ==
  /\ edits < MaxEdits /\ id \in DOMAIN kept
  /\ kept' = [kept EXCEPT ![id] = [rec |-> Edited(@.rec, at), by |-> "hand"]]
  /\ edits' = edits + 1
  /\ raced' = IF run.mode = "repair" THEN raced \cup ({id} \cap {r.id : r \in run.looked}) ELSE raced
  /\ UNCHANGED <<tree, day, run>>

NextSerial(role) ==
  LET serials == {id[2] : id \in {i \in DOMAIN kept : i[1] = role}}
  IN  1 + (IF serials = {} THEN 0 ELSE CHOOSE n \in serials : \A o \in serials : o <= n)

SomebodyFiles(role) ==
  /\ edits < MaxEdits
  /\ kept' = [id \in DOMAIN kept \cup {<<role, NextSerial(role)>>} |->
       IF id \in DOMAIN kept THEN kept[id]
       ELSE [rec |-> Item(role, id[2], day, FALSE, 0, Empty, {}, {}), by |-> "hand"]]
  /\ edits' = edits + 1
  /\ UNCHANGED <<tree, day, run, raced>>

Midnight ==
  /\ run = Resting /\ day < MaxDay
  /\ day' = day + 1
  /\ UNCHANGED <<tree, kept, run, edits, raced>>

ImportNext ==
  \/ BeginApply \/ BeginRepair \/ Look \/ Amend \/ CreateAll \/ Interrupted \/ Midnight
  \/ \E id \in DOMAIN kept : SomebodyAmends(id, kept[id].rec.at) \/ SomebodyAmends(id, day)
  \/ \E role \in {"F", "P"} : SomebodyFiles(role)

----------------------------------------------------------------------------
(* Properties.                                                              *)

ImportTypeOK ==
  /\ day \in 1..MaxDay
  /\ \A id \in DOMAIN kept : kept[id].rec.id = id /\ kept[id].by \in {"import", "hand"}
  /\ run.mode \in {"none", "apply", "repair"}

\* A milestone an imported record cites is the one the tree meant, in every
\* state of a repair and after one that was interrupted: its number in the tree
\* is the number that was written ("a stub shifts every serial after it, and
\* those serials are live and cited").
ReferencesKeepMeaning ==
  \A id \in DOMAIN kept : kept[id].by = "import" =>
    \A c \in {d \in kept[id].rec.text : d.to # 0} :
      <<"M", c.to>> \in DOMAIN kept /\ kept[<<"M", c.to>>].rec.old = c.old

\* A repair leaves alone what anybody else has written since the import, but
\* for what was written while it was about to amend that very record.
RepairSparesOthers ==
  [][\A id \in DOMAIN kept : kept[id].by = "hand" /\ kept'[id].by = "import" => id \in raced]_importVars

\* What a repair writes of a record that says it is dated on import keeps the
\* day the store has for it, on whatever day it is repaired and whatever
\* importer wrote it first ("a repair run another day keeps the stamp the import
\* gave it"), but for a day somebody gave it while the repair was about to amend
\* that very record.
StampStays ==
  [][\A id \in DOMAIN kept :
       kept'[id].rec.mark /\ kept'[id].by = "import" /\ id \notin raced =>
         kept'[id].rec.at = kept[id].rec.at]_importVars
=============================================================================
