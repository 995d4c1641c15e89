------------------------------ MODULE Findings ------------------------------
(***************************************************************************)
(* How findings come to carry the words of StatusWords: `mustur add` and   *)
(* `mustur amend` (cmd/mustur/main.go), the intake box's filing and its    *)
(* move to another project (internal/intake), beside projects whose lists  *)
(* change.  Every one of them reads before it writes, in transactions of   *)
(* their own; only the move writes under the version it read.              *)
(***************************************************************************)
EXTENDS StatusWords, SequencesExt, FiniteSets

CONSTANTS
  Proj,        \* prefixes of projects
  Lists,       \* the lists a project may come to declare
  Flags,       \* the State and Status fields a command may be given
  Finding,     \* identifiers of findings
  Box,         \* the project the intake box files under
  Writer,      \* commands
  Mover,       \* presses of Move
  Nil,         \* no value
  MaxWrites    \* bound: writes of findings and of lists

ASSUME FindingsAssumption ==
  /\ Box \in Proj
  /\ MaxWrites \in Nat
  /\ Nil \notin [Proj -> Lists]
  /\ \A s \in Lists \cup Flags : s \in Seq(ToSet(s))

VARIABLES
  declared,  \* project -> its list, on its routing record
  found,     \* finding -> its record and how often it was written, or Nil
  write,     \* command or press -> the write it is on its way to, or Nil
  writes,    \* bound: how much was written
  judged     \* history: finding -> the lists its last write was checked by, or Nil

findingsVars == <<declared, found, write, writes, judged>>

FindingsInit ==
  /\ declared \in [Proj -> Lists]
  /\ found = [f \in Finding |-> Nil]
  /\ write = [c \in Writer \cup Mover |-> Nil]
  /\ writes = 0
  /\ judged = [f \in Finding |-> Nil]

Filed == {f \in Finding : found[f] # Nil}

Unused == Finding \ Filed

Stored(f, p, data) ==
  /\ writes < MaxWrites
  /\ found' = [found EXCEPT ![f] = [under |-> p, data |-> data, version |-> writes]]
  /\ writes' = writes + 1

----------------------------------------------------------------------------
(* merge: what an amend keeps of the record it read.                        *)

OfKey(data, key) == {i \in DOMAIN data : data[i].key = key}

\* How often the key of field i was seen by then.
Occurrence(data, i) == Cardinality({j \in OfKey(data, data[i].key) : j <= i})

\* The fields at positions I, in their order.
Picked(data, I) ==
  [k \in 1..Cardinality(I) |->
     data[CHOOSE i \in I : Cardinality({j \in I : j <= i}) = k]]

\* The n-th field of a key is replaced by the n-th passed; the surplus goes.
Replaced(old, passed) ==
  LET count(i) == Cardinality(OfKey(passed, old[i].key))
      stay == {i \in DOMAIN old : count(i) = 0 \/ Occurrence(old, i) <= count(i)}
      field(i) == CHOOSE j \in OfKey(passed, old[i].key) : Occurrence(passed, j) = Occurrence(old, i)
  IN  Picked([i \in DOMAIN old |-> IF i \in stay /\ count(i) # 0 THEN passed[field(i)] ELSE old[i]], stay)

\* What is left over of a key goes last, in the order the keys were passed.
LeftOver(old, passed) ==
  LET over == {i \in DOMAIN passed : Occurrence(passed, i) > Cardinality(OfKey(old, passed[i].key))}
      first == {i \in over : passed[i].key = passed[1].key}
  IN  Picked(passed, first) \o Picked(passed, over \ first)

\* drop names fields by their key or by their value.
Merge(old, passed, drop) ==
  LET all == Replaced(old, passed) \o LeftOver(old, passed)
  IN  Picked(all, {i \in DOMAIN all : all[i].key \notin drop /\ all[i].value \notin drop})

----------------------------------------------------------------------------
(* The commands.                                                            *)

\* A finding nobody has triaged, as intake files one.
Untriaged == <<Exactly("Status", Unreviewed), Exactly("State", "open")>>

NewData(passed) == IF passed = <<>> THEN Untriaged ELSE passed

\* `add` has nothing to read of the finding.
BeginAdd(c, p, passed) ==
  /\ write[c] = Nil /\ writes < MaxWrites
  /\ write' = [write EXCEPT ![c] =
       [op |-> "add", f |-> Nil, under |-> p, passed |-> passed, data |-> NewData(passed), by |-> Nil]]
  /\ UNCHANGED <<declared, found, writes, judged>>

\* What --drop may name: keys, or the value of a field somebody may have given.
Droppable == SUBSET Keys \cup {{f.value} : f \in UNION {ToSet(passed) : passed \in Flags}}

\* Get; with --replace nothing of it is kept but its kind.
BeginAmend(c, f, passed, drop, replace) ==
  /\ write[c] = Nil /\ writes < MaxWrites
  /\ replace => drop = {}
  /\ write' = [write EXCEPT ![c] =
       [op |-> "amend", f |-> f, under |-> found[f].under, passed |-> passed,
        data |-> IF replace THEN passed ELSE Merge(found[f].data, passed, drop), by |-> Nil]]
  /\ UNCHANGED <<declared, found, writes, judged>>

\* Mutant: what was passed is checked, not the record as it will stand.
JudgesPassed(index, w) == Accepts(index, w.under, Tidied(index[w.under], w.passed, w.passed))

\* refuseFinding asks of the record as it will stand, not of the flags.
Judges(index, w) == Accepts(index, w.under, Tidied(index[w.under], w.passed, w.data))

\* The lists are read, and the write goes on or is refused.
Judge(c) ==
  LET w == write[c]
      index == IndexOf(declared)
  IN  /\ w # Nil /\ w.op # "move" /\ w.by = Nil
      /\ write' = [write EXCEPT ![c] =
           IF Judges(index, w)
             THEN [w EXCEPT !.data = Tidied(index[w.under], w.passed, @), !.passed = <<>>, !.by = declared]
             ELSE Nil]
      /\ UNCHANGED <<declared, found, writes, judged>>

\* Create, or Append: of the record as it was read and judged.
WriteJudged(c) ==
  LET w == write[c] IN
  /\ w # Nil /\ w.op # "move" /\ w.by # Nil
  /\ \E f \in (IF w.op = "add" THEN Unused ELSE {w.f}) :
       /\ Stored(f, w.under, w.data)
       /\ judged' = [judged EXCEPT ![f] = w.by]
  /\ write' = [write EXCEPT ![c] = Nil]
  /\ UNCHANGED declared

----------------------------------------------------------------------------
(* The intake box.                                                          *)

\* Both words are declared by every list: what intake and the move count on.
Usual(lists) ==
  \A p \in Proj :
    LET words == WordsOf(lists[p]) IN
    DOMAIN words = {}
      \/ /\ {Unreviewed, Superseded} \subseteq DOMAIN words
         /\ words[Unreviewed] = "open" /\ words[Superseded] = "dropped"

\* draft and Create: nothing is asked of the lists.
FileJot(f) ==
  /\ f \in Unused
  /\ Stored(f, Box, Untriaged)
  /\ judged' = [judged EXCEPT ![f] = IF Usual(declared) THEN declared ELSE Nil]
  /\ UNCHANGED <<declared, write>>

\* carryState: the word it carries, if the project it goes to declares it, or
\* else unreviewed; and the State that word means there.
Carried(words, data) ==
  LET word == IF WordOf(data) = Empty THEN Unreviewed ELSE WordOf(data)
      there == IF word \in DOMAIN words THEN word ELSE Unreviewed
  IN  IF DOMAIN words = {}
        THEN Set(data, IF StateOf(data) = Empty THEN "open" ELSE StateOf(data), word)
        ELSE Set(data, IF there \in DOMAIN words THEN words[there] ELSE "open", there)

\* The record and its version are read, then the lists.
BeginMove(c, f, p) ==
  /\ write[c] = Nil /\ writes + 1 < MaxWrites
  /\ found[f].under = Box /\ p # Box
  /\ write' = [write EXCEPT ![c] =
       [op |-> "move", f |-> f, under |-> p, passed |-> <<>>, data |-> found[f].data, by |-> Nil,
        version |-> found[f].version]]
  /\ UNCHANGED <<declared, found, writes, judged>>

CarryState(c) ==
  LET w == write[c] IN
  /\ w # Nil /\ w.op = "move" /\ w.by = Nil
  /\ write' = [write EXCEPT ![c] =
       [w EXCEPT !.data = Carried(IndexOf(declared)[w.under], @), !.by = declared]]
  /\ UNCHANGED <<declared, found, writes, judged>>

\* Supersede: both records in one transaction, if the one moved is as it was
\* read.  Neither is checked; one that passed before is to pass after.
Move(c) ==
  LET w == write[c]
      old == found[w.f]
      vouched(lists, under) == Usual(lists) /\ Accepts(IndexOf(lists), under, old.data)
  IN  /\ w # Nil /\ w.op = "move" /\ w.by # Nil
      /\ old.version = w.version
      /\ writes + 1 < MaxWrites
      /\ \E f \in Unused :
           /\ found' = [found EXCEPT
                ![f] = [under |-> w.under, data |-> w.data, version |-> writes],
                ![w.f] = [under |-> old.under, data |-> Set(old.data, "dropped", Superseded),
                          version |-> writes + 1]]
           /\ judged' = [judged EXCEPT
                ![f] = IF vouched(w.by, old.under) THEN w.by ELSE Nil,
                ![w.f] = IF vouched(declared, old.under) THEN declared ELSE Nil]
      /\ writes' = writes + 2
      /\ write' = [write EXCEPT ![c] = Nil]
      /\ UNCHANGED declared

\* Supersede refuses a move of what was written since (ErrChanged).
MoveRefused(c) ==
  LET w == write[c] IN
  /\ w # Nil /\ w.op = "move" /\ w.by # Nil
  /\ found[w.f].version # w.version
  /\ write' = [write EXCEPT ![c] = Nil]
  /\ UNCHANGED <<declared, found, writes, judged>>

----------------------------------------------------------------------------

\* A project's routing record is amended: it is no finding, and not checked.
Declare(p, list) ==
  /\ writes < MaxWrites
  /\ declared' = [declared EXCEPT ![p] = list]
  /\ writes' = writes + 1
  /\ UNCHANGED <<found, write, judged>>

FindingsNext ==
  \/ \E p \in Proj, list \in Lists : Declare(p, list)
  \/ \E f \in Finding : FileJot(f)
  \/ \E c \in Writer :
       \/ \E p \in Proj, passed \in Flags : BeginAdd(c, p, passed)
       \/ \E f \in Filed, passed \in Flags, drop \in Droppable, replace \in BOOLEAN :
            BeginAmend(c, f, passed, drop, replace)
       \/ Judge(c)
       \/ WriteJudged(c)
  \/ \E c \in Mover :
       \/ \E f \in Filed, p \in Proj : BeginMove(c, f, p)
       \/ CarryState(c)
       \/ Move(c)
       \/ MoveRefused(c)

----------------------------------------------------------------------------
(* Properties.                                                              *)

FindingsTypeOK ==
  /\ declared \in [Proj -> Lists]
  /\ \A f \in Filed : found[f].under \in Proj /\ found[f].version \in 0..MaxWrites
  /\ writes \in 0..MaxWrites
  /\ \A f \in Finding : judged[f] # Nil => f \in Filed /\ judged[f] \in [Proj -> Lists]

\* The gate rejects no finding for what add, amend, the intake box or a move
\* wrote, under the lists that write was made by ("what the gate passes and
\* what add and amend accept cannot drift apart"): whatever was merged, dropped,
\* left alone or carried, and whatever another writer read in between.
FindingsPass ==
  \A f \in Filed :
    judged[f] # Nil => Accepts(IndexOf(judged[f]), found[f].under, found[f].data)
=============================================================================
