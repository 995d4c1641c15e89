---------------------------- MODULE IntakeProofs ----------------------------
(***************************************************************************)
(* The intake box for any number of hands, destinations, texts, pictures   *)
(* and tries.  What a hand read some time ago is worth as much as the      *)
(* version it read with it: a row that is written over has a version       *)
(* beyond any that was read before, so equal versions mean that nothing    *)
(* ran in between (Holds).  The rest of the invariant is the line of       *)
(* records itself, with what a resend and a picture need of it.            *)
(***************************************************************************)
EXTENDS Intake, RecordLogProofs, FiniteSetTheorems

Creates(e, i) == e.op = "create" /\ e.id = i

\* Every record was created, once.
CreatedOnce ==
  /\ \A i \in DOMAIN latest : \E k \in DOMAIN log : Creates(log[k], i)
  /\ \A k, m \in DOMAIN log :
       log[k].op = "create" /\ log[m].op = "create" /\ log[k].id = log[m].id => k = m

\* Two records of one jot that differ in nothing a line is made of.
Kin(r, s) == r.by = s.by /\ r.corrects = s.corrects /\ r.text = s.text /\ r.filer = s.filer

\* What a request under way knows, whatever ran since its read.
Holds(b, known, n) ==
  /\ b.at # "file" => b.id \in DOMAIN known
  /\ b.at \in {"supersede", "keep"} =>
       b.version <= n /\ (b.version = known[b.id].seq => b.old = known[b.id].rec)
  /\ b.at = "supersede" => b.old.by = None
  /\ b.at = "amend" =>
       b.version <= n /\ (b.version = known[b.id].seq => Kin(b.rec, known[b.id].rec))

\* What it knows when nothing ran since its read.
Turn(b, known) ==
  /\ b.at \in {"supersede", "keep", "amend"} => b.version = known[b.id].seq
  /\ b.at = "attach" => known[b.id].rec.by = None

JobsHold == \A h \in Hand : ~Idle(h) => Holds(job[h], latest, Len(log))

Hung == \A pic \in DOMAIN attachment : attachment[pic] \in DOMAIN latest

\* The line, and a record filed in the window has its successor there too.
Straight ==
  ~blind =>
    /\ \A i \in DOMAIN latest :
         LET j == Read(i).by
         IN  j # None =>
               /\ j \in DOMAIN latest
               /\ Read(j).corrects = i
               /\ Read(j).text = Read(i).text /\ Read(j).filer = Read(i).filer
               /\ i \in recent => j \in recent
    /\ \A j \in DOMAIN latest :
         LET i == Read(j).corrects
         IN  i # None => i \in DOMAIN latest /\ Read(i).by = j /\ FiledAt(i) < FiledAt(j)

TurnsTaken ==
  alone =>
    /\ InTurn
    /\ ~blind
    /\ \A h \in Hand : ~Idle(h) => Turn(job[h], latest)
    /\ \A pic \in DOMAIN attachment : Read(attachment[pic]).by = None

IInv ==
  TypeOK /\ LatestIsNewest /\ CreatedOnce /\ JobsHold /\ Hung /\ Straight /\ TurnsTaken

\* The history every step keeps.
History ==
  /\ alone' = (alone /\ InTurn')
  /\ blind' = (blind \/ \E h \in Hand : OverwritesBlindly(h) /\ job'[h] = None)

----------------------------------------------------------------------------
(* The tables.                                                              *)

LEMMA Tabled ==
  ASSUME IInv
  PROVE  /\ log \in Seq(Event) /\ Len(log) \in Nat /\ DOMAIN log = 1..Len(log)
         /\ DOMAIN latest \subseteq Id
         /\ \A i \in DOMAIN latest :
              /\ latest[i] \in Row
              /\ latest[i].rec \in JotRecord
              /\ latest[i].seq \in Nat /\ latest[i].seq <= Len(log)
<1>1. TypeOK /\ LatestIsNewest
  BY DEF IInv
<1>2. /\ log \in Seq(Event) /\ DOMAIN latest \subseteq Id
      /\ \A i \in DOMAIN latest : latest[i] \in Row /\ latest[i].rec \in JotRecord
  BY <1>1 DEF TypeOK, StoreTypeOK, Read
<1>3. Len(log) \in Nat /\ DOMAIN log = 1..Len(log)
  BY <1>2
<1>4. \A i \in DOMAIN latest : latest[i].seq \in DOMAIN log
  BY <1>1 DEF LatestIsNewest
<1>5. QED
  BY <1>2, <1>3, <1>4

\* Where a record was filed.
LEMMA FiledAtFact ==
  ASSUME CreatedOnce, NEW k \in DOMAIN log, NEW i, Creates(log[k], i)
  PROVE  FiledAt(i) = k
<1>1. \E m \in DOMAIN log : log[m].id = i /\ log[m].op = "create"
  BY DEF Creates
<1>2. /\ FiledAt(i) \in DOMAIN log /\ log[FiledAt(i)].id = i
      /\ log[FiledAt(i)].op = "create"
  BY <1>1 DEF FiledAt
<1>3. QED
  BY <1>2 DEF CreatedOnce, Creates

LEMMA FiledInLog ==
  ASSUME CreatedOnce, NEW i \in DOMAIN latest
  PROVE  FiledAt(i) \in DOMAIN log /\ Creates(log[FiledAt(i)], i)
<1>1. PICK k \in DOMAIN log : Creates(log[k], i)
  BY DEF CreatedOnce
<1>2. QED
  BY <1>1, FiledAtFact

\* As long as the log only grows, records stay filed where they were.
LEMMA FiledStays ==
  ASSUME CreatedOnce, CreatedOnce',
         \A k \in DOMAIN log : k \in DOMAIN log' /\ log'[k] = log[k],
         NEW i \in DOMAIN latest
  PROVE  FiledAt(i)' = FiledAt(i)
<1>1. PICK k \in DOMAIN log : Creates(log[k], i)
  BY DEF CreatedOnce
<1>2. FiledAt(i) = k
  BY <1>1, FiledAtFact
<1>3. k \in DOMAIN log' /\ log'[k].id = i /\ log'[k].op = "create"
  BY <1>1 DEF Creates
<1>4. \E m \in DOMAIN log' : log'[m].id = i /\ log'[m].op = "create"
  BY <1>3
<1>5. /\ FiledAt(i)' \in DOMAIN log' /\ log'[FiledAt(i)'].id = i
      /\ log'[FiledAt(i)'].op = "create"
  BY <1>4 DEF FiledAt
<1>6. QED
  BY <1>2, <1>3, <1>5 DEF CreatedOnce

\* What a hand knows outlives what others write.
LEMMA HoldsOn ==
  ASSUME IInv, NEW h \in Hand, ~Idle(h), NEW known, NEW n \in Nat, Len(log) <= n,
         DOMAIN latest \subseteq DOMAIN known,
         \A i \in DOMAIN latest :
           known[i] = latest[i] \/ (known[i].seq \in Nat /\ Len(log) < known[i].seq)
  PROVE  Holds(job[h], known, n)
<1>1. Holds(job[h], latest, Len(log)) /\ job[h] \in Job
  BY DEF IInv, JobsHold, TypeOK, Idle
<1>2. PICK b \in Job : b = job[h]
  BY <1>1
<1>3. Len(log) \in Nat
  BY Tabled
<1>4. b.at \in {"supersede", "keep", "amend"} => b.version \in Nat
  BY DEF Job
<1>5. b.at \in {"supersede", "keep", "amend"} =>
        /\ b.id \in DOMAIN latest /\ b.version <= n
        /\ b.version = known[b.id].seq => known[b.id] = latest[b.id]
  BY <1>1, <1>2, <1>3, <1>4 DEF Holds
<1>6. Holds(b, known, n)
  BY <1>1, <1>2, <1>5 DEF Holds
<1>7. QED
  BY <1>2, <1>6

----------------------------------------------------------------------------
(* The three ways the tables change.                                        *)

LEMMA AmendStep ==
  ASSUME IInv, NEW e \in Event, e.op = "amend", e.id \in DOMAIN latest,
         Commit(Inserted(Tables, <<e>>))
  PROVE  /\ log' \in Seq(Event) /\ Len(log') = Len(log) + 1
         /\ DOMAIN latest' = DOMAIN latest
         /\ \A i \in DOMAIN latest' : latest'[i] \in Row
         /\ LatestIsNewest' /\ CreatedOnce'
         /\ latest'[e.id].rec = e.rec /\ latest'[e.id].seq = Len(log) + 1
         /\ \A i \in DOMAIN latest : i # e.id => latest'[i] = latest[i]
         /\ \A i \in DOMAIN latest : FiledAt(i)' = FiledAt(i)
<1>1. LatestIsNewest /\ CreatedOnce
  BY DEF IInv
<1>2. /\ log \in Seq(Event) /\ Len(log) \in Nat /\ DOMAIN log = 1..Len(log)
      /\ DOMAIN latest \subseteq Id /\ \A i \in DOMAIN latest : latest[i] \in Row
  BY Tabled
<1>3. /\ log' \in Seq(Event)
      /\ Len(log') = Len(log) + 1 /\ log'[Len(log) + 1] = e
      /\ \A k \in DOMAIN log : k \in DOMAIN log' /\ log'[k] = log[k]
      /\ \A i \in DOMAIN latest' : latest'[i] \in Row
      /\ LatestIsNewest'
      /\ DOMAIN latest' = DOMAIN latest \cup {e.id}
      /\ latest'[e.id].seq = Len(log) + 1 /\ latest'[e.id].rec = e.rec
      /\ \A i \in DOMAIN latest : i # e.id => latest'[i] = latest[i]
  BY <1>1, <1>2, OneInsert
<1>4. \A k \in DOMAIN log' : k \in DOMAIN log \/ k = Len(log) + 1
  BY <1>2, <1>3
<1>5. CreatedOnce'
  <2>1. \A i \in DOMAIN latest' : \E k \in DOMAIN log' : Creates(log'[k], i)
    BY <1>1, <1>3 DEF CreatedOnce
  <2>2. \A k \in DOMAIN log' : log'[k].op = "create" => k \in DOMAIN log
    BY <1>3, <1>4
  <2>3. \A k, m \in DOMAIN log' :
          log'[k].op = "create" /\ log'[m].op = "create" /\ log'[k].id = log'[m].id => k = m
    BY <1>1, <1>3, <2>2 DEF CreatedOnce
  <2>4. QED
    BY <2>1, <2>3 DEF CreatedOnce, Creates
<1>6. \A i \in DOMAIN latest : FiledAt(i)' = FiledAt(i)
  BY <1>1, <1>3, <1>5, FiledStays
<1>7. QED
  BY <1>3, <1>5, <1>6

LEMMA CreateStep ==
  ASSUME IInv, NEW e \in Event, e.op = "create", e.id \notin DOMAIN latest,
         Commit(Inserted(Tables, <<e>>))
  PROVE  /\ log' \in Seq(Event) /\ Len(log') = Len(log) + 1
         /\ DOMAIN latest' = DOMAIN latest \cup {e.id}
         /\ \A i \in DOMAIN latest' : latest'[i] \in Row
         /\ LatestIsNewest' /\ CreatedOnce'
         /\ latest'[e.id].rec = e.rec
         /\ \A i \in DOMAIN latest : latest'[i] = latest[i]
         /\ \A i \in DOMAIN latest : FiledAt(i)' = FiledAt(i)
<1>1. LatestIsNewest /\ CreatedOnce
  BY DEF IInv
<1>2. /\ log \in Seq(Event) /\ Len(log) \in Nat /\ DOMAIN log = 1..Len(log)
      /\ DOMAIN latest \subseteq Id /\ \A i \in DOMAIN latest : latest[i] \in Row
  BY Tabled
<1>3. /\ log' \in Seq(Event)
      /\ Len(log') = Len(log) + 1 /\ log'[Len(log) + 1] = e
      /\ \A k \in DOMAIN log : k \in DOMAIN log' /\ log'[k] = log[k]
      /\ \A i \in DOMAIN latest' : latest'[i] \in Row
      /\ LatestIsNewest'
      /\ DOMAIN latest' = DOMAIN latest \cup {e.id}
      /\ latest'[e.id].rec = e.rec
      /\ \A i \in DOMAIN latest : latest'[i] = latest[i]
  BY <1>1, <1>2, OneInsert
<1>4. /\ \A k \in DOMAIN log' : k \in DOMAIN log \/ k = Len(log) + 1
      /\ Len(log) + 1 \in DOMAIN log'
  BY <1>2, <1>3
<1>5. \A k \in DOMAIN log : log[k].id # e.id
  BY <1>1 DEF LatestIsNewest, IdsIn
<1>6. CreatedOnce'
  <2>1. \A i \in DOMAIN latest : \E k \in DOMAIN log' : Creates(log'[k], i)
    BY <1>1, <1>3 DEF CreatedOnce
  <2>2. \E k \in DOMAIN log' : Creates(log'[k], e.id)
    BY <1>3, <1>4 DEF Creates
  <2>3. \A k, m \in DOMAIN log' :
          log'[k].op = "create" /\ log'[m].op = "create" /\ log'[k].id = log'[m].id => k = m
    BY <1>1, <1>3, <1>4, <1>5 DEF CreatedOnce
  <2>4. QED
    BY <1>3, <2>1, <2>2, <2>3 DEF CreatedOnce, Creates
<1>7. \A i \in DOMAIN latest : FiledAt(i)' = FiledAt(i)
  BY <1>1, <1>3, <1>6, FiledStays
<1>8. QED
  BY <1>3, <1>6, <1>7

\* e files a record, f retires another.
LEMMA SwapStep ==
  ASSUME IInv, NEW e \in Event, NEW f \in Event,
         e.op = "create", e.id \notin DOMAIN latest,
         f.op = "amend", f.id \in DOMAIN latest,
         Commit(Inserted(Tables, <<e, f>>))
  PROVE  /\ log' \in Seq(Event) /\ Len(log') = Len(log) + 2
         /\ DOMAIN latest' = DOMAIN latest \cup {e.id}
         /\ \A i \in DOMAIN latest' : latest'[i] \in Row
         /\ LatestIsNewest' /\ CreatedOnce'
         /\ latest'[e.id].rec = e.rec
         /\ latest'[f.id].rec = f.rec /\ latest'[f.id].seq = Len(log) + 2
         /\ \A i \in DOMAIN latest : i # f.id => latest'[i] = latest[i]
         /\ \A i \in DOMAIN latest : FiledAt(i)' = FiledAt(i) /\ FiledAt(i) \in 1..Len(log)
         /\ FiledAt(e.id)' = Len(log) + 1
<1>1. LatestIsNewest /\ CreatedOnce
  BY DEF IInv
<1>2. /\ log \in Seq(Event) /\ Len(log) \in Nat /\ DOMAIN log = 1..Len(log)
      /\ DOMAIN latest \subseteq Id /\ \A i \in DOMAIN latest : latest[i] \in Row
  BY Tabled
<1>3. /\ log' \in Seq(Event)
      /\ Len(log') = Len(log) + 2 /\ log'[Len(log) + 1] = e /\ log'[Len(log) + 2] = f
      /\ \A k \in DOMAIN log : k \in DOMAIN log' /\ log'[k] = log[k]
      /\ \A i \in DOMAIN latest' : latest'[i] \in Row
      /\ LatestIsNewest'
      /\ DOMAIN latest' = DOMAIN latest \cup {e.id, f.id}
      /\ latest'[e.id].rec = e.rec
      /\ latest'[f.id].seq = Len(log) + 2 /\ latest'[f.id].rec = f.rec
      /\ \A i \in DOMAIN latest : i \notin {e.id, f.id} => latest'[i] = latest[i]
  BY <1>1, <1>2, TwoInserts
<1>4. /\ \A k \in DOMAIN log' : k \in DOMAIN log \/ k = Len(log) + 1 \/ k = Len(log) + 2
      /\ Len(log) + 1 \in DOMAIN log'
  BY <1>2, <1>3
<1>5. \A k \in DOMAIN log : log[k].id # e.id
  BY <1>1 DEF LatestIsNewest, IdsIn
<1>6. CreatedOnce'
  <2>1. \A i \in DOMAIN latest : \E k \in DOMAIN log' : Creates(log'[k], i)
    BY <1>1, <1>3 DEF CreatedOnce
  <2>2. \E k \in DOMAIN log' : Creates(log'[k], e.id)
    BY <1>3, <1>4 DEF Creates
  <2>3. \A k \in DOMAIN log' : log'[k].op = "create" => k \in DOMAIN log \/ k = Len(log) + 1
    BY <1>3, <1>4
  <2>4. \A k, m \in DOMAIN log' :
          log'[k].op = "create" /\ log'[m].op = "create" /\ log'[k].id = log'[m].id => k = m
    BY <1>1, <1>3, <1>5, <2>3 DEF CreatedOnce
  <2>5. QED
    BY <1>3, <2>1, <2>2, <2>4 DEF CreatedOnce, Creates
<1>7. \A i \in DOMAIN latest : FiledAt(i)' = FiledAt(i) /\ FiledAt(i) \in 1..Len(log)
  BY <1>1, <1>2, <1>3, <1>6, FiledStays, FiledInLog
<1>8. FiledAt(e.id)' = Len(log) + 1
  <2>1. \E m \in DOMAIN log' : log'[m].id = e.id /\ log'[m].op = "create"
    BY <1>3, <1>4
  <2>2. /\ FiledAt(e.id)' \in DOMAIN log' /\ log'[FiledAt(e.id)'].id = e.id
        /\ log'[FiledAt(e.id)'].op = "create"
    BY <2>1 DEF FiledAt
  <2>3. QED
    BY <1>3, <1>4, <1>6, <2>2 DEF CreatedOnce
<1>9. DOMAIN latest' = DOMAIN latest \cup {e.id}
  BY <1>3
<1>10. QED
  BY <1>3, <1>6, <1>7, <1>8, <1>9

----------------------------------------------------------------------------
(* The steps that leave the tables alone.                                   *)

LEMMA HandGoesOn ==
  ASSUME IInv, History, NEW h \in Hand, NEW b \in Job \cup {None},
         UNCHANGED storeVars, UNCHANGED recent,
         job' = [job EXCEPT ![h] = b],
         Idle(h) \/ job[h].at # "amend",
         b # None => Holds(b, latest, Len(log)),
         b # None /\ alone => Turn(b, latest)
  PROVE  IInv'
<1>1. /\ TypeOK /\ LatestIsNewest /\ CreatedOnce /\ JobsHold /\ Hung /\ Straight /\ TurnsTaken
      /\ log' = log /\ latest' = latest /\ attachment' = attachment /\ recent' = recent
  BY DEF IInv, storeVars
<1>2. /\ job' \in [Hand -> Job \cup {None}] /\ job'[h] = b
      /\ \A g \in Hand : g # h => job'[g] = job[g]
  BY <1>1 DEF TypeOK
<1>3. blind' = blind
  <2>1. ~\E g \in Hand : OverwritesBlindly(g) /\ job'[g] = None
    BY <1>2 DEF OverwritesBlindly, Idle
  <2>2. QED
    BY <1>1, <2>1, Zenon DEF History, TypeOK
<1>4. TypeOK'
  <2>1. alone' \in BOOLEAN /\ blind' \in BOOLEAN
    BY <1>1, <1>3, Zenon DEF History, TypeOK
  <2>2. QED
    BY <1>1, <1>2, <2>1 DEF TypeOK, StoreTypeOK, Read
<1>5. LatestIsNewest' /\ CreatedOnce' /\ Hung'
  BY <1>1 DEF LatestIsNewest, CreatedOnce, Creates, Hung
<1>6. JobsHold'
  BY <1>1, <1>2 DEF JobsHold, Idle
<1>7. Straight'
  <2>1. \A i \in DOMAIN latest : FiledAt(i)' = FiledAt(i)
    BY <1>1, <1>5, FiledStays
  <2>2. QED
    BY <1>1, <1>3, <2>1 DEF Straight, Read
<1>8. TurnsTaken'
  <2>1. alone' => alone /\ InTurn'
    BY DEF History
  <2>2. alone => \A g \in Hand : job'[g] # None => Turn(job'[g], latest)
    BY <1>1, <1>2 DEF TurnsTaken, Idle
  <2>3. QED
    BY <1>1, <1>3, <2>1, <2>2 DEF TurnsTaken, Idle, Read
<1>9. QED
  BY <1>4, <1>5, <1>6, <1>7, <1>8 DEF IInv

\* What a resend finds is the end of its line, as long as nothing was written
\* over blindly.
LEMMA FoundIsLive ==
  ASSUME IInv, ~blind, NEW text, NEW filer, NEW i \in RecentlyFiled(text, filer)
  PROVE  i \in DOMAIN latest /\ Read(i).by = None
<1>1. i \in recent /\ recent \subseteq DOMAIN latest /\ Read(i).text = text /\ Read(i).filer = filer
  BY DEF IInv, TypeOK, RecentlyFiled
<1>2. SUFFICES ASSUME Read(i).by # None
               PROVE  FALSE
  BY <1>1
<1>3. PICK j \in DOMAIN latest :
        /\ j = Read(i).by /\ j \in recent /\ Read(j).corrects = i
        /\ Read(j).text = text /\ Read(j).filer = filer
  BY <1>1, <1>2 DEF IInv, Straight
<1>4. FiledAt(j) <= FiledAt(i)
  BY <1>1, <1>3 DEF RecentlyFiled
<1>5. i # None
  BY <1>1, NoneAssumption DEF IInv, TypeOK, StoreTypeOK
<1>6. FiledAt(i) < FiledAt(j)
  BY <1>3, <1>5 DEF IInv, Straight
<1>7. FiledAt(i) \in Nat /\ FiledAt(j) \in Nat
  BY <1>1, <1>3, Tabled, FiledInLog DEF IInv
<1>8. QED
  BY <1>4, <1>6, <1>7

LEMMA LookKeeps ==
  ASSUME IInv, History, NEW h \in Hand, NEW text \in Jot, NEW filer \in Filer,
         NEW to \in Dest \cup {None}, NEW n \in 0..Cardinality(Pic),
         FileLook(h, text, filer, to, n)
  PROVE  IInv'
<1>1. n \in Nat
  BY IntakeBounds, FS_CardinalityType
<1>2. Idle(h) /\ UNCHANGED storeVars /\ UNCHANGED recent
  BY DEF FileLook
<1>3. CASE RecentlyFiled(text, filer) = {}
  <2>1. PICK b \in Job :
          b = [at |-> "file", text |-> text, filer |-> filer, to |-> to, left |-> n]
    BY <1>1 DEF Job
  <2>2. job' = [job EXCEPT ![h] = b] /\ b.at = "file"
    BY <1>3, <2>1 DEF FileLook
  <2>3. Holds(b, latest, Len(log)) /\ Turn(b, latest)
    BY <2>2 DEF Holds, Turn
  <2>4. QED
    BY <1>2, <2>2, <2>3, HandGoesOn
<1>4. CASE RecentlyFiled(text, filer) # {}
  <2>1. PICK i \in RecentlyFiled(text, filer) :
          job' = [job EXCEPT ![h] = [at |-> "attach", id |-> i, left |-> n]]
    BY <1>4 DEF FileLook
  <2>2. i \in DOMAIN latest /\ i \in Id
    BY <2>1, Tabled DEF RecentlyFiled, IInv, TypeOK
  <2>3. PICK b \in Job : b = [at |-> "attach", id |-> i, left |-> n]
    BY <1>1, <2>2 DEF Job
  <2>4. job' = [job EXCEPT ![h] = b] /\ b.at = "attach" /\ b.id = i
    BY <2>1, <2>3
  <2>5. Holds(b, latest, Len(log))
    BY <2>2, <2>4 DEF Holds
  <2>6. alone => Turn(b, latest)
    <3>1. alone => ~blind
      BY DEF IInv, TurnsTaken
    <3>2. alone => Read(i).by = None
      BY <2>1, <3>1, FoundIsLive
    <3>3. QED
      BY <2>4, <3>2 DEF Turn, Read
  <2>7. QED
    BY <1>2, <2>4, <2>5, <2>6, HandGoesOn
<1>5. QED
  BY <1>3, <1>4

LEMMA AttachEndsKeeps ==
  ASSUME IInv, History, NEW h \in Hand, AttachEnds(h)
  PROVE  IInv'
<1>1. /\ job' = [job EXCEPT ![h] = None] /\ UNCHANGED storeVars /\ UNCHANGED recent
      /\ job[h].at # "amend"
  BY DEF AttachEnds, Rest
<1>2. None \in Job \cup {None}
  OBVIOUS
<1>3. QED
  BY <1>1, <1>2, HandGoesOn

LEMMA RerouteAsked ==
  ASSUME IInv, History, NEW h \in Hand, NEW i \in DOMAIN latest, NEW to \in Dest,
         RerouteByCommand(h, i, to) \/ MoveByPage(h, i, to)
  PROVE  IInv'
<1>1. i \in Id
  BY Tabled
<1>2. PICK page \in BOOLEAN :
        job' = [job EXCEPT ![h] =
                 [at |-> "reroute", id |-> i, to |-> to, page |-> page, tries |-> 1]]
  BY DEF RerouteByCommand, MoveByPage
<1>3. PICK b \in Job : b = [at |-> "reroute", id |-> i, to |-> to, page |-> page, tries |-> 1]
  BY <1>1 DEF Job
<1>4. job' = [job EXCEPT ![h] = b] /\ b.at = "reroute" /\ b.id = i
  BY <1>2, <1>3
<1>5. Holds(b, latest, Len(log)) /\ Turn(b, latest)
  BY <1>4 DEF Holds, Turn
<1>6. Idle(h) /\ UNCHANGED storeVars /\ UNCHANGED recent
  BY DEF RerouteByCommand, MoveByPage
<1>7. QED
  BY <1>4, <1>5, <1>6, HandGoesOn

LEMMA RerouteReadKeeps ==
  ASSUME IInv, History, NEW h \in Hand, RerouteRead(h)
  PROVE  IInv'
<1>1. PICK a \in Job : a = job[h] /\ a.at = "reroute"
  BY DEF IInv, TypeOK, RerouteRead, Idle
<1>2. a.id \in DOMAIN latest
  BY <1>1 DEF IInv, JobsHold, Holds, RerouteRead
<1>3. a.id \in Id /\ a.to \in Dest /\ a.page \in BOOLEAN /\ a.tries \in Nat
  BY <1>1 DEF Job
<1>4. UNCHANGED storeVars /\ UNCHANGED recent /\ job[h].at # "amend"
  BY <1>1 DEF RerouteRead
<1>5. CASE CorrectedBy(Read(a.id)) # None
  <2>1. job' = [job EXCEPT ![h] = None]
    BY <1>1, <1>5 DEF RerouteRead, Rest
  <2>2. None \in Job \cup {None}
    OBVIOUS
  <2>3. QED
    BY <1>4, <2>1, <2>2, HandGoesOn
<1>6. CASE CorrectedBy(Read(a.id)) = None
  <2>1. /\ latest[a.id].rec \in JotRecord /\ latest[a.id].seq \in Nat
        /\ latest[a.id].seq <= Len(log)
    BY <1>2, Tabled
  <2>2. PICK b \in Job :
          b = [at |-> "supersede", id |-> a.id, to |-> a.to, page |-> a.page, tries |-> a.tries,
               version |-> latest[a.id].seq, old |-> latest[a.id].rec]
    BY <1>3, <2>1 DEF Job
  <2>3. job' = [job EXCEPT ![h] = b]
    BY <1>1, <1>6, <2>2 DEF RerouteRead, Version, Read
  <2>4. b.at = "supersede" /\ b.id = a.id /\ b.version = latest[a.id].seq /\ b.old = latest[a.id].rec
    BY <2>2
  <2>5. Holds(b, latest, Len(log)) /\ Turn(b, latest)
    BY <1>2, <1>6, <2>1, <2>4 DEF Holds, Turn, CorrectedBy, Read
  <2>6. QED
    BY <1>4, <2>3, <2>5, HandGoesOn
<1>7. QED
  BY <1>5, <1>6

LEMMA KeepReadKeeps ==
  ASSUME IInv, History, NEW h \in Hand, NEW i \in DOMAIN latest, KeepRead(h, i)
  PROVE  IInv'
<1>1. /\ latest[i].rec \in JotRecord /\ latest[i].seq \in Nat
      /\ latest[i].seq <= Len(log) /\ i \in Id
  BY Tabled
<1>2. PICK b \in Job : b = [at |-> "keep", id |-> i, tries |-> 1, version |-> latest[i].seq,
                            old |-> latest[i].rec]
  BY <1>1 DEF Job
<1>3. job' = [job EXCEPT ![h] = b]
  BY <1>2 DEF KeepRead, Version, Read
<1>4. b.at = "keep" /\ b.id = i /\ b.version = latest[i].seq /\ b.old = latest[i].rec
  BY <1>2
<1>5. Holds(b, latest, Len(log)) /\ Turn(b, latest)
  BY <1>1, <1>4 DEF Holds, Turn
<1>6. Idle(h) /\ UNCHANGED storeVars /\ UNCHANGED recent
  BY DEF KeepRead
<1>7. QED
  BY <1>3, <1>5, <1>6, HandGoesOn

LEMMA AmendReadKeeps ==
  ASSUME IInv, History, NEW h \in Hand, NEW i \in DOMAIN latest, NEW word \in Word,
         AmendRead(h, i, word)
  PROVE  IInv'
<1>1. /\ latest[i].rec \in JotRecord /\ latest[i].seq \in Nat
      /\ latest[i].seq <= Len(log) /\ i \in Id
  BY Tabled
<1>2. PICK r \in JotRecord : r = Merged(latest[i].rec, word)
  BY <1>1 DEF Merged, JotRecord
<1>3. Kin(r, latest[i].rec)
  BY <1>1, <1>2 DEF Merged, JotRecord, Kin
<1>4. PICK b \in Job : b = [at |-> "amend", id |-> i, version |-> latest[i].seq, rec |-> r]
  BY <1>1 DEF Job
<1>5. job' = [job EXCEPT ![h] = b]
  BY <1>2, <1>4 DEF AmendRead, Version, Read
<1>6. b.at = "amend" /\ b.id = i /\ b.version = latest[i].seq /\ b.rec = r
  BY <1>4
<1>7. Holds(b, latest, Len(log)) /\ Turn(b, latest)
  BY <1>1, <1>3, <1>6 DEF Holds, Turn
<1>8. Idle(h) /\ UNCHANGED storeVars /\ UNCHANGED recent
  BY DEF AmendRead
<1>9. QED
  BY <1>5, <1>7, <1>8, HandGoesOn

LEMMA AgainKeeps ==
  ASSUME IInv, History, NEW h \in Hand, Again(h)
  PROVE  IInv'
<1>1. PICK a \in Job : a = job[h] /\ a.at \in {"supersede", "keep"}
  BY DEF IInv, TypeOK, Again, Idle
<1>2. a.id \in DOMAIN latest
  BY <1>1 DEF IInv, JobsHold, Holds, Again
<1>3. UNCHANGED storeVars /\ UNCHANGED recent /\ job[h].at # "amend"
  BY <1>1 DEF Again
<1>4. /\ latest[a.id].rec \in JotRecord /\ latest[a.id].seq \in Nat
      /\ latest[a.id].seq <= Len(log) /\ a.id \in Id
  BY <1>2, Tabled
<1>5. CASE job' = [job EXCEPT ![h] = None]
  <2>1. None \in Job \cup {None}
    OBVIOUS
  <2>2. QED
    BY <1>3, <1>5, <2>1, HandGoesOn
<1>6. CASE /\ a.at = "supersede"
           /\ job' = [job EXCEPT ![h] = [at |-> "reroute", id |-> a.id, to |-> a.to,
                                         page |-> a.page, tries |-> a.tries + 1]]
  <2>1. a.to \in Dest /\ a.page \in BOOLEAN /\ a.tries \in Nat
    BY <1>1, <1>6 DEF Job
  <2>2. PICK n \in Nat : n = a.tries + 1
    BY <2>1
  <2>3. PICK b \in Job : b = [at |-> "reroute", id |-> a.id, to |-> a.to,
                              page |-> a.page, tries |-> n]
    BY <1>4, <2>1 DEF Job
  <2>4. job' = [job EXCEPT ![h] = b] /\ b.at = "reroute" /\ b.id = a.id
    BY <1>6, <2>2, <2>3
  <2>5. Holds(b, latest, Len(log)) /\ Turn(b, latest)
    BY <1>2, <2>4 DEF Holds, Turn
  <2>6. QED
    BY <1>3, <2>4, <2>5, HandGoesOn
<1>7. CASE /\ a.at = "keep"
           /\ job' = [job EXCEPT ![h].tries = @ + 1, ![h].version = Version(a.id),
                                 ![h].old = Read(a.id)]
  <2>1. a \in [at : {"keep"}, id : Id, tries : Nat, version : Nat, old : JotRecord]
    BY <1>1, <1>7 DEF Job
  <2> DEFINE K == [at : {"keep"}, id : Id, tries : Nat, version : Nat, old : JotRecord]
  <2>2. PICK n \in Nat, v \in Nat, r \in JotRecord :
          n = a.tries + 1 /\ v = latest[a.id].seq /\ r = latest[a.id].rec
    BY <1>4, <2>1
  <2>3. PICK b \in K : b = [a EXCEPT !.tries = n, !.version = v, !.old = r]
    BY <2>1
  <2>4. b \in Job
    BY DEF Job
  <2>5. job' = [job EXCEPT ![h] = b]
    BY <1>1, <1>7, <2>2, <2>3 DEF Version, Read, IInv, TypeOK
  <2>6. b.at = "keep" /\ b.id = a.id /\ b.version = latest[a.id].seq /\ b.old = latest[a.id].rec
    BY <2>1, <2>2, <2>3
  <2>7. Holds(b, latest, Len(log)) /\ Turn(b, latest)
    BY <1>2, <1>4, <2>6 DEF Holds, Turn
  <2>8. QED
    BY <1>3, <2>4, <2>5, <2>7, HandGoesOn
<1>8. QED
  BY <1>1, <1>5, <1>6, <1>7 DEF Again, Rest

----------------------------------------------------------------------------
(* The steps that write.                                                    *)

\* A hand writes over a record and is done.  The line stands if the record is
\* kin to the one that was there, or if the write was blind.
LEMMA WriteOver ==
  ASSUME IInv, History, NEW h \in Hand, ~Idle(h), NEW e \in Event,
         e.op = "amend", e.id \in DOMAIN latest, e.rec \in JotRecord,
         Commit(Inserted(Tables, <<e>>)),
         job' = [job EXCEPT ![h] = None],
         UNCHANGED attachment, UNCHANGED recent,
         blind' \/ Kin(e.rec, latest[e.id].rec),
         alone => ~blind'
  PROVE  IInv'
<1>1. /\ TypeOK /\ CreatedOnce /\ JobsHold /\ Hung /\ Straight /\ TurnsTaken
      /\ attachment' = attachment /\ recent' = recent
  BY DEF IInv
<1>2. /\ log' \in Seq(Event) /\ Len(log') = Len(log) + 1
      /\ DOMAIN latest' = DOMAIN latest
      /\ \A i \in DOMAIN latest' : latest'[i] \in Row
      /\ LatestIsNewest' /\ CreatedOnce'
      /\ latest'[e.id].rec = e.rec /\ latest'[e.id].seq = Len(log) + 1
      /\ \A i \in DOMAIN latest : i # e.id => latest'[i] = latest[i]
      /\ \A i \in DOMAIN latest : FiledAt(i)' = FiledAt(i)
  BY AmendStep
<1>3. Len(log) \in Nat /\ DOMAIN latest \subseteq Id
      /\ \A i \in DOMAIN latest : latest[i].rec \in JotRecord
  BY Tabled
<1>4. /\ job' \in [Hand -> Job \cup {None}] /\ job'[h] = None
      /\ \A g \in Hand : g # h => job'[g] = job[g]
  BY <1>1 DEF TypeOK
<1>5. blind => blind'
  BY DEF History
<1>6. TypeOK'
  <2>1. alone' \in BOOLEAN /\ blind' \in BOOLEAN
    BY <1>1, Zenon DEF History, TypeOK
  <2>2. StoreTypeOK'
    BY <1>1, <1>2, <1>3 DEF TypeOK, StoreTypeOK
  <2>3. \A i \in DOMAIN latest' : latest'[i].rec \in JotRecord
    BY <1>2, <1>3
  <2>4. QED
    BY <1>1, <1>2, <1>4, <2>1, <2>2, <2>3 DEF TypeOK, Read
<1>7. Hung'
  BY <1>1, <1>2 DEF Hung
<1>8. JobsHold'
  <2>1. \A g \in Hand : job[g] # None => Holds(job[g], latest', Len(log'))
    <3>1. Len(log') \in Nat /\ Len(log) <= Len(log')
      BY <1>2, <1>3
    <3>2. \A i \in DOMAIN latest :
            latest'[i] = latest[i] \/ (latest'[i].seq \in Nat /\ Len(log) < latest'[i].seq)
      BY <1>2, <1>3
    <3>3. QED
      BY <1>2, <3>1, <3>2, HoldsOn DEF Idle
  <2>2. QED
    BY <1>4, <2>1 DEF JobsHold, Idle
<1>9. \A i \in DOMAIN latest : Kin(e.rec, latest[e.id].rec) => Kin(latest'[i].rec, latest[i].rec)
  BY <1>2 DEF Kin
<1>10. Straight'
  <2>1. SUFFICES ASSUME ~blind' PROVE Straight'
    BY DEF Straight
  <2>2. ~blind /\ \A i \in DOMAIN latest : Kin(latest'[i].rec, latest[i].rec)
    BY <1>5, <1>9, <2>1
  <2>3. QED
    BY <1>1, <1>2, <2>2 DEF Straight, Read, Kin
<1>11. TurnsTaken'
  <2>1. SUFFICES ASSUME alone' PROVE TurnsTaken'
    BY DEF TurnsTaken
  <2>2. alone /\ InTurn' /\ InTurn
    BY <1>1, <2>1 DEF History, TurnsTaken
  <2>3. ~blind' /\ \A i \in DOMAIN latest : Kin(latest'[i].rec, latest[i].rec)
    BY <1>9, <2>2
  <2>4. \A pic \in DOMAIN attachment' : latest'[attachment'[pic]].rec.by = None
    BY <1>1, <2>2, <2>3 DEF TurnsTaken, Hung, Read, Kin
  <2>5. \A g \in Hand : job'[g] = None
    BY <1>4, <2>2 DEF InTurn, Idle
  <2>6. QED
    BY <2>2, <2>3, <2>4, <2>5 DEF TurnsTaken, Idle, Read
<1>12. QED
  BY <1>2, <1>6, <1>7, <1>8, <1>10, <1>11 DEF IInv

LEMMA KeepWriteKeeps ==
  ASSUME IInv, History, JotRecord \subseteq Rec, NEW h \in Hand, KeepWrite(h)
  PROVE  IInv'
<1>1. PICK b \in Job : b = job[h] /\ b.at = "keep"
  BY DEF IInv, TypeOK, KeepWrite, Idle
<1>2. b.id \in Id /\ b.version \in Nat /\ b.old \in JotRecord
  BY <1>1 DEF Job
<1>3. /\ b.id \in DOMAIN latest /\ b.version = latest[b.id].seq
      /\ b.version = latest[b.id].seq => b.old = latest[b.id].rec
  BY <1>1 DEF IInv, JobsHold, Holds, KeepWrite, AmendIfTx, AtVersion, Version
<1>4. PICK r \in JotRecord : r = [b.old EXCEPT !.kept = TRUE]
  BY <1>2 DEF JotRecord
<1>5. Kin(r, latest[b.id].rec)
  BY <1>2, <1>3, <1>4 DEF JotRecord, Kin
<1>6. PICK e \in Event : e = Amended(b.id, r, b.version)
  BY <1>2 DEF Event, Amended
<1>7. e.op = "amend" /\ e.id = b.id /\ e.rec = r
  BY <1>6 DEF Amended
<1>8. Commit(Inserted(Tables, <<e>>))
  BY <1>1, <1>4, <1>6 DEF KeepWrite, AmendIfTx
<1>9. /\ job' = [job EXCEPT ![h] = None]
      /\ UNCHANGED attachment /\ UNCHANGED recent /\ ~Idle(h)
  BY DEF KeepWrite, Rest
<1>10. alone => ~blind'
  <2>1. \A g \in Hand : g # h => job'[g] = job[g]
    BY <1>9 DEF IInv, TypeOK
  <2>2. ~\E g \in Hand : OverwritesBlindly(g) /\ job'[g] = None
    BY <1>1, <2>1 DEF OverwritesBlindly, Idle
  <2>3. QED
    BY <2>2 DEF History, IInv, TurnsTaken
<1>11. QED
  BY <1>3, <1>5, <1>7, <1>8, <1>9, <1>10, WriteOver

LEMMA AmendWriteKeeps ==
  ASSUME IInv, History, JotRecord \subseteq Rec, NEW h \in Hand, AmendWrite(h)
  PROVE  IInv'
<1>1. PICK b \in Job : b = job[h] /\ b.at = "amend"
  BY DEF IInv, TypeOK, AmendWrite, Idle
<1>2. b.id \in Id /\ b.rec \in JotRecord
  BY <1>1 DEF Job
<1>3. /\ b.id \in DOMAIN latest
      /\ b.version = latest[b.id].seq => Kin(b.rec, latest[b.id].rec)
  BY <1>1 DEF IInv, JobsHold, Holds, AmendWrite
<1>4. PICK e \in Event : e = [id |-> b.id, op |-> "amend", rec |-> b.rec, basis |-> 0]
  BY <1>2 DEF Event
<1>5. e.op = "amend" /\ e.id = b.id /\ e.rec = b.rec
  BY <1>4
<1>6. Commit(Inserted(Tables, <<e>>))
  BY <1>1, <1>4 DEF AmendWrite, AppendTx
<1>7. /\ job' = [job EXCEPT ![h] = None] /\ job'[h] = None
      /\ UNCHANGED attachment /\ UNCHANGED recent /\ ~Idle(h)
  BY DEF AmendWrite, Rest, IInv, TypeOK
<1>8. b.version # latest[b.id].seq => blind'
  BY <1>1, <1>7 DEF History, OverwritesBlindly, Version
<1>9. blind' \/ Kin(e.rec, latest[e.id].rec)
  BY <1>3, <1>5, <1>8
<1>10. alone => ~blind'
  <2>1. SUFFICES ASSUME alone PROVE ~blind'
    OBVIOUS
  <2>2. ~blind /\ \A g \in Hand : ~Idle(g) => Turn(job[g], latest)
    BY <2>1 DEF IInv, TurnsTaken
  <2>3. \A g \in Hand : ~OverwritesBlindly(g)
    BY <2>2 DEF OverwritesBlindly, Turn, Version
  <2>4. QED
    BY <2>2, <2>3 DEF History
<1>11. QED
  BY <1>2, <1>3, <1>5, <1>6, <1>7, <1>9, <1>10, WriteOver

\* What is filed is a jot that corrects none and that none corrects.
LEMMA DraftFact ==
  ASSUME NEW text \in Jot, NEW filer \in Filer, NEW to \in Dest \cup {None}
  PROVE  LET d == Draft(text, filer, to)
         IN  /\ d \in JotRecord /\ d.by = None /\ d.corrects = None
             /\ d.text = text /\ d.filer = filer
<1> DEFINE d == Draft(text, filer, to)
<1>1. d.dest \in Dest /\ d.names \in SUBSET Dest
  <2>1. Mentions[text] \subseteq Dest /\ Box \in Dest
    BY RoutingAssumption
  <2>2. Narrowed(Mentions[text] \ OptOut) \subseteq Dest
    BY <2>1 DEF Narrowed
  <2>3. Cardinality(Narrowed(Mentions[text] \ OptOut)) = 1
          => Narrowed(Mentions[text] \ OptOut) # {}
    BY FS_EmptySet
  <2>4. Route(text) \in Dest
    BY <2>1, <2>2, <2>3 DEF Route
  <2>5. QED
    BY <2>1, <2>4 DEF Draft
<1>2. d \in JotRecord
  BY <1>1 DEF Draft, JotRecord
<1>3. QED
  BY <1>2 DEF Draft

\* A jot is filed under an identifier the log has never carried.
LEMMA FileWriteKeeps ==
  ASSUME IInv, History, JotRecord \subseteq Rec, NEW h \in Hand, FileWrite(h)
  PROVE  IInv'
<1>1. PICK a \in Job : a = job[h] /\ a.at = "file"
  BY DEF IInv, TypeOK, FileWrite, Idle
<1>2. a.text \in Jot /\ a.filer \in Filer /\ a.to \in Dest \cup {None} /\ a.left \in Nat
  BY <1>1 DEF Job
<1> DEFINE d == Draft(a.text, a.filer, a.to)
<1>3. /\ d \in JotRecord /\ d.by = None /\ d.corrects = None
      /\ d.text = a.text /\ d.filer = a.filer
  BY <1>2, DraftFact
<1>4. d.dest \in Dest
  BY <1>3 DEF JotRecord
<1> HIDE DEF d
<1>5. PrefixOf[d.dest] \in Prefix
  BY <1>4, RoutingAssumption
<1>6. log \in Seq(Event) /\ Len(log) \in Nat /\ DOMAIN latest \subseteq Id
      /\ \A i \in DOMAIN latest : latest[i].rec \in JotRecord
  BY Tabled
<1>7. PICK i \in Id \ IdsIn(log) : i = NextId(log, PrefixOf[d.dest])
  BY <1>5, <1>6, NextIdFresh
<1>8. i \notin DOMAIN latest /\ i # None
  BY <1>7, NoneAssumption DEF IInv, LatestIsNewest
<1>9. PICK e \in Event : e = Created(i, d)
  BY <1>3 DEF Event, Created
<1>10. e.op = "create" /\ e.id = i /\ e.rec = d
  BY <1>9 DEF Created
<1>11. PICK b \in Job : b = [at |-> "attach", id |-> i, left |-> a.left]
  BY <1>2 DEF Job
<1>12. b.at = "attach" /\ b.id = i
  BY <1>11
<1>13. /\ Commit(Inserted(Tables, <<e>>))
       /\ recent' = recent \cup {i} /\ job' = [job EXCEPT ![h] = b] /\ attachment' = attachment
  BY <1>1, <1>7, <1>9, <1>11 DEF FileWrite, CreateTx, d
<1>14. /\ log' \in Seq(Event) /\ Len(log') = Len(log) + 1
       /\ DOMAIN latest' = DOMAIN latest \cup {i}
       /\ \A j \in DOMAIN latest' : latest'[j] \in Row
       /\ LatestIsNewest' /\ CreatedOnce'
       /\ latest'[i].rec = d
       /\ \A j \in DOMAIN latest : latest'[j] = latest[j]
       /\ \A j \in DOMAIN latest : FiledAt(j)' = FiledAt(j)
  BY <1>8, <1>10, <1>13, CreateStep
<1>15. /\ TypeOK /\ LatestIsNewest /\ CreatedOnce /\ JobsHold /\ Hung /\ Straight /\ TurnsTaken
  BY DEF IInv
<1>16. /\ job' \in [Hand -> Job \cup {None}] /\ job'[h] = b /\ b # None
       /\ \A g \in Hand : g # h => job'[g] = job[g]
  BY <1>13, <1>15, NoneAssumption DEF TypeOK
<1>17. blind' = blind
  <2>1. ~\E g \in Hand : OverwritesBlindly(g) /\ job'[g] = None
    BY <1>16 DEF OverwritesBlindly, Idle
  <2>2. QED
    BY <1>15, <2>1, Zenon DEF History, TypeOK
<1>18. TypeOK'
  <2>1. alone' \in BOOLEAN /\ blind' \in BOOLEAN
    BY <1>15, Zenon DEF History, TypeOK
  <2>2. StoreTypeOK'
    BY <1>6, <1>7, <1>13, <1>14, <1>15 DEF TypeOK, StoreTypeOK
  <2>3. \A j \in DOMAIN latest' : latest'[j].rec \in JotRecord
    BY <1>3, <1>6, <1>14
  <2>4. recent' \subseteq DOMAIN latest'
    BY <1>13, <1>14, <1>15 DEF TypeOK
  <2>5. QED
    BY <1>16, <2>1, <2>2, <2>3, <2>4 DEF TypeOK, Read
<1>19. Hung'
  BY <1>13, <1>14, <1>15 DEF Hung
<1>20. JobsHold'
  <2>1. Len(log') \in Nat /\ Len(log) <= Len(log')
    BY <1>6, <1>14
  <2>2. \A g \in Hand : job[g] # None => Holds(job[g], latest', Len(log'))
    BY <1>14, <2>1, HoldsOn DEF Idle
  <2>3. Holds(b, latest', Len(log'))
    BY <1>12, <1>14 DEF Holds
  <2>4. QED
    BY <1>16, <2>2, <2>3 DEF JobsHold, Idle
<1>21. Straight'
  BY <1>3, <1>8, <1>13, <1>14, <1>15, <1>17 DEF Straight, Read
<1>22. TurnsTaken'
  <2>1. SUFFICES ASSUME alone' PROVE TurnsTaken'
    BY DEF TurnsTaken
  <2>2. alone /\ InTurn' /\ InTurn
    BY <1>15, <2>1 DEF History, TurnsTaken
  <2>3. \A g \in Hand : g # h => job'[g] = None
    BY <1>1, <1>16, <2>2 DEF InTurn, Idle, FileWrite
  <2>4. Turn(b, latest')
    BY <1>3, <1>12, <1>14 DEF Turn
  <2>5. \A g \in Hand : job'[g] # None => Turn(job'[g], latest')
    BY <1>16, <2>3, <2>4
  <2>6. \A pic \in DOMAIN attachment' : latest'[attachment'[pic]].rec.by = None
    BY <1>13, <1>14, <1>15, <2>2 DEF TurnsTaken, Hung, Read
  <2>7. ~blind'
    BY <1>15, <1>17, <2>2 DEF TurnsTaken
  <2>8. QED
    BY <2>2, <2>5, <2>6, <2>7 DEF TurnsTaken, Idle, Read
<1>23. QED
  BY <1>14, <1>18, <1>19, <1>20, <1>21, <1>22 DEF IInv

----------------------------------------------------------------------------
(* Pictures come and go, and the window passes.                             *)

\* Nobody begins or ends, no record is written, and pictures hang where they
\* may.
LEMMA PicturesMove ==
  ASSUME IInv, History, UNCHANGED <<log, latest>>,
         recent' = recent \/ recent' = {},
         job' \in [Hand -> Job \cup {None}],
         \A g \in Hand : job'[g] = None <=> job[g] = None,
         \A g \in Hand : job'[g] # None => Holds(job'[g], latest, Len(log)),
         alone => \A g \in Hand : job'[g] # None => Turn(job'[g], latest),
         DOMAIN attachment' \subseteq Pic,
         \A pic \in DOMAIN attachment' :
           /\ attachment'[pic] \in DOMAIN latest
           /\ alone => Read(attachment'[pic]).by = None
  PROVE  IInv'
<1>1. /\ TypeOK /\ LatestIsNewest /\ CreatedOnce /\ JobsHold /\ Hung /\ Straight /\ TurnsTaken
      /\ log' = log /\ latest' = latest
  BY DEF IInv
<1>2. blind' = blind
  <2>1. ~\E g \in Hand : OverwritesBlindly(g) /\ job'[g] = None
    BY DEF OverwritesBlindly, Idle
  <2>2. QED
    BY <1>1, <2>1, Zenon DEF History, TypeOK
<1>3. TypeOK'
  <2>1. alone' \in BOOLEAN /\ blind' \in BOOLEAN
    BY <1>1, <1>2, Zenon DEF History, TypeOK
  <2>2. recent' \subseteq DOMAIN latest'
    BY <1>1 DEF TypeOK
  <2>3. StoreTypeOK'
    BY <1>1 DEF TypeOK, StoreTypeOK
  <2>4. QED
    BY <1>1, <2>1, <2>2, <2>3 DEF TypeOK, Read
<1>4. LatestIsNewest' /\ CreatedOnce' /\ Hung'
  BY <1>1 DEF LatestIsNewest, CreatedOnce, Creates, Hung
<1>5. JobsHold'
  BY <1>1 DEF JobsHold, Idle
<1>6. Straight'
  <2>1. \A i \in DOMAIN latest : FiledAt(i)' = FiledAt(i)
    BY <1>1, <1>4, FiledStays
  <2>2. QED
    BY <1>1, <1>2, <2>1 DEF Straight, Read
<1>7. TurnsTaken'
  <2>1. alone' => alone /\ InTurn'
    BY DEF History
  <2>2. QED
    BY <1>1, <1>2, <2>1 DEF TurnsTaken, Idle, Read
<1>8. QED
  BY <1>3, <1>4, <1>5, <1>6, <1>7 DEF IInv

LEMMA AttachNextKeeps ==
  ASSUME IInv, History, NEW h \in Hand, AttachNext(h)
  PROVE  IInv'
<1> DEFINE A == [at : {"attach"}, id : Id, left : Nat]
<1>1. PICK a \in A : a = job[h] /\ a.left > 0
  BY DEF IInv, TypeOK, AttachNext, Idle, Job
<1>2. a.id \in DOMAIN latest /\ a \in Job /\ a # None
  BY <1>1, NoneAssumption DEF IInv, JobsHold, Holds, AttachNext, Job
<1>3. PICK n \in Nat : n = a.left - 1
  BY <1>1
<1>4. PICK b \in A : b = [a EXCEPT !.left = n]
  BY <1>1
<1>5. b \in Job /\ b # None /\ b.at = "attach" /\ b.id = a.id
  BY <1>4, NoneAssumption DEF Job
<1>6. job' = [job EXCEPT ![h] = b]
  BY <1>1, <1>3, <1>4 DEF AttachNext, IInv, TypeOK
<1>7. /\ job' \in [Hand -> Job \cup {None}] /\ job'[h] = b
      /\ \A g \in Hand : g # h => job'[g] = job[g]
  BY <1>5, <1>6 DEF IInv, TypeOK
<1>8. \A g \in Hand : job'[g] = None <=> job[g] = None
  BY <1>1, <1>2, <1>5, <1>7
<1>9. \A g \in Hand : job'[g] # None => Holds(job'[g], latest, Len(log))
  <2>1. Holds(b, latest, Len(log))
    BY <1>2, <1>5 DEF Holds
  <2>2. QED
    BY <1>7, <2>1 DEF IInv, JobsHold, Idle
<1>10. alone => latest[a.id].rec.by = None
  BY <1>1, <1>2 DEF IInv, TurnsTaken, Turn, Idle
<1>11. alone => \A g \in Hand : job'[g] # None => Turn(job'[g], latest)
  <2>1. alone => Turn(b, latest)
    BY <1>5, <1>10 DEF Turn
  <2>2. QED
    BY <1>7, <2>1 DEF IInv, TurnsTaken, Idle
<1>12. PICK pic \in Pic :
         attachment' = [q \in DOMAIN attachment \cup {pic} |->
                          IF q = pic THEN a.id ELSE attachment[q]]
  BY <1>1 DEF AttachNext, AttachTx
<1>13. DOMAIN attachment \subseteq Pic
  BY DEF IInv, TypeOK, StoreTypeOK
<1>14. \A q \in DOMAIN attachment' : attachment'[q] = a.id \/
         (q \in DOMAIN attachment /\ attachment'[q] = attachment[q])
  BY <1>12
<1>15. \A q \in DOMAIN attachment' :
         /\ attachment'[q] \in DOMAIN latest
         /\ alone => Read(attachment'[q]).by = None
  BY <1>2, <1>10, <1>14 DEF IInv, Hung, TurnsTaken, Read
<1>16. UNCHANGED <<log, latest>> /\ recent' = recent /\ DOMAIN attachment' \subseteq Pic
  BY <1>12, <1>13 DEF AttachNext
<1>17. QED
  BY <1>7, <1>8, <1>9, <1>11, <1>15, <1>16, PicturesMove

LEMMA ForgetKeeps ==
  ASSUME IInv, History, NEW pic \in Pic, ForgetImage(pic)
  PROVE  IInv'
<1>1. UNCHANGED <<log, latest>> /\ recent' = recent /\ job' = job
  BY DEF ForgetImage
<1>2. attachment' = [q \in DOMAIN attachment \ {pic} |-> attachment[q]]
  BY DEF ForgetImage, ForgetTx
<1>3. DOMAIN attachment \subseteq Pic
  BY DEF IInv, TypeOK, StoreTypeOK
<1>4. \A q \in DOMAIN attachment' : q \in DOMAIN attachment /\ attachment'[q] = attachment[q]
  BY <1>2
<1>5. \A q \in DOMAIN attachment' :
        /\ attachment'[q] \in DOMAIN latest
        /\ alone => Read(attachment'[q]).by = None
  BY <1>4 DEF IInv, Hung, TurnsTaken
<1>6. DOMAIN attachment' \subseteq Pic
  BY <1>2, <1>3
<1>7. /\ job' \in [Hand -> Job \cup {None}]
      /\ \A g \in Hand : job'[g] # None => Holds(job'[g], latest, Len(log))
      /\ alone => \A g \in Hand : job'[g] # None => Turn(job'[g], latest)
  BY <1>1 DEF IInv, TypeOK, JobsHold, TurnsTaken, Idle
<1>8. QED
  BY <1>1, <1>5, <1>6, <1>7, PicturesMove

LEMMA WindowPassesKeeps ==
  ASSUME IInv, History, WindowPasses
  PROVE  IInv'
<1>1. UNCHANGED <<log, latest>> /\ recent' = {} /\ job' = job /\ attachment' = attachment
  BY DEF WindowPasses, storeVars
<1>2. /\ DOMAIN attachment' \subseteq Pic
      /\ \A q \in DOMAIN attachment' :
           /\ attachment'[q] \in DOMAIN latest
           /\ alone => Read(attachment'[q]).by = None
  BY <1>1 DEF IInv, TypeOK, StoreTypeOK, Hung, TurnsTaken
<1>3. /\ job' \in [Hand -> Job \cup {None}]
      /\ \A g \in Hand : job'[g] # None => Holds(job'[g], latest, Len(log))
      /\ alone => \A g \in Hand : job'[g] # None => Turn(job'[g], latest)
  BY <1>1 DEF IInv, TypeOK, JobsHold, TurnsTaken, Idle
<1>4. QED
  BY <1>1, <1>2, <1>3, PicturesMove

----------------------------------------------------------------------------
(* Moving a jot.                                                            *)

\* The record filed in place of r is a jot of its own that says what r said.
LEMMA RefiledFact ==
  ASSUME NEW r \in JotRecord, r.by = None, NEW i \in Id, NEW to \in Dest
  PROVE  LET f == Refiled(i, r, to)
         IN  /\ f \in JotRecord
             /\ f.text = r.text /\ f.filer = r.filer /\ f.by = None /\ f.corrects = i
             /\ f.word = r.word \/ r.word \in f.noted
             /\ r.noted \subseteq f.noted
<1> DEFINE c == CarriedWord(r, PrefixOf[to])
           N == IF to = Box THEN r.names \ {to} ELSE {}
<1>1. /\ c \in JotRecord /\ c.text = r.text /\ c.filer = r.filer /\ c.by = None
      /\ r.noted \subseteq c.noted
      /\ c.word = r.word \/ r.word \in c.noted
  <2>1. CASE c = r
    BY <2>1
  <2>2. CASE c = [r EXCEPT !.word = Unreviewed, !.noted = @ \cup ({r.word} \ {Unreviewed})]
    <3>1. PICK W \in SUBSET (Word \cup {Superseded}) : W = r.noted \cup ({r.word} \ {Unreviewed})
      BY DEF JotRecord
    <3>2. c = [r EXCEPT !.word = Unreviewed, !.noted = W]
      BY <2>2, <3>1
    <3>3. Unreviewed \in Word \cup {Unreviewed, Superseded}
      OBVIOUS
    <3>4. /\ c \in JotRecord /\ c.text = r.text /\ c.filer = r.filer /\ c.by = None
          /\ c.noted = W /\ c.word = Unreviewed
      BY <3>2, <3>3 DEF JotRecord
    <3>5. QED
      BY <3>1, <3>4
  <2>3. QED
    BY <2>1, <2>2 DEF CarriedWord
<1>2. N \in SUBSET Dest
  BY DEF JotRecord
<1>3. PICK k \in BOOLEAN : k = (r.kept /\ N # {})
  BY Zenon
<1>4. Refiled(i, r, to) = [c EXCEPT !.dest = to, !.names = N, !.kept = k, !.corrects = i]
  BY <1>3 DEF Refiled
<1> HIDE DEF c, N
<1>5. LET f == [c EXCEPT !.dest = to, !.names = N, !.kept = k, !.corrects = i]
      IN  /\ f \in JotRecord
          /\ f.text = c.text /\ f.filer = c.filer /\ f.by = c.by /\ f.corrects = i
          /\ f.word = c.word /\ f.noted = c.noted
  BY <1>1, <1>2, <1>3 DEF JotRecord
<1>6. QED
  BY <1>1, <1>4, <1>5

LEMMA RetiredFact ==
  ASSUME NEW r \in JotRecord, NEW j \in Id
  PROVE  LET f == Retired(r, j)
         IN  /\ f \in JotRecord /\ f.by = j
             /\ f.text = r.text /\ f.filer = r.filer /\ f.corrects = r.corrects
  BY DEF Retired, JotRecord

\* What the step does to the tables.
LEMMA Moved ==
  ASSUME IInv, JotRecord \subseteq Rec, NEW h \in Hand, RerouteWrite(h)
  PROVE  \E i \in DOMAIN latest, j \in Id \ DOMAIN latest :
           /\ j = NextId(log, PrefixOf[job[h].to])
           /\ Read(i).by = None
           /\ log' \in Seq(Event) /\ Len(log') = Len(log) + 2
           /\ DOMAIN latest' = DOMAIN latest \cup {j}
           /\ \A x \in DOMAIN latest' : latest'[x] \in Row /\ latest'[x].rec \in JotRecord
           /\ LatestIsNewest' /\ CreatedOnce'
           /\ latest'[i].seq = Len(log) + 2
           /\ latest'[i].rec.by = j /\ latest'[i].rec.corrects = Read(i).corrects
           /\ latest'[i].rec.text = Read(i).text /\ latest'[i].rec.filer = Read(i).filer
           /\ latest'[j].rec.by = None /\ latest'[j].rec.corrects = i
           /\ latest'[j].rec.text = Read(i).text /\ latest'[j].rec.filer = Read(i).filer
           /\ latest'[j].rec.word = Read(i).word \/ Read(i).word \in latest'[j].rec.noted
           /\ Read(i).noted \subseteq latest'[j].rec.noted
           /\ \A x \in DOMAIN latest : x # i => latest'[x] = latest[x]
           /\ \A x \in DOMAIN latest : FiledAt(x)' = FiledAt(x) /\ FiledAt(x) \in 1..Len(log)
           /\ FiledAt(j)' = Len(log) + 1
           /\ attachment' = MovedTo(i, j)
<1>1. PICK b \in Job : b = job[h] /\ b.at = "supersede"
  BY DEF IInv, TypeOK, RerouteWrite, Idle
<1>2. b.id \in Id /\ b.version \in Nat /\ b.old \in JotRecord /\ b.to \in Dest
  BY <1>1 DEF Job
<1>3. /\ b.id \in DOMAIN latest /\ b.version = latest[b.id].seq
      /\ b.version = latest[b.id].seq => b.old = latest[b.id].rec
      /\ b.old.by = None
  BY <1>1 DEF IInv, JobsHold, Holds, RerouteWrite, SupersedeTx, AtVersion, Version
<1>4. PICK p \in Prefix : p = PrefixOf[b.to]
  BY <1>2, RoutingAssumption
<1>5. log \in Seq(Event) /\ DOMAIN latest \subseteq Id
      /\ \A i \in DOMAIN latest : latest[i].rec \in JotRecord
  BY Tabled
<1>6. PICK j \in Id \ IdsIn(log) : j = NextId(log, p)
  BY <1>4, <1>5, NextIdFresh
<1>7. j \notin DOMAIN latest
  BY <1>6 DEF IInv, LatestIsNewest
<1>8. PICK fresh \in JotRecord :
        /\ fresh = Refiled(b.id, b.old, b.to)
        /\ fresh.text = b.old.text /\ fresh.filer = b.old.filer
        /\ fresh.by = None /\ fresh.corrects = b.id
        /\ fresh.word = b.old.word \/ b.old.word \in fresh.noted
        /\ b.old.noted \subseteq fresh.noted
  BY <1>2, <1>3, RefiledFact
<1>9. PICK stub \in JotRecord :
        /\ stub = Retired(b.old, j) /\ stub.by = j
        /\ stub.text = b.old.text /\ stub.filer = b.old.filer
        /\ stub.corrects = b.old.corrects
  BY <1>2, <1>6, RetiredFact
<1>10. PICK e \in Event, f \in Event : e = Created(j, fresh) /\ f = Amended(b.id, stub, b.version)
  BY <1>2, <1>6, <1>8, <1>9 DEF Event, Created, Amended
<1>11. /\ e.op = "create" /\ e.id = j /\ e.rec = fresh
       /\ f.op = "amend" /\ f.id = b.id /\ f.rec = stub
  BY <1>10 DEF Created, Amended
<1>12. Commit(Inserted(Tables, <<e, f>>)) /\ attachment' = MovedTo(b.id, j)
  BY <1>1, <1>4, <1>6, <1>8, <1>9, <1>10 DEF RerouteWrite, SupersedeTx
<1>13. /\ log' \in Seq(Event) /\ Len(log') = Len(log) + 2
       /\ DOMAIN latest' = DOMAIN latest \cup {j}
       /\ \A x \in DOMAIN latest' : latest'[x] \in Row
       /\ LatestIsNewest' /\ CreatedOnce'
       /\ latest'[j].rec = fresh
       /\ latest'[b.id].rec = stub /\ latest'[b.id].seq = Len(log) + 2
       /\ \A x \in DOMAIN latest : x # b.id => latest'[x] = latest[x]
       /\ \A x \in DOMAIN latest : FiledAt(x)' = FiledAt(x) /\ FiledAt(x) \in 1..Len(log)
       /\ FiledAt(j)' = Len(log) + 1
  BY <1>3, <1>7, <1>11, <1>12, SwapStep
<1>14. \A x \in DOMAIN latest' : latest'[x].rec \in JotRecord
  BY <1>5, <1>8, <1>9, <1>13
<1>15. Read(b.id) = b.old
  BY <1>3 DEF Read
<1>16. j = NextId(log, PrefixOf[job[h].to])
  BY <1>1, <1>4, <1>6
<1>17. QED
  BY <1>3, <1>7, <1>8, <1>9, <1>12, <1>13, <1>14, <1>15, <1>16

LEMMA RerouteWriteKeeps ==
  ASSUME IInv, History, JotRecord \subseteq Rec, NEW h \in Hand, RerouteWrite(h)
  PROVE  IInv'
<1>1. PICK i \in DOMAIN latest, j \in Id \ DOMAIN latest :
        /\ j = NextId(log, PrefixOf[job[h].to])
        /\ Read(i).by = None
        /\ log' \in Seq(Event) /\ Len(log') = Len(log) + 2
        /\ DOMAIN latest' = DOMAIN latest \cup {j}
        /\ \A x \in DOMAIN latest' : latest'[x] \in Row /\ latest'[x].rec \in JotRecord
        /\ LatestIsNewest' /\ CreatedOnce'
        /\ latest'[i].seq = Len(log) + 2
        /\ latest'[i].rec.by = j /\ latest'[i].rec.corrects = Read(i).corrects
        /\ latest'[i].rec.text = Read(i).text /\ latest'[i].rec.filer = Read(i).filer
        /\ latest'[j].rec.by = None /\ latest'[j].rec.corrects = i
        /\ latest'[j].rec.text = Read(i).text /\ latest'[j].rec.filer = Read(i).filer
        /\ \A x \in DOMAIN latest : x # i => latest'[x] = latest[x]
        /\ \A x \in DOMAIN latest : FiledAt(x)' = FiledAt(x) /\ FiledAt(x) \in 1..Len(log)
        /\ FiledAt(j)' = Len(log) + 1
        /\ attachment' = MovedTo(i, j)
  BY Moved
<1>2. /\ TypeOK /\ LatestIsNewest /\ CreatedOnce /\ JobsHold /\ Hung /\ Straight /\ TurnsTaken
  BY DEF IInv
<1>3. Len(log) \in Nat /\ DOMAIN latest \subseteq Id
  BY Tabled
<1>4. /\ recent' = recent \cup {j} /\ job' = [job EXCEPT ![h] = None]
      /\ job[h].at = "supersede" /\ ~Idle(h)
  BY <1>1 DEF RerouteWrite, Rest
<1>5. /\ job' \in [Hand -> Job \cup {None}] /\ job'[h] = None
      /\ \A g \in Hand : g # h => job'[g] = job[g]
  BY <1>2, <1>4 DEF TypeOK
<1>6. blind' = blind
  <2>1. ~\E g \in Hand : OverwritesBlindly(g) /\ job'[g] = None
    BY <1>4, <1>5 DEF OverwritesBlindly, Idle
  <2>2. QED
    BY <1>2, <2>1, Zenon DEF History, TypeOK
<1>7. \A pic \in DOMAIN attachment' :
        /\ pic \in DOMAIN attachment
        /\ \/ attachment'[pic] = j
           \/ attachment'[pic] = attachment[pic] /\ attachment[pic] # i
  BY <1>1 DEF MovedTo
<1>8. TypeOK'
  <2>1. alone' \in BOOLEAN /\ blind' \in BOOLEAN
    BY <1>2, Zenon DEF History, TypeOK
  <2>2. DOMAIN attachment' \subseteq Pic /\ \A pic \in DOMAIN attachment' : attachment'[pic] \in Id
    BY <1>2, <1>7 DEF TypeOK, StoreTypeOK
  <2>3. StoreTypeOK'
    BY <1>1, <1>3, <2>2 DEF StoreTypeOK
  <2>4. recent' \subseteq DOMAIN latest'
    BY <1>1, <1>2, <1>4 DEF TypeOK
  <2>5. QED
    BY <1>1, <1>5, <2>1, <2>3, <2>4 DEF TypeOK, Read
<1>9. Hung'
  BY <1>1, <1>2, <1>7 DEF Hung
<1>10. JobsHold'
  <2>1. Len(log') \in Nat /\ Len(log) <= Len(log')
    BY <1>1, <1>3
  <2>2. \A x \in DOMAIN latest :
          latest'[x] = latest[x] \/ (latest'[x].seq \in Nat /\ Len(log) < latest'[x].seq)
    BY <1>1, <1>3
  <2>3. \A g \in Hand : job[g] # None => Holds(job[g], latest', Len(log'))
    BY <1>1, <2>1, <2>2, HoldsOn DEF Idle
  <2>4. QED
    BY <1>5, <2>3 DEF JobsHold, Idle
<1>11. Straight'
  <2>1. SUFFICES ASSUME ~blind' PROVE Straight'
    BY DEF Straight
  <2>2. ~blind /\ i # None /\ j # None /\ i # j
    BY <1>1, <1>3, <1>6, <2>1, NoneAssumption
  <2>3. ASSUME NEW x \in DOMAIN latest', latest'[x].rec.by # None
        PROVE  LET y == latest'[x].rec.by
               IN  /\ y \in DOMAIN latest'
                   /\ latest'[y].rec.corrects = x
                   /\ latest'[y].rec.text = latest'[x].rec.text
                   /\ latest'[y].rec.filer = latest'[x].rec.filer
                   /\ x \in recent' => y \in recent'
    <3>1. CASE x = i
      BY <1>1, <1>4, <3>1
    <3>2. CASE x = j
      BY <1>1, <2>3, <3>2
    <3>3. CASE x # i /\ x # j
      <4>1. x \in DOMAIN latest /\ latest'[x] = latest[x]
        BY <1>1, <3>3
      <4>2. PICK y \in DOMAIN latest :
              /\ y = latest[x].rec.by /\ latest[y].rec.corrects = x
              /\ latest[y].rec.text = latest[x].rec.text
              /\ latest[y].rec.filer = latest[x].rec.filer
              /\ x \in recent => y \in recent
        BY <1>2, <2>2, <2>3, <4>1 DEF Straight, Read
      <4>3. /\ latest'[y].rec.corrects = latest[y].rec.corrects
            /\ latest'[y].rec.text = latest[y].rec.text
            /\ latest'[y].rec.filer = latest[y].rec.filer
        BY <1>1 DEF Read
      <4>4. QED
        BY <1>1, <1>4, <3>3, <4>1, <4>2, <4>3
    <3>4. QED
      BY <3>1, <3>2, <3>3
  <2>4. ASSUME NEW x \in DOMAIN latest', NEW z, z = latest'[x].rec.corrects, z # None
        PROVE  z \in DOMAIN latest' /\ latest'[z].rec.by = x /\ FiledAt(z)' < FiledAt(x)'
    <3>1. CASE x = j
      <4>1. z = i /\ latest'[i].rec.by = x /\ i \in DOMAIN latest'
        BY <1>1, <2>4, <3>1
      <4>2. FiledAt(i)' \in 1..Len(log) /\ FiledAt(j)' = Len(log) + 1
        BY <1>1
      <4>3. FiledAt(i)' < FiledAt(j)'
        BY <1>3, <4>2
      <4>4. QED
        BY <3>1, <4>1, <4>3
    <3>2. CASE x # j
      <4>1. x \in DOMAIN latest /\ latest'[x].rec.corrects = latest[x].rec.corrects
        BY <1>1, <3>2 DEF Read
      <4>2. PICK y \in DOMAIN latest :
              y = latest[x].rec.corrects /\ latest[y].rec.by = x /\ FiledAt(y) < FiledAt(x)
        BY <1>2, <2>2, <2>4, <4>1 DEF Straight, Read
      <4>3. y # i
        BY <1>1, <1>3, <4>1, <4>2, NoneAssumption DEF Read
      <4>4. latest'[y] = latest[y] /\ y \in DOMAIN latest' /\ y = z
        BY <1>1, <2>4, <4>1, <4>2, <4>3
      <4>5. FiledAt(y)' = FiledAt(y) /\ FiledAt(x)' = FiledAt(x)
        BY <1>1, <4>1
      <4>6. QED
        BY <4>2, <4>4, <4>5
    <3>3. QED
      BY <3>1, <3>2
  <2>5. QED
    BY <2>3, <2>4 DEF Straight, Read
<1>12. TurnsTaken'
  <2>1. SUFFICES ASSUME alone' PROVE TurnsTaken'
    BY DEF TurnsTaken
  <2>2. alone /\ InTurn' /\ InTurn
    BY <1>2, <2>1 DEF History, TurnsTaken
  <2>3. \A g \in Hand : job'[g] = None
    BY <1>4, <1>5, <2>2 DEF InTurn, Idle
  <2>4. \A pic \in DOMAIN attachment' : latest'[attachment'[pic]].rec.by = None
    BY <1>1, <1>2, <1>7, <2>2 DEF TurnsTaken, Hung, Read
  <2>5. ~blind'
    BY <1>2, <1>6, <2>2 DEF TurnsTaken
  <2>6. QED
    BY <2>2, <2>3, <2>4, <2>5 DEF TurnsTaken, Idle, Read
<1>13. QED
  BY <1>1, <1>8, <1>9, <1>10, <1>11, <1>12 DEF IInv

\* A keep or a triage writes over one record.
LEMMA Rewritten ==
  ASSUME IInv, JotRecord \subseteq Rec, NEW h \in Hand, KeepWrite(h) \/ AmendWrite(h)
  PROVE  \E i \in DOMAIN latest, e \in Event :
           e.op = "amend" /\ e.id = i /\ Commit(Inserted(Tables, <<e>>))
<1>1. PICK b \in Job : b = job[h] /\ b.at \in {"keep", "amend"}
  BY DEF IInv, TypeOK, KeepWrite, AmendWrite, Idle
<1>2. b.id \in DOMAIN latest /\ b.id \in Id
  BY <1>1, Tabled DEF IInv, JobsHold, Holds, KeepWrite, AmendWrite
<1>3. CASE KeepWrite(h)
  <2>1. b.at = "keep" /\ b.version \in Nat /\ b.old \in JotRecord
    BY <1>1, <1>3 DEF KeepWrite, Job
  <2>2. PICK r \in JotRecord : r = [b.old EXCEPT !.kept = TRUE]
    BY <2>1 DEF JotRecord
  <2>3. PICK e \in Event : e = Amended(b.id, r, b.version)
    BY <1>2, <2>1 DEF Event, Amended
  <2>4. e.op = "amend" /\ e.id = b.id /\ Commit(Inserted(Tables, <<e>>))
    BY <1>1, <1>3, <2>2, <2>3 DEF KeepWrite, AmendIfTx, Amended
  <2>5. QED
    BY <1>2, <2>4
<1>4. CASE AmendWrite(h)
  <2>1. b.at = "amend" /\ b.rec \in JotRecord
    BY <1>1, <1>4 DEF AmendWrite, Job
  <2>2. PICK e \in Event : e = [id |-> b.id, op |-> "amend", rec |-> b.rec, basis |-> 0]
    BY <1>2, <2>1 DEF Event
  <2>3. e.op = "amend" /\ e.id = b.id /\ Commit(Inserted(Tables, <<e>>))
    BY <1>1, <1>4, <2>2 DEF AmendWrite, AppendTx
  <2>4. QED
    BY <1>2, <2>3
<1>5. QED
  BY <1>3, <1>4

\* A filing corrects nothing.
LEMMA FiledCorrectsNone ==
  ASSUME IInv, JotRecord \subseteq Rec, NEW h \in Hand, FileWrite(h)
  PROVE  \A j \in DOMAIN latest' \ DOMAIN latest : latest'[j].rec.corrects = None
<1>1. PICK a \in Job : a = job[h] /\ a.at = "file"
  BY DEF IInv, TypeOK, FileWrite, Idle
<1>2. a.text \in Jot /\ a.filer \in Filer /\ a.to \in Dest \cup {None}
  BY <1>1 DEF Job
<1>3. PICK d \in JotRecord : d = Draft(a.text, a.filer, a.to) /\ d.corrects = None
  BY <1>2, DraftFact
<1>4. PrefixOf[d.dest] \in Prefix
  BY <1>3, RoutingAssumption DEF JotRecord
<1>5. PICK i \in Id \ IdsIn(log) : i = NextId(log, PrefixOf[d.dest])
  BY <1>4, Tabled, NextIdFresh
<1>6. PICK e \in Event : e = Created(i, d)
  BY DEF Event, Created
<1>7. e.op = "create" /\ e.id = i /\ e.rec = d /\ i \notin DOMAIN latest
  BY <1>5, <1>6 DEF Created, IInv, LatestIsNewest
<1>8. Commit(Inserted(Tables, <<e>>))
  BY <1>1, <1>3, <1>5, <1>6 DEF FileWrite, CreateTx
<1>9. DOMAIN latest' = DOMAIN latest \cup {i} /\ latest'[i].rec = d
  BY <1>7, <1>8, CreateStep
<1>10. QED
  BY <1>3, <1>9

----------------------------------------------------------------------------
(* The invariant.                                                           *)

LEMMA IInvInit ==
  ASSUME Init
  PROVE  IInv
<1>1. /\ log = << >> /\ DOMAIN latest = {} /\ DOMAIN attachment = {} /\ recent = {}
      /\ job = [h \in Hand |-> None] /\ alone = TRUE /\ blind = FALSE
  BY DEF Init, StoreInit
<1>2. log \in Seq(Event) /\ DOMAIN log = {}
  BY <1>1
<1>3. TypeOK
  BY <1>1, <1>2 DEF TypeOK, StoreTypeOK
<1>4. LatestIsNewest /\ CreatedOnce
  BY <1>1, <1>2 DEF LatestIsNewest, IdsIn, CreatedOnce
<1>5. JobsHold /\ Hung /\ Straight
  BY <1>1 DEF JobsHold, Idle, Hung, Straight
<1>6. TurnsTaken
  BY <1>1 DEF TurnsTaken, InTurn, Idle
<1>7. QED
  BY <1>3, <1>4, <1>5, <1>6 DEF IInv

LEMMA IInvStep ==
  ASSUME IInv, JotRecord \subseteq Rec, [Next]_vars
  PROVE  IInv'
<1>1. CASE UNCHANGED vars
  <2>1. /\ log' = log /\ latest' = latest /\ attachment' = attachment /\ job' = job
        /\ recent' = recent /\ alone' = alone /\ blind' = blind
    BY <1>1 DEF vars, storeVars
  <2>2. /\ TypeOK' /\ LatestIsNewest' /\ CreatedOnce' /\ JobsHold' /\ Hung'
    BY <2>1 DEF IInv, TypeOK, StoreTypeOK, LatestIsNewest, CreatedOnce, Creates, JobsHold,
                Hung, Idle, Read
  <2>3. \A i \in DOMAIN latest : FiledAt(i)' = FiledAt(i)
    BY <2>1, <2>2, FiledStays DEF IInv
  <2>4. Straight' /\ TurnsTaken'
    BY <2>1, <2>3 DEF IInv, Straight, TurnsTaken, InTurn, Idle, Read
  <2>5. QED
    BY <2>2, <2>4 DEF IInv
<1>2. CASE Next
  <2>1. History
    BY <1>2 DEF Next, History
  <2>2. ASSUME NEW h \in Hand, Begin(h)
        PROVE  IInv'
    BY <2>1, <2>2, LookKeeps, RerouteAsked, KeepReadKeeps, AmendReadKeeps DEF Begin
  <2>3. ASSUME NEW h \in Hand, Continue(h)
        PROVE  IInv'
    BY <2>1, <2>3, FileWriteKeeps, AttachNextKeeps, AttachEndsKeeps, RerouteReadKeeps,
       RerouteWriteKeeps, KeepWriteKeeps, AgainKeeps, AmendWriteKeeps DEF Continue
  <2>4. CASE WindowPasses
    BY <2>1, <2>4, WindowPassesKeeps
  <2>5. ASSUME NEW pic \in Pic, ForgetImage(pic)
        PROVE  IInv'
    BY <2>1, <2>5, ForgetKeeps
  <2>6. QED
    BY <1>2, <2>2, <2>3, <2>4, <2>5 DEF Next
<1>3. QED
  BY <1>1, <1>2

LEMMA IInvAlways ==
  ASSUME JotRecord \subseteq Rec
  PROVE  Spec => []IInv
<1>1. Init => IInv
  BY IInvInit
<1>2. IInv /\ [Next]_vars => IInv'
  BY IInvStep
<1>3. QED
  BY <1>1, <1>2, PTL DEF Spec

\* What a step may do to the records it adds.
LEMMA AddedCarryClaims ==
  ASSUME IInv, JotRecord \subseteq Rec, [Next]_vars, NEW j \in DOMAIN latest' \ DOMAIN latest,
         latest'[j].rec.corrects # None
  PROVE  LET i == latest'[j].rec.corrects
         IN  /\ latest'[j].rec.text = Read(i).text
             /\ \/ latest'[j].rec.word = Read(i).word
                \/ Read(i).word \in latest'[j].rec.noted
             /\ Read(i).noted \subseteq latest'[j].rec.noted
<1>1. Next /\ latest' # latest
  BY DEF vars, storeVars
<1>2. PICK h \in Hand :
        FileWrite(h) \/ RerouteWrite(h) \/ KeepWrite(h) \/ AmendWrite(h)
  BY <1>1 DEF Next, Begin, Continue, FileLook, RerouteByCommand, MoveByPage, KeepRead,
              AmendRead, AttachNext, AttachEnds, RerouteRead, Again, WindowPasses,
              ForgetImage, storeVars
<1>3. CASE FileWrite(h)
  BY <1>3, FiledCorrectsNone
<1>4. CASE RerouteWrite(h)
  <2>1. PICK i \in DOMAIN latest, k \in Id \ DOMAIN latest :
          /\ DOMAIN latest' = DOMAIN latest \cup {k}
          /\ latest'[k].rec.corrects = i /\ latest'[k].rec.text = Read(i).text
          /\ latest'[k].rec.word = Read(i).word \/ Read(i).word \in latest'[k].rec.noted
          /\ Read(i).noted \subseteq latest'[k].rec.noted
    BY <1>4, Moved
  <2>2. j = k
    BY <2>1
  <2>3. QED
    BY <2>1, <2>2
<1>5. CASE KeepWrite(h) \/ AmendWrite(h)
  <2>1. PICK i \in DOMAIN latest, e \in Event :
          e.op = "amend" /\ e.id = i /\ Commit(Inserted(Tables, <<e>>))
    BY <1>5, Rewritten
  <2>2. DOMAIN latest' = DOMAIN latest
    BY <2>1, AmendStep
  <2>3. QED
    BY <2>2
<1>6. QED
  BY <1>2, <1>3, <1>4, <1>5

----------------------------------------------------------------------------
(* What the invariant says.  The store keeps any payload it is given; the   *)
(* theorems are about a store that takes jots.                              *)

\* The tables hold jots and each hand's request is at a known step.
THEOREM TypeCorrect ==
  ASSUME JotRecord \subseteq Rec
  PROVE  Spec => []TypeOK
<1>1. IInv => TypeOK
  BY DEF IInv
<1>2. QED
  BY <1>1, IInvAlways, PTL

\* What a jot became is one line of records, whoever moves, keeps and amends
\* it at once, unless an amend wrote over what it had not read.
THEOREM OneLine ==
  ASSUME JotRecord \subseteq Rec
  PROVE  Spec => []LineOfRecords
<1>1. IInv => LineOfRecords
  <2>1. SUFFICES ASSUME IInv, ~blind
                 PROVE  LineOfRecords
    BY DEF LineOfRecords
  <2>2. QED
    BY <2>1 DEF IInv, Straight, LineOfRecords, CorrectedBy
<1>2. QED
  BY <1>1, IInvAlways, PTL

\* As long as hands take turns, no picture hangs on a stub.
THEOREM PicturesFollow ==
  ASSUME JotRecord \subseteq Rec
  PROVE  Spec => []PicturesOnLiveRecords
<1>1. IInv => PicturesOnLiveRecords
  BY DEF IInv, TurnsTaken, PicturesOnLiveRecords, CorrectedBy
<1>2. QED
  BY <1>1, IInvAlways, PTL

\* A move carries the text, the word and the Note the record had the moment
\* before, amendments between the read and the write included.
THEOREM ClaimsCarried ==
  ASSUME JotRecord \subseteq Rec
  PROVE  Spec => MoveCarriesClaims
<1>1. ASSUME IInv, [Next]_vars
      PROVE  \A j \in DOMAIN latest' \ DOMAIN latest :
               LET i == latest'[j].rec.corrects
               IN  i # None =>
                     /\ latest'[j].rec.text = Read(i).text
                     /\ \/ latest'[j].rec.word = Read(i).word
                        \/ Read(i).word \in latest'[j].rec.noted
                     /\ Read(i).noted \subseteq latest'[j].rec.noted
  BY <1>1, AddedCarryClaims
<1>2. QED
  BY <1>1, IInvAlways, PTL DEF Spec, MoveCarriesClaims
=============================================================================
