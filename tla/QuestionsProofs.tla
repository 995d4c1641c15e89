--------------------------- MODULE QuestionsProofs ---------------------------
(***************************************************************************)
(* The queue of questions for any number of hands, agents, projects and    *)
(* texts.  Hands write back whole records they read some time ago, so an   *)
(* invariant of the table alone is not inductive: what a stale write may   *)
(* carry has to be known while it is still in a hand (Due), and what it    *)
(* says when no other hand has run in between (Turn).                      *)
(* And the queue refines QuestionQueue: what a hand holds is one lawful    *)
(* move from something the log already says of the question (JobsMove).    *)
(***************************************************************************)
EXTENDS Questions, RecordLogProofs

\* What any question may say, in the table or in a hand.
Sound(q) ==
  /\ q.answer # None => q.answer.by # q.askedBy \/ (q.relayed /\ q.answer.elsewhere)
  /\ IsOpen(q) => q.answer = None

Told(i, q, lines) ==
  q.delivered = "typed" => \E n \in DOMAIN lines : lines[n].id = i /\ lines[n].said = q.answer

\* What a write under way may carry, whatever ran since its read.
Due(b, known, lines) ==
  /\ b.id \in DOMAIN known
  /\ Sound(b.rec)
  /\ IsOpen(b.rec) => b.rec.surfaced /\ b.op = "surface"
  /\ b.rec.needed = known[b.id].rec.needed
  /\ b.types => b.rec.answer \in Said
  /\ ~b.types => Told(b.id, b.rec, lines)

\* What it carries when nothing ran since its read.
Turn(b, known) ==
  /\ b.op = "surface" => b.rec.status = known[b.id].rec.status
  /\ \/ b.again
     \/ known[b.id].rec.answer = None
     \/ b.rec.answer = known[b.id].rec.answer

TableSound == \A i \in DOMAIN latest : Sound(Read(i)) /\ Told(i, Read(i), pane)
JobsDue    == \A h \in Hand : ~Idle(h) => Due(job[h], latest, pane)
TurnsTaken == alone => InTurn /\ \A h \in Hand : ~Idle(h) => Turn(job[h], latest)

IInv == TypeOK /\ LatestIsNewest /\ TableSound /\ JobsDue /\ TurnsTaken

Alone == alone' = (alone /\ InTurn')

----------------------------------------------------------------------------

\* A hand that begins a job, and one that goes on with it, keep the invariant
\* when the job they leave behind is one that may be there.
LEMMA BeginKeeps ==
  ASSUME IInv, NEW h \in Hand, NEW b \in Job,
         job' = [job EXCEPT ![h] = b],
         UNCHANGED <<storeVars, gone>>,
         pane' \in Seq(Line),
         \A n \in DOMAIN pane : n \in DOMAIN pane' /\ pane'[n] = pane[n],
         Due(b, latest, pane'),
         alone => Turn(b, latest),
         Alone
  PROVE  IInv'
<1>1. /\ TypeOK /\ LatestIsNewest /\ TableSound /\ JobsDue /\ TurnsTaken
      /\ log' = log /\ latest' = latest /\ attachment' = attachment /\ gone' = gone
  BY DEF IInv, storeVars
<1>2. b # None
  BY NoneAssumption
<1>3. /\ job' \in [Hand -> Job \cup {None}]
      /\ job'[h] = b /\ \A g \in Hand : g # h => job'[g] = job[g]
  BY <1>1 DEF TypeOK
<1>4. TypeOK'
  <2>1. StoreTypeOK'
    BY <1>1 DEF TypeOK, StoreTypeOK
  <2>2. gone' \subseteq {g \in Hand : job'[g] # None}
    BY <1>1, <1>2, <1>3 DEF TypeOK, Idle
  <2>3. alone' \in BOOLEAN
    BY DEF Alone
  <2>4. QED
    BY <1>3, <2>1, <2>2, <2>3 DEF TypeOK, Idle
<1>5. LatestIsNewest'
  BY <1>1 DEF LatestIsNewest
<1>6. \A i, q : Told(i, q, pane) => Told(i, q, pane')
  BY DEF Told
<1>7. TableSound'
  BY <1>1, <1>6 DEF TableSound, Read
<1>8. \A g \in Hand : job'[g] # None => Due(job'[g], latest, pane')
  BY <1>1, <1>3, <1>6 DEF JobsDue, Idle, Due
<1>9. JobsDue'
  BY <1>1, <1>8 DEF JobsDue, Idle
<1>10. TurnsTaken'
  <2>1. alone' => alone /\ InTurn'
    BY DEF Alone
  <2>2. alone => \A g \in Hand : job'[g] # None => Turn(job'[g], latest)
    BY <1>1, <1>3 DEF TurnsTaken, Idle
  <2>3. QED
    BY <1>1, <2>1, <2>2 DEF TurnsTaken, Idle
<1>11. QED
  BY <1>4, <1>5, <1>7, <1>9, <1>10 DEF IInv

\* The questions of the table are questions.
LEMMA RowsAreQuestions ==
  ASSUME TypeOK
  PROVE  \A i \in DOMAIN latest : Read(i) \in Question /\ i \in Id
BY RecAssumption DEF TypeOK, StoreTypeOK, Row, Read

\* A write of a record that may be written keeps the invariant.
LEMMA WriteKeeps ==
  ASSUME IInv, NEW h \in Hand, Write(h), Alone
  PROVE  IInv'
<1>1. /\ TypeOK /\ LatestIsNewest /\ TableSound /\ JobsDue /\ TurnsTaken
      /\ attachment' = attachment /\ pane' = pane
      /\ job' = [job EXCEPT ![h] = None] /\ gone' = gone \ {h}
  BY DEF IInv, Write, Done
<1>2. PICK b \in Job : b = job[h]
  BY DEF IInv, TypeOK, Write, Idle
<1>3. b.id \in Id /\ b.rec \in Rec
  BY <1>2, RecAssumption DEF Job
<1>4. Due(b, latest, pane) /\ ~b.types
  BY <1>1, <1>2 DEF JobsDue, Write
<1>5. /\ log \in Seq(Event) /\ DOMAIN latest \subseteq Id
      /\ \A i \in DOMAIN latest : latest[i] \in Row
  BY <1>1 DEF TypeOK, StoreTypeOK
<1>6. PICK e \in Event : e = [id |-> b.id, op |-> "amend", rec |-> b.rec, basis |-> 0]
  BY <1>3 DEF Event
<1>7. e.id = b.id /\ e.rec = b.rec
  BY <1>6
<1>8. Commit(Inserted(Tables, <<e>>))
  BY <1>2, <1>6 DEF Write, AppendTx
<1>9. /\ log' \in Seq(Event) /\ DOMAIN latest' \subseteq Id
      /\ \A i \in DOMAIN latest' : latest'[i] \in Row
      /\ LatestIsNewest'
      /\ DOMAIN latest' = DOMAIN latest \cup {b.id}
      /\ latest'[b.id].rec = b.rec
      /\ \A i \in DOMAIN latest : i # b.id => latest'[i] = latest[i]
  BY <1>1, <1>5, <1>7, <1>8, OneInsert
<1>10. DOMAIN latest' = DOMAIN latest
  BY <1>4, <1>9 DEF Due
<1>11. /\ job' \in [Hand -> Job \cup {None}]
       /\ job'[h] = None /\ \A g \in Hand : g # h => job'[g] = job[g]
  BY <1>1 DEF TypeOK
<1>12. TypeOK'
  <2>1. StoreTypeOK'
    BY <1>1, <1>9 DEF TypeOK, StoreTypeOK
  <2>2. gone' \subseteq {g \in Hand : job'[g] # None}
    BY <1>1, <1>11 DEF TypeOK, Idle
  <2>3. alone' \in BOOLEAN
    BY DEF Alone
  <2>4. QED
    BY <1>1, <1>11, <2>1, <2>2, <2>3 DEF TypeOK, Idle
<1>13. \A i \in DOMAIN latest' : Sound(latest'[i].rec) /\ Told(i, latest'[i].rec, pane)
  BY <1>1, <1>4, <1>9, <1>10 DEF TableSound, Read, Due
<1>14. TableSound'
  BY <1>1, <1>13 DEF TableSound, Read
<1>15. \A i \in DOMAIN latest : latest'[i].rec.needed = latest[i].rec.needed
  BY <1>4, <1>9 DEF Due
<1>16. \A g \in Hand : job'[g] # None => Due(job'[g], latest', pane)
  BY <1>1, <1>10, <1>11, <1>15 DEF JobsDue, Idle, Due
<1>17. JobsDue'
  BY <1>1, <1>16 DEF JobsDue, Idle
<1>18. TurnsTaken'
  <2>1. alone' => InTurn' /\ InTurn
    BY <1>1 DEF Alone, TurnsTaken
  <2>2. InTurn => \A g \in Hand : job'[g] = None
    BY <1>11 DEF InTurn, Idle, Write
  <2>3. QED
    BY <2>1, <2>2 DEF TurnsTaken, Idle
<1>19. QED
  BY <1>9, <1>12, <1>14, <1>17, <1>18 DEF IInv

\* A new question, under an identifier the log has never carried.
LEMMA AskKeeps ==
  ASSUME IInv, NEW h \in Hand, NEW p \in Prefix, NEW by \in Agent, NEW needed \in BOOLEAN,
         Ask(h, p, by, needed), Alone
  PROVE  IInv'
<1>1. /\ TypeOK /\ LatestIsNewest /\ TableSound /\ JobsDue /\ TurnsTaken
      /\ attachment' = attachment /\ pane' = pane /\ job' = job /\ gone' = gone
  BY DEF IInv, Ask
<1>2. /\ log \in Seq(Event) /\ DOMAIN latest \subseteq Id
      /\ \A i \in DOMAIN latest : latest[i] \in Row
  BY <1>1 DEF TypeOK, StoreTypeOK
<1>3. PICK q \in Question : q = New(by, needed)
  BY DEF Question, New
<1>4. PICK i \in Id \ IdsIn(log) : i = NextId(log, p)
  BY <1>2, NextIdFresh
<1>5. i \notin DOMAIN latest
  BY <1>1, <1>4 DEF LatestIsNewest
<1>6. PICK e \in Event : e = Created(i, q)
  BY RecAssumption DEF Event, Created
<1>7. e.id = i /\ e.rec = q
  BY <1>6 DEF Created
<1>8. Commit(Inserted(Tables, <<e>>))
  BY <1>3, <1>4, <1>6 DEF Ask, CreateTx
<1>9. /\ log' \in Seq(Event) /\ DOMAIN latest' \subseteq Id
      /\ \A j \in DOMAIN latest' : latest'[j] \in Row
      /\ LatestIsNewest'
      /\ DOMAIN latest' = DOMAIN latest \cup {i}
      /\ latest'[i].rec = q
      /\ \A j \in DOMAIN latest : latest'[j] = latest[j]
  BY <1>1, <1>2, <1>5, <1>7, <1>8, OneInsert
<1>10. TypeOK'
  BY <1>1, <1>9 DEF TypeOK, StoreTypeOK, Idle, Alone
<1>11. Sound(q) /\ Told(i, q, pane)
  BY <1>3 DEF New, Sound, Told
<1>12. \A j \in DOMAIN latest' : Sound(latest'[j].rec) /\ Told(j, latest'[j].rec, pane)
  BY <1>1, <1>9, <1>11 DEF TableSound, Read
<1>13. TableSound'
  BY <1>1, <1>12 DEF TableSound, Read
<1>14. \A g \in Hand : job[g] # None => Due(job[g], latest', pane)
  BY <1>1, <1>9 DEF JobsDue, Idle, Due
<1>15. JobsDue'
  BY <1>1, <1>14 DEF JobsDue, Idle
<1>16. TurnsTaken'
  <2>1. alone' => alone /\ InTurn'
    BY DEF Alone
  <2>2. alone => \A g \in Hand : job[g] # None => Turn(job[g], latest')
    BY <1>1, <1>9 DEF TurnsTaken, JobsDue, Idle, Turn, Due
  <2>3. QED
    BY <1>1, <2>1, <2>2 DEF TurnsTaken, Idle
<1>17. QED
  BY <1>9, <1>10, <1>13, <1>15, <1>16 DEF IInv

----------------------------------------------------------------------------
(* The reads: each decides on the record as it stands.                      *)

\* A hand that starts on a record makes a job that may be there.
LEMMA StartKeeps ==
  ASSUME IInv, Alone, NEW h \in Hand, NEW i \in DOMAIN latest,
         NEW op \in {"surface", "withdraw", "page", "command"}, NEW q \in Question,
         NEW again \in BOOLEAN, NEW types \in BOOLEAN,
         Start(h, i, op, q, again, types),
         Sound(q), q.needed = Read(i).needed,
         IsOpen(q) => q.surfaced /\ op = "surface",
         op = "surface" => q.status = Read(i).status,
         types => q.answer \in Said,
         ~types => q.answer = Read(i).answer /\ q.delivered = Read(i).delivered,
         again \/ Read(i).answer = None \/ q.answer = Read(i).answer
  PROVE  IInv'
<1>1. TypeOK /\ TableSound
  BY DEF IInv
<1>2. i \in Id
  BY <1>1, RowsAreQuestions
<1>3. PICK b \in Job : b = [id |-> i, op |-> op, rec |-> q, again |-> again, types |-> types]
  BY <1>2 DEF Job
<1>4. b.id = i /\ b.op = op /\ b.rec = q /\ b.again = again /\ b.types = types
  BY <1>3
<1>5. job' = [job EXCEPT ![h] = b] /\ UNCHANGED <<storeVars, gone, pane>>
  BY <1>3 DEF Start
<1>6. ~types => Told(i, q, pane)
  BY <1>1 DEF TableSound, Told
<1>7. Due(b, latest, pane)
  BY <1>4, <1>6 DEF Due, Read
<1>8. Turn(b, latest)
  BY <1>4 DEF Turn, Read
<1>9. pane' \in Seq(Line)
  BY <1>1, <1>5 DEF TypeOK
<1>10. \A n \in DOMAIN pane : n \in DOMAIN pane' /\ pane'[n] = pane[n]
  BY <1>5
<1>11. Due(b, latest, pane')
  BY <1>5, <1>7
<1>12. QED
  BY <1>3, <1>5, <1>8, <1>9, <1>10, <1>11, BeginKeeps

LEMMA SurfaceKeeps ==
  ASSUME IInv, Alone, NEW h \in Hand, NEW i \in DOMAIN latest, Surface(h, i)
  PROVE  IInv'
<1>1. Read(i) \in Question /\ Sound(Read(i))
  BY RowsAreQuestions DEF IInv, TableSound
<1> DEFINE q == MarkSurfaced(Read(i))
<1>2. q \in Question
  BY <1>1 DEF MarkSurfaced, Question
<1>3. /\ q.status = Read(i).status /\ q.surfaced /\ q.needed = Read(i).needed
      /\ q.answer = Read(i).answer /\ q.delivered = Read(i).delivered
      /\ q.relayed = Read(i).relayed /\ q.askedBy = Read(i).askedBy
  BY <1>1 DEF MarkSurfaced, Question
<1>4. Sound(q)
  BY <1>1, <1>3 DEF Sound, IsOpen
<1>5. Start(h, i, "surface", q, FALSE, FALSE)
  BY DEF Surface
<1> HIDE DEF q
<1>6. QED
  BY <1>2, <1>3, <1>4, <1>5, StartKeeps

LEMMA WithdrawKeeps ==
  ASSUME IInv, Alone, NEW h \in Hand, NEW i \in DOMAIN latest,
         WithdrawByCommand(h, i) \/ WithdrawByPage(h, i)
  PROVE  IInv'
<1>1. Read(i) \in Question /\ Sound(Read(i))
  BY RowsAreQuestions DEF IInv, TableSound
<1> DEFINE q == Withdraw(Read(i))
<1>2. q \in Question
  BY <1>1 DEF Withdraw, Question
<1>3. /\ q.status = "withdrawn" /\ q.needed = Read(i).needed
      /\ q.answer = Read(i).answer /\ q.delivered = Read(i).delivered
      /\ q.relayed = Read(i).relayed /\ q.askedBy = Read(i).askedBy
  BY <1>1 DEF Withdraw, Question
<1>4. Sound(q) /\ ~IsOpen(q)
  BY <1>1, <1>3 DEF Sound, IsOpen
<1>5. Start(h, i, "withdraw", q, FALSE, FALSE)
  BY DEF WithdrawByCommand, WithdrawByPage
<1> HIDE DEF q
<1>6. QED
  BY <1>2, <1>3, <1>4, <1>5, StartKeeps

\* An answer the rules allow.
LEMMA AnswerIsSound ==
  ASSUME NEW q \in Question, NEW said \in Said, NEW r \in Question,
         r = Answer(q, said) \/ r = AnswerRelayed(q, said),
         said.by # q.askedBy \/ (r.relayed /\ said.elsewhere)
  PROVE  /\ Sound(r) /\ ~IsOpen(r) /\ r.needed = q.needed /\ r.answer = said
<1>1. /\ r.status = "answered" /\ r.answer = said /\ r.needed = q.needed
      /\ r.askedBy = q.askedBy
  BY DEF Answer, AnswerRelayed, Question
<1>2. QED
  BY <1>1 DEF Sound, IsOpen

LEMMA CommandKeeps ==
  ASSUME IInv, Alone, NEW h \in Hand, NEW i \in DOMAIN latest, NEW text \in Text,
         NEW by \in Actor, NEW elsewhere \in BOOLEAN, NEW again \in BOOLEAN,
         AnswerByCommand(h, i, text, by, elsewhere, again)
  PROVE  IInv'
<1>1. Read(i) \in Question
  BY RowsAreQuestions DEF IInv
<1>2. PICK said \in Said : said = [text |-> text, by |-> by, elsewhere |-> elsewhere]
  BY DEF Said
<1>3. PICK q \in Question :
        q = IF elsewhere THEN AnswerRelayed(Read(i), said) ELSE Answer(Read(i), said)
  BY <1>1 DEF Answer, AnswerRelayed, Question
<1>4. elsewhere => q.relayed
  BY <1>1, <1>3 DEF Answer, AnswerRelayed, Question
<1>5. said.by = by /\ said.elsewhere = elsewhere
  BY <1>2
<1>6. Sound(q) /\ ~IsOpen(q) /\ q.needed = Read(i).needed /\ q.answer = said
  <2>1. said.by # Read(i).askedBy \/ (q.relayed /\ said.elsewhere)
    BY <1>4, <1>5 DEF AnswerByCommand, MayAnswer
  <2>2. q = Answer(Read(i), said) \/ q = AnswerRelayed(Read(i), said)
    BY <1>3
  <2>3. QED
    BY <1>1, <2>1, <2>2, AnswerIsSound
<1>7. Start(h, i, "command", q, again, TRUE)
  BY <1>2, <1>3 DEF AnswerByCommand
<1>8. again \/ Read(i).answer = None
  BY DEF AnswerByCommand, Unanswered
<1>9. QED
  BY <1>6, <1>7, <1>8, StartKeeps

LEMMA PageKeeps ==
  ASSUME IInv, Alone, NEW h \in Hand, NEW i \in DOMAIN latest, NEW text \in Text,
         AnswerByPage(h, i, text)
  PROVE  IInv'
<1>1. Read(i) \in Question /\ Sound(Read(i))
  BY RowsAreQuestions DEF IInv, TableSound
<1>2. PICK said \in Said : said = [text |-> text, by |-> Owner, elsewhere |-> FALSE]
  BY DEF Said, Actor
<1>3. PICK q \in Question : q = Answer(Read(i), said)
  BY <1>1 DEF Answer, Question
<1>4. said.by # Read(i).askedBy
  BY <1>1, <1>2, OwnerAssumption DEF Question
<1>5. Sound(q) /\ ~IsOpen(q) /\ q.needed = Read(i).needed /\ q.answer = said
  BY <1>1, <1>3, <1>4, AnswerIsSound
<1>6. Start(h, i, "page", q, FALSE, TRUE)
  BY <1>2, <1>3 DEF AnswerByPage
<1>7. Read(i).answer = None
  BY <1>1 DEF AnswerByPage, Sound
<1>8. QED
  BY <1>5, <1>6, <1>7, StartKeeps

\* What became of the line goes into the same record as the answer.
LEMMA DeliverKeeps ==
  ASSUME IInv, Alone, NEW h \in Hand, NEW sent \in {"typed", "not"}, NEW arrived \in BOOLEAN,
         Deliver(h, sent, arrived)
  PROVE  IInv'
<1>1. TypeOK /\ JobsDue /\ TurnsTaken
  BY DEF IInv
<1>2. PICK b \in Job : b = job[h]
  BY <1>1 DEF TypeOK, Deliver, Idle
<1>3. Due(b, latest, pane) /\ b.types /\ (alone => Turn(b, latest))
  BY <1>1, <1>2 DEF JobsDue, TurnsTaken, Deliver
<1>4. PICK q \in Question : q = Delivered(b.rec, sent)
  BY <1>2 DEF Delivered, Question, Job
<1>5. /\ q.delivered = sent /\ q.status = b.rec.status /\ q.surfaced = b.rec.surfaced
      /\ q.needed = b.rec.needed /\ q.answer = b.rec.answer /\ q.relayed = b.rec.relayed
      /\ q.askedBy = b.rec.askedBy
  BY <1>2, <1>4 DEF Delivered, Question, Job
<1>6. PICK c \in Job : c = [b EXCEPT !.types = FALSE, !.rec = q]
  BY <1>2 DEF Job
<1>7. c.id = b.id /\ c.op = b.op /\ c.rec = q /\ c.again = b.again /\ c.types = FALSE
  BY <1>2, <1>6 DEF Job
<1>8. job' = [job EXCEPT ![h] = c]
  BY <1>1, <1>2, <1>4, <1>6 DEF Deliver, TypeOK
<1>9. UNCHANGED <<storeVars, gone>>
  BY DEF Deliver
<1>10. PICK l \in Line : l = [id |-> b.id, said |-> b.rec.answer, again |-> b.again]
  BY <1>2, <1>3 DEF Line, Job, Due
<1>11. pane' = IF arrived THEN Append(pane, l) ELSE pane
  BY <1>2, <1>10 DEF Deliver
<1>12. pane \in Seq(Line)
  BY <1>1 DEF TypeOK
<1>13. /\ pane' \in Seq(Line)
       /\ \A n \in DOMAIN pane : n \in DOMAIN pane' /\ pane'[n] = pane[n]
       /\ arrived => Len(pane) + 1 \in DOMAIN pane' /\ pane'[Len(pane) + 1] = l
  BY <1>11, <1>12
<1>14. Told(c.id, c.rec, pane')
  BY <1>5, <1>7, <1>10, <1>13 DEF Told, Deliver
<1>15. Due(c, latest, pane')
  BY <1>3, <1>5, <1>7, <1>14 DEF Due, Sound, IsOpen
<1>16. alone => Turn(c, latest)
  BY <1>3, <1>5, <1>7 DEF Turn
<1>17. QED
  BY <1>8, <1>9, <1>13, <1>15, <1>16, BeginKeeps

\* A link that drops, and a write that comes back with an error.
LEMMA DropKeeps ==
  ASSUME IInv, Alone, NEW h \in Hand, DropLink(h)
  PROVE  IInv'
<1>1. /\ TypeOK /\ LatestIsNewest /\ TableSound /\ JobsDue /\ TurnsTaken
      /\ log' = log /\ latest' = latest /\ attachment' = attachment
      /\ job' = job /\ pane' = pane /\ gone' = gone \cup {h} /\ job[h] # None
  BY DEF IInv, DropLink, storeVars, Idle
<1>2. TypeOK'
  BY <1>1 DEF TypeOK, StoreTypeOK, Idle, Alone
<1>3. LatestIsNewest' /\ TableSound' /\ JobsDue'
  BY <1>1 DEF LatestIsNewest, TableSound, JobsDue, Read, Idle
<1>4. TurnsTaken'
  BY <1>1 DEF TurnsTaken, Alone, Idle
<1>5. QED
  BY <1>2, <1>3, <1>4 DEF IInv

LEMMA FailKeeps ==
  ASSUME IInv, Alone, NEW h \in Hand, WriteFails(h)
  PROVE  IInv'
<1>1. /\ TypeOK /\ LatestIsNewest /\ TableSound /\ JobsDue /\ TurnsTaken
      /\ log' = log /\ latest' = latest /\ attachment' = attachment
      /\ job' = [job EXCEPT ![h] = None] /\ pane' = pane /\ gone' = gone \ {h}
  BY DEF IInv, WriteFails, Done
<1>2. /\ job' \in [Hand -> Job \cup {None}]
      /\ job'[h] = None /\ \A g \in Hand : g # h => job'[g] = job[g]
  BY <1>1 DEF TypeOK
<1>3. TypeOK'
  BY <1>1, <1>2 DEF TypeOK, StoreTypeOK, Idle, Alone
<1>4. LatestIsNewest' /\ TableSound' /\ JobsDue'
  BY <1>1, <1>2 DEF LatestIsNewest, TableSound, JobsDue, Read, Idle
<1>5. TurnsTaken'
  BY <1>1, <1>2 DEF TurnsTaken, Alone, Idle
<1>6. QED
  BY <1>3, <1>4, <1>5 DEF IInv

----------------------------------------------------------------------------
(* The theorems.                                                            *)

LEMMA IInvInit == Init => IInv
<1> SUFFICES ASSUME Init PROVE IInv
  OBVIOUS
<1>1. /\ log = << >> /\ latest = [i \in {} |-> 0] /\ attachment = [pic \in {} |-> 0]
      /\ job = [h \in Hand |-> None] /\ gone = {} /\ pane = << >> /\ alone = TRUE
  BY DEF Init, StoreInit
<1>2. << >> \in Seq(Event) /\ << >> \in Seq(Line)
  OBVIOUS
<1>3. DOMAIN latest = {} /\ DOMAIN attachment = {}
  BY <1>1
<1>4. TypeOK
  BY <1>1, <1>2, <1>3 DEF TypeOK, StoreTypeOK, Idle
<1>5. LatestIsNewest
  <2>1. IdsIn(<< >>) = {}
    BY DEF IdsIn
  <2>2. QED
    BY <1>1, <1>3, <2>1 DEF LatestIsNewest
<1>6. TableSound /\ JobsDue /\ TurnsTaken
  BY <1>1, <1>3 DEF TableSound, JobsDue, TurnsTaken, Idle, InTurn
<1>7. QED
  BY <1>4, <1>5, <1>6 DEF IInv

LEMMA IInvStep == IInv /\ [Next]_vars => IInv'
<1> SUFFICES ASSUME IInv, [Next]_vars PROVE IInv'
  OBVIOUS
<1>1. CASE UNCHANGED vars
  BY <1>1 DEF IInv, vars, storeVars, TypeOK, StoreTypeOK, LatestIsNewest, TableSound, JobsDue,
              TurnsTaken, Read, Idle, InTurn
<1>2. CASE Next
  <2>1. PICK h \in Hand : HandStep(h)
    BY <1>2 DEF Next
  <2>2. Alone
    BY <1>2 DEF Next, Alone
  <2>3. CASE \E p \in Prefix, by \in Agent, needed \in BOOLEAN : Ask(h, p, by, needed)
    BY <2>2, <2>3, AskKeeps
  <2>4. CASE \E i \in DOMAIN latest : Surface(h, i)
    BY <2>2, <2>4, SurfaceKeeps
  <2>5. CASE \E i \in DOMAIN latest : WithdrawByCommand(h, i) \/ WithdrawByPage(h, i)
    BY <2>2, <2>5, WithdrawKeeps
  <2>6. CASE \E i \in DOMAIN latest, text \in Text : AnswerByPage(h, i, text)
    BY <2>2, <2>6, PageKeeps
  <2>7. CASE \E i \in DOMAIN latest, text \in Text, by \in Actor, elsewhere \in BOOLEAN,
                again \in BOOLEAN : AnswerByCommand(h, i, text, by, elsewhere, again)
    BY <2>2, <2>7, CommandKeeps
  <2>8. CASE \E sent \in {"typed", "not"}, arrived \in BOOLEAN : Deliver(h, sent, arrived)
    BY <2>2, <2>8, DeliverKeeps
  <2>9. CASE Write(h)
    BY <2>2, <2>9, WriteKeeps
  <2>10. CASE DropLink(h)
    BY <2>2, <2>10, DropKeeps
  <2>11. CASE WriteFails(h)
    BY <2>2, <2>11, FailKeeps
  <2>12. QED
    BY <2>1, <2>3, <2>4, <2>5, <2>6, <2>7, <2>8, <2>9, <2>10, <2>11 DEF HandStep, Carry
<1>3. QED
  BY <1>1, <1>2

LEMMA IInvAlways == Spec => []IInv
BY IInvInit, IInvStep, PTL DEF Spec

\* The tables and the hands hold what they are meant to hold.
THEOREM TypeCorrect == Spec => []TypeOK
<1>1. IInv => TypeOK
  BY DEF IInv
<1>2. QED
  BY IInvAlways, <1>1, PTL

\* However many hands write back stale records, no question ever carries an
\* answer its asker gave itself (cmdAnswer refuses it before anything is
\* typed, and no path around the command leads past that).
THEOREM AnsweredByAnother == Spec => []AskerNeverAnswers
<1>1. IInv => AskerNeverAnswers
  BY DEF IInv, TableSound, Sound, AskerNeverAnswers
<1>2. QED
  BY IInvAlways, <1>1, PTL

\* A record that says typed says it of the answer it carries (answer: what
\* happened to the delivery is part of the same event).
THEOREM TypedAsWritten == Spec => []DeliveredIsThisAnswer
<1>1. IInv => DeliveredIsThisAnswer
  BY DEF IInv, TableSound, Told, DeliveredIsThisAnswer
<1>2. QED
  BY IInvAlways, <1>1, PTL

----------------------------------------------------------------------------

\* What a step does to a row: nothing, or a hand writes what it holds.
LEMMA RowStep ==
  ASSUME IInv, Next, NEW i \in DOMAIN latest
  PROVE  /\ i \in DOMAIN latest'
         /\ \/ latest'[i] = latest[i]
            \/ \E h \in Hand :
                 Write(h) /\ job[h].id = i /\ latest'[i].rec = job[h].rec
<1>1. TypeOK /\ LatestIsNewest /\ JobsDue
  BY DEF IInv
<1>2. /\ log \in Seq(Event) /\ DOMAIN latest \subseteq Id
      /\ \A j \in DOMAIN latest : latest[j] \in Row
  BY <1>1 DEF TypeOK, StoreTypeOK
<1>3. PICK h \in Hand : HandStep(h)
  BY DEF Next
<1>4. CASE UNCHANGED latest
  BY <1>4
<1>5. CASE \E p \in Prefix, by \in Agent, needed \in BOOLEAN : Ask(h, p, by, needed)
  <2>1. PICK p \in Prefix, by \in Agent, needed \in BOOLEAN : Ask(h, p, by, needed)
    BY <1>5
  <2>2. PICK q \in Question : q = New(by, needed)
    BY DEF Question, New
  <2>3. PICK j \in Id \ IdsIn(log) : j = NextId(log, p)
    BY <1>2, NextIdFresh
  <2>4. PICK e \in Event : e = Created(j, q)
    BY RecAssumption DEF Event, Created
  <2>5. Commit(Inserted(Tables, <<e>>)) /\ e.id = j
    BY <2>1, <2>2, <2>3, <2>4 DEF Ask, CreateTx, Created
  <2>6. i # j
    BY <1>1, <2>3 DEF LatestIsNewest
  <2>7. QED
    BY <1>1, <1>2, <2>5, <2>6, OneInsert
<1>6. CASE Write(h)
  <2>1. PICK b \in Job : b = job[h]
    BY <1>1, <1>6 DEF TypeOK, Write, Idle
  <2>2. b.id \in Id /\ b.rec \in Rec
    BY RecAssumption DEF Job
  <2>3. PICK e \in Event : e = [id |-> b.id, op |-> "amend", rec |-> b.rec, basis |-> 0]
    BY <2>2 DEF Event
  <2>4. Commit(Inserted(Tables, <<e>>)) /\ e.id = b.id /\ e.rec = b.rec
    BY <1>6, <2>1, <2>3 DEF Write, AppendTx
  <2>5. /\ DOMAIN latest' = DOMAIN latest \cup {b.id}
        /\ latest'[b.id].rec = b.rec
        /\ \A j \in DOMAIN latest : j # b.id => latest'[j] = latest[j]
    BY <1>1, <1>2, <2>4, OneInsert
  <2>6. QED
    BY <1>6, <2>1, <2>5
<1>7. \/ UNCHANGED latest
      \/ Write(h)
      \/ \E p \in Prefix, by \in Agent, needed \in BOOLEAN : Ask(h, p, by, needed)
  BY <1>3 DEF HandStep, Carry, Start, Surface, WithdrawByCommand, WithdrawByPage, AnswerByPage,
              AnswerByCommand, Deliver, DropLink, WriteFails, Done, storeVars
<1>8. QED
  BY <1>4, <1>5, <1>6, <1>7

\* The gate holds again over a question it let go of only when the question is
\* needed, hands have overlapped, and the record written is a surfacing's
\* (Buried, cmdSurfaced); over any other it never does.
THEOREM HeldAgainOnlyByStaleSurfacing == Spec => HeldAgainOnlyByOverlap
<1>1. ASSUME IInv, Next, NEW i \in DOMAIN latest, i \notin Buried(i[1]), i \in Buried(i[1])'
      PROVE  Read(i).needed /\ Resurfaced(i) /\ ~alone'
  <2>1. /\ ~IsOpen(latest[i].rec) \/ (latest[i].rec.surfaced /\ ~latest[i].rec.needed)
        /\ IsOpen(latest'[i].rec) /\ (~latest'[i].rec.surfaced \/ latest'[i].rec.needed)
    BY <1>1 DEF Buried, Read
  <2>2. PICK h \in Hand : Write(h) /\ job[h].id = i /\ latest'[i].rec = job[h].rec
    <3>1. latest'[i] # latest[i]
      BY <2>1
    <3>2. QED
      BY <1>1, <3>1, RowStep
  <2>3. Due(job[h], latest, pane)
    BY <1>1, <2>2 DEF IInv, JobsDue, Write
  <2>4. job[h].op = "surface" /\ latest[i].rec.needed
    BY <2>1, <2>2, <2>3 DEF Due
  <2>5. job'[h] = None
    BY <1>1, <2>2 DEF Write, Done, IInv, TypeOK
  <2>6. Resurfaced(i)
    BY <2>2, <2>4, <2>5 DEF Resurfaced, Write
  <2>7. ASSUME alone'
        PROVE  FALSE
    <3>1. alone
      BY <1>1, <2>7 DEF Next
    <3>2. Turn(job[h], latest)
      BY <1>1, <2>2, <3>1 DEF IInv, TurnsTaken, Write
    <3>3. IsOpen(latest[i].rec)
      BY <2>1, <2>2, <2>4, <3>2 DEF Turn, IsOpen
    <3>4. QED
      BY <2>1, <2>4, <3>3
  <2>8. QED
    BY <2>4, <2>6, <2>7 DEF Read
<1>2. IInv /\ [Next]_vars =>
        [\A i \in DOMAIN latest :
           i \notin Buried(i[1]) /\ i \in Buried(i[1])' =>
             Read(i).needed /\ Resurfaced(i) /\ ~alone']_vars
  BY <1>1
<1>3. QED
  BY IInvAlways, <1>2, PTL DEF Spec, HeldAgainOnlyByOverlap

\* As long as hands take turns, an answer gives way only to a command that
\* carried --reanswer; two that overlap both pass cmdAnswer's check.
THEOREM ReplacedOnPurpose == Spec => AnswerChangedOnPurpose
<1>1. ASSUME IInv, Next, alone', NEW i \in DOMAIN latest,
             Read(i).answer # None, latest'[i].rec.answer # Read(i).answer
      PROVE  Purposeful(i)
  <2>1. PICK h \in Hand : Write(h) /\ job[h].id = i /\ latest'[i].rec = job[h].rec
    BY <1>1, RowStep DEF Read
  <2>2. alone
    BY <1>1 DEF Next
  <2>3. Turn(job[h], latest)
    BY <1>1, <2>1, <2>2 DEF IInv, TurnsTaken, Write
  <2>4. job[h].again
    BY <1>1, <2>1, <2>3 DEF Turn, Read
  <2>5. job'[h] = None
    BY <1>1, <2>1 DEF Write, Done, IInv, TypeOK
  <2>6. QED
    BY <2>1, <2>4, <2>5 DEF Purposeful, Write
<1>2. IInv /\ [Next]_vars =>
        [alone' => \A i \in DOMAIN latest :
           Read(i).answer # None /\ latest'[i].rec.answer # Read(i).answer => Purposeful(i)]_vars
  BY <1>1
<1>3. QED
  BY IInvAlways, <1>2, PTL DEF Spec, AnswerChangedOnPurpose

----------------------------------------------------------------------------
(* The refinement: a write under way is a move of something the log holds.  *)

LEMMA SaidByNext ==
  ASSUME NEW e \in Event, log \in Seq(Event), log' = Append(log, e)
  PROVE  /\ IdsIn(log)' = IdsIn(log) \cup {e.id}
         /\ SaidBy(log', e.id) = SaidBy(log, e.id) \cup {Shown(e.rec)}
         /\ \A i : i # e.id => SaidBy(log', i) = SaidBy(log, i)
         /\ e.id \notin IdsIn(log) => SaidBy(log, e.id) = {}
<1> PICK events, more : events = log /\ more = log'
  OBVIOUS
<1> events \in Seq(Event) /\ more = Append(events, e)
  OBVIOUS
<1>1. /\ DOMAIN more = 1..(Len(events) + 1) /\ DOMAIN events = 1..Len(events) /\ Len(events) \in Nat
      /\ more[Len(events) + 1] = e
      /\ \A k \in 1..Len(events) : more[k] = events[k]
  OBVIOUS
<1>2. \A k : k \in DOMAIN more <=> k \in DOMAIN events \/ k = Len(events) + 1
  BY <1>1
<1>3. \A k \in DOMAIN events : more[k] = events[k] /\ k \in DOMAIN more
  BY <1>1
<1>4. Len(events) + 1 \in DOMAIN more /\ more[Len(events) + 1] = e
  BY <1>1
<1>5. IdsIn(more) = IdsIn(events) \cup {e.id}
  BY <1>2, <1>3, <1>4 DEF IdsIn
<1>6. SaidBy(more, e.id) = SaidBy(events, e.id) \cup {Shown(e.rec)}
  BY <1>2, <1>3, <1>4 DEF SaidBy
<1>7. ASSUME NEW i, i # e.id
      PROVE  SaidBy(more, i) = SaidBy(events, i)
  BY <1>2, <1>3, <1>4, <1>7 DEF SaidBy
<1>8. e.id \notin IdsIn(events) => SaidBy(events, e.id) = {}
  BY DEF SaidBy, IdsIn
<1>9. QED
  BY <1>5, <1>6, <1>7, <1>8

\* Event e and nothing else was written.
Adds(e) ==
  /\ log' = Append(log, e)
  /\ DOMAIN latest' = DOMAIN latest \cup {e.id}
  /\ latest'[e.id].rec = e.rec
  /\ \A i \in DOMAIN latest : i # e.id => latest'[i] = latest[i]

Asks(e)   == e.id \in Id \ DOMAIN latest /\ \E by \in Agent, needed \in BOOLEAN : e.rec = New(by, needed)
Writes(e) == \E h \in Hand : Write(h) /\ e.id = job[h].id /\ e.rec = job[h].rec

LEMMA LogStep ==
  ASSUME IInv, [Next]_vars
  PROVE  \/ UNCHANGED <<log, latest>>
         \/ \E e \in Event : Adds(e) /\ (Asks(e) \/ Writes(e))
<1>1. TypeOK /\ LatestIsNewest
  BY DEF IInv
<1>2. /\ log \in Seq(Event) /\ DOMAIN latest \subseteq Id
      /\ \A j \in DOMAIN latest : latest[j] \in Row
  BY <1>1 DEF TypeOK, StoreTypeOK
<1>3. ASSUME NEW e \in Event, Commit(Inserted(Tables, <<e>>))
      PROVE  Adds(e)
  <2>1. log' = log \o <<e>>
    BY <1>3 DEF Commit, Inserted, Tables
  <2>2. log' = Append(log, e)
    BY <1>2, <2>1
  <2>3. QED
    BY <1>1, <1>2, <1>3, <2>2, OneInsert DEF Adds
<1>4. ASSUME NEW h \in Hand, NEW p \in Prefix, NEW by \in Agent, NEW needed \in BOOLEAN,
             Ask(h, p, by, needed)
      PROVE  \E e \in Event : Adds(e) /\ Asks(e)
  <2>1. PICK q \in Question : q = New(by, needed)
    BY DEF Question, New
  <2>2. PICK i \in Id \ IdsIn(log) : i = NextId(log, p)
    BY <1>2, NextIdFresh
  <2>3. PICK e \in Event : e = Created(i, q)
    BY RecAssumption DEF Event, Created
  <2>4. Commit(Inserted(Tables, <<e>>)) /\ e.id = i /\ e.rec = q
    BY <1>4, <2>1, <2>2, <2>3 DEF Ask, CreateTx, Created
  <2>5. e.id \in Id \ DOMAIN latest
    BY <1>1, <2>2, <2>4 DEF LatestIsNewest
  <2>6. Adds(e) /\ Asks(e)
    BY <1>3, <2>1, <2>4, <2>5 DEF Asks
  <2>7. QED
    BY <2>6
<1>5. ASSUME NEW h \in Hand, Write(h)
      PROVE  \E e \in Event : Adds(e) /\ Writes(e)
  <2>1. PICK b \in Job : b = job[h]
    BY <1>1, <1>5 DEF TypeOK, Write, Idle
  <2>2. b.id \in Id /\ b.rec \in Rec
    BY RecAssumption DEF Job
  <2>3. PICK e \in Event : e = [id |-> b.id, op |-> "amend", rec |-> b.rec, basis |-> 0]
    BY <2>2 DEF Event
  <2>4. Commit(Inserted(Tables, <<e>>)) /\ e.id = b.id /\ e.rec = b.rec
    BY <1>5, <2>1, <2>3 DEF Write, AppendTx
  <2>5. Adds(e) /\ Writes(e)
    BY <1>3, <1>5, <2>1, <2>4 DEF Writes
  <2>6. QED
    BY <2>5
<1>6. CASE UNCHANGED vars
  BY <1>6 DEF vars, storeVars
<1>7. CASE Next
  <2>1. PICK h \in Hand : HandStep(h)
    BY <1>7 DEF Next
  <2>2. \/ UNCHANGED <<log, latest>>
        \/ Write(h)
        \/ \E p \in Prefix, by \in Agent, needed \in BOOLEAN : Ask(h, p, by, needed)
    BY <2>1 DEF HandStep, Carry, Start, Surface, WithdrawByCommand, WithdrawByPage, AnswerByPage,
                AnswerByCommand, Deliver, DropLink, WriteFails, Done, storeVars
  <2>3. QED
    BY <1>4, <1>5, <2>2
<1>8. QED
  BY <1>6, <1>7

\* What a reader takes from a question, and the fields a move leaves it with.
View ==
  [status : {"open", "answered", "withdrawn"}, surfaced : BOOLEAN, askedBy : Agent,
   answer : Said \cup {None}, relayed : BOOLEAN]

LEMMA ShownIsView ==
  ASSUME NEW q \in Question
  PROVE  /\ Shown(q) \in View
         /\ Shown(q).status = q.status /\ Shown(q).surfaced = q.surfaced
         /\ Shown(q).askedBy = q.askedBy /\ Shown(q).answer = q.answer
         /\ Shown(q).relayed = q.relayed
BY DEF Shown, View, Question

LEMMA SameView ==
  ASSUME NEW v \in View, NEW w \in View,
         v.status = w.status, v.surfaced = w.surfaced, v.askedBy = w.askedBy,
         v.answer = w.answer, v.relayed = w.relayed
  PROVE  v = w
BY DEF View

\* What the code does to a record is a move, to a reader.
LEMMA ShownMoves ==
  ASSUME NEW q \in Question
  PROVE  /\ Shown(MarkSurfaced(q)) \in Queue!Moves(Shown(q))
         /\ Shown(Withdraw(q)) \in Queue!Moves(Shown(q))
         /\ \A sent : Shown(Delivered(q, sent)) = Shown(q)
<1>1. PICK v \in View : v = Shown(q)
  BY ShownIsView
<1>2. /\ v.status = q.status /\ v.surfaced = q.surfaced /\ v.askedBy = q.askedBy
      /\ v.answer = q.answer /\ v.relayed = q.relayed
  BY <1>1, ShownIsView
<1>0. PICK x \in BOOLEAN : x = TRUE
  OBVIOUS
<1>3. PICK w : w = [v EXCEPT !.surfaced = x]
  OBVIOUS
<1>4. Shown(MarkSurfaced(q)) = w
  <2>1. PICK m \in Question : m = MarkSurfaced(q)
    BY DEF MarkSurfaced, Question
  <2>2. /\ m.status = q.status /\ m.surfaced = x /\ m.askedBy = q.askedBy
        /\ m.answer = q.answer /\ m.relayed = q.relayed
    BY <1>0, <2>1 DEF MarkSurfaced, Question
  <2>3. /\ w \in View /\ w.surfaced = x /\ w.status = v.status
        /\ w.askedBy = v.askedBy /\ w.answer = v.answer /\ w.relayed = v.relayed
    BY <1>3 DEF View
  <2>4. Shown(m) = w
    BY <1>2, <2>2, <2>3, ShownIsView, SameView
  <2>5. QED
    BY <2>1, <2>4
<1>5. PICK u : u = [v EXCEPT !.status = "withdrawn"]
  OBVIOUS
<1>6. Shown(Withdraw(q)) = u
  <2>1. PICK m \in Question : m = Withdraw(q)
    BY DEF Withdraw, Question
  <2>2. /\ m.status = "withdrawn" /\ m.surfaced = q.surfaced /\ m.askedBy = q.askedBy
        /\ m.answer = q.answer /\ m.relayed = q.relayed
    BY <2>1 DEF Withdraw, Question
  <2>3. /\ u \in View /\ u.surfaced = v.surfaced /\ u.status = "withdrawn"
        /\ u.askedBy = v.askedBy /\ u.answer = v.answer /\ u.relayed = v.relayed
    BY <1>5 DEF View
  <2>4. Shown(m) = u
    BY <1>2, <2>2, <2>3, ShownIsView, SameView
  <2>5. QED
    BY <2>1, <2>4
<1>7. ASSUME NEW sent
      PROVE  Shown(Delivered(q, sent)) = Shown(q)
  BY DEF Shown, Delivered, Question
<1>8. w \in Queue!Moves(v) /\ u \in Queue!Moves(v)
  BY <1>0, <1>3, <1>5 DEF Queue!Moves
<1>9. QED
  BY <1>1, <1>4, <1>6, <1>7, <1>8

LEMMA ShownAnswers ==
  ASSUME NEW q \in Question, NEW said \in Said, said.by = q.askedBy => said.elsewhere,
         NEW r, r = IF said.elsewhere THEN AnswerRelayed(q, said) ELSE Answer(q, said)
  PROVE  Shown(r) \in Queue!Moves(Shown(q))
<1>1. PICK v \in View : v = Shown(q)
  BY ShownIsView
<1>2. v.askedBy = q.askedBy /\ v.relayed = q.relayed /\ v.surfaced = q.surfaced /\ v.relayed \in BOOLEAN
  BY <1>1, ShownIsView DEF View
<1>3. said \in Queue!MayBeSaid(v)
  BY <1>2 DEF Queue!MayBeSaid
<1>4. said.elsewhere \in BOOLEAN
  BY DEF Said
<1>5. Shown(r) = Queue!AnsweredBy(v, said)
  <2>1. /\ r.status = "answered" /\ r.surfaced = q.surfaced /\ r.askedBy = q.askedBy
        /\ r.answer = said
    BY DEF AnswerRelayed, Answer, Question
  <2>2. r.relayed = (q.relayed \/ said.elsewhere)
    <3>1. CASE said.elsewhere
      <4>1. r.relayed = TRUE
        BY <3>1 DEF AnswerRelayed, Answer, Question
      <4>2. (q.relayed \/ said.elsewhere) = TRUE
        BY <3>1
      <4>3. QED
        BY <4>1, <4>2
    <3>2. CASE ~said.elsewhere
      <4>1. r.relayed = q.relayed
        BY <3>2 DEF Answer, Question
      <4>2. (q.relayed \/ said.elsewhere) = q.relayed
        BY <3>2, <1>2
      <4>3. QED
        BY <4>1, <4>2
    <3>3. QED
      BY <3>1, <3>2
  <2>3. r \in Question
    BY DEF AnswerRelayed, Answer, Question
  <2>4. PICK x \in BOOLEAN : x = (v.relayed \/ said.elsewhere)
    OBVIOUS
  <2>5. PICK w : w = [v EXCEPT !.status = "answered", !.answer = said, !.relayed = x]
    OBVIOUS
  <2>6. /\ w \in View /\ w.surfaced = v.surfaced /\ w.status = "answered"
        /\ w.askedBy = v.askedBy /\ w.answer = said /\ w.relayed = x
    BY <1>1, <2>4, <2>5 DEF View
  <2>7. r.relayed = x
    BY <1>2, <2>2, <2>4
  <2>8. Shown(r) = w
    BY <1>2, <2>1, <2>3, <2>6, <2>7, ShownIsView, SameView
  <2>9. QED
    BY <2>4, <2>5, <2>8 DEF Queue!AnsweredBy
<1>6. QED
  BY <1>1, <1>3, <1>5 DEF Queue!Moves

MoveOf(b, events) == \E q \in SaidBy(events, b.id) : Shown(b.rec) \in Queue!Moves(q)

JobsMove == \A h \in Hand : ~Idle(h) => MoveOf(job[h], log)

\* What a question says now is something it has said.
LEMMA NowSaid ==
  ASSUME IInv, NEW i \in DOMAIN latest
  PROVE  Shown(Read(i)) \in SaidBy(log, i)
BY DEF IInv, LatestIsNewest, SaidBy, Read

LEMMA MoveOfNow ==
  ASSUME IInv, NEW i \in DOMAIN latest, NEW b, b.id = i,
         Shown(b.rec) \in Queue!Moves(Shown(Read(i)))
  PROVE  MoveOf(b, log)
BY NowSaid DEF MoveOf

LEMMA MoveStays ==
  ASSUME IInv, [Next]_vars, NEW b, MoveOf(b, log)
  PROVE  MoveOf(b, log')
<1>1. SaidBy(log, b.id) \subseteq SaidBy(log', b.id)
  <2>1. CASE log' = log
    BY <2>1
  <2>2. CASE \E e \in Event : Adds(e)
    <3>1. PICK e \in Event : log' = Append(log, e)
      BY <2>2 DEF Adds
    <3>2. log \in Seq(Event)
      BY DEF IInv, TypeOK, StoreTypeOK
    <3>3. /\ SaidBy(log', e.id) = SaidBy(log, e.id) \cup {Shown(e.rec)}
          /\ \A i : i # e.id => SaidBy(log', i) = SaidBy(log, i)
      BY <3>1, <3>2, SaidByNext
    <3>4. QED
      BY <3>3
  <2>3. QED
    BY <2>1, <2>2, LogStep
<1>2. QED
  BY <1>1 DEF MoveOf

LEMMA JobsMoveStep ==
  ASSUME IInv, JobsMove, [Next]_vars
  PROVE  JobsMove'
<1>1. TypeOK /\ \A i \in DOMAIN latest : Read(i) \in Question
  BY RowsAreQuestions DEF IInv
<1>2. ASSUME NEW h \in Hand, NEW b, job' = [job EXCEPT ![h] = b], b = None \/ MoveOf(b, log)
      PROVE  JobsMove'
  <2>1. job'[h] = b /\ \A g \in Hand : g # h => job'[g] = job[g]
    BY <1>1, <1>2 DEF TypeOK
  <2>2. \A g \in Hand : job'[g] # None => MoveOf(job'[g], log)
    BY <1>2, <2>1 DEF JobsMove, Idle
  <2>3. \A g \in Hand : job'[g] # None => MoveOf(job'[g], log')
    <3>1. ASSUME NEW g \in Hand, job'[g] # None
          PROVE  MoveOf(job'[g], log')
      <4>1. PICK c : c = job'[g]
        OBVIOUS
      <4>2. MoveOf(c, log)
        BY <2>2, <3>1, <4>1
      <4>3. MoveOf(c, log')
        BY <4>2, MoveStays
      <4>4. QED
        BY <4>1, <4>3
    <3>2. QED
      BY <3>1
  <2>4. QED
    BY <2>3 DEF JobsMove, Idle
<1>3. ASSUME NEW h \in Hand, NEW i \in DOMAIN latest, NEW op, NEW q, NEW again, NEW types,
             Start(h, i, op, q, again, types), Shown(q) \in Queue!Moves(Shown(Read(i)))
      PROVE  JobsMove'
  <2>1. PICK b : b = [id |-> i, op |-> op, rec |-> q, again |-> again, types |-> types]
    OBVIOUS
  <2>2. b.id = i /\ b.rec = q
    BY <2>1
  <2>3. MoveOf(b, log)
    BY <1>3, <2>2, MoveOfNow
  <2>4. job' = [job EXCEPT ![h] = b]
    BY <1>3, <2>1 DEF Start
  <2>5. QED
    BY <1>2, <2>3, <2>4
<1>4. CASE job' = job
  <2>1. ASSUME NEW h \in Hand, job[h] # None
        PROVE  MoveOf(job[h], log')
    BY <2>1, MoveStays DEF JobsMove, Idle
  <2>2. QED
    BY <1>4, <2>1 DEF JobsMove, Idle
<1>5. ASSUME NEW h \in Hand, NEW i \in DOMAIN latest,
             Surface(h, i) \/ WithdrawByCommand(h, i) \/ WithdrawByPage(h, i)
      PROVE  JobsMove'
  BY <1>1, <1>3, <1>5, ShownMoves DEF Surface, WithdrawByCommand, WithdrawByPage
<1>6. ASSUME NEW h \in Hand, NEW i \in DOMAIN latest, NEW text \in Text, AnswerByPage(h, i, text)
      PROVE  JobsMove'
  <2>1. PICK said \in Said : said = [text |-> text, by |-> Owner, elsewhere |-> FALSE]
    BY DEF Said, Actor
  <2>2. PICK r : r = Answer(Read(i), said)
    OBVIOUS
  <2>3. said.elsewhere = FALSE /\ said.by # Read(i).askedBy
    BY <1>1, <2>1, OwnerAssumption DEF Question
  <2>4. Shown(r) \in Queue!Moves(Shown(Read(i)))
    BY <1>1, <2>2, <2>3, ShownAnswers
  <2>5. Start(h, i, "page", r, FALSE, TRUE)
    BY <1>6, <2>1, <2>2 DEF AnswerByPage
  <2>6. QED
    BY <1>3, <2>4, <2>5
<1>7. ASSUME NEW h \in Hand, NEW i \in DOMAIN latest, NEW text \in Text, NEW by \in Actor,
             NEW elsewhere \in BOOLEAN, NEW again \in BOOLEAN,
             AnswerByCommand(h, i, text, by, elsewhere, again)
      PROVE  JobsMove'
  <2>1. PICK said \in Said : said = [text |-> text, by |-> by, elsewhere |-> elsewhere]
    BY DEF Said
  <2>2. PICK r : r = IF elsewhere THEN AnswerRelayed(Read(i), said) ELSE Answer(Read(i), said)
    OBVIOUS
  <2>3. said.elsewhere = elsewhere /\ said.by = by
    BY <2>1
  <2>4. said.by = Read(i).askedBy => said.elsewhere
    BY <1>7, <2>3 DEF AnswerByCommand, MayAnswer
  <2>5. r = IF said.elsewhere THEN AnswerRelayed(Read(i), said) ELSE Answer(Read(i), said)
    BY <2>2, <2>3
  <2>6. Shown(r) \in Queue!Moves(Shown(Read(i)))
    BY <1>1, <2>4, <2>5, ShownAnswers
  <2>7. Start(h, i, "command", r, again, TRUE)
    BY <1>7, <2>1, <2>2 DEF AnswerByCommand
  <2>8. QED
    BY <1>3, <2>6, <2>7
<1>8. ASSUME NEW h \in Hand, NEW sent \in {"typed", "not"}, NEW arrived \in BOOLEAN,
             Deliver(h, sent, arrived)
      PROVE  JobsMove'
  <2>1. PICK b \in Job : b = job[h]
    BY <1>1, <1>8 DEF TypeOK, Deliver, Idle
  <2>2. MoveOf(b, log)
    BY <1>8, <2>1 DEF JobsMove, Deliver
  <2>3. PICK q : q = Delivered(b.rec, sent)
    OBVIOUS
  <2>4. Shown(q) = Shown(b.rec)
    BY <2>1, <2>3, ShownMoves DEF Job
  <2>5. PICK c : c = [b EXCEPT !.types = FALSE, !.rec = q]
    OBVIOUS
  <2>6. c.id = b.id /\ c.rec = q
    BY <2>1, <2>5 DEF Job
  <2>7. MoveOf(c, log)
    BY <2>2, <2>4, <2>6 DEF MoveOf
  <2>8. job' = [job EXCEPT ![h] = c]
    BY <1>1, <1>8, <2>1, <2>3, <2>5 DEF Deliver, TypeOK
  <2>9. QED
    BY <1>2, <2>7, <2>8
<1>9. ASSUME NEW h \in Hand, Write(h) \/ WriteFails(h)
      PROVE  JobsMove'
  <2>1. job' = [job EXCEPT ![h] = None]
    BY <1>9 DEF Write, WriteFails, Done
  <2>2. QED
    BY <1>2, <2>1
<1>10. CASE UNCHANGED vars
  BY <1>4, <1>10 DEF vars
<1>11. CASE Next
  <2>1. PICK h \in Hand : HandStep(h)
    BY <1>11 DEF Next
  <2>2. (\E p \in Prefix, by \in Agent, needed \in BOOLEAN : Ask(h, p, by, needed)) \/ DropLink(h)
          => job' = job
    BY DEF Ask, DropLink
  <2>3. QED
    BY <1>4, <1>5, <1>6, <1>7, <1>8, <1>9, <2>1, <2>2 DEF HandStep, Carry
<1>12. QED
  BY <1>10, <1>11

\* To its readers the queue is QuestionQueue (QuestionsMoveLawfully): stale
\* writes lose moves and mix none, for any number of hands and questions.
THEOREM QuestionsImplementQueue == Spec => QuestionsMoveLawfully
<1> DEFINE now  == [i \in DOMAIN latest |-> Shown(Read(i))]
           past == [i \in IdsIn(log) |-> SaidBy(log, i)]
<1>1. Init => Queue!Init /\ JobsMove
  <2> SUFFICES ASSUME Init PROVE Queue!Init /\ JobsMove
    OBVIOUS
  <2>1. DOMAIN latest = {} /\ IdsIn(log) = {}
    BY DEF Init, StoreInit, IdsIn
  <2>2. now = [i \in {} |-> None] /\ past = [i \in {} |-> {}]
    BY <2>1
  <2>3. JobsMove
    BY DEF Init, JobsMove, Idle
  <2>4. QED
    BY <2>2, <2>3 DEF Queue!Init
<1>2. IInv /\ JobsMove /\ [Next]_vars => [Queue!Next]_<<now, past>>
  <2> SUFFICES ASSUME IInv, JobsMove, [Next]_vars
               PROVE  Queue!Next \/ UNCHANGED <<now, past>>
    OBVIOUS
  <2>1. DOMAIN latest = IdsIn(log) /\ log \in Seq(Event)
    BY DEF IInv, LatestIsNewest, TypeOK, StoreTypeOK
  <2>2. CASE UNCHANGED <<log, latest>>
    BY <2>2 DEF Read, IdsIn
  <2>3. ASSUME NEW e \in Event, Adds(e)
        PROVE  /\ DOMAIN now' = DOMAIN now \cup {e.id} /\ DOMAIN past' = DOMAIN past \cup {e.id}
               /\ now'[e.id] = Shown(e.rec)
               /\ past'[e.id] = SaidBy(log, e.id) \cup {Shown(e.rec)}
               /\ \A j \in DOMAIN now : j # e.id => now'[j] = now[j] /\ past'[j] = past[j]
               /\ DOMAIN now = DOMAIN past
    <3>1. /\ IdsIn(log)' = IdsIn(log) \cup {e.id}
          /\ SaidBy(log', e.id) = SaidBy(log, e.id) \cup {Shown(e.rec)}
          /\ \A i : i # e.id => SaidBy(log', i) = SaidBy(log, i)
      BY <2>1, <2>3, SaidByNext DEF Adds
    <3>2. /\ DOMAIN latest' = DOMAIN latest \cup {e.id} /\ latest'[e.id].rec = e.rec
          /\ \A j \in DOMAIN latest : j # e.id => latest'[j] = latest[j]
      BY <2>3 DEF Adds
    <3>3. now' = [i \in DOMAIN latest' |-> Shown(latest'[i].rec)]
      BY DEF Read
    <3>4. past' = [i \in IdsIn(log)' |-> SaidBy(log', i)]
      OBVIOUS
    <3>5. QED
      BY <2>1, <3>1, <3>2, <3>3, <3>4 DEF Read
  <2>4. ASSUME NEW e \in Event, Adds(e), Asks(e)
        PROVE  Queue!Next
    <3>1. PICK by \in Agent, needed \in BOOLEAN : e.rec = New(by, needed)
      BY <2>4 DEF Asks
    <3>2. Shown(e.rec) = Queue!Asked(by)
      <4>1. PICK q : q = New(by, needed)
        OBVIOUS
      <4>2. /\ q.status = "open" /\ q.surfaced = FALSE /\ q.askedBy = by
            /\ q.answer = None /\ q.relayed = FALSE
        BY <4>1 DEF New
      <4>3. Shown(q) = Queue!Asked(by)
        BY <4>2 DEF Shown, Queue!Asked
      <4>4. QED
        BY <3>1, <4>1, <4>3
    <3>3. e.id \in Id /\ e.id \notin DOMAIN now /\ e.id \in DOMAIN now'
      BY <2>3, <2>4 DEF Asks
    <3>4. SaidBy(log, e.id) = {}
      BY <2>1, <2>4, <3>3, SaidByNext DEF Adds
    <3>5. now' = [j \in DOMAIN now \cup {e.id} |-> IF j = e.id THEN Queue!Asked(by) ELSE now[j]]
      BY <2>3, <2>4, <3>2
    <3>6. past' = [j \in DOMAIN past \cup {e.id} |-> IF j = e.id THEN {Queue!Asked(by)} ELSE past[j]]
      BY <2>3, <2>4, <3>2, <3>4
    <3>7. Queue!Ask(e.id, by)
      BY <3>3, <3>5, <3>6 DEF Queue!Ask
    <3>8. QED
      BY <3>3, <3>7 DEF Queue!Next, Queue!New
  <2>5. ASSUME NEW e \in Event, Adds(e), Writes(e)
        PROVE  Queue!Next
    <3>1. PICK h \in Hand : Write(h) /\ e.id = job[h].id /\ e.rec = job[h].rec
      BY <2>5 DEF Writes
    <3>2. MoveOf(job[h], log) /\ e.id \in DOMAIN now
      BY <3>1 DEF JobsMove, Write, IInv, JobsDue, Due
    <3>3. past[e.id] = SaidBy(log, e.id)
      BY <2>1, <3>2
    <3>4. PICK q \in past[e.id] : Shown(e.rec) \in Queue!Moves(q)
      BY <3>1, <3>2, <3>3 DEF MoveOf
    <3>5. now' = [now EXCEPT ![e.id] = Shown(e.rec)]
      BY <2>3, <2>5, <3>2
    <3>6. past' = [past EXCEPT ![e.id] = @ \cup {Shown(e.rec)}]
      <4>1. e.id \in DOMAIN past /\ past'[e.id] = past[e.id] \cup {Shown(e.rec)}
        BY <2>3, <2>5, <3>2, <3>3
      <4>2. DOMAIN past' = DOMAIN past /\ \A j \in DOMAIN past : j # e.id => past'[j] = past[j]
        BY <2>3, <2>5, <3>2
      <4>3. QED
        BY <4>1, <4>2
    <3>7. Queue!Move(e.id, Shown(e.rec))
      BY <3>4, <3>5, <3>6 DEF Queue!Move
    <3>8. QED
      BY <3>2, <3>4, <3>7 DEF Queue!Next
  <2>6. QED
    BY <2>2, <2>4, <2>5, LogStep
<1>3. IInv /\ JobsMove /\ [Next]_vars => JobsMove'
  BY JobsMoveStep
<1>4. QED
  BY <1>1, <1>2, <1>3, IInvAlways, PTL DEF Spec, QuestionsMoveLawfully, Queue!Spec
=============================================================================
