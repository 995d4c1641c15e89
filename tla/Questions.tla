----------------------------- MODULE Questions -----------------------------
(***************************************************************************)
(* The owner's queue of questions: `mustur ask`, `surfaced` and `answer`,  *)
(* and the answer form of the web page (cmd/mustur/questions.go,           *)
(* internal/question, internal/web/questions.go).                          *)
(*                                                                         *)
(* A hand is one command or one request.  Each reads the record, decides   *)
(* on what it read, may type the answer into a session, and writes the     *)
(* record back whole with Append, which compares no version: the read, the *)
(* typing and the write are three steps, and other hands run in between.   *)
(***************************************************************************)
EXTENDS RecordLog, FiniteSets

CONSTANTS
  Hand,        \* commands and requests under way at once
  Agent,       \* actors of commands
  Owner,       \* the actor the page writes as
  Text,        \* what an owner may say
  None,        \* no value
  Failing,     \* hands whose writes may come back with an error
  MaxQuestions, \* bound: questions asked
  MaxEvents    \* bound: rows of record_event, and lines typed

Actor == Agent \cup {Owner}

\* An answer.  `by` and `elsewhere` are history: the actor of the event that
\* first carried it, and whether --from-owner was given with it.
Said == [text : Text, by : Actor, elsewhere : BOOLEAN]

\* The fields of a question that code decides on (question.Field...).
Question ==
  [status    : {"open", "answered", "withdrawn"},
   surfaced  : BOOLEAN,
   needed    : BOOLEAN,
   askedBy   : Agent,
   answer    : Said \cup {None},
   relayed   : BOOLEAN,
   delivered : {"", "typed", "not"}]

ASSUME BoundAssumption == MaxEvents \in Nat /\ MaxQuestions \in Nat /\ Failing \subseteq Hand
ASSUME OwnerAssumption == Owner \notin Agent
ASSUME RecAssumption == Rec = Question

VARIABLES
  job,   \* hand -> the write it is on its way to, or None
  gone,  \* hands whose client has dropped the connection
  pane,  \* lines typed into the sessions the questions name, in order
  alone  \* history: no two hands have been under way at once

vars == <<storeVars, job, gone, pane, alone>>

\* `types`: the answer is still to be typed into the session; `again`: the
\* command carried --reanswer.
Job == [id : Id, rec : Question, op : {"surface", "withdraw", "page", "command"},
        again : BOOLEAN, types : BOOLEAN]

ASSUME NoneAssumption == None \notin Job

Line == [id : Id, said : Said, again : BOOLEAN]

Idle(h) == job[h] = None

InTurn == \A g, h \in Hand : Idle(g) \/ Idle(h) \/ g = h

\* Room for another event and another line, besides those the hands under way
\* will write and type.
Room ==
  LET busy == Cardinality({h \in Hand : ~Idle(h)})
  IN  Len(log) + busy < MaxEvents /\ Len(pane) + busy < MaxEvents

Read(i) == latest[i].rec

Init ==
  /\ StoreInit
  /\ job = [h \in Hand |-> None]
  /\ gone = {}
  /\ pane = << >>
  /\ alone = TRUE

----------------------------------------------------------------------------
(* What internal/question does to a record.                                 *)

IsOpen(q) == q.status = "open"

MarkSurfaced(q) == [q EXCEPT !.surfaced = TRUE]

\* Mutant: an answer that leaves the status where it was.
AnswerStillOpen(q, said) == [q EXCEPT !.answer = said]

Answer(q, said) == [q EXCEPT !.status = "answered", !.answer = said]

AnswerRelayed(q, said) == [Answer(q, said) EXCEPT !.relayed = TRUE]

Withdraw(q) == [q EXCEPT !.status = "withdrawn"]

\* The open questions that block reporting work complete (Buried, Gate).
Buried(p) ==
  {i \in DOMAIN latest :
     i[1] = p /\ IsOpen(Read(i)) /\ (~Read(i).surfaced \/ Read(i).needed)}

\* The asker writes down only what the owner said elsewhere.
MayAnswer(q, by, elsewhere) == q.askedBy = by => elsewhere

\* Mutant: nothing stops a second answer.
AlwaysUnanswered(q, again) == TRUE

Unanswered(q, again) == q.answer # None => again

\* Mutant: the first delivery is the one recorded.
FirstDelivered(q, sent) == IF q.delivered = "" THEN [q EXCEPT !.delivered = sent] ELSE q

Delivered(q, sent) == [q EXCEPT !.delivered = sent]

----------------------------------------------------------------------------
(* The commands and the page.                                               *)

Start(h, i, op, q, again, types) ==
  /\ job' = [job EXCEPT ![h] = [id |-> i, op |-> op, rec |-> q, again |-> again, types |-> types]]
  /\ UNCHANGED <<storeVars, gone, pane>>

New(by, needed) ==
  [status |-> "open", surfaced |-> FALSE, needed |-> needed, askedBy |-> by,
   answer |-> None, relayed |-> FALSE, delivered |-> ""]

\* `mustur ask`.  Raised from a live session, the command goes on to mark the
\* question surfaced, with a read and a write of its own.
Ask(h, p, by, needed) ==
  /\ Idle(h) /\ Room /\ Cardinality(DOMAIN latest) < MaxQuestions
  /\ CreateTx(p, New(by, needed))
  /\ UNCHANGED <<attachment, job, gone, pane>>

\* The read of `mustur surfaced`, and of the second half of `mustur ask`.
Surface(h, i) ==
  /\ Idle(h) /\ Room
  /\ Start(h, i, "surface", MarkSurfaced(Read(i)), FALSE, FALSE)

\* The read of `mustur answer --withdraw`, which looks at no status.
WithdrawByCommand(h, i) ==
  /\ Idle(h) /\ Room
  /\ Start(h, i, "withdraw", Withdraw(Read(i)), FALSE, FALSE)

\* The read of `mustur answer`: the asker and an answer already there are
\* refused before anything is typed.
AnswerByCommand(h, i, text, by, elsewhere, again) ==
  LET q    == Read(i)
      said == [text |-> text, by |-> by, elsewhere |-> elsewhere]
  IN  /\ Idle(h) /\ Room
      /\ MayAnswer(q, by, elsewhere)
      /\ Unanswered(q, again)
      /\ Start(h, i, "command",
               IF elsewhere THEN AnswerRelayed(q, said) ELSE Answer(q, said), again, TRUE)

\* The read of a posted form; a question that is closed is redirected away.
WithdrawByPage(h, i) ==
  /\ Idle(h) /\ Room
  /\ IsOpen(Read(i))
  /\ Start(h, i, "withdraw", Withdraw(Read(i)), FALSE, FALSE)

\* The answer is always carried on: the program gives the page a Sender.
AnswerByPage(h, i, text) ==
  LET said == [text |-> text, by |-> Owner, elsewhere |-> FALSE]
  IN  /\ Idle(h) /\ Room
      /\ IsOpen(Read(i))
      /\ Start(h, i, "page", Answer(Read(i), said), FALSE, TRUE)

\* Deliver: bounded by DeliverTimeout, it always comes back with a sentence.
\* A Send cut short may have typed the line and report that it did not.
Deliver(h, sent, arrived) ==
  /\ ~Idle(h) /\ job[h].types
  /\ sent = "typed" => arrived
  /\ job' = [job EXCEPT ![h].types = FALSE, ![h].rec = Delivered(@, sent)]
  /\ pane' = IF arrived
               THEN Append(pane, [id |-> job[h].id, said |-> job[h].rec.answer,
                                  again |-> job[h].again])
               ELSE pane
  /\ UNCHANGED <<storeVars, gone>>

\* The phone's link dies while its request is handled.
DropLink(h) ==
  /\ ~Idle(h) /\ job[h].op = "page"
  /\ gone' = gone \cup {h}
  /\ UNCHANGED <<storeVars, job, pane>>

Done(h) ==
  /\ job' = [job EXCEPT ![h] = None]
  /\ gone' = gone \ {h}
  /\ UNCHANGED <<attachment, pane>>

\* Mutant: a write with the request's own context, which the dead link cancels.
WriteWhileLinked(h) ==
  /\ ~Idle(h) /\ ~job[h].types
  /\ IF h \in gone
       THEN UNCHANGED <<log, latest>>
       ELSE AppendTx(job[h].id, "amend", job[h].rec)
  /\ Done(h)

\* Mutant: a write that spares an answer given meanwhile, and nothing else.
WriteSparingAnswer(h) ==
  LET there == Read(job[h].id).answer IN
  /\ ~Idle(h) /\ ~job[h].types
  /\ AppendTx(job[h].id, "amend",
       [job[h].rec EXCEPT !.answer = IF there = None THEN @ ELSE there])
  /\ Done(h)

\* Append of the whole record, detached from the request (WithoutCancel).  Its
\* check that the record exists always passes: records are never removed.
Write(h) ==
  /\ ~Idle(h) /\ ~job[h].types
  /\ AppendTx(job[h].id, "amend", job[h].rec)
  /\ Done(h)

WriteFails(h) ==
  /\ h \in Failing
  /\ ~Idle(h) /\ ~job[h].types
  /\ Done(h)
  /\ UNCHANGED <<log, latest>>

Carry(h) ==
  \/ \E sent \in {"typed", "not"}, arrived \in BOOLEAN : Deliver(h, sent, arrived)
  \/ Write(h)

HandStep(h) ==
  \/ \E p \in Prefix, by \in Agent, needed \in BOOLEAN : Ask(h, p, by, needed)
  \/ \E i \in DOMAIN latest :
       \/ Surface(h, i)
       \/ WithdrawByCommand(h, i)
       \/ WithdrawByPage(h, i)
       \/ \E text \in Text : AnswerByPage(h, i, text)
       \/ \E text \in Text, by \in Actor, elsewhere \in BOOLEAN, again \in BOOLEAN :
            AnswerByCommand(h, i, text, by, elsewhere, again)
  \/ Carry(h)
  \/ DropLink(h)
  \/ WriteFails(h)

Next ==
  /\ \E h \in Hand : HandStep(h)
  /\ alone' = (alone /\ InTurn')

Spec == Init /\ [][Next]_vars

\* A command or a request that has begun runs on: nothing it calls waits for
\* ever, the delivery being bounded by DeliverTimeout.
FairSpec == Spec /\ \A h \in Hand : WF_vars(Carry(h) /\ alone' = (alone /\ InTurn'))

----------------------------------------------------------------------------
(* Properties.                                                              *)

\* The tables hold questions, and the hands hold writes of them.
TypeOK ==
  /\ StoreTypeOK
  /\ job \in [Hand -> Job \cup {None}]
  /\ gone \subseteq {h \in Hand : ~Idle(h)}
  /\ pane \in Seq(Line)
  /\ alone \in BOOLEAN

\* The gate cannot be closed by whoever it holds up: the answer a question
\* carries was given by another hand than its asker's, or is marked as written
\* down for the owner, whatever stale record any hand wrote back in between
\* (cmdAnswer: "the raiser may withdraw, never answer").
AskerNeverAnswers ==
  \A i \in DOMAIN latest :
    LET q == Read(i)
    IN  q.answer # None => q.answer.by # q.askedBy \/ (q.relayed /\ q.answer.elsewhere)

\* What a record says of the delivery is about the answer it carries: typed
\* means this answer went into the session, not one that stood here before
\* (answer: "what happened to the delivery is part of the same event").
DeliveredIsThisAnswer ==
  \A i \in DOMAIN latest :
    Read(i).delivered = "typed" =>
      \E n \in DOMAIN pane : pane[n].id = i /\ pane[n].said = Read(i).answer

\* A surfacing of question i is written.
Resurfaced(i) == \E h \in Hand : ~Idle(h) /\ job[h].id = i /\ job[h].op = "surface" /\ job'[h] = None

\* What makes the gate hold again over a question it let go of (Buried).  One
\* that is not needed it lets go of for good, however stale the records written
\* back; a needed one, which closed by being answered or withdrawn, comes back
\* only when hands have overlapped and a surfacing read it while it was open.
HeldAgainOnlyByOverlap ==
  [][\A i \in DOMAIN latest :
       i \notin Buried(i[1]) /\ i \in Buried(i[1])' =>
         Read(i).needed /\ Resurfaced(i) /\ ~alone']_vars

Purposeful(i) == \E h \in Hand : ~Idle(h) /\ job[h].id = i /\ job[h].again /\ job'[h] = None

\* An answer is replaced only by a command that carried --reanswer (cmdAnswer:
\* "Refusing to write over an answer that is already there"), as long as the
\* hands take turns: two that overlap both pass the check.
AnswerChangedOnPurpose ==
  [][alone' => \A i \in DOMAIN latest :
       Read(i).answer # None /\ latest'[i].rec.answer # Read(i).answer => Purposeful(i)]_vars

\* An answer the page took reaches the log although the link that brought it
\* has died and tmux may not answer ("a link that died afterwards must not
\* unmake it"), if the store takes what that hand writes.
AnswerReachesRecord ==
  \A h \in Hand \ Failing, i \in Prefix \X (1..MaxEvents), text \in Text :
    LET said == [text |-> text, by |-> Owner, elsewhere |-> FALSE]
    IN  (~Idle(h) /\ job[h].op = "page" /\ job[h].id = i /\ job[h].rec.answer = said)
          ~> \E k \in DOMAIN log : log[k].id = i /\ log[k].rec.answer = said

\* What a reader takes from a question.
Shown(q) ==
  [status |-> q.status, surfaced |-> q.surfaced, askedBy |-> q.askedBy,
   answer |-> q.answer, relayed |-> q.relayed]

\* All that question i has said.
SaidBy(events, i) == {Shown(events[k].rec) : k \in {n \in DOMAIN events : events[n].id = i}}

Queue == INSTANCE QuestionQueue WITH
  Ids     <- Id,
  Askers  <- Agent,
  Sayings <- Said,
  Unsaid  <- None,
  now     <- [i \in DOMAIN latest |-> Shown(Read(i))],
  past    <- [i \in IdsIn(log) |-> SaidBy(log, i)]

\* To its readers the queue is QuestionQueue: writes of whole records read a
\* while ago lose moves, but a question only ever comes to say what one lawful
\* move makes of something it really said (cmdAnswer, and the page's answer:
\* both write back the record they read).
QuestionsMoveLawfully == Queue!Spec
=============================================================================
