------------------------------ MODULE HeldJots ------------------------------
(***************************************************************************)
(* Readers' jots that wait for an owner: hold, point elsewhere, approve,   *)
(* discard (internal/store/held.go, internal/web/held.go, the handlers of  *)
(* internal/web/intake.go and questions.go).                               *)
(*                                                                         *)
(* A statement or transaction of the store is one step.  A send looks for  *)
(* the same line and then moves or inserts a row; an approval reads the    *)
(* row, checks whose it is to approve, claims it, files it and, refused,   *)
(* puts it back.  The process may die between any two.                     *)
(*                                                                         *)
(* Filing is one step here: Intake takes it apart.  Destinations and       *)
(* owners do not change.                                                   *)
(***************************************************************************)
EXTENDS Naturals, FiniteSets

CONSTANTS
  Reader,    \* accounts that may send and not file
  Owner,     \* accounts that approve
  Text,
  Dest,      \* what a form may name as destination, "route it for me" among them
  Project,
  Home,      \* the project this install serves
  Where,     \* text -> destination -> the project it resolves to, or None
  Owns,      \* who owns which project
  Row,       \* identifiers of held rows, used once
  Hand,      \* requests under way at once
  None       \* no value

ASSUME HomeAssumption == Home \in Project
ASSUME WhereAssumption == Where \in [Text -> [Dest -> Project \cup {None}]]
ASSUME OwnsAssumption == Owns \subseteq Owner \X Project
ASSUME NoneProjectAssumption == None \notin Project

VARIABLES
  held,    \* held_jot: identifier -> its row, or None
  fresh,   \* the rows created less than HoldRetry ago
  record,  \* row -> the finding filed of it, or None
  recent,  \* the rows whose finding was filed less than intake.Window ago
  job,     \* hand -> what its request does next, or None
  born,    \* history: the identifiers given out
  ends     \* history: row -> how often it was filed, discarded or lost

vars == <<held, fresh, record, recent, job, born, ends>>

Held == [text : Text, to : Dest, by : Reader]

\* A finding, with the owner who approved it beside its filer.
Filed == [text : Text, by : Reader, project : Project, approver : Owner]

\* What a request does next; `got` is the row an approval has claimed.
Claiming == [at : {"approve", "discard"}, row : Row, to : Dest, who : Owner]
Carrying == [at : {"file", "back"}, row : Row, got : Held, to : Dest, who : Owner]
Job == Claiming \cup Carrying
         \cup [at : {"insert"}, new : Held]
         \cup [at : {"move"}, row : Row, to : Dest]

ASSUME NoneAssumption == None \notin Held \cup Filed \cup Dest \cup Carrying

Idle(h) == job[h] = None

At(h, step) == ~Idle(h) /\ job[h].at = step
Goes(h, j) == job' = [job EXCEPT ![h] = j]
Rest(h) == Goes(h, None)

\* The hand has a claimed row that is in no table.
Carries(h, id) == (At(h, "file") \/ At(h, "back")) /\ job[h].row = id

Init ==
  /\ held = [id \in Row |-> None]
  /\ fresh = {}
  /\ record = [id \in Row |-> None]
  /\ recent = {}
  /\ job = [h \in Hand |-> None]
  /\ born = {}
  /\ ends = [id \in Row |-> 0]

----------------------------------------------------------------------------
(* A reader sends.                                                          *)

\* What counts as the same send: text and account, whatever the destination.
SameSend(p, t, d) == {id \in fresh : held[id] # None /\ held[id].by = p /\ held[id].text = t}

\* intake.Resolve finds the destination.
Resolves(t, d) == Where[t][d] # None

\* hold resolves the destination; Hold looks for the same send.
HoldLook(h, p, t, d) ==
  /\ Idle(h) /\ Resolves(t, d)
  /\ \/ /\ SameSend(p, t, d) = {}
        /\ Goes(h, [at |-> "insert", new |-> [text |-> t, to |-> d, by |-> p]])
     \/ \E id \in SameSend(p, t, d) :
          IF held[id].to = d
            THEN UNCHANGED job
            ELSE Goes(h, [at |-> "move", row |-> id, to |-> d])
  /\ UNCHANGED <<held, fresh, record, recent, born, ends>>

HoldInsert(h, id) ==
  /\ At(h, "insert") /\ id \notin born
  /\ held' = [held EXCEPT ![id] = job[h].new]
  /\ fresh' = fresh \cup {id}
  /\ born' = born \cup {id}
  /\ Rest(h)
  /\ UNCHANGED <<record, recent, ends>>

\* UPDATE held_jot SET destination: a row gone since is not there to move.
PointsTo(id, d) == [held EXCEPT ![id] = IF @ = None THEN None ELSE [@ EXCEPT !.to = d]]

HoldMove(h) ==
  /\ At(h, "move")
  /\ held' = PointsTo(job[h].row, job[h].to)
  /\ Rest(h)
  /\ UNCHANGED <<fresh, record, recent, born, ends>>

\* The connection goes, and the request's context with it; approving and
\* discarding are detached from theirs.
HoldEnds(h) ==
  /\ At(h, "insert") \/ At(h, "move")
  /\ Rest(h)
  /\ UNCHANGED <<held, fresh, record, recent, born, ends>>

\* A minute passes.
RowAges(id) ==
  /\ id \in fresh
  /\ fresh' = fresh \ {id}
  /\ UNCHANGED <<held, record, recent, job, born, ends>>

RecordAges(id) ==
  /\ id \in recent
  /\ recent' = recent \ {id}
  /\ UNCHANGED <<held, fresh, record, job, born, ends>>

----------------------------------------------------------------------------
(* An owner approves or discards.                                           *)

\* heldProject: a destination that resolves no more counts as this install's.
ProjectOf(t, d) == IF Where[t][d] = None THEN Home ELSE Where[t][d]

MayApprove(w, t, d) == <<w, ProjectOf(t, d)>> \in Owns

\* Mutant: the project it is filed under goes unchecked.
ChecksOne(w, row, d) == MayApprove(w, row.text, row.to)

\* Both ends: where the jot points and where this press would file it.
ChecksBoth(w, row, d) == MayApprove(w, row.text, row.to) /\ MayApprove(w, row.text, d)

ApproveRead(h, w, id, d) ==
  /\ Idle(h) /\ held[id] # None /\ ChecksBoth(w, held[id], d)
  /\ Goes(h, [at |-> "approve", row |-> id, to |-> d, who |-> w])
  /\ UNCHANGED <<held, fresh, record, recent, born, ends>>

\* A discard names no destination of its own.
DiscardRead(h, w, id) ==
  /\ Idle(h) /\ held[id] # None /\ MayApprove(w, held[id].text, held[id].to)
  /\ Goes(h, [at |-> "discard", row |-> id, to |-> held[id].to, who |-> w])
  /\ UNCHANGED <<held, fresh, record, recent, born, ends>>

\* Mutant: the row is deleted only once it is filed.
LeftInTable(id) == held

Deleted(id) == [held EXCEPT ![id] = None]

Ended(ids) == [id \in Row |-> IF id \in ids THEN ends[id] + 1 ELSE ends[id]]

\* claim: read and delete in one transaction; a second one finds nothing.
Claim(h) ==
  /\ At(h, "approve") \/ At(h, "discard")
  /\ LET id == job[h].row
     IN  \/ held[id] = None /\ Rest(h) /\ UNCHANGED <<held, ends>>
         \/ /\ held[id] # None /\ At(h, "discard")
            /\ held' = Deleted(id) /\ ends' = Ended({id})
            /\ Rest(h)
         \/ /\ held[id] # None /\ At(h, "approve")
            /\ held' = Deleted(id)
            /\ Goes(h, [at |-> "file", row |-> id, got |-> held[id], to |-> job[h].to,
                        who |-> job[h].who])
            /\ UNCHANGED ends
  /\ UNCHANGED <<fresh, record, recent, born>>

\* The same words from the same filer, filed inside intake.Window.
RecentlyFiled(got) ==
  \E id \in recent : record[id] # None /\ record[id].text = got.text /\ record[id].by = got.by

\* intake.File as the callback of Approve: a retry is the record it repeats.
File(h) ==
  /\ At(h, "file")
  /\ LET id  == job[h].row
         got == job[h].got
     IN  /\ Resolves(got.text, job[h].to)
         /\ IF RecentlyFiled(got)
              THEN UNCHANGED <<record, recent>>
              ELSE /\ record' = [record EXCEPT ![id] =
                                   [text |-> got.text, by |-> got.by, approver |-> job[h].who,
                                    project |-> Where[got.text][job[h].to]]]
                   /\ recent' = recent \cup {id}
         /\ ends' = Ended({id})
  /\ Rest(h)
  /\ UNCHANGED <<held, fresh, born>>

\* An unknown destination, or the store: always possible.
FileRefused(h) ==
  /\ At(h, "file")
  /\ Goes(h, [job[h] EXCEPT !.at = "back"])
  /\ UNCHANGED <<held, fresh, record, recent, born, ends>>

PutBack(h) ==
  /\ At(h, "back")
  /\ held' = [held EXCEPT ![job[h].row] = job[h].got]
  /\ Rest(h)
  /\ UNCHANGED <<fresh, record, recent, born, ends>>

\* The insert fails as well: both errors are reported and the row is gone.
PutBackFails(h) ==
  /\ At(h, "back")
  /\ ends' = Ended({job[h].row})
  /\ Rest(h)
  /\ UNCHANGED <<held, fresh, record, recent, born>>

\* The process dies: what was claimed and not filed is nowhere.
Crash ==
  /\ \E h \in Hand : ~Idle(h)
  /\ ends' = Ended({id \in Row : \E h \in Hand : Carries(h, id)})
  /\ job' = [h \in Hand |-> None]
  /\ UNCHANGED <<held, fresh, record, recent, born>>

HandStep(h) ==
  \/ \E p \in Reader, t \in Text, d \in Dest : HoldLook(h, p, t, d)
  \/ \E id \in Row : HoldInsert(h, id)
  \/ HoldMove(h)
  \/ HoldEnds(h)
  \/ \E w \in Owner, id \in Row, d \in Dest : ApproveRead(h, w, id, d)
  \/ \E w \in Owner, id \in Row : DiscardRead(h, w, id)
  \/ Claim(h)
  \/ File(h)
  \/ FileRefused(h)
  \/ PutBack(h)
  \/ PutBackFails(h)

Next ==
  \/ \E h \in Hand : HandStep(h)
  \/ \E id \in Row : RowAges(id) \/ RecordAges(id)
  \/ Crash

Spec == Init /\ [][Next]_vars

----------------------------------------------------------------------------
(* Properties.                                                              *)

\* The table and the requests hold well-formed rows.
TypeOK ==
  /\ held \in [Row -> Held \cup {None}]
  /\ fresh \subseteq Row /\ recent \subseteq Row /\ born \subseteq Row
  /\ record \in [Row -> Filed \cup {None}]
  /\ job \in [Hand -> Job \cup {None}]
  /\ ends \in [Row -> Nat]

\* Who holds a jot that was sent: the table, one request that claimed it, or
\* nobody, once, because it was filed, discarded or lost with the process.
InTable(id) == held[id] # None
InHands(id) == {h \in Hand : Carries(h, id)}

OnePlace(id) ==
  /\ id \in born <=> InTable(id) \/ InHands(id) # {} \/ ends[id] > 0
  /\ ends[id] <= 1
  /\ InTable(id) => InHands(id) = {} /\ ends[id] = 0
  /\ InHands(id) # {} => ends[id] = 0
  /\ \A g, h \in InHands(id) : g = h

\* However approvals, discards, refusals and restarts interleave, a jot is in
\* one place and ends at most once (held.go: a second press, or a phone
\* resending it, finds it "gone the second time rather than filing twice"; a
\* refused filing "leaves the jot waiting rather than lost").
JotInOnePlace == \A id \in Row : OnePlace(id)

\* A jot is filed under a project its approver owns, whatever they changed the
\* destination to and whatever the reader resends meanwhile ("Only an owner of
\* both ends may do it").
FiledWhereOwned ==
  \A id \in Row : record[id] # None => <<record[id].approver, record[id].project>> \in Owns

=============================================================================
