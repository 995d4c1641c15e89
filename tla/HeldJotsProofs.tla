--------------------------- MODULE HeldJotsProofs ---------------------------
(***************************************************************************)
(* Proofs about HeldJots, for any accounts, destinations, rows and         *)
(* requests.                                                               *)
(***************************************************************************)
EXTENDS HeldJots, TLAPS

USE DEF Goes, Rest, Idle, At

LEMMA InitTypeOK == Init => TypeOK
  BY DEF Init, TypeOK

LEMMA TypeStep == TypeOK /\ [Next]_vars => TypeOK'
<1> SUFFICES ASSUME TypeOK, [Next]_vars PROVE TypeOK'
  OBVIOUS
<1> USE DEF TypeOK
<1>1. CASE UNCHANGED vars
  BY <1>1 DEF vars
<1>2. ASSUME NEW h \in Hand, NEW p \in Reader, NEW t \in Text, NEW d \in Dest, HoldLook(h, p, t, d)
      PROVE  TypeOK'
  <2>1. [at |-> "insert", new |-> [text |-> t, to |-> d, by |-> p]] \in Job
    BY DEF Job, Held
  <2>2. \A id \in Row : [at |-> "move", row |-> id, to |-> d] \in Job
    BY DEF Job
  <2>3. SameSend(p, t, d) \subseteq Row
    BY DEF SameSend
  <2>4. job' \in [Hand -> Job \cup {None}]
    BY <1>2, <2>1, <2>2, <2>3 DEF HoldLook
  <2>5. QED
    BY <1>2, <2>4 DEF HoldLook
<1>3. ASSUME NEW h \in Hand, NEW id \in Row, HoldInsert(h, id)
      PROVE  TypeOK'
  <2>1. job[h].new \in Held
    BY <1>3 DEF HoldInsert, Job, Claiming, Carrying
  <2>2. held' \in [Row -> Held \cup {None}]
    BY <1>3, <2>1 DEF HoldInsert
  <2>3. QED
    BY <1>3, <2>2 DEF HoldInsert
<1>4. ASSUME NEW h \in Hand, HoldMove(h)
      PROVE  TypeOK'
  <2>1. job[h].row \in Row /\ job[h].to \in Dest
    BY <1>4 DEF HoldMove, Job, Claiming, Carrying
  <2>2. ASSUME NEW row \in Held, NEW d \in Dest PROVE [row EXCEPT !.to = d] \in Held
    BY DEF Held
  <2>3. held' \in [Row -> Held \cup {None}]
    BY <1>4, <2>1, <2>2 DEF HoldMove, PointsTo
  <2>4. QED
    BY <1>4, <2>3 DEF HoldMove
<1>5. ASSUME NEW h \in Hand, HoldEnds(h)
      PROVE  TypeOK'
  BY <1>5 DEF HoldEnds
<1>6. ASSUME NEW h \in Hand, NEW w \in Owner, NEW id \in Row, NEW d \in Dest, ApproveRead(h, w, id, d)
      PROVE  TypeOK'
  <2>1. [at |-> "approve", row |-> id, to |-> d, who |-> w] \in Job
    BY DEF Job, Claiming
  <2>2. QED
    BY <1>6, <2>1 DEF ApproveRead
<1>7. ASSUME NEW h \in Hand, NEW w \in Owner, NEW id \in Row, DiscardRead(h, w, id)
      PROVE  TypeOK'
  <2>1. held[id].to \in Dest
    BY <1>7 DEF DiscardRead, Held
  <2>2. [at |-> "discard", row |-> id, to |-> held[id].to, who |-> w] \in Job
    BY <2>1 DEF Job, Claiming
  <2>3. QED
    BY <1>7, <2>2 DEF DiscardRead
<1>8. ASSUME NEW h \in Hand, Claim(h)
      PROVE  TypeOK'
  <2>1. job[h].row \in Row /\ job[h].to \in Dest /\ job[h].who \in Owner
    BY <1>8 DEF Claim, Job, Claiming, Carrying
  <2>2. held[job[h].row] # None =>
          [at |-> "file", row |-> job[h].row, got |-> held[job[h].row], to |-> job[h].to,
           who |-> job[h].who] \in Job
    BY <2>1 DEF Job, Carrying
  <2>3. job' \in [Hand -> Job \cup {None}]
    BY <1>8, <2>2 DEF Claim
  <2>4. held' \in [Row -> Held \cup {None}] /\ ends' \in [Row -> Nat]
    BY <1>8, <2>1 DEF Claim, Deleted, Ended
  <2>5. QED
    BY <1>8, <2>3, <2>4 DEF Claim
<1>9. ASSUME NEW h \in Hand, At(h, "file") \/ At(h, "back")
       PROVE  job[h].row \in Row /\ job[h].got \in Held /\ job[h].to \in Dest /\ job[h].who \in Owner
  BY <1>9 DEF Job, Claiming, Carrying
<1>10. ASSUME NEW h \in Hand, File(h)
       PROVE  TypeOK'
  <2> DEFINE got == job[h].got
             row == [text |-> got.text, by |-> got.by, approver |-> job[h].who,
                     project |-> Where[got.text][job[h].to]]
  <2>1. job[h].row \in Row /\ got \in Held /\ job[h].to \in Dest /\ job[h].who \in Owner
    BY <1>9, <1>10 DEF File
  <2>2. Where[got.text][job[h].to] \in Project
    BY <1>10, <2>1, WhereAssumption DEF File, Resolves, Held
  <2>3. row \in Filed
    BY <2>1, <2>2 DEF Filed, Held
  <2>4. record' \in [Row -> Filed \cup {None}] /\ recent' \subseteq Row
    <3> HIDE DEF row
    <3>1. \/ record' = record /\ recent' = recent
          \/ record' = [record EXCEPT ![job[h].row] = row] /\ recent' = recent \cup {job[h].row}
      BY <1>10, Zenon DEF File, row
    <3>2. QED
      BY <2>1, <2>3, <3>1
  <2>5. ends' \in [Row -> Nat]
    BY <1>10 DEF File, Ended
  <2>6. QED
    BY <1>10, <2>4, <2>5 DEF File
<1>11. ASSUME NEW h \in Hand, FileRefused(h)
       PROVE  TypeOK'
  <2>1. job[h] \in Carrying
    BY <1>11 DEF FileRefused, Job, Claiming, Carrying
  <2>2. [job[h] EXCEPT !.at = "back"] \in Carrying
    BY <2>1 DEF Carrying
  <2>3. QED
    BY <1>11, <2>2 DEF FileRefused, Job
<1>12. ASSUME NEW h \in Hand, PutBack(h)
       PROVE  TypeOK'
  BY <1>9, <1>12 DEF PutBack
<1>13. ASSUME NEW h \in Hand, PutBackFails(h)
       PROVE  TypeOK'
  BY <1>13 DEF PutBackFails, Ended
<1>14. ASSUME NEW id \in Row, RowAges(id) \/ RecordAges(id)
       PROVE  TypeOK'
  BY <1>14 DEF RowAges, RecordAges
<1>15. CASE Crash
  BY <1>15 DEF Crash, Ended
<1>16. QED
  BY <1>1, <1>2, <1>3, <1>4, <1>5, <1>6, <1>7, <1>8, <1>10, <1>11, <1>12, <1>13, <1>14, <1>15, Zenon
  DEF Next, HandStep

\* The table and the requests hold well-formed rows.
THEOREM HeldTyped == Spec => []TypeOK
  BY InitTypeOK, TypeStep, PTL DEF Spec

----------------------------------------------------------------------------
(* One place at a time.                                                     *)

\* A step that gives hand h the job j leaves the other hands what they carry.
LEMMA CarriesOfOne ==
  ASSUME TypeOK, NEW h \in Hand, NEW j, Goes(h, j), NEW id \in Row
  PROVE  /\ \A g \in Hand \ {h} : Carries(g, id)' <=> Carries(g, id)
         /\ Carries(h, id)' <=> j # None /\ j.at \in {"file", "back"} /\ j.row = id
  BY DEF TypeOK, Carries

\* A step that leaves a jot where it is.
LEMMA StaysPut ==
  ASSUME NEW id \in Row, OnePlace(id), InTable(id)' <=> InTable(id), ends'[id] = ends[id],
         id \in born' <=> id \in born, \A g \in Hand : Carries(g, id)' <=> Carries(g, id)
  PROVE  OnePlace(id)'
<1>1. InHands(id)' = InHands(id)
  BY DEF InHands
<1>2. QED
  BY <1>1 DEF OnePlace

LEMMA OnePlaceStep ==
  ASSUME TypeOK, [Next]_vars, NEW id \in Row, OnePlace(id)
  PROVE  OnePlace(id)'
<1> USE DEF TypeOK
<1>1. CASE UNCHANGED vars
  BY <1>1 DEF vars, OnePlace, InTable, InHands, Carries
<1>2. ASSUME NEW h \in Hand, NEW j, Goes(h, j), ~Carries(h, id),
             j = None \/ j.at \notin {"file", "back"} \/ j.row # id
      PROVE  \A g \in Hand : Carries(g, id)' <=> Carries(g, id)
  BY <1>2, CarriesOfOne, Zenon
<1>3. ASSUME NEW h \in Hand, NEW p \in Reader, NEW t \in Text, NEW d \in Dest, HoldLook(h, p, t, d)
      PROVE  OnePlace(id)'
  <2>1. ~Carries(h, id)
    BY <1>3 DEF HoldLook, Carries
  <2>2. \A g \in Hand : Carries(g, id)' <=> Carries(g, id)
    <3>1. CASE UNCHANGED job
      BY <3>1 DEF Carries
    <3>2. CASE Goes(h, [at |-> "insert", new |-> [text |-> t, to |-> d, by |-> p]])
      BY <1>2, <2>1, <3>2
    <3>3. ASSUME NEW i \in Row, Goes(h, [at |-> "move", row |-> i, to |-> d])
          PROVE  \A g \in Hand : Carries(g, id)' <=> Carries(g, id)
      BY <1>2, <2>1, <3>3
    <3>4. \A i \in SameSend(p, t, d) : i \in Row
      BY DEF SameSend
    <3>5. QED
      BY <1>3, <3>1, <3>2, <3>3, <3>4 DEF HoldLook
  <2>3. QED
    BY <1>3, <2>2, StaysPut DEF HoldLook, InTable
<1>4. ASSUME NEW h \in Hand, NEW i \in Row, HoldInsert(h, i)
      PROVE  OnePlace(id)'
  <2>1. \A g \in Hand : Carries(g, id)' <=> Carries(g, id)
    BY <1>2, <1>4 DEF HoldInsert, Carries
  <2>2. CASE i = id
    <3>1. held'[id] # None
      BY <1>4, <2>2, NoneAssumption DEF HoldInsert, Job, Claiming, Carrying
    <3>2. InHands(id) = {} /\ ends[id] = 0 /\ ends' = ends /\ id \in born'
      BY <1>4, <2>2 DEF HoldInsert, OnePlace
    <3>3. InHands(id)' = {}
      BY <2>1, <3>2 DEF InHands
    <3>4. QED
      BY <3>1, <3>2, <3>3 DEF OnePlace, InTable
  <2>3. CASE i # id
    BY <1>4, <2>1, <2>3, StaysPut DEF HoldInsert, InTable
  <2>4. QED
    BY <2>2, <2>3
<1>5. ASSUME NEW h \in Hand, HoldMove(h)
      PROVE  OnePlace(id)'
  <2>1. \A g \in Hand : Carries(g, id)' <=> Carries(g, id)
    BY <1>2, <1>5 DEF HoldMove, Carries
  <2>2. job[h].row \in Row /\ job[h].to \in Dest
    BY <1>5 DEF HoldMove, Job, Claiming, Carrying
  <2>3. ASSUME NEW row \in Held, NEW d \in Dest PROVE [row EXCEPT !.to = d] # None
    BY NoneAssumption DEF Held
  <2>4. InTable(id)' <=> InTable(id)
    BY <1>5, <2>2, <2>3 DEF HoldMove, PointsTo, InTable
  <2>5. QED
    BY <1>5, <2>1, <2>4, StaysPut DEF HoldMove
<1>6. ASSUME NEW h \in Hand, HoldEnds(h)
      PROVE  OnePlace(id)'
  <2>1. \A g \in Hand : Carries(g, id)' <=> Carries(g, id)
    BY <1>2, <1>6 DEF HoldEnds, Carries
  <2>2. QED
    BY <1>6, <2>1, StaysPut DEF HoldEnds, InTable
<1>7. ASSUME NEW h \in Hand, NEW w \in Owner, NEW i \in Row, NEW d \in Dest, ApproveRead(h, w, i, d)
      PROVE  OnePlace(id)'
  <2>1. \A g \in Hand : Carries(g, id)' <=> Carries(g, id)
    BY <1>2, <1>7 DEF ApproveRead, Carries
  <2>2. QED
    BY <1>7, <2>1, StaysPut DEF ApproveRead, InTable
<1>8. ASSUME NEW h \in Hand, NEW w \in Owner, NEW i \in Row, DiscardRead(h, w, i)
      PROVE  OnePlace(id)'
  <2>1. \A g \in Hand : Carries(g, id)' <=> Carries(g, id)
    BY <1>2, <1>8 DEF DiscardRead, Carries
  <2>2. QED
    BY <1>8, <2>1, StaysPut DEF DiscardRead, InTable
<1>9. ASSUME NEW h \in Hand, Claim(h)
      PROVE  OnePlace(id)'
  <2> DEFINE r == job[h].row
             j == [at |-> "file", row |-> r, got |-> held[r], to |-> job[h].to, who |-> job[h].who]
  <2>1. r \in Row /\ ~Carries(h, id) /\ UNCHANGED born
    BY <1>9 DEF Claim, Job, Claiming, Carrying, Carries
  <2>2. CASE r # id
    <3>1. Rest(h) \/ Goes(h, j)
      BY <1>9 DEF Claim
    <3>2. \A g \in Hand : Carries(g, id)' <=> Carries(g, id)
      BY <1>2, <2>1, <2>2, <3>1
    <3>3. held'[id] = held[id] /\ ends'[id] = ends[id]
      BY <1>9, <2>1, <2>2 DEF Claim, Deleted, Ended
    <3>4. QED
      BY <2>1, <3>2, <3>3, StaysPut DEF InTable
  <2>3. CASE r = id /\ held[r] = None
    <3>1. Rest(h) /\ UNCHANGED <<held, ends>>
      BY <1>9, <2>3 DEF Claim
    <3>2. \A g \in Hand : Carries(g, id)' <=> Carries(g, id)
      BY <1>2, <2>1, <3>1
    <3>3. QED
      BY <2>1, <3>1, <3>2, StaysPut DEF InTable
  <2>4. CASE r = id /\ held[r] # None /\ At(h, "discard")
    <3>1. Rest(h) /\ held' = Deleted(id) /\ ends' = Ended({id})
      BY <1>9, <2>4 DEF Claim
    <3>2. InHands(id) = {} /\ ends[id] = 0 /\ id \in born
      BY <2>4 DEF OnePlace, InTable
    <3>3. \A g \in Hand : Carries(g, id)' <=> Carries(g, id)
      BY <1>2, <2>1, <3>1
    <3>4. InHands(id)' = {}
      BY <3>2, <3>3 DEF InHands
    <3>5. held'[id] = None /\ ends'[id] = 1 /\ id \in born'
      BY <2>1, <3>1, <3>2 DEF Deleted, Ended
    <3>6. QED
      BY <3>4, <3>5 DEF OnePlace, InTable
  <2>5. CASE r = id /\ held[r] # None /\ At(h, "approve")
    <3>1. Goes(h, j) /\ held' = Deleted(id) /\ ends' = ends
      BY <1>9, <2>5 DEF Claim
    <3>2. InHands(id) = {} /\ ends[id] = 0 /\ id \in born
      BY <2>5 DEF OnePlace, InTable
    <3>3. \A g \in Hand \ {h} : ~Carries(g, id)'
      BY <3>1, <3>2, CarriesOfOne DEF InHands
    <3>4. j \in Carrying
      BY <1>9, <2>1, <2>5 DEF Claim, Carrying, Job, Claiming
    <3>5. Carries(h, id)'
      <4>1. j # None /\ j.at = "file" /\ j.row = id
        BY <2>5, <3>4, NoneAssumption
      <4> HIDE DEF j
      <4>2. QED
        BY <3>1, <4>1, CarriesOfOne
    <3>6. InHands(id)' = {h}
      BY <3>3, <3>5 DEF InHands
    <3>7. held'[id] = None /\ ends'[id] = 0 /\ id \in born'
      BY <2>1, <3>1, <3>2 DEF Deleted
    <3>8. QED
      BY <3>6, <3>7 DEF OnePlace, InTable
  <2>6. QED
    BY <1>9, <2>2, <2>3, <2>4, <2>5 DEF Claim
<1>10. ASSUME NEW h \in Hand, At(h, "file") \/ At(h, "back")
       PROVE  job[h] \in Carrying
  BY <1>10 DEF Job, Claiming, Carrying
\* The hand that carries a jot lets go of it.
<1>11. ASSUME NEW h \in Hand, Rest(h), Carries(h, id)
       PROVE  InHands(id)' = {} /\ ends[id] = 0 /\ ~InTable(id) /\ id \in born
  <2>1. \A g \in Hand \ {h} : ~Carries(g, id)
    BY <1>11 DEF OnePlace, InHands
  <2>2. \A g \in Hand : ~Carries(g, id)'
    BY <1>11, <2>1, CarriesOfOne, Zenon
  <2>3. QED
    BY <1>11, <2>2 DEF OnePlace, InHands
<1>12. ASSUME NEW h \in Hand, File(h) \/ PutBackFails(h)
       PROVE  OnePlace(id)'
  <2>1. /\ At(h, "file") \/ At(h, "back")
        /\ Rest(h) /\ UNCHANGED <<held, born>> /\ ends' = Ended({job[h].row})
    BY <1>12 DEF File, PutBackFails
  <2>2. CASE job[h].row = id
    <3>1. Carries(h, id)
      BY <2>1, <2>2 DEF Carries
    <3>2. InHands(id)' = {} /\ ends[id] = 0 /\ ~InTable(id) /\ id \in born
      BY <1>11, <2>1, <3>1
    <3>3. ends'[id] = 1 /\ ~InTable(id)' /\ id \in born'
      BY <2>1, <2>2, <3>2 DEF Ended, InTable
    <3>4. QED
      BY <3>2, <3>3 DEF OnePlace
  <2>3. CASE job[h].row # id
    <3>1. \A g \in Hand : Carries(g, id)' <=> Carries(g, id)
      BY <1>2, <2>1, <2>3 DEF Carries
    <3>2. QED
      BY <2>1, <2>3, <3>1, StaysPut DEF Ended, InTable
  <2>4. QED
    BY <2>2, <2>3
<1>13. ASSUME NEW h \in Hand, FileRefused(h)
       PROVE  OnePlace(id)'
  <2> DEFINE j == [job[h] EXCEPT !.at = "back"]
  <2>1. j \in Carrying /\ j.at = "back" /\ j.row = job[h].row
    BY <1>10, <1>13 DEF FileRefused, Carrying
  <2>2. Goes(h, j) /\ UNCHANGED <<held, born, ends>> /\ At(h, "file")
    BY <1>13 DEF FileRefused
  <2> HIDE DEF j
  <2>3. \A g \in Hand : Carries(g, id)' <=> Carries(g, id)
    BY <2>1, <2>2, CarriesOfOne, NoneAssumption DEF Carries
  <2>4. QED
    BY <2>2, <2>3, StaysPut DEF InTable
<1>14. ASSUME NEW h \in Hand, PutBack(h)
       PROVE  OnePlace(id)'
  <2>1. /\ job[h] \in Carrying /\ At(h, "back") /\ Rest(h) /\ UNCHANGED <<born, ends>>
        /\ held' = [held EXCEPT ![job[h].row] = job[h].got]
    BY <1>10, <1>14 DEF PutBack
  <2>2. CASE job[h].row = id
    <3>1. Carries(h, id)
      BY <2>1, <2>2 DEF Carries
    <3>2. held'[id] # None
      BY <2>1, <2>2, NoneAssumption DEF Carrying
    <3>3. ends'[id] = 0 /\ InHands(id)' = {} /\ id \in born'
      BY <1>11, <2>1, <3>1
    <3>4. QED
      BY <3>2, <3>3 DEF OnePlace, InTable
  <2>3. CASE job[h].row # id
    <3>1. \A g \in Hand : Carries(g, id)' <=> Carries(g, id)
      BY <1>2, <2>1, <2>3 DEF Carries
    <3>2. QED
      BY <2>1, <2>3, <3>1, StaysPut DEF InTable
  <2>4. QED
    BY <2>2, <2>3
<1>15. ASSUME NEW i \in Row, RowAges(i) \/ RecordAges(i)
       PROVE  OnePlace(id)'
  BY <1>15, StaysPut DEF RowAges, RecordAges, Carries, InTable
<1>16. CASE Crash
  <2>1. \A g \in Hand : ~Carries(g, id)'
    BY <1>16 DEF Crash, Carries
  <2>2. InHands(id)' = {}
    BY <2>1 DEF InHands
  <2>3. /\ held' = held /\ born' = born
        /\ ends'[id] = IF InHands(id) # {} THEN ends[id] + 1 ELSE ends[id]
    BY <1>16 DEF Crash, Ended, InHands
  <2>4. QED
    BY <2>2, <2>3 DEF OnePlace, InTable
<1>17. QED
  BY <1>1, <1>3, <1>4, <1>5, <1>6, <1>7, <1>8, <1>9, <1>12, <1>13, <1>14, <1>15, <1>16, Zenon
  DEF Next, HandStep

\* However approvals, discards, refusals and restarts interleave, a jot is in
\* one place and ends at most once.
THEOREM HeldInOnePlace == Spec => []JotInOnePlace
<1>1. Init => JotInOnePlace
  BY DEF Init, JotInOnePlace, OnePlace, InTable, InHands, Carries
<1>2. TypeOK /\ JotInOnePlace /\ [Next]_vars => JotInOnePlace'
  BY OnePlaceStep DEF JotInOnePlace
<1>3. QED
  BY <1>1, <1>2, HeldTyped, PTL DEF Spec

----------------------------------------------------------------------------
(* Where it is filed.                                                       *)

\* The steps of a request that files nothing.
Aside == {"insert", "move", "discard"}

\* What an approval becomes: a claim, then the same words on their way.
LEMMA JobChange ==
  ASSUME TypeOK, [Next]_vars, NEW g \in Hand, job'[g] # job[g], job'[g] # None
  PROVE  \/ job'[g].at \in Aside
         \/ \E w \in Owner, id \in Row, d \in Dest :
              ApproveRead(g, w, id, d) /\ job'[g] = [at |-> "approve", row |-> id, to |-> d, who |-> w]
         \/ /\ At(g, "approve") /\ InTable(job[g].row)
            /\ job'[g] = [at |-> "file", row |-> job[g].row, got |-> held[job[g].row],
                          to |-> job[g].to, who |-> job[g].who]
         \/ FileRefused(g) /\ job'[g] = [job[g] EXCEPT !.at = "back"]
<1> USE DEF TypeOK
<1>1. ASSUME NEW h \in Hand, NEW j, Goes(h, j) PROVE g = h /\ job'[g] = j /\ j # None
  BY <1>1
<1>2. ASSUME NEW h \in Hand, Rest(h) PROVE FALSE
  BY <1>1, <1>2
<1>3. ASSUME NEW h \in Hand, NEW p \in Reader, NEW t \in Text, NEW d \in Dest, HoldLook(h, p, t, d)
      PROVE  job'[g].at \in {"insert", "move"}
  BY <1>1, <1>3 DEF HoldLook
<1>4. ASSUME NEW h \in Hand, NEW w \in Owner, NEW id \in Row, NEW d \in Dest, ApproveRead(h, w, id, d)
      PROVE  ApproveRead(g, w, id, d) /\ job'[g] = [at |-> "approve", row |-> id, to |-> d, who |-> w]
  <2>1. g = h /\ job'[g] = [at |-> "approve", row |-> id, to |-> d, who |-> w]
    BY <1>1, <1>4 DEF ApproveRead
  <2>2. QED
    BY <1>4, <2>1
<1>5. ASSUME NEW h \in Hand, NEW w \in Owner, NEW id \in Row, DiscardRead(h, w, id)
      PROVE  job'[g].at = "discard"
  BY <1>1, <1>5 DEF DiscardRead
<1>6. ASSUME NEW h \in Hand, Claim(h)
      PROVE  /\ At(g, "approve") /\ InTable(job[g].row)
             /\ job'[g] = [at |-> "file", row |-> job[g].row, got |-> held[job[g].row],
                           to |-> job[g].to, who |-> job[g].who]
  <2> DEFINE j == [at |-> "file", row |-> job[h].row, got |-> held[job[h].row],
                   to |-> job[h].to, who |-> job[h].who]
  <2>1. At(h, "approve") /\ InTable(job[h].row) /\ Goes(h, j)
    BY <1>2, <1>6, Zenon DEF Claim, InTable
  <2>2. g = h /\ job'[g] = j
    BY <1>1, <2>1
  <2>3. QED
    BY <2>1, <2>2
<1>7. ASSUME NEW h \in Hand, FileRefused(h)
      PROVE  FileRefused(g) /\ job'[g] = [job[g] EXCEPT !.at = "back"]
  <2>1. g = h /\ job'[g] = [job[h] EXCEPT !.at = "back"]
    BY <1>1, <1>7 DEF FileRefused
  <2>2. QED
    BY <1>7, <2>1
<1>8. ASSUME NEW h \in Hand
      PROVE  ~HoldMove(h) /\ ~HoldEnds(h) /\ ~File(h) /\ ~PutBack(h) /\ ~PutBackFails(h)
             /\ \A id \in Row : ~HoldInsert(h, id)
  BY <1>2 DEF HoldMove, HoldEnds, File, PutBack, PutBackFails, HoldInsert
<1>9. ASSUME NEW h \in Hand, HandStep(h)
      PROVE  \/ job'[g].at \in Aside
             \/ \E w \in Owner, id \in Row, d \in Dest :
                  ApproveRead(g, w, id, d) /\ job'[g] = [at |-> "approve", row |-> id, to |-> d, who |-> w]
             \/ Claim(h) \/ FileRefused(h)
  <2> DEFINE Approving == \E w \in Owner, id \in Row, d \in Dest :
               ApproveRead(g, w, id, d) /\ job'[g] = [at |-> "approve", row |-> id, to |-> d, who |-> w]
             Turned == job'[g].at \in Aside
  <2>1. ASSUME NEW p \in Reader, NEW t \in Text, NEW d \in Dest, HoldLook(h, p, t, d) PROVE Turned
    BY <1>3, <2>1 DEF Aside
  <2>2. ASSUME NEW w \in Owner, NEW id \in Row, DiscardRead(h, w, id) PROVE Turned
    BY <1>5, <2>2 DEF Aside
  <2>3. ASSUME NEW w \in Owner, NEW id \in Row, NEW d \in Dest, ApproveRead(h, w, id, d) PROVE Approving
    <3>1. ApproveRead(g, w, id, d) /\ job'[g] = [at |-> "approve", row |-> id, to |-> d, who |-> w]
      BY <1>4, <2>3
    <3>2. QED
      BY <3>1
  <2> HIDE DEF Approving, Turned
  <2>4. Turned \/ Approving \/ Claim(h) \/ FileRefused(h)
    BY <1>8, <1>9, <2>1, <2>2, <2>3 DEF HandStep
  <2>5. QED
    BY <2>4 DEF Approving, Turned
<1>10. ASSUME UNCHANGED job PROVE FALSE
  BY <1>10
<1>11. ~(\E id \in Row : RowAges(id) \/ RecordAges(id)) /\ ~Crash
  BY DEF RowAges, RecordAges, Crash
<1>12. PICK h \in Hand : HandStep(h)
  BY <1>10, <1>11 DEF Next, vars
<1>13. CASE Claim(h)
  BY <1>6, <1>13, Zenon
<1>14. CASE FileRefused(h)
  BY <1>7, <1>14, Zenon
<1>15. QED
  BY <1>9, <1>12, <1>13, <1>14, Zenon

\* What a row of the table is after a step: what it was but for where it
\* points, or new, or put back by a hand that carried it.
LEMMA HeldChange ==
  ASSUME TypeOK, [Next]_vars, NEW id \in Row, InTable(id)'
  PROVE  \/ InTable(id) /\ held'[id].text = held[id].text
         \/ id \notin born
         \/ \E g \in Hand : Carries(g, id) /\ held'[id] = job[g].got
<1> USE DEF TypeOK, InTable
<1>1. CASE UNCHANGED held
  BY <1>1
<1>2. ASSUME NEW h \in Hand, HandStep(h), held' # held
      PROVE  HoldMove(h) \/ Claim(h) \/ PutBack(h) \/ \E i \in Row : HoldInsert(h, i)
  BY <1>2
  DEF HandStep, HoldLook, HoldEnds, ApproveRead, DiscardRead, File, FileRefused, PutBackFails
<1>3. ASSUME NEW h \in Hand, NEW i \in Row, HoldInsert(h, i)
      PROVE  id \notin born \/ held'[id] = held[id]
  BY <1>3 DEF HoldInsert
<1>4. ASSUME NEW h \in Hand, HoldMove(h)
      PROVE  InTable(id) /\ held'[id].text = held[id].text
  <2>1. held' = PointsTo(job[h].row, job[h].to)
    BY <1>4 DEF HoldMove
  <2>2. held[id] # None => [held[id] EXCEPT !.to = job[h].to].text = held[id].text
    BY DEF Held
  <2>3. held'[id] = IF id # job[h].row \/ held[id] = None THEN held[id]
                    ELSE [held[id] EXCEPT !.to = job[h].to]
    BY <2>1 DEF PointsTo
  <2>4. QED
    BY <2>2, <2>3
<1>5. ASSUME NEW h \in Hand, Claim(h)
      PROVE  held'[id] = held[id]
  BY <1>5 DEF Claim, Deleted
<1>6. ASSUME NEW h \in Hand, PutBack(h)
      PROVE  held'[id] = held[id] \/ (Carries(h, id) /\ held'[id] = job[h].got)
  BY <1>6 DEF PutBack, Carries
<1>7. CASE \E h \in Hand : HandStep(h)
  BY <1>1, <1>2, <1>3, <1>4, <1>5, <1>6, <1>7
<1>8. QED
  BY <1>1, <1>7 DEF Next, vars, RowAges, RecordAges, Crash

\* An approval that was let through may file the row's words where it says, as
\* long as there is a row: in the table, or put back by another request.
Allowed(j, t) == MayApprove(j.who, t, j.to)

ApprovesRightly(h) ==
  At(h, "approve") =>
    /\ job[h].row \in born
    /\ InTable(job[h].row) => Allowed(job[h], held[job[h].row].text)
    /\ \A g \in Hand : Carries(g, job[h].row) => Allowed(job[h], job[g].got.text)

FilesRightly(h) == At(h, "file") => Allowed(job[h], job[h].got.text)

Rightly == \A h \in Hand : ApprovesRightly(h) /\ FilesRightly(h)

LEMMA ApproveStep ==
  ASSUME TypeOK, JotInOnePlace, Rightly, [Next]_vars, NEW h \in Hand
  PROVE  ApprovesRightly(h)'
<1> SUFFICES ASSUME job'[h] # None, job'[h].at = "approve", NEW id, id = job'[h].row
             PROVE  /\ id \in born'
                    /\ InTable(id)' => Allowed(job'[h], held'[id].text)
                    /\ \A g \in Hand : Carries(g, id)' => Allowed(job'[h], job'[g].got.text)
  BY DEF ApprovesRightly, Allowed, MayApprove, ProjectOf, InTable, Carries, At, Idle
<1>1. born \subseteq born'
  BY DEF Next, HandStep, HoldLook, HoldInsert, HoldMove, HoldEnds, ApproveRead, DiscardRead, Claim,
         File, FileRefused, PutBack, PutBackFails, RowAges, RecordAges, Crash, vars
<1>2. CASE job'[h] = job[h]
  <2>1. job[h] \in Claiming
    BY <1>2 DEF TypeOK, Job, Claiming, Carrying
  <2>2. /\ id \in Row /\ id \in born
        /\ InTable(id) => Allowed(job[h], held[id].text)
        /\ \A g \in Hand : Carries(g, id) => Allowed(job[h], job[g].got.text)
    BY <1>2, <2>1 DEF Rightly, ApprovesRightly, Claiming
  <2>3. ASSUME InTable(id)' PROVE Allowed(job[h], held'[id].text)
    BY <2>2, <2>3, HeldChange
  <2>4. ASSUME NEW g \in Hand, Carries(g, id)' PROVE Allowed(job[h], job'[g].got.text)
    <3>1. CASE job'[g] = job[g]
      BY <2>2, <2>4, <3>1 DEF Carries
    <3>2. CASE job'[g] # job[g]
      <4>1. job'[g] # None /\ job'[g].at \in {"file", "back"} /\ job'[g].row = id
        BY <2>4 DEF Carries
      <4>2. ASSUME At(g, "approve"), InTable(job[g].row),
                   job'[g] = [at |-> "file", row |-> job[g].row, got |-> held[job[g].row],
                              to |-> job[g].to, who |-> job[g].who]
            PROVE  Allowed(job[h], job'[g].got.text)
        BY <2>2, <4>1, <4>2
      <4>3. ASSUME FileRefused(g), job'[g] = [job[g] EXCEPT !.at = "back"]
            PROVE  Allowed(job[h], job'[g].got.text)
        <5>1. job[g] \in Carrying
          BY <4>3 DEF FileRefused, TypeOK, Job, Claiming, Carrying
        <5>2. job'[g].row = job[g].row /\ job'[g].got = job[g].got
          BY <4>3, <5>1 DEF Carrying
        <5>3. QED
          BY <2>2, <4>1, <4>3, <5>2 DEF Carries, FileRefused
      <4>4. ASSUME NEW w \in Owner, NEW i \in Row, NEW d \in Dest,
                   job'[g] = [at |-> "approve", row |-> i, to |-> d, who |-> w]
            PROVE  FALSE
        BY <4>1, <4>4
      <4>5. job'[g].at \notin Aside
        BY <4>1 DEF Aside
      <4>6. ~\E w \in Owner, i \in Row, d \in Dest :
              ApproveRead(g, w, i, d) /\ job'[g] = [at |-> "approve", row |-> i, to |-> d, who |-> w]
        BY <4>4
      <4>7. \/ /\ At(g, "approve") /\ InTable(job[g].row)
               /\ job'[g] = [at |-> "file", row |-> job[g].row, got |-> held[job[g].row],
                             to |-> job[g].to, who |-> job[g].who]
            \/ FileRefused(g) /\ job'[g] = [job[g] EXCEPT !.at = "back"]
        BY <3>2, <4>1, <4>5, <4>6, JobChange, Zenon
      <4>8. QED
        BY <4>2, <4>3, <4>7
    <3>3. QED
      BY <3>1, <3>2
  <2>5. QED
    BY <1>1, <1>2, <2>2, <2>3, <2>4
<1>3. CASE job'[h] # job[h]
  <2>1. job'[h].at \notin Aside
    BY DEF Aside
  <2>2. ASSUME job'[h] = [at |-> "file", row |-> job[h].row, got |-> held[job[h].row],
                          to |-> job[h].to, who |-> job[h].who]
        PROVE  FALSE
    BY <2>2
  <2>3. ASSUME FileRefused(h), job'[h] = [job[h] EXCEPT !.at = "back"] PROVE FALSE
    <3>1. job[h] \in Carrying
      BY <2>3 DEF FileRefused, TypeOK, Job, Claiming, Carrying
    <3>2. job'[h].at = "back"
      BY <2>3, <3>1 DEF Carrying
    <3>3. QED
      BY <3>2
  <2>4. PICK w \in Owner, i \in Row, d \in Dest :
          ApproveRead(h, w, i, d) /\ job'[h] = [at |-> "approve", row |-> i, to |-> d, who |-> w]
    BY <1>3, <2>1, <2>2, <2>3, JobChange
  <2>10. i = id /\ id \in Row
    BY <2>4
  <2>5. InTable(id) /\ id \in born /\ InHands(id) = {}
    BY <2>4, <2>10 DEF ApproveRead, InTable, JotInOnePlace, OnePlace
  <2>6. held' = held /\ born' = born
    BY <2>4 DEF ApproveRead
  <2>7. Allowed(job'[h], held[id].text) /\ job'[h].row = id
    BY <2>4, <2>10 DEF ApproveRead, ChecksBoth, Allowed
  <2>8. \A g \in Hand : ~Carries(g, id)'
    BY <2>4, <2>5, <2>10, CarriesOfOne DEF ApproveRead, InHands
  <2>9. QED
    BY <2>5, <2>6, <2>7, <2>8
<1>4. QED
  BY <1>2, <1>3

LEMMA FileStep ==
  ASSUME TypeOK, Rightly, [Next]_vars, NEW h \in Hand
  PROVE  FilesRightly(h)'
<1> SUFFICES ASSUME job'[h] # None, job'[h].at = "file"
             PROVE  Allowed(job'[h], job'[h].got.text)
  BY DEF FilesRightly, Allowed, MayApprove, ProjectOf
<1>1. CASE job'[h] = job[h]
  BY <1>1 DEF Rightly, FilesRightly
<1>2. CASE job'[h] # job[h]
  <2>1. job'[h].at \notin Aside
    BY DEF Aside
  <2>2. ASSUME NEW w \in Owner, NEW i \in Row, NEW d \in Dest,
               job'[h] = [at |-> "approve", row |-> i, to |-> d, who |-> w]
        PROVE  FALSE
    BY <2>2
  <2>3. ASSUME FileRefused(h), job'[h] = [job[h] EXCEPT !.at = "back"] PROVE FALSE
    <3>1. job[h] \in Carrying
      BY <2>3 DEF FileRefused, TypeOK, Job, Claiming, Carrying
    <3>2. job'[h].at = "back"
      BY <2>3, <3>1 DEF Carrying
    <3>3. QED
      BY <3>2
  <2>7. ~\E w \in Owner, id \in Row, d \in Dest :
          ApproveRead(h, w, id, d) /\ job'[h] = [at |-> "approve", row |-> id, to |-> d, who |-> w]
    BY <2>2
  <2>8. ~(FileRefused(h) /\ job'[h] = [job[h] EXCEPT !.at = "back"])
    BY <2>3
  <2>4. /\ At(h, "approve") /\ InTable(job[h].row)
        /\ job'[h] = [at |-> "file", row |-> job[h].row, got |-> held[job[h].row],
                      to |-> job[h].to, who |-> job[h].who]
    BY <1>2, <2>1, <2>7, <2>8, JobChange, Zenon
  <2>5. Allowed(job[h], held[job[h].row].text)
    BY <2>4 DEF Rightly, ApprovesRightly
  <2>6. QED
    BY <2>4, <2>5 DEF Allowed
<1>3. QED
  BY <1>1, <1>2

\* A jot is filed under a project its approver owns.
THEOREM HeldFiledWhereOwned == Spec => []FiledWhereOwned
<1>1. Init => Rightly /\ FiledWhereOwned
  BY DEF Init, Rightly, ApprovesRightly, FilesRightly, FiledWhereOwned
<1>2. TypeOK /\ JotInOnePlace /\ Rightly /\ [Next]_vars => Rightly'
  BY ApproveStep, FileStep DEF Rightly
<1>3. TypeOK /\ Rightly /\ FiledWhereOwned /\ [Next]_vars => FiledWhereOwned'
  <2> SUFFICES ASSUME TypeOK, Rightly, FiledWhereOwned, [Next]_vars, NEW id \in Row, record'[id] # None
               PROVE  <<record'[id].approver, record'[id].project>> \in Owns
    BY DEF FiledWhereOwned
  <2>1. CASE record'[id] = record[id]
    BY <2>1 DEF FiledWhereOwned
  <2>2. CASE record'[id] # record[id]
    <3>1. PICK h \in Hand : File(h)
      BY <2>2 DEF Next, HandStep, HoldLook, HoldInsert, HoldMove, HoldEnds, ApproveRead, DiscardRead,
                  Claim, FileRefused, PutBack, PutBackFails, RowAges, RecordAges, Crash, vars
    <3> DEFINE got == job[h].got
               row == [text |-> got.text, by |-> got.by, approver |-> job[h].who,
                       project |-> Where[got.text][job[h].to]]
    <3>2. record' = [record EXCEPT ![job[h].row] = row]
      <4>1. CASE RecentlyFiled(got)
        BY <2>2, <3>1, <4>1 DEF File
      <4>2. CASE ~RecentlyFiled(got)
        BY <3>1, <4>2, Zenon DEF File, row, got
      <4>3. QED
        BY <4>1, <4>2
    <3>3. record'[id] = row
      BY <2>2, <3>2 DEF TypeOK
    <3>4. <<job[h].who, ProjectOf(got.text, job[h].to)>> \in Owns
      BY <3>1 DEF File, Rightly, FilesRightly, Allowed, MayApprove
    <3>5. ProjectOf(got.text, job[h].to) = Where[got.text][job[h].to]
      BY <3>1 DEF File, Resolves, ProjectOf
    <3>6. QED
      BY <3>3, <3>4, <3>5
  <2>3. QED
    BY <2>1, <2>2
<1>4. QED
  BY <1>1, <1>2, <1>3, HeldTyped, HeldInOnePlace, PTL DEF Spec
=============================================================================
