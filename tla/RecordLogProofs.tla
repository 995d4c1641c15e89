-------------------------- MODULE RecordLogProofs --------------------------
(***************************************************************************)
(* What the statements of RecordLog do to the log and to its cache,        *)
(* whatever module calls them.  Two facts carry the rest: an insert keeps  *)
(* the cache equal to the newest events of the log, and the next           *)
(* identifier is one the log has never carried.  Three facts about natural *)
(* numbers come first.                                                     *)
(***************************************************************************)
EXTENDS RecordLog, WellFoundedInduction, SequenceTheorems, TLAPS

\* Every nonempty set of naturals has a smallest element.
LEMMA SmallestOf ==
  ASSUME NEW T \in SUBSET Nat, T # {}
  PROVE  \E x \in T : \A y \in T : x <= y
<1> DEFINE Less == OpToRel(<, Nat)
<1>1. \E x \in T : \A y \in T : ~(<<y, x>> \in Less)
  BY WFMin, NatLessThanWellFounded, Zenon
<1>2. \A x, y \in Nat : y < x => <<y, x>> \in Less
  BY DEF OpToRel
<1> HIDE DEF Less
<1>3. PICK x \in T : \A y \in T : ~(<<y, x>> \in Less)
  BY <1>1
<1>4. \A y \in T : ~(y < x)
  BY <1>2, <1>3, Zenon
<1>5. QED
  BY <1>3, <1>4

\* A set of naturals under a bound has, with 0, a greatest element.
LEMMA GreatestOf ==
  ASSUME NEW T \in SUBSET Nat, NEW b \in Nat, \A y \in T : y <= b
  PROVE  \E x \in T \cup {0} : \A y \in T : y <= x
<1> DEFINE U == {u \in Nat : \A y \in T : y <= u}
<1>1. PICK u \in U : \A v \in U : u <= v
  BY SmallestOf
<1>2. CASE u = 0
  BY <1>1, <1>2
<1>3. CASE u \in T
  BY <1>1, <1>3
<1>4. CASE u # 0 /\ u \notin T
  <2>1. u - 1 \in U
    BY <1>1, <1>4
  <2>2. QED
    BY <1>1, <1>4, <2>1
<1>5. QED
  BY <1>2, <1>3, <1>4

\* Finitely many naturals have a bound.
LEMMA BoundOf ==
  ASSUME NEW n \in Nat, NEW f \in [1..n -> Nat]
  PROVE  \E b \in Nat : \A k \in 1..n : f[k] <= b
<1> DEFINE Below(m) == \E b \in Nat : \A k \in 1..m : f[k] <= b
           T == {m \in 0..n : ~Below(m)}
<1>1. Below(0)
  OBVIOUS
<1>2. ASSUME NEW m \in 1..n, Below(m - 1)
      PROVE  Below(m)
  <2>1. PICK b \in Nat : \A k \in 1..(m - 1) : f[k] <= b
    BY <1>2
  <2>2. PICK d \in Nat : b <= d /\ f[m] <= d
    <3>1. f[m] \in Nat
      OBVIOUS
    <3>2. CASE b <= f[m]
      BY <3>1, <3>2
    <3>3. CASE ~(b <= f[m])
      BY <3>1, <3>3
    <3>4. QED
      BY <3>2, <3>3
  <2>3. ASSUME NEW k \in 1..m
        PROVE  f[k] <= d
    <3>1. CASE k = m
      BY <2>2, <3>1
    <3>2. CASE k # m
      <4>1. k \in 1..(m - 1) /\ k \in 1..n
        BY <3>2
      <4>2. f[k] <= b /\ f[k] \in Nat
        BY <2>1, <4>1
      <4>3. QED
        BY <2>2, <4>2
    <3>3. QED
      BY <3>1, <3>2
  <2>4. QED
    BY <2>3
<1> HIDE DEF Below
<1>3. CASE T = {}
  <2>1. Below(n)
    BY <1>3
  <2>2. QED
    BY <2>1 DEF Below
<1>4. CASE T # {}
  <2>1. T \in SUBSET Nat
    OBVIOUS
  <2>2. PICK m \in T : \A j \in T : m <= j
    BY <1>4, <2>1, SmallestOf
  <2>3. m \in 1..n /\ m - 1 \in 0..n /\ m - 1 \notin T
    BY <1>1, <2>2
  <2>4. Below(m - 1)
    BY <2>3
  <2>5. QED
    BY <1>2, <2>2, <2>3, <2>4
<1>5. QED
  BY <1>3, <1>4

----------------------------------------------------------------------------

\* What the events of a log are made of.
LEMMA EventIds ==
  ASSUME NEW events \in Seq(Event)
  PROVE  /\ \A k \in DOMAIN events : events[k].id \in Id /\ events[k].rec \in Rec
         /\ IdsIn(events) \subseteq Id
<1>1. \A k \in DOMAIN events : events[k] \in Event
  OBVIOUS
<1>2. \A e \in Event : e.id \in Id /\ e.rec \in Rec
  BY DEF Event
<1>3. QED
  BY <1>1, <1>2 DEF IdsIn

\* A batch that mentions a record has a last event about it.
LEMMA LastAboutFact ==
  ASSUME NEW events \in Seq(Event), NEW i \in IdsIn(events)
  PROVE  /\ LastAbout(events, i) \in DOMAIN events
         /\ events[LastAbout(events, i)].id = i
         /\ \A m \in DOMAIN events : events[m].id = i => m <= LastAbout(events, i)
<1> DEFINE T == {k \in DOMAIN events : events[k].id = i}
<1>1. DOMAIN events = 1..Len(events) /\ Len(events) \in Nat
  OBVIOUS
<1>2. T \in SUBSET Nat /\ \A y \in T : y <= Len(events)
  BY <1>1
<1>3. PICK x \in T \cup {0} : \A y \in T : y <= x
  BY <1>1, <1>2, GreatestOf
<1>4. T # {}
  BY DEF IdsIn
<1>5. x \in T
  BY <1>1, <1>3, <1>4
<1>6. \E k \in DOMAIN events :
        /\ events[k].id = i
        /\ \A m \in DOMAIN events : events[m].id = i => m <= k
  BY <1>3, <1>5
<1>7. QED
  BY <1>6 DEF LastAbout

\* Concatenation, as the proofs below use it.
LEMMA AppendedLog ==
  ASSUME NEW events \in Seq(Event), NEW batch \in Seq(Event)
  PROVE  /\ events \o batch \in Seq(Event)
         /\ Len(events \o batch) = Len(events) + Len(batch)
         /\ \A k \in DOMAIN events :
              k \in DOMAIN (events \o batch) /\ (events \o batch)[k] = events[k]
         /\ \A k \in DOMAIN batch :
              /\ Len(events) + k \in DOMAIN (events \o batch)
              /\ (events \o batch)[Len(events) + k] = batch[k]
         /\ \A k \in DOMAIN (events \o batch) :
              \/ k \in DOMAIN events
              \/ k - Len(events) \in DOMAIN batch
         /\ IdsIn(events \o batch) = IdsIn(events) \cup IdsIn(batch)
<1>1. /\ events \o batch \in Seq(Event)
      /\ Len(events \o batch) = Len(events) + Len(batch)
      /\ \A k \in DOMAIN events : (events \o batch)[k] = events[k]
      /\ \A k \in DOMAIN batch : (events \o batch)[Len(events) + k] = batch[k]
      /\ DOMAIN events = 1..Len(events) /\ DOMAIN batch = 1..Len(batch)
      /\ DOMAIN (events \o batch) = 1..(Len(events) + Len(batch))
      /\ Len(events) \in Nat /\ Len(batch) \in Nat
  BY ConcatProperties
<1>2. \A k \in DOMAIN (events \o batch) :
        k \in DOMAIN events \/ k - Len(events) \in DOMAIN batch
  BY <1>1
<1>3. IdsIn(events \o batch) \subseteq IdsIn(events) \cup IdsIn(batch)
  <2> SUFFICES ASSUME NEW k \in DOMAIN (events \o batch)
               PROVE  (events \o batch)[k].id \in IdsIn(events) \cup IdsIn(batch)
    BY DEF IdsIn
  <2>1. CASE k \in DOMAIN events
    BY <1>1, <2>1 DEF IdsIn
  <2>2. CASE k - Len(events) \in DOMAIN batch
    <3>1. Len(events) + (k - Len(events)) = k
      BY <1>1
    <3>2. QED
      BY <1>1, <2>2, <3>1 DEF IdsIn
  <2>3. QED
    BY <1>2, <2>1, <2>2
<1>4. IdsIn(events) \cup IdsIn(batch) \subseteq IdsIn(events \o batch)
  <2>1. \A k \in DOMAIN events : k \in DOMAIN (events \o batch)
    BY <1>1
  <2>2. \A k \in DOMAIN batch : Len(events) + k \in DOMAIN (events \o batch)
    BY <1>1
  <2>3. QED
    BY <1>1, <2>1, <2>2 DEF IdsIn
<1>5. QED
  BY <1>1, <1>2, <1>3, <1>4

----------------------------------------------------------------------------

\* An insert keeps the tables typed and the cache equal to the log.
LEMMA InsertKeepsTables ==
  ASSUME log \in Seq(Event), LatestIsNewest,
         DOMAIN latest \subseteq Id, \A i \in DOMAIN latest : latest[i] \in Row,
         NEW batch \in Seq(Event),
         Commit(Inserted(Tables, batch))
  PROVE  /\ log' \in Seq(Event)
         /\ DOMAIN latest' \subseteq Id
         /\ \A i \in DOMAIN latest' : latest'[i] \in Row
         /\ LatestIsNewest'
<1>1. /\ log' = log \o batch
      /\ DOMAIN latest' = DOMAIN latest \cup IdsIn(batch)
      /\ \A i \in DOMAIN latest' :
           latest'[i] = IF i \in IdsIn(batch)
                          THEN [seq |-> Len(log) + LastAbout(batch, i),
                                rec |-> batch[LastAbout(batch, i)].rec]
                          ELSE latest[i]
  BY DEF Commit, Inserted, Tables
<1>2. /\ log' \in Seq(Event)
      /\ \A k \in DOMAIN log : k \in DOMAIN log' /\ log'[k] = log[k]
      /\ \A k \in DOMAIN batch :
           Len(log) + k \in DOMAIN log' /\ log'[Len(log) + k] = batch[k]
      /\ \A k \in DOMAIN log' : k \in DOMAIN log \/ k - Len(log) \in DOMAIN batch
      /\ IdsIn(log') = IdsIn(log) \cup IdsIn(batch)
  BY <1>1, AppendedLog
<1>3. /\ DOMAIN log = 1..Len(log) /\ Len(log) \in Nat
      /\ DOMAIN batch \subseteq Nat \ {0}
      /\ DOMAIN log' \subseteq Nat \ {0}
  BY <1>2
<1>4. IdsIn(batch) \subseteq Id
  BY EventIds
<1>5. DOMAIN latest' = IdsIn(log')
  BY <1>1, <1>2 DEF LatestIsNewest
<1>6. ASSUME NEW i \in DOMAIN latest'
      PROVE  /\ latest'[i] \in Row
             /\ latest'[i].seq \in DOMAIN log'
             /\ log'[latest'[i].seq].id = i
             /\ log'[latest'[i].seq].rec = latest'[i].rec
             /\ \A m \in DOMAIN log' : log'[m].id = i => m <= latest'[i].seq
  <2>1. CASE i \in IdsIn(batch)
    <3> DEFINE k == LastAbout(batch, i)
    <3>1. /\ k \in DOMAIN batch /\ batch[k].id = i
          /\ \A m \in DOMAIN batch : batch[m].id = i => m <= k
      BY <2>1, LastAboutFact
    <3> HIDE DEF k
    <3>2. latest'[i] = [seq |-> Len(log) + k, rec |-> batch[k].rec]
      BY <1>1, <2>1 DEF k
    <3>3. latest'[i] \in Row
      <4>1. batch[k].rec \in Rec
        BY <3>1, EventIds
      <4>2. Len(log) + k \in Nat \ {0}
        BY <1>3, <3>1
      <4>3. QED
        BY <3>2, <4>1, <4>2 DEF Row
    <3>4. ASSUME NEW m \in DOMAIN log', log'[m].id = i
          PROVE  m <= Len(log) + k
      <4>1. CASE m \in DOMAIN log
        BY <1>3, <3>1, <4>1
      <4>2. CASE m - Len(log) \in DOMAIN batch
        <5>1. log'[Len(log) + (m - Len(log))] = batch[m - Len(log)]
          BY <1>2, <4>2
        <5>2. Len(log) + (m - Len(log)) = m
          BY <1>3
        <5>3. m - Len(log) <= k
          BY <3>1, <3>4, <4>2, <5>1, <5>2
        <5>4. QED
          BY <1>3, <3>1, <5>3
      <4>3. QED
        BY <1>2, <4>1, <4>2
    <3>5. QED
      BY <1>2, <3>1, <3>2, <3>3, <3>4
  <2>2. CASE i \notin IdsIn(batch)
    <3>1. i \in DOMAIN latest /\ latest'[i] = latest[i]
      BY <1>1, <2>2
    <3>2. /\ latest[i].seq \in DOMAIN log
          /\ log[latest[i].seq].id = i
          /\ log[latest[i].seq].rec = latest[i].rec
          /\ \A m \in DOMAIN log : log[m].id = i => m <= latest[i].seq
      BY <3>1 DEF LatestIsNewest
    <3>3. ASSUME NEW m \in DOMAIN log', log'[m].id = i
          PROVE  m \in DOMAIN log
      <4>1. CASE m - Len(log) \in DOMAIN batch
        <5>1. log'[Len(log) + (m - Len(log))] = batch[m - Len(log)]
          BY <1>2, <4>1
        <5>2. Len(log) + (m - Len(log)) = m
          BY <1>3
        <5>3. QED
          BY <2>2, <3>3, <4>1, <5>1, <5>2 DEF IdsIn
      <4>2. QED
        BY <1>2, <4>1
    <3>4. QED
      BY <1>2, <3>1, <3>2, <3>3
  <2>3. QED
    BY <2>1, <2>2
<1>7. LatestIsNewest'
  BY <1>5, <1>6 DEF LatestIsNewest
<1>8. DOMAIN latest' \subseteq Id
  BY <1>1, <1>4
<1>9. QED
  BY <1>2, <1>6, <1>7, <1>8

\* One event changes one row and leaves the others alone.
LEMMA OneInsert ==
  ASSUME log \in Seq(Event), LatestIsNewest,
         DOMAIN latest \subseteq Id, \A i \in DOMAIN latest : latest[i] \in Row,
         NEW e \in Event, Commit(Inserted(Tables, <<e>>))
  PROVE  /\ log' \in Seq(Event)
         /\ Len(log') = Len(log) + 1 /\ log'[Len(log) + 1] = e
         /\ \A k \in DOMAIN log : k \in DOMAIN log' /\ log'[k] = log[k]
         /\ DOMAIN latest' \subseteq Id
         /\ \A i \in DOMAIN latest' : latest'[i] \in Row
         /\ LatestIsNewest'
         /\ DOMAIN latest' = DOMAIN latest \cup {e.id}
         /\ latest'[e.id].seq = Len(log) + 1 /\ latest'[e.id].rec = e.rec
         /\ \A i \in DOMAIN latest : i # e.id => latest'[i] = latest[i]
<1> DEFINE batch == <<e>>
<1>1. batch \in Seq(Event) /\ DOMAIN batch = {1} /\ batch[1] = e /\ Len(batch) = 1
  OBVIOUS
<1>2. IdsIn(batch) = {e.id}
  BY <1>1 DEF IdsIn
<1>3. LastAbout(batch, e.id) = 1
  BY <1>1, <1>2, LastAboutFact
<1>4. Commit(Inserted(Tables, batch))
  OBVIOUS
<1> HIDE DEF batch
<1>5. /\ log' \in Seq(Event)
      /\ DOMAIN latest' \subseteq Id
      /\ \A i \in DOMAIN latest' : latest'[i] \in Row
      /\ LatestIsNewest'
  BY <1>1, <1>4, InsertKeepsTables
<1>6. /\ log' = log \o batch
      /\ latest' = [i \in DOMAIN latest \cup {e.id} |->
                   IF i \in {e.id}
                     THEN [seq |-> Len(log) + LastAbout(batch, i),
                           rec |-> batch[LastAbout(batch, i)].rec]
                     ELSE latest[i]]
  BY <1>2, <1>4 DEF Commit, Inserted, Tables
<1>7. /\ latest'[e.id].rec = batch[LastAbout(batch, e.id)].rec
      /\ latest'[e.id].seq = Len(log) + LastAbout(batch, e.id)
  BY <1>6
<1>8. latest'[e.id].rec = e.rec /\ latest'[e.id].seq = Len(log) + 1
  BY <1>1, <1>3, <1>7
<1>9. /\ Len(log') = Len(log) + 1 /\ log'[Len(log) + 1] = e
      /\ \A k \in DOMAIN log : k \in DOMAIN log' /\ log'[k] = log[k]
  BY <1>1, <1>6, AppendedLog
<1>10. QED
  BY <1>5, <1>6, <1>8, <1>9

\* Two events about two records, in one transaction.
LEMMA TwoInserts ==
  ASSUME log \in Seq(Event), LatestIsNewest,
         DOMAIN latest \subseteq Id, \A i \in DOMAIN latest : latest[i] \in Row,
         NEW e \in Event, NEW f \in Event, e.id # f.id,
         Commit(Inserted(Tables, <<e, f>>))
  PROVE  /\ log' \in Seq(Event)
         /\ Len(log') = Len(log) + 2 /\ log'[Len(log) + 1] = e /\ log'[Len(log) + 2] = f
         /\ \A k \in DOMAIN log : k \in DOMAIN log' /\ log'[k] = log[k]
         /\ DOMAIN latest' \subseteq Id
         /\ \A i \in DOMAIN latest' : latest'[i] \in Row
         /\ LatestIsNewest'
         /\ DOMAIN latest' = DOMAIN latest \cup {e.id, f.id}
         /\ latest'[e.id].seq = Len(log) + 1 /\ latest'[e.id].rec = e.rec
         /\ latest'[f.id].seq = Len(log) + 2 /\ latest'[f.id].rec = f.rec
         /\ \A i \in DOMAIN latest : i \notin {e.id, f.id} => latest'[i] = latest[i]
<1> DEFINE batch == <<e, f>>
<1>1. /\ batch \in Seq(Event) /\ DOMAIN batch = {1, 2} /\ Len(batch) = 2
      /\ batch[1] = e /\ batch[2] = f
  OBVIOUS
<1>2. IdsIn(batch) = {e.id, f.id}
  BY <1>1 DEF IdsIn
<1>3. LastAbout(batch, e.id) = 1 /\ LastAbout(batch, f.id) = 2
  <2>1. e.id \in IdsIn(batch) /\ f.id \in IdsIn(batch)
    BY <1>2
  <2> HIDE DEF batch
  <2>2. /\ LastAbout(batch, e.id) \in {1, 2} /\ batch[LastAbout(batch, e.id)].id = e.id
        /\ LastAbout(batch, f.id) \in {1, 2} /\ batch[LastAbout(batch, f.id)].id = f.id
    BY <1>1, <2>1, LastAboutFact
  <2>3. QED
    BY <1>1, <2>2
<1>4. Commit(Inserted(Tables, batch))
  OBVIOUS
<1> HIDE DEF batch
<1>5. /\ log' \in Seq(Event)
      /\ DOMAIN latest' \subseteq Id
      /\ \A i \in DOMAIN latest' : latest'[i] \in Row
      /\ LatestIsNewest'
  BY <1>1, <1>4, InsertKeepsTables
<1>6. /\ log' = log \o batch
      /\ latest' = [i \in DOMAIN latest \cup {e.id, f.id} |->
                   IF i \in {e.id, f.id}
                     THEN [seq |-> Len(log) + LastAbout(batch, i),
                           rec |-> batch[LastAbout(batch, i)].rec]
                     ELSE latest[i]]
  BY <1>2, <1>4 DEF Commit, Inserted, Tables
<1>7. \A i \in {e.id, f.id} : /\ latest'[i].rec = batch[LastAbout(batch, i)].rec
                              /\ latest'[i].seq = Len(log) + LastAbout(batch, i)
  BY <1>6
<1>8. /\ latest'[e.id].rec = e.rec /\ latest'[e.id].seq = Len(log) + 1
      /\ latest'[f.id].rec = f.rec /\ latest'[f.id].seq = Len(log) + 2
  BY <1>1, <1>3, <1>7
<1>9. /\ Len(log') = Len(log) + 2 /\ log'[Len(log) + 1] = e /\ log'[Len(log) + 2] = f
      /\ \A k \in DOMAIN log : k \in DOMAIN log' /\ log'[k] = log[k]
  <2>1. /\ Len(log \o batch) = Len(log) + Len(batch)
        /\ \A k \in DOMAIN log : k \in DOMAIN (log \o batch) /\ (log \o batch)[k] = log[k]
        /\ \A k \in DOMAIN batch : (log \o batch)[Len(log) + k] = batch[k]
    BY <1>1, AppendedLog
  <2>2. QED
    BY <1>1, <1>6, <2>1
<1>10. QED
  BY <1>5, <1>6, <1>8, <1>9

\* A replay of a log whose cache is right changes nothing.
LEMMA ReplayIsNoStep ==
  ASSUME log \in Seq(Event), LatestIsNewest, \A i \in DOMAIN latest : latest[i] \in Row,
         latest = [i \in DOMAIN latest |-> latest[i]]
  PROVE  Replayed(log) = latest
<1>1. ASSUME NEW i \in DOMAIN latest
      PROVE  latest[i] = [seq |-> LastAbout(log, i), rec |-> log[LastAbout(log, i)].rec]
  <2>1. i \in IdsIn(log)
    BY DEF LatestIsNewest
  <2> DEFINE k == LastAbout(log, i)
  <2>2. /\ k \in DOMAIN log /\ log[k].id = i
        /\ \A m \in DOMAIN log : log[m].id = i => m <= k
    BY <2>1, LastAboutFact
  <2>3. DOMAIN log \subseteq Nat
    OBVIOUS
  <2> HIDE DEF k
  <2>4. latest[i].seq = k /\ latest[i].rec = log[k].rec
    BY <2>2, <2>3 DEF LatestIsNewest
  <2>5. latest[i] = [seq |-> latest[i].seq, rec |-> latest[i].rec]
    BY DEF Row
  <2>6. QED
    BY <2>4, <2>5 DEF k
<1>2. DOMAIN latest = IdsIn(log)
  BY DEF LatestIsNewest
<1>3. QED
  BY <1>1, <1>2 DEF Replayed

\* What a replay derives is the newest of what it replays.
LEMMA ReplayIsNewest ==
  ASSUME log' \in Seq(Event), latest' = Replayed(log')
  PROVE  /\ LatestIsNewest'
         /\ DOMAIN latest' \subseteq Id
         /\ \A i \in DOMAIN latest' : latest'[i] \in Row
<1> DEFINE newest(i) == LastAbout(log', i)
<1>1. IdsIn(log') \subseteq Id /\ \A k \in DOMAIN log' : log'[k].rec \in Rec
  BY EventIds
<1>2. DOMAIN log' \subseteq Nat \ {0}
  OBVIOUS
<1>3. DOMAIN latest' = IdsIn(log')
  BY DEF Replayed
<1>4. ASSUME NEW i \in DOMAIN latest'
      PROVE  /\ latest'[i] \in Row
             /\ latest'[i].seq \in DOMAIN log'
             /\ log'[latest'[i].seq].id = i
             /\ log'[latest'[i].seq].rec = latest'[i].rec
             /\ \A m \in DOMAIN log' : log'[m].id = i => m <= latest'[i].seq
  <2>1. /\ newest(i) \in DOMAIN log' /\ log'[newest(i)].id = i
        /\ \A m \in DOMAIN log' : log'[m].id = i => m <= newest(i)
    BY <1>3, LastAboutFact
  <2>2. latest'[i] = [seq |-> newest(i), rec |-> log'[newest(i)].rec]
    BY <1>3 DEF Replayed
  <2> HIDE DEF newest
  <2>3. latest'[i] \in Row
    BY <1>1, <1>2, <2>1, <2>2 DEF Row
  <2>4. QED
    BY <2>1, <2>2, <2>3
<1>5. QED
  BY <1>1, <1>3, <1>4 DEF LatestIsNewest

----------------------------------------------------------------------------

\* The serials of a log have a bound.
LEMMA SerialsBounded ==
  ASSUME NEW events \in Seq(Event)
  PROVE  \E b \in Nat : \A k \in DOMAIN events : events[k].id[2] <= b
<1> DEFINE f == [k \in 1..Len(events) |-> events[k].id[2]]
<1>1. Len(events) \in Nat /\ DOMAIN events = 1..Len(events)
  OBVIOUS
<1>2. \A k \in DOMAIN events : events[k].id[2] \in Nat
  BY EventIds DEF Id
<1>3. f \in [1..Len(events) -> Nat]
  BY <1>1, <1>2
<1>4. \A k \in DOMAIN events : events[k].id[2] = f[k]
  BY <1>1
<1> HIDE DEF f
<1>5. PICK b \in Nat : \A k \in 1..Len(events) : f[k] <= b
  BY <1>1, <1>3, BoundOf
<1>6. QED
  BY <1>1, <1>4, <1>5

\* The next identifier is one, and the log has never carried it.
LEMMA NextIdFresh ==
  ASSUME NEW events \in Seq(Event), NEW p \in Prefix
  PROVE  NextId(events, p) \in Id \ IdsIn(events)
<1> DEFINE S == Serials(events, p)
<1>1. IdsIn(events) \subseteq Id
  BY EventIds
<1>2. S \subseteq Nat
  BY <1>1 DEF Serials, Id
<1>3. PICK b \in Nat : \A k \in DOMAIN events : events[k].id[2] <= b
  BY SerialsBounded
<1>4. \A n \in S : n <= b
  BY <1>3 DEF Serials, IdsIn
<1>5. PICK x \in S \cup {0} : \A m \in S : m <= x
  BY <1>2, <1>4, GreatestOf
<1> DEFINE h == CHOOSE n \in S \cup {0} : \A m \in S : m <= n
<1>6. h \in S \cup {0} /\ \A m \in S : m <= h
  BY <1>5
<1>7. NextId(events, p) = <<p, h + 1>>
  BY DEF NextId
<1> HIDE DEF h
<1>8. h \in Nat
  BY <1>2, <1>6
<1>9. <<p, h + 1>> \in Id
  BY <1>8 DEF Id
<1>10. <<p, h + 1>> \notin IdsIn(events)
  <2> SUFFICES ASSUME <<p, h + 1>> \in IdsIn(events)
               PROVE  FALSE
    OBVIOUS
  <2>1. h + 1 \in S
    BY DEF Serials
  <2>2. QED
    BY <1>6, <1>8, <2>1
<1>11. QED
  BY <1>7, <1>9, <1>10
=============================================================================
