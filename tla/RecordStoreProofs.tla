------------------------- MODULE RecordStoreProofs -------------------------
(***************************************************************************)
(* The safety of RecordStore for any clients, prefixes, payloads, pictures *)
(* and any length of log.  The argument: whatever a step is, to the two    *)
(* tables it is nothing at all or one lawful batch of events (StepWrites); *)
(* and a lawful batch keeps the cache equal to the log, breaks no version  *)
(* a checked write was based on and issues no identifier twice.            *)
(*                                                                         *)
(* And the safety of Upkeep.  An import: a reading writes a milestone's    *)
(* serial by its rank among the milestones that have a place, and what is  *)
(* kept was made by a reading that placed the same ones, so the serials    *)
(* agree; an identifier still to be filed is kept by nobody.               *)
(* A rename: a citation is of the record it was written about, or is plain *)
(* text there for good (Vouched), by a declaration no amend under way      *)
(* takes back; renaming keeps records apart and their events in order; one *)
(* record routes.                                                          *)
(* Findings: a command's write was accepted as it stands by the lists it   *)
(* was judged by, and a move that still finds the version it read carries  *)
(* what stands there, which the words a move counts on make acceptable.    *)
(***************************************************************************)
EXTENDS RecordStore, Upkeep, RecordLogProofs, FiniteSetTheorems

\* A batch the writers of the package produce: new records only, or one event,
\* or a new record and the retirement of another.
Lawful(batch) ==
  /\ batch \in Seq(Event)
  /\ \A m, n \in DOMAIN batch : batch[m].id = batch[n].id => m = n
  /\ \A k \in DOMAIN batch :
       /\ batch[k].basis # 0 => AtVersion(batch[k].id, batch[k].basis)
       /\ SeedId = {} => (batch[k].op = "create" <=> batch[k].id \notin IdsIn(log))
  /\ \/ \A k \in DOMAIN batch : batch[k].id \notin IdsIn(log)
     \/ DOMAIN batch = {1}
     \/ DOMAIN batch = {1, 2} /\ batch[1].id \notin IdsIn(log)

Writes == \E batch : Lawful(batch) /\ Commit(Inserted(Tables, batch))

\* An Append that passed its check amends a record the log knows; without a
\* seed no other Append is under way.
PendingKnown ==
  \A c \in Client : pending[c] # NoRead =>
    pending[c][2] = "amend" /\ pending[c][1] \in IdsIn(log)

CacheInv ==
  /\ TypeOK
  /\ LatestIsNewest
  /\ latest = [i \in DOMAIN latest |-> latest[i]]
  /\ SeedId = {} => PendingKnown

LEMMA CacheInit == Init => CacheInv
<1> SUFFICES ASSUME Init PROVE CacheInv
  OBVIOUS
<1>1. /\ log = << >> /\ DOMAIN latest = {} /\ DOMAIN attachment = {}
      /\ latest = [i \in {} |-> 0]
  BY DEF Init, StoreInit
<1>2. IdsIn(log) = {}
  BY <1>1 DEF IdsIn
<1>3. StoreTypeOK
  BY <1>1 DEF StoreTypeOK
<1>4. TypeOK
  BY <1>3 DEF TypeOK, Init
<1>5. LatestIsNewest
  BY <1>1, <1>2 DEF LatestIsNewest
<1>6. latest = [i \in DOMAIN latest |-> latest[i]]
  BY <1>1
<1>7. PendingKnown
  BY DEF PendingKnown, Init
<1>8. QED
  BY <1>4, <1>5, <1>6, <1>7 DEF CacheInv

\* One event that carries no version is a lawful batch if its op fits the log.
LEMMA OneLawful ==
  ASSUME NEW e \in Event,
         e.basis # 0 => AtVersion(e.id, e.basis),
         SeedId = {} => (e.op = "create" <=> e.id \notin IdsIn(log))
  PROVE  Lawful(<<e>>)
<1>1. <<e>> \in Seq(Event) /\ DOMAIN <<e>> = {1} /\ <<e>>[1] = e
  OBVIOUS
<1>2. QED
  BY <1>1 DEF Lawful

\* Every step leaves the tables alone or commits one lawful batch.
LEMMA StepWrites ==
  ASSUME CacheInv, [Next]_vars
  PROVE  UNCHANGED <<log, latest>> \/ Writes
<1> USE DEF CacheInv
<1>1. StoreTypeOK /\ log \in Seq(Event)
  BY DEF TypeOK, StoreTypeOK
<1>2. DOMAIN latest = IdsIn(log)
  BY DEF LatestIsNewest
<1>3. ASSUME NEW c \in Client, seen[c] # NoRead
      PROVE  seen[c] \in Id \X (Nat \ {0})
  BY <1>3 DEF TypeOK
<1>4. ASSUME NEW c \in Client, NEW p \in Prefix, NEW r \in Rec, Create(c, p, r)
      PROVE  Writes
  <2> DEFINE e == Created(NextId(log, p), r)
  <2>1. NextId(log, p) \in Id \ IdsIn(log)
    BY <1>1, NextIdFresh
  <2>2. e \in Event /\ e.basis = 0 /\ e.op = "create" /\ e.id \notin IdsIn(log)
    BY <2>1 DEF Created, Event
  <2> HIDE DEF e
  <2>3. Lawful(<<e>>)
    BY <2>2, OneLawful
  <2>4. Commit(Inserted(Tables, <<e>>))
    BY <1>4 DEF Create, CreateTx, e
  <2>5. QED
    BY <2>3, <2>4 DEF Writes
<1>5. ASSUME NEW c \in Client, NEW S \in SUBSET BatchId, NEW r \in Rec, AppendAll(c, S, r)
      PROVE  Writes
  <2>1. PICK b \in Orders(S) : Commit(Inserted(Tables, [k \in DOMAIN b |-> Created(b[k], r)]))
    BY <1>5 DEF AppendAll
  <2> DEFINE batch == [k \in DOMAIN b |-> Created(b[k], r)]
  <2>2. Cardinality(S) \in Nat
    BY GivenIdsAssumption, FS_Subset, FS_CardinalityType
  <2>3. /\ DOMAIN b = 1..Cardinality(S)
        /\ \A k \in DOMAIN b : b[k] \in S
        /\ \A m, n \in DOMAIN b : b[m] = b[n] => m = n
    BY DEF Orders
  <2>4. \A k \in DOMAIN b : b[k] \in Id \ IdsIn(log)
    BY <1>5, <2>3, GivenIdsAssumption DEF AppendAll
  <2>5. DOMAIN batch = DOMAIN b
    OBVIOUS
  <2>6. \A k \in DOMAIN b : /\ batch[k] \in Event /\ batch[k].id = b[k]
                            /\ batch[k].basis = 0 /\ batch[k].op = "create"
    BY <2>4 DEF Created, Event
  <2>7. batch \in [1..Cardinality(S) -> Event]
    BY <2>3, <2>6
  <2>8. batch \in Seq(Event)
    BY <2>2, <2>7, SeqDef
  <2> HIDE DEF batch
  <2>9. Lawful(batch)
    BY <2>3, <2>4, <2>5, <2>6, <2>8 DEF Lawful
  <2>10. QED
    BY <2>1, <2>9 DEF Writes, batch
<1>6. ASSUME NEW c \in Client, NEW r \in Rec, AppendInsert(c, r)
      PROVE  Writes
  <2> DEFINE e == [id |-> pending[c][1], op |-> pending[c][2], rec |-> r, basis |-> 0]
  <2>1. pending[c] \in Id \X {"create", "amend"} /\ pending[c] # NoRead
    BY <1>6 DEF AppendInsert, Idle, TypeOK
  <2>2. e \in Event /\ e.basis = 0
    BY <2>1 DEF Event
  <2>3. SeedId = {} => e.op = "amend" /\ e.id \in IdsIn(log)
    BY <2>1 DEF PendingKnown
  <2>4. Commit(Inserted(Tables, <<e>>))
    BY <1>6 DEF AppendInsert, AppendTx
  <2> HIDE DEF e
  <2>5. Lawful(<<e>>)
    BY <2>2, <2>3, OneLawful
  <2>6. QED
    BY <2>4, <2>5 DEF Writes
<1>7. ASSUME NEW c \in Client, NEW r \in Rec, AmendIf(c, r)
      PROVE  Writes
  <2> DEFINE i == seen[c][1]
             v == seen[c][2]
             e == Amended(i, r, v)
  <2>1. i \in Id /\ v \in Nat \ {0}
    BY <1>3, <1>7 DEF AmendIf
  <2>2. AtVersion(i, v) /\ Commit(Inserted(Tables, <<e>>))
    BY <1>7 DEF AmendIf, AmendIfTx
  <2> HIDE DEF i, v
  <2>3. e \in Event /\ e.basis = v /\ e.id = i /\ e.op = "amend"
    BY <2>1 DEF Amended, Event
  <2> HIDE DEF e
  <2>4. i \in IdsIn(log)
    BY <1>2, <2>2 DEF AtVersion
  <2>5. Lawful(<<e>>)
    BY <2>2, <2>3, <2>4, OneLawful
  <2>6. QED
    BY <2>2, <2>5 DEF Writes
<1>8. ASSUME NEW c \in Client, NEW p \in Prefix, NEW fresh \in Rec, NEW stub \in Rec,
             Supersede(c, p, fresh, stub)
      PROVE  Writes
  <2> DEFINE i == seen[c][1]
             v == seen[c][2]
             d == Created(NextId(log, p), fresh)
             e == Amended(i, stub, v)
  <2>1. i \in Id /\ v \in Nat \ {0}
    BY <1>3, <1>8 DEF Supersede
  <2>2. AtVersion(i, v) /\ Commit(Inserted(Tables, <<d, e>>))
    BY <1>8 DEF Supersede, SupersedeTx
  <2>3. NextId(log, p) \in Id \ IdsIn(log)
    BY <1>1, NextIdFresh
  <2> HIDE DEF i, v
  <2>4. i \in IdsIn(log)
    BY <1>2, <2>2 DEF AtVersion
  <2>5. e \in Event /\ e.basis = v /\ e.id = i /\ e.op = "amend"
    BY <2>1 DEF Amended, Event
  <2>6. d \in Event /\ d.basis = 0 /\ d.op = "create" /\ d.id \notin IdsIn(log)
    BY <2>3 DEF Created, Event
  <2> HIDE DEF d, e
  <2>7. <<d, e>> \in Seq(Event) /\ DOMAIN <<d, e>> = {1, 2} /\ <<d, e>>[1] = d /\ <<d, e>>[2] = e
    BY <2>5, <2>6
  <2>8. Lawful(<<d, e>>)
    BY <2>2, <2>4, <2>5, <2>6, <2>7 DEF Lawful
  <2>9. QED
    BY <2>2, <2>8 DEF Writes
<1>9. ASSUME Rebuild
      PROVE  UNCHANGED <<log, latest>>
  BY <1>1, <1>9, ReplayIsNoStep DEF Rebuild, StoreTypeOK
<1>10. ASSUME NEW c \in Client,
              \/ \E i \in DOMAIN latest : GetVersioned(c, i)
              \/ \E i \in DOMAIN latest : AppendCheck(c, i, "amend")
              \/ \E i \in SeedId : AppendCheck(c, i, "create")
              \/ ErrChanged(c)
              \/ \E pic \in Pic, i \in Givable : Attach(c, pic, i)
              \/ \E pic \in Pic : Forget(c, pic)
       PROVE  UNCHANGED <<log, latest>>
  BY <1>10 DEF GetVersioned, AppendCheck, ErrChanged, Attach, Forget, storeVars
<1>11. CASE UNCHANGED vars
  BY <1>11 DEF vars, storeVars
<1>12. QED
  BY <1>4, <1>5, <1>6, <1>7, <1>8, <1>9, <1>10, <1>11 DEF Next, ClientStep

----------------------------------------------------------------------------

\* A batch changes only the tables, and keeps them typed and equal.
LEMMA WritesKeepTables ==
  ASSUME CacheInv, UNCHANGED <<log, latest>> \/ Writes
  PROVE  /\ log' \in Seq(Event)
         /\ DOMAIN latest' \subseteq Id
         /\ \A i \in DOMAIN latest' : latest'[i] \in Row
         /\ LatestIsNewest'
         /\ latest' = [i \in DOMAIN latest' |-> latest'[i]]
         /\ IdsIn(log) \subseteq IdsIn(log')
<1> USE DEF CacheInv, TypeOK, StoreTypeOK
<1>1. CASE UNCHANGED <<log, latest>>
  BY <1>1 DEF LatestIsNewest, IdsIn
<1>2. CASE Writes
  <2>1. PICK batch : Lawful(batch) /\ Commit(Inserted(Tables, batch))
    BY <1>2 DEF Writes
  <2>2. batch \in Seq(Event)
    BY <2>1 DEF Lawful
  <2>3. latest' = [i \in DOMAIN latest' |-> latest'[i]]
    BY <2>1 DEF Commit, Inserted, Tables
  <2>4. IdsIn(log) \subseteq IdsIn(log')
    BY <2>1, <2>2, AppendedLog DEF Commit, Inserted, Tables
  <2>5. QED
    BY <2>1, <2>2, <2>3, <2>4, InsertKeepsTables
<1>3. QED
  BY <1>1, <1>2

\* No step hangs a picture on anything but an identifier.
LEMMA AttachmentTyped ==
  ASSUME CacheInv, [Next]_vars
  PROVE  /\ DOMAIN attachment' \subseteq Pic
         /\ \A pic \in DOMAIN attachment' : attachment'[pic] \in Id
<1> USE DEF CacheInv, TypeOK, StoreTypeOK
<1>1. CASE UNCHANGED attachment
  BY <1>1
<1>2. ASSUME NEW c \in Client, NEW p \in Prefix, NEW fresh \in Rec, NEW stub \in Rec,
             Supersede(c, p, fresh, stub)
      PROVE  /\ DOMAIN attachment' \subseteq Pic
             /\ \A pic \in DOMAIN attachment' : attachment'[pic] \in Id
  <2>1. attachment' = MovedTo(seen[c][1], NextId(log, p))
    BY <1>2 DEF Supersede, SupersedeTx
  <2>2. NextId(log, p) \in Id
    BY NextIdFresh
  <2>3. QED
    BY <2>1, <2>2 DEF MovedTo
<1>3. ASSUME NEW c \in Client, NEW pic \in Pic, NEW i \in Givable, Attach(c, pic, i)
      PROVE  /\ DOMAIN attachment' \subseteq Pic
             /\ \A q \in DOMAIN attachment' : attachment'[q] \in Id
  <2>1. i \in Id
    BY GivenIdsAssumption DEF Givable
  <2>2. QED
    BY <1>3, <2>1 DEF Attach, AttachTx
<1>4. ASSUME NEW c \in Client, NEW pic \in Pic, Forget(c, pic)
      PROVE  /\ DOMAIN attachment' \subseteq Pic
             /\ \A q \in DOMAIN attachment' : attachment'[q] \in Id
  BY <1>4 DEF Forget, ForgetTx
<1>5. UNCHANGED attachment
        \/ \E c \in Client :
             \/ \E p \in Prefix, fresh \in Rec, stub \in Rec : Supersede(c, p, fresh, stub)
             \/ \E pic \in Pic, i \in Givable : Attach(c, pic, i)
             \/ \E pic \in Pic : Forget(c, pic)
  BY DEF Next, ClientStep, Rebuild, GetVersioned, Create, AppendAll, AppendCheck,
         AppendInsert, AmendIf, ErrChanged, vars, storeVars
<1>6. QED
  BY <1>1, <1>2, <1>3, <1>4, <1>5

\* What clients hold stays typed: they read identifiers and versions of rows.
LEMMA ClientsTyped ==
  ASSUME CacheInv, [Next]_vars
  PROVE  /\ seen' \in [Client -> (Id \X (Nat \ {0})) \cup {NoRead}]
         /\ pending' \in [Client -> (Id \X {"create", "amend"}) \cup {NoRead}]
<1> USE DEF CacheInv, TypeOK, StoreTypeOK
<1>1. ASSUME NEW c \in Client, NEW i \in DOMAIN latest, GetVersioned(c, i)
      PROVE  /\ seen' \in [Client -> (Id \X (Nat \ {0})) \cup {NoRead}]
             /\ pending' = pending
  <2>1. i \in Id /\ Version(i) \in Nat \ {0}
    BY DEF Version, Row
  <2>2. QED
    BY <1>1, <2>1 DEF GetVersioned
<1>2. ASSUME NEW c \in Client, NEW i \in Id, NEW op \in {"create", "amend"}, AppendCheck(c, i, op)
      PROVE  /\ pending' \in [Client -> (Id \X {"create", "amend"}) \cup {NoRead}]
             /\ seen' = seen
  BY <1>2 DEF AppendCheck
<1>3. ASSUME NEW c \in Client, NEW r \in Rec, AppendInsert(c, r)
      PROVE  /\ pending' \in [Client -> (Id \X {"create", "amend"}) \cup {NoRead}]
             /\ seen' = seen
  BY <1>3 DEF AppendInsert
<1>4. ASSUME NEW c \in Client, seen' = [seen EXCEPT ![c] = NoRead], pending' = pending
      PROVE  /\ seen' \in [Client -> (Id \X (Nat \ {0})) \cup {NoRead}]
             /\ pending' = pending
  BY <1>4
<1>5. \/ UNCHANGED clientVars
      \/ \E c \in Client :
           \/ \E i \in DOMAIN latest : GetVersioned(c, i)
           \/ \E i \in Id, op \in {"create", "amend"} : AppendCheck(c, i, op)
           \/ \E r \in Rec : AppendInsert(c, r)
           \/ seen' = [seen EXCEPT ![c] = NoRead] /\ pending' = pending
  <2>1. DOMAIN latest \subseteq Id /\ SeedId \subseteq Id
    BY GivenIdsAssumption
  <2>2. QED
    BY <2>1 DEF Next, ClientStep, Rebuild, Create, AppendAll, AmendIf, Supersede,
                ErrChanged, Attach, Forget, vars, clientVars
<1>6. QED
  BY <1>1, <1>2, <1>3, <1>4, <1>5 DEF clientVars

\* Without a seed, what an Append has checked stays true of the log.
LEMMA PendingStaysKnown ==
  ASSUME CacheInv, [Next]_vars, SeedId = {}, IdsIn(log) \subseteq IdsIn(log')
  PROVE  PendingKnown'
<1> USE DEF CacheInv, PendingKnown
<1>1. pending \in [Client -> (Id \X {"create", "amend"}) \cup {NoRead}]
  BY DEF TypeOK
<1>2. ASSUME NEW c \in Client, NEW i \in DOMAIN latest, AppendCheck(c, i, "amend")
      PROVE  PendingKnown'
  BY <1>1, <1>2 DEF AppendCheck, LatestIsNewest
<1>3. ASSUME NEW c \in Client, NEW r \in Rec, AppendInsert(c, r)
      PROVE  PendingKnown'
  BY <1>1, <1>3 DEF AppendInsert
<1>4. CASE UNCHANGED pending
  BY <1>4
<1>5. \/ UNCHANGED pending
      \/ \E c \in Client :
           \/ \E i \in DOMAIN latest : AppendCheck(c, i, "amend")
           \/ \E r \in Rec : AppendInsert(c, r)
  BY DEF Next, ClientStep, Rebuild, GetVersioned, Create, AppendAll, AmendIf, Supersede,
         ErrChanged, Attach, Forget, vars, clientVars
<1>6. QED
  BY <1>2, <1>3, <1>4, <1>5

LEMMA CacheStep == CacheInv /\ [Next]_vars => CacheInv'
<1> SUFFICES ASSUME CacheInv, [Next]_vars PROVE CacheInv'
  OBVIOUS
<1>1. UNCHANGED <<log, latest>> \/ Writes
  BY StepWrites
<1>2. /\ log' \in Seq(Event)
      /\ DOMAIN latest' \subseteq Id
      /\ \A i \in DOMAIN latest' : latest'[i] \in Row
      /\ LatestIsNewest'
      /\ latest' = [i \in DOMAIN latest' |-> latest'[i]]
      /\ IdsIn(log) \subseteq IdsIn(log')
  BY <1>1, WritesKeepTables
<1>3. TypeOK'
  BY <1>2, AttachmentTyped, ClientsTyped DEF TypeOK, StoreTypeOK
<1>4. SeedId = {} => PendingKnown'
  BY <1>2, PendingStaysKnown
<1>5. QED
  BY <1>2, <1>3, <1>4 DEF CacheInv

LEMMA CacheAlways == Spec => []CacheInv
<1>1. QED
  BY CacheInit, CacheStep, PTL DEF Spec

\* The tables and the clients' readings keep their types.
THEOREM TypeCorrect == Spec => []TypeOK
<1>1. CacheInv => TypeOK
  BY DEF CacheInv
<1>2. QED
  BY <1>1, CacheAlways, PTL

\* The cache equals the newest events of the log, always (record_latest).
THEOREM CacheCorrect == Spec => []LatestIsNewest
<1>1. CacheInv => LatestIsNewest
  BY DEF CacheInv
<1>2. QED
  BY <1>1, CacheAlways, PTL

----------------------------------------------------------------------------

\* A batch keeps every event of the log where it is and follows them.
LEMMA LogGrows ==
  ASSUME CacheInv, NEW batch, Lawful(batch), Commit(Inserted(Tables, batch))
  PROVE  /\ \A k \in DOMAIN log : k \in DOMAIN log' /\ log'[k] = log[k] /\ k <= Len(log)
         /\ \A k \in DOMAIN log' : k \in Nat \ {0} /\ log'[k] \in Event
         /\ \A k \in DOMAIN log' : k \notin DOMAIN log =>
              /\ k > Len(log)
              /\ k - Len(log) \in DOMAIN batch
              /\ log'[k] = batch[k - Len(log)]
<1>1. batch \in Seq(Event) /\ log \in Seq(Event) /\ log' = log \o batch
  BY DEF CacheInv, Lawful, Commit, Inserted, Tables, TypeOK, StoreTypeOK
<1>2. /\ log' \in Seq(Event)
      /\ \A k \in DOMAIN log : k \in DOMAIN log' /\ log'[k] = log[k]
      /\ \A k \in DOMAIN batch :
           Len(log) + k \in DOMAIN log' /\ log'[Len(log) + k] = batch[k]
      /\ \A k \in DOMAIN log' : k \in DOMAIN log \/ k - Len(log) \in DOMAIN batch
  BY <1>1, AppendedLog
<1>3. /\ DOMAIN log = 1..Len(log) /\ Len(log) \in Nat
      /\ DOMAIN log' \subseteq Nat \ {0} /\ \A k \in DOMAIN log' : log'[k] \in Event
  BY <1>1, <1>2
<1>4. ASSUME NEW k \in DOMAIN log', k \notin DOMAIN log
      PROVE  /\ k > Len(log) /\ k - Len(log) \in DOMAIN batch
             /\ log'[k] = batch[k - Len(log)]
  <2>1. k - Len(log) \in DOMAIN batch /\ Len(log) + (k - Len(log)) = k
    BY <1>2, <1>3, <1>4
  <2>2. log'[k] = batch[k - Len(log)]
    BY <1>2, <2>1
  <2>3. QED
    BY <1>3, <1>4, <2>1, <2>2
<1>5. QED
  BY <1>2, <1>3, <1>4

\* The event a checked write is based on is the newest one about its record.
LEMMA CheckedStep ==
  ASSUME CacheInv, CheckedWriteLosesNothing, [Next]_vars
  PROVE  CheckedWriteLosesNothing'
<1>1. CASE UNCHANGED <<log, latest>>
  BY <1>1 DEF CheckedWriteLosesNothing
<1>2. ASSUME NEW batch, Lawful(batch), Commit(Inserted(Tables, batch)),
             NEW k \in DOMAIN log', log'[k].basis # 0
      PROVE  /\ log'[k].basis < k
             /\ log'[log'[k].basis].id = log'[k].id
             /\ \A m \in DOMAIN log' :
                  log'[m].id = log'[k].id => m <= log'[k].basis \/ k <= m
  <2>1. /\ \A m \in DOMAIN log : m \in DOMAIN log' /\ log'[m] = log[m] /\ m <= Len(log)
        /\ \A m \in DOMAIN log' : m \in Nat \ {0} /\ log'[m] \in Event
        /\ \A m \in DOMAIN log' : m \notin DOMAIN log =>
             /\ m > Len(log)
             /\ m - Len(log) \in DOMAIN batch
             /\ log'[m] = batch[m - Len(log)]
    BY <1>2, LogGrows
  <2>2. DOMAIN log = 1..Len(log) /\ Len(log) \in Nat
    BY DEF CacheInv, TypeOK, StoreTypeOK
  <2>3. CASE k \in DOMAIN log
    <3>1. /\ log'[k] = log[k] /\ log[k].basis \in Nat \ {0}
          /\ log[k].basis < k /\ log[log[k].basis].id = log[k].id
          /\ \A m \in DOMAIN log : log[m].id = log[k].id => m <= log[k].basis \/ k <= m
      BY <1>2, <2>1, <2>3 DEF CheckedWriteLosesNothing, Event
    <3>2. log[k].basis \in DOMAIN log
      BY <2>2, <2>3, <3>1
    <3>3. ASSUME NEW m \in DOMAIN log', log'[m].id = log[k].id
          PROVE  m <= log[k].basis \/ k <= m
      <4>1. CASE m \in DOMAIN log
        BY <2>1, <3>1, <3>3, <4>1
      <4>2. CASE m \notin DOMAIN log
        BY <2>1, <2>2, <2>3, <4>2
      <4>3. QED
        BY <4>1, <4>2
    <3>4. QED
      BY <2>1, <3>1, <3>2, <3>3
  <2>4. CASE k \notin DOMAIN log
    <3> DEFINE n == k - Len(log)
               i == batch[n].id
               v == batch[n].basis
    <3>1. n \in DOMAIN batch /\ log'[k] = batch[n] /\ k > Len(log)
      BY <2>1, <2>4
    <3>2. AtVersion(i, v)
      BY <1>2, <3>1 DEF Lawful
    <3>3. /\ v \in DOMAIN log /\ log[v].id = i
          /\ \A m \in DOMAIN log : log[m].id = i => m <= v
      BY <3>2 DEF AtVersion, Version, CacheInv, LatestIsNewest
    <3>4. ASSUME NEW m \in DOMAIN log', log'[m].id = i
          PROVE  m <= v \/ k <= m
      <4>1. CASE m \in DOMAIN log
        BY <2>1, <3>3, <3>4, <4>1
      <4>2. CASE m \notin DOMAIN log
        <5>1. m - Len(log) = n
          BY <1>2, <2>1, <3>1, <3>4, <4>2 DEF Lawful
        <5>2. QED
          BY <2>1, <2>2, <5>1
      <4>3. QED
        BY <4>1, <4>2
    <3>5. QED
      BY <2>1, <2>2, <3>1, <3>3, <3>4
  <2>5. QED
    BY <2>3, <2>4
<1>3. CASE Writes
  BY <1>2, <1>3 DEF Writes, CheckedWriteLosesNothing
<1>4. QED
  BY <1>1, <1>3, StepWrites

\* A write that carried a version overwrites nobody's (AmendIf, Supersede).
THEOREM CheckedWritesLoseNothing == Spec => []CheckedWriteLosesNothing
<1>1. Init => CheckedWriteLosesNothing
  BY DEF Init, StoreInit, CheckedWriteLosesNothing
<1>2. CacheInv /\ CheckedWriteLosesNothing /\ [Next]_vars => CheckedWriteLosesNothing'
  BY CheckedStep
<1>3. QED
  BY <1>1, <1>2, CacheAlways, PTL DEF Spec

----------------------------------------------------------------------------

\* In a store no client seeds, a batch creates exactly what the log lacks.
LEMMA IssuedStep ==
  ASSUME CacheInv, IssuedOnce, [Next]_vars, SeedId = {}
  PROVE  IssuedOnce'
<1>1. CASE UNCHANGED <<log, latest>>
  BY <1>1 DEF IssuedOnce
<1>2. ASSUME NEW batch, Lawful(batch), Commit(Inserted(Tables, batch)), NEW k \in DOMAIN log'
      PROVE  (log'[k].op = "create")
               <=> (\A m \in DOMAIN log' : log'[m].id = log'[k].id => k <= m)
  <2>1. /\ \A m \in DOMAIN log : m \in DOMAIN log' /\ log'[m] = log[m] /\ m <= Len(log)
        /\ \A m \in DOMAIN log' : m \in Nat \ {0} /\ log'[m] \in Event
        /\ \A m \in DOMAIN log' : m \notin DOMAIN log =>
             /\ m > Len(log)
             /\ m - Len(log) \in DOMAIN batch
             /\ log'[m] = batch[m - Len(log)]
    BY <1>2, LogGrows
  <2>2. DOMAIN log = 1..Len(log) /\ Len(log) \in Nat
    BY DEF CacheInv, TypeOK, StoreTypeOK
  <2>3. CASE k \in DOMAIN log
    <3>1. (log[k].op = "create") <=> (\A m \in DOMAIN log : log[m].id = log[k].id => k <= m)
      BY <2>3 DEF IssuedOnce
    <3>2. \A m \in DOMAIN log' : m \notin DOMAIN log => k <= m
      BY <2>1, <2>2, <2>3
    <3>3. QED
      BY <2>1, <2>3, <3>1, <3>2
  <2>4. CASE k \notin DOMAIN log
    <3>1. /\ k - Len(log) \in DOMAIN batch /\ log'[k] = batch[k - Len(log)] /\ k > Len(log)
          /\ log'[k].op = "create" <=> log'[k].id \notin IdsIn(log)
      BY <1>2, <2>1, <2>4 DEF Lawful
    <3>2. CASE log'[k].id \in IdsIn(log)
      <4>1. PICK m \in DOMAIN log : log[m].id = log'[k].id
        BY <3>2 DEF IdsIn
      <4>2. m \in DOMAIN log' /\ log'[m].id = log'[k].id /\ ~(k <= m)
        BY <2>1, <2>2, <3>1, <4>1
      <4>3. QED
        BY <3>1, <3>2, <4>2
    <3>3. CASE log'[k].id \notin IdsIn(log)
      <4>1. ASSUME NEW m \in DOMAIN log', log'[m].id = log'[k].id
            PROVE  m = k
        <5>1. m \notin DOMAIN log
          BY <2>1, <3>3, <4>1 DEF IdsIn
        <5>2. m - Len(log) = k - Len(log)
          BY <1>2, <2>1, <3>1, <4>1, <5>1 DEF Lawful
        <5>3. QED
          BY <2>1, <2>2, <5>2
      <4>2. k <= k
        BY <2>1
      <4>3. QED
        BY <3>1, <3>3, <4>1, <4>2
    <3>4. QED
      BY <3>2, <3>3
  <2>5. QED
    BY <2>3, <2>4
<1>3. CASE Writes
  BY <1>2, <1>3 DEF Writes, IssuedOnce
<1>4. QED
  BY <1>1, <1>3, StepWrites

\* No identifier is issued twice, and none amended before it is issued, by any
\* calls but a seed's Append("create") (Create, AppendAll, Supersede).
THEOREM IdentifiersIssuedOnce ==
  ASSUME SeedId = {}
  PROVE  Spec => []IssuedOnce
<1>1. Init => IssuedOnce
  BY DEF Init, StoreInit, IssuedOnce
<1>2. CacheInv /\ IssuedOnce /\ [Next]_vars => IssuedOnce'
  BY IssuedStep
<1>3. QED
  BY <1>1, <1>2, CacheAlways, PTL DEF Spec

----------------------------------------------------------------------------

\* A lawful batch is a step of the map: it files, rewrites or replaces.
LEMMA BatchIsMapStep ==
  ASSUME CacheInv, NEW batch, Lawful(batch), Commit(Inserted(Tables, batch))
  PROVE  Readable!Next
<1> USE DEF CacheInv
<1>1. batch \in Seq(Event) /\ Len(log) \in Nat /\ DOMAIN log = 1..Len(log)
  BY DEF Lawful, TypeOK, StoreTypeOK
<1>2. /\ DOMAIN latest' = DOMAIN latest \cup IdsIn(batch)
      /\ \A i \in DOMAIN latest : i \notin IdsIn(batch) => latest'[i] = latest[i]
      /\ \A i \in IdsIn(batch) :
           latest'[i] = [seq |-> Len(log) + LastAbout(batch, i),
                         rec |-> batch[LastAbout(batch, i)].rec]
  BY DEF Commit, Inserted, Tables
<1>3. ASSUME NEW i \in IdsIn(batch)
      PROVE  /\ LastAbout(batch, i) \in DOMAIN batch /\ LastAbout(batch, i) \in Nat \ {0}
             /\ batch[LastAbout(batch, i)].id = i
             /\ latest'[i].seq = Len(log) + LastAbout(batch, i)
             /\ latest'[i] \in [seq : Nat, rec : Rec]
  <2> DEFINE k == LastAbout(batch, i)
  <2>1. k \in DOMAIN batch /\ batch[k].id = i
    BY <1>1, <1>3, LastAboutFact
  <2>2. k \in Nat \ {0} /\ batch[k].rec \in Rec
    BY <1>1, <2>1, EventIds
  <2>3. latest'[i] = [seq |-> Len(log) + k, rec |-> batch[k].rec]
    BY <1>2
  <2> HIDE DEF k
  <2>4. latest'[i] \in [seq : Nat, rec : Rec] /\ latest'[i].seq = Len(log) + k
    BY <1>1, <2>2, <2>3
  <2>5. QED
    BY <2>1, <2>2, <2>4 DEF k
<1>4. ASSUME NEW j \in DOMAIN latest
      PROVE  latest[j].seq \in Nat /\ latest[j].seq <= Len(log)
  BY <1>1 DEF LatestIsNewest
<1>5. IdsIn(batch) \subseteq Id
  BY <1>1, EventIds
<1> DEFINE New == DOMAIN latest' \ DOMAIN latest
           Altered == {i \in DOMAIN latest : latest'[i] # latest[i]}
<1>6. New = IdsIn(batch) \ DOMAIN latest
  BY <1>2
<1>7. Altered = IdsIn(batch) \cap DOMAIN latest
  <2>1. ASSUME NEW i \in IdsIn(batch), i \in DOMAIN latest
        PROVE  latest'[i].seq # latest[i].seq
    BY <1>1, <1>3, <1>4, <2>1
  <2>2. QED
    BY <1>2, <2>1
<1> HIDE DEF New, Altered
<1>8. /\ DOMAIN latest \subseteq DOMAIN latest'
      /\ New \subseteq Id
      /\ \A i \in New \cup Altered :
           /\ latest'[i] \in [seq : Nat, rec : Rec]
           /\ \A j \in DOMAIN latest : latest[j].seq < latest'[i].seq
           /\ \A j \in New \cup Altered : latest'[i].seq = latest'[j].seq => i = j
  <2>1. New \cup Altered = IdsIn(batch)
    BY <1>2, <1>6, <1>7
  <2>2. ASSUME NEW i \in IdsIn(batch), NEW j \in IdsIn(batch), latest'[i].seq = latest'[j].seq
        PROVE  i = j
    <3>1. LastAbout(batch, i) = LastAbout(batch, j)
      BY <1>1, <1>3, <2>2
    <3>2. QED
      BY <1>3, <3>1
  <2>3. ASSUME NEW i \in IdsIn(batch), NEW j \in DOMAIN latest
        PROVE  latest[j].seq < latest'[i].seq
    BY <1>1, <1>3, <1>4
  <2>4. QED
    BY <1>2, <1>3, <1>5, <1>6, <2>1, <2>2, <2>3
<1>9. Readable!Writes
  BY <1>8 DEF Readable!Writes, Readable!Written, Readable!New, Readable!Rewritten,
              Readable!Known, New, Altered
<1>10. DOMAIN latest = IdsIn(log)
  BY DEF LatestIsNewest
<1>11. CASE \A k \in DOMAIN batch : batch[k].id \notin IdsIn(log)
  <2>1. Altered = {}
    BY <1>7, <1>10, <1>11 DEF IdsIn
  <2>2. QED
    BY <1>9, <2>1 DEF Readable!Next, Readable!File, Readable!Rewritten, Readable!Known, Altered
<1>12. CASE DOMAIN batch = {1} /\ batch[1].id \in IdsIn(log)
  <2>1. IdsIn(batch) = {batch[1].id}
    BY <1>12 DEF IdsIn
  <2>2. New = {} /\ Altered = {batch[1].id} /\ batch[1].id \in DOMAIN latest
    BY <1>6, <1>7, <1>10, <1>12, <2>1
  <2>3. QED
    BY <1>9, <2>2 DEF Readable!Next, Readable!Rewrite, Readable!New, Readable!Rewritten,
                      Readable!Known, New, Altered
<1>13. CASE DOMAIN batch = {1, 2} /\ batch[1].id \notin IdsIn(log) /\ batch[2].id \in IdsIn(log)
  <2>1. IdsIn(batch) = {batch[1].id, batch[2].id}
    BY <1>13 DEF IdsIn
  <2>2. /\ New = {batch[1].id} /\ Altered = {batch[2].id}
        /\ batch[2].id \in DOMAIN latest
    BY <1>6, <1>7, <1>10, <1>13, <2>1
  <2>3. batch[1].id \in New
    BY <2>2
  <2>4. QED
    BY <1>9, <2>2, <2>3 DEF Readable!Next, Readable!Replace, Readable!New, Readable!Rewritten,
                            Readable!Known, New, Altered
<1>14. QED
  BY <1>11, <1>12, <1>13 DEF Lawful

\* The store implements the map its readers see (Get, GetVersioned, List).
THEOREM StoreImplementsMap == Spec => StoreIsAMap
<1>1. Init => Readable!Init
  BY DEF Init, StoreInit, Readable!Init
<1>2. CacheInv /\ [Next]_vars => [Readable!Next]_latest
  <2> SUFFICES ASSUME CacheInv, [Next]_vars PROVE Readable!Next \/ UNCHANGED latest
    OBVIOUS
  <2>1. QED
    BY StepWrites, BatchIsMapStep DEF Writes
<1>3. QED
  BY <1>1, <1>2, CacheAlways, PTL DEF Spec, StoreIsAMap, Readable!Spec
----------------------------------------------------------------------------
(* What an import reads.                                                    *)

IsItem(r) ==
  r = [id |-> r.id, at |-> r.at, mark |-> r.mark, old |-> r.old,
       data |-> r.data, text |-> r.text, refs |-> r.refs]

Tokens(t) == UNION Texts(t)

\* The identifier of milestone n, when these are given a place.
MilestoneId(nums, n) == <<"M", Rank(nums)[n]>>

\* Of a tree, before the citations are rewritten; nums are the milestones that
\* are given a place.
Raw(t, r, nums) ==
  /\ IsItem(r)
  /\ r.text \subseteq Tokens(t)
  /\ r.id[1] = "M" => r.old \in nums /\ r.id = MilestoneId(nums, r.old)

\* After: a milestone cited by its serial is the one the tree called so.
Meant(r, nums) ==
  /\ IsItem(r)
  /\ \A c \in r.text : c.to # 0 => c.old \in nums /\ c.to = Rank(nums)[c.old]
  /\ r.id[1] = "M" => r.old \in nums /\ r.id = MilestoneId(nums, r.old)

LEMMA ItemIsItem ==
  ASSUME NEW role, NEW serial, NEW at, NEW mark, NEW old, NEW word, NEW text, NEW refs, NEW r,
         r = Item(role, serial, at, mark, old, word, text, refs)
  PROVE  /\ IsItem(r) /\ r.id = <<role, serial>> /\ r.id[1] = role
         /\ r.text = text /\ r.old = old /\ r.at = at /\ r.mark = mark
BY DEF Item, IsItem

LEMMA DatedIsItem ==
  ASSUME NEW role, NEW serial, NEW at, NEW today, NEW old, NEW word, NEW text, NEW refs, NEW r,
         r = Dated(role, serial, at, today, old, word, text, refs)
  PROVE  IsItem(r) /\ r.id = <<role, serial>> /\ r.id[1] = role /\ r.text = text /\ r.old = old
BY ItemIsItem DEF Dated

\* Among the definitions of a number one comes first.
LEMMA FirstDefinition ==
  ASSUME NEW t \in Trees, NEW n, DefinitionsOf(t, n) # {}
  PROVE  \E d \in DefinitionsOf(t, n) : \A o \in DefinitionsOf(t, n) : Before(t, d, o)
<1> DEFINE defs == DefinitionsOf(t, n)
           form(d) == t.entries[d[1]].defs[d[2]].form
<1>1. \A d \in defs : form(d) \in Nat /\ d[1] \in Nat /\ d[2] \in Nat
  <2> SUFFICES ASSUME NEW d \in defs
               PROVE  form(d) \in Nat /\ d[1] \in Nat /\ d[2] \in Nat
    OBVIOUS
  <2>1. PICK k \in DOMAIN t.entries : \E i \in DOMAIN t.entries[k].defs : d = <<k, i>>
    BY DEF DefinitionsOf
  <2>2. PICK i \in DOMAIN t.entries[k].defs : d = <<k, i>>
    BY <2>1
  <2>3. d[1] = k /\ d[2] = i
    BY <2>2
  <2>4. k \in Nat /\ i \in Nat /\ t.entries[k].defs[i].form \in Nat
    BY TreeAssumption
  <2>5. QED
    BY <2>3, <2>4
<1>2. PICK f \in {form(d) : d \in defs} : \A o \in {form(d) : d \in defs} : f <= o
  <2>1. {form(d) : d \in defs} \in SUBSET Nat /\ {form(d) : d \in defs} # {}
    BY <1>1
  <2> HIDE DEF form, defs
  <2>2. QED
    BY <2>1, SmallestOf
<1> DEFINE best == {d \in defs : form(d) = f}
<1>3. PICK k \in {d[1] : d \in best} : \A o \in {d[1] : d \in best} : k <= o
  <2>1. {d[1] : d \in best} \in SUBSET Nat /\ {d[1] : d \in best} # {}
    BY <1>1, <1>2
  <2> HIDE DEF form, defs, best
  <2>2. QED
    BY <2>1, SmallestOf
<1> DEFINE first == {d \in best : d[1] = k}
<1>4. PICK i \in {d[2] : d \in first} : \A o \in {d[2] : d \in first} : i <= o
  <2>1. {d[2] : d \in first} \in SUBSET Nat /\ {d[2] : d \in first} # {}
    BY <1>1, <1>3
  <2> HIDE DEF form, defs, best, first
  <2>2. QED
    BY <2>1, SmallestOf
<1>5. PICK d \in first : d[2] = i
  BY <1>4
<1>6. d \in defs /\ form(d) = f /\ d[1] = k
  BY <1>5
<1>7. ASSUME NEW o \in defs
      PROVE  Before(t, d, o)
  <2>0. f \in Nat /\ form(o) \in Nat /\ k \in Nat /\ o[1] \in Nat
    BY <1>1, <1>6
  <2>1. f <= form(o)
    BY <1>2
  <2>2. form(o) = f => k <= o[1]
    BY <1>3
  <2>3. form(o) = f /\ o[1] = k => i <= o[2]
    BY <1>4
  <2>4. \/ form(d) < form(o)
        \/ form(d) = form(o) /\ d[1] < o[1]
        \/ form(d) = form(o) /\ d[1] = o[1] /\ d[2] <= o[2]
    <3> HIDE DEF form, defs, best, first
    <3>1. QED
      BY <1>5, <1>6, <2>0, <2>1, <2>2, <2>3
  <2>5. QED
    BY <2>4 DEF Before
<1>8. QED
  BY <1>6, <1>7

\* Every stretch of prose of the tree is among its texts.
LEMMA PartTexts ==
  ASSUME NEW t
  PROVE  /\ \A n \in DOMAIN t.findings  : t.findings[n].text \subseteq Tokens(t)
         /\ \A n \in DOMAIN t.rows      : t.rows[n].text \subseteq Tokens(t)
         /\ \A n \in DOMAIN t.adrs      : t.adrs[n].text \subseteq Tokens(t)
         /\ \A n \in DOMAIN t.files     : t.files[n].text \subseteq Tokens(t)
         /\ \A n \in DOMAIN t.phase1    : t.phase1[n].text \subseteq Tokens(t)
         /\ \A n \in DOMAIN t.phases    : t.phases[n].text \subseteq Tokens(t)
         /\ \A n \in DOMAIN t.questions : t.questions[n].text \subseteq Tokens(t)
         /\ \A k \in DOMAIN t.entries :
              /\ t.entries[k].text \subseteq Tokens(t)
              /\ \A i \in DOMAIN t.entries[k].defs : t.entries[k].defs[i].text \subseteq Tokens(t)
<1> DEFINE prose(part) == {part[m].text : m \in DOMAIN part}
           parts == {t.findings, t.rows, t.adrs, t.files, t.phase1, t.phases, t.questions, t.entries}
<1>1. ASSUME NEW part \in parts, NEW n \in DOMAIN part
      PROVE  part[n].text \subseteq Tokens(t)
  <2>1. part[n].text \in prose(part)
    OBVIOUS
  <2>2. part[n].text \in Texts(t)
    <3>1. UNION {prose(p) : p \in parts} \subseteq Texts(t)
      BY DEF Texts
    <3> HIDE DEF prose, parts
    <3>2. QED
      BY <2>1, <3>1
  <2>3. QED
    BY <2>2 DEF Tokens
<1>2. ASSUME NEW k \in DOMAIN t.entries, NEW i \in DOMAIN t.entries[k].defs
      PROVE  t.entries[k].defs[i].text \subseteq Tokens(t)
  <2>1. t.entries[k].defs[i].text \in prose(t.entries[k].defs)
    OBVIOUS
  <2>2. t.entries[k].defs[i].text \in Texts(t)
    <3>1. UNION {prose(t.entries[m].defs) : m \in DOMAIN t.entries} \subseteq Texts(t)
      BY DEF Texts
    <3> HIDE DEF prose
    <3>2. QED
      BY <2>1, <3>1
  <2>3. QED
    BY <2>2 DEF Tokens
<1>3. QED
  BY <1>1, <1>2

\* What the sources before the milestones give.
LEMMA EarlyRaw ==
  ASSUME NEW t \in Trees, NEW today, NEW r \in EarlyItems(t, today)
  PROVE  IsItem(r) /\ r.text \subseteq Tokens(t) /\ r.id[1] # "M" /\ r.id[1] # "P"
<1>1. CASE r \in FindingItems(t, today)
  BY <1>1, DatedIsItem, PartTexts DEF FindingItems
<1>2. CASE r \in Investigations(t, today)
  <2>1. PICK n \in DOMAIN t.adrs :
          r = Item("I", n, IF t.adrs[n].at = 0 THEN today ELSE t.adrs[n].at, FALSE, n, "accepted",
                   t.adrs[n].text, {})
    BY <1>2 DEF Investigations
  <2>2. PICK at : at = IF t.adrs[n].at = 0 THEN today ELSE t.adrs[n].at
    OBVIOUS
  <2>3. r = Item("I", n, at, FALSE, n, "accepted", t.adrs[n].text, {})
    BY <2>1, <2>2
  <2>4. IsItem(r) /\ r.id[1] = "I" /\ r.text = t.adrs[n].text
    BY <2>3 DEF Item, IsItem
  <2>5. QED
    BY <2>4, PartTexts
<1>3. CASE r \in QuestionItems(t, today)
  BY <1>3, DatedIsItem, PartTexts DEF QuestionItems
<1>4. CASE r \in EntryItems(t)
  <2>1. PICK k \in DOMAIN t.entries :
          r = Item("D", FirstEntry + k - 1, t.entries[k].at, FALSE, 0, Empty, t.entries[k].text, {})
    BY <1>4 DEF EntryItems
  <2>2. PICK serial : serial = FirstEntry + k - 1
    OBVIOUS
  <2>3. r = Item("D", serial, t.entries[k].at, FALSE, 0, Empty, t.entries[k].text, {})
    BY <2>1, <2>2
  <2>4. IsItem(r) /\ r.id[1] = "D" /\ r.text = t.entries[k].text
    BY <2>3 DEF Item, IsItem
  <2>5. QED
    BY <2>4, PartTexts
<1>5. ASSUME NEW n \in Numbers(t), DefinitionsOf(t, n) # {}, r = DefinedItem(t, n)
      PROVE  IsItem(r) /\ r.text \subseteq Tokens(t) /\ r.id[1] # "M" /\ r.id[1] # "P"
  <2> DEFINE first == CHOOSE d \in DefinitionsOf(t, n) : \A o \in DefinitionsOf(t, n) : Before(t, d, o)
             row == IF n \in DOMAIN t.rows THEN t.rows[n].text ELSE {}
  <2>1. PICK best \in DefinitionsOf(t, n) : best = first
    BY <1>5, FirstDefinition
  <2>2. PICK k \in DOMAIN t.entries : \E i \in DOMAIN t.entries[k].defs : best = <<k, i>>
    BY DEF DefinitionsOf
  <2>3. PICK i \in DOMAIN t.entries[k].defs : best = <<k, i>>
    BY <2>2
  <2>4. best[1] = k /\ best[2] = i
    BY <2>3
  <2>5. PICK text, refs :
          r = Item("D", n, t.entries[best[1]].at, FALSE, n, Empty, text, refs)
            /\ text = t.entries[best[1]].defs[best[2]].text \cup row
    BY <1>5, <2>1 DEF DefinedItem
  <2>6. IsItem(r) /\ r.id[1] = "D" /\ r.text = text
    BY <2>5 DEF Item, IsItem
  <2>7. t.entries[k].defs[i].text \subseteq Tokens(t) /\ row \subseteq Tokens(t)
    BY PartTexts
  <2>8. text = t.entries[k].defs[i].text \cup row
    BY <2>4, <2>5
  <2> HIDE DEF first, row
  <2>9. QED
    BY <2>6, <2>7, <2>8
<1>6. ASSUME NEW n \in Numbers(t), DefinitionsOf(t, n) = {}, r = RowItem(t, n, today)
      PROVE  IsItem(r) /\ r.text \subseteq Tokens(t) /\ r.id[1] # "M" /\ r.id[1] # "P"
  <2>1. n \in DOMAIN t.rows
    <3>1. SUFFICES ASSUME NEW k \in DOMAIN t.entries, NEW i \in DOMAIN t.entries[k].defs,
                          t.entries[k].defs[i].number = n
                   PROVE  FALSE
      BY <1>6 DEF Numbers
    <3>2. PICK d : d = <<k, i>>
      OBVIOUS
    <3>3. d \in DefinitionsOf(t, n)
      BY <3>1, <3>2 DEF DefinitionsOf
    <3>4. QED
      BY <1>6, <3>3
  <2>2. QED
    BY <1>6, <2>1, DatedIsItem, PartTexts DEF RowItem
<1>7. QED
  BY <1>1, <1>2, <1>3, <1>4, <1>5, <1>6 DEF EarlyItems, DecisionItems

LEMMA MilestoneRaw ==
  ASSUME NEW t \in Trees, NEW cited, NEW today,
         NEW r \in MilestoneItems(t, cited, today)
  PROVE  Raw(t, r, Placed(t) \cup DOMAIN cited) /\ r.id[1] # "P"
<1> DEFINE nums == Placed(t) \cup DOMAIN cited
           rank == Rank(nums)
<1>1. ASSUME NEW n \in Placed(t), r = MilestoneItem(t, n, rank[n], today)
      PROVE  Raw(t, r, nums) /\ r.id[1] # "P"
  <2>1. IsItem(r) /\ r.id = <<"M", rank[n]>> /\ r.id[1] = "M" /\ r.old = n
        /\ r.text = (IF n \in DOMAIN t.files THEN t.files[n] ELSE t.phase1[n]).text
    BY <1>1, DatedIsItem DEF MilestoneItem
  <2>2. r.text \subseteq Tokens(t)
    BY <2>1, PartTexts DEF Placed
  <2>3. QED
    BY <2>1, <2>2 DEF Raw, MilestoneId
<1>2. ASSUME NEW n \in DOMAIN t.files, r = WorkUnitItem(t, n, rank[n], today)
      PROVE  Raw(t, r, nums) /\ r.id[1] # "P"
  <2>1. IsItem(r) /\ r.id[1] = "W" /\ r.text = t.files[n].text
    BY <1>2, DatedIsItem DEF WorkUnitItem
  <2>2. QED
    BY <2>1, PartTexts DEF Raw
<1>3. ASSUME NEW n \in DOMAIN cited, r = StubItem(n, rank[n], cited)
      PROVE  Raw(t, r, nums) /\ r.id[1] # "P"
  <2>0. PICK serial, at : serial = rank[n] /\ at = cited[n]
    OBVIOUS
  <2>1. IsItem(r) /\ r.id = <<"M", serial>> /\ r.id[1] = "M" /\ r.old = n /\ r.text = {}
    <3>1. r = Item("M", serial, at, FALSE, n, "cited, never defined", {}, {})
      BY <1>3, <2>0 DEF StubItem
    <3>2. QED
      BY <3>1 DEF Item, IsItem
  <2>2. QED
    BY <2>0, <2>1 DEF Raw, MilestoneId
<1>4. QED
  BY <1>1, <1>2, <1>3 DEF MilestoneItems

LEMMA PhaseRaw ==
  ASSUME NEW t \in Trees, NEW rank, NEW milestones, NEW today, NEW nums,
         NEW r \in PhaseItems(t, rank, milestones, today)
  PROVE  Raw(t, r, nums) /\ r.id[1] = "P"
<1>1. PICK p \in DOMAIN t.phases : r = PhaseItem(t, p, rank, milestones, today)
  BY DEF PhaseItems
<1>2. IsItem(r) /\ r.id[1] = "P" /\ r.text = t.phases[p].text
  BY <1>1, DatedIsItem DEF PhaseItem
<1>3. QED
  BY <1>2, PartTexts DEF Raw

\* A citation that is rewritten is to the milestone it was of.
LEMMA RenumberedMeans ==
  ASSUME NEW t \in Trees, NEW nums, NEW c \in Tokens(t), NEW d, d = Renumbered(c, Rank(nums))
  PROVE  d.to # 0 => d.old \in nums /\ d.to = Rank(nums)[d.old]
<1>1. c = [role |-> c.role, old |-> c.old, to |-> 0]
  BY TreeAssumption DEF Tokens, Token
<1>2. DOMAIN Rank(nums) = nums
  BY DEF Rank
<1>3. PICK role, old : c = [role |-> role, old |-> old, to |-> 0]
  BY <1>1
<1>4. CASE c.role = "M" /\ c.old \in nums
  <2>1. PICK place : place = Rank(nums)[old]
    OBVIOUS
  <2>2. d = [role |-> role, old |-> old, to |-> place]
    <3>1. d = [c EXCEPT !.to = Rank(nums)[c.old]]
      BY <1>2, <1>4 DEF Renumbered
    <3>2. QED
      BY <1>3, <2>1, <3>1
  <2>3. old \in nums
    BY <1>3, <1>4
  <2>4. QED
    BY <2>1, <2>2, <2>3
<1>5. CASE ~(c.role = "M" /\ c.old \in nums)
  <2>1. d = c
    BY <1>2, <1>5 DEF Renumbered
  <2>2. QED
    BY <1>3, <2>1
<1>6. QED
  BY <1>4, <1>5

\* What the whole of a run's records is made of: rewritten, cited, placed.
LEMMA FinishedMeans ==
  ASSUME NEW t \in Trees, NEW nums, NEW items, \A r \in items : Raw(t, r, nums)
  PROVE  /\ \A s \in Finished(items, Rank(nums)) : Meant(s, nums)
         /\ \A r \in items : \E s \in Finished(items, Rank(nums)) : s.id = r.id
         /\ \A s \in Finished(items, Rank(nums)) : \E r \in items : s.id = r.id
<1> DEFINE rank == Rank(nums)
           Reworded(r) == [r EXCEPT !.text = {Renumbered(c, rank) : c \in r.text}]
           rewritten == {Reworded(r) : r \in items}
           have == {r.id : r \in rewritten}
           Referred(r) == [r EXCEPT !.refs = r.refs \cup (({Target(c) : c \in r.text} \cap have) \ {r.id})]
<1>1. ASSUME NEW r \in items
      PROVE  Meant(Reworded(r), nums) /\ Reworded(r).id = r.id
  <2>1. PICK text : text = {Renumbered(c, rank) : c \in r.text}
    OBVIOUS
  <2>2. PICK id, at, mark, old, data, was, refs :
          r = [id |-> id, at |-> at, mark |-> mark, old |-> old, data |-> data, text |-> was, refs |-> refs]
    BY DEF Raw, IsItem
  <2>3. Reworded(r) = [id |-> id, at |-> at, mark |-> mark, old |-> old, data |-> data, text |-> text,
                       refs |-> refs]
    BY <2>1, <2>2
  <2>4. \A d \in text : d.to # 0 => d.old \in nums /\ d.to = rank[d.old]
    <3>1. r.text \subseteq Tokens(t)
      BY DEF Raw
    <3>2. SUFFICES ASSUME NEW c \in r.text, NEW d, d = Renumbered(c, Rank(nums))
                   PROVE  d.to # 0 => d.old \in nums /\ d.to = rank[d.old]
      BY <2>1
    <3>3. c \in Tokens(t)
      BY <3>1
    <3>4. d.to # 0 => d.old \in nums /\ d.to = Rank(nums)[d.old]
      BY ONLY <3>2, <3>3, t \in Trees, RenumberedMeans
    <3>5. QED
      BY <3>4
  <2>5. id[1] = "M" => old \in nums /\ id = MilestoneId(nums, old)
    BY <2>2 DEF Raw
  <2> HIDE DEF Reworded
  <2>6. Reworded(r).id = id /\ Reworded(r).old = old /\ Reworded(r).text = text /\ IsItem(Reworded(r))
    BY <2>3 DEF IsItem
  <2>7. r.id = id
    BY <2>2
  <2>8. QED
    BY <2>4, <2>5, <2>6, <2>7 DEF Meant
<1>2. ASSUME NEW r, Meant(r, nums)
      PROVE  Meant(Referred(r), nums) /\ Referred(r).id = r.id
  <2>1. PICK refs : refs = r.refs \cup (({Target(c) : c \in r.text} \cap have) \ {r.id})
    OBVIOUS
  <2> HIDE DEF have
  <2>2. PICK id, at, mark, old, data, text, was :
          r = [id |-> id, at |-> at, mark |-> mark, old |-> old, data |-> data, text |-> text, refs |-> was]
    BY <1>2 DEF Meant, IsItem
  <2>3. Referred(r) = [id |-> id, at |-> at, mark |-> mark, old |-> old, data |-> data, text |-> text,
                       refs |-> refs]
    BY <2>1, <2>2
  <2> HIDE DEF Referred
  <2>4. Referred(r).id = r.id /\ Referred(r).old = r.old /\ Referred(r).text = r.text /\ IsItem(Referred(r))
    BY <2>2, <2>3 DEF IsItem
  <2>5. QED
    BY <1>2, <2>4 DEF Meant
<1>3. Finished(items, rank) = {Referred(r) : r \in rewritten}
  BY DEF Finished
<1> HIDE DEF Referred, Reworded
<1>4. QED
  BY <1>1, <1>2, <1>3

\* Placing a finding leaves all but its words alone.
LEMMA PlacedMeans ==
  ASSUME NEW items, NEW index, NEW nums, \A r \in items : Meant(r, nums)
  PROVE  /\ \A s \in PlacedIn(items, index) : Meant(s, nums)
         /\ \A r \in items : \E s \in PlacedIn(items, index) : s.id = r.id
         /\ \A s \in PlacedIn(items, index) : \E r \in items : s.id = r.id
<1>1. ASSUME NEW r \in items, NEW words
      PROVE  Meant(Placing(r, words), nums) /\ Placing(r, words).id = r.id
  <2>1. ASSUME NEW data, Placing(r, words) = [r EXCEPT !.data = data]
        PROVE  Meant(Placing(r, words), nums) /\ Placing(r, words).id = r.id
    <3>1. PICK id, at, mark, old, was, text, refs :
            r = [id |-> id, at |-> at, mark |-> mark, old |-> old, data |-> was, text |-> text, refs |-> refs]
      BY DEF Meant, IsItem
    <3>2. PICK s : s = Placing(r, words)
      OBVIOUS
    <3>3. s = [id |-> id, at |-> at, mark |-> mark, old |-> old, data |-> data, text |-> text, refs |-> refs]
      BY ONLY <2>1, <3>1, <3>2
    <3>4. s.id = r.id /\ s.old = r.old /\ s.text = r.text /\ IsItem(s)
      BY ONLY <3>1, <3>3 DEF IsItem
    <3>5. Meant(s, nums)
      BY <3>4 DEF Meant
    <3>6. QED
      BY <3>2, <3>4, <3>5
  <2>2. \/ Placing(r, words) = r
        \/ \E data : Placing(r, words) = [r EXCEPT !.data = data]
    <3> DEFINE word == SectionWord(WordOf(r.data))
    <3>1. CASE r.id[1] # "F"
      BY <3>1 DEF Placing
    <3>2. CASE r.id[1] = "F" /\ word \in DOMAIN words
      <4>1. Placing(r, words) = [r EXCEPT !.data = Set(r.data, words[word], word)]
        BY <3>2 DEF Placing
      <4>2. QED
        BY <4>1
    <3>3. CASE r.id[1] = "F" /\ word \notin DOMAIN words /\ DOMAIN words = {}
      BY <3>3 DEF Placing
    <3>4. CASE r.id[1] = "F" /\ word \notin DOMAIN words /\ DOMAIN words # {}
      <4>1. PICK data :
              data = Set(r.data, IF Unreviewed \in DOMAIN words THEN words[Unreviewed] ELSE "open", Unreviewed)
        OBVIOUS
      <4>2. Placing(r, words) = [r EXCEPT !.data = data]
        BY <3>4, <4>1 DEF Placing
      <4>3. QED
        BY <4>2
    <3>5. QED
      BY <3>1, <3>2, <3>3, <3>4
  <2>3. QED
    BY <2>1, <2>2
<1>2. CASE SomeDeclared(index)
  <2>1. PICK words : words = index["LNK"]
    OBVIOUS
  <2>2. PlacedIn(items, index) = {Placing(r, words) : r \in items}
    BY <1>2, <2>1 DEF PlacedIn
  <2>3. QED
    BY <1>1, <2>2
<1>3. CASE ~SomeDeclared(index)
  BY <1>3 DEF PlacedIn
<1>4. QED
  BY <1>2, <1>3

\* The items a run makes records of, with these numbers stubbed.
SourceItems(t, cited, today) ==
  EarlyItems(t, today) \cup MilestoneItems(t, cited, today)
    \cup PhaseItems(t, Rank(Placed(t) \cup DOMAIN cited), MilestoneItems(t, cited, today), today)

LEMMA SourceRaw ==
  ASSUME NEW t \in Trees, NEW cited, NEW today, NEW r \in SourceItems(t, cited, today)
  PROVE  Raw(t, r, Placed(t) \cup DOMAIN cited)
<1>1. CASE r \in EarlyItems(t, today)
  BY <1>1, EarlyRaw DEF Raw
<1>2. CASE r \in MilestoneItems(t, cited, today)
  BY <1>2, MilestoneRaw
<1>3. CASE r \in PhaseItems(t, Rank(Placed(t) \cup DOMAIN cited), MilestoneItems(t, cited, today), today)
  BY <1>3, PhaseRaw
<1>4. QED
  BY <1>1, <1>2, <1>3 DEF SourceItems

\* The milestones that are given a place, with these stubbed.
Numbered(t, cited) == Placed(t) \cup DOMAIN cited

LEMMA ReadingWithMeans ==
  ASSUME NEW t \in Trees, NEW cited, NEW today
  PROVE  /\ \A s \in ReadingWith(t, cited, today) : Meant(s, Numbered(t, cited))
         /\ \A n \in Numbered(t, cited) :
              \E s \in ReadingWith(t, cited, today) : s.id = MilestoneId(Numbered(t, cited), n)
<1> PICK nums : nums = Placed(t) \cup DOMAIN cited
  OBVIOUS
<1>0. ASSUME NEW n \in nums
      PROVE  \E r \in SourceItems(t, cited, today) : r.id = MilestoneId(nums, n)
  <2>1. CASE n \in Placed(t)
    <3>1. PICK r : r = MilestoneItem(t, n, Rank(nums)[n], today)
      OBVIOUS
    <3>2. r.id = MilestoneId(nums, n)
      BY <3>1, DatedIsItem DEF MilestoneItem, MilestoneId
    <3>3. r \in MilestoneItems(t, cited, today)
      BY <2>1, <3>1 DEF MilestoneItems
    <3>4. QED
      BY <3>2, <3>3 DEF SourceItems
  <2>2. CASE n \in DOMAIN cited
    <3>1. PICK r : r = StubItem(n, Rank(nums)[n], cited)
      OBVIOUS
    <3>2. r.id = MilestoneId(nums, n)
      BY <3>1 DEF StubItem, Item, MilestoneId
    <3>3. r \in MilestoneItems(t, cited, today)
      BY <2>2, <3>1 DEF MilestoneItems
    <3>4. QED
      BY <3>2, <3>3 DEF SourceItems
  <2>3. QED
    BY <2>1, <2>2
<1>1. PICK items : items = SourceItems(t, cited, today)
  OBVIOUS
<1>2. PICK finished : finished = Finished(items, Rank(nums))
  OBVIOUS
<1>3. ReadingWith(t, cited, today) = PlacedIn(finished, IndexOf(t.lists))
  BY <1>1, <1>2 DEF ReadingWith, SourceItems
<1>4. \A r \in items : Raw(t, r, nums)
  BY <1>1, SourceRaw
<1>5. /\ \A s \in finished : Meant(s, nums)
      /\ \A r \in items : \E s \in finished : s.id = r.id
  BY ONLY <1>2, <1>4, t \in Trees, FinishedMeans
<1>6. /\ \A s \in PlacedIn(finished, IndexOf(t.lists)) : Meant(s, nums)
      /\ \A r \in finished : \E s \in PlacedIn(finished, IndexOf(t.lists)) : s.id = r.id
  BY <1>5, PlacedMeans
<1>7. ASSUME NEW n \in nums
      PROVE  \E s \in ReadingWith(t, cited, today) : s.id = MilestoneId(nums, n)
  <2>1. PICK r \in items : r.id = MilestoneId(nums, n)
    BY <1>0, <1>1
  <2>2. QED
    BY <1>3, <1>5, <1>6, <2>1
<1>8. nums = Numbered(t, cited)
  BY DEF Numbered
<1>9. QED
  BY <1>3, <1>6, <1>7, <1>8

\* What is cited does not depend on the day of the run.
LEMMA TextsAnyDay ==
  ASSUME NEW t \in Trees, NEW a, NEW b,
         NEW r \in EarlyItems(t, a) \cup MilestoneItems(t, <<>>, a)
  PROVE  \E s \in EarlyItems(t, b) \cup MilestoneItems(t, <<>>, b) : s.text = r.text
<1>1. CASE r \in FindingItems(t, a)
  <2>1. PICK n \in DOMAIN t.findings :
          r = Dated("F", n, t.findings[n].at, a, n, t.findings[n].section, t.findings[n].text, {})
    BY <1>1 DEF FindingItems
  <2>2. PICK s : s = Dated("F", n, t.findings[n].at, b, n, t.findings[n].section, t.findings[n].text, {})
    OBVIOUS
  <2>3. s \in FindingItems(t, b)
    BY <2>2 DEF FindingItems
  <2>4. QED
    BY <2>1, <2>2, <2>3, DatedIsItem DEF EarlyItems
<1>2. CASE r \in Investigations(t, a)
  <2>1. PICK n \in DOMAIN t.adrs :
          r = Item("I", n, IF t.adrs[n].at = 0 THEN a ELSE t.adrs[n].at, FALSE, n, "accepted",
                   t.adrs[n].text, {})
    BY <1>2 DEF Investigations
  <2>2. PICK s : s = Item("I", n, IF t.adrs[n].at = 0 THEN b ELSE t.adrs[n].at, FALSE, n, "accepted",
                          t.adrs[n].text, {})
    OBVIOUS
  <2>3. s \in Investigations(t, b)
    BY <2>2 DEF Investigations
  <2>4. s.text = r.text
    BY <2>1, <2>2 DEF Item
  <2>5. QED
    BY <2>3, <2>4 DEF EarlyItems
<1>3. CASE r \in QuestionItems(t, a)
  <2>1. PICK n \in DOMAIN t.questions :
          \E at, word : r = Dated("Q", n, at, a, n, word, t.questions[n].text, {})
                         /\ Dated("Q", n, at, b, n, word, t.questions[n].text, {}) \in QuestionItems(t, b)
    BY <1>3 DEF QuestionItems
  <2>2. PICK at, word :
          r = Dated("Q", n, at, a, n, word, t.questions[n].text, {})
            /\ Dated("Q", n, at, b, n, word, t.questions[n].text, {}) \in QuestionItems(t, b)
    BY <2>1
  <2>3. PICK s : s = Dated("Q", n, at, b, n, word, t.questions[n].text, {})
    OBVIOUS
  <2>4. QED
    BY <2>2, <2>3, DatedIsItem DEF EarlyItems
<1>4. CASE r \in EntryItems(t)
  BY <1>4 DEF EarlyItems, DecisionItems
<1>5. ASSUME NEW n \in Numbers(t),
             r = IF DefinitionsOf(t, n) # {} THEN DefinedItem(t, n) ELSE RowItem(t, n, a)
      PROVE  \E s \in EarlyItems(t, b) : s.text = r.text
  <2>1. CASE DefinitionsOf(t, n) # {}
    BY <1>5, <2>1 DEF EarlyItems, DecisionItems
  <2>2. CASE DefinitionsOf(t, n) = {}
    <3>1. PICK s : s = RowItem(t, n, b)
      OBVIOUS
    <3>2. s \in DecisionItems(t, b)
      BY <2>2, <3>1 DEF DecisionItems
    <3>3. r.text = t.rows[n].text
      BY <1>5, <2>2, DatedIsItem DEF RowItem
    <3>4. s.text = t.rows[n].text
      BY <3>1, DatedIsItem DEF RowItem
    <3>5. QED
      BY <3>2, <3>3, <3>4 DEF EarlyItems
  <2>3. QED
    BY <2>1, <2>2
<1>6. ASSUME NEW n \in Placed(t),
             r = MilestoneItem(t, n, Rank(Placed(t) \cup DOMAIN <<>>)[n], a)
      PROVE  \E s \in MilestoneItems(t, <<>>, b) : s.text = r.text
  <2>1. PICK s : s = MilestoneItem(t, n, Rank(Placed(t) \cup DOMAIN <<>>)[n], b)
    OBVIOUS
  <2>2. s \in MilestoneItems(t, <<>>, b)
    BY <2>1 DEF MilestoneItems
  <2>3. s.text = r.text
    BY <1>6, <2>1, DatedIsItem DEF MilestoneItem
  <2>4. QED
    BY <2>2, <2>3
<1>7. ASSUME NEW n \in DOMAIN t.files,
             r = WorkUnitItem(t, n, Rank(Placed(t) \cup DOMAIN <<>>)[n], a)
      PROVE  \E s \in MilestoneItems(t, <<>>, b) : s.text = r.text
  <2>1. PICK s : s = WorkUnitItem(t, n, Rank(Placed(t) \cup DOMAIN <<>>)[n], b)
    OBVIOUS
  <2>2. s \in MilestoneItems(t, <<>>, b)
    BY <2>1 DEF MilestoneItems
  <2>3. s.text = r.text
    BY <1>7, <2>1, DatedIsItem DEF WorkUnitItem
  <2>4. QED
    BY <2>2, <2>3
<1>8. CASE r \in MilestoneItems(t, <<>>, a)
  <2>1. DOMAIN <<>> = {}
    OBVIOUS
  <2>2. QED
    BY <1>6, <1>7, <1>8, <2>1 DEF MilestoneItems
<1>9. QED
  BY <1>1, <1>2, <1>3, <1>4, <1>5, <1>8 DEF EarlyItems, DecisionItems

LEMMA UnplacedDomain ==
  ASSUME NEW items, NEW placed, NEW n
  PROVE  n \in DOMAIN Unplaced(items, placed)
           <=> n \notin placed /\ \E r \in items : \E d \in r.text : d.role = "M" /\ d.old = n
<1> DEFINE Named(r) == {c.old : c \in {d \in r.text : d.role = "M"}}
           all == UNION {Named(r) : r \in items}
<1>1. DOMAIN Unplaced(items, placed) = all \ placed
  BY DEF Unplaced
<1>2. n \in all <=> \E r \in items : n \in Named(r)
  <2> HIDE DEF Named
  <2>1. QED
    OBVIOUS
<1>3. \A r \in items : n \in Named(r) <=> \E d \in r.text : d.role = "M" /\ d.old = n
  OBVIOUS
<1> HIDE DEF Named, all
<1>4. QED
  BY <1>1, <1>2, <1>3

\* The milestones that have a record: those of the tree, and the stubs.
Ranked(t) == Placed(t) \cup DOMAIN Cited(t, 1)

LEMMA CitedAnyDay ==
  ASSUME NEW t \in Trees, NEW a
  PROVE  Placed(t) \cup DOMAIN CitedEarly(t, a) = Ranked(t)
<1> DEFINE Early(d) == EarlyItems(t, d) \cup MilestoneItems(t, <<>>, d)
<1>1. ASSUME NEW b, NEW c, NEW n \in DOMAIN CitedEarly(t, b)
      PROVE  n \in DOMAIN CitedEarly(t, c)
  <2>1. PICK r \in Early(b) : n \notin Placed(t) /\ \E d \in r.text : d.role = "M" /\ d.old = n
    BY <1>1, UnplacedDomain DEF CitedEarly
  <2>2. PICK s \in Early(c) : s.text = r.text
    BY TextsAnyDay
  <2>3. n \in DOMAIN Unplaced(Early(c), Placed(t))
    BY <2>1, <2>2, UnplacedDomain
  <2>4. QED
    BY <2>3 DEF CitedEarly
<1>2. QED
  BY <1>1 DEF Ranked, Cited

\* Every milestone that has a record is one of the tree's.
LEMMA RankedFinite ==
  ASSUME NEW t \in Trees
  PROVE  Ranked(t) \in SUBSET Nat /\ IsFiniteSet(Ranked(t))
<1>1. Ranked(t) \subseteq Milestones(t)
  <2>1. Placed(t) \subseteq Milestones(t)
    BY DEF Placed, Milestones
  <2>2. ASSUME NEW n \in DOMAIN CitedEarly(t, 1)
        PROVE  n \in Milestones(t)
    <3>1. PICK r \in EarlyItems(t, 1) \cup MilestoneItems(t, <<>>, 1) :
            \E d \in r.text : d.role = "M" /\ d.old = n
      BY <2>2, UnplacedDomain DEF CitedEarly
    <3>2. PICK d \in r.text : d.role = "M" /\ d.old = n
      BY <3>1
    <3>3. r.text \subseteq UNION Texts(t)
      BY <3>1, EarlyRaw, MilestoneRaw DEF Raw, Tokens
    <3>4. n \in {c.old : c \in {e \in UNION Texts(t) : e.role = "M"}}
      BY <3>2, <3>3
    <3>5. QED
      BY <3>4 DEF Milestones
  <2>3. QED
    BY <2>1, <2>2 DEF Ranked, Cited
<1>2. QED
  BY <1>1, FS_Subset, TreeAssumption

\* No two milestones share a serial.
LEMMA RankInjective ==
  ASSUME NEW t \in Trees, NEW m \in Ranked(t), NEW n \in Ranked(t),
         Rank(Ranked(t))[m] = Rank(Ranked(t))[n]
  PROVE  m = n
<1> DEFINE UpTo(k) == {j \in Ranked(t) : j <= k}
<1>1. \A k \in Ranked(t) : IsFiniteSet(UpTo(k)) /\ Rank(Ranked(t))[k] = Cardinality(UpTo(k))
  BY RankedFinite, FS_Subset DEF Rank
<1>2. ASSUME NEW i \in Ranked(t), NEW k \in Ranked(t), i < k,
             Cardinality(UpTo(i)) = Cardinality(UpTo(k))
      PROVE  FALSE
  <2>1. UpTo(i) \subseteq UpTo(k) /\ k \in UpTo(k) /\ k \notin UpTo(i)
    BY <1>2, RankedFinite
  <2> HIDE DEF UpTo
  <2>2. UpTo(i) = UpTo(k)
    BY <1>1, <1>2, <2>1, FS_Subset, FS_CardinalityType
  <2>3. QED
    BY <2>1, <2>2
<1>3. m \in Nat /\ n \in Nat
  BY RankedFinite
<1>4. Cardinality(UpTo(m)) = Cardinality(UpTo(n))
  BY <1>1
<1> HIDE DEF UpTo
<1>5. QED
  BY <1>2, <1>3, <1>4

LEMMA ReadingMeans ==
  ASSUME NEW t \in Trees, NEW a, NEW b
  PROVE  /\ \A s \in ReadingWith(t, CitedEarly(t, a), b) : Meant(s, Ranked(t))
         /\ \A n \in Ranked(t) : \E s \in ReadingWith(t, CitedEarly(t, a), b) : s.id = MilestoneId(Ranked(t), n)
<1>1. Numbered(t, CitedEarly(t, a)) = Ranked(t)
  BY CitedAnyDay DEF Numbered
<1>2. QED
  BY <1>1, ReadingWithMeans

\* Records that differ in their day, mark, words or references alone.
LEMMA StillMeant ==
  ASSUME NEW r, NEW nums, Meant(r, nums), NEW s, IsItem(s),
         s.id = r.id, s.old = r.old, s.text \subseteq r.text
  PROVE  Meant(s, nums)
BY DEF Meant

----------------------------------------------------------------------------
(* What is kept.                                                            *)

Ids(items) == {r.id : r \in items}

\* Every milestone that has a serial is among these.
Covered(ids) == \A n \in Ranked(tree) : MilestoneId(Ranked(tree), n) \in ids

IsKept(k, id) ==
  /\ k = [rec |-> k.rec, by |-> k.by]
  /\ k.by \in {"import", "hand"}
  /\ Meant(k.rec, Ranked(tree)) /\ k.rec.id = id

KeptOK == tree \in Trees /\ \A id \in DOMAIN kept : IsKept(kept[id], id)

\* What a run is about to write means what the tree meant.
RunOK ==
  /\ run = [mode |-> run.mode, todo |-> run.todo, looked |-> run.looked, create |-> run.create]
  /\ \A r \in run.todo \cup run.looked \cup run.create : Meant(r, Ranked(tree))

\* The record a repair is about to amend.
LookedOK ==
  \A r \in run.looked :
    /\ r.id \in DOMAIN kept /\ Covered(DOMAIN kept) /\ run.mode = "repair"
    /\ r.mark => r.at = kept[r.id].rec.at \/ r.id \in raced
    /\ kept[r.id].by = "import" \/ r.id \in raced

\* An import leaves all milestones or none, and so does what is under way.
MilestonesKept == (\E id \in DOMAIN kept : kept[id].by = "import") => Covered(DOMAIN kept)
MilestonesDue == run = Resting \/ Covered(DOMAIN kept \cup Ids(run.todo) \cup Ids(run.create))

ImportInv == KeptOK /\ RunOK /\ LookedOK /\ MilestonesKept /\ MilestonesDue

LEMMA StoredItems ==
  ASSUME NEW items, NEW id \in Ids(items)
  PROVE  /\ Store(items, "import")[id] = [rec |-> Store(items, "import")[id].rec, by |-> "import"]
         /\ Store(items, "import")[id].by = "import"
         /\ Store(items, "import")[id].rec \in items /\ Store(items, "import")[id].rec.id = id
<1>1. PICK r \in items : r.id = id
  BY DEF Ids
<1>2. PICK s \in items : s.id = id /\ s = CHOOSE q \in items : q.id = id
  BY <1>1
<1>3. Store(items, "import")[id] = [rec |-> s, by |-> "import"]
  BY <1>2 DEF Store, Ids
<1>4. QED
  BY <1>2, <1>3

LEMMA EarlierMeans ==
  ASSUME NEW t \in Trees
  PROVE  /\ \A s \in EarlierReading(t, 1) : Meant(s, Ranked(t))
         /\ \A n \in Ranked(t) : \E s \in EarlierReading(t, 1) : s.id = MilestoneId(Ranked(t), n)
<1> DEFINE read == ReadingWith(t, CitedEarly(t, 1), 1)
           Was(r) == [r EXCEPT !.mark = r.mark /\ r.id[1] # "W", !.refs = {id \in r.refs : id[1] # "P"}]
<1>1. /\ \A s \in read : Meant(s, Ranked(t))
      /\ \A n \in Ranked(t) : \E s \in read : s.id = MilestoneId(Ranked(t), n)
  BY ReadingMeans
<1>2. EarlierReading(t, 1) = {Was(r) : r \in {s \in read : s.id[1] # "P"}}
  BY DEF EarlierReading
<1>3. ASSUME NEW r, Meant(r, Ranked(t))
      PROVE  Meant(Was(r), Ranked(t)) /\ Was(r).id = r.id
  <2>1. PICK mark, refs : mark = (r.mark /\ r.id[1] # "W") /\ refs = {id \in r.refs : id[1] # "P"}
    OBVIOUS
  <2>2. PICK id, at, mk, old, data, text, rf :
          r = [id |-> id, at |-> at, mark |-> mk, old |-> old, data |-> data, text |-> text, refs |-> rf]
    BY <1>3 DEF Meant, IsItem
  <2>3. Was(r) = [id |-> id, at |-> at, mark |-> mark, old |-> old, data |-> data, text |-> text, refs |-> refs]
    <3>1. Was(r) = [r EXCEPT !.mark = mark, !.refs = refs]
      BY <2>1, Zenon
    <3> HIDE DEF Was
    <3>2. QED
      BY <2>2, <3>1
  <2> HIDE DEF Was
  <2>4. Was(r).id = r.id /\ Was(r).old = r.old /\ Was(r).text = r.text /\ IsItem(Was(r))
    BY <2>2, <2>3 DEF IsItem
  <2>5. QED
    BY <1>3, <2>4, StillMeant
<1> HIDE DEF Was, read
<1>4. ASSUME NEW n \in Ranked(t)
      PROVE  \E s \in EarlierReading(t, 1) : s.id = MilestoneId(Ranked(t), n)
  <2>1. PICK s \in read : s.id = MilestoneId(Ranked(t), n)
    BY <1>1
  <2>2. s.id[1] # "P"
    BY <2>1 DEF MilestoneId
  <2>3. QED
    BY <1>1, <1>2, <1>3, <2>1, <2>2
<1>5. QED
  BY <1>1, <1>2, <1>3, <1>4

LEMMA ImportInitOK ==
  ASSUME ImportInit
  PROVE  ImportInv
<1>1. CASE DOMAIN kept = {}
  <2>1. run = [mode |-> "none", todo |-> {}, looked |-> {}, create |-> {}]
    BY DEF ImportInit, Resting
  <2>2. QED
    BY <1>1, <2>1 DEF ImportInit, ImportInv, KeptOK, RunOK, LookedOK, MilestonesKept, MilestonesDue, Resting
<1>2. CASE DOMAIN kept # {}
  <2>0. PICK items : items = EarlierReading(tree, 1)
    OBVIOUS
  <2>1. kept = Store(items, "import") /\ tree \in Trees
    <3>1. kept # <<>>
      BY <1>2
    <3>2. QED
      BY <2>0, <3>1 DEF ImportInit
  <2>2. DOMAIN kept = Ids(items)
    BY <2>1 DEF Store, Ids
  <2>3. /\ \A s \in items : Meant(s, Ranked(tree))
        /\ \A n \in Ranked(tree) : \E s \in items : s.id = MilestoneId(Ranked(tree), n)
    BY <2>0, <2>1, EarlierMeans
  <2>4. KeptOK
    <3> SUFFICES ASSUME NEW id \in Ids(items)
                 PROVE  IsKept(kept[id], id)
      BY <2>1, <2>2 DEF KeptOK
    <3>1. PICK k : k = Store(items, "import")[id]
      OBVIOUS
    <3>2. k = [rec |-> k.rec, by |-> "import"] /\ k.by = "import" /\ k.rec \in items /\ k.rec.id = id
      BY <3>1, StoredItems
    <3>3. QED
      BY <2>1, <2>3, <3>1, <3>2 DEF IsKept
  <2>5. Covered(DOMAIN kept)
    BY <2>2, <2>3 DEF Covered, Ids
  <2>6. run = [mode |-> "none", todo |-> {}, looked |-> {}, create |-> {}]
    BY DEF ImportInit, Resting
  <2>7. QED
    BY <2>4, <2>5, <2>6 DEF ImportInv, RunOK, LookedOK, MilestonesKept, MilestonesDue, Resting
<1>3. QED
  BY <1>1, <1>2

LEMMA ReadingOK ==
  ASSUME NEW t \in Trees, NEW today
  PROVE  /\ \A s \in Reading(t, today) : Meant(s, Ranked(t))
         /\ \A n \in Ranked(t) : MilestoneId(Ranked(t), n) \in Ids(Reading(t, today))
BY ReadingMeans DEF Reading, Cited, Ids

\* An import, or a repair, is begun.
LEMMA BeginsOK ==
  ASSUME ImportInv, BeginApply \/ BeginRepair
  PROVE  ImportInv'
<1>0. tree' = tree /\ kept' = kept /\ tree \in Trees
  BY DEF BeginApply, BeginRepair, ImportInv, KeptOK
<1>1. PICK read : read = Reading(tree, day)
  OBVIOUS
<1>2. /\ \A s \in read : Meant(s, Ranked(tree))
      /\ \A n \in Ranked(tree) : MilestoneId(Ranked(tree), n) \in Ids(read)
  BY <1>0, <1>1, ReadingOK
<1>3. \/ run' = [mode |-> "apply", todo |-> {}, looked |-> {}, create |-> read]
      \/ run' = [mode |-> "repair", todo |-> read, looked |-> {}, create |-> {}]
  BY <1>1 DEF BeginApply, BeginRepair
<1>4. KeptOK' /\ MilestonesKept'
  BY <1>0 DEF ImportInv, KeptOK, MilestonesKept, IsKept, Covered
<1>5. RunOK' /\ LookedOK'
  BY <1>0, <1>2, <1>3 DEF RunOK, LookedOK
<1>6. Covered(DOMAIN kept \cup Ids(run.todo) \cup Ids(run.create))'
  BY <1>0, <1>2, <1>3 DEF Covered
<1>7. QED
  BY <1>4, <1>5, <1>6 DEF ImportInv, MilestonesDue

LEMMA RestampedMeans ==
  ASSUME NEW r, NEW nums, Meant(r, nums)
  PROVE  /\ Meant(Restamped(r), nums) /\ Restamped(r).id = r.id
         /\ Restamped(r).mark => Restamped(r).at = kept[r.id].rec.at
<1>1. CASE r.mark
  <2>1. PICK id, at, mark, old, data, text, refs :
          r = [id |-> id, at |-> at, mark |-> mark, old |-> old, data |-> data, text |-> text, refs |-> refs]
    BY DEF Meant, IsItem
  <2>2. PICK was : was = kept[r.id].rec.at
    OBVIOUS
  <2>3. Restamped(r) = [r EXCEPT !.at = was]
    BY <1>1, <2>2 DEF Restamped
  <2>4. PICK s : s = Restamped(r)
    OBVIOUS
  <2>5. s = [id |-> id, at |-> was, mark |-> mark, old |-> old, data |-> data, text |-> text, refs |-> refs]
    BY <2>1, <2>3, <2>4
  <2>6. s.id = r.id /\ s.old = r.old /\ s.text = r.text /\ s.at = was /\ IsItem(s)
    BY <2>1, <2>5 DEF IsItem
  <2>7. Meant(s, nums)
    BY <2>6, StillMeant
  <2>8. QED
    BY <2>2, <2>4, <2>6, <2>7
<1>2. CASE ~r.mark
  BY <1>2 DEF Restamped
<1>3. QED
  BY <1>1, <1>2

\* A repair looks at a record.
LEMMA LookKeepsInv ==
  ASSUME ImportInv, Look
  PROVE  ImportInv'
<1> DEFINE fresh == {r \in run.todo : r.id \notin DOMAIN kept}
           known == run.todo \ fresh
           differs == {r \in known : ImportersLast(r.id) /\ Restamped(r) # kept[r.id].rec}
<1>0. tree' = tree /\ kept' = kept /\ raced' = raced /\ run.mode = "repair" /\ run.looked = {}
  BY DEF Look
<1>1. PICK mode, todo, looked, create :
        run = [mode |-> mode, todo |-> todo, looked |-> looked, create |-> create]
  BY DEF ImportInv, RunOK
<1>2. mode = "repair" /\ looked = {}
  BY <1>0, <1>1
<1>3. KeptOK' /\ MilestonesKept'
  BY <1>0 DEF ImportInv, KeptOK, MilestonesKept, IsKept, Covered
<1>4. Covered(DOMAIN kept \cup Ids(todo) \cup Ids(create))
  BY <1>1, <1>2 DEF ImportInv, MilestonesDue, Resting
<1>5. \A r \in todo \cup create : Meant(r, Ranked(tree))
  BY <1>1 DEF ImportInv, RunOK
<1>6. ASSUME run' = [run EXCEPT !.todo = {}, !.create = @ \cup fresh]
      PROVE  RunOK' /\ LookedOK' /\ MilestonesDue'
  <2>1. PICK new : new = {r \in todo : r.id \notin DOMAIN kept}
    OBVIOUS
  <2>2. run' = [mode |-> mode, todo |-> {}, looked |-> looked, create |-> create \cup new]
    BY <1>1, <1>6, <2>1
  <2>3. RunOK' /\ LookedOK'
    BY <1>0, <1>2, <1>5, <2>1, <2>2 DEF RunOK, LookedOK
  <2>4. Covered(DOMAIN kept \cup Ids(run.todo) \cup Ids(run.create))'
    BY <1>0, <1>4, <2>1, <2>2 DEF Covered, Ids
  <2>5. QED
    BY <2>3, <2>4 DEF MilestonesDue
<1>7. ASSUME NEW r \in differs,
             run' = [run EXCEPT !.todo = @ \ {r}, !.looked = {Restamped(r)}]
      PROVE  RunOK' /\ LookedOK' /\ MilestonesDue'
  <2>1. PICK s : s = Restamped(r)
    OBVIOUS
  <2>2. run' = [mode |-> mode, todo |-> todo \ {r}, looked |-> {s}, create |-> create]
    BY <1>1, <1>7, <2>1
  <2>3. r \in todo /\ r.id \in DOMAIN kept /\ kept[r.id].by = "import"
    BY <1>1 DEF ImportersLast
  <2>4. Meant(s, Ranked(tree)) /\ s.id = r.id /\ (s.mark => s.at = kept[r.id].rec.at)
    BY <1>5, <2>1, <2>3, RestampedMeans
  <2>5. Covered(DOMAIN kept)
    BY <2>3 DEF ImportInv, MilestonesKept
  <2>6. RunOK'
    BY <1>0, <1>5, <2>2, <2>4 DEF RunOK
  <2>7. LookedOK'
    BY <1>0, <1>2, <2>2, <2>3, <2>4, <2>5 DEF LookedOK, Covered
  <2>8. Covered(DOMAIN kept \cup Ids(run.todo) \cup Ids(run.create))'
    BY <1>0, <2>2, <2>5 DEF Covered
  <2>9. QED
    BY <2>6, <2>7, <2>8 DEF MilestonesDue
<1>8. \/ run' = [run EXCEPT !.todo = {}, !.create = @ \cup fresh]
      \/ \E r \in differs : run' = [run EXCEPT !.todo = @ \ {r}, !.looked = {Restamped(r)}]
  BY DEF Look
<1> HIDE DEF fresh, differs
<1>9. QED
  BY <1>3, <1>6, <1>7, <1>8 DEF ImportInv

\* One row is written over; its record keeps its identifier and its number.
LEMMA KeptWith ==
  ASSUME KeptOK, UNCHANGED tree,
         NEW id \in DOMAIN kept, NEW r, NEW who \in {"import", "hand"},
         Meant(r, Ranked(tree)), r.id = id,
         kept' = [kept EXCEPT ![id] = [rec |-> r, by |-> who]]
  PROVE  KeptOK' /\ DOMAIN kept' = DOMAIN kept
<1>1. PICK k : k = [rec |-> r, by |-> who]
  OBVIOUS
<1>2. kept' = [kept EXCEPT ![id] = k]
  BY <1>1
<1>3. IsKept(k, id)
  BY <1>1 DEF IsKept
<1>4. \A i \in DOMAIN kept : IsKept(kept'[i], i)
  BY <1>2, <1>3 DEF KeptOK
<1>5. QED
  BY <1>2, <1>4 DEF KeptOK, IsKept

LEMMA AmendKeepsInv ==
  ASSUME ImportInv, Amend
  PROVE  ImportInv'
<1>1. PICK r \in run.looked :
        /\ kept' = [kept EXCEPT ![r.id] = [rec |-> r, by |-> "import"]]
        /\ run' = [run EXCEPT !.looked = {}]
        /\ UNCHANGED <<tree, day, edits, raced>>
  BY DEF Amend
<1>2. r.id \in DOMAIN kept /\ Covered(DOMAIN kept) /\ Meant(r, Ranked(tree))
  BY DEF ImportInv, LookedOK, RunOK
<1>3. KeptOK' /\ DOMAIN kept' = DOMAIN kept
  BY <1>1, <1>2, KeptWith DEF ImportInv
<1>4. PICK mode, todo, looked, create :
        run = [mode |-> mode, todo |-> todo, looked |-> looked, create |-> create]
  BY DEF ImportInv, RunOK
<1>5. run' = [mode |-> mode, todo |-> todo, looked |-> {}, create |-> create]
  BY <1>1, <1>4
<1>6. RunOK' /\ LookedOK'
  BY <1>1, <1>4, <1>5 DEF ImportInv, RunOK, LookedOK
<1>7. Covered(DOMAIN kept)'
  BY <1>1, <1>2, <1>3 DEF Covered
<1>8. MilestonesKept' /\ MilestonesDue'
  BY <1>7 DEF MilestonesKept, MilestonesDue, Covered
<1>9. QED
  BY <1>3, <1>6, <1>8 DEF ImportInv

LEMMA CreateKeepsInv ==
  ASSUME ImportInv, CreateAll
  PROVE  ImportInv'
<1>0. UNCHANGED <<tree, raced>> /\ run # Resting /\ run.todo = {} /\ run' = Resting
  BY DEF CreateAll
<1>1. RunOK' /\ LookedOK' /\ MilestonesDue'
  BY <1>0 DEF RunOK, LookedOK, MilestonesDue, Resting
<1>2. CASE kept' = kept
  BY <1>0, <1>1, <1>2 DEF ImportInv, KeptOK, MilestonesKept, IsKept, Covered
<1>3. CASE kept' # kept
  <2>1. PICK new : new = Ids(run.create)
    OBVIOUS
  <2>2. kept' = [id \in DOMAIN kept \cup new |->
                   IF id \in DOMAIN kept THEN kept[id] ELSE Store(run.create, "import")[id]]
    BY <1>3, <2>1 DEF CreateAll, Ids
  <2>3. DOMAIN kept' = DOMAIN kept \cup new
    BY <2>2
  <2>4. ASSUME NEW id \in DOMAIN kept'
        PROVE  IsKept(kept'[id], id)
    <3>1. CASE id \in DOMAIN kept
      BY <2>2, <2>3, <3>1 DEF ImportInv, KeptOK
    <3>2. CASE id \notin DOMAIN kept
      <4>1. id \in Ids(run.create)
        BY <2>1, <2>3, <3>2
      <4>2. PICK k : k = Store(run.create, "import")[id]
        OBVIOUS
      <4>3. k = [rec |-> k.rec, by |-> "import"] /\ k.by = "import" /\ k.rec \in run.create /\ k.rec.id = id
        BY <4>1, <4>2, StoredItems
      <4>4. Meant(k.rec, Ranked(tree))
        BY <4>3 DEF ImportInv, RunOK
      <4>5. kept'[id] = k
        BY <2>2, <2>3, <3>2, <4>2
      <4>6. QED
        BY <4>3, <4>4, <4>5 DEF IsKept
    <3>3. QED
      BY <3>1, <3>2
  <2>5. KeptOK'
    BY <1>0, <2>4 DEF ImportInv, KeptOK, IsKept
  <2>6. Covered(DOMAIN kept')
    BY <1>0, <2>1, <2>3 DEF ImportInv, MilestonesDue, Covered, Ids
  <2>7. MilestonesKept'
    BY <1>0, <2>6 DEF MilestonesKept, Covered
  <2>8. QED
    BY <1>1, <2>5, <2>7 DEF ImportInv
<1>4. QED
  BY <1>2, <1>3

\* Somebody else writes over a record, or files one.
LEMMA SomebodyKeepsInv ==
  ASSUME ImportInv,
         \/ \E id \in DOMAIN kept : \E at : SomebodyAmends(id, at)
         \/ \E role \in {"F", "P"} : SomebodyFiles(role)
  PROVE  ImportInv'
<1>0. UNCHANGED <<tree, run>>
  BY DEF SomebodyAmends, SomebodyFiles
<1>1. RunOK'
  BY <1>0 DEF ImportInv, RunOK
<1>2. ASSUME NEW id \in DOMAIN kept, NEW day2, SomebodyAmends(id, day2)
      PROVE  KeptOK' /\ LookedOK' /\ DOMAIN kept' = DOMAIN kept
             /\ \A i \in DOMAIN kept : kept'[i].by = "import" => kept[i].by = "import"
  <2>1. PICK r : r = Edited(kept[id].rec, day2)
    OBVIOUS
  <2>2. kept' = [kept EXCEPT ![id] = [rec |-> r, by |-> "hand"]]
    BY <1>2, <2>1 DEF SomebodyAmends
  <2>3. PICK rec : rec = kept[id].rec
    OBVIOUS
  <2>4. Meant(rec, Ranked(tree)) /\ rec.id = id
    BY <2>3 DEF ImportInv, KeptOK, IsKept
  <2>5. PICK at, mark, old, data, text, refs :
          rec = [id |-> id, at |-> at, mark |-> mark, old |-> old, data |-> data, text |-> text, refs |-> refs]
    BY <2>4 DEF Meant, IsItem
  <2>6. r = [id |-> id, at |-> day2, mark |-> mark, old |-> old, data |-> data, text |-> {}, refs |-> {}]
    <3>1. r = [rec EXCEPT !.text = {}, !.refs = {}, !.at = day2]
      BY <2>1, <2>3 DEF Edited
    <3>2. QED
      BY ONLY <2>5, <3>1
  <2>7. r.id = id /\ r.old = rec.old /\ r.text = {} /\ IsItem(r)
    BY <2>5, <2>6 DEF IsItem
  <2>8. Meant(r, Ranked(tree))
    BY <2>4, <2>7, StillMeant
  <2>9. KeptOK' /\ DOMAIN kept' = DOMAIN kept
    BY <1>0, <2>2, <2>7, <2>8, KeptWith DEF ImportInv
  <2>10. kept'[id].rec = r /\ kept'[id].by = "hand" /\ \A i \in DOMAIN kept : i # id => kept'[i] = kept[i]
    BY <2>2
  <2>11. LookedOK'
    <3> SUFFICES ASSUME NEW q \in run.looked
                 PROVE  /\ q.id \in DOMAIN kept /\ Covered(DOMAIN kept) /\ run.mode = "repair"
                        /\ q.mark => q.at = kept'[q.id].rec.at \/ q.id \in raced'
                        /\ kept'[q.id].by = "import" \/ q.id \in raced'
      BY <1>0, <2>9 DEF LookedOK, Covered
    <3>1. /\ q.id \in DOMAIN kept /\ Covered(DOMAIN kept) /\ run.mode = "repair"
          /\ q.mark => q.at = kept[q.id].rec.at \/ q.id \in raced
          /\ kept[q.id].by = "import" \/ q.id \in raced
      BY DEF ImportInv, LookedOK
    <3>2. raced' = raced \cup ({id} \cap {s.id : s \in run.looked})
      BY <1>2, <3>1 DEF SomebodyAmends
    <3>3. QED
      BY <2>10, <3>1, <3>2
  <2>12. QED
    BY <2>9, <2>10, <2>11
<1>3. ASSUME NEW role \in {"F", "P"}, SomebodyFiles(role)
      PROVE  /\ KeptOK' /\ LookedOK' /\ DOMAIN kept \subseteq DOMAIN kept'
             /\ \A i \in DOMAIN kept' : kept'[i].by = "import" => i \in DOMAIN kept /\ kept[i].by = "import"
  <2>1. PICK new : new = <<role, NextSerial(role)>>
    OBVIOUS
  <2>2. kept' = [id \in DOMAIN kept \cup {new} |->
                   IF id \in DOMAIN kept THEN kept[id]
                   ELSE [rec |-> Item(role, id[2], day, FALSE, 0, Empty, {}, {}), by |-> "hand"]]
    BY <1>3, <2>1 DEF SomebodyFiles
  <2>3. PICK r : r = Item(role, NextSerial(role), day, FALSE, 0, Empty, {}, {})
    OBVIOUS
  <2>4. IsItem(r) /\ r.id = new /\ r.id[1] = role /\ r.text = {}
    BY <2>1, <2>3 DEF Item, IsItem
  <2>5. Meant(r, Ranked(tree))
    BY <2>4 DEF Meant
  <2>6. new \notin DOMAIN kept => kept'[new] = [rec |-> r, by |-> "hand"]
    BY <2>1, <2>2, <2>3
  <2>7. DOMAIN kept' = DOMAIN kept \cup {new} /\ \A i \in DOMAIN kept : kept'[i] = kept[i]
    BY <2>2
  <2>8. ASSUME NEW i \in DOMAIN kept'
        PROVE  IsKept(kept'[i], i) /\ (kept'[i].by = "import" => i \in DOMAIN kept /\ kept[i].by = "import")
    <3>1. CASE i \in DOMAIN kept
      BY <2>7, <3>1 DEF ImportInv, KeptOK
    <3>2. CASE i \notin DOMAIN kept
      <4>1. i = new /\ kept'[i] = [rec |-> r, by |-> "hand"]
        BY <2>6, <2>7, <3>2
      <4>2. QED
        BY <2>4, <2>5, <4>1 DEF IsKept
    <3>3. QED
      BY <3>1, <3>2
  <2>9. KeptOK'
    BY <1>0, <2>8 DEF ImportInv, KeptOK, IsKept
  <2>10. LookedOK'
    BY <1>0, <1>3, <2>7 DEF ImportInv, LookedOK, Covered, SomebodyFiles
  <2>11. QED
    BY <2>7, <2>8, <2>9, <2>10
<1>4. KeptOK' /\ LookedOK' /\ DOMAIN kept \subseteq DOMAIN kept'
      /\ \A i \in DOMAIN kept' : kept'[i].by = "import" => i \in DOMAIN kept /\ kept[i].by = "import"
  BY <1>2, <1>3
<1>5. MilestonesKept' /\ MilestonesDue'
  BY <1>0, <1>4 DEF ImportInv, MilestonesKept, MilestonesDue, Covered
<1>6. QED
  BY <1>1, <1>4, <1>5 DEF ImportInv

LEMMA ImportKeepsInv ==
  ASSUME ImportInv, ImportNext
  PROVE  ImportInv'
<1>1. CASE Interrupted
  <2>1. UNCHANGED <<tree, kept, raced>> /\ run' = Resting
    BY <1>1 DEF Interrupted
  <2>2. QED
    BY <2>1 DEF ImportInv, KeptOK, RunOK, LookedOK, MilestonesKept, MilestonesDue, IsKept, Covered, Resting
<1>2. CASE Midnight
  BY <1>2 DEF Midnight, ImportInv, KeptOK, RunOK, LookedOK, MilestonesKept, MilestonesDue, IsKept, Covered
<1>3. QED
  BY <1>1, <1>2, BeginsOK, LookKeepsInv, AmendKeepsInv, CreateKeepsInv, SomebodyKeepsInv DEF ImportNext

\* The milestone an imported record cites is there, and is the one it was of.
LEMMA CitedIsThere ==
  ASSUME ImportInv
  PROVE  ReferencesKeepMeaning
<1> SUFFICES ASSUME NEW id \in DOMAIN kept, kept[id].by = "import",
                    NEW c \in kept[id].rec.text, c.to # 0
             PROVE  <<"M", c.to>> \in DOMAIN kept /\ kept[<<"M", c.to>>].rec.old = c.old
  BY DEF ReferencesKeepMeaning
<1>1. c.old \in Ranked(tree) /\ c.to = Rank(Ranked(tree))[c.old]
  BY DEF ImportInv, KeptOK, IsKept, Meant
<1>2. PICK it : it = <<"M", c.to>>
  OBVIOUS
<1>3. it = MilestoneId(Ranked(tree), c.old) /\ it \in DOMAIN kept
  BY <1>1, <1>2 DEF ImportInv, MilestonesKept, Covered, MilestoneId
<1>4. PICK r : r = kept[it].rec
  OBVIOUS
<1>5. r.id = it /\ Meant(r, Ranked(tree)) /\ tree \in Trees
  BY <1>3, <1>4 DEF ImportInv, KeptOK, IsKept
<1>6. r.old \in Ranked(tree) /\ it = MilestoneId(Ranked(tree), r.old)
  BY <1>2, <1>5 DEF Meant
<1>7. Rank(Ranked(tree))[r.old] = Rank(Ranked(tree))[c.old]
  BY <1>3, <1>6 DEF MilestoneId
<1>8. r.old = c.old
  BY <1>1, <1>5, <1>6, <1>7, RankInjective
<1>9. QED
  BY <1>2, <1>3, <1>4, <1>8

ImportSteps == (side = "import" /\ ImportNext) \/ UNCHANGED importVars

LEMMA ImportStepsOf ==
  ASSUME [UpkeepNext]_upkeepVars
  PROVE  ImportSteps
BY DEF UpkeepNext, upkeepVars, ImportSteps

LEMMA ImportAlways == UpkeepSpec => []ImportInv
<1>1. UpkeepInit => ImportInv
  BY ImportInitOK DEF UpkeepInit
<1>2. ImportInv /\ [UpkeepNext]_upkeepVars => ImportInv'
  <2> SUFFICES ASSUME ImportInv, [UpkeepNext]_upkeepVars
               PROVE  ImportInv'
    OBVIOUS
  <2>1. CASE ImportNext
    BY <2>1, ImportKeepsInv
  <2>2. CASE UNCHANGED importVars
    BY <2>2 DEF importVars, ImportInv, KeptOK, RunOK, LookedOK, MilestonesKept, MilestonesDue, IsKept, Covered
  <2>3. QED
    BY <2>1, <2>2, ImportStepsOf DEF ImportSteps
<1>3. QED
  BY <1>1, <1>2, PTL DEF UpkeepSpec

\* A milestone an imported record cites is the one the tree meant, whatever is
\* interrupted, repaired or written by others (ReferencesKeepMeaning), for any
\* tree: both passes rank the same numbers, on any day, and ranks differ.
THEOREM CitationsKeepMeaning == UpkeepSpec => []ReferencesKeepMeaning
<1>1. ImportInv => ReferencesKeepMeaning
  BY CitedIsThere
<1>2. QED
  BY <1>1, ImportAlways, PTL

\* A step of the import, before the properties of what it writes.
LEMMA WritesOver ==
  ASSUME ImportInv, [UpkeepNext]_upkeepVars, NEW id \in DOMAIN kept, kept' # kept
  PROVE  \/ kept'[id] = kept[id]
         \/ \E r \in run.looked : r.id = id /\ kept'[id].rec = r
         \/ kept'[id].by = "hand"
<1>0. ImportNext
  BY ImportStepsOf DEF ImportSteps, importVars
<1>1. CASE Amend
  <2>1. PICK r \in run.looked : kept' = [kept EXCEPT ![r.id] = [rec |-> r, by |-> "import"]]
    BY <1>1 DEF Amend
  <2>2. QED
    BY <2>1
<1>2. CASE CreateAll
  BY <1>2 DEF CreateAll
<1>3. ASSUME NEW i \in DOMAIN kept, NEW at, SomebodyAmends(i, at)
      PROVE  kept'[id] = kept[id] \/ kept'[id].by = "hand"
  BY <1>3 DEF SomebodyAmends
<1>4. ASSUME NEW role \in {"F", "P"}, SomebodyFiles(role)
      PROVE  kept'[id] = kept[id]
  BY <1>4 DEF SomebodyFiles
<1>5. CASE BeginApply \/ BeginRepair \/ Look \/ Interrupted \/ Midnight
  BY <1>5 DEF BeginApply, BeginRepair, Look, Interrupted, Midnight
<1>6. QED
  BY <1>0, <1>1, <1>2, <1>3, <1>4, <1>5 DEF ImportNext

\* A repair writes over what another wrote only when that was written while the
\* repair was about to amend the very record (RepairSparesOthers).
THEOREM OthersAreSpared == UpkeepSpec => RepairSparesOthers
<1>1. ImportInv /\ [UpkeepNext]_upkeepVars
        => [\A id \in DOMAIN kept : kept[id].by = "hand" /\ kept'[id].by = "import" => id \in raced]_importVars
  <2> SUFFICES ASSUME ImportInv, [UpkeepNext]_upkeepVars,
                      NEW id \in DOMAIN kept, kept[id].by = "hand", kept'[id].by = "import"
               PROVE  id \in raced
    OBVIOUS
  <2>1. kept' # kept
    OBVIOUS
  <2>2. \E r \in run.looked : r.id = id
    BY <2>1, WritesOver
  <2>3. QED
    BY <2>2 DEF ImportInv, LookedOK
<1>2. QED
  BY <1>1, ImportAlways, PTL DEF UpkeepSpec, RepairSparesOthers

\* What a repair writes of a record that says it is dated on import keeps the
\* stamp the store has (StampStays), on any day: the repair asks the stored copy
\* for it whatever that copy says of itself.
THEOREM StampsStay == UpkeepSpec => StampStays
<1>1. ImportInv /\ [UpkeepNext]_upkeepVars
        => [\A id \in DOMAIN kept :
              kept'[id].rec.mark /\ kept'[id].by = "import" /\ id \notin raced =>
                kept'[id].rec.at = kept[id].rec.at]_importVars
  <2> SUFFICES ASSUME ImportInv, [UpkeepNext]_upkeepVars, NEW id \in DOMAIN kept,
                      kept'[id].rec.mark, kept'[id].by = "import", id \notin raced
               PROVE  kept'[id].rec.at = kept[id].rec.at
    OBVIOUS
  <2>1. CASE \E r \in run.looked : r.id = id /\ kept'[id].rec = r
    BY <2>1 DEF ImportInv, LookedOK
  <2>2. CASE ~ \E r \in run.looked : r.id = id /\ kept'[id].rec = r
    BY <2>2, WritesOver
  <2>3. QED
    BY <2>1, <2>2
<1>2. QED
  BY <1>1, ImportAlways, PTL DEF UpkeepSpec, StampStays

----------------------------------------------------------------------------
(* Renames.                                                                 *)

\* A record shows an identifier as plain text in record i: it is record i, or
\* cites it, and declares the identifier retired.
Shows(rec, j, i, old) == old \in rec.declares /\ (j = i \/ i \in CitedIn(rec))

Amending(h) == ~AtRest(h) /\ job[h].op = "amend"

\* Some record does, and will when every amend under way has been written.
Vouched(i, old) ==
  \E j \in DOMAIN latest :
    /\ Shows(latest[j].rec, j, i, old)
    /\ \A h \in Hand : Amending(h) /\ job[h].id = j => Shows(job[h].rec, j, i, old)

\* A citation in record i is of the record it was written about, or plain text.
CiteHolds(i, c) == c.of \in DOMAIN log /\ (log[c.of].id = c.id \/ Vouched(i, c.id))

CitesHold ==
  /\ \A k \in DOMAIN log : \A c \in log[k].rec.cites : CiteHolds(log[k].id, c)
  /\ \A h \in Hand : Amending(h) => \A c \in job[h].rec.cites : CiteHolds(job[h].id, c)

NotesHold ==
  \A n \in Note : note[n] # None => \A c \in note[n] : c.of \in DOMAIN log /\ log[c.of].id = c.id

PicturesHold == \A pic \in DOMAIN attachment : attachment[pic] \in DOMAIN latest

AmendedThere == \A h \in Hand : Amending(h) => job[h].id \in DOMAIN latest

FirstIsCreate ==
  \A k \in DOMAIN log :
    log[k].op = "create" <=> \A m \in DOMAIN log : log[m].id = log[k].id => k <= m

\* One record routes, from its first row, and nobody is about to file, or to
\* make it file, where it was moved away from.
OneBox ==
  /\ \A i, j \in Routing : i = j
  /\ Routing = {} => moved = {}
  /\ \A i \in Routing : latest[i].rec.route \notin moved
  /\ \A h \in Hand : ~AtRest(h) /\ job[h].op = "file" => job[h].p \notin moved
  /\ \A h \in Hand : Amending(h) => job[h].rec.route = latest[job[h].id].rec.route

Texted == \A k \in DOMAIN log : log[k].rec \in Text

Tabled == RenameTypeOK /\ LatestIsNewest /\ Texted

RenameInv ==
  /\ Tabled
  /\ stopped => NotesHold /\ PicturesHold /\ AmendedThere /\ FirstIsCreate /\ OneBox
  /\ stopped /\ carried => CitesHold

\* The first event about a record.
LEMMA FiledAtFact ==
  ASSUME NEW events \in Seq(Event), NEW i \in IdsIn(events)
  PROVE  /\ FiledAt(events, i) \in DOMAIN events
         /\ events[FiledAt(events, i)].id = i
         /\ \A m \in DOMAIN events : events[m].id = i => FiledAt(events, i) <= m
<1> DEFINE T == {k \in DOMAIN events : events[k].id = i}
<1>1. T \in SUBSET Nat /\ T # {}
  BY DEF IdsIn
<1>2. PICK x \in T : \A y \in T : x <= y
  BY <1>1, SmallestOf
<1>3. \E k \in DOMAIN events :
        events[k].id = i /\ \A m \in DOMAIN events : events[m].id = i => k <= m
  BY <1>2
<1>4. QED
  BY <1>3 DEF FiledAt

\* What a record of the table says is a text, and some event says it.
LEMMA LatestTexts ==
  ASSUME LatestIsNewest, Texted
  PROVE  \A i \in DOMAIN latest :
           /\ latest[i].rec \in Text
           /\ \E k \in DOMAIN log : log[k].id = i /\ log[k].rec = latest[i].rec
BY DEF LatestIsNewest, Texted

\* A citation of a record of the table is of that record.
LEMMA CiteOfHolds ==
  ASSUME log \in Seq(Event), LatestIsNewest, DOMAIN latest \subseteq Id, NEW i \in DOMAIN latest
  PROVE  CiteOf(i) \in Cite /\ CiteOf(i).of \in DOMAIN log /\ log[CiteOf(i).of].id = CiteOf(i).id
         /\ CiteOf(i).id = i
<1>1. i \in IdsIn(log)
  BY DEF LatestIsNewest
<1>2. FiledAt(log, i) \in DOMAIN log /\ log[FiledAt(log, i)].id = i
  BY <1>1, FiledAtFact
<1>3. FiledAt(log, i) \in Nat
  BY <1>2
<1>4. QED
  BY <1>2, <1>3 DEF CiteOf, Cite

\* What record j says, and will say when an amend under way is written.
Says(j) == {latest[j].rec} \cup {job[h].rec : h \in {g \in Hand : Amending(g) /\ job[g].id = j}}

\* r says at least what s says.
AtLeast(r, s) == s.declares \subseteq r.declares /\ s.cites \subseteq r.cites

\* Every record is still there, and says no less than it did.
NoLessSaid ==
  \A j \in DOMAIN latest :
    j \in DOMAIN latest' /\ \A r \in Says(j)' : \E s \in Says(j) : AtLeast(r, s)

LEMMA VouchedSaid ==
  ASSUME NEW i, NEW old
  PROVE  Vouched(i, old) <=> \E j \in DOMAIN latest : \A r \in Says(j) : Shows(r, j, i, old)
<1>1. \A j \in DOMAIN latest :
        (\A r \in Says(j) : Shows(r, j, i, old)) <=>
          /\ Shows(latest[j].rec, j, i, old)
          /\ \A h \in Hand : Amending(h) /\ job[h].id = j => Shows(job[h].rec, j, i, old)
  BY DEF Says
<1>2. QED
  BY <1>1 DEF Vouched

LEMMA ShowsMore ==
  ASSUME NEW r, NEW s, AtLeast(r, s), NEW j, NEW i, NEW old, Shows(s, j, i, old)
  PROVE  Shows(r, j, i, old)
<1>1. CitedIn(s) \subseteq CitedIn(r)
  BY DEF CitedIn, AtLeast
<1>2. QED
  BY <1>1 DEF Shows, AtLeast

LEMMA VouchStays ==
  ASSUME NoLessSaid, NEW i, NEW old, Vouched(i, old)
  PROVE  Vouched(i, old)'
<1>1. PICK j \in DOMAIN latest : \A r \in Says(j) : Shows(r, j, i, old)
  BY VouchedSaid
<1>2. \A r \in Says(j)' : Shows(r, j, i, old)
  BY <1>1, ShowsMore DEF NoLessSaid
<1>3. j \in DOMAIN latest'
  BY <1>1 DEF NoLessSaid
<1>4. /\ Shows(latest'[j].rec, j, i, old)
      /\ \A h \in Hand : Amending(h)' /\ job'[h].id = j => Shows(job'[h].rec, j, i, old)
  BY <1>2 DEF Says
<1>5. QED
  BY <1>3, <1>4 DEF Vouched

\* The log grows, or stays.
LogKept == \A k \in DOMAIN log : k \in DOMAIN log' /\ log'[k] = log[k]

LEMMA CiteStays ==
  ASSUME NoLessSaid, LogKept, NEW i, NEW c, CiteHolds(i, c)
  PROVE  CiteHolds(i, c)'
BY VouchStays DEF CiteHolds, LogKept

\* A step that is no rename, if the citations it writes, or takes up to write,
\* hold where they are read.
LEMMA CitesStay ==
  ASSUME NoLessSaid, LogKept, CitesHold,
         \A k \in DOMAIN log' \ DOMAIN log : \A c \in log'[k].rec.cites : CiteHolds(log'[k].id, c),
         \A h \in Hand : Amending(h)' =>
           \/ Amending(h) /\ job'[h] = job[h]
           \/ \A c \in job'[h].rec.cites : CiteHolds(job'[h].id, c)
  PROVE  CitesHold'
<1>1. ASSUME NEW k \in DOMAIN log', NEW c \in log'[k].rec.cites, NEW i, i = log'[k].id
      PROVE  CiteHolds(i, c)'
  <2>1. CiteHolds(i, c)
    BY <1>1 DEF CitesHold, LogKept
  <2>2. QED
    BY <2>1, CiteStays
<1>2. ASSUME NEW h \in Hand, Amending(h)', NEW c \in job'[h].rec.cites, NEW i, i = job'[h].id
      PROVE  CiteHolds(i, c)'
  <2>1. CiteHolds(i, c)
    BY <1>2 DEF CitesHold
  <2>2. QED
    BY <2>1, CiteStays
<1>3. QED
  BY <1>1, <1>2 DEF CitesHold, CiteHolds, Vouched

\* One event more.
Added(e) ==
  /\ log' \in Seq(Event) /\ LogKept
  /\ DOMAIN log' = DOMAIN log \cup {Len(log) + 1} /\ log'[Len(log) + 1] = e
  /\ \A k \in DOMAIN log : k \in Nat /\ k < Len(log) + 1
  /\ Len(log) \in Nat
  /\ DOMAIN latest' = DOMAIN latest \cup {e.id} /\ latest'[e.id].rec = e.rec
  /\ \A i \in DOMAIN latest : i # e.id => latest'[i] = latest[i]
  /\ DOMAIN latest' \subseteq Id /\ \A i \in DOMAIN latest' : latest'[i] \in Row
  /\ LatestIsNewest'

LEMMA InsertAdds ==
  ASSUME Tabled, NEW e \in Event, Commit(Inserted(Tables, <<e>>))
  PROVE  Added(e)
<1>1. log \in Seq(Event) /\ LatestIsNewest /\ DOMAIN latest \subseteq Id
      /\ \A i \in DOMAIN latest : latest[i] \in Row
  BY DEF Tabled, RenameTypeOK, StoreTypeOK
<1>2. /\ log' \in Seq(Event)
      /\ Len(log') = Len(log) + 1 /\ log'[Len(log) + 1] = e
      /\ \A k \in DOMAIN log : k \in DOMAIN log' /\ log'[k] = log[k]
      /\ DOMAIN latest' \subseteq Id
      /\ \A i \in DOMAIN latest' : latest'[i] \in Row
      /\ LatestIsNewest'
      /\ DOMAIN latest' = DOMAIN latest \cup {e.id}
      /\ latest'[e.id].rec = e.rec
      /\ \A i \in DOMAIN latest : i # e.id => latest'[i] = latest[i]
  BY <1>1, OneInsert
<1>3. /\ DOMAIN log = 1..Len(log) /\ Len(log) \in Nat /\ DOMAIN log' = 1..Len(log')
  BY <1>1, <1>2
<1>4. /\ DOMAIN log' = DOMAIN log \cup {Len(log) + 1}
      /\ \A k \in DOMAIN log : k \in Nat /\ k < Len(log) + 1
  BY <1>2, <1>3
<1>5. QED
  BY <1>2, <1>3, <1>4 DEF Added, LogKept

LEMMA CreateAdds ==
  ASSUME Tabled, NEW p \in Prefix, NEW r \in Rec, CreateTx(p, r)
  PROVE  \E n \in Id \ IdsIn(log) : n[1] = p /\ Added(Created(n, r))
<1>1. PICK n : n = NextId(log, p)
  OBVIOUS
<1>2. log \in Seq(Event)
  BY DEF Tabled, RenameTypeOK, StoreTypeOK
<1>3. n \in Id \ IdsIn(log)
  BY <1>1, <1>2, NextIdFresh
<1>4. n[1] = p
  BY <1>1 DEF NextId
<1>5. Created(n, r) \in Event
  BY <1>3 DEF Created, Event
<1>6. Commit(Inserted(Tables, <<Created(n, r)>>))
  BY <1>1 DEF CreateTx
<1>7. Added(Created(n, r))
  BY <1>5, <1>6, InsertAdds
<1>8. QED
  BY <1>3, <1>4, <1>7

\* The tables after it.
LEMMA AddedTables ==
  ASSUME Tabled, NEW e, Added(e), e.rec \in Text, attachment' = attachment
  PROVE  StoreTypeOK' /\ LatestIsNewest' /\ Texted'
<1>1. Texted'
  BY DEF Tabled, Texted, Added, LogKept
<1>2. StoreTypeOK'
  BY DEF Tabled, RenameTypeOK, StoreTypeOK, Added
<1>3. QED
  BY <1>1, <1>2 DEF Added

\* Every hand does what it did, or is done.
HandsDone == job' \in [Hand -> Job \cup {None}] /\ \A h \in Hand : job'[h] = job[h] \/ AtRest(h)'

\* What a new record says, when it is no routing record beside the box's.
LEMMA FreshKeeps ==
  ASSUME RenameInv, NEW n \in Id \ IdsIn(log), NEW r \in Text, Added(Created(n, r)),
         \A c \in r.cites : c.of \in DOMAIN log /\ log[c.of].id = c.id,
         r.route = None \/ Routing = {},
         HandsDone, attachment' = attachment, note' = note, UNCHANGED history
  PROVE  RenameInv'
<1> DEFINE e == Created(n, r)
<1>1. e.id = n /\ e.op = "create" /\ e.rec = r
  BY DEF Created
<1>2. Added(e) /\ Tabled
  BY DEF RenameInv
<1> HIDE DEF e
<1>3. n \notin DOMAIN latest
  BY DEF RenameInv, Tabled, LatestIsNewest
<1>4. moved' = moved /\ stopped' = stopped /\ carried' = carried
  BY DEF history
<1>5. Tabled'
  <2>1. StoreTypeOK' /\ LatestIsNewest' /\ Texted'
    BY <1>1, <1>2, AddedTables
  <2>2. RenameTypeOK'
    BY <1>2, <1>4, <2>1 DEF RenameTypeOK, Tabled, HandsDone
  <2>3. QED
    BY <2>1, <2>2 DEF Tabled
<1>6. \A j \in DOMAIN latest : j \in DOMAIN latest' /\ latest'[j] = latest[j]
  BY <1>1, <1>2, <1>3 DEF Added
<1>7. \A h \in Hand : Amending(h)' => Amending(h) /\ job'[h] = job[h]
  BY DEF HandsDone, Amending, AtRest
<1>8. ASSUME stopped'
      PROVE  NotesHold' /\ PicturesHold' /\ AmendedThere' /\ FirstIsCreate' /\ OneBox'
  <2>1. NotesHold /\ PicturesHold /\ AmendedThere /\ FirstIsCreate /\ OneBox
    BY <1>4, <1>8 DEF RenameInv
  <2>2. NotesHold'
    BY <1>2, <2>1 DEF NotesHold, Added, LogKept
  <2>3. PicturesHold' /\ AmendedThere'
    BY <1>6, <1>7, <2>1 DEF PicturesHold, AmendedThere
  <2>4. FirstIsCreate'
    <3>1. \A m \in DOMAIN log : log'[m].id # n
      BY <1>2 DEF Added, LogKept, IdsIn
    <3>2. ASSUME NEW k \in DOMAIN log
          PROVE  log'[k].op = "create" <=> \A m \in DOMAIN log' : log'[m].id = log'[k].id => k <= m
      BY <1>1, <1>2, <2>1, <3>1 DEF Added, LogKept, FirstIsCreate
    <3>3. \A m \in DOMAIN log' : log'[m].id = n => Len(log) + 1 <= m
      BY <1>2, <3>1 DEF Added
    <3>4. QED
      BY <1>1, <1>2, <3>2, <3>3 DEF Added, FirstIsCreate
  <2>5. OneBox'
    <3>1. \A i \in Routing' : i \in Routing \/ (i = n /\ r.route # None)
      BY <1>1, <1>2, <1>6 DEF Added, Routing
    <3>2. \A i \in Routing : i \in Routing'
      BY <1>6 DEF Routing
    <3>3. latest'[n].rec = r
      BY <1>1, <1>2 DEF Added
    <3>4. Routing \subseteq DOMAIN latest
      BY DEF Routing
    <3>5. \A i, j \in Routing' : i = j
      BY <2>1, <3>1 DEF OneBox
    <3>6. Routing' = {} => moved' = {}
      BY <1>4, <2>1, <3>2 DEF OneBox
    <3>7. \A i \in Routing' : latest'[i].rec.route \notin moved'
      BY <1>4, <1>6, <2>1, <3>1, <3>3, <3>4 DEF OneBox
    <3>8. \A h \in Hand : ~AtRest(h)' /\ job'[h].op = "file" => job'[h].p \notin moved'
      BY <1>4, <2>1 DEF OneBox, HandsDone, AtRest
    <3>9. \A h \in Hand : Amending(h)' => job'[h].rec.route = latest'[job'[h].id].rec.route
      BY <1>6, <1>7, <2>1 DEF OneBox, AmendedThere
    <3>10. QED
      BY <3>5, <3>6, <3>7, <3>8, <3>9 DEF OneBox
  <2>6. QED
    BY <2>2, <2>3, <2>4, <2>5
<1>9. ASSUME stopped', carried'
      PROVE  CitesHold'
  <2>1. CitesHold
    BY <1>4, <1>9 DEF RenameInv
  <2>2. NoLessSaid
    BY <1>6, <1>7 DEF NoLessSaid, Says, AtLeast
  <2>3. \A k \in DOMAIN log' \ DOMAIN log : \A c \in log'[k].rec.cites : CiteHolds(log'[k].id, c)
    BY <1>1, <1>2 DEF Added, CiteHolds
  <2>4. LogKept
    BY <1>2 DEF Added
  <2>5. QED
    BY <1>7, <2>1, <2>2, <2>3, <2>4, CitesStay
<1>10. QED
  BY <1>5, <1>8, <1>9 DEF RenameInv

\* An amend is written: what its hand read, and the citation it adds.
LEMMA AmendKeeps ==
  ASSUME RenameInv, Text \subseteq Rec, NEW h \in Hand, Amending(h),
         AppendTx(job[h].id, "amend", job[h].rec), job' = [job EXCEPT ![h] = None],
         UNCHANGED <<attachment, note, history>>
  PROVE  RenameInv'
<1>1. Tabled /\ job \in [Hand -> Job \cup {None}] /\ job[h] # None
  BY DEF RenameInv, Tabled, RenameTypeOK, Amending, AtRest
<1>2. job[h] \in Job /\ job[h].op = "amend"
  BY <1>1 DEF Amending
<1>3. job[h].id \in Id /\ job[h].rec \in Text
  BY <1>2 DEF Job
<1>4. PICK i, r : i = job[h].id /\ r = job[h].rec
  OBVIOUS
<1>5. PICK e : e = [id |-> i, op |-> "amend", rec |-> r, basis |-> 0]
  OBVIOUS
<1>6. e \in Event /\ e.id = i /\ e.op = "amend" /\ e.rec = r
  BY <1>3, <1>4, <1>5 DEF Event
<1>7. Commit(Inserted(Tables, <<e>>))
  BY <1>4, <1>5 DEF AppendTx
<1>8. Added(e)
  BY <1>1, <1>6, <1>7, InsertAdds
<1>9. moved' = moved /\ stopped' = stopped /\ carried' = carried /\ note' = note /\ attachment' = attachment
  BY DEF history
<1>10. HandsDone
  BY <1>1 DEF HandsDone, AtRest
<1>11. Tabled'
  <2>1. StoreTypeOK' /\ LatestIsNewest' /\ Texted'
    BY <1>1, <1>3, <1>4, <1>6, <1>8, <1>9, AddedTables
  <2>2. RenameTypeOK'
    BY <1>1, <1>9, <1>10, <2>1 DEF RenameTypeOK, Tabled, HandsDone
  <2>3. QED
    BY <2>1, <2>2 DEF Tabled
<1>12. \A j \in DOMAIN latest : j \in DOMAIN latest' /\ (j # i => latest'[j] = latest[j])
  BY <1>6, <1>8 DEF Added
<1>13. latest'[i].rec = r
  BY <1>6, <1>8 DEF Added
<1>14. \A g \in Hand : Amending(g)' => Amending(g) /\ job'[g] = job[g]
  BY <1>10 DEF HandsDone, Amending, AtRest
<1>15. ASSUME stopped'
       PROVE  NotesHold' /\ PicturesHold' /\ AmendedThere' /\ FirstIsCreate' /\ OneBox'
  <2>1. NotesHold /\ PicturesHold /\ AmendedThere /\ FirstIsCreate /\ OneBox
    BY <1>9, <1>15 DEF RenameInv
  <2>2. i \in DOMAIN latest
    BY <1>4, <2>1 DEF AmendedThere
  <2>3. NotesHold'
    BY <1>8, <1>9, <2>1 DEF NotesHold, Added, LogKept
  <2>4. PicturesHold' /\ AmendedThere'
    BY <1>9, <1>12, <1>14, <2>1 DEF PicturesHold, AmendedThere
  <2>5. FirstIsCreate'
    <3>1. ASSUME NEW k \in DOMAIN log
          PROVE  log'[k].op = "create" <=> \A m \in DOMAIN log' : log'[m].id = log'[k].id => k <= m
      BY <1>8, <2>1 DEF Added, LogKept, FirstIsCreate
    <3>2. PICK k \in DOMAIN log : log[k].id = i
      BY <1>1, <2>2 DEF Tabled, LatestIsNewest, IdsIn
    <3>3. k \in DOMAIN log' /\ log'[k].id = i /\ ~(Len(log) + 1 <= k)
      BY <1>8, <3>2 DEF Added, LogKept
    <3>4. QED
      BY <1>6, <1>8, <3>1, <3>3 DEF Added, FirstIsCreate
  <2>6. OneBox'
    <3>1. r.route = latest[i].rec.route
      BY <1>4, <2>1 DEF OneBox
    <3>2. DOMAIN latest' = DOMAIN latest
      BY <1>6, <1>8, <2>2 DEF Added
    <3>3. \A j \in DOMAIN latest : latest'[j].rec.route = latest[j].rec.route
      BY <1>12, <1>13, <3>1
    <3>4. Routing' = Routing /\ Routing \subseteq DOMAIN latest
      BY <3>2, <3>3 DEF Routing
    <3>5. \A g \in Hand : ~AtRest(g)' /\ job'[g].op = "file" => job'[g].p \notin moved'
      BY <1>9, <1>10, <2>1 DEF OneBox, HandsDone, AtRest
    <3>6. \A g \in Hand : Amending(g)' => job'[g].rec.route = latest'[job'[g].id].rec.route
      BY <1>14, <2>1, <3>3 DEF OneBox, AmendedThere
    <3>7. \A j \in Routing' : latest'[j].rec.route \notin moved'
      BY <1>9, <2>1, <3>3, <3>4 DEF OneBox
    <3>8. (\A j, l \in Routing' : j = l) /\ (Routing' = {} => moved' = {})
      BY <1>9, <2>1, <3>4 DEF OneBox
    <3>9. QED
      BY <3>5, <3>6, <3>7, <3>8 DEF OneBox
  <2>7. QED
    BY <2>3, <2>4, <2>5, <2>6
<1>16. ASSUME stopped', carried'
       PROVE  CitesHold'
  <2>1. CitesHold /\ AmendedThere
    BY <1>9, <1>16 DEF RenameInv
  <2>2. NoLessSaid
    <3>1. ASSUME NEW j \in DOMAIN latest, NEW s, s \in Says(j)'
          PROVE  s \in Says(j)
      <4>1. CASE s = latest'[j].rec
        BY <1>4, <1>12, <1>13, <4>1 DEF Says
      <4>2. CASE s # latest'[j].rec
        BY <1>14, <3>1, <4>2 DEF Says
      <4>3. QED
        BY <4>1, <4>2
    <3>2. QED
      BY <1>12, <3>1 DEF NoLessSaid, AtLeast
  <2>3. \A k \in DOMAIN log' \ DOMAIN log : \A c \in log'[k].rec.cites : CiteHolds(log'[k].id, c)
    BY <1>4, <1>6, <1>8, <2>1 DEF Added, CitesHold
  <2>4. LogKept
    BY <1>8 DEF Added
  <2>5. QED
    BY <1>14, <2>1, <2>2, <2>3, <2>4, CitesStay
<1>17. QED
  BY <1>11, <1>15, <1>16 DEF RenameInv

\* The tables stay, and the hands that amend say what they said, or what may be
\* said.
LEMMA QuietKeeps ==
  ASSUME RenameInv, UNCHANGED storeVars, UNCHANGED history,
         note' \in [Note -> (SUBSET Cite) \cup {None}], job' \in [Hand -> Job \cup {None}],
         \A n \in Note : note'[n] # None =>
           note'[n] = note[n] \/ \A c \in note'[n] : c.of \in DOMAIN log /\ log[c.of].id = c.id,
         \A h \in Hand :
           \/ job'[h] = job[h]
           \/ AtRest(h)'
           \/ /\ job'[h].op = "file"
              /\ \E i \in Routing : job'[h].p = latest[i].rec.route
           \/ /\ job'[h].op = "amend" /\ job'[h].id \in DOMAIN latest
              /\ AtLeast(job'[h].rec, latest[job'[h].id].rec)
              /\ job'[h].rec.route = latest[job'[h].id].rec.route
              /\ \A c \in job'[h].rec.cites :
                   \/ c \in latest[job'[h].id].rec.cites
                   \/ c.of \in DOMAIN log /\ log[c.of].id = c.id
  PROVE  RenameInv'
<1>1. /\ log' = log /\ latest' = latest /\ attachment' = attachment
      /\ moved' = moved /\ stopped' = stopped /\ carried' = carried
  BY DEF storeVars, history
<1>2. Tabled'
  <2>1. RenameTypeOK'
    BY <1>1 DEF RenameInv, Tabled, RenameTypeOK, StoreTypeOK
  <2>2. LatestIsNewest' /\ Texted'
    BY <1>1 DEF RenameInv, Tabled, LatestIsNewest, Texted, IdsIn
  <2>3. QED
    BY <2>1, <2>2 DEF Tabled
<1>3. \A h \in Hand : Amending(h)' =>
        \/ Amending(h) /\ job'[h] = job[h]
        \/ /\ job'[h].id \in DOMAIN latest
           /\ AtLeast(job'[h].rec, latest[job'[h].id].rec)
           /\ job'[h].rec.route = latest[job'[h].id].rec.route
           /\ \A c \in job'[h].rec.cites :
                \/ c \in latest[job'[h].id].rec.cites
                \/ c.of \in DOMAIN log /\ log[c.of].id = c.id
  BY DEF Amending, AtRest
<1>4. ASSUME stopped'
      PROVE  NotesHold' /\ PicturesHold' /\ AmendedThere' /\ FirstIsCreate' /\ OneBox'
  <2>1. NotesHold /\ PicturesHold /\ AmendedThere /\ FirstIsCreate /\ OneBox
    BY <1>1, <1>4 DEF RenameInv
  <2>2. NotesHold'
    BY <1>1, <2>1 DEF NotesHold
  <2>3. PicturesHold' /\ FirstIsCreate'
    BY <1>1, <2>1 DEF PicturesHold, FirstIsCreate
  <2>4. AmendedThere'
    BY <1>1, <1>3, <2>1 DEF AmendedThere
  <2>5. OneBox'
    <3>1. Routing' = Routing
      BY <1>1 DEF Routing
    <3>2. \A h \in Hand : ~AtRest(h)' /\ job'[h].op = "file" => job'[h].p \notin moved'
      <4> SUFFICES ASSUME NEW h \in Hand, ~AtRest(h)', job'[h].op = "file"
                   PROVE  job'[h].p \notin moved
        BY <1>1
      <4>1. CASE job'[h] = job[h]
        BY <2>1, <4>1 DEF OneBox, AtRest
      <4>2. CASE \E i \in Routing : job'[h].p = latest[i].rec.route
        BY <2>1, <4>2 DEF OneBox
      <4>3. QED
        BY <4>1, <4>2
    <3>3. \A h \in Hand : Amending(h)' => job'[h].rec.route = latest'[job'[h].id].rec.route
      BY <1>1, <1>3, <2>1 DEF OneBox
    <3>4. QED
      BY <1>1, <2>1, <3>1, <3>2, <3>3 DEF OneBox
  <2>6. QED
    BY <2>2, <2>3, <2>4, <2>5
<1>5. ASSUME stopped', carried'
      PROVE  CitesHold'
  <2>1. CitesHold /\ AmendedThere
    BY <1>1, <1>5 DEF RenameInv
  <2>2. NoLessSaid
    <3>1. ASSUME NEW j \in DOMAIN latest, NEW r, r \in Says(j)'
          PROVE  \E s \in Says(j) : AtLeast(r, s)
      <4>1. CASE r \in Says(j)
        BY <4>1 DEF AtLeast
      <4>2. CASE r \notin Says(j)
        <5>1. AtLeast(r, latest[j].rec)
          BY <1>1, <1>3, <3>1, <4>2 DEF Says
        <5>2. QED
          BY <5>1 DEF Says
      <4>3. QED
        BY <4>1, <4>2
    <3>2. QED
      BY <1>1, <3>1 DEF NoLessSaid
  <2>3. \A i \in DOMAIN latest : \A c \in latest[i].rec.cites : CiteHolds(i, c)
    BY <2>1 DEF RenameInv, Tabled, LatestIsNewest, CitesHold
  <2>4. \A h \in Hand : Amending(h)' =>
          \/ Amending(h) /\ job'[h] = job[h]
          \/ \A c \in job'[h].rec.cites : CiteHolds(job'[h].id, c)
    BY <1>3, <2>3 DEF CiteHolds
  <2>5. LogKept /\ DOMAIN log' \ DOMAIN log = {}
    BY <1>1 DEF LogKept
  <2>6. QED
    BY <2>1, <2>2, <2>4, <2>5, CitesStay
<1>6. QED
  BY <1>2, <1>4, <1>5 DEF RenameInv

LEMMA ReadBoxKeeps ==
  ASSUME RenameInv, NEW h \in Hand, NEW i \in Routing, ReadBox(h, i)
  PROVE  RenameInv'
<1>1. Tabled
  BY DEF RenameInv
<1>2. job \in [Hand -> Job \cup {None}] /\ note \in [Note -> (SUBSET Cite) \cup {None}]
  BY <1>1 DEF Tabled, RenameTypeOK
<1>3. PICK p : p = latest[i].rec.route
  OBVIOUS
<1>4. i \in DOMAIN latest /\ p # None
  BY <1>3 DEF Routing
<1>5. p \in Prefix
  BY <1>1, <1>3, <1>4, LatestTexts DEF Tabled, Text
<1>6. PICK d : d = [op |-> "file", p |-> p]
  OBVIOUS
<1>7. d \in Job /\ d.op = "file" /\ d.p = p
  BY <1>5, <1>6 DEF Job
<1>8. job' = [job EXCEPT ![h] = d] /\ UNCHANGED <<storeVars, note, history>>
  BY <1>3, <1>6 DEF ReadBox
<1>9. job' \in [Hand -> Job \cup {None}] /\ job'[h] = d /\ \A g \in Hand : g # h => job'[g] = job[g]
  BY <1>2, <1>7, <1>8
<1>10. QED
  BY <1>2, <1>3, <1>7, <1>8, <1>9, QuietKeeps

LEMMA WithCiteIsText ==
  ASSUME Tabled, NEW i \in DOMAIN latest, NEW j \in DOMAIN latest
  PROVE  LET r == WithCite(latest[i].rec, j)
         IN  /\ r \in Text /\ AtLeast(r, latest[i].rec) /\ r.route = latest[i].rec.route
             /\ \A c \in r.cites :
                  \/ c \in latest[i].rec.cites
                  \/ c.of \in DOMAIN log /\ log[c.of].id = c.id
<1>1. PICK s : s = latest[i].rec
  OBVIOUS
<1>2. s \in Text
  BY <1>1, LatestTexts DEF Tabled
<1>3. PICK cite : cite = CiteOf(j)
  OBVIOUS
<1>4. cite \in Cite /\ cite.of \in DOMAIN log /\ log[cite.of].id = cite.id
  BY <1>3, CiteOfHolds DEF Tabled, RenameTypeOK, StoreTypeOK
<1>5. PICK r : r = WithCite(s, j)
  OBVIOUS
<1>6. r = [s EXCEPT !.cites = s.cites \cup {cite}]
  BY <1>3, <1>5 DEF WithCite
<1>7. s.cites \subseteq Cite
  BY <1>2 DEF Text
<1>8. s.cites \cup {cite} \in SUBSET Cite
  BY <1>4, <1>7
<1>9. r \in Text
  BY <1>2, <1>6, <1>8 DEF Text
<1>10. r.cites = s.cites \cup {cite} /\ r.declares = s.declares /\ r.route = s.route
  BY <1>2, <1>6 DEF Text
<1>11. QED
  BY <1>1, <1>4, <1>5, <1>9, <1>10 DEF AtLeast

LEMMA ReadRecordKeeps ==
  ASSUME RenameInv, NEW h \in Hand, NEW i \in DOMAIN latest, NEW j \in DOMAIN latest, ReadRecord(h, i, j)
  PROVE  RenameInv'
<1>1. Tabled
  BY DEF RenameInv
<1>2. /\ job \in [Hand -> Job \cup {None}] /\ note \in [Note -> (SUBSET Cite) \cup {None}]
      /\ i \in Id
  BY <1>1 DEF Tabled, RenameTypeOK, StoreTypeOK
<1>3. PICK r : r = WithCite(latest[i].rec, j)
  OBVIOUS
<1>4. /\ r \in Text /\ AtLeast(r, latest[i].rec) /\ r.route = latest[i].rec.route
      /\ \A c \in r.cites :
           \/ c \in latest[i].rec.cites
           \/ c.of \in DOMAIN log /\ log[c.of].id = c.id
  BY <1>1, <1>3, WithCiteIsText
<1>5. PICK d : d = [op |-> "amend", id |-> i, rec |-> r]
  OBVIOUS
<1>6. d \in Job /\ d.op = "amend" /\ d.id = i /\ d.rec = r
  BY <1>2, <1>4, <1>5 DEF Job
<1>7. job' = [job EXCEPT ![h] = d] /\ UNCHANGED <<storeVars, note, history>>
  BY <1>3, <1>5 DEF ReadRecord
<1>8. job' \in [Hand -> Job \cup {None}] /\ job'[h] = d /\ \A g \in Hand : g # h => job'[g] = job[g]
  BY <1>2, <1>6, <1>7
<1>9. QED
  BY <1>2, <1>4, <1>6, <1>7, <1>8, QuietKeeps

LEMMA WriteRefusedKeeps ==
  ASSUME RenameInv, NEW h \in Hand, WriteRefused(h)
  PROVE  RenameInv'
<1>1. job \in [Hand -> Job \cup {None}] /\ note \in [Note -> (SUBSET Cite) \cup {None}]
  BY DEF RenameInv, Tabled, RenameTypeOK
<1>2. job' = [job EXCEPT ![h] = None] /\ UNCHANGED <<storeVars, note, history>>
  BY DEF WriteRefused
<1>3. job' \in [Hand -> Job \cup {None}] /\ AtRest(h)' /\ \A g \in Hand : g # h => job'[g] = job[g]
  BY <1>1, <1>2 DEF AtRest
<1>4. QED
  BY <1>1, <1>2, <1>3, QuietKeeps

LEMMA WriteNoteKeeps ==
  ASSUME RenameInv, NEW n \in Note, NEW i \in DOMAIN latest, WriteNote(n, i)
  PROVE  RenameInv'
<1>1. Tabled /\ job \in [Hand -> Job \cup {None}] /\ note \in [Note -> (SUBSET Cite) \cup {None}]
  BY DEF RenameInv, Tabled, RenameTypeOK
<1>2. PICK cite : cite = CiteOf(i)
  OBVIOUS
<1>3. cite \in Cite /\ cite.of \in DOMAIN log /\ log[cite.of].id = cite.id
  BY <1>1, <1>2, CiteOfHolds DEF Tabled, RenameTypeOK, StoreTypeOK
<1>4. note' = [note EXCEPT ![n] = {cite}] /\ UNCHANGED <<storeVars, job, history>>
  BY <1>2 DEF WriteNote
<1>5. /\ note' \in [Note -> (SUBSET Cite) \cup {None}]
      /\ note'[n] = {cite} /\ \A m \in Note : m # n => note'[m] = note[m]
  BY <1>1, <1>3, <1>4
<1>6. QED
  BY <1>1, <1>3, <1>4, <1>5, QuietKeeps

LEMMA AttachKeeps ==
  ASSUME RenameInv, NEW pic \in Pic, NEW i \in DOMAIN latest, AttachPicture(pic, i)
  PROVE  RenameInv'
<1>1. /\ log' = log /\ latest' = latest /\ note' = note /\ job' = job
      /\ moved' = moved /\ stopped' = stopped /\ carried' = carried
      /\ attachment' = [q \in DOMAIN attachment \cup {pic} |-> IF q = pic THEN i ELSE attachment[q]]
  BY DEF AttachPicture, AttachTx, history
<1>2. \A q \in DOMAIN attachment' : attachment'[q] = i \/ (q \in DOMAIN attachment /\ attachment'[q] = attachment[q])
  BY <1>1
<1>3. Tabled'
  <2>1. StoreTypeOK' /\ RenameTypeOK'
    BY <1>1, <1>2 DEF RenameInv, Tabled, RenameTypeOK, StoreTypeOK
  <2>2. LatestIsNewest' /\ Texted'
    BY <1>1 DEF RenameInv, Tabled, LatestIsNewest, Texted, IdsIn
  <2>3. QED
    BY <2>1, <2>2 DEF Tabled
<1>4. stopped' => NotesHold' /\ PicturesHold'
  BY <1>1, <1>2 DEF RenameInv, NotesHold, PicturesHold
<1>5. stopped' => AmendedThere' /\ FirstIsCreate'
  BY <1>1 DEF RenameInv, AmendedThere, Amending, AtRest, FirstIsCreate
<1>6. stopped' => OneBox'
  BY <1>1 DEF RenameInv, OneBox, Routing, Amending, AtRest
<1>7. stopped' /\ carried' => CitesHold'
  BY <1>1 DEF RenameInv, CitesHold, CiteHolds, Vouched, Amending, AtRest
<1>8. QED
  BY <1>3, <1>4, <1>5, <1>6, <1>7 DEF RenameInv

LEMMA ContentsSound ==
  ASSUME Tabled, NEW p \in Prefix, NEW r \in Contents(p)
  PROVE  /\ r \in Text /\ r.jot = FALSE
         /\ \A c \in r.cites : c.of \in DOMAIN log /\ log[c.of].id = c.id
         /\ r.route = None \/ Routing = {}
<1>1. \A i \in DOMAIN latest :
        i \in Id /\ CiteOf(i) \in Cite /\ CiteOf(i).of \in DOMAIN log /\ log[CiteOf(i).of].id = CiteOf(i).id
  BY CiteOfHolds DEF Tabled, RenameTypeOK, StoreTypeOK
<1>2. ASSUME NEW cites \in SUBSET DOMAIN latest, NEW declares \in SUBSET DOMAIN latest,
             r = [Plain({CiteOf(i) : i \in cites}) EXCEPT !.declares = declares]
      PROVE  /\ r \in Text /\ r.jot = FALSE /\ r.route = None
             /\ \A c \in r.cites : c.of \in DOMAIN log /\ log[c.of].id = c.id
  <2>1. PICK written : written = {CiteOf(i) : i \in cites}
    OBVIOUS
  <2>2. written \in SUBSET Cite /\ \A c \in written : c.of \in DOMAIN log /\ log[c.of].id = c.id
    BY <1>1, <2>1
  <2>3. r = [jot |-> FALSE, cites |-> written, inside |-> {}, declares |-> declares, route |-> None]
    BY <1>2, <2>1 DEF Plain
  <2>4. declares \in SUBSET Id
    BY <1>1
  <2>5. QED
    BY <2>2, <2>3, <2>4 DEF Text
<1>3. \A S : \A T \in AtMostOne(S) : T \in SUBSET S
  BY DEF AtMostOne
<1>4. CASE p \notin Citing
  <2>1. r = [jot |-> FALSE, cites |-> {}, inside |-> {}, declares |-> {}, route |-> None]
    BY <1>4 DEF Contents, Plain
  <2>2. QED
    BY <2>1 DEF Text
<1>5. CASE r \in Telling
  <2>1. PICK cites \in AtMostOne(DOMAIN latest), declares \in AtMostOne(DOMAIN latest) :
               r = Told(cites, declares)
    BY <1>5 DEF Telling
  <2>2. cites \in SUBSET DOMAIN latest /\ declares \in SUBSET DOMAIN latest
    BY <1>3, <2>1
  <2>3. QED
    BY <1>2, <2>1, <2>2 DEF Told
<1>6. CASE r \in Spelling
  <2>1. PICK i \in DOMAIN latest : r = [Plain({}) EXCEPT !.inside = {i}]
    BY <1>6 DEF Spelling
  <2>2. r = [jot |-> FALSE, cites |-> {}, inside |-> {i}, declares |-> {}, route |-> None]
    BY <2>1 DEF Plain
  <2>3. {i} \in SUBSET Id
    BY <1>1
  <2>4. QED
    BY <2>2, <2>3 DEF Text
<1>7. CASE r \in Routes
  <2>1. PICK q \in Prefix : Routing = {} /\ r = [Plain({}) EXCEPT !.route = q]
    BY <1>7 DEF Routes
  <2>2. r = [jot |-> FALSE, cites |-> {}, inside |-> {}, declares |-> {}, route |-> q]
    BY <2>1 DEF Plain
  <2>3. q \in Prefix \cup {None} /\ {} \in SUBSET Id /\ {} \in SUBSET Cite
    OBVIOUS
  <2>4. r \in Text
    BY <2>2, <2>3 DEF Text
  <2>5. QED
    BY <2>1, <2>2, <2>4
<1>8. p \in Citing => r \in Telling \/ r \in Spelling \/ r \in Routes
  BY DEF Contents
<1>9. QED
  BY <1>4, <1>5, <1>6, <1>7, <1>8

LEMMA AddKeeps ==
  ASSUME RenameInv, Text \subseteq Rec, NEW p \in Prefix, NEW r \in Contents(p), Add(p, r)
  PROVE  RenameInv'
<1>1. Tabled
  BY DEF RenameInv
<1>2. /\ r \in Text /\ r \in Rec
      /\ \A c \in r.cites : c.of \in DOMAIN log /\ log[c.of].id = c.id
      /\ r.route = None \/ Routing = {}
  BY <1>1, ContentsSound
<1>3. CreateTx(p, r) /\ attachment' = attachment /\ note' = note /\ job' = job /\ UNCHANGED history
  BY DEF Add
<1>4. PICK n \in Id \ IdsIn(log) : Added(Created(n, r))
  BY <1>1, <1>2, <1>3, CreateAdds
<1>5. HandsDone
  BY <1>1, <1>3 DEF HandsDone, Tabled, RenameTypeOK
<1>6. QED
  BY <1>2, <1>3, <1>4, <1>5, FreshKeeps

LEMMA JotIsText == Jot \in Text /\ Jot.cites = {} /\ Jot.route = None
<1>1. PICK r : r = Jot
  OBVIOUS
<1>2. PICK s : s = Plain({})
  OBVIOUS
<1>3. s = [jot |-> FALSE, cites |-> {}, inside |-> {}, declares |-> {}, route |-> None]
  BY <1>2 DEF Plain
<1>4. r = [s EXCEPT !.jot = TRUE]
  BY <1>1, <1>2 DEF Jot
<1>5. r = [jot |-> TRUE, cites |-> {}, inside |-> {}, declares |-> {}, route |-> None]
  BY <1>3, <1>4
<1>6. r \in Text
  BY <1>5 DEF Text
<1>7. QED
  BY <1>1, <1>5, <1>6

LEMMA WriteReadKeeps ==
  ASSUME RenameInv, Text \subseteq Rec, NEW h \in Hand, WriteRead(h)
  PROVE  RenameInv'
<1>1. Tabled /\ job \in [Hand -> Job \cup {None}] /\ job[h] # None
  BY DEF RenameInv, Tabled, RenameTypeOK, WriteRead, AtRest
<1>2. /\ job' = [job EXCEPT ![h] = None]
      /\ attachment' = attachment /\ note' = note /\ UNCHANGED history
  BY DEF WriteRead
<1>3. job[h] \in Job
  BY <1>1
<1>4. CASE job[h].op = "file"
  <2>1. job[h].p \in Prefix
    BY <1>3, <1>4 DEF Job
  <2>2. CreateTx(job[h].p, Jot)
    BY <1>4 DEF WriteRead
  <2>3. Jot \in Rec
    BY JotIsText
  <2>4. PICK n \in Id \ IdsIn(log) : Added(Created(n, Jot))
    BY <1>1, <2>1, <2>2, <2>3, CreateAdds
  <2>5. HandsDone
    BY <1>1, <1>2 DEF HandsDone, AtRest
  <2>6. QED
    BY <1>2, <2>4, <2>5, JotIsText, FreshKeeps
<1>5. CASE job[h].op # "file"
  <2>1. Amending(h)
    BY <1>1, <1>3, <1>5 DEF Job, Amending, AtRest
  <2>2. AppendTx(job[h].id, "amend", job[h].rec)
    BY <1>5 DEF WriteRead
  <2>3. QED
    BY <1>2, <2>1, <2>2, AmendKeeps
<1>6. QED
  BY <1>4, <1>5

\* What a map of a rename is, and what it makes of a text.
Maps(to) == DOMAIN to \subseteq DOMAIN latest /\ \A i \in DOMAIN to : to[i] \in Id

LEMMA RenamesMap ==
  ASSUME NEW to \in Renames
  PROVE  Maps(to)
<1>1. PICK olds \in SUBSET DOMAIN latest : to \in [olds -> Prefix \X (1..MaxSerial)]
  BY DEF Renames
<1>2. Prefix \X (1..MaxSerial) \subseteq Id
  BY RenameAssumption DEF Id
<1>3. QED
  BY <1>1, <1>2 DEF Maps

LEMMA ToFacts ==
  ASSUME NEW to, Maps(to)
  PROVE  \A i \in Id : To(to, i) \in Id
BY DEF Maps, To

\* No two records become one.
LEMMA ToKeepsApart ==
  ASSUME NEW to, WellFormed(to), NewAreFree(to), NEW i \in IdsIn(log), NEW j \in IdsIn(log),
         To(to, i) = To(to, j)
  PROVE  i = j
<1>1. \A a \in DOMAIN to : to[a] \notin IdsIn(log)
  BY DEF NewAreFree
<1>2. \A a, b \in DOMAIN to : to[a] = to[b] => a = b
  BY DEF WellFormed
<1>3. QED
  BY <1>1, <1>2 DEF To

LEMMA CitesRewritten ==
  ASSUME NEW to, \A i \in Id : To(to, i) \in Id, NEW cites \in SUBSET Cite
  PROVE  /\ RewriteCites(to, cites) \in SUBSET Cite
         /\ \A c \in RewriteCites(to, cites) : \E d \in cites : c.id = To(to, d.id) /\ c.of = d.of
         /\ \A d \in cites : \E c \in RewriteCites(to, cites) : c.id = To(to, d.id)
<1>1. ASSUME NEW d \in cites, NEW c, c = [d EXCEPT !.id = To(to, d.id)]
      PROVE  c \in Cite /\ c.id = To(to, d.id) /\ c.of = d.of
  BY <1>1 DEF Cite
<1>2. QED
  BY <1>1 DEF RewriteCites

LEMMA RecordRewritten ==
  ASSUME NEW to, \A i \in Id : To(to, i) \in Id, NEW rec \in Text, NEW r, r = RewriteRecord(to, rec)
  PROVE  /\ r \in Text /\ r.route = rec.route /\ r.jot = rec.jot
         /\ r.declares = rec.declares \ DOMAIN to
         /\ \A c \in r.cites : \E d \in rec.cites : c.id = To(to, d.id) /\ c.of = d.of
         /\ \A i \in CitedIn(rec) : To(to, i) \in CitedIn(r)
<1>1. PICK cites : cites = RewriteCites(to, rec.cites)
  OBVIOUS
<1>2. rec.cites \in SUBSET Cite
  BY DEF Text
<1>3. /\ cites \in SUBSET Cite
      /\ \A c \in cites : \E d \in rec.cites : c.id = To(to, d.id) /\ c.of = d.of
      /\ \A d \in rec.cites : \E c \in cites : c.id = To(to, d.id)
  BY <1>1, <1>2, CitesRewritten
<1>4. PICK declares : declares = rec.declares \ DOMAIN to
  OBVIOUS
<1>5. declares \in SUBSET Id
  BY <1>4 DEF Text
<1>6. r = [rec EXCEPT !.cites = cites, !.declares = declares]
  BY <1>1, <1>4 DEF RewriteRecord
<1>7. r.cites = cites /\ r.declares = declares /\ r.route = rec.route /\ r.jot = rec.jot /\ r \in Text
  BY <1>3, <1>5, <1>6 DEF Text
<1>8. QED
  BY <1>3, <1>4, <1>7 DEF CitedIn

\* What a text becomes.
Become(to, keep, i, rec) == IF i \in keep THEN rec ELSE RewriteRecord(to, rec)

LEMMA BecomeText ==
  ASSUME NEW to, Maps(to), NEW keep, NEW i, NEW rec \in Text
  PROVE  /\ Become(to, keep, i, rec) \in Text
         /\ Become(to, keep, i, rec).route = rec.route
         /\ Become(to, keep, i, rec).jot = rec.jot
BY ToFacts, RecordRewritten DEF Become

LEMMA LogRewritten ==
  ASSUME Tabled, Text \subseteq Rec, NEW to, Maps(to), NEW keep, KeepIsSound(to, keep),
         NEW R, R = Rewritten(to, keep)
  PROVE  /\ R \in Seq(Event) /\ DOMAIN R = DOMAIN log /\ Len(R) = Len(log)
         /\ \A k \in DOMAIN log :
              /\ R[k].id = To(to, log[k].id) /\ R[k].op = log[k].op
              /\ R[k].rec = Become(to, keep, log[k].id, log[k].rec)
              /\ R[k].rec \in Text
<1>1. log \in Seq(Event) /\ \A k \in DOMAIN log : log[k].rec \in Text
  BY DEF Tabled, RenameTypeOK, StoreTypeOK, Texted
<1>2. DOMAIN log = 1..Len(log) /\ Len(log) \in Nat
  BY <1>1
<1>3. ASSUME NEW k \in DOMAIN log
      PROVE  /\ R[k] \in Event
             /\ R[k].id = To(to, log[k].id) /\ R[k].op = log[k].op
             /\ R[k].rec = Become(to, keep, log[k].id, log[k].rec)
             /\ R[k].rec \in Text
  <2>1. log[k] \in Event
    BY <1>1
  <2>2. PICK e \in Event : e = log[k]
    BY <2>1
  <2>3. e.id \in Id /\ e.rec \in Text
    BY <1>1, <2>2 DEF Event
  <2>4. CASE e.id \in keep
    <3>1. R[k] = e
      BY <2>2, <2>4 DEF Rewritten
    <3>2. To(to, e.id) = e.id
      BY <2>4 DEF KeepIsSound, To
    <3>3. QED
      BY <1>1, <2>2, <2>4, <3>1, <3>2 DEF Become
  <2>5. CASE e.id \notin keep
    <3>1. PICK r, i : r = RewriteRecord(to, e.rec) /\ i = To(to, e.id)
      OBVIOUS
    <3>2. R[k] = [e EXCEPT !.id = i, !.rec = r]
      BY <2>2, <2>5, <3>1 DEF Rewritten
    <3>3. i \in Id
      BY <2>3, <3>1, ToFacts
    <3>4. r \in Text /\ r \in Rec
      BY <2>3, <3>1, ToFacts, RecordRewritten
    <3>5. R[k] \in Event /\ R[k].id = i /\ R[k].op = e.op /\ R[k].rec = r
      BY <3>2, <3>3, <3>4 DEF Event
    <3>6. QED
      BY <2>2, <2>5, <3>1, <3>4, <3>5 DEF Become
  <2>6. QED
    BY <2>4, <2>5
<1>4. DOMAIN R = 1..Len(log)
  BY <1>2 DEF Rewritten
<1>5. R \in [1..Len(log) -> Event]
  <2>1. R = [k \in DOMAIN R |-> R[k]]
    BY DEF Rewritten
  <2>2. QED
    BY <1>2, <1>3, <1>4, <2>1
<1>6. R \in Seq(Event) /\ Len(R) = Len(log)
  BY <1>2, <1>5
<1>7. QED
  BY <1>2, <1>3, <1>4, <1>6

\* A rename's repoint, if any.
Repointing(to, rp) == rp = None \/ (rp \in Routing \X Prefix /\ MayRepoint(to, rp[1]))

Moves(rp, i) == rp # None /\ i = rp[1]

\* The tables after a rename.
Renamed(to, keep, rp) ==
  /\ \A k \in DOMAIN log :
       /\ k \in DOMAIN log' /\ log'[k].id = To(to, log[k].id) /\ log'[k].op = log[k].op
       /\ log'[k].rec = Become(to, keep, log[k].id, log[k].rec)
  /\ \A k \in DOMAIN log' \ DOMAIN log :
       /\ rp # None /\ log'[k].id = rp[1] /\ log'[k].op = "amend"
       /\ \A m \in DOMAIN log : m < k
       /\ log'[k].rec.cites = Become(to, keep, rp[1], latest[rp[1]].rec).cites
  /\ DOMAIN latest' = {To(to, i) : i \in DOMAIN latest}
  /\ \A i \in DOMAIN latest :
       LET r == Become(to, keep, i, latest[i].rec)
           s == latest'[To(to, i)].rec
       IN  /\ s.declares = r.declares /\ s.cites = r.cites
           /\ s.route = IF Moves(rp, i) THEN rp[2] ELSE r.route

LEMMA LogRepointed ==
  ASSUME Tabled, Text \subseteq Rec, NEW to, Maps(to), WellFormed(to), NewAreFree(to),
         NEW keep, KeepIsSound(to, keep), NEW rp, rp # None, Repointing(to, rp),
         NEW R, R = Rewritten(to, keep), NEW events, events = Repointed(R, rp)
  PROVE  \E r \in Text :
           /\ events = Append(R, Amended(rp[1], r, 0))
           /\ Amended(rp[1], r, 0) \in Event
           /\ r.cites = Become(to, keep, rp[1], latest[rp[1]].rec).cites
           /\ r.declares = Become(to, keep, rp[1], latest[rp[1]].rec).declares
           /\ r.route = rp[2]
<1>1. PICK i, q : rp = <<i, q>>
  BY DEF Repointing
<1>2. i \in DOMAIN latest /\ i \notin DOMAIN to /\ q \in Prefix /\ rp[1] = i /\ rp[2] = q
  BY <1>1 DEF Repointing, MayRepoint, Routing
<1>3. /\ R \in Seq(Event) /\ DOMAIN R = DOMAIN log
      /\ \A k \in DOMAIN log :
           /\ R[k].id = To(to, log[k].id)
           /\ R[k].rec = Become(to, keep, log[k].id, log[k].rec)
           /\ R[k].rec \in Text
  BY LogRewritten
<1>4. i \in IdsIn(log) /\ To(to, i) = i /\ i \in Id
  BY <1>2 DEF Tabled, LatestIsNewest, To, RenameTypeOK, StoreTypeOK
<1>5. i \in IdsIn(R)
  BY <1>3, <1>4 DEF IdsIn
<1>6. PICK k : k = LastAbout(R, i)
  OBVIOUS
<1>7. k \in DOMAIN log /\ R[k].id = i /\ \A m \in DOMAIN log : R[m].id = i => m <= k
  BY <1>3, <1>5, <1>6, LastAboutFact
<1>8. log[k].id = i
  <2>1. log[k].id \in IdsIn(log) /\ To(to, log[k].id) = To(to, i)
    BY <1>3, <1>4, <1>7 DEF IdsIn
  <2>2. QED
    BY <1>4, <2>1, ToKeepsApart
<1>9. \A m \in DOMAIN log : log[m].id = i => m <= k
  BY <1>3, <1>4, <1>7
<1>10. log[k].rec = latest[i].rec
  <2>1. /\ latest[i].seq \in DOMAIN log /\ log[latest[i].seq].id = i
        /\ log[latest[i].seq].rec = latest[i].rec
        /\ \A m \in DOMAIN log : log[m].id = i => m <= latest[i].seq
    BY <1>2 DEF Tabled, LatestIsNewest
  <2>2. DOMAIN log \subseteq Nat
    BY DEF Tabled, RenameTypeOK, StoreTypeOK
  <2>3. latest[i].seq = k
    BY <1>7, <1>8, <1>9, <2>1, <2>2
  <2>4. QED
    BY <2>1, <2>3
<1>11. PICK s \in Text : s = R[k].rec
  BY <1>3, <1>7
<1>12. s = Become(to, keep, i, latest[i].rec)
  BY <1>3, <1>7, <1>8, <1>10, <1>11
<1>13. PICK r : r = [s EXCEPT !.route = q]
  OBVIOUS
<1>14. r \in Text /\ r.cites = s.cites /\ r.declares = s.declares /\ r.route = q
  BY <1>2, <1>11, <1>13 DEF Text
<1>15. Amended(i, r, 0) \in Event
  BY <1>4, <1>14 DEF Amended, Event
<1>16. events = Append(R, Amended(i, r, 0))
  BY <1>1, <1>2, <1>6, <1>11, <1>13 DEF Repointed
<1>17. QED
  BY <1>2, <1>12, <1>14, <1>15, <1>16

LEMMA LogAfterRename ==
  ASSUME Tabled, Text \subseteq Rec, NEW to, Maps(to), WellFormed(to), NewAreFree(to),
         NEW keep, KeepIsSound(to, keep), NEW rp, Repointing(to, rp),
         log' = Repointed(Rewritten(to, keep), rp)
  PROVE  /\ log' \in Seq(Event)
         /\ \A k \in DOMAIN log :
              /\ k \in DOMAIN log' /\ log'[k].id = To(to, log[k].id) /\ log'[k].op = log[k].op
              /\ log'[k].rec = Become(to, keep, log[k].id, log[k].rec)
              /\ log'[k].rec \in Text
         /\ \A k \in DOMAIN log' \ DOMAIN log :
              /\ rp # None /\ log'[k].id = rp[1] /\ log'[k].op = "amend"
              /\ \A m \in DOMAIN log : m < k
              /\ log'[k].rec \in Text
              /\ log'[k].rec.cites = Become(to, keep, rp[1], latest[rp[1]].rec).cites
              /\ log'[k].rec.declares = Become(to, keep, rp[1], latest[rp[1]].rec).declares
              /\ log'[k].rec.route = rp[2]
         /\ rp # None => \E k \in DOMAIN log' : k \notin DOMAIN log
<1>1. PICK R : R = Rewritten(to, keep)
  OBVIOUS
<1>2. /\ R \in Seq(Event) /\ DOMAIN R = DOMAIN log /\ Len(R) = Len(log)
      /\ \A k \in DOMAIN log :
           /\ R[k].id = To(to, log[k].id) /\ R[k].op = log[k].op
           /\ R[k].rec = Become(to, keep, log[k].id, log[k].rec)
           /\ R[k].rec \in Text
  BY <1>1, LogRewritten
<1>3. CASE rp = None
  <2>1. log' = R
    BY <1>1, <1>3 DEF Repointed
  <2>2. QED
    BY <1>2, <1>3, <2>1
<1>4. CASE rp # None
  <2>1. PICK r \in Text :
           /\ log' = Append(R, Amended(rp[1], r, 0))
           /\ Amended(rp[1], r, 0) \in Event
           /\ r.cites = Become(to, keep, rp[1], latest[rp[1]].rec).cites
           /\ r.declares = Become(to, keep, rp[1], latest[rp[1]].rec).declares
           /\ r.route = rp[2]
    BY <1>1, <1>4, LogRepointed
  <2>2. PICK e : e = Amended(rp[1], r, 0)
    OBVIOUS
  <2>3. e \in Event /\ e.id = rp[1] /\ e.op = "amend" /\ e.rec = r
    BY <2>1, <2>2 DEF Amended
  <2>4. /\ log' \in Seq(Event) /\ DOMAIN log' = 1..(Len(R) + 1) /\ log'[Len(R) + 1] = e
        /\ \A k \in 1..Len(R) : log'[k] = R[k]
    BY <1>2, <2>1, <2>2, <2>3
  <2>5. DOMAIN log = 1..Len(R) /\ Len(R) \in Nat
    BY <1>2
  <2>6. \A k \in DOMAIN log : k \in DOMAIN log' /\ log'[k] = R[k]
    BY <2>4, <2>5
  <2>7. \A k \in DOMAIN log' \ DOMAIN log : k = Len(R) + 1
    BY <2>4, <2>5
  <2>8. \A k \in DOMAIN log : k < Len(R) + 1
    BY <2>5
  <2>9. Len(R) + 1 \in DOMAIN log' /\ Len(R) + 1 \notin DOMAIN log
    BY <2>4, <2>5
  <2>10. QED
    BY <1>2, <1>4, <2>1, <2>3, <2>4, <2>6, <2>7, <2>8, <2>9
<1>5. QED
  BY <1>3, <1>4

LEMMA TablesAfterRename ==
  ASSUME Tabled, Text \subseteq Rec, NEW to, Maps(to), WellFormed(to), NewAreFree(to),
         NEW keep, KeepIsSound(to, keep), NEW rp, Repointing(to, rp),
         log' = Repointed(Rewritten(to, keep), rp), latest' = Replayed(log')
  PROVE  /\ Renamed(to, keep, rp) /\ Texted' /\ LatestIsNewest'
         /\ log' \in Seq(Event) /\ DOMAIN latest' \subseteq Id
         /\ \A i \in DOMAIN latest' : latest'[i] \in Row
<1>1. /\ log' \in Seq(Event)
      /\ \A k \in DOMAIN log :
           /\ k \in DOMAIN log' /\ log'[k].id = To(to, log[k].id) /\ log'[k].op = log[k].op
           /\ log'[k].rec = Become(to, keep, log[k].id, log[k].rec)
           /\ log'[k].rec \in Text
      /\ \A k \in DOMAIN log' \ DOMAIN log :
           /\ rp # None /\ log'[k].id = rp[1] /\ log'[k].op = "amend"
           /\ \A m \in DOMAIN log : m < k
           /\ log'[k].rec \in Text
           /\ log'[k].rec.cites = Become(to, keep, rp[1], latest[rp[1]].rec).cites
           /\ log'[k].rec.declares = Become(to, keep, rp[1], latest[rp[1]].rec).declares
           /\ log'[k].rec.route = rp[2]
      /\ rp # None => \E k \in DOMAIN log' : k \notin DOMAIN log
  BY LogAfterRename
<1>2. /\ LatestIsNewest' /\ DOMAIN latest' \subseteq Id
      /\ \A i \in DOMAIN latest' : latest'[i] \in Row
  BY <1>1, ReplayIsNewest
<1>3. Texted'
  BY <1>1 DEF Texted
<1>4. rp # None => rp[1] \in DOMAIN latest /\ rp[1] \notin DOMAIN to /\ To(to, rp[1]) = rp[1]
  BY DEF Repointing, MayRepoint, Routing, To
<1>5. DOMAIN latest = {log[k].id : k \in DOMAIN log} /\ DOMAIN latest' = {log'[k].id : k \in DOMAIN log'}
  BY <1>2 DEF Tabled, LatestIsNewest, IdsIn
<1>6. \A k \in DOMAIN log' : \E i \in DOMAIN latest : log'[k].id = To(to, i)
  BY <1>1, <1>4, <1>5
<1>7. DOMAIN latest' = {To(to, i) : i \in DOMAIN latest}
  <2>1. \A j \in DOMAIN latest' : \E i \in DOMAIN latest : j = To(to, i)
    BY <1>5, <1>6
  <2>2. \A i \in DOMAIN latest : \E k \in DOMAIN log' : log'[k].id = To(to, i)
    BY <1>1, <1>5
  <2>3. \A i \in DOMAIN latest : To(to, i) \in DOMAIN latest'
    BY <1>5, <2>2
  <2>4. QED
    BY <2>1, <2>3
<1>8. DOMAIN log' \subseteq Nat
  BY <1>1
<1>9. ASSUME NEW i \in DOMAIN latest
      PROVE  LET r == Become(to, keep, i, latest[i].rec)
                 s == latest'[To(to, i)].rec
             IN  /\ s.declares = r.declares /\ s.cites = r.cites
                 /\ s.route = IF Moves(rp, i) THEN rp[2] ELSE r.route
  <2>1. PICK j : j = To(to, i)
    OBVIOUS
  <2>2. PICK n, m : n = latest[i].seq /\ m = latest'[j].seq
    OBVIOUS
  <2>3. /\ n \in DOMAIN log /\ log[n].id = i /\ log[n].rec = latest[i].rec
        /\ \A k \in DOMAIN log : log[k].id = i => k <= n
    BY <2>2 DEF Tabled, LatestIsNewest
  <2>4. /\ m \in DOMAIN log' /\ log'[m].id = j /\ log'[m].rec = latest'[j].rec
        /\ \A k \in DOMAIN log' : log'[k].id = j => k <= m
    BY <1>2, <1>7, <2>1, <2>2 DEF LatestIsNewest
  <2>5. CASE m \in DOMAIN log
    <3>1. log[m].id = i
      <4>1. To(to, log[m].id) = To(to, i) /\ log[m].id \in IdsIn(log) /\ i \in IdsIn(log)
        BY <1>1, <2>1, <2>3, <2>4, <2>5 DEF IdsIn
      <4>2. QED
        BY <4>1, ToKeepsApart
    <3>2. m <= n /\ n <= m /\ m \in Nat /\ n \in Nat
      BY <1>1, <1>8, <2>1, <2>3, <2>4, <2>5, <3>1
    <3>3. m = n
      BY <3>2
    <3>4. ~Moves(rp, i)
      <4>1. SUFFICES ASSUME rp # None, i = rp[1] PROVE FALSE
        BY DEF Moves
      <4>2. PICK k \in DOMAIN log' : k \notin DOMAIN log
        BY <1>1, <4>1
      <4>3. log'[k].id = j /\ m < k
        BY <1>1, <1>4, <2>1, <2>5, <4>1, <4>2
      <4>4. QED
        BY <1>8, <2>4, <3>2, <4>2, <4>3
    <3>5. QED
      BY <1>1, <2>1, <2>3, <2>4, <3>3, <3>4
  <2>6. CASE m \notin DOMAIN log
    <3>1. rp # None /\ j = rp[1]
      BY <1>1, <2>4, <2>6
    <3>2. i = rp[1]
      <4>1. To(to, rp[1]) = To(to, i) /\ rp[1] \in IdsIn(log) /\ i \in IdsIn(log)
        BY <1>4, <2>1, <3>1 DEF Tabled, LatestIsNewest
      <4>2. QED
        BY <4>1, ToKeepsApart
    <3>3. Moves(rp, i)
      BY <3>1, <3>2 DEF Moves
    <3>4. QED
      BY <1>1, <2>1, <2>4, <2>6, <3>2, <3>3
  <2>7. QED
    BY <2>5, <2>6
<1>10. QED
  <2>1. \A k \in DOMAIN log' \ DOMAIN log :
          /\ rp # None /\ log'[k].id = rp[1] /\ log'[k].op = "amend"
          /\ \A m \in DOMAIN log : m < k
          /\ log'[k].rec.cites = Become(to, keep, rp[1], latest[rp[1]].rec).cites
    BY <1>1
  <2>2. QED
    BY <1>1, <1>2, <1>3, <1>7, <1>9, <2>1 DEF Renamed

\* A retirement that a record rests on is still declared after a rename that
\* keeps the declaring record, and the record.
LEMMA VouchedRenamed ==
  ASSUME Tabled, NEW to, Maps(to), NEW keep, KeepIsSound(to, keep), NEW rp,
         Renamed(to, keep, rp), Carriers(to) \subseteq keep, UNCHANGED job,
         \A h \in Hand : AtRest(h), NEW i, i \notin DOMAIN to,
         NEW old, Vouched(i, old)
  PROVE  Vouched(i, old)'
<1>1. PICK j \in DOMAIN latest : old \in latest[j].rec.declares /\ (j = i \/ i \in CitedIn(latest[j].rec))
  BY DEF Vouched, Shows
<1>2. PICK r : r = Become(to, keep, j, latest[j].rec)
  OBVIOUS
<1>3. latest[j].rec \in Text
  BY LatestTexts DEF Tabled
<1>4. PICK n : n = To(to, j)
  OBVIOUS
<1>5. n \in DOMAIN latest' /\ latest'[n].rec.declares = r.declares /\ latest'[n].rec.cites = r.cites
  BY <1>2, <1>4 DEF Renamed
<1>6. old \in r.declares /\ (n = i \/ i \in CitedIn(r))
  <2>1. CASE j \in keep
    <3>1. r = latest[j].rec /\ n = j
      BY <1>2, <1>4, <2>1 DEF Become, KeepIsSound, To
    <3>2. QED
      BY <1>1, <3>1
  <2>2. CASE j \notin keep
    <3>1. old \notin DOMAIN to
      BY <1>1, <2>2 DEF Carriers
    <3>2. r = RewriteRecord(to, latest[j].rec)
      BY <1>2, <2>2 DEF Become
    <3>3. /\ r.declares = latest[j].rec.declares \ DOMAIN to
          /\ \A c \in CitedIn(latest[j].rec) : To(to, c) \in CitedIn(r)
      BY <1>3, <3>2, ToFacts, RecordRewritten
    <3>4. To(to, i) = i
      BY DEF To
    <3>5. QED
      BY <1>1, <1>4, <3>1, <3>3, <3>4
  <2>3. QED
    BY <2>1, <2>2
<1>7. CitedIn(latest'[n].rec) = CitedIn(r)
  BY <1>5 DEF CitedIn
<1>8. Shows(latest'[n].rec, n, i, old)
  BY <1>5, <1>6, <1>7 DEF Shows
<1>9. \A h \in Hand : ~Amending(h)'
  BY DEF Amending, AtRest
<1>10. QED
  BY <1>5, <1>8, <1>9 DEF Vouched

\* A citation holds after the rename where the record it is in now is.
LEMMA CiteRenamed ==
  ASSUME Tabled, NEW to, Maps(to), NEW keep, KeepIsSound(to, keep), NEW rp,
         Renamed(to, keep, rp), Carriers(to) \subseteq keep, UNCHANGED job,
         \A h \in Hand : AtRest(h), EarlierSpared(to, keep), Scoped(to, keep), CitesHold,
         NEW k \in DOMAIN log, NEW c \in Become(to, keep, log[k].id, log[k].rec).cites,
         NEW i, i = To(to, log[k].id)
  PROVE  CiteHolds(i, c)'
<1>1. log[k].rec \in Text
  BY DEF Tabled, Texted
<1>2. \A m \in DOMAIN log : m \in DOMAIN log' /\ log'[m].id = To(to, log[m].id)
  BY DEF Renamed
<1>3. CASE log[k].id \in keep
  <2>1. c \in log[k].rec.cites /\ i = log[k].id /\ i \notin DOMAIN to
    BY <1>3 DEF Become, KeepIsSound, To
  <2>2. CiteHolds(i, c)
    BY <2>1 DEF CitesHold
  <2>3. CASE log[c.of].id = c.id /\ c.id \notin DOMAIN to
    BY <1>2, <2>2, <2>3 DEF CiteHolds, To
  <2>4. CASE log[c.of].id = c.id /\ c.id \in DOMAIN to
    <3>1. c.id \in CitedIn(log[k].rec)
      BY <2>1 DEF CitedIn
    <3>2. c.id \in PlainIn(latest, i)
      BY <1>3, <2>1, <2>4, <3>1 DEF Scoped
    <3>3. PICK j \in DOMAIN latest : Shows(latest[j].rec, j, i, c.id)
      BY <3>2 DEF PlainIn, Shows
    <3>4. Vouched(i, c.id)
      BY <3>3 DEF Vouched, Amending
    <3>5. Vouched(i, c.id)'
      BY <2>1, <3>4, VouchedRenamed
    <3>6. QED
      BY <1>2, <2>2, <3>5 DEF CiteHolds
  <2>5. CASE log[c.of].id # c.id
    <3>1. Vouched(i, c.id)'
      BY <2>1, <2>2, <2>5, VouchedRenamed DEF CiteHolds
    <3>2. QED
      BY <1>2, <2>2, <3>1 DEF CiteHolds
  <2>6. QED
    BY <2>3, <2>4, <2>5
<1>4. CASE log[k].id \notin keep
  <2>1. c \in RewriteRecord(to, log[k].rec).cites
    BY <1>4 DEF Become
  <2>2. PICK d \in log[k].rec.cites : c.id = To(to, d.id) /\ c.of = d.of
    <3>1. PICK rec \in Text : rec = log[k].rec
      BY <1>1
    <3>2. PICK r : r = RewriteRecord(to, rec)
      OBVIOUS
    <3>3. \A j \in Id : To(to, j) \in Id
      BY ToFacts
    <3>4. \A e \in r.cites : \E d \in rec.cites : e.id = To(to, d.id) /\ e.of = d.of
      BY ONLY <3>1, <3>2, <3>3, RecordRewritten
    <3>5. QED
      BY <2>1, <3>1, <3>2, <3>4
  <2>3. CiteHolds(log[k].id, d)
    BY <2>2 DEF CitesHold
  <2>4. CASE log[d.of].id = d.id
    BY <1>2, <2>2, <2>3, <2>4 DEF CiteHolds
  <2>5. CASE log[d.of].id # d.id
    <3>1. log[k].id \notin DOMAIN to /\ d.id \notin DOMAIN to
      BY <1>4, <2>2, <2>5 DEF EarlierSpared
    <3>2. i = log[k].id /\ c.id = d.id
      BY <2>2, <3>1 DEF To
    <3>3. Vouched(i, c.id)
      BY <2>3, <2>5, <3>2 DEF CiteHolds
    <3>4. Vouched(i, c.id)'
      BY <3>1, <3>2, <3>3, VouchedRenamed
    <3>5. QED
      BY <1>2, <2>2, <2>3, <3>4 DEF CiteHolds
  <2>6. QED
    BY <2>4, <2>5
<1>5. QED
  BY <1>3, <1>4

LEMMA CitesRenamed ==
  ASSUME Tabled, NEW to, Maps(to), NEW keep, KeepIsSound(to, keep), NEW rp, Repointing(to, rp),
         Renamed(to, keep, rp), Carriers(to) \subseteq keep, UNCHANGED job,
         \A h \in Hand : AtRest(h), EarlierSpared(to, keep), Scoped(to, keep), CitesHold
  PROVE  CitesHold'
<1>1. ASSUME NEW k \in DOMAIN log', NEW c \in log'[k].rec.cites, NEW i, i = log'[k].id
      PROVE  CiteHolds(i, c)'
  <2>1. CASE k \in DOMAIN log
    <3>1. c \in Become(to, keep, log[k].id, log[k].rec).cites /\ i = To(to, log[k].id)
      BY <1>1, <2>1 DEF Renamed
    <3>2. QED
      BY <2>1, <3>1, CiteRenamed
  <2>2. CASE k \notin DOMAIN log
    <3>1. /\ rp # None /\ i = rp[1]
          /\ c \in Become(to, keep, rp[1], latest[rp[1]].rec).cites
      BY <1>1, <2>2 DEF Renamed
    <3>2. rp[1] \in DOMAIN latest /\ To(to, rp[1]) = rp[1]
      BY <3>1 DEF Repointing, MayRepoint, Routing, To
    <3>3. PICK m \in DOMAIN log : log[m].id = rp[1] /\ log[m].rec = latest[rp[1]].rec
      BY <3>2, LatestTexts DEF Tabled
    <3>4. c \in Become(to, keep, log[m].id, log[m].rec).cites /\ i = To(to, log[m].id)
      BY <3>1, <3>2, <3>3
    <3>5. QED
      BY <3>4, CiteRenamed
  <2>3. QED
    BY <2>1, <2>2
<1>2. \A h \in Hand : ~Amending(h)'
  BY DEF Amending, AtRest
<1>3. QED
  BY <1>1, <1>2 DEF CitesHold, CiteHolds, Vouched

LEMMA NotesRenamed ==
  ASSUME Tabled, NEW to, Maps(to), note' = NotesRewritten(to)
  PROVE  /\ note' \in [Note -> (SUBSET Cite) \cup {None}]
         /\ \A n \in Note : note'[n] # None => note[n] # None /\ note'[n] = RewriteCites(to, note[n])
         /\ \A n \in Note : note[n] # None => note[n] \in SUBSET Cite
<1>1. note \in [Note -> (SUBSET Cite) \cup {None}]
  BY DEF Tabled, RenameTypeOK
<1>2. \A n \in Note : note[n] # None => note[n] \in SUBSET Cite /\ RewriteCites(to, note[n]) \in SUBSET Cite
  BY <1>1, ToFacts, CitesRewritten
<1>3. note' = [n \in Note |-> IF note[n] = None THEN None ELSE RewriteCites(to, note[n])]
  BY DEF NotesRewritten
<1>4. QED
  BY <1>2, <1>3

LEMMA RenameKeeps ==
  ASSUME RenameInv, Text \subseteq Rec, NEW to \in Renames, NEW keep, NEW accept,
         NEW rp \in {None} \cup (Routing \X Prefix), Rename(to, keep, accept, rp)
  PROVE  RenameInv'
<1>1. /\ WellFormed(to) /\ NewAreFree(to) /\ KeepIsSound(to, keep) /\ Scoped(to, keep)
      /\ rp # None => MayRepoint(to, rp[1])
      /\ log' = Repointed(Rewritten(to, keep), rp) /\ latest' = Replayed(log')
      /\ attachment' = MovedWith(to) /\ note' = NotesRewritten(to)
      /\ moved' = IF rp = None THEN moved ELSE (moved \cup {latest[rp[1]].rec.route}) \ {rp[2]}
      /\ stopped' = (stopped /\ \A h \in Hand : AtRest(h))
      /\ carried' = (carried /\ Carriers(to) \subseteq keep /\ EarlierSpared(to, keep))
      /\ job' = job
  BY DEF Rename
<1>2. Tabled /\ Maps(to) /\ Repointing(to, rp)
  BY <1>1, RenamesMap DEF RenameInv, Repointing
<1>3. /\ Renamed(to, keep, rp) /\ Texted' /\ LatestIsNewest'
      /\ log' \in Seq(Event) /\ DOMAIN latest' \subseteq Id
      /\ \A i \in DOMAIN latest' : latest'[i] \in Row
  BY <1>1, <1>2, TablesAfterRename
<1>4. /\ note' \in [Note -> (SUBSET Cite) \cup {None}]
      /\ \A n \in Note : note'[n] # None => note[n] # None /\ note'[n] = RewriteCites(to, note[n])
      /\ \A n \in Note : note[n] # None => note[n] \in SUBSET Cite
  BY <1>1, <1>2, NotesRenamed
<1>5. DOMAIN attachment' = DOMAIN attachment /\ \A pic \in DOMAIN attachment : attachment'[pic] = To(to, attachment[pic])
  BY <1>1 DEF MovedWith
<1>6. \A i \in DOMAIN latest : latest[i].rec \in Text
  BY <1>2, LatestTexts DEF Tabled
<1>7. \A i \in Routing : i \in DOMAIN latest /\ latest[i].rec.route \in Prefix
  BY <1>6 DEF Routing, Text
<1>8. rp # None => rp[1] \in Routing /\ rp[2] \in Prefix /\ rp[1] \notin DOMAIN to
  BY <1>2 DEF Repointing, MayRepoint
<1>9. Tabled'
  <2>1. StoreTypeOK'
    BY <1>2, <1>3, <1>5, ToFacts DEF Tabled, RenameTypeOK, StoreTypeOK
  <2>2. moved' \subseteq Prefix
    BY <1>1, <1>2, <1>7, <1>8 DEF Tabled, RenameTypeOK
  <2>3. stopped' \in BOOLEAN /\ carried' \in BOOLEAN
    BY <1>1
  <2>4. job' \in [Hand -> Job \cup {None}]
    BY <1>1, <1>2 DEF Tabled, RenameTypeOK
  <2>5. QED
    BY <1>3, <1>4, <2>1, <2>2, <2>3, <2>4 DEF Tabled, RenameTypeOK
<1>10. ASSUME stopped'
       PROVE  NotesHold' /\ PicturesHold' /\ AmendedThere' /\ FirstIsCreate' /\ OneBox'
  <2>1. stopped /\ \A h \in Hand : AtRest(h)
    BY <1>1, <1>10
  <2>2. NotesHold /\ PicturesHold /\ FirstIsCreate /\ OneBox
    BY <2>1 DEF RenameInv
  <2>3. \A h \in Hand : AtRest(h)' /\ ~Amending(h)'
    BY <1>1, <2>1 DEF AtRest, Amending
  <2>4. NotesHold'
    <3> SUFFICES ASSUME NEW n \in Note, note'[n] # None, NEW c \in note'[n]
                 PROVE  c.of \in DOMAIN log' /\ log'[c.of].id = c.id
      BY DEF NotesHold
    <3>1. PICK d \in note[n] : c.id = To(to, d.id) /\ c.of = d.of
      BY <1>2, <1>4, ToFacts, CitesRewritten
    <3>2. d.of \in DOMAIN log /\ log[d.of].id = d.id
      BY <1>4, <2>2, <3>1 DEF NotesHold
    <3>3. QED
      BY <1>3, <3>1, <3>2 DEF Renamed
  <2>5. PicturesHold'
    BY <1>3, <1>5, <2>2 DEF PicturesHold, Renamed
  <2>6. FirstIsCreate'
    <3>1. \A k \in DOMAIN log : k \in DOMAIN log' /\ log'[k].id = To(to, log[k].id) /\ log'[k].op = log[k].op
      BY <1>3 DEF Renamed
    <3>2. DOMAIN log \subseteq Nat
      BY <1>2 DEF Tabled, RenameTypeOK, StoreTypeOK
    <3>3. \A k \in DOMAIN log' \ DOMAIN log :
            /\ log'[k].op = "amend" /\ \A m \in DOMAIN log : m < k
            /\ \E m \in DOMAIN log : log'[m].id = log'[k].id
      <4> SUFFICES ASSUME NEW k \in DOMAIN log' \ DOMAIN log
                   PROVE  /\ log'[k].op = "amend" /\ \A m \in DOMAIN log : m < k
                          /\ \E m \in DOMAIN log : log'[m].id = log'[k].id
        OBVIOUS
      <4>1. rp # None /\ log'[k].id = rp[1] /\ log'[k].op = "amend" /\ \A m \in DOMAIN log : m < k
        BY <1>3 DEF Renamed
      <4>2. rp[1] \in DOMAIN latest /\ To(to, rp[1]) = rp[1]
        BY <1>7, <1>8, <4>1 DEF To
      <4>3. PICK m \in DOMAIN log : log[m].id = rp[1]
        BY <1>2, <4>2 DEF Tabled, LatestIsNewest, IdsIn
      <4>4. QED
        BY <3>1, <4>1, <4>2, <4>3
    <3>4. \A k, m \in DOMAIN log : log'[m].id = log'[k].id => log[m].id = log[k].id
      BY <1>1, <3>1, ToKeepsApart DEF IdsIn
    <3>5. \A k \in DOMAIN log' : k \in Nat
      BY <1>3
    <3>6. ASSUME NEW k \in DOMAIN log
          PROVE  log'[k].op = "create" <=> \A m \in DOMAIN log' : log'[m].id = log'[k].id => k <= m
      <4>1. log[k].op = "create" <=> \A m \in DOMAIN log : log[m].id = log[k].id => k <= m
        BY <2>2 DEF FirstIsCreate
      <4>2. \A m \in DOMAIN log' \ DOMAIN log : k <= m
        BY <3>2, <3>3, <3>5
      <4>3. QED
        BY <3>1, <3>4, <4>1, <4>2
    <3>7. ASSUME NEW k \in DOMAIN log' \ DOMAIN log
          PROVE  log'[k].op # "create" /\ ~ \A m \in DOMAIN log' : log'[m].id = log'[k].id => k <= m
      <4>1. PICK m \in DOMAIN log : log'[m].id = log'[k].id
        BY <3>3
      <4>2. m < k /\ m \in Nat /\ k \in Nat
        BY <3>2, <3>3, <3>5
      <4>3. QED
        BY <3>1, <3>3, <4>1, <4>2
    <3>8. QED
      BY <3>6, <3>7 DEF FirstIsCreate
  <2>7. OneBox'
    <3>1. \A i \in DOMAIN latest :
            /\ To(to, i) \in DOMAIN latest'
            /\ latest'[To(to, i)].rec.route = IF Moves(rp, i) THEN rp[2] ELSE latest[i].rec.route
      BY <1>2, <1>3, <1>6, BecomeText DEF Renamed
    <3>2. \A j \in DOMAIN latest' : \E i \in DOMAIN latest : j = To(to, i)
      BY <1>3 DEF Renamed
    <3>3. rp # None => rp[2] # None /\ rp[1] \in Routing
      BY <1>8, RenameAssumption
    <3>4. \A j \in Routing' : \E i \in Routing : j = To(to, i)
      BY <3>1, <3>2, <3>3 DEF Routing, Moves
    <3>5. \A i \in Routing : To(to, i) \in Routing'
      BY <3>1, <3>3 DEF Routing, Moves
    <3>6. \A i, j \in Routing' : i = j
      BY <2>2, <3>4 DEF OneBox
    <3>7. Routing' = {} => moved' = {}
      BY <1>1, <2>2, <3>3, <3>5 DEF OneBox
    <3>8. \A j \in Routing' : latest'[j].rec.route \notin moved'
      <4> SUFFICES ASSUME NEW i \in Routing
                   PROVE  latest'[To(to, i)].rec.route \notin moved'
        BY <3>4
      <4>1. CASE rp = None
        BY <1>1, <1>7, <2>2, <3>1, <4>1 DEF OneBox, Moves
      <4>2. CASE rp # None
        <5>1. Moves(rp, i)
          BY <2>2, <3>3, <4>2 DEF OneBox, Moves
        <5>2. QED
          BY <1>1, <1>7, <3>1, <4>2, <5>1
      <4>3. QED
        BY <4>1, <4>2
    <3>9. QED
      BY <2>3, <3>6, <3>7, <3>8 DEF OneBox
  <2>8. QED
    BY <2>3, <2>4, <2>5, <2>6, <2>7 DEF AmendedThere
<1>11. ASSUME stopped', carried'
       PROVE  CitesHold'
  <2>1. /\ stopped /\ carried /\ \A h \in Hand : AtRest(h)
        /\ Carriers(to) \subseteq keep /\ EarlierSpared(to, keep)
    BY <1>1, <1>11
  <2>2. CitesHold
    BY <2>1 DEF RenameInv
  <2>3. QED
    BY <1>1, <1>2, <1>3, <2>1, <2>2, CitesRenamed
<1>12. QED
  BY <1>9, <1>10, <1>11 DEF RenameInv

----------------------------------------------------------------------------
(* The invariant, and what it gives.                                        *)

LEMMA RenameStarts ==
  ASSUME RenameInit
  PROVE  RenameInv
<1>1. /\ log = << >> /\ DOMAIN latest = {} /\ DOMAIN attachment = {}
      /\ note = [n \in Note |-> None] /\ job = [h \in Hand |-> None]
      /\ moved = {} /\ stopped = TRUE /\ carried = TRUE
  BY DEF RenameInit, StoreInit
<1>2. log \in Seq(Event) /\ DOMAIN log = {}
  BY <1>1
<1>3. Tabled
  <2>1. StoreTypeOK /\ LatestIsNewest /\ Texted
    BY <1>1, <1>2 DEF StoreTypeOK, LatestIsNewest, Texted, IdsIn
  <2>2. QED
    BY <1>1, <2>1 DEF Tabled, RenameTypeOK
<1>4. NotesHold /\ PicturesHold /\ AmendedThere /\ FirstIsCreate
  BY <1>1, <1>2 DEF NotesHold, PicturesHold, AmendedThere, FirstIsCreate, Amending, AtRest
<1>5. OneBox
  BY <1>1, <1>2 DEF OneBox, Routing, Amending, AtRest
<1>6. CitesHold
  BY <1>1, <1>2 DEF CitesHold, Amending, AtRest
<1>7. QED
  BY <1>3, <1>4, <1>5, <1>6 DEF RenameInv

LEMMA RenameStep ==
  ASSUME RenameInv, Text \subseteq Rec, [RenameNext]_renameVars
  PROVE  RenameInv'
<1>1. CASE \E to \in Renames : \E keep \in SUBSET About(to), accept \in BOOLEAN,
             rp \in {None} \cup (Routing \X Prefix) : Rename(to, keep, accept, rp)
  BY <1>1, RenameKeeps
<1>2. CASE \E p \in Prefix : \E rec \in Contents(p) : Add(p, rec)
  BY <1>2, AddKeeps
<1>3. ASSUME NEW h \in Hand, NEW i \in Routing, ReadBox(h, i)
      PROVE  RenameInv'
  BY <1>3, ReadBoxKeeps
<1>4. ASSUME NEW h \in Hand, NEW i \in DOMAIN latest, NEW j \in DOMAIN latest, ReadRecord(h, i, j)
      PROVE  RenameInv'
  BY <1>4, ReadRecordKeeps
<1>5. ASSUME NEW h \in Hand, WriteRead(h)
      PROVE  RenameInv'
  BY <1>5, WriteReadKeeps
<1>6. ASSUME NEW h \in Hand, WriteRefused(h)
      PROVE  RenameInv'
  BY <1>6, WriteRefusedKeeps
<1>7. ASSUME NEW pic \in Pic, NEW i \in DOMAIN latest, AttachPicture(pic, i)
      PROVE  RenameInv'
  BY <1>7, AttachKeeps
<1>8. ASSUME NEW n \in Note, NEW i \in DOMAIN latest, WriteNote(n, i)
      PROVE  RenameInv'
  BY <1>8, WriteNoteKeeps
<1>9. CASE UNCHANGED renameVars
  <2>1. UNCHANGED storeVars /\ UNCHANGED history /\ note' = note /\ job' = job
    BY <1>9 DEF renameVars, history
  <2>2. /\ job \in [Hand -> Job \cup {None}] /\ note \in [Note -> (SUBSET Cite) \cup {None}]
    BY DEF RenameInv, Tabled, RenameTypeOK
  <2>3. QED
    BY <2>1, <2>2, QuietKeeps
<1>10. QED
  BY <1>1, <1>2, <1>3, <1>4, <1>5, <1>6, <1>7, <1>8, <1>9 DEF RenameNext

LEMMA RenameAlways ==
  ASSUME Text \subseteq Rec
  PROVE  UpkeepSpec => []RenameInv
<1>1. UpkeepInit => RenameInv
  BY RenameStarts DEF UpkeepInit
<1>2. RenameInv /\ [UpkeepNext]_upkeepVars => RenameInv'
  <2> SUFFICES ASSUME RenameInv, [UpkeepNext]_upkeepVars
               PROVE  RenameInv'
    OBVIOUS
  <2>1. [RenameNext]_renameVars
    BY DEF UpkeepNext, upkeepVars
  <2>2. QED
    BY <2>1, RenameStep
<1>3. QED
  BY <1>1, <1>2, PTL DEF UpkeepSpec

\* The tables, the notes and the hands stay in states of their kinds.
THEOREM RenameTypeCorrect ==
  ASSUME Text \subseteq Rec
  PROVE  UpkeepSpec => []RenameTypeOK
<1>1. RenameInv => RenameTypeOK
  BY DEF RenameInv, Tabled
<1>2. QED
  BY <1>1, RenameAlways, PTL

\* Citations shown as links lead to the records they were written about, or
\* nowhere, through any number of renames, filings and straddling amends.
THEOREM LinksKeepMeaning ==
  ASSUME Text \subseteq Rec
  PROVE  UpkeepSpec => []LinksMeanTheirRecord
<1>1. RenameInv => LinksMeanTheirRecord
  <2> SUFFICES ASSUME RenameInv, stopped, carried
               PROVE  LinksHold
    BY DEF LinksMeanTheirRecord
  <2>1. CitesHold /\ NotesHold /\ PicturesHold
    BY DEF RenameInv
  <2>2. ASSUME NEW k \in DOMAIN log, NEW c \in LinksOf(log[k])
        PROVE  log[c.of].id = c.id
    <3>1. c \in log[k].rec.cites /\ c.id \notin PlainIn(latest, log[k].id)
      BY DEF LinksOf
    <3>2. CiteHolds(log[k].id, c)
      BY <2>1, <3>1 DEF CitesHold
    <3>3. ~Vouched(log[k].id, c.id)
      BY <3>1 DEF Vouched, Shows, PlainIn
    <3>4. QED
      BY <3>2, <3>3 DEF CiteHolds
  <2>3. QED
    BY <2>1, <2>2 DEF LinksHold, NotesHold, PicturesHold
<1>2. QED
  BY <1>1, RenameAlways, PTL

\* An identifier has one create event, and it is its first.
THEOREM SpellingNamesOneRecord ==
  ASSUME Text \subseteq Rec
  PROVE  UpkeepSpec => []NamesOneRecord
<1>1. RenameInv => NamesOneRecord
  <2> SUFFICES ASSUME RenameInv, stopped, NEW k \in DOMAIN log
               PROVE  log[k].op = "create" <=> k = FiledAt(log, log[k].id)
    BY DEF NamesOneRecord
  <2>1. PICK f : f = FiledAt(log, log[k].id)
    OBVIOUS
  <2>2. log \in Seq(Event) /\ FirstIsCreate
    BY DEF RenameInv, Tabled, RenameTypeOK, StoreTypeOK
  <2>3. log[k].id \in IdsIn(log)
    BY DEF IdsIn
  <2>4. /\ f \in DOMAIN log /\ log[f].id = log[k].id
        /\ \A m \in DOMAIN log : log[m].id = log[k].id => f <= m
    BY <2>1, <2>2, <2>3, FiledAtFact
  <2>5. DOMAIN log \subseteq Nat
    BY <2>2
  <2>6. (\A m \in DOMAIN log : log[m].id = log[k].id => k <= m) <=> k = f
    BY <2>4, <2>5
  <2>7. QED
    BY <2>1, <2>2, <2>6 DEF FirstIsCreate
<1>2. QED
  BY <1>1, RenameAlways, PTL

\* No jot is filed under a prefix the box was moved away from.
THEOREM BoxFilesWhereMoved ==
  ASSUME Text \subseteq Rec
  PROVE  UpkeepSpec => BoxFilesWhereItMoved
<1> DEFINE FiledClear == stopped => \A k \in DOMAIN log' \ DOMAIN log :
                      log'[k].rec.jot /\ log'[k].op = "create" => log'[k].id[1] \notin moved
<1>1. RenameInv /\ [UpkeepNext]_upkeepVars => [FiledClear]_renameVars
  <2> SUFFICES ASSUME RenameInv, [RenameNext]_renameVars, stopped,
                      NEW k \in DOMAIN log', k \notin DOMAIN log,
                      log'[k].rec.jot, log'[k].op = "create", log'[k].id[1] \in moved
               PROVE  FALSE
    BY DEF UpkeepNext, upkeepVars
  <2>1. Tabled /\ OneBox /\ job \in [Hand -> Job \cup {None}]
    BY DEF RenameInv, Tabled, RenameTypeOK
  <2>2. ASSUME NEW to \in Renames, NEW keep, NEW accept, NEW rp \in {None} \cup (Routing \X Prefix),
               Rename(to, keep, accept, rp)
        PROVE  FALSE
    <3>1. Renamed(to, keep, rp)
      BY <2>1, <2>2, RenamesMap, TablesAfterRename DEF Rename, Repointing
    <3>2. QED
      BY <3>1 DEF Renamed
  <2>3. ASSUME NEW p \in Prefix, NEW rec \in Contents(p), Add(p, rec)
        PROVE  FALSE
    <3>1. rec \in Text /\ rec.jot = FALSE
      BY <2>1, ContentsSound
    <3>2. PICK n : Added(Created(n, rec))
      BY <2>1, <2>3, <3>1, CreateAdds DEF Add
    <3>3. QED
      BY <3>1, <3>2 DEF Added, Created
  <2>4. ASSUME NEW h \in Hand, WriteRead(h)
        PROVE  FALSE
    <3>1. job[h] \in Job /\ ~AtRest(h)
      BY <2>1, <2>4 DEF WriteRead, AtRest
    <3>2. CASE job[h].op = "file"
      <4>1. job[h].p \in Prefix /\ job[h].p \notin moved
        BY <2>1, <3>1, <3>2 DEF Job, OneBox
      <4>2. CreateTx(job[h].p, Jot) /\ Jot \in Rec
        BY <2>4, <3>2, JotIsText DEF WriteRead
      <4>3. PICK n : n[1] = job[h].p /\ Added(Created(n, Jot))
        BY <2>1, <4>1, <4>2, CreateAdds
      <4>4. log'[k].id = n
        BY <4>3 DEF Added, Created
      <4>5. QED
        BY <4>1, <4>3, <4>4
    <3>3. CASE job[h].op # "file"
      <4>1. PICK e : e = [id |-> job[h].id, op |-> "amend", rec |-> job[h].rec, basis |-> 0]
        OBVIOUS
      <4>2. job[h].id \in Id /\ job[h].rec \in Rec
        BY <3>1, <3>3 DEF Job
      <4>3. e \in Event /\ e.op = "amend"
        BY <4>1, <4>2 DEF Event
      <4>4. Commit(Inserted(Tables, <<e>>))
        BY <2>4, <3>3, <4>1 DEF WriteRead, AppendTx
      <4>5. Added(e)
        BY <2>1, <4>3, <4>4, InsertAdds
      <4>6. QED
        BY <4>3, <4>5 DEF Added
    <3>4. QED
      BY <3>2, <3>3
  <2>5. CASE log' = log
    BY <2>5
  <2>6. QED
    BY <2>2, <2>3, <2>4, <2>5
    DEF RenameNext, ReadBox, ReadRecord, WriteRefused, AttachPicture, WriteNote, storeVars, renameVars
<1>2. QED
  BY <1>1, RenameAlways, PTL DEF UpkeepSpec, BoxFilesWhereItMoved

----------------------------------------------------------------------------
(* The fields of findings: what merging, putting and carrying make of them. *)

\* A sequence of whatever it is a sequence of.
IsSeq(s) == s \in Seq(ToSet(s))

LEMMA RangedIsSeq ==
  ASSUME NEW n \in Nat, NEW s, s = [i \in 1..n |-> s[i]]
  PROVE  IsSeq(s) /\ Len(s) = n
<1>0. DOMAIN s = 1..n
  OBVIOUS
<1>1. \A i \in 1..n : s[i] \in ToSet(s)
  BY <1>0 DEF ToSet
<1>2. s \in Seq(ToSet(s)) /\ Len(s) = n
  BY <1>0, <1>1
<1>3. QED
  BY <1>2 DEF IsSeq

LEMMA SeqIsSeq ==
  ASSUME NEW S, NEW s \in Seq(S)
  PROVE  IsSeq(s)
<1>1. Len(s) \in Nat /\ s = [i \in 1..Len(s) |-> s[i]]
  OBVIOUS
<1>2. QED
  BY <1>1, RangedIsSeq

LEMMA IsSeqRanged ==
  ASSUME NEW s, IsSeq(s)
  PROVE  /\ Len(s) \in Nat
         /\ DOMAIN s = 1..Len(s)
         /\ s = [i \in 1..Len(s) |-> s[i]]
BY DEF IsSeq

LEMMA ConcatIsSeq ==
  ASSUME NEW s, NEW t, IsSeq(s), IsSeq(t)
  PROVE  IsSeq(s \o t)
<1> DEFINE S == ToSet(s) \cup ToSet(t)
<1> HIDE DEF S
<1>1. s \in Seq(ToSet(s)) /\ t \in Seq(ToSet(t))
  BY DEF IsSeq
<1>2. ToSet(s) \subseteq S /\ ToSet(t) \subseteq S
  BY DEF S
<1>3. s \in Seq(S) /\ t \in Seq(S)
  BY <1>1, <1>2
<1>4. s \o t \in Seq(S)
  BY <1>3
<1>5. QED
  BY <1>4, SeqIsSeq

LEMMA PickedIsSeq ==
  ASSUME NEW s, NEW I, IsFiniteSet(I)
  PROVE  IsSeq(Picked(s, I))
<1>1. Cardinality(I) \in Nat
  BY FS_CardinalityType
<1>2. PICK t : t = Picked(s, I)
  OBVIOUS
<1>3. t = [k \in 1..Cardinality(I) |-> t[k]]
  BY <1>2 DEF Picked
<1>4. QED
  BY <1>1, <1>2, <1>3, RangedIsSeq

LEMMA PositionsFinite ==
  ASSUME NEW s, IsSeq(s), NEW I \in SUBSET DOMAIN s
  PROVE  IsFiniteSet(I)
<1>1. DOMAIN s = 1..Len(s) /\ Len(s) \in Nat
  BY IsSeqRanged
<1>2. IsFiniteSet(DOMAIN s)
  BY <1>1, FS_Interval
<1>3. QED
  BY <1>2, FS_Subset

\* What an amend keeps is a sequence of fields again.
LEMMA MergeIsSeq ==
  ASSUME NEW old, NEW passed, NEW drop, IsSeq(old), IsSeq(passed)
  PROVE  IsSeq(Merge(old, passed, drop))
<1>1. IsSeq(Replaced(old, passed))
  <2> DEFINE count(i) == Cardinality(OfKey(passed, old[i].key))
             stay == {i \in DOMAIN old : count(i) = 0 \/ Occurrence(old, i) <= count(i)}
  <2>1. stay \in SUBSET DOMAIN old
    OBVIOUS
  <2>2. IsFiniteSet(stay)
    BY ONLY <2>1, PositionsFinite, IsSeq(old)
  <2>3. QED
    BY ONLY <2>2, PickedIsSeq DEF Replaced
<1>2. IsSeq(LeftOver(old, passed))
  <2> DEFINE over == {i \in DOMAIN passed : Occurrence(passed, i) > Cardinality(OfKey(old, passed[i].key))}
             first == {i \in over : passed[i].key = passed[1].key}
  <2>1. first \in SUBSET DOMAIN passed /\ over \ first \in SUBSET DOMAIN passed
    OBVIOUS
  <2>2. IsFiniteSet(first) /\ IsFiniteSet(over \ first)
    BY ONLY <2>1, PositionsFinite, IsSeq(passed)
  <2>3. IsSeq(Picked(passed, first)) /\ IsSeq(Picked(passed, over \ first))
    BY ONLY <2>2, PickedIsSeq
  <2>4. QED
    BY ONLY <2>3, ConcatIsSeq DEF LeftOver
<1> DEFINE all == Replaced(old, passed) \o LeftOver(old, passed)
           staying == {i \in DOMAIN all : all[i].key \notin drop /\ all[i].value \notin drop}
<1>3. IsSeq(all)
  BY ONLY <1>1, <1>2, ConcatIsSeq
<1>4. staying \in SUBSET DOMAIN all
  OBVIOUS
<1>5. IsFiniteSet(staying)
  BY ONLY <1>3, <1>4, PositionsFinite
<1>6. IsSeq(Picked(all, staying))
  BY ONLY <1>5, PickedIsSeq
<1>7. QED
  BY ONLY <1>6 DEF Merge

LEMMA PutIsSeq ==
  ASSUME NEW d, NEW key, NEW value, IsSeq(d)
  PROVE  IsSeq(Put(d, key, value))
<1>1. CASE At(d, key) = {}
  <2>1. IsSeq(<<Exactly(key, value)>>)
    <3>1. <<Exactly(key, value)>> \in Seq({Exactly(key, value)})
      OBVIOUS
    <3>2. QED
      BY <3>1, SeqIsSeq
  <2>2. Append(d, Exactly(key, value)) = d \o <<Exactly(key, value)>>
    BY DEF IsSeq
  <2>3. QED
    BY <1>1, <2>1, <2>2, ConcatIsSeq DEF Put
<1>2. CASE At(d, key) # {}
  <2>1. PICK e : e = Put(d, key, value)
    OBVIOUS
  <2>2. e = [d EXCEPT ![Least(At(d, key))] = Exactly(key, value)]
    BY <1>2, <2>1 DEF Put
  <2>3. e = [i \in 1..Len(d) |-> e[i]]
    BY <2>2, IsSeqRanged
  <2>4. QED
    BY <2>1, <2>3, IsSeqRanged, RangedIsSeq
<1>3. QED
  BY <1>1, <1>2

LEMMA SetIsSeq ==
  ASSUME NEW d, NEW state, NEW word, IsSeq(d)
  PROVE  IsSeq(Set(d, state, word))
BY PutIsSeq DEF Set

LEMMA TidiedIsSeq ==
  ASSUME NEW words, NEW passed, NEW d, IsSeq(d)
  PROVE  IsSeq(Tidied(words, passed, d))
BY PutIsSeq, SetIsSeq DEF Tidied, Fill

\* A field that is given once is found where it is.
LEMMA GetsTheOne ==
  ASSUME NEW d, IsSeq(d), KeysSound(d), NEW i \in DOMAIN d
  PROVE  Get(d, d[i].key) = d[i].value /\ At(d, d[i].key) = {i} /\ Least({i}) = i
<1>1. At(d, d[i].key) = {i}
  BY DEF At, KeysSound
<1>2. i \in Nat
  BY IsSeqRanged
<1>3. Least({i}) = i
  BY <1>2 DEF Least
<1>4. QED
  BY <1>1, <1>3 DEF Get

LEMMA GetsNone ==
  ASSUME NEW d, KeysSound(d), NEW key, \A i \in DOMAIN d : d[i].key # key
  PROVE  At(d, key) = {} /\ Get(d, key) = Empty
BY DEF At, Get

\* Writing one field of a sound record keeps it sound and the others as they
\* were.
LEMMA PutSound ==
  ASSUME NEW d, NEW key, NEW value, IsSeq(d), KeysSound(d)
  PROVE  /\ KeysSound(Put(d, key, value))
         /\ Get(Put(d, key, value), key) = value
         /\ \A other : other # key => Get(Put(d, key, value), other) = Get(d, other)
<1>1. PICK e : e = Put(d, key, value)
  OBVIOUS
<1>2. IsSeq(e)
  BY <1>1, PutIsSeq
<1>3. DOMAIN d = 1..Len(d) /\ Len(d) \in Nat
  BY IsSeqRanged
<1>4. PICK x : x = Exactly(key, value)
  OBVIOUS
<1>5. x.key = key /\ x.exact /\ x.value = value
  BY <1>4 DEF Exactly
<1> \A i \in DOMAIN d : Get(d, d[i].key) = d[i].value
  BY GetsTheOne
<1>6. CASE At(d, key) = {}
  <2>1. \A i \in DOMAIN d : d[i].key # key
    BY <1>6 DEF At, KeysSound
  <2>2. e = Append(d, x) /\ d \in Seq(ToSet(d))
    BY <1>1, <1>4, <1>6 DEF Put, IsSeq
  <2>3. /\ DOMAIN e = 1..(Len(d) + 1)
        /\ e[Len(d) + 1] = x
        /\ \A i \in 1..Len(d) : e[i] = d[i]
    BY <2>2
  <2>4. \A i \in DOMAIN e : (i \in DOMAIN d /\ e[i] = d[i]) \/ (i = Len(d) + 1 /\ e[i] = x)
    <3>1. \A i \in 1..(Len(d) + 1) : i \in 1..Len(d) \/ i = Len(d) + 1
      BY <1>3
    <3>2. QED
      BY <1>3, <2>3, <3>1
  <2>5. KeysSound(e)
    BY <1>5, <2>1, <2>4 DEF KeysSound
  <2> \A i \in DOMAIN e : Get(e, e[i].key) = e[i].value
    BY <1>2, <2>5, GetsTheOne
  <2>6. Get(e, key) = value
    <3>1. Len(d) + 1 \in DOMAIN e
      BY <1>3, <2>3
    <3>2. QED
      BY <1>5, <2>3, <3>1
  <2>7. ASSUME NEW other, other # key
        PROVE  Get(e, other) = Get(d, other)
    <3>1. CASE \E i \in DOMAIN d : d[i].key = other
      <4>1. PICK i \in DOMAIN d : d[i].key = other
        BY <3>1
      <4>2. i \in DOMAIN e /\ e[i] = d[i]
        BY <1>3, <2>3
      <4>3. QED
        BY <4>1, <4>2
    <3>2. CASE ~\E i \in DOMAIN d : d[i].key = other
      <4>1. \A i \in DOMAIN e : e[i].key # other
        BY <1>5, <2>4, <2>7, <3>2
      <4>2. QED
        BY <2>5, <3>2, <4>1, GetsNone
    <3>3. QED
      BY <3>1, <3>2
  <2>8. QED
    BY <1>1, <2>5, <2>6, <2>7
<1>7. CASE At(d, key) # {}
  <2>1. PICK i \in DOMAIN d : d[i].key = key
    BY <1>7 DEF At
  <2>2. e = [d EXCEPT ![i] = x]
    BY <1>1, <1>4, <1>7, <2>1, GetsTheOne DEF Put
  <2>3. /\ DOMAIN e = DOMAIN d
        /\ e[i] = x
        /\ \A j \in DOMAIN d : j # i => e[j] = d[j]
    BY <2>1, <2>2
  <2>4. \A j \in DOMAIN d : e[j].key = d[j].key /\ e[j].exact
    BY <1>5, <2>1, <2>3 DEF KeysSound
  <2>5. KeysSound(e)
    BY <2>3, <2>4 DEF KeysSound
  <2> \A j \in DOMAIN e : Get(e, e[j].key) = e[j].value
    BY <1>2, <2>5, GetsTheOne
  <2>6. Get(e, key) = value
    BY <1>5, <2>1, <2>3
  <2>7. ASSUME NEW other, other # key
        PROVE  Get(e, other) = Get(d, other)
    <3>1. CASE \E j \in DOMAIN d : d[j].key = other
      <4>1. PICK j \in DOMAIN d : d[j].key = other
        BY <3>1
      <4>2. e[j] = d[j]
        BY <2>1, <2>3, <2>7, <4>1
      <4>3. QED
        BY <2>3, <4>1, <4>2
    <3>2. CASE ~\E j \in DOMAIN d : d[j].key = other
      <4>1. \A j \in DOMAIN e : e[j].key # other
        BY <2>3, <2>4, <3>2
      <4>2. QED
        BY <2>5, <3>2, <4>1, GetsNone
    <3>3. QED
      BY <3>1, <3>2
  <2>8. QED
    BY <1>1, <2>5, <2>6, <2>7
<1>8. QED
  BY <1>6, <1>7

LEMMA SetSound ==
  ASSUME NEW d, NEW state, NEW word, IsSeq(d), KeysSound(d)
  PROVE  /\ KeysSound(Set(d, state, word))
         /\ StateOf(Set(d, state, word)) = state
         /\ WordOf(Set(d, state, word)) = word
<1>1. PICK e : e = Put(d, "Status", word)
  OBVIOUS
<1>2. IsSeq(e) /\ KeysSound(e) /\ Get(e, "Status") = word
  BY <1>1, PutIsSeq, PutSound
<1>3. PICK g : g = Put(e, "State", state)
  OBVIOUS
<1>4. KeysSound(g) /\ Get(g, "State") = state /\ Get(g, "Status") = word
  BY <1>2, <1>3, PutSound
<1>5. QED
  BY <1>1, <1>3, <1>4 DEF Set, StateOf, WordOf

----------------------------------------------------------------------------
(* The lists, and what the intake box and a move count on.                  *)

LEMMA WordsMeanStates ==
  ASSUME NEW list, IsSeq(list), NEW word \in DOMAIN WordsOf(list)
  PROVE  WordsOf(list)[word] \in States
<1>1. PICK i \in DOMAIN list : Parses(list[i]) /\ list[i].word = word
  BY DEF WordsOf
<1>2. Declaring(list, word) \in SUBSET Nat /\ i \in Declaring(list, word)
  BY <1>1, IsSeqRanged DEF Declaring
<1>3. PICK j \in Declaring(list, word) : \A k \in Declaring(list, word) : j <= k
  BY <1>2, SmallestOf
<1>4. Least(Declaring(list, word)) \in Declaring(list, word)
  BY <1>3 DEF Least
<1>5. QED
  BY <1>4 DEF WordsOf, Declaring, Parses

LEMMA WordsByProject ==
  ASSUME NEW lists \in [Proj -> Lists], NEW p \in Proj
  PROVE  IndexOf(lists)[p] = WordsOf(lists[p]) /\ IsSeq(lists[p])
BY FindingsAssumption DEF IndexOf, IsSeq

LEMMA UntriagedIsSound ==
  /\ IsSeq(Untriaged) /\ KeysSound(Untriaged)
  /\ StateOf(Untriaged) = "open" /\ WordOf(Untriaged) = Unreviewed
<1>1. PICK x, y : x = Exactly("Status", Unreviewed) /\ y = Exactly("State", "open")
  OBVIOUS
<1>2. /\ x.key = "Status" /\ x.exact /\ x.value = Unreviewed
      /\ y.key = "State" /\ y.exact /\ y.value = "open"
  BY <1>1 DEF Exactly
<1>3. PICK d : d = <<x, y>>
  OBVIOUS
<1>4. DOMAIN d = 1..2 /\ d[1] = x /\ d[2] = y /\ d \in Seq({x, y})
  BY <1>3
<1>5. IsSeq(d)
  BY <1>4, SeqIsSeq
<1>6. KeysSound(d)
  <2>1. \A i \in 1..2 : i = 1 \/ i = 2
    OBVIOUS
  <2>2. QED
    BY <1>2, <1>4, <2>1 DEF KeysSound
<1>7. \A i \in DOMAIN d : Get(d, d[i].key) = d[i].value
  BY <1>5, <1>6, GetsTheOne
<1>8. Get(d, "Status") = Unreviewed /\ Get(d, "State") = "open"
  <2>1. 1 \in DOMAIN d /\ 2 \in DOMAIN d
    BY <1>4
  <2>2. QED
    BY <1>2, <1>4, <1>7, <2>1
<1>9. QED
  BY <1>1, <1>3, <1>5, <1>6, <1>8 DEF Untriaged, StateOf, WordOf

\* What intake files passes where its word means open, or no word is declared.
LEMMA UntriagedAccepted ==
  ASSUME NEW lists \in [Proj -> Lists], Usual(lists)
  PROVE  Accepts(IndexOf(lists), Box, Untriaged)
<1>1. Box \in Proj
  BY FindingsAssumption
<1>2. IndexOf(lists)[Box] = WordsOf(lists[Box])
  BY <1>1, WordsByProject
<1>3. WordSound(WordsOf(lists[Box]), Untriaged)
  BY <1>1, UntriagedIsSound DEF Usual, WordSound, States
<1>4. QED
  BY <1>2, <1>3, UntriagedIsSound DEF Accepts

\* So does a record that passed, retired.
LEMMA RetiredAccepted ==
  ASSUME NEW lists \in [Proj -> Lists], Usual(lists), NEW p \in Proj, NEW d, IsSeq(d),
         Accepts(IndexOf(lists), p, d)
  PROVE  Accepts(IndexOf(lists), p, Set(d, "dropped", Superseded))
<1> SUFFICES ASSUME SomeDeclared(IndexOf(lists))
             PROVE  /\ KeysSound(Set(d, "dropped", Superseded))
                    /\ WordSound(IndexOf(lists)[p], Set(d, "dropped", Superseded))
  BY DEF Accepts
<1>1. KeysSound(d)
  BY DEF Accepts
<1>2. /\ KeysSound(Set(d, "dropped", Superseded))
      /\ StateOf(Set(d, "dropped", Superseded)) = "dropped"
      /\ WordOf(Set(d, "dropped", Superseded)) = Superseded
  BY <1>1, SetSound
<1>3. WordSound(WordsOf(lists[p]), Set(d, "dropped", Superseded))
  BY <1>2 DEF Usual, WordSound, States
<1>4. QED
  BY <1>2, <1>3, WordsByProject

\* A record that passed has a State that is one, or none.
LEMMA StateIsState ==
  ASSUME NEW lists \in [Proj -> Lists], NEW p \in Proj, NEW d,
         SomeDeclared(IndexOf(lists)), Accepts(IndexOf(lists), p, d)
  PROVE  StateOf(d) \in States \cup {Empty}
<1>1. WordSound(WordsOf(lists[p]), d) /\ IsSeq(lists[p])
  BY WordsByProject DEF Accepts
<1>2. QED
  BY <1>1, WordsMeanStates DEF WordSound

\* And so it does in another project, with the word and State it is carried
\* there with.
LEMMA CarriedAccepted ==
  ASSUME NEW lists \in [Proj -> Lists], Usual(lists), NEW p \in Proj, NEW q \in Proj,
         NEW d, IsSeq(d), Accepts(IndexOf(lists), p, d)
  PROVE  Accepts(IndexOf(lists), q, Carried(IndexOf(lists)[q], d))
<1> DEFINE words == WordsOf(lists[q])
           word == IF WordOf(d) = Empty THEN Unreviewed ELSE WordOf(d)
           there == IF word \in DOMAIN words THEN word ELSE Unreviewed
           state == IF StateOf(d) = Empty THEN "open" ELSE StateOf(d)
           meant == IF there \in DOMAIN words THEN words[there] ELSE "open"
<1> SUFFICES ASSUME SomeDeclared(IndexOf(lists))
             PROVE  KeysSound(Carried(words, d)) /\ WordSound(words, Carried(words, d))
  BY WordsByProject DEF Accepts
<1>1. KeysSound(d)
  BY DEF Accepts
<1>2. CASE DOMAIN words = {}
  <2>1. Carried(words, d) = Set(d, state, word)
    BY <1>2 DEF Carried
  <2>2. state \in States
    BY StateIsState DEF States
  <2>3. KeysSound(Set(d, state, word)) /\ StateOf(Set(d, state, word)) = state
    BY <1>1, SetSound
  <2>4. QED
    BY <1>2, <2>1, <2>2, <2>3 DEF WordSound
<1>3. CASE DOMAIN words # {}
  <2>1. Carried(words, d) = Set(d, meant, there)
    BY <1>3 DEF Carried
  <2>2. there \in DOMAIN words
    BY <1>3 DEF Usual
  <2>3. /\ KeysSound(Set(d, meant, there))
        /\ StateOf(Set(d, meant, there)) = meant
        /\ WordOf(Set(d, meant, there)) = there
    BY <1>1, SetSound
  <2>4. QED
    BY <1>3, <2>1, <2>2, <2>3 DEF WordSound
<1>4. QED
  BY <1>2, <1>3

LEMMA CarriedIsSeq ==
  ASSUME NEW words, NEW d, IsSeq(d)
  PROVE  IsSeq(Carried(words, d))
BY SetIsSeq DEF Carried

----------------------------------------------------------------------------
(* Findings: what is on its way was accepted by the lists it was judged by, *)
(* and a move that finds the record as it was read carries that record.     *)

AsRead(w) == found[w.f].version = w.version

\* A move whose record was not written since carries what stands there.
CarriesWhatStands(w) ==
  /\ w.f \in Finding /\ w.under \in Proj
  /\ w.version \in Nat /\ w.version < writes
  /\ w.by # Nil => w.by \in [Proj -> Lists]
  /\ AsRead(w) =>
       /\ found[w.f].under = Box
       /\ IsSeq(found[w.f].data)
       /\ w.data = IF w.by = Nil THEN found[w.f].data
                   ELSE Carried(IndexOf(w.by)[w.under], found[w.f].data)

OnItsWay(w) ==
  /\ IsSeq(w.data) /\ IsSeq(w.passed)
  /\ w.op # "move" /\ w.by # Nil => Accepts(IndexOf(w.by), w.under, w.data)
  /\ w.op = "move" => CarriesWhatStands(w)

FindingsInv ==
  /\ declared \in [Proj -> Lists]
  /\ writes \in Nat
  /\ found = [f \in Finding |-> found[f]]
  /\ judged = [f \in Finding |-> judged[f]]
  /\ write = [c \in Writer \cup Mover |-> write[c]]
  /\ \A f \in Filed : IsSeq(found[f].data) /\ found[f].version \in Nat /\ found[f].version < writes
  /\ \A c \in Writer \cup Mover : write[c] # Nil => OnItsWay(write[c])
  /\ FindingsPass

LEMMA FindingsStart == FindingsInit => FindingsInv
<1> SUFFICES ASSUME FindingsInit PROVE FindingsInv
  OBVIOUS
<1>1. Filed = {}
  BY DEF FindingsInit, Filed
<1>2. QED
  BY <1>1 DEF FindingsInit, FindingsInv, FindingsPass

\* A step of one command or press that writes no record.
LEMMA OneOnItsWay ==
  ASSUME FindingsInv, NEW c \in Writer \cup Mover, NEW w, w = Nil \/ OnItsWay(w),
         write' = [write EXCEPT ![c] = w], UNCHANGED <<declared, found, writes, judged>>
  PROVE  FindingsInv'
<1>1. Filed' = Filed /\ (FindingsPass' <=> FindingsPass)
  BY DEF Filed, FindingsPass
<1>2. \A v : OnItsWay(v) => OnItsWay(v)'
  BY DEF OnItsWay, CarriesWhatStands, AsRead
<1>3. /\ write' = [d \in Writer \cup Mover |-> write'[d]]
      /\ write'[c] = w
      /\ \A d \in Writer \cup Mover : d # c => write'[d] = write[d]
  BY DEF FindingsInv
<1>4. \A d \in Writer \cup Mover : write'[d] # Nil => OnItsWay(write'[d])
  BY <1>3 DEF FindingsInv
<1>5. QED
  BY <1>1, <1>2, <1>3, <1>4 DEF FindingsInv

\* Records F are as they may be written, under versions nobody read.
WrittenAs(F) ==
  /\ found' = [f \in Finding |-> found'[f]] /\ judged' = [f \in Finding |-> judged'[f]]
  /\ writes' \in Nat /\ writes <= writes'
  /\ \A f \in Finding \ F : found'[f] = found[f] /\ judged'[f] = judged[f]
  /\ \A f \in F :
       /\ found'[f].version \in writes..(writes' - 1)
       /\ IsSeq(found'[f].data)
       /\ judged'[f] # Nil => Accepts(IndexOf(judged'[f]), found'[f].under, found'[f].data)

\* A step that writes records, and after which the one who wrote is done.
LEMMA SomeWritten ==
  ASSUME FindingsInv, NEW F \in SUBSET Finding, WrittenAs(F), declared' \in [Proj -> Lists],
         write' = [c \in Writer \cup Mover |-> write'[c]],
         \A c \in Writer \cup Mover : write'[c] \in {write[c], Nil}
  PROVE  FindingsInv'
<1>1. ASSUME NEW f \in Finding, found'[f] # Nil
      PROVE  /\ IsSeq(found'[f].data) /\ found'[f].version \in Nat /\ found'[f].version < writes'
             /\ judged'[f] # Nil => Accepts(IndexOf(judged'[f]), found'[f].under, found'[f].data)
  <2>1. CASE f \in F
    BY <2>1 DEF WrittenAs, FindingsInv
  <2>2. CASE f \notin F
    <3>1. found'[f] = found[f] /\ judged'[f] = judged[f] /\ f \in Filed
      BY <1>1, <2>2 DEF WrittenAs, Filed
    <3>2. /\ IsSeq(found[f].data) /\ found[f].version \in Nat /\ found[f].version < writes
          /\ judged[f] # Nil => Accepts(IndexOf(judged[f]), found[f].under, found[f].data)
      BY <3>1 DEF FindingsInv, FindingsPass
    <3>3. writes \in Nat /\ writes' \in Nat /\ writes <= writes'
      BY DEF FindingsInv, WrittenAs
    <3>4. QED
      BY <3>1, <3>2, <3>3
  <2>3. QED
    BY <2>1, <2>2
<1>2. ASSUME NEW w, CarriesWhatStands(w)
      PROVE  CarriesWhatStands(w)'
  <2>1. w.f \in Finding /\ w.version \in Nat /\ w.version < writes'
    BY <1>2 DEF CarriesWhatStands, WrittenAs, FindingsInv
  <2>2. CASE w.f \in F
    <3>1. found'[w.f].version # w.version
      BY <1>2, <2>1, <2>2 DEF CarriesWhatStands, WrittenAs, FindingsInv
    <3>2. QED
      BY <1>2, <2>1, <3>1 DEF CarriesWhatStands, AsRead
  <2>3. CASE w.f \notin F
    <3>1. found'[w.f] = found[w.f]
      BY <2>1, <2>3 DEF WrittenAs
    <3>2. QED
      BY <1>2, <2>1, <3>1 DEF CarriesWhatStands, AsRead
  <2>4. QED
    BY <2>2, <2>3
<1>3. ASSUME NEW w, OnItsWay(w)
      PROVE  OnItsWay(w)'
  BY <1>2, <1>3 DEF OnItsWay
<1>4. \A c \in Writer \cup Mover : write'[c] # Nil => OnItsWay(write[c]) /\ write'[c] = write[c]
  BY DEF FindingsInv
<1>5. QED
  BY <1>1, <1>3, <1>4 DEF FindingsInv, FindingsPass, Filed, WrittenAs

----------------------------------------------------------------------------

LEMMA PassedIsSeq ==
  ASSUME NEW passed \in Flags
  PROVE  IsSeq(passed) /\ IsSeq(NewData(passed))
BY FindingsAssumption, UntriagedIsSound DEF IsSeq, NewData

LEMMA EmptyIsSeq == IsSeq(<<>>)
<1>1. <<>> \in Seq({})
  OBVIOUS
<1>2. QED
  BY <1>1, SeqIsSeq

LEMMA FindingsStep == FindingsInv /\ [FindingsNext]_findingsVars => FindingsInv'
<1> SUFFICES ASSUME FindingsInv, [FindingsNext]_findingsVars PROVE FindingsInv'
  OBVIOUS
<1> USE DEF findingsVars
<1>1. ASSUME NEW p \in Proj, NEW list \in Lists, Declare(p, list)
      PROVE  FindingsInv'
  <2>1. WrittenAs({})
    BY <1>1, FindingsAssumption DEF Declare, WrittenAs, FindingsInv
  <2>2. declared' \in [Proj -> Lists]
    BY <1>1 DEF Declare, FindingsInv
  <2>3. QED
    BY <1>1, <2>1, <2>2, SomeWritten DEF Declare, FindingsInv
<1>2. ASSUME NEW f \in Finding, FileJot(f)
      PROVE  FindingsInv'
  <2>1. /\ found' = [found EXCEPT ![f] = [under |-> Box, data |-> Untriaged, version |-> writes]]
        /\ judged' = [judged EXCEPT ![f] = IF Usual(declared) THEN declared ELSE Nil]
        /\ writes' = writes + 1
    BY <1>2 DEF FileJot, Stored
  <2>2. /\ found'[f].under = Box /\ found'[f].data = Untriaged /\ found'[f].version = writes
        /\ judged'[f] = IF Usual(declared) THEN declared ELSE Nil
        /\ \A g \in Finding \ {f} : found'[g] = found[g] /\ judged'[g] = judged[g]
        /\ found' = [g \in Finding |-> found'[g]] /\ judged' = [g \in Finding |-> judged'[g]]
    BY <2>1 DEF FindingsInv
  <2>3. Usual(declared) => Accepts(IndexOf(declared), Box, Untriaged)
    BY UntriagedAccepted DEF FindingsInv
  <2>4. WrittenAs({f})
    BY <2>1, <2>2, <2>3, UntriagedIsSound DEF WrittenAs, FindingsInv
  <2>5. QED
    BY <1>2, <2>4, SomeWritten DEF FileJot, FindingsInv
<1>3. ASSUME NEW c \in Writer, NEW p \in Proj, NEW passed \in Flags, BeginAdd(c, p, passed)
      PROVE  FindingsInv'
  <2>1. PICK w : w = [op |-> "add", f |-> Nil, under |-> p, passed |-> passed, data |-> NewData(passed), by |-> Nil]
    OBVIOUS
  <2>2. OnItsWay(w)
    BY <2>1, PassedIsSeq DEF OnItsWay
  <2>3. QED
    BY <1>3, <2>1, <2>2, OneOnItsWay DEF BeginAdd
<1>4. ASSUME NEW c \in Writer, NEW f \in Filed, NEW passed \in Flags,
             NEW drop \in Droppable, NEW replace \in BOOLEAN, BeginAmend(c, f, passed, drop, replace)
      PROVE  FindingsInv'
  <2>1. PICK w : w = [op |-> "amend", f |-> f, under |-> found[f].under, passed |-> passed,
                      data |-> IF replace THEN passed ELSE Merge(found[f].data, passed, drop), by |-> Nil]
    OBVIOUS
  <2>2. IsSeq(passed) /\ IsSeq(Merge(found[f].data, passed, drop))
    BY PassedIsSeq, MergeIsSeq DEF FindingsInv
  <2>3. OnItsWay(w)
    BY <2>1, <2>2 DEF OnItsWay
  <2>4. QED
    BY <1>4, <2>1, <2>3, OneOnItsWay DEF BeginAmend
<1>5. ASSUME NEW c \in Writer, Judge(c)
      PROVE  FindingsInv'
  <2>1. PICK w : w = write[c]
    OBVIOUS
  <2>2. OnItsWay(w) /\ w.op # "move"
    BY <1>5, <2>1 DEF Judge, FindingsInv
  <2>3. CASE Judges(IndexOf(declared), w)
    <3>1. PICK d : d = Tidied(IndexOf(declared)[w.under], w.passed, w.data)
      OBVIOUS
    <3>2. IsSeq(d) /\ Accepts(IndexOf(declared), w.under, d)
      BY <2>2, <2>3, <3>1, TidiedIsSeq DEF OnItsWay, Judges
    <3>3. PICK v : v = [w EXCEPT !.data = d, !.passed = <<>>, !.by = declared]
      OBVIOUS
    <3>4. OnItsWay(v)
      BY <2>2, <3>2, <3>3, EmptyIsSeq DEF OnItsWay
    <3>5. write' = [write EXCEPT ![c] = v]
      BY <1>5, <2>1, <2>3, <3>1, <3>3 DEF Judge
    <3>6. QED
      BY <1>5, <3>4, <3>5, OneOnItsWay DEF Judge
  <2>4. CASE ~Judges(IndexOf(declared), w)
    BY <1>5, <2>1, <2>4, OneOnItsWay DEF Judge
  <2>5. QED
    BY <2>3, <2>4
<1>6. ASSUME NEW c \in Writer, WriteJudged(c)
      PROVE  FindingsInv'
  <2>1. PICK w : w = write[c]
    OBVIOUS
  <2>2. OnItsWay(w) /\ w.op # "move" /\ w.by # Nil
    BY <1>6, <2>1 DEF WriteJudged, FindingsInv
  <2>3. PICK f \in (IF w.op = "add" THEN Unused ELSE {w.f}) :
          /\ Stored(f, w.under, w.data)
          /\ judged' = [judged EXCEPT ![f] = w.by]
    BY <1>6, <2>1 DEF WriteJudged
  <2>4. /\ f \in Finding => /\ found'[f].under = w.under /\ found'[f].data = w.data
                             /\ found'[f].version = writes /\ judged'[f] = w.by
        /\ \A g \in Finding \ {f} : found'[g] = found[g] /\ judged'[g] = judged[g]
        /\ found' = [g \in Finding |-> found'[g]] /\ judged' = [g \in Finding |-> judged'[g]]
        /\ writes' = writes + 1
    BY <2>3 DEF Stored, FindingsInv
  <2>5. IsSeq(w.data) /\ Accepts(IndexOf(w.by), w.under, w.data)
    BY <2>2 DEF OnItsWay
  <2>6. WrittenAs({f} \cap Finding)
    BY <2>4, <2>5 DEF WrittenAs, FindingsInv
  <2>7. QED
    BY <1>6, <2>6, SomeWritten DEF WriteJudged, FindingsInv
<1>7. ASSUME NEW c \in Mover, NEW f \in Filed, NEW p \in Proj, BeginMove(c, f, p)
      PROVE  FindingsInv'
  <2>1. PICK w : w = [op |-> "move", f |-> f, under |-> p, passed |-> <<>>, data |-> found[f].data,
                      by |-> Nil, version |-> found[f].version]
    OBVIOUS
  <2>2. f \in Finding
    BY DEF Filed
  <2>3. CarriesWhatStands(w)
    BY <1>7, <2>1, <2>2 DEF BeginMove, CarriesWhatStands, AsRead, FindingsInv
  <2>4. OnItsWay(w)
    BY <2>1, <2>3, EmptyIsSeq DEF OnItsWay, FindingsInv
  <2>5. QED
    BY <1>7, <2>1, <2>4, OneOnItsWay DEF BeginMove
<1>8. ASSUME NEW c \in Mover, CarryState(c)
      PROVE  FindingsInv'
  <2>1. PICK w : w = write[c]
    OBVIOUS
  <2>2. OnItsWay(w) /\ w.op = "move" /\ w.by = Nil /\ CarriesWhatStands(w)
    BY <1>8, <2>1 DEF CarryState, FindingsInv, OnItsWay
  <2>3. PICK d : d = Carried(IndexOf(declared)[w.under], w.data)
    OBVIOUS
  <2>4. PICK v : v = [w EXCEPT !.data = d, !.by = declared]
    OBVIOUS
  <2>5. declared \in [Proj -> Lists] /\ declared # Nil
    BY FindingsAssumption DEF FindingsInv
  <2>6. CarriesWhatStands(v)
    BY <2>2, <2>3, <2>4, <2>5 DEF CarriesWhatStands, AsRead
  <2>7. OnItsWay(v)
    BY <2>2, <2>3, <2>4, <2>6, CarriedIsSeq DEF OnItsWay
  <2>8. QED
    BY <1>8, <2>1, <2>3, <2>4, <2>7, OneOnItsWay DEF CarryState
<1>9. ASSUME NEW c \in Mover, Move(c)
      PROVE  FindingsInv'
  <2>1. PICK w : w = write[c]
    OBVIOUS
  <2>2. PICK old : old = found[w.f]
    OBVIOUS
  <2>3. OnItsWay(w) /\ CarriesWhatStands(w) /\ w.by # Nil /\ AsRead(w)
    BY <1>9, <2>1 DEF Move, FindingsInv, OnItsWay, AsRead
  <2>4. /\ w.f \in Finding /\ w.under \in Proj /\ w.by \in [Proj -> Lists]
        /\ old.under = Box /\ IsSeq(old.data)
        /\ w.data = Carried(IndexOf(w.by)[w.under], old.data) /\ IsSeq(w.data)
    BY <2>2, <2>3 DEF CarriesWhatStands, OnItsWay
  <2> DEFINE vouched(lists) == Usual(lists) /\ Accepts(IndexOf(lists), Box, old.data)
             here == [under |-> w.under, data |-> w.data, version |-> writes]
             retired == [under |-> Box, data |-> Set(old.data, "dropped", Superseded), version |-> writes + 1]
  <2>5. PICK f \in Unused :
          /\ found' = [found EXCEPT ![f] = here, ![w.f] = retired]
          /\ judged' = [judged EXCEPT ![f] = IF vouched(w.by) THEN w.by ELSE Nil,
                                      ![w.f] = IF vouched(declared) THEN declared ELSE Nil]
    BY <1>9, <2>1, <2>2, <2>4 DEF Move
  <2>6. /\ IsSeq(Set(old.data, "dropped", Superseded))
        /\ vouched(declared) => Accepts(IndexOf(declared), Box, Set(old.data, "dropped", Superseded))
    BY <2>4, SetIsSeq, RetiredAccepted, FindingsAssumption DEF FindingsInv
  <2>7. vouched(w.by) => Accepts(IndexOf(w.by), w.under, w.data)
    BY <2>4, CarriedAccepted, FindingsAssumption
  <2>8. writes' = writes + 2 /\ f \in Finding
    BY <1>9 DEF Move, Unused
  <2>9. /\ found'[w.f] = retired /\ judged'[w.f] = IF vouched(declared) THEN declared ELSE Nil
        /\ f # w.f => found'[f] = here /\ judged'[f] = IF vouched(w.by) THEN w.by ELSE Nil
        /\ \A g \in Finding \ {f, w.f} : found'[g] = found[g] /\ judged'[g] = judged[g]
        /\ found' = [g \in Finding |-> found'[g]] /\ judged' = [g \in Finding |-> judged'[g]]
    BY <2>4, <2>5, <2>8 DEF FindingsInv
  <2> HIDE DEF vouched
  <2>10. WrittenAs({f, w.f})
    BY <2>4, <2>6, <2>7, <2>8, <2>9 DEF WrittenAs, FindingsInv
  <2>11. QED
    BY <1>9, <2>4, <2>8, <2>10, SomeWritten DEF Move, FindingsInv
<1>10. ASSUME NEW c \in Mover, MoveRefused(c)
       PROVE  FindingsInv'
  BY <1>10, OneOnItsWay DEF MoveRefused
<1>11. CASE UNCHANGED findingsVars
  <2>1. WrittenAs({})
    BY <1>11 DEF WrittenAs, FindingsInv
  <2>2. QED
    BY <1>11, <2>1, SomeWritten DEF FindingsInv
<1>12. QED
  BY <1>1, <1>2, <1>3, <1>4, <1>5, <1>6, <1>7, <1>8, <1>9, <1>10, <1>11 DEF FindingsNext

LEMMA FindingsAlways == UpkeepSpec => []FindingsInv
<1>1. UpkeepInit => FindingsInv
  BY FindingsStart DEF UpkeepInit
<1>2. FindingsInv /\ [UpkeepNext]_upkeepVars => FindingsInv'
  BY FindingsStep DEF UpkeepNext, upkeepVars
<1>3. QED
  BY <1>1, <1>2, PTL DEF UpkeepSpec

\* The gate rejects no finding for what a command, the intake box or a move
\* wrote, under the lists that write was made by, for any projects, lists and
\* fields and any number of commands at once.
THEOREM FindingsPassAlways == UpkeepSpec => []FindingsPass
<1>1. FindingsInv => FindingsPass
  BY DEF FindingsInv
<1>2. QED
  BY <1>1, FindingsAlways, PTL
=============================================================================
