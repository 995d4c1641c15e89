---------------------------- MODULE RecordStore ----------------------------
(***************************************************************************)
(* Every writing call of internal/store on records and their pictures, run *)
(* by several callers at once: the web process and any number of `mustur`  *)
(* commands on one database file.  A call that is one transaction is one   *)
(* step.  Append is two, because its check and its INSERT are two          *)
(* statements outside a transaction; a compare-and-set is two calls with   *)
(* anything in between.                                                    *)
(***************************************************************************)
EXTENDS RecordLog, FiniteSets

CONSTANTS
  Client,     \* processes and request handlers that use the store
  NoRead,     \* what a client that has read nothing holds
  SeedId,     \* identifiers a client passes to Append("create"), which the seed does
  BatchId,    \* identifiers an import passes to AppendAll
  MaxEvents   \* bound: rows of record_event

ASSUME BoundAssumption == MaxEvents \in Nat
ASSUME GivenIdsAssumption ==
  SeedId \subseteq Id /\ BatchId \subseteq Id /\ IsFiniteSet(BatchId)
ASSUME NoReadAssumption ==
  NoRead \notin Id \X (Nat \ {0}) /\ NoRead \notin Id \X {"create", "amend"}

VARIABLES
  seen,     \* the record and version a client read last, for a checked write
  pending   \* the Append a client has checked and not inserted yet

clientVars == <<seen, pending>>
vars == <<storeVars, clientVars>>

Idle(c) == pending[c] = NoRead

Room(n) == Len(log) + n <= MaxEvents

Init ==
  /\ StoreInit
  /\ seen = [c \in Client |-> NoRead]
  /\ pending = [c \in Client |-> NoRead]

----------------------------------------------------------------------------

\* GetVersioned: the payload and the seq of its row.
GetVersioned(c, i) ==
  /\ Idle(c)
  /\ i \in DOMAIN latest
  /\ seen' = [seen EXCEPT ![c] = <<i, Version(i)>>]
  /\ UNCHANGED <<storeVars, pending>>

Create(c, p, r) ==
  /\ Idle(c) /\ Room(1)
  /\ CreateTx(p, r)
  /\ UNCHANGED <<attachment, clientVars>>

\* The records of a batch in the order the caller listed them.
Orders(S) ==
  {b \in [1..Cardinality(S) -> S] : \A m, n \in 1..Cardinality(S) : b[m] = b[n] => m = n}

\* One transaction for the whole batch; a record that exists refuses it all.
AppendAll(c, S, r) ==
  /\ Idle(c) /\ S # {} /\ Room(Cardinality(S))
  /\ S \cap IdsIn(log) = {}
  /\ \E b \in Orders(S) :
       Commit(Inserted(Tables, [k \in DOMAIN b |-> Created(b[k], r)]))
  /\ UNCHANGED <<attachment, clientVars>>

\* Append, first statement: the op must fit what record_latest holds.
AppendCheck(c, i, op) ==
  /\ Idle(c)
  /\ (op = "amend") <=> (i \in DOMAIN latest)
  /\ op = "create" => i \in SeedId
  /\ pending' = [pending EXCEPT ![c] = <<i, op>>]
  /\ UNCHANGED <<storeVars, seen>>

\* Append, second statement: the INSERT, whatever happened in between.
AppendInsert(c, r) ==
  /\ ~Idle(c) /\ Room(1)
  /\ AppendTx(pending[c][1], pending[c][2], r)
  /\ pending' = [pending EXCEPT ![c] = NoRead]
  /\ UNCHANGED <<attachment, seen>>

\* AmendIf and Supersede with the version the client read.  ErrChanged writes
\* nothing: the client reads again.
AmendIf(c, r) ==
  /\ Idle(c) /\ seen[c] # NoRead /\ Room(1)
  /\ AmendIfTx(seen[c][1], seen[c][2], r)
  /\ seen' = [seen EXCEPT ![c] = NoRead]
  /\ UNCHANGED <<attachment, pending>>

Supersede(c, p, fresh, stub) ==
  /\ Idle(c) /\ seen[c] # NoRead /\ Room(2)
  /\ SupersedeTx(p, fresh, seen[c][1], seen[c][2], stub)
  /\ seen' = [seen EXCEPT ![c] = NoRead]
  /\ UNCHANGED pending

ErrChanged(c) ==
  /\ Idle(c) /\ seen[c] # NoRead
  /\ ~AtVersion(seen[c][1], seen[c][2])
  /\ seen' = [seen EXCEPT ![c] = NoRead]
  /\ UNCHANGED <<storeVars, pending>>

\* Rebuild: delete every row of record_latest and replay, in one transaction.
Rebuild ==
  /\ latest' = Replayed(log)
  /\ UNCHANGED <<log, attachment, clientVars>>

\* The identifiers a caller may name: Attach looks up no record.
Givable == DOMAIN latest \cup SeedId \cup BatchId

Attach(c, pic, i) ==
  /\ Idle(c)
  /\ AttachTx(pic, i)
  /\ UNCHANGED <<log, latest, clientVars>>

Forget(c, pic) ==
  /\ Idle(c)
  /\ ForgetTx(pic)
  /\ UNCHANGED <<log, latest, clientVars>>

ClientStep(c) ==
  \/ \E i \in DOMAIN latest : GetVersioned(c, i)
  \/ \E p \in Prefix, r \in Rec : Create(c, p, r)
  \/ \E S \in SUBSET BatchId, r \in Rec : AppendAll(c, S, r)
  \/ \E i \in DOMAIN latest : AppendCheck(c, i, "amend")
  \/ \E i \in SeedId : AppendCheck(c, i, "create")
  \/ \E r \in Rec : AppendInsert(c, r)
  \/ \E r \in Rec : AmendIf(c, r)
  \/ \E p \in Prefix, fresh \in Rec, stub \in Rec : Supersede(c, p, fresh, stub)
  \/ ErrChanged(c)
  \/ \E pic \in Pic, i \in Givable : Attach(c, pic, i)
  \/ \E pic \in Pic : Forget(c, pic)

Next == Rebuild \/ \E c \in Client : ClientStep(c)

Spec == Init /\ [][Next]_vars

----------------------------------------------------------------------------
(* Properties.                                                              *)

\* The tables, and what the clients hold between two calls, have their types.
TypeOK ==
  /\ StoreTypeOK
  /\ seen \in [Client -> (Id \X (Nat \ {0})) \cup {NoRead}]
  /\ pending \in [Client -> (Id \X {"create", "amend"}) \cup {NoRead}]

\* A write that carried a version loses nobody's write: between the version it
\* compared with and the event it wrote, no event touched the record
\* (AmendIf and Supersede, supersede.go: "only right if nothing changed the
\* record since it was read").
CheckedWriteLosesNothing ==
  \A k \in DOMAIN log : log[k].basis # 0 =>
    /\ log[k].basis < k
    /\ log[log[k].basis].id = log[k].id
    /\ \A m \in DOMAIN log : log[m].id = log[k].id => m <= log[k].basis \/ k <= m

\* An identifier is issued once and before anything amends it: serials are
\* never reused, whoever allocates them and whatever a batch brought in
\* (NextID and Create).  It is stated for a store no client seeds.
IssuedOnce ==
  \A k \in DOMAIN log :
    (log[k].op = "create") <=> (\A m \in DOMAIN log : log[m].id = log[k].id => k <= m)

Readable == INSTANCE RecordMap WITH Ids <- Id, Says <- Rec, records <- latest

\* To a reader the store is RecordMap: whatever callers interleave, a step files
\* records nobody knew, rewrites one, or replaces one by a new one; a rebuild
\* is no step at all; and a version a reader compares stands for one state of
\* one record (record_latest, read by Get, GetVersioned and List).
StoreIsAMap == Readable!Spec
=============================================================================
