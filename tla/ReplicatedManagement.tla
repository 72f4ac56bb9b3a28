------------------------ MODULE ReplicatedManagement ------------------------
(***************************************************************************)
(* PostgresManagementStore in several control API processes that share one *)
(* database.  Each process serves from its memory copy; a write, under the *)
(* process's write_lock, is computed from the copy and committed only if   *)
(* the database still has the copy's version.  A write that finds another  *)
(* version reloads the copy, table by table and without a transaction, and *)
(* fails; a quota reservation fails and does not even reload.              *)
(*                                                                         *)
(* The rows of a table are abstracted to the writes that made them.  An    *)
(* await that ends in a database error, or whose handler is dropped, leaves *)
(* the lock and the copy as they were.                                     *)
(***************************************************************************)
EXTENDS Naturals, Sequences

CONSTANTS
  Replicas,    \* control API processes
  Tables,      \* the tables of the management data
  Kinds,       \* the kinds of writes
  Touches,     \* the tables that a kind of write changes
  TableOrder,  \* the order in which load_data_pg reads the tables
  MaxWrites,   \* bound on the version
  MaxFaults    \* bound on the faults

Reserve == "reserve" \* PreConsumeQuotaRequest
Settle == "settle"   \* SettleUsageRequest

ASSUME ReplicatedAssumption ==
  /\ {Reserve, Settle} \subseteq Kinds
  /\ Touches \in [Kinds -> SUBSET Tables]
  /\ TableOrder \in Seq(Tables)
  /\ \A t \in Tables : \E i \in DOMAIN TableOrder : TableOrder[i] = t

VARIABLES
  database, \* control_meta.version and the tables
  copy,     \* the memory copy of each process
  writer,   \* the handler that holds each process's write_lock
  faults    \* how many faults there were

replica_vars == <<database, copy, writer, faults>>

Content == [Tables -> [Kinds -> Nat]]
Data == [version : Nat, tables : Content]

\* idle: the lock is free.  commit: a candidate or plan is computed, from the
\* copy.  committed: the transaction has committed.  load: load_data_pg runs and
\* has read the version and the first `read` tables into `loaded`.  connect: it
\* runs because the process starts, which serves nobody until it is done.
Writer ==
  [pc : {"idle", "commit", "committed", "load", "connect"}, kind : Kinds, next : Data,
   loaded : Data, read : 0..Len(TableOrder)]

NewData == [version |-> 1, tables |-> [t \in Tables |-> [w \in Kinds |-> 0]]]
IdleWriter ==
  [pc |-> "idle", kind |-> Settle, next |-> NewData, loaded |-> NewData, read |-> 0]

ReplicaTypeOK ==
  /\ database \in Data
  /\ copy \in [Replicas -> Data]
  /\ writer \in [Replicas -> Writer]
  /\ faults \in Nat

\* The database was seeded, and every process has loaded it.
ReplicaInit ==
  /\ database = NewData
  /\ copy = [p \in Replicas |-> NewData]
  /\ writer = [p \in Replicas |-> IdleWriter]
  /\ faults = 0

Store == INSTANCE VersionedStore WITH version <- database.version,
                                      applied <- database.tables

-----------------------------------------------------------------------------
(***************************************************************************)
(* A write                                                                 *)
(***************************************************************************)

\* Usage settlements and reservations update the rows they change; any other
\* write saves all tables.
Saves(w) == IF w \in {Reserve, Settle} THEN Touches[w] ELSE Tables

\* write_lock.lock(), and the candidate or the plan.
Plan(p, w) ==
  /\ writer[p].pc = "idle"
  /\ copy[p].version <= MaxWrites
  /\ writer' = [writer EXCEPT ![p] =
       [@ EXCEPT !.pc = "commit", !.kind = w,
                 !.next = [version |-> copy[p].version + 1,
                           tables |-> Store!Apply(copy[p].tables, w)]]]
  /\ UNCHANGED <<database, copy>>

\* ensure_expected_management_version
IsCurrent(p) == database.version = copy[p].version

\* The rows after a transaction that saves what a handler computed.
SavedRows(p) ==
  [version |-> writer[p].next.version,
   tables |-> [t \in Tables |-> IF t \in Saves(writer[p].kind)
                                  THEN writer[p].next.tables[t] ELSE database.tables[t]]]

\* Variant of Commit: the version in the database is not looked at.
CommitBlind(p) ==
  /\ writer[p].pc = "commit"
  /\ database' = SavedRows(p)
  /\ writer' = [writer EXCEPT ![p] = [@ EXCEPT !.pc = "committed"]]
  /\ UNCHANGED copy

\* save_data_pg_if_current and persist_usage_settlement_pg, when the version row
\* they lock has the expected version.
Commit(p) ==
  /\ writer[p].pc = "commit"
  /\ IsCurrent(p)
  /\ database' = SavedRows(p)
  /\ writer' = [writer EXCEPT ![p] = [@ EXCEPT !.pc = "committed"]]
  /\ UNCHANGED copy

Unlocked(p) == writer' = [writer EXCEPT ![p] = IdleWriter]

\* replace_data, or apply_planned_usage_settlement, and the answer.
PublishCopy(p) ==
  /\ writer[p].pc = "committed"
  /\ copy' = [copy EXCEPT ![p] = writer[p].next]
  /\ Unlocked(p)
  /\ UNCHANGED database

\* The transaction fails, or its answer is lost after it committed.
CommitFails(p) ==
  /\ writer[p].pc \in {"commit", "committed"}
  /\ Unlocked(p)
  /\ UNCHANGED <<database, copy>>

-----------------------------------------------------------------------------
(***************************************************************************)
(* StaleManagementVersion and load_data_pg                                 *)
(***************************************************************************)

\* The first read of load_data_pg takes the version.
StartLoad(p, pc) ==
  writer' = [writer EXCEPT ![p] =
    [IdleWriter EXCEPT !.pc = pc, !.loaded = [NewData EXCEPT !.version = database.version]]]

Loading(p) == writer[p].pc \in {"load", "connect"}

\* Variant of Rejected: no write reloads the copy.
RejectedOnly(p) ==
  /\ writer[p].pc = "commit"
  /\ ~IsCurrent(p)
  /\ Unlocked(p)
  /\ UNCHANGED <<database, copy>>

\* Another process has written: a reservation gives up, any other write reloads
\* the copy and then gives up.
Rejected(p) ==
  /\ writer[p].pc = "commit"
  /\ ~IsCurrent(p)
  /\ \/ writer[p].kind = Reserve /\ Unlocked(p)
     \/ writer[p].kind # Reserve /\ StartLoad(p, "load")
  /\ UNCHANGED <<database, copy>>

\* Variant of ReadTable: the version is read with the last table, not first.
ReadTableVersionLast(p) ==
  LET i == writer[p].read + 1 IN
  /\ Loading(p)
  /\ i \in DOMAIN TableOrder
  /\ writer' = [writer EXCEPT ![p] =
       [@ EXCEPT !.read = i,
                 !.loaded = [version |-> database.version,
                             tables |-> [writer[p].loaded.tables EXCEPT
                                ![TableOrder[i]] = database.tables[TableOrder[i]]]]]]
  /\ UNCHANGED <<database, copy>>

ReadTable(p) ==
  LET i == writer[p].read + 1 IN
  /\ Loading(p)
  /\ i \in DOMAIN TableOrder
  /\ writer' = [writer EXCEPT ![p] =
       [@ EXCEPT !.read = i,
                 !.loaded = [version |-> writer[p].loaded.version,
                             tables |-> [writer[p].loaded.tables EXCEPT
                                ![TableOrder[i]] = database.tables[TableOrder[i]]]]]]
  /\ UNCHANGED <<database, copy>>

\* refresh_from_database, and the end of connect.
Replace(p) ==
  /\ Loading(p)
  /\ writer[p].read = Len(TableOrder)
  /\ copy' = [copy EXCEPT ![p] = writer[p].loaded]
  /\ Unlocked(p)
  /\ UNCHANGED database

\* A read fails, or the handler is dropped.
LoadFails(p) ==
  /\ writer[p].pc = "load"
  /\ Unlocked(p)
  /\ UNCHANGED <<database, copy>>

\* The process is restarted, at any point, and once more if it cannot connect:
\* load_or_seed_pg finds the data and loads it.  The old copy is not read again.
RestartReplica(p) ==
  /\ StartLoad(p, "connect")
  /\ UNCHANGED <<database, copy>>

-----------------------------------------------------------------------------
Step(p) == Commit(p) \/ PublishCopy(p) \/ Rejected(p) \/ ReadTable(p) \/ Replace(p)
Fault(p) == CommitFails(p) \/ LoadFails(p) \/ RestartReplica(p)

ReplicaNext ==
  \/ /\ \E p \in Replicas : (\E w \in Kinds : Plan(p, w)) \/ Step(p)
     /\ UNCHANGED faults
  \/ /\ faults < MaxFaults
     /\ \E p \in Replicas : Fault(p)
     /\ faults' = faults + 1

ReplicaSpec == ReplicaInit /\ [][ReplicaNext]_replica_vars

-----------------------------------------------------------------------------
(***************************************************************************)
(* Properties                                                              *)
(***************************************************************************)

\* The database changes only by whole writes, each applied to everything that
\* was written before: no process overwrites what another has committed, with
\* rows computed from an old copy or from a copy that was loaded while the
\* other one committed.
ImplementsStore == Store!StoreSpec

\* A copy that has the version of the database has its content.  load_data_pg
\* may mix tables from before and after a commit, but then the version it read
\* first is an old one, and the next write is refused.
CopyIsVersioned ==
  \A p \in Replicas : IsCurrent(p) => copy[p].tables = database.tables

\* Every process that keeps receiving usage reports catches up with the writes
\* of the others, once those and the faults have ended, as their bounds make
\* them.
CopiesCatchUp == \A p \in Replicas : []<>IsCurrent(p)

=============================================================================
