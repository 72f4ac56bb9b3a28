---------------------------- MODULE SnapshotSync ----------------------------
(***************************************************************************)
(* How a change at the control plane reaches the gateway.  A snapshot is   *)
(* put together from three stores that change independently: the           *)
(* management data, the proxies and the options.  Only the management data *)
(* carries a version, so a handler that changes one of the other two bumps *)
(* that version before it publishes.  Publication reads the stores one     *)
(* after the other and hands the result to the snapshot bus, which refuses *)
(* a version below its own.  Gateway workers poll the bus with the version *)
(* they hold.                                                              *)
(*                                                                         *)
(* What a store contains is the number of changes it has seen.  Management *)
(* changes are atomic here (module Settlement) and durable: this is the    *)
(* control plane over one of the SQL backends.                             *)
(***************************************************************************)
EXTENDS Naturals, FiniteSets

CONSTANTS
  Publishers,     \* identities for the running request handlers of control-api
  Workers,        \* gateway worker threads, each with a snapshot of its own
  SnapshotFaults, \* what may go wrong, a subset of AllSnapshotFaults
  MaxChanges,     \* bound on the changes of the three stores
  MaxQuotaOnly    \* bound on the changes that the snapshot does not show

\* bump, apply: that call of a handler fails, or the handler is dropped in it.
\* silent: a reservation or a settlement changes whether a token is usable
\*   and its handler does not publish.
\* lost: a poll fails.  unindexed: the worker cannot index the snapshot.
\* restart: control-api starts again.  worker: a gateway worker does.
AllSnapshotFaults == {"bump", "apply", "silent", "lost", "unindexed", "restart", "worker"}

ASSUME SnapshotSyncAssumption ==
  /\ SnapshotFaults \subseteq AllSnapshotFaults
  /\ MaxChanges \in Nat
  /\ MaxQuotaOnly \in Nat

VARIABLES
  version,     \* ManagementData.version
  content,     \* the contents of the three stores
  publisher,   \* the running handlers
  bus,         \* MemorySnapshotBus: the snapshot it holds
  worker,      \* the gateway workers
  unannounced, \* history: changes that no handler will publish any more
  exhausted,   \* history: the last change in which a settlement exhausted a token
  quiet        \* history: the number of changes the snapshot does not show

snapshot_vars == <<version, content, publisher, bus, worker, unannounced, exhausted, quiet>>

Stores == {"data", "proxies", "options"}
Changes == 0..MaxChanges
Snapshot == [version : Nat, content : [Stores -> Changes]]

Empty == [version |-> 0, content |-> [s \in Stores |-> 0]]

PublishStages == {"idle", "bump", "apply", "read_data", "read_proxies", "read_options", "publish"}

\* change: the store and the content that the handler is about to announce.
Publisher == [pc : PublishStages, change : Stores \X Changes, draft : Snapshot]
IdlePublisher == [pc |-> "idle", change |-> <<"data", 0>>, draft |-> Empty]

\* A worker boots, sleeps between polls, or has an answer on its way.
Worker == [pc : {"boot", "sleep", "answer"}, since : Nat, held : Snapshot,
           modified : BOOLEAN, answer : Snapshot]
BootingWorker == [pc |-> "boot", since |-> 0, held |-> Empty,
                  modified |-> FALSE, answer |-> Empty]

SnapshotTypeOK ==
  /\ version \in Nat
  /\ content \in [Stores -> Changes]
  /\ publisher \in [Publishers -> Publisher]
  /\ bus \in Snapshot /\ bus.version <= version
  /\ worker \in [Workers -> Worker]
  /\ unannounced \in SUBSET (Stores \X Changes)
  /\ exhausted \in Changes
  /\ quiet \in 0..MaxQuotaOnly

\* try_from_config publishes the stored state before it serves requests.
Current == [version |-> version, content |-> content]

SnapshotInit ==
  /\ version = 1
  /\ content = [s \in Stores |-> 0]
  /\ publisher = [h \in Publishers |-> IdlePublisher]
  /\ bus = Current
  /\ worker = [w \in Workers |-> BootingWorker]
  /\ unannounced = {}
  /\ exhausted = 0
  /\ quiet = 0

-----------------------------------------------------------------------------
(***************************************************************************)
(* The stores                                                              *)
(***************************************************************************)

TotalChanges == content["data"] + content["proxies"] + content["options"]

\* A change of store s that the snapshot shows.
Change(s) ==
  /\ TotalChanges < MaxChanges
  /\ content' = [content EXCEPT ![s] = @ + 1]

Enter(h, s, pc) ==
  /\ publisher[h].pc = "idle"
  /\ publisher' = [publisher EXCEPT ![h] =
       [@ EXCEPT !.pc = pc, !.change = <<s, content[s] + 1>>]]

Leave(h) == publisher' = [publisher EXCEPT ![h] = IdlePublisher]

Advance(h, pc) == publisher' = [publisher EXCEPT ![h] = [@ EXCEPT !.pc = pc]]

\* A handler that changes users, tokens or channels: mutate advances the
\* version with the data, and the handler goes on to publish.
ChangeData(h) ==
  /\ Enter(h, "data", "read_data")
  /\ Change("data")
  /\ version' = version + 1
  /\ UNCHANGED <<bus, worker, unannounced, exhausted, quiet>>

\* Variant of ChangeStore: the handler publishes without a bump.
ChangeStoreUnbumped(h, s) ==
  /\ Enter(h, s, "read_data")
  /\ Change(s)
  /\ UNCHANGED <<version, bus, worker, unannounced, exhausted, quiet>>

\* update_option, create_proxy, update_proxy, delete_proxy: the store first.
ChangeStore(h, s) ==
  /\ Enter(h, s, "bump")
  /\ Change(s)
  /\ UNCHANGED <<version, bus, worker, unannounced, exhausted, quiet>>

\* Then management.bump_version().
Bump(h) ==
  /\ publisher[h].pc = "bump"
  /\ version' = version + 1
  /\ Advance(h, "read_data")
  /\ UNCHANGED <<content, bus, worker, unannounced, exhausted, quiet>>

BumpFailed(h) ==
  /\ "bump" \in SnapshotFaults
  /\ publisher[h].pc = "bump"
  /\ unannounced' = unannounced \cup {publisher[h].change}
  /\ Leave(h)
  /\ UNCHANGED <<version, content, bus, worker, exhausted, quiet>>

\* gateway_usage: a settlement that exhausts a token writes the quotas of its
\* rows before it publishes, and returns when that fails.
Exhaust(h) ==
  /\ Enter(h, "data", "apply")
  /\ Change("data")
  /\ version' = version + 1
  /\ exhausted' = content["data"] + 1
  /\ UNCHANGED <<bus, worker, unannounced, quiet>>

ApplyQuotas(h) ==
  /\ publisher[h].pc = "apply"
  /\ Advance(h, "read_data")
  /\ UNCHANGED <<version, content, bus, worker, unannounced, exhausted, quiet>>

ApplyQuotasFailed(h) ==
  /\ "apply" \in SnapshotFaults
  /\ publisher[h].pc = "apply"
  /\ unannounced' = unannounced \cup {publisher[h].change}
  /\ Leave(h)
  /\ UNCHANGED <<version, content, bus, worker, exhausted, quiet>>

\* A reservation that exhausts a token, or a settlement whose refund makes one
\* usable again: tokens_exhausted is zero, or nobody looks at it.
ChangeSilently ==
  /\ "silent" \in SnapshotFaults
  /\ Change("data")
  /\ version' = version + 1
  /\ unannounced' = unannounced \cup {<<"data", content["data"] + 1>>}
  /\ UNCHANGED <<publisher, bus, worker, exhausted, quiet>>

\* Every other reservation and settlement: the version moves, no publication.
ChangeQuotaOnly ==
  /\ quiet < MaxQuotaOnly
  /\ version' = version + 1
  /\ quiet' = quiet + 1
  /\ UNCHANGED <<content, publisher, bus, worker, unannounced, exhausted>>

-----------------------------------------------------------------------------
(***************************************************************************)
(* publish_enriched_management_snapshot                                    *)
(***************************************************************************)

\* current_data: the data and its version, in one read.
ReadData(h) ==
  /\ publisher[h].pc = "read_data"
  /\ LET draft == [version |-> version,
                   content |-> [Empty.content EXCEPT !["data"] = content["data"]]]
     IN publisher' = [publisher EXCEPT ![h] =
          [@ EXCEPT !.pc = "read_proxies", !.draft = draft]]
  /\ UNCHANGED <<version, content, bus, worker, unannounced, exhausted, quiet>>

\* apply_channel_proxies, then options.values().
ReadStore(h, s, here, next) ==
  /\ publisher[h].pc = here
  /\ LET draft == [version |-> publisher[h].draft.version,
                   content |-> [publisher[h].draft.content EXCEPT ![s] = content[s]]]
     IN publisher' = [publisher EXCEPT ![h] = [@ EXCEPT !.pc = next, !.draft = draft]]
  /\ UNCHANGED <<version, content, bus, worker, unannounced, exhausted, quiet>>

ReadProxies(h) == ReadStore(h, "proxies", "read_proxies", "read_options")
ReadOptions(h) == ReadStore(h, "options", "read_options", "publish")

\* Variant of Accepts: the bus takes any snapshot.
AcceptsAll(snapshot) == TRUE

\* The bus refuses a version below its own with StaleVersion.
Accepts(snapshot) == snapshot.version >= bus.version

Publish(h) ==
  /\ publisher[h].pc = "publish"
  /\ bus' = IF Accepts(publisher[h].draft) THEN publisher[h].draft ELSE bus
  /\ Leave(h)
  /\ UNCHANGED <<version, content, worker, unannounced, exhausted, quiet>>

\* The stores are durable; a handler that had changed one of the stores and
\* not reached the version is cut off.
RestartControl ==
  /\ "restart" \in SnapshotFaults
  /\ unannounced' = unannounced \cup
       {publisher[h].change : h \in {k \in Publishers : publisher[k].pc = "bump"}}
  /\ publisher' = [h \in Publishers |-> IdlePublisher]
  /\ bus' = Current
  /\ UNCHANGED <<version, content, worker, exhausted, quiet>>

-----------------------------------------------------------------------------
(***************************************************************************)
(* The gateway worker                                                      *)
(***************************************************************************)

\* run_worker_async asks without a version: the bus always answers with its
\* snapshot.  A failed load is tried again; a worker that has failed thirty times
\* gives up and serves nothing, as one does that never takes this step.
Load(w) ==
  /\ worker[w].pc = "boot"
  /\ worker' = [worker EXCEPT ![w] =
       [@ EXCEPT !.pc = "sleep", !.held = bus, !.since = bus.version]]
  /\ UNCHANGED <<version, content, publisher, bus, unannounced, exhausted, quiet>>

\* spawn_snapshot_polling: the bus answers NotModified to a version that is
\* not below its own.  The answer travels while the stores go on changing.
Poll(w) ==
  /\ worker[w].pc = "sleep"
  /\ worker' = [worker EXCEPT ![w] =
       [@ EXCEPT !.pc = "answer", !.answer = bus,
                 !.modified = (worker[w].since < bus.version)]]
  /\ UNCHANGED <<version, content, publisher, bus, unannounced, exhausted, quiet>>

\* A poll that leaves the worker with the snapshot and the version it has.
Unchanged(w) ==
  worker' = [worker EXCEPT ![w] =
    [@ EXCEPT !.pc = "sleep", !.answer = Empty, !.modified = FALSE]]

NotModified(w) ==
  /\ worker[w].pc = "answer"
  /\ ~worker[w].modified
  /\ LET known == worker[w].answer.version
         since == IF worker[w].since < known THEN known ELSE worker[w].since
     IN worker' = [worker EXCEPT ![w] =
          [@ EXCEPT !.pc = "sleep", !.answer = Empty, !.since = since]]
  /\ UNCHANGED <<version, content, publisher, bus, unannounced, exhausted, quiet>>

\* store_snapshot
Updated(w) ==
  /\ worker[w].pc = "answer"
  /\ worker[w].modified
  /\ worker' = [worker EXCEPT ![w] =
       [@ EXCEPT !.pc = "sleep", !.answer = Empty, !.modified = FALSE,
                 !.held = worker[w].answer, !.since = worker[w].answer.version]]
  /\ UNCHANGED <<version, content, publisher, bus, unannounced, exhausted, quiet>>

\* The snapshot does not index, or the poll fails: a warning.
Unindexed(w) ==
  /\ "unindexed" \in SnapshotFaults
  /\ worker[w].pc = "answer"
  /\ worker[w].modified
  /\ Unchanged(w)
  /\ UNCHANGED <<version, content, publisher, bus, unannounced, exhausted, quiet>>

PollFailed(w) ==
  /\ "lost" \in SnapshotFaults
  /\ worker[w].pc = "answer"
  /\ Unchanged(w)
  /\ UNCHANGED <<version, content, publisher, bus, unannounced, exhausted, quiet>>

WorkerRestart(w) ==
  /\ "worker" \in SnapshotFaults
  /\ worker' = [worker EXCEPT ![w] = BootingWorker]
  /\ UNCHANGED <<version, content, publisher, bus, unannounced, exhausted, quiet>>

-----------------------------------------------------------------------------
Announce(h) ==
  \/ Bump(h) \/ BumpFailed(h) \/ ApplyQuotas(h) \/ ApplyQuotasFailed(h)
  \/ ReadData(h) \/ ReadProxies(h) \/ ReadOptions(h) \/ Publish(h)

Handle(h) ==
  \/ ChangeData(h) \/ Exhaust(h)
  \/ \E s \in Stores \ {"data"} : ChangeStore(h, s)
  \/ Announce(h)

Receive(w) == NotModified(w) \/ Updated(w) \/ Unindexed(w) \/ PollFailed(w)

SnapshotNext ==
  \/ \E h \in Publishers : Handle(h)
  \/ ChangeSilently \/ ChangeQuotaOnly \/ RestartControl
  \/ \E w \in Workers : Load(w) \/ Poll(w) \/ Receive(w) \/ WorkerRestart(w)

SnapshotSpec == SnapshotInit /\ [][SnapshotNext]_snapshot_vars

-----------------------------------------------------------------------------
(***************************************************************************)
(* Properties                                                              *)
(***************************************************************************)

Quiescent == \A h \in Publishers : publisher[h].pc = "idle"

\* A snapshot shows the last change of every store, unless that change is one
\* that no handler announced.
Shows(snapshot) ==
  \A s \in Stores : \/ snapshot.content[s] = content[s]
                    \/ <<s, content[s]>> \in unannounced

\* When the handlers have finished, in whatever order their reads and
\* publications interleaved and whichever of them were refused as stale, the
\* bus holds the last change of every store.
BusIsCurrent == Quiescent => Shows(bus)

\* A worker for which the bus has nothing newer serves that state as well: no
\* change hides behind a version that the worker already has.
WorkerIsCurrent ==
  \A w \in Workers :
    Quiescent /\ worker[w].pc # "boot" /\ worker[w].since >= bus.version
      => Shows(worker[w].held)

\* Neither the bus nor a worker ever goes back to an older version, across
\* restarts of control-api too; and the management data a newer version brings
\* is never older.
NeverOlder ==
  [][/\ bus'.version >= bus.version
     /\ bus'.content["data"] >= bus.content["data"]
     /\ \A w \in Workers :
          worker[w].pc # "boot" /\ worker'[w].pc # "boot" =>
            /\ worker'[w].held.version >= worker[w].held.version
            /\ worker'[w].held.content["data"] >= worker[w].held.content["data"]]_snapshot_vars

\* When changes stop, every worker ends up with the last of them and stays
\* there.
Converges == <>[](\A w \in Workers : worker[w].pc # "boot" /\ Shows(worker[w].held))

\* When the handlers have finished, the bus knows every token that a usage
\* settlement exhausted.
ExhaustionPublished == Quiescent => bus.content["data"] >= exhausted

=============================================================================
