----------------------------- MODULE SyncProofs -----------------------------
(***************************************************************************)
(* Proofs about what the control API processes share and what the gateway  *)
(* workers see of it: the snapshots that the bus and the workers show      *)
(* follow the stores and never go back (SnapshotSync), and any number of   *)
(* processes implement one versioned store (ReplicatedManagement).         *)
(***************************************************************************)
EXTENDS SnapshotSync, ReplicatedManagement, TLAPS

-----------------------------------------------------------------------------
(***************************************************************************)
(* Snapshots: once the handlers have finished, the bus and every worker    *)
(* that has its version show the last announced change of every store, and *)
(* versions never go back.                                                 *)
(***************************************************************************)

\* The stages of a publication in which store s has been read.
ReadStages(s) ==
  IF s = "data" THEN {"read_proxies", "read_options", "publish"}
  ELSE IF s = "proxies" THEN {"read_options", "publish"}
  ELSE {"publish"}

\* Some snapshot, or draft of one that has read store s, says content c at
\* version v.
IsKnown(s, v, c) ==
  \/ v = 0 /\ c = 0
  \/ bus.version = v /\ bus.content[s] = c
  \/ \E w \in Workers : worker[w].held.version = v /\ worker[w].held.content[s] = c
  \/ \E w \in Workers : worker[w].answer.version = v /\ worker[w].answer.content[s] = c
  \/ \E h \in Publishers : /\ publisher[h].pc \in ReadStages(s)
                           /\ publisher[h].draft.version = v /\ publisher[h].draft.content[s] = c

\* Versions are no newer than the stores, and data is no newer than its version:
\* mutate advances both at once.
VersionsBounded ==
  \A s \in Stores, v \in Nat, c \in Changes : IsKnown(s, v, c) => v <= version

DataGrows ==
  /\ \A v, w \in Nat, c, d \in Changes :
       IsKnown("data", v, c) /\ IsKnown("data", w, d) /\ v <= w => c <= d
  /\ \A v \in Nat, c \in Changes : IsKnown("data", v, c) => c <= content["data"]
  /\ \A v \in Nat, c \in Changes :
       v = version /\ IsKnown("data", v, c) => c = content["data"]

\* From version a on, every snapshot shows the last change of store s.
ShownFrom(s, a) ==
  \A v \in Nat, c \in Changes : IsKnown(s, v, c) /\ a <= v => c = content[s]

\* A handler that will publish a version of a or more, and one that will do so
\* if it can apply the quotas of the change itself.
Carries(h, s, a) ==
  \/ publisher[h].pc = "read_data"
  \/ publisher[h].pc \in ReadStages("data") /\ a <= publisher[h].draft.version
  \/ publisher[h].pc = "apply" /\ publisher[h].change = <<s, content[s]>>

\* The last change of a store is one that no handler announces, or its handler
\* has still to bump the version, or some version shows it that is on the bus
\* or on its way there.
Announced(s) ==
  \/ <<s, content[s]>> \in unannounced
  \/ \E h \in Publishers : publisher[h].pc = "bump" /\ publisher[h].change = <<s, content[s]>>
  \/ \E a \in 1..version :
       /\ ShownFrom(s, a)
       /\ a <= bus.version \/ \E h \in Publishers : Carries(h, s, a)

\* What an answer says to a worker that polled with what it holds.
PollsWithHeld ==
  \A w \in Workers :
    /\ worker[w].pc # "boot" => worker[w].since = worker[w].held.version
    /\ worker[w].pc = "answer" => worker[w].modified = (worker[w].since < worker[w].answer.version)

SnapshotInv ==
  /\ SnapshotTypeOK /\ VersionsBounded /\ DataGrows /\ PollsWithHeld
  /\ \A s \in Stores : Announced(s)

-----------------------------------------------------------------------------
\* Booting workers, idle handlers and the empty snapshot are well formed.
LEMMA EmptyTypes ==
  /\ Empty \in Snapshot /\ Empty.version = 0 /\ \A s \in Stores : Empty.content[s] = 0
  /\ IdlePublisher \in Publisher /\ IdlePublisher.pc = "idle"
  /\ BootingWorker \in Worker /\ BootingWorker.pc = "boot"
  /\ BootingWorker.held = Empty /\ BootingWorker.answer = Empty
<1>1. 0 \in Changes
  BY SnapshotSyncAssumption DEF Changes
<1>2. Empty \in Snapshot /\ Empty.version = 0 /\ \A s \in Stores : Empty.content[s] = 0
  BY Zenon, <1>1 DEF Empty, Snapshot
<1>3. <<"data", 0>> \in Stores \X Changes
  BY Zenon, <1>1 DEF Stores
<1> QED
  BY Zenon, <1>2, <1>3 DEF IdlePublisher, Publisher, PublishStages, BootingWorker, Worker

\* The stores before any change, on the bus at version 1.
LEMMA InitSnapshotInv == SnapshotInit => SnapshotInv
<1> SUFFICES ASSUME SnapshotInit PROVE SnapshotInv
  BY Zenon
<1> USE SnapshotSyncAssumption DEF SnapshotInit
<1>1. 0 \in Changes
  BY DEF Changes
<1>2. bus \in Snapshot /\ bus.version = 1 /\ \A s \in Stores : bus.content[s] = 0
  BY Zenon, <1>1 DEF Current, Snapshot
<1>3. SnapshotTypeOK
  BY <1>1, <1>2, EmptyTypes DEF SnapshotTypeOK
<1>4. \A s \in Stores, v \in Nat, c \in Changes : IsKnown(s, v, c) => v <= 1 /\ c = 0
  <2>1. \A s \in Stores, h \in Publishers : publisher[h].pc \notin ReadStages(s)
    BY Zenon, EmptyTypes DEF ReadStages
  <2>2. \A w \in Workers : worker[w].held = Empty /\ worker[w].answer = Empty
    BY Zenon, EmptyTypes
  <2> QED
    BY <1>2, <2>1, <2>2, EmptyTypes DEF IsKnown
<1>5. VersionsBounded
  BY Zenon, <1>4 DEF VersionsBounded
<1>6. DataGrows
  <2>1. "data" \in Stores /\ content["data"] = 0 /\ version \in Nat
    BY Zenon DEF Stores
  <2> QED
    BY <1>4, <2>1 DEF DataGrows, Changes
<1>7. PollsWithHeld
  BY Zenon, EmptyTypes DEF PollsWithHeld
<1>8. ASSUME NEW s \in Stores PROVE Announced(s)
  <2>1. ShownFrom(s, 1)
    BY Zenon, <1>4 DEF ShownFrom
  <2> QED
    BY <1>2, <2>1 DEF Announced
<1> QED
  BY Zenon, <1>3, <1>5, <1>6, <1>7, <1>8 DEF SnapshotInv

-----------------------------------------------------------------------------
\* A step that leaves the stores alone, and in which a snapshot comes to be known
\* only as a copy of a known one, or with what the store contains now.
OnlyReads ==
  /\ UNCHANGED <<version, content>>
  /\ \A s \in Stores, v \in Nat, c \in Changes :
       IsKnown(s, v, c)' =>
         \/ IsKnown(s, v, c)
         \/ /\ c = content[s] /\ v <= version
            /\ s = "data" => v = version

LEMMA ReadsKeep ==
  ASSUME SnapshotTypeOK, VersionsBounded, DataGrows, OnlyReads
  PROVE  /\ VersionsBounded' /\ DataGrows'
         /\ \A s \in Stores, a \in Nat : ShownFrom(s, a) => ShownFrom(s, a)'
<1> USE DEF OnlyReads
<1>1. version \in Nat /\ "data" \in Stores /\ content["data"] \in Changes
  BY Zenon DEF SnapshotTypeOK, Stores
<1>2. VersionsBounded'
  BY Zenon DEF VersionsBounded
<1>3. \A s \in Stores, a \in Nat : ShownFrom(s, a) => ShownFrom(s, a)'
  BY Zenon DEF ShownFrom
<1>4. ASSUME NEW v \in Nat, NEW c \in Changes, IsKnown("data", v, c)'
      PROVE  /\ v <= version /\ c <= content["data"]
             /\ IsKnown("data", v, c) \/ (v = version /\ c = content["data"])
             /\ v = version => c = content["data"]
  BY <1>1, <1>4 DEF VersionsBounded, DataGrows, Changes
<1>5. ASSUME NEW v \in Nat, NEW w \in Nat, NEW c \in Changes, NEW d \in Changes,
             IsKnown("data", v, c)', IsKnown("data", w, d)', v <= w
      PROVE  c <= d
  <2>1. CASE IsKnown("data", v, c) /\ IsKnown("data", w, d)
    BY Zenon, <1>5, <2>1 DEF DataGrows
  <2>2. CASE w = version /\ d = content["data"]
    BY Zenon, <1>4, <1>5, <2>2
  <2>3. CASE v = version /\ c = content["data"]
    <3>1. w = version
      BY <1>1, <1>4, <1>5, <2>3
    <3> QED
      BY Zenon, <1>4, <1>5, <2>3, <3>1 DEF Changes
  <2> QED
    BY Zenon, <1>4, <1>5, <2>1, <2>2, <2>3
<1>6. DataGrows'
  BY Zenon, <1>1, <1>4, <1>5 DEF DataGrows
<1> QED
  BY Zenon, <1>2, <1>3, <1>6

\* A step that leaves every snapshot alone and moves the stores on: data changes
\* only together with the version.
OnlyWrites ==
  /\ UNCHANGED <<bus, worker>>
  /\ \A s \in Stores, v \in Nat, c \in Changes : IsKnown(s, v, c)' => IsKnown(s, v, c)
  /\ version' \in {version, version + 1}
  /\ content' \in [Stores -> Changes]
  /\ content'["data"] >= content["data"]
  /\ version' = version => content'["data"] = content["data"]

LEMMA WritesKeep ==
  ASSUME SnapshotTypeOK, VersionsBounded, DataGrows, OnlyWrites
  PROVE  /\ VersionsBounded' /\ DataGrows'
         /\ \A s \in Stores, a \in Nat :
              ShownFrom(s, a) /\ content'[s] = content[s] => ShownFrom(s, a)'
         /\ version' = version + 1 =>
              \A s \in Stores, a \in Nat : a = version' => ShownFrom(s, a)'
<1> USE DEF OnlyWrites
<1>1. version \in Nat /\ version' \in Nat /\ version <= version' /\ "data" \in Stores
      /\ content["data"] \in Changes /\ content'["data"] \in Changes
  BY DEF SnapshotTypeOK, Stores
<1>2. VersionsBounded'
  BY <1>1 DEF VersionsBounded
<1>3. \A s \in Stores, a \in Nat : ShownFrom(s, a) /\ content'[s] = content[s] => ShownFrom(s, a)'
  BY Zenon DEF ShownFrom
<1>4. ASSUME version' = version + 1, NEW s \in Stores, NEW a \in Nat, a = version'
      PROVE  ShownFrom(s, a)'
  <2> SUFFICES ASSUME NEW v \in Nat, NEW c \in Changes, IsKnown(s, v, c)', a <= v
               PROVE  FALSE
    BY Zenon DEF ShownFrom
  <2>1. v <= version
    BY Zenon DEF VersionsBounded
  <2> QED
    BY <1>1, <1>4, <2>1
<1>5. \A v \in Nat, c \in Changes : IsKnown("data", v, c)' =>
        v <= version /\ c <= content["data"] /\ (v = version => c = content["data"])
  BY Zenon, <1>1 DEF VersionsBounded, DataGrows
<1>6. DataGrows'
  <2>1. \A v, w \in Nat, c, d \in Changes :
          IsKnown("data", v, c)' /\ IsKnown("data", w, d)' /\ v <= w => c <= d
    BY Zenon, <1>1 DEF DataGrows
  <2>2. \A v \in Nat, c \in Changes : IsKnown("data", v, c)' => c <= content'["data"]
    BY <1>1, <1>5 DEF Changes
  <2>3. \A v \in Nat, c \in Changes :
          v = version' /\ IsKnown("data", v, c)' => c = content'["data"]
    BY <1>1, <1>5
  <2> QED
    BY Zenon, <2>1, <2>2, <2>3 DEF DataGrows
<1> QED
  BY Zenon, <1>2, <1>3, <1>4, <1>6

-----------------------------------------------------------------------------
\* The version a that shows store s is on the bus or on its way there.
Carried(s, a) == a <= bus.version \/ \E h \in Publishers : Carries(h, s, a)

\* What a step has to keep of store s for its last change to stay announced.
Keeps(s) ==
  /\ content'[s] = content[s] /\ version <= version'
  /\ unannounced \subseteq unannounced'
  /\ bus.version <= bus'.version
  /\ \A a \in Nat : ShownFrom(s, a) => ShownFrom(s, a)'
  /\ \A h \in Publishers, a \in 1..version :
       Carries(h, s, a) => Carried(s, a)' \/ <<s, content[s]>> \in unannounced'
  /\ \A h \in Publishers :
       publisher[h].pc = "bump" /\ publisher[h].change = <<s, content[s]>> => Announced(s)'

LEMMA AnnouncedKept ==
  ASSUME SnapshotTypeOK, SnapshotTypeOK', NEW s \in Stores, Announced(s), Keeps(s)
  PROVE  Announced(s)'
<1> USE DEF Keeps
<1>1. CASE <<s, content[s]>> \in unannounced
  BY Zenon, <1>1 DEF Announced
<1>2. CASE \E h \in Publishers : publisher[h].pc = "bump" /\ publisher[h].change = <<s, content[s]>>
  BY Zenon, <1>2
<1>3. ASSUME NEW a \in 1..version, ShownFrom(s, a),
             a <= bus.version \/ \E h \in Publishers : Carries(h, s, a)
      PROVE  Announced(s)'
  <2>1. a \in Nat /\ a \in 1..version' /\ bus.version \in Nat /\ bus'.version \in Nat
    BY DEF SnapshotTypeOK, Snapshot
  <2>2. ShownFrom(s, a)'
    BY Zenon, <1>3, <2>1
  <2>3. Carried(s, a)' \/ <<s, content[s]>> \in unannounced'
    <3>1. CASE a <= bus.version
      BY <2>1, <3>1 DEF Carried
    <3> QED
      BY Zenon, <1>3, <3>1
  <2> QED
    BY Zenon, <2>1, <2>2, <2>3 DEF Announced, Carried
<1> QED
  BY Zenon, <1>1, <1>2, <1>3 DEF Announced

\* A step of one worker that copies snapshots between the bus, its answer and
\* what it holds.
WorkerCopies(w, new) ==
  /\ worker' = [worker EXCEPT ![w] = new]
  /\ new \in Worker
  /\ new.held \in {Empty, bus, worker[w].held, worker[w].answer}
  /\ new.answer \in {Empty, bus, worker[w].held, worker[w].answer}
  /\ new.pc # "boot" => new.since = new.held.version
  /\ new.pc = "answer" => new.modified = (new.since < new.answer.version)
  /\ UNCHANGED <<version, content, publisher, bus, unannounced, exhausted, quiet>>

LEMMA CopiesKeep ==
  ASSUME SnapshotInv, NEW w \in Workers, NEW new, WorkerCopies(w, new)
  PROVE  SnapshotInv'
<1> USE DEF SnapshotInv
<1>1. /\ \A u \in Workers : worker'[u] = IF u = w THEN new ELSE worker[u]
      /\ worker' \in [Workers -> Worker]
  BY Zenon DEF WorkerCopies, SnapshotTypeOK
<1>2. SnapshotTypeOK'
  BY Zenon, <1>1 DEF SnapshotTypeOK, WorkerCopies
<1>3. PollsWithHeld'
  BY Zenon, <1>1 DEF PollsWithHeld, WorkerCopies
<1>4. ASSUME NEW s \in Stores, NEW v \in Nat, NEW c \in Changes, IsKnown(s, v, c)'
      PROVE  IsKnown(s, v, c)
  <2>1. UNCHANGED <<bus, publisher>>
    BY Zenon DEF WorkerCopies
  <2>2. ASSUME NEW x \in {Empty, bus, worker[w].held, worker[w].answer},
               x.version = v, x.content[s] = c
        PROVE  IsKnown(s, v, c)
    BY Zenon, <2>2, EmptyTypes DEF IsKnown
  <2>3. ASSUME NEW u \in Workers, worker'[u].held.version = v, worker'[u].held.content[s] = c
        PROVE  IsKnown(s, v, c)
    <3>1. CASE u = w
      BY Zenon, <1>1, <2>2, <2>3, <3>1 DEF WorkerCopies
    <3>2. CASE u # w
      BY Zenon, <1>1, <2>3, <3>2 DEF IsKnown
    <3> QED
      BY Zenon, <3>1, <3>2
  <2>4. ASSUME NEW u \in Workers, worker'[u].answer.version = v, worker'[u].answer.content[s] = c
        PROVE  IsKnown(s, v, c)
    <3>1. CASE u = w
      BY Zenon, <1>1, <2>2, <2>4, <3>1 DEF WorkerCopies
    <3>2. CASE u # w
      BY Zenon, <1>1, <2>4, <3>2 DEF IsKnown
    <3> QED
      BY Zenon, <3>1, <3>2
  <2> QED
    BY Zenon, <1>4, <2>1, <2>3, <2>4 DEF IsKnown
<1>5. OnlyReads
  BY Zenon, <1>4 DEF OnlyReads, WorkerCopies
<1>6. /\ VersionsBounded' /\ DataGrows'
      /\ \A s \in Stores, a \in Nat : ShownFrom(s, a) => ShownFrom(s, a)'
  BY Zenon, <1>5, ReadsKeep
<1>7. ASSUME NEW s \in Stores PROVE Announced(s)'
  <2>1. UNCHANGED <<version, content, publisher, bus, unannounced>>
    BY Zenon DEF WorkerCopies
  <2>2. \A h \in Publishers, a \in 1..version : Carries(h, s, a) => Carried(s, a)'
    BY Zenon, <2>1 DEF Carried, Carries
  <2>3. \A h \in Publishers :
          publisher[h].pc = "bump" /\ publisher[h].change = <<s, content[s]>> => Announced(s)'
    BY Zenon, <2>1 DEF Announced
  <2>4. version \in Nat /\ bus.version \in Nat
    BY Zenon DEF SnapshotTypeOK, Snapshot
  <2>5. Keeps(s)
    BY <1>6, <2>1, <2>2, <2>3, <2>4 DEF Keeps
  <2> QED
    BY Zenon, <1>2, <2>5, AnnouncedKept
<1> QED
  BY Zenon, <1>2, <1>3, <1>6, <1>7

\* Every step of a worker is such a copy.
LEMMA WorkerStep ==
  ASSUME SnapshotInv, NEW w \in Workers,
         Load(w) \/ Poll(w) \/ Receive(w) \/ WorkerRestart(w)
  PROVE  \E new : WorkerCopies(w, new)
<1> USE EmptyTypes DEF SnapshotInv
<1>1. worker[w] \in Worker /\ bus \in Snapshot /\ bus.version \in Nat
  BY Zenon DEF SnapshotTypeOK, Snapshot
<1>2. /\ worker[w].pc # "boot" => worker[w].since = worker[w].held.version
      /\ worker[w].pc = "answer" => worker[w].modified = (worker[w].since < worker[w].answer.version)
  BY Zenon DEF PollsWithHeld
<1>a. worker[w].answer \in Snapshot /\ worker[w].answer.version \in Nat /\ worker[w].since \in Nat
  BY Zenon, <1>1 DEF Worker, Snapshot
<1>3. CASE Load(w)
  <2> DEFINE new == [worker[w] EXCEPT !.pc = "sleep", !.held = bus, !.since = bus.version]
  <2>1. new \in Worker /\ new.pc = "sleep" /\ new.held = bus /\ new.since = bus.version
        /\ new.answer = worker[w].answer
    BY Zenon, <1>1 DEF Worker
  <2>2. worker' = [worker EXCEPT ![w] = new]
    BY Zenon, <1>3 DEF Load
  <2> HIDE DEF new
  <2> QED
    BY Zenon, <1>3, <2>1, <2>2 DEF Load, WorkerCopies
<1>4. CASE Poll(w)
  <2> DEFINE modified == (worker[w].since < bus.version)
             new == [worker[w] EXCEPT !.pc = "answer", !.answer = bus, !.modified = modified]
  <2>2. worker' = [worker EXCEPT ![w] = new]
    BY Zenon, <1>4 DEF Poll
  <2>3. modified \in BOOLEAN /\ modified = (worker[w].since < bus.version)
    BY <1>1, <1>a
  <2> HIDE DEF modified
  <2>1. new \in Worker /\ new.pc = "answer" /\ new.held = worker[w].held
        /\ new.since = worker[w].since /\ new.answer = bus
        /\ new.modified = modified
    BY Zenon, <1>1, <2>3 DEF Worker
  <2>4. worker[w].pc = "sleep" /\ UNCHANGED <<version, content, publisher, bus, unannounced, exhausted, quiet>>
    BY Zenon, <1>4 DEF Poll
  <2> HIDE DEF new
  <2>5. WorkerCopies(w, new)
    BY Zenon, <1>2, <2>1, <2>2, <2>3, <2>4 DEF WorkerCopies
  <2> QED
    BY Zenon, <2>5
<1>5. CASE NotModified(w)
  <2> DEFINE since == IF worker[w].since < worker[w].answer.version
                      THEN worker[w].answer.version ELSE worker[w].since
             new == [worker[w] EXCEPT !.pc = "sleep", !.answer = Empty, !.since = since]
  <2>1. since = worker[w].since
    BY Zenon, <1>2, <1>5 DEF NotModified
  <2>2. since \in Nat
    BY Zenon, <1>a, <2>1
  <2>3. worker' = [worker EXCEPT ![w] = new]
    BY Zenon, <1>5 DEF NotModified
  <2> HIDE DEF since
  <2>4. new \in Worker /\ new.pc = "sleep" /\ new.held = worker[w].held
        /\ new.since = since /\ new.answer = Empty
    BY Zenon, <1>1, <2>2 DEF Worker
  <2>5. worker[w].pc = "answer" /\ UNCHANGED <<version, content, publisher, bus, unannounced, exhausted, quiet>>
    BY Zenon, <1>5 DEF NotModified
  <2> HIDE DEF new
  <2>6. WorkerCopies(w, new)
    BY Zenon, <1>2, <2>1, <2>3, <2>4, <2>5 DEF WorkerCopies
  <2> QED
    BY Zenon, <2>6
<1>6. CASE Updated(w)
  <2> DEFINE new == [worker[w] EXCEPT !.pc = "sleep", !.answer = Empty, !.modified = FALSE,
                       !.held = worker[w].answer, !.since = worker[w].answer.version]
  <2>1. new \in Worker /\ new.pc = "sleep" /\ new.held = worker[w].answer
        /\ new.since = worker[w].answer.version /\ new.answer = Empty
    BY Zenon, <1>1, <1>a DEF Worker
  <2>2. worker' = [worker EXCEPT ![w] = new]
    BY Zenon, <1>6 DEF Updated
  <2>3. UNCHANGED <<version, content, publisher, bus, unannounced, exhausted, quiet>>
    BY Zenon, <1>6 DEF Updated
  <2> HIDE DEF new
  <2>4. WorkerCopies(w, new)
    BY Zenon, <2>1, <2>2, <2>3 DEF WorkerCopies
  <2> QED
    BY Zenon, <2>4
<1>7. CASE Unindexed(w) \/ PollFailed(w)
  <2> DEFINE new == [worker[w] EXCEPT !.pc = "sleep", !.answer = Empty, !.modified = FALSE]
  <2>1. new \in Worker /\ new.pc = "sleep" /\ new.held = worker[w].held
        /\ new.since = worker[w].since /\ new.answer = Empty
    BY Zenon, <1>1 DEF Worker
  <2>2. worker' = [worker EXCEPT ![w] = new] /\ worker[w].pc = "answer"
    BY Zenon, <1>7 DEF Unindexed, PollFailed, Unchanged
  <2>3. UNCHANGED <<version, content, publisher, bus, unannounced, exhausted, quiet>>
    BY Zenon, <1>7 DEF Unindexed, PollFailed
  <2> HIDE DEF new
  <2> QED
    BY Zenon, <1>2, <2>1, <2>2, <2>3 DEF WorkerCopies
<1>8. CASE WorkerRestart(w)
  BY Zenon, <1>8 DEF WorkerRestart, WorkerCopies
<1> QED
  BY Zenon, <1>3, <1>4, <1>5, <1>6, <1>7, <1>8 DEF Receive

-----------------------------------------------------------------------------
\* A step of one handler.
PublisherMoves(h, new) ==
  /\ publisher' = [publisher EXCEPT ![h] = new] /\ new \in Publisher
  /\ UNCHANGED worker

LEMMA HandlerFrame ==
  ASSUME SnapshotTypeOK, NEW h \in Publishers, NEW new, PublisherMoves(h, new)
  PROVE  /\ publisher' \in [Publishers -> Publisher] /\ publisher[h] \in Publisher
         /\ \A k \in Publishers : publisher'[k] = IF k = h THEN new ELSE publisher[k]
         /\ UNCHANGED bus =>
              \A s \in Stores, v \in Nat, c \in Changes : IsKnown(s, v, c)' =>
                \/ IsKnown(s, v, c)
                \/ /\ new.pc \in ReadStages(s)
                   /\ new.draft.version = v /\ new.draft.content[s] = c
<1>1. /\ publisher' \in [Publishers -> Publisher] /\ publisher[h] \in Publisher
      /\ \A k \in Publishers : publisher'[k] = IF k = h THEN new ELSE publisher[k]
  BY Zenon DEF SnapshotTypeOK, PublisherMoves
<1>2. ASSUME UNCHANGED bus, NEW s \in Stores, NEW v \in Nat, NEW c \in Changes, IsKnown(s, v, c)'
      PROVE  \/ IsKnown(s, v, c)
             \/ /\ new.pc \in ReadStages(s)
                /\ new.draft.version = v /\ new.draft.content[s] = c
  BY Zenon, <1>1, <1>2 DEF IsKnown, PublisherMoves
<1> QED
  BY Zenon, <1>1, <1>2

\* A store that a step leaves alone stays announced, when the handlers that
\* carry its last change or have still to bump for it go on as before.
LEMMA OthersKept ==
  ASSUME SnapshotInv, SnapshotTypeOK', NEW s \in Stores,
         content'[s] = content[s], version <= version', UNCHANGED bus,
         unannounced \subseteq unannounced',
         \A a \in Nat : ShownFrom(s, a) => ShownFrom(s, a)',
         \A k \in Publishers : \/ publisher'[k] = publisher[k]
                               \/ publisher[k].pc = "idle"
                               \/ publisher[k].pc \in {"bump", "apply"}
                                  /\ (publisher[k].change = <<s, content[s]>> => Announced(s)')
  PROVE  Announced(s)'
<1>1. CASE \E k \in Publishers : /\ publisher[k].pc \in {"bump", "apply"}
                                 /\ publisher[k].change = <<s, content[s]>> /\ Announced(s)'
  BY Zenon, <1>1
<1>2. CASE \A k \in Publishers : \/ publisher'[k] = publisher[k]
                                 \/ publisher[k].pc = "idle"
                                 \/ publisher[k].pc \in {"bump", "apply"}
                                    /\ publisher[k].change # <<s, content[s]>>
  <2>1. ASSUME NEW k \in Publishers, NEW a \in 1..version, Carries(k, s, a)
        PROVE  Carries(k, s, a)'
    <3>1. publisher'[k] = publisher[k]
      BY Zenon, <1>2, <2>1 DEF Carries, ReadStages
    <3> QED
      BY Zenon, <2>1, <3>1 DEF Carries
  <2>2. ASSUME NEW k \in Publishers, publisher[k].pc = "bump", publisher[k].change = <<s, content[s]>>
        PROVE  Announced(s)'
    <3>1. publisher'[k] = publisher[k]
      BY Zenon, <1>2, <2>2
    <3> QED
      BY Zenon, <2>2, <3>1 DEF Announced
  <2>3. bus.version <= bus'.version
    BY DEF SnapshotInv, SnapshotTypeOK, Snapshot
  <2>4. Keeps(s)
    BY Zenon, <2>1, <2>2, <2>3 DEF Keeps, Carried
  <2> QED
    BY Zenon, <2>4, AnnouncedKept DEF SnapshotInv
<1> QED
  BY Zenon, <1>1, <1>2

-----------------------------------------------------------------------------
\* A change leaves room for itself in the bound.
LEMMA ChangeTypes ==
  ASSUME SnapshotTypeOK, NEW s \in Stores, Change(s)
  PROVE  /\ content' \in [Stores -> Changes] /\ content[s] + 1 \in Changes
         /\ content'[s] = content[s] + 1
         /\ \A t \in Stores \ {s} : content'[t] = content[t]
<1>1. content["data"] \in Nat /\ content["proxies"] \in Nat /\ content["options"] \in Nat
  BY DEF SnapshotTypeOK, Stores, Changes
<1>2. content[s] + 1 \in Changes
  BY <1>1, SnapshotSyncAssumption DEF Change, TotalChanges, Changes, Stores
<1> QED
  BY Zenon, <1>2 DEF Change, SnapshotTypeOK

\* ChangeData, Exhaust, ChangeStore: the record of a handler that enters.
LEMMA EnterMoves ==
  ASSUME SnapshotTypeOK, NEW h \in Publishers, NEW s \in Stores, NEW pc \in PublishStages,
         Enter(h, s, pc), Change(s), UNCHANGED worker
  PROVE  \E new : /\ PublisherMoves(h, new)
                  /\ new.pc = pc /\ new.change = <<s, content'[s]>>
<1>1. content[s] + 1 \in Changes /\ content'[s] = content[s] + 1
  BY Zenon, ChangeTypes
<1> DEFINE change == <<s, content[s] + 1>>
           new == [publisher[h] EXCEPT !.pc = pc, !.change = change]
<1>2. publisher' = [publisher EXCEPT ![h] = new]
  BY Zenon DEF Enter
<1>3. change \in Stores \X Changes /\ change = <<s, content'[s]>>
  BY Zenon, <1>1
<1> HIDE DEF change
<1>4. new \in Publisher /\ new.pc = pc /\ new.change = change
  BY Zenon, <1>3 DEF SnapshotTypeOK, Publisher
<1> HIDE DEF new
<1>5. PublisherMoves(h, new)
  BY Zenon, <1>2, <1>4 DEF PublisherMoves
<1> QED
  BY Zenon, <1>3, <1>4, <1>5

\* A change of the data and its version, whose handler will publish it or has
\* quotas to apply first.
LEMMA DataStep ==
  ASSUME SnapshotInv, NEW h \in Publishers, ChangeData(h) \/ Exhaust(h)
  PROVE  SnapshotInv'
<1> USE DEF SnapshotInv
<1>1. PICK pc \in {"read_data", "apply"} : Enter(h, "data", pc)
  BY Zenon DEF ChangeData, Exhaust
<1>2. /\ Change("data") /\ version' = version + 1
      /\ UNCHANGED <<bus, worker, unannounced, quiet>>
      /\ exhausted' \in {exhausted, content["data"] + 1}
  BY Zenon DEF ChangeData, Exhaust
<1>3. "data" \in Stores /\ pc \in PublishStages /\ version \in Nat
  BY Zenon DEF Stores, PublishStages, SnapshotTypeOK
<1>4. /\ content' \in [Stores -> Changes] /\ content["data"] + 1 \in Changes
      /\ content'["data"] = content["data"] + 1
      /\ \A t \in Stores \ {"data"} : content'[t] = content[t]
  BY Zenon, <1>2, <1>3, ChangeTypes
<1>5. PICK new : /\ PublisherMoves(h, new)
                 /\ new.pc = pc /\ new.change = <<"data", content'["data"]>>
  BY <1>1, <1>2, <1>3, EnterMoves
<1>6. /\ publisher' \in [Publishers -> Publisher]
      /\ \A k \in Publishers : publisher'[k] = IF k = h THEN new ELSE publisher[k]
      /\ \A s \in Stores, v \in Nat, c \in Changes : IsKnown(s, v, c)' =>
           IsKnown(s, v, c) \/ new.pc \in ReadStages(s)
  BY Zenon, <1>2, <1>5, HandlerFrame
<1>7. SnapshotTypeOK'
  <2>1. bus.version \in Nat /\ version + 1 \in Nat /\ bus.version <= version + 1
    BY <1>3 DEF SnapshotTypeOK, Snapshot
  <2> QED
    BY Zenon, <1>2, <1>4, <1>6, <2>1 DEF SnapshotTypeOK
<1>8. OnlyWrites
  <2>1. \A s \in Stores : new.pc \notin ReadStages(s)
    BY Zenon, <1>5 DEF ReadStages
  <2>2. content["data"] \in Nat
    BY <1>3 DEF SnapshotTypeOK, Changes
  <2> QED
    BY <1>2, <1>3, <1>4, <1>6, <2>1, <2>2 DEF OnlyWrites
<1>9. /\ VersionsBounded' /\ DataGrows'
      /\ \A s \in Stores, a \in Nat :
           ShownFrom(s, a) /\ content'[s] = content[s] => ShownFrom(s, a)'
      /\ \A s \in Stores, a \in Nat : a = version' => ShownFrom(s, a)'
  BY Zenon, <1>2, <1>8, WritesKeep
<1>10. PollsWithHeld'
  BY Zenon, <1>2 DEF PollsWithHeld
<1>11. Announced("data")'
  <2>1. PICK a \in 1..version' : a = version'
    BY <1>2, <1>3
  <2>2. ShownFrom("data", a)'
    BY <1>2, <1>3, <1>9, <2>1
  <2>3. Carries(h, "data", a)'
    BY Zenon, <1>5, <1>6 DEF Carries
  <2> QED
    BY Zenon, <2>2, <2>3 DEF Announced
<1>12. ASSUME NEW s \in Stores \ {"data"} PROVE Announced(s)'
  <2>1. publisher[h].pc = "idle" /\ \A k \in Publishers : k # h => publisher'[k] = publisher[k]
    BY Zenon, <1>1, <1>6 DEF Enter
  <2> QED
    BY <1>2, <1>3, <1>4, <1>7, <1>9, <2>1, OthersKept
<1> QED
  BY Zenon, <1>7, <1>9, <1>10, <1>11, <1>12

\* A change of another store, whose handler has still to bump the version.
LEMMA StoreStep ==
  ASSUME SnapshotInv, NEW h \in Publishers, NEW t \in Stores \ {"data"}, ChangeStore(h, t)
  PROVE  SnapshotInv'
<1> USE DEF SnapshotInv
<1>1. Enter(h, t, "bump") /\ Change(t)
      /\ UNCHANGED <<version, bus, worker, unannounced, exhausted, quiet>>
  BY Zenon DEF ChangeStore
<1>2. "bump" \in PublishStages /\ version \in Nat /\ "data" \in Stores
  BY Zenon DEF PublishStages, SnapshotTypeOK, Stores
<1>3. /\ content' \in [Stores -> Changes]
      /\ \A s \in Stores \ {t} : content'[s] = content[s]
  BY Zenon, <1>1, ChangeTypes
<1>4. PICK new : /\ PublisherMoves(h, new)
                 /\ new.pc = "bump" /\ new.change = <<t, content'[t]>>
  BY SMTT(30), <1>1, <1>2, EnterMoves
<1>5. /\ publisher' \in [Publishers -> Publisher]
      /\ \A k \in Publishers : publisher'[k] = IF k = h THEN new ELSE publisher[k]
      /\ \A s \in Stores, v \in Nat, c \in Changes : IsKnown(s, v, c)' =>
           IsKnown(s, v, c) \/ new.pc \in ReadStages(s)
  BY ZenonT(30), <1>1, <1>4, HandlerFrame
<1>6. SnapshotTypeOK'
  BY Zenon, <1>1, <1>3, <1>5 DEF SnapshotTypeOK
<1>7. OnlyWrites
  <2>1. \A s \in Stores : new.pc \notin ReadStages(s)
    BY Zenon, <1>4 DEF ReadStages
  <2>2. content["data"] \in Nat /\ content'["data"] = content["data"]
    BY <1>2, <1>3 DEF SnapshotTypeOK, Changes
  <2> QED
    BY <1>1, <1>3, <1>5, <2>1, <2>2 DEF OnlyWrites
<1>8. /\ VersionsBounded' /\ DataGrows'
      /\ \A s \in Stores, a \in Nat :
           ShownFrom(s, a) /\ content'[s] = content[s] => ShownFrom(s, a)'
  BY Zenon, <1>7, WritesKeep
<1>9. PollsWithHeld'
  BY Zenon, <1>1 DEF PollsWithHeld
<1>10. Announced(t)'
  BY Zenon, <1>4, <1>5 DEF Announced
<1>11. ASSUME NEW s \in Stores \ {t} PROVE Announced(s)'
  <2>1. publisher[h].pc = "idle" /\ \A k \in Publishers : k # h => publisher'[k] = publisher[k]
    BY Zenon, <1>1, <1>5 DEF Enter
  <2> QED
    BY <1>1, <1>2, <1>3, <1>6, <1>8, <2>1, OthersKept
<1> QED
  BY Zenon, <1>6, <1>8, <1>9, <1>10, <1>11

\* The bump gives the change of its handler a version that no snapshot has yet.
LEMMA BumpStep ==
  ASSUME SnapshotInv, NEW h \in Publishers, Bump(h)
  PROVE  SnapshotInv'
<1> USE DEF SnapshotInv
<1> DEFINE new == [publisher[h] EXCEPT !.pc = "read_data"]
<1>1. /\ publisher[h].pc = "bump" /\ version' = version + 1
      /\ publisher' = [publisher EXCEPT ![h] = new]
      /\ UNCHANGED <<content, bus, worker, unannounced, exhausted, quiet>>
  BY Zenon DEF Bump, Advance
<1>2. new \in Publisher /\ new.pc = "read_data"
  BY Zenon DEF SnapshotTypeOK, Publisher, PublishStages
<1> HIDE DEF new
<1>3. PublisherMoves(h, new)
  BY Zenon, <1>1, <1>2 DEF PublisherMoves
<1>4. /\ publisher' \in [Publishers -> Publisher]
      /\ \A k \in Publishers : publisher'[k] = IF k = h THEN new ELSE publisher[k]
      /\ \A s \in Stores, v \in Nat, c \in Changes : IsKnown(s, v, c)' =>
           IsKnown(s, v, c) \/ new.pc \in ReadStages(s)
  BY Zenon, <1>1, <1>3, HandlerFrame
<1>5. version \in Nat /\ version + 1 \in Nat /\ bus.version \in Nat
      /\ bus.version <= version + 1 /\ version <= version'
  BY <1>1 DEF SnapshotTypeOK, Snapshot
<1>6. SnapshotTypeOK'
  BY Zenon, <1>1, <1>4, <1>5 DEF SnapshotTypeOK
<1>7. OnlyWrites
  <2>1. \A s \in Stores : new.pc \notin ReadStages(s)
    BY Zenon, <1>2 DEF ReadStages
  <2>2. content \in [Stores -> Changes] /\ content["data"] \in Nat
    BY DEF SnapshotTypeOK, Changes, Stores
  <2> QED
    BY <1>1, <1>4, <2>1, <2>2 DEF OnlyWrites
<1>8. /\ VersionsBounded' /\ DataGrows'
      /\ \A s \in Stores, a \in Nat :
           ShownFrom(s, a) /\ content'[s] = content[s] => ShownFrom(s, a)'
      /\ \A s \in Stores, a \in Nat : a = version' => ShownFrom(s, a)'
  BY Zenon, <1>1, <1>7, WritesKeep
<1>9. PollsWithHeld'
  BY Zenon, <1>1 DEF PollsWithHeld
<1>10. ASSUME NEW s \in Stores PROVE Announced(s)'
  <2>1. PICK a \in 1..version' : a = version'
    BY <1>1, <1>5
  <2>2. ShownFrom(s, a)'
    BY Zenon, <1>1, <1>5, <1>8, <2>1
  <2>3. Carries(h, s, a)'
    BY Zenon, <1>2, <1>4 DEF Carries
  <2> QED
    BY Zenon, <2>2, <2>3 DEF Announced
<1> QED
  BY Zenon, <1>6, <1>8, <1>9, <1>10

\* ChangeSilently, ChangeQuotaOnly: no handler moves.
LEMMA SilentStep ==
  ASSUME SnapshotInv, ChangeSilently \/ ChangeQuotaOnly
  PROVE  SnapshotInv'
<1> USE DEF SnapshotInv
<1>1. /\ version' = version + 1 /\ UNCHANGED <<publisher, bus, worker, exhausted>>
      /\ unannounced \subseteq unannounced'
  BY Zenon DEF ChangeSilently, ChangeQuotaOnly
<1>2. "data" \in Stores /\ version \in Nat /\ version + 1 \in Nat /\ bus.version \in Nat
      /\ bus.version <= version + 1 /\ content["data"] \in Nat
      /\ content["data"] + 1 >= content["data"] /\ content["data"] >= content["data"]
  BY DEF SnapshotTypeOK, Snapshot, Stores, Changes
<1>3. /\ content' \in [Stores -> Changes] /\ content'["data"] >= content["data"]
      /\ \A s \in Stores : content'[s] = content[s] \/ <<s, content'[s]>> \in unannounced'
      /\ unannounced' \in SUBSET (Stores \X Changes) /\ quiet' \in 0..MaxQuotaOnly
  <2>1. CASE ChangeSilently
    <3>1. Change("data") /\ unannounced' = unannounced \cup {<<"data", content["data"] + 1>>}
          /\ quiet' = quiet
      BY Zenon, <2>1 DEF ChangeSilently
    <3>2. /\ content' \in [Stores -> Changes] /\ content["data"] + 1 \in Changes
          /\ content'["data"] = content["data"] + 1
          /\ \A s \in Stores \ {"data"} : content'[s] = content[s]
      BY Zenon, <1>2, <3>1, ChangeTypes
    <3> QED
      BY <1>2, <3>1, <3>2 DEF SnapshotTypeOK
  <2>2. CASE ChangeQuotaOnly
    BY <1>2, <2>2, SnapshotSyncAssumption DEF ChangeQuotaOnly, SnapshotTypeOK
  <2> QED
    BY Zenon, <2>1, <2>2
<1>4. SnapshotTypeOK'
  BY Zenon, <1>1, <1>2, <1>3 DEF SnapshotTypeOK
<1>5. OnlyWrites
  <2>1. \A s \in Stores, v \in Nat, c \in Changes : IsKnown(s, v, c)' => IsKnown(s, v, c)
    BY <1>1 DEF IsKnown
  <2>2. version' \in {version, version + 1} /\ version' # version
    BY <1>1, <1>2
  <2> QED
    BY Zenon, <1>1, <1>3, <2>1, <2>2 DEF OnlyWrites
<1>6. /\ VersionsBounded' /\ DataGrows'
      /\ \A s \in Stores, a \in Nat :
           ShownFrom(s, a) /\ content'[s] = content[s] => ShownFrom(s, a)'
  BY Zenon, <1>5, WritesKeep
<1>7. PollsWithHeld'
  BY Zenon, <1>1 DEF PollsWithHeld
<1>8. ASSUME NEW s \in Stores PROVE Announced(s)'
  <2>1. CASE <<s, content'[s]>> \in unannounced'
    BY Zenon, <2>1 DEF Announced
  <2>2. CASE content'[s] = content[s]
    BY <1>1, <1>2, <1>4, <1>6, <2>2, OthersKept
  <2> QED
    BY Zenon, <1>3, <2>1, <2>2
<1> QED
  BY Zenon, <1>4, <1>6, <1>7, <1>8

-----------------------------------------------------------------------------
\* BumpFailed, ApplyQuotasFailed: the change is one that nobody announces.
LEMMA FailedStep ==
  ASSUME SnapshotInv, NEW h \in Publishers, BumpFailed(h) \/ ApplyQuotasFailed(h)
  PROVE  SnapshotInv'
<1> USE DEF SnapshotInv
<1>1. /\ publisher[h].pc \in {"bump", "apply"}
      /\ unannounced' = unannounced \cup {publisher[h].change}
      /\ publisher' = [publisher EXCEPT ![h] = IdlePublisher]
      /\ UNCHANGED <<version, content, bus, worker, exhausted, quiet>>
  BY Zenon DEF BumpFailed, ApplyQuotasFailed, Leave
<1>2. PublisherMoves(h, IdlePublisher)
  BY Zenon, <1>1, EmptyTypes DEF PublisherMoves
<1>3. /\ publisher' \in [Publishers -> Publisher] /\ publisher[h] \in Publisher
      /\ \A k \in Publishers : publisher'[k] = IF k = h THEN IdlePublisher ELSE publisher[k]
      /\ \A s \in Stores, v \in Nat, c \in Changes : IsKnown(s, v, c)' =>
           IsKnown(s, v, c) \/ IdlePublisher.pc \in ReadStages(s)
  BY Zenon, <1>1, <1>2, HandlerFrame
<1>4. SnapshotTypeOK'
  <2>1. publisher[h].change \in Stores \X Changes
    BY Zenon, <1>3 DEF Publisher
  <2> QED
    BY Zenon, <1>1, <1>3, <2>1 DEF SnapshotTypeOK
<1>5. OnlyReads
  <2>1. \A s \in Stores : IdlePublisher.pc \notin ReadStages(s)
    BY Zenon, EmptyTypes DEF ReadStages
  <2> QED
    BY Zenon, <1>1, <1>3, <2>1 DEF OnlyReads
<1>6. /\ VersionsBounded' /\ DataGrows'
      /\ \A s \in Stores, a \in Nat : ShownFrom(s, a) => ShownFrom(s, a)'
  BY Zenon, <1>5, ReadsKeep
<1>7. PollsWithHeld'
  BY Zenon, <1>1 DEF PollsWithHeld
<1>8. ASSUME NEW s \in Stores PROVE Announced(s)'
  <2>1. publisher[h].change = <<s, content[s]>> => Announced(s)'
    BY Zenon, <1>1 DEF Announced
  <2>2. version <= version'
    BY <1>1 DEF SnapshotTypeOK
  <2>3. unannounced \subseteq unannounced' /\ UNCHANGED bus /\ content'[s] = content[s]
    BY Zenon, <1>1
  <2>4. \A k \in Publishers : k # h => publisher'[k] = publisher[k]
    BY Zenon, <1>3
  <2> QED
    BY Zenon, <1>1, <1>4, <1>6, <2>1, <2>2, <2>3, <2>4, OthersKept
<1> QED
  BY Zenon, <1>4, <1>6, <1>7, <1>8

\* A step of a publication before the bus: what the handler carried it carries on.
CarriesOn(h, new) ==
  /\ PublisherMoves(h, new) /\ OnlyReads
  /\ UNCHANGED <<bus, unannounced, exhausted, quiet>>
  /\ publisher[h].pc # "bump"
  /\ \A s \in Stores, a \in 1..version : Carries(h, s, a) =>
       \/ new.pc = "read_data"
       \/ new.pc \in ReadStages("data") /\ a <= new.draft.version

LEMMA CarryStep ==
  ASSUME SnapshotInv, NEW h \in Publishers, NEW new, CarriesOn(h, new)
  PROVE  SnapshotInv'
<1> USE DEF SnapshotInv
<1>1. /\ PublisherMoves(h, new) /\ OnlyReads /\ publisher[h].pc # "bump"
      /\ UNCHANGED <<version, content, worker, bus, unannounced, exhausted, quiet>>
  BY Zenon DEF CarriesOn, OnlyReads, PublisherMoves
<1>2. /\ publisher' \in [Publishers -> Publisher]
      /\ \A k \in Publishers : publisher'[k] = IF k = h THEN new ELSE publisher[k]
  BY Zenon, <1>1, HandlerFrame
<1>3. SnapshotTypeOK'
  BY Zenon, <1>1, <1>2 DEF SnapshotTypeOK
<1>4. /\ VersionsBounded' /\ DataGrows'
      /\ \A s \in Stores, a \in Nat : ShownFrom(s, a) => ShownFrom(s, a)'
  BY Zenon, <1>1, ReadsKeep
<1>5. PollsWithHeld'
  BY Zenon, <1>1 DEF PollsWithHeld
<1>6. ASSUME NEW s \in Stores PROVE Announced(s)'
  <2>1. ASSUME NEW k \in Publishers, NEW a \in 1..version, Carries(k, s, a)
        PROVE  Carries(k, s, a)'
    <3>1. CASE k = h
      BY Zenon, <1>2, <2>1, <3>1 DEF CarriesOn, Carries
    <3>2. CASE k # h
      BY Zenon, <1>1, <1>2, <2>1, <3>2 DEF Carries
    <3> QED
      BY Zenon, <3>1, <3>2
  <2>2. ASSUME NEW k \in Publishers, publisher[k].pc = "bump", publisher[k].change = <<s, content[s]>>
        PROVE  Announced(s)'
    <3>1. publisher'[k] = publisher[k]
      BY Zenon, <1>1, <1>2, <2>2
    <3> QED
      BY Zenon, <1>1, <2>2, <3>1 DEF Announced
  <2>3. bus.version <= bus'.version /\ version <= version'
    BY <1>1 DEF SnapshotTypeOK, Snapshot
  <2>4. Keeps(s)
    BY Zenon, <1>1, <1>4, <2>1, <2>2, <2>3 DEF Keeps, Carried
  <2> QED
    BY Zenon, <1>3, <2>4, AnnouncedKept
<1> QED
  BY Zenon, <1>3, <1>4, <1>5, <1>6

LEMMA ApplyCarries ==
  ASSUME SnapshotInv, NEW h \in Publishers, ApplyQuotas(h)
  PROVE  \E new : CarriesOn(h, new)
<1> USE DEF SnapshotInv
<1> DEFINE new == [publisher[h] EXCEPT !.pc = "read_data"]
<1>1. /\ publisher[h].pc = "apply" /\ publisher' = [publisher EXCEPT ![h] = new]
      /\ UNCHANGED <<version, content, bus, worker, unannounced, exhausted, quiet>>
  BY Zenon DEF ApplyQuotas, Advance
<1>2. new \in Publisher /\ new.pc = "read_data"
  BY Zenon DEF SnapshotTypeOK, Publisher, PublishStages
<1> HIDE DEF new
<1>3. PublisherMoves(h, new)
  BY Zenon, <1>1, <1>2 DEF PublisherMoves
<1>4. OnlyReads
  <2>1. \A s \in Stores : new.pc \notin ReadStages(s)
    BY Zenon, <1>2 DEF ReadStages
  <2>2. \A s \in Stores, v \in Nat, c \in Changes : IsKnown(s, v, c)' =>
          IsKnown(s, v, c) \/ new.pc \in ReadStages(s)
    BY Zenon, <1>1, <1>3, HandlerFrame
  <2> QED
    BY Zenon, <1>1, <2>1, <2>2 DEF OnlyReads
<1>5. CarriesOn(h, new)
  BY Zenon, <1>1, <1>2, <1>3, <1>4 DEF CarriesOn
<1> QED
  BY Zenon, <1>5

\* The draft takes the version before anything is announced that it may miss.
LEMMA ReadDataCarries ==
  ASSUME SnapshotInv, NEW h \in Publishers, ReadData(h)
  PROVE  \E new : CarriesOn(h, new)
<1> USE DEF SnapshotInv
<1> DEFINE shown == [Empty.content EXCEPT !["data"] = content["data"]]
           draft == [version |-> version, content |-> shown]
           new == [publisher[h] EXCEPT !.pc = "read_proxies", !.draft = draft]
<1>1. /\ publisher[h].pc = "read_data" /\ publisher' = [publisher EXCEPT ![h] = new]
      /\ UNCHANGED <<version, content, bus, worker, unannounced, exhausted, quiet>>
  BY Zenon DEF ReadData
<1>2. shown \in [Stores -> Changes] /\ shown["data"] = content["data"]
  BY Zenon, EmptyTypes DEF Snapshot, SnapshotTypeOK, Stores
<1> HIDE DEF shown
<1>3. draft \in Snapshot /\ draft.version = version /\ draft.content = shown
  BY Zenon, <1>2 DEF Snapshot, SnapshotTypeOK
<1> HIDE DEF draft
<1>4. new \in Publisher /\ new.pc = "read_proxies" /\ new.draft = draft
  BY Zenon, <1>3 DEF SnapshotTypeOK, Publisher, PublishStages
<1> HIDE DEF new
<1>5. PublisherMoves(h, new)
  BY Zenon, <1>1, <1>4 DEF PublisherMoves
<1>6. OnlyReads
  <2>1. \A s \in Stores : new.pc \in ReadStages(s) => s = "data"
    BY Zenon, <1>4 DEF ReadStages
  <2>2. \A s \in Stores, v \in Nat, c \in Changes : IsKnown(s, v, c)' =>
          \/ IsKnown(s, v, c)
          \/ new.pc \in ReadStages(s) /\ new.draft.version = v /\ new.draft.content[s] = c
    BY <1>1, <1>5, HandlerFrame
  <2>3. version <= version
    BY DEF SnapshotTypeOK
  <2> QED
    BY Zenon, <1>1, <1>2, <1>3, <1>4, <2>1, <2>2, <2>3 DEF OnlyReads
<1>7. \A a \in 1..version : new.pc \in ReadStages("data") /\ a <= new.draft.version
  BY <1>3, <1>4 DEF ReadStages, SnapshotTypeOK
<1>8. CarriesOn(h, new)
  BY Zenon, <1>1, <1>5, <1>6, <1>7 DEF CarriesOn
<1> QED
  BY Zenon, <1>8

\* Proxies and options are read after the version, so the draft shows at least
\* what its version announced.
LEMMA ReadStoreCarries ==
  ASSUME SnapshotInv, NEW h \in Publishers, ReadProxies(h) \/ ReadOptions(h)
  PROVE  \E new : CarriesOn(h, new)
<1> USE DEF SnapshotInv
<1>1. PICK t \in {"proxies", "options"}, here \in {"read_proxies", "read_options"},
           next \in {"read_options", "publish"} :
        /\ ReadStore(h, t, here, next)
        /\ \A s \in Stores : next \in ReadStages(s) <=> s = t \/ here \in ReadStages(s)
  <2>1. CASE ReadProxies(h)
    BY Zenon, <2>1 DEF ReadProxies, ReadStages, Stores
  <2>2. CASE ReadOptions(h)
    BY Zenon, <2>2 DEF ReadOptions, ReadStages, Stores
  <2> QED
    BY Zenon, <2>1, <2>2
<1> DEFINE old == publisher[h].draft
           shown == [old.content EXCEPT ![t] = content[t]]
           draft == [version |-> old.version, content |-> shown]
           new == [publisher[h] EXCEPT !.pc = next, !.draft = draft]
<1>2. /\ publisher[h].pc = here /\ publisher' = [publisher EXCEPT ![h] = new]
      /\ UNCHANGED <<version, content, bus, worker, unannounced, exhausted, quiet>>
  BY Zenon, <1>1 DEF ReadStore
<1>3. old \in Snapshot /\ old.version \in Nat /\ old.content \in [Stores -> Changes]
  BY Zenon DEF SnapshotTypeOK, Publisher, Snapshot
<1>4. t \in Stores /\ "data" \in Stores /\ next \in PublishStages
      /\ here \in ReadStages("data") /\ next \in ReadStages("data")
  BY Zenon DEF Stores, PublishStages, ReadStages
<1>5. /\ shown \in [Stores -> Changes] /\ shown[t] = content[t]
      /\ \A s \in Stores \ {t} : shown[s] = old.content[s]
  BY Zenon, <1>3, <1>4 DEF SnapshotTypeOK
<1> HIDE DEF shown
<1>6. draft \in Snapshot /\ draft.version = old.version /\ draft.content = shown
  BY Zenon, <1>3, <1>5 DEF Snapshot
<1> HIDE DEF draft
<1>7. new \in Publisher /\ new.pc = next /\ new.draft = draft
  BY Zenon, <1>4, <1>6 DEF SnapshotTypeOK, Publisher
<1> HIDE DEF new
<1>8. PublisherMoves(h, new)
  BY Zenon, <1>2, <1>7 DEF PublisherMoves
<1>9. old.version <= version
  <2>1. IsKnown("data", old.version, old.content["data"])
    BY Zenon, <1>2, <1>4 DEF IsKnown
  <2> QED
    BY Zenon, <1>3, <1>4, <2>1 DEF VersionsBounded
<1>10. OnlyReads
  <2>1. ASSUME NEW s \in Stores, NEW v \in Nat, NEW c \in Changes, IsKnown(s, v, c)'
        PROVE  \/ IsKnown(s, v, c)
               \/ /\ c = content[s] /\ v <= version
                  /\ s = "data" => v = version
    <3>1. \/ IsKnown(s, v, c)
          \/ new.pc \in ReadStages(s) /\ new.draft.version = v /\ new.draft.content[s] = c
      BY <1>2, <1>8, <2>1, HandlerFrame
    <3>2. CASE next \in ReadStages(s) /\ old.version = v /\ shown[s] = c /\ s = t
      BY Zenon, <1>5, <1>9, <3>2
    <3>3. CASE next \in ReadStages(s) /\ old.version = v /\ shown[s] = c /\ s # t
      <4>1. here \in ReadStages(s) /\ old.content[s] = c
        BY Zenon, <1>1, <1>5, <3>3
      <4> QED
        BY Zenon, <1>2, <3>3, <4>1 DEF IsKnown
    <3> QED
      BY Zenon, <1>6, <1>7, <3>1, <3>2, <3>3
  <2> QED
    BY Zenon, <1>2, <2>1 DEF OnlyReads
<1>11. ASSUME NEW s \in Stores, NEW a \in 1..version, Carries(h, s, a)
       PROVE  new.pc \in ReadStages("data") /\ a <= new.draft.version
  BY Zenon, <1>2, <1>4, <1>6, <1>7, <1>11 DEF Carries
<1>12. CarriesOn(h, new)
  BY Zenon, <1>2, <1>8, <1>10, <1>11 DEF CarriesOn
<1> QED
  BY Zenon, <1>12

\* A refused draft is older than the bus, so the bus shows what it carried.
LEMMA PublishStep ==
  ASSUME SnapshotInv, NEW h \in Publishers, Publish(h)
  PROVE  /\ SnapshotInv' /\ UNCHANGED worker
         /\ bus'.version >= bus.version /\ bus'.content["data"] >= bus.content["data"]
<1> USE DEF SnapshotInv
<1> DEFINE draft == publisher[h].draft
<1>1. /\ publisher[h].pc = "publish" /\ publisher' = [publisher EXCEPT ![h] = IdlePublisher]
      /\ bus' = IF draft.version >= bus.version THEN draft ELSE bus
      /\ UNCHANGED <<version, content, worker, unannounced, exhausted, quiet>>
  BY Zenon DEF Publish, Leave, Accepts
<1>2. PublisherMoves(h, IdlePublisher)
  BY Zenon, <1>1, EmptyTypes DEF PublisherMoves
<1>3. /\ publisher' \in [Publishers -> Publisher] /\ publisher[h] \in Publisher
      /\ \A k \in Publishers : publisher'[k] = IF k = h THEN IdlePublisher ELSE publisher[k]
  BY Zenon, <1>2, HandlerFrame
<1>4. /\ draft \in Snapshot /\ draft.version \in Nat /\ draft.content \in [Stores -> Changes]
      /\ bus \in Snapshot /\ bus.version \in Nat /\ bus.content \in [Stores -> Changes]
      /\ version \in Nat /\ "data" \in Stores
  BY Zenon, <1>3 DEF Publisher, SnapshotTypeOK, Snapshot, Stores
<1>5. /\ \A s \in Stores : IsKnown(s, draft.version, draft.content[s])
      /\ \A s \in Stores : IsKnown(s, bus.version, bus.content[s])
  <2>1. \A s \in Stores : publisher[h].pc \in ReadStages(s)
    BY Zenon, <1>1 DEF ReadStages
  <2> QED
    BY Zenon, <2>1 DEF IsKnown
<1>6. draft.version <= version
  BY Zenon, <1>4, <1>5 DEF VersionsBounded
<1>7. SnapshotTypeOK'
  BY Zenon, <1>1, <1>3, <1>4, <1>6 DEF SnapshotTypeOK
<1>8. ASSUME NEW s \in Stores, NEW v \in Nat, NEW c \in Changes, IsKnown(s, v, c)'
      PROVE  IsKnown(s, v, c)
  <2>1. CASE bus'.version = v /\ bus'.content[s] = c
    BY Zenon, <1>1, <1>5, <2>1
  <2>2. ASSUME NEW k \in Publishers, publisher'[k].pc \in ReadStages(s),
               publisher'[k].draft.version = v, publisher'[k].draft.content[s] = c
        PROVE  IsKnown(s, v, c)
    <3>1. publisher'[k] = publisher[k]
      BY Zenon, <1>3, <2>2, EmptyTypes DEF ReadStages
    <3> QED
      BY Zenon, <2>2, <3>1 DEF IsKnown
  <2> QED
    BY Zenon, <1>1, <1>8, <2>1, <2>2 DEF IsKnown
<1>9. OnlyReads
  BY Zenon, <1>1, <1>8 DEF OnlyReads
<1>10. /\ VersionsBounded' /\ DataGrows'
       /\ \A s \in Stores, a \in Nat : ShownFrom(s, a) => ShownFrom(s, a)'
  BY Zenon, <1>9, ReadsKeep
<1>11. PollsWithHeld'
  BY Zenon, <1>1 DEF PollsWithHeld
<1>12. bus'.version >= bus.version /\ bus'.version >= draft.version
  BY <1>1, <1>4
<1>13. bus'.content["data"] >= bus.content["data"]
  <2>1. draft.version >= bus.version => bus.content["data"] <= draft.content["data"]
    BY <1>4, <1>5 DEF DataGrows
  <2>2. draft.content["data"] \in Nat /\ bus.content["data"] \in Nat
    BY <1>4 DEF Changes
  <2> QED
    BY <1>1, <2>1, <2>2
<1>14. ASSUME NEW s \in Stores PROVE Announced(s)'
  <2>1. ASSUME NEW k \in Publishers, NEW a \in 1..version, Carries(k, s, a)
        PROVE  Carried(s, a)'
    <3>1. CASE k = h
      <4>1. a <= draft.version
        BY Zenon, <1>1, <2>1, <3>1 DEF Carries
      <4> QED
        BY <1>4, <1>7, <1>12, <4>1 DEF Carried, SnapshotTypeOK, Snapshot
    <3>2. CASE k # h
      BY Zenon, <1>1, <1>3, <2>1, <3>2 DEF Carries, Carried
    <3> QED
      BY Zenon, <3>1, <3>2
  <2>2. ASSUME NEW k \in Publishers, publisher[k].pc = "bump", publisher[k].change = <<s, content[s]>>
        PROVE  Announced(s)'
    <3>1. publisher'[k] = publisher[k]
      BY Zenon, <1>1, <1>3, <2>2
    <3> QED
      BY Zenon, <1>1, <2>2, <3>1 DEF Announced
  <2>3. bus.version <= bus'.version /\ version <= version'
    BY <1>1, <1>4, <1>7, <1>12 DEF SnapshotTypeOK, Snapshot
  <2>4. Keeps(s)
    BY Zenon, <1>1, <1>10, <2>1, <2>2, <2>3 DEF Keeps
  <2> QED
    BY Zenon, <1>7, <2>4, AnnouncedKept
<1> QED
  BY Zenon, <1>1, <1>7, <1>10, <1>11, <1>12, <1>13, <1>14

\* A restart publishes the stores as they are, at the version they have.
LEMMA RestartStep ==
  ASSUME SnapshotInv, RestartControl
  PROVE  /\ SnapshotInv' /\ UNCHANGED worker
         /\ bus'.version >= bus.version /\ bus'.content["data"] >= bus.content["data"]
<1> USE DEF SnapshotInv
<1>1. /\ unannounced' = unannounced \cup
           {publisher[h].change : h \in {k \in Publishers : publisher[k].pc = "bump"}}
      /\ publisher' = [h \in Publishers |-> IdlePublisher] /\ bus' = Current
      /\ UNCHANGED <<version, content, worker, exhausted, quiet>>
  BY Zenon DEF RestartControl
<1>2. /\ bus' \in Snapshot /\ bus'.version = version /\ bus'.content = content
      /\ version \in Nat /\ version <= version /\ content \in [Stores -> Changes]
      /\ bus.version \in Nat /\ bus.version <= version /\ bus.content["data"] \in Changes
      /\ "data" \in Stores
  BY <1>1 DEF Current, Snapshot, SnapshotTypeOK, Stores
<1>3. SnapshotTypeOK'
  <2>1. \A h \in Publishers : publisher[h].change \in Stores \X Changes
    BY Zenon DEF SnapshotTypeOK, Publisher
  <2> QED
    BY <1>1, <1>2, <2>1, EmptyTypes DEF SnapshotTypeOK
<1>4. OnlyReads
  <2>1. \A h \in Publishers, s \in Stores : publisher'[h].pc \notin ReadStages(s)
    BY Zenon, <1>1, EmptyTypes DEF ReadStages
  <2>2. ASSUME NEW s \in Stores, NEW v \in Nat, NEW c \in Changes, IsKnown(s, v, c)'
        PROVE  IsKnown(s, v, c) \/ (c = content[s] /\ v = version)
    BY Zenon, <1>1, <1>2, <2>1, <2>2 DEF IsKnown
  <2> QED
    BY Zenon, <1>1, <1>2, <2>2 DEF OnlyReads
<1>5. /\ VersionsBounded' /\ DataGrows'
      /\ \A s \in Stores, a \in Nat : ShownFrom(s, a) => ShownFrom(s, a)'
  BY Zenon, <1>4, ReadsKeep
<1>6. PollsWithHeld'
  BY Zenon, <1>1 DEF PollsWithHeld
<1>7. ASSUME NEW s \in Stores PROVE Announced(s)'
  <2>1. \A h \in Publishers, a \in 1..version : Carries(h, s, a) => Carried(s, a)'
    BY <1>2 DEF Carried
  <2>2. ASSUME NEW k \in Publishers, publisher[k].pc = "bump", publisher[k].change = <<s, content[s]>>
        PROVE  Announced(s)'
    <3>1. <<s, content[s]>> \in unannounced'
      BY Zenon, <1>1, <2>2
    <3> QED
      BY Zenon, <1>1, <3>1 DEF Announced
  <2>3. Keeps(s)
    BY Zenon, <1>1, <1>2, <1>5, <2>1, <2>2 DEF Keeps
  <2> QED
    BY Zenon, <1>3, <2>3, AnnouncedKept
<1>8. bus'.content["data"] >= bus.content["data"]
  <2>1. IsKnown("data", bus.version, bus.content["data"])
    BY Zenon DEF IsKnown
  <2> QED
    BY Zenon, <1>2, <2>1 DEF DataGrows, Changes
<1> QED
  BY Zenon, <1>1, <1>2, <1>3, <1>5, <1>6, <1>7, <1>8

-----------------------------------------------------------------------------
\* A step of a handler before the bus, or of the stores alone.
LEMMA HandleStep ==
  ASSUME SnapshotInv,
         (\E h \in Publishers : Handle(h)) \/ ChangeSilently \/ ChangeQuotaOnly \/ RestartControl
  PROVE  /\ SnapshotInv' /\ UNCHANGED worker
         /\ bus'.version >= bus.version /\ bus'.content["data"] >= bus.content["data"]
<1>1. bus.version >= bus.version /\ bus.content["data"] >= bus.content["data"]
  <2>1. bus.version \in Nat /\ bus.content["data"] \in Nat
    BY DEF SnapshotInv, SnapshotTypeOK, Snapshot, Stores, Changes
  <2> QED
    BY <2>1
<1>2. CASE ChangeSilently \/ ChangeQuotaOnly
  <2>1. UNCHANGED <<bus, worker>>
    BY Zenon, <1>2 DEF ChangeSilently, ChangeQuotaOnly
  <2> QED
    BY Zenon, <1>1, <1>2, <2>1, SilentStep
<1>3. ASSUME NEW h \in Publishers, ChangeData(h) \/ Exhaust(h)
      PROVE  SnapshotInv' /\ UNCHANGED <<bus, worker>>
  <2>1. UNCHANGED <<bus, worker>>
    BY Zenon, <1>3 DEF ChangeData, Exhaust
  <2> QED
    BY Zenon, <1>3, <2>1, DataStep
<1>4. ASSUME NEW h \in Publishers, NEW s \in Stores \ {"data"}, ChangeStore(h, s)
      PROVE  SnapshotInv' /\ UNCHANGED <<bus, worker>>
  <2>1. UNCHANGED <<bus, worker>>
    BY Zenon, <1>4 DEF ChangeStore
  <2> QED
    BY Zenon, <1>4, <2>1, StoreStep
<1>5. ASSUME NEW h \in Publishers, Bump(h)
      PROVE  SnapshotInv' /\ UNCHANGED <<bus, worker>>
  <2>1. UNCHANGED <<bus, worker>>
    BY Zenon, <1>5 DEF Bump
  <2> QED
    BY Zenon, <1>5, <2>1, BumpStep
<1>6. ASSUME NEW h \in Publishers, BumpFailed(h) \/ ApplyQuotasFailed(h)
      PROVE  SnapshotInv' /\ UNCHANGED <<bus, worker>>
  <2>1. UNCHANGED <<bus, worker>>
    BY Zenon, <1>6 DEF BumpFailed, ApplyQuotasFailed
  <2> QED
    BY Zenon, <1>6, <2>1, FailedStep
<1>7. ASSUME NEW h \in Publishers,
             ApplyQuotas(h) \/ ReadData(h) \/ ReadProxies(h) \/ ReadOptions(h)
      PROVE  SnapshotInv' /\ UNCHANGED <<bus, worker>>
  <2>1. PICK new : CarriesOn(h, new)
    BY Zenon, <1>7, ApplyCarries, ReadDataCarries, ReadStoreCarries
  <2>2. UNCHANGED <<bus, worker>>
    BY Zenon, <2>1 DEF CarriesOn, PublisherMoves
  <2> QED
    BY Zenon, <2>1, <2>2, CarryStep
<1>8. ASSUME NEW h \in Publishers, Publish(h)
      PROVE  /\ SnapshotInv' /\ UNCHANGED worker
             /\ bus'.version >= bus.version /\ bus'.content["data"] >= bus.content["data"]
  BY Zenon, <1>8, PublishStep
<1>9. ASSUME NEW h \in Publishers, Handle(h)
      PROVE  /\ SnapshotInv' /\ UNCHANGED worker
             /\ bus'.version >= bus.version /\ bus'.content["data"] >= bus.content["data"]
  <2>1. CASE Publish(h)
    BY Zenon, <1>8, <2>1
  <2>2. CASE ~Publish(h)
    <3>1. SnapshotInv' /\ UNCHANGED <<bus, worker>>
      BY Zenon, <1>3, <1>4, <1>5, <1>6, <1>7, <1>9, <2>2 DEF Handle, Announce
    <3> QED
      BY Zenon, <1>1, <3>1
  <2> QED
    BY Zenon, <2>1, <2>2
<1> QED
  BY Zenon, <1>2, <1>9, RestartStep

\* Of two snapshots that somebody holds, the newer has no fewer changes.
LEMMA NewerHasMore ==
  ASSUME DataGrows, NEW v \in Nat, NEW x \in Nat, NEW c \in Changes, NEW d \in Changes,
         IsKnown("data", v, c), IsKnown("data", x, d), v <= x
  PROVE  c <= d
  BY Zenon DEF DataGrows

\* A worker takes a snapshot only when it is newer than the one it holds.
LEMMA WorkerNeverOlder ==
  ASSUME SnapshotInv, NEW w \in Workers,
         Load(w) \/ Poll(w) \/ Receive(w) \/ WorkerRestart(w),
         NEW u \in Workers, worker[u].pc # "boot", worker'[u].pc # "boot"
  PROVE  /\ worker'[u].held.version >= worker[u].held.version
         /\ worker'[u].held.content["data"] >= worker[u].held.content["data"]
<1>0. /\ SnapshotTypeOK /\ DataGrows /\ PollsWithHeld
      /\ worker \in [Workers -> Worker]
  BY Zenon DEF SnapshotInv, SnapshotTypeOK
<1>1. /\ worker[u] \in Worker /\ "data" \in Stores
      /\ worker[u].held.version \in Nat /\ worker[u].held.content["data"] \in Changes
      /\ worker[u].answer.version \in Nat /\ worker[u].answer.content["data"] \in Changes
  BY <1>0 DEF Worker, Snapshot, Stores
<1>2. worker[u].held.content["data"] \in Nat /\ worker[u].answer.content["data"] \in Nat
  BY <1>1 DEF Changes
<1>3. CASE worker'[u].held = worker[u].held
  <2> DEFINE v == worker[u].held.version
             c == worker[u].held.content["data"]
  <2>1. v \in Nat /\ c \in Nat
    BY Zenon, <1>1, <1>2
  <2> HIDE DEF v, c
  <2>2. v >= v /\ c >= c
    BY <2>1
  <2> QED
    BY Zenon, <1>3, <2>2 DEF v, c
<1>4. CASE Updated(w) /\ u = w
  <2>1. worker'[u].held = worker[u].answer
    BY Zenon, <1>0, <1>1, <1>4 DEF Updated, Worker
  <2>2. worker[u].held.version < worker[u].answer.version
    BY Zenon, <1>0, <1>4 DEF Updated, PollsWithHeld
  <2>3. /\ IsKnown("data", worker[u].held.version, worker[u].held.content["data"])
        /\ IsKnown("data", worker[u].answer.version, worker[u].answer.content["data"])
    BY Zenon DEF IsKnown
  <2> DEFINE v == worker[u].held.version
             x == worker[u].answer.version
             c == worker[u].held.content["data"]
             d == worker[u].answer.content["data"]
  <2>4. /\ v \in Nat /\ x \in Nat /\ c \in Changes /\ d \in Changes /\ c \in Nat /\ d \in Nat
        /\ IsKnown("data", v, c) /\ IsKnown("data", x, d) /\ v < x
    BY Zenon, <1>1, <1>2, <2>2, <2>3
  <2>5. worker'[u].held.version = x /\ worker'[u].held.content["data"] = d
    BY Zenon, <2>1
  <2> HIDE DEF v, x, c, d
  <2>6. c <= d /\ v <= x
    <3>1. v <= x
      BY <2>4
    <3> QED
      BY Zenon, <1>0, <2>4, <3>1, NewerHasMore
  <2>7. x >= v /\ d >= c
    BY Zenon, <2>4, <2>6
  <2> QED
    BY Zenon, <2>5, <2>7 DEF v, c
<1>5. CASE u # w
  <2>1. worker'[u] = worker[u]
    BY Zenon, <1>0, <1>5 DEF Load, Poll, Receive, NotModified, Updated, Unindexed,
                      PollFailed, Unchanged, WorkerRestart
  <2> QED
    BY Zenon, <1>3, <2>1
<1>6. CASE u = w /\ ~Updated(w)
  <2>1. ~Load(w) /\ ~WorkerRestart(w)
    BY Zenon, <1>0, <1>6, EmptyTypes DEF Load, WorkerRestart
  <2>2. CASE Poll(w)
    BY Zenon, <1>0, <1>1, <1>3, <1>6, <2>2 DEF Worker, Poll
  <2>3. CASE NotModified(w)
    BY Zenon, <1>0, <1>1, <1>3, <1>6, <2>3 DEF Worker, NotModified
  <2>4. CASE Unindexed(w) \/ PollFailed(w)
    <3>1. Unchanged(w)
      BY Zenon, <2>4 DEF Unindexed, PollFailed
    <3> QED
      BY Zenon, <1>0, <1>1, <1>3, <1>6, <3>1 DEF Worker, Unchanged
  <2> QED
    BY Zenon, <1>6, <2>1, <2>2, <2>3, <2>4 DEF Receive
<1> QED
  BY Zenon, <1>4, <1>5, <1>6

\* The invariant is inductive.
LEMMA NextSnapshotInv == SnapshotInv /\ [SnapshotNext]_snapshot_vars => SnapshotInv'
<1> SUFFICES ASSUME SnapshotInv, [SnapshotNext]_snapshot_vars PROVE SnapshotInv'
  BY Zenon
<1>1. CASE UNCHANGED snapshot_vars
  <2>1. UNCHANGED <<version, content, publisher, bus, worker, unannounced, exhausted, quiet>>
    BY Zenon, <1>1 DEF snapshot_vars
  <2>2. SnapshotTypeOK' /\ PollsWithHeld'
    BY Zenon, <2>1 DEF SnapshotInv, SnapshotTypeOK, PollsWithHeld
  <2>3. OnlyReads
    BY <2>1 DEF OnlyReads, IsKnown
  <2>4. /\ VersionsBounded' /\ DataGrows'
        /\ \A s \in Stores, a \in Nat : ShownFrom(s, a) => ShownFrom(s, a)'
    BY Zenon, <2>3, ReadsKeep DEF SnapshotInv
  <2>5. version <= version'
    BY <2>1 DEF SnapshotInv, SnapshotTypeOK
  <2>6. \A s \in Stores : Announced(s)'
    BY Zenon, <2>1, <2>2, <2>4, <2>5, OthersKept
  <2> QED
    BY Zenon, <2>2, <2>4, <2>6 DEF SnapshotInv
<1>2. ASSUME NEW w \in Workers, Load(w) \/ Poll(w) \/ Receive(w) \/ WorkerRestart(w)
      PROVE  SnapshotInv'
  BY Zenon, <1>2, WorkerStep, CopiesKeep
<1> QED
  BY Zenon, <1>1, <1>2, HandleStep DEF SnapshotNext

\* Every version that a snapshot or a draft of one carries is the stores' or an
\* older one, data is never newer than its version, and the last change of every
\* store is unannounced, waits for its bump, or is shown by every snapshot from
\* some version on that is on the bus or on its way there.
THEOREM SnapshotInvariant == SnapshotSpec => []SnapshotInv
<1> QED
  BY InitSnapshotInv, NextSnapshotInv, PTL DEF SnapshotSpec

\* Whatever the interleaving of changes, bumps, reads and publications: when no
\* handler is left, the bus shows the last announced change of every store
\* (bump_version, publish_enriched_management_snapshot, MemorySnapshotBus).
THEOREM BusEndsCurrent == SnapshotSpec => []BusIsCurrent
<1>1. SnapshotInv => BusIsCurrent
  <2> SUFFICES ASSUME SnapshotInv, Quiescent, NEW s \in Stores,
                      <<s, content[s]>> \notin unannounced
               PROVE  bus.content[s] = content[s]
    BY Zenon DEF BusIsCurrent, Shows
  <2>1. PICK a \in 1..version : ShownFrom(s, a) /\ a <= bus.version
    BY Zenon DEF SnapshotInv, Announced, Carries, ReadStages, Quiescent
  <2>2. bus.version \in Nat /\ bus.content[s] \in Changes
    BY Zenon DEF SnapshotInv, SnapshotTypeOK, Snapshot
  <2>3. IsKnown(s, bus.version, bus.content[s])
    BY Zenon DEF IsKnown
  <2> QED
    BY Zenon, <2>1, <2>2, <2>3 DEF ShownFrom
<1> QED
  BY <1>1, SnapshotInvariant, PTL

\* A gateway worker that the bus answers with NotModified serves that state as
\* well, for any number of workers (spawn_snapshot_polling).
THEOREM WorkersEndCurrent == SnapshotSpec => []WorkerIsCurrent
<1>1. SnapshotInv => WorkerIsCurrent
  <2> SUFFICES ASSUME SnapshotInv, NEW w \in Workers, Quiescent, worker[w].pc # "boot",
                      worker[w].since >= bus.version,
                      NEW s \in Stores, <<s, content[s]>> \notin unannounced
               PROVE  worker[w].held.content[s] = content[s]
    BY Zenon DEF WorkerIsCurrent, Shows
  <2>1. PICK a \in 1..version : ShownFrom(s, a) /\ a <= bus.version
    BY Zenon DEF SnapshotInv, Announced, Carries, ReadStages, Quiescent
  <2>2. /\ bus.version \in Nat /\ worker[w].held.version \in Nat
        /\ worker[w].held.content[s] \in Changes
    BY DEF SnapshotInv, SnapshotTypeOK, Worker, Snapshot
  <2>3. worker[w].held.version >= bus.version
    BY Zenon DEF SnapshotInv, PollsWithHeld
  <2>4. IsKnown(s, worker[w].held.version, worker[w].held.content[s])
    BY Zenon DEF IsKnown
  <2> QED
    BY <2>1, <2>2, <2>3, <2>4 DEF ShownFrom
<1> QED
  BY <1>1, SnapshotInvariant, PTL

\* Neither a publication out of order, nor a restart, nor a late answer takes
\* the bus or a worker back to an older version or to older management data
\* (MemorySnapshotBus, store_snapshot).
THEOREM VersionsNeverGoBack == SnapshotSpec => NeverOlder
<1> DEFINE Forward ==
      /\ bus'.version >= bus.version
      /\ bus'.content["data"] >= bus.content["data"]
      /\ \A w \in Workers :
           worker[w].pc # "boot" /\ worker'[w].pc # "boot" =>
             /\ worker'[w].held.version >= worker[w].held.version
             /\ worker'[w].held.content["data"] >= worker[w].held.content["data"]
<1>1. ASSUME SnapshotInv, SnapshotNext PROVE Forward
  <2>1. /\ bus.version \in Nat /\ bus.content["data"] \in Nat
        /\ \A w \in Workers : /\ worker[w].held.version \in Nat
                              /\ worker[w].held.content["data"] \in Nat
    BY <1>1 DEF SnapshotInv, SnapshotTypeOK, Worker, Snapshot, Stores, Changes
  <2>2. ASSUME NEW w \in Workers, Load(w) \/ Poll(w) \/ Receive(w) \/ WorkerRestart(w)
        PROVE  Forward
    <3>1. UNCHANGED bus
      BY Zenon, <2>2 DEF Load, Poll, Receive, NotModified, Updated, Unindexed, PollFailed, WorkerRestart
    <3> QED
      BY <1>1, <2>1, <2>2, <3>1, WorkerNeverOlder
  <2>3. CASE (\E h \in Publishers : Handle(h)) \/ ChangeSilently \/ ChangeQuotaOnly \/ RestartControl
    BY <1>1, <2>1, <2>3, HandleStep
  <2> QED
    BY Zenon, <1>1, <2>2, <2>3 DEF SnapshotNext
<1>2. SnapshotInv /\ [SnapshotNext]_snapshot_vars => [Forward]_snapshot_vars
  BY Zenon, <1>1
<1> QED
  BY <1>2, SnapshotInvariant, PTL DEF SnapshotSpec, NeverOlder

-----------------------------------------------------------------------------
(***************************************************************************)
(* Replicas: any number of processes and of tables, read in any order, and *)
(* any faults.                                                             *)
(***************************************************************************)

\* Data that is not ahead of the database, and is the database's if it has its
\* version.
Agrees(d) ==
  /\ d.version <= database.version
  /\ d.version = database.version => d.tables = database.tables

\* What load_data_pg has read so far agrees, table by table, as long as nobody
\* has written since it read the version.
LoadAgrees(p) ==
  /\ writer[p].loaded.version <= database.version
  /\ writer[p].loaded.version = database.version =>
       \A i \in 1..writer[p].read :
         writer[p].loaded.tables[TableOrder[i]] = database.tables[TableOrder[i]]

\* The inductive invariant.
ReplicaInv ==
  /\ ReplicaTypeOK
  /\ \A p \in Replicas :
       /\ Agrees(copy[p])
       /\ writer[p].pc = "commit" =>
            writer[p].next = [version |-> copy[p].version + 1,
                              tables |-> Store!Apply(copy[p].tables, writer[p].kind)]
       /\ writer[p].pc = "committed" => Agrees(writer[p].next)
       /\ Loading(p) => LoadAgrees(p)

LEMMA ApplyType ==
  ASSUME NEW tables \in Content, NEW w \in Kinds
  PROVE  Store!Apply(tables, w) \in Content
  BY DEF Store!Apply, Content

LEMMA IdleWriterType ==
  /\ NewData \in Data
  /\ IdleWriter \in Writer /\ IdleWriter.pc = "idle"
<1>1. NewData \in Data
  BY Zenon DEF NewData, Data, Content
<1>2. Len(TableOrder) \in Nat /\ Settle \in Kinds
  BY ReplicatedAssumption
<1> QED BY <1>1, <1>2 DEF IdleWriter, Writer

LEMMA ReplicaInitInv == ReplicaInit => ReplicaInv
<1> SUFFICES ASSUME ReplicaInit PROVE ReplicaInv
  BY Zenon
<1>1. ReplicaTypeOK
  BY Zenon, IdleWriterType DEF ReplicaInit, ReplicaTypeOK
<1>2. NewData.version \in Nat
  BY Zenon, IdleWriterType DEF Data
<1> QED BY <1>1, <1>2, IdleWriterType DEF ReplicaInit, ReplicaInv, Agrees, Loading

\* A commit is one write on top of everything in the database.
LEMMA CommitWrites ==
  ASSUME ReplicaInv, NEW p \in Replicas, Commit(p)
  PROVE  /\ writer[p].kind \in Kinds
         /\ database' = writer[p].next
         /\ database'.version = database.version + 1
         /\ database'.tables = Store!Apply(database.tables, writer[p].kind)
<1> DEFINE w == writer[p].kind
<1>1. /\ w \in Kinds /\ database \in Data /\ copy[p] \in Data
      /\ writer[p].pc = "commit" /\ copy[p].version = database.version
      /\ database' = SavedRows(p)
  BY Zenon DEF Commit, IsCurrent, ReplicaInv, ReplicaTypeOK, Writer
<1>2. copy[p].tables = database.tables
  BY Zenon, <1>1 DEF ReplicaInv, Agrees
<1>3. writer[p].next = [version |-> database.version + 1,
                        tables |-> Store!Apply(database.tables, w)]
  BY Zenon, <1>1, <1>2 DEF ReplicaInv
<1>4. \A t \in Tables : t \notin Saves(w) =>
        Store!Apply(database.tables, w)[t] = database.tables[t]
  BY Zenon, <1>1, ReplicatedAssumption DEF Saves, Store!Apply
<1>5. Store!Apply(database.tables, w) \in Content
  BY Zenon, <1>1, ApplyType DEF Data
<1>6. SavedRows(p).tables = Store!Apply(database.tables, w)
  BY <1>3, <1>4, <1>5 DEF SavedRows, Content
<1>7. SavedRows(p).version = database.version + 1
  BY <1>3 DEF SavedRows
<1>8. SavedRows(p) = writer[p].next
  BY Zenon, <1>3, <1>6, <1>7 DEF SavedRows
<1> QED BY Zenon, <1>1, <1>6, <1>7, <1>8

\* A process that leaves the database and its copy alone, and ends its write or
\* starts to load, keeps the invariant.
LEMMA WriterStepInv ==
  ASSUME ReplicaInv, NEW p \in Replicas, NEW wr \in Writer,
         writer' = [writer EXCEPT ![p] = wr],
         UNCHANGED <<database, copy>>, faults' \in Nat,
         wr.pc = "commit" => wr.next = [version |-> copy[p].version + 1,
                                        tables |-> Store!Apply(copy[p].tables, wr.kind)],
         wr.pc # "committed",
         wr.pc \in {"load", "connect"} =>
           /\ wr.loaded.version <= database.version
           /\ wr.loaded.version = database.version =>
                \A i \in 1..wr.read :
                  wr.loaded.tables[TableOrder[i]] = database.tables[TableOrder[i]]
  PROVE  ReplicaInv'
<1>1. ReplicaTypeOK'
  BY Zenon DEF ReplicaInv, ReplicaTypeOK
<1>2. writer'[p] = wr /\ \A q \in Replicas : q # p => writer'[q] = writer[q]
  BY Zenon DEF ReplicaInv, ReplicaTypeOK
<1> SUFFICES ASSUME NEW q \in Replicas
             PROVE  /\ Agrees(copy[q])'
                    /\ writer'[q].pc = "commit" =>
                         writer'[q].next =
                           [version |-> copy'[q].version + 1,
                            tables |-> Store!Apply(copy'[q].tables, writer'[q].kind)]
                    /\ writer'[q].pc = "committed" => Agrees(writer[q].next)'
                    /\ Loading(q)' => LoadAgrees(q)'
  BY Zenon, <1>1 DEF ReplicaInv
<1>3. Agrees(copy[q])'
  BY Zenon DEF ReplicaInv, Agrees
<1>4. CASE q = p
  <2>1. writer'[q] = wr /\ copy'[q] = copy[p] /\ database' = database
    BY Zenon, <1>2, <1>4
  <2>2. Loading(q)' => LoadAgrees(q)'
    BY Zenon, <2>1 DEF Loading, LoadAgrees
  <2> QED BY Zenon, <1>3, <2>1, <2>2
<1>5. CASE q # p
  BY <1>2, <1>5 DEF ReplicaInv, Agrees, Loading, LoadAgrees
<1> QED BY Zenon, <1>4, <1>5

\* A process that replaces its copy by data that agrees, and unlocks.
LEMMA CopyStepInv ==
  ASSUME ReplicaInv, NEW p \in Replicas, NEW d \in Data, Agrees(d),
         copy' = [copy EXCEPT ![p] = d],
         writer' = [writer EXCEPT ![p] = IdleWriter],
         UNCHANGED <<database, faults>>
  PROVE  ReplicaInv'
<1>1. ReplicaTypeOK'
  BY Zenon, IdleWriterType DEF ReplicaInv, ReplicaTypeOK
<1>2. /\ writer'[p] = IdleWriter /\ copy'[p] = d
      /\ \A q \in Replicas : q # p => writer'[q] = writer[q] /\ copy'[q] = copy[q]
  BY Zenon DEF ReplicaInv, ReplicaTypeOK
<1> SUFFICES ASSUME NEW q \in Replicas
             PROVE  /\ Agrees(copy[q])'
                    /\ writer'[q].pc = "commit" =>
                         writer'[q].next =
                           [version |-> copy'[q].version + 1,
                            tables |-> Store!Apply(copy'[q].tables, writer'[q].kind)]
                    /\ writer'[q].pc = "committed" => Agrees(writer[q].next)'
                    /\ Loading(q)' => LoadAgrees(q)'
  BY Zenon, <1>1 DEF ReplicaInv
<1>3. CASE q = p
  BY Zenon, <1>2, <1>3, IdleWriterType DEF Agrees, Loading
<1>4. CASE q # p
  <2>1. writer'[q] = writer[q] /\ copy'[q] = copy[q] /\ database' = database
    BY Zenon, <1>2, <1>4
  <2>2. /\ Agrees(copy[q])
        /\ writer[q].pc = "commit" =>
             writer[q].next = [version |-> copy[q].version + 1,
                               tables |-> Store!Apply(copy[q].tables, writer[q].kind)]
        /\ writer[q].pc = "committed" => Agrees(writer[q].next)
        /\ Loading(q) => LoadAgrees(q)
    BY Zenon DEF ReplicaInv
  <2>3. Agrees(copy[q]) => Agrees(copy[q])'
    BY Zenon, <2>1 DEF Agrees
  <2>4. Agrees(writer[q].next) => Agrees(writer[q].next)'
    BY Zenon, <2>1 DEF Agrees
  <2>5. Loading(q)' => Loading(q)
    BY Zenon, <2>1 DEF Loading
  <2>6. LoadAgrees(q) => LoadAgrees(q)'
    BY Zenon, <2>1 DEF LoadAgrees
  <2> QED BY Zenon, <2>1, <2>2, <2>3, <2>4, <2>5, <2>6
<1> QED BY Zenon, <1>3, <1>4

LEMMA StartLoadInv ==
  ASSUME ReplicaInv, NEW p \in Replicas, NEW pc \in {"load", "connect"},
         StartLoad(p, pc), UNCHANGED <<database, copy>>, faults' \in Nat
  PROVE  ReplicaInv'
<1> DEFINE wr == [IdleWriter EXCEPT !.pc = pc,
                                    !.loaded = [NewData EXCEPT !.version = database.version]]
<1>1. /\ wr \in Writer /\ wr.pc = pc /\ wr.read = 0
      /\ wr.loaded.version = database.version /\ database.version \in Nat
  BY Zenon, IdleWriterType DEF ReplicaInv, ReplicaTypeOK, Writer, Data, IdleWriter, NewData
<1>2. writer' = [writer EXCEPT ![p] = wr]
  BY Zenon DEF StartLoad
<1>3. wr.pc \notin {"commit", "committed"} /\ wr.loaded.version <= database.version
  BY <1>1
<1>4. \A i \in 1..wr.read :
        wr.loaded.tables[TableOrder[i]] = database.tables[TableOrder[i]]
  BY <1>1
<1> HIDE DEF wr
<1> QED BY Zenon, <1>1, <1>2, <1>3, <1>4, WriterStepInv

LEMMA UnlockedInv ==
  ASSUME ReplicaInv, NEW p \in Replicas, Unlocked(p),
         UNCHANGED <<database, copy>>, faults' \in Nat
  PROVE  ReplicaInv'
  BY Zenon, IdleWriterType, WriterStepInv DEF Unlocked

LEMMA ReplicaNextInv == ReplicaInv /\ [ReplicaNext]_replica_vars => ReplicaInv'
<1> SUFFICES ASSUME ReplicaInv, [ReplicaNext]_replica_vars PROVE ReplicaInv'
  BY Zenon
<1>1. CASE UNCHANGED replica_vars
  BY Zenon, <1>1 DEF replica_vars, ReplicaInv, ReplicaTypeOK, Agrees, Loading, LoadAgrees
<1>2. faults \in Nat /\ faults + 1 \in Nat
  BY DEF ReplicaInv, ReplicaTypeOK
<1>3. ASSUME NEW p \in Replicas, NEW w \in Kinds, Plan(p, w), UNCHANGED faults
      PROVE  ReplicaInv'
  <2> DEFINE next == [version |-> copy[p].version + 1,
                      tables |-> Store!Apply(copy[p].tables, w)]
             wr == [writer[p] EXCEPT !.pc = "commit", !.kind = w, !.next = next]
  <2>1. next \in Data
    BY ApplyType DEF ReplicaInv, ReplicaTypeOK, Data
  <2>2. wr \in Writer /\ wr.pc = "commit" /\ wr.kind = w /\ wr.next = next
    BY Zenon, <2>1 DEF ReplicaInv, ReplicaTypeOK, Writer
  <2>3. writer' = [writer EXCEPT ![p] = wr] /\ UNCHANGED <<database, copy>>
    BY Zenon, <1>3 DEF Plan
  <2>4. wr.next = [version |-> copy[p].version + 1,
                   tables |-> Store!Apply(copy[p].tables, wr.kind)]
    BY Zenon, <2>2
  <2> HIDE DEF wr, next
  <2> QED BY Zenon, <1>2, <1>3, <2>2, <2>3, <2>4, WriterStepInv
<1>4. ASSUME NEW p \in Replicas, Commit(p), UNCHANGED faults PROVE ReplicaInv'
  <2>1. /\ database' = writer[p].next /\ writer[p].next \in Data
        /\ database'.version = database.version + 1
        /\ UNCHANGED copy /\ database \in Data
        /\ writer' = [writer EXCEPT ![p] = [@ EXCEPT !.pc = "committed"]]
    BY Zenon, <1>4, CommitWrites DEF Commit, ReplicaInv, ReplicaTypeOK, Writer
  <2>2. /\ writer'[p] \in Writer /\ writer'[p].pc = "committed"
        /\ writer'[p].next = writer[p].next
        /\ \A q \in Replicas : q # p => writer'[q] = writer[q]
    BY Zenon, <2>1 DEF ReplicaInv, ReplicaTypeOK, Writer
  <2>3. ReplicaTypeOK'
    BY Zenon, <1>4, <2>1, <2>2 DEF ReplicaInv, ReplicaTypeOK
  <2>4. ASSUME NEW d \in Data, d.version <= database.version
        PROVE  d.version < database'.version
    BY <2>1, <2>4 DEF Data
  <2> SUFFICES ASSUME NEW q \in Replicas
               PROVE  /\ Agrees(copy[q])'
                      /\ writer'[q].pc = "commit" =>
                           writer'[q].next =
                             [version |-> copy'[q].version + 1,
                              tables |-> Store!Apply(copy'[q].tables, writer'[q].kind)]
                      /\ writer'[q].pc = "committed" => Agrees(writer[q].next)'
                      /\ Loading(q)' => LoadAgrees(q)'
    BY Zenon, <2>3 DEF ReplicaInv
  <2>5. /\ copy[q] \in Data /\ writer[q].next \in Data /\ writer[q].loaded \in Data
        /\ database'.version \in Nat
    BY Zenon, <2>1 DEF ReplicaInv, ReplicaTypeOK, Writer, Data
  <2>6. Agrees(copy[q])'
    <3>1. copy[q].version < database'.version
      BY Zenon, <2>4, <2>5 DEF ReplicaInv, Agrees
    <3> QED BY <2>1, <2>5, <3>1 DEF Agrees, Data
  <2>7. CASE q = p
    BY <2>1, <2>2, <2>5, <2>6, <2>7 DEF Agrees, Loading
  <2>8. CASE q # p
    <3>1. writer'[q] = writer[q]
      BY Zenon, <2>2, <2>8
    <3>2. writer[q].pc = "committed" => Agrees(writer[q].next)'
      <4> SUFFICES ASSUME writer[q].pc = "committed" PROVE Agrees(writer[q].next)'
        BY Zenon
      <4>1. writer[q].next.version < database'.version
        BY Zenon, <2>4, <2>5 DEF ReplicaInv, Agrees
      <4> QED BY <2>5, <3>1, <4>1 DEF Agrees, Data
    <3>3. Loading(q) => LoadAgrees(q)'
      <4> SUFFICES ASSUME Loading(q) PROVE LoadAgrees(q)'
        BY Zenon
      <4>1. writer[q].loaded.version < database'.version
        BY Zenon, <2>4, <2>5 DEF ReplicaInv, LoadAgrees
      <4> QED BY <2>5, <3>1, <4>1 DEF LoadAgrees, Data
    <3> QED BY Zenon, <2>1, <2>6, <3>1, <3>2, <3>3 DEF ReplicaInv, Loading
  <2> QED BY Zenon, <2>7, <2>8
<1>5. ASSUME NEW p \in Replicas, PublishCopy(p), UNCHANGED faults PROVE ReplicaInv'
  <2>1. writer[p].next \in Data /\ Agrees(writer[p].next)
    BY Zenon, <1>5 DEF PublishCopy, ReplicaInv, ReplicaTypeOK, Writer
  <2> QED BY Zenon, <1>5, <2>1, CopyStepInv DEF PublishCopy, Unlocked
<1>6. ASSUME NEW p \in Replicas, Rejected(p), UNCHANGED faults PROVE ReplicaInv'
  <2>1. UNCHANGED <<database, copy>> /\ (Unlocked(p) \/ StartLoad(p, "load")) /\ faults' \in Nat
    BY Zenon, <1>2, <1>6 DEF Rejected
  <2>2. CASE Unlocked(p)
    BY Zenon, <2>1, <2>2, UnlockedInv
  <2>3. CASE StartLoad(p, "load")
    BY Zenon, <2>1, <2>3, StartLoadInv
  <2> QED BY Zenon, <2>1, <2>2, <2>3
<1>7. ASSUME NEW p \in Replicas, ReadTable(p), UNCHANGED faults PROVE ReplicaInv'
  <2> DEFINE i == writer[p].read + 1
             t == TableOrder[i]
             d == [version |-> writer[p].loaded.version,
                   tables |-> [writer[p].loaded.tables EXCEPT ![t] = database.tables[t]]]
             wr == [writer[p] EXCEPT !.read = i, !.loaded = d]
  <2>1. /\ writer' = [writer EXCEPT ![p] = wr] /\ UNCHANGED <<database, copy>>
        /\ Loading(p) /\ i \in DOMAIN TableOrder
    BY Zenon, <1>7 DEF ReadTable
  <2>2. /\ t \in Tables /\ i \in 0..Len(TableOrder) /\ writer[p] \in Writer
        /\ writer[p].loaded \in Data /\ database \in Data /\ writer[p].read \in Nat
    BY <2>1, ReplicatedAssumption DEF ReplicaInv, ReplicaTypeOK, Writer
  <2>3. d \in Data
    BY Zenon, <2>2 DEF Data, Content
  <2>4. wr \in Writer /\ wr.pc = writer[p].pc /\ wr.read = i /\ wr.loaded = d
    BY Zenon, <2>2, <2>3 DEF Writer
  <2>5. LoadAgrees(p)
    BY Zenon, <2>1 DEF ReplicaInv
  <2>6. /\ d.version <= database.version
        /\ d.version = database.version =>
             \A j \in 1..i : d.tables[TableOrder[j]] = database.tables[TableOrder[j]]
    <3>1. d.version = writer[p].loaded.version
      BY Zenon
    <3> SUFFICES ASSUME d.version = database.version, NEW j \in 1..i
                 PROVE  d.tables[TableOrder[j]] = database.tables[TableOrder[j]]
      BY Zenon, <2>5, <3>1 DEF LoadAgrees
    <3>2. TableOrder[j] \in Tables
      BY <2>1, <2>2, ReplicatedAssumption
    <3>3. CASE TableOrder[j] = t
      BY Zenon, <2>2, <3>3 DEF Data, Content
    <3>4. CASE TableOrder[j] # t
      <4>1. j \in 1..writer[p].read
        BY <2>2, <3>4
      <4>2. writer[p].loaded.tables[TableOrder[j]] = database.tables[TableOrder[j]]
        BY Zenon, <2>5, <3>1, <4>1 DEF LoadAgrees
      <4> QED BY Zenon, <2>2, <3>2, <3>4, <4>2 DEF Data, Content
    <3> QED BY Zenon, <3>3, <3>4
  <2>7. wr.pc \notin {"commit", "committed"}
    BY Zenon, <2>1, <2>4 DEF Loading
  <2> HIDE DEF wr, d, t, i
  <2> QED BY Zenon, <1>2, <1>7, <2>1, <2>4, <2>6, <2>7, WriterStepInv
<1>8. ASSUME NEW p \in Replicas, Replace(p), UNCHANGED faults PROVE ReplicaInv'
  <2>1. /\ LoadAgrees(p) /\ writer[p].read = Len(TableOrder)
        /\ writer[p].loaded \in Data /\ database \in Data
    BY Zenon, <1>8 DEF Replace, ReplicaInv, ReplicaTypeOK, Writer
  <2>2. Agrees(writer[p].loaded)
    <3> SUFFICES ASSUME writer[p].loaded.version = database.version
                 PROVE  writer[p].loaded.tables = database.tables
      BY Zenon, <2>1 DEF Agrees, LoadAgrees
    <3>1. ASSUME NEW t \in Tables PROVE writer[p].loaded.tables[t] = database.tables[t]
      <4>1. PICK i \in 1..Len(TableOrder) : TableOrder[i] = t
        BY ReplicatedAssumption
      <4> QED BY Zenon, <2>1, <4>1 DEF LoadAgrees
    <3> QED BY <2>1, <3>1 DEF Data, Content
  <2> QED BY Zenon, <1>8, <2>1, <2>2, CopyStepInv DEF Replace, Unlocked
<1>9. ASSUME NEW p \in Replicas, Fault(p), faults' = faults + 1 PROVE ReplicaInv'
  <2>1. UNCHANGED <<database, copy>> /\ (Unlocked(p) \/ StartLoad(p, "connect"))
    BY Zenon, <1>9 DEF Fault, CommitFails, LoadFails, RestartReplica
  <2>2. CASE Unlocked(p)
    BY Zenon, <1>2, <1>9, <2>1, <2>2, UnlockedInv
  <2>3. CASE StartLoad(p, "connect")
    BY Zenon, <1>2, <1>9, <2>1, <2>3, StartLoadInv
  <2> QED BY Zenon, <2>1, <2>2, <2>3
<1> QED BY Zenon, <1>1, <1>3, <1>4, <1>5, <1>6, <1>7, <1>8, <1>9 DEF ReplicaNext, Step

\* Every reachable state satisfies the invariant.
THEOREM ReplicaInvariant == ReplicaSpec => []ReplicaInv
  BY ReplicaInitInv, ReplicaNextInv, PTL DEF ReplicaSpec

\* A memory copy with the version of the database has its content, although
\* load_data_pg reads without a transaction.
THEOREM CopiesAreVersioned == ReplicaSpec => []CopyIsVersioned
<1>1. ReplicaInv => CopyIsVersioned
  BY Zenon DEF ReplicaInv, Agrees, CopyIsVersioned, IsCurrent
<1> QED BY <1>1, ReplicaInvariant, PTL

LEMMA ReplicaStepSimulation ==
  ReplicaInv /\ [ReplicaNext]_replica_vars =>
    [\E w \in Kinds : Store!Write(w)]_Store!store_vars
<1> SUFFICES ASSUME ReplicaInv, [ReplicaNext]_replica_vars
             PROVE  [\E w \in Kinds : Store!Write(w)]_Store!store_vars
  BY Zenon
<1>1. ASSUME NEW p \in Replicas, Commit(p) PROVE \E w \in Kinds : Store!Write(w)
  BY Zenon, <1>1, CommitWrites DEF Store!Write
<1>2. CASE UNCHANGED database
  BY Zenon, <1>2 DEF Store!store_vars
<1>3. (\E p \in Replicas : Commit(p)) \/ UNCHANGED database
  BY Zenon DEF ReplicaNext, replica_vars, Step, Fault, Plan, PublishCopy, CommitFails,
         Rejected, ReadTable, Replace, LoadFails, RestartReplica
<1> QED BY Zenon, <1>1, <1>2, <1>3

\* However many processes share the database, and whatever fails, it changes as
\* one versioned store does: no process loses or overwrites another's write
\* (save_data_pg_if_current, persist_usage_settlement_pg, load_data_pg).
THEOREM ReplicasImplementStore == ReplicaSpec => ImplementsStore
<1>1. ReplicaInit => Store!StoreInit
  BY DEF ReplicaInit, NewData, Store!StoreInit, Store!NothingApplied
<1> QED BY <1>1, ReplicaInvariant, ReplicaStepSimulation, PTL
        DEF ReplicaSpec, ImplementsStore, Store!StoreSpec

=============================================================================
