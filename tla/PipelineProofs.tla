--------------------------- MODULE PipelineProofs ---------------------------
(***************************************************************************)
(* Proofs about the way of a usage report: the gateway's queue             *)
(* (ReportQueue) counts its workers exactly and keeps every event in one   *)
(* place, and the queue and the ingest handlers together (UsagePipeline)   *)
(* implement the ingest protocol, and bill every event at most once when   *)
(* only stores fail.                                                       *)
(***************************************************************************)
EXTENDS UsagePipeline, FiniteSetTheorems, TLAPS


\* The inductive invariant.
QueueInv == QueueTypeOK /\ WorkersSuffice /\ EventsConserved

-----------------------------------------------------------------------------
(***************************************************************************)
(* Sequences of events                                                     *)
(***************************************************************************)

\* What a concatenation holds, and when it holds nothing twice.
LEMMA ConcatFacts ==
  ASSUME NEW S, NEW s \in Seq(S), NEW t \in Seq(S)
  PROVE  /\ s \o t \in Seq(S)
         /\ Elements(s \o t) = Elements(s) \cup Elements(t)
         /\ Distinct(s) /\ Distinct(t) /\ Elements(s) \cap Elements(t) = {} => Distinct(s \o t)
<1>1. /\ s \o t \in Seq(S) /\ Len(s) \in Nat /\ Len(t) \in Nat
      /\ Len(s \o t) = Len(s) + Len(t)
      /\ \A i \in 1..(Len(s) + Len(t)) :
           (s \o t)[i] = IF i <= Len(s) THEN s[i] ELSE t[i - Len(s)]
  OBVIOUS
<1> DEFINE u == s \o t
<1>2. Elements(u) \subseteq Elements(s) \cup Elements(t)
  <2> SUFFICES ASSUME NEW i \in 1..Len(u) PROVE u[i] \in Elements(s) \cup Elements(t)
    BY Zenon DEF Elements
  <2>1. CASE i <= Len(s)
    <3>1. i \in 1..Len(s) /\ u[i] = s[i]
      BY <1>1, <2>1
    <3> QED
      BY Zenon, <3>1 DEF Elements
  <2>2. CASE ~(i <= Len(s))
    <3>1. i - Len(s) \in 1..Len(t) /\ u[i] = t[i - Len(s)]
      BY <1>1, <2>2
    <3> QED
      BY Zenon, <3>1 DEF Elements
  <2> QED
    BY Zenon, <2>1, <2>2
<1>3. Elements(s) \subseteq Elements(u)
  <2> SUFFICES ASSUME NEW i \in 1..Len(s) PROVE s[i] \in Elements(u)
    BY Zenon DEF Elements
  <2>1. i \in 1..Len(u) /\ u[i] = s[i]
    BY <1>1
  <2> QED
    BY Zenon, <2>1 DEF Elements
<1>4. Elements(t) \subseteq Elements(u)
  <2> SUFFICES ASSUME NEW i \in 1..Len(t) PROVE t[i] \in Elements(u)
    BY Zenon DEF Elements
  <2>1. i + Len(s) \in 1..Len(u) /\ u[i + Len(s)] = t[i]
    BY <1>1
  <2> HIDE DEF u
  <2> QED
    BY Zenon, <2>1 DEF Elements
<1>5. ASSUME Distinct(s), Distinct(t), Elements(s) \cap Elements(t) = {}
      PROVE  Distinct(u)
  <2> SUFFICES ASSUME NEW i \in 1..Len(u), NEW j \in 1..Len(u), u[i] = u[j]
               PROVE  i = j
    BY Zenon DEF Distinct
  <2>1. CASE i <= Len(s) /\ j <= Len(s)
    <3>1. i \in 1..Len(s) /\ j \in 1..Len(s) /\ s[i] = s[j]
      BY <1>1, <2>1
    <3> QED
      BY Zenon, <1>5, <3>1 DEF Distinct
  <2>2. CASE ~(i <= Len(s)) /\ ~(j <= Len(s))
    <3>1. /\ i - Len(s) \in 1..Len(t) /\ j - Len(s) \in 1..Len(t)
          /\ t[i - Len(s)] = t[j - Len(s)]
      BY <1>1, <2>2
    <3>2. i - Len(s) = j - Len(s)
      BY Zenon, <1>5, <3>1 DEF Distinct
    <3> QED
      BY <1>1, <3>2
  <2>3. ASSUME NEW a \in 1..Len(u), NEW b \in 1..Len(u), a <= Len(s), ~(b <= Len(s)), u[a] = u[b]
        PROVE  FALSE
    <3>1. a \in 1..Len(s) /\ u[a] = s[a] /\ b - Len(s) \in 1..Len(t) /\ u[b] = t[b - Len(s)]
      BY <1>1, <2>3
    <3>2. u[a] \in Elements(s) /\ u[b] \in Elements(t)
      BY Zenon, <3>1 DEF Elements
    <3> QED
      BY Zenon, <1>5, <2>3, <3>2
  <2> QED
    BY Zenon, <2>1, <2>2, <2>3
<1> QED
  BY Zenon, <1>1, <1>2, <1>3, <1>4, <1>5

\* The same of an event that is appended.
LEMMA AppendFacts ==
  ASSUME NEW S, NEW s \in Seq(S), NEW e \in S
  PROVE  /\ Append(s, e) \in Seq(S) /\ Append(s, e) # <<>>
         /\ Elements(Append(s, e)) = Elements(s) \cup {e}
         /\ Distinct(s) /\ e \notin Elements(s) => Distinct(Append(s, e))
<1>1. <<e>> \in Seq(S) /\ Append(s, e) = s \o <<e>> /\ Append(s, e) # <<>>
  OBVIOUS
<1>2. Elements(<<e>>) = {e} /\ Distinct(<<e>>)
  BY DEF Elements, Distinct
<1>3. /\ s \o <<e>> \in Seq(S)
      /\ Elements(s \o <<e>>) = Elements(s) \cup Elements(<<e>>)
      /\ Distinct(s) /\ Distinct(<<e>>) /\ Elements(s) \cap Elements(<<e>>) = {} => Distinct(s \o <<e>>)
  BY Zenon, <1>1, ConcatFacts
<1> QED
  BY Zenon, <1>1, <1>2, <1>3

\* take_batch splits the queue: a batch that is not empty, and the rest.
LEMMA TakeFacts ==
  ASSUME NEW queue \in Seq(Events), queue # <<>>
  PROVE  /\ Taken(queue) \in Seq(Events) /\ Left(queue) \in Seq(Events)
         /\ Taken(queue) # <<>>
         /\ Elements(queue) = Elements(Taken(queue)) \cup Elements(Left(queue))
         /\ Distinct(queue) =>
              /\ Distinct(Taken(queue)) /\ Distinct(Left(queue))
              /\ Elements(Taken(queue)) \cap Elements(Left(queue)) = {}
<1> DEFINE n == TakeCount(queue)
<1>1. n \in 1..Len(queue) /\ Len(queue) \in Nat
  BY ReportQueueAssumption DEF TakeCount, BatchSize, AtLeastOne
<1>2. /\ Taken(queue) \in Seq(Events) /\ Len(Taken(queue)) = n
      /\ \A i \in 1..n : Taken(queue)[i] = queue[i]
  BY <1>1 DEF Taken
<1>3. /\ Left(queue) \in Seq(Events) /\ Len(Left(queue)) = Len(queue) - n
      /\ \A i \in 1..(Len(queue) - n) : Left(queue)[i] = queue[i + n]
  BY <1>1 DEF Left
<1> HIDE DEF n
<1>4. Taken(queue) # <<>>
  BY <1>1, <1>2
<1>5. Elements(queue) = Elements(Taken(queue)) \cup Elements(Left(queue))
  <2>1. ASSUME NEW i \in 1..Len(queue)
        PROVE  queue[i] \in Elements(Taken(queue)) \cup Elements(Left(queue))
    <3>1. CASE i <= n
      BY <1>1, <1>2, <3>1 DEF Elements
    <3>2. CASE ~(i <= n)
      <4>1. i - n \in 1..(Len(queue) - n) /\ Left(queue)[i - n] = queue[i]
        BY <1>1, <1>3, <3>2
      <4> QED
        BY Zenon, <1>3, <4>1 DEF Elements
    <3> QED
      BY Zenon, <3>1, <3>2
  <2>2. Elements(Taken(queue)) \subseteq Elements(queue)
    BY <1>1, <1>2 DEF Elements
  <2>3. Elements(Left(queue)) \subseteq Elements(queue)
    <3> SUFFICES ASSUME NEW i \in 1..(Len(queue) - n) PROVE Left(queue)[i] \in Elements(queue)
      BY Zenon, <1>3 DEF Elements
    <3>1. i + n \in 1..Len(queue) /\ Left(queue)[i] = queue[i + n]
      BY <1>1, <1>3
    <3> QED
      BY Zenon, <3>1 DEF Elements
  <2>4. Elements(queue) \subseteq Elements(Taken(queue)) \cup Elements(Left(queue))
    BY Zenon, <2>1 DEF Elements
  <2> QED
    BY Zenon, <2>2, <2>3, <2>4
<1>6. ASSUME Distinct(queue)
      PROVE  /\ Distinct(Taken(queue)) /\ Distinct(Left(queue))
             /\ Elements(Taken(queue)) \cap Elements(Left(queue)) = {}
  <2>1. Distinct(Taken(queue))
    BY <1>1, <1>2, <1>6 DEF Distinct
  <2>2. Distinct(Left(queue))
    <3> SUFFICES ASSUME NEW i \in 1..(Len(queue) - n), NEW j \in 1..(Len(queue) - n),
                        Left(queue)[i] = Left(queue)[j]
                 PROVE  i = j
      BY Zenon, <1>3 DEF Distinct
    <3>1. i + n \in 1..Len(queue) /\ j + n \in 1..Len(queue) /\ queue[i + n] = queue[j + n]
      BY <1>1, <1>3
    <3>2. i + n = j + n
      BY Zenon, <1>6, <3>1 DEF Distinct
    <3> QED
      BY <1>1, <3>2
  <2>3. ASSUME NEW i \in 1..n, NEW j \in 1..(Len(queue) - n), Taken(queue)[i] = Left(queue)[j]
        PROVE  FALSE
    <3>1. i \in 1..Len(queue) /\ j + n \in 1..Len(queue) /\ queue[i] = queue[j + n]
      BY <1>1, <1>2, <1>3, <2>3
    <3>2. i = j + n
      BY Zenon, <1>6, <3>1 DEF Distinct
    <3> QED
      BY <1>1, <3>2
  <2>4. Elements(Taken(queue)) \cap Elements(Left(queue)) = {}
    BY <1>2, <1>3, <2>3 DEF Elements
  <2> QED
    BY Zenon, <2>1, <2>2, <2>4
<1> QED
  BY Zenon, <1>2, <1>3, <1>4, <1>5, <1>6

-----------------------------------------------------------------------------
(***************************************************************************)
(* The steps                                                               *)
(***************************************************************************)

\* A round of the loop ends in one of three ways: the task leaves an empty queue,
\* waits, or holds a batch.
Leaves(t) ==
  /\ pending = <<>> /\ pending' = <<>>
  /\ active_workers' = IF active_workers = 0 THEN 0 ELSE active_workers - 1
  /\ task' = [task EXCEPT ![t] = "none"]
  /\ batch' = [batch EXCEPT ![t] = <<>>]

\* A task without a batch goes back to wait.
Waits(t) ==
  /\ UNCHANGED <<pending, active_workers>>
  /\ task' = [task EXCEPT ![t] = "flush_wait"]
  /\ batch' = [batch EXCEPT ![t] = <<>>]

\* A task that takes the head of the queue.
Takes(t) ==
  /\ pending # <<>> /\ pending' = Left(pending)
  /\ UNCHANGED active_workers
  /\ task' = [task EXCEPT ![t] = "in_flight"]
  /\ batch' = [batch EXCEPT ![t] = Taken(pending)]

\* Every step of a task but a failed request is such a round, with what the task
\* held delivered; a task that was waiting held nothing.
LEMMA RoundShape ==
  ASSUME QueueTypeOK, NEW t \in Tasks, TaskStep(t) \/ Acknowledged(t)
  PROVE  /\ task[t] # "none"
         /\ Leaves(t) \/ Waits(t) \/ Takes(t)
         /\ delivered' = delivered \o batch[t]
         /\ UNCHANGED reported
<1>1. task[t] # "none" /\ UNCHANGED reported
  BY Zenon DEF TaskStep, Acknowledged, Start, FlushElapsed, RetryElapsed
<1>2. LoopTop(t, pending) \/ LoopBottom(t, pending) \/ Take(t, pending)
  BY Zenon DEF TaskStep, Acknowledged, Start, FlushElapsed, RetryElapsed
<1>3. Leaves(t) \/ Waits(t) \/ Takes(t)
  BY Zenon, <1>2 DEF LoopTop, LoopBottom, Take, FinishWorker, Leaves, Waits, Takes
<1>4. delivered' = delivered \o batch[t]
  <2>1. CASE Acknowledged(t)
    BY Zenon, <2>1 DEF Acknowledged
  <2>2. CASE TaskStep(t)
    <3>1. UNCHANGED delivered /\ task[t] # "in_flight"
      BY Zenon, <2>2 DEF TaskStep, Start, FlushElapsed, RetryElapsed
    <3>2. batch[t] = <<>> /\ delivered \in Seq(Events)
      BY Zenon, <3>1 DEF QueueTypeOK
    <3> QED
      BY <3>1, <3>2
  <2> QED
    BY Zenon, <2>1, <2>2
<1> QED
  BY Zenon, <1>1, <1>3, <1>4

\* An event was reported when it is in the queue, delivered, or in a batch.
AllHeld ==
  \A x : x \in Elements(reported) <=>
    \/ x \in Elements(pending)
    \/ x \in Elements(delivered)
    \/ \E t \in Tasks : x \in Elements(batch[t])

\* No event is in two places, or twice in one.
HeldOnce ==
  /\ Distinct(pending) /\ Distinct(delivered)
  /\ \A t \in Tasks : Distinct(batch[t])
  /\ Elements(pending) \cap Elements(delivered) = {}
  /\ \A t \in Tasks : Elements(batch[t]) \cap (Elements(pending) \cup Elements(delivered)) = {}
  /\ \A t, u \in Tasks : t # u => Elements(batch[t]) \cap Elements(batch[u]) = {}

\* Conservation, as its two halves.
LEMMA ConservedParts == EventsConserved <=> AllHeld /\ HeldOnce
<1>1. AllHeld <=> Elements(reported) = Elements(pending) \cup Elements(delivered)
                    \cup UNION {Elements(batch[t]) : t \in Tasks}
  <2> DEFINE Batches == UNION {Elements(batch[t]) : t \in Tasks}
  <2>1. \A x : x \in Batches <=> \E t \in Tasks : x \in Elements(batch[t])
    BY Zenon
  <2> HIDE DEF Batches
  <2>2. AllHeld <=> Elements(reported) = Elements(pending) \cup Elements(delivered) \cup Batches
    BY <2>1, Zenon DEF AllHeld
  <2> QED
    BY Zenon, <2>2 DEF Batches
<1> QED
  BY <1>1, Zenon DEF EventsConserved, HeldOnce

\* The number of running tasks, with one more and with one less.
LEMMA RunningFacts ==
  /\ IsFiniteSet(Running) /\ Cardinality(Running) \in Nat
  /\ Cardinality(Running) = 0 <=> Running = {}
  /\ \A t \in Tasks \ Running : Cardinality(Running \cup {t}) = Cardinality(Running) + 1
  /\ \A t \in Running : Cardinality(Running \ {t}) = Cardinality(Running) - 1
<1>1. IsFiniteSet(Running)
  BY Zenon, ReportQueueAssumption, FS_Subset DEF Running
<1> QED
  BY Zenon, <1>1, FS_CardinalityType, FS_EmptySet, FS_AddElement, FS_RemoveElement

\* Reporting an event preserves the invariant.
LEMMA ReportKeepsInv ==
  ASSUME QueueInv, NEW e \in Events, ReportEvent(e)
  PROVE  QueueInv'
<1> USE DEF QueueInv
<1> DEFINE queue == Append(pending, e)
<1>1. pending \in Seq(Events) /\ reported \in Seq(Events)
  BY Zenon DEF QueueTypeOK
<1>2. /\ pending' = queue /\ reported' = Append(reported, e)
      /\ e \notin Elements(reported) /\ UNCHANGED <<batch, delivered>>
  BY Zenon DEF ReportEvent
<1>3. /\ queue \in Seq(Events) /\ queue # <<>>
      /\ Elements(queue) = Elements(pending) \cup {e}
      /\ Distinct(pending) /\ e \notin Elements(pending) => Distinct(queue)
  BY Zenon, <1>1, AppendFacts
<1>4. reported' \in Seq(Events) /\ Elements(reported') = Elements(reported) \cup {e}
  BY ZenonT(30), <1>1, <1>2, AppendFacts
<1>5. EventsConserved'
  <2> USE ConservedParts
  <2>1. /\ e \notin Elements(pending) /\ e \notin Elements(delivered)
        /\ \A t \in Tasks : e \notin Elements(batch[t])
    BY Zenon, <1>2 DEF AllHeld
  <2>2. Elements(pending') = Elements(pending) \cup {e} /\ Distinct(pending')
    BY Zenon, <1>2, <1>3, <2>1 DEF HeldOnce
  <2> HIDE DEF queue
  <2>3. AllHeld'
    BY Zenon, <1>2, <1>4, <2>2 DEF AllHeld
  <2>4. HeldOnce'
    BY ZenonT(30), <1>2, <2>1, <2>2 DEF HeldOnce
  <2> QED
    BY <2>3, <2>4, ConservedParts, PTL
<1> HIDE DEF queue
<1>6. CASE /\ ShouldStart(queue)
           /\ active_workers' = active_workers + 1
           /\ \E t \in Tasks : task[t] = "none" /\ task' = [task EXCEPT ![t] = "spawned"]
  <2>1. PICK t \in Tasks : task[t] = "none" /\ task' = [task EXCEPT ![t] = "spawned"]
    BY Zenon, <1>6
  <2>2. QueueTypeOK'
    BY <1>2, <1>3, <1>4, <1>6, <2>1 DEF QueueTypeOK, TaskPlaces
  <2>3. Running' = Running \cup {t} /\ t \in Tasks \ Running
    BY Zenon, <2>1 DEF Running, QueueTypeOK
  <2>4. active_workers < MaxInFlight
    BY <1>6, ReportQueueAssumption DEF ShouldStart, MaxInFlight, AtLeastOne
  <2>5. MaxInFlight \in Nat
    BY Zenon, ReportQueueAssumption DEF MaxInFlight, AtLeastOne
  <2>6. WorkersSuffice'
    BY <1>6, <2>3, <2>4, <2>5, RunningFacts DEF WorkersSuffice
  <2> QED
    BY Zenon, <1>5, <2>2, <2>6
<1>7. CASE ~ShouldStart(queue) /\ UNCHANGED <<active_workers, task>>
  <2>1. QueueTypeOK'
    BY Zenon, <1>2, <1>3, <1>4, <1>7 DEF QueueTypeOK
  <2>2. Running' = Running /\ Running # {}
    BY Zenon, <1>7, RunningFacts DEF Running, ShouldStart, WorkersSuffice
  <2>3. WorkersSuffice'
    BY Zenon, <1>7, <2>2 DEF WorkersSuffice
  <2> QED
    BY Zenon, <1>5, <2>1, <2>3
<1> QED
  BY Zenon, <1>6, <1>7 DEF ReportEvent, queue

\* A round of the loop preserves the invariant: what it takes from the queue it
\* holds, and what it held is delivered.
LEMMA RoundKeepsInv ==
  ASSUME QueueInv, NEW t \in Tasks, TaskStep(t) \/ Acknowledged(t)
  PROVE  QueueInv'
<1> USE DEF QueueInv
<1>1. /\ task[t] # "none"
      /\ Leaves(t) \/ Waits(t) \/ Takes(t)
      /\ delivered' = delivered \o batch[t] /\ UNCHANGED reported
  BY Zenon, RoundShape
<1>2. /\ pending \in Seq(Events) /\ delivered \in Seq(Events) /\ batch \in [Tasks -> Seq(Events)]
      /\ batch[t] \in Seq(Events) /\ task \in [Tasks -> TaskPlaces] /\ active_workers \in Nat
  BY Zenon DEF QueueTypeOK
<1>3. /\ delivered' \in Seq(Events)
      /\ Elements(delivered') = Elements(delivered) \cup Elements(batch[t])
      /\ Distinct(delivered')
  <2>1. /\ delivered \o batch[t] \in Seq(Events)
        /\ Elements(delivered \o batch[t]) = Elements(delivered) \cup Elements(batch[t])
        /\ Distinct(delivered) /\ Distinct(batch[t]) /\ Elements(delivered) \cap Elements(batch[t]) = {}
             => Distinct(delivered \o batch[t])
    BY Zenon, <1>2, ConcatFacts
  <2> QED
    BY Zenon, <1>1, <2>1 DEF EventsConserved
<1>4. Elements(<<>>) = {} /\ Distinct(<<>>) /\ <<>> \in Seq(Events)
  BY DEF Elements, Distinct
<1>5. PICK b \in Seq(Events) :
        /\ batch' = [batch EXCEPT ![t] = b]
        /\ pending' \in Seq(Events)
        /\ Elements(pending) = Elements(b) \cup Elements(pending')
        /\ Elements(b) \cap Elements(pending') = {}
        /\ Distinct(b) /\ Distinct(pending')
        /\ b # <<>> <=> task'[t] = "in_flight"
  <2>1. CASE Leaves(t)
    BY Zenon, <1>2, <1>4, <2>1 DEF Leaves
  <2>2. CASE Waits(t)
    BY Zenon, <1>2, <1>4, <2>2 DEF Waits, EventsConserved
  <2>3. CASE Takes(t)
    <3>1. /\ pending # <<>> /\ pending' = Left(pending) /\ Distinct(pending)
          /\ batch' = [batch EXCEPT ![t] = Taken(pending)]
          /\ task' = [task EXCEPT ![t] = "in_flight"]
      BY Zenon, <2>3 DEF Takes, EventsConserved
    <3>2. task'[t] = "in_flight"
      BY Zenon, <1>2, <3>1
    <3>3. /\ Taken(pending) \in Seq(Events) /\ Left(pending) \in Seq(Events)
          /\ Taken(pending) # <<>>
          /\ Elements(pending) = Elements(Taken(pending)) \cup Elements(Left(pending))
          /\ Distinct(Taken(pending)) /\ Distinct(Left(pending))
          /\ Elements(Taken(pending)) \cap Elements(Left(pending)) = {}
      BY Zenon, <1>2, <3>1, TakeFacts
    <3> QED
      BY Zenon, <3>1, <3>2, <3>3
  <2> QED
    BY Zenon, <1>1, <2>1, <2>2, <2>3
<1>6. \A u \in Tasks : batch'[u] = IF u = t THEN b ELSE batch[u]
  BY Zenon, <1>2, <1>5
<1>7. PICK place \in TaskPlaces : task' = [task EXCEPT ![t] = place]
  BY Zenon, <1>1 DEF Leaves, Waits, Takes, TaskPlaces
<1>8. active_workers' \in Nat
  BY <1>1, <1>2 DEF Leaves, Waits, Takes
<1>9. QueueTypeOK'
  BY Zenon, <1>1, <1>2, <1>3, <1>5, <1>6, <1>7, <1>8 DEF QueueTypeOK
<1>10. EventsConserved'
  <2>1. AllHeld /\ HeldOnce
    BY Zenon, ConservedParts
  <2>2. AllHeld'
    BY Zenon, <1>1, <1>3, <1>5, <1>6, <2>1 DEF AllHeld
  <2>3. HeldOnce'
    <3>1. \A u \in Tasks : Distinct(batch'[u])
      BY Zenon, <1>5, <1>6, <2>1 DEF HeldOnce
    <3>2. Elements(pending') \cap Elements(delivered') = {}
      BY Zenon, <1>3, <1>5, <2>1 DEF HeldOnce
    <3>3. \A u \in Tasks : Elements(batch'[u]) \cap (Elements(pending') \cup Elements(delivered')) = {}
      BY Zenon, <1>3, <1>5, <1>6, <2>1 DEF HeldOnce
    <3>4. \A u, v \in Tasks : u # v => Elements(batch'[u]) \cap Elements(batch'[v]) = {}
      <4>1. ASSUME NEW u \in Tasks, u # t PROVE Elements(batch[u]) \cap Elements(b) = {}
        <5>1. Elements(batch[u]) \cap Elements(pending) = {} /\ Elements(b) \subseteq Elements(pending)
          BY Zenon, <1>5, <2>1 DEF HeldOnce
        <5> QED BY Zenon, <5>1
      <4>2. ASSUME NEW u \in Tasks, NEW v \in Tasks, u # v
            PROVE  Elements(batch'[u]) \cap Elements(batch'[v]) = {}
        <5>1. CASE u = t
          BY Zenon, <1>6, <4>1, <4>2, <5>1
        <5>2. CASE v = t
          BY Zenon, <1>6, <4>1, <4>2, <5>2
        <5>3. CASE u # t /\ v # t
          BY Zenon, <1>6, <2>1, <4>2, <5>3 DEF HeldOnce
        <5> QED BY Zenon, <5>1, <5>2, <5>3
      <4> QED BY Zenon, <4>2
    <3> QED
      BY Zenon, <1>3, <1>5, <3>1, <3>2, <3>3, <3>4 DEF HeldOnce
  <2> QED
    BY <2>2, <2>3, ConservedParts, PTL
<1>11. WorkersSuffice'
  <2>1. t \in Running
    BY Zenon, <1>1 DEF Running
  <2>2. CASE Leaves(t)
    <3>1. Running' = Running \ {t}
      BY Zenon, <1>2, <2>2 DEF Leaves, Running
    <3>2. MaxInFlight \in Nat
      BY Zenon, ReportQueueAssumption DEF MaxInFlight, AtLeastOne
    <3> QED
      BY <1>2, <2>1, <2>2, <3>1, <3>2, RunningFacts DEF Leaves, WorkersSuffice
  <2>3. CASE Waits(t) \/ Takes(t)
    <3>1. Running' = Running
      BY Zenon, <1>2, <2>1, <2>3 DEF Waits, Takes, Running
    <3> QED
      BY Zenon, <2>1, <2>3, <3>1 DEF Waits, Takes, WorkersSuffice
  <2> QED
    BY Zenon, <1>1, <2>2, <2>3
<1> QED
  BY Zenon, <1>9, <1>10, <1>11

\* A failed request preserves the invariant: its batch goes back to the queue.
LEMMA FailureKeepsInv ==
  ASSUME QueueInv, NEW t \in Tasks, SubmitFailed(t)
  PROVE  QueueInv'
<1> USE DEF QueueInv
<1>1. /\ pending' = batch[t] \o pending /\ batch' = [batch EXCEPT ![t] = <<>>]
      /\ task[t] = "in_flight" /\ task' = [task EXCEPT ![t] = "retry_wait"]
      /\ UNCHANGED <<active_workers, reported, delivered>>
  BY Zenon DEF SubmitFailed, RequeueFront
<1>2. pending \in Seq(Events) /\ batch \in [Tasks -> Seq(Events)] /\ batch[t] \in Seq(Events)
  BY Zenon DEF QueueTypeOK
<1>3. /\ pending' \in Seq(Events)
      /\ Elements(pending') = Elements(batch[t]) \cup Elements(pending)
      /\ Distinct(pending')
  <2>1. /\ batch[t] \o pending \in Seq(Events)
        /\ Elements(batch[t] \o pending) = Elements(batch[t]) \cup Elements(pending)
        /\ Distinct(batch[t]) /\ Distinct(pending) /\ Elements(batch[t]) \cap Elements(pending) = {}
             => Distinct(batch[t] \o pending)
    BY Zenon, <1>2, ConcatFacts
  <2> QED
    BY Zenon, <1>1, <2>1 DEF EventsConserved
<1>4. Elements(<<>>) = {} /\ Distinct(<<>>) /\ <<>> \in Seq(Events)
  BY DEF Elements, Distinct
<1>5. \A u \in Tasks : batch'[u] = IF u = t THEN <<>> ELSE batch[u]
  BY Zenon, <1>1, <1>2
<1>6. QueueTypeOK'
  BY Zenon, <1>1, <1>2, <1>3, <1>4, <1>5 DEF QueueTypeOK, TaskPlaces
<1>7. EventsConserved'
  <2>1. AllHeld /\ HeldOnce
    BY Zenon, ConservedParts
  <2>2. AllHeld'
    BY Zenon, <1>1, <1>3, <1>4, <1>5, <2>1 DEF AllHeld
  <2>3. HeldOnce'
    BY ZenonT(30), <1>1, <1>3, <1>4, <1>5, <2>1 DEF HeldOnce
  <2> QED
    BY <2>2, <2>3, ConservedParts, PTL
<1>8. Running' = Running /\ t \in Running
  BY Zenon, <1>1 DEF Running, QueueTypeOK
<1>9. WorkersSuffice'
  BY Zenon, <1>1, <1>8 DEF WorkersSuffice
<1> QED
  BY Zenon, <1>6, <1>7, <1>9

-----------------------------------------------------------------------------
\* The queue starts empty, with no worker.
LEMMA QueueInitInv == QueueInit => QueueInv
<1> SUFFICES ASSUME QueueInit PROVE QueueInv
  BY Zenon
<1> USE DEF QueueInit
<1>1. QueueTypeOK
  BY DEF QueueTypeOK, TaskPlaces
<1>2. Running = {} /\ MaxInFlight \in Nat
  BY Zenon, ReportQueueAssumption DEF Running, MaxInFlight, AtLeastOne
<1>3. WorkersSuffice
  BY <1>2, RunningFacts DEF WorkersSuffice
<1>4. Elements(<<>>) = {} /\ Distinct(<<>>)
  BY DEF Elements, Distinct
<1>5. EventsConserved
  BY Zenon, <1>4 DEF EventsConserved
<1> QED
  BY Zenon, <1>1, <1>3, <1>5 DEF QueueInv

\* Every step of the queue keeps its invariant.
LEMMA QueueNextInv == QueueInv /\ [QueueNext]_queue_vars => QueueInv'
<1> SUFFICES ASSUME QueueInv, [QueueNext]_queue_vars PROVE QueueInv'
  BY Zenon
<1>1. CASE UNCHANGED queue_vars
  BY Zenon, <1>1 DEF queue_vars, QueueInv, QueueTypeOK, WorkersSuffice, EventsConserved, Running
<1>2. CASE QueueNext
  BY Zenon, <1>2, ReportKeepsInv, RoundKeepsInv, FailureKeepsInv DEF QueueNext
<1> QED
  BY Zenon, <1>1, <1>2

\* The inductive invariant of the report queue.
THEOREM QueueInvariant == QueueSpec => []QueueInv
  BY QueueInitInv, QueueNextInv, PTL DEF QueueSpec

\* active_workers is exact and bounded, and no backlog is left without a worker,
\* for every batch size and every bound of concurrent batches.
THEOREM WorkersAreEnough == QueueSpec => []WorkersSuffice
  BY QueueInvariant, PTL DEF QueueInv

\* No event is lost or taken twice between report, queue, batches and delivery,
\* however often batches fail and return to the front.
THEOREM EventsAreConserved == QueueSpec => []EventsConserved
  BY QueueInvariant, PTL DEF QueueInv

-----------------------------------------------------------------------------
(***************************************************************************)
(* The queue connected to the ingest handlers                              *)
(***************************************************************************)

\* The request of a task and the handler that works for it know each other: the
\* handler is open and has the task's batch, nobody else's, and every open handler
\* works for a task whose request is in flight.
Connected ==
  /\ handler \in [Handlers -> I!Handler]
  /\ \A h \in Handlers : handler[h].pc = "idle" => ~handler[h].open
  /\ serving \in [Tasks -> Handlers \cup {None, Broken}]
  /\ \A t \in Tasks : serving[t] # None => task[t] = "in_flight"
  /\ \A t \in Tasks : serving[t] \in Handlers =>
       handler[serving[t]].open /\ handler[serving[t]].batch = Elements(batch[t])
  /\ \A h \in Handlers : handler[h].open => \E t \in Tasks : serving[t] = h
  /\ \A t, u \in Tasks : serving[t] \in Handlers /\ serving[t] = serving[u] => t = u

\* The inductive invariant of the pipeline.
PipelineInv == QueueInv /\ Connected

\* What its handler q knows of an event: a charge has a row, and a row is charged
\* or its handler owes the charge; a handler that is past the charge, or did not
\* accept the event, has it charged.
Right(q, e, charges, row) ==
  LET owes == q.pc \in {"settling", "discarding"} /\ e \in q.accepted IN
  /\ charges = 1 => row
  /\ row => charges = 1 \/ owes
  /\ owes => charges = 0 /\ row
  /\ q.pc \in {"applying", "ok"} => charges = 1
  /\ q.pc \in {"settling", "discarding"} /\ ~owes => charges = 1

\* The handlers that have a batch.
Busy == {h \in Handlers : handler[h].pc # "idle"}

\* While every response arrives and no handler is cut off, every event is with one
\* handler that has it right, or has a row exactly when it is charged.
Charged ==
  /\ settled \in [Events -> {0, 1}]
  /\ rows \subseteq Events
  /\ \A t \in Tasks : serving[t] # Broken
  /\ \A h \in Busy : handler[h].open /\ handler[h].accepted \subseteq handler[h].batch
  /\ \A h \in Busy : \A e \in handler[h].batch : Right(handler[h], e, settled[e], e \in rows)
  /\ \A e \in Events : (\A h \in Busy : e \notin handler[h].batch) =>
                         (settled[e] = 1 <=> e \in rows)

\* The inductive invariant while only stores fail.
BillingInv == PipelineInv /\ Charged

-----------------------------------------------------------------------------
\* What is at the gateway: in the queue, or in a batch that no handler has.
GatewayHolds(x) ==
  \/ x \in Elements(pending)
  \/ \E t \in Tasks : serving[t] \notin Handlers /\ x \in Elements(batch[t])

\* AtGateway, member by member.
LEMMA AtGatewayIs == \A x : x \in AtGateway <=> GatewayHolds(x)
<1> DEFINE Waiting == UNION {Elements(batch[t]) : t \in {u \in Tasks : serving[u] \notin Handlers}}
<1>1. \A x : x \in Waiting <=> \E t \in Tasks : serving[t] \notin Handlers /\ x \in Elements(batch[t])
  BY Zenon
<1> HIDE DEF Waiting
<1>2. AtGateway = Elements(pending) \cup Waiting
  BY Zenon DEF AtGateway, Waiting
<1> QED BY Zenon, <1>1, <1>2 DEF GatewayHolds

\* The same in the next state.
LEMMA AtGatewayNext ==
  \A x : x \in AtGateway' <=>
    \/ x \in Elements(pending')
    \/ \E t \in Tasks : serving'[t] \notin Handlers /\ x \in Elements(batch'[t])
<1> DEFINE Waiting == UNION {Elements(batch'[t]) : t \in {u \in Tasks : serving'[u] \notin Handlers}}
<1>1. \A x : x \in Waiting <=> \E t \in Tasks : serving'[t] \notin Handlers /\ x \in Elements(batch'[t])
  BY Zenon
<1> HIDE DEF Waiting
<1>2. AtGateway' = Elements(pending') \cup Waiting
  BY Zenon DEF AtGateway, Elements, Waiting
<1> QED BY Zenon, <1>1, <1>2

\* What the open handlers have: the batches of the tasks they work for.
LEMMA InOpenRequestsIs ==
  ASSUME Connected
  PROVE  \A x : x \in I!InOpenRequests <=>
           \E t \in Tasks : serving[t] \in Handlers /\ x \in Elements(batch[t])
<1>1. \A x : x \in I!InOpenRequests <=>
        \E h \in Handlers : handler[h].open /\ x \in handler[h].batch
  BY Zenon DEF I!InOpenRequests
<1>2. \A h \in Handlers : handler[h].open =>
        \E t \in Tasks : serving[t] = h /\ handler[h].batch = Elements(batch[t])
  BY DEF Connected
<1>3. \A t \in Tasks : serving[t] \in Handlers =>
        handler[serving[t]].open /\ handler[serving[t]].batch = Elements(batch[t])
  BY Zenon DEF Connected
<1> QED BY <1>1, <1>2, <1>3

\* A batch is with one task.
LEMMA BatchesApart ==
  ASSUME QueueInv
  PROVE  /\ \A t \in Tasks : \A x \in Elements(batch[t]) :
              x \notin Elements(pending) /\ x \notin Elements(delivered)
         /\ \A t, u \in Tasks : \A x : x \in Elements(batch[t]) /\ x \in Elements(batch[u]) => t = u
         /\ \A t \in Tasks : Elements(batch[t]) \subseteq Events
         /\ \A t \in Tasks : task[t] = "in_flight" => Elements(batch[t]) # {}
         /\ \A t \in Tasks : task[t] # "in_flight" => Elements(batch[t]) = {}
<1>1. HeldOnce /\ QueueTypeOK
  BY Zenon, ConservedParts DEF QueueInv
<1>2. ASSUME NEW t \in Tasks
      PROVE  /\ Elements(batch[t]) \subseteq Events
             /\ task[t] = "in_flight" => Elements(batch[t]) # {}
             /\ task[t] # "in_flight" => Elements(batch[t]) = {}
  <2>1. batch[t] \in Seq(Events) /\ (batch[t] # <<>> <=> task[t] = "in_flight")
    BY Zenon, <1>1 DEF QueueTypeOK
  <2>2. batch[t] # <<>> => 1 \in 1..Len(batch[t])
    BY <2>1
  <2>3. batch[t] = <<>> => Elements(batch[t]) = {}
    BY DEF Elements
  <2>4. \A i \in 1..Len(batch[t]) : batch[t][i] \in Events
    BY <2>1
  <2> QED BY Zenon, <2>1, <2>2, <2>3, <2>4 DEF Elements
<1>3. /\ \A t \in Tasks : \A x \in Elements(batch[t]) :
           x \notin Elements(pending) /\ x \notin Elements(delivered)
      /\ \A t, u \in Tasks : \A x : x \in Elements(batch[t]) /\ x \in Elements(batch[u]) => t = u
  BY Zenon, <1>1 DEF HeldOnce
<1> QED BY Zenon, <1>2, <1>3

\* How a round of a task, with what it held delivered, moves its events.
LEMMA RoundMoves ==
  ASSUME QueueInv, NEW t \in Tasks, TaskStep(t) \/ Acknowledged(t)
  PROVE  /\ Elements(delivered') = Elements(delivered) \cup Elements(batch[t])
         /\ \A u \in Tasks \ {t} : batch'[u] = batch[u] /\ task'[u] = task[u]
         /\ \A x : x \in Elements(pending) <=>
                     x \in Elements(pending') \/ x \in Elements(batch'[t])
<1>1. /\ Leaves(t) \/ Waits(t) \/ Takes(t)
      /\ delivered' = delivered \o batch[t]
  BY Zenon, RoundShape DEF QueueInv
<1>2. /\ pending \in Seq(Events) /\ delivered \in Seq(Events) /\ batch \in [Tasks -> Seq(Events)]
      /\ batch[t] \in Seq(Events) /\ task \in [Tasks -> TaskPlaces]
  BY Zenon DEF QueueInv, QueueTypeOK
<1>3. Elements(delivered') = Elements(delivered) \cup Elements(batch[t])
  BY ZenonT(30), <1>1, <1>2, ConcatFacts
<1>4. \A u \in Tasks \ {t} : batch'[u] = batch[u] /\ task'[u] = task[u]
  BY Zenon, <1>1, <1>2 DEF Leaves, Waits, Takes
<1>5. Elements(<<>>) = {}
  BY DEF Elements
<1>6. Elements(pending) = Elements(pending') \cup Elements(batch'[t])
  <2>1. CASE Leaves(t) \/ Waits(t)
    BY Zenon, <1>2, <1>5, <2>1 DEF Leaves, Waits
  <2>2. CASE Takes(t)
    <3>1. pending # <<>> /\ pending' = Left(pending) /\ batch'[t] = Taken(pending)
      BY Zenon, <1>2, <2>2 DEF Takes
    <3>2. Elements(pending) = Elements(Taken(pending)) \cup Elements(Left(pending))
      BY Zenon, <1>2, <3>1, TakeFacts
    <3> QED BY Zenon, <3>1, <3>2
  <2> QED BY Zenon, <1>1, <2>1, <2>2
<1> QED BY Zenon, <1>3, <1>4, <1>6

\* A failed submission puts its batch back in the queue.
LEMMA FailureMoves ==
  ASSUME QueueInv, NEW t \in Tasks, SubmitFailed(t)
  PROVE  /\ Elements(pending') = Elements(pending) \cup Elements(batch[t])
         /\ \A u \in Tasks \ {t} : batch'[u] = batch[u] /\ task'[u] = task[u]
         /\ Elements(batch'[t]) = {} /\ delivered' = delivered /\ task[t] = "in_flight"
<1>1. /\ pending' = batch[t] \o pending /\ batch' = [batch EXCEPT ![t] = <<>>]
      /\ task[t] = "in_flight" /\ task' = [task EXCEPT ![t] = "retry_wait"]
      /\ UNCHANGED <<active_workers, reported, delivered>>
  BY Zenon DEF SubmitFailed, RequeueFront
<1>2. /\ pending \in Seq(Events) /\ batch \in [Tasks -> Seq(Events)] /\ batch[t] \in Seq(Events)
      /\ task \in [Tasks -> TaskPlaces]
  BY Zenon DEF QueueInv, QueueTypeOK
<1>3. Elements(batch[t] \o pending) = Elements(batch[t]) \cup Elements(pending)
  BY <1>2, ConcatFacts
<1>4. Elements(<<>>) = {} /\ batch'[t] = <<>>
  BY <1>1, <1>2 DEF Elements
<1> QED BY Zenon, <1>1, <1>2, <1>3, <1>4

-----------------------------------------------------------------------------
\* The steps of the pipeline, step by step: the handlers it uses, the queue, and
\* UsageIngest's step that it is.
LEMMA PipelineInit_Inv == PipelineInit => PipelineInv /\ I!Init
<1> SUFFICES ASSUME PipelineInit PROVE PipelineInv /\ I!Init
  BY Zenon
<1>1. QueueInv
  BY Zenon, QueueInitInv DEF PipelineInit
<1>2. I!IdleHandler \in I!Handler /\ I!IdleHandler.pc = "idle" /\ I!IdleHandler.open = FALSE
  BY Zenon DEF I!IdleHandler, I!Handler, I!Stages
<1>3. Connected
  BY Zenon, <1>2, PipelineAssumption DEF PipelineInit, QueueInit, I!Init, Connected
<1> QED BY Zenon, <1>1, <1>3 DEF PipelineInit, PipelineInv


\* A step inside the gateway's queue is a report of an event, or nothing, to the
\* ingest protocol.
LEMMA LocalStep ==
  ASSUME PipelineInv, Local
  PROVE  Connected' /\ [I!Next]_(I!vars)
<1>1. QueueInv /\ Connected /\ UNCHANGED <<ingest_vars, serving>>
  BY Zenon DEF PipelineInv, Local
<1>2. \A x : x \in Elements(reported) <=>
        \/ x \in Elements(pending) \/ x \in Elements(delivered)
        \/ \E t \in Tasks : x \in Elements(batch[t])
  BY Zenon, <1>1, ConservedParts DEF QueueInv, AllHeld
<1>3. ASSUME NEW e \in Events, ReportEvent(e)
      PROVE  Connected' /\ I!Next
  <2>1. /\ pending' = Append(pending, e) /\ e \notin Elements(reported)
        /\ UNCHANGED <<batch, delivered>> /\ pending \in Seq(Events)
    BY Zenon, <1>1, <1>3 DEF ReportEvent, QueueInv, QueueTypeOK
  <2>2. Elements(pending') = Elements(pending) \cup {e}
    BY <2>1, AppendFacts
  <2>3. AtGateway' = AtGateway \cup {e}
    <3> QED BY Zenon, <1>1, <2>1, <2>2, AtGatewayIs, AtGatewayNext DEF GatewayHolds
  <2>4. e \notin AtGateway \cup Elements(delivered) \cup I!InOpenRequests
    BY Zenon, <1>1, <1>2, <2>1, AtGatewayIs, InOpenRequestsIs DEF GatewayHolds
  <2>5. I!Report(e)
    BY Zenon, <1>1, <2>1, <2>3, <2>4 DEF I!Report, ingest_vars
  <2>6. \A t \in Tasks : task[t] = "in_flight" => task'[t] = "in_flight"
    BY Zenon, <1>1, <1>3 DEF ReportEvent, QueueInv, QueueTypeOK
  <2>7. Connected'
    BY Zenon, <1>1, <2>1, <2>6 DEF Connected, ingest_vars
  <2> QED BY Zenon, <2>5, <2>7 DEF I!Next
<1>4. ASSUME NEW t \in Tasks, TaskStep(t)
      PROVE  Connected' /\ UNCHANGED I!vars
  <2>1. /\ Elements(delivered') = Elements(delivered) \cup Elements(batch[t])
        /\ \A u \in Tasks \ {t} : batch'[u] = batch[u] /\ task'[u] = task[u]
        /\ \A x : x \in Elements(pending) <=>
                     x \in Elements(pending') \/ x \in Elements(batch'[t])
    BY Zenon, <1>1, <1>4, RoundMoves
  <2>2. task[t] # "in_flight"
    BY Zenon, <1>4 DEF TaskStep, Start, FlushElapsed, RetryElapsed
  <2>3. Elements(batch[t]) = {} /\ serving[t] = None /\ None \notin Handlers
    BY Zenon, <1>1, <2>2, BatchesApart, PipelineAssumption DEF Connected
  <2>4. AtGateway' = AtGateway
    <3> QED BY Zenon, <1>1, <2>1, <2>3, AtGatewayIs, AtGatewayNext DEF GatewayHolds
  <2>5. UNCHANGED I!vars
    BY Zenon, <1>1, <2>1, <2>3, <2>4 DEF I!vars, ingest_vars
  <2>6. Connected'
    BY <1>1, <2>1, <2>3 DEF Connected, ingest_vars
  <2> QED BY Zenon, <2>5, <2>6
<1> QED BY Zenon, <1>3, <1>4 DEF Local

\* Arrival, the end of a request, and what a task's step leaves of the others.
LEMMA ArriveStep ==
  ASSUME PipelineInv, NEW t \in Tasks, NEW h \in Handlers, Arrive(t, h)
  PROVE  Connected' /\ I!Next
<1> DEFINE b == Elements(batch[t])
           q == [pc |-> "recording", batch |-> b, accepted |-> {}, open |-> TRUE]
<1>1. /\ QueueInv /\ Connected /\ task[t] = "in_flight" /\ serving[t] = None
      /\ serving' = [serving EXCEPT ![t] = h]
      /\ handler[h].pc = "idle" /\ handler' = [handler EXCEPT ![h] = q]
      /\ I!Open(h, b) /\ UNCHANGED <<queue_vars, rows, settled, orphaned, cleaned>>
  BY Zenon DEF PipelineInv, Arrive, I!Open
<1>2. UNCHANGED <<pending, task, batch, delivered>>
  BY Zenon, <1>1 DEF queue_vars
<1>3. b \subseteq Events /\ b # {} /\ None \notin Handlers
  BY Zenon, <1>1, BatchesApart, PipelineAssumption
<1> HIDE DEF b
<1>4. q \in I!Handler /\ q.pc = "recording" /\ q.batch = b /\ q.open
  BY Zenon, <1>3 DEF I!Handler, I!Stages
<1> HIDE DEF q
<1>5. /\ serving \in [Tasks -> Handlers \cup {None, Broken}] /\ serving' \in [Tasks -> Handlers \cup {None, Broken}]
      /\ serving'[t] = h /\ \A u \in Tasks \ {t} : serving'[u] = serving[u]
  BY Zenon, <1>1 DEF Connected
<1>6. /\ handler \in [Handlers -> I!Handler] /\ handler' \in [Handlers -> I!Handler]
      /\ handler'[h] = q /\ \A k \in Handlers \ {h} : handler'[k] = handler[k]
  BY Zenon, <1>1, <1>4 DEF Connected
<1>7. ~handler[h].open /\ \A u \in Tasks : serving[u] # h
  BY Zenon, <1>1 DEF Connected
<1>8. Connected'
  <2>1. ASSUME NEW u \in Tasks, serving'[u] \in Handlers
        PROVE  handler'[serving'[u]].open /\ handler'[serving'[u]].batch = Elements(batch'[u])
    <3>1. CASE u = t
      BY Zenon, <1>2, <1>4, <1>5, <1>6, <3>1 DEF b
    <3>2. CASE u # t
      <4>1. serving'[u] = serving[u] /\ serving[u] \in Handlers \ {h}
        BY Zenon, <1>5, <1>7, <2>1, <3>2
      <4> QED BY <1>1, <1>2, <1>6, <4>1 DEF Connected
    <3> QED BY Zenon, <3>1, <3>2
  <2>2. ASSUME NEW k \in Handlers, handler'[k].open PROVE \E u \in Tasks : serving'[u] = k
    <3>1. CASE k = h
      BY Zenon, <1>5, <3>1
    <3>2. CASE k # h
      <4>1. PICK u \in Tasks : serving[u] = k
        BY Zenon, <1>1, <1>6, <2>2, <3>2 DEF Connected
      <4> QED BY Zenon, <1>1, <1>3, <1>5, <4>1
    <3> QED BY Zenon, <3>1, <3>2
  <2>3. \A u, v \in Tasks : serving'[u] \in Handlers /\ serving'[u] = serving'[v] => u = v
    BY <1>1, <1>5, <1>7 DEF Connected
  <2>4. \A u \in Tasks : serving'[u] # None => task'[u] = "in_flight"
    BY Zenon, <1>1, <1>2, <1>5 DEF Connected
  <2>5. \A k \in Handlers : handler'[k].pc = "idle" => ~handler'[k].open
    BY Zenon, <1>1, <1>4, <1>6 DEF Connected
  <2> QED BY Zenon, <1>5, <1>6, <2>1, <2>2, <2>3, <2>4, <2>5 DEF Connected
<1>9. /\ b \subseteq AtGateway /\ AtGateway' = AtGateway \ b
  <2>1. b \subseteq AtGateway
    BY Zenon, <1>1, <1>3, AtGatewayIs DEF GatewayHolds, b
  <2>2. \A x \in b : x \notin Elements(pending) /\ \A u \in Tasks \ {t} : x \notin Elements(batch[u])
    BY Zenon, <1>1, BatchesApart DEF b
  <2>3. AtGateway' = AtGateway \ b
    BY Zenon, <1>1, <1>2, <1>3, <1>5, <2>2, AtGatewayIs, AtGatewayNext DEF GatewayHolds, b
  <2> QED BY Zenon, <2>1, <2>3
<1>10. I!Submit(h, b)
  BY Zenon, <1>1, <1>2, <1>3, <1>9 DEF I!Submit
<1> QED BY Zenon, <1>8, <1>9, <1>10 DEF I!Next

\* A task whose request ends has no handler any more.
LEMMA EndConnected ==
  ASSUME PipelineInv, NEW t \in Tasks, serving' = [serving EXCEPT ![t] = None],
         \A u \in Tasks \ {t} : batch'[u] = batch[u] /\ task'[u] = task[u],
         \/ UNCHANGED handler /\ serving[t] \notin Handlers
         \/ \E q \in I!Handler : /\ handler' = [handler EXCEPT ![serving[t]] = q]
                                 /\ serving[t] \in Handlers /\ ~q.open
  PROVE  Connected'
<1>1. Connected /\ None \notin Handlers /\ Broken # None
  BY Zenon, PipelineAssumption DEF PipelineInv
<1>2. /\ serving' \in [Tasks -> Handlers \cup {None, Broken}] /\ serving'[t] = None
      /\ \A u \in Tasks \ {t} : serving'[u] = serving[u]
  BY Zenon, <1>1 DEF Connected
<1>3. CASE UNCHANGED handler /\ serving[t] \notin Handlers
  BY <1>1, <1>2, <1>3 DEF Connected
<1>4. ASSUME NEW q \in I!Handler, handler' = [handler EXCEPT ![serving[t]] = q],
             serving[t] \in Handlers, ~q.open
      PROVE  Connected'
  <2> DEFINE h == serving[t]
  <2>1. h \in Handlers /\ \A u \in Tasks \ {t} : serving[u] # h
    BY Zenon, <1>1, <1>4 DEF Connected
  <2>2. /\ handler' \in [Handlers -> I!Handler] /\ handler'[h] = q
        /\ \A k \in Handlers \ {h} : handler'[k] = handler[k]
    BY Zenon, <1>1, <1>4 DEF Connected
  <2>3. serving[t] = h
    BY Zenon
  <2> HIDE DEF h
  <2> QED BY <1>1, <1>2, <1>4, <2>1, <2>2, <2>3 DEF Connected
<1> QED BY Zenon, <1>3, <1>4

\* A request that finds no control API changes nothing for the ingest protocol.
LEMMA UnreachableStep ==
  ASSUME PipelineInv, NEW t \in Tasks, Unreachable(t)
  PROVE  Connected' /\ UNCHANGED I!vars
<1>1. /\ QueueInv /\ Connected /\ SubmitFailed(t)
      /\ serving' = [serving EXCEPT ![t] = None] /\ UNCHANGED ingest_vars
      /\ serving[t] \notin Handlers /\ None \notin Handlers
  BY Zenon, PipelineAssumption DEF PipelineInv, Unreachable
<1>2. /\ Elements(pending') = Elements(pending) \cup Elements(batch[t])
      /\ \A u \in Tasks \ {t} : batch'[u] = batch[u] /\ task'[u] = task[u]
      /\ Elements(batch'[t]) = {} /\ delivered' = delivered
  BY Zenon, <1>1, FailureMoves
<1>3. Connected'
  BY Zenon, <1>1, <1>2, EndConnected DEF ingest_vars
<1>4. \A u \in Tasks \ {t} : serving'[u] = serving[u]
  BY Zenon, <1>1 DEF Connected
<1>5. AtGateway' = AtGateway
  BY Zenon, <1>1, <1>2, <1>4, AtGatewayIs, AtGatewayNext DEF GatewayHolds
<1> QED BY Zenon, <1>1, <1>2, <1>3, <1>5 DEF I!vars, ingest_vars

\* A request that failed while a handler worked for it: its events are back.
LEMMA EventsReturn ==
  ASSUME PipelineInv, NEW t \in Tasks, serving[t] \in Handlers, SubmitFailed(t),
         serving' = [serving EXCEPT ![t] = None]
  PROVE  /\ AtGateway' = AtGateway \cup handler[serving[t]].batch
         /\ Elements(delivered') = Elements(delivered)
         /\ \A u \in Tasks \ {t} : batch'[u] = batch[u] /\ task'[u] = task[u]
<1>1. QueueInv /\ Connected
  BY Zenon DEF PipelineInv
<1>2. /\ Elements(pending') = Elements(pending) \cup Elements(batch[t])
      /\ \A u \in Tasks \ {t} : batch'[u] = batch[u] /\ task'[u] = task[u]
      /\ Elements(batch'[t]) = {} /\ delivered' = delivered
  BY Zenon, <1>1, FailureMoves
<1>3. handler[serving[t]].batch = Elements(batch[t])
  BY Zenon, <1>1 DEF Connected
<1>4. \A u \in Tasks \ {t} : serving'[u] = serving[u]
  BY Zenon, <1>1 DEF Connected
<1>5. AtGateway' = AtGateway \cup Elements(batch[t])
  BY Zenon, <1>1, <1>2, <1>4, AtGatewayIs, AtGatewayNext DEF GatewayHolds
<1> QED BY Zenon, <1>2, <1>3, <1>5

\* A handler without a request.
LEMMA IdleIs == I!IdleHandler \in I!Handler /\ I!IdleHandler.pc = "idle" /\ ~I!IdleHandler.open
                /\ I!IdleHandler.batch = {} /\ I!IdleHandler.accepted = {}
  BY Zenon DEF I!IdleHandler, I!Handler, I!Stages

\* A response is the one of the ingest protocol.
LEMMA RespondStep ==
  ASSUME PipelineInv, NEW t \in Tasks, NEW h \in Handlers, Respond(t, h)
  PROVE  Connected' /\ I!Next
<1>1. /\ QueueInv /\ Connected /\ serving[t] = h /\ I!Close(h)
      /\ serving' = [serving EXCEPT ![t] = None]
      /\ handler' = [handler EXCEPT ![h] = I!IdleHandler]
      /\ UNCHANGED <<rows, settled, orphaned, cleaned>>
  BY Zenon DEF PipelineInv, Respond, I!Close
<1>2. handler[h].batch = Elements(batch[t]) /\ None \notin Handlers
  BY Zenon, <1>1, PipelineAssumption DEF Connected
<1>3. CASE handler[h].pc = "ok" /\ Acknowledged(t)
  <2>1. /\ Elements(delivered') = Elements(delivered) \cup Elements(batch[t])
        /\ \A u \in Tasks \ {t} : batch'[u] = batch[u] /\ task'[u] = task[u]
        /\ \A x : x \in Elements(pending) <=>
                    x \in Elements(pending') \/ x \in Elements(batch'[t])
    BY Zenon, <1>1, <1>3, RoundMoves
  <2>2. Connected'
    BY Zenon, <1>1, <2>1, IdleIs, EndConnected
  <2>3. serving'[t] = None /\ \A u \in Tasks \ {t} : serving'[u] = serving[u]
    BY Zenon, <1>1 DEF Connected
  <2>4. AtGateway' = AtGateway
    BY ZenonT(30), <1>1, <1>2, <2>1, <2>3, AtGatewayIs, AtGatewayNext DEF GatewayHolds
  <2>5. I!ReceiveOk(h)
    BY Zenon, <1>1, <1>2, <1>3, <2>1, <2>4 DEF I!ReceiveOk
  <2> QED BY Zenon, <2>2, <2>5 DEF I!Next
<1>4. CASE handler[h].pc = "error" /\ SubmitFailed(t)
  <2>1. /\ AtGateway' = AtGateway \cup handler[h].batch
        /\ Elements(delivered') = Elements(delivered)
        /\ \A u \in Tasks \ {t} : batch'[u] = batch[u] /\ task'[u] = task[u]
    BY Zenon, <1>1, <1>4, EventsReturn
  <2>2. Connected'
    BY Zenon, <1>1, <2>1, IdleIs, EndConnected
  <2>3. I!ReceiveError(h)
    BY Zenon, <1>1, <1>4, <2>1 DEF I!ReceiveError
  <2> QED BY Zenon, <2>2, <2>3 DEF I!Next
<1> QED BY Zenon, <1>3, <1>4 DEF Respond

\* A response that comes too late is the ingest protocol's lost one.
LEMMA TimeOutStep ==
  ASSUME PipelineInv, NEW t \in Tasks, NEW h \in Handlers, TimeOut(t, h)
  PROVE  Connected' /\ I!Next
<1> DEFINE q == [handler[h] EXCEPT !.open = FALSE]
<1>1. /\ QueueInv /\ Connected /\ serving[t] = h /\ SubmitFailed(t) /\ I!Abandon(h)
      /\ serving' = [serving EXCEPT ![t] = None]
      /\ handler' = [handler EXCEPT ![h] = q]
      /\ UNCHANGED <<rows, settled, orphaned, cleaned>>
  BY Zenon DEF PipelineInv, TimeOut, I!Abandon
<1>2. q \in I!Handler /\ ~q.open
  <2>1. handler[h] \in I!Handler
    BY Zenon, <1>1 DEF Connected
  <2> QED BY Zenon, <2>1 DEF I!Handler
<1> HIDE DEF q
<1>3. /\ AtGateway' = AtGateway \cup handler[h].batch
      /\ Elements(delivered') = Elements(delivered)
      /\ \A u \in Tasks \ {t} : batch'[u] = batch[u] /\ task'[u] = task[u]
  BY Zenon, <1>1, EventsReturn
<1>4. Connected'
  BY Zenon, <1>1, <1>2, <1>3, EndConnected
<1>5. I!GiveUp(h)
  BY Zenon, <1>1, <1>3 DEF I!GiveUp
<1> QED BY Zenon, <1>4, <1>5 DEF I!Next

\* A handler's own step keeps its request and its peer, or ends it without one.
LEMMA ServeShape ==
  ASSUME Connected, NEW h \in Handlers, I!Serve(h)
  PROVE  \E q \in I!Handler :
           /\ handler' = [handler EXCEPT ![h] = q] /\ q.open = handler[h].open
           /\ handler[h].open => q.batch = handler[h].batch /\ q.pc # "idle"
<1> DEFINE new == handler[h].batch \ rows
           to(pc) == [handler[h] EXCEPT !.pc = pc]
           recorded == [handler[h] EXCEPT !.accepted = new,
                                          !.pc = IF new = {} THEN "ok" ELSE "settling"]
<1>1. handler[h] \in I!Handler
  BY Zenon DEF Connected
<1>2. \A pc \in I!Stages \ {"idle"} :
        /\ to(pc) \in I!Handler /\ to(pc).open = handler[h].open
        /\ to(pc).batch = handler[h].batch /\ to(pc).pc # "idle"
  BY Zenon, <1>1 DEF I!Handler
<1>3. /\ recorded \in I!Handler /\ recorded.open = handler[h].open
      /\ recorded.batch = handler[h].batch /\ recorded.pc # "idle"
  BY Zenon, <1>1 DEF I!Handler, I!Stages
<1>4. CASE I!Record(h)
  BY Zenon, <1>3, <1>4 DEF I!Record
<1>5. ASSUME NEW pc \in I!Stages \ {"idle"}, I!Move(h, pc)
      PROVE  \E q \in I!Handler :
               /\ handler' = [handler EXCEPT ![h] = q] /\ q.open = handler[h].open
               /\ handler[h].open => q.batch = handler[h].batch /\ q.pc # "idle"
  <2>1. handler' = [handler EXCEPT ![h] = to(pc)]
    BY Zenon, <1>5 DEF I!Move
  <2> QED BY Zenon, <1>2, <2>1
<1>6. CASE I!RecordFailed(h) \/ I!Settle(h) \/ I!SettleFailed(h) \/ I!Discard(h)
           \/ I!DiscardFailed(h) \/ I!Apply(h) \/ I!ApplyFailed(h)
  <2>1. \E pc \in I!Stages \ {"idle"} : I!Move(h, pc)
    BY Zenon, <1>6 DEF I!RecordFailed, I!Settle, I!SettleFailed, I!Discard, I!DiscardFailed,
                I!Apply, I!ApplyFailed, I!Stages
  <2> QED BY Zenon, <1>5, <2>1
<1>7. CASE I!Unheard(h) \/ I!Dropped(h)
  <2>1. handler' = [handler EXCEPT ![h] = I!IdleHandler] /\ ~handler[h].open
    BY Zenon, <1>7 DEF I!Unheard, I!Dropped
  <2>2. I!IdleHandler.open = FALSE /\ handler[h].open = FALSE
    BY Zenon, <1>1, <2>1 DEF I!IdleHandler, I!Handler
  <2> QED BY Zenon, <2>1, <2>2, IdleIs
<1> QED BY Zenon, <1>4, <1>6, <1>7 DEF I!Serve

\* A step of a handler, a cleanup and a restart are those of the ingest protocol.
LEMMA ControlPlaneStep ==
  ASSUME PipelineInv,
         \/ \E h \in Handlers : Serve(h)
         \/ \E old \in SUBSET rows : Cleanup(old)
         \/ Restart
  PROVE  Connected' /\ I!Next
<1>1. Connected /\ None \notin Handlers /\ Broken \notin Handlers
  BY Zenon, PipelineAssumption DEF PipelineInv
<1>2. ASSUME NEW h \in Handlers, Serve(h) PROVE Connected' /\ I!Next
  <2>1. I!Serve(h) /\ UNCHANGED <<pending, task, batch, delivered, serving>>
    BY Zenon, <1>2 DEF Serve, queue_vars
  <2>2. PICK q \in I!Handler :
           /\ handler' = [handler EXCEPT ![h] = q] /\ q.open = handler[h].open
           /\ handler[h].open => q.batch = handler[h].batch /\ q.pc # "idle"
    BY Zenon, <1>1, <2>1, ServeShape
  <2>3. /\ handler' \in [Handlers -> I!Handler] /\ handler'[h] = q
        /\ \A k \in Handlers \ {h} : handler'[k] = handler[k]
    BY Zenon, <1>1, <2>2 DEF Connected
  <2>4. Connected'
    BY <1>1, <2>1, <2>2, <2>3 DEF Connected
  <2> QED BY Zenon, <2>1, <2>4 DEF I!Next
<1>3. ASSUME NEW old \in SUBSET rows, Cleanup(old) PROVE Connected' /\ I!Next
  <2>1. I!Cleanup(old) /\ UNCHANGED <<pending, task, batch, delivered, serving, handler>>
    BY Zenon, <1>3 DEF Cleanup, I!Cleanup, queue_vars
  <2>2. Connected'
    BY Zenon, <1>1, <2>1 DEF Connected
  <2> QED BY Zenon, <2>1, <2>2 DEF I!Next, I!Around
<1>4. CASE Restart
  <2>1. /\ I!Restart /\ UNCHANGED <<task, batch>>
        /\ serving' = [t \in Tasks |-> IF serving[t] \in Handlers THEN Broken ELSE serving[t]]
        /\ handler' = [h \in Handlers |-> I!IdleHandler]
    BY Zenon, <1>4 DEF Restart, I!Restart, queue_vars
  <2>2. /\ serving' \in [Tasks -> Handlers \cup {None, Broken}]
        /\ \A t \in Tasks : serving'[t] \notin Handlers
        /\ \A t \in Tasks : serving'[t] # None => serving[t] # None
    BY Zenon, <1>1, <2>1, PipelineAssumption DEF Connected
  <2>3. Connected'
    BY Zenon, <1>1, <2>1, <2>2, IdleIs DEF Connected
  <2> QED BY Zenon, <2>1, <2>3 DEF I!Next, I!Around
<1> QED BY Zenon, <1>2, <1>3, <1>4

\* In every step the queue does one of its own, or nothing.
LEMMA QueueMoves ==
  ASSUME PipelineNext
  PROVE  [QueueNext]_queue_vars
  BY Zenon DEF PipelineNext, Local, Arrive, Unreachable, Respond, TimeOut, Serve, Cleanup, Restart,
         QueueNext

\* Every step keeps the invariant and is a step of the ingest protocol, or none.
LEMMA PipelineNext_Inv ==
  PipelineInv /\ [PipelineNext]_all_vars => PipelineInv' /\ [I!Next]_(I!vars)
<1> SUFFICES ASSUME PipelineInv, [PipelineNext]_all_vars
             PROVE  PipelineInv' /\ [I!Next]_(I!vars)
  BY Zenon
<1>1. CASE UNCHANGED all_vars
  <2>1. UNCHANGED <<pending, task, batch, delivered, serving, handler, rows, settled, orphaned, cleaned>>
        /\ UNCHANGED queue_vars
    BY Zenon, <1>1 DEF all_vars, queue_vars, ingest_vars
  <2>2. QueueInv'
    BY Zenon, <2>1, QueueNextInv DEF PipelineInv
  <2>3. Connected'
    BY Zenon, <2>1 DEF PipelineInv, Connected
  <2>4. AtGateway' = AtGateway
    BY Zenon, <2>1 DEF AtGateway
  <2> QED BY Zenon, <2>1, <2>2, <2>3, <2>4 DEF PipelineInv, I!vars
<1>2. CASE PipelineNext
  <2>1. QueueInv'
    BY Zenon, <1>2, QueueMoves, QueueNextInv DEF PipelineInv
  <2>2. Connected' /\ [I!Next]_(I!vars)
    BY Zenon, <1>2, LocalStep, ArriveStep, UnreachableStep, RespondStep, TimeOutStep, ControlPlaneStep
       DEF PipelineNext
  <2> QED BY Zenon, <2>1, <2>2 DEF PipelineInv
<1> QED BY Zenon, <1>1, <1>2

\* In every state of the pipeline the queue is right and the tasks and handlers
\* that work for each other agree.
THEOREM PipelineInvariant == PipelineSpec => []PipelineInv
  BY PipelineInit_Inv, PipelineNext_Inv, PTL DEF PipelineSpec

\* The gateway's report queue and its connections are the gateway that
\* gateway_usage is written for.
THEOREM PipelineImplementsIngest == PipelineSpec => ImplementsIngest
  BY PipelineInit_Inv, PipelineNext_Inv, PTL DEF PipelineSpec, ImplementsIngest, I!Spec

-----------------------------------------------------------------------------
(***************************************************************************)
(* Billing, while only the stores fail                                     *)
(***************************************************************************)

\* Recording, settling and applying a batch may fail.  Discarding the rows of a
\* failed settlement does not, no response is lost, and no handler is dropped, no
\* process restarts and no row is cleaned up.
OnlyStoresFail == Faults \subseteq {"record", "settle", "apply"}

\* No two busy handlers have the same event.
LEMMA BusyApart ==
  ASSUME BillingInv, NEW h \in Busy, NEW k \in Busy, NEW e \in handler[h].batch,
         e \in handler[k].batch
  PROVE  h = k
<1>1. QueueInv /\ Connected /\ h \in Handlers /\ k \in Handlers
      /\ handler[h].open /\ handler[k].open
  BY Zenon DEF BillingInv, PipelineInv, Charged, Busy
<1>2. PICK t \in Tasks : serving[t] = h /\ handler[h].batch = Elements(batch[t])
  BY <1>1 DEF Connected
<1>3. PICK u \in Tasks : serving[u] = k /\ handler[k].batch = Elements(batch[u])
  BY <1>1 DEF Connected
<1>4. t = u
  BY <1>1, <1>2, <1>3, BatchesApart
<1> QED BY Zenon, <1>2, <1>3, <1>4

\* A busy handler goes on with its batch, and gets its events right.
LEMMA HandlerCharges ==
  ASSUME BillingInv, NEW h \in Busy, NEW q \in I!Handler,
         handler' = [handler EXCEPT ![h] = q], q.open, q.pc # "idle",
         q.batch = handler[h].batch, q.accepted \subseteq q.batch, UNCHANGED serving,
         settled' \in [Events -> {0, 1}], rows' \subseteq Events,
         \A e \in Events \ q.batch : settled'[e] = settled[e] /\ (e \in rows' <=> e \in rows),
         \A e \in q.batch : Right(q, e, settled'[e], e \in rows')
  PROVE  Charged'
<1>1. /\ h \in Handlers /\ handler \in [Handlers -> I!Handler]
      /\ handler'[h] = q /\ \A k \in Handlers \ {h} : handler'[k] = handler[k]
  BY Zenon DEF BillingInv, PipelineInv, Connected, Busy
<1>2. Busy' = Busy
  BY Zenon, <1>1 DEF Busy
<1>3. ASSUME NEW k \in Busy, k # h
      PROVE  /\ handler'[k] = handler[k] /\ handler'[k].open
             /\ handler'[k].accepted \subseteq handler'[k].batch
             /\ \A e \in handler'[k].batch : Right(handler'[k], e, settled'[e], e \in rows')
  <2>1. k \in Handlers /\ handler'[k] = handler[k] /\ handler[k] \in I!Handler
    BY Zenon, <1>1, <1>3 DEF Busy
  <2>2. /\ handler[k].open /\ handler[k].accepted \subseteq handler[k].batch
        /\ \A e \in handler[k].batch : Right(handler[k], e, settled[e], e \in rows)
    BY Zenon DEF BillingInv, Charged
  <2>3. ASSUME NEW e \in handler[k].batch
        PROVE  Right(handler[k], e, settled'[e], e \in rows')
    <3>1. e \in Events
      BY Zenon, <2>1 DEF I!Handler
    <3>2. e \notin q.batch
      BY Zenon, <1>3, BusyApart
    <3>3. settled'[e] = settled[e] /\ (e \in rows' <=> e \in rows)
      BY Zenon, <3>1, <3>2
    <3>4. Right(handler[k], e, settled[e], e \in rows)
      BY Zenon, <2>2
    <3> QED BY Zenon, <3>3, <3>4 DEF Right
  <2> QED BY Zenon, <2>1, <2>2, <2>3
<1>4. \A k \in Busy' : /\ handler'[k].open /\ handler'[k].accepted \subseteq handler'[k].batch
                       /\ \A e \in handler'[k].batch :
                            Right(handler'[k], e, settled'[e], e \in rows')
  BY Zenon, <1>1, <1>2, <1>3
<1>5. ASSUME NEW e \in Events, \A k \in Busy' : e \notin handler'[k].batch
      PROVE  settled'[e] = 1 <=> e \in rows'
  <2>1. e \notin q.batch /\ \A k \in Busy : e \notin handler[k].batch
    BY ZenonT(30), <1>1, <1>2, <1>3, <1>5
  <2>2. settled[e] = 1 <=> e \in rows
    BY Zenon, <2>1 DEF BillingInv, Charged
  <2> QED BY Zenon, <2>1, <2>2
<1>6. \A t \in Tasks : serving'[t] # Broken
  BY Zenon DEF BillingInv, Charged
<1> QED BY Zenon, <1>4, <1>5, <1>6 DEF Charged

\* A step of a handler charges what the specification of billing allows.
LEMMA ServeCharges ==
  ASSUME OnlyStoresFail, BillingInv, NEW h \in Handlers, Serve(h)
  PROVE  Charged' /\ [B!Next]_(B!vars)
<1> DEFINE p == handler[h]
           to(pc) == [p EXCEPT !.pc = pc]
<1>1. /\ UNCHANGED <<delivered, serving>> /\ I!Serve(h)
      /\ settled \in [Events -> {0, 1}] /\ rows \subseteq Events
  BY Zenon DEF Serve, queue_vars, BillingInv, Charged
<1>2. h \in Busy
  BY Zenon, <1>1 DEF I!Serve, I!Record, I!RecordFailed, I!Settle, I!SettleFailed, I!Discard,
       I!DiscardFailed, I!Apply, I!ApplyFailed, I!Unheard, I!Dropped, Busy
<1>3. /\ p \in I!Handler /\ p.open /\ p.accepted \subseteq p.batch
      /\ p.batch \subseteq Events /\ p.accepted \subseteq Events
      /\ \A e \in p.batch : Right(p, e, settled[e], e \in rows)
  <2>1. p \in I!Handler
    BY Zenon DEF BillingInv, PipelineInv, Connected
  <2>2. p.batch \subseteq Events /\ p.accepted \subseteq Events
    BY Zenon, <2>1 DEF I!Handler
  <2> QED BY Zenon, <1>2, <2>1, <2>2 DEF BillingInv, Charged
<1>4. \A pc \in I!Stages \ {"idle"} :
        /\ to(pc) \in I!Handler /\ to(pc).pc = pc /\ to(pc).open /\ to(pc).pc # "idle"
        /\ to(pc).batch = p.batch /\ to(pc).accepted = p.accepted
  BY Zenon, <1>3 DEF I!Handler
<1>5. ASSUME NEW pc \in I!Stages \ {"idle"}, I!Move(h, pc),
             settled' \in [Events -> {0, 1}], rows' \subseteq Events,
             \A e \in Events \ p.batch : settled'[e] = settled[e] /\ (e \in rows' <=> e \in rows),
             \A e \in p.batch : Right(to(pc), e, settled'[e], e \in rows')
      PROVE  Charged'
  <2>1. handler' = [handler EXCEPT ![h] = to(pc)]
    BY Zenon, <1>5 DEF I!Move
  <2> HIDE DEF to
  <2> QED BY Zenon, <1>1, <1>2, <1>3, <1>4, <1>5, <2>1, HandlerCharges
<1>6. CASE I!Record(h)
  <2> DEFINE new == p.batch \ rows
             q == [p EXCEPT !.accepted = new, !.pc = IF new = {} THEN "ok" ELSE "settling"]
  <2>1. /\ handler' = [handler EXCEPT ![h] = q] /\ rows' = rows \cup new /\ settled' = settled
        /\ p.pc = "recording"
    BY Zenon, <1>6 DEF I!Record
  <2>2. /\ q \in I!Handler /\ q.open /\ q.batch = p.batch /\ q.accepted = new
        /\ q.pc = IF new = {} THEN "ok" ELSE "settling"
    BY Zenon, <1>3 DEF I!Handler, I!Stages
  <2> HIDE DEF q
  <2>3. ASSUME NEW e \in q.batch PROVE Right(q, e, settled'[e], e \in rows')
    <3>1. (settled[e] = 1 <=> e \in rows) /\ settled[e] \in {0, 1}
      BY Zenon, <1>1, <1>3, <2>1, <2>2 DEF Right
    <3>2. (e \in new <=> e \notin rows) /\ e \in rows'
      BY Zenon, <2>1, <2>2
    <3> HIDE DEF new
    <3> QED BY Zenon, <2>1, <2>2, <3>1, <3>2 DEF Right
  <2>4. \A e \in Events \ q.batch : e \in rows' <=> e \in rows
    BY Zenon, <2>1, <2>2
  <2>5. q.pc # "idle" /\ q.accepted \subseteq q.batch /\ rows' \subseteq Events
    BY Zenon, <1>1, <1>3, <2>1, <2>2
  <2>6. Charged'
    BY Zenon, <1>1, <1>2, <2>1, <2>2, <2>3, <2>4, <2>5, HandlerCharges
  <2>7. UNCHANGED B!vars
    BY Zenon, <1>1, <2>1 DEF B!vars
  <2> QED BY Zenon, <2>6, <2>7
<1>7. CASE I!RecordFailed(h) \/ I!Apply(h) \/ I!ApplyFailed(h) \/ I!SettleFailed(h)
  <2>1. PICK pc \in I!Stages \ {"idle"} :
           /\ I!Move(h, pc)
           /\ \/ p.pc = "recording" /\ pc = "error"
              \/ p.pc = "applying" /\ pc \in {"ok", "error"}
              \/ p.pc = "settling" /\ pc = "discarding"
    BY Zenon, <1>7 DEF I!RecordFailed, I!Apply, I!ApplyFailed, I!SettleFailed, I!Stages
  <2>2. UNCHANGED <<rows, settled>>
    BY Zenon, <1>7 DEF I!RecordFailed, I!Apply, I!ApplyFailed, I!SettleFailed
  <2>3. ASSUME NEW e \in p.batch PROVE Right(to(pc), e, settled'[e], e \in rows')
    <3>1. Right(p, e, settled[e], e \in rows)
      BY Zenon, <1>3
    <3> HIDE DEF to
    <3> QED BY Zenon, <1>4, <2>1, <2>2, <3>1 DEF Right
  <2>4. Charged'
    <3> HIDE DEF p, to
    <3> QED BY Zenon, <1>1, <1>5, <2>1, <2>2, <2>3
  <2>5. UNCHANGED B!vars
    BY Zenon, <1>1, <2>2 DEF B!vars
  <2> QED BY Zenon, <2>4, <2>5
<1>8. CASE I!Settle(h)
  <2>1. /\ I!Move(h, "applying") /\ p.pc = "settling" /\ rows' = rows
        /\ settled' = [e \in Events |-> settled[e] + IF e \in p.accepted THEN 1 ELSE 0]
    BY Zenon, <1>8 DEF I!Settle
  <2>2. \A e \in p.accepted : e \in p.batch /\ settled[e] = 0 /\ e \in rows
    BY Zenon, <1>3, <2>1 DEF Right
  <2>3. \A e \in Events : /\ e \in p.accepted => settled'[e] = 1
                          /\ e \notin p.accepted => settled'[e] = settled[e]
    BY <1>1, <1>3, <2>1, <2>2
  <2>4. settled' = [e \in Events |-> IF e \in p.accepted THEN 1 ELSE settled[e]]
    BY Zenon, <2>1, <2>3
  <2>5. settled' \in [Events -> {0, 1}]
    BY Zenon, <1>1, <2>4
  <2>6. ASSUME NEW e \in p.batch PROVE Right(to("applying"), e, settled'[e], e \in rows')
    <3>1. Right(p, e, settled[e], e \in rows) /\ e \in Events
      BY Zenon, <1>3
    <3>2. to("applying").pc = "applying"
      BY Zenon, <1>4 DEF I!Stages
    <3>3. settled'[e] = 1 /\ e \in rows'
      BY Zenon, <2>1, <2>2, <2>3, <3>1 DEF Right
    <3> HIDE DEF to
    <3> QED BY Zenon, <3>2, <3>3 DEF Right
  <2>7. Charged'
    <3>1. "applying" \in I!Stages \ {"idle"}
      BY Zenon DEF I!Stages
    <3>2. \A e \in Events \ p.batch : settled'[e] = settled[e]
      BY Zenon, <1>3, <2>3
    <3> HIDE DEF p, to
    <3> QED BY Zenon, <1>1, <1>5, <2>1, <2>5, <2>6, <3>1, <3>2
  <2>8. B!Charge(p.accepted)
    BY Zenon, <1>1, <2>2, <2>4 DEF B!Charge
  <2> QED BY Zenon, <1>3, <2>7, <2>8 DEF B!Next
<1>9. CASE I!Discard(h)
  <2>1. /\ I!Move(h, "error") /\ p.pc = "discarding" /\ rows' = rows \ p.accepted
        /\ settled' = settled
    BY Zenon, <1>9 DEF I!Discard
  <2>2. ASSUME NEW e \in p.batch PROVE Right(to("error"), e, settled'[e], e \in rows')
    <3>1. Right(p, e, settled[e], e \in rows)
      BY Zenon, <1>3
    <3>2. to("error").pc = "error"
      BY Zenon, <1>4 DEF I!Stages
    <3>3. settled'[e] = 1 <=> e \in rows'
      BY <2>1, <3>1 DEF Right
    <3> HIDE DEF to
    <3> QED BY Zenon, <3>2, <3>3 DEF Right
  <2>3. Charged'
    <3>1. "error" \in I!Stages \ {"idle"}
      BY Zenon DEF I!Stages
    <3>2. \A e \in Events \ p.batch : e \in rows' <=> e \in rows
      BY Zenon, <1>3, <2>1
    <3>3. rows' \subseteq Events
      BY Zenon, <1>1, <2>1
    <3> HIDE DEF p, to
    <3> QED BY Zenon, <1>1, <1>5, <2>1, <2>2, <3>1, <3>2, <3>3
  <2>4. UNCHANGED B!vars
    BY Zenon, <1>1, <2>1 DEF B!vars
  <2> QED BY Zenon, <2>3, <2>4
<1>10. ~I!DiscardFailed(h) /\ ~I!Unheard(h) /\ ~I!Dropped(h)
  BY Zenon, <1>3 DEF OnlyStoresFail, I!DiscardFailed, I!Unheard, I!Dropped
<1> QED BY Zenon, <1>1, <1>6, <1>7, <1>8, <1>9, <1>10 DEF I!Serve

\* A batch that arrives finds its events charged or open.
LEMMA ArriveCharges ==
  ASSUME BillingInv, NEW t \in Tasks, NEW h \in Handlers, Arrive(t, h)
  PROVE  Charged' /\ UNCHANGED B!vars
<1> DEFINE b == Elements(batch[t])
           q == [pc |-> "recording", batch |-> b, accepted |-> {}, open |-> TRUE]
<1>1. /\ QueueInv /\ Connected /\ serving[t] = None /\ serving' = [serving EXCEPT ![t] = h]
      /\ handler[h].pc = "idle" /\ handler' = [handler EXCEPT ![h] = q]
      /\ UNCHANGED <<queue_vars, rows, settled>>
      /\ None \notin Handlers /\ Broken \notin Handlers
  BY Zenon, PipelineAssumption DEF BillingInv, PipelineInv, Arrive, I!Open
<1>2. delivered' = delivered /\ b \subseteq Events
  BY Zenon, <1>1, BatchesApart DEF queue_vars
<1> HIDE DEF b
<1>3. q.pc = "recording" /\ q.batch = b /\ q.accepted = {} /\ q.open
  BY Zenon
<1> HIDE DEF q
<1>4. /\ handler'[h] = q /\ \A k \in Handlers \ {h} : handler'[k] = handler[k]
      /\ Busy' = Busy \cup {h} /\ h \notin Busy
  <2>1. handler'[h] = q /\ \A k \in Handlers \ {h} : handler'[k] = handler[k]
    BY Zenon, <1>1 DEF Connected
  <2> QED BY ZenonT(30), <1>1, <1>3, <2>1 DEF Busy
<1>5. ASSUME NEW e \in b, NEW k \in Busy PROVE e \notin handler[k].batch
  <2>1. k \in Handlers /\ handler[k].open
    BY Zenon DEF BillingInv, Charged, Busy
  <2>2. PICK u \in Tasks : serving[u] = k /\ handler[k].batch = Elements(batch[u])
    BY <1>1, <2>1 DEF Connected
  <2> QED BY Zenon, <1>1, <1>5, <2>1, <2>2, BatchesApart DEF b
<1>6. \A e \in b : settled[e] = 1 <=> e \in rows
  BY Zenon, <1>2, <1>5 DEF BillingInv, Charged
<1>7. \A e \in q.batch : Right(q, e, settled'[e], e \in rows')
  BY Zenon, <1>1, <1>3, <1>6 DEF Right
<1>8. \A u \in Tasks : serving'[u] # Broken
  BY Zenon, <1>1 DEF BillingInv, Charged, Connected
<1>9. \A k \in Busy : handler'[k] = handler[k]
  BY Zenon, <1>4 DEF Busy
<1>10. \A k \in Busy : /\ handler'[k].open /\ handler'[k].accepted \subseteq handler'[k].batch
                       /\ \A e \in handler'[k].batch :
                            Right(handler'[k], e, settled'[e], e \in rows')
  BY Zenon, <1>1, <1>9 DEF BillingInv, Charged
<1>11. \A e \in Events : (\A k \in Busy' : e \notin handler'[k].batch) =>
                           (settled'[e] = 1 <=> e \in rows')
  BY Zenon, <1>1, <1>4, <1>9 DEF BillingInv, Charged
<1>12. settled' \in [Events -> {0, 1}] /\ rows' \subseteq Events
  BY Zenon, <1>1 DEF BillingInv, Charged
<1>13. Charged'
  BY Zenon, <1>3, <1>4, <1>7, <1>8, <1>10, <1>11, <1>12 DEF Charged
<1> QED BY Zenon, <1>1, <1>2, <1>13 DEF B!vars

\* A response leaves with its events charged, or hands them back.
LEMMA RespondCharges ==
  ASSUME BillingInv, NEW t \in Tasks, NEW h \in Handlers, Respond(t, h)
  PROVE  Charged' /\ [B!Next]_(B!vars)
<1>1. /\ QueueInv /\ Connected /\ serving[t] = h /\ handler[h].pc \in {"ok", "error"}
      /\ serving' = [serving EXCEPT ![t] = None] /\ None # Broken
      /\ handler' = [handler EXCEPT ![h] = I!IdleHandler]
      /\ UNCHANGED <<rows, settled>>
  BY Zenon, PipelineAssumption DEF BillingInv, PipelineInv, Respond, I!Close
<1>2. /\ handler[h].batch = Elements(batch[t]) /\ h \in Busy
      /\ handler[h].batch \in SUBSET Events
  <2>1. handler[h] \in I!Handler /\ handler[h].batch = Elements(batch[t])
    BY Zenon, <1>1 DEF Connected
  <2> QED BY Zenon, <1>1, <2>1 DEF I!Handler, Busy
<1>3. \A e \in handler[h].batch :
        (settled[e] = 1 <=> e \in rows) /\ (handler[h].pc = "ok" => settled[e] = 1)
  <2>1. \A e \in handler[h].batch : Right(handler[h], e, settled[e], e \in rows)
    BY Zenon, <1>2 DEF BillingInv, Charged
  <2> QED BY Zenon, <1>1, <2>1 DEF Right
<1>4. /\ handler'[h] = I!IdleHandler /\ \A k \in Handlers \ {h} : handler'[k] = handler[k]
      /\ Busy' = Busy \ {h}
  <2>1. handler'[h] = I!IdleHandler /\ \A k \in Handlers \ {h} : handler'[k] = handler[k]
    BY Zenon, <1>1 DEF Connected
  <2> QED BY Zenon, <2>1, IdleIs DEF Busy
<1>5. \A k \in Busy' : handler'[k] = handler[k] /\ k \in Busy
  BY Zenon, <1>4 DEF Busy
<1>6. \A k \in Busy' : /\ handler'[k].open /\ handler'[k].accepted \subseteq handler'[k].batch
                       /\ \A e \in handler'[k].batch :
                            Right(handler'[k], e, settled'[e], e \in rows')
  BY Zenon, <1>1, <1>5 DEF BillingInv, Charged
<1>7. \A e \in Events : (\A k \in Busy' : e \notin handler'[k].batch) =>
                          (settled'[e] = 1 <=> e \in rows')
  BY ZenonT(30), <1>1, <1>3, <1>4, <1>5 DEF BillingInv, Charged
<1>8. \A u \in Tasks : serving'[u] # Broken
  BY Zenon, <1>1 DEF BillingInv, Charged, Connected
<1>9. Charged'
  BY Zenon, <1>1, <1>6, <1>7, <1>8 DEF BillingInv, Charged
<1>10. CASE handler[h].pc = "ok" /\ Acknowledged(t)
  <2>1. Elements(delivered') = Elements(delivered) \cup handler[h].batch
    BY Zenon, <1>1, <1>2, <1>10, RoundMoves
  <2>2. B!Confirm(handler[h].batch)
    BY Zenon, <1>1, <1>3, <1>10, <2>1 DEF B!Confirm
  <2> QED BY Zenon, <1>2, <1>9, <2>2 DEF B!Next
<1>11. CASE SubmitFailed(t)
  <2>1. delivered' = delivered
    BY Zenon, <1>11 DEF SubmitFailed
  <2> QED BY Zenon, <1>1, <1>9, <2>1 DEF B!vars
<1> QED BY Zenon, <1>10, <1>11 DEF Respond

\* Nothing is charged in the queue.
LEMMA LocalCharges ==
  ASSUME BillingInv, Local
  PROVE  Charged' /\ UNCHANGED B!vars
<1>1. QueueInv /\ UNCHANGED <<handler, rows, settled, serving>>
  BY Zenon DEF BillingInv, PipelineInv, Local, ingest_vars
<1>2. Charged'
  BY Zenon, <1>1 DEF BillingInv, Charged, Busy
<1>3. Elements(delivered') = Elements(delivered)
  <2>1. ASSUME NEW e \in Events, ReportEvent(e) PROVE delivered' = delivered
    BY Zenon, <2>1 DEF ReportEvent
  <2>2. ASSUME NEW t \in Tasks, TaskStep(t) PROVE Elements(delivered') = Elements(delivered)
    <3>1. task[t] # "in_flight"
      BY Zenon, <2>2 DEF TaskStep, Start, FlushElapsed, RetryElapsed
    <3>2. Elements(batch[t]) = {}
      BY Zenon, <1>1, <3>1, BatchesApart
    <3> QED BY Zenon, <1>1, <2>2, <3>2, RoundMoves
  <2> QED BY Zenon, <2>1, <2>2 DEF Local
<1> QED BY Zenon, <1>1, <1>2, <1>3 DEF B!vars

\* Every step keeps the billing invariant and is a step of Billing, or none.
LEMMA BillingNext ==
  ASSUME OnlyStoresFail, BillingInv, [PipelineNext]_all_vars
  PROVE  BillingInv' /\ [B!Next]_(B!vars)
<1>1. PipelineInv'
  BY Zenon, PipelineNext_Inv DEF BillingInv
<1>2. CASE UNCHANGED all_vars
  <2>1. UNCHANGED <<delivered, handler, rows, settled, serving>>
    BY Zenon, <1>2 DEF all_vars, queue_vars, ingest_vars
  <2>2. Charged' /\ UNCHANGED B!vars
    BY Zenon, <2>1 DEF BillingInv, Charged, Busy, B!vars
  <2> QED BY Zenon, <1>1, <2>2 DEF BillingInv
<1>3. ~(\E t \in Tasks : Unreachable(t))
  BY Zenon DEF OnlyStoresFail, Unreachable, BillingInv, Charged
<1>4. ~(\E t \in Tasks, h \in Handlers : TimeOut(t, h))
  BY Zenon DEF OnlyStoresFail, TimeOut, I!Abandon
<1>5. ~Restart /\ ~(\E old \in SUBSET rows : Cleanup(old))
  BY Zenon DEF OnlyStoresFail, Restart, Cleanup, I!Restart, I!Cleanup
<1>6. CASE PipelineNext
  <2>1. Charged' /\ [B!Next]_(B!vars)
    BY Zenon, <1>3, <1>4, <1>5, <1>6, LocalCharges, ArriveCharges, RespondCharges, ServeCharges
       DEF PipelineNext
  <2> QED BY Zenon, <1>1, <2>1 DEF BillingInv
<1> QED BY Zenon, <1>2, <1>6

\* Nothing is charged at first.
LEMMA BillingInit == PipelineInit => BillingInv /\ B!Init
<1> SUFFICES ASSUME PipelineInit PROVE BillingInv /\ B!Init
  BY Zenon
<1>1. PipelineInv /\ I!Init /\ Elements(<<>>) = {} /\ None # Broken
  BY PipelineInit_Inv, PipelineAssumption DEF Elements
<1>2. Busy = {}
  BY Zenon, <1>1, IdleIs DEF I!Init, Busy
<1>3. Charged
  <2>1. /\ settled = [e \in Events |-> 0] /\ rows = {}
        /\ serving = [t \in Tasks |-> None]
    BY Zenon, <1>1 DEF I!Init, PipelineInit
  <2> QED BY <1>1, <1>2, <2>1 DEF Charged
<1>4. B!Init
  BY Zenon, <1>1 DEF I!Init, B!Init, PipelineInit, QueueInit
<1> QED BY Zenon, <1>1, <1>3, <1>4 DEF BillingInv

\* While every response arrives and no handler is cut off, usage reporting keeps
\* the promise of Billing, for any number of events, tasks and handlers: every
\* request is charged once, and forgotten by the gateway only after that.
THEOREM PipelineImplementsBilling ==
  ASSUME OnlyStoresFail
  PROVE  PipelineSpec => ImplementsBilling
<1>1. BillingInv /\ [PipelineNext]_all_vars => BillingInv' /\ [B!Next]_(B!vars)
  BY Zenon, BillingNext
<1> QED BY <1>1, BillingInit, PTL DEF PipelineSpec, ImplementsBilling, B!Spec

-----------------------------------------------------------------------------
(***************************************************************************)
(* What is proved of the ingest protocol holds of the pipeline             *)
(***************************************************************************)

\* The theorems of the ingest protocol, with the queue as its gateway.
P == INSTANCE UsageIngestProofs WITH queued <- AtGateway, acked <- Elements(delivered)

\* They are about the protocol that the pipeline implements.
LEMMA SameProtocol == (I!Init <=> P!Init) /\ (I!Next <=> P!Next)
<1>1. I!Init <=> P!Init
  BY Zenon DEF I!Init, P!Init, I!IdleHandler, P!IdleHandler
<1>2. \A e : I!Report(e) <=> P!Report(e)
  BY Zenon DEF I!Report, P!Report, I!InOpenRequests, P!InOpenRequests
<1>3. \A h, events : I!Submit(h, events) <=> P!Submit(h, events)
  BY Zenon DEF I!Submit, P!Submit, I!Open, P!Open
<1>4. \A h : I!ReceiveOk(h) <=> P!ReceiveOk(h)
  BY Zenon DEF I!ReceiveOk, P!ReceiveOk, I!Close, P!Close, I!IdleHandler, P!IdleHandler
<1>5. \A h : I!ReceiveError(h) <=> P!ReceiveError(h)
  BY Zenon DEF I!ReceiveError, P!ReceiveError, I!Close, P!Close, I!IdleHandler,
         P!IdleHandler
<1>6. \A h : I!GiveUp(h) <=> P!GiveUp(h)
  BY Zenon DEF I!GiveUp, P!GiveUp, I!Abandon, P!Abandon, I!IdleHandler, P!IdleHandler
<1>7. \A h : I!Record(h) <=> P!Record(h)
  BY Zenon DEF I!Record, P!Record, I!Move, P!Move
<1>8. \A h : I!RecordFailed(h) <=> P!RecordFailed(h)
  BY Zenon DEF I!RecordFailed, P!RecordFailed, I!Move, P!Move
<1>9. \A h : I!Settle(h) <=> P!Settle(h)
  BY Zenon DEF I!Settle, P!Settle, I!Move, P!Move
<1>10. \A h : I!SettleFailed(h) <=> P!SettleFailed(h)
  BY Zenon DEF I!SettleFailed, P!SettleFailed, I!Move, P!Move
<1>11. \A h : I!Discard(h) <=> P!Discard(h)
  BY Zenon DEF I!Discard, P!Discard, I!Move, P!Move
<1>12. \A h : I!DiscardFailed(h) <=> P!DiscardFailed(h)
  BY Zenon DEF I!DiscardFailed, P!DiscardFailed, I!Move, P!Move, I!Unsettled, P!Unsettled
<1>13. \A h : I!Apply(h) <=> P!Apply(h)
  BY Zenon DEF I!Apply, P!Apply, I!Move, P!Move
<1>14. \A h : I!ApplyFailed(h) <=> P!ApplyFailed(h)
  BY Zenon DEF I!ApplyFailed, P!ApplyFailed, I!Move, P!Move
<1>15. \A h : I!Unheard(h) <=> P!Unheard(h)
  BY Zenon DEF I!Unheard, P!Unheard, I!IdleHandler, P!IdleHandler, I!Unsettled,
         P!Unsettled
<1>16. \A h : I!Dropped(h) <=> P!Dropped(h)
  BY Zenon DEF I!Dropped, P!Dropped, I!IdleHandler, P!IdleHandler, I!Unsettled,
         P!Unsettled
<1>17. I!Restart <=> P!Restart
  BY Zenon DEF I!Restart, P!Restart, I!IdleHandler, P!IdleHandler, I!Unsettled,
         P!Unsettled, I!InOpenRequests, P!InOpenRequests
<1>18. \A old : I!Cleanup(old) <=> P!Cleanup(old)
  BY Zenon DEF I!Cleanup, P!Cleanup
<1>19. \A h : I!Serve(h) <=> P!Serve(h)
  BY Zenon, <1>7, <1>8, <1>9, <1>10, <1>11, <1>12, <1>13, <1>14, <1>15, <1>16
  DEF I!Serve, P!Serve
<1> QED BY Zenon, <1>1, <1>2, <1>3, <1>4, <1>5, <1>6, <1>17, <1>18, <1>19
        DEF I!Next, P!Next, I!Around, P!Around

\* From the report to the charge: no retry of the queue, lost response, failed
\* statement, dropped handler or restart charges an event again while its row is
\* there; and a row that is not charged has a handler that will charge or remove
\* it, unless that handler was cut off.
THEOREM PipelineChargesOnce ==
  ASSUME IsFiniteSet(Handlers), Faults \subseteq I!AllFaults, MaxCleanups \in Nat
  PROVE  PipelineSpec => [](I!SettledOncePerRow /\ I!RowSettledOrOwned)
<1>1. IsFiniteSet(Handlers) /\ Faults \subseteq P!AllFaults /\ MaxCleanups \in Nat
  BY Zenon DEF I!AllFaults, P!AllFaults
<1>2. P!Spec => []P!SettledOncePerRow
  BY <1>1, P!SettledOnce, PTL DEF P!IsFiniteSet, IsFiniteSet
<1>3. P!Spec => []P!RowSettledOrOwned
  BY <1>1, P!RowsAreOwned, PTL DEF P!IsFiniteSet, IsFiniteSet
<1>4. /\ P!SettledOncePerRow <=> I!SettledOncePerRow
      /\ P!RowSettledOrOwned <=> I!RowSettledOrOwned
  BY Zenon DEF P!SettledOncePerRow, I!SettledOncePerRow, P!RowSettledOrOwned,
         I!RowSettledOrOwned, P!Unsettled, I!Unsettled, P!Owners, I!Owners
<1>5. I!Init => P!Init
  BY Zenon, SameProtocol
<1>6. [I!Next]_(I!vars) => [P!Next]_(P!vars)
  BY Zenon, SameProtocol DEF I!vars, P!vars
<1> QED BY <1>2, <1>3, <1>4, <1>5, <1>6, PipelineImplementsIngest, PTL
        DEF ImplementsIngest, I!Spec, P!Spec

\* An event whose report the queue has seen acknowledged was charged, or will be,
\* unless a settlement failed or a handler was cut off in between: none of the
\* queue's retries and timeouts, a failed insert or quota write, or log cleanup
\* loses a charge.
THEOREM PipelineLosesNothing ==
  ASSUME IsFiniteSet(Handlers), Faults \subseteq I!AllFaults, MaxCleanups \in Nat,
         "settle" \notin Faults
  PROVE  PipelineSpec => []I!AckedAccounted
<1>1. IsFiniteSet(Handlers) /\ Faults \subseteq P!AllFaults /\ MaxCleanups \in Nat
  BY Zenon DEF I!AllFaults, P!AllFaults
<1>2. P!Spec => []P!AckedAccounted
  BY <1>1, P!AckedIsAccounted, PTL DEF P!IsFiniteSet, IsFiniteSet
<1>3. P!AckedAccounted <=> I!AckedAccounted
  BY Zenon DEF P!AckedAccounted, I!AckedAccounted, P!Unsettled, I!Unsettled
<1>4. I!Init => P!Init
  BY Zenon, SameProtocol
<1>5. [I!Next]_(I!vars) => [P!Next]_(P!vars)
  BY Zenon, SameProtocol DEF I!vars, P!vars
<1> QED BY <1>2, <1>3, <1>4, <1>5, PipelineImplementsIngest, PTL
        DEF ImplementsIngest, I!Spec, P!Spec

=============================================================================
