---------------------------- MODULE ReportQueue ----------------------------
(***************************************************************************)
(* The worker-local report queue of the gateway: LocalReportQueue and the  *)
(* loop run_usage_report_queue that drains it (the channel feedback        *)
(* reporter runs the same loop over the same queue type).                  *)
(*                                                                         *)
(* The runtime is single-threaded: code between two awaits is atomic, so   *)
(* an action here is one segment of the loop, from the await that ends to  *)
(* the next one.  A task waits in one of four places: it was spawned and   *)
(* has not run, it sleeps for the flush interval, its batch is with the    *)
(* control plane, or it sleeps before a retry.                             *)
(***************************************************************************)
EXTENDS Naturals, Sequences, FiniteSets

CONSTANTS
  Events,            \* the events that requests report, each of them once
  Tasks,             \* identities for the tasks monoio::spawn creates
  ReportBatchSize,   \* config report_batch_size
  ReportMaxInFlight, \* config report_max_in_flight
  FlushImmediately   \* config report_flush_interval_ms = 0

ASSUME ReportQueueAssumption ==
  /\ ReportBatchSize \in Nat
  /\ ReportMaxInFlight \in Nat
  /\ FlushImmediately \in BOOLEAN
  /\ IsFiniteSet(Tasks)
  /\ Tasks # {}

AtLeastOne(n) == IF n = 0 THEN 1 ELSE n

\* UsageReporter::from_config raises both settings to at least one.
BatchSize == AtLeastOne(ReportBatchSize)
MaxInFlight == AtLeastOne(ReportMaxInFlight)

VARIABLES
  pending,        \* LocalReportQueue.pending
  active_workers, \* LocalReportQueue.active_workers
  task,           \* where each spawned task waits
  batch,          \* the events a task holds while its request is in flight
  reported,       \* history: the events reported so far, in order
  delivered       \* history: the events of acknowledged batches, in order

queue_vars == <<pending, active_workers, task, batch, reported, delivered>>

TaskPlaces == {"none", "spawned", "flush_wait", "in_flight", "retry_wait"}

Elements(s) == {s[i] : i \in 1..Len(s)}

QueueTypeOK ==
  /\ pending \in Seq(Events)
  /\ active_workers \in Nat
  /\ task \in [Tasks -> TaskPlaces]
  /\ batch \in [Tasks -> Seq(Events)]
  /\ \A t \in Tasks : (batch[t] # <<>>) <=> (task[t] = "in_flight")
  /\ reported \in Seq(Events)
  /\ delivered \in Seq(Events)

QueueInit ==
  /\ pending = <<>>
  /\ active_workers = 0
  /\ task = [t \in Tasks |-> "none"]
  /\ batch = [t \in Tasks |-> <<>>]
  /\ reported = <<>>
  /\ delivered = <<>>

-----------------------------------------------------------------------------
(***************************************************************************)
(* LocalReportQueue                                                        *)
(***************************************************************************)

\* push: a worker is added when there is none, or when the backlog fills the
\* batches of the workers there are and another one is allowed.
ShouldStart(queue) ==
  \/ active_workers = 0
  \/ /\ Len(queue) >= BatchSize * AtLeastOne(active_workers)
     /\ active_workers < MaxInFlight

TakeCount(queue) == IF BatchSize <= Len(queue) THEN BatchSize ELSE Len(queue)

\* take_batch: what it returns and what it leaves.
Taken(queue) == SubSeq(queue, 1, TakeCount(queue))
Left(queue) == SubSeq(queue, TakeCount(queue) + 1, Len(queue))

\* requeue_front
RequeueFront(events, queue) == events \o queue

-----------------------------------------------------------------------------
(***************************************************************************)
(* The reporter and its loop                                               *)
(***************************************************************************)

\* UsageReporter::report: push, and spawn the loop when push says so.
ReportEvent(e) ==
  LET queue == Append(pending, e) IN
  /\ e \notin Elements(reported)
  /\ pending' = queue
  /\ reported' = Append(reported, e)
  /\ \/ /\ ShouldStart(queue)
        /\ active_workers' = active_workers + 1
        /\ \E t \in Tasks : /\ task[t] = "none"
                            /\ task' = [task EXCEPT ![t] = "spawned"]
     \/ /\ ~ShouldStart(queue)
        /\ UNCHANGED <<active_workers, task>>
  /\ UNCHANGED <<batch, delivered>>

\* finish_worker_if_empty returned true and the loop returned.
FinishWorker(t) ==
  /\ pending' = <<>>
  /\ active_workers' = IF active_workers = 0 THEN 0 ELSE active_workers - 1
  /\ task' = [task EXCEPT ![t] = "none"]
  /\ batch' = [batch EXCEPT ![t] = <<>>]

\* take_batch; a batch that is not empty goes to submit_usage_batch, an empty
\* one leads straight to finish_worker_if_empty.
Take(t, queue) ==
  \/ /\ queue = <<>>
     /\ FinishWorker(t)
  \/ /\ queue # <<>>
     /\ pending' = Left(queue)
     /\ batch' = [batch EXCEPT ![t] = Taken(queue)]
     /\ task' = [task EXCEPT ![t] = "in_flight"]
     /\ UNCHANGED active_workers

\* The top of the loop: a partial batch waits for the flush interval.
LoopTop(t, queue) ==
  \/ /\ Len(queue) < BatchSize
     /\ ~FlushImmediately
     /\ task' = [task EXCEPT ![t] = "flush_wait"]
     /\ batch' = [batch EXCEPT ![t] = <<>>]
     /\ pending' = queue
     /\ UNCHANGED active_workers
  \/ /\ Len(queue) >= BatchSize \/ FlushImmediately
     /\ Take(t, queue)

\* The bottom of the loop: finish_worker_if_empty, or another round.
LoopBottom(t, queue) ==
  \/ /\ queue = <<>>
     /\ FinishWorker(t)
  \/ /\ queue # <<>>
     /\ LoopTop(t, queue)

\* The runtime runs a spawned task for the first time.
Start(t) ==
  /\ task[t] = "spawned"
  /\ LoopTop(t, pending)
  /\ UNCHANGED <<reported, delivered>>

FlushElapsed(t) ==
  /\ task[t] = "flush_wait"
  /\ Take(t, pending)
  /\ UNCHANGED <<reported, delivered>>

\* submit_usage_batch returned true.
Acknowledged(t) ==
  /\ task[t] = "in_flight"
  /\ delivered' = delivered \o batch[t]
  /\ LoopBottom(t, pending)
  /\ UNCHANGED reported

\* Variants of SubmitFailed: the batch of a failed request is dropped, or put back
\* by a task that ends instead of backing off.
FailedDropping(t) ==
  /\ task[t] = "in_flight"
  /\ batch' = [batch EXCEPT ![t] = <<>>]
  /\ task' = [task EXCEPT ![t] = "retry_wait"]
  /\ UNCHANGED <<pending, active_workers, reported, delivered>>

FailedEnding(t) ==
  /\ task[t] = "in_flight"
  /\ pending' = RequeueFront(batch[t], pending)
  /\ active_workers' = active_workers - 1
  /\ batch' = [batch EXCEPT ![t] = <<>>]
  /\ task' = [task EXCEPT ![t] = "none"]
  /\ UNCHANGED <<reported, delivered>>

\* submit_usage_batch returned false: the batch goes back to the front and the
\* task backs off for report_retry_delay.
SubmitFailed(t) ==
  /\ task[t] = "in_flight"
  /\ pending' = RequeueFront(batch[t], pending)
  /\ batch' = [batch EXCEPT ![t] = <<>>]
  /\ task' = [task EXCEPT ![t] = "retry_wait"]
  /\ UNCHANGED <<active_workers, reported, delivered>>

RetryElapsed(t) ==
  /\ task[t] = "retry_wait"
  /\ LoopBottom(t, pending)
  /\ UNCHANGED <<reported, delivered>>

TaskStep(t) == Start(t) \/ FlushElapsed(t) \/ RetryElapsed(t)

QueueNext ==
  \/ \E e \in Events : ReportEvent(e)
  \/ \E t \in Tasks : TaskStep(t) \/ Acknowledged(t) \/ SubmitFailed(t)

QueueSpec == QueueInit /\ [][QueueNext]_queue_vars

-----------------------------------------------------------------------------
(***************************************************************************)
(* Properties                                                              *)
(***************************************************************************)

Running == {t \in Tasks : task[t] # "none"}

\* active_workers counts the tasks that run the loop and never exceeds the
\* configured number of concurrent batches, and yet a backlog is never left
\* without a task that will drain it: the last worker leaves only an empty queue,
\* and the first event after that starts a worker.
WorkersSuffice ==
  /\ active_workers = Cardinality(Running)
  /\ active_workers <= MaxInFlight
  /\ pending # <<>> => Running # {}

Distinct(s) == \A i, j \in 1..Len(s) : s[i] = s[j] => i = j

\* Every reported event is in exactly one place: in the queue, in the batch of
\* one task, or delivered.  Capacity never drops it, a failed request puts it
\* back, and no two tasks take it.
EventsConserved ==
  /\ Elements(reported) =
       Elements(pending) \cup Elements(delivered)
         \cup UNION {Elements(batch[t]) : t \in Tasks}
  /\ Distinct(pending) /\ Distinct(delivered)
  /\ \A t \in Tasks : Distinct(batch[t])
  /\ Elements(pending) \cap Elements(delivered) = {}
  /\ \A t \in Tasks :
       Elements(batch[t]) \cap (Elements(pending) \cup Elements(delivered)) = {}
  /\ \A t, u \in Tasks :
       t # u => Elements(batch[t]) \cap Elements(batch[u]) = {}

=============================================================================
