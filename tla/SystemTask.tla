----------------------------- MODULE SystemTask -----------------------------
(***************************************************************************)
(* System tasks of the control API, for one type of task: the store with   *)
(* its memory copy and its table (SqliteSystemTaskStore; PostgreSQL's is   *)
(* the same, MySQL's upsert resolves conflicts of every key and is not     *)
(* modelled), the handlers and schedulers that start tasks, and the        *)
(* runners they spawn.                                                     *)
(*                                                                         *)
(* An operation changes the memory copy under a lock and then, without it, *)
(* upserts the record it has cloned: upserts of several handlers may land  *)
(* in another order than the memory changes they come from.  The table has *)
(* a unique active_key, which is set exactly while a task is pending or    *)
(* running.  A restart loads the memory copy from the table.               *)
(***************************************************************************)
EXTENDS Naturals, FiniteSets

CONSTANTS
  TaskSlots,    \* task ids, 1..n; a bound on the tasks that are created
  Starters,     \* handlers and schedulers that start tasks
  Runners,      \* runners; an id is used again only once its runner has ended
  TaskTypes,    \* log_cleanup, whose start always persists, or channel_test
  NoRunner,     \* an empty locked_by
  MaxProgress,  \* bound on the progress updates of a task
  Unreliable    \* whether the database may fail and the process restart

ASSUME SystemTaskAssumption ==
  /\ TaskSlots \subseteq Nat /\ MaxProgress \in Nat /\ Unreliable \in BOOLEAN
  /\ TaskTypes \subseteq {"log_cleanup", "channel_test"}
  /\ NoRunner \notin Runners

VARIABLES
  task_type, \* the type of the tasks, fixed
  tasks,     \* MemorySystemTaskStore
  rows,      \* the table
  starter,   \* what each starter is doing
  runner     \* what each runner is doing

task_vars == <<task_type, tasks, rows, starter, runner>>

Statuses == {"absent", "pending", "running", "succeeded", "failed"}
TaskRecord == [status : Statuses, locked_by : Runners \cup {NoRunner}, progress : 0..MaxProgress]
Absent == [status |-> "absent", locked_by |-> NoRunner, progress |-> 0]

\* Where an operation goes on after its upsert: the record it persists, and the
\* step that follows when that succeeds.
StarterState ==
  [pc : {"idle", "persist"}, task : TaskSlots \cup {0}, record : TaskRecord]
RunnerState ==
  [pc : {"unused", "claim", "claimed", "run", "updated", "fail", "ended"},
   task : TaskSlots \cup {0}, record : TaskRecord]

IdleStarter == [pc |-> "idle", task |-> 0, record |-> Absent]
UnusedRunner == [pc |-> "unused", task |-> 0, record |-> Absent]

TaskTypeOK ==
  /\ task_type \in TaskTypes
  /\ tasks \in [TaskSlots -> TaskRecord]
  /\ rows \in [TaskSlots -> TaskRecord]
  /\ starter \in [Starters -> StarterState]
  /\ runner \in [Runners -> RunnerState]

TaskInit ==
  /\ task_type \in TaskTypes
  /\ tasks = [t \in TaskSlots |-> Absent]
  /\ rows = [t \in TaskSlots |-> Absent]
  /\ starter = [s \in Starters |-> IdleStarter]
  /\ runner = [r \in Runners |-> UnusedRunner]

-----------------------------------------------------------------------------
(***************************************************************************)
(* The store                                                               *)
(***************************************************************************)

IsActive(record) == record.status \in {"pending", "running"}
IsFinished(record) == record.status \in {"succeeded", "failed"}
Active(store) == {t \in TaskSlots : IsActive(store[t])}

\* The unique active_key of the table.
KeyIsFree(t, record) ==
  IsActive(record) => \A u \in TaskSlots \ {t} : ~IsActive(rows[u])

\* persist_task succeeds, or fails.
Persists(t, record) ==
  /\ KeyIsFree(t, record)
  /\ rows' = [rows EXCEPT ![t] = record]

PersistFails(t, record) ==
  /\ Unreliable \/ ~KeyIsFree(t, record)
  /\ UNCHANGED rows

\* The id of a new task: one more than the largest.
IsNextTask(t) ==
  LET Created == {u \in TaskSlots : tasks[u].status # "absent"} IN
  /\ \A u \in Created : u < t
  /\ t = 1 \/ t - 1 \in Created

-----------------------------------------------------------------------------
(***************************************************************************)
(* Starting a task                                                         *)
(***************************************************************************)

Unused == {r \in Runners : runner[r].pc = "unused"}

\* The caller of a start spawns a runner for the task it got.
Spawn(t) ==
  /\ Unused # {}
  /\ runner' = [runner EXCEPT ![CHOOSE r \in Unused : TRUE] =
                  [pc |-> "claim", task |-> t, record |-> Absent]]

\* A bound: a start begins when there is a runner for it to spawn.
SomeRunnerUnused ==
  Cardinality(Unused) > Cardinality({s \in Starters : starter[s].pc = "persist"})

\* EnqueueSystemTaskRequest when no task is active.
Enqueue(s) ==
  /\ starter[s].pc = "idle" /\ SomeRunnerUnused
  /\ Active(tasks) = {}
  /\ \E t \in TaskSlots :
       LET record == [Absent EXCEPT !.status = "pending"] IN
       /\ IsNextTask(t)
       /\ tasks' = [tasks EXCEPT ![t] = record]
       /\ starter' = [starter EXCEPT ![s] = [pc |-> "persist", task |-> t, record |-> record]]
  /\ UNCHANGED <<task_type, rows, runner>>

\* StartLogCleanupTaskRequest finds an active task: it persists its clone too.
JoinCleanup(s) ==
  /\ task_type = "log_cleanup"
  /\ starter[s].pc = "idle" /\ SomeRunnerUnused
  /\ \E t \in Active(tasks) :
       starter' = [starter EXCEPT ![s] = [pc |-> "persist", task |-> t, record |-> tasks[t]]]
  /\ UNCHANGED <<task_type, tasks, rows, runner>>

\* enqueue_channel_test_task finds a pending task, and runs it.
JoinPending(s) ==
  /\ task_type = "channel_test"
  /\ starter[s].pc = "idle" /\ SomeRunnerUnused
  /\ \E t \in Active(tasks) : tasks[t].status = "pending" /\ Spawn(t)
  /\ UNCHANGED <<task_type, tasks, rows, starter>>

\* Variant of Started: a start that created the task leaves it to the next one.
StartedUnspawned(s) ==
  /\ starter[s].pc = "persist"
  /\ Persists(starter[s].task, starter[s].record)
  /\ starter' = [starter EXCEPT ![s] = IdleStarter]
  /\ UNCHANGED <<task_type, tasks, runner>>

Started(s) ==
  /\ starter[s].pc = "persist"
  /\ Persists(starter[s].task, starter[s].record)
  /\ Spawn(starter[s].task)
  /\ starter' = [starter EXCEPT ![s] = IdleStarter]
  /\ UNCHANGED <<task_type, tasks>>

\* The error goes to the caller, and no runner is spawned.
StartFails(s) ==
  /\ starter[s].pc = "persist"
  /\ PersistFails(starter[s].task, starter[s].record)
  /\ starter' = [starter EXCEPT ![s] = IdleStarter]
  /\ UNCHANGED <<task_type, tasks, runner>>

\* The client of the handler is gone: its future is dropped at the upsert,
\* which has landed or not, and no runner is spawned.
StartDropped(s) ==
  /\ Unreliable
  /\ starter[s].pc = "persist"
  /\ Persists(starter[s].task, starter[s].record) \/ UNCHANGED rows
  /\ starter' = [starter EXCEPT ![s] = IdleStarter]
  /\ UNCHANGED <<task_type, tasks, runner>>

-----------------------------------------------------------------------------
(***************************************************************************)
(* A runner                                                                *)
(***************************************************************************)

Go(r, pc, record) ==
  runner' = [runner EXCEPT ![r] = [@ EXCEPT !.pc = pc, !.record = record]]

RunnerEnds(r) == runner' = [runner EXCEPT ![r] = UnusedRunner]

\* Variant of Claim: a task that is running already is claimed again.
ClaimActive(r) ==
  LET t == runner[r].task
      record == [tasks[t] EXCEPT !.status = "running", !.locked_by = r]
  IN
  /\ runner[r].pc = "claim"
  /\ \/ /\ IsActive(tasks[t])
        /\ tasks' = [tasks EXCEPT ![t] = record]
        /\ Go(r, "claimed", record)
     \/ /\ ~IsActive(tasks[t])
        /\ RunnerEnds(r)
        /\ UNCHANGED tasks
  /\ UNCHANGED <<task_type, rows, starter>>

Claim(r) ==
  LET t == runner[r].task
      record == [tasks[t] EXCEPT !.status = "running", !.locked_by = r]
  IN
  /\ runner[r].pc = "claim"
  /\ \/ /\ tasks[t].status = "pending"
        /\ tasks' = [tasks EXCEPT ![t] = record]
        /\ Go(r, "claimed", record)
     \/ /\ tasks[t].status # "pending"
        /\ RunnerEnds(r)
        /\ UNCHANGED tasks
  /\ UNCHANGED <<task_type, rows, starter>>

\* running_task_mut
Holds(r) ==
  LET t == runner[r].task IN tasks[t].status = "running" /\ tasks[t].locked_by = r

\* update_state: the record is replaced while the runner holds the task.
UpdateState(r) ==
  LET t == runner[r].task
      record == [tasks[t] EXCEPT !.progress = @ + 1]
  IN
  /\ runner[r].pc = "run"
  /\ tasks[t].progress < MaxProgress
  /\ Holds(r)
  /\ tasks' = [tasks EXCEPT ![t] = record]
  /\ Go(r, "updated", record)
  /\ UNCHANGED <<task_type, rows, starter>>

\* The work of the task fails: run_claimed returns the error.
WorkFails(r) ==
  /\ runner[r].pc = "run"
  /\ Go(r, "fail", Absent)
  /\ UNCHANGED <<task_type, tasks, rows, starter>>

\* Variant of FinishTask: the table is written before the memory copy.
FinishRowFirst(r) ==
  LET t == runner[r].task
      status == IF runner[r].pc = "fail" THEN "failed" ELSE "succeeded"
      record == [tasks[t] EXCEPT !.status = status]
  IN
  /\ \/ /\ runner[r].pc = "run"
        /\ tasks[t].progress = MaxProgress \/ task_type = "channel_test"
     \/ runner[r].pc = "fail"
  /\ \/ Holds(r) /\ Persists(t, record) /\ Go(r, "ended", record)
     \/ ~Holds(r) /\ RunnerEnds(r) /\ UNCHANGED rows
  /\ UNCHANGED <<task_type, tasks, starter>>

\* FinishSystemTaskRequest, and finish_failed.  A cleanup reports its progress
\* before it ends; a channel test leaves out reports that come too soon.
FinishTask(r) ==
  LET t == runner[r].task
      status == IF runner[r].pc = "fail" THEN "failed" ELSE "succeeded"
      record == [tasks[t] EXCEPT !.status = status]
  IN
  /\ \/ /\ runner[r].pc = "run"
        /\ tasks[t].progress = MaxProgress \/ task_type = "channel_test"
     \/ runner[r].pc = "fail"
  /\ \/ Holds(r) /\ tasks' = [tasks EXCEPT ![t] = record] /\ Go(r, "ended", record)
     \/ ~Holds(r) /\ RunnerEnds(r) /\ UNCHANGED tasks
  /\ UNCHANGED <<task_type, rows, starter>>

\* The upsert after a claim, an update or the end.
Persisted(r) ==
  /\ runner[r].pc \in {"claimed", "updated", "ended"}
  /\ Persists(runner[r].task, runner[r].record)
  /\ (IF runner[r].pc = "ended" THEN RunnerEnds(r) ELSE Go(r, "run", Absent))
  /\ UNCHANGED <<task_type, tasks, starter>>

\* It fails: a claim is given up, with the task running in memory; after an
\* update, or an end, finish_failed is tried.
NotPersisted(r) ==
  /\ runner[r].pc \in {"claimed", "updated", "ended"}
  /\ PersistFails(runner[r].task, runner[r].record)
  /\ (IF runner[r].pc = "claimed" THEN RunnerEnds(r) ELSE Go(r, "fail", Absent))
  /\ UNCHANGED <<task_type, tasks, starter>>

\* The process restarts: load_system_tasks, and nothing resumes.
RestartTasks ==
  /\ Unreliable
  /\ tasks' = rows
  /\ starter' = [s \in Starters |-> IdleStarter]
  /\ runner' = [r \in Runners |-> UnusedRunner]
  /\ UNCHANGED <<task_type, rows>>

-----------------------------------------------------------------------------
StarterStep(s) == Started(s) \/ StartFails(s)
RunnerStep(r) ==
  \/ Claim(r) \/ UpdateState(r) \/ WorkFails(r) \/ FinishTask(r)
  \/ Persisted(r) \/ NotPersisted(r)

TaskNext ==
  \/ \E s \in Starters : Enqueue(s) \/ JoinCleanup(s) \/ JoinPending(s)
                       \/ StarterStep(s) \/ StartDropped(s)
  \/ \E r \in Runners : RunnerStep(r)
  \/ RestartTasks

TaskSpec == TaskInit /\ [][TaskNext]_task_vars

\* Handlers and runners are Tokio tasks: what they have begun goes on.
TaskFairness ==
  /\ \A s \in Starters : WF_task_vars(StarterStep(s))
  /\ \A r \in Runners : WF_task_vars(RunnerStep(r))

-----------------------------------------------------------------------------
(***************************************************************************)
(* Properties                                                              *)
(***************************************************************************)

Working(r) == runner[r].pc \in {"claimed", "run", "updated"}

\* No two tasks of a type are active, in memory or in the table, whatever order
\* the upserts land in and wherever the process restarts.
OneActiveTask ==
  \A t, u \in TaskSlots :
    /\ IsActive(tasks[t]) /\ IsActive(tasks[u]) => t = u
    /\ IsActive(rows[t]) /\ IsActive(rows[u]) => t = u

\* The work of a type is done by one runner at a time, and it holds the task.
OneRunnerWorks ==
  \A r \in Runners : Working(r) =>
    Holds(r) /\ \A q \in Runners \ {r} : ~Working(q)

Rank(record) ==
  IF record.status = "absent" THEN 0
  ELSE IF record.status = "pending" THEN 1
  ELSE IF record.status = "running" THEN 2 ELSE 3

\* The table may lag behind the memory copy, and even go back when upserts land
\* out of order, but never shows a task further than it is: what a restart
\* finds finished was finished.
RowsNeverAhead ==
  \A t \in TaskSlots :
    /\ Rank(rows[t]) <= Rank(tasks[t])
    /\ IsFinished(rows[t]) => rows[t] = tasks[t]

\* How many steps a runner has left at most, by what it does, how far its task is
\* and whether it holds it: it may fail only once while it does.
StepsAt(pc, progress, held) ==
  LET reports == MaxProgress - progress IN
  IF pc = "claim" THEN 6 + 2 * MaxProgress
  ELSE IF pc \in {"claimed", "updated"} THEN 5 + 2 * reports
  ELSE IF pc = "run" THEN 4 + 2 * reports
  ELSE IF pc = "fail" THEN IF held THEN 3 ELSE 1
  ELSE IF pc = "ended" THEN 2 ELSE 0

RunnerSteps(r) == StepsAt(runner[r].pc, tasks[runner[r].task].progress, Holds(r))

\* A runner only ever comes nearer to its end, whatever other runners do to its
\* task and however often the database fails: the end of a task that could not
\* be saved is tried again once, and not for ever.
RunnersAdvance ==
  [][\A r \in Runners : runner[r].pc # "unused" =>
       IF runner'[r] = runner[r] THEN RunnerSteps(r)' <= RunnerSteps(r)
       ELSE RunnerSteps(r)' < RunnerSteps(r)]_task_vars

\* The row of a task that has ended still says that it has not, and no runner is
\* about to correct it: a start that found the task active has upserted its clone
\* of it late.
HasStaleRow(t) ==
  /\ IsFinished(tasks[t]) /\ IsActive(rows[t])
  /\ \A r \in Runners : ~(runner[r].pc = "ended" /\ runner[r].task = t)

\* While the database and the process go on, a task that memory and the table
\* agree is pending, or running, is executed and ends as succeeded or failed in
\* both; only a stale row leaves it active in the table.  Without the row nothing
\* is promised: when a task has ended in memory and not yet in the table,
\* active_key is still its own, and refuses the row of the next start, which
\* stays pending, or of the next claim, which is given up.
TaskEnds ==
  \A t \in TaskSlots :
    (IsActive(tasks[t]) /\ tasks[t].status = rows[t].status) ~>
      (IsFinished(tasks[t]) /\ (IsFinished(rows[t]) \/ HasStaleRow(t)))

=============================================================================
