--------------------------- MODULE UsagePipeline ---------------------------
(***************************************************************************)
(* Usage reporting from end to end: the gateway's report queue             *)
(* (ReportQueue) sends its batches to the control plane's handlers         *)
(* (UsageIngest).  A request takes time to arrive, so a task may be in     *)
(* flight with no handler working for it yet; and a handler may go on      *)
(* after its task has given up and put the batch back into the queue.      *)
(***************************************************************************)
EXTENDS ReportQueue

CONSTANTS
  Handlers,    \* as in UsageIngest
  Faults,
  MaxCleanups,
  None,        \* no handler has a task's request
  Broken       \* the handler of a task's request went down with control-api

ASSUME PipelineAssumption ==
  None \notin Handlers /\ Broken \notin Handlers /\ None # Broken

VARIABLES
  handler, rows, settled, orphaned, cleaned, \* as in UsageIngest
  serving                                    \* the handler that works for a task

ingest_vars == <<handler, rows, settled, orphaned, cleaned>>
all_vars == <<queue_vars, ingest_vars, serving>>

\* The events that are due at the control plane and not with a handler.
AtGateway ==
  Elements(pending) \cup
    UNION {Elements(batch[t]) : t \in {u \in Tasks : serving[u] \notin Handlers}}

I == INSTANCE UsageIngest WITH queued <- AtGateway, acked <- Elements(delivered)

PipelineInit ==
  /\ QueueInit
  /\ serving = [t \in Tasks |-> None]
  /\ I!Init

\* The gateway's own steps: a request reports, a timer elapses.
Local ==
  /\ \/ \E e \in Events : ReportEvent(e)
     \/ \E t \in Tasks : TaskStep(t)
  /\ UNCHANGED <<ingest_vars, serving>>

\* The request of a task reaches the control plane.
Arrive(t, h) ==
  /\ task[t] = "in_flight"
  /\ serving[t] = None
  /\ I!Open(h, Elements(batch[t]))
  /\ serving' = [serving EXCEPT ![t] = h]
  /\ UNCHANGED <<queue_vars, rows, settled, orphaned, cleaned>>

\* The request does not get there, or its connection breaks.
Unreachable(t) ==
  /\ \/ serving[t] = None /\ "lost" \in Faults
     \/ serving[t] = Broken
  /\ SubmitFailed(t)
  /\ serving' = [serving EXCEPT ![t] = None]
  /\ UNCHANGED ingest_vars

Respond(t, h) ==
  /\ serving[t] = h
  /\ \/ handler[h].pc = "ok" /\ Acknowledged(t)
     \/ handler[h].pc = "error" /\ SubmitFailed(t)
  /\ I!Close(h)
  /\ serving' = [serving EXCEPT ![t] = None]
  /\ UNCHANGED <<rows, settled, orphaned, cleaned>>

\* The task's timeout elapses while its handler works.
TimeOut(t, h) ==
  /\ serving[t] = h
  /\ SubmitFailed(t)
  /\ I!Abandon(h)
  /\ serving' = [serving EXCEPT ![t] = None]
  /\ UNCHANGED <<rows, settled, orphaned, cleaned>>

\* The control plane's steps.
Serve(h) ==
  /\ UNCHANGED <<queue_vars, serving>>
  /\ I!Serve(h)

Cleanup(old) ==
  /\ UNCHANGED <<queue_vars, serving>>
  /\ I!Cleanup(old)

\* control-api stops and starts again; its requests fail one by one.
Restart ==
  /\ serving' = [t \in Tasks |-> IF serving[t] \in Handlers THEN Broken ELSE serving[t]]
  /\ UNCHANGED queue_vars
  /\ I!Restart

PipelineNext ==
  \/ Local
  \/ \E t \in Tasks : Unreachable(t)
  \/ \E t \in Tasks, h \in Handlers : Arrive(t, h) \/ Respond(t, h) \/ TimeOut(t, h)
  \/ \E h \in Handlers : Serve(h)
  \/ \E old \in SUBSET rows : Cleanup(old)
  \/ Restart

PipelineSpec == PipelineInit /\ [][PipelineNext]_all_vars

(***************************************************************************)
(* Fairness: the runtimes run what is ready,                               *)
(* requests arrive, and a control plane that is sent the same event again  *)
(* and again records it and answers within the gateway's timeout in the    *)
(* end.  Without the last one an event whose requests always time out      *)
(* keeps the ones behind it in the queue from being sent.                  *)
(***************************************************************************)
ArriveWith(e) == \E t \in Tasks, h \in Handlers : e \in Elements(batch[t]) /\ Arrive(t, h)
RecordWith(e) ==
  \E h \in Handlers :
    /\ e \in handler[h].batch
    /\ handler[h].open
    /\ UNCHANGED <<queue_vars, serving>>
    /\ I!Record(h)
SettleWith(e) ==
  \E h \in Handlers :
    e \in handler[h].accepted /\ UNCHANGED <<queue_vars, serving>> /\ I!Settle(h)
AckWith(e) ==
  \E t \in Tasks, h \in Handlers :
    e \in Elements(batch[t]) /\ handler[h].pc = "ok" /\ Respond(t, h)

PipelineFairness ==
  /\ \A t \in Tasks :
       WF_all_vars(TaskStep(t) /\ UNCHANGED <<ingest_vars, serving>>)
  /\ \A t \in Tasks : \A h \in Handlers : WF_all_vars(Respond(t, h))
  /\ \A h \in Handlers : WF_all_vars(Serve(h))
  /\ \A e \in Events : /\ SF_all_vars(ArriveWith(e))
                       /\ SF_all_vars(RecordWith(e))
                       /\ SF_all_vars(SettleWith(e))
                       /\ SF_all_vars(AckWith(e))

FairPipeline == PipelineSpec /\ PipelineFairness

-----------------------------------------------------------------------------
(***************************************************************************)
(* Properties                                                              *)
(***************************************************************************)

\* The report queue is a gateway as UsageIngest assumes it: whatever its tasks
\* do, an event is with one request or queued, and a failed request puts its
\* events back.
ImplementsIngest == I!Spec

B == INSTANCE Billing WITH charges <- settled, confirmed <- Elements(delivered)

\* While no response is lost and no handler cut off, usage reporting keeps the
\* promise of Billing: every request is charged once, and the gateway forgets
\* it only after that, however often the stores fail.
ImplementsBilling == B!Spec

\* Every request that reported its usage is charged in the end, and its report is
\* acknowledged, so that the gateway stops sending it; also when requests to the
\* control plane are lost and its answers come too late.
EventuallyCharged ==
  \A e \in Events :
    (e \in Elements(reported)) ~> (settled[e] = 1 /\ e \in Elements(delivered))

=============================================================================
