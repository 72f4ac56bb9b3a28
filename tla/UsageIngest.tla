---------------------------- MODULE UsageIngest ----------------------------
(***************************************************************************)
(* The control plane takes in usage reports: the handler gateway_usage,    *)
(* many of which run at once, over a durable usage store and the           *)
(* management store.  A handler records the events whose request id is new *)
(* (record_batch), settles them, and then writes their quotas; when the    *)
(* settlement fails it removes the rows again (discard_unsettled).  The    *)
(* gateway retries every report that is not acknowledged.                  *)
(*                                                                         *)
(* An event is its request id.  A settlement is one atomic step here: the  *)
(* module Settlement shows it.  The gateway is the two sets queued and     *)
(* acked: the module UsagePipeline puts ReportQueue in its place.          *)
(***************************************************************************)
EXTENDS Naturals, FiniteSets

CONSTANTS
  Events,      \* request ids, each reported once by the gateway
  Handlers,    \* identities for the running gateway_usage handlers
  Faults,      \* the faults that may happen, a subset of AllFaults
  MaxCleanups  \* bound on the number of log cleanups

\* record, settle, discard, apply: that call of the handler returns an error.
\* lost: a response does not arrive, or not within the gateway's timeout.
\* dropped: the server drops the handler of a connection that was closed.
\* restart: control-api stops and starts again.
\* cleanup: an operator deletes old usage logs.
AllFaults == {"record", "settle", "discard", "apply", "lost", "dropped",
              "restart", "cleanup"}

ASSUME UsageIngestAssumption ==
  /\ IsFiniteSet(Handlers)
  /\ Faults \subseteq AllFaults
  /\ MaxCleanups \in Nat

VARIABLES
  queued,   \* reported events that no open request of the gateway carries
  acked,    \* events of acknowledged requests
  handler,  \* the running handlers
  rows,     \* request ids in the usage store
  settled,  \* history: how often each event was settled
  orphaned, \* history: events whose handler ended before settling or discarding
  cleaned   \* history: how often cleanup removed the row of each event

vars == <<queued, acked, handler, rows, settled, orphaned, cleaned>>

Stages == {"idle", "recording", "settling", "applying", "discarding", "ok", "error"}

Handler == [pc : Stages, batch : SUBSET Events, accepted : SUBSET Events,
            open : BOOLEAN]

IdleHandler == [pc |-> "idle", batch |-> {}, accepted |-> {}, open |-> FALSE]

TypeOK ==
  /\ queued \in SUBSET Events
  /\ acked \in SUBSET Events
  /\ handler \in [Handlers -> Handler]
  /\ \A h \in Handlers : /\ handler[h].accepted \subseteq handler[h].batch
                         /\ handler[h].pc = "idle" => handler[h] = IdleHandler
  /\ rows \in SUBSET Events
  /\ settled \in [Events -> Nat]
  /\ orphaned \in SUBSET Events
  /\ cleaned \in [Events -> 0..MaxCleanups]

Init ==
  /\ queued = {}
  /\ acked = {}
  /\ handler = [h \in Handlers |-> IdleHandler]
  /\ rows = {}
  /\ settled = [e \in Events |-> 0]
  /\ orphaned = {}
  /\ cleaned = [e \in Events |-> 0]

\* The events of requests that the gateway still waits for.
InOpenRequests == UNION {handler[h].batch : h \in {k \in Handlers : handler[k].open}}

\* The events that a handler has recorded and not settled yet.
Unsettled(h) ==
  IF handler[h].pc \in {"settling", "discarding"} THEN handler[h].accepted ELSE {}

Move(h, pc) == handler' = [handler EXCEPT ![h].pc = pc]

\* The server starts a handler for a request, ends one that responded, and
\* loses the peer of one.
Open(h, batch) ==
  /\ handler[h].pc = "idle"
  /\ handler' = [handler EXCEPT ![h] = [pc |-> "recording", batch |-> batch,
                                        accepted |-> {}, open |-> TRUE]]

Close(h) ==
  /\ handler[h].open
  /\ handler' = [handler EXCEPT ![h] = IdleHandler]

Abandon(h) ==
  /\ "lost" \in Faults
  /\ handler[h].open
  /\ handler' = [handler EXCEPT ![h].open = FALSE]

-----------------------------------------------------------------------------
(***************************************************************************)
(* The gateway                                                             *)
(***************************************************************************)

Report(e) ==
  /\ e \notin queued \cup acked \cup InOpenRequests
  /\ queued' = queued \cup {e}
  /\ UNCHANGED <<acked, handler, rows, settled, orphaned, cleaned>>

\* A batch of queued events arrives at the control plane.
Submit(h, batch) ==
  /\ batch # {}
  /\ batch \subseteq queued
  /\ queued' = queued \ batch
  /\ Open(h, batch)
  /\ UNCHANGED <<acked, rows, settled, orphaned, cleaned>>

\* The gateway receives the response: submit_usage_batch returns.
ReceiveOk(h) ==
  /\ handler[h].pc = "ok"
  /\ acked' = acked \cup handler[h].batch
  /\ Close(h)
  /\ UNCHANGED <<queued, rows, settled, orphaned, cleaned>>

ReceiveError(h) ==
  /\ handler[h].pc = "error"
  /\ queued' = queued \cup handler[h].batch
  /\ Close(h)
  /\ UNCHANGED <<acked, rows, settled, orphaned, cleaned>>

\* The gateway's timeout elapses, or its connection breaks.
GiveUp(h) ==
  /\ queued' = queued \cup handler[h].batch
  /\ Abandon(h)
  /\ UNCHANGED <<acked, rows, settled, orphaned, cleaned>>

-----------------------------------------------------------------------------
(***************************************************************************)
(* gateway_usage, one action per await                                     *)
(***************************************************************************)

\* Variant of Record: the handler takes the whole batch for new.
RecordAll(h) ==
  /\ handler[h].pc = "recording"
  /\ rows' = rows \cup handler[h].batch
  /\ handler' = [handler EXCEPT ![h].accepted = handler[h].batch, ![h].pc = "settling"]
  /\ UNCHANGED <<queued, acked, settled, orphaned, cleaned>>

\* record_batch inserts the new request ids and accepts only those; a batch
\* without any is acknowledged at once.
Record(h) ==
  LET new == handler[h].batch \ rows IN
  /\ handler[h].pc = "recording"
  /\ rows' = rows \cup new
  /\ handler' = [handler EXCEPT
       ![h] = [@ EXCEPT !.accepted = new, !.pc = IF new = {} THEN "ok" ELSE "settling"]]
  /\ UNCHANGED <<queued, acked, settled, orphaned, cleaned>>

RecordFailed(h) ==
  /\ "record" \in Faults
  /\ handler[h].pc = "recording"
  /\ Move(h, "error")
  /\ UNCHANGED <<queued, acked, rows, settled, orphaned, cleaned>>

\* Variant of Settle: the whole batch is settled, not what was accepted.
SettleBatch(h) ==
  /\ handler[h].pc = "settling"
  /\ settled' = [e \in Events |->
                   settled[e] + IF e \in handler[h].batch THEN 1 ELSE 0]
  /\ Move(h, "applying")
  /\ UNCHANGED <<queued, acked, rows, orphaned, cleaned>>

Settle(h) ==
  /\ handler[h].pc = "settling"
  /\ settled' = [e \in Events |->
                   settled[e] + IF e \in handler[h].accepted THEN 1 ELSE 0]
  /\ Move(h, "applying")
  /\ UNCHANGED <<queued, acked, rows, orphaned, cleaned>>

\* Variant of SettleFailed: the error is returned and the rows stay.
SettleFailedKeepingRows(h) ==
  /\ "settle" \in Faults
  /\ handler[h].pc = "settling"
  /\ Move(h, "error")
  /\ UNCHANGED <<queued, acked, rows, settled, orphaned, cleaned>>

SettleFailed(h) ==
  /\ "settle" \in Faults
  /\ handler[h].pc = "settling"
  /\ Move(h, "discarding")
  /\ UNCHANGED <<queued, acked, rows, settled, orphaned, cleaned>>

Discard(h) ==
  /\ handler[h].pc = "discarding"
  /\ rows' = rows \ handler[h].accepted
  /\ Move(h, "error")
  /\ UNCHANGED <<queued, acked, settled, orphaned, cleaned>>

\* Only a warning: the rows stay without a settlement.
DiscardFailed(h) ==
  /\ "discard" \in Faults
  /\ handler[h].pc = "discarding"
  /\ orphaned' = orphaned \cup handler[h].accepted
  /\ Move(h, "error")
  /\ UNCHANGED <<queued, acked, rows, settled, cleaned>>

\* apply_quotas, and the publication of a snapshot when a token ran out.
Apply(h) ==
  /\ handler[h].pc = "applying"
  /\ Move(h, "ok")
  /\ UNCHANGED <<queued, acked, rows, settled, orphaned, cleaned>>

ApplyFailed(h) ==
  /\ "apply" \in Faults
  /\ handler[h].pc = "applying"
  /\ Move(h, "error")
  /\ UNCHANGED <<queued, acked, rows, settled, orphaned, cleaned>>

\* A handler whose gateway gave up has nobody to respond to.
Unheard(h) ==
  /\ handler[h].pc \in {"ok", "error"}
  /\ ~handler[h].open
  /\ handler' = [handler EXCEPT ![h] = IdleHandler]
  /\ UNCHANGED <<queued, acked, rows, settled, orphaned, cleaned>>

-----------------------------------------------------------------------------
(***************************************************************************)
(* Around the handlers                                                     *)
(***************************************************************************)

\* The server drops a handler at an await once its connection is closed.
Dropped(h) ==
  /\ "dropped" \in Faults
  /\ handler[h].pc # "idle"
  /\ ~handler[h].open
  /\ orphaned' = orphaned \cup Unsettled(h)
  /\ handler' = [handler EXCEPT ![h] = IdleHandler]
  /\ UNCHANGED <<queued, acked, rows, settled, cleaned>>

\* The rows are durable, the handlers are not.
Restart ==
  /\ "restart" \in Faults
  /\ orphaned' = orphaned \cup UNION {Unsettled(h) : h \in Handlers}
  /\ queued' = queued \cup InOpenRequests
  /\ handler' = [h \in Handlers |-> IdleHandler]
  /\ UNCHANGED <<acked, rows, settled, cleaned>>

\* DeleteUsageBeforeRequest: the rows before some time, and with them the
\* request ids that deduplication knows.
Cleanup(old) ==
  /\ "cleanup" \in Faults
  /\ old # {}
  /\ old \subseteq rows
  /\ \A e \in old : cleaned[e] < MaxCleanups
  /\ rows' = rows \ old
  /\ cleaned' = [e \in Events |-> cleaned[e] + IF e \in old THEN 1 ELSE 0]
  /\ UNCHANGED <<queued, acked, handler, settled, orphaned>>

Serve(h) ==
  \/ Record(h) \/ RecordFailed(h) \/ Settle(h) \/ SettleFailed(h)
  \/ Discard(h) \/ DiscardFailed(h) \/ Apply(h) \/ ApplyFailed(h)
  \/ Unheard(h) \/ Dropped(h)

Around == Restart \/ \E old \in SUBSET rows : Cleanup(old)

Next ==
  \/ \E e \in Events : Report(e)
  \/ \E h \in Handlers : \/ \E batch \in SUBSET queued : Submit(h, batch)
                         \/ ReceiveOk(h) \/ ReceiveError(h) \/ GiveUp(h) \/ Serve(h)
  \/ Around

Spec == Init /\ [][Next]_vars

-----------------------------------------------------------------------------
(***************************************************************************)
(* Properties                                                              *)
(***************************************************************************)

\* An event is settled at most once, and once more for every time that log
\* cleanup removed its row: retries, lost responses, failed settlements,
\* discards and restarts never charge it again.
SettledOncePerRow == \A e \in Events : settled[e] <= 1 + cleaned[e]

Owners(e) == {h \in Handlers : e \in Unsettled(h)}

\* Every settlement of an event, done or still to come from a handler that
\* recorded it, is covered by a row of its own: the one in the store, or one
\* that log cleanup removed.
ChargesCovered ==
  \A e \in Events :
    settled[e] + Cardinality(Owners(e)) <= cleaned[e] + IF e \in rows THEN 1 ELSE 0

\* A row without a settlement always has a handler that will settle it or
\* remove it; it has none only when that handler was cut off, or its discard
\* failed.
RowSettledOrOwned ==
  \A e \in rows : \/ settled[e] > 0
                  \/ e \in orphaned
                  \/ \E h \in Handlers : e \in Unsettled(h)

\* What is settled stays known to deduplication until cleanup: discard never
\* removes the row of a settled event.
SettledKeepsRow == \A e \in Events : settled[e] > 0 /\ cleaned[e] = 0 => e \in rows

\* An acknowledged event that no handler works on was settled: the discard of
\* a failed settlement lets the retry through.
RetryNotSwallowed ==
  \A e \in acked : settled[e] > 0 \/ \E h \in Handlers : e \in Unsettled(h)

\* An acknowledged event was settled, or a handler is about to settle it, or the
\* handler that was to settle it was cut off.
AckedAccounted ==
  \A e \in acked : \/ settled[e] > 0
                   \/ e \in orphaned
                   \/ \E h \in Handlers : e \in Unsettled(h)

=============================================================================
