------------------------- MODULE UsageIngestProofs -------------------------
(***************************************************************************)
(* Proofs about UsageIngest: type correctness, that every settlement of an *)
(* event is covered by a row of its own (so that retries never charge      *)
(* again), and that a row without a settlement has a handler.              *)
(***************************************************************************)
EXTENDS UsageIngest, FiniteSetTheorems, TLAPS

\* The type invariant holds initially.
LEMMA InitTypeOK == Init => TypeOK
  BY UsageIngestAssumption DEF Init, TypeOK, Handler, Stages, IdleHandler

\* The type invariant is inductive by itself: every action of the gateway, of
\* a handler and around the handlers preserves it.
LEMMA NextTypeOK == TypeOK /\ [Next]_vars => TypeOK'
<1> SUFFICES ASSUME TypeOK, [Next]_vars PROVE TypeOK'
  BY Zenon
<1> USE UsageIngestAssumption DEF TypeOK
<1>1. ASSUME NEW e \in Events, Report(e) PROVE TypeOK'
  BY Zenon, <1>1 DEF Report
<1>2. ASSUME NEW h \in Handlers, NEW b \in SUBSET queued, Submit(h, b) PROVE TypeOK'
  BY Zenon, <1>2 DEF Submit, Open, Handler, Stages
<1>3. ASSUME NEW h \in Handlers, ReceiveOk(h) PROVE TypeOK'
  BY Zenon, <1>3 DEF ReceiveOk, Close, Handler, Stages, IdleHandler
<1>4. ASSUME NEW h \in Handlers, ReceiveError(h) PROVE TypeOK'
  BY Zenon, <1>4 DEF ReceiveError, Close, Handler, Stages, IdleHandler
<1>5. ASSUME NEW h \in Handlers, GiveUp(h) PROVE TypeOK'
  <2>1. handler[h].pc # "idle"
    <3>1. ~IdleHandler.open
      BY Zenon DEF IdleHandler
    <3>2. handler[h].open
      BY Zenon, <1>5 DEF GiveUp, Abandon
    <3>3. handler[h].pc = "idle" => handler[h] = IdleHandler
      BY Zenon
    <3> HIDE DEF TypeOK
    <3> QED
      BY <3>1, <3>2, <3>3, Zenon
  <2> QED
    BY ZenonT(30), <1>5, <2>1 DEF GiveUp, Abandon, Handler, Stages
<1>6. ASSUME NEW h \in Handlers, Record(h) PROVE TypeOK'
  <2> DEFINE new == handler[h].batch \ rows
             r == [handler[h] EXCEPT !.accepted = new,
                                     !.pc = IF new = {} THEN "ok" ELSE "settling"]
  <2>1. handler[h] \in Handler
    BY Zenon
  <2>2. /\ r \in Handler
        /\ r.accepted \subseteq r.batch
        /\ r.pc # "idle"
    BY Zenon, <2>1 DEF Handler, Stages
  <2>3. handler' = [handler EXCEPT ![h] = r] /\ rows' = rows \cup new
    BY Zenon, <1>6 DEF Record
  <2>4. new \subseteq Events
    BY Zenon, <2>1 DEF Handler
  <2>5. UNCHANGED <<queued, acked, settled, orphaned, cleaned>>
    BY Zenon, <1>6 DEF Record
  <2> HIDE DEF r, new
  <2> QED
    BY Zenon, <2>2, <2>3, <2>4, <2>5
<1>7. ASSUME NEW h \in Handlers, RecordFailed(h) PROVE TypeOK'
  BY SMTT(30), <1>7 DEF RecordFailed, Move, Handler, Stages
<1>8. ASSUME NEW h \in Handlers, Settle(h) PROVE TypeOK'
  BY <1>8 DEF Settle, Move, Handler, Stages
<1>9. ASSUME NEW h \in Handlers, SettleFailed(h) PROVE TypeOK'
  BY SMTT(30), <1>9 DEF SettleFailed, Move, Handler, Stages
<1>10. ASSUME NEW h \in Handlers, Discard(h) PROVE TypeOK'
  BY SMTT(30), <1>10 DEF Discard, Move, Handler, Stages
<1>11. ASSUME NEW h \in Handlers, DiscardFailed(h) PROVE TypeOK'
  BY SMTT(30), <1>11 DEF DiscardFailed, Move, Handler, Stages
<1>12. ASSUME NEW h \in Handlers, Apply(h) PROVE TypeOK'
  BY SMTT(30), <1>12 DEF Apply, Move, Handler, Stages
<1>13. ASSUME NEW h \in Handlers, ApplyFailed(h) PROVE TypeOK'
  BY SMTT(30), <1>13 DEF ApplyFailed, Move, Handler, Stages
<1>14. ASSUME NEW h \in Handlers, Unheard(h) PROVE TypeOK'
  BY Zenon, <1>14 DEF Unheard, Handler, Stages, IdleHandler
<1>15. ASSUME NEW h \in Handlers, Dropped(h) PROVE TypeOK'
  BY Zenon, <1>15 DEF Dropped, Unsettled, Handler, Stages, IdleHandler
<1>16. CASE Restart
  BY <1>16 DEF Restart, Unsettled, InOpenRequests, Handler, Stages, IdleHandler
<1>17. ASSUME NEW old \in SUBSET rows, Cleanup(old) PROVE TypeOK'
  BY <1>17 DEF Cleanup
<1>18. CASE UNCHANGED vars
  BY Zenon, <1>18 DEF vars
<1> QED
  BY Zenon, <1>1, <1>2, <1>3, <1>4, <1>5, <1>6, <1>7, <1>8, <1>9, <1>10, <1>11, <1>12,
     <1>13, <1>14, <1>15, <1>16, <1>17, <1>18 DEF Next, Serve, Around

\* Type correctness of the usage ingestion of the control plane.
THEOREM TypeCorrect == Spec => []TypeOK
  BY InitTypeOK, NextTypeOK, PTL DEF Spec

-----------------------------------------------------------------------------
(***************************************************************************)
(* Every settlement is covered by a row                                    *)
(***************************************************************************)

One(b) == IF b THEN 1 ELSE 0

\* The owners of an event can be counted.
LEMMA OwnersFinite ==
  ASSUME NEW e \in Events
  PROVE  /\ IsFiniteSet(Owners(e)) /\ Cardinality(Owners(e)) \in Nat
         /\ IsFiniteSet(Owners(e)') /\ Cardinality(Owners(e)') \in Nat
<1>1. Owners(e) \subseteq Handlers /\ Owners(e)' \subseteq Handlers
  BY Zenon DEF Owners
<1> QED
  BY Zenon, <1>1, UsageIngestAssumption, FS_Subset, FS_CardinalityType

\* A step of one handler changes the number of owners of an event by that
\* handler alone.
LEMMA OwnersCount ==
  ASSUME NEW e \in Events, NEW h \in Handlers,
         \A k \in Handlers \ {h} : handler'[k] = handler[k]
  PROVE  Cardinality(Owners(e)') + One(e \in Unsettled(h))
           = Cardinality(Owners(e)) + One(e \in Unsettled(h)')
<1> DEFINE Others == Owners(e) \ {h}
<1>1. /\ Owners(e) = IF e \in Unsettled(h) THEN Others \cup {h} ELSE Others
      /\ h \notin Others
  BY Zenon DEF Owners
<1>2. Owners(e)' = IF e \in Unsettled(h)' THEN Others \cup {h} ELSE Others
  BY Zenon DEF Owners, Unsettled
<1>3. IsFiniteSet(Others)
  BY Zenon, OwnersFinite, FS_Subset
<1>4. /\ Cardinality(Others) \in Nat
      /\ Cardinality(Others \cup {h}) = Cardinality(Others) + 1
  BY Zenon, <1>1, <1>3, FS_AddElement, FS_CardinalityType
<1> HIDE DEF Others
<1> QED
  BY <1>1, <1>2, <1>4 DEF One

\* The invariant holds initially: there are no settlements and no owners.
LEMMA InitCovered == Init => ChargesCovered
<1> SUFFICES ASSUME Init, NEW e \in Events
             PROVE  settled[e] + Cardinality(Owners(e))
                      <= cleaned[e] + IF e \in rows THEN 1 ELSE 0
  BY Zenon DEF ChargesCovered
<1>1. Owners(e) = {}
  BY Zenon DEF Init, Owners, Unsettled, IdleHandler
<1> QED
  BY <1>1, FS_EmptySet DEF Init

\* A step that leaves rows, settlements and cleanups alone, and in which no
\* event gets a new owner, preserves the invariant.
LEMMA NoNewOwner ==
  ASSUME TypeOK, ChargesCovered, UNCHANGED <<rows, settled, cleaned>>,
         \A k \in Handlers : Unsettled(k)' \subseteq Unsettled(k)
  PROVE  ChargesCovered'
<1> SUFFICES ASSUME NEW e \in Events
             PROVE  (settled[e] + Cardinality(Owners(e))
                       <= cleaned[e] + IF e \in rows THEN 1 ELSE 0)'
  BY Zenon DEF ChargesCovered
<1>1. Owners(e)' \subseteq Owners(e)
  BY Zenon DEF Owners
<1>2. Cardinality(Owners(e)') <= Cardinality(Owners(e))
  BY Zenon, <1>1, OwnersFinite, FS_Subset
<1>3. settled[e] \in Nat /\ cleaned[e] \in Nat
  BY UsageIngestAssumption DEF TypeOK
<1> QED
  BY <1>2, <1>3, OwnersFinite DEF ChargesCovered

\* Record: a new event gets its first owner together with its row.
LEMMA RecordCovered ==
  ASSUME TypeOK, ChargesCovered, NEW h \in Handlers, Record(h)
  PROVE  ChargesCovered'
<1> SUFFICES ASSUME NEW e \in Events
             PROVE  (settled[e] + Cardinality(Owners(e))
                       <= cleaned[e] + IF e \in rows THEN 1 ELSE 0)'
  BY Zenon DEF ChargesCovered
<1> DEFINE new == handler[h].batch \ rows
<1>1. /\ \A k \in Handlers \ {h} : handler'[k] = handler[k]
      /\ Unsettled(h) = {}
      /\ Unsettled(h)' \subseteq new
      /\ rows' = rows \cup new
      /\ UNCHANGED <<settled, cleaned>>
  BY Zenon DEF Record, TypeOK, Handler, Unsettled
<1>2. e \in Unsettled(h)' => e \notin rows /\ e \in rows'
  BY Zenon, <1>1
<1>3. Cardinality(Owners(e)') = Cardinality(Owners(e)) + One(e \in Unsettled(h)')
  BY <1>1, OwnersCount, OwnersFinite DEF One
<1>4. settled[e] \in Nat /\ cleaned[e] \in Nat
  BY UsageIngestAssumption DEF TypeOK
<1>5. settled[e] + Cardinality(Owners(e)) <= cleaned[e] + IF e \in rows THEN 1 ELSE 0
  BY Zenon DEF ChargesCovered
<1>6. e \in rows => e \in rows'
  BY Zenon, <1>1
<1> HIDE DEF new
<1> QED
  BY <1>1, <1>2, <1>3, <1>4, <1>5, <1>6, OwnersFinite DEF One

\* Settle: the settlement takes the place of the owner.
LEMMA SettleCovered ==
  ASSUME TypeOK, ChargesCovered, NEW h \in Handlers, Settle(h)
  PROVE  ChargesCovered'
<1> SUFFICES ASSUME NEW e \in Events
             PROVE  (settled[e] + Cardinality(Owners(e))
                       <= cleaned[e] + IF e \in rows THEN 1 ELSE 0)'
  BY Zenon DEF ChargesCovered
<1>1. /\ \A k \in Handlers \ {h} : handler'[k] = handler[k]
      /\ Unsettled(h) = handler[h].accepted
      /\ Unsettled(h)' = {}
      /\ settled'[e] = settled[e] + One(e \in handler[h].accepted)
      /\ UNCHANGED <<rows, cleaned>>
  BY Zenon DEF Settle, Move, TypeOK, Handler, Unsettled, One
<1>2. Cardinality(Owners(e)') + One(e \in Unsettled(h)) = Cardinality(Owners(e))
  BY <1>1, OwnersCount, OwnersFinite DEF One
<1>3. settled[e] \in Nat /\ cleaned[e] \in Nat
  BY UsageIngestAssumption DEF TypeOK
<1>4. settled[e] + Cardinality(Owners(e)) <= cleaned[e] + IF e \in rows THEN 1 ELSE 0
  BY Zenon DEF ChargesCovered
<1> QED
  BY <1>1, <1>2, <1>3, <1>4, OwnersFinite DEF One

\* Discard: the row goes and the owner with it.
LEMMA DiscardCovered ==
  ASSUME TypeOK, ChargesCovered, NEW h \in Handlers, Discard(h)
  PROVE  ChargesCovered'
<1> SUFFICES ASSUME NEW e \in Events
             PROVE  (settled[e] + Cardinality(Owners(e))
                       <= cleaned[e] + IF e \in rows THEN 1 ELSE 0)'
  BY Zenon DEF ChargesCovered
<1>1. /\ \A k \in Handlers \ {h} : handler'[k] = handler[k]
      /\ Unsettled(h) = handler[h].accepted
      /\ Unsettled(h)' = {}
      /\ rows' = rows \ handler[h].accepted
      /\ UNCHANGED <<settled, cleaned>>
  BY Zenon DEF Discard, Move, TypeOK, Handler, Unsettled
<1>2. Cardinality(Owners(e)') + One(e \in Unsettled(h)) = Cardinality(Owners(e))
  BY <1>1, OwnersCount, OwnersFinite DEF One
<1>3. settled[e] \in Nat /\ cleaned[e] \in Nat
  BY UsageIngestAssumption DEF TypeOK
<1>4. settled[e] + Cardinality(Owners(e)) <= cleaned[e] + IF e \in rows THEN 1 ELSE 0
  BY Zenon DEF ChargesCovered
<1> QED
  BY <1>1, <1>2, <1>3, <1>4, OwnersFinite DEF One

\* Cleanup: a row that goes is counted.
LEMMA CleanupCovered ==
  ASSUME TypeOK, ChargesCovered, NEW old \in SUBSET rows, Cleanup(old)
  PROVE  ChargesCovered'
<1> SUFFICES ASSUME NEW e \in Events
             PROVE  (settled[e] + Cardinality(Owners(e))
                       <= cleaned[e] + IF e \in rows THEN 1 ELSE 0)'
  BY Zenon DEF ChargesCovered
<1>1. Owners(e)' = Owners(e)
  BY Zenon DEF Cleanup, Owners, Unsettled
<1>2. /\ cleaned'[e] = cleaned[e] + One(e \in old)
      /\ rows' = rows \ old
      /\ settled' = settled
  BY Zenon DEF Cleanup, One
<1>3. settled[e] \in Nat /\ cleaned[e] \in Nat
  BY UsageIngestAssumption DEF TypeOK
<1>4. settled[e] + Cardinality(Owners(e)) <= cleaned[e] + IF e \in rows THEN 1 ELSE 0
  BY Zenon DEF ChargesCovered
<1> QED
  BY <1>1, <1>2, <1>3, <1>4, OwnersFinite DEF One

\* The steps that neither record, settle, discard nor clean up.
OtherStep ==
  \/ \E e \in Events : Report(e)
  \/ \E h \in Handlers :
       \/ \E b \in SUBSET queued : Submit(h, b)
       \/ ReceiveOk(h) \/ ReceiveError(h) \/ GiveUp(h)
       \/ RecordFailed(h) \/ SettleFailed(h) \/ DiscardFailed(h)
       \/ Apply(h) \/ ApplyFailed(h) \/ Unheard(h) \/ Dropped(h)
  \/ Restart
  \/ UNCHANGED vars

\* Every other step leaves rows, settlements and cleanups alone and gives no
\* event a new owner.
LEMMA OtherSteps ==
  ASSUME TypeOK,
         OtherStep
  PROVE  /\ UNCHANGED <<rows, settled, cleaned>>
         /\ \A k \in Handlers : Unsettled(k)' \subseteq Unsettled(k)
<1> DEFINE Goal == /\ UNCHANGED <<rows, settled, cleaned>>
                   /\ \A k \in Handlers : Unsettled(k)' \subseteq Unsettled(k)
<1>1. ASSUME NEW e \in Events, Report(e) PROVE Goal
  BY Zenon, <1>1 DEF Report, Unsettled
<1>2. ASSUME NEW h \in Handlers, NEW b \in SUBSET queued, Submit(h, b) PROVE Goal
  BY Zenon, <1>2 DEF Submit, Open, Unsettled, TypeOK, Handler
<1>3. ASSUME NEW h \in Handlers, ReceiveOk(h) PROVE Goal
  BY Zenon, <1>3 DEF ReceiveOk, Close, IdleHandler, Unsettled, TypeOK, Handler
<1>4. ASSUME NEW h \in Handlers, ReceiveError(h) PROVE Goal
  BY Zenon, <1>4 DEF ReceiveError, Close, IdleHandler, Unsettled, TypeOK, Handler
<1>5. ASSUME NEW h \in Handlers, GiveUp(h) PROVE Goal
  BY Zenon, <1>5 DEF GiveUp, Abandon, Unsettled, TypeOK, Handler
<1>6. ASSUME NEW h \in Handlers, RecordFailed(h) PROVE Goal
  BY Zenon, <1>6 DEF RecordFailed, Move, Unsettled, TypeOK, Handler
<1>7. ASSUME NEW h \in Handlers, SettleFailed(h) PROVE Goal
  BY ZenonT(30), <1>7 DEF SettleFailed, Move, Unsettled, TypeOK, Handler
<1>8. ASSUME NEW h \in Handlers, DiscardFailed(h) PROVE Goal
  BY Zenon, <1>8 DEF DiscardFailed, Move, Unsettled, TypeOK, Handler
<1>9. ASSUME NEW h \in Handlers, Apply(h) PROVE Goal
  BY Zenon, <1>9 DEF Apply, Move, Unsettled, TypeOK, Handler
<1>10. ASSUME NEW h \in Handlers, ApplyFailed(h) PROVE Goal
  BY Zenon, <1>10 DEF ApplyFailed, Move, Unsettled, TypeOK, Handler
<1>11. ASSUME NEW h \in Handlers, Unheard(h) PROVE Goal
  BY Zenon, <1>11 DEF Unheard, IdleHandler, Unsettled, TypeOK, Handler
<1>12. ASSUME NEW h \in Handlers, Dropped(h) PROVE Goal
  BY Zenon, <1>12 DEF Dropped, IdleHandler, Unsettled, TypeOK, Handler
<1>13. CASE Restart
  BY Zenon, <1>13 DEF Restart, Unsettled, IdleHandler
<1>14. CASE UNCHANGED vars
  BY Zenon, <1>14 DEF vars, Unsettled
<1> QED
  BY Zenon, <1>1, <1>2, <1>3, <1>4, <1>5, <1>6, <1>7, <1>8,
     <1>9, <1>10, <1>11, <1>12, <1>13, <1>14 DEF OtherStep

\* Every step preserves the cover.
LEMMA NextCovered == TypeOK /\ ChargesCovered /\ [Next]_vars => ChargesCovered'
<1> SUFFICES ASSUME TypeOK, ChargesCovered, [Next]_vars PROVE ChargesCovered'
  BY Zenon
<1>1. ASSUME NEW h \in Handlers, Record(h) PROVE ChargesCovered'
  BY Zenon, <1>1, RecordCovered
<1>2. ASSUME NEW h \in Handlers, Settle(h) PROVE ChargesCovered'
  BY Zenon, <1>2, SettleCovered
<1>3. ASSUME NEW h \in Handlers, Discard(h) PROVE ChargesCovered'
  BY Zenon, <1>3, DiscardCovered
<1>4. ASSUME NEW old \in SUBSET rows, Cleanup(old) PROVE ChargesCovered'
  BY Zenon, <1>4, CleanupCovered
<1>5. CASE OtherStep
  BY Zenon, <1>5, OtherSteps, NoNewOwner
<1> QED
  BY Zenon, <1>1, <1>2, <1>3, <1>4, <1>5 DEF Next, Serve, Around, OtherStep

\* Every settlement of an event, done or still to come, is covered by a row of
\* its own, whatever is retried, lost, discarded, cut off or cleaned up.
THEOREM ChargesAreCovered == Spec => []ChargesCovered
<1>1. Init => TypeOK /\ ChargesCovered
  BY Zenon, InitTypeOK, InitCovered
<1>2. TypeOK /\ ChargesCovered /\ [Next]_vars => TypeOK' /\ ChargesCovered'
  BY Zenon, NextTypeOK, NextCovered
<1> QED
  BY <1>1, <1>2, PTL DEF Spec

\* What the cover says once the owners are left out of it.
LEMMA CoveredImplies == TypeOK /\ ChargesCovered => SettledOncePerRow /\ SettledKeepsRow
<1> SUFFICES ASSUME TypeOK, ChargesCovered, NEW e \in Events
             PROVE  /\ settled[e] <= 1 + cleaned[e]
                    /\ settled[e] > 0 /\ cleaned[e] = 0 => e \in rows
  BY Zenon DEF SettledOncePerRow, SettledKeepsRow
<1>1. settled[e] \in Nat /\ cleaned[e] \in Nat
  BY UsageIngestAssumption DEF TypeOK
<1>2. settled[e] + Cardinality(Owners(e)) <= cleaned[e] + IF e \in rows THEN 1 ELSE 0
  BY Zenon DEF ChargesCovered
<1> QED
  BY <1>1, <1>2, OwnersFinite

\* The control plane settles an event at most once, and once more for every
\* time that log cleanup removed its row, for any number of events, handlers
\* and cleanups.
THEOREM SettledOnce == Spec => []SettledOncePerRow
  BY TypeCorrect, ChargesAreCovered, CoveredImplies, PTL

\* The row of a settled event stays until log cleanup removes it: the discard
\* of a failed settlement never takes it.
THEOREM SettledRowStays == Spec => []SettledKeepsRow
  BY TypeCorrect, ChargesAreCovered, CoveredImplies, PTL

-----------------------------------------------------------------------------
(***************************************************************************)
(* A row without a settlement has a handler                                *)
(***************************************************************************)

\* An event loses an owner only to a settlement, to a discard that removes its
\* row, or to the history variable orphaned.
LEMMA OwnerKept ==
  ASSUME TypeOK, OtherStep, NEW k \in Handlers, NEW e \in Unsettled(k)
  PROVE  e \in Unsettled(k)' \/ e \in orphaned'
<1> DEFINE Goal == e \in Unsettled(k)' \/ e \in orphaned'
<1>1. ASSUME NEW d \in Events, Report(d) PROVE Goal
  BY Zenon, <1>1 DEF Report, Unsettled
<1>2. ASSUME NEW h \in Handlers, NEW b \in SUBSET queued, Submit(h, b) PROVE Goal
  BY Zenon, <1>2 DEF Submit, Open, Unsettled, TypeOK, Handler
<1>3. ASSUME NEW h \in Handlers, ReceiveOk(h) PROVE Goal
  BY Zenon, <1>3 DEF ReceiveOk, Close, Unsettled, TypeOK, Handler
<1>4. ASSUME NEW h \in Handlers, ReceiveError(h) PROVE Goal
  BY Zenon, <1>4 DEF ReceiveError, Close, Unsettled, TypeOK, Handler
<1>5. ASSUME NEW h \in Handlers, GiveUp(h) PROVE Goal
  BY Zenon, <1>5 DEF GiveUp, Abandon, Unsettled, TypeOK, Handler
<1>6. ASSUME NEW h \in Handlers, RecordFailed(h) PROVE Goal
  BY Zenon, <1>6 DEF RecordFailed, Move, Unsettled, TypeOK, Handler
<1>7. ASSUME NEW h \in Handlers, SettleFailed(h) PROVE Goal
  BY Zenon, <1>7 DEF SettleFailed, Move, Unsettled, TypeOK, Handler
<1>8. ASSUME NEW h \in Handlers, DiscardFailed(h) PROVE Goal
  BY Zenon, <1>8 DEF DiscardFailed, Move, Unsettled, TypeOK, Handler
<1>9. ASSUME NEW h \in Handlers, Apply(h) PROVE Goal
  BY Zenon, <1>9 DEF Apply, Move, Unsettled, TypeOK, Handler
<1>10. ASSUME NEW h \in Handlers, ApplyFailed(h) PROVE Goal
  BY Zenon, <1>10 DEF ApplyFailed, Move, Unsettled, TypeOK, Handler
<1>11. ASSUME NEW h \in Handlers, Unheard(h) PROVE Goal
  BY Zenon, <1>11 DEF Unheard, Unsettled, TypeOK, Handler
<1>12. ASSUME NEW h \in Handlers, Dropped(h) PROVE Goal
  BY Zenon, <1>12 DEF Dropped, Unsettled, TypeOK, Handler
<1>13. CASE Restart
  BY Zenon, <1>13 DEF Restart
<1>14. CASE UNCHANGED vars
  BY Zenon, <1>14 DEF vars, Unsettled
<1> QED
  BY Zenon, <1>1, <1>2, <1>3, <1>4, <1>5, <1>6, <1>7, <1>8,
     <1>9, <1>10, <1>11, <1>12, <1>13, <1>14 DEF OtherStep

\* What is orphaned stays orphaned.
LEMMA OrphanedGrows == [Next]_vars => orphaned \subseteq orphaned'
  BY Zenon DEF Next, Serve, Around, vars, Report, Submit, ReceiveOk, ReceiveError, GiveUp,
         Record, RecordFailed, Settle, SettleFailed, Discard, DiscardFailed, Apply,
         ApplyFailed, Unheard, Dropped, Restart, Cleanup

\* Every step preserves the ownership of rows.
LEMMA NextOwned == TypeOK /\ RowSettledOrOwned /\ [Next]_vars => RowSettledOrOwned'
<1> SUFFICES ASSUME TypeOK, RowSettledOrOwned, [Next]_vars, NEW e \in rows'
             PROVE  (\/ settled[e] > 0
                     \/ e \in orphaned
                     \/ \E h \in Handlers : e \in Unsettled(h))'
  BY Zenon DEF RowSettledOrOwned
<1> DEFINE Goal == (\/ settled[e] > 0
                    \/ e \in orphaned
                    \/ \E h \in Handlers : e \in Unsettled(h))'
<1>1. orphaned \subseteq orphaned'
  BY Zenon, OrphanedGrows
<1>2. ASSUME NEW h \in Handlers, Record(h) PROVE Goal
  <2>1. /\ Unsettled(h) = {}
        /\ Unsettled(h)' = handler[h].batch \ rows
        /\ rows' = rows \cup (handler[h].batch \ rows)
        /\ settled' = settled
    BY Zenon, <1>2 DEF Record, Unsettled, TypeOK, Handler
  <2>2. \A k \in Handlers \ {h} : Unsettled(k)' = Unsettled(k)
    BY Zenon, <1>2 DEF Record, Unsettled, TypeOK
  <2> QED
    BY Zenon, <1>1, <2>1, <2>2 DEF RowSettledOrOwned
<1>3. ASSUME NEW h \in Handlers, Settle(h) PROVE Goal
  <2>1. /\ Unsettled(h) = handler[h].accepted
        /\ rows' = rows
        /\ e \in Events
        /\ settled[e] \in Nat
        /\ settled'[e] = settled[e] + IF e \in handler[h].accepted THEN 1 ELSE 0
    BY Zenon, <1>3 DEF Settle, Unsettled, TypeOK, Handler
  <2>2. \A k \in Handlers \ {h} : Unsettled(k)' = Unsettled(k)
    BY Zenon, <1>3 DEF Settle, Move, Unsettled, TypeOK
  <2> QED
    BY <1>1, <2>1, <2>2 DEF RowSettledOrOwned
<1>4. ASSUME NEW h \in Handlers, Discard(h) PROVE Goal
  <2>1. /\ Unsettled(h) = handler[h].accepted
        /\ rows' = rows \ handler[h].accepted
        /\ settled' = settled
    BY Zenon, <1>4 DEF Discard, Unsettled, TypeOK, Handler
  <2>2. \A k \in Handlers \ {h} : Unsettled(k)' = Unsettled(k)
    BY Zenon, <1>4 DEF Discard, Move, Unsettled, TypeOK
  <2> QED
    BY Zenon, <1>1, <2>1, <2>2 DEF RowSettledOrOwned
<1>5. ASSUME NEW old \in SUBSET rows, Cleanup(old) PROVE Goal
  BY Zenon, <1>5 DEF Cleanup, RowSettledOrOwned, Unsettled
<1>6. CASE OtherStep
  <2>1. rows' = rows /\ settled' = settled
    BY Zenon, <1>6, OtherSteps
  <2> QED
    BY Zenon, <1>1, <1>6, <2>1, OwnerKept DEF RowSettledOrOwned
<1> QED
  BY Zenon, <1>2, <1>3, <1>4, <1>5, <1>6 DEF Next, Serve, Around, OtherStep

\* A row of the usage store without a settlement has a handler that will settle
\* or remove it, or it lost that handler to a crash, a dropped connection or a
\* failed discard: deduplication swallows nothing else.
THEOREM RowsAreOwned == Spec => []RowSettledOrOwned
<1>1. Init => TypeOK /\ RowSettledOrOwned
  BY Zenon, InitTypeOK DEF Init, RowSettledOrOwned
<1>2. TypeOK /\ RowSettledOrOwned /\ [Next]_vars => TypeOK' /\ RowSettledOrOwned'
  BY Zenon, NextTypeOK, NextOwned
<1> QED
  BY <1>1, <1>2, PTL DEF Spec

-----------------------------------------------------------------------------
(***************************************************************************)
(* What is acknowledged is settled, when settlements do not fail           *)
(***************************************************************************)

\* An event that was settled, is about to be, or whose handler was cut off.
Accounted(e) ==
  settled[e] > 0 \/ e \in orphaned \/ \E h \in Handlers : e \in Unsettled(h)

\* A handler that acknowledges a batch, or is on its way to, has recorded its
\* events or found them recorded; and nothing is discarded.
AckInv ==
  /\ \A h \in Handlers : handler[h].pc # "discarding"
  /\ \A h \in Handlers : handler[h].pc \in {"settling", "applying", "ok"} =>
       \A e \in handler[h].batch : Accounted(e)
  /\ \A e \in acked : Accounted(e)

\* While nothing is discarded, an event stays accounted for.
LEMMA AccountedStays ==
  ASSUME TypeOK, [Next]_vars, \A h \in Handlers : handler[h].pc # "discarding",
         NEW e \in Events, Accounted(e)
  PROVE  Accounted(e)'
<1>1. orphaned \subseteq orphaned'
  BY Zenon, OrphanedGrows
<1>2. ASSUME NEW h \in Handlers, Record(h) PROVE Accounted(e)'
  <2>1. Unsettled(h) = {} /\ settled' = settled
    BY Zenon, <1>2 DEF Record, Unsettled
  <2>2. \A k \in Handlers \ {h} : Unsettled(k)' = Unsettled(k)
    BY Zenon, <1>2 DEF Record, Unsettled, TypeOK
  <2> QED BY Zenon, <1>1, <2>1, <2>2 DEF Accounted
<1>3. ASSUME NEW h \in Handlers, Settle(h) PROVE Accounted(e)'
  <2>1. /\ Unsettled(h) = handler[h].accepted /\ settled[e] \in Nat
        /\ settled'[e] = settled[e] + IF e \in handler[h].accepted THEN 1 ELSE 0
    BY Zenon, <1>3 DEF Settle, Unsettled, TypeOK
  <2>2. \A k \in Handlers \ {h} : Unsettled(k)' = Unsettled(k)
    BY Zenon, <1>3 DEF Settle, Move, Unsettled, TypeOK
  <2>3. settled[e] > 0 \/ e \in Unsettled(h) => settled'[e] > 0
    BY <2>1
  <2> QED BY Zenon, <1>1, <2>2, <2>3 DEF Accounted
<1>4. ASSUME NEW h \in Handlers, Discard(h) PROVE Accounted(e)'
  BY Zenon, <1>4 DEF Discard
<1>5. ASSUME NEW old \in SUBSET rows, Cleanup(old) PROVE Accounted(e)'
  BY Zenon, <1>5 DEF Cleanup, Accounted, Unsettled
<1>6. CASE OtherStep
  <2>1. settled' = settled
    BY Zenon, <1>6, OtherSteps
  <2> QED BY Zenon, <1>1, <1>6, <2>1, OwnerKept DEF Accounted
<1> QED BY Zenon, <1>2, <1>3, <1>4, <1>5, <1>6 DEF Next, Serve, Around, OtherStep

\* A handler comes to acknowledge a batch, or nearer to it, from the stage before,
\* and to discard one only when its settlement failed.
LEMMA StageBefore ==
  ASSUME TypeOK, [Next]_vars, NEW k \in Handlers
  PROVE  /\ handler'[k].pc \in {"settling", "applying", "ok"} =>
              \/ Record(k)
              \/ /\ handler[k].pc \in {"settling", "applying", "ok"}
                 /\ handler'[k].batch = handler[k].batch
         /\ handler'[k].pc = "discarding" => handler[k].pc = "discarding" \/ SettleFailed(k)
<1> DEFINE Goal == /\ handler'[k].pc \in {"settling", "applying", "ok"} =>
                        \/ Record(k)
                        \/ /\ handler[k].pc \in {"settling", "applying", "ok"}
                           /\ handler'[k].batch = handler[k].batch
                   /\ handler'[k].pc = "discarding" =>
                        handler[k].pc = "discarding" \/ SettleFailed(k)
<1>1. handler \in [Handlers -> Handler]
  BY Zenon DEF TypeOK
<1>2. ASSUME handler'[k] = handler[k] \/ handler'[k] = IdleHandler PROVE Goal
  <2>1. CASE handler'[k] = handler[k]
    BY Zenon, <2>1
  <2>2. CASE handler'[k] = IdleHandler
    <3>1. IdleHandler.pc = "idle"
      BY Zenon DEF IdleHandler
    <3> QED BY Zenon, <2>2, <3>1
  <2> QED BY Zenon, <1>2, <2>1, <2>2
<1>4. CASE UNCHANGED handler
  BY Zenon, <1>2, <1>4
<1>5. CASE Restart
  BY Zenon, <1>2, <1>5 DEF Restart
<1>6. ASSUME NEW h \in Handlers, NEW b, Submit(h, b) PROVE Goal
  <2>1. CASE h = k
    BY Zenon, <1>1, <1>6, <2>1 DEF Submit, Open
  <2>2. CASE h # k
    BY Zenon, <1>1, <1>2, <1>6, <2>2 DEF Submit, Open
  <2> QED BY Zenon, <2>1, <2>2
<1>7. ASSUME NEW h \in Handlers, ReceiveOk(h) \/ ReceiveError(h) \/ Unheard(h) \/ Dropped(h)
      PROVE  Goal
  <2>1. handler' = [handler EXCEPT ![h] = IdleHandler]
    BY Zenon, <1>7 DEF ReceiveOk, ReceiveError, Close, Unheard, Dropped
  <2> QED BY Zenon, <1>1, <1>2, <2>1
<1>8. ASSUME NEW h \in Handlers, GiveUp(h) PROVE Goal
  <2>1. handler'[k].pc = handler[k].pc /\ handler'[k].batch = handler[k].batch
    BY Zenon, <1>1, <1>8 DEF GiveUp, Abandon, Handler
  <2> QED BY Zenon, <2>1
<1>9. ASSUME NEW h \in Handlers, Record(h) PROVE Goal
  <2>1. CASE h = k
    <3>1. handler'[k].pc \in {"ok", "settling"}
      BY Zenon, <1>1, <1>9, <2>1 DEF Record, Handler
    <3> QED BY Zenon, <1>9, <2>1, <3>1
  <2>2. CASE h # k
    BY Zenon, <1>1, <1>2, <1>9, <2>2 DEF Record
  <2> QED BY Zenon, <2>1, <2>2
<1>10. ASSUME NEW h \in Handlers, NEW pc, Move(h, pc),
              \/ pc = "error"
              \/ pc \in {"applying", "ok"} /\ handler[h].pc \in {"settling", "applying"}
              \/ pc = "discarding" /\ SettleFailed(h)
       PROVE  Goal
  <2>1. CASE h = k
    <3>1. handler'[k].pc = pc /\ handler'[k].batch = handler[k].batch
      BY Zenon, <1>1, <1>10, <2>1 DEF Move, Handler
    <3> QED BY Zenon, <1>10, <2>1, <3>1
  <2>2. CASE h # k
    BY Zenon, <1>1, <1>2, <1>10, <2>2 DEF Move
  <2> QED BY Zenon, <2>1, <2>2
<1>11. ASSUME NEW h \in Handlers, RecordFailed(h) \/ Settle(h) \/ Discard(h) \/ DiscardFailed(h)
                                  \/ Apply(h) \/ ApplyFailed(h)
       PROVE  Goal
  BY Zenon, <1>10, <1>11 DEF RecordFailed, Settle, Discard, DiscardFailed, Apply, ApplyFailed
<1>12. ASSUME NEW h \in Handlers, SettleFailed(h) PROVE Goal
  <2>1. Move(h, "discarding")
    BY Zenon, <1>12 DEF SettleFailed
  <2> QED BY Zenon, <1>10, <1>12, <2>1
<1>13. ASSUME NEW e \in Events, Report(e) PROVE Goal
  BY Zenon, <1>4, <1>13 DEF Report
<1>14. ASSUME NEW old, Cleanup(old) PROVE Goal
  BY Zenon, <1>4, <1>14 DEF Cleanup
<1> QED
  BY Zenon, <1>4, <1>5, <1>6, <1>7, <1>8, <1>9, <1>11, <1>12, <1>13, <1>14
     DEF Next, Serve, Around, vars

\* The acknowledged events are those of handlers that answered ok.
LEMMA NewlyAcked ==
  ASSUME [Next]_vars, NEW e \in acked', e \notin acked
  PROVE  \E h \in Handlers : handler[h].pc = "ok" /\ e \in handler[h].batch
<1>1. ASSUME NEW h \in Handlers, ReceiveOk(h)
      PROVE  handler[h].pc = "ok" /\ e \in handler[h].batch
  BY Zenon, <1>1 DEF ReceiveOk
<1>2. acked' = acked \/ \E h \in Handlers : ReceiveOk(h)
  BY Zenon DEF Next, Serve, Around, vars, Report, Submit, ReceiveError, GiveUp, Record,
               RecordFailed, Settle, SettleFailed, Discard, DiscardFailed, Apply, ApplyFailed,
               Unheard, Dropped, Restart, Cleanup
<1> QED BY Zenon, <1>1, <1>2

\* Every step keeps the invariant while settlements do not fail.
LEMMA NextAckInv ==
  ASSUME "settle" \notin Faults, TypeOK, RowSettledOrOwned, AckInv, [Next]_vars
  PROVE  AckInv'
<1>1. /\ \A h \in Handlers : handler[h].pc # "discarding"
      /\ \A h \in Handlers : handler[h].pc \in {"settling", "applying", "ok"} =>
           \A e \in handler[h].batch : Accounted(e)
      /\ \A e \in acked : Accounted(e)
  BY Zenon DEF AckInv
<1>2. \A e \in Events : Accounted(e) => Accounted(e)'
  BY Zenon, <1>1, AccountedStays
<1>3. \A h \in Handlers : handler[h].batch \subseteq Events
  BY Zenon DEF TypeOK, Handler
<1>4. \A h \in Handlers : handler'[h].pc # "discarding"
  BY Zenon, <1>1, StageBefore DEF SettleFailed
<1>5. ASSUME NEW h \in Handlers, handler'[h].pc \in {"settling", "applying", "ok"},
             NEW e \in handler'[h].batch
      PROVE  Accounted(e)'
  <2>1. CASE Record(h)
    <3>1. /\ handler'[h].batch = handler[h].batch
          /\ handler'[h].accepted = handler[h].batch \ rows
          /\ handler[h].batch \ rows # {} => handler'[h].pc = "settling"
      BY Zenon, <2>1 DEF Record, TypeOK, Handler
    <3>2. CASE e \in rows
      <4>1. Accounted(e)
        BY Zenon, <3>2 DEF RowSettledOrOwned, Accounted
      <4> QED BY Zenon, <1>2, <1>3, <1>5, <3>1, <4>1
    <3>3. CASE e \notin rows
      <4>1. e \in Unsettled(h)'
        BY Zenon, <1>5, <3>1, <3>3 DEF Unsettled
      <4> QED BY Zenon, <4>1 DEF Accounted
    <3> QED BY Zenon, <3>2, <3>3
  <2>2. CASE /\ handler[h].pc \in {"settling", "applying", "ok"}
             /\ handler'[h].batch = handler[h].batch
    <3>1. Accounted(e) /\ e \in Events
      BY Zenon, <1>1, <1>3, <1>5, <2>2
    <3> QED BY Zenon, <1>2, <3>1
  <2> QED BY Zenon, <1>5, <2>1, <2>2, StageBefore
<1>6. ASSUME NEW e \in acked' PROVE Accounted(e)'
  <2>1. CASE e \in acked
    <3>1. Accounted(e) /\ e \in Events
      BY Zenon, <1>1, <2>1 DEF TypeOK
    <3> QED BY Zenon, <1>2, <3>1
  <2>2. CASE e \notin acked
    <3>1. PICK h \in Handlers : handler[h].pc = "ok" /\ e \in handler[h].batch
      BY Zenon, <1>6, <2>2, NewlyAcked
    <3>2. Accounted(e) /\ e \in Events
      BY Zenon, <1>1, <1>3, <3>1
    <3> QED BY Zenon, <1>2, <3>2
  <2> QED BY Zenon, <2>1, <2>2
<1> QED BY Zenon, <1>4, <1>5, <1>6 DEF AckInv

\* Only a failed settlement can swallow a report: when none fails, an event that
\* the control plane has acknowledged was settled, or a handler is about to
\* settle it, or that handler was cut off.  The handler of a duplicate answers at
\* once (record_batch accepts nothing), but then the first handler's settlement
\* is still to come.
THEOREM AckedIsAccounted ==
  ASSUME "settle" \notin Faults
  PROVE  Spec => []AckedAccounted
<1>1. Init => TypeOK /\ RowSettledOrOwned /\ AckInv
  <2> SUFFICES ASSUME Init PROVE AckInv
    BY Zenon, InitTypeOK DEF Init, RowSettledOrOwned
  <2>1. acked = {} /\ \A h \in Handlers : handler[h].pc = "idle"
    BY Zenon DEF Init, IdleHandler
  <2> QED BY Zenon, <2>1 DEF AckInv
<1>2. TypeOK /\ RowSettledOrOwned /\ AckInv /\ [Next]_vars
      => TypeOK' /\ RowSettledOrOwned' /\ AckInv'
  BY Zenon, NextTypeOK, NextOwned, NextAckInv
<1>3. AckInv => AckedAccounted
  BY Zenon DEF AckInv, AckedAccounted, Accounted
<1> QED BY <1>1, <1>2, <1>3, PTL DEF Spec

\* And when no handler is cut off either, every acknowledged event is settled or
\* about to be: the other faults, a lost response, a failed insert or quota
\* write, and log cleanup, swallow nothing.
THEOREM NothingIsSwallowed ==
  ASSUME Faults \cap {"settle", "dropped", "restart"} = {}
  PROVE  Spec => []RetryNotSwallowed
<1>1. "settle" \notin Faults /\ "dropped" \notin Faults /\ "restart" \notin Faults
  BY Zenon
<1> DEFINE Inv == orphaned = {} /\ AckInv
<1>2. Init => TypeOK /\ RowSettledOrOwned /\ Inv
  <2> SUFFICES ASSUME Init PROVE Inv
    BY Zenon, InitTypeOK DEF Init, RowSettledOrOwned
  <2>1. acked = {} /\ orphaned = {} /\ \A h \in Handlers : handler[h].pc = "idle"
    BY Zenon DEF Init, IdleHandler
  <2> QED BY Zenon, <2>1 DEF AckInv
<1>3. AckInv /\ [Next]_vars => orphaned' = orphaned
  BY Zenon, <1>1
     DEF AckInv, Next, Serve, Around, vars, Report, Submit, ReceiveOk, ReceiveError, GiveUp,
         Record, RecordFailed, Settle, SettleFailed, Discard, DiscardFailed, Apply,
         ApplyFailed, Unheard, Dropped, Restart, Cleanup
<1>4. TypeOK /\ RowSettledOrOwned /\ Inv /\ [Next]_vars
      => TypeOK' /\ RowSettledOrOwned' /\ Inv'
  BY Zenon, <1>1, <1>3, NextTypeOK, NextOwned, NextAckInv
<1>5. Inv => RetryNotSwallowed
  BY Zenon DEF AckInv, RetryNotSwallowed, Accounted
<1> QED BY <1>2, <1>4, <1>5, PTL DEF Spec

=============================================================================
