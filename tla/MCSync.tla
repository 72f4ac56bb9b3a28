------------------------------- MODULE MCSync -------------------------------
(***************************************************************************)
(* What has to get through in the end, for TLC: changes to the gateway     *)
(* workers (SnapshotSync), writes to the other processes that share a      *)
(* database (ReplicatedManagement), and tasks to their runners             *)
(* (SystemTask).  A behaviour is of one of them, chosen at the start; the  *)
(* others stay as they are.                                                *)
(***************************************************************************)
EXTENDS SnapshotSync, ReplicatedManagement, SystemTask, TLC

CONSTANT Services \* the services that are checked

VARIABLE service  \* the one that moves

sync_vars == <<service, snapshot_vars, replica_vars, task_vars>>

-----------------------------------------------------------------------------
\* What may go wrong with snapshots: polls fail and handlers are cut off, but
\* every process keeps running; the usage store fails after a settlement.
TransientFaults == {"bump", "apply", "silent", "lost", "unindexed"}
UsageStoreFault == {"apply"}

\* Settlements and reservations touch different tables, an edit one of them.
MCTouches == (Settle :> {"users", "channels"}) @@ (Reserve :> {"users"})
               @@ ("edit" :> {"channels"})
MCTableOrder == <<"users", "channels">>

-----------------------------------------------------------------------------
Init ==
  /\ service \in Services
  /\ SnapshotInit /\ ReplicaInit /\ TaskInit
  /\ service # "tasks" => task_type = CHOOSE t \in TaskTypes : TRUE

Next ==
  /\ UNCHANGED service
  /\ \/ service = "snapshots" /\ SnapshotNext /\ UNCHANGED <<replica_vars, task_vars>>
     \/ service = "replicas" /\ ReplicaNext /\ UNCHANGED <<snapshot_vars, task_vars>>
     \/ service = "tasks" /\ TaskNext /\ UNCHANGED <<snapshot_vars, replica_vars>>

Spec == Init /\ [][Next]_sync_vars

(***************************************************************************)
(* Fairness of the part that moves.                                        *)
(*                                                                         *)
(* Snapshots: the runtime runs every handler that has begun; of the thirty *)
(* attempts of a worker to load its first snapshot one succeeds; a worker  *)
(* polls whenever its interval elapses; and of the polls it makes again    *)
(* and again some succeed.                                                 *)
(*                                                                         *)
(* Replicas: the handlers run, and gateways keep reporting usage to every  *)
(* process, which is not busy with other writes every time.                *)
(***************************************************************************)
Moves(s, A) == service = s /\ A

Fairness ==
  /\ \A h \in Publishers : WF_snapshot_vars(Moves("snapshots", Announce(h)))
  /\ \A w \in Workers :
       /\ WF_snapshot_vars(Moves("snapshots", Load(w)))
       /\ WF_snapshot_vars(Moves("snapshots", Poll(w)))
       /\ WF_snapshot_vars(Moves("snapshots", Receive(w)))
       /\ SF_snapshot_vars(Moves("snapshots", Updated(w)))
  /\ \A p \in Replicas :
       /\ WF_replica_vars(Moves("replicas", Step(p) /\ UNCHANGED faults))
       /\ SF_replica_vars(Moves("replicas", Plan(p, Settle) /\ UNCHANGED faults))
  /\ TaskFairness

FairSpec == Spec /\ Fairness

\* Converges, of the behaviours in which snapshots move: when changes stop, every
\* worker ends up with the last of them.
SnapshotsConverge == service = "snapshots" => Converges

=============================================================================
