----------------------------- MODULE MCExchange -----------------------------
(***************************************************************************)
(* What gateways and the control plane exchange, for TLC: usage reports on *)
(* their way up while the stores fail now and then (UsagePipeline), and    *)
(* snapshots on their way down under every fault (SnapshotSync).  A        *)
(* behaviour is of one of the two, chosen at the start; the other stays as *)
(* it is.                                                                  *)
(***************************************************************************)
EXTENDS UsagePipeline, SnapshotSync, TLC

CONSTANT Directions \* the directions that are checked

VARIABLE direction  \* the one that moves

exchange_vars == <<direction, all_vars, snapshot_vars>>

\* The stores fail now and then, and every response arrives.
StorageFaults == {"record", "settle", "apply"}

-----------------------------------------------------------------------------
Init == direction \in Directions /\ PipelineInit /\ SnapshotInit

Next ==
  /\ UNCHANGED direction
  /\ \/ direction = "reports" /\ PipelineNext /\ UNCHANGED snapshot_vars
     \/ direction = "snapshots" /\ SnapshotNext /\ UNCHANGED all_vars

Spec == Init /\ [][Next]_exchange_vars

\* The handlers that publish, and the workers, are interchangeable.
ExchangeSymmetry == Permutations(Publishers) \cup Permutations(Workers)

=============================================================================
