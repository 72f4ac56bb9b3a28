--------------------------- MODULE MCUsageIngest ---------------------------
(***************************************************************************)
(* Instances of UsageIngest: two events, and as many handlers as  *)
(* it takes for a report and two of its retries to run at the same time.   *)
(***************************************************************************)
EXTENDS UsageIngest, TLC

AnyFault == AllFaults

\* A settlement fails, and the gateway does not wait for it.
SlowSettlement == {"settle", "lost"}

IngestSymmetry == Permutations(Events) \cup Permutations(Handlers)

=============================================================================
