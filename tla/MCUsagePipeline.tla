-------------------------- MODULE MCUsagePipeline --------------------------
(***************************************************************************)
(* Instances of UsagePipeline: a gateway worker with two report tasks and  *)
(* a control plane that runs two handlers at a time.                       *)
(***************************************************************************)
EXTENDS UsagePipeline

\* Everything that ends a request early, or removes rows.
ProcessFaults == {"lost", "dropped", "restart", "cleanup"}

\* The network and the stores fail, but no settlement does.
NetworkFaults == {"lost", "record", "apply"}

=============================================================================
