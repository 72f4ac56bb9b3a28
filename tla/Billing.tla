------------------------------ MODULE Billing ------------------------------
(***************************************************************************)
(* What usage reporting promises: the usage of a request is charged once,  *)
(* in one batch or another, and the gateway stops reporting it only after  *)
(* it has been charged.                                                    *)
(***************************************************************************)
EXTENDS Naturals

CONSTANT Events

VARIABLES
  charges,   \* how often each request was charged
  confirmed  \* the requests that the gateway no longer reports

vars == <<charges, confirmed>>

Init ==
  /\ charges = [e \in Events |-> 0]
  /\ confirmed = {}

Charge(batch) ==
  /\ \A e \in batch : charges[e] = 0
  /\ charges' = [e \in Events |-> IF e \in batch THEN 1 ELSE charges[e]]
  /\ UNCHANGED confirmed

Confirm(batch) ==
  /\ \A e \in batch : charges[e] = 1
  /\ confirmed' = confirmed \cup batch
  /\ UNCHANGED charges

Next == \E batch \in SUBSET Events : Charge(batch) \/ Confirm(batch)

Spec == Init /\ [][Next]_vars

=============================================================================
