--------------------------- MODULE ControlProofs ---------------------------
(***************************************************************************)
(* The services of the control API side by side (MCControl): a behaviour   *)
(* of the whole is one of each service, so that what SettlementProofs and  *)
(* ServiceProofs show of a service holds of the whole, for every value of  *)
(* the constants.                                                          *)
(***************************************************************************)
EXTENDS MCControl, SettlementProofs, ServiceProofs, TLAPS

\* Each service takes its own steps or rests while another one moves.
THEOREM ControlRunsServices ==
  Spec => SettlementSpec /\ TaskSpec /\ CredentialSpec /\ CreditSpec
<1>1. Init => SettlementInit /\ TaskInit /\ CredentialInit /\ CreditInit
  BY Zenon DEF Init
<1>2. [Next]_control_vars => /\ [SettlementNext]_settlement_vars
                             /\ [TaskNext]_task_vars
                             /\ [CredentialNext]_credential_vars
                             /\ [CreditNext]_credit_vars
  BY Zenon DEF Next, control_vars
<1> QED BY <1>1, <1>2, PTL DEF Spec, SettlementSpec, TaskSpec, CredentialSpec, CreditSpec

\* The state of every service stays well formed, whatever moves and whatever the
\* constants are; in particular no sum of quotas leaves the range of i64.
THEOREM ControlIsTyped == Spec => []ControlTypeOK
<1>1. SettlementInv /\ TaskInv /\ CredentialInv /\ CreditInv => ControlTypeOK
  BY Zenon DEF SettlementInv, TaskInv, CredentialInv, CreditInv, ControlTypeOK
<1> QED BY <1>1, ControlRunsServices, SettlementInvariant, TaskInvariant,
           CredentialInvariant, CreditInvariant, PTL

\* What the services promise holds while they run side by side: the books of the
\* memory copy and the database agree and conserve quota, a system task has one
\* runner and a table that is not ahead, refresh tokens are sent once, and codes,
\* top-ups and check-ins give their quota once.
THEOREM ControlKeepsPromises ==
  Spec => /\ [](MemoryMatchesDatabase /\ QuotaConserved /\ AdmissionWithinQuota)
          /\ [](OneRunnerWorks /\ RowsNeverAhead)
          /\ [](ReuseOnlyAfterLoss /\ GivenOnce /\ UsedCodeIsPaid)
          /\ VersionedChanges /\ DisablesRejectedOnly
  BY ControlRunsServices, MemoryFollowsDatabase, SettlementConserves, AdmissionsWithinQuota,
     RunnerIsAlone, TableFollows, RefreshTokensSentOnce, QuotaIsGivenOnce, UsedCodesArePaid,
     ChangesAreVersioned, FeedbackDisablesRejected, PTL

=============================================================================
