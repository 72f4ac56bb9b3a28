------------------------------ MODULE MCControl ------------------------------
(***************************************************************************)
(* Services of the control API for TLC: quota accounting, system tasks,    *)
(* channel credentials, and codes, top-ups and check-ins.  A behaviour is  *)
(* of one service, chosen at the start; the others stay as they are.       *)
(***************************************************************************)
EXTENDS Settlement, SystemTask, ChannelCredential, Credits, TLC

CONSTANTS
  Services,     \* the services that are checked
  alice, bob,   \* users
  openai        \* a channel

VARIABLE service  \* the one that moves

control_vars == <<service, settlement_vars, task_vars, credential_vars, credit_vars>>

-----------------------------------------------------------------------------
(***************************************************************************)
(* Quota accounting: a token of the first user and an id that is free, and *)
(* quotas from -4 to 4, so that sums meet their bounds within a few writes *)
(***************************************************************************)

MCQuotaMin == -4

MCInitialTokens ==
  [t \in TokenIds |->
     IF t = 1 THEN [user_id |-> alice, remain_quota |-> 3, used_quota |-> 0,
                    unlimited_quota |-> FALSE, status |-> Enabled]
     ELSE None]

Event(token, user, status, quota, observed, price, reserved) ==
  [token_id |-> token, user_id |-> user, channel_id |-> openai,
   status |-> status, quota |-> quota, observed |-> observed, price |-> price,
   pre_consumed_quota |-> reserved]

\* Costs more than was reserved for it.
Overran == Event(1, alice, "Success", None, TRUE, 3, 2)
\* Failed upstream: the reservation is refunded.
Refunded == Event(1, alice, "UpstreamError", None, FALSE, 0, 2)
\* Succeeded, but the upstream sent no usage: the reservation is kept.
Unmetered == Event(1, alice, "Success", None, FALSE, 0, 2)
\* Carries its quota and no reservation, for a token that may be gone.
Explicit == Event(2, bob, "Success", 3, FALSE, 0, None)
\* Neither the token nor the user is known.
Unknown == Event(2, None, "Success", None, TRUE, 1, None)

MCUsageBatches == {<<Overran, Refunded>>, <<Unmetered, Unknown>>, <<Explicit>>}

MCAdmissions ==
  {[Overran EXCEPT !.channel_id = None, !.price = 2],
   [Explicit EXCEPT !.channel_id = None]}

-----------------------------------------------------------------------------
\* What stays is pinned to one initial state.
Init ==
  /\ service \in Services
  /\ SettlementInit /\ TaskInit /\ CredentialInit /\ CreditInit
  /\ service # "tasks" => task_type = CHOOSE t \in TaskTypes : TRUE
  /\ service # "credentials" => auto_disable

Next ==
  /\ UNCHANGED service
  /\ \/ /\ service = "settlement" /\ SettlementNext
        /\ UNCHANGED <<task_vars, credential_vars, credit_vars>>
     \/ /\ service = "tasks" /\ TaskNext
        /\ UNCHANGED <<settlement_vars, credential_vars, credit_vars>>
     \/ /\ service = "credentials" /\ CredentialNext
        /\ UNCHANGED <<settlement_vars, task_vars, credit_vars>>
     \/ /\ service = "credits" /\ CreditNext
        /\ UNCHANGED <<settlement_vars, task_vars, credential_vars>>

Spec == Init /\ [][Next]_control_vars

\* The state of every service is well formed; in particular no sum of quotas
\* leaves the range of i64, as saturating arithmetic sees to.
ControlTypeOK == SettlementTypeOK /\ TaskTypeOK /\ CredentialTypeOK /\ CreditTypeOK

\* The handlers are alike, which the services name by the same values, and so
\* are the users.  (Runners are not: a free one is chosen.)
Alike == Permutations(Writers) \cup Permutations(CreditUsers)

==============================================================================
