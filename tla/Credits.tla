------------------------------ MODULE Credits ------------------------------
(***************************************************************************)
(* Operations that give quota once: redemption codes and top-ups, kept in  *)
(* the billing store, and daily check-ins, kept in the check-in store.     *)
(* Each marks its item as used in its own store and then adds to the quota *)
(* of the user in the management store.                                    *)
(*                                                                         *)
(* The billing store changes its memory copy under a lock; then, without   *)
(* it, it reads the copy again and saves all of it, so that the save of a  *)
(* handler may replace a newer one.  The check-in store inserts the row    *)
(* first, and the memory copy follows.  A restart loads the tables.        *)
(***************************************************************************)
EXTENDS Naturals, FiniteSets

CONSTANTS
  Codes,       \* redemption codes
  TopUps,      \* trade numbers
  Days,        \* a user's days
  CreditUsers, \* users who redeem codes
  Creditors,   \* handlers
  MaxEnables,  \* bound on the codes an administrator enables again
  MaxDoubts,   \* bound on the credits of a code when one of them is in doubt
  MaxRestarts  \* bound on the restarts

ASSUME CreditsAssumption ==
  /\ MaxEnables \in Nat /\ MaxDoubts \in Nat /\ MaxRestarts \in Nat
  /\ IsFiniteSet(Creditors)
  /\ Codes \cap TopUps = {} /\ Codes \cap Days = {} /\ TopUps \cap Days = {}
  /\ CreditUsers \cap {"enabled", "disabled", "absent"} = {}

VARIABLES
  billing,   \* memory copy: a code's status, or the user who used it; a top-up's
  table,     \* what the tables hold of it
  days,      \* rows of check-ins
  creditor,  \* what each handler is doing
  credited,  \* how often the quota of an item was given
  enabled,   \* how often an administrator enabled a code
  restarts,  \* number of restarts
  reverted,  \* used items that became usable again: a restart found an older
             \* table, or a credit was written and an error returned for it
  unpaid     \* codes whose handler failed or was dropped before the quota

credit_vars ==
  <<billing, table, days, creditor, credited, enabled, restarts, reverted, unpaid>>

Items == Codes \cup TopUps \cup Days
Billing ==
  [code : [Codes -> {"enabled", "disabled", "absent"} \cup CreditUsers],
   topup : [TopUps -> {"pending", "success"}]]
NewBilling ==
  [code |-> [c \in Codes |-> "enabled"], topup |-> [t \in TopUps |-> "pending"]]

\* item and user: what the handler gives and to whom, {} when it gives nothing.
CreditorState ==
  [pc : {"idle", "read", "save", "credit"}, item : {{}} \cup {{i} : i \in Items},
   user : {{}} \cup {{u} : u \in CreditUsers}, copy : Billing]
IdleCreditor == [pc |-> "idle", item |-> {}, user |-> {}, copy |-> NewBilling]

CreditTypeOK ==
  /\ billing \in Billing /\ table \in Billing /\ days \subseteq Days
  /\ creditor \in [Creditors -> CreditorState]
  /\ credited \in [Items -> Nat] /\ enabled \in [Codes -> 0..MaxEnables]
  /\ restarts \in 0..MaxRestarts
  /\ reverted \subseteq Items /\ unpaid \subseteq Codes

CreditInit ==
  /\ billing = NewBilling /\ table = NewBilling /\ days = {}
  /\ creditor = [h \in Creditors |-> IdleCreditor]
  /\ credited = [i \in Items |-> 0] /\ enabled = [c \in Codes |-> 0]
  /\ restarts = 0 /\ reverted = {} /\ unpaid = {}

-----------------------------------------------------------------------------
\* The handler has changed the memory copy, and goes on to persist it.
Persisting(h, item, user) ==
  creditor' = [creditor EXCEPT ![h] =
    [IdleCreditor EXCEPT !.pc = "read", !.item = item, !.user = user]]

Quiet(h) == creditor' = [creditor EXCEPT ![h] = IdleCreditor]

\* Variant of Redeem: the status of the code is not looked at.
RedeemAny(h, c, u) ==
  /\ creditor[h].pc = "idle"
  /\ billing.code[c] \notin {"absent", "disabled"}
  /\ billing' = [billing EXCEPT !.code[c] = u]
  /\ Persisting(h, {c}, {u})
  /\ UNCHANGED <<table, days, credited, enabled, restarts, reverted, unpaid>>

\* RedeemRedemptionRequest: an enabled code is used, unless it has expired, which
\* it may at any time: a code that is never redeemed.
Redeem(h, c, u) ==
  /\ creditor[h].pc = "idle"
  /\ billing.code[c] = "enabled"
  /\ billing' = [billing EXCEPT !.code[c] = u]
  /\ Persisting(h, {c}, {u})
  /\ UNCHANGED <<table, days, credited, enabled, restarts, reverted, unpaid>>

\* CompleteTopUpRequest: a top-up that succeeded already gives nothing again.
CompleteTopUp(h, t) ==
  /\ creditor[h].pc = "idle"
  /\ billing' = [billing EXCEPT !.topup[t] = "success"]
  /\ Persisting(h, IF billing.topup[t] = "pending" THEN {t} ELSE {}, {})
  /\ UNCHANGED <<table, days, credited, enabled, restarts, reverted, unpaid>>

\* CreateCheckinRequest: the unique row of the day is inserted, or was there.
CheckIn(h, d) ==
  /\ creditor[h].pc = "idle"
  /\ d \notin days
  /\ days' = days \cup {d}
  /\ creditor' = [creditor EXCEPT ![h] = [IdleCreditor EXCEPT !.pc = "credit", !.item = {d}]]
  /\ UNCHANGED <<billing, table, credited, enabled, restarts, reverted, unpaid>>

\* UpdateRedemptionRequest, DeleteRedemptionRequest and
\* DeleteInvalidRedemptionsRequest; an update may leave the status alone.
\* "disabled" is every status that an update may set and no redemption takes, a
\* used status that was set by hand among them.
EditCode(h, c) ==
  /\ creditor[h].pc = "idle"
  /\ billing.code[c] # "absent"
  /\ \E status \in {billing.code[c], "disabled", "absent"} :
       billing' = [billing EXCEPT !.code[c] = status]
  /\ Persisting(h, {}, {})
  /\ UNCHANGED <<table, days, credited, enabled, restarts, reverted, unpaid>>

\* An update of the status alone enables any code again, used or not.
EnableCode(h, c) ==
  /\ creditor[h].pc = "idle"
  /\ billing.code[c] # "absent" /\ enabled[c] < MaxEnables
  /\ billing' = [billing EXCEPT !.code[c] = "enabled"]
  /\ enabled' = [enabled EXCEPT ![c] = @ + 1]
  /\ Persisting(h, {}, {})
  /\ UNCHANGED <<table, days, credited, restarts, reverted, unpaid>>

-----------------------------------------------------------------------------
\* persist reads the memory copy, which may have changed since.
ReadCopy(h) ==
  /\ creditor[h].pc = "read"
  /\ creditor' = [creditor EXCEPT ![h] = [@ EXCEPT !.pc = "save", !.copy = billing]]
  /\ UNCHANGED <<billing, table, days, credited, enabled, restarts, reverted, unpaid>>

\* save_billing replaces both tables in a transaction.
Saved(h) ==
  /\ creditor[h].pc = "save"
  /\ table' = creditor[h].copy
  /\ creditor' = [creditor EXCEPT ![h] =
       IF @.item = {} THEN IdleCreditor
       ELSE [IdleCreditor EXCEPT !.pc = "credit", !.item = creditor[h].item,
                                 !.user = creditor[h].user]]
  /\ UNCHANGED <<billing, days, credited, enabled, restarts, reverted, unpaid>>

\* The save fails, or the handler is dropped: nothing undoes the memory copy.
NotSaved(h) ==
  /\ creditor[h].pc = "save"
  /\ unpaid' = unpaid \cup (creditor[h].item \cap Codes)
  /\ Quiet(h)
  /\ UNCHANGED <<billing, table, days, credited, enabled, restarts, reverted>>

GiveQuota(h) ==
  credited' = [i \in Items |-> IF i \in creditor[h].item THEN credited[i] + 1 ELSE credited[i]]

\* AdjustUserQuotaRequest
Credit(h) ==
  /\ creditor[h].pc = "credit"
  /\ GiveQuota(h)
  /\ Quiet(h)
  /\ UNCHANGED <<billing, table, days, enabled, restarts, reverted, unpaid>>

\* rollback_redemption: the code can be used again, if it is still used by this
\* user; a top-up and a check-in stay as they are.
RollBack(h) ==
  LET rolled == {c \in Codes \cap creditor[h].item : billing.code[c] # "absent"} IN
  /\ billing' = [billing EXCEPT !.code =
       [c \in Codes |-> IF c \in rolled /\ creditor[h].user = {billing.code[c]}
                        THEN "enabled" ELSE billing.code[c]]]
  /\ IF rolled # {} THEN Persisting(h, {}, {}) ELSE Quiet(h)

\* Variant of CreditFails: a failed credit is only reported.
CreditFailsOnly(h) ==
  /\ creditor[h].pc = "credit"
  /\ Quiet(h)
  /\ UNCHANGED <<billing, table, days, credited, enabled, restarts, reverted, unpaid>>

\* It fails, and a redemption is rolled back.
CreditFails(h) ==
  /\ creditor[h].pc = "credit"
  /\ RollBack(h)
  /\ UNCHANGED <<table, days, credited, enabled, restarts, reverted, unpaid>>

\* The management store returns an error although the credit was committed.
CreditInDoubt(h) ==
  /\ creditor[h].pc = "credit"
  /\ \A i \in creditor[h].item : credited[i] < MaxDoubts
  /\ GiveQuota(h)
  /\ RollBack(h)
  /\ reverted' = reverted \cup (Codes \cap creditor[h].item)
  /\ UNCHANGED <<table, days, enabled, restarts, unpaid>>

\* The handler is dropped while it waits for the management store.
CreditDropped(h) ==
  /\ creditor[h].pc = "credit"
  /\ unpaid' = unpaid \cup (creditor[h].item \cap Codes)
  /\ Quiet(h)
  /\ UNCHANGED <<billing, table, days, credited, enabled, restarts, reverted>>

\* load_billing and load_checkins.
RestartCredits ==
  /\ restarts < MaxRestarts
  /\ restarts' = restarts + 1
  /\ billing' = table
  /\ reverted' = reverted
       \cup {c \in Codes : table.code[c] = "enabled" /\ billing.code[c] # "enabled"}
       \cup {t \in TopUps : table.topup[t] # billing.topup[t]}
  /\ unpaid' = unpaid \cup (Codes \cap UNION {creditor[h].item : h \in Creditors})
       \cup {c \in Codes : table.code[c] # billing.code[c]}
  /\ creditor' = [h \in Creditors |-> IdleCreditor]
  /\ UNCHANGED <<table, days, credited, enabled>>

-----------------------------------------------------------------------------
CreditNext ==
  \/ \E h \in Creditors :
       \/ \E c \in Codes :
            \/ \E u \in CreditUsers : Redeem(h, c, u)
            \/ EditCode(h, c) \/ EnableCode(h, c)
       \/ \E t \in TopUps : CompleteTopUp(h, t)
       \/ \E d \in Days : CheckIn(h, d)
       \/ ReadCopy(h) \/ Saved(h) \/ NotSaved(h)
       \/ Credit(h) \/ CreditFails(h) \/ CreditInDoubt(h) \/ CreditDropped(h)
  \/ RestartCredits

CreditSpec == CreditInit /\ [][CreditNext]_credit_vars

-----------------------------------------------------------------------------
(***************************************************************************)
(* Properties                                                              *)
(***************************************************************************)

\* An item gives its quota once, and a code once more each time that an
\* administrator enables it.  The exceptions are an item that a restart has
\* found unused, because an older copy was saved last, and a code whose credit
\* was committed and yet answered with an error, which rolled it back; for
\* check-ins, whose row is written first and stays, there is none.
GivenOnce ==
  /\ \A c \in Codes \ reverted : credited[c] <= 1 + enabled[c]
  /\ \A t \in TopUps \ reverted : credited[t] <= 1
  /\ \A d \in Days : credited[d] <= 1

\* A code that is used has given its quota or is about to, unless its handler
\* failed to save or was dropped: an error of the management store gives the
\* code back.
UsedCodeIsPaid ==
  \A c \in Codes : billing.code[c] \in CreditUsers =>
    \/ credited[c] > 0
    \/ c \in unpaid
    \/ \E h \in Creditors : c \in creditor[h].item

=============================================================================
