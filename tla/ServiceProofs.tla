---------------------------- MODULE ServiceProofs ----------------------------
(***************************************************************************)
(* Proofs about three services of the control API.  Credits: an item gives *)
(* its quota once, and a code that is used has given it, or will, unless   *)
(* its handler failed to save or was dropped.  ChannelCredential: a        *)
(* refresh token is sent again only when its successor was lost, and       *)
(* feedback disables a channel only for a token that upstreams rejected.   *)
(* SystemTask: one task of a type is active, one runner works at it, and   *)
(* the table never shows it further than it is.                            *)
(***************************************************************************)
EXTENDS Credits, ChannelCredential, SystemTask, FiniteSetTheorems, TLAPS


\* A condition as a number.
One(b) == IF b THEN 1 ELSE 0

\* The handlers that may still give the quota of an item.
Owners(i) == {h \in Creditors : i \in creditor[h].item}

\* A handler may still come to use the item.
Fresh(i) ==
  IF i \in Codes THEN billing.code[i] = "enabled"
  ELSE IF i \in TopUps THEN billing.topup[i] = "pending" ELSE i \notin days

\* How often an item may be given: a code once, and once more for every time an
\* administrator enabled it again.
Limit(i) == IF i \in Codes THEN 1 + enabled[i] ELSE 1

\* What was given, what handlers may still give, and what may still be used, is
\* no more than what may be given.
Ledgers ==
  \A i \in Items \ reverted :
    credited[i] + Cardinality(Owners(i)) + One(Fresh(i)) <= Limit(i)

\* A used code was paid, or lost its handler, or has the one of the user who
\* used it.
UseIsOwned ==
  \A c \in Codes, u \in CreditUsers : billing.code[c] = u =>
    \/ credited[c] > 0
    \/ c \in unpaid
    \/ \E h \in Creditors : c \in creditor[h].item /\ creditor[h].user = {u}

\* A handler without a request has no item.
IdleGivesNothing == \A h \in Creditors : creditor[h].pc = "idle" => creditor[h].item = {}

\* The inductive invariant.
CreditInv ==
  CreditTypeOK /\ reverted \cap Days = {} /\ IdleGivesNothing /\ Ledgers /\ UseIsOwned

-----------------------------------------------------------------------------
\* The initial contents, an idle handler and one that goes on to persist are
\* well formed.
LEMMA RecordTypes ==
  /\ NewBilling \in Billing
  /\ IdleCreditor \in CreditorState
  /\ IdleCreditor.pc = "idle" /\ IdleCreditor.item = {}
<1>1. NewBilling \in Billing
  BY Zenon DEF NewBilling, Billing
<1> HIDE DEF NewBilling, Billing
<1> QED
  BY Zenon, <1>1 DEF IdleCreditor, CreditorState

\* The handlers of an item can be counted.
LEMMA OwnersFinite ==
  ASSUME NEW i
  PROVE  /\ IsFiniteSet(Owners(i)) /\ Cardinality(Owners(i)) \in Nat
         /\ IsFiniteSet(Owners(i)') /\ Cardinality(Owners(i)') \in Nat
<1>1. Owners(i) \subseteq Creditors /\ Owners(i)' \subseteq Creditors
  BY Zenon DEF Owners
<1> QED
  BY Zenon, <1>1, CreditsAssumption, FS_Subset, FS_CardinalityType

\* The invariant holds initially.
LEMMA InitCreditInv == CreditInit => CreditInv
<1> SUFFICES ASSUME CreditInit PROVE CreditInv
  BY Zenon
<1> USE CreditsAssumption DEF CreditInit
<1>1. CreditTypeOK
  BY RecordTypes DEF CreditTypeOK
<1>2. IdleGivesNothing
  BY Zenon, RecordTypes DEF IdleGivesNothing
<1>3. Ledgers
  <2> SUFFICES ASSUME NEW i \in Items
               PROVE  credited[i] + Cardinality(Owners(i)) + One(Fresh(i)) <= Limit(i)
    BY Zenon DEF Ledgers
  <2>1. Owners(i) = {}
    BY Zenon, RecordTypes DEF Owners
  <2>2. Cardinality(Owners(i)) = 0
    BY Zenon, <2>1, FS_EmptySet
  <2>3. credited[i] = 0 /\ One(Fresh(i)) \in {0, 1} /\ Limit(i) = 1
    BY DEF One, Limit
  <2> QED
    BY <2>2, <2>3
<1>4. UseIsOwned
  BY Zenon DEF UseIsOwned, NewBilling
<1> QED
  BY Zenon, <1>1, <1>2, <1>3, <1>4 DEF CreditInv

-----------------------------------------------------------------------------
\* A step of one handler changes the number of owners of an item by that handler
\* alone.
LEMMA OwnersCount ==
  ASSUME NEW i, NEW h \in Creditors,
         \A k \in Creditors \ {h} : creditor'[k] = creditor[k]
  PROVE  Cardinality(Owners(i)') + One(i \in creditor[h].item)
           = Cardinality(Owners(i)) + One(i \in creditor'[h].item)
<1> DEFINE Others == Owners(i) \ {h}
<1>1. /\ Owners(i) = IF i \in creditor[h].item THEN Others \cup {h} ELSE Others
      /\ h \notin Others
  BY Zenon DEF Owners
<1>2. Owners(i)' = IF i \in creditor'[h].item THEN Others \cup {h} ELSE Others
  BY DEF Owners
<1>3. IsFiniteSet(Others)
  BY Zenon, OwnersFinite, FS_Subset
<1>4. /\ Cardinality(Others) \in Nat
      /\ Cardinality(Others \cup {h}) = Cardinality(Others) + 1
  BY Zenon, <1>1, <1>3, FS_AddElement, FS_CardinalityType
<1> HIDE DEF Others
<1> QED
  BY <1>1, <1>2, <1>4 DEF One

\* A step of a handler keeps the ledger of every item when what it adds to one
\* column it takes from another.
LEMMA BalancedStep ==
  ASSUME CreditTypeOK, CreditTypeOK', Ledgers, reverted \subseteq reverted',
         NEW h \in Creditors, \A k \in Creditors \ {h} : creditor'[k] = creditor[k],
         \A i \in Items \ reverted' :
           credited'[i] + One(i \in creditor'[h].item) + One(Fresh(i)') + Limit(i)
             <= credited[i] + One(i \in creditor[h].item) + One(Fresh(i)) + Limit(i)'
  PROVE  Ledgers'
<1> SUFFICES ASSUME NEW i \in Items \ reverted'
             PROVE  (credited[i] + Cardinality(Owners(i)) + One(Fresh(i)) <= Limit(i))'
  BY Zenon DEF Ledgers
<1>1. credited[i] \in Nat /\ credited'[i] \in Nat
  BY Zenon DEF CreditTypeOK
<1>2. Limit(i) \in Nat /\ Limit(i)' \in Nat
  BY CreditsAssumption DEF Limit, CreditTypeOK
<1>3. /\ One(i \in creditor'[h].item) \in Nat /\ One(Fresh(i)') \in Nat
      /\ One(i \in creditor[h].item) \in Nat /\ One(Fresh(i)) \in Nat
  BY Zenon DEF One
<1>4. credited[i] + Cardinality(Owners(i)) + One(Fresh(i)) <= Limit(i)
  BY Zenon DEF Ledgers
<1>5. Cardinality(Owners(i)') + One(i \in creditor[h].item)
        = Cardinality(Owners(i)) + One(i \in creditor'[h].item)
  BY Zenon, OwnersCount
<1>6. One(Fresh(i))' = One(Fresh(i)')
  BY Zenon DEF One
<1>7. Cardinality(Owners(i)) \in Nat /\ Cardinality(Owners(i)') \in Nat
  BY Zenon, OwnersFinite
<1> QED
  BY <1>1, <1>2, <1>3, <1>4, <1>5, <1>6, <1>7

\* In a step that makes a handler new, what is added to one column of a ledger is
\* taken from another, unless the step reverts the item.
Balanced(h, new) ==
  \A i \in Items \ reverted' :
    credited'[i] + One(i \in new.item) + One(Fresh(i)') + Limit(i)
      <= credited[i] + One(i \in creditor[h].item) + One(Fresh(i)) + Limit(i)'

\* A used code has the new handler, or is paid or given up, or was used before
\* and does not depend on this handler.
UsesKept(h, new) ==
  \A c \in Codes, u \in CreditUsers : billing'.code[c] = u =>
    \/ c \in new.item /\ new.user = {u}
    \/ credited'[c] > 0
    \/ c \in unpaid'
    \/ /\ billing.code[c] = u
       /\ ~(c \in creditor[h].item /\ creditor[h].user = {u})

\* What a step of one handler has to show, when it may revert items.
LEMMA RevertingStep ==
  ASSUME CreditInv, NEW h \in Creditors,
         NEW new \in CreditorState, creditor' = [creditor EXCEPT ![h] = new],
         new.pc = "idle" => new.item = {},
         reverted \subseteq reverted', reverted' \subseteq Codes \cup reverted,
         UNCHANGED restarts, billing' \in Billing, table' \in Billing, days' \subseteq Days,
         credited' \in [Items -> Nat], enabled' \in [Codes -> 0..MaxEnables],
         unpaid \subseteq unpaid', unpaid' \subseteq Codes,
         \A i \in Items : credited[i] <= credited'[i],
         Balanced(h, new), UsesKept(h, new)
  PROVE  CreditInv'
<1> USE DEF CreditInv
<1>1. CreditTypeOK' /\ (reverted \cap Days = {})'
  <2>1. reverted' \subseteq Items /\ (reverted \cap Days = {})'
    BY Zenon, CreditsAssumption DEF CreditTypeOK, Items
  <2> QED
    BY Zenon, <2>1 DEF CreditTypeOK
<1>2. \A k \in Creditors : creditor'[k] = IF k = h THEN new ELSE creditor[k]
  BY Zenon DEF CreditTypeOK
<1>3. IdleGivesNothing'
  BY Zenon, <1>2 DEF IdleGivesNothing
<1>4. Ledgers'
  BY Zenon, <1>1, <1>2, BalancedStep DEF Balanced
<1>5. UseIsOwned'
  <2> SUFFICES ASSUME NEW c \in Codes, NEW u \in CreditUsers, billing'.code[c] = u
               PROVE  \/ credited'[c] > 0
                      \/ c \in unpaid'
                      \/ \E k \in Creditors : c \in creditor'[k].item /\ creditor'[k].user = {u}
    BY Zenon DEF UseIsOwned
  <2>1. CASE c \in new.item /\ new.user = {u}
    BY Zenon, <1>2, <2>1
  <2>2. CASE /\ billing.code[c] = u
             /\ ~(c \in creditor[h].item /\ creditor[h].user = {u})
    <3>1. c \in Items /\ credited[c] \in Nat /\ credited'[c] \in Nat /\ credited[c] <= credited'[c]
      BY Zenon DEF Items, CreditTypeOK
    <3>2. CASE credited[c] > 0
      BY <3>1, <3>2
    <3>3. CASE c \in unpaid
      BY Zenon, <3>3
    <3>4. CASE \E k \in Creditors : c \in creditor[k].item /\ creditor[k].user = {u}
      BY Zenon, <1>2, <2>2, <3>4
    <3> QED
      BY Zenon, <2>2, <3>2, <3>3, <3>4 DEF UseIsOwned
  <2> QED
    BY Zenon, <2>1, <2>2 DEF UsesKept
<1> QED
  BY Zenon, <1>1, <1>3, <1>4, <1>5

\* What it has to show when it reverts none.
LEMMA HandlerStep ==
  ASSUME CreditInv, NEW h \in Creditors,
         NEW new \in CreditorState, creditor' = [creditor EXCEPT ![h] = new],
         new.pc = "idle" => new.item = {},
         UNCHANGED <<reverted, restarts>>,
         billing' \in Billing, table' \in Billing, days' \subseteq Days,
         credited' \in [Items -> Nat], enabled' \in [Codes -> 0..MaxEnables],
         unpaid \subseteq unpaid', unpaid' \subseteq Codes,
         \A i \in Items : credited[i] <= credited'[i],
         Balanced(h, new), UsesKept(h, new)
  PROVE  CreditInv'
<1>1. reverted \subseteq reverted' /\ reverted' \subseteq Codes \cup reverted /\ UNCHANGED restarts
  BY Zenon
<1> QED
  BY Zenon, <1>1, RevertingStep

-----------------------------------------------------------------------------
\* A handler that starts, on an item it will give or on nothing.
LEMMA PersistingState ==
  ASSUME NEW h \in Creditors, NEW item \in {{}} \cup {{i} : i \in Items},
         NEW user \in {{}} \cup {{u} : u \in CreditUsers}, Persisting(h, item, user)
  PROVE  \E new \in CreditorState :
           /\ creditor' = [creditor EXCEPT ![h] = new]
           /\ new.pc # "idle" /\ new.item = item /\ new.user = user
<1> DEFINE new == [IdleCreditor EXCEPT !.pc = "read", !.item = item, !.user = user]
<1>1. /\ new \in CreditorState
      /\ new.pc # "idle" /\ new.item = item /\ new.user = user
  BY Zenon, RecordTypes DEF CreditorState
<1>2. creditor' = [creditor EXCEPT ![h] = new]
  BY Zenon DEF Persisting
<1> HIDE DEF new
<1> QED
  BY Zenon, <1>1, <1>2

\* Writing one code, or one top-up, of the memory copy.
LEMMA CodeWritten ==
  ASSUME billing \in Billing, NEW c \in Codes,
         NEW value \in {"enabled", "disabled", "absent"} \cup CreditUsers,
         billing' = [billing EXCEPT !.code[c] = value]
  PROVE  /\ billing' \in Billing /\ billing'.topup = billing.topup
         /\ \A k \in Codes : billing'.code[k] = IF k = c THEN value ELSE billing.code[k]
  BY Zenon DEF Billing

\* An order that is written as paid, field by field.
LEMMA TopUpWritten ==
  ASSUME billing \in Billing, NEW t \in TopUps,
         billing' = [billing EXCEPT !.topup[t] = "success"]
  PROVE  /\ billing' \in Billing /\ billing'.code = billing.code
         /\ \A k \in TopUps : billing'.topup[k] = IF k = t THEN "success" ELSE billing.topup[k]
  BY Zenon DEF Billing

\* Redeem and the edits of an administrator: a code is written by a handler that
\* was idle.
LEMMA CodeStep ==
  ASSUME CreditInv, NEW h \in Creditors, NEW c \in Codes,
         NEW value \in {"enabled", "disabled", "absent"} \cup CreditUsers,
         NEW user \in {{}} \cup {{u} : u \in CreditUsers},
         NEW item \in {{}, {c}},
         creditor[h].pc = "idle",
         billing' = [billing EXCEPT !.code[c] = value],
         Persisting(h, item, user),
         enabled' \in [Codes -> 0..MaxEnables],
         \A k \in Codes \ {c} : enabled'[k] = enabled[k],
         UNCHANGED <<table, days, credited, restarts, reverted, unpaid>>,
         \* it is redeemed, or left as it was or closed, or enabled again
         \/ item = {c} /\ billing.code[c] = "enabled" /\ user = {value} /\ enabled' = enabled
         \/ item = {} /\ value \in {"disabled", "absent", billing.code[c]} /\ enabled' = enabled
         \/ item = {} /\ value = "enabled" /\ enabled'[c] = enabled[c] + 1
  PROVE  CreditInv'
<1> USE CreditsAssumption
<1>1. CreditTypeOK /\ billing \in Billing /\ creditor[h].item = {}
  BY Zenon DEF CreditInv, CreditTypeOK, IdleGivesNothing
<1>2. item \in {{}} \cup {{i} : i \in Items}
  BY Zenon DEF Items
<1>3. PICK new \in CreditorState :
        /\ creditor' = [creditor EXCEPT ![h] = new]
        /\ new.pc # "idle" /\ new.item = item /\ new.user = user
  BY <1>2, PersistingState
<1>4. /\ billing' \in Billing /\ billing'.topup = billing.topup
      /\ \A k \in Codes : billing'.code[k] = IF k = c THEN value ELSE billing.code[k]
  BY Zenon, <1>1, CodeWritten
<1>5. Balanced(h, new)
  <2> SUFFICES ASSUME NEW i \in Items
               PROVE  credited'[i] + One(i \in new.item) + One(Fresh(i)') + Limit(i)
                        <= credited[i] + One(i \in creditor[h].item) + One(Fresh(i)) + Limit(i)'
    BY Zenon DEF Balanced
  <2>1. credited[i] \in Nat /\ credited' = credited
    BY Zenon, <1>1 DEF CreditTypeOK
  <2>2. CASE i = c
    <3>1. Fresh(i)' = (value = "enabled") /\ Fresh(i) = (billing.code[c] = "enabled")
      BY Zenon, <1>4, <2>2 DEF Fresh
    <3>2. Limit(i) = 1 + enabled[c] /\ Limit(i)' = 1 + enabled'[c] /\ enabled[c] \in Nat /\ enabled'[c] \in Nat
      BY <1>1, <2>2 DEF Limit, CreditTypeOK
    <3>3. One(i \in creditor[h].item) = 0 /\ One(i \in new.item) = One(item = {c})
      BY Zenon, <1>1, <1>3, <2>2 DEF One
    <3>4. item = {c} => value \in CreditUsers
      <4> SUFFICES ASSUME item = {c} PROVE value \in CreditUsers
        BY Zenon
      <4>1. item # {}
        BY Zenon
      <4>2. user = {value} /\ user # {}
        BY Zenon, <4>1
      <4>3. PICK u \in CreditUsers : user = {u}
        BY Zenon, <4>2
      <4> QED
        BY Zenon, <4>2, <4>3
    <3>5. One(item = {c}) = 1 => billing.code[c] = "enabled" /\ value # "enabled" /\ enabled' = enabled
      BY <3>4 DEF One
    <3>6. One(item = {c}) = 0 =>
            \/ value = "enabled" /\ enabled'[c] = enabled[c] + 1
            \/ (value = "enabled" => billing.code[c] = "enabled") /\ enabled' = enabled
      BY Zenon DEF One
    <3>7. One(item = {c}) \in {0, 1}
      BY Zenon DEF One
    <3>8. One(Fresh(i)') = (IF value = "enabled" THEN 1 ELSE 0)
          /\ One(Fresh(i)) = (IF billing.code[c] = "enabled" THEN 1 ELSE 0)
      BY Zenon, <3>1 DEF One
    <3> QED
      BY <2>1, <3>2, <3>3, <3>5, <3>6, <3>7, <3>8
  <2>3. CASE i # c
    <3>1. Fresh(i)' = Fresh(i)
      BY ZenonT(30), <1>4, <2>3 DEF Fresh
    <3>2. Limit(i)' = Limit(i) /\ Limit(i) \in Nat
      BY <1>1, <2>3 DEF Limit, CreditTypeOK
    <3>3. One(i \in creditor[h].item) = 0 /\ One(i \in new.item) = 0
      BY Zenon, <1>1, <1>3, <2>3 DEF One
    <3> QED
      BY <2>1, <3>1, <3>2, <3>3 DEF One
  <2> QED
    BY Zenon, <2>2, <2>3
<1>6. UsesKept(h, new)
  BY ZenonT(30), <1>1, <1>3, <1>4 DEF UsesKept
<1>7. /\ table' \in Billing /\ days' \subseteq Days /\ credited' \in [Items -> Nat]
      /\ unpaid \subseteq unpaid' /\ unpaid' \subseteq Codes
      /\ \A i \in Items : credited[i] <= credited'[i]
  BY <1>1 DEF CreditTypeOK
<1>8. new.pc = "idle" => new.item = {}
  BY Zenon, <1>3
<1>9. UNCHANGED <<reverted, restarts>>
  BY Zenon
<1> QED
  BY Zenon, <1>3, <1>4, <1>5, <1>6, <1>7, <1>8, <1>9, HandlerStep

\* Redeeming, editing and enabling a code preserve the invariant.
LEMMA CodesKeepInv ==
  ASSUME CreditInv, NEW h \in Creditors, NEW c \in Codes,
         (\E u \in CreditUsers : Redeem(h, c, u)) \/ EditCode(h, c) \/ EnableCode(h, c)
  PROVE  CreditInv'
<1>1. CreditTypeOK /\ enabled \in [Codes -> 0..MaxEnables]
  BY Zenon DEF CreditInv, CreditTypeOK
<1>2. billing.code[c] \in {"enabled", "disabled", "absent"} \cup CreditUsers
  BY Zenon, <1>1 DEF CreditTypeOK, Billing
<1>3. ASSUME NEW u \in CreditUsers, Redeem(h, c, u) PROVE CreditInv'
  <2>1. {u} \in {{}} \cup {{v} : v \in CreditUsers} /\ {c} \in {{}, {c}}
    BY Zenon
  <2>2. enabled' = enabled /\ UNCHANGED <<table, days, credited, restarts, reverted, unpaid>>
    BY Zenon, <1>3 DEF Redeem
  <2>3. /\ creditor[h].pc = "idle" /\ billing.code[c] = "enabled"
        /\ billing' = [billing EXCEPT !.code[c] = u] /\ Persisting(h, {c}, {u})
    BY Zenon, <1>3 DEF Redeem
  <2>4. u \in {"enabled", "disabled", "absent"} \cup CreditUsers
    BY Zenon
  <2> QED
    BY Zenon, <1>1, <2>1, <2>2, <2>3, <2>4, CodeStep
<1>4. {} \in {{}} \cup {{v} : v \in CreditUsers} /\ {} \in {{}, {c}}
  BY Zenon
<1>5. CASE EditCode(h, c)
  <2>1. PICK status \in {billing.code[c], "disabled", "absent"} :
          billing' = [billing EXCEPT !.code[c] = status]
    BY Zenon, <1>5 DEF EditCode
  <2>2. enabled' = enabled /\ UNCHANGED <<table, days, credited, restarts, reverted, unpaid>>
    BY Zenon, <1>5 DEF EditCode
  <2>3. creditor[h].pc = "idle" /\ Persisting(h, {}, {})
    BY Zenon, <1>5 DEF EditCode
  <2>4. status \in {"enabled", "disabled", "absent"} \cup CreditUsers
    BY Zenon, <1>2, <2>1
  <2> QED
    BY Zenon, <1>1, <1>4, <2>1, <2>2, <2>3, <2>4, CodeStep
<1>6. CASE EnableCode(h, c)
  <2>1. /\ enabled[c] < MaxEnables /\ enabled' = [enabled EXCEPT ![c] = @ + 1]
        /\ UNCHANGED <<table, days, credited, restarts, reverted, unpaid>>
    BY Zenon, <1>6 DEF EnableCode
  <2>2. /\ enabled' \in [Codes -> 0..MaxEnables] /\ enabled'[c] = enabled[c] + 1
        /\ \A k \in Codes \ {c} : enabled'[k] = enabled[k]
    BY <1>1, <2>1, CreditsAssumption
  <2>3. /\ creditor[h].pc = "idle" /\ Persisting(h, {}, {})
        /\ billing' = [billing EXCEPT !.code[c] = "enabled"]
    BY Zenon, <1>6 DEF EnableCode
  <2> QED
    BY Zenon, <1>4, <2>1, <2>2, <2>3, CodeStep
<1> QED
  BY Zenon, <1>3, <1>5, <1>6

\* A step that writes no code and uses no item: the handler keeps what it gives,
\* or gives up, and gives up its code with it.
LEMMA KeptStep ==
  ASSUME CreditInv, NEW h \in Creditors,
         NEW new \in CreditorState, creditor' = [creditor EXCEPT ![h] = new],
         new.pc = "idle" => new.item = {},
         UNCHANGED <<billing, days, credited, enabled, restarts, reverted>>,
         table' \in Billing, unpaid \subseteq unpaid', unpaid' \subseteq Codes,
         \/ new.item = creditor[h].item /\ new.user = creditor[h].user
         \/ new.item = {} /\ creditor[h].item \cap Codes \subseteq unpaid'
  PROVE  CreditInv'
<1>1. CreditTypeOK
  BY Zenon DEF CreditInv
<1>2. Balanced(h, new)
  <2> SUFFICES ASSUME NEW i \in Items
               PROVE  credited'[i] + One(i \in new.item) + One(Fresh(i)') + Limit(i)
                        <= credited[i] + One(i \in creditor[h].item) + One(Fresh(i)) + Limit(i)'
    BY Zenon DEF Balanced
  <2>1. credited[i] \in Nat /\ credited'[i] = credited[i]
    BY Zenon, <1>1 DEF CreditTypeOK
  <2>2. Fresh(i)' = Fresh(i)
    BY Zenon DEF Fresh
  <2>3. Limit(i)' = Limit(i) /\ Limit(i) \in Nat
    BY <1>1, CreditsAssumption DEF Limit, CreditTypeOK
  <2>4. i \in new.item => i \in creditor[h].item
    BY Zenon
  <2> QED
    BY <2>1, <2>2, <2>3, <2>4 DEF One
<1>3. UsesKept(h, new)
  BY Zenon DEF UsesKept
<1>4. /\ billing' \in Billing /\ days' \subseteq Days /\ credited' \in [Items -> Nat]
      /\ enabled' \in [Codes -> 0..MaxEnables]
      /\ \A i \in Items : credited[i] <= credited'[i]
  BY <1>1 DEF CreditTypeOK
<1>5. UNCHANGED <<reverted, restarts>>
  BY Zenon
<1> QED
  BY Zenon, <1>2, <1>3, <1>4, <1>5, HandlerStep

\* Reading the copy, saving it and giving up preserve the invariant.
LEMMA SavingKeepsInv ==
  ASSUME CreditInv, NEW h \in Creditors,
         ReadCopy(h) \/ Saved(h) \/ NotSaved(h) \/ CreditDropped(h)
  PROVE  CreditInv'
<1>1. /\ CreditTypeOK /\ creditor[h] \in CreditorState /\ billing \in Billing
      /\ table \in Billing /\ unpaid \subseteq Codes
  BY Zenon DEF CreditInv, CreditTypeOK
<1>2. CASE ReadCopy(h)
  <2> DEFINE new == [creditor[h] EXCEPT !.pc = "save", !.copy = billing]
  <2>1. creditor' = [creditor EXCEPT ![h] = new]
    BY Zenon, <1>2 DEF ReadCopy
  <2>2. /\ new \in CreditorState /\ new.pc = "save"
        /\ new.item = creditor[h].item /\ new.user = creditor[h].user
    BY Zenon, <1>1 DEF CreditorState
  <2>3. UNCHANGED <<billing, days, credited, enabled, restarts, reverted>> /\ UNCHANGED <<table, unpaid>>
    BY Zenon, <1>2 DEF ReadCopy
  <2> HIDE DEF new
  <2> QED
    BY Zenon, <1>1, <2>1, <2>2, <2>3, KeptStep
<1>3. CASE Saved(h)
  <2> DEFINE next == [IdleCreditor EXCEPT !.pc = "credit", !.item = creditor[h].item,
                                          !.user = creditor[h].user]
             new == IF creditor[h].item = {} THEN IdleCreditor ELSE next
  <2>1. creditor' = [creditor EXCEPT ![h] = new]
    BY Zenon, <1>3 DEF Saved
  <2>2. next \in CreditorState /\ next.pc = "credit"
        /\ next.item = creditor[h].item /\ next.user = creditor[h].user
    BY Zenon, <1>1, RecordTypes DEF CreditorState
  <2>3. table' = creditor[h].copy /\ creditor[h].copy \in Billing
    BY Zenon, <1>1, <1>3 DEF Saved, CreditorState
  <2>4. UNCHANGED <<billing, days, credited, enabled, restarts, reverted>> /\ UNCHANGED unpaid
    BY Zenon, <1>3 DEF Saved
  <2> HIDE DEF next
  <2>5. /\ new \in CreditorState /\ (new.pc = "idle" => new.item = {})
        /\ \/ new.item = creditor[h].item /\ new.user = creditor[h].user
           \/ new.item = {} /\ creditor[h].item \cap Codes \subseteq unpaid'
    BY Zenon, <2>2, RecordTypes
  <2> HIDE DEF new
  <2> QED
    BY Zenon, <1>1, <2>1, <2>3, <2>4, <2>5, KeptStep
<1>4. CASE NotSaved(h) \/ CreditDropped(h)
  <2>1. /\ creditor' = [creditor EXCEPT ![h] = IdleCreditor]
        /\ unpaid' = unpaid \cup (creditor[h].item \cap Codes)
        /\ UNCHANGED <<billing, days, credited, enabled, restarts, reverted>> /\ UNCHANGED table
    BY Zenon, <1>4 DEF NotSaved, CreditDropped, Quiet
  <2> QED
    BY Zenon, <1>1, <2>1, RecordTypes, KeptStep
<1> QED
  BY Zenon, <1>2, <1>3, <1>4

-----------------------------------------------------------------------------
\* A top-up is completed by the handler that found it pending.
LEMMA TopUpKeepsInv ==
  ASSUME CreditInv, NEW h \in Creditors, NEW t \in TopUps, CompleteTopUp(h, t)
  PROVE  CreditInv'
<1> USE CreditsAssumption
<1>1. /\ CreditTypeOK /\ billing \in Billing /\ creditor[h].item = {}
      /\ UNCHANGED <<table, days, credited, enabled, unpaid>> /\ UNCHANGED <<reverted, restarts>>
  BY Zenon DEF CreditInv, CreditTypeOK, IdleGivesNothing, CompleteTopUp
<1>2. PICK item \in {{}} \cup {{i} : i \in Items}, user \in {{}} \cup {{u} : u \in CreditUsers} :
        /\ Persisting(h, item, user)
        /\ \A i : i \in item <=> i = t /\ billing.topup[t] = "pending"
  <2>1. /\ {t} \in {{}} \cup {{i} : i \in Items} /\ {} \in {{}} \cup {{i} : i \in Items}
        /\ {} \in {{}} \cup {{u} : u \in CreditUsers}
    BY Zenon DEF Items
  <2>2. CASE billing.topup[t] = "pending"
    <3>1. Persisting(h, {t}, {})
      BY Zenon, <2>2 DEF CompleteTopUp
    <3> QED
      BY Zenon, <2>1, <2>2, <3>1
  <2>3. CASE billing.topup[t] # "pending"
    <3>1. Persisting(h, {}, {})
      BY Zenon, <2>3 DEF CompleteTopUp
    <3> QED
      BY Zenon, <2>1, <2>3, <3>1
  <2> QED
    BY Zenon, <2>2, <2>3
<1>4. \A i : i \in item <=> i = t /\ billing.topup[t] = "pending"
  BY Zenon, <1>2
<1>5. PICK new \in CreditorState :
        /\ creditor' = [creditor EXCEPT ![h] = new]
        /\ new.pc # "idle" /\ new.item = item
  <2> DEFINE state == [IdleCreditor EXCEPT !.pc = "read", !.item = item, !.user = user]
  <2>1. creditor' = [creditor EXCEPT ![h] = state]
    BY Zenon, <1>2 DEF Persisting
  <2>2. state \in CreditorState /\ state.pc # "idle" /\ state.item = item
    BY Zenon, RecordTypes DEF CreditorState
  <2> HIDE DEF state
  <2> QED
    BY Zenon, <2>1, <2>2
<1>6. /\ billing' \in Billing /\ billing'.code = billing.code
      /\ \A k \in TopUps : billing'.topup[k] = IF k = t THEN "success" ELSE billing.topup[k]
  BY Zenon, <1>1, TopUpWritten DEF CompleteTopUp
<1>7. Balanced(h, new)
  <2> SUFFICES ASSUME NEW i \in Items
               PROVE  credited'[i] + One(i \in new.item) + One(Fresh(i)') + Limit(i)
                        <= credited[i] + One(i \in creditor[h].item) + One(Fresh(i)) + Limit(i)'
    BY Zenon DEF Balanced
  <2>1. credited[i] \in Nat /\ credited'[i] = credited[i]
    BY Zenon, <1>1 DEF CreditTypeOK
  <2>2. Limit(i)' = Limit(i) /\ Limit(i) \in Nat
    BY <1>1 DEF Limit, CreditTypeOK
  <2>3. One(i \in creditor[h].item) = 0
    BY Zenon, <1>1 DEF One
  <2>4. CASE i = t
    <3>1. ~Fresh(i)' /\ (i \in new.item => Fresh(i))
      BY Zenon, <1>4, <1>5, <1>6, <2>4 DEF Fresh
    <3> QED
      BY <2>1, <2>2, <2>3, <3>1 DEF One
  <2>5. CASE i # t
    <3>1. Fresh(i)' = Fresh(i) /\ i \notin new.item
      BY Zenon, <1>1, <1>4, <1>5, <1>6, <2>5 DEF Fresh
    <3> QED
      BY <2>1, <2>2, <2>3, <3>1 DEF One
  <2> QED
    BY Zenon, <2>4, <2>5
<1>8. UsesKept(h, new)
  BY Zenon, <1>1, <1>6 DEF UsesKept
<1>9. /\ table' \in Billing /\ days' \subseteq Days /\ credited' \in [Items -> Nat]
      /\ enabled' \in [Codes -> 0..MaxEnables]
      /\ unpaid \subseteq unpaid' /\ unpaid' \subseteq Codes
      /\ \A i \in Items : credited[i] <= credited'[i]
  BY <1>1 DEF CreditTypeOK
<1> QED
  BY Zenon, <1>1, <1>5, <1>6, <1>7, <1>8, <1>9, HandlerStep

\* A day is checked in by the handler whose insert made its row.
LEMMA CheckInKeepsInv ==
  ASSUME CreditInv, NEW h \in Creditors, NEW d \in Days, CheckIn(h, d)
  PROVE  CreditInv'
<1> DEFINE new == [IdleCreditor EXCEPT !.pc = "credit", !.item = {d}]
<1> USE CreditsAssumption
<1>1. /\ CreditTypeOK /\ creditor[h].item = {}
      /\ UNCHANGED <<billing, table, credited, enabled, unpaid>> /\ UNCHANGED <<reverted, restarts>>
  BY Zenon DEF CreditInv, CreditTypeOK, IdleGivesNothing, CheckIn
<1>2. creditor' = [creditor EXCEPT ![h] = new] /\ d \notin days /\ days' = days \cup {d}
  BY Zenon DEF CheckIn
<1>3. new \in CreditorState /\ new.pc = "credit" /\ new.item = {d}
  BY Zenon, RecordTypes DEF CreditorState, Items
<1> HIDE DEF new
<1>4. Balanced(h, new)
  <2> SUFFICES ASSUME NEW i \in Items
               PROVE  credited'[i] + One(i \in new.item) + One(Fresh(i)') + Limit(i)
                        <= credited[i] + One(i \in creditor[h].item) + One(Fresh(i)) + Limit(i)'
    BY Zenon DEF Balanced
  <2>1. credited[i] \in Nat /\ credited'[i] = credited[i]
    BY Zenon, <1>1 DEF CreditTypeOK
  <2>2. Limit(i)' = Limit(i) /\ Limit(i) \in Nat
    BY <1>1 DEF Limit, CreditTypeOK
  <2>3. One(i \in creditor[h].item) = 0
    BY Zenon, <1>1 DEF One
  <2>4. IF i = d THEN Fresh(i) /\ ~Fresh(i)' ELSE Fresh(i)' = Fresh(i) /\ i \notin new.item
    BY Zenon, <1>1, <1>2, <1>3 DEF Fresh
  <2> QED
    BY <2>1, <2>2, <2>3, <2>4 DEF One
<1>5. UsesKept(h, new)
  BY Zenon, <1>1 DEF UsesKept
<1>6. /\ billing' \in Billing /\ table' \in Billing /\ days' \subseteq Days
      /\ credited' \in [Items -> Nat] /\ enabled' \in [Codes -> 0..MaxEnables]
      /\ unpaid \subseteq unpaid' /\ unpaid' \subseteq Codes
      /\ \A i \in Items : credited[i] <= credited'[i]
  BY <1>1, <1>2 DEF CreditTypeOK
<1> QED
  BY Zenon, <1>1, <1>2, <1>3, <1>4, <1>5, <1>6, HandlerStep

\* The quota is given by a handler that gives the item up with it.
LEMMA CreditKeepsInv ==
  ASSUME CreditInv, NEW h \in Creditors, Credit(h)
  PROVE  CreditInv'
<1> USE CreditsAssumption
<1>1. /\ CreditTypeOK /\ creditor' = [creditor EXCEPT ![h] = IdleCreditor]
      /\ UNCHANGED <<billing, table, days, enabled, unpaid>> /\ UNCHANGED <<reverted, restarts>>
  BY Zenon DEF CreditInv, Credit, Quiet
<1>2. credited' = [i \in Items |-> IF i \in creditor[h].item THEN credited[i] + 1 ELSE credited[i]]
  BY Zenon DEF Credit, GiveQuota
<1>3. credited \in [Items -> Nat]
  BY Zenon, <1>1 DEF CreditTypeOK
<1>4. /\ credited' \in [Items -> Nat]
      /\ \A i \in Items : credited'[i] = credited[i] + One(i \in creditor[h].item)
  BY <1>2, <1>3 DEF One
<1>5. Balanced(h, IdleCreditor)
  <2> SUFFICES ASSUME NEW i \in Items
               PROVE  credited'[i] + One(i \in IdleCreditor.item) + One(Fresh(i)') + Limit(i)
                        <= credited[i] + One(i \in creditor[h].item) + One(Fresh(i)) + Limit(i)'
    BY Zenon DEF Balanced
  <2>1. One(i \in IdleCreditor.item) = 0
    BY Zenon, RecordTypes DEF One
  <2>2. Limit(i)' = Limit(i) /\ Limit(i) \in Nat
    BY <1>1 DEF Limit, CreditTypeOK
  <2>3. Fresh(i)' = Fresh(i)
    BY Zenon, <1>1 DEF Fresh
  <2> QED
    BY <1>3, <1>4, <2>1, <2>2, <2>3 DEF One
<1>6. UsesKept(h, IdleCreditor)
  <2> SUFFICES ASSUME NEW c \in Codes, NEW u \in CreditUsers, billing'.code[c] = u,
                      c \in creditor[h].item
               PROVE  credited'[c] > 0
    BY Zenon, <1>1 DEF UsesKept
  <2>1. c \in Items /\ credited[c] \in Nat
    BY Zenon, <1>3 DEF Items
  <2> QED
    BY <1>2, <2>1
<1>7. /\ billing' \in Billing /\ table' \in Billing /\ days' \subseteq Days
      /\ enabled' \in [Codes -> 0..MaxEnables]
      /\ unpaid \subseteq unpaid' /\ unpaid' \subseteq Codes
  BY Zenon, <1>1 DEF CreditTypeOK
<1>8. \A i \in Items : credited[i] <= credited'[i]
  BY <1>3, <1>4 DEF One
<1> QED
  BY Zenon, <1>1, <1>4, <1>5, <1>6, <1>7, <1>8, RecordTypes, HandlerStep

\* The rollback of a redemption enables the code that the handler would have
\* paid, and no other.
LEMMA RolledBack ==
  ASSUME billing \in Billing, NEW h \in Creditors, RollBack(h)
  PROVE  /\ \E new \in CreditorState : creditor' = [creditor EXCEPT ![h] = new] /\ new.item = {}
         /\ billing' \in Billing /\ billing'.topup = billing.topup
         /\ \A c \in Codes :
              \/ billing'.code[c] = "enabled" /\ c \in creditor[h].item
              \/ /\ billing'.code[c] = billing.code[c]
                 /\ \A u \in CreditUsers :
                      billing.code[c] = u => ~(c \in creditor[h].item /\ creditor[h].user = {u})
<1> DEFINE rolled == {c \in Codes \cap creditor[h].item : billing.code[c] # "absent"}
           back(c) == c \in rolled /\ creditor[h].user = {billing.code[c]}
<1> USE CreditsAssumption
<1>1. /\ billing' = [billing EXCEPT !.code =
           [c \in Codes |-> IF back(c) THEN "enabled" ELSE billing.code[c]]]
      /\ Persisting(h, {}, {}) \/ Quiet(h)
  BY Zenon DEF RollBack
<1>2. \E new \in CreditorState : creditor' = [creditor EXCEPT ![h] = new] /\ new.item = {}
  <2>1. CASE Persisting(h, {}, {})
    <3>1. {} \in {{}} \cup {{i} : i \in Items} /\ {} \in {{}} \cup {{u} : u \in CreditUsers}
      BY Zenon
    <3> QED
      BY ZenonT(30), <2>1, <3>1, PersistingState
  <2>2. CASE Quiet(h)
    BY Zenon, <2>2, RecordTypes DEF Quiet
  <2> QED
    BY Zenon, <1>1, <2>1, <2>2
<1>3. /\ billing' \in Billing /\ billing'.topup = billing.topup
      /\ \A c \in Codes : billing'.code[c] = IF back(c) THEN "enabled" ELSE billing.code[c]
  BY Zenon, <1>1 DEF Billing
<1>4. ASSUME NEW c \in Codes, ~back(c), NEW u \in CreditUsers, billing.code[c] = u
      PROVE  ~(c \in creditor[h].item /\ creditor[h].user = {u})
  <2>1. u # "absent"
    BY Zenon
  <2> QED
    BY Zenon, <1>4, <2>1
<1>5. \A c \in Codes : back(c) => c \in creditor[h].item
  BY Zenon
<1> HIDE DEF back, rolled
<1> QED
  BY Zenon, <1>2, <1>3, <1>4, <1>5

\* A credit that fails leaves the item to whoever uses it next.
LEMMA CreditFailsKeepsInv ==
  ASSUME CreditInv, NEW h \in Creditors, CreditFails(h)
  PROVE  CreditInv'
<1> USE CreditsAssumption
<1>1. /\ CreditTypeOK /\ billing \in Billing /\ RollBack(h)
      /\ UNCHANGED <<table, days, credited, enabled, unpaid>> /\ UNCHANGED <<reverted, restarts>>
  BY Zenon DEF CreditInv, CreditTypeOK, CreditFails
<1>2. PICK new \in CreditorState :
        creditor' = [creditor EXCEPT ![h] = new] /\ new.item = {}
  BY Zenon, <1>1, RolledBack
<1>3. /\ billing' \in Billing /\ billing'.topup = billing.topup
      /\ \A c \in Codes :
           \/ billing'.code[c] = "enabled" /\ c \in creditor[h].item
           \/ billing'.code[c] = billing.code[c]
  BY Zenon, <1>1, RolledBack
<1>4. Balanced(h, new)
  <2> SUFFICES ASSUME NEW i \in Items
               PROVE  credited'[i] + One(i \in new.item) + One(Fresh(i)') + Limit(i)
                        <= credited[i] + One(i \in creditor[h].item) + One(Fresh(i)) + Limit(i)'
    BY Zenon DEF Balanced
  <2>1. credited[i] \in Nat /\ credited'[i] = credited[i]
    BY Zenon, <1>1 DEF CreditTypeOK
  <2>2. Limit(i)' = Limit(i) /\ Limit(i) \in Nat
    BY <1>1 DEF Limit, CreditTypeOK
  <2>3. Fresh(i)' => Fresh(i) \/ i \in creditor[h].item
    BY Zenon, <1>1, <1>3 DEF Fresh
  <2>4. i \notin new.item
    BY Zenon, <1>2
  <2> QED
    BY <2>1, <2>2, <2>3, <2>4 DEF One
<1>5. UsesKept(h, new)
  <2> SUFFICES ASSUME NEW c \in Codes, NEW u \in CreditUsers, billing'.code[c] = u
               PROVE  billing.code[c] = u /\ ~(c \in creditor[h].item /\ creditor[h].user = {u})
    BY Zenon DEF UsesKept
  <2>1. u # "enabled"
    BY Zenon
  <2> QED
    BY Zenon, <1>1, <2>1, RolledBack
<1>6. /\ table' \in Billing /\ days' \subseteq Days /\ credited' \in [Items -> Nat]
      /\ enabled' \in [Codes -> 0..MaxEnables]
      /\ unpaid \subseteq unpaid' /\ unpaid' \subseteq Codes
      /\ \A i \in Items : credited[i] <= credited'[i]
  BY <1>1 DEF CreditTypeOK
<1> QED
  BY Zenon, <1>1, <1>2, <1>3, <1>4, <1>5, <1>6, HandlerStep

\* A credit that was written and answered with an error reverts its code.
LEMMA CreditInDoubtKeepsInv ==
  ASSUME CreditInv, NEW h \in Creditors, CreditInDoubt(h)
  PROVE  CreditInv'
<1> USE CreditsAssumption
<1>1. /\ CreditTypeOK /\ billing \in Billing /\ RollBack(h)
      /\ UNCHANGED <<table, days, enabled, unpaid>> /\ UNCHANGED restarts
      /\ reverted' = reverted \cup (Codes \cap creditor[h].item)
  BY Zenon DEF CreditInv, CreditTypeOK, CreditInDoubt
<1>2. PICK new \in CreditorState :
        creditor' = [creditor EXCEPT ![h] = new] /\ new.item = {}
  BY Zenon, <1>1, RolledBack
<1>3. /\ billing' \in Billing /\ billing'.topup = billing.topup
      /\ \A c \in Codes :
           \/ billing'.code[c] = "enabled" /\ c \in creditor[h].item
           \/ billing'.code[c] = billing.code[c]
  BY Zenon, <1>1, RolledBack
<1>4. credited \in [Items -> Nat]
  BY Zenon, <1>1 DEF CreditTypeOK
<1>5. /\ credited' \in [Items -> Nat]
      /\ \A i \in Items : credited'[i] = credited[i] + One(i \in creditor[h].item)
  BY <1>4 DEF CreditInDoubt, GiveQuota, One
<1>6. Balanced(h, new)
  <2> SUFFICES ASSUME NEW i \in Items \ reverted'
               PROVE  credited'[i] + One(i \in new.item) + One(Fresh(i)') + Limit(i)
                        <= credited[i] + One(i \in creditor[h].item) + One(Fresh(i)) + Limit(i)'
    BY Zenon DEF Balanced
  <2>1. Limit(i)' = Limit(i) /\ Limit(i) \in Nat
    BY <1>1 DEF Limit, CreditTypeOK
  <2>2. Fresh(i)' = Fresh(i)
    BY Zenon, <1>1, <1>3 DEF Fresh
  <2>3. i \notin new.item
    BY Zenon, <1>2
  <2> QED
    BY <1>4, <1>5, <2>1, <2>2, <2>3 DEF One
<1>7. UsesKept(h, new)
  <2> SUFFICES ASSUME NEW c \in Codes, NEW u \in CreditUsers, billing'.code[c] = u,
                      ~(credited'[c] > 0)
               PROVE  billing.code[c] = u /\ ~(c \in creditor[h].item /\ creditor[h].user = {u})
    BY Zenon DEF UsesKept
  <2>1. u # "enabled"
    BY Zenon
  <2> QED
    BY Zenon, <1>1, <2>1, RolledBack
<1>8. /\ table' \in Billing /\ days' \subseteq Days
      /\ enabled' \in [Codes -> 0..MaxEnables]
      /\ unpaid \subseteq unpaid' /\ unpaid' \subseteq Codes
      /\ reverted \subseteq reverted' /\ reverted' \subseteq Codes \cup reverted
  BY Zenon, <1>1 DEF CreditTypeOK
<1>9. \A i \in Items : credited[i] <= credited'[i]
  BY <1>4, <1>5 DEF One
<1> QED
  BY Zenon, <1>1, <1>2, <1>3, <1>5, <1>6, <1>7, <1>8, <1>9, RevertingStep

-----------------------------------------------------------------------------
\* A restart makes an item usable again only by reverting it.
LEMMA RestartKeepsInv ==
  ASSUME CreditInv, RestartCredits
  PROVE  CreditInv'
<1> USE CreditsAssumption DEF CreditInv, RestartCredits
<1>1. CreditTypeOK'
  <2>1. restarts' \in 0..MaxRestarts
    BY DEF CreditTypeOK
  <2>2. creditor' \in [Creditors -> CreditorState]
    BY Zenon, RecordTypes
  <2>3. reverted' \subseteq Items /\ unpaid' \subseteq Codes
    BY Zenon DEF CreditTypeOK, Items
  <2> QED
    BY Zenon, <2>1, <2>2, <2>3 DEF CreditTypeOK
<1>2. (reverted \cap Days = {})'
  BY Zenon
<1>3. \A h \in Creditors : creditor'[h] = IdleCreditor
  BY Zenon
<1>4. IdleGivesNothing'
  BY Zenon, <1>3, RecordTypes DEF IdleGivesNothing
<1>5. Ledgers'
  <2> SUFFICES ASSUME NEW i \in Items \ reverted'
               PROVE  credited'[i] + Cardinality(Owners(i)') + One(Fresh(i)') <= Limit(i)'
    BY Zenon DEF Ledgers, One
  <2>1. i \in Items \ reverted
    BY Zenon
  <2>2. credited[i] + Cardinality(Owners(i)) + One(Fresh(i)) <= Limit(i)
    BY Zenon, <2>1 DEF Ledgers
  <2>3. Cardinality(Owners(i)') = 0
    <3>1. Owners(i)' = {}
      BY Zenon, <1>3, RecordTypes DEF Owners
    <3> QED
      BY Zenon, <3>1, FS_EmptySet
  <2>4. Fresh(i)' => Fresh(i)
    BY Zenon DEF Fresh, Items, CreditTypeOK, Billing
  <2>5. credited'[i] = credited[i] /\ credited[i] \in Nat
    BY Zenon DEF CreditTypeOK
  <2>6. Limit(i)' = Limit(i) /\ Limit(i) \in Nat
    BY DEF Limit, CreditTypeOK
  <2>7. One(Fresh(i)') <= One(Fresh(i)) /\ One(Fresh(i)') \in Nat /\ One(Fresh(i)) \in Nat
    BY <2>4 DEF One
  <2> QED
    BY <2>2, <2>3, <2>5, <2>6, <2>7, OwnersFinite
<1>6. UseIsOwned'
  <2> SUFFICES ASSUME NEW c \in Codes, NEW u \in CreditUsers, billing'.code[c] = u
               PROVE  credited'[c] > 0 \/ c \in unpaid'
    BY Zenon DEF UseIsOwned
  <2>1. CASE billing.code[c] # u
    BY Zenon, <2>1
  <2>2. CASE billing.code[c] = u
    BY ZenonT(30), <2>2 DEF UseIsOwned
  <2> QED
    BY Zenon, <2>1, <2>2
<1> QED
  BY Zenon, <1>1, <1>2, <1>4, <1>5, <1>6

\* The inductive invariant of the credits.
THEOREM CreditInvariant == CreditSpec => []CreditInv
<1>1. CreditInv /\ [CreditNext]_credit_vars => CreditInv'
  <2> SUFFICES ASSUME CreditInv, [CreditNext]_credit_vars PROVE CreditInv'
    BY Zenon
  <2>1. CASE UNCHANGED credit_vars
    BY <2>1 DEF credit_vars, CreditInv, CreditTypeOK, IdleGivesNothing, Ledgers, UseIsOwned,
                Owners, Fresh, Limit, One
  <2>2. CASE CreditNext
    BY Zenon, <2>2, CodesKeepInv, TopUpKeepsInv, CheckInKeepsInv, SavingKeepsInv, CreditKeepsInv,
       CreditFailsKeepsInv, CreditInDoubtKeepsInv, RestartKeepsInv DEF CreditNext
  <2> QED
    BY Zenon, <2>1, <2>2
<1> QED
  BY <1>1, InitCreditInv, PTL DEF CreditSpec

\* An item gives its quota once, a code once more per enabling, unless a restart
\* or a credit answered with an error reverted it: two handlers never both give
\* it, although each marks the item in one store and credits the user in another.
THEOREM QuotaIsGivenOnce == CreditSpec => []GivenOnce
<1>1. CreditInv => GivenOnce
  <2> SUFFICES ASSUME CreditInv PROVE GivenOnce
    BY Zenon
  <2>1. ASSUME NEW i \in Items \ reverted PROVE credited[i] <= Limit(i)
    <3>1. credited[i] + Cardinality(Owners(i)) + One(Fresh(i)) <= Limit(i)
      BY Zenon DEF CreditInv, Ledgers
    <3>2. credited[i] \in Nat /\ One(Fresh(i)) \in Nat /\ Limit(i) \in Nat
      BY CreditsAssumption DEF CreditInv, CreditTypeOK, One, Limit
    <3> QED
      BY <3>1, <3>2, OwnersFinite
  <2> QED
    BY Zenon, <2>1, CreditsAssumption DEF GivenOnce, CreditInv, Items, Limit
<1> QED
  BY <1>1, CreditInvariant, PTL

\* A failed credit always gives its code back: a used code was paid, or still has
\* its handler, or lost it to a failed save, a dropped request or a restart.
THEOREM UsedCodesArePaid == CreditSpec => []UsedCodeIsPaid
<1>1. CreditInv => UsedCodeIsPaid
  BY Zenon DEF CreditInv, UseIsOwned, UsedCodeIsPaid
<1> QED
  BY <1>1, CreditInvariant, PTL

-----------------------------------------------------------------------------
(***************************************************************************)
(* The channel's credential                                                *)
(***************************************************************************)


\* What a handler holds at each step of a refresh: the refresh lock while the
\* token is out and until its answer is stored; an expected key that has been
\* issued, and that is spent only if what it brought was lost; a new credential
\* that nobody has used; and, for feedback, an access token that upstreams
\* rejected.
InRefresh(h) ==
  /\ refresher[h].pc \in {"send", "store"} =>
       refresh_lock = h /\ refresher[h].expected <= provider.last
  /\ refresher[h].pc = "send" /\ refresher[h].expected \in provider.consumed =>
       refresher[h].expected \in unstored
  /\ refresher[h].pc = "store" =>
       refresher[h].new <= provider.last /\ refresher[h].new \notin provider.consumed
  /\ refresher[h].pc # "idle" /\ ~refresher[h].manual =>
       refresher[h].observed \in provider.rejected
  /\ refresher[h].pc = "disable" => ~refresher[h].manual

\* Some handler has a new credential for the key and is about to store it.
AboutToStore(key) ==
  \E h \in Refreshers : refresher[h].pc = "store" /\ refresher[h].expected = key

\* No credential is known before it is issued, and the stored one is spent only
\* if what it brought was lost or is about to be stored.
CredentialInv ==
  /\ CredentialTypeOK
  /\ \A h \in Refreshers : InRefresh(h)
  /\ provider.consumed \subseteq 0..provider.last
  /\ channel.key <= provider.last
  /\ \A e \in Editors : editor[e].record.key <= provider.last
  /\ channel.key \in provider.consumed =>
       channel.key \in unstored \/ AboutToStore(channel.key)
  /\ ReuseOnlyAfterLoss

USE CredentialAssumption

\* The records of the handlers of a refresh.
RefresherRecord ==
  [pc : {"idle", "lock", "send", "store", "disable"}, manual : BOOLEAN,
   observed : Generation, expected : Generation, new : Generation]

\* A handler without a request is one of them.
LEMMA IdleIsRecord == IdleRefresher \in RefresherRecord /\ IdleRefresher.pc = "idle"
  BY DEF IdleRefresher, RefresherRecord, Generation

\* The invariant holds at first.
LEMMA CredentialInit_Inv == CredentialInit => CredentialInv
<1> SUFFICES ASSUME CredentialInit PROVE CredentialInv
  BY Zenon
<1>1. CredentialTypeOK
  BY IdleIsRecord DEF CredentialInit, CredentialTypeOK, RefresherRecord, ChannelRecord,
     Stored, ClosedEditor, Generation
<1>2. ASSUME NEW h \in Refreshers PROVE InRefresh(h)
  BY Zenon, IdleIsRecord DEF CredentialInit, InRefresh
<1> QED
  BY <1>1, <1>2 DEF CredentialInit, CredentialInv, Stored, ClosedEditor, ReuseOnlyAfterLoss

\* A step that only moves one handler, to a state that is consistent.
LEMMA RefresherStep ==
  ASSUME CredentialInv, NEW h \in Refreshers, NEW r \in RefresherRecord,
         refresher' = [refresher EXCEPT ![h] = r],
         UNCHANGED <<auto_disable, channel, editor>>,
         refresh_lock' \in Refreshers \cup {NoOne},
         \A g \in Refreshers \ {h} :
           refresher[g].pc \in {"send", "store"} => refresh_lock' = refresh_lock,
         provider'.rejected = provider.rejected,
         provider' \in [last : Generation, consumed : SUBSET Generation,
                        rejected : SUBSET Generation],
         provider.last <= provider'.last,
         provider'.consumed \subseteq 0..provider'.last,
         \A g \in Refreshers \ {h} :
           refresher[g].pc \in {"send", "store"} => provider' = provider,
         unstored' \subseteq Generation, unstored \subseteq unstored',
         reused' \subseteq unstored', InRefresh(h)',
         channel.key \in provider'.consumed =>
           channel.key \in unstored' \/ AboutToStore(channel.key)'
  PROVE  CredentialInv'
<1>1. CredentialTypeOK'
  BY Zenon DEF CredentialInv, CredentialTypeOK, RefresherRecord
<1>2. ASSUME NEW g \in Refreshers PROVE InRefresh(g)'
  <2>1. CASE g = h
    BY Zenon, <2>1
  <2>2. CASE g # h
    <3>1. refresher'[g] = refresher[g] /\ InRefresh(g)
      BY Zenon, <2>2 DEF CredentialInv, CredentialTypeOK
    <3> QED BY Zenon, <2>2, <3>1 DEF InRefresh, CredentialInv, CredentialTypeOK
  <2> QED BY Zenon, <2>1, <2>2
<1>3. channel'.key <= provider'.last
  BY DEF CredentialInv, CredentialTypeOK, ChannelRecord, Generation
<1>4. \A e \in Editors : editor'[e].record.key <= provider'.last
  BY DEF CredentialInv, CredentialTypeOK, ChannelRecord, Generation
<1>5. channel'.key \in provider'.consumed =>
        channel'.key \in unstored' \/ AboutToStore(channel.key)'
  BY Zenon
<1> QED
  BY Zenon, <1>1, <1>2, <1>3, <1>4, <1>5 DEF CredentialInv, ReuseOnlyAfterLoss, AboutToStore

\* While one handler has the lock no other is between send and store, and
\* while it is free nobody is.
LEMMA OneAtATime ==
  ASSUME CredentialInv, NEW h \in Refreshers, refresh_lock \in {h, NoOne},
         NEW g \in Refreshers, g # h
  PROVE  refresher[g].pc \notin {"send", "store"}
  BY Zenon DEF CredentialInv, InRefresh

\* Feedback and a refresh by hand begin a handler.
LEMMA FeedbackKeepsInv ==
  ASSUME CredentialInv, NEW h \in Refreshers, Feedback(h) \/ ManualRefresh(h)
  PROVE  CredentialInv'
<1>1. PICK r \in RefresherRecord :
        /\ refresher' = [refresher EXCEPT ![h] = r]
        /\ r.pc = "lock" /\ (r.manual \/ r.observed \in provider.rejected)
  <2>1. CASE Feedback(h)
    <3>1. PICK g \in provider.rejected :
            refresher' = [refresher EXCEPT ![h] =
              [IdleRefresher EXCEPT !.pc = "lock", !.observed = g]]
      BY Zenon, <2>1 DEF Feedback
    <3>2. g \in Generation
      BY Zenon DEF CredentialInv, CredentialTypeOK
    <3> DEFINE r == [IdleRefresher EXCEPT !.pc = "lock", !.observed = g]
    <3>3. r \in RefresherRecord /\ r.pc = "lock" /\ r.observed = g
      BY Zenon, <3>2, IdleIsRecord DEF RefresherRecord
    <3> HIDE DEF r
    <3> QED BY Zenon, <3>1, <3>3 DEF r
  <2>2. CASE ManualRefresh(h)
    <3> DEFINE r == [IdleRefresher EXCEPT !.pc = "lock", !.manual = TRUE,
                                          !.observed = channel.key]
    <3>1. channel.key \in Generation
      BY Zenon DEF CredentialInv, CredentialTypeOK, ChannelRecord
    <3>2. r \in RefresherRecord /\ r.pc = "lock" /\ r.manual
      BY Zenon, <3>1, IdleIsRecord DEF RefresherRecord
    <3>3. refresher' = [refresher EXCEPT ![h] = r]
      BY Zenon, <2>2 DEF ManualRefresh
    <3> HIDE DEF r
    <3> QED BY Zenon, <3>2, <3>3
  <2> QED BY Zenon, <2>1, <2>2
<1>2. UNCHANGED <<auto_disable, channel, provider, refresh_lock, editor, reused, unstored>>
  BY Zenon DEF Feedback, ManualRefresh
<1>3. refresher[h].pc = "idle" /\ refresher'[h] = r
  BY Zenon, <1>1 DEF Feedback, ManualRefresh, CredentialInv, CredentialTypeOK
<1>4. InRefresh(h)'
  BY Zenon, <1>1, <1>2, <1>3 DEF InRefresh
<1>5. AboutToStore(channel.key) => AboutToStore(channel.key)'
  BY Zenon, <1>1, <1>2, <1>3 DEF AboutToStore, CredentialInv, CredentialTypeOK
<1>6. provider.last <= provider'.last
  BY <1>2 DEF CredentialInv, CredentialTypeOK, Generation
<1> QED
  BY Zenon, <1>1, <1>2, <1>4, <1>5, <1>6, RefresherStep
     DEF CredentialInv, CredentialTypeOK, ReuseOnlyAfterLoss

\* The handler that gets the refresh lock looks at the channel again.
LEMMA LockedKeepsInv ==
  ASSUME CredentialInv, NEW h \in Refreshers, Locked(h)
  PROVE  CredentialInv'
<1>1. /\ UNCHANGED <<auto_disable, channel, provider, editor, reused, unstored>>
      /\ refresh_lock = NoOne /\ refresher[h].pc = "lock"
  BY Zenon DEF Locked
<1>2. \A g \in Refreshers \ {h} : refresher[g].pc \notin {"send", "store"}
  BY Zenon, <1>1, OneAtATime
<1>3. ~AboutToStore(channel.key)
  BY Zenon, <1>1, <1>2 DEF AboutToStore
<1>4. channel.key \in provider.consumed => channel.key \in unstored
  BY Zenon, <1>3 DEF CredentialInv
<1>a. provider.last <= provider'.last
  BY <1>1 DEF CredentialInv, CredentialTypeOK, Generation
<1>5. CASE refresher' = [refresher EXCEPT ![h] = IdleRefresher] /\ UNCHANGED refresh_lock
  <2>1. InRefresh(h)'
    BY Zenon, <1>5, IdleIsRecord DEF InRefresh, CredentialInv, CredentialTypeOK
  <2> QED
    BY Zenon, <1>1, <1>2, <1>4, <1>5, <1>a, <2>1, IdleIsRecord, RefresherStep
       DEF CredentialInv, CredentialTypeOK, ReuseOnlyAfterLoss
<1>6. CASE /\ refresh_lock' = h
           /\ refresher' = [refresher EXCEPT ![h] =
                [refresher[h] EXCEPT !.pc = "send", !.expected = channel.key]]
  <2> DEFINE r == [refresher[h] EXCEPT !.pc = "send", !.expected = channel.key]
  <2>1. /\ r \in RefresherRecord /\ r.pc = "send" /\ r.expected = channel.key
        /\ r.manual = refresher[h].manual /\ r.observed = refresher[h].observed
    <3>1. refresher[h] \in RefresherRecord /\ channel.key \in Generation
      BY Zenon DEF RefresherRecord, CredentialInv, CredentialTypeOK, ChannelRecord
    <3> QED BY Zenon, <3>1 DEF RefresherRecord
  <2>2. refresher' = [refresher EXCEPT ![h] = r] /\ refresher'[h] = r
    BY Zenon, <1>6 DEF CredentialInv, CredentialTypeOK
  <2> HIDE DEF r
  <2>3. InRefresh(h)'
    BY Zenon, <1>1, <1>4, <1>6, <2>1, <2>2 DEF InRefresh, CredentialInv
  <2> QED
    BY Zenon, <1>1, <1>2, <1>4, <1>6, <1>a, <2>1, <2>2, <2>3, RefresherStep
       DEF CredentialInv, CredentialTypeOK, ReuseOnlyAfterLoss
<1> QED BY Zenon, <1>5, <1>6 DEF Locked

\* What the provider knows once it has answered to a token that was issued.
LEMMA IssuesMoves ==
  ASSUME CredentialInv, NEW token \in 0..provider.last, Issues(token)
  PROVE  /\ provider' \in [last : Generation, consumed : SUBSET Generation,
                            rejected : SUBSET Generation]
         /\ provider'.last = provider.last + 1
         /\ provider'.consumed = provider.consumed \cup {token}
         /\ provider'.rejected = provider.rejected
         /\ provider'.consumed \subseteq 0..provider.last
         /\ provider.last \in Generation /\ provider.last + 1 \in Generation
<1>1. /\ provider \in [last : Generation, consumed : SUBSET Generation,
                        rejected : SUBSET Generation]
      /\ provider.consumed \subseteq 0..provider.last /\ provider.last < MaxGeneration
  BY Zenon DEF Issues, CredentialInv, CredentialTypeOK
<1>2. provider.last \in Generation /\ provider.last + 1 \in Generation /\ token \in Generation
  BY <1>1 DEF Generation
<1>3. /\ provider'.last = provider.last + 1
      /\ provider'.consumed = provider.consumed \cup {token}
      /\ provider'.rejected = provider.rejected
  BY Zenon, <1>1 DEF Issues
<1>4. provider' \in [last : Generation, consumed : SUBSET Generation,
                     rejected : SUBSET Generation]
  <2>1. provider' = [provider EXCEPT !.last = provider.last + 1,
                                     !.consumed = provider.consumed \cup {token}]
    BY Zenon DEF Issues
  <2> QED BY Zenon, <1>1, <1>2, <2>1
<1> QED BY Zenon, <1>1, <1>2, <1>3, <1>4

\* The provider answers with a new credential.
LEMMA RefreshedKeepsInv ==
  ASSUME CredentialInv, NEW h \in Refreshers, Refreshed(h)
  PROVE  CredentialInv'
<1> DEFINE r == [refresher[h] EXCEPT !.pc = "store", !.new = provider.last + 1]
<1>1. /\ UNCHANGED <<auto_disable, channel, refresh_lock, editor, reused, unstored>>
      /\ refresher[h].pc = "send" /\ Issues(refresher[h].expected)
  BY Zenon DEF Refreshed
<1>2. refresher[h].expected \in 0..provider.last /\ refresh_lock = h
  BY <1>1 DEF CredentialInv, InRefresh, CredentialTypeOK, Generation
<1>3. \A g \in Refreshers \ {h} : refresher[g].pc \notin {"send", "store"}
  BY Zenon, <1>2, OneAtATime
<1>4. /\ provider' \in [last : Generation, consumed : SUBSET Generation,
                         rejected : SUBSET Generation]
      /\ provider'.last = provider.last + 1
      /\ provider'.consumed = provider.consumed \cup {refresher[h].expected}
      /\ provider'.rejected = provider.rejected
      /\ provider'.consumed \subseteq 0..provider.last
      /\ provider.last \in Generation /\ provider.last + 1 \in Generation
  BY Zenon, <1>1, <1>2, IssuesMoves
<1>5. /\ r \in RefresherRecord /\ r.pc = "store" /\ r.new = provider.last + 1
      /\ r.expected = refresher[h].expected
      /\ r.manual = refresher[h].manual /\ r.observed = refresher[h].observed
  <2>1. refresher[h] \in RefresherRecord
    BY Zenon DEF RefresherRecord, CredentialInv, CredentialTypeOK
  <2>2. provider.last + 1 \in Generation
    BY Zenon, <1>4
  <2> QED BY Zenon, <2>1, <2>2 DEF RefresherRecord
<1>6. refresher' = [refresher EXCEPT ![h] = r] /\ refresher'[h] = r
  BY Zenon DEF Refreshed, CredentialInv, CredentialTypeOK
<1> HIDE DEF r
<1>7. r.new \notin provider'.consumed
  BY <1>4, <1>5 DEF Generation
<1>8. InRefresh(h)'
  <2>1. r.expected <= provider'.last /\ r.new <= provider'.last
    BY <1>2, <1>4, <1>5 DEF Generation
  <2>2. InRefresh(h)
    BY Zenon DEF CredentialInv
  <2> QED BY Zenon, <1>1, <1>2, <1>4, <1>5, <1>6, <1>7, <2>1, <2>2 DEF InRefresh
<1>9. channel.key \in provider'.consumed =>
        channel.key \in unstored' \/ AboutToStore(channel.key)'
  <2>1. CASE channel.key = refresher[h].expected
    BY Zenon, <1>1, <1>5, <1>6, <2>1 DEF AboutToStore
  <2>2. CASE channel.key # refresher[h].expected
    <3>1. ~AboutToStore(channel.key)
      BY Zenon, <1>1, <1>3 DEF AboutToStore
    <3> QED BY Zenon, <1>1, <1>4, <2>2, <3>1 DEF CredentialInv
  <2> QED BY Zenon, <2>1, <2>2
<1>10. provider.last <= provider'.last /\ provider'.consumed \subseteq 0..provider'.last
  BY <1>4 DEF Generation
<1> QED
  BY Zenon, <1>1, <1>2, <1>3, <1>4, <1>5, <1>6, <1>8, <1>9, <1>10, RefresherStep
     DEF CredentialInv, CredentialTypeOK, ReuseOnlyAfterLoss

\* A refresh that failed leaves the handler idle, or about to disable.
LEMMA AfterFailedIsRecord ==
  ASSUME CredentialInv, NEW h \in Refreshers
  PROVE  /\ AfterFailedRefresh(h) \in RefresherRecord
         /\ AfterFailedRefresh(h).pc = "idle" \/
              /\ AfterFailedRefresh(h).pc = "disable"
              /\ ~refresher[h].manual
              /\ AfterFailedRefresh(h).manual = refresher[h].manual
              /\ AfterFailedRefresh(h).observed = refresher[h].observed
<1> DEFINE r == [refresher[h] EXCEPT !.pc = "disable"]
<1>1. refresher[h] \in RefresherRecord
  BY Zenon DEF CredentialInv, CredentialTypeOK, RefresherRecord
<1>2. /\ r \in RefresherRecord /\ r.pc = "disable"
      /\ r.manual = refresher[h].manual /\ r.observed = refresher[h].observed
  BY Zenon, <1>1 DEF RefresherRecord
<1> HIDE DEF r
<1>3. AfterFailedRefresh(h) = IF refresher[h].manual \/ ~auto_disable THEN IdleRefresher ELSE r
  BY Zenon DEF AfterFailedRefresh, r
<1>4. CASE refresher[h].manual \/ ~auto_disable
  BY Zenon, <1>3, <1>4, IdleIsRecord
<1>5. CASE ~(refresher[h].manual \/ ~auto_disable)
  BY Zenon, <1>2, <1>3, <1>5
<1> QED BY Zenon, <1>4, <1>5

\* The provider refuses, or its answer is lost.
LEMMA NotRefreshedKeepsInv ==
  ASSUME CredentialInv, NEW h \in Refreshers, NotRefreshed(h)
  PROVE  CredentialInv'
<1> DEFINE r == AfterFailedRefresh(h)
           token == refresher[h].expected
<1>1. /\ UNCHANGED <<auto_disable, channel, editor>>
      /\ refresher[h].pc = "send" /\ refresh_lock' = NoOne
      /\ refresher' = [refresher EXCEPT ![h] = r]
      /\ reused' = reused \cup ({token} \cap provider.consumed)
      /\ \/ UNCHANGED <<provider, unstored>>
         \/ Issues(token) /\ unstored' = unstored \cup {token}
  BY Zenon DEF NotRefreshed
<1>2. token \in 0..provider.last /\ refresh_lock = h /\ token \in Generation
  BY <1>1 DEF CredentialInv, InRefresh, CredentialTypeOK, Generation
<1>3. \A g \in Refreshers \ {h} : refresher[g].pc \notin {"send", "store"}
  BY Zenon, <1>2, OneAtATime
<1>4. /\ r \in RefresherRecord
      /\ r.pc = "idle" \/
           /\ r.pc = "disable" /\ ~refresher[h].manual
           /\ r.manual = refresher[h].manual /\ r.observed = refresher[h].observed
  BY Zenon, AfterFailedIsRecord
<1> HIDE DEF r
<1>5. /\ provider' \in [last : Generation, consumed : SUBSET Generation,
                         rejected : SUBSET Generation]
      /\ provider.last <= provider'.last
      /\ provider'.consumed \subseteq provider.consumed \cup ({token} \cap unstored')
      /\ provider'.rejected = provider.rejected
      /\ provider'.consumed \subseteq 0..provider'.last
      /\ unstored \subseteq unstored' /\ unstored' \subseteq Generation
  <2>1. CASE UNCHANGED <<provider, unstored>>
    BY <2>1 DEF CredentialInv, CredentialTypeOK, Generation
  <2>2. CASE Issues(token) /\ unstored' = unstored \cup {token}
    <3>1. /\ provider' \in [last : Generation, consumed : SUBSET Generation,
                             rejected : SUBSET Generation]
          /\ provider'.last = provider.last + 1
          /\ provider'.consumed = provider.consumed \cup {token}
          /\ provider'.rejected = provider.rejected
          /\ provider'.consumed \subseteq 0..provider.last
          /\ provider.last \in Generation /\ provider.last + 1 \in Generation
      BY Zenon, <1>2, <2>2, IssuesMoves
    <3>2. provider'.consumed \subseteq 0..provider'.last
      BY <3>1 DEF Generation
    <3>3. provider.last <= provider'.last
      BY <3>1 DEF Generation
    <3>4. unstored \subseteq unstored' /\ unstored' \subseteq Generation /\ token \in unstored'
      BY Zenon, <1>2, <2>2 DEF CredentialInv, CredentialTypeOK
    <3> QED BY Zenon, <3>1, <3>2, <3>3, <3>4
  <2> QED BY Zenon, <1>1, <2>1, <2>2
<1>6. refresher'[h] = r
  BY Zenon, <1>1 DEF CredentialInv, CredentialTypeOK
<1>7. InRefresh(h) /\ (token \in provider.consumed => token \in unstored)
  BY Zenon, <1>1 DEF CredentialInv, InRefresh
<1>8. InRefresh(h)'
  BY Zenon, <1>1, <1>4, <1>5, <1>6, <1>7 DEF InRefresh
<1>9. channel.key \in provider'.consumed => channel.key \in unstored'
  <2>1. ~AboutToStore(channel.key)
    BY Zenon, <1>1, <1>3 DEF AboutToStore
  <2> QED BY Zenon, <1>5, <2>1 DEF CredentialInv
<1>10. reused' \subseteq unstored'
  BY Zenon, <1>1, <1>5, <1>7 DEF CredentialInv, ReuseOnlyAfterLoss
<1> QED
  BY Zenon, <1>1, <1>2, <1>3, <1>4, <1>5, <1>8, <1>9, <1>10, RefresherStep

\* The new credential is not stored.
LEMMA NotRotatedKeepsInv ==
  ASSUME CredentialInv, NEW h \in Refreshers, NotRotated(h)
  PROVE  CredentialInv'
<1> DEFINE r == AfterFailedRefresh(h)
<1>1. /\ UNCHANGED <<auto_disable, channel, provider, editor, reused>>
      /\ refresher[h].pc = "store" /\ refresh_lock' = NoOne
      /\ refresher' = [refresher EXCEPT ![h] = r]
      /\ unstored' = unstored \cup {refresher[h].expected}
  BY Zenon DEF NotRotated
<1>2. refresh_lock = h /\ refresher[h].expected \in Generation
  BY Zenon, <1>1 DEF CredentialInv, InRefresh, CredentialTypeOK
<1>3. \A g \in Refreshers \ {h} : refresher[g].pc \notin {"send", "store"}
  BY Zenon, <1>2, OneAtATime
<1>4. /\ r \in RefresherRecord
      /\ r.pc = "idle" \/
           /\ r.pc = "disable" /\ ~refresher[h].manual
           /\ r.manual = refresher[h].manual /\ r.observed = refresher[h].observed
  BY Zenon, AfterFailedIsRecord
<1> HIDE DEF r
<1>5. refresher'[h] = r
  BY Zenon, <1>1 DEF CredentialInv, CredentialTypeOK
<1>6. InRefresh(h)'
  BY Zenon, <1>1, <1>4, <1>5 DEF InRefresh, CredentialInv
<1>7. channel.key \in provider'.consumed => channel.key \in unstored'
  BY Zenon, <1>1, <1>3 DEF CredentialInv, AboutToStore
<1>8. unstored' \subseteq Generation /\ unstored \subseteq unstored'
  BY Zenon, <1>1, <1>2 DEF CredentialInv, CredentialTypeOK
<1>9. provider.last <= provider'.last
  BY <1>1 DEF CredentialInv, CredentialTypeOK, Generation
<1> QED
  BY Zenon, <1>1, <1>3, <1>4, <1>6, <1>7, <1>8, <1>9, RefresherStep
     DEF CredentialInv, CredentialTypeOK, ReuseOnlyAfterLoss

\* A handler is dropped at any of its steps.
LEMMA RefresherDroppedKeepsInv ==
  ASSUME CredentialInv, NEW h \in Refreshers, RefresherDropped(h)
  PROVE  CredentialInv'
<1>1. /\ UNCHANGED <<auto_disable, channel, provider, editor, reused>>
      /\ refresh_lock' = IF refresh_lock = h THEN NoOne ELSE refresh_lock
      /\ refresher' = [refresher EXCEPT ![h] = IdleRefresher]
      /\ unstored' = IF refresher[h].pc = "store"
                       THEN unstored \cup {refresher[h].expected} ELSE unstored
  BY Zenon DEF RefresherDropped
<1>2. \A g \in Refreshers \ {h} :
        refresher[g].pc \in {"send", "store"} => refresh_lock' = refresh_lock
  BY Zenon, <1>1, OneAtATime
<1>3. refresh_lock' \in Refreshers \cup {NoOne}
  BY Zenon, <1>1 DEF CredentialInv, CredentialTypeOK
<1>4. InRefresh(h)'
  BY Zenon, <1>1, IdleIsRecord DEF InRefresh, CredentialInv, CredentialTypeOK
<1>5. /\ refresher[h].expected \in Generation
      /\ \A g \in Refreshers : g # h => refresher'[g] = refresher[g]
  BY Zenon, <1>1 DEF CredentialInv, CredentialTypeOK
<1>6. unstored' \subseteq Generation /\ unstored \subseteq unstored'
  BY Zenon, <1>1, <1>5 DEF CredentialInv, CredentialTypeOK
<1>7. channel.key \in provider'.consumed =>
        channel.key \in unstored' \/ AboutToStore(channel.key)'
  <2>1. SUFFICES ASSUME AboutToStore(channel.key), channel.key \notin unstored'
                 PROVE  AboutToStore(channel.key)'
    BY Zenon, <1>1, <1>6 DEF CredentialInv
  <2>2. PICK g \in Refreshers : refresher[g].pc = "store" /\ refresher[g].expected = channel.key
    BY Zenon, <2>1 DEF AboutToStore
  <2>3. g # h
    BY Zenon, <1>1, <2>1, <2>2
  <2> QED BY Zenon, <1>1, <1>5, <2>2, <2>3 DEF AboutToStore
<1>8. provider.last <= provider'.last
  BY <1>1 DEF CredentialInv, CredentialTypeOK, Generation
<1>9. reused' \subseteq unstored'
  BY Zenon, <1>1, <1>6 DEF CredentialInv, ReuseOnlyAfterLoss
<1> QED
  BY Zenon, <1>1, <1>2, <1>3, <1>4, <1>6, <1>7, <1>8, <1>9, IdleIsRecord, RefresherStep
     DEF CredentialInv, CredentialTypeOK

\* A step that moves nobody but the handler that makes it idle, and changes
\* the stored record: its key is one that was issued, and it is spent only if
\* what it brought was lost or is about to be stored.
LEMMA RecordStep ==
  ASSUME CredentialInv, channel' \in ChannelRecord,
         UNCHANGED <<auto_disable, reused>>,
         refresh_lock' \in Refreshers \cup {NoOne},
         provider' = provider \/
           /\ provider' = [provider EXCEPT !.last = provider.last + 1]
           /\ provider.last < MaxGeneration,
         \A g \in Refreshers :
           /\ refresher'[g] \in {refresher[g], IdleRefresher}
           /\ refresher'[g].pc \in {"send", "store"} => refresh_lock' = refresh_lock,
         refresher' = [g \in Refreshers |-> refresher'[g]],
         unstored \subseteq unstored', unstored' \subseteq Generation,
         channel'.key <= provider'.last,
         editor' \in [Editors -> [open : BOOLEAN, record : ChannelRecord]],
         \A e \in Editors : editor'[e].record.key <= provider'.last,
         channel'.key \in provider.consumed =>
           channel'.key \in unstored' \/
             \E h \in Refreshers : refresher'[h].pc = "store" /\ refresher'[h].expected = channel'.key
  PROVE  CredentialInv'
<1>1. /\ provider' \in [last : Generation, consumed : SUBSET Generation,
                         rejected : SUBSET Generation]
      /\ provider'.consumed = provider.consumed /\ provider'.rejected = provider.rejected
      /\ provider.last \in Nat /\ provider'.last \in Nat /\ provider.last <= provider'.last
  <2>1. provider \in [last : Generation, consumed : SUBSET Generation,
                      rejected : SUBSET Generation]
    BY Zenon DEF CredentialInv, CredentialTypeOK
  <2>2. CASE provider' = provider
    BY <2>1, <2>2 DEF Generation
  <2>3. CASE /\ provider' = [provider EXCEPT !.last = provider.last + 1]
             /\ provider.last < MaxGeneration
    <3>1. provider.last + 1 \in Generation /\ provider.last \in Nat
      BY <2>1, <2>3 DEF Generation
    <3> QED BY <2>1, <2>3, <3>1
  <2> QED BY Zenon, <2>2, <2>3
<1>2. refresher' \in [Refreshers -> RefresherRecord]
  BY Zenon, IdleIsRecord DEF CredentialInv, CredentialTypeOK, RefresherRecord
<1>3. CredentialTypeOK'
  BY Zenon, <1>1, <1>2 DEF CredentialInv, CredentialTypeOK, RefresherRecord
<1>4. ASSUME NEW g \in Refreshers PROVE InRefresh(g)'
  <2>1. CASE refresher'[g] = IdleRefresher
    BY Zenon, <2>1, IdleIsRecord DEF InRefresh
  <2>2. CASE refresher'[g] = refresher[g]
    <3>1. InRefresh(g) /\ refresher[g] \in RefresherRecord
      BY Zenon DEF CredentialInv, CredentialTypeOK, RefresherRecord
    <3>2. refresher[g].expected \in Nat /\ refresher[g].new \in Nat
      BY <3>1 DEF RefresherRecord, Generation
    <3> QED BY <1>1, <2>2, <3>1, <3>2 DEF InRefresh
  <2> QED BY Zenon, <2>1, <2>2
<1>5. provider'.consumed \subseteq 0..provider'.last
  BY <1>1 DEF CredentialInv
<1>6. channel'.key \in provider'.consumed =>
        channel'.key \in unstored' \/ AboutToStore(channel.key)'
  BY Zenon, <1>1 DEF AboutToStore
<1>7. ReuseOnlyAfterLoss'
  BY Zenon DEF CredentialInv, ReuseOnlyAfterLoss
<1> QED BY Zenon, <1>3, <1>4, <1>5, <1>6, <1>7 DEF CredentialInv

\* Nobody else is about to store when a handler stores, and what it stores has
\* not been used.
LEMMA RotatedKeepsInv ==
  ASSUME CredentialInv, NEW h \in Refreshers, Rotated(h)
  PROVE  CredentialInv'
<1>1. /\ UNCHANGED <<auto_disable, provider, editor, reused, unstored>>
      /\ refresher[h].pc = "store" /\ refresh_lock' = NoOne
      /\ refresher' = [refresher EXCEPT ![h] = IdleRefresher]
      /\ channel' = [channel EXCEPT !.key = refresher[h].new, !.recent = TRUE]
  BY Zenon DEF Rotated
<1>2. refresh_lock = h /\ refresher[h].new \in Generation
  BY Zenon, <1>1 DEF CredentialInv, InRefresh, CredentialTypeOK
<1>3. channel' \in ChannelRecord /\ channel'.key = refresher[h].new
  <2>1. channel \in ChannelRecord
    BY Zenon DEF CredentialInv, CredentialTypeOK
  <2> QED BY Zenon, <1>1, <1>2, <2>1 DEF ChannelRecord
<1>4. channel'.key <= provider'.last /\ channel'.key \notin provider.consumed
  BY Zenon, <1>1, <1>3 DEF CredentialInv, InRefresh
<1>5. \A g \in Refreshers :
        /\ refresher'[g] \in {refresher[g], IdleRefresher}
        /\ refresher'[g].pc \in {"send", "store"} => refresh_lock' = refresh_lock
  <2>1. \A g \in Refreshers \ {h} : refresher[g].pc \notin {"send", "store"}
    BY Zenon, <1>2, OneAtATime
  <2> QED BY Zenon, <1>1, <2>1, IdleIsRecord DEF CredentialInv, CredentialTypeOK
<1>6. refresher' = [g \in Refreshers |-> refresher'[g]]
  BY Zenon, <1>1 DEF CredentialInv, CredentialTypeOK
<1> QED
  BY Zenon, <1>1, <1>3, <1>4, <1>5, <1>6, RecordStep DEF CredentialInv, CredentialTypeOK

\* A handler that disables, and steps that change the status or the age of the
\* record, leave its key as it is.
LEMMA SameKeyKeepsInv ==
  ASSUME CredentialInv, channel' \in ChannelRecord, channel'.key = channel.key,
         UNCHANGED <<auto_disable, provider, refresh_lock, editor, reused, unstored>>,
         \/ UNCHANGED refresher
         \/ \E h \in Refreshers : /\ refresher[h].pc = "disable"
                                   /\ refresher' = [refresher EXCEPT ![h] = IdleRefresher]
  PROVE  CredentialInv'
<1>1. refresher \in [Refreshers -> RefresherRecord]
  BY Zenon DEF CredentialInv, CredentialTypeOK, RefresherRecord
<1>2. \A g \in Refreshers :
        /\ refresher'[g] \in {refresher[g], IdleRefresher}
        /\ refresher[g].pc = "store" => refresher'[g] = refresher[g]
  BY Zenon, <1>1
<1>3. refresher' = [g \in Refreshers |-> refresher'[g]]
  BY Zenon, <1>1
<1>4. channel'.key \in provider.consumed =>
        channel'.key \in unstored' \/
          \E h \in Refreshers : refresher'[h].pc = "store" /\ refresher'[h].expected = channel'.key
  BY Zenon, <1>2 DEF CredentialInv, AboutToStore
<1> QED
  BY Zenon, <1>2, <1>3, <1>4, RecordStep DEF CredentialInv, CredentialTypeOK

\* The steps that change only a status or the age of the last refresh.
LEMMA StatusStepsKeepInv ==
  ASSUME CredentialInv,
         RefreshAges \/ EnableChannel \/ \E h \in Refreshers : Disable(h)
  PROVE  CredentialInv'
<1>1. channel \in ChannelRecord
  BY Zenon DEF CredentialInv, CredentialTypeOK
<1>2. ASSUME NEW s \in {"enabled", "auto_disabled"}
      PROVE  LET new == [channel EXCEPT !.status = s]
             IN  new \in ChannelRecord /\ new.key = channel.key
  BY Zenon, <1>1 DEF ChannelRecord
<1>3. CASE RefreshAges
  <2>1. channel' \in ChannelRecord /\ channel'.key = channel.key
    BY Zenon, <1>1, <1>3 DEF RefreshAges, ChannelRecord
  <2> QED BY Zenon, <1>3, <2>1, SameKeyKeepsInv DEF RefreshAges
<1>4. CASE EnableChannel
  <2>1. channel' \in ChannelRecord /\ channel'.key = channel.key
    BY Zenon, <1>2, <1>4 DEF EnableChannel
  <2> QED BY Zenon, <1>4, <2>1, SameKeyKeepsInv DEF EnableChannel
<1>5. ASSUME NEW h \in Refreshers, Disable(h) PROVE CredentialInv'
  <2>1. channel' \in ChannelRecord /\ channel'.key = channel.key
    BY Zenon, <1>1, <1>2, <1>5 DEF Disable
  <2> QED BY Zenon, <1>5, <2>1, SameKeyKeepsInv DEF Disable
<1> QED BY Zenon, <1>3, <1>4, <1>5

\* The upstream rejects an access token.
LEMMA RejectAccessKeepsInv ==
  ASSUME CredentialInv, RejectAccess
  PROVE  CredentialInv'
<1>1. PICK g \in 0..provider.last : provider' = [provider EXCEPT !.rejected = @ \cup {g}]
  BY Zenon DEF RejectAccess
<1>2. UNCHANGED <<auto_disable, channel, refresher, refresh_lock, editor, reused, unstored>>
  BY Zenon DEF RejectAccess
<1>3. /\ provider' \in [last : Generation, consumed : SUBSET Generation,
                         rejected : SUBSET Generation]
      /\ provider'.last = provider.last /\ provider'.consumed = provider.consumed
      /\ provider.rejected \subseteq provider'.rejected
  <2>1. provider \in [last : Generation, consumed : SUBSET Generation,
                      rejected : SUBSET Generation]
    BY Zenon DEF CredentialInv, CredentialTypeOK
  <2>2. g \in Generation
    BY <2>1 DEF Generation
  <2> QED BY Zenon, <1>1, <2>1, <2>2
<1>4. CredentialTypeOK'
  BY Zenon, <1>2, <1>3 DEF CredentialInv, CredentialTypeOK
<1>5. ASSUME NEW h \in Refreshers PROVE InRefresh(h)'
  BY Zenon, <1>2, <1>3 DEF CredentialInv, InRefresh
<1> QED
  BY Zenon, <1>2, <1>3, <1>4, <1>5 DEF CredentialInv, AboutToStore, ReuseOnlyAfterLoss

\* An administrator edits the channel from what was read before.
LEMMA EditsKeepInv ==
  ASSUME CredentialInv, NEW e \in Editors,
         EditReads(e) \/ EditWrites(e) \/ EditImports(e)
  PROVE  CredentialInv'
<1>1. /\ editor \in [Editors -> [open : BOOLEAN, record : ChannelRecord]]
      /\ channel \in ChannelRecord /\ ClosedEditor \in [open : BOOLEAN, record : ChannelRecord]
      /\ ClosedEditor.record.key = 0 /\ provider.last \in Nat
      /\ refresher \in [Refreshers -> RefresherRecord]
  BY DEF CredentialInv, CredentialTypeOK, RefresherRecord, ClosedEditor, Stored, ChannelRecord,
         Generation
<1>2. /\ \A g \in Refreshers :
           /\ refresher'[g] \in {refresher[g], IdleRefresher}
           /\ refresher'[g].pc \in {"send", "store"} => refresh_lock' = refresh_lock
      /\ refresher' = [g \in Refreshers |-> refresher'[g]]
      /\ UNCHANGED <<auto_disable, reused, refresher, refresh_lock>>
  BY Zenon, <1>1 DEF EditReads, EditWrites, EditImports
<1>3. CASE EditReads(e)
  <2>1. editor' = [editor EXCEPT ![e] = [open |-> TRUE, record |-> channel]]
        /\ UNCHANGED <<channel, provider, unstored>>
    BY Zenon, <1>3 DEF EditReads
  <2>2. /\ editor' \in [Editors -> [open : BOOLEAN, record : ChannelRecord]]
        /\ \A f \in Editors : editor'[f].record.key <= provider'.last
    BY Zenon, <1>1, <2>1 DEF CredentialInv
  <2> QED BY Zenon, <1>2, <2>1, <2>2, RecordStep DEF CredentialInv, CredentialTypeOK, AboutToStore
<1>4. CASE EditWrites(e)
  <2>1. /\ channel' = editor[e].record /\ UNCHANGED provider
        /\ unstored' = unstored \cup
              (({editor[e].record.key} \ {channel.key}) \cap provider.consumed)
        /\ editor' = [editor EXCEPT ![e] = ClosedEditor]
    BY Zenon, <1>4 DEF EditWrites
  <2>2. /\ editor' \in [Editors -> [open : BOOLEAN, record : ChannelRecord]]
        /\ \A f \in Editors : editor'[f].record.key <= provider'.last
    BY <1>1, <2>1 DEF CredentialInv
  <2>3. channel' \in ChannelRecord /\ channel'.key <= provider'.last
    BY Zenon, <1>1, <2>1 DEF CredentialInv
  <2>4. unstored \subseteq unstored' /\ unstored' \subseteq Generation
    BY Zenon, <2>1 DEF CredentialInv, CredentialTypeOK
  <2>5. channel'.key \in provider.consumed =>
          channel'.key \in unstored' \/
            \E h \in Refreshers : refresher'[h].pc = "store" /\ refresher'[h].expected = channel'.key
    <3>1. CASE channel'.key = channel.key
      BY Zenon, <1>2, <2>4, <3>1 DEF CredentialInv, AboutToStore
    <3>2. CASE channel'.key # channel.key
      BY Zenon, <2>1, <3>2
    <3> QED BY Zenon, <3>1, <3>2
  <2> QED BY Zenon, <1>2, <2>1, <2>2, <2>3, <2>4, <2>5, RecordStep DEF CredentialInv, CredentialTypeOK
<1>5. CASE EditImports(e)
  <2>1. /\ provider.last < MaxGeneration
        /\ provider' = [provider EXCEPT !.last = provider.last + 1]
        /\ channel' = [editor[e].record EXCEPT !.key = provider.last + 1, !.recent = FALSE]
        /\ editor' = [editor EXCEPT ![e] = ClosedEditor] /\ UNCHANGED unstored
    BY Zenon, <1>5 DEF EditImports
  <2>2. provider.last + 1 \in Generation
    BY <1>1, <2>1 DEF Generation
  <2>3. provider'.last = provider.last + 1
    BY Zenon, <2>1 DEF CredentialInv, CredentialTypeOK
  <2>4. channel' \in ChannelRecord /\ channel'.key = provider.last + 1
    <3>1. editor[e].record \in ChannelRecord
      BY Zenon, <1>1
    <3> QED BY Zenon, <2>1, <2>2, <3>1 DEF ChannelRecord
  <2>5. channel'.key \notin provider.consumed /\ channel'.key <= provider'.last
    BY <1>1, <2>3, <2>4 DEF CredentialInv
  <2>6. /\ editor' \in [Editors -> [open : BOOLEAN, record : ChannelRecord]]
        /\ \A f \in Editors : editor'[f].record.key <= provider'.last
    <3>1. \A f \in Editors : editor[f].record.key \in Nat
      BY <1>1 DEF ChannelRecord, Generation
    <3> QED BY <1>1, <2>1, <2>3, <3>1 DEF CredentialInv
  <2> QED
    BY Zenon, <1>2, <2>1, <2>4, <2>5, <2>6, RecordStep DEF CredentialInv, CredentialTypeOK
<1> QED BY Zenon, <1>3, <1>4, <1>5

\* Every step keeps the invariant.
LEMMA CredentialNext_Inv ==
  ASSUME CredentialInv, [CredentialNext]_credential_vars
  PROVE  CredentialInv'
<1>1. CASE UNCHANGED credential_vars
  BY Zenon, <1>1 DEF credential_vars, CredentialInv, CredentialTypeOK, InRefresh, AboutToStore,
     ReuseOnlyAfterLoss
<1>2. CASE RejectAccess
  BY Zenon, <1>2, RejectAccessKeepsInv
<1>3. CASE RefreshAges \/ EnableChannel
  BY Zenon, <1>3, StatusStepsKeepInv
<1>4. ASSUME NEW h \in Refreshers,
             \/ Feedback(h) \/ ManualRefresh(h) \/ Locked(h) \/ Refreshed(h)
             \/ NotRefreshed(h) \/ Rotated(h) \/ NotRotated(h) \/ Disable(h)
             \/ RefresherDropped(h)
      PROVE  CredentialInv'
  BY Zenon, <1>4, FeedbackKeepsInv, LockedKeepsInv, RefreshedKeepsInv, NotRefreshedKeepsInv,
     RotatedKeepsInv, NotRotatedKeepsInv, StatusStepsKeepInv, RefresherDroppedKeepsInv
<1>5. ASSUME NEW e \in Editors, EditReads(e) \/ EditWrites(e) \/ EditImports(e)
      PROVE  CredentialInv'
  BY Zenon, <1>5, EditsKeepInv
<1> QED BY Zenon, <1>1, <1>2, <1>3, <1>4, <1>5 DEF CredentialNext

\* Every reachable state of the refreshes, the edits and the provider satisfies
\* the inductive invariant.
THEOREM CredentialInvariant == CredentialSpec => []CredentialInv
  BY CredentialInit_Inv, CredentialNext_Inv, PTL DEF CredentialSpec

\* With any number of handlers and editors, a refresh token is sent a second
\* time only if what it brought the first time was lost or undone by an edit.
THEOREM RefreshTokensSentOnce == CredentialSpec => []ReuseOnlyAfterLoss
<1>1. CredentialInv => ReuseOnlyAfterLoss
  BY Zenon DEF CredentialInv
<1> QED BY <1>1, CredentialInvariant, PTL

\* A step that disables the channel finds a rejected key in it.
LEMMA DisableStep ==
  ASSUME CredentialInv, [CredentialNext]_credential_vars,
         channel.status = "enabled", channel'.status = "auto_disabled", UNCHANGED editor
  PROVE  channel.key \in provider.rejected
<1>1. channel \in ChannelRecord /\ editor \in [Editors -> [open : BOOLEAN, record : ChannelRecord]]
  BY Zenon DEF CredentialInv, CredentialTypeOK
<1>2. channel' # channel
  BY Zenon
<1>3. ASSUME NEW e \in Editors, EditWrites(e) \/ EditImports(e) PROVE FALSE
  <2>1. editor[e].open /\ editor' = [editor EXCEPT ![e] = ClosedEditor]
    BY Zenon, <1>3 DEF EditWrites, EditImports
  <2>2. editor'[e].open = FALSE
    BY <1>1, <2>1 DEF ClosedEditor
  <2> QED BY Zenon, <2>1, <2>2
<1>4. ASSUME NEW h \in Refreshers, Rotated(h) PROVE FALSE
  BY Zenon, <1>1, <1>4 DEF Rotated, ChannelRecord
<1>5. ~RefreshAges /\ ~EnableChannel
  BY Zenon, <1>1 DEF RefreshAges, EnableChannel, ChannelRecord
<1>6. ASSUME NEW h \in Refreshers, Disable(h)
      PROVE  channel.key \in provider.rejected
  <2>1. channel.key = refresher[h].observed
    BY Zenon, <1>2, <1>6 DEF Disable
  <2>2. refresher[h].observed \in provider.rejected
    BY Zenon, <1>6 DEF Disable, CredentialInv, InRefresh
  <2> QED BY Zenon, <2>1, <2>2
<1> QED
  BY Zenon, <1>2, <1>3, <1>4, <1>5, <1>6
     DEF CredentialNext, credential_vars, RejectAccess, Feedback, ManualRefresh, Locked,
         Refreshed, NotRefreshed, NotRotated, RefresherDropped, EditReads

\* Feedback never disables a channel for a credential that has not been
\* rejected, whatever refresh or import it races with.
THEOREM FeedbackDisablesRejected == CredentialSpec => DisablesRejectedOnly
<1>1. CredentialInv /\ [CredentialNext]_credential_vars =>
        [(channel.status = "enabled" /\ channel'.status = "auto_disabled"
          /\ UNCHANGED editor) => channel.key \in provider.rejected]_credential_vars
  BY Zenon, DisableStep
<1> QED BY <1>1, CredentialInvariant, PTL DEF CredentialSpec, DisablesRejectedOnly

-----------------------------------------------------------------------------
(***************************************************************************)
(* The system task queue                                                   *)
(***************************************************************************)


\* A record that was cloned from a task is not ahead of it, and a finished one
\* is what the task has remained since.
Lags(record, t) ==
  /\ Rank(record) <= Rank(tasks[t])
  /\ IsFinished(record) => record = tasks[t]

Upserting(r) == runner[r].pc \in {"claimed", "updated", "ended"}

\* Every record on its way to the table lags behind its task.
ClonesLag ==
  /\ \A s \in Starters : starter[s].pc = "persist" =>
       starter[s].task \in TaskSlots /\ Lags(starter[s].record, starter[s].task)
  /\ \A r \in Runners : runner[r].pc # "unused" => runner[r].task \in TaskSlots
  /\ \A r \in Runners : Upserting(r) => Lags(runner[r].record, runner[r].task)

RowsLag == \A t \in TaskSlots : Lags(rows[t], t)

WorkersHold == \A r \in Runners : Working(r) => Holds(r)

\* The inductive invariant.
TaskInv == TaskTypeOK /\ OneActiveTask /\ ClonesLag /\ RowsLag /\ WorkersHold

\* Memory keeps its type when one task gets another record.
LEMMA UpdateKeepsType ==
  ASSUME tasks \in [TaskSlots -> TaskRecord], NEW t, NEW record \in TaskRecord,
         tasks' = [tasks EXCEPT ![t] = record]
  PROVE  tasks' \in [TaskSlots -> TaskRecord]
  BY Zenon

USE SystemTaskAssumption DEF Statuses, TaskRecord, Absent

-----------------------------------------------------------------------------
\* The invariant holds before any task is started.
LEMMA InitTaskInv == TaskInit => TaskInv
<1> SUFFICES ASSUME TaskInit PROVE TaskInv
  BY Zenon
<1> USE DEF TaskInit
<1>1. TaskTypeOK
  BY DEF TaskTypeOK, StarterState, RunnerState, IdleStarter, UnusedRunner
<1>2. OneActiveTask
  BY Zenon DEF OneActiveTask, IsActive
<1>3. ClonesLag
  BY Zenon DEF ClonesLag, IdleStarter, UnusedRunner, Upserting
<1>4. RowsLag
  BY DEF RowsLag, Lags, Rank, IsFinished
<1>5. WorkersHold
  BY Zenon DEF WorkersHold, Working, UnusedRunner
<1> QED
  BY Zenon, <1>1, <1>2, <1>3, <1>4, <1>5 DEF TaskInv

\* A task that advances leaves behind it what lagged: memory changes go from
\* absent to pending to running to finished, and end there.
LEMMA AdvanceKeepsLag ==
  ASSUME TaskTypeOK,
         NEW t \in TaskSlots, NEW new \in TaskRecord,
         Rank(tasks[t]) <= Rank(new), ~IsFinished(tasks[t]),
         tasks' = [tasks EXCEPT ![t] = new],
         NEW u \in TaskSlots, NEW record \in TaskRecord,
         Lags(record, u)
  PROVE  Lags(record, u)'
<1>1. CASE u = t
  <2>1. ~IsFinished(record)
    BY Zenon, <1>1 DEF Lags
  <2>2. tasks[t] \in TaskRecord /\ tasks'[t] = new
    BY Zenon DEF TaskTypeOK
  <2>3. Rank(record) \in Nat /\ Rank(tasks[t]) \in Nat /\ Rank(new) \in Nat
    BY Zenon DEF Rank
  <2>4. Rank(record) <= Rank(new)
    BY <1>1, <2>3 DEF Lags
  <2> QED
    BY Zenon, <1>1, <2>1, <2>2, <2>4 DEF Lags, Rank
<1>2. CASE u # t
  <2>1. tasks'[u] = tasks[u]
    BY Zenon, <1>2 DEF TaskTypeOK
  <2> QED
    BY Zenon, <2>1 DEF Lags, Rank
<1> QED
  BY Zenon, <1>1, <1>2

\* What lags in one state lags in the next one when memory stays as it is.
LEMMA SameKeepsLag ==
  ASSUME UNCHANGED tasks, NEW u \in TaskSlots, NEW record, Lags(record, u)
  PROVE  Lags(record, u)'
  BY Zenon DEF Lags, Rank

\* The records that starters are about to upsert go on lagging when memory stays as
\* it is and a starter becomes idle, or takes a record that lags.
LEMMA StarterClonesLag ==
  ASSUME TaskTypeOK, ClonesLag, UNCHANGED tasks, NEW s \in Starters, NEW new,
         UNCHANGED starter \/ starter' = [starter EXCEPT ![s] = new],
         new.pc = "persist" => new.task \in TaskSlots /\ Lags(new.record, new.task)
  PROVE  \A q \in Starters : starter'[q].pc = "persist" =>
           starter'[q].task \in TaskSlots /\ Lags(starter[q].record, starter[q].task)'
<1> SUFFICES ASSUME NEW q \in Starters, starter'[q].pc = "persist"
             PROVE  starter'[q].task \in TaskSlots /\ Lags(starter[q].record, starter[q].task)'
  BY Zenon
<1>1. starter'[q] = starter[q] \/ starter'[q] = new
  BY Zenon DEF TaskTypeOK
<1>2. starter'[q].task \in TaskSlots /\ Lags(starter'[q].record, starter'[q].task)
  BY Zenon, <1>1 DEF ClonesLag
<1> QED BY Zenon, <1>2 DEF Lags, Rank

\* The same of runners, when one that had nothing to do is to claim a task.
LEMMA RunnerClonesLag ==
  ASSUME TaskTypeOK, ClonesLag, UNCHANGED tasks,
         \/ UNCHANGED runner
         \/ \E r \in Runners, t \in TaskSlots :
              runner' = [runner EXCEPT ![r] = [pc |-> "claim", task |-> t, record |-> Absent]]
  PROVE  /\ \A q \in Runners : runner'[q].pc # "unused" => runner'[q].task \in TaskSlots
         /\ \A q \in Runners : Upserting(q)' => Lags(runner[q].record, runner[q].task)'
<1> SUFFICES ASSUME NEW q \in Runners
             PROVE  /\ runner'[q].pc # "unused" => runner'[q].task \in TaskSlots
                    /\ Upserting(q)' => Lags(runner[q].record, runner[q].task)'
  BY Zenon
<1>1. CASE runner'[q] = runner[q]
  <2>1. /\ runner'[q].pc # "unused" => runner'[q].task \in TaskSlots
        /\ Upserting(q)' => Lags(runner'[q].record, runner'[q].task)
    BY Zenon, <1>1 DEF ClonesLag, Upserting
  <2> QED BY Zenon, <2>1 DEF Lags, Rank
<1>2. ASSUME NEW t \in TaskSlots, runner'[q] = [pc |-> "claim", task |-> t, record |-> Absent]
      PROVE  /\ runner'[q].pc # "unused" => runner'[q].task \in TaskSlots
             /\ Upserting(q)' => Lags(runner[q].record, runner[q].task)'
  <2> DEFINE new == [pc |-> "claim", task |-> t, record |-> Absent]
  <2>1. new.pc = "claim" /\ new.task = t /\ runner'[q] = new
    BY Zenon, <1>2
  <2> HIDE DEF new
  <2> QED BY Zenon, <2>1 DEF Upserting
<1> QED BY Zenon, <1>1, <1>2 DEF TaskTypeOK

\* A successful upsert keeps the unique active_key and the order between table
\* and memory.
LEMMA PersistsKeeps ==
  ASSUME TaskTypeOK, OneActiveTask, RowsLag, UNCHANGED tasks,
         NEW t \in TaskSlots, NEW record \in TaskRecord, Lags(record, t),
         Persists(t, record)
  PROVE  OneActiveTask' /\ RowsLag' /\ rows' \in [TaskSlots -> TaskRecord]
<1> USE DEF Persists, KeyIsFree
<1>1. rows' \in [TaskSlots -> TaskRecord]
  BY Zenon DEF TaskTypeOK
<1>2. \A u \in TaskSlots : rows'[u] = IF u = t THEN record ELSE rows[u]
  BY Zenon DEF TaskTypeOK
<1>3. OneActiveTask'
  BY <1>2 DEF OneActiveTask, IsActive
<1>4. RowsLag'
  BY <1>2, SameKeepsLag DEF RowsLag, Lags, Rank
<1> QED
  BY Zenon, <1>1, <1>3, <1>4

-----------------------------------------------------------------------------
\* Spawning changes one runner that is not in use.
LEMMA SpawnStep ==
  ASSUME TaskTypeOK, NEW t \in TaskSlots, Spawn(t)
  PROVE  \E r \in Runners :
           /\ runner[r].pc = "unused"
           /\ runner' = [runner EXCEPT ![r] = [pc |-> "claim", task |-> t, record |-> Absent]]
<1> DEFINE new == [pc |-> "claim", task |-> t, record |-> Absent]
<1>1. Unused # {} /\ runner' = [runner EXCEPT ![CHOOSE r \in Unused : TRUE] = new]
  BY Zenon DEF Spawn
<1> HIDE DEF new
<1>2. (CHOOSE r \in Unused : TRUE) \in Unused
  BY <1>1, Zenon
<1>3. \E r \in Unused : runner' = [runner EXCEPT ![r] = new]
  BY <1>1, <1>2, Zenon
<1> QED
  BY Zenon, <1>3 DEF Unused, new

\* The steps by which a task is started preserve the invariant.
LEMMA StarterKeepsInv ==
  ASSUME TaskInv, NEW s \in Starters,
         Enqueue(s) \/ JoinCleanup(s) \/ JoinPending(s) \/ StarterStep(s) \/ StartDropped(s)
  PROVE  TaskInv'
<1> USE DEF TaskInv
<1>1. CASE Enqueue(s)
  <2> DEFINE new == [Absent EXCEPT !.status = "pending"]
  <2>1. PICK t \in TaskSlots :
          /\ IsNextTask(t)
          /\ tasks' = [tasks EXCEPT ![t] = new]
          /\ starter' = [starter EXCEPT ![s] = [pc |-> "persist", task |-> t, record |-> new]]
    BY Zenon, <1>1 DEF Enqueue
  <2>2. UNCHANGED <<task_type, rows, runner>> /\ Active(tasks) = {}
    BY Zenon, <1>1 DEF Enqueue
  <2>3. tasks[t].status = "absent"
    BY <2>1 DEF IsNextTask
  <2>4. new \in TaskRecord /\ new.status = "pending"
    OBVIOUS
  <2> HIDE DEF new
  <2>5. Rank(tasks[t]) <= Rank(new) /\ ~IsFinished(tasks[t]) /\ ~IsFinished(new)
    BY <2>3, <2>4 DEF Rank, IsFinished
  <2>6. TaskTypeOK'
    BY Zenon, <2>1, <2>2, <2>4 DEF TaskTypeOK, StarterState
  <2>7. \A u \in TaskSlots : tasks'[u] = IF u = t THEN new ELSE tasks[u]
    BY Zenon, <2>1 DEF TaskTypeOK
  <2>8. OneActiveTask'
    BY Zenon, <2>2, <2>7 DEF OneActiveTask, Active, IsActive
  <2>9. \A u \in TaskSlots, record \in TaskRecord : Lags(record, u) => Lags(record, u)'
    BY Zenon, <2>1, <2>4, <2>5, AdvanceKeepsLag
  <2>10. Lags(new, t)'
    BY <2>5, <2>7 DEF Lags, Rank
  <2>11. ClonesLag'
    <3>1. \A q \in Starters : starter'[q].pc = "persist" =>
            starter'[q].task \in TaskSlots /\ Lags(starter[q].record, starter[q].task)'
      <4> SUFFICES ASSUME NEW q \in Starters, starter'[q].pc = "persist"
                   PROVE  starter'[q].task \in TaskSlots /\ Lags(starter[q].record, starter[q].task)'
        BY Zenon
      <4>1. CASE q = s
        <5>1. starter'[q].task = t /\ starter'[q].record = new
          BY Zenon, <4>1, <2>1 DEF TaskTypeOK
        <5> QED
          BY Zenon, <5>1, <2>10
      <4>2. CASE q # s
        <5>1. starter'[q] = starter[q] /\ starter[q].record \in TaskRecord
          BY Zenon, <4>2, <2>1 DEF TaskTypeOK, StarterState
        <5> QED
          BY Zenon, <5>1, <2>9 DEF ClonesLag
      <4> QED
        BY Zenon, <4>1, <4>2
    <3>2. \A r \in Runners : Upserting(r)' => Lags(runner[r].record, runner[r].task)'
      BY Zenon, <2>2, <2>9 DEF ClonesLag, Upserting, TaskTypeOK, RunnerState
    <3>3. \A r \in Runners : runner'[r].pc # "unused" => runner'[r].task \in TaskSlots
      BY Zenon, <2>2 DEF ClonesLag
    <3> QED
      BY Zenon, <3>1, <3>2, <3>3 DEF ClonesLag
  <2>12. RowsLag'
    BY Zenon, <2>2, <2>9 DEF RowsLag, TaskTypeOK
  <2>13. WorkersHold'
    BY ZenonT(30), <2>2, <2>3, <2>7 DEF WorkersHold, Working, Holds, ClonesLag
  <2> QED
    BY Zenon, <2>6, <2>8, <2>11, <2>12, <2>13
<1>2. CASE JoinCleanup(s)
  <2>1. PICK t \in Active(tasks) :
          starter' = [starter EXCEPT ![s] = [pc |-> "persist", task |-> t, record |-> tasks[t]]]
    BY Zenon, <1>2 DEF JoinCleanup
  <2>2. UNCHANGED <<task_type, tasks, rows, runner>>
    BY Zenon, <1>2 DEF JoinCleanup
  <2>3. t \in TaskSlots /\ tasks[t] \in TaskRecord
    BY Zenon DEF Active, TaskTypeOK
  <2>4. TaskTypeOK'
    BY Zenon, <2>1, <2>2, <2>3 DEF TaskTypeOK, StarterState
  <2>5. Lags(tasks[t], t)
    BY <2>3 DEF Lags, Rank
  <2>6. OneActiveTask' /\ RowsLag' /\ WorkersHold'
    BY Zenon, <2>2 DEF OneActiveTask, RowsLag, WorkersHold, Working, Holds, Lags, Rank
  <2>7. ClonesLag'
    <3> DEFINE new == [pc |-> "persist", task |-> t, record |-> tasks[t]]
    <3>1. new.task = t /\ new.record = tasks[t]
      BY Zenon
    <3> HIDE DEF new
    <3>2. starter' = [starter EXCEPT ![s] = new]
      BY Zenon, <2>1 DEF new
    <3> QED BY Zenon, <2>2, <2>3, <2>5, <3>1, <3>2, StarterClonesLag, RunnerClonesLag
            DEF ClonesLag
  <2> QED
    BY Zenon, <2>4, <2>6, <2>7
<1>3. ASSUME NEW t \in TaskSlots, Spawn(t), UNCHANGED <<task_type, tasks>>,
             OneActiveTask', RowsLag', rows' \in [TaskSlots -> TaskRecord],
             \/ UNCHANGED starter
             \/ starter' = [starter EXCEPT ![s] = IdleStarter]
      PROVE  TaskInv'
  <2>1. PICK r \in Runners :
          /\ runner[r].pc = "unused"
          /\ runner' = [runner EXCEPT ![r] = [pc |-> "claim", task |-> t, record |-> Absent]]
    BY Zenon, <1>3, SpawnStep
  <2>2. TaskTypeOK'
    <3>1. starter' \in [Starters -> StarterState]
      BY <1>3 DEF TaskTypeOK, StarterState, IdleStarter
    <3>2. [pc |-> "claim", task |-> t, record |-> Absent] \in RunnerState
      BY DEF RunnerState
    <3>3. runner' \in [Runners -> RunnerState]
      BY Zenon, <2>1, <3>2 DEF TaskTypeOK
    <3> QED
      BY Zenon, <1>3, <3>1, <3>3 DEF TaskTypeOK
  <2>3. ClonesLag'
    <3>1. IdleStarter.pc # "persist"
      BY Zenon DEF IdleStarter
    <3> QED BY Zenon, <1>3, <2>1, <3>1, StarterClonesLag, RunnerClonesLag DEF ClonesLag
  <2>4. WorkersHold'
    BY <1>3, <2>1 DEF WorkersHold, Working, Holds, TaskTypeOK
  <2> QED
    BY Zenon, <1>3, <2>2, <2>3, <2>4
<1>4. CASE JoinPending(s)
  <2>1. PICK t \in TaskSlots : Spawn(t)
    BY Zenon, <1>4 DEF JoinPending, Active
  <2>2. UNCHANGED <<task_type, tasks, rows, starter>>
    BY Zenon, <1>4 DEF JoinPending
  <2>3. OneActiveTask' /\ RowsLag' /\ rows' \in [TaskSlots -> TaskRecord]
    BY Zenon, <2>2 DEF OneActiveTask, RowsLag, Lags, Rank, TaskTypeOK
  <2> QED
    BY Zenon, <1>3, <2>1, <2>2, <2>3
<1>5. ASSUME starter[s].pc = "persist"
      PROVE  /\ starter[s].task \in TaskSlots /\ starter[s].record \in TaskRecord
             /\ Lags(starter[s].record, starter[s].task)
  BY Zenon, <1>5 DEF ClonesLag, TaskTypeOK, StarterState
<1>6. CASE Started(s)
  <2>1. /\ starter[s].pc = "persist" /\ Persists(starter[s].task, starter[s].record)
        /\ Spawn(starter[s].task) /\ UNCHANGED <<task_type, tasks>>
        /\ starter' = [starter EXCEPT ![s] = IdleStarter]
    BY Zenon, <1>6 DEF Started
  <2>2. OneActiveTask' /\ RowsLag' /\ rows' \in [TaskSlots -> TaskRecord]
    BY Zenon, <2>1, <1>5, PersistsKeeps
  <2> QED
    BY Zenon, <1>3, <1>5, <2>1, <2>2
<1>7. ASSUME starter[s].pc = "persist", UNCHANGED <<task_type, tasks, runner>>,
             Persists(starter[s].task, starter[s].record) \/ UNCHANGED rows,
             starter' = [starter EXCEPT ![s] = IdleStarter]
      PROVE  TaskInv'
  <2>1. OneActiveTask' /\ RowsLag' /\ rows' \in [TaskSlots -> TaskRecord]
    <3>1. CASE Persists(starter[s].task, starter[s].record)
      BY Zenon, <1>5, <1>7, <3>1, PersistsKeeps
    <3>2. CASE UNCHANGED rows
      BY Zenon, <1>7, <3>2 DEF OneActiveTask, RowsLag, Lags, Rank, TaskTypeOK
    <3> QED
      BY Zenon, <1>7, <3>1, <3>2
  <2>2. TaskTypeOK'
    BY <1>7, <2>1 DEF TaskTypeOK, StarterState, IdleStarter
  <2>3. ClonesLag'
    <3>1. IdleStarter.pc # "persist"
      BY Zenon DEF IdleStarter
    <3> QED BY Zenon, <1>7, <3>1, StarterClonesLag, RunnerClonesLag DEF ClonesLag
  <2>4. WorkersHold'
    BY Zenon, <1>7 DEF WorkersHold, Working, Holds
  <2> QED
    BY Zenon, <2>1, <2>2, <2>3, <2>4
<1>8. CASE StartFails(s)
  BY Zenon, <1>7, <1>8 DEF StartFails, PersistFails
<1>9. CASE StartDropped(s)
  BY Zenon, <1>7, <1>9 DEF StartDropped
<1> QED
  BY Zenon, <1>1, <1>2, <1>4, <1>6, <1>8, <1>9 DEF StarterStep

-----------------------------------------------------------------------------
\* A runner that goes elsewhere, with a record that lags if it is to be upserted
\* and with the task held if it goes on working, keeps what the invariant says
\* of runners, while the tasks of others and what they hold stay.
LEMMA RunnerMoves ==
  ASSUME TaskInv, NEW r \in Runners, runner[r].pc # "unused",
         NEW new \in RunnerState, runner' = [runner EXCEPT ![r] = new],
         UNCHANGED <<task_type, starter>>,
         tasks' \in [TaskSlots -> TaskRecord], rows' \in [TaskSlots -> TaskRecord],
         OneActiveTask', RowsLag',
         \A u \in TaskSlots, record \in TaskRecord : Lags(record, u) => Lags(record, u)',
         \A q \in Runners \ {r} : Holds(q) /\ Working(q) => Holds(q)',
         new.pc # "unused" => new.task \in TaskSlots,
         new.pc \in {"claimed", "updated", "ended"} => Lags(runner[r].record, runner[r].task)',
         new.pc \in {"claimed", "run", "updated"} => Holds(r)'
  PROVE  TaskInv'
<1> USE DEF TaskInv
<1>1. TaskTypeOK'
  BY Zenon DEF TaskTypeOK
<1>2. \A q \in Runners : runner'[q] = IF q = r THEN new ELSE runner[q]
  BY Zenon DEF TaskTypeOK
<1>3. ClonesLag'
  <2>1. \A q \in Starters : starter'[q].pc = "persist" =>
          starter'[q].task \in TaskSlots /\ Lags(starter[q].record, starter[q].task)'
    BY Zenon DEF ClonesLag, TaskTypeOK, StarterState
  <2>2. \A q \in Runners : runner'[q].pc # "unused" => runner'[q].task \in TaskSlots
    BY Zenon, <1>2 DEF ClonesLag
  <2>3. ASSUME NEW q \in Runners, Upserting(q)'
        PROVE  Lags(runner[q].record, runner[q].task)'
    <3>1. CASE q = r
      BY Zenon, <3>1, <1>2, <2>3 DEF Upserting
    <3>2. CASE q # r
      <4>1. runner'[q] = runner[q] /\ Upserting(q)
        BY Zenon, <3>2, <1>2, <2>3 DEF Upserting
      <4>2. runner[q].record \in TaskRecord /\ runner[q].task \in TaskSlots
        BY Zenon, <4>1 DEF TaskTypeOK, RunnerState, ClonesLag, Upserting
      <4>3. Lags(runner[q].record, runner[q].task)
        BY Zenon, <4>1 DEF ClonesLag
      <4> QED
        BY Zenon, <4>1, <4>2, <4>3
    <3> QED
      BY Zenon, <3>1, <3>2
  <2> QED
    BY Zenon, <2>1, <2>2, <2>3 DEF ClonesLag
<1>4. WorkersHold'
  <2>1. ASSUME NEW q \in Runners, Working(q)' PROVE Holds(q)'
    <3>1. CASE q = r
      BY Zenon, <3>1, <1>2, <2>1 DEF Working
    <3>2. CASE q # r
      BY Zenon, <3>2, <1>2, <2>1 DEF Working, WorkersHold
    <3> QED
      BY Zenon, <3>1, <3>2
  <2> QED
    BY Zenon, <2>1 DEF WorkersHold
<1> QED
  BY Zenon, <1>1, <1>3, <1>4

\* A runner that changes its task in memory, from pending to running, or while it
\* holds it, to a record it goes on to upsert.
LEMMA MemoryStep ==
  ASSUME TaskInv, NEW r \in Runners, runner[r].pc # "unused",
         NEW record \in TaskRecord, NEW pc \in {"claimed", "updated", "ended"},
         LET t == runner[r].task IN
         /\ tasks[t].status = "pending" \/ Holds(r)
         /\ tasks' = [tasks EXCEPT ![t] = record],
         pc # "ended" => record.status = "running" /\ record.locked_by = r,
         pc = "ended" => IsFinished(record),
         Go(r, pc, record), UNCHANGED <<task_type, rows, starter>>
  PROVE  TaskInv'
<1> USE DEF TaskInv
<1> DEFINE t == runner[r].task
           new == [runner[r] EXCEPT !.pc = pc, !.record = record]
<1>1. t \in TaskSlots /\ runner[r] \in RunnerState /\ tasks[t] \in TaskRecord
  BY Zenon DEF ClonesLag, TaskTypeOK
<1>2. runner' = [runner EXCEPT ![r] = new]
  BY Zenon DEF Go
<1>3. new \in RunnerState /\ new.pc = pc /\ new.record = record /\ new.task = t
  BY Zenon, <1>1 DEF RunnerState
<1> HIDE DEF new
<1>4. tasks[t].status \in {"pending", "running"}
  BY Zenon DEF Holds
<1>5. tasks' = [tasks EXCEPT ![t] = record]
  BY Zenon
<1> HIDE DEF t
<1>6. \A u \in TaskSlots : tasks'[u] = IF u = t THEN record ELSE tasks[u]
  BY Zenon, <1>1, <1>5 DEF TaskTypeOK
<1>7. tasks' \in [TaskSlots -> TaskRecord] /\ rows' \in [TaskSlots -> TaskRecord]
  <2>1. tasks \in [TaskSlots -> TaskRecord] /\ rows \in [TaskSlots -> TaskRecord]
    BY Zenon DEF TaskTypeOK
  <2>2. record \in TaskRecord /\ rows' = rows
    BY Zenon
  <2> HIDE DEF TaskRecord
  <2>3. tasks' \in [TaskSlots -> TaskRecord]
    BY Zenon, <1>5, <2>1, <2>2, UpdateKeepsType
  <2> QED
    BY Zenon, <2>1, <2>2, <2>3
<1>8. Rank(tasks[t]) <= Rank(record) /\ ~IsFinished(tasks[t])
  BY SMTT(30), <1>4 DEF Rank, IsFinished
<1>9. \A u \in TaskSlots, old \in TaskRecord : Lags(old, u) => Lags(old, u)'
  BY Zenon, <1>1, <1>5, <1>8, AdvanceKeepsLag
<1>10. OneActiveTask'
  <2>1. IsActive(tasks[t])
    BY Zenon, <1>4 DEF IsActive
  <2>2. ASSUME NEW u \in TaskSlots, u # t PROVE ~IsActive(tasks[u]) /\ tasks'[u] = tasks[u]
    BY Zenon, <1>1, <1>6, <2>1, <2>2 DEF OneActiveTask
  <2>3. ASSUME NEW u \in TaskSlots, IsActive(tasks'[u]) PROVE u = t
    BY Zenon, <2>2, <2>3
  <2> QED BY Zenon, <2>3 DEF OneActiveTask, IsActive
<1>11. RowsLag'
  BY Zenon, <1>9 DEF RowsLag, TaskTypeOK
<1>12. \A q \in Runners : runner'[q] = IF q = r THEN new ELSE runner[q]
  BY Zenon, <1>2 DEF TaskTypeOK
<1>13. \A q \in Runners \ {r} : Holds(q) /\ Working(q) => Holds(q)'
  <2> SUFFICES ASSUME NEW q \in Runners \ {r}, Holds(q), Working(q) PROVE Holds(q)'
    BY Zenon
  <2>1. runner[q].task \in TaskSlots
    BY Zenon DEF ClonesLag, Working
  <2>2. runner[q].task # t
    BY Zenon DEF Holds, t
  <2> QED
    BY Zenon, <1>6, <1>12, <2>1, <2>2 DEF Holds
<1>14. Lags(runner[r].record, runner[r].task)'
  <2>1. runner'[r].record = record /\ runner'[r].task = t /\ tasks'[t] = record
    BY Zenon, <1>1, <1>3, <1>6, <1>12
  <2>2. Rank(record) <= Rank(record)
    BY DEF Rank
  <2>3. Rank(runner'[r].record) <= Rank(tasks'[runner'[r].task])
    BY Zenon, <2>1, <2>2
  <2> QED BY Zenon, <2>1, <2>3 DEF Lags, Rank
<1>15. pc # "ended" => Holds(r)'
  BY Zenon, <1>1, <1>3, <1>6, <1>12 DEF Holds
<1> QED
  BY Zenon, <1>1, <1>2, <1>3, <1>7, <1>9, <1>10, <1>11, <1>13, <1>14, <1>15, RunnerMoves

\* A runner that leaves memory alone and has no more to upsert.
LEMMA QuietStep ==
  ASSUME TaskInv, NEW r \in Runners, runner[r].pc # "unused",
         UNCHANGED <<task_type, tasks, starter>>,
         OneActiveTask', RowsLag', rows' \in [TaskSlots -> TaskRecord],
         \/ RunnerEnds(r)
         \/ Go(r, "fail", Absent)
         \/ Go(r, "run", Absent) /\ Working(r)
  PROVE  TaskInv'
<1> USE DEF TaskInv
<1>1. \A u \in TaskSlots, record \in TaskRecord : Lags(record, u) => Lags(record, u)'
  BY Zenon, SameKeepsLag
<1>2. tasks' \in [TaskSlots -> TaskRecord] /\ runner[r] \in RunnerState
  BY Zenon DEF TaskTypeOK
<1>3. ASSUME NEW new \in RunnerState, runner' = [runner EXCEPT ![r] = new],
             new.pc \in {"unused", "fail", "run"},
             new.pc # "unused" => new.task = runner[r].task,
             new.pc = "run" => Working(r)
      PROVE  TaskInv'
  <2>1. \A q \in Runners : runner'[q] = IF q = r THEN new ELSE runner[q]
    BY Zenon, <1>3 DEF TaskTypeOK
  <2>2. \A q \in Runners \ {r} : Holds(q) /\ Working(q) => Holds(q)'
    BY Zenon, <2>1 DEF Holds
  <2>3. ASSUME new.pc = "run" PROVE Holds(r)'
    <3>1. runner'[r] = new /\ new.task = runner[r].task
      BY Zenon, <1>3, <2>1, <2>3
    <3>2. Holds(r)
      BY Zenon, <1>3, <2>3 DEF WorkersHold
    <3> QED BY Zenon, <3>1, <3>2 DEF Holds
  <2>4. new.pc # "unused" => new.task \in TaskSlots
    BY Zenon, <1>3 DEF ClonesLag
  <2> QED
    BY Zenon, <1>1, <1>2, <1>3, <2>2, <2>3, <2>4, RunnerMoves
<1>4. CASE RunnerEnds(r)
  <2>1. UnusedRunner \in RunnerState /\ UnusedRunner.pc = "unused"
    BY SMTT(30) DEF UnusedRunner, RunnerState
  <2>2. runner' = [runner EXCEPT ![r] = UnusedRunner]
    BY Zenon, <1>4 DEF RunnerEnds
  <2> QED
    BY Zenon, <1>3, <2>1, <2>2
<1>5. ASSUME NEW pc \in {"fail", "run"}, Go(r, pc, Absent), pc = "run" => Working(r)
      PROVE  TaskInv'
  <2> DEFINE new == [runner[r] EXCEPT !.pc = pc, !.record = Absent]
  <2>1. runner' = [runner EXCEPT ![r] = new]
    BY Zenon, <1>5 DEF Go
  <2>2. new \in RunnerState /\ new.pc = pc /\ new.task = runner[r].task
    <3>1. Absent \in TaskRecord
      OBVIOUS
    <3> HIDE DEF TaskRecord, Absent
    <3> QED
      BY Zenon, <1>2, <3>1 DEF RunnerState
  <2> HIDE DEF new
  <2> QED
    BY Zenon, <1>3, <1>5, <2>1, <2>2
<1> QED
  BY Zenon, <1>4, <1>5

\* The steps of a runner preserve the invariant.
LEMMA RunnerKeepsInv ==
  ASSUME TaskInv, NEW r \in Runners, RunnerStep(r)
  PROVE  TaskInv'
<1> USE DEF TaskInv
<1> DEFINE t == runner[r].task
<1>1. runner[r].pc # "unused"
  BY Zenon DEF RunnerStep, Claim, UpdateState, WorkFails, FinishTask, Persisted, NotPersisted
<1>2. t \in TaskSlots /\ tasks[t] \in TaskRecord /\ runner[r].record \in TaskRecord
  BY Zenon, <1>1 DEF ClonesLag, TaskTypeOK, RunnerState
<1>3. ASSUME UNCHANGED <<tasks, rows>>
      PROVE  OneActiveTask' /\ RowsLag' /\ rows' \in [TaskSlots -> TaskRecord]
  BY Zenon, <1>3 DEF OneActiveTask, RowsLag, Lags, Rank, TaskTypeOK
<1>4. CASE Claim(r)
  <2> DEFINE record == [tasks[t] EXCEPT !.status = "running", !.locked_by = r]
  <2>1. CASE /\ tasks[t].status = "pending"
             /\ tasks' = [tasks EXCEPT ![t] = record]
             /\ Go(r, "claimed", record)
    <3>1. record \in TaskRecord /\ record.status = "running" /\ record.locked_by = r
      BY Zenon, <1>2
    <3>2. UNCHANGED <<task_type, rows, starter>>
      BY Zenon, <1>4 DEF Claim
    <3> HIDE DEF record
    <3> QED
      BY Zenon, <1>1, <2>1, <3>1, <3>2, MemoryStep
  <2>2. CASE RunnerEnds(r) /\ UNCHANGED tasks
    <3>1. UNCHANGED <<task_type, rows, starter>>
      BY Zenon, <1>4 DEF Claim
    <3> QED
      BY Zenon, <1>1, <1>3, <2>2, <3>1, QuietStep
  <2> QED
    BY Zenon, <1>4, <2>1, <2>2 DEF Claim
<1>5. CASE UpdateState(r)
  <2> DEFINE record == [tasks[t] EXCEPT !.progress = tasks[t].progress + 1]
  <2>1. /\ Holds(r) /\ tasks' = [tasks EXCEPT ![t] = record]
        /\ Go(r, "updated", record)
        /\ UNCHANGED <<task_type, rows, starter>>
    BY Zenon, <1>5 DEF UpdateState
  <2>2. tasks[t].progress < MaxProgress
    BY Zenon, <1>5 DEF UpdateState
  <2>3. record \in TaskRecord /\ record.status = "running" /\ record.locked_by = r
    BY SMTT(30), <1>2, <2>1, <2>2 DEF Holds
  <2> HIDE DEF record
  <2> QED
    BY Zenon, <1>1, <2>1, <2>3, MemoryStep
<1>6. CASE WorkFails(r)
  BY Zenon, <1>1, <1>3, <1>6, QuietStep DEF WorkFails
<1>7. CASE FinishTask(r)
  <2> DEFINE status == IF runner[r].pc = "fail" THEN "failed" ELSE "succeeded"
             record == [tasks[t] EXCEPT !.status = status]
  <2>1. CASE Holds(r) /\ tasks' = [tasks EXCEPT ![t] = record] /\ Go(r, "ended", record)
    <3>1. record \in TaskRecord /\ IsFinished(record)
      BY Zenon, <1>2 DEF IsFinished
    <3>2. UNCHANGED <<task_type, rows, starter>>
      BY Zenon, <1>7 DEF FinishTask
    <3> HIDE DEF record
    <3> QED
      BY Zenon, <1>1, <2>1, <3>1, <3>2, MemoryStep
  <2>2. CASE RunnerEnds(r) /\ UNCHANGED tasks
    <3>1. UNCHANGED <<task_type, rows, starter>>
      BY Zenon, <1>7 DEF FinishTask
    <3> QED
      BY Zenon, <1>1, <1>3, <2>2, <3>1, QuietStep
  <2> QED
    BY Zenon, <1>7, <2>1, <2>2 DEF FinishTask
<1>8. CASE Persisted(r)
  <2>1. Upserting(r) /\ Persists(t, runner[r].record) /\ UNCHANGED <<task_type, tasks, starter>>
    BY Zenon, <1>8 DEF Persisted, Upserting
  <2>2. Lags(runner[r].record, t)
    BY Zenon, <2>1 DEF ClonesLag
  <2>3. OneActiveTask' /\ RowsLag' /\ rows' \in [TaskSlots -> TaskRecord]
    BY Zenon, <1>2, <2>1, <2>2, PersistsKeeps
  <2>4. RunnerEnds(r) \/ (Go(r, "run", Absent) /\ Working(r))
    BY Zenon, <1>8 DEF Persisted, Working
  <2> QED
    BY Zenon, <1>1, <2>1, <2>3, <2>4, QuietStep
<1>9. CASE NotPersisted(r)
  BY Zenon, <1>1, <1>3, <1>9, QuietStep DEF NotPersisted, PersistFails
<1> QED
  BY Zenon, <1>4, <1>5, <1>6, <1>7, <1>8, <1>9 DEF RunnerStep

-----------------------------------------------------------------------------
\* A restart, which takes memory from the table, preserves the invariant.
LEMMA RestartTasksKeepInv == TaskInv /\ RestartTasks => TaskInv'
<1> SUFFICES ASSUME TaskInv, RestartTasks PROVE TaskInv'
  BY Zenon
<1> USE DEF TaskInv, RestartTasks
<1>1. TaskTypeOK'
  BY DEF TaskTypeOK, StarterState, RunnerState, IdleStarter, UnusedRunner
<1>2. OneActiveTask'
  BY Zenon DEF OneActiveTask
<1>3. ClonesLag'
  BY Zenon DEF ClonesLag, IdleStarter, UnusedRunner, Upserting
<1>4. RowsLag'
  BY DEF RowsLag, Lags, Rank, TaskTypeOK
<1>5. WorkersHold'
  BY Zenon DEF WorkersHold, Working, UnusedRunner
<1> QED
  BY Zenon, <1>1, <1>2, <1>3, <1>4, <1>5

\* The inductive invariant of the system tasks.
THEOREM TaskInvariant == TaskSpec => []TaskInv
<1>1. TaskInv /\ [TaskNext]_task_vars => TaskInv'
  <2> SUFFICES ASSUME TaskInv, [TaskNext]_task_vars PROVE TaskInv'
    BY Zenon
  <2>1. CASE UNCHANGED task_vars
    <3>1. UNCHANGED <<task_type, tasks, rows, starter, runner>>
      BY Zenon, <2>1 DEF task_vars
    <3>2. TaskTypeOK' /\ OneActiveTask' /\ WorkersHold'
      BY Zenon, <3>1 DEF TaskInv, TaskTypeOK, OneActiveTask, WorkersHold, Working, Holds
    <3>3. RowsLag'
      BY Zenon, <3>1 DEF TaskInv, RowsLag, Lags, Rank
    <3>4. ClonesLag'
      BY Zenon, <3>1 DEF TaskInv, ClonesLag, Upserting, Lags, Rank
    <3> QED BY Zenon, <3>2, <3>3, <3>4 DEF TaskInv
  <2>2. CASE TaskNext
    BY Zenon, <2>2, StarterKeepsInv, RunnerKeepsInv, RestartTasksKeepInv DEF TaskNext
  <2> QED
    BY Zenon, <2>1, <2>2
<1> QED
  BY <1>1, InitTaskInv, PTL DEF TaskSpec

\* No two tasks of a type are active in memory, nor in the table, whatever order
\* the upserts of starts, claims and progress reports land in.
THEOREM OneTaskIsActive == TaskSpec => []OneActiveTask
  BY TaskInvariant, PTL DEF TaskInv

\* The claim in memory gives a task to one runner: no other works beside it, and
\* it keeps the task as long as it works.
THEOREM RunnerIsAlone == TaskSpec => []OneRunnerWorks
<1>1. TaskInv => OneRunnerWorks
  <2> SUFFICES ASSUME TaskInv, NEW r \in Runners, Working(r)
               PROVE  Holds(r) /\ \A q \in Runners \ {r} : ~Working(q)
    BY Zenon DEF OneRunnerWorks
  <2>1. Holds(r) /\ runner[r].task \in TaskSlots
    BY Zenon DEF TaskInv, WorkersHold, ClonesLag, Working
  <2>2. ASSUME NEW q \in Runners, Working(q) PROVE q = r
    <3>1. Holds(q) /\ runner[q].task \in TaskSlots
      BY Zenon, <2>2 DEF TaskInv, WorkersHold, ClonesLag, Working
    <3>2. runner[q].task = runner[r].task
      BY Zenon, <2>1, <3>1 DEF TaskInv, OneActiveTask, Holds, IsActive
    <3> QED
      BY Zenon, <2>1, <3>1, <3>2 DEF Holds
  <2> QED
    BY Zenon, <2>1, <2>2
<1> QED
  BY <1>1, TaskInvariant, PTL

\* The table never shows a task further than the memory copy has it, although
\* upserts are done without the lock and land in any order.
THEOREM TableFollows == TaskSpec => []RowsNeverAhead
<1>1. TaskInv => RowsNeverAhead
  BY Zenon DEF TaskInv, RowsLag, Lags, RowsNeverAhead
<1> QED
  BY <1>1, TaskInvariant, PTL

-----------------------------------------------------------------------------
\* The stages of a runner, by the steps that are left.
LEMMA FewerSteps ==
  ASSUME NEW p \in 0..MaxProgress, NEW q \in 0..MaxProgress, NEW held, NEW holds
  PROVE  /\ StepsAt("claimed", q, holds) < StepsAt("claim", p, held)
         /\ \A pc \in {"claimed", "updated"} : StepsAt("run", p, holds) < StepsAt(pc, p, held)
         /\ p < MaxProgress => StepsAt("updated", p + 1, holds) < StepsAt("run", p, held)
         /\ \A pc \in {"run", "updated"} : StepsAt("fail", q, holds) < StepsAt(pc, p, held)
         /\ StepsAt("ended", q, holds) < StepsAt("run", p, held)
         /\ held => StepsAt("ended", q, holds) < StepsAt("fail", p, held)
         /\ ~holds => StepsAt("fail", q, holds) < StepsAt("ended", p, held)
  BY SMTT(30) DEF StepsAt

\* A runner that has ended has none left.
LEMMA NoSteps ==
  ASSUME NEW p \in 0..MaxProgress, NEW q, NEW held, NEW holds,
         NEW pc \in {"claim", "claimed", "run", "updated", "fail", "ended"}
  PROVE  StepsAt("unused", q, holds) < StepsAt(pc, p, held)
  BY DEF StepsAt

\* Where progress counts the runner holds its task, and elsewhere it does not count.
LEMMA SameSteps ==
  ASSUME NEW pc \in {"claim", "fail", "ended"}, NEW p, NEW q, NEW held, NEW holds,
         ~held, ~holds
  PROVE  StepsAt(pc, q, holds) <= StepsAt(pc, p, held)
  BY DEF StepsAt

\* The number of steps left is one.
LEMMA StepsAreNat ==
  ASSUME NEW p \in 0..MaxProgress, NEW held, NEW pc
  PROVE  StepsAt(pc, p, held) <= StepsAt(pc, p, held)
  BY DEF StepsAt

\* A runner that has ended its task does not hold it.
EndedLetGo == \A r \in Runners : runner[r].pc = "ended" => ~Holds(r)

\* What a step leaves to runner r when it is not its own: r stays where it is, its
\* task as it is if r holds it, and r does not come to hold a task.
Leaves(r) ==
  /\ runner'[r] = runner[r]
  /\ Holds(r) => tasks'[runner[r].task] = tasks[runner[r].task]
  /\ Holds(r)' => Holds(r)

\* A change of one task that r does not hold, to one that is not r's, leaves it.
LEMMA ChangeLeaves ==
  ASSUME TaskInv, NEW r \in Runners, runner[r].pc # "unused", runner'[r] = runner[r],
         NEW t \in TaskSlots, NEW record, tasks' = [tasks EXCEPT ![t] = record],
         tasks[t].status # "running" \/ tasks[t].locked_by # r,
         record.status # "running" \/ record.locked_by # r
  PROVE  Leaves(r)
<1> DEFINE u == runner[r].task
<1>1. u \in TaskSlots
  BY Zenon DEF TaskInv, ClonesLag
<1>2. tasks'[u] = IF u = t THEN record ELSE tasks[u]
  BY Zenon, <1>1 DEF TaskInv, TaskTypeOK
<1>3. Holds(r) <=> tasks[u].status = "running" /\ tasks[u].locked_by = r
  BY Zenon DEF Holds
<1>4. Holds(r)' <=> tasks'[u].status = "running" /\ tasks'[u].locked_by = r
  BY Zenon DEF Holds
<1> HIDE DEF u
<1>5. CASE u = t
  BY Zenon, <1>2, <1>3, <1>4, <1>5 DEF Leaves
<1>6. CASE u # t
  <2>1. tasks'[u] = tasks[u]
    BY Zenon, <1>2, <1>6
  <2> QED BY Zenon, <1>3, <1>4, <2>1 DEF Leaves, u
<1> QED BY Zenon, <1>5, <1>6

\* Starters, and the other runners, leave a runner alone.
LEMMA OthersLeave ==
  ASSUME TaskInv, NEW r \in Runners, runner[r].pc # "unused",
         \/ \E s \in Starters : Enqueue(s) \/ JoinCleanup(s) \/ JoinPending(s)
                              \/ StarterStep(s) \/ StartDropped(s)
         \/ \E q \in Runners \ {r} : RunnerStep(q)
         \/ UNCHANGED task_vars
  PROVE  Leaves(r)
<1>1. TaskTypeOK /\ runner \in [Runners -> RunnerState]
  BY Zenon DEF TaskInv, TaskTypeOK
<1>2. ASSUME UNCHANGED tasks, runner'[r] = runner[r] PROVE Leaves(r)
  BY Zenon, <1>2 DEF Leaves, Holds
<1>3. ASSUME NEW t, Spawn(t), UNCHANGED tasks PROVE Leaves(r)
  <2> DEFINE q == CHOOSE p \in Unused : TRUE
             new == [pc |-> "claim", task |-> t, record |-> Absent]
  <2>1. Unused # {} /\ runner' = [runner EXCEPT ![q] = new]
    BY Zenon, <1>3 DEF Spawn
  <2>2. q \in Unused
    BY Zenon, <2>1
  <2> HIDE DEF q, new
  <2>3. runner'[r] = runner[r]
    BY Zenon, <1>1, <2>1, <2>2 DEF Unused
  <2> QED BY Zenon, <1>2, <1>3, <2>3
<1>4. ASSUME NEW s \in Starters, Enqueue(s) PROVE Leaves(r)
  <2> DEFINE new == [Absent EXCEPT !.status = "pending"]
  <2>1. PICK t \in TaskSlots : IsNextTask(t) /\ tasks' = [tasks EXCEPT ![t] = new]
    BY Zenon, <1>4 DEF Enqueue
  <2>2. UNCHANGED runner /\ Active(tasks) = {}
    BY Zenon, <1>4 DEF Enqueue
  <2>3. new.status = "pending"
    BY Zenon
  <2> HIDE DEF new
  <2>4. tasks[t].status # "running" /\ new.status # "running"
    BY Zenon, <2>2, <2>3 DEF Active, IsActive
  <2> QED BY Zenon, <2>1, <2>2, <2>4, ChangeLeaves
<1>5. ASSUME NEW s \in Starters,
             JoinCleanup(s) \/ JoinPending(s) \/ StarterStep(s) \/ StartDropped(s)
      PROVE  Leaves(r)
  BY Zenon, <1>2, <1>3, <1>5 DEF JoinCleanup, JoinPending, StarterStep, Started, StartFails,
                                 StartDropped
<1>6. ASSUME NEW q \in Runners \ {r}, RunnerStep(q) PROVE Leaves(r)
  <2> DEFINE t == runner[q].task
  <2>1. ASSUME NEW new, runner' = [runner EXCEPT ![q] = new] PROVE runner'[r] = runner[r]
    BY Zenon, <1>1, <2>1
  <2>2. runner'[r] = runner[r]
    BY Zenon, <1>6, <2>1
       DEF RunnerStep, Claim, UpdateState, WorkFails, FinishTask, Persisted, NotPersisted, Go,
           RunnerEnds
  <2>3. runner[q].pc # "unused"
    BY Zenon, <1>6 DEF RunnerStep, Claim, UpdateState, WorkFails, FinishTask, Persisted,
                       NotPersisted
  <2>4. t \in TaskSlots /\ tasks[t] \in TaskRecord
    BY Zenon, <1>1, <2>3 DEF TaskInv, ClonesLag, TaskTypeOK
  <2>5. ASSUME NEW record, tasks' = [tasks EXCEPT ![t] = record],
               tasks[t].status # "running" \/ tasks[t].locked_by = q,
               record.status # "running" \/ record.locked_by = q
        PROVE  Leaves(r)
    BY Zenon, <1>6, <2>2, <2>4, <2>5, ChangeLeaves
  <2>6. CASE UNCHANGED tasks
    BY Zenon, <1>2, <2>2, <2>6
  <2>7. CASE Claim(q)
    <3> DEFINE record == [tasks[t] EXCEPT !.status = "running", !.locked_by = q]
    <3>1. UNCHANGED tasks \/ (tasks[t].status = "pending" /\ tasks' = [tasks EXCEPT ![t] = record])
      BY Zenon, <2>7 DEF Claim
    <3>2. record.locked_by = q
      BY Zenon, <2>4
    <3> HIDE DEF record
    <3> QED BY Zenon, <2>5, <2>6, <3>1, <3>2
  <2>8. CASE UpdateState(q)
    <3> DEFINE record == [tasks[t] EXCEPT !.progress = tasks[t].progress + 1]
    <3>1. tasks[t].locked_by = q /\ tasks' = [tasks EXCEPT ![t] = record]
      BY Zenon, <2>8 DEF UpdateState, Holds
    <3>2. record.locked_by = q
      BY Zenon, <2>4, <3>1
    <3> HIDE DEF record
    <3> QED BY Zenon, <2>5, <3>1, <3>2
  <2>9. CASE FinishTask(q)
    <3> DEFINE status == IF runner[q].pc = "fail" THEN "failed" ELSE "succeeded"
               record == [tasks[t] EXCEPT !.status = status]
    <3>1. UNCHANGED tasks \/ (tasks[t].locked_by = q /\ tasks' = [tasks EXCEPT ![t] = record])
      BY Zenon, <2>9 DEF FinishTask, Holds
    <3>2. status # "running" /\ record.status = status
      BY Zenon, <2>4
    <3> HIDE DEF record
    <3> QED BY Zenon, <2>5, <2>6, <3>1, <3>2
  <2> QED BY Zenon, <1>6, <2>6, <2>7, <2>8, <2>9 DEF RunnerStep, WorkFails, Persisted, NotPersisted
<1>7. CASE UNCHANGED task_vars
  BY Zenon, <1>2, <1>7 DEF task_vars
<1> QED BY Zenon, <1>4, <1>5, <1>6, <1>7

\* So its steps do not become more.
LEMMA LeftAlone ==
  ASSUME TaskInv, NEW r \in Runners, runner[r].pc # "unused", Leaves(r)
  PROVE  RunnerSteps(r)' <= RunnerSteps(r)
<1> DEFINE t == runner[r].task
<1>1. /\ t \in TaskSlots /\ tasks[t] \in TaskRecord /\ runner[r] \in RunnerState
      /\ Working(r) => Holds(r)
  BY Zenon DEF TaskInv, ClonesLag, TaskTypeOK, WorkersHold
<1>2. tasks[t].progress \in 0..MaxProgress
  BY Zenon, <1>1
<1>3. /\ RunnerSteps(r) = StepsAt(runner[r].pc, tasks[t].progress, Holds(r))
      /\ RunnerSteps(r)' = StepsAt(runner[r].pc, tasks'[t].progress, Holds(r)')
  BY Zenon DEF RunnerSteps, Leaves
<1>4. CASE Holds(r)
  <2>1. tasks'[t] = tasks[t] /\ Holds(r)'
    BY Zenon, <1>4 DEF Leaves, Holds
  <2> HIDE DEF t
  <2>2. RunnerSteps(r)' = RunnerSteps(r)
    BY Zenon, <1>3, <1>4, <2>1
  <2>3. RunnerSteps(r) <= RunnerSteps(r)
    BY Zenon, <1>2, <1>3, StepsAreNat
  <2> QED BY Zenon, <2>2, <2>3
<1>5. CASE ~Holds(r)
  <2>1. ~Holds(r)' /\ runner[r].pc \in {"claim", "fail", "ended"}
    BY Zenon, <1>1, <1>5 DEF Leaves, Working, RunnerState
  <2> HIDE DEF t
  <2>2. StepsAt(runner[r].pc, tasks'[t].progress, Holds(r)')
          <= StepsAt(runner[r].pc, tasks[t].progress, Holds(r))
    BY Zenon, <1>5, <2>1, SameSteps
  <2> QED BY Zenon, <1>3, <2>2
<1> QED BY Zenon, <1>4, <1>5

\* A runner that has ended, or that was never spawned, does nothing.
LEMMA UnusedIsUnused == UnusedRunner.pc = "unused" /\ UnusedRunner.pc # "ended"
  BY Zenon DEF UnusedRunner

\* A runner's own step takes it to a nearer stage.
LEMMA OwnStepAdvances ==
  ASSUME TaskInv, EndedLetGo, NEW r \in Runners, RunnerStep(r)
  PROVE  /\ RunnerSteps(r)' < RunnerSteps(r) /\ runner'[r] # runner[r]
         /\ runner'[r].pc = "ended" => ~Holds(r)'
<1> DEFINE t == runner[r].task
<1>1. /\ runner[r].pc \in {"claim", "claimed", "run", "updated", "fail", "ended"}
      /\ runner[r].pc # "unused"
  BY Zenon DEF RunnerStep, Claim, UpdateState, WorkFails, FinishTask, Persisted, NotPersisted
<1>2. /\ t \in TaskSlots /\ tasks[t] \in TaskRecord /\ runner \in [Runners -> RunnerState]
      /\ tasks \in [TaskSlots -> TaskRecord]
  BY Zenon, <1>1 DEF TaskInv, ClonesLag, TaskTypeOK
<1>3. tasks[t].progress \in 0..MaxProgress
  BY Zenon, <1>2
<1>4. RunnerSteps(r) = StepsAt(runner[r].pc, tasks[t].progress, Holds(r))
  BY Zenon DEF RunnerSteps
<1>5. ASSUME RunnerEnds(r) PROVE RunnerSteps(r)' < RunnerSteps(r) /\ runner'[r].pc \notin {runner[r].pc, "ended"}
  <2>1. runner'[r].pc = "unused"
    BY Zenon, <1>2, <1>5 DEF RunnerEnds, UnusedRunner
  <2>2. RunnerSteps(r)' = StepsAt("unused", tasks'[runner'[r].task].progress, Holds(r)')
    BY Zenon, <2>1 DEF RunnerSteps
  <2>3. StepsAt("unused", tasks'[runner'[r].task].progress, Holds(r)')
          < StepsAt(runner[r].pc, tasks[t].progress, Holds(r))
    BY Zenon, <1>1, <1>3, NoSteps
  <2> QED BY Zenon, <1>1, <1>4, <2>1, <2>2, <2>3
<1>6. ASSUME NEW pc, NEW record, Go(r, pc, record)
      PROVE  /\ runner'[r].pc = pc /\ runner'[r].task = t
             /\ RunnerSteps(r)' = StepsAt(pc, tasks'[t].progress, Holds(r)')
             /\ Holds(r)' <=> tasks'[t].status = "running" /\ tasks'[t].locked_by = r
  <2> DEFINE new == [runner[r] EXCEPT !.pc = pc, !.record = record]
  <2>1. new.pc = pc /\ new.task = t
    BY ZenonT(30), <1>2 DEF RunnerState
  <2>2. runner'[r] = new
    BY Zenon, <1>2, <1>6 DEF Go
  <2> HIDE DEF new
  <2>3. runner'[r].pc = pc /\ runner'[r].task = t
    BY Zenon, <2>1, <2>2
  <2> HIDE DEF t
  <2> QED BY Zenon, <2>3 DEF RunnerSteps, Holds
<1>7. ASSUME NEW pc \in {"run", "fail"}, Go(r, pc, Absent), UNCHANGED tasks,
             \/ pc = "run" /\ runner[r].pc \in {"claimed", "updated"}
             \/ pc = "fail" /\ runner[r].pc \in {"run", "updated"}
             \/ pc = "fail" /\ runner[r].pc = "ended" /\ ~Holds(r)
      PROVE  RunnerSteps(r)' < RunnerSteps(r) /\ runner'[r].pc \notin {runner[r].pc, "ended"}
  <2>1. /\ RunnerSteps(r)' = StepsAt(pc, tasks[t].progress, Holds(r)')
        /\ runner'[r].pc = pc /\ pc # "ended"
    BY Zenon, <1>6, <1>7
  <2>2. Holds(r)' <=> Holds(r)
    BY Zenon, <1>6, <1>7 DEF Holds
  <2> HIDE DEF t
  <2>3. StepsAt(pc, tasks[t].progress, Holds(r)')
          < StepsAt(runner[r].pc, tasks[t].progress, Holds(r))
    BY Zenon, <1>3, <1>7, <2>2, FewerSteps
  <2> QED BY Zenon, <1>4, <1>7, <2>1, <2>3
<1>8. CASE Claim(r)
  <2> DEFINE record == [tasks[t] EXCEPT !.status = "running", !.locked_by = r]
  <2>1. \/ RunnerEnds(r)
        \/ tasks' = [tasks EXCEPT ![t] = record] /\ Go(r, "claimed", record)
    BY Zenon, <1>8 DEF Claim
  <2>2. ASSUME tasks' = [tasks EXCEPT ![t] = record], Go(r, "claimed", record)
        PROVE  RunnerSteps(r)' < RunnerSteps(r) /\ runner'[r].pc \notin {runner[r].pc, "ended"}
    <3>1. record.progress = tasks[t].progress /\ tasks'[t] = record
      BY Zenon, <1>2, <2>2
    <3>2. tasks'[t].progress \in 0..MaxProgress
      BY Zenon, <1>3, <3>1
    <3>3. RunnerSteps(r)' = StepsAt("claimed", tasks'[t].progress, Holds(r)')
          /\ runner'[r].pc = "claimed"
      BY Zenon, <1>6, <2>2
    <3>4. runner[r].pc = "claim"
      BY Zenon, <1>8 DEF Claim
    <3> HIDE DEF t, record
    <3>5. StepsAt("claimed", tasks'[t].progress, Holds(r)')
            < StepsAt("claim", tasks[t].progress, Holds(r))
      BY Zenon, <1>3, <3>2, FewerSteps
    <3> QED BY Zenon, <1>4, <3>3, <3>4, <3>5
  <2> QED BY Zenon, <1>5, <2>1, <2>2
<1>9. CASE UpdateState(r)
  <2> DEFINE record == [tasks[t] EXCEPT !.progress = tasks[t].progress + 1]
  <2>1. /\ tasks' = [tasks EXCEPT ![t] = record] /\ Go(r, "updated", record)
        /\ tasks[t].progress < MaxProgress /\ runner[r].pc = "run"
    BY Zenon, <1>9 DEF UpdateState
  <2>2. record.progress = tasks[t].progress + 1 /\ tasks'[t] = record
    BY Zenon, <1>2, <2>1
  <2>3. RunnerSteps(r)' = StepsAt("updated", tasks'[t].progress, Holds(r)')
        /\ runner'[r].pc = "updated"
    BY Zenon, <1>6, <2>1
  <2> HIDE DEF t, record
  <2>4. StepsAt("updated", tasks[t].progress + 1, Holds(r)')
          < StepsAt("run", tasks[t].progress, Holds(r))
    BY Zenon, <1>3, <2>1, FewerSteps
  <2> QED BY Zenon, <1>4, <2>1, <2>2, <2>3, <2>4
<1>10. CASE FinishTask(r)
  <2> DEFINE status == IF runner[r].pc = "fail" THEN "failed" ELSE "succeeded"
             record == [tasks[t] EXCEPT !.status = status]
  <2>1. /\ runner[r].pc \in {"run", "fail"}
        /\ \/ RunnerEnds(r)
           \/ Holds(r) /\ tasks' = [tasks EXCEPT ![t] = record] /\ Go(r, "ended", record)
    BY Zenon, <1>10 DEF FinishTask
  <2>2. ASSUME Holds(r), tasks' = [tasks EXCEPT ![t] = record], Go(r, "ended", record)
        PROVE  RunnerSteps(r)' < RunnerSteps(r) /\ runner'[r].pc # runner[r].pc /\ ~Holds(r)'
    <3>1. /\ record.progress = tasks[t].progress /\ record.status = status
          /\ status # "running" /\ tasks'[t] = record
      BY Zenon, <1>2, <2>2
    <3> HIDE DEF record, status
    <3>2. tasks'[t].progress \in 0..MaxProgress /\ tasks'[t].status # "running"
      BY Zenon, <1>3, <3>1
    <3>3. /\ RunnerSteps(r)' = StepsAt("ended", tasks'[t].progress, Holds(r)')
          /\ runner'[r].pc = "ended" /\ ~Holds(r)'
      BY Zenon, <1>6, <2>2, <3>2
    <3> HIDE DEF t
    <3>4. StepsAt("ended", tasks'[t].progress, Holds(r)')
            < StepsAt(runner[r].pc, tasks[t].progress, Holds(r))
      BY Zenon, <1>3, <2>1, <2>2, <3>2, FewerSteps
    <3> QED BY Zenon, <1>4, <2>1, <3>3, <3>4
  <2> QED BY Zenon, <1>5, <2>1, <2>2
<1>11. CASE WorkFails(r)
  BY Zenon, <1>7, <1>11 DEF WorkFails
<1>12. CASE Persisted(r)
  BY Zenon, <1>5, <1>7, <1>12 DEF Persisted
<1>13. CASE NotPersisted(r)
  <2>1. runner[r].pc = "ended" => ~Holds(r)
    BY Zenon DEF EndedLetGo
  <2> QED BY Zenon, <1>5, <1>7, <1>13, <2>1 DEF NotPersisted
<1> QED BY Zenon, <1>8, <1>9, <1>10, <1>11, <1>12, <1>13 DEF RunnerStep

\* A runner that has ended its task never holds it again, and one that has begun
\* only comes nearer to its end.
LEMMA TaskStepAdvances ==
  ASSUME TaskInv, EndedLetGo, [TaskNext]_task_vars, NEW r \in Runners
  PROVE  /\ runner[r].pc # "unused" =>
              IF runner'[r] = runner[r] THEN RunnerSteps(r)' <= RunnerSteps(r)
              ELSE RunnerSteps(r)' < RunnerSteps(r)
         /\ runner'[r].pc = "ended" => ~Holds(r)'
<1>1. runner \in [Runners -> RunnerState] /\ tasks \in [TaskSlots -> TaskRecord]
  BY Zenon DEF TaskInv, TaskTypeOK
<1>2. CASE RunnerStep(r)
  BY Zenon, <1>2, OwnStepAdvances
<1>3. CASE RestartTasks
  <2>1. runner'[r] = UnusedRunner
    BY Zenon, <1>3 DEF RestartTasks
  <2>2. runner'[r].pc = "unused"
    BY Zenon, <2>1, UnusedIsUnused
  <2>3. RunnerSteps(r)' = StepsAt("unused", tasks'[runner'[r].task].progress, Holds(r)')
    BY Zenon, <2>2 DEF RunnerSteps
  <2>4. ASSUME runner[r].pc # "unused"
        PROVE  RunnerSteps(r)' < RunnerSteps(r) /\ runner'[r] # runner[r]
    <3>1. /\ runner[r].pc \in {"claim", "claimed", "run", "updated", "fail", "ended"}
          /\ runner[r].task \in TaskSlots
      BY Zenon, <1>1, <2>4 DEF RunnerState, TaskInv, ClonesLag
    <3>2. tasks[runner[r].task].progress \in 0..MaxProgress
      BY Zenon, <1>1, <3>1
    <3>3. StepsAt("unused", tasks'[runner'[r].task].progress, Holds(r)') < RunnerSteps(r)
      BY Zenon, <3>1, <3>2, NoSteps DEF RunnerSteps
    <3> QED BY Zenon, <2>2, <2>3, <2>4, <3>3
  <2> QED BY Zenon, <2>2, <2>4
<1>4. CASE runner[r].pc # "unused" /\ ~RunnerStep(r) /\ ~RestartTasks
  <2>1. Leaves(r)
    BY Zenon, <1>4, OthersLeave DEF TaskNext
  <2>2. runner'[r] = runner[r] /\ (Holds(r)' => Holds(r))
    BY Zenon, <2>1 DEF Leaves
  <2> QED BY Zenon, <1>4, <2>1, <2>2, LeftAlone DEF EndedLetGo
<1>5. CASE runner[r].pc = "unused" /\ ~RunnerStep(r) /\ ~RestartTasks
  <2>1. ASSUME NEW q \in Runners, NEW new, runner' = [runner EXCEPT ![q] = new],
               q # r \/ new.pc # "ended"
        PROVE  runner'[r].pc # "ended"
    BY Zenon, <1>1, <1>5, <2>1
  <2>2. ASSUME NEW t, Spawn(t) PROVE runner'[r].pc # "ended"
    <3> DEFINE q == CHOOSE p \in Unused : TRUE
               new == [pc |-> "claim", task |-> t, record |-> Absent]
    <3>1. Unused # {} /\ runner' = [runner EXCEPT ![q] = new]
      BY Zenon, <2>2 DEF Spawn
    <3>2. q \in Runners /\ new.pc # "ended"
      BY Zenon, <3>1 DEF Unused
    <3> HIDE DEF q, new
    <3> QED BY Zenon, <2>1, <3>1, <3>2
  <2>3. ASSUME NEW s \in Starters, Enqueue(s) \/ JoinCleanup(s) \/ JoinPending(s)
                                   \/ StarterStep(s) \/ StartDropped(s)
        PROVE  runner'[r].pc # "ended"
    BY Zenon, <1>5, <2>2, <2>3 DEF Enqueue, JoinCleanup, JoinPending, StarterStep, Started,
                                   StartFails, StartDropped
  <2>4. ASSUME NEW q \in Runners \ {r}, RunnerStep(q) PROVE runner'[r].pc # "ended"
    BY Zenon, <2>1, <2>4
       DEF RunnerStep, Claim, UpdateState, WorkFails, FinishTask, Persisted, NotPersisted, Go,
           RunnerEnds
  <2>5. CASE UNCHANGED task_vars
    BY Zenon, <1>5, <2>5 DEF task_vars
  <2> QED BY Zenon, <1>5, <2>3, <2>4, <2>5 DEF TaskNext
<1> QED BY Zenon, <1>2, <1>3, <1>4, <1>5

\* Every runner comes to its end: each step of it leaves fewer, and nothing that
\* starts, restarts or other runners do sends it back.
THEOREM RunnersAlwaysAdvance == TaskSpec => RunnersAdvance
<1>1. TaskInit => EndedLetGo
  BY Zenon, UnusedIsUnused DEF TaskInit, EndedLetGo
<1>2. TaskInv /\ EndedLetGo /\ [TaskNext]_task_vars => EndedLetGo'
  <2> SUFFICES ASSUME TaskInv, EndedLetGo, [TaskNext]_task_vars PROVE EndedLetGo'
    OBVIOUS
  <2> QED BY Zenon, TaskStepAdvances DEF EndedLetGo
<1>3. TaskInv /\ EndedLetGo /\ [TaskNext]_task_vars =>
        [\A r \in Runners : runner[r].pc # "unused" =>
           IF runner'[r] = runner[r] THEN RunnerSteps(r)' <= RunnerSteps(r)
           ELSE RunnerSteps(r)' < RunnerSteps(r)]_task_vars
  BY Zenon, TaskStepAdvances
<1> QED
  BY <1>1, <1>2, <1>3, TaskInvariant, PTL DEF TaskSpec, RunnersAdvance

=============================================================================
