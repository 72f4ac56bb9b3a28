--------------------------- MODULE SettlementProofs ---------------------------
(***************************************************************************)
(* Proofs about the controller's books (Settlement): the rows in memory    *)
(* are those of the database between two writes, settlements and           *)
(* reservations move quota and make none, an admission stays within the    *)
(* user's quota, and every change of the rows has a version of its own.    *)
(***************************************************************************)
EXTENDS Settlement, SequenceTheorems, TLAPS

\* No writer is between its commit and its publication.
NoneCommitted == \A w \in Writers : job[w].pc # "committed"

\* What apply_planned_usage_settlement and replace_data rely on: a plan or a
\* candidate was made from the rows that are in memory, and is one version
\* ahead of them.
Based(j) == j.base = mem.version /\ j.next.version = mem.version + 1

\* The rows that a commit leaves out are those of the memory copy.
InScope(j) ==
  /\ \A u \in Users : u \notin j.scope.users => j.next.users[u] = mem.users[u]
  /\ \A t \in TokenIds : t \notin j.scope.tokens => j.next.tokens[t] = mem.tokens[t]
  /\ \A c \in Channels : c \notin j.scope.channels => j.next.channels[c] = mem.channels[c]

\* The events that are still to be planned: only a settlement or a reservation
\* has any, and the tokens they find in memory have a row in the plan.
Pending(j) ==
  j.todo # <<>> =>
    /\ j.kind \in {"settle", "reserve"}
    /\ \A t \in TokenIds : mem.tokens[t] # None => j.next.tokens[t] # None

\* A reservation that is not planned yet is of one admitted event.
Admitted(j) ==
  j.kind = "reserve" /\ j.todo # <<>> =>
    LET e == Head(j.todo) IN
    /\ Tail(j.todo) = <<>>
    /\ e.pre_consumed_quota = None
    /\ j.next.users = mem.users
    /\ UserOf(e) \in Users => UsageEventQuota(e) \in 1..mem.users[UserOf(e)].quota

\* A plan moves quota and makes none.
PlanConserves(j) ==
  ~clamped /\ ~j.clamp =>
    /\ \A u \in Users :
         j.next.users[u].quota + j.next.users[u].used_quota = granted[u] + j.grant[u]
    /\ \A c \in Channels : j.next.channels[c] = spent[c] + j.spend[c]

\* A plan overdraws a user by no more than it adds to the overrun.
PlanWithin(j) ==
  \A u \in Users : j.over[u] >= 0 /\ j.next.users[u].quota >= -(overrun[u] + j.over[u])

\* What a writer has prepared under the write lock.
Plan(j) ==
  /\ Based(j) /\ InScope(j) /\ Pending(j)
  /\ Admitted(j) /\ PlanConserves(j) /\ PlanWithin(j)

\* One writer at a time, and each with rows made from what is stored.
LockInv == \A w \in Writers : job[w].pc # "idle" => write_lock = w
\* Every writer that plans has such a plan.
PlanInv == \A w \in Writers : job[w].pc = "planning" => Plan(job[w])
\* What a writer has committed and not published yet is what the database has.
CommitInv ==
  \A w \in Writers : job[w].pc = "committed" =>
    Based(job[w]) /\ db = Overlay(mem, job[w].next, job[w].scope)

\* The inductive invariant.
SettlementInv ==
  /\ SettlementTypeOK
  /\ LockInv /\ PlanInv /\ CommitInv
  /\ NoneCommitted => mem = db
  /\ QuotaConserved
  /\ AdmissionWithinQuota
  /\ \A u \in Users : overrun[u] >= 0

-----------------------------------------------------------------------------
\* Saturating arithmetic stays in the range of i64.
LEMMA SaturateRange ==
  ASSUME NEW n \in Int
  PROVE  Saturate(n) \in Quota
BY SettlementAssumption DEF Saturate, Quota

\* Saturation leaves a number in range alone.
LEMMA SaturateKeeps ==
  ASSUME NEW n \in Int, n \in Quota
  PROVE  Saturate(n) = n
BY SettlementAssumption DEF Saturate, Quota

\* A charge takes a balance below its bound only by what is added to the bound.
LEMMA ChargeWithin ==
  ASSUME NEW q \in Int, NEW delta \in Int, NEW h \in Int, NEW old \in Int, NEW new \in Int,
         h >= 0, old >= 0, q >= -(h + old), new >= old,
         new >= old + delta \/ q - delta >= 0
  PROVE  new >= 0 /\ Saturate(q - delta) >= -(h + new)
<1>1. q - delta >= -(h + new) /\ -(h + new) <= 0
  OBVIOUS
<1> QED
  BY <1>1, SettlementAssumption DEF Saturate

\* What moves from one sum to the other stays in the total.
LEMMA MovedSum ==
  ASSUME NEW q \in Int, NEW used \in Int, NEW delta \in Int, NEW total, q + used = total
  PROVE  (q - delta) + (used + delta) = total
OBVIOUS

\* max(0, n).
LEMMA AtLeastZeroRange ==
  ASSUME NEW n \in Int
  PROVE  AtLeastZero(n) \in Nat /\ AtLeastZero(n) >= n
BY DEF AtLeastZero

\* What an event costs is a number, and what it moves is in the range of i64.
LEMMA EventAmounts ==
  ASSUME NEW e \in UsageEvent
  PROVE  /\ UsageEventQuota(e) \in Int
         /\ Reserved(e) \in Nat
         /\ ActualQuota(e) \in Int
         /\ DeltaQuota(e) \in Quota
         /\ Quota \subseteq Int
<1>0. Quota \subseteq Int
  BY SettlementAssumption DEF Quota
<1>1. e.quota \in Quota \cup {None} /\ e.price \in Quota
       /\ e.pre_consumed_quota \in Quota \cup {None}
  BY Zenon DEF UsageEvent
<1>2. UsageEventQuota(e) \in Int
  <2>1. e.quota # None => AtLeastZero(e.quota) \in Nat
    BY Zenon, <1>0, <1>1, AtLeastZeroRange
  <2>2. e.price \in Int
    BY Zenon, <1>0, <1>1
  <2> QED
    BY <2>1, <2>2 DEF UsageEventQuota
<1>3. Reserved(e) \in Nat
  <2>1. e.pre_consumed_quota # None => AtLeastZero(e.pre_consumed_quota) \in Nat
    BY Zenon, <1>0, <1>1, AtLeastZeroRange
  <2> QED
    BY Zenon, <2>1 DEF Reserved
<1>4. ActualQuota(e) \in Int
  BY <1>2, <1>3 DEF ActualQuota
<1>5. DeltaQuota(e) \in Quota
  BY <1>3, <1>4, SaturateRange DEF DeltaQuota
<1> QED
  BY Zenon, <1>0, <1>2, <1>3, <1>4, <1>5

\* The quotas of a user row are in the range of i64.
LEMMA RowQuotas ==
  ASSUME NEW data \in ManagementData, NEW u \in Users
  PROVE  /\ data.users[u] \in UserRow
         /\ data.users[u].quota \in Quota /\ data.users[u].used_quota \in Quota
         /\ data.users[u].quota \in Int /\ data.users[u].used_quota \in Int
<1>1. data.users[u] \in UserRow
  BY Zenon DEF ManagementData
<1>2. Quota \subseteq Int
  BY SettlementAssumption DEF Quota
<1> QED
  BY Zenon, <1>1, <1>2 DEF UserRow

\* A charged user row is a user row.
LEMMA UserAfterTyped ==
  ASSUME NEW row \in UserRow, NEW e \in UsageEvent
  PROVE  UserAfter(row, e) \in UserRow
<1>1. row.quota \in Int /\ row.used_quota \in Int /\ DeltaQuota(e) \in Int
  BY Zenon, EventAmounts DEF UserRow
<1>2. /\ Saturate(row.quota - DeltaQuota(e)) \in Quota
      /\ Saturate(row.used_quota + DeltaQuota(e)) \in Quota
  BY <1>1, SaturateRange
<1> QED
  BY Zenon, <1>2 DEF UserAfter, UserRow

\* A charged token row is a token row.
LEMMA TokenAfterTyped ==
  ASSUME NEW row \in TokenRow, NEW e \in UsageEvent
  PROVE  TokenAfter(row, e) \in TokenRow
<1>1. row.remain_quota \in Int /\ row.used_quota \in Int /\ DeltaQuota(e) \in Int
  BY Zenon, EventAmounts DEF TokenRow
<1>2. /\ Saturate(row.remain_quota - DeltaQuota(e)) \in Quota
      /\ Saturate(row.used_quota + DeltaQuota(e)) \in Quota
  BY <1>1, SaturateRange
<1> QED
  BY Zenon, <1>2 DEF TokenAfter, TokenRow

\* Writing a scope of rows over others gives rows.
LEMMA OverlayTyped ==
  ASSUME NEW data \in ManagementData, NEW next \in ManagementData, NEW scope \in Scope
  PROVE  Overlay(data, next, scope) \in ManagementData
BY Zenon DEF Overlay, ManagementData, Scope

\* The user of an event is known or it is none.
LEMMA UserOfTyped ==
  ASSUME SettlementTypeOK, NEW e \in UsageEvent
  PROVE  /\ e.token_id \in TokenIds
         /\ HasToken(e) => mem.tokens[e.token_id] \in TokenRow
         /\ UserOf(e) \in Users \cup {None}
BY Zenon DEF SettlementTypeOK, ManagementData, UsageEvent, HasToken, UserOf, TokenRow

\* Charging an event gives rows.
LEMMA ChargedTyped ==
  ASSUME SettlementTypeOK, NEW e \in UsageEvent, UserOf(e) \in Users,
         NEW data \in ManagementData,
         \A t \in TokenIds : mem.tokens[t] # None => data.tokens[t] # None
  PROVE  Charged(data, e) \in ManagementData
<1>1. /\ data.version \in Nat /\ data.users \in [Users -> UserRow]
      /\ data.tokens \in [TokenIds -> TokenRow \cup {None}]
      /\ data.channels \in [Channels -> Quota]
  BY Zenon DEF ManagementData
<1>2. [data.users EXCEPT ![UserOf(e)] = UserAfter(data.users[UserOf(e)], e)]
        \in [Users -> UserRow]
  BY Zenon, <1>1, UserAfterTyped
<1>3. ASSUME HasToken(e)
      PROVE  [data.tokens EXCEPT ![e.token_id] = TokenAfter(data.tokens[e.token_id], e)]
               \in [TokenIds -> TokenRow \cup {None}]
  <2>1. data.tokens[e.token_id] \in TokenRow
    BY Zenon, <1>1, <1>3, UserOfTyped DEF HasToken
  <2> QED
    BY Zenon, <1>1, <2>1, TokenAfterTyped
<1>4. ASSUME e.channel_id # None
      PROVE  [data.channels EXCEPT
                ![e.channel_id] = ChannelAfter(data.channels[e.channel_id], e)]
               \in [Channels -> Quota]
  <2>1. e.channel_id \in Channels
    BY Zenon, <1>4 DEF UsageEvent
  <2>2. data.channels[e.channel_id] \in Int
    BY Zenon, <1>1, <2>1, EventAmounts
  <2>3. ChannelAfter(data.channels[e.channel_id], e) \in Quota
    BY <2>2, EventAmounts, SaturateRange DEF ChannelAfter
  <2> QED
    BY Zenon, <1>1, <2>1, <2>3
<1> QED
  BY Zenon, <1>1, <1>2, <1>3, <1>4 DEF Charged, ManagementData

-----------------------------------------------------------------------------
\* A plan stays one while the rows and the histories stay as they are.
LEMMA PlanKept ==
  ASSUME NEW w, NEW j, job'[w] = j, Plan(j),
         UNCHANGED <<mem, granted, overrun, spent, clamped>>
  PROVE  Plan(job[w])'
BY Zenon DEF Plan, Based, InScope, Pending, Admitted, PlanConserves, PlanWithin,
       UserOf, HasToken, UsageEventQuota

\* A writer without a job is well typed.
LEMMA IdleJobTyped ==
  /\ Seed \in ManagementData
  /\ IdleJob \in Job /\ IdleJob.pc = "idle"
<1>1. InitialQuota \in Quota /\ 0 \in Quota /\ 0 \in Int
  BY SettlementAssumption DEF Quota
<1>2. InitialTokens \in [TokenIds -> TokenRow \cup {None}]
  BY Zenon, SettlementAssumption
<1>3. Seed \in ManagementData
  BY Zenon, <1>1, <1>2 DEF Seed, ManagementData, UserRow
<1>4. Nothing \in Scope /\ NoGrant \in [Users -> Int] /\ NoSpend \in [Channels -> Int]
  BY DEF Nothing, Scope, NoGrant, NoSpend
<1>5. <<>> \in Seq(UsageEvent)
  OBVIOUS
<1> QED
  BY Zenon, <1>3, <1>4, <1>5 DEF IdleJob, Job

\* While nobody writes, the rows in memory are the rows of the database.
LEMMA FreeMeansIdle ==
  ASSUME SettlementInv, write_lock = Free
  PROVE  /\ \A w \in Writers : job[w].pc = "idle"
         /\ mem = db
<1>1. ASSUME NEW w \in Writers PROVE job[w].pc = "idle"
  BY Zenon, SettlementAssumption DEF SettlementInv, LockInv
<1> QED
  BY Zenon, <1>1 DEF SettlementInv, NoneCommitted

\* A writer that finds the lock free and computes a plan.
LEMMA BeginStep ==
  ASSUME SettlementInv, NEW w \in Writers, NEW j \in Job, j.pc = "planning", Plan(j),
         Begin(w, j), draft' \in [TokenIds -> TokenRow \cup {None}]
  PROVE  SettlementInv' /\ UNCHANGED mem
<1>1. /\ write_lock = Free /\ write_lock' = w /\ job' = [job EXCEPT ![w] = j]
      /\ UNCHANGED <<mem, db, granted, overrun, spent, clamped>>
  BY Zenon DEF Begin
<1>2. SettlementTypeOK' /\ job \in [Writers -> Job]
  BY Zenon, <1>1 DEF SettlementInv, SettlementTypeOK
<1>3. \A v \in Writers : v # w => job'[v].pc = "idle"
  BY Zenon, <1>1, <1>2, FreeMeansIdle
<1>4. job'[w] = j
  BY Zenon, <1>1, <1>2
<1>5. LockInv' /\ CommitInv'
  BY Zenon, <1>1, <1>3, <1>4 DEF LockInv, CommitInv
<1>6. PlanInv'
  <2>1. Plan(job[w])'
    BY Zenon, <1>1, <1>4, PlanKept
  <2> QED
    BY Zenon, <1>3, <2>1 DEF PlanInv
<1>7. mem' = db'
  BY Zenon, <1>1, FreeMeansIdle
<1> QED
  BY Zenon, <1>1, <1>2, <1>5, <1>6, <1>7
     DEF SettlementInv, QuotaConserved, AdmissionWithinQuota

\* A step of a handler that only reads.
LEMMA UnwrittenStep ==
  ASSUME SettlementInv, draft' \in [TokenIds -> TokenRow \cup {None}],
         UNCHANGED <<mem, db, write_lock, job, granted, overrun, spent, clamped>>
  PROVE  SettlementInv' /\ UNCHANGED mem
<1>1. SettlementTypeOK'
  BY Zenon DEF SettlementInv, SettlementTypeOK
<1>2. LockInv' /\ CommitInv'
  BY ZenonT(30) DEF SettlementInv, LockInv, CommitInv, Based, Overlay
<1>3. PlanInv'
  <2> SUFFICES ASSUME NEW w \in Writers, job[w].pc = "planning" PROVE Plan(job[w])'
    BY Zenon DEF PlanInv
  <2>1. Plan(job[w])
    BY Zenon DEF SettlementInv, PlanInv
  <2> QED
    BY Zenon, <2>1, PlanKept
<1> QED
  BY Zenon, <1>1, <1>2, <1>3
     DEF SettlementInv, NoneCommitted, QuotaConserved, AdmissionWithinQuota

\* A batch of events that starts from the rows in memory.
LEMMA FreshPlan ==
  ASSUME SettlementInv, write_lock = Free,
         NEW kind \in {"settle", "reserve"}, NEW events \in Seq(UsageEvent),
         kind = "reserve" /\ events # <<>> =>
           LET e == Head(events) IN
           /\ Tail(events) = <<>>
           /\ e.pre_consumed_quota = None
           /\ UserOf(e) \in Users => UsageEventQuota(e) \in 1..mem.users[UserOf(e)].quota
  PROVE  LET j == [PlannedJob(kind) EXCEPT !.todo = events]
         IN  j \in Job /\ j.pc = "planning" /\ Plan(j)
<1> DEFINE next == [mem EXCEPT !.version = mem.version + 1]
           j == [PlannedJob(kind) EXCEPT !.todo = events]
<1>0. mem \in ManagementData /\ mem = db
  BY Zenon, FreeMeansIdle DEF SettlementInv, SettlementTypeOK
<1>1. /\ next \in ManagementData /\ next.version = mem.version + 1
      /\ next.users = mem.users /\ next.tokens = mem.tokens /\ next.channels = mem.channels
  BY <1>0 DEF ManagementData
<1> HIDE DEF next
<1>2. /\ j \in Job /\ j.pc = "planning" /\ j.kind = kind /\ j.base = mem.version
      /\ j.todo = events /\ j.next = next
      /\ j.grant = NoGrant /\ j.over = NoGrant /\ j.spend = NoSpend
  <2>1. PlannedJob(kind) = [IdleJob EXCEPT !.pc = "planning", !.kind = kind,
                                           !.base = mem.version, !.next = next]
    BY Zenon DEF PlannedJob, next
  <2>2. mem.version \in Nat
    BY Zenon, <1>0 DEF ManagementData
  <2> QED
    BY ZenonT(30), <1>1, <2>1, <2>2, IdleJobTyped DEF IdleJob, Job
<1> HIDE DEF j
<1>3. Based(j) /\ InScope(j) /\ Pending(j) /\ Admitted(j)
  BY Zenon, <1>1, <1>2 DEF Based, InScope, Pending, Admitted
<1>4. PlanConserves(j)
  <2>1. /\ \A u \in Users : granted[u] \in Int /\ j.grant[u] = 0
        /\ \A c \in Channels : spent[c] \in Int /\ j.spend[c] = 0
    BY Zenon, <1>2 DEF SettlementInv, SettlementTypeOK, NoGrant, NoSpend
  <2> QED
    BY <1>0, <1>1, <1>2, <2>1 DEF PlanConserves, SettlementInv, QuotaConserved
<1>5. PlanWithin(j)
  <2> SUFFICES ASSUME NEW u \in Users
               PROVE  j.over[u] >= 0 /\ j.next.users[u].quota >= -(overrun[u] + j.over[u])
    BY Zenon DEF PlanWithin
  <2>1. overrun[u] \in Int /\ j.over[u] = 0
    BY Zenon, <1>2 DEF SettlementInv, SettlementTypeOK, NoGrant
  <2>2. j.next.users[u].quota >= -overrun[u] /\ j.next.users[u].quota \in Int
    BY Zenon, <1>0, <1>1, <1>2, RowQuotas DEF SettlementInv, AdmissionWithinQuota
  <2> QED
    BY <2>1, <2>2
<1> QED
  BY Zenon, <1>2, <1>3, <1>4, <1>5 DEF Plan, j

\* A candidate for the whole data set: it keeps what users have used, and takes
\* from a user no more than it adds to the overrun.
Rewrite(j) ==
  /\ j \in Job /\ j.pc = "planning" /\ j.kind \in {"write", "status_only"}
  /\ j.todo = <<>> /\ j.scope = Everything /\ j.spend = NoSpend
  /\ Based(j) /\ j.next.channels = mem.channels
  /\ \A u \in Users :
       /\ j.next.users[u].used_quota = mem.users[u].used_quota
       /\ j.next.users[u].quota = mem.users[u].quota + j.grant[u]
       /\ j.over[u] >= 0 /\ j.over[u] + j.grant[u] >= 0

\* A candidate made from the memory copy under the lock is a plan.
LEMMA RewritePlan ==
  ASSUME SettlementInv, write_lock = Free, NEW j, Rewrite(j)
  PROVE  Plan(j)
<1>0. mem \in ManagementData /\ mem = db
  BY Zenon, FreeMeansIdle DEF SettlementInv, SettlementTypeOK
<1>1. /\ j \in Job /\ j.kind \in {"write", "status_only"} /\ j.todo = <<>>
      /\ j.scope = Everything /\ j.spend = NoSpend
      /\ Based(j) /\ j.next.channels = mem.channels
  BY Zenon DEF Rewrite
<1>2. InScope(j) /\ Pending(j) /\ Admitted(j)
  BY <1>1 DEF InScope, Pending, Admitted, Everything
<1>3. ASSUME NEW u \in Users
      PROVE  /\ mem.users[u].quota \in Int /\ mem.users[u].used_quota \in Int
             /\ j.grant[u] \in Int /\ j.over[u] \in Int
             /\ granted[u] \in Int /\ overrun[u] \in Int
  <2>1. j.grant \in [Users -> Int] /\ j.over \in [Users -> Int]
    BY Zenon, <1>1 DEF Job
  <2> QED
    BY Zenon, <1>0, <2>1, RowQuotas DEF SettlementInv, SettlementTypeOK
<1>4. PlanConserves(j)
  <2>1. ASSUME NEW u \in Users, ~clamped
        PROVE  j.next.users[u].quota + j.next.users[u].used_quota = granted[u] + j.grant[u]
    <3>1. mem.users[u].quota + mem.users[u].used_quota = granted[u]
      BY Zenon, <1>0, <2>1 DEF SettlementInv, QuotaConserved
    <3>2. /\ j.next.users[u].used_quota = mem.users[u].used_quota
          /\ j.next.users[u].quota = mem.users[u].quota + j.grant[u]
      BY Zenon DEF Rewrite
    <3> QED
      BY <1>3, <3>1, <3>2
  <2>2. ASSUME NEW c \in Channels, ~clamped
        PROVE  j.next.channels[c] = spent[c] + j.spend[c]
    <3>1. mem.channels[c] = spent[c] /\ spent[c] \in Int /\ j.spend[c] = 0
      BY Zenon, <1>0, <1>1, <2>2 DEF SettlementInv, SettlementTypeOK, QuotaConserved, NoSpend
    <3> QED
      BY <1>1, <3>1
  <2> QED
    BY Zenon, <2>1, <2>2 DEF PlanConserves
<1>5. PlanWithin(j)
  <2>1. ASSUME NEW u \in Users
        PROVE  j.over[u] >= 0 /\ j.next.users[u].quota >= -(overrun[u] + j.over[u])
    <3>1. mem.users[u].quota >= -overrun[u]
      BY Zenon, <1>0 DEF SettlementInv, AdmissionWithinQuota
    <3>2. /\ j.next.users[u].quota = mem.users[u].quota + j.grant[u]
          /\ j.over[u] >= 0 /\ j.over[u] + j.grant[u] >= 0
      BY Zenon DEF Rewrite
    <3> QED
      BY <1>3, <3>1, <3>2
  <2> QED
    BY Zenon, <2>1 DEF PlanWithin
<1> QED
  BY Zenon, <1>1, <1>2, <1>4, <1>5 DEF Plan

-----------------------------------------------------------------------------
\* A settlement begins.
LEMMA SettleUsageStep ==
  ASSUME SettlementInv, NEW w \in Writers, NEW events \in UsageBatches, SettleUsage(w, events)
  PROVE  SettlementInv' /\ UNCHANGED mem
<1>1. events \in Seq(UsageEvent) /\ draft' \in [TokenIds -> TokenRow \cup {None}]
  BY Zenon, SettlementAssumption DEF SettleUsage, SettlementInv, SettlementTypeOK
<1>2. write_lock = Free
  BY Zenon DEF SettleUsage, Begin
<1> QED
  BY Zenon, <1>1, <1>2, FreshPlan, BeginStep DEF SettleUsage

\* The handler asks for the quota before it reserves it.
LEMMA PreConsumeQuotaStep ==
  ASSUME SettlementInv, NEW w \in Writers, NEW e \in Admissions, PreConsumeQuota(w, e)
  PROVE  SettlementInv' /\ UNCHANGED mem
<1> DEFINE a == Admission(e)
           events == <<a>>
<1>1. e \in UsageEvent /\ draft' \in [TokenIds -> TokenRow \cup {None}]
  BY Zenon, SettlementAssumption DEF PreConsumeQuota, SettlementInv, SettlementTypeOK
<1>2. /\ a \in UsageEvent /\ a.pre_consumed_quota = None
      /\ a.token_id = e.token_id /\ a.user_id = e.user_id
  BY Zenon, <1>1 DEF Admission, UsageEvent
<1>3. UserOf(a) = UserOf(e)
  BY Zenon, <1>2 DEF UserOf, HasToken
<1>4. /\ UserOf(e) \in Users /\ UsageEventQuota(a) > 0
      /\ mem.users[UserOf(e)].quota >= UsageEventQuota(a)
      /\ Begin(w, [PlannedJob("reserve") EXCEPT !.todo = events])
  BY Zenon DEF PreConsumeQuota
<1> HIDE DEF a
<1>5. mem.users[UserOf(e)].quota \in Int /\ UsageEventQuota(a) \in Int
  BY Zenon, <1>2, <1>4, RowQuotas, EventAmounts DEF SettlementInv, SettlementTypeOK
<1>6. UsageEventQuota(a) \in 1..mem.users[UserOf(a)].quota
  BY <1>3, <1>4, <1>5
<1>7. events \in Seq(UsageEvent) /\ Head(events) = a /\ Tail(events) = <<>>
  BY <1>2
<1> HIDE DEF events
<1>8. write_lock = Free
  BY Zenon, <1>4 DEF Begin
<1>9. LET j == [PlannedJob("reserve") EXCEPT !.todo = events]
      IN  j \in Job /\ j.pc = "planning" /\ Plan(j)
  BY Zenon, <1>2, <1>6, <1>7, <1>8, FreshPlan
<1> QED
  BY Zenon, <1>1, <1>4, <1>9, BeginStep

\* Any write that goes through impl_write_service.
LEMMA RewriteStep ==
  ASSUME SettlementInv, NEW w \in Writers, NEW j, Rewrite(j), Begin(w, j),
         draft' \in [TokenIds -> TokenRow \cup {None}]
  PROVE  SettlementInv' /\ UNCHANGED mem
<1>1. write_lock = Free
  BY Zenon DEF Begin
<1>2. Plan(j) /\ j \in Job /\ j.pc = "planning"
  BY Zenon, <1>1, RewritePlan DEF Rewrite
<1> QED
  BY Zenon, <1>2, BeginStep

\* An administrator's change of a quota begins.
LEMMA WriteQuotaStep ==
  ASSUME SettlementInv, NEW w \in Writers, NEW u \in Users, NEW n \in Quota,
         NEW clamp \in BOOLEAN, WriteQuota(w, u, n, clamp)
  PROVE  SettlementInv' /\ UNCHANGED mem
<1> DEFINE row == [mem.users[u] EXCEPT !.quota = n]
           users == [mem.users EXCEPT ![u] = row]
           next == [NextVersion EXCEPT !.users = users]
           quota == mem.users[u].quota
           grant == [NoGrant EXCEPT ![u] = n - quota]
           over == [NoGrant EXCEPT ![u] = AtLeastZero(quota - n)]
           j == [PlannedJob("write") EXCEPT !.next = next, !.scope = Everything,
                                     !.grant = grant, !.over = over, !.clamp = clamp]
<1>0. mem \in ManagementData /\ n \in Int
  BY SettlementAssumption DEF SettlementInv, SettlementTypeOK, Quota
<1>1. /\ mem.users \in [Users -> UserRow] /\ mem.version \in Nat /\ mem.version + 1 \in Nat
      /\ \A v \in Users : mem.users[v] \in UserRow /\ mem.users[v].quota \in Int
  BY <1>0, RowQuotas DEF ManagementData
<1>2. row \in UserRow /\ row.quota = n /\ row.used_quota = mem.users[u].used_quota
  BY Zenon, <1>1 DEF UserRow
<1>j. Begin(w, j) /\ UNCHANGED draft
  BY Zenon DEF WriteQuota, Candidate
<1> HIDE DEF row
<1>3. /\ users \in [Users -> UserRow] /\ users[u] = row
      /\ \A v \in Users : v # u => users[v] = mem.users[v]
  BY Zenon, <1>1, <1>2
<1> HIDE DEF users
<1>4. /\ next \in ManagementData /\ next.version = mem.version + 1
      /\ next.channels = mem.channels /\ next.users = users
  BY Zenon, <1>0, <1>1, <1>3 DEF NextVersion, ManagementData
<1> HIDE DEF next
<1>5. /\ grant \in [Users -> Int] /\ grant[u] = n - quota
      /\ over \in [Users -> Int] /\ over[u] \in Nat /\ over[u] >= quota - n
      /\ \A v \in Users : v # u => grant[v] = 0 /\ over[v] = 0
  BY <1>0, <1>1, AtLeastZeroRange DEF NoGrant
<1> HIDE DEF grant, over
<1>6. /\ j \in Job /\ j.pc = "planning" /\ j.kind = "write" /\ j.base = mem.version
      /\ j.todo = <<>> /\ j.next = next /\ j.scope = Everything
      /\ j.grant = grant /\ j.over = over /\ j.spend = NoSpend
  BY Zenon, <1>1, <1>4, <1>5, IdleJobTyped DEF PlannedJob, IdleJob, Job, Everything, Scope
<1> HIDE DEF j
<1>7. ASSUME NEW v \in Users
      PROVE  /\ j.next.users[v].used_quota = mem.users[v].used_quota
             /\ j.next.users[v].quota = mem.users[v].quota + j.grant[v]
             /\ j.over[v] >= 0 /\ j.over[v] + j.grant[v] >= 0
  <2>1. CASE v = u
    <3>1. j.next.users[u].quota = n /\ j.next.users[u].used_quota = mem.users[u].used_quota
      BY Zenon, <1>2, <1>3, <1>4, <1>6
    <3>2. j.grant[u] = n - quota /\ j.over[u] \in Nat /\ j.over[u] >= quota - n
      BY Zenon, <1>5, <1>6
    <3>3. quota \in Int
      BY Zenon, <1>1
    <3> QED
      BY <1>0, <2>1, <3>1, <3>2, <3>3
  <2>2. CASE v # u
    BY <1>1, <1>3, <1>4, <1>5, <1>6, <2>2
  <2> QED
    BY Zenon, <2>1, <2>2
<1>8. Rewrite(j)
  BY Zenon, <1>4, <1>6, <1>7 DEF Rewrite, Based
<1>9. draft' \in [TokenIds -> TokenRow \cup {None}]
  BY Zenon, <1>j DEF SettlementInv, SettlementTypeOK
<1> QED
  BY Zenon, <1>8, <1>9, <1>j, RewriteStep

\* A candidate that leaves users and channels alone.
LEMMA TokenCandidateStep ==
  ASSUME SettlementInv, NEW w \in Writers, NEW kind \in {"write", "status_only"},
         NEW next \in ManagementData, next.version = mem.version + 1,
         next.channels = mem.channels, next.users = mem.users,
         Candidate(w, kind, next, NoGrant, NoGrant, FALSE),
         draft' \in [TokenIds -> TokenRow \cup {None}]
  PROVE  SettlementInv' /\ UNCHANGED mem
<1> DEFINE j == [PlannedJob(kind) EXCEPT !.next = next, !.scope = Everything,
                                   !.grant = NoGrant, !.over = NoGrant, !.clamp = FALSE]
<1>1. NoGrant \in [Users -> Int] /\ \A u \in Users : NoGrant[u] = 0
  BY DEF NoGrant
<1>2. mem.version \in Nat /\ \A u \in Users : mem.users[u].quota \in Int
  BY Zenon, RowQuotas DEF SettlementInv, SettlementTypeOK, ManagementData
<1>3. Begin(w, j)
  BY Zenon DEF Candidate
<1>4. /\ j \in Job /\ j.pc = "planning" /\ j.kind = kind /\ j.base = mem.version
      /\ j.todo = <<>> /\ j.next = next /\ j.scope = Everything
      /\ j.grant = NoGrant /\ j.over = NoGrant /\ j.spend = NoSpend
  BY Zenon, <1>1, <1>2, IdleJobTyped DEF PlannedJob, IdleJob, Job, Everything, Scope
<1> HIDE DEF j
<1>5. Rewrite(j)
  BY <1>1, <1>2, <1>4 DEF Rewrite, Based
<1> QED
  BY Zenon, <1>3, <1>5, RewriteStep

\* The candidate that creates or removes a token.
LEMMA WithTokenTyped ==
  ASSUME SettlementTypeOK, NEW t \in TokenIds, NEW row \in TokenRow \cup {None}
  PROVE  /\ WithToken(t, row) \in ManagementData
         /\ WithToken(t, row).version = mem.version + 1
         /\ WithToken(t, row).users = mem.users
         /\ WithToken(t, row).channels = mem.channels
<1> DEFINE tokens == [mem.tokens EXCEPT ![t] = row]
<1>1. tokens \in [TokenIds -> TokenRow \cup {None}]
  BY Zenon DEF SettlementTypeOK, ManagementData
<1>2. WithToken(t, row) = [NextVersion EXCEPT !.tokens = tokens]
  BY Zenon DEF WithToken
<1> HIDE DEF tokens
<1>3. mem.version \in Nat /\ mem.version + 1 \in Nat /\ mem \in ManagementData
  BY DEF SettlementTypeOK, ManagementData
<1> QED
  BY Zenon, <1>1, <1>2, <1>3 DEF NextVersion, ManagementData

\* Creating or deleting a token begins.
LEMMA CreateTokenStep ==
  ASSUME SettlementInv, NEW w \in Writers, NEW t \in TokenIds,
         CreateToken(w, t) \/ DeleteToken(w, t)
  PROVE  SettlementInv' /\ UNCHANGED mem
<1>1. PICK row \in TokenRow \cup {None} :
        Candidate(w, "write", WithToken(t, row), NoGrant, NoGrant, FALSE)
  <2>1. CASE CreateToken(w, t)
    <3>1. PICK u \in Users, n \in Amounts, unlimited \in BOOLEAN :
            Candidate(w, "write",
                      WithToken(t, [user_id |-> u, remain_quota |-> n, used_quota |-> 0,
                                    unlimited_quota |-> unlimited, status |-> Enabled]),
                      NoGrant, NoGrant, FALSE)
      BY Zenon, <2>1 DEF CreateToken
    <3>2. n \in Quota /\ 0 \in Quota
      BY SettlementAssumption DEF Quota
    <3>3. [user_id |-> u, remain_quota |-> n, used_quota |-> 0,
           unlimited_quota |-> unlimited, status |-> Enabled] \in TokenRow
      BY Zenon, <3>2 DEF TokenRow
    <3> QED
      BY Zenon, <3>1, <3>3
  <2>2. CASE DeleteToken(w, t)
    BY Zenon, <2>2 DEF DeleteToken
  <2> QED
    BY Zenon, <2>1, <2>2
<1>2. draft' \in [TokenIds -> TokenRow \cup {None}]
  BY Zenon DEF SettlementInv, SettlementTypeOK, CreateToken, DeleteToken
<1>3. SettlementTypeOK
  BY Zenon DEF SettlementInv
<1> QED
  BY Zenon, <1>1, <1>2, <1>3, WithTokenTyped, TokenCandidateStep

\* The row that update_token writes, or the error when it is gone or another's.
LEMMA WriteTokenStep ==
  ASSUME SettlementInv, NEW w \in Writers, NEW kind \in {"write", "status_only"},
         NEW t \in TokenIds, NEW new \in TokenRow, WriteToken(w, kind, t, new)
  PROVE  SettlementInv' /\ UNCHANGED mem
<1>1. SettlementTypeOK
  BY Zenon DEF SettlementInv
<1>2. draft' \in [TokenIds -> TokenRow \cup {None}]
  BY Zenon, <1>1 DEF SettlementTypeOK, WriteToken
<1>3. CASE Owned(t) /\ Candidate(w, kind, WithToken(t, UpdatedRow(mem.tokens[t], new)),
                                 NoGrant, NoGrant, FALSE)
  <2>1. mem.tokens[t] \in TokenRow
    BY Zenon, <1>1, <1>3 DEF Owned, SettlementTypeOK, ManagementData
  <2>2. new.remain_quota \in Int /\ new.remain_quota \in Quota
    BY SettlementAssumption DEF TokenRow, Quota
  <2>3. AtLeastZero(new.remain_quota) \in Quota
    BY <2>2, SettlementAssumption DEF AtLeastZero, Quota
  <2>4. UpdatedRow(mem.tokens[t], new) \in TokenRow
    BY Zenon, <2>1, <2>3 DEF UpdatedRow, TokenRow
  <2> QED
    BY Zenon, <1>1, <1>2, <1>3, <2>4, WithTokenTyped, TokenCandidateStep
<1>4. CASE UNCHANGED <<mem, db, write_lock, job, granted, overrun, spent, clamped>>
  BY Zenon, <1>2, <1>4, UnwrittenStep
<1> QED
  BY Zenon, <1>3, <1>4 DEF WriteToken

\* The plan or the candidate is written to the database.
LEMMA WriteStep ==
  ASSUME SettlementInv, NEW w \in Writers, Write(w)
  PROVE  SettlementInv' /\ UNCHANGED mem
<1>0. SettlementTypeOK
  BY Zenon DEF SettlementInv
<1>1. ASSUME NEW u \in Users, AdjustUserQuota(w, u) PROVE SettlementInv' /\ UNCHANGED mem
  <2>1. PICK n \in Amounts, sign \in {1, -1} :
          WriteQuota(w, u, Saturate(mem.users[u].quota + sign * n),
                     mem.users[u].quota + sign * n \notin Quota)
    BY Zenon, <1>1 DEF AdjustUserQuota
  <2> DEFINE quota == mem.users[u].quota + sign * n
             clamp == (quota \notin Quota)
  <2>2. n \in Int /\ sign * n \in Int
    BY SettlementAssumption
  <2>3. Saturate(quota) \in Quota
    BY <1>0, <2>2, RowQuotas, SaturateRange DEF SettlementTypeOK
  <2>4. clamp \in BOOLEAN
    BY Zenon
  <2>5. WriteQuota(w, u, Saturate(quota), clamp)
    BY Zenon, <2>1
  <2> HIDE DEF clamp, quota
  <2> QED
    BY Zenon, <2>3, <2>4, <2>5, WriteQuotaStep
<1>2. ASSUME NEW u \in Users, OverrideUserQuota(w, u) PROVE SettlementInv' /\ UNCHANGED mem
  <2>1. PICK n \in Quota : WriteQuota(w, u, n, FALSE)
    BY Zenon, <1>2 DEF OverrideUserQuota
  <2> QED
    BY Zenon, <2>1, WriteQuotaStep
<1>3. ASSUME NEW t \in TokenIds, UpdateTokenStatus(w, t) PROVE SettlementInv' /\ UNCHANGED mem
  <2>1. draft[t] \in TokenRow
    BY Zenon, <1>0, <1>3 DEF UpdateTokenStatus, SettlementTypeOK
  <2>2. PICK st \in {draft[t].status, Disabled, Enabled} :
          WriteToken(w, "status_only", t, [draft[t] EXCEPT !.status = st])
    BY Zenon, <1>3 DEF UpdateTokenStatus
  <2>3. [draft[t] EXCEPT !.status = st] \in TokenRow
    BY Zenon, <2>1 DEF TokenRow
  <2> QED
    BY Zenon, <2>2, <2>3, WriteTokenStep
<1>4. ASSUME NEW t \in TokenIds, UpdateToken(w, t) PROVE SettlementInv' /\ UNCHANGED mem
  <2>1. draft[t] \in TokenRow
    BY Zenon, <1>0, <1>4 DEF UpdateToken, SettlementTypeOK
  <2>2. PICK n \in Amounts \cup {0}, unlimited \in BOOLEAN,
             st \in {draft[t].status, Disabled, Enabled} :
          WriteToken(w, "write", t,
                     [draft[t] EXCEPT !.remain_quota = n, !.unlimited_quota = unlimited,
                                      !.status = st])
    BY Zenon, <1>4 DEF UpdateToken
  <2>3. n \in Quota
    BY SettlementAssumption DEF Quota
  <2>4. [draft[t] EXCEPT !.remain_quota = n, !.unlimited_quota = unlimited,
                         !.status = st] \in TokenRow
    BY Zenon, <2>1, <2>3 DEF TokenRow
  <2> QED
    BY Zenon, <2>2, <2>4, WriteTokenStep
<1>5. ASSUME BumpVersion(w) PROVE SettlementInv' /\ UNCHANGED mem
  <2>1. /\ NextVersion \in ManagementData /\ NextVersion.version = mem.version + 1
        /\ NextVersion.users = mem.users /\ NextVersion.channels = mem.channels
    BY <1>0 DEF SettlementTypeOK, ManagementData, NextVersion
  <2>2. draft' \in [TokenIds -> TokenRow \cup {None}]
    BY Zenon, <1>0, <1>5 DEF SettlementTypeOK, BumpVersion
  <2> QED
    BY Zenon, <1>5, <2>1, <2>2, TokenCandidateStep DEF BumpVersion
<1> QED
  BY Zenon, <1>1, <1>2, <1>3, <1>4, <1>5, SettleUsageStep, PreConsumeQuotaStep, CreateTokenStep
     DEF Write

-----------------------------------------------------------------------------
\* What one event does to the rows of a plan, and what it may not do.
LEMMA PlannedPlan ==
  ASSUME SettlementInv, NEW j \in Job, Plan(j), NEW e \in UsageEvent,
         j.todo # <<>>, e = Head(j.todo), UserOf(e) \in Users
  PROVE  Planned(j, e) \in Job /\ Planned(j, e).pc = j.pc /\ Plan(Planned(j, e))
<1> DEFINE u == UserOf(e)
           c == e.channel_id
           n == Planned(j, e)
           over == [j.over EXCEPT ![u] = j.over[u] + Unadmitted(j.kind, e)]
           spend == IF c # None THEN [j.spend EXCEPT ![c] = j.spend[c] + ActualQuota(e)]
                    ELSE j.spend
           clamp == j.clamp \/ Clamps(j.next.users[u], e, j.next)
           delta == DeltaQuota(e)
           actual == ActualQuota(e)
<1>1. /\ Based(j) /\ InScope(j) /\ Pending(j)
      /\ Admitted(j) /\ PlanConserves(j) /\ PlanWithin(j)
  BY Zenon DEF Plan
<1>2. /\ j.todo \in Seq(UsageEvent) /\ j.next \in ManagementData /\ j.scope \in Scope
      /\ j.over \in [Users -> Int] /\ j.grant \in [Users -> Int]
      /\ j.spend \in [Channels -> Int] /\ j.clamp \in BOOLEAN
  BY Zenon DEF Job
<1>3. /\ SettlementTypeOK /\ mem \in ManagementData /\ u \in Users
      /\ e.token_id \in TokenIds /\ c \in Channels \cup {None} /\ None \notin Channels
  BY Zenon, UserOfTyped, SettlementAssumption DEF SettlementInv, SettlementTypeOK, UsageEvent
<1>4. delta \in Int /\ actual \in Int /\ Reserved(e) \in Nat /\ UsageEventQuota(e) \in Int
  BY Zenon, EventAmounts
<1>5. Charged(j.next, e) \in ManagementData
  BY Zenon, <1>1, <1>2, <1>3, ChargedTyped DEF Pending
<1>6. Touched(j.scope, e) \in Scope
  BY Zenon, <1>2, <1>3 DEF Touched, Scope
<1>7. Unadmitted(j.kind, e) \in Nat /\ (j.kind = "settle" => Unadmitted(j.kind, e) >= delta)
  BY Zenon, <1>4, AtLeastZeroRange DEF Unadmitted
<1>8. /\ over \in [Users -> Int] /\ over[u] = j.over[u] + Unadmitted(j.kind, e)
      /\ \A v \in Users : v # u => over[v] = j.over[v]
  BY <1>2, <1>3, <1>7
<1>9. /\ spend \in [Channels -> Int]
      /\ \A d \in Channels : spend[d] = IF d = c THEN j.spend[d] + actual ELSE j.spend[d]
  BY <1>2, <1>3, <1>4
<1>10. clamp \in BOOLEAN
  BY Zenon
<1> HIDE DEF over, spend, clamp, delta, actual
<1>11. /\ n \in Job /\ n.pc = j.pc /\ n.kind = j.kind /\ n.base = j.base
       /\ n.todo = Tail(j.todo) /\ n.next = Charged(j.next, e)
       /\ n.scope = Touched(j.scope, e) /\ n.grant = j.grant
       /\ n.over = over /\ n.spend = spend /\ n.clamp = clamp
  <2>1. Tail(j.todo) \in Seq(UsageEvent)
    BY <1>2
  <2>2. n = [j EXCEPT !.todo = Tail(j.todo), !.next = Charged(j.next, e),
                      !.scope = Touched(j.scope, e), !.over = over, !.spend = spend,
                      !.clamp = clamp]
    BY Zenon DEF Planned, over, spend, clamp
  <2> HIDE DEF n
  <2> QED
    BY Zenon, <1>5, <1>6, <1>8, <1>9, <1>10, <2>1, <2>2 DEF Job
<1> HIDE DEF n
\* The rows of the plan, one by one.
<1>12. /\ n.next.version = j.next.version
       /\ n.next.users[u] = UserAfter(j.next.users[u], e)
       /\ \A v \in Users : v # u => n.next.users[v] = j.next.users[v]
  BY SMTT(90), <1>2, <1>3, <1>11 DEF Charged, ManagementData
<1>13. /\ \A t \in TokenIds : HasToken(e) /\ t = e.token_id =>
            n.next.tokens[t] = TokenAfter(j.next.tokens[t], e)
       /\ \A t \in TokenIds : ~(HasToken(e) /\ t = e.token_id) =>
            n.next.tokens[t] = j.next.tokens[t]
  <2>1. /\ n.next.tokens = IF HasToken(e)
                           THEN [j.next.tokens EXCEPT
                                   ![e.token_id] = TokenAfter(j.next.tokens[e.token_id], e)]
                           ELSE j.next.tokens
        /\ j.next.tokens \in [TokenIds -> TokenRow \cup {None}]
    BY SMTT(90), <1>2, <1>11 DEF Charged, ManagementData
  <2> QED
    BY Zenon, <1>3, <2>1
<1>14. \A d \in Channels :
         n.next.channels[d] = IF d = c THEN ChannelAfter(j.next.channels[d], e)
                              ELSE j.next.channels[d]
  BY SMTT(90), <1>2, <1>3, <1>11 DEF Charged, ManagementData
<1>15. Based(n)
  BY Zenon, <1>1, <1>11, <1>12 DEF Based
<1>16. InScope(n)
  <2>1. ASSUME NEW v \in Users, v \notin n.scope.users PROVE n.next.users[v] = mem.users[v]
    BY SMTT(90), <1>1, <1>11, <1>12, <2>1 DEF InScope, Touched
  <2>2. ASSUME NEW t \in TokenIds, t \notin n.scope.tokens PROVE n.next.tokens[t] = mem.tokens[t]
    BY SMTT(30), <1>1, <1>11, <1>13, <2>2 DEF InScope, Touched
  <2>3. ASSUME NEW d \in Channels, d \notin n.scope.channels
        PROVE  n.next.channels[d] = mem.channels[d]
    BY SMTT(90), <1>1, <1>3, <1>11, <1>14, <2>3 DEF InScope, Touched
  <2> QED
    BY Zenon, <2>1, <2>2, <2>3 DEF InScope
<1>17. Pending(n)
  <2>1. ASSUME NEW t \in TokenIds, mem.tokens[t] # None PROVE n.next.tokens[t] # None
    <3>1. j.next.tokens[t] # None /\ j.next.tokens[t] \in TokenRow
      BY Zenon, <1>1, <1>2, <2>1 DEF Pending, ManagementData
    <3>2. TokenAfter(j.next.tokens[t], e) \in TokenRow /\ None \notin TokenRow
      BY Zenon, <3>1, TokenAfterTyped, SettlementAssumption
    <3> QED
      BY Zenon, <1>13, <3>1, <3>2
  <2> QED
    BY Zenon, <1>1, <1>11, <2>1 DEF Pending
<1>18. Admitted(n)
  BY Zenon, <1>1, <1>11 DEF Admitted
<1>19. PlanConserves(n)
  <2> SUFFICES ASSUME ~clamped, ~n.clamp
               PROVE  /\ \A v \in Users :
                           n.next.users[v].quota + n.next.users[v].used_quota
                             = granted[v] + n.grant[v]
                      /\ \A d \in Channels : n.next.channels[d] = spent[d] + n.spend[d]
    BY Zenon DEF PlanConserves
  <2>1. ~j.clamp /\ ~Clamps(j.next.users[u], e, j.next)
    BY Zenon, <1>2, <1>11 DEF clamp
  <2>2. /\ \A v \in Users :
             j.next.users[v].quota + j.next.users[v].used_quota = granted[v] + n.grant[v]
        /\ \A d \in Channels : j.next.channels[d] = spent[d] + j.spend[d]
    BY Zenon, <1>1, <1>11, <2>1 DEF PlanConserves
  <2>3. /\ j.next.users[u].quota \in Int /\ j.next.users[u].used_quota \in Int
        /\ granted[u] \in Int /\ n.grant[u] \in Int
    BY Zenon, <1>2, <1>3, <1>11, RowQuotas DEF SettlementTypeOK
  <2>4. /\ n.next.users[u].quota = j.next.users[u].quota - delta
        /\ n.next.users[u].used_quota = j.next.users[u].used_quota + delta
    <3>1. /\ j.next.users[u].quota - delta \in Quota
          /\ j.next.users[u].used_quota + delta \in Quota
      BY Zenon, <2>1 DEF Clamps, delta
    <3>2. /\ Saturate(j.next.users[u].quota - delta) = j.next.users[u].quota - delta
          /\ Saturate(j.next.users[u].used_quota + delta) = j.next.users[u].used_quota + delta
      BY SMTT(30), <1>4, <2>3, <3>1, SaturateKeeps
    <3> QED
      BY SMTT(90), <1>12, <3>2 DEF UserAfter, delta
  <2>5. ASSUME NEW v \in Users
        PROVE  n.next.users[v].quota + n.next.users[v].used_quota = granted[v] + n.grant[v]
    <3>1. CASE v = u
      <4>1. j.next.users[u].quota + j.next.users[u].used_quota = granted[u] + n.grant[u]
        BY Zenon, <1>3, <2>2
      <4>2. n.next.users[u].quota + n.next.users[u].used_quota = granted[u] + n.grant[u]
        BY SMTT(90), <1>4, <2>3, <2>4, <4>1, MovedSum
      <4> QED
        BY Zenon, <3>1, <4>2
    <3>2. CASE v # u
      BY Zenon, <1>12, <2>2, <3>2
    <3> QED
      BY Zenon, <3>1, <3>2
  <2>6. ASSUME NEW d \in Channels PROVE n.next.channels[d] = spent[d] + n.spend[d]
    <3>1. CASE d = c
      <4>1. j.next.channels[d] + actual \in Quota
        BY Zenon, <1>3, <2>1, <3>1 DEF Clamps, actual
      <4>2. spent[d] \in Int /\ j.spend[d] \in Int /\ j.next.channels[d] \in Int
        BY Zenon, <1>2, <1>3, <2>2, EventAmounts DEF SettlementTypeOK, ManagementData
      <4>3. n.next.channels[d] = j.next.channels[d] + actual
        BY SMTT(30), <1>4, <1>14, <3>1, <4>1, <4>2, SaturateKeeps DEF ChannelAfter, actual
      <4> QED
        <5>1. n.spend[d] = j.spend[d] + actual /\ j.next.channels[d] = spent[d] + j.spend[d]
          BY Zenon, <1>9, <1>11, <2>2, <3>1
        <5> QED
          BY <1>4, <4>2, <4>3, <5>1
    <3>2. CASE d # c
      BY Zenon, <1>9, <1>11, <1>14, <2>2, <3>2
    <3> QED
      BY Zenon, <3>1, <3>2
  <2> QED
    BY Zenon, <2>5, <2>6
<1>20. PlanWithin(n)
  <2>1. /\ j.next.users[u].quota \in Quota /\ j.next.users[u].quota \in Int
        /\ j.over[u] \in Int /\ overrun[u] \in Int
        /\ j.over[u] >= 0 /\ overrun[u] >= 0
        /\ j.next.users[u].quota >= -(overrun[u] + j.over[u])
    BY Zenon, <1>1, <1>2, <1>3, RowQuotas DEF PlanWithin, SettlementInv, SettlementTypeOK
  <2>2. n.next.users[u].quota = Saturate(j.next.users[u].quota - delta)
    BY <1>12 DEF UserAfter, delta
  <2>3. j.kind = "settle" \/ j.next.users[u].quota - delta >= 0
    <3>1. CASE j.kind = "reserve"
      <4>1. /\ e.pre_consumed_quota = None /\ j.next.users = mem.users
            /\ UsageEventQuota(e) \in 1..mem.users[u].quota
        BY Zenon, <1>1, <1>3, <3>1 DEF Admitted
      <4>2. Reserved(e) = 0 /\ actual = UsageEventQuota(e)
        BY Zenon, <4>1 DEF Reserved, ActualQuota, actual
      <4>3. UsageEventQuota(e) \in Quota
        BY <1>4, <2>1, <4>1, SettlementAssumption DEF Quota
      <4>4. delta = UsageEventQuota(e)
        BY <1>4, <4>2, <4>3, SaturateKeeps DEF DeltaQuota, delta, actual
      <4> QED
        BY SMTT(30), <1>4, <2>1, <4>1, <4>4
    <3> QED
      BY Zenon, <1>1, <3>1 DEF Pending
  <2>4. over[u] >= 0 /\ n.next.users[u].quota >= -(overrun[u] + over[u])
    <3>1. over[u] \in Int /\ over[u] >= j.over[u] /\ (j.kind = "settle" => over[u] >= j.over[u] + delta)
      BY <1>4, <1>7, <1>8, <2>1
    <3> DEFINE q == j.next.users[u].quota
               h == overrun[u]
               old == j.over[u]
               new == over[u]
    <3>2. /\ q \in Int /\ h \in Int /\ old \in Int /\ new \in Int
          /\ h >= 0 /\ old >= 0 /\ q >= -(h + old) /\ new >= old
          /\ new >= old + delta \/ q - delta >= 0
      BY Zenon, <2>1, <2>3, <3>1
    <3>3. n.next.users[u].quota = Saturate(q - delta)
      BY Zenon, <2>2
    <3> HIDE DEF q, h, old, new
    <3>4. new >= 0 /\ Saturate(q - delta) >= -(h + new)
      BY Zenon, <1>4, <3>2, ChargeWithin
    <3> QED
      BY Zenon, <3>3, <3>4 DEF h, new
  <2> QED
    BY Zenon, <1>1, <1>8, <1>11, <1>12, <2>4 DEF PlanWithin
<1> QED
  BY Zenon, <1>11, <1>15, <1>16, <1>17, <1>18, <1>19, <1>20 DEF Plan, n

\* A step of the writer that holds the lock, and that keeps it.
LEMMA PlanStep ==
  ASSUME SettlementInv, NEW w \in Writers, NEW j \in Job, Planning(w),
         j.pc = "planning", Plan(j), job' = [job EXCEPT ![w] = j],
         UNCHANGED <<mem, db, write_lock, draft, granted, overrun, spent, clamped>>
  PROVE  SettlementInv' /\ UNCHANGED mem
<1>1. SettlementTypeOK' /\ job \in [Writers -> Job]
  BY Zenon DEF SettlementInv, SettlementTypeOK
<1>2. job'[w] = j /\ \A v \in Writers : v # w => job'[v] = job[v]
  BY Zenon, <1>1
<1>3. write_lock = w /\ \A v \in Writers : v # w => job[v].pc = "idle"
  BY Zenon DEF SettlementInv, LockInv, Planning
<1>4. LockInv' /\ CommitInv'
  BY Zenon, <1>2, <1>3 DEF LockInv, CommitInv
<1>5. PlanInv'
  <2>1. Plan(job[w])'
    BY Zenon, <1>2, PlanKept
  <2> QED
    BY Zenon, <1>2, <1>3, <2>1 DEF PlanInv
<1>6. mem' = db'
  BY Zenon, <1>3 DEF SettlementInv, NoneCommitted, Planning
<1> QED
  BY Zenon, <1>1, <1>4, <1>5, <1>6 DEF SettlementInv, QuotaConserved, AdmissionWithinQuota

\* A job that is planned holds a plan.
LEMMA PlanningJob ==
  ASSUME SettlementInv, NEW w \in Writers, Planning(w)
  PROVE  job[w] \in Job /\ job[w].pc = "planning" /\ Plan(job[w]) /\ write_lock = w
BY Zenon DEF SettlementInv, SettlementTypeOK, PlanInv, LockInv, Planning

\* An event that has no user, or that moves nothing, is skipped.
LEMMA SkipEventStep ==
  ASSUME SettlementInv, NEW w \in Writers, SkipEvent(w)
  PROVE  SettlementInv' /\ UNCHANGED mem
<1> DEFINE old == job[w]
           new == [old EXCEPT !.todo = Tail(old.todo)]
<1>1. /\ Planning(w) /\ old.todo # <<>> /\ job' = [job EXCEPT ![w] = new]
      /\ UNCHANGED <<mem, db, write_lock, draft, granted, overrun, spent, clamped>>
  BY Zenon DEF SkipEvent
<1>2. old \in Job /\ old.pc = "planning" /\ Plan(old)
  BY Zenon, <1>1, PlanningJob
<1> HIDE DEF old
<1>3. Tail(old.todo) \in Seq(UsageEvent)
  BY <1>1, <1>2 DEF Job
<1>4. /\ new \in Job /\ new.pc = "planning" /\ new.kind = old.kind /\ new.base = old.base
      /\ new.todo = Tail(old.todo) /\ new.next = old.next /\ new.scope = old.scope
      /\ new.grant = old.grant /\ new.over = old.over /\ new.spend = old.spend
      /\ new.clamp = old.clamp
  BY Zenon, <1>2, <1>3 DEF Job
<1> HIDE DEF new
<1>5. /\ Based(old) /\ InScope(old) /\ Pending(old)
      /\ Admitted(old) /\ PlanConserves(old) /\ PlanWithin(old)
  BY Zenon, <1>2 DEF Plan
<1>6. Based(new) /\ InScope(new) /\ PlanConserves(new) /\ PlanWithin(new)
  BY Zenon, <1>4, <1>5 DEF Based, InScope, PlanConserves, PlanWithin
<1>7. Pending(new) /\ Admitted(new)
  BY Zenon, <1>1, <1>4, <1>5 DEF Pending, Admitted
<1> QED
  BY Zenon, <1>1, <1>4, <1>6, <1>7, PlanStep DEF Plan

\* An event is charged to the plan.
LEMMA ChargeEventStep ==
  ASSUME SettlementInv, NEW w \in Writers, ChargeEvent(w)
  PROVE  SettlementInv' /\ UNCHANGED mem
<1> DEFINE old == job[w]
           e == Head(old.todo)
           new == Planned(old, e)
<1>1. /\ Planning(w) /\ old.todo # <<>> /\ ~Skipped(e) /\ job' = [job EXCEPT ![w] = new]
      /\ UNCHANGED <<mem, db, write_lock, draft, granted, overrun, spent, clamped>>
  BY Zenon DEF ChargeEvent
<1>2. old \in Job /\ old.pc = "planning" /\ Plan(old)
  BY Zenon, <1>1, PlanningJob
<1>3. UserOf(e) \in Users
  BY Zenon, <1>1 DEF Skipped
<1>4. e \in UsageEvent
  <2>1. old.todo \in Seq(UsageEvent)
    BY Zenon, <1>2 DEF Job
  <2> QED
    BY <1>1, <2>1
<1>5. new \in Job /\ new.pc = old.pc /\ Plan(new)
  BY Zenon, <1>1, <1>2, <1>3, <1>4, PlannedPlan
<1> HIDE DEF new
<1> QED
  BY Zenon, <1>1, <1>2, <1>5, PlanStep

-----------------------------------------------------------------------------
\* The lock is given back, with memory and database alike.
LEMMA ReleaseStep ==
  ASSUME SettlementInv, job' \in [Writers -> Job],
         \A v \in Writers : job'[v].pc = "idle",
         write_lock' = Free, mem' = db', draft' \in [TokenIds -> TokenRow \cup {None}],
         UNCHANGED <<db, granted, overrun, spent, clamped>>
  PROVE  SettlementInv'
<1>1. SettlementTypeOK'
  BY Zenon DEF SettlementInv, SettlementTypeOK
<1>2. LockInv' /\ PlanInv' /\ CommitInv'
  BY Zenon DEF LockInv, PlanInv, CommitInv
<1> QED
  BY Zenon, <1>1, <1>2 DEF SettlementInv, QuotaConserved, AdmissionWithinQuota

\* When the writer gives its job back, all jobs are idle.
LEMMA LastJobDone ==
  ASSUME SettlementInv, NEW w \in Writers, write_lock = w,
         job' = [job EXCEPT ![w] = IdleJob]
  PROVE  job' \in [Writers -> Job] /\ \A v \in Writers : job'[v].pc = "idle"
<1>1. job \in [Writers -> Job]
  BY Zenon DEF SettlementInv, SettlementTypeOK
<1>2. \A v \in Writers : v # w => job[v].pc = "idle"
  BY Zenon DEF SettlementInv, LockInv
<1> QED
  BY Zenon, <1>1, <1>2, IdleJobTyped

\* The database refuses, and the memory copy stays.
LEMMA PersistFailedStep ==
  ASSUME SettlementInv, NEW w \in Writers, PersistFailed(w)
  PROVE  SettlementInv' /\ UNCHANGED mem
<1>1. /\ Planning(w) /\ job' = [job EXCEPT ![w] = IdleJob] /\ write_lock' = Free
      /\ UNCHANGED <<mem, db, draft, granted, overrun, spent, clamped>>
  BY Zenon DEF PersistFailed, Ready
<1>2. write_lock = w
  BY Zenon, <1>1, PlanningJob
<1>3. mem = db
  BY Zenon, <1>1, <1>2 DEF SettlementInv, LockInv, NoneCommitted, Planning
<1>4. draft' \in [TokenIds -> TokenRow \cup {None}]
  BY Zenon, <1>1 DEF SettlementInv, SettlementTypeOK
<1> QED
  BY Zenon, <1>1, <1>2, <1>3, <1>4, LastJobDone, ReleaseStep

\* Publication makes of the memory copy what the commit made of the database.
LEMMA PublishStep ==
  ASSUME SettlementInv, NEW w \in Writers, PublishMemory(w)
  PROVE  SettlementInv' /\ mem'.version > mem.version
<1>1. /\ job[w].pc = "committed"
      /\ mem' = IF Publishable(w) THEN Overlay(mem, job[w].next, job[w].scope) ELSE mem
      /\ job' = [job EXCEPT ![w] = IdleJob] /\ write_lock' = Free
      /\ UNCHANGED <<db, draft, granted, overrun, spent, clamped>>
  BY Zenon DEF PublishMemory
<1>2. /\ job[w].base = mem.version /\ job[w].next.version = mem.version + 1
      /\ db = Overlay(mem, job[w].next, job[w].scope)
  BY Zenon, <1>1 DEF SettlementInv, CommitInv, Based
<1>3. mem' = db'
  BY Zenon, <1>1, <1>2 DEF Publishable
<1>4. write_lock = w /\ draft' \in [TokenIds -> TokenRow \cup {None}]
  BY Zenon, <1>1 DEF SettlementInv, LockInv, SettlementTypeOK
<1>5. SettlementInv'
  BY Zenon, <1>1, <1>3, <1>4, LastJobDone, ReleaseStep
<1>6. mem'.version = mem.version + 1 /\ mem.version \in Nat
  BY SMTT(90), <1>1, <1>2, <1>3 DEF Overlay, SettlementInv, SettlementTypeOK, ManagementData
<1> QED
  BY <1>5, <1>6

\* A restart serves what was committed, which memory may not have shown yet.
LEMMA RestartStep ==
  ASSUME SettlementInv, RestartStore
  PROVE  SettlementInv' /\ (mem' # mem => mem'.version > mem.version)
<1>1. /\ mem' = db /\ job' = [w \in Writers |-> IdleJob] /\ write_lock' = Free
      /\ draft' = [t \in TokenIds |-> None]
      /\ UNCHANGED <<db, granted, overrun, spent, clamped>>
  BY Zenon DEF RestartStore
<1>2. /\ job' \in [Writers -> Job] /\ \A w \in Writers : job'[w].pc = "idle"
      /\ draft' \in [TokenIds -> TokenRow \cup {None}]
  BY Zenon, <1>1, IdleJobTyped
<1>3. SettlementInv'
  BY Zenon, <1>1, <1>2, ReleaseStep
<1>4. ASSUME mem' # mem PROVE mem'.version > mem.version
  <2>1. PICK w \in Writers : job[w].pc = "committed"
    BY Zenon, <1>1, <1>4 DEF SettlementInv, NoneCommitted
  <2>2. db.version = mem.version + 1
    BY <2>1 DEF SettlementInv, CommitInv, Based, Overlay
  <2>3. mem.version \in Nat
    BY Zenon DEF SettlementInv, SettlementTypeOK, ManagementData
  <2> QED
    BY <1>1, <2>2, <2>3
<1> QED
  BY Zenon, <1>3, <1>4

\* The commit writes the rows in its scope, and so the whole plan.
LEMMA PersistStep ==
  ASSUME SettlementInv, NEW w \in Writers, Persist(w)
  PROVE  SettlementInv' /\ UNCHANGED mem
<1> DEFINE j == job[w]
           new == [j EXCEPT !.pc = "committed"]
<1>1. /\ Planning(w) /\ db' = Overlay(db, j.next, j.scope) /\ job' = [job EXCEPT ![w] = new]
      /\ granted' = [u \in Users |-> granted[u] + j.grant[u]]
      /\ overrun' = [u \in Users |-> overrun[u] + j.over[u]]
      /\ spent' = [c \in Channels |-> spent[c] + j.spend[c]]
      /\ clamped' = (clamped \/ j.clamp)
      /\ UNCHANGED <<mem, write_lock, draft>>
  BY Zenon DEF Persist, Ready
<1>2. /\ j \in Job /\ j.pc = "planning" /\ write_lock = w
      /\ Based(j) /\ InScope(j) /\ PlanConserves(j) /\ PlanWithin(j)
  BY Zenon, <1>1, PlanningJob DEF Plan
<1>3. mem = db /\ \A v \in Writers : v # w => job[v].pc = "idle"
  BY Zenon, <1>1, <1>2 DEF SettlementInv, LockInv, NoneCommitted, Planning
<1>4. /\ j.next \in ManagementData /\ j.scope \in Scope /\ j.clamp \in BOOLEAN
      /\ j.grant \in [Users -> Int] /\ j.over \in [Users -> Int]
      /\ j.spend \in [Channels -> Int]
  BY Zenon, <1>2 DEF Job
<1>5. /\ new \in Job /\ new.pc = "committed" /\ new.base = j.base /\ new.next = j.next
      /\ new.scope = j.scope
  BY Zenon, <1>2 DEF Job
<1> HIDE DEF new
<1>6. /\ job \in [Writers -> Job] /\ mem \in ManagementData /\ clamped \in BOOLEAN
      /\ granted \in [Users -> Int] /\ overrun \in [Users -> Int]
      /\ spent \in [Channels -> Int] /\ draft \in [TokenIds -> TokenRow \cup {None}]
  BY Zenon DEF SettlementInv, SettlementTypeOK
<1>7. db' \in ManagementData
  BY Zenon, <1>1, <1>3, <1>4, <1>6, OverlayTyped
<1>8. clamped' \in BOOLEAN
  BY Zenon, <1>1, <1>4, <1>6
<1>9. SettlementTypeOK'
  <2>1. /\ granted' \in [Users -> Int] /\ overrun' \in [Users -> Int]
        /\ spent' \in [Channels -> Int]
    BY <1>1, <1>4, <1>6
  <2>2. job' \in [Writers -> Job] /\ mem' \in ManagementData /\ write_lock' \in Writers
        /\ draft' \in [TokenIds -> TokenRow \cup {None}]
    BY Zenon, <1>1, <1>2, <1>5, <1>6
  <2> QED
    BY Zenon, <1>7, <1>8, <2>1, <2>2 DEF SettlementTypeOK
<1>10. job'[w] = new /\ \A v \in Writers : v # w => job'[v] = job[v]
  BY Zenon, <1>1, <1>6
<1>11. LockInv' /\ PlanInv'
  BY Zenon, <1>1, <1>2, <1>3, <1>5, <1>10 DEF LockInv, PlanInv
<1>12. CommitInv'
  <2>1. Based(new) /\ db' = Overlay(mem, new.next, new.scope)
    BY Zenon, <1>1, <1>2, <1>3, <1>5 DEF Based
  <2> QED
    BY ZenonT(30), <1>1, <1>3, <1>10, <2>1 DEF CommitInv, Based, Overlay
<1>13. ~NoneCommitted'
  BY Zenon, <1>5, <1>10 DEF NoneCommitted
<1>14. /\ \A u \in Users : db'.users[u] = j.next.users[u]
       /\ \A c \in Channels : db'.channels[c] = j.next.channels[c]
  BY Zenon, <1>1, <1>2, <1>3 DEF Overlay, InScope
<1>15. QuotaConserved'
  <2> SUFFICES ASSUME ~clamped'
               PROVE  /\ \A u \in Users :
                           db'.users[u].quota + db'.users[u].used_quota = granted'[u]
                      /\ \A c \in Channels : db'.channels[c] = spent'[c]
    BY Zenon DEF QuotaConserved
  <2>1. ~clamped /\ ~j.clamp
    BY Zenon, <1>1, <1>4, <1>6
  <2> QED
    BY Zenon, <1>1, <1>2, <1>14, <2>1 DEF PlanConserves
<1>16. ASSUME NEW u \in Users PROVE overrun'[u] >= 0 /\ db'.users[u].quota >= -overrun'[u]
  <2>1. overrun'[u] = overrun[u] + j.over[u] /\ overrun[u] \in Int /\ j.over[u] \in Int
    BY Zenon, <1>1, <1>4, <1>6
  <2>2. j.over[u] >= 0 /\ j.next.users[u].quota >= -(overrun[u] + j.over[u]) /\ overrun[u] >= 0
    BY Zenon, <1>2 DEF PlanWithin, SettlementInv
  <2> QED
    BY <1>14, <2>1, <2>2
<1> QED
  BY Zenon, <1>1, <1>9, <1>11, <1>12, <1>13, <1>15, <1>16 DEF SettlementInv, AdmissionWithinQuota

-----------------------------------------------------------------------------
\* The invariant holds at first.
LEMMA InitSettlementInv == SettlementInit => SettlementInv
<1> SUFFICES ASSUME SettlementInit PROVE SettlementInv
  BY Zenon
<1>1. /\ mem = Seed /\ db = Seed /\ write_lock = Free /\ job = [w \in Writers |-> IdleJob]
      /\ draft = [t \in TokenIds |-> None] /\ granted = [u \in Users |-> InitialQuota]
      /\ overrun = NoGrant /\ spent = NoSpend /\ clamped = FALSE
  BY Zenon DEF SettlementInit
<1>2. InitialQuota \in Int /\ InitialQuota >= 0
  BY SettlementAssumption
<1>3. SettlementTypeOK
  <2>1. mem \in ManagementData /\ db \in ManagementData /\ job \in [Writers -> Job]
    BY Zenon, <1>1, IdleJobTyped
  <2>2. /\ granted \in [Users -> Int] /\ overrun \in [Users -> Int]
        /\ spent \in [Channels -> Int] /\ draft \in [TokenIds -> TokenRow \cup {None}]
    BY <1>1, <1>2 DEF NoGrant, NoSpend
  <2>3. clamped \in BOOLEAN /\ write_lock \in Writers \cup {Free}
    BY Zenon, <1>1
  <2> QED
    BY Zenon, <2>1, <2>2, <2>3 DEF SettlementTypeOK
<1>4. \A w \in Writers : job[w].pc = "idle"
  BY Zenon, <1>1, IdleJobTyped
<1>5. LockInv /\ PlanInv /\ CommitInv
  BY Zenon, <1>4 DEF LockInv, PlanInv, CommitInv
<1>6. /\ \A u \in Users : db.users[u].quota = InitialQuota /\ db.users[u].used_quota = 0
      /\ \A c \in Channels : db.channels[c] = 0
  BY Zenon, <1>1 DEF Seed
<1>7. QuotaConserved
  BY <1>1, <1>2, <1>6 DEF QuotaConserved, NoSpend
<1>8. AdmissionWithinQuota /\ \A u \in Users : overrun[u] >= 0
  BY <1>1, <1>2, <1>6 DEF AdmissionWithinQuota, NoGrant
<1> QED
  BY Zenon, <1>1, <1>3, <1>5, <1>7, <1>8 DEF SettlementInv

\* Every step keeps the invariant.
LEMMA NextSettlementInv ==
  ASSUME SettlementInv, [SettlementNext]_settlement_vars
  PROVE  SettlementInv' /\ (mem' # mem => mem'.version > mem.version)
<1>1. CASE UNCHANGED settlement_vars
  <2>1. draft' \in [TokenIds -> TokenRow \cup {None}]
        /\ UNCHANGED <<mem, db, write_lock, job, granted, overrun, spent, clamped>>
    BY Zenon, <1>1 DEF settlement_vars, SettlementInv, SettlementTypeOK
  <2> QED
    BY Zenon, <2>1, UnwrittenStep
<1>2. ASSUME NEW t \in TokenIds, ReadToken(t) PROVE SettlementInv' /\ UNCHANGED mem
  <2>1. draft' \in [TokenIds -> TokenRow \cup {None}]
        /\ UNCHANGED <<mem, db, write_lock, job, granted, overrun, spent, clamped>>
    BY Zenon, <1>2 DEF ReadToken, SettlementInv, SettlementTypeOK, ManagementData
  <2> QED
    BY Zenon, <2>1, UnwrittenStep
<1> QED
  BY Zenon, <1>1, <1>2, WriteStep, SkipEventStep, ChargeEventStep, PersistStep, PersistFailedStep,
     PublishStep, RestartStep
     DEF SettlementNext

\* The accounting invariant holds for any number of users, tokens, channels and
\* handlers, any range of quotas, and any batches and admissions.
THEOREM SettlementInvariant == SettlementSpec => []SettlementInv
<1>1. SettlementInv /\ [SettlementNext]_settlement_vars => SettlementInv'
  BY Zenon, NextSettlementInv
<1> QED
  BY <1>1, InitSettlementInv, PTL DEF SettlementSpec

\* No reader of the memory copy sees a row whose commit failed, no restart
\* brings back an older row, and apply_usage_plan never finds its plan stale.
THEOREM MemoryFollowsDatabase == SettlementSpec => []MemoryMatchesDatabase
<1>1. SettlementInv => MemoryMatchesDatabase
  BY Zenon DEF SettlementInv, MemoryMatchesDatabase, NoneCommitted, CommitInv, Based, Publishable
<1> QED
  BY <1>1, SettlementInvariant, PTL

\* Settlement makes and loses no quota.
THEOREM SettlementConserves == SettlementSpec => []QuotaConserved
<1>1. SettlementInv => QuotaConserved
  BY Zenon DEF SettlementInv
<1> QED
  BY <1>1, SettlementInvariant, PTL

\* plan_preconsume_quota overdraws nobody.
THEOREM AdmissionsWithinQuota == SettlementSpec => []AdmissionWithinQuota
<1>1. SettlementInv => AdmissionWithinQuota
  BY Zenon DEF SettlementInv
<1> QED
  BY <1>1, SettlementInvariant, PTL

\* The memory copy changes only with its version.
THEOREM ChangesAreVersioned == SettlementSpec => VersionedChanges
<1>1. SettlementInv /\ [SettlementNext]_settlement_vars
        => [mem' # mem => mem'.version > mem.version]_settlement_vars
  BY Zenon, NextSettlementInv
<1> QED
  BY <1>1, SettlementInvariant, PTL DEF SettlementSpec, VersionedChanges

===============================================================================
