----------------------------- MODULE Settlement -----------------------------
(***************************************************************************)
(* Quota accounting in the control plane: the SQL-backed management store  *)
(* (SQLite and MySQL), which keeps its rows in a database and mirrors them *)
(* in memory.  Every write takes write_lock, computes the new rows from    *)
(* the memory copy, commits them to the database and only then publishes   *)
(* them in memory.  Usage settlement and quota reservation write just the  *)
(* rows they touch (a plan); every other write saves the whole data set (a *)
(* candidate).  The process may crash at any step and reloads its memory   *)
(* from the database.                                                      *)
(*                                                                         *)
(* A price stands for what usage_event_quota computes from token counts    *)
(* and ratios, and an event says whether its token counts are all zero.    *)
(***************************************************************************)
EXTENDS Integers, Sequences

CONSTANTS
  Users,         \* user ids
  Channels,      \* channel ids
  TokenIds,      \* token ids
  Writers,       \* request handlers of control-api that write
  None,          \* an absent row or an absent optional field
  QuotaMin,      \* i64::MIN
  QuotaMax,      \* i64::MAX
  InitialQuota,  \* the quota of every user at the start
  InitialTokens, \* the token rows at the start
  UsageBatches,  \* batches of usage events that gateways report
  Admissions,    \* usage events sent for a quota reservation
  Amounts,       \* amounts that operators and redemptions move
  MaxVersion     \* bound on the number of writes

Free == "free"
Disabled == 0
Enabled == 1
Exhausted == 4

Quota == QuotaMin..QuotaMax

UserRow == [quota : Quota, used_quota : Quota]
TokenRow == [user_id : Users, remain_quota : Quota, used_quota : Quota,
             unlimited_quota : BOOLEAN, status : {Disabled, Enabled, Exhausted}]

\* UsageEvent.  quota is the explicit quota of the event; observed says that
\* observed_tokens() is not zero, and price is the quota those tokens cost.
UsageEvent ==
  [token_id : TokenIds, user_id : Users \cup {None},
   channel_id : Channels \cup {None}, status : {"Success", "UpstreamError"},
   quota : Quota \cup {None}, observed : BOOLEAN, price : Quota,
   pre_consumed_quota : Quota \cup {None}]

ManagementData ==
  [version : Nat, users : [Users -> UserRow],
   tokens : [TokenIds -> TokenRow \cup {None}], channels : [Channels -> Quota]]

ASSUME SettlementAssumption ==
  /\ QuotaMin \in Int /\ QuotaMax \in Int
  /\ QuotaMin <= 0 /\ QuotaMax >= 0
  /\ TokenIds \subseteq Nat
  /\ None \notin Users /\ None \notin Channels
  /\ None \notin TokenRow /\ None \notin Int
  /\ Free \notin Writers
  /\ InitialQuota \in 0..QuotaMax
  /\ InitialTokens \in [TokenIds -> TokenRow \cup {None}]
  /\ UsageBatches \subseteq Seq(UsageEvent) /\ <<>> \notin UsageBatches
  /\ Admissions \subseteq UsageEvent
  /\ Amounts \subseteq 1..QuotaMax
  /\ MaxVersion \in Nat

VARIABLES
  mem,        \* the memory copy: MemoryManagementStore
  db,         \* the rows committed to the database
  write_lock, \* who holds the store's write_lock
  job,        \* what the handler that holds the lock has computed
  draft,      \* the token row that update_token read and has not written yet
  granted,    \* history: what each user was ever given
  overrun,    \* history: what was taken from each user without an admission
  spent,      \* history: what was ever charged to each channel
  clamped     \* history: some committed sum met the bounds of i64

settlement_vars == <<mem, db, write_lock, job, draft, granted, overrun, spent, clamped>>

Saturate(n) == IF n > QuotaMax THEN QuotaMax ELSE IF n < QuotaMin THEN QuotaMin ELSE n
AtLeastZero(n) == IF n < 0 THEN 0 ELSE n

\* The rows that a commit writes.
Everything == [users |-> Users, tokens |-> TokenIds, channels |-> Channels]
Nothing == [users |-> {}, tokens |-> {}, channels |-> {}]
Scope == [users : SUBSET Users, tokens : SUBSET TokenIds, channels : SUBSET Channels]

NoGrant == [u \in Users |-> 0]
NoSpend == [c \in Channels |-> 0]

\* A job: kind says who computed it, todo holds the events of a batch that
\* are not planned yet, next the rows after it, and grant, over, spend and
\* clamp what it adds to the histories when it commits.
Job == [pc : {"idle", "planning", "committed"},
        kind : {"settle", "reserve", "status_only", "write"},
        base : Nat, todo : Seq(UsageEvent), next : ManagementData, scope : Scope,
        grant : [Users -> Int], over : [Users -> Int],
        spend : [Channels -> Int], clamp : BOOLEAN]

\* The data the store starts from: seeded, and saved before it is served.
Seed == [version |-> 1,
         users |-> [u \in Users |-> [quota |-> InitialQuota, used_quota |-> 0]],
         tokens |-> InitialTokens, channels |-> [c \in Channels |-> 0]]

IdleJob ==
  [pc |-> "idle", kind |-> "write", base |-> 0, todo |-> <<>>, next |-> Seed,
   scope |-> Nothing, grant |-> NoGrant, over |-> NoGrant, spend |-> NoSpend,
   clamp |-> FALSE]

SettlementTypeOK ==
  /\ mem \in ManagementData
  /\ db \in ManagementData
  /\ write_lock \in Writers \cup {Free}
  /\ job \in [Writers -> Job]
  /\ draft \in [TokenIds -> TokenRow \cup {None}]
  /\ granted \in [Users -> Int]
  /\ overrun \in [Users -> Int]
  /\ spent \in [Channels -> Int]
  /\ clamped \in BOOLEAN

SettlementInit ==
  /\ mem = Seed
  /\ db = Seed
  /\ write_lock = Free
  /\ job = [w \in Writers |-> IdleJob]
  /\ draft = [t \in TokenIds |-> None]
  /\ granted = [u \in Users |-> InitialQuota]
  /\ overrun = NoGrant
  /\ spent = NoSpend
  /\ clamped = FALSE

-----------------------------------------------------------------------------
(***************************************************************************)
(* What a usage event costs, and to whom                                   *)
(***************************************************************************)

\* The identity indexes: the token row, else the user id the event carries.
HasToken(e) == mem.tokens[e.token_id] # None
UserOf(e) == IF HasToken(e) THEN mem.tokens[e.token_id].user_id ELSE e.user_id

\* usage_event_quota
UsageEventQuota(e) ==
  IF e.status # "Success" THEN 0
  ELSE IF e.quota # None THEN AtLeastZero(e.quota)
  ELSE IF e.observed THEN e.price ELSE 0

Reserved(e) ==
  IF e.pre_consumed_quota = None THEN 0 ELSE AtLeastZero(e.pre_consumed_quota)

\* A success without usage metadata keeps its reservation.
ActualQuota(e) ==
  IF /\ UsageEventQuota(e) = 0
     /\ Reserved(e) > 0
     /\ e.status = "Success"
     /\ e.quota = None
     /\ ~e.observed
  THEN Reserved(e)
  ELSE UsageEventQuota(e)

DeltaQuota(e) == Saturate(ActualQuota(e) - Reserved(e))

\* Variant of UserAfter: sums are not saturated.
UserAfterUnbounded(row, e) ==
  [quota |-> row.quota - DeltaQuota(e), used_quota |-> row.used_quota + DeltaQuota(e)]

UserAfter(row, e) ==
  [quota |-> Saturate(row.quota - DeltaQuota(e)),
   used_quota |-> Saturate(row.used_quota + DeltaQuota(e))]

\* A limited token that runs out is exhausted; a refund that leaves it with
\* quota enables it again.
TokenAfter(row, e) ==
  LET remain == Saturate(row.remain_quota - DeltaQuota(e)) IN
  [row EXCEPT
     !.remain_quota = remain,
     !.used_quota = Saturate(row.used_quota + DeltaQuota(e)),
     !.status =
       IF ~row.unlimited_quota /\ remain <= 0 /\ row.status # Exhausted THEN Exhausted
       ELSE IF Reserved(e) > 0 /\ DeltaQuota(e) < 0 /\ remain > 0 /\ row.status = Exhausted
            THEN Enabled
            ELSE row.status]

\* A reservation names no channel, so the channel is charged the whole cost.
ChannelAfter(used, e) == Saturate(used + ActualQuota(e))

\* Some sum of the event does not fit.
Clamps(row, e, data) ==
  \/ ActualQuota(e) - Reserved(e) \notin Quota
  \/ row.quota - DeltaQuota(e) \notin Quota
  \/ row.used_quota + DeltaQuota(e) \notin Quota
  \/ e.channel_id # None /\ data.channels[e.channel_id] + ActualQuota(e) \notin Quota

-----------------------------------------------------------------------------
(***************************************************************************)
(* Taking the lock and computing new rows                                  *)
(***************************************************************************)

\* Variant of PlannedJob: a plan keeps the version it was made from.
PlannedJobSameVersion(kind) ==
  [IdleJob EXCEPT !.pc = "planning", !.kind = kind, !.base = mem.version, !.next = mem]

\* A plan or candidate computed from the memory copy.
PlannedJob(kind) ==
  [IdleJob EXCEPT !.pc = "planning", !.kind = kind, !.base = mem.version,
                  !.next = [mem EXCEPT !.version = mem.version + 1]]

\* Variant of Begin: the handler does not wait for the write lock.
BeginUnlocked(w, j) ==
  /\ job[w].pc = "idle"
  /\ mem.version < MaxVersion
  /\ write_lock' = w
  /\ job' = [job EXCEPT ![w] = j]
  /\ UNCHANGED <<mem, db, granted, overrun, spent, clamped>>

Begin(w, j) ==
  /\ write_lock = Free
  /\ mem.version < MaxVersion
  /\ write_lock' = w
  /\ job' = [job EXCEPT ![w] = j]
  /\ UNCHANGED <<mem, db, granted, overrun, spent, clamped>>

\* SettleUsageRequest
SettleUsage(w, events) ==
  /\ Begin(w, [PlannedJob("settle") EXCEPT !.todo = events])
  /\ UNCHANGED draft

\* The event as plan_preconsume_quota settles it.
Admission(e) == [e EXCEPT !.status = "Success", !.pre_consumed_quota = None]

\* Variant of PreConsumeQuota: only the token's quota is looked at.
PreConsumeQuotaByToken(w, e) ==
  LET quota == UsageEventQuota(Admission(e)) IN
  /\ UserOf(e) \in Users
  /\ quota > 0
  /\ HasToken(e) =>
       \/ mem.tokens[e.token_id].unlimited_quota
       \/ mem.tokens[e.token_id].remain_quota >= quota
  /\ Begin(w, [PlannedJob("reserve") EXCEPT !.todo = <<Admission(e)>>])
  /\ UNCHANGED draft

\* PreConsumeQuotaRequest.  An unknown user, an event that costs nothing and
\* one that user or token cannot pay return without writing.
PreConsumeQuota(w, e) ==
  LET quota == UsageEventQuota(Admission(e)) IN
  /\ UserOf(e) \in Users
  /\ quota > 0
  /\ mem.users[UserOf(e)].quota >= quota
  /\ HasToken(e) =>
       \/ mem.tokens[e.token_id].unlimited_quota
       \/ mem.tokens[e.token_id].remain_quota >= quota
  /\ Begin(w, [PlannedJob("reserve") EXCEPT !.todo = <<Admission(e)>>])
  /\ UNCHANGED draft

\* A write through impl_write_service: the candidate is complete at once.
Candidate(w, kind, next, grant, over, clamp) ==
  Begin(w, [PlannedJob(kind) EXCEPT !.next = next, !.scope = Everything,
                                    !.grant = grant, !.over = over, !.clamp = clamp])

NextVersion == [mem EXCEPT !.version = mem.version + 1]
WithToken(t, row) == [NextVersion EXCEPT !.tokens = [mem.tokens EXCEPT ![t] = row]]

\* The quota of user u is set to n: what that gives and takes.
WriteQuota(w, u, n, clamp) ==
  LET quota == mem.users[u].quota IN
  /\ Candidate(w, "write",
               [NextVersion EXCEPT
                  !.users = [mem.users EXCEPT ![u] = [mem.users[u] EXCEPT !.quota = n]]],
               [NoGrant EXCEPT ![u] = n - quota],
               [NoGrant EXCEPT ![u] = AtLeastZero(quota - n)], clamp)
  /\ UNCHANGED draft

\* AdjustUserQuotaRequest, and ManageUserRequest add_quota add and subtract.
AdjustUserQuota(w, u) ==
  \E n \in Amounts, sign \in {1, -1} :
    LET quota == mem.users[u].quota + sign * n IN
    WriteQuota(w, u, Saturate(quota), quota \notin Quota)

\* ManageUserRequest add_quota override, which takes a debt as well.
OverrideUserQuota(w, u) ==
  \E n \in {m \in Quota : m = 0 \/ m \in Amounts \/ -m \in Amounts} :
    WriteQuota(w, u, n, FALSE)

\* CreateTokenRequest: next_id is one above the largest id in use.
CreateToken(w, t) ==
  /\ \A s \in TokenIds : s >= t => mem.tokens[s] = None
  /\ t - 1 \in TokenIds => mem.tokens[t - 1] # None
  /\ \E u \in Users, n \in Amounts, unlimited \in BOOLEAN :
       Candidate(w, "write",
                 WithToken(t, [user_id |-> u, remain_quota |-> n, used_quota |-> 0,
                               unlimited_quota |-> unlimited, status |-> Enabled]),
                 NoGrant, NoGrant, FALSE)
  /\ UNCHANGED draft

\* DeleteTokenRequest
DeleteToken(w, t) ==
  /\ mem.tokens[t] # None
  /\ Candidate(w, "write", WithToken(t, None), NoGrant, NoGrant, FALSE)
  /\ UNCHANGED draft

\* update_token, its first half: the handler reads the stored row.
ReadToken(t) ==
  /\ mem.tokens[t] # None
  /\ draft[t] = None
  /\ draft' = [draft EXCEPT ![t] = mem.tokens[t]]
  /\ UNCHANGED <<mem, db, write_lock, job, granted, overrun, spent, clamped>>

\* UpdateTokenRequest: the whole row is replaced, but for owner and spend.
UpdatedRow(row, new) ==
  [new EXCEPT !.user_id = row.user_id, !.used_quota = row.used_quota,
              !.remain_quota = AtLeastZero(new.remain_quota)]

\* The row is still there, and still its reader's.
Owned(t) == mem.tokens[t] # None /\ mem.tokens[t].user_id = draft[t].user_id

WriteToken(w, kind, t, new) ==
  /\ draft' = [draft EXCEPT ![t] = None]
  /\ \/ /\ Owned(t)
        /\ Candidate(w, kind, WithToken(t, UpdatedRow(mem.tokens[t], new)),
                     NoGrant, NoGrant, FALSE)
     \/ /\ write_lock = Free
        /\ ~Owned(t)
        /\ UNCHANGED <<mem, db, write_lock, job, granted, overrun, spent, clamped>>

\* update_token, its second half: the patch over the row it read.
UpdateTokenStatus(w, t) ==
  /\ draft[t] # None
  /\ \E s \in {draft[t].status, Disabled, Enabled} :
       WriteToken(w, "status_only", t, [draft[t] EXCEPT !.status = s])

UpdateToken(w, t) ==
  /\ draft[t] # None
  /\ \E n \in Amounts \cup {0}, unlimited \in BOOLEAN,
        s \in {draft[t].status, Disabled, Enabled} :
       WriteToken(w, "write", t,
                  [draft[t] EXCEPT !.remain_quota = n, !.unlimited_quota = unlimited,
                                   !.status = s])

\* bump_version, after a change of options.
BumpVersion(w) ==
  /\ Candidate(w, "write", NextVersion, NoGrant, NoGrant, FALSE)
  /\ UNCHANGED draft

-----------------------------------------------------------------------------
(***************************************************************************)
(* The loop of plan_usage_settlement, one event at a time                  *)
(***************************************************************************)

Planning(w) == job[w].pc = "planning"

Skipped(e) == UserOf(e) \notin Users \/ (ActualQuota(e) <= 0 /\ Reserved(e) = 0)

SkipEvent(w) ==
  /\ Planning(w)
  /\ job[w].todo # <<>>
  /\ Skipped(Head(job[w].todo))
  /\ job' = [job EXCEPT ![w] = [job[w] EXCEPT !.todo = Tail(job[w].todo)]]
  /\ UNCHANGED <<mem, db, write_lock, draft, granted, overrun, spent, clamped>>

\* The rows after event e, on top of the rows planned so far.
Charged(data, e) ==
  LET u == UserOf(e)
      t == e.token_id
      c == e.channel_id IN
  [version |-> data.version,
   users |-> [data.users EXCEPT ![u] = UserAfter(data.users[u], e)],
   tokens |-> IF HasToken(e)
              THEN [data.tokens EXCEPT ![t] = TokenAfter(data.tokens[t], e)]
              ELSE data.tokens,
   channels |-> IF c # None
                THEN [data.channels EXCEPT ![c] = ChannelAfter(data.channels[c], e)]
                ELSE data.channels]

Touched(scope, e) ==
  [users |-> scope.users \cup {UserOf(e)},
   tokens |-> scope.tokens \cup (IF HasToken(e) THEN {e.token_id} ELSE {}),
   channels |-> scope.channels \cup (IF e.channel_id # None THEN {e.channel_id} ELSE {})]

\* An admission is checked against the quota; a settlement only follows it.
Unadmitted(kind, e) == IF kind = "settle" THEN AtLeastZero(DeltaQuota(e)) ELSE 0

\* The job after event e.
Planned(j, e) ==
  LET u == UserOf(e)
      c == e.channel_id IN
  [j EXCEPT
     !.todo = Tail(j.todo),
     !.next = Charged(j.next, e),
     !.scope = Touched(j.scope, e),
     !.over = [j.over EXCEPT ![u] = j.over[u] + Unadmitted(j.kind, e)],
     !.spend = IF c # None THEN [j.spend EXCEPT ![c] = j.spend[c] + ActualQuota(e)]
               ELSE j.spend,
     !.clamp = (j.clamp \/ Clamps(j.next.users[u], e, j.next))]

ChargeEvent(w) ==
  /\ Planning(w)
  /\ job[w].todo # <<>>
  /\ ~Skipped(Head(job[w].todo))
  /\ job' = [job EXCEPT ![w] = Planned(job[w], Head(job[w].todo))]
  /\ UNCHANGED <<mem, db, write_lock, draft, granted, overrun, spent, clamped>>

-----------------------------------------------------------------------------
(***************************************************************************)
(* Committing and publishing                                               *)
(***************************************************************************)

Overlay(data, next, scope) ==
  [version |-> next.version,
   users |-> [u \in Users |->
                IF u \in scope.users THEN next.users[u] ELSE data.users[u]],
   tokens |-> [t \in TokenIds |->
                IF t \in scope.tokens THEN next.tokens[t] ELSE data.tokens[t]],
   channels |-> [c \in Channels |->
                IF c \in scope.channels THEN next.channels[c] ELSE data.channels[c]]]

Ready(w) == Planning(w) /\ job[w].todo = <<>>

\* The transaction of persist_usage_settlement or save_data commits.
Persist(w) ==
  LET j == job[w] IN
  /\ Ready(w)
  /\ db' = Overlay(db, j.next, j.scope)
  /\ job' = [job EXCEPT ![w] = [j EXCEPT !.pc = "committed"]]
  /\ granted' = [u \in Users |-> granted[u] + j.grant[u]]
  /\ overrun' = [u \in Users |-> overrun[u] + j.over[u]]
  /\ spent' = [c \in Channels |-> spent[c] + j.spend[c]]
  /\ clamped' = (clamped \/ j.clamp)
  /\ UNCHANGED <<mem, write_lock, draft>>

\* It fails and is rolled back: the handler returns the error and gives the lock
\* back.  A commit whose outcome the handler does not learn is left to module
\* ReplicatedManagement.
PersistFailed(w) ==
  /\ Ready(w)
  /\ job' = [job EXCEPT ![w] = IdleJob]
  /\ write_lock' = Free
  /\ UNCHANGED <<mem, db, draft, granted, overrun, spent, clamped>>

\* apply_planned_usage_settlement refuses a plan made from another version;
\* replace_data asks nothing.
Publishable(w) ==
  job[w].kind \in {"settle", "reserve"} => mem.version = job[w].base

\* Variant of PublishMemory: the settled rows stay out of the memory copy.
PublishVersionOnly(w) ==
  /\ job[w].pc = "committed"
  /\ mem' = [mem EXCEPT !.version = job[w].next.version]
  /\ job' = [job EXCEPT ![w] = IdleJob]
  /\ write_lock' = Free
  /\ UNCHANGED <<db, draft, granted, overrun, spent, clamped>>

PublishMemory(w) ==
  LET j == job[w] IN
  /\ j.pc = "committed"
  /\ mem' = IF Publishable(w) THEN Overlay(mem, j.next, j.scope) ELSE mem
  /\ job' = [job EXCEPT ![w] = IdleJob]
  /\ write_lock' = Free
  /\ UNCHANGED <<db, draft, granted, overrun, spent, clamped>>

\* The process dies and starts again: connect loads the database.
RestartStore ==
  /\ mem' = db
  /\ job' = [w \in Writers |-> IdleJob]
  /\ write_lock' = Free
  /\ draft' = [t \in TokenIds |-> None]
  /\ UNCHANGED <<db, granted, overrun, spent, clamped>>

Write(w) ==
  \/ \E events \in UsageBatches : SettleUsage(w, events)
  \/ \E e \in Admissions : PreConsumeQuota(w, e)
  \/ \E u \in Users : AdjustUserQuota(w, u) \/ OverrideUserQuota(w, u)
  \/ \E t \in TokenIds : \/ CreateToken(w, t) \/ DeleteToken(w, t)
                         \/ UpdateTokenStatus(w, t) \/ UpdateToken(w, t)
  \/ BumpVersion(w)

SettlementNext ==
  \/ \E w \in Writers : \/ Write(w) \/ SkipEvent(w) \/ ChargeEvent(w)
                        \/ Persist(w) \/ PersistFailed(w) \/ PublishMemory(w)
  \/ \E t \in TokenIds : ReadToken(t)
  \/ RestartStore

SettlementSpec == SettlementInit /\ [][SettlementNext]_settlement_vars

-----------------------------------------------------------------------------
(***************************************************************************)
(* Properties                                                              *)
(***************************************************************************)

\* The memory copy and the database agree but for the moment between commit
\* and publication, and then they agree on what publication will make of the
\* memory copy: no reader sees a row whose commit failed, no restart brings
\* back an older row, and apply_usage_plan never finds its plan stale.
MemoryMatchesDatabase ==
  LET committed == {w \in Writers : job[w].pc = "committed"} IN
  /\ committed = {} => mem = db
  /\ \A w \in committed :
       Publishable(w) /\ db = Overlay(mem, job[w].next, job[w].scope)

\* A settlement moves quota into used_quota and creates or destroys none of
\* it: what a user has and has used is what the user was given, and a channel has
\* used what events were charged to it, through every reservation, refund,
\* concurrent batch, failed commit and restart, as long as no sum meets the
\* bounds of i64.
QuotaConserved ==
  ~clamped =>
    /\ \A u \in Users : db.users[u].quota + db.users[u].used_quota = granted[u]
    /\ \A c \in Channels : db.channels[c] = spent[c]

\* Admission never overdraws a user: a negative balance is never lower than
\* what settlements charged above their reservations and operators took away.
AdmissionWithinQuota == \A u \in Users : db.users[u].quota >= -overrun[u]

\* What the memory copy serves never changes under the same version, across
\* restarts too: a gateway that polls with since_version misses no change.
VersionedChanges == [][mem' # mem => mem'.version > mem.version]_settlement_vars

\* update_token with status_only leaves the token's remaining quota alone.
StatusOnlyKeepsRemain ==
  \A w \in Writers : Planning(w) /\ job[w].kind = "status_only" =>
    \A t \in TokenIds : mem.tokens[t] # None =>
      AtLeastZero(job[w].next.tokens[t].remain_quota) =
        AtLeastZero(mem.tokens[t].remain_quota)

=============================================================================
