------------------------ MODULE AffinityCacheProofs ------------------------
(***************************************************************************)
(* Proofs about the affinity cache, for any number of threads, keys and    *)
(* shards, any limits and any placement of the keys: the counter follows   *)
(* the map, the cache keeps within its limit, get drops nothing that is    *)
(* live, no threads wait for each other and every call comes closer to     *)
(* its end.                                                                *)
(***************************************************************************)
EXTENDS AffinityCache, FiniteSetTheorems, TLAPS

-----------------------------------------------------------------------------
(***************************************************************************)
(* The affinity cache                                                      *)
(***************************************************************************)

\* Past insertion_lock.
Admitted == {"recheck", "check_count", "evict", "evict_uncount", "insert", "count"}

\* The types with a counter that might go below zero.
CacheTypes ==
  /\ entries \in [CacheKeys -> Nat \cup {NoEntry}]
  /\ shard_lock \in [Shards -> Threads \cup {NoThread}]
  /\ entry_count \in Int
  /\ insertion_lock \in Threads \cup {NoThread}
  /\ eviction_cursor \in Shards
  /\ op \in [Threads -> Op]
  /\ clock \in 0..MaxTime
  /\ \A t \in Threads : ~Idle(t) => op[t].key \in CacheKeys

\* Who holds which lock.
LocksHeld ==
  \A t \in Threads :
    /\ op[t].pc \in Admitted => insertion_lock = t
    /\ op[t].pc \in {"uncount", "count"} => shard_lock[Shard[op[t].key]] = t
    /\ op[t].pc = "evict_uncount" => shard_lock[op[t].at] = t

\* A key that is being admitted is absent until its thread inserts it, and then
\* present until it is counted.
AdmissionAlone ==
  \A t \in Threads :
    /\ op[t].pc \in {"check_count", "evict", "evict_uncount", "insert"} => op[t].key \notin Present
    /\ op[t].pc = "count" => op[t].key \in Present

\* s is one of the left shards from at on, going round.
Ahead(s, at, left) ==
  IF at + left <= ShardCount THEN at <= s /\ s < at + left
                             ELSE at <= s \/ s < at + left - ShardCount

\* There is room for another entry under one of the limits.
Room == \E limit \in Limits : Cardinality(Present) < AtLeastOneOf(limit)

\* A thread goes by one of the limits; one that evicts leaves empty shards behind
\* it; one that inserts has room.
RoomMade(t) ==
  /\ op[t].pc \in {"admit", "recheck", "check_count"} =>
       \E limit \in Limits : op[t].limit = AtLeastOneOf(limit)
  /\ op[t].pc = "evict" => \A k \in Present : Ahead(Shard[k], op[t].at, op[t].left)
  /\ op[t].pc \in {"evict_uncount", "insert"} => Room

\* Every thread that inserts has room.
RoomIsMade == \A t \in Threads : RoomMade(t)

\* The inductive invariant.
CacheInv ==
  CacheTypes /\ LocksHeld /\ AdmissionAlone /\ CountIsExact /\ RoomIsMade /\ CapacityBounded

-----------------------------------------------------------------------------
\* The sets that are counted are finite.
LEMMA CountedAreFinite ==
  /\ IsFiniteSet(Present) /\ IsFiniteSet(Uncounting) /\ IsFiniteSet(Counting)
  /\ Cardinality(Present) \in Nat
  /\ Cardinality(Uncounting) \in Nat /\ Cardinality(Counting) \in Nat
<1>1. Present \in SUBSET CacheKeys /\ Uncounting \in SUBSET Threads /\ Counting \in SUBSET Threads
  BY Zenon DEF Present, Uncounting, Counting
<1> HIDE DEF Present, Uncounting, Counting
<1>2. IsFiniteSet(Present) /\ IsFiniteSet(Uncounting) /\ IsFiniteSet(Counting)
  BY Zenon, <1>1, FS_Subset, AffinityCacheAssumption
<1> QED BY Zenon, <1>2, FS_CardinalityType

\* The cache starts empty.
LEMMA CacheInitInv == AffinityInit => CacheInv
<1> SUFFICES ASSUME AffinityInit PROVE CacheInv
  BY Zenon
<1> USE AffinityCacheAssumption DEF AffinityInit
<1>1. \A t \in Threads : op[t] = IdleOp /\ IdleOp.pc = "idle"
  BY Zenon DEF IdleOp
<1>2. IdleOp \in Op
  BY DEF IdleOp, Op, Places, Shards
<1>3. CacheTypes
  BY <1>1, <1>2 DEF CacheTypes, Shards, Idle
<1>4. Present = {} /\ Uncounting = {} /\ Counting = {}
  BY Zenon, <1>1 DEF Present, Uncounting, Counting
<1>5. CountIsExact
  BY Zenon, <1>4, FS_EmptySet DEF CountIsExact
<1>6. CapacityBounded
  <2>1. PICK limit \in Limits : limit \in Nat
    BY Zenon
  <2>2. 0 <= AtLeastOneOf(limit)
    BY <2>1 DEF AtLeastOneOf
  <2> QED BY Zenon, <1>4, <2>2, FS_EmptySet DEF CapacityBounded
<1>7. LocksHeld /\ AdmissionAlone /\ RoomIsMade
  BY Zenon, <1>1 DEF LocksHeld, AdmissionAlone, RoomIsMade, RoomMade, Admitted
<1> QED BY Zenon, <1>3, <1>5, <1>6, <1>7 DEF CacheInv

-----------------------------------------------------------------------------
\* How a step may change the map: by nothing, by an entry that thread t takes out
\* and still has to uncount, or by one that t puts in and still has to count.
\* How it may change the counter: t settles what it owes.
Keeps == Present' = Present
Removes(t) ==
  \E k \in Present :
    /\ Present' = Present \ {k}
    /\ op[t].pc \notin {"uncount", "evict_uncount", "count"}
    /\ op'[t].pc \in {"uncount", "evict_uncount"}
    /\ entry_count' = entry_count

Adds(t) ==
  /\ op[t].key \notin Present
  /\ Present' = Present \cup {op[t].key}
  /\ op[t].pc = "insert" /\ op'[t].pc = "count"
  /\ entry_count' = entry_count

Uncounts(t) ==
  /\ Keeps
  /\ op[t].pc \in {"uncount", "evict_uncount"}
  /\ op'[t].pc \notin {"uncount", "evict_uncount", "count"}
  /\ entry_count' = entry_count - 1

Counts(t) ==
  /\ Keeps
  /\ op[t].pc = "count"
  /\ op'[t].pc \notin {"uncount", "evict_uncount", "count"}
  /\ entry_count' = entry_count + 1

CountsNothing(t) ==
  /\ Keeps
  /\ op[t].pc \notin {"uncount", "evict_uncount", "count"}
  /\ op'[t].pc \notin {"uncount", "evict_uncount", "count"}
  /\ entry_count' = entry_count

OthersStay(t) == \A u \in Threads \ {t} : op'[u] = op[u]

Shape(t) ==
  Removes(t) \/ Adds(t) \/ Uncounts(t) \/ Counts(t) \/ CountsNothing(t)

\* What moving on, and ending a call, leave of op.
LEMMA GotoShape ==
  ASSUME CacheTypes, NEW t \in Threads, NEW pc \in Places, Goto(t, pc)
  PROVE  /\ op' \in [Threads -> Op] /\ OthersStay(t)
         /\ op'[t].pc = pc /\ op'[t].key = op[t].key /\ op'[t].at = op[t].at
         /\ op'[t].left = op[t].left /\ op'[t].limit = op[t].limit
  BY Zenon DEF CacheTypes, Goto, Op, OthersStay

LEMMA IdleOpShape == IdleOp \in Op /\ IdleOp.pc = "idle"
  BY AffinityCacheAssumption DEF IdleOp, Op, Places, Shards

LEMMA FinishedShape ==
  ASSUME CacheTypes, NEW t \in Threads, Finished(t)
  PROVE  op' \in [Threads -> Op] /\ OthersStay(t) /\ op'[t].pc = "idle"
<1>1. IdleOp \in Op /\ IdleOp.pc = "idle"
  BY Zenon, IdleOpShape
<1> QED BY Zenon, <1>1 DEF CacheTypes, Finished, OthersStay

\* Taking an entry out of the map.
LEMMA RemoveShape ==
  ASSUME CacheTypes, NEW t \in Threads, NEW k \in Present, Remove(k, t)
  PROVE  /\ entries' \in [CacheKeys -> Nat \cup {NoEntry}]
         /\ shard_lock' \in [Shards -> Threads \cup {NoThread}]
         /\ k \in CacheKeys /\ Shard[k] \in Shards
         /\ Present' = Present \ {k}
         /\ shard_lock'[Shard[k]] = t
         /\ \A s \in Shards : s # Shard[k] => shard_lock'[s] = shard_lock[s]
  BY Zenon, AffinityCacheAssumption DEF CacheTypes, Remove, Lock, Present

\* Storing an expiry for a key.
LEMMA StoreShape ==
  ASSUME CacheTypes, NEW k \in CacheKeys, NEW expires \in Nat,
         entries' = [entries EXCEPT ![k] = expires]
  PROVE  /\ entries' \in [CacheKeys -> Nat \cup {NoEntry}]
         /\ Present' = Present \cup {k}
  BY Zenon, AffinityCacheAssumption DEF CacheTypes, Present

\* Locking and unlocking a shard.
LEMMA LockShape ==
  ASSUME CacheTypes, NEW s \in Shards, NEW h \in Threads \cup {NoThread}, Lock(s, h)
  PROVE  /\ shard_lock' \in [Shards -> Threads \cup {NoThread}]
         /\ shard_lock'[s] = h
         /\ \A r \in Shards : r # s => shard_lock'[r] = shard_lock[r]
  BY Zenon DEF CacheTypes, Lock

-----------------------------------------------------------------------------
\* The part of the invariant that says who may do what, and what each action does
\* to the map and the counter.
LockInv == CacheTypes /\ LocksHeld /\ AdmissionAlone

StepsRight(t) == LockInv' /\ OthersStay(t) /\ Shape(t)

\* Beginning a call with a new record.
LEMMA BeginShape ==
  ASSUME CacheTypes, NEW t \in Threads, NEW o \in Op, op' = [op EXCEPT ![t] = o]
  PROVE  op' \in [Threads -> Op] /\ OthersStay(t) /\ op'[t] = o
  BY Zenon DEF CacheTypes, OthersStay

LEMMA GetStep ==
  ASSUME LockInv, NEW t \in Threads, NEW k \in CacheKeys, NEW now \in 0..clock, Get(t, k, now)
  PROVE  StepsRight(t)
<1> USE DEF LockInv, Get, Idle
<1> DEFINE o == [IdleOp EXCEPT !.pc = "get_write", !.key = k, !.now = now]
<1>a. o \in Op /\ o.pc = "get_write" /\ o.key = k
  <2>1. now \in Nat
    BY AffinityCacheAssumption DEF CacheTypes
  <2> QED BY Zenon, <2>1, IdleOpShape DEF Op, Places
<1>b. op' = [op EXCEPT ![t] = o]
  BY Zenon
<1> HIDE DEF o
<1>1. op' \in [Threads -> Op] /\ OthersStay(t) /\ op'[t].pc = "get_write" /\ op'[t].key = k
  BY Zenon, <1>a, <1>b, BeginShape
<1>2. CacheTypes'
  BY Zenon, <1>1 DEF CacheTypes, OthersStay
<1>3. Present' = Present
  BY Zenon DEF Present
<1>4. LocksHeld' /\ AdmissionAlone'
  BY Zenon, <1>1, <1>3 DEF LocksHeld, AdmissionAlone, OthersStay, Admitted
<1>5. CountsNothing(t)
  BY Zenon, <1>1, <1>3 DEF CountsNothing, Keeps
<1> QED BY Zenon, <1>1, <1>2, <1>4, <1>5 DEF StepsRight, Shape

LEMMA GetWriteStep ==
  ASSUME LockInv, NEW t \in Threads, GetWrite(t)
  PROVE  StepsRight(t)
<1> USE DEF LockInv
<1>0. op[t].pc = "get_write" /\ op[t].key \in CacheKeys
  BY Zenon DEF GetWrite, CacheTypes, Idle
<1>1. CASE op[t].key \in Present /\ Remove(op[t].key, t) /\ Goto(t, "uncount")
  <2>1. /\ op' \in [Threads -> Op] /\ OthersStay(t)
        /\ op'[t].pc = "uncount" /\ op'[t].key = op[t].key
    BY Zenon, <1>1, GotoShape DEF Places
  <2>2. /\ entries' \in [CacheKeys -> Nat \cup {NoEntry}]
        /\ shard_lock' \in [Shards -> Threads \cup {NoThread}]
        /\ Present' = Present \ {op[t].key}
        /\ shard_lock'[Shard[op[t].key]] = t
        /\ \A s \in Shards : s # Shard[op[t].key] => shard_lock'[s] = shard_lock[s]
    BY Zenon, <1>1, RemoveShape
  <2>3. CacheTypes'
    BY Zenon, <1>0, <2>1, <2>2 DEF CacheTypes, OthersStay, GetWrite, Idle
  <2>4. LocksHeld'
    BY <1>0, <2>1, <2>2, AffinityCacheAssumption
    DEF LocksHeld, OthersStay, Admitted, GetWrite, Unlocked, CacheTypes, Op, Idle
  <2>5. AdmissionAlone'
    BY <1>0, <2>1, <2>2, AffinityCacheAssumption
    DEF AdmissionAlone, LocksHeld, OthersStay, GetWrite, Unlocked
  <2>6. Removes(t)
    BY Zenon, <1>0, <1>1, <2>1, <2>2 DEF Removes, GetWrite
  <2> QED BY Zenon, <2>1, <2>3, <2>4, <2>5, <2>6 DEF StepsRight, Shape
<1>2. CASE Finished(t) /\ UNCHANGED <<entries, shard_lock>>
  <2>1. op' \in [Threads -> Op] /\ OthersStay(t) /\ op'[t].pc = "idle"
    BY Zenon, <1>2, FinishedShape
  <2>2. Present' = Present
    BY Zenon, <1>2 DEF Present
  <2>3. CacheTypes'
    BY Zenon, <1>2, <2>1 DEF CacheTypes, OthersStay, GetWrite, Idle
  <2>4. LocksHeld' /\ AdmissionAlone'
    BY Zenon, <1>2, <2>1, <2>2 DEF LocksHeld, AdmissionAlone, OthersStay, Admitted, GetWrite
  <2>5. CountsNothing(t)
    BY Zenon, <1>0, <2>1, <2>2 DEF CountsNothing, Keeps, GetWrite
  <2> QED BY Zenon, <2>1, <2>3, <2>4, <2>5 DEF StepsRight, Shape
<1> QED BY Zenon, <1>1, <1>2 DEF GetWrite

LEMMA ClearStep ==
  ASSUME LockInv, NEW t \in Threads, NEW k \in CacheKeys, Clear(t, k)
  PROVE  StepsRight(t)
<1> USE DEF LockInv, Clear, Idle
<1> DEFINE o == [IdleOp EXCEPT !.pc = "uncount", !.key = k]
<1>a. o \in Op /\ o.pc = "uncount" /\ o.key = k
  BY Zenon, IdleOpShape DEF Op, Places
<1>b. op' = [op EXCEPT ![t] = o]
  BY Zenon
<1> HIDE DEF o
<1>1. op' \in [Threads -> Op] /\ OthersStay(t) /\ op'[t].pc = "uncount" /\ op'[t].key = k
  BY Zenon, <1>a, <1>b, BeginShape
<1>2. /\ entries' \in [CacheKeys -> Nat \cup {NoEntry}]
      /\ shard_lock' \in [Shards -> Threads \cup {NoThread}]
      /\ Present' = Present \ {k}
      /\ shard_lock'[Shard[k]] = t
      /\ \A s \in Shards : s # Shard[k] => shard_lock'[s] = shard_lock[s]
  BY Zenon, RemoveShape
<1>3. CacheTypes'
  BY Zenon, <1>1, <1>2 DEF CacheTypes, OthersStay
<1>4. LocksHeld'
  BY <1>1, <1>2, AffinityCacheAssumption
  DEF LocksHeld, OthersStay, Admitted, Unlocked, CacheTypes, Op
<1>5. AdmissionAlone'
  BY ZenonT(30), <1>1, <1>2, AffinityCacheAssumption DEF AdmissionAlone, LocksHeld, OthersStay, Unlocked
<1>6. Removes(t)
  BY Zenon, <1>1, <1>2 DEF Removes
<1> QED BY Zenon, <1>1, <1>3, <1>4, <1>5, <1>6 DEF StepsRight, Shape

LEMMA UncountStep ==
  ASSUME LockInv, NEW t \in Threads, Uncount(t)
  PROVE  StepsRight(t)
<1> USE DEF LockInv, Uncount
<1>0. op[t].key \in CacheKeys /\ Shard[op[t].key] \in Shards
  BY Zenon, AffinityCacheAssumption DEF CacheTypes, Idle
<1>1. op' \in [Threads -> Op] /\ OthersStay(t) /\ op'[t].pc = "idle"
  BY Zenon, FinishedShape
<1>2. /\ shard_lock' \in [Shards -> Threads \cup {NoThread}]
      /\ \A s \in Shards : s # Shard[op[t].key] => shard_lock'[s] = shard_lock[s]
  BY Zenon, <1>0, LockShape
<1>3. Present' = Present
  BY Zenon DEF Present
<1>4. CacheTypes'
  BY <1>1, <1>2 DEF CacheTypes, OthersStay, Idle
<1>5. LocksHeld'
  BY <1>0, <1>1, <1>2, AffinityCacheAssumption
  DEF LocksHeld, OthersStay, Admitted, CacheTypes, Op, Idle
<1>6. AdmissionAlone'
  BY Zenon, <1>1, <1>3 DEF AdmissionAlone, OthersStay
<1>7. Uncounts(t)
  BY Zenon, <1>1, <1>3 DEF Uncounts, Keeps
<1> QED BY Zenon, <1>1, <1>4, <1>5, <1>6, <1>7 DEF StepsRight, Shape

LEMMA RecordStep ==
  ASSUME LockInv, NEW t \in Threads, NEW k \in CacheKeys, NEW ttl \in Ttls, NEW limit \in Limits,
         NEW now \in 0..clock, Record(t, k, ttl, limit, now)
  PROVE  StepsRight(t)
<1> USE DEF LockInv, Record, Idle
<1>0. /\ now + AtLeastOneOf(ttl) \in Nat /\ AtLeastOneOf(limit) \in Nat
  BY AffinityCacheAssumption DEF CacheTypes, AtLeastOneOf
<1>1. CASE k \in Present /\ entries' = [entries EXCEPT ![k] = now + AtLeastOneOf(ttl)] /\ UNCHANGED op
  <2>0. entries' \in [CacheKeys -> Nat \cup {NoEntry}] /\ Present' = Present \cup {k}
    BY Zenon, <1>0, <1>1, StoreShape
  <2>1. entries' \in [CacheKeys -> Nat \cup {NoEntry}] /\ Present' = Present
    BY <1>1, <2>0, Zenon
  <2>2. CacheTypes' /\ OthersStay(t)
    BY Zenon, <1>1, <2>1 DEF CacheTypes, OthersStay
  <2>3. LocksHeld' /\ AdmissionAlone'
    BY Zenon, <1>1, <2>1 DEF LocksHeld, AdmissionAlone
  <2>4. CountsNothing(t)
    BY Zenon, <1>1, <2>1 DEF CountsNothing, Keeps
  <2> QED BY Zenon, <2>2, <2>3, <2>4 DEF StepsRight, Shape
<1> DEFINE o == [IdleOp EXCEPT !.pc = "admit", !.key = k, !.limit = AtLeastOneOf(limit),
                               !.expires = now + AtLeastOneOf(ttl)]
<1>2. CASE k \notin Present /\ op' = [op EXCEPT ![t] = o] /\ UNCHANGED entries
  <2>a. o \in Op /\ o.pc = "admit" /\ o.key = k
    BY Zenon, <1>0, IdleOpShape DEF Op, Places
  <2>b. op' = [op EXCEPT ![t] = o]
    BY Zenon, <1>2
  <2> HIDE DEF o
  <2>1. op' \in [Threads -> Op] /\ OthersStay(t) /\ op'[t].pc = "admit" /\ op'[t].key = k
    BY Zenon, <2>a, <2>b, BeginShape
  <2>2. Present' = Present
    BY Zenon, <1>2 DEF Present
  <2>3. CacheTypes'
    BY Zenon, <1>2, <2>1 DEF CacheTypes, OthersStay
  <2>4. LocksHeld' /\ AdmissionAlone'
    BY Zenon, <2>1, <2>2 DEF LocksHeld, AdmissionAlone, OthersStay, Admitted
  <2>5. CountsNothing(t)
    BY Zenon, <2>1, <2>2 DEF CountsNothing, Keeps
  <2> QED BY Zenon, <2>1, <2>3, <2>4, <2>5 DEF StepsRight, Shape
<1> QED BY Zenon, <1>1, <1>2

LEMMA AdmitStep ==
  ASSUME LockInv, NEW t \in Threads, Admit(t)
  PROVE  StepsRight(t)
<1> USE DEF LockInv, Admit
<1>1. /\ op' \in [Threads -> Op] /\ OthersStay(t)
      /\ op'[t].pc = "recheck" /\ op'[t].key = op[t].key
  BY Zenon, GotoShape DEF Places
<1>2. Present' = Present
  BY Zenon DEF Present
<1>3. CacheTypes'
  BY Zenon, <1>1 DEF CacheTypes, OthersStay, Idle
<1>4. LocksHeld'
  BY Zenon, <1>1, AffinityCacheAssumption DEF LocksHeld, OthersStay, Admitted
<1>5. AdmissionAlone'
  BY Zenon, <1>1, <1>2 DEF AdmissionAlone, OthersStay
<1>6. CountsNothing(t)
  BY Zenon, <1>1, <1>2 DEF CountsNothing, Keeps
<1> QED BY Zenon, <1>1, <1>3, <1>4, <1>5, <1>6 DEF StepsRight, Shape

LEMMA RecheckStep ==
  ASSUME LockInv, NEW t \in Threads, Recheck(t)
  PROVE  StepsRight(t)
<1> USE DEF LockInv
<1>0. op[t].pc = "recheck" /\ op[t].key \in CacheKeys /\ op[t].expires \in Nat
  BY Zenon DEF Recheck, CacheTypes, Idle, Op
<1>1. CASE /\ op[t].key \in Present
           /\ entries' = [entries EXCEPT ![op[t].key] = op[t].expires]
           /\ insertion_lock' = NoThread
           /\ Finished(t)
  <2>1. op' \in [Threads -> Op] /\ OthersStay(t) /\ op'[t].pc = "idle"
    BY Zenon, <1>1, FinishedShape
  <2>0. entries' \in [CacheKeys -> Nat \cup {NoEntry}] /\ Present' = Present \cup {op[t].key}
    BY Zenon, <1>0, <1>1, StoreShape
  <2>2. entries' \in [CacheKeys -> Nat \cup {NoEntry}] /\ Present' = Present
    BY <1>1, <2>0, Zenon
  <2>3. CacheTypes'
    BY Zenon, <1>1, <2>1, <2>2 DEF CacheTypes, OthersStay, Recheck, Idle
  <2>4. LocksHeld'
    BY Zenon, <1>0, <2>1 DEF LocksHeld, OthersStay, Admitted, Recheck
  <2>5. AdmissionAlone'
    BY Zenon, <2>1, <2>2 DEF AdmissionAlone, OthersStay
  <2>6. CountsNothing(t)
    BY Zenon, <1>0, <2>1, <2>2 DEF CountsNothing, Keeps, Recheck
  <2> QED BY Zenon, <2>1, <2>3, <2>4, <2>5, <2>6 DEF StepsRight, Shape
<1>2. CASE /\ op[t].key \notin Present
           /\ Goto(t, "check_count")
           /\ UNCHANGED <<entries, insertion_lock>>
  <2>1. /\ op' \in [Threads -> Op] /\ OthersStay(t)
        /\ op'[t].pc = "check_count" /\ op'[t].key = op[t].key
    BY Zenon, <1>2, GotoShape DEF Places
  <2>2. Present' = Present
    BY Zenon, <1>2 DEF Present
  <2>3. CacheTypes'
    BY Zenon, <1>0, <1>2, <2>1 DEF CacheTypes, OthersStay, Recheck, Idle
  <2>4. LocksHeld'
    BY Zenon, <1>0, <1>2, <2>1 DEF LocksHeld, OthersStay, Admitted, Recheck
  <2>5. AdmissionAlone'
    BY Zenon, <1>2, <2>1, <2>2 DEF AdmissionAlone, OthersStay
  <2>6. CountsNothing(t)
    BY Zenon, <1>0, <2>1, <2>2 DEF CountsNothing, Keeps, Recheck
  <2> QED BY Zenon, <2>1, <2>3, <2>4, <2>5, <2>6 DEF StepsRight, Shape
<1> QED BY Zenon, <1>1, <1>2 DEF Recheck

LEMMA NextShardShape == \A s \in Shards : NextShard(s) \in Shards
  BY AffinityCacheAssumption DEF NextShard, Shards

LEMMA CheckCountStep ==
  ASSUME LockInv, NEW t \in Threads, CheckCount(t)
  PROVE  /\ StepsRight(t)
         /\ \/ /\ op'[t].pc = "evict"
               /\ op'[t].at = eviction_cursor /\ op'[t].left = ShardCount
            \/ op'[t].pc = "insert" /\ ~Full(t)
<1> USE DEF LockInv
<1>0. op[t].pc = "check_count" /\ op[t].key \in CacheKeys /\ Present' = Present
  BY Zenon DEF CheckCount, CacheTypes, Idle, Present
<1>1. /\ op' \in [Threads -> Op] /\ OthersStay(t) /\ op'[t].key = op[t].key
      /\ eviction_cursor' \in Shards
      /\ \/ /\ op'[t].pc = "evict"
            /\ op'[t].at = eviction_cursor /\ op'[t].left = ShardCount
         \/ op'[t].pc = "insert" /\ ~Full(t)
  <2>1. CASE Full(t)
    <3> DEFINE o == [op[t] EXCEPT !.pc = "evict", !.at = eviction_cursor, !.left = ShardCount]
    <3>1. /\ o \in Op /\ o.pc = "evict" /\ o.key = op[t].key
          /\ o.at = eviction_cursor /\ o.left = ShardCount
      <4>1. op[t] \in Op /\ eviction_cursor \in Shards /\ ShardCount \in 0..ShardCount
        BY AffinityCacheAssumption DEF CacheTypes
      <4> QED BY Zenon, <4>1 DEF Op, Places
    <3>2. op' = [op EXCEPT ![t] = o] /\ eviction_cursor' = NextShard(eviction_cursor)
      BY Zenon, <2>1 DEF CheckCount
    <3>3. eviction_cursor' \in Shards
      BY Zenon, <3>2, NextShardShape DEF CacheTypes
    <3> HIDE DEF o
    <3> QED BY Zenon, <3>1, <3>2, <3>3, BeginShape
  <2>2. CASE ~Full(t)
    BY Zenon, <2>2, GotoShape DEF CheckCount, Places, CacheTypes
  <2> QED BY Zenon, <2>1, <2>2
<1>2. CacheTypes'
  BY Zenon, <1>0, <1>1 DEF CacheTypes, OthersStay, CheckCount, Idle
<1>3. LocksHeld'
  BY Zenon, <1>0, <1>1 DEF LocksHeld, OthersStay, Admitted, CheckCount
<1>4. AdmissionAlone'
  BY Zenon, <1>0, <1>1 DEF AdmissionAlone, OthersStay
<1>5. CountsNothing(t)
  BY Zenon, <1>0, <1>1 DEF CountsNothing, Keeps, CheckCount
<1> QED BY Zenon, <1>1, <1>2, <1>3, <1>4, <1>5 DEF StepsRight, Shape

LEMMA EvictStep ==
  ASSUME LockInv, NEW t \in Threads, Evict(t)
  PROVE  /\ StepsRight(t)
         /\ \/ op'[t].pc = "insert" /\ op[t].left = 0
            \/ /\ op'[t].pc = "evict" /\ op[t].left > 0 /\ InShard(op[t].at) = {}
               /\ op'[t].at = NextShard(op[t].at) /\ op'[t].left = op[t].left - 1
            \/ op'[t].pc = "evict_uncount"
<1> USE DEF LockInv
<1>0. /\ op[t].pc = "evict" /\ op[t].key \in CacheKeys
      /\ op[t].at \in Shards /\ op[t].left \in 0..ShardCount
  BY Zenon DEF Evict, CacheTypes, Idle, Op
<1>1. CASE op[t].left = 0 /\ Goto(t, "insert") /\ UNCHANGED <<entries, shard_lock>>
  <2>1. /\ op' \in [Threads -> Op] /\ OthersStay(t)
        /\ op'[t].pc = "insert" /\ op'[t].key = op[t].key
    BY Zenon, <1>1, GotoShape DEF Places
  <2>2. Present' = Present
    BY Zenon, <1>1 DEF Present
  <2>3. CacheTypes'
    BY Zenon, <1>0, <1>1, <2>1 DEF CacheTypes, OthersStay, Evict, Idle
  <2>4. LocksHeld'
    BY Zenon, <1>0, <1>1, <2>1 DEF LocksHeld, OthersStay, Admitted, Evict
  <2>5. AdmissionAlone'
    BY Zenon, <1>0, <2>1, <2>2 DEF AdmissionAlone, OthersStay
  <2>6. CountsNothing(t)
    BY Zenon, <1>0, <2>1, <2>2 DEF CountsNothing, Keeps, Evict
  <2> QED BY Zenon, <1>1, <2>1, <2>3, <2>4, <2>5, <2>6 DEF StepsRight, Shape
<1> DEFINE o == [op[t] EXCEPT !.at = NextShard(op[t].at), !.left = op[t].left - 1]
<1>2. CASE /\ op[t].left > 0 /\ InShard(op[t].at) = {}
           /\ op' = [op EXCEPT ![t] = o]
           /\ UNCHANGED <<entries, shard_lock>>
  <2>a. /\ o \in Op /\ o.pc = op[t].pc /\ o.key = op[t].key
        /\ o.at = NextShard(op[t].at) /\ o.left = op[t].left - 1
    <3>1. NextShard(op[t].at) \in Shards /\ op[t].left - 1 \in 0..ShardCount
      BY <1>0, <1>2, NextShardShape, AffinityCacheAssumption
    <3> QED BY Zenon, <3>1 DEF CacheTypes, Op
  <2>b. op' = [op EXCEPT ![t] = o]
    BY Zenon, <1>2
  <2> HIDE DEF o
  <2>1. /\ op' \in [Threads -> Op] /\ OthersStay(t)
        /\ op'[t].pc = "evict" /\ op'[t].key = op[t].key
        /\ op'[t].at = NextShard(op[t].at) /\ op'[t].left = op[t].left - 1
    BY Zenon, <1>0, <2>a, <2>b, BeginShape
  <2>2. Present' = Present
    BY Zenon, <1>2 DEF Present
  <2>3. CacheTypes'
    BY Zenon, <1>0, <1>2, <2>1 DEF CacheTypes, OthersStay, Evict, Idle
  <2>4. LocksHeld'
    BY Zenon, <1>0, <1>2, <2>1 DEF LocksHeld, OthersStay, Admitted, Evict
  <2>5. AdmissionAlone'
    BY Zenon, <1>0, <2>1, <2>2 DEF AdmissionAlone, OthersStay
  <2>6. CountsNothing(t)
    BY Zenon, <1>0, <2>1, <2>2 DEF CountsNothing, Keeps, Evict
  <2> QED BY Zenon, <1>2, <2>1, <2>3, <2>4, <2>5, <2>6 DEF StepsRight, Shape
<1>3. ASSUME NEW k \in Victims(op[t].at), shard_lock[op[t].at] = NoThread,
             Remove(k, t), Goto(t, "evict_uncount")
      PROVE  StepsRight(t) /\ op'[t].pc = "evict_uncount"
  <2>0. k \in Present /\ k \in CacheKeys /\ Shard[k] = op[t].at
    BY Zenon, <1>3 DEF Victims, InShard, Present
  <2>1. /\ op' \in [Threads -> Op] /\ OthersStay(t) /\ op'[t].pc = "evict_uncount"
        /\ op'[t].key = op[t].key /\ op'[t].at = op[t].at
    BY Zenon, <1>3, GotoShape DEF Places
  <2>2. /\ entries' \in [CacheKeys -> Nat \cup {NoEntry}]
        /\ shard_lock' \in [Shards -> Threads \cup {NoThread}]
        /\ Present' = Present \ {k}
        /\ shard_lock'[op[t].at] = t
        /\ \A s \in Shards : s # op[t].at => shard_lock'[s] = shard_lock[s]
    BY Zenon, <1>3, <2>0, RemoveShape
  <2>3. CacheTypes'
    BY Zenon, <1>0, <2>1, <2>2 DEF CacheTypes, OthersStay, Evict, Idle
  <2>4. LocksHeld'
    BY <1>0, <1>3, <2>1, <2>2, AffinityCacheAssumption
    DEF LocksHeld, OthersStay, Admitted, Evict, CacheTypes, Op, Idle
  <2>5. AdmissionAlone'
    BY <1>0, <1>3, <2>0, <2>1, <2>2, AffinityCacheAssumption
    DEF AdmissionAlone, LocksHeld, OthersStay
  <2>6. Removes(t)
    BY Zenon, <1>0, <2>0, <2>1, <2>2 DEF Removes, Evict
  <2> QED BY Zenon, <2>1, <2>3, <2>4, <2>5, <2>6 DEF StepsRight, Shape
<1> QED BY Zenon, <1>1, <1>2, <1>3 DEF Evict

LEMMA EvictUncountStep ==
  ASSUME LockInv, NEW t \in Threads, EvictUncount(t)
  PROVE  StepsRight(t)
<1> USE DEF LockInv, EvictUncount
<1>0. op[t].key \in CacheKeys /\ op[t].at \in Shards /\ Present' = Present
  BY Zenon DEF CacheTypes, Idle, Op, Present
<1>1. /\ op' \in [Threads -> Op] /\ OthersStay(t)
      /\ op'[t].pc = "insert" /\ op'[t].key = op[t].key
  BY Zenon, GotoShape DEF Places
<1>2. /\ shard_lock' \in [Shards -> Threads \cup {NoThread}]
      /\ \A s \in Shards : s # op[t].at => shard_lock'[s] = shard_lock[s]
  BY Zenon, <1>0, LockShape
<1>3. CacheTypes'
  BY <1>0, <1>1, <1>2 DEF CacheTypes, OthersStay, Idle
<1>4. LocksHeld'
  BY <1>0, <1>1, <1>2, AffinityCacheAssumption
  DEF LocksHeld, OthersStay, Admitted, CacheTypes, Op, Idle
<1>5. AdmissionAlone'
  BY Zenon, <1>0, <1>1 DEF AdmissionAlone, OthersStay
<1>6. Uncounts(t)
  BY Zenon, <1>0, <1>1 DEF Uncounts, Keeps
<1> QED BY Zenon, <1>1, <1>3, <1>4, <1>5, <1>6 DEF StepsRight, Shape

LEMMA InsertStep ==
  ASSUME LockInv, NEW t \in Threads, Insert(t)
  PROVE  StepsRight(t)
<1> USE DEF LockInv, Insert
<1>0. /\ op[t].key \in CacheKeys /\ op[t].expires \in Nat /\ Shard[op[t].key] \in Shards
      /\ op[t].key \notin Present
  BY Zenon, AffinityCacheAssumption DEF CacheTypes, Idle, Op, AdmissionAlone
<1>1. /\ op' \in [Threads -> Op] /\ OthersStay(t)
      /\ op'[t].pc = "count" /\ op'[t].key = op[t].key
  BY Zenon, GotoShape DEF Places
<1>2. entries' \in [CacheKeys -> Nat \cup {NoEntry}] /\ Present' = Present \cup {op[t].key}
  BY Zenon, <1>0, StoreShape
<1>3. /\ shard_lock' \in [Shards -> Threads \cup {NoThread}]
      /\ shard_lock'[Shard[op[t].key]] = t
      /\ \A s \in Shards : s # Shard[op[t].key] => shard_lock'[s] = shard_lock[s]
  BY Zenon, <1>0, LockShape
<1>4. CacheTypes'
  BY Zenon, <1>0, <1>1, <1>2, <1>3 DEF CacheTypes, OthersStay, Idle
<1>5. LocksHeld'
  <2> SUFFICES ASSUME NEW u \in Threads
               PROVE  /\ op'[u].pc \in Admitted => insertion_lock' = u
                      /\ op'[u].pc \in {"uncount", "count"} => shard_lock'[Shard[op'[u].key]] = u
                      /\ op'[u].pc = "evict_uncount" => shard_lock'[op'[u].at] = u
    BY Zenon DEF LocksHeld
  <2>1. CASE u = t
    BY Zenon, <1>1, <1>3, <2>1 DEF LocksHeld, Admitted
  <2>2. CASE u # t
    <3>1. op'[u] = op[u] /\ op[u] \in Op /\ u # NoThread /\ op[u].at \in Shards
      BY Zenon, <1>1, <2>2, AffinityCacheAssumption DEF OthersStay, CacheTypes, Op
    <3>2. op[u].pc \in {"uncount", "count"} => Shard[op[u].key] \in Shards
      BY Zenon, AffinityCacheAssumption DEF CacheTypes, Idle
    <3> QED BY Zenon, <1>3, <3>1, <3>2 DEF LocksHeld, Unlocked
  <2> QED BY Zenon, <2>1, <2>2
<1>6. AdmissionAlone'
  <2>1. \A u \in Threads \ {t} : op[u].pc \notin Admitted
    BY Zenon DEF LocksHeld, Admitted
  <2> QED BY <1>0, <1>1, <1>2, <2>1 DEF AdmissionAlone, OthersStay, Admitted
<1>7. Adds(t)
  BY Zenon, <1>0, <1>1, <1>2 DEF Adds
<1> QED BY Zenon, <1>1, <1>4, <1>5, <1>6, <1>7 DEF StepsRight, Shape

LEMMA CountInsertedStep ==
  ASSUME LockInv, NEW t \in Threads, CountInserted(t)
  PROVE  StepsRight(t)
<1> USE DEF LockInv, CountInserted
<1>0. op[t].key \in CacheKeys /\ Shard[op[t].key] \in Shards /\ Present' = Present
  BY Zenon, AffinityCacheAssumption DEF CacheTypes, Idle, Present
<1>1. op' \in [Threads -> Op] /\ OthersStay(t) /\ op'[t].pc = "idle"
  BY Zenon, FinishedShape
<1>2. /\ shard_lock' \in [Shards -> Threads \cup {NoThread}]
      /\ \A s \in Shards : s # Shard[op[t].key] => shard_lock'[s] = shard_lock[s]
  BY Zenon, <1>0, LockShape
<1>3. CacheTypes'
  BY <1>1, <1>2 DEF CacheTypes, OthersStay, Idle
<1>4. LocksHeld'
  BY <1>0, <1>1, <1>2, AffinityCacheAssumption
  DEF LocksHeld, OthersStay, Admitted, CacheTypes, Op, Idle
<1>5. AdmissionAlone'
  BY Zenon, <1>0, <1>1 DEF AdmissionAlone, OthersStay
<1>6. Counts(t)
  BY Zenon, <1>0, <1>1 DEF Counts, Keeps
<1> QED BY Zenon, <1>1, <1>3, <1>4, <1>5, <1>6 DEF StepsRight, Shape

LEMMA ThreadStep ==
  ASSUME LockInv, NEW t \in Threads, Call(t) \/ Continue(t)
  PROVE  StepsRight(t)
  BY Zenon, GetStep, ClearStep, RecordStep, GetWriteStep, UncountStep, AdmitStep, RecheckStep,
     CheckCountStep, EvictStep, EvictUncountStep, InsertStep, CountInsertedStep
  DEF Call, Continue

-----------------------------------------------------------------------------
\* What the shapes do to the counted sets.
LEMMA CountStep ==
  ASSUME LockInv, LockInv', CountIsExact, NEW t \in Threads, OthersStay(t), Shape(t)
  PROVE  /\ CountIsExact'
         /\ ~Adds(t) => Present' \subseteq Present /\ Cardinality(Present') <= Cardinality(Present)
         /\ Removes(t) => Cardinality(Present') < Cardinality(Present)
         /\ Adds(t) => Cardinality(Present') = Cardinality(Present) + 1
<1> USE CountedAreFinite
<1>0. /\ entry_count \in Int
      /\ \A u \in Threads : u # t => op'[u].pc = op[u].pc
  BY Zenon DEF LockInv, CacheTypes, OthersStay
<1>1. CASE Removes(t)
  <2>1. PICK k \in Present : Present' = Present \ {k}
    BY Zenon, <1>1 DEF Removes
  <2>2. Cardinality(Present') = Cardinality(Present) - 1
    BY Zenon, <2>1, FS_RemoveElement
  <2>3. Uncounting' = Uncounting \cup {t} /\ t \notin Uncounting /\ Counting' = Counting
    BY Zenon, <1>0, <1>1 DEF Removes, Uncounting, Counting
  <2>4. Cardinality(Uncounting') = Cardinality(Uncounting) + 1
    BY Zenon, <2>3, FS_AddElement
  <2>5. CountIsExact' /\ ~Adds(t)
    BY <1>0, <1>1, <2>2, <2>3, <2>4 DEF CountIsExact, Removes, Adds
  <2> QED BY <2>1, <2>2, <2>5
<1>2. CASE Adds(t)
  <2>1. Cardinality(Present') = Cardinality(Present) + 1
    BY Zenon, <1>2, FS_AddElement DEF Adds
  <2>2. Counting' = Counting \cup {t} /\ t \notin Counting /\ Uncounting' = Uncounting
    BY Zenon, <1>0, <1>2 DEF Adds, Uncounting, Counting
  <2>3. Cardinality(Counting') = Cardinality(Counting) + 1
    BY Zenon, <2>2, FS_AddElement
  <2>4. CountIsExact' /\ ~Removes(t)
    BY <1>0, <1>2, <2>1, <2>2, <2>3 DEF CountIsExact, Adds, Removes
  <2> QED BY Zenon, <1>2, <2>1, <2>4
<1>3. CASE Uncounts(t)
  <2>1. Uncounting' = Uncounting \ {t} /\ t \in Uncounting /\ Counting' = Counting
    BY Zenon, <1>0, <1>3 DEF Uncounts, Uncounting, Counting
  <2>2. Cardinality(Uncounting') = Cardinality(Uncounting) - 1
    BY Zenon, <2>1, FS_RemoveElement
  <2>3. CountIsExact' /\ Present' = Present /\ ~Adds(t) /\ ~Removes(t)
    BY <1>0, <1>3, <2>1, <2>2 DEF CountIsExact, Uncounts, Keeps, Adds, Removes
  <2> QED BY <2>3
<1>4. CASE Counts(t)
  <2>1. Counting' = Counting \ {t} /\ t \in Counting /\ Uncounting' = Uncounting
    BY Zenon, <1>0, <1>4 DEF Counts, Uncounting, Counting
  <2>2. Cardinality(Counting') = Cardinality(Counting) - 1
    BY Zenon, <2>1, FS_RemoveElement
  <2>3. CountIsExact' /\ Present' = Present /\ ~Adds(t) /\ ~Removes(t)
    BY <1>0, <1>4, <2>1, <2>2 DEF CountIsExact, Counts, Keeps, Adds, Removes
  <2> QED BY <2>3
<1>5. CASE CountsNothing(t)
  <2>1. Counting' = Counting /\ Uncounting' = Uncounting
    BY Zenon, <1>0, <1>5 DEF CountsNothing, Uncounting, Counting
  <2>2. CountIsExact' /\ Present' = Present /\ ~Adds(t) /\ ~Removes(t)
    BY Zenon, <1>5, <2>1 DEF CountIsExact, CountsNothing, Keeps, Adds, Removes
  <2> QED BY <2>2
<1> QED BY Zenon, <1>1, <1>2, <1>3, <1>4, <1>5 DEF Shape

\* While a thread is admitted and has not inserted, the counter covers the map.
LEMMA CounterCoversMap ==
  ASSUME LockInv, CountIsExact, NEW t \in Threads, op[t].pc \in Admitted \ {"count"}
  PROVE  Cardinality(Present) <= entry_count
<1>1. Counting = {}
  BY Zenon DEF Counting, LockInv, LocksHeld, Admitted
<1>2. Cardinality(Counting) = 0
  BY Zenon, <1>1, FS_EmptySet
<1> QED BY <1>2, CountedAreFinite DEF CountIsExact, LockInv, CacheTypes

\* Room and the bound survive a map that does not grow.
LEMMA RoomStays ==
  ASSUME Cardinality(Present') <= Cardinality(Present),
         Cardinality(Present) \in Nat, Cardinality(Present') \in Nat
  PROVE  (Room => Room') /\ (CapacityBounded => CapacityBounded')
  BY AffinityCacheAssumption DEF Room, CapacityBounded, AtLeastOneOf

\* The shards ahead of a thread that evicts.
LEMMA AheadShape ==
  ASSUME NEW at \in Shards, NEW s \in Shards, NEW left \in 0..ShardCount
  PROVE  /\ Ahead(s, at, ShardCount)
         /\ ~Ahead(s, at, 0)
         /\ left > 0 /\ Ahead(s, at, left) /\ s # at => Ahead(s, NextShard(at), left - 1)
  BY AffinityCacheAssumption DEF Ahead, Shards, NextShard

\* A step of a thread leaves the room that another one relies on, because only
\* the holder of insertion_lock inserts.
LEMMA OthersKeepRoom ==
  ASSUME CacheInv, LockInv', NEW t \in Threads, OthersStay(t), Shape(t),
         NEW u \in Threads, u # t
  PROVE  RoomMade(u)'
<1>0. op'[u] = op[u] /\ RoomMade(u)
  BY Zenon DEF OthersStay, CacheInv, RoomIsMade
<1>1. CASE op[u].pc \in {"evict", "evict_uncount", "insert"}
  <2>1. ~Adds(t)
    BY Zenon, <1>1 DEF CacheInv, LocksHeld, Admitted, Adds
  <2>2. Present' \subseteq Present /\ Cardinality(Present') <= Cardinality(Present)
    BY Zenon, <2>1, CountStep DEF CacheInv, LockInv
  <2>3. Cardinality(Present) \in Nat /\ Cardinality(Present') \in Nat
    <3>1. Present' \subseteq Present /\ IsFiniteSet(Present)
      BY Zenon, <2>2, CountedAreFinite
    <3> QED BY Zenon, <3>1, FS_Subset, FS_CardinalityType
  <2>4. Room => Room'
    BY Zenon, <2>2, <2>3, RoomStays
  <2> QED BY Zenon, <1>0, <1>1, <2>2, <2>4 DEF RoomMade
<1>2. CASE op[u].pc \notin {"evict", "evict_uncount", "insert"}
  BY Zenon, <1>0, <1>2 DEF RoomMade
<1> QED BY Zenon, <1>1, <1>2

\* A thread makes room before it inserts.
LEMMA OwnRoom ==
  ASSUME CacheInv, LockInv', NEW t \in Threads, Call(t) \/ Continue(t)
  PROVE  RoomMade(t)'
<1> USE DEF CacheInv, LockInv
<1>0. StepsRight(t) /\ OthersStay(t) /\ Shape(t) /\ RoomMade(t)
  BY Zenon, ThreadStep DEF StepsRight, RoomIsMade
<1>1. /\ ~Adds(t) => Present' \subseteq Present /\ Cardinality(Present') <= Cardinality(Present)
      /\ Removes(t) => Cardinality(Present') < Cardinality(Present)
  BY Zenon, <1>0, CountStep
<1>2. Cardinality(Present) \in Nat
  BY Zenon, CountedAreFinite
<1>3. CASE \E k \in CacheKeys, now \in 0..clock : Get(t, k, now) \/ Clear(t, k)
  <2>1. op'[t].pc \in {"get_write", "uncount"}
    <3>1. PICK k \in CacheKeys, now \in 0..clock : Get(t, k, now) \/ Clear(t, k)
      BY Zenon, <1>3
    <3>2. CASE Get(t, k, now)
      BY Zenon, <3>2, IdleOpShape DEF Get, CacheTypes, Op
    <3>3. CASE Clear(t, k)
      BY Zenon, <3>3, IdleOpShape DEF Clear, CacheTypes, Op
    <3> QED BY Zenon, <3>1, <3>2, <3>3
  <2> QED BY Zenon, <2>1 DEF RoomMade
<1>4. ASSUME NEW k \in CacheKeys, NEW ttl \in Ttls, NEW limit \in Limits, NEW now \in 0..clock,
             Record(t, k, ttl, limit, now)
      PROVE  RoomMade(t)'
  <2>1. CASE UNCHANGED op
    BY Zenon, <1>4, <2>1 DEF Record, Idle, RoomMade
  <2>2. CASE op' = [op EXCEPT ![t] =
                      [IdleOp EXCEPT !.pc = "admit", !.key = k, !.limit = AtLeastOneOf(limit),
                                     !.expires = now + AtLeastOneOf(ttl)]]
    <3>1. op'[t].pc = "admit" /\ op'[t].limit = AtLeastOneOf(limit)
      BY Zenon, <2>2, IdleOpShape DEF CacheTypes, Op
    <3> QED BY Zenon, <3>1 DEF RoomMade
  <2> QED BY Zenon, <1>4, <2>1, <2>2 DEF Record
<1>5. CASE GetWrite(t) \/ Uncount(t) \/ CountInserted(t)
  <2>1. op'[t].pc \in {"idle", "uncount"}
    BY Zenon, <1>5, GotoShape, FinishedShape DEF GetWrite, Uncount, CountInserted, Places
  <2> QED BY Zenon, <2>1 DEF RoomMade
<1>6. CASE Admit(t) \/ Recheck(t)
  <2>1. CASE Goto(t, "recheck") \/ Goto(t, "check_count")
    <3>1. op'[t].pc \in {"recheck", "check_count"} /\ op'[t].limit = op[t].limit
      BY Zenon, <2>1, GotoShape DEF Places
    <3> QED BY Zenon, <1>0, <1>6, <3>1 DEF RoomMade, Admit, Recheck
  <2>2. CASE Finished(t)
    BY Zenon, <2>2, FinishedShape DEF RoomMade
  <2> QED BY Zenon, <1>6, <2>1, <2>2 DEF Admit, Recheck
<1>7. CASE CheckCount(t)
  <2>0. op[t].pc = "check_count" /\ Present' = Present /\ eviction_cursor \in Shards
    BY Zenon, <1>7 DEF CheckCount, Present, CacheTypes
  <2>1. CASE op'[t].pc = "evict" /\ op'[t].at = eviction_cursor /\ op'[t].left = ShardCount
    <3>1. \A k \in Present : Shard[k] \in Shards
      BY Zenon, AffinityCacheAssumption DEF Present
    <3>2. \A k \in Present : Ahead(Shard[k], eviction_cursor, ShardCount)
      BY <2>0, <3>1, AheadShape, AffinityCacheAssumption
    <3> QED BY Zenon, <2>0, <2>1, <3>2 DEF RoomMade
  <2>2. CASE op'[t].pc = "insert" /\ ~Full(t)
    <3>1. Cardinality(Present) <= entry_count
      BY Zenon, <2>0, CounterCoversMap DEF Admitted
    <3>2. PICK limit \in Limits : op[t].limit = AtLeastOneOf(limit)
      BY Zenon, <1>0, <2>0 DEF RoomMade
    <3>3. entry_count \in Int /\ limit \in Nat /\ AtLeastOneOf(limit) \in Nat
      BY Zenon, AffinityCacheAssumption DEF CacheTypes, AtLeastOneOf
    <3>4. Cardinality(Present) < AtLeastOneOf(limit)
      BY <1>2, <2>2, <3>1, <3>2, <3>3 DEF Full
    <3>5. Room'
      BY Zenon, <2>0, <3>4 DEF Room
    <3> QED BY Zenon, <2>2, <3>5 DEF RoomMade
  <2> QED BY Zenon, <1>7, <2>1, <2>2, CheckCountStep
<1>8. CASE Evict(t)
  <2>0. /\ op[t].pc = "evict" /\ op[t].at \in Shards /\ op[t].left \in 0..ShardCount
        /\ \A k \in Present : Shard[k] \in Shards /\ Ahead(Shard[k], op[t].at, op[t].left)
    BY Zenon, <1>0, <1>8, AffinityCacheAssumption DEF Evict, CacheTypes, Op, RoomMade, Present
  <2>a. ~Adds(t)
    BY Zenon, <2>0 DEF Adds
  <2>1. CASE op'[t].pc = "insert" /\ op[t].left = 0
    <3>1. Present = {}
      BY Zenon, <2>0, <2>1, AheadShape
    <3>2. Present' = {}
      BY Zenon, <1>1, <2>a, <3>1
    <3>3. PICK limit \in Limits : limit \in Nat
      BY Zenon, AffinityCacheAssumption
    <3>4. 0 < AtLeastOneOf(limit)
      BY <3>3 DEF AtLeastOneOf
    <3>5. Room'
      BY Zenon, <3>2, <3>4, FS_EmptySet DEF Room
    <3> QED BY Zenon, <2>1, <3>5 DEF RoomMade
  <2>2. CASE /\ op'[t].pc = "evict" /\ op[t].left > 0 /\ InShard(op[t].at) = {}
             /\ op'[t].at = NextShard(op[t].at) /\ op'[t].left = op[t].left - 1
    <3>1. \A k \in Present : Shard[k] # op[t].at
      BY Zenon, <2>2 DEF InShard
    <3>2. \A k \in Present : Ahead(Shard[k], NextShard(op[t].at), op[t].left - 1)
      BY Zenon, <2>0, <2>2, <3>1, AheadShape
    <3> QED BY Zenon, <1>1, <2>2, <2>a, <3>2 DEF RoomMade
  <2>3. CASE op'[t].pc = "evict_uncount"
    <3>1. Removes(t)
      BY Zenon, <1>0, <2>0, <2>3 DEF Shape, Adds, Uncounts, Counts, CountsNothing
    <3>2. Cardinality(Present') < Cardinality(Present) /\ Cardinality(Present') \in Nat
      <4>1. Present' \subseteq Present /\ IsFiniteSet(Present)
        BY Zenon, <1>1, <2>a, CountedAreFinite
      <4> QED BY Zenon, <1>1, <3>1, <4>1, FS_Subset, FS_CardinalityType
    <3>3. Room'
      BY <1>2, <3>2, AffinityCacheAssumption DEF CapacityBounded, Room, AtLeastOneOf
    <3> QED BY Zenon, <2>3, <3>3 DEF RoomMade
  <2> QED BY Zenon, <1>8, <2>1, <2>2, <2>3, EvictStep
<1>9. CASE EvictUncount(t)
  <2>1. op'[t].pc = "insert" /\ Room
    BY Zenon, <1>0, <1>9, GotoShape DEF EvictUncount, Places, RoomMade
  <2>2. Room'
    BY Zenon, <1>9, <2>1 DEF EvictUncount, Room, Present
  <2> QED BY Zenon, <2>1, <2>2 DEF RoomMade
<1>10. CASE Insert(t)
  <2>1. op'[t].pc = "count"
    BY Zenon, <1>10, GotoShape DEF Insert, Places
  <2> QED BY Zenon, <2>1 DEF RoomMade
<1> QED
  BY Zenon, <1>3, <1>4, <1>5, <1>6, <1>7, <1>8, <1>9, <1>10 DEF Call, Continue

LEMMA CacheNextInv == CacheInv /\ [AffinityNext]_affinity_vars => CacheInv'
<1> SUFFICES ASSUME CacheInv, [AffinityNext]_affinity_vars PROVE CacheInv'
  BY Zenon
<1>1. CASE UNCHANGED <<entries, shard_lock, entry_count, insertion_lock, eviction_cursor, op>>
           /\ clock' \in 0..MaxTime
  <2>1. Present' = Present /\ Uncounting' = Uncounting /\ Counting' = Counting
    BY Zenon, <1>1 DEF Present, Uncounting, Counting
  <2>2. (CacheTypes /\ LocksHeld /\ AdmissionAlone)'
    BY Zenon, <1>1, <2>1 DEF CacheInv, CacheTypes, LocksHeld, AdmissionAlone, Idle
  <2>3. (CountIsExact /\ CapacityBounded /\ RoomIsMade)'
    BY Zenon, <1>1, <2>1 DEF CacheInv, CountIsExact, CapacityBounded, RoomIsMade, RoomMade, Room
  <2> QED BY Zenon, <2>2, <2>3 DEF CacheInv
<1>2. ASSUME NEW t \in Threads, Call(t) \/ Continue(t)
      PROVE  CacheInv'
  <2>1. LockInv' /\ OthersStay(t) /\ Shape(t)
    BY Zenon, <1>2, ThreadStep DEF StepsRight, CacheInv, LockInv
  <2>2. /\ CountIsExact'
        /\ ~Adds(t) => Present' \subseteq Present /\ Cardinality(Present') <= Cardinality(Present)
        /\ Adds(t) => Cardinality(Present') = Cardinality(Present) + 1
    BY Zenon, <2>1, CountStep DEF CacheInv, LockInv
  <2>3. RoomIsMade'
    BY Zenon, <1>2, <2>1, OthersKeepRoom, OwnRoom DEF RoomIsMade
  <2>4. CapacityBounded'
    <3>1. CASE Adds(t)
      <4>1. Room
        BY Zenon, <3>1 DEF CacheInv, RoomIsMade, RoomMade, Adds
      <4> QED BY <2>2, <3>1, <4>1, CountedAreFinite, AffinityCacheAssumption
              DEF Room, CapacityBounded, AtLeastOneOf
    <3>2. CASE ~Adds(t)
      <4>1. Present' \subseteq Present /\ IsFiniteSet(Present)
        BY Zenon, <2>2, <3>2, CountedAreFinite
      <4>2. Cardinality(Present) \in Nat /\ Cardinality(Present') \in Nat
        BY Zenon, <4>1, FS_Subset, FS_CardinalityType
      <4> QED BY Zenon, <2>2, <3>2, <4>2, RoomStays DEF CacheInv
    <3> QED BY Zenon, <3>1, <3>2
  <2> QED BY Zenon, <2>1, <2>2, <2>3, <2>4 DEF CacheInv, LockInv
<1>3. CASE Tick
  BY <1>1, <1>3, AffinityCacheAssumption DEF Tick, CacheInv, CacheTypes
<1>4. CASE UNCHANGED affinity_vars
  BY Zenon, <1>1, <1>4 DEF affinity_vars, CacheInv, CacheTypes
<1> QED BY Zenon, <1>2, <1>3, <1>4 DEF AffinityNext

-----------------------------------------------------------------------------
\* The inductive invariant holds in every state of the cache.
THEOREM CacheInvariant == AffinitySpec => []CacheInv
<1>1. AffinityInit => CacheInv
  BY Zenon, CacheInitInv
<1>2. CacheInv /\ [AffinityNext]_affinity_vars => CacheInv'
  BY Zenon, CacheNextInv
<1> QED BY <1>1, <1>2, PTL DEF AffinitySpec

\* entry_count never drifts away from the maps: it differs by the threads that are
\* between the two, however get, clear and record interleave.
THEOREM CounterIsExact == AffinitySpec => []CountIsExact
<1>1. CacheInv => CountIsExact
  BY Zenon DEF CacheInv
<1> QED BY <1>1, CacheInvariant, PTL

\* The cache never holds more entries than the largest of the configured limits,
\* although record looks at the counter under another lock than the maps'.
THEOREM CacheIsBounded == AffinitySpec => []CapacityBounded
<1>1. CacheInv => CapacityBounded
  BY Zenon DEF CacheInv
<1> QED BY <1>1, CacheInvariant, PTL

\* Every state is well typed, and the counter is never below zero, where the
\* AtomicUsize would wrap: an entry that is not counted yet is still there.
THEOREM CounterNeverWraps == AffinitySpec => []AffinityTypeOK
<1>1. CacheInv => AffinityTypeOK
  <2> SUFFICES ASSUME CacheInv PROVE AffinityTypeOK
    BY Zenon
  <2>1. entry_count >= 0
    <3>1. CASE Counting = {}
      <4>1. Cardinality(Counting) = 0
        BY Zenon, <3>1, FS_EmptySet
      <4> QED BY <4>1, CountedAreFinite DEF CacheInv, CountIsExact, CacheTypes
    <3>2. CASE Counting # {}
      <4>1. PICK t \in Threads : op[t].pc = "count"
        BY Zenon, <3>2 DEF Counting
      <4>2. Counting = {t}
        BY Zenon, <4>1 DEF Counting, CacheInv, LocksHeld, Admitted
      <4>3. Cardinality(Counting) = 1
        BY Zenon, <4>2, FS_Singleton
      <4>4. Present # {}
        BY Zenon, <4>1 DEF CacheInv, AdmissionAlone
      <4>5. Cardinality(Present) # 0
        BY Zenon, <4>4, CountedAreFinite, FS_EmptySet
      <4> QED BY <4>3, <4>5, CountedAreFinite DEF CacheInv, CountIsExact, CacheTypes
    <3> QED BY Zenon, <3>1, <3>2
  <2> QED BY <2>1 DEF CacheInv, CacheTypes, AffinityTypeOK
<1> QED BY <1>1, CacheInvariant, PTL

-----------------------------------------------------------------------------
(***************************************************************************)
(* get and the entries that come back                                      *)
(***************************************************************************)

\* The time that get goes by is not after the clock.
NowIsPast == \A t \in Threads : op[t].pc = "get_write" => op[t].now <= clock

\* Only get's first half leads to its second.
LEMMA OnlyGetWaits ==
  ASSUME LockInv, NEW t \in Threads, Call(t) \/ Continue(t), op'[t].pc = "get_write"
  PROVE  op'[t].now \in 0..clock /\ clock' = clock
<1>1. CacheTypes /\ IdleOp.pc = "idle" /\ IdleOp \in Op /\ op \in [Threads -> Op]
  BY Zenon, IdleOpShape DEF LockInv, CacheTypes
<1>2. \A pc \in Places \ {"get_write"} : ~Goto(t, pc)
  BY Zenon, <1>1, GotoShape
<1>3. ~Finished(t)
  BY Zenon, <1>1, FinishedShape
<1>4. CASE Continue(t)
  <2>1. ~GetWrite(t) /\ ~Uncount(t) /\ ~Admit(t) /\ ~Recheck(t)
        /\ ~EvictUncount(t) /\ ~Insert(t) /\ ~CountInserted(t)
    BY Zenon, <1>2, <1>3 DEF GetWrite, Uncount, Admit, Recheck, EvictUncount, Insert, CountInserted, Places
  <2>2. ~CheckCount(t)
    <3> DEFINE o == [op[t] EXCEPT !.pc = "evict", !.at = eviction_cursor, !.left = ShardCount]
    <3>1. o.pc = "evict"
      BY Zenon, <1>1 DEF Op
    <3> HIDE DEF o
    <3>2. ~(op' = [op EXCEPT ![t] = o])
      BY Zenon, <1>1, <3>1
    <3> QED BY Zenon, <1>2, <3>2 DEF CheckCount, Places, o
  <2>3. ~Evict(t)
    <3> DEFINE s == op[t].at
               o == [op[t] EXCEPT !.at = NextShard(s), !.left = op[t].left - 1]
    <3>1. o.pc = op[t].pc
      BY Zenon, <1>1 DEF Op
    <3> HIDE DEF o
    <3>2. op[t].pc = "evict" => ~(op' = [op EXCEPT ![t] = o])
      BY Zenon, <1>1, <3>1
    <3> QED BY Zenon, <1>2, <3>2 DEF Evict, Places, o
  <2> QED BY Zenon, <1>4, <2>1, <2>2, <2>3 DEF Continue
<1>5. ASSUME NEW k \in CacheKeys, NEW now \in 0..clock, Get(t, k, now)
      PROVE  op'[t].now \in 0..clock /\ clock' = clock
  <2> DEFINE o == [IdleOp EXCEPT !.pc = "get_write", !.key = k, !.now = now]
  <2>1. o.now = now
    BY Zenon DEF IdleOp
  <2>2. op' = [op EXCEPT ![t] = o] /\ clock' = clock
    BY Zenon, <1>5 DEF Get
  <2> HIDE DEF o
  <2> QED BY Zenon, <1>1, <2>1, <2>2
<1>6. ASSUME NEW k \in CacheKeys, Clear(t, k) PROVE FALSE
  <2> DEFINE o == [IdleOp EXCEPT !.pc = "uncount", !.key = k]
  <2>1. o.pc = "uncount"
    BY Zenon DEF IdleOp
  <2>2. op' = [op EXCEPT ![t] = o]
    BY Zenon, <1>6 DEF Clear
  <2> HIDE DEF o
  <2> QED BY Zenon, <1>1, <2>1, <2>2
<1>7. ASSUME NEW k \in CacheKeys, NEW ttl \in Ttls, NEW limit \in Limits,
             NEW now \in 0..clock, Record(t, k, ttl, limit, now)
      PROVE  FALSE
  <2> DEFINE o == [IdleOp EXCEPT !.pc = "admit", !.key = k, !.limit = AtLeastOneOf(limit),
                                 !.expires = now + AtLeastOneOf(ttl)]
  <2>1. o.pc = "admit"
    BY Zenon DEF IdleOp
  <2>2. op[t].pc = "idle" /\ (op' = op \/ op' = [op EXCEPT ![t] = o])
    BY Zenon, <1>7 DEF Record, Idle
  <2> HIDE DEF o
  <2> QED BY Zenon, <1>1, <2>1, <2>2
<1> QED BY Zenon, <1>4, <1>5, <1>6, <1>7 DEF Call

\* Every step keeps that.
LEMMA NowStaysPast ==
  ASSUME CacheInv, NowIsPast, [AffinityNext]_affinity_vars
  PROVE  NowIsPast'
<1>1. LockInv /\ clock \in Nat /\ op \in [Threads -> Op]
  BY DEF CacheInv, LockInv, CacheTypes
<1>2. CASE UNCHANGED affinity_vars
  BY Zenon, <1>2 DEF affinity_vars, NowIsPast
<1>3. CASE Tick
  <2>1. op' = op /\ clock' = clock + 1
    BY Zenon, <1>3 DEF Tick
  <2>2. \A t \in Threads : op[t].now \in Nat
    BY Zenon, <1>1 DEF Op
  <2> QED BY <1>1, <2>1, <2>2 DEF NowIsPast
<1>4. ASSUME NEW t \in Threads, Call(t) \/ Continue(t) PROVE NowIsPast'
  <2>1. OthersStay(t)
    BY Zenon, <1>1, <1>4, ThreadStep DEF StepsRight
  <2>2. clock' = clock
    BY Zenon, <1>4 DEF Call, Continue, Get, Clear, Record, GetWrite, Uncount, Admit, Recheck,
                CheckCount, Evict, EvictUncount, Insert, CountInserted
  <2>3. op'[t].pc = "get_write" => op'[t].now <= clock'
    BY <1>1, <1>4, OnlyGetWaits
  <2> QED BY Zenon, <2>1, <2>2, <2>3 DEF OthersStay, NowIsPast
<1> QED BY Zenon, <1>2, <1>3, <1>4 DEF AffinityNext

\* So what get removes has expired.
LEMMA GetRemovesExpired ==
  ASSUME CacheInv, NowIsPast, [AffinityNext]_affinity_vars,
         NEW t \in Threads, NEW k \in CacheKeys,
         op[t].pc = "get_write", op'[t].pc = "uncount", k \in Present, k \notin Present'
  PROVE  entries[k] <= clock
<1>1. LockInv /\ clock \in Nat /\ op[t] \in Op /\ entries \in [CacheKeys -> Nat \cup {NoEntry}]
      /\ CacheTypes
  BY DEF CacheInv, LockInv, CacheTypes
<1>2. PICK u \in Threads : Call(u) \/ Continue(u)
  BY Zenon DEF affinity_vars, AffinityNext, Tick
<1>3. u = t
  BY Zenon, <1>1, <1>2, ThreadStep DEF StepsRight, OthersStay
<1>4. GetWrite(t)
  BY Zenon, <1>2, <1>3 DEF Call, Continue, Get, Clear, Record, Idle, Uncount, Admit, Recheck,
                CheckCount, Evict, EvictUncount, Insert, CountInserted
<1>5. /\ op[t].key \in Present /\ entries[op[t].key] <= op[t].now
      /\ entries' = [entries EXCEPT ![op[t].key] = NoEntry]
  BY Zenon, <1>1, <1>4, FinishedShape DEF GetWrite, Remove
<1>6. k = op[t].key
  BY Zenon, <1>1, <1>5 DEF Present
<1>7. entries[k] \in Nat /\ op[t].now \in Nat /\ op[t].now <= clock
  BY Zenon, <1>1 DEF Present, Op, NowIsPast
<1> QED BY <1>1, <1>5, <1>6, <1>7

\* get drops an entry only when its time has passed, also when record stored it
\* again between get's read lock and its write lock.
THEOREM GetKeepsLive == AffinitySpec => GetKeepsLiveEntries
<1>1. AffinityInit => NowIsPast
  BY DEF AffinityInit, NowIsPast, IdleOp
<1>2. CacheInv /\ NowIsPast /\ [AffinityNext]_affinity_vars => NowIsPast'
  BY Zenon, NowStaysPast
<1>3. CacheInv /\ NowIsPast /\ [AffinityNext]_affinity_vars =>
        [\A t \in Threads, k \in CacheKeys :
           op[t].pc = "get_write" /\ op'[t].pc = "uncount" /\ k \in Present /\ k \notin Present'
             => entries[k] <= clock]_affinity_vars
  BY Zenon, GetRemovesExpired
<1> QED BY <1>1, <1>2, <1>3, CacheInvariant, PTL DEF AffinitySpec, GetKeepsLiveEntries

-----------------------------------------------------------------------------
(***************************************************************************)
(* The locks, and the end of every call                                    *)
(***************************************************************************)

\* The lock of shard s belongs to what thread t does.
HoldsShard(t, s) ==
  \/ op[t].pc \in {"uncount", "count"} /\ Shard[op[t].key] = s
  \/ op[t].pc = "evict_uncount" /\ op[t].at = s

\* A lock that is taken is in use.
LocksInUse ==
  /\ \A s \in Shards, t \in Threads : shard_lock[s] = t => HoldsShard(t, s)
  /\ \A t \in Threads : insertion_lock = t => op[t].pc \in Admitted

\* How a step of thread t may change the locks.
ShardLocksRight(t) ==
  \A s \in Shards : \/ shard_lock'[s] = NoThread
                    \/ shard_lock'[s] = shard_lock[s] /\ shard_lock[s] # t
                    \/ shard_lock'[s] = t /\ HoldsShard(t, s)'
InsertionLockRight(t) ==
  \/ insertion_lock' = NoThread
  \/ insertion_lock' = insertion_lock /\ insertion_lock # t
  \/ insertion_lock' = t /\ op'[t].pc \in Admitted
LocksRight(t) == ShardLocksRight(t) /\ InsertionLockRight(t)

\* That is enough to keep them in use.
LEMMA LocksRightInUse ==
  ASSUME LocksInUse, NEW t \in Threads, OthersStay(t), LocksRight(t)
  PROVE  LocksInUse'
<1>1. ASSUME NEW s \in Shards, NEW u \in Threads, shard_lock'[s] = u
      PROVE  HoldsShard(u, s)'
  <2>1. u # NoThread
    BY Zenon, AffinityCacheAssumption
  <2>2. CASE u = t
    BY Zenon, <1>1, <2>1, <2>2 DEF LocksRight, ShardLocksRight
  <2>3. CASE u # t
    <3>1. shard_lock[s] = u
      BY Zenon, <1>1, <2>1, <2>3 DEF LocksRight, ShardLocksRight
    <3>2. op'[u] = op[u]
      BY Zenon, <2>3 DEF OthersStay
    <3>3. HoldsShard(u, s)
      BY Zenon, <3>1 DEF LocksInUse
    <3> QED BY Zenon, <3>2, <3>3 DEF HoldsShard
  <2> QED BY Zenon, <2>2, <2>3
<1>2. ASSUME NEW u \in Threads, insertion_lock' = u
      PROVE  op'[u].pc \in Admitted
  <2>1. u # NoThread
    BY Zenon, AffinityCacheAssumption
  <2> QED BY Zenon, <1>2, <2>1 DEF LocksRight, InsertionLockRight, OthersStay, LocksInUse
<1> QED BY Zenon, <1>1, <1>2 DEF LocksInUse

\* A thread that is not between a map and the counter holds no shard, one that is
\* holds only that, and one outside record's second half not insertion_lock.
LEMMA WhatIsNotHeld ==
  ASSUME LocksInUse, NEW t \in Threads
  PROVE  /\ op[t].pc \notin {"uncount", "count", "evict_uncount"} =>
              \A s \in Shards : shard_lock[s] # t
         /\ op[t].pc \in {"uncount", "count"} =>
              \A s \in Shards : s # Shard[op[t].key] => shard_lock[s] # t
         /\ op[t].pc = "evict_uncount" => \A s \in Shards : s # op[t].at => shard_lock[s] # t
         /\ op[t].pc \notin Admitted => insertion_lock # t
  BY Zenon DEF LocksInUse, HoldsShard

\* Beginning a call.
LEMMA CallLocks ==
  ASSUME LockInv, LocksInUse, NEW t \in Threads, Call(t)
  PROVE  LocksRight(t)
<1>1. CacheTypes /\ op[t].pc = "idle" /\ insertion_lock' = insertion_lock
  BY Zenon DEF LockInv, Call, Get, Clear, Record, Idle
<1>2. (\A s \in Shards : shard_lock[s] # t) /\ insertion_lock # t
  BY Zenon, <1>1, WhatIsNotHeld DEF Admitted
<1>3. CASE shard_lock' = shard_lock
  BY Zenon, <1>1, <1>2, <1>3 DEF LocksRight, ShardLocksRight, InsertionLockRight
<1>4. ASSUME NEW k \in CacheKeys, Clear(t, k) PROVE LocksRight(t)
  <2> DEFINE o == [IdleOp EXCEPT !.pc = "uncount", !.key = k]
  <2>1. o.pc = "uncount" /\ o.key = k /\ o \in Op
    BY Zenon, IdleOpShape DEF Op, Places
  <2>2. op' = [op EXCEPT ![t] = o] /\ k \in Present /\ Remove(k, t)
    BY Zenon, <1>4 DEF Clear
  <2> HIDE DEF o
  <2>3. op'[t].pc = "uncount" /\ op'[t].key = k
    BY Zenon, <1>1, <2>1, <2>2 DEF CacheTypes
  <2>4. /\ shard_lock'[Shard[k]] = t
        /\ \A s \in Shards : s # Shard[k] => shard_lock'[s] = shard_lock[s]
    BY Zenon, <1>1, <2>2, RemoveShape
  <2> QED BY Zenon, <1>1, <1>2, <2>3, <2>4
          DEF LocksRight, ShardLocksRight, InsertionLockRight, HoldsShard
<1> QED BY Zenon, <1>3, <1>4 DEF Call, Get, Record

\* What is left of a call, at each of its places.
LEMMA StepsLeftAt ==
  ASSUME NEW o \in Op
  PROVE  /\ o.left \in Nat /\ ShardCount \in Nat /\ o.left <= ShardCount
         /\ o.pc = "idle" => StepsLeft(o) = 0
         /\ o.pc \in {"uncount", "count"} => StepsLeft(o) = 1
         /\ o.pc \in {"get_write", "insert"} => StepsLeft(o) = 2
         /\ o.pc = "evict_uncount" => StepsLeft(o) = 3
         /\ o.pc = "evict" => StepsLeft(o) = 4 + o.left
         /\ o.pc = "check_count" => StepsLeft(o) = 5 + ShardCount
         /\ o.pc = "recheck" => StepsLeft(o) = 6 + ShardCount
         /\ o.pc = "admit" => StepsLeft(o) = 7 + ShardCount
  BY AffinityCacheAssumption DEF Op, StepsLeft

\* Going on with a call: one step for each place.
LEMMA ContinueLocks ==
  ASSUME LockInv, LocksInUse, NEW t \in Threads, Continue(t)
  PROVE  LocksRight(t)
<1> USE DEF LocksRight, ShardLocksRight, InsertionLockRight, HoldsShard
<1>1. CacheTypes /\ LocksHeld /\ NoThread \in Threads \cup {NoThread}
  BY Zenon DEF LockInv
<1>2. op[t].pc # "idle" => op[t].key \in CacheKeys /\ Shard[op[t].key] \in Shards
  BY Zenon, <1>1, AffinityCacheAssumption DEF CacheTypes, Idle
<1>3. op[t].at \in Shards
  BY Zenon, <1>1 DEF CacheTypes, Op
<1>4. CASE GetWrite(t)
  <2>1. op[t].pc = "get_write" /\ insertion_lock' = insertion_lock
    BY Zenon, <1>4 DEF GetWrite
  <2>2. (\A s \in Shards : shard_lock[s] # t) /\ insertion_lock # t
    BY Zenon, <2>1, WhatIsNotHeld DEF Admitted
  <2>3. CASE UNCHANGED shard_lock
    BY Zenon, <2>1, <2>2, <2>3
  <2>4. CASE op[t].key \in Present /\ Remove(op[t].key, t) /\ Goto(t, "uncount")
    <3>1. op'[t].pc = "uncount" /\ op'[t].key = op[t].key
      BY Zenon, <1>1, <2>4, GotoShape DEF Places
    <3>2. /\ shard_lock'[Shard[op[t].key]] = t
          /\ \A s \in Shards : s # Shard[op[t].key] => shard_lock'[s] = shard_lock[s]
      BY Zenon, <1>1, <2>4, RemoveShape
    <3> QED BY Zenon, <2>1, <2>2, <3>1, <3>2
  <2> QED BY Zenon, <1>4, <2>3, <2>4 DEF GetWrite
<1>5. CASE Uncount(t)
  <2>1. /\ op[t].pc = "uncount" /\ insertion_lock' = insertion_lock
        /\ Lock(Shard[op[t].key], NoThread)
    BY Zenon, <1>5 DEF Uncount
  <2>2. /\ \A s \in Shards : s # Shard[op[t].key] => shard_lock[s] # t
        /\ insertion_lock # t
    BY Zenon, <2>1, WhatIsNotHeld DEF Admitted
  <2>3. /\ shard_lock'[Shard[op[t].key]] = NoThread
        /\ \A s \in Shards : s # Shard[op[t].key] => shard_lock'[s] = shard_lock[s]
    BY Zenon, <1>1, <1>2, <2>1, LockShape
  <2> QED BY Zenon, <2>1, <2>2, <2>3
<1>6. CASE Admit(t) \/ Recheck(t) \/ CheckCount(t)
  <2>1. /\ op[t].pc \in {"admit", "recheck", "check_count"} /\ shard_lock' = shard_lock
    BY Zenon, <1>6 DEF Admit, Recheck, CheckCount
  <2>2. \A s \in Shards : shard_lock[s] # t
    BY Zenon, <2>1, WhatIsNotHeld
  <2>3. CASE Admit(t)
    <3>1. insertion_lock' = t /\ op'[t].pc = "recheck"
      BY Zenon, <1>1, <2>3, GotoShape DEF Admit, Places
    <3> QED BY Zenon, <2>1, <2>2, <3>1 DEF Admitted
  <2>4. CASE Recheck(t)
    <3>1. insertion_lock' = NoThread \/ (insertion_lock' = insertion_lock /\ Goto(t, "check_count"))
      BY Zenon, <2>4 DEF Recheck
    <3>2. Goto(t, "check_count") => op'[t].pc \in Admitted
      BY Zenon, <1>1, GotoShape DEF Places, Admitted
    <3> QED BY Zenon, <2>1, <2>2, <3>1, <3>2
  <2>5. CASE CheckCount(t)
    <3>1. insertion_lock' = insertion_lock
      BY Zenon, <2>5 DEF CheckCount
    <3> DEFINE o == [op[t] EXCEPT !.pc = "evict", !.at = eviction_cursor, !.left = ShardCount]
    <3>2. o.pc = "evict"
      BY Zenon, <1>1 DEF CacheTypes, Op
    <3>3. op' = [op EXCEPT ![t] = o] \/ Goto(t, "insert")
      BY Zenon, <2>5 DEF CheckCount
    <3> HIDE DEF o
    <3>4. op'[t].pc \in Admitted
      BY Zenon, <1>1, <3>2, <3>3, GotoShape DEF CacheTypes, Places, Admitted
    <3> QED BY Zenon, <2>1, <2>2, <3>1, <3>4
  <2> QED BY Zenon, <1>6, <2>3, <2>4, <2>5
<1>7. CASE Evict(t)
  <2>1. op[t].pc = "evict" /\ insertion_lock' = insertion_lock
    BY Zenon, <1>7 DEF Evict
  <2>2. \A s \in Shards : shard_lock[s] # t
    BY Zenon, <2>1, WhatIsNotHeld
  <2>3. CASE Goto(t, "insert") /\ shard_lock' = shard_lock
    <3>1. op'[t].pc \in Admitted
      BY Zenon, <1>1, <2>3, GotoShape DEF Places, Admitted
    <3> QED BY Zenon, <2>1, <2>2, <2>3, <3>1
  <2> DEFINE o == [op[t] EXCEPT !.at = NextShard(op[t].at), !.left = op[t].left - 1]
  <2>4. CASE op' = [op EXCEPT ![t] = o] /\ shard_lock' = shard_lock
    <3>1. o.pc = op[t].pc
      BY Zenon, <1>1 DEF CacheTypes, Op
    <3> HIDE DEF o
    <3>2. op'[t].pc \in Admitted
      BY Zenon, <1>1, <2>1, <2>4, <3>1 DEF CacheTypes, Admitted
    <3> QED BY Zenon, <2>1, <2>2, <2>4, <3>2
  <2>5. ASSUME NEW k \in Victims(op[t].at), Remove(k, t), Goto(t, "evict_uncount")
        PROVE  LocksRight(t)
    <3>1. k \in Present /\ Shard[k] = op[t].at
      BY Zenon, <2>5 DEF Victims, InShard
    <3>2. op'[t].pc = "evict_uncount" /\ op'[t].at = op[t].at
      BY Zenon, <1>1, <2>5, GotoShape DEF Places
    <3>3. /\ shard_lock'[Shard[k]] = t
          /\ \A s \in Shards : s # Shard[k] => shard_lock'[s] = shard_lock[s]
      BY Zenon, <1>1, <2>5, <3>1, RemoveShape
    <3> QED BY Zenon, <2>1, <2>2, <3>1, <3>2, <3>3 DEF Admitted
  <2> QED BY Zenon, <1>7, <2>3, <2>4, <2>5 DEF Evict
<1>8. CASE EvictUncount(t)
  <2>1. /\ op[t].pc = "evict_uncount" /\ insertion_lock' = insertion_lock
        /\ Lock(op[t].at, NoThread) /\ Goto(t, "insert")
    BY Zenon, <1>8 DEF EvictUncount
  <2>2. \A s \in Shards : s # op[t].at => shard_lock[s] # t
    BY Zenon, <2>1, WhatIsNotHeld
  <2>3. /\ shard_lock'[op[t].at] = NoThread
        /\ \A s \in Shards : s # op[t].at => shard_lock'[s] = shard_lock[s]
    BY Zenon, <1>1, <1>3, <2>1, LockShape
  <2>4. op'[t].pc \in Admitted
    BY Zenon, <1>1, <2>1, GotoShape DEF Places, Admitted
  <2> QED BY Zenon, <2>1, <2>2, <2>3, <2>4
<1>9. CASE Insert(t)
  <2>1. /\ op[t].pc = "insert" /\ insertion_lock' = insertion_lock
        /\ Lock(Shard[op[t].key], t) /\ Goto(t, "count")
    BY Zenon, <1>9 DEF Insert
  <2>2. \A s \in Shards : shard_lock[s] # t
    BY Zenon, <2>1, WhatIsNotHeld
  <2>3. /\ shard_lock'[Shard[op[t].key]] = t
        /\ \A s \in Shards : s # Shard[op[t].key] => shard_lock'[s] = shard_lock[s]
    BY Zenon, <1>1, <1>2, <2>1, LockShape
  <2>4. op'[t].pc = "count" /\ op'[t].key = op[t].key
    BY Zenon, <1>1, <2>1, GotoShape DEF Places
  <2> QED BY Zenon, <2>1, <2>2, <2>3, <2>4 DEF Admitted
<1>10. CASE CountInserted(t)
  <2>1. /\ op[t].pc = "count" /\ insertion_lock' = NoThread
        /\ Lock(Shard[op[t].key], NoThread)
    BY Zenon, <1>10 DEF CountInserted
  <2>2. \A s \in Shards : s # Shard[op[t].key] => shard_lock[s] # t
    BY Zenon, <2>1, WhatIsNotHeld
  <2>3. /\ shard_lock'[Shard[op[t].key]] = NoThread
        /\ \A s \in Shards : s # Shard[op[t].key] => shard_lock'[s] = shard_lock[s]
    BY Zenon, <1>1, <1>2, <2>1, LockShape
  <2> QED BY Zenon, <2>1, <2>2, <2>3
<1> QED BY Zenon, <1>4, <1>5, <1>6, <1>7, <1>8, <1>9, <1>10 DEF Continue

\* The insertion lock comes before the locks of shards, and no thread takes a
\* second one of these.
LEMMA InUseWaitsEnd ==
  ASSUME LockInv, LocksInUse
  PROVE  WaitsEnd
<1>1. CacheTypes
  BY Zenon DEF LockInv
<1>2. ASSUME NEW u \in Threads, NEW s \in Shards, shard_lock[s] = u
      PROVE  ~Idle(u) /\ \A v \in Threads : ~WaitsFor(u, v)
  BY Zenon, <1>2 DEF LocksInUse, HoldsShard, WaitsFor, Idle
<1>3. ASSUME NEW t \in Threads, NEW u \in Threads, WaitsFor(t, u), op[t].pc # "admit"
      PROVE  ~Idle(u) /\ \A v \in Threads : ~WaitsFor(u, v)
  <2>1. op[t].at \in Shards /\ (op[t].pc # "idle" => Shard[op[t].key] \in Shards)
    BY Zenon, <1>1, AffinityCacheAssumption DEF CacheTypes, Op, Idle
  <2> QED BY Zenon, <1>2, <1>3, <2>1 DEF WaitsFor
<1>4. ASSUME NEW t \in Threads, NEW u \in Threads, WaitsFor(t, u), op[t].pc = "admit"
      PROVE  ~Idle(u) /\ op[u].pc # "admit"
  BY Zenon, <1>4 DEF WaitsFor, LocksInUse, Admitted, Idle
<1> SUFFICES ASSUME NEW t \in Threads, NEW u \in Threads, WaitsFor(t, u)
             PROVE  /\ ~Idle(u)
                    /\ \A v \in Threads : WaitsFor(u, v) =>
                         ~Idle(v) /\ \A w \in Threads : ~WaitsFor(v, w)
  BY Zenon DEF WaitsEnd
<1> QED BY Zenon, <1>3, <1>4

\* Every step of a thread brings its call closer to the end.
LEMMA ContinueAdvances ==
  ASSUME CacheTypes, NEW t \in Threads, Continue(t)
  PROVE  StepsLeft(op'[t]) < StepsLeft(op[t])
<1>1. op[t] \in Op
  BY Zenon DEF CacheTypes
<1>2. CASE Finished(t) /\ op[t].pc # "idle"
  <2>1. op'[t] \in Op /\ op'[t].pc = "idle"
    BY Zenon, <1>2, FinishedShape
  <2>2. op[t].pc \in Places
    BY Zenon, <1>1 DEF Op
  <2> QED BY <1>1, <1>2, <2>1, <2>2, StepsLeftAt DEF Places
<1>3. ASSUME NEW to \in Places, Goto(t, to),
             \/ op[t].pc = "get_write" /\ to = "uncount"
             \/ op[t].pc = "admit" /\ to = "recheck"
             \/ op[t].pc = "recheck" /\ to = "check_count"
             \/ op[t].pc = "check_count" /\ to = "insert"
             \/ op[t].pc = "evict" /\ to \in {"evict_uncount", "insert"}
             \/ op[t].pc = "evict_uncount" /\ to = "insert"
             \/ op[t].pc = "insert" /\ to = "count"
      PROVE  StepsLeft(op'[t]) < StepsLeft(op[t])
  <2>1. op'[t] \in Op /\ op'[t].pc = to
    BY Zenon, <1>3, GotoShape
  <2> QED BY <1>1, <1>3, <2>1, StepsLeftAt
<1>4. CASE GetWrite(t) \/ Uncount(t) \/ Admit(t) \/ Recheck(t) \/ EvictUncount(t)
           \/ Insert(t) \/ CountInserted(t)
  <2>1. \A to \in {"uncount", "recheck", "check_count", "insert", "count"} : to \in Places
    BY Zenon DEF Places
  <2> QED BY Zenon, <1>2, <1>3, <1>4, <2>1
          DEF GetWrite, Uncount, Admit, Recheck, EvictUncount, Insert, CountInserted
<1>5. CASE CheckCount(t)
  <2> DEFINE o == [op[t] EXCEPT !.pc = "evict", !.at = eviction_cursor, !.left = ShardCount]
  <2>1. o.pc = "evict" /\ o.left = ShardCount /\ o \in Op
    <3>1. "evict" \in Places /\ eviction_cursor \in Shards
      BY Zenon DEF CacheTypes, Places
    <3>2. ShardCount \in 0..ShardCount
      BY AffinityCacheAssumption
    <3> QED BY Zenon, <1>1, <3>1, <3>2 DEF Op
  <2>2. op[t].pc = "check_count" /\ (op' = [op EXCEPT ![t] = o] \/ Goto(t, "insert"))
    BY Zenon, <1>5 DEF CheckCount
  <2> HIDE DEF o
  <2>3. CASE op' = [op EXCEPT ![t] = o]
    <3>1. op'[t] = o
      BY Zenon, <2>3 DEF CacheTypes
    <3> QED BY <1>1, <2>1, <2>2, <3>1, StepsLeftAt
  <2> QED BY Zenon, <1>3, <2>2, <2>3 DEF Places
<1>6. CASE Evict(t)
  <2> DEFINE o == [op[t] EXCEPT !.at = NextShard(op[t].at), !.left = op[t].left - 1]
  <2>1. op[t].pc = "evict"
    BY Zenon, <1>6 DEF Evict
  <2>2. CASE op[t].left > 0 /\ op' = [op EXCEPT ![t] = o]
    <3>1. o.pc = "evict" /\ o.left = op[t].left - 1 /\ o \in Op
      <4>1. op[t].left \in 0..ShardCount /\ NextShard(op[t].at) \in Shards
        BY Zenon, <1>1, NextShardShape DEF Op
      <4>2. op[t].left - 1 \in 0..ShardCount
        BY <2>2, <4>1, AffinityCacheAssumption
      <4> QED BY Zenon, <1>1, <2>1, <4>1, <4>2 DEF Op
    <3> HIDE DEF o
    <3>2. op'[t] = o
      BY Zenon, <2>2 DEF CacheTypes
    <3> QED BY <1>1, <2>1, <3>1, <3>2, StepsLeftAt
  <2> QED BY Zenon, <1>3, <1>6, <2>1, <2>2 DEF Evict, Places
<1> QED BY Zenon, <1>4, <1>5, <1>6 DEF Continue

\* A call that has begun is not begun again.
LEMMA StepAdvances ==
  ASSUME CacheInv, [AffinityNext]_affinity_vars, NEW t \in Threads, ~Idle(t), op'[t] # op[t]
  PROVE  StepsLeft(op'[t]) < StepsLeft(op[t])
<1>1. LockInv /\ CacheTypes
  BY Zenon DEF CacheInv, LockInv
<1>2. PICK u \in Threads : Call(u) \/ Continue(u)
  BY Zenon DEF affinity_vars, AffinityNext, Tick
<1>3. u = t
  BY Zenon, <1>1, <1>2, ThreadStep DEF StepsRight, OthersStay
<1>4. ~Call(t)
  BY Zenon DEF Call, Get, Clear, Record
<1> QED BY Zenon, <1>1, <1>2, <1>3, <1>4, ContinueAdvances

\* However many threads use the cache, and however its keys are placed, no lock is
\* left behind and no threads wait for each other: record takes insertion_lock
\* before any shard and gives a shard back before evict_one takes the next.
THEOREM CacheNeverDeadlocks == AffinitySpec => []WaitsEnd
<1>1. AffinityInit => LocksInUse
  BY Zenon, AffinityCacheAssumption DEF AffinityInit, LocksInUse
<1>2. CacheInv /\ LocksInUse /\ [AffinityNext]_affinity_vars => LocksInUse'
  <2> SUFFICES ASSUME CacheInv, LocksInUse, [AffinityNext]_affinity_vars PROVE LocksInUse'
    BY Zenon
  <2>1. LockInv
    BY Zenon DEF CacheInv, LockInv
  <2>2. CASE Tick \/ UNCHANGED affinity_vars
    BY Zenon, <2>2 DEF Tick, affinity_vars, LocksInUse, HoldsShard
  <2>3. ASSUME NEW t \in Threads, Call(t) \/ Continue(t) PROVE LocksInUse'
    <3>1. OthersStay(t)
      BY Zenon, <2>1, <2>3, ThreadStep DEF StepsRight
    <3> QED BY Zenon, <2>1, <2>3, <3>1, CallLocks, ContinueLocks, LocksRightInUse
  <2> QED BY Zenon, <2>2, <2>3 DEF AffinityNext
<1>3. CacheInv /\ LocksInUse => WaitsEnd
  BY Zenon, InUseWaitsEnd DEF CacheInv, LockInv
<1> QED BY <1>1, <1>2, <1>3, CacheInvariant, PTL DEF AffinitySpec

\* A call of the cache has at most ShardCount + 7 steps, and takes no step back
\* however the other threads interfere.
THEOREM CallsAlwaysAdvance == AffinitySpec => CallsAdvance
<1>1. CacheInv /\ [AffinityNext]_affinity_vars =>
        [\A t \in Threads :
           ~Idle(t) /\ op'[t] # op[t] => StepsLeft(op'[t]) < StepsLeft(op[t])]_affinity_vars
  BY Zenon, StepAdvances
<1> QED BY <1>1, CacheInvariant, PTL DEF AffinitySpec, CallsAdvance

=============================================================================
