--------------------------- MODULE AffinityCache ---------------------------
(***************************************************************************)
(* ChannelAffinityCache: which channel a session sticks to.  All worker    *)
(* threads of a gateway share one cache.  Its map is split into shards     *)
(* with a lock each; the number of entries is an atomic counter beside     *)
(* them, and only the admission of a new key is serialised, by             *)
(* insertion_lock.                                                         *)
(*                                                                         *)
(* A block under a shard lock that changes the map and then the counter is *)
(* two steps here, because another thread reads the counter without that   *)
(* lock.  Everything else under a lock is one step.                        *)
(***************************************************************************)
EXTENDS Integers, FiniteSets

CONSTANTS
  Threads,    \* gateway worker threads
  CacheKeys,  \* affinity cache keys
  ShardCount, \* AFFINITY_CACHE_SHARDS
  Shard,      \* affinity_shard_index: the shard of each key
  Limits,     \* the max_entries of the snapshots that workers hold
  Ttls,       \* ttl_seconds of the affinity rules
  NoEntry,    \* a key that is not in the map
  NoThread,   \* a lock that is free
  MaxTime     \* bound on the clock

AtLeastOneOf(n) == IF n < 1 THEN 1 ELSE n

Shards == 0..(ShardCount - 1)

\* (s + 1) % AFFINITY_CACHE_SHARDS
NextShard(s) == IF s + 1 = ShardCount THEN 0 ELSE s + 1

ASSUME AffinityCacheAssumption ==
  /\ IsFiniteSet(Threads) /\ IsFiniteSet(CacheKeys)
  /\ ShardCount \in Nat \ {0}
  /\ Shard \in [CacheKeys -> Shards]
  /\ Limits \subseteq Nat /\ Limits # {}
  /\ Ttls \subseteq Nat
  /\ MaxTime \in Nat
  /\ NoEntry \notin Nat
  /\ NoThread \notin Threads

VARIABLES
  entries,         \* shards: when the entry of a key expires
  shard_lock,      \* the thread that holds the write lock of a shard
  entry_count,     \* entry_count
  insertion_lock,  \* the thread that holds insertion_lock
  eviction_cursor, \* eviction_cursor, modulo the number of shards
  op,              \* what each thread is doing
  clock            \* Instant::now()

affinity_vars ==
  <<entries, shard_lock, entry_count, insertion_lock, eviction_cursor, op, clock>>

Places ==
  {"idle",
   "get_write",    \* get saw an expired entry and wants the write lock
   "uncount",      \* removed an entry, about to decrement the counter
   "admit",        \* record did not find its key and wants insertion_lock
   "recheck",      \* holds insertion_lock
   "check_count",  \* its key is still absent
   "evict",        \* evict_one looks for a shard with an entry
   "evict_uncount",
   "insert",
   "count"}        \* inserted its entry, about to increment the counter

\* now: the time get read before it took a lock.  expires: what record is going
\* to store.  at: the shard that evict_one looks at, of left that are left.
Op == [pc : Places, key : CacheKeys \cup {NoEntry}, now : Nat, expires : Nat,
       limit : Nat, at : Shards, left : 0..ShardCount]
IdleOp == [pc |-> "idle", key |-> NoEntry, now |-> 0, expires |-> 0,
           limit |-> 0, at |-> 0, left |-> 0]

Present == {k \in CacheKeys : entries[k] # NoEntry}
InShard(s) == {k \in Present : Shard[k] = s}

AffinityTypeOK ==
  /\ entries \in [CacheKeys -> Nat \cup {NoEntry}]
  /\ shard_lock \in [Shards -> Threads \cup {NoThread}]
  /\ entry_count \in Nat
  /\ insertion_lock \in Threads \cup {NoThread}
  /\ eviction_cursor \in Shards
  /\ op \in [Threads -> Op]
  /\ clock \in 0..MaxTime

AffinityInit ==
  /\ entries = [k \in CacheKeys |-> NoEntry]
  /\ shard_lock = [s \in Shards |-> NoThread]
  /\ entry_count = 0
  /\ insertion_lock = NoThread
  /\ eviction_cursor = 0
  /\ op = [t \in Threads |-> IdleOp]
  /\ clock = 0

Idle(t) == op[t].pc = "idle"
Unlocked(k) == shard_lock[Shard[k]] = NoThread
Finished(t) == op' = [op EXCEPT ![t] = IdleOp]
Goto(t, pc) == op' = [op EXCEPT ![t] = [@ EXCEPT !.pc = pc]]

Lock(s, t) == shard_lock' = [shard_lock EXCEPT ![s] = t]

\* Take the entry of k out of the map; its shard stays locked until the
\* counter has followed.
Remove(k, t) ==
  /\ entries' = [entries EXCEPT ![k] = NoEntry]
  /\ Lock(Shard[k], t)

-----------------------------------------------------------------------------
(***************************************************************************)
(* get and clear                                                           *)
(***************************************************************************)

\* Under the read lock: a hit or a miss is the end of it.  now was read before
\* the thread waited for that lock.
Get(t, k, now) ==
  /\ Idle(t)
  /\ Unlocked(k)
  /\ k \in Present
  /\ entries[k] <= now
  /\ op' = [op EXCEPT ![t] = [IdleOp EXCEPT !.pc = "get_write", !.key = k, !.now = now]]
  /\ UNCHANGED <<entries, shard_lock, entry_count, insertion_lock, eviction_cursor, clock>>

\* Variant of GetWrite: the entry is removed without another look.
GetWriteBlind(t) ==
  LET k == op[t].key IN
  /\ op[t].pc = "get_write"
  /\ Unlocked(k)
  /\ \/ k \in Present /\ Remove(k, t) /\ Goto(t, "uncount")
     \/ k \notin Present /\ Finished(t) /\ UNCHANGED <<entries, shard_lock>>
  /\ UNCHANGED <<entry_count, insertion_lock, eviction_cursor, clock>>

\* Under the write lock the entry is looked at again.
GetWrite(t) ==
  LET k == op[t].key
      Expired == k \in Present /\ entries[k] <= op[t].now
  IN
  /\ op[t].pc = "get_write"
  /\ Unlocked(k)
  /\ \/ Expired /\ Remove(k, t) /\ Goto(t, "uncount")
     \/ ~Expired /\ Finished(t) /\ UNCHANGED <<entries, shard_lock>>
  /\ UNCHANGED <<entry_count, insertion_lock, eviction_cursor, clock>>

Clear(t, k) ==
  /\ Idle(t)
  /\ Unlocked(k)
  /\ k \in Present
  /\ Remove(k, t)
  /\ op' = [op EXCEPT ![t] = [IdleOp EXCEPT !.pc = "uncount", !.key = k]]
  /\ UNCHANGED <<entry_count, insertion_lock, eviction_cursor, clock>>

\* fetch_sub, and the shard is unlocked.
Uncount(t) ==
  /\ op[t].pc = "uncount"
  /\ entry_count' = entry_count - 1
  /\ Lock(Shard[op[t].key], NoThread)
  /\ Finished(t)
  /\ UNCHANGED <<entries, insertion_lock, eviction_cursor, clock>>

-----------------------------------------------------------------------------
(***************************************************************************)
(* record                                                                  *)
(***************************************************************************)

\* A key that is there is updated in place.  now was read before the lock, too.
Record(t, k, ttl, limit, now) ==
  /\ Idle(t)
  /\ Unlocked(k)
  /\ \/ /\ k \in Present
        /\ entries' = [entries EXCEPT ![k] = now + AtLeastOneOf(ttl)]
        /\ UNCHANGED op
     \/ /\ k \notin Present
        /\ op' = [op EXCEPT ![t] =
                    [IdleOp EXCEPT !.pc = "admit", !.key = k, !.limit = AtLeastOneOf(limit),
                                   !.expires = now + AtLeastOneOf(ttl)]]
        /\ UNCHANGED entries
  /\ UNCHANGED <<shard_lock, entry_count, insertion_lock, eviction_cursor, clock>>

\* insertion_lock
Admit(t) ==
  /\ op[t].pc = "admit"
  /\ insertion_lock = NoThread
  /\ insertion_lock' = t
  /\ Goto(t, "recheck")
  /\ UNCHANGED <<entries, shard_lock, entry_count, eviction_cursor, clock>>

\* Variants of Recheck: without another look, and with the shard still locked
\* when it goes on.
RecheckBlind(t) ==
  /\ op[t].pc = "recheck"
  /\ Unlocked(op[t].key)
  /\ Goto(t, "check_count")
  /\ UNCHANGED <<entries, shard_lock, entry_count, insertion_lock, eviction_cursor, clock>>

RecheckLocked(t) ==
  LET k == op[t].key IN
  /\ op[t].pc = "recheck"
  /\ Unlocked(k)
  /\ \/ /\ k \in Present
        /\ entries' = [entries EXCEPT ![k] = op[t].expires]
        /\ insertion_lock' = NoThread
        /\ Finished(t)
        /\ UNCHANGED shard_lock
     \/ /\ k \notin Present
        /\ Lock(Shard[k], t)
        /\ Goto(t, "check_count")
        /\ UNCHANGED <<entries, insertion_lock>>
  /\ UNCHANGED <<entry_count, eviction_cursor, clock>>

\* The key may have come in since record first looked.
Recheck(t) ==
  LET k == op[t].key IN
  /\ op[t].pc = "recheck"
  /\ Unlocked(k)
  /\ \/ /\ k \in Present
        /\ entries' = [entries EXCEPT ![k] = op[t].expires]
        /\ insertion_lock' = NoThread
        /\ Finished(t)
     \/ /\ k \notin Present
        /\ Goto(t, "check_count")
        /\ UNCHANGED <<entries, insertion_lock>>
  /\ UNCHANGED <<shard_lock, entry_count, eviction_cursor, clock>>

\* Variant of Full: off by one.
FullAbove(t) == entry_count > op[t].limit

Full(t) == entry_count >= op[t].limit

\* entry_count.load; evict_one begins at the shard of the cursor.
CheckCount(t) ==
  /\ op[t].pc = "check_count"
  /\ \/ /\ Full(t)
        /\ op' = [op EXCEPT ![t] = [@ EXCEPT !.pc = "evict", !.at = eviction_cursor,
                                             !.left = ShardCount]]
        /\ eviction_cursor' = NextShard(eviction_cursor)
     \/ /\ ~Full(t)
        /\ Goto(t, "insert")
        /\ UNCHANGED eviction_cursor
  /\ UNCHANGED <<entries, shard_lock, entry_count, insertion_lock, clock>>

\* The entry of the shard that expires first.
Victims(s) == {k \in InShard(s) : \A j \in InShard(s) : entries[k] <= entries[j]}

Evict(t) ==
  LET s == op[t].at IN
  /\ op[t].pc = "evict"
  /\ \/ /\ op[t].left = 0
        /\ Goto(t, "insert")
        /\ UNCHANGED <<entries, shard_lock>>
     \/ /\ op[t].left > 0
        /\ shard_lock[s] = NoThread
        /\ \/ /\ InShard(s) = {}
              /\ op' = [op EXCEPT ![t] = [@ EXCEPT !.at = NextShard(s),
                                                   !.left = op[t].left - 1]]
              /\ UNCHANGED <<entries, shard_lock>>
           \/ \E k \in Victims(s) : Remove(k, t) /\ Goto(t, "evict_uncount")
  /\ UNCHANGED <<entry_count, insertion_lock, eviction_cursor, clock>>

EvictUncount(t) ==
  /\ op[t].pc = "evict_uncount"
  /\ entry_count' = entry_count - 1
  /\ Lock(op[t].at, NoThread)
  /\ Goto(t, "insert")
  /\ UNCHANGED <<entries, insertion_lock, eviction_cursor, clock>>

Insert(t) ==
  LET k == op[t].key IN
  /\ op[t].pc = "insert"
  /\ Unlocked(k)
  /\ entries' = [entries EXCEPT ![k] = op[t].expires]
  /\ Lock(Shard[k], t)
  /\ Goto(t, "count")
  /\ UNCHANGED <<entry_count, insertion_lock, eviction_cursor, clock>>

\* fetch_add, and both locks are released.
CountInserted(t) ==
  /\ op[t].pc = "count"
  /\ entry_count' = entry_count + 1
  /\ Lock(Shard[op[t].key], NoThread)
  /\ insertion_lock' = NoThread
  /\ Finished(t)
  /\ UNCHANGED <<entries, eviction_cursor, clock>>

Tick ==
  /\ clock < MaxTime
  /\ clock' = clock + 1
  /\ UNCHANGED <<entries, shard_lock, entry_count, insertion_lock, eviction_cursor, op>>

-----------------------------------------------------------------------------
Call(t) ==
  \E k \in CacheKeys, now \in 0..clock :
    \/ Get(t, k, now) \/ Clear(t, k)
    \/ \E ttl \in Ttls, limit \in Limits : Record(t, k, ttl, limit, now)

Continue(t) ==
  \/ GetWrite(t) \/ Uncount(t)
  \/ Admit(t) \/ Recheck(t) \/ CheckCount(t)
  \/ Evict(t) \/ EvictUncount(t) \/ Insert(t) \/ CountInserted(t)

AffinityNext == Tick \/ \E t \in Threads : Call(t) \/ Continue(t)

AffinitySpec == AffinityInit /\ [][AffinityNext]_affinity_vars

(***************************************************************************)
(* Fairness.  A thread that runs goes on, and a lock that is released      *)
(* again and again is granted to every thread that waits for it.           *)
(***************************************************************************)
AffinityFairness == \A t \in Threads : SF_affinity_vars(Continue(t))

-----------------------------------------------------------------------------
(***************************************************************************)
(* Properties                                                              *)
(***************************************************************************)

Uncounting == {t \in Threads : op[t].pc \in {"uncount", "evict_uncount"}}
Counting == {t \in Threads : op[t].pc = "count"}

\* The counter is the number of entries, give or take the threads that are
\* between the map and the counter.  It never drifts away from the map, so it
\* never drops below zero either, where an unsigned counter would wrap and
\* every admission evict.
CountIsExact ==
  entry_count + Cardinality(Counting) = Cardinality(Present) + Cardinality(Uncounting)

\* However the threads interleave, and whichever of the configured limits each
\* of them goes by, the cache never holds more entries than the largest limit.
CapacityBounded == \E limit \in Limits : Cardinality(Present) <= AtLeastOneOf(limit)

\* get drops an entry only when it has expired: a session that was recorded
\* again while get waited for the write lock keeps its channel.
GetKeepsLiveEntries ==
  [][\A t \in Threads, k \in CacheKeys :
       op[t].pc = "get_write" /\ op'[t].pc = "uncount" /\ k \in Present /\ k \notin Present'
         => entries[k] <= clock]_affinity_vars

\* Thread t waits for a lock that u holds.
WaitsFor(t, u) ==
  \/ op[t].pc = "admit" /\ insertion_lock = u
  \/ op[t].pc \in {"get_write", "recheck", "insert"} /\ shard_lock[Shard[op[t].key]] = u
  \/ op[t].pc = "evict" /\ op[t].left > 0 /\ shard_lock[op[t].at] = u

\* No lock is left behind, and no threads wait for each other: who holds the lock
\* of a shard waits for nothing, and who holds insertion_lock waits only for such
\* a thread, so a chain of waiting threads ends, after two of them at most, with
\* one that is in a call and can go on.
WaitsEnd ==
  \A t, u \in Threads : WaitsFor(t, u) =>
    /\ ~Idle(u)
    /\ \A v \in Threads : WaitsFor(u, v) => ~Idle(v) /\ \A w \in Threads : ~WaitsFor(v, w)

\* A bound on the steps that a call still has to take.
StepsLeft(o) ==
  CASE o.pc = "idle" -> 0
    [] o.pc \in {"uncount", "count"} -> 1
    [] o.pc \in {"get_write", "insert"} -> 2
    [] o.pc = "evict_uncount" -> 3
    [] o.pc = "evict" -> 4 + o.left
    [] o.pc = "check_count" -> 5 + ShardCount
    [] o.pc = "recheck" -> 6 + ShardCount
    [] o.pc = "admit" -> 7 + ShardCount

\* A call never goes back: evict_one visits every shard once, and nothing is
\* tried again, whatever other threads do to the map and the counter meanwhile.
CallsAdvance ==
  [][\A t \in Threads :
       ~Idle(t) /\ op'[t] # op[t] => StepsLeft(op'[t]) < StepsLeft(op[t])]_affinity_vars

\* Every call ends.
CallsEnd == \A t \in Threads : (op[t].pc # "idle") ~> (op[t].pc = "idle")

=============================================================================
