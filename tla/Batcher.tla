------------------------------- MODULE Batcher -------------------------------
(***************************************************************************)
(* The Batcher of storage/redis/counters_cache.rs at the grain of its      *)
(* locks, permits and notifications, with the flush task of                *)
(* storage/redis/redis_cached.rs.  CachedCounter has the values; here a    *)
(* counter has writes pending or not.                                      *)
(*                                                                         *)
(* `updates` is a DashMap: an entry that a task holds locks its shard, and *)
(* `len`, `iter`, `get` and `remove_if` wait for the shards they visit.    *)
(***************************************************************************)
EXTENDS Naturals, FiniteSets

CONSTANTS
  Counters,
  Shard,      \* the shard of `updates` that a counter is in
  Adders,     \* tasks that call Batcher::add
  Permits,    \* max_cached_counters
  BatchSize,
  MaxAdds, MaxFaults

ASSUME BatcherAssumption == IsFiniteSet(Counters) /\ Permits \in Nat /\ BatchSize \in Nat
ASSUME BoundsAssumption == MaxAdds \in Nat /\ MaxFaults \in Nat

VARIABLES
  updates,    \* the counters in the map
  pending,    \* counters with writes that Redis has not got
  urgent,     \* counters that require a fast flush
  permits,    \* of the limiter
  notified,   \* the notifier holds a permit
  priority,   \* priority_flush
  adder,      \* where each task is in add: <<place, counter, requires_fast_flush>>
  flusher,    \* where the flush task is
  batch,      \* the counters it has taken
  adds, faults

vars == <<updates, pending, urgent, permits, notified, priority, adder, flusher, batch, adds, faults>>

Init ==
  /\ updates = {} /\ pending = {} /\ urgent = {}
  /\ permits = Permits
  /\ notified = FALSE /\ priority = FALSE
  /\ adder = [a \in Adders |-> <<"idle">>]
  /\ flusher = "check"
  /\ batch = {}
  /\ adds = 0 /\ faults = 0

\* A task that waits for a permit holds the entry of its counter, and its shard.
Waiting(a) == adder[a][1] = "permit"
Locked(s) == \E a \in Adders : Waiting(a) /\ Shard[adder[a][2]] = s
AllFree == \A c \in Counters : ~Locked(Shard[c])
-----------------------------------------------------------------------------
\* Batcher::add, after the increment; requires_fast_flush is read first.
Increment(a, c, fast) ==
  /\ adder[a][1] = "idle" /\ adds < MaxAdds
  /\ adds' = adds + 1
  /\ pending' = pending \cup {c}
  /\ urgent' = IF fast THEN urgent \cup {c} ELSE urgent \ {c}
  /\ adder' = [adder EXCEPT ![a] = <<"entry", c, fast>>]
  /\ UNCHANGED <<updates, permits, notified, priority, flusher, batch, faults>>

\* The entry of a counter that is in the map already ...
Occupied(a) ==
  /\ adder[a][1] = "entry" /\ adder[a][2] \in updates
  /\ ~Locked(Shard[adder[a][2]])
  /\ adder' = [adder EXCEPT ![a][1] = IF adder[a][3] THEN "priority" ELSE "notify"]
  /\ UNCHANGED <<updates, pending, urgent, permits, notified, priority, flusher, batch, adds, faults>>

\* ... or a vacant one, for which a permit is needed.  The shard stays locked.
Vacant(a) ==
  /\ adder[a][1] = "entry" /\ adder[a][2] \notin updates
  /\ ~Locked(Shard[adder[a][2]])
  /\ adder' = [adder EXCEPT ![a][1] = "permit"]
  /\ UNCHANGED <<updates, pending, urgent, permits, notified, priority, flusher, batch, adds, faults>>

\* Faulty variant of Insert: the permit is not taken for good.
InsertFree(a) ==
  /\ Waiting(a) /\ permits > 0
  /\ updates' = updates \cup {adder[a][2]}
  /\ adder' = [adder EXCEPT ![a][1] = IF adder[a][3] THEN "priority" ELSE "notify"]
  /\ UNCHANGED <<pending, urgent, permits, notified, priority, flusher, batch, adds, faults>>

Insert(a) ==
  /\ Waiting(a) /\ permits > 0
  /\ permits' = permits - 1
  /\ updates' = updates \cup {adder[a][2]}
  /\ adder' = [adder EXCEPT ![a][1] = IF adder[a][3] THEN "priority" ELSE "notify"]
  /\ UNCHANGED <<pending, urgent, notified, priority, flusher, batch, adds, faults>>

\* Faulty variant of SetPriority: a priority flush is not notified.
SetPriorityOnly(a) ==
  /\ adder[a][1] = "priority"
  /\ priority' = TRUE
  /\ adder' = [adder EXCEPT ![a] = <<"idle">>]
  /\ UNCHANGED <<updates, pending, urgent, permits, notified, flusher, batch, adds, faults>>

SetPriority(a) ==
  /\ adder[a][1] = "priority"
  /\ priority' = TRUE
  /\ adder' = [adder EXCEPT ![a][1] = "notify"]
  /\ UNCHANGED <<updates, pending, urgent, permits, notified, flusher, batch, adds, faults>>

NotifyOne(a) ==
  /\ adder[a][1] = "notify"
  /\ notified' = TRUE
  /\ adder' = [adder EXCEPT ![a] = <<"idle">>]
  /\ UNCHANGED <<updates, pending, urgent, permits, priority, flusher, batch, adds, faults>>
-----------------------------------------------------------------------------
\* The flush task: Batcher::consume.

\* batch_ready looks at the size of the map, and takes the priority flag.
BatchReady ==
  /\ AllFree
  /\ LET full == Cardinality(updates) >= BatchSize IN
     /\ flusher' = IF full \/ priority THEN "collect" ELSE "wait"
     /\ priority' = (full /\ priority)

Check ==
  /\ flusher = "check"
  /\ BatchReady
  /\ UNCHANGED <<updates, pending, urgent, permits, notified, adder, batch, adds, faults>>

Notified ==
  /\ flusher = "wait" /\ notified
  /\ notified' = FALSE
  /\ BatchReady
  /\ UNCHANGED <<updates, pending, urgent, permits, adder, batch, adds, faults>>

\* The interval has passed.
Elapsed ==
  /\ flusher = "wait"
  /\ flusher' = "collect"
  /\ UNCHANGED <<updates, pending, urgent, permits, notified, priority, adder, batch, adds, faults>>

\* As many urgent counters as fit, and then as many of all as there is room for.
Batches ==
  LET fast == updates \cap urgent
      MinOf(a, b) == IF a < b THEN a ELSE b
      Of(S, k) == {B \in SUBSET S : Cardinality(B) = MinOf(k, Cardinality(S))} IN
  UNION {{B \cup R : R \in Of(updates, BatchSize - Cardinality(B))} : B \in Of(fast, BatchSize)}

\* The batch is collected, and update_counters takes the pending writes.
Collect ==
  /\ flusher = "collect" /\ AllFree
  /\ \E B \in Batches : batch' = B /\ pending' = pending \ B
  /\ flusher' = "redis"
  /\ UNCHANGED <<updates, urgent, permits, notified, priority, adder, adds, faults>>

\* Redis has the writes.
Flushed ==
  /\ flusher = "redis"
  /\ flusher' = "remove"
  /\ UNCHANGED <<updates, pending, urgent, permits, notified, priority, adder, batch, adds, faults>>

\* A transient error: the writes are returned.
Transient ==
  /\ flusher = "redis" /\ faults < MaxFaults
  /\ faults' = faults + 1
  /\ pending' = pending \cup batch
  /\ batch' = {}
  /\ flusher' = "check"
  /\ UNCHANGED <<updates, urgent, permits, notified, priority, adder, adds>>

\* Any other error: the flush task panics.
Unrecoverable ==
  /\ flusher = "redis" /\ faults < MaxFaults
  /\ faults' = faults + 1
  /\ flusher' = "dead"
  /\ UNCHANGED <<updates, pending, urgent, permits, notified, priority, adder, batch, adds>>

\* Faulty variant of Remove: whatever was flushed is removed.
RemoveAll(c) ==
  /\ flusher = "remove" /\ c \in batch /\ ~Locked(Shard[c])
  /\ batch' = batch \ {c}
  /\ updates' = updates \ {c}
  /\ permits' = permits + 1
  /\ UNCHANGED <<pending, urgent, notified, priority, adder, flusher, adds, faults>>

\* remove_if: a counter that has got new writes stays.
Remove(c) ==
  /\ flusher = "remove" /\ c \in batch /\ ~Locked(Shard[c])
  /\ batch' = batch \ {c}
  /\ IF c \in pending THEN UNCHANGED <<updates, permits>>
     ELSE updates' = updates \ {c} /\ permits' = permits + 1
  /\ UNCHANGED <<pending, urgent, notified, priority, adder, flusher, adds, faults>>

\* apply_remote_delta follows: what was flushed is from the authority now.
Applied ==
  /\ flusher = "remove" /\ batch = {}
  /\ flusher' = "check"
  /\ urgent' = urgent \cap pending
  /\ UNCHANGED <<updates, pending, permits, notified, priority, adder, batch, adds, faults>>

Add(a) == Occupied(a) \/ Vacant(a) \/ Insert(a) \/ SetPriority(a) \/ NotifyOne(a)
Consume ==
  \/ Check \/ Notified \/ Elapsed \/ Collect \/ Flushed \/ Applied
  \/ \E c \in Counters : Remove(c)

Next ==
  \/ \E a \in Adders :
       \/ \E c \in Counters, fast \in BOOLEAN : Increment(a, c, fast)
       \/ Add(a)
  \/ Consume \/ Transient \/ Unrecoverable

Spec == Init /\ [][Next]_vars

\* The tasks run, and the interval passes.
FairSpec == Spec /\ WF_vars(Consume) /\ \A a \in Adders : WF_vars(Add(a))
-----------------------------------------------------------------------------
TypeOK ==
  /\ updates \subseteq Counters /\ pending \subseteq Counters /\ urgent \subseteq Counters
  /\ permits \in 0 .. Permits
  /\ notified \in BOOLEAN /\ priority \in BOOLEAN
  /\ \A a \in Adders : adder[a][1] \in {"idle", "entry", "permit", "priority", "notify"}
  /\ flusher \in {"check", "wait", "collect", "redis", "remove", "dead"}
  /\ batch \subseteq Counters
  /\ adds \in 0 .. MaxAdds /\ faults \in 0 .. MaxFaults

(***************************************************************************)
(* Each counter in the map has exactly one permit of the limiter: the map  *)
(* never outgrows max_cached_counters, and no permit is ever lost.         *)
(***************************************************************************)
PermitPerEntry == permits + Cardinality(updates) = Permits

(***************************************************************************)
(* A priority flush is never left for the interval: a flush task that is   *)
(* to wait with the flag set has a notification, or is about to get one.   *)
(***************************************************************************)
PriorityWakes ==
  flusher = "wait" /\ priority => notified \/ \E a \in Adders : adder[a][1] = "notify"

(***************************************************************************)
(* Increments are flushed to Redis in the background (the comment at       *)
(* update_counter): writes do not stay pending for ever.                   *)
(***************************************************************************)
EventuallyFlushed == \A c \in Counters : c \in pending ~> c \notin pending

(***************************************************************************)
(* They are, except when the flush task has died, or the map is full: the  *)
(* task that waits for a permit keeps the flush task from removing any.    *)
(***************************************************************************)
FlushedUnlessFull ==
  \A c \in Counters :
    c \in pending ~> \/ c \notin pending
                     \/ flusher = "dead"
                     \/ permits = 0 /\ \E a \in Adders : Waiting(a)
=============================================================================
